------------------------ MODULE LoadAndUnload_proofs ------------------------
(***************************************************************************)
(* Proofs about loading and unloading: what the init and exit functions of *)
(* any drivers leave registered when steps of them fail, and which crashes *)
(* follow (DriverLoad); what hello_exit's order of waiting and free_irq    *)
(* lets through (DeferredWork); for every number of processors, what       *)
(* spin_lock_irqsave keeps apart and which timers outlive their module     *)
(* (TimerUnload).                                                          *)
(***************************************************************************)
EXTENDS MCUnloadRaces, DriverLoad, TLAPS

-----------------------------------------------------------------------------
(* The load table: what is registered, what is given back *)

\* What the steps before step i of d's init function register if all succeed.
Got(d, i) == {r \in Resources : \E j \in 1 .. i - 1 : Steps(d)[j].get = r}

All(d) == Got(d, Len(Steps(d)) + 1)

\* The releases of s, and everything that goes away by them.
Elems(s) == {r \in Resources : \E j \in 1 .. Len(s) : s[j] = r}
Freed(s) == {r \in Resources : \E j \in 1 .. Len(s) : r \in {s[j]} \cup Below(s[j])}

\* What cannot be released any more once r is: a device node needs its class.
Gone(r) == {r} \cup Below(r) \cup (IF r = "class" THEN {"device"} ELSE {})

\* No release of s finds its resource gone by an earlier one.
Clean(s) == \A j, k \in 1 .. Len(s) : j < k => s[k] \notin Gone(s[j])

\* No device node is released after its class.
Ordered(s) == \A j, k \in 1 .. Len(s) : (j < k /\ s[j] = "class") => s[k] # "device"

\* The drivers whose interrupt handler needs their workqueue.
NeedsQueue == {"own_workqueues", "linked_list"}

\* alloc_chrdev_region, cdev_add, class_create and device_create.
FrontGot == {"region", "cdev", "class", "device"}

\* What a driver with failed steps F may leave behind.
MayRemain(d, F) ==
    IF F \subseteq FrontGot THEN Forgotten(d) \cup LeftRegistered(d, F)
    ELSE {r \in Resources :
             /\ r = "class" => F \cap {"kobject", "sysfs", "irq", "wq", "procdir"} # {}
             /\ r = "irq" => d \in NeedsQueue /\ "wq" \in F}

\* The failures after which the kernel may have kept the module.
Lucky(d, F) ==
    /\ F # {}
    /\ d \in {"misc_module", "usb", "device_driver"} \/ (d = "temp_watch" /\ "procdir" \in F)

\* A failure that ends in an error return or at a label; the others go on.
Stops(kind, label) == kind \notin Threads \cup {"timer", "wake"} /\ label # "ignored"

\* One of the steps before step i makes the class and ends the load when it fails.
ClassChecked(d, i) ==
    \E j \in 1 .. i - 1 : Steps(d)[j].get = "class" /\ Stops("class", Steps(d)[j].err)

\* The drivers that do not look at what class_create returns.
UncheckedClass == {"kmalloc", "vmalloc", "custom_slab_cache"}

\* A loaded driver whose steps have all been run has a class, or does not know
\* that it has none.
ClassMade(d) ==
    ClassChecked(d, Len(Steps(d)) + 1) \/ (d \in UncheckedClass /\ "class" \in All(d))

\* A driver with failed steps F that set the pointers p releases a device node
\* without a class.
Excused(d, p, F) ==
    IF "class" \in p THEN d = "device_driver" /\ "device" \in F
    ELSE \/ d \in UncheckedClass /\ "class" \in F
         \/ d = "device_driver" /\ F \cap {"region", "class"} # {}

\* The exit function of d releases a device node.
HasNode(d) == "device" \in Elems(Program[d].exit)

\* Step i of d, which registers kind and fails to label.
EntryTyped(d, i, kind, label) ==
    /\ kind \in Resources \cup Tests
    /\ kind = "wake" => "thread" \in Got(d, i) /\ d \notin NeedsQueue
    /\ label = "never" <=> kind \in {"timer", "wake"}
    /\ kind \in Below("procdir") =>
         \E j \in 1 .. i - 1 :
            Steps(d)[j].get = "procdir" /\ Stops("procdir", Steps(d)[j].err)

\* The class when the unwinding s of step i, for kind, ends with d loaded.
KeptSound(d, i, kind, s) ==
    \/ s = <<>> /\ ClassChecked(d, i)
    \/ d = "device_driver" /\ kind = "device" /\ ClassChecked(d, i)
    \/ d = "device_driver" /\ kind \in {"region", "class"} /\ "class" \notin Got(d, i)

ReturnSound(d, i, kind) == Got(d, i) \subseteq MayRemain(d, {kind})

LabelSound(d, i, kind, label, s) ==
    /\ s \in Seq(Resources)
    /\ Got(d, i) \ Freed(s) \subseteq MayRemain(d, {kind})
    /\ Elems(s) \cap Threads \subseteq Got(d, i)
    /\ "sysfs" \in Elems(s) => "kobject" \in Got(d, i) /\ (d = "sysfs_module" => kind = "sysfs")
    /\ Clean(s) \/ (d = "sysfs_module" /\ kind = "sysfs")
    /\ d \in {"gpio", "sysfs_module"} => Elems(s) \cap Threads = {}
    /\ d = "gpio" => "sysfs" \notin Elems(s)
    /\ Ordered(s)
    /\ "device" \in Elems(s) => ClassChecked(d, i)
    /\ d \in DOMAIN KeepsLoaded /\ label \in KeepsLoaded[d] =>
         Lucky(d, {kind}) /\ (HasNode(d) => KeptSound(d, i, kind, s))
    /\ d \in NeedsQueue => "irq" \notin Got(d, i)

EntrySound(d, i) ==
    LET kind == Steps(d)[i].get
        label == Steps(d)[i].err
    IN  /\ EntryTyped(d, i, kind, label)
        /\ Stops(kind, label) =>
             IF label = "return" THEN ReturnSound(d, i, kind)
             ELSE LabelSound(d, i, kind, label, Unwinding(d, label))

ExitSound(d, s) ==
    /\ s \in Seq(Resources)
    /\ Elems(s) \subseteq All(d)
    /\ All(d) \ Freed(s) \subseteq Forgotten(d)
    /\ Clean(s) \/ d = "gpio"
    /\ Ordered(s)
    /\ "device" \in Elems(s) => ClassMade(d)
    /\ "sysfs" \in Elems(s) =>
         /\ "kobject" \in All(d)
         /\ d \notin {"gpio", "sysfs_module", "misc_module", "temp_watch", "usb",
                     "device_driver"}
    /\ Elems(s) \cap Threads # {} =>
         d \notin {"gpio", "sysfs_module", "misc_module", "usb", "device_driver"}

\* The interrupt handler's workqueue is the last thing made and the first
\* thing destroyed, the handler itself the second.
QueueSound(d) ==
    /\ Program[d].uses # {} => d \in NeedsQueue
    /\ d \in NeedsQueue =>
         LET last == Len(Steps(d))
             s == Program[d].exit
         IN  /\ Program[d].uses = {"wq"}
             /\ last >= 1
             /\ Steps(d)[last].get = "wq"
             /\ Steps(d)[last].err = "return"
             /\ s # <<>> /\ Head(s) = "wq"
             /\ Tail(s) # <<>> /\ Head(Tail(s)) = "irq"

TableSound(d) ==
    /\ Len(Steps(d)) \in Nat
    /\ \A i \in 1 .. Len(Steps(d)) : EntrySound(d, i)
    /\ ExitSound(d, Program[d].exit)
    /\ QueueSound(d)
    /\ d = "device_driver" =>
         /\ All(d) = {"region", "class", "device"}
         /\ \A j \in 1 .. Len(Steps(d)) :
               Steps(d)[j].get \in FrontGot /\ Stops(Steps(d)[j].get, Steps(d)[j].err)

-----------------------------------------------------------------------------
(* Operators of the model that are defined by cases *)

LEMMA BelowIs ==
    \A k : /\ k = "procdir" => Below(k) = {"x_status", "wait", "value", "threshold"}
           /\ k = "kobject" => Below(k) = {"sysfs"}
           /\ k \notin {"procdir", "kobject"} => Below(k) = {}
           /\ k # "class" => Gone(k) = {k} \cup Below(k)
           /\ k = "class" => Gone(k) = {"class", "device"}
<1>1. \A k : /\ k = "procdir" => Below(k) = {"x_status", "wait", "value", "threshold"}
             /\ k = "kobject" => Below(k) = {"sysfs"}
             /\ k \notin {"procdir", "kobject"} => Below(k) = {}
  BY Zenon DEF Below
<1> QED BY <1>1 DEF Gone

LEMMA ParentIs ==
    \A k : /\ k = "device" => Parent(k) = {"class"}
           /\ k = "sysfs" => Parent(k) = {"kobject"}
           /\ k = "wake" => Parent(k) = {"thread"}
           /\ k = "export" => Parent(k) = {"gpio"}
           /\ k \notin {"device", "sysfs", "wake", "export"} => Parent(k) = {}
BY Zenon DEF Parent

LEMMA ForgottenIs ==
    \A d : /\ d = "ioctl" => Forgotten(d) = {"cdev"}
           /\ d = "sysfs_module" => Forgotten(d) = {"kobject", "sysfs"}
           /\ d \in {"wait_queue_module", "completion_module"} => Forgotten(d) = {"thread"}
           /\ d \notin {"ioctl", "sysfs_module", "wait_queue_module", "completion_module"} =>
                Forgotten(d) = {}
BY Zenon DEF Forgotten

LEMMA ThroughPointerIs ==
    \A d, k : /\ k \in ptr[d] => ThroughPointer(d, k) = {{"stale"}, {"stale", "oops"}}
              /\ k \notin ptr[d] => ThroughPointer(d, k) = {{"oops"}}
BY DEF ThroughPointer

LEMMA BadReleaseIs ==
    ASSUME NEW d, NEW k
    PROVE  /\ k \in Threads => BadRelease(d, k) = {{"oops"}}
           /\ k = "sysfs" /\ "kobject" \in held[d] => BadRelease(d, k) = {{}}
           /\ k = "sysfs" /\ "kobject" \notin held[d] =>
                BadRelease(d, k) = ThroughPointer(d, "kobject")
           /\ k = "device" /\ "class" \in held[d] => BadRelease(d, k) = {{}}
           /\ k = "device" /\ "class" \notin held[d] =>
                BadRelease(d, k) = ThroughPointer(d, "class")
           /\ k \notin Threads \cup {"sysfs", "device", "wq"} =>
                BadRelease(d, k) \in {{{}}, {{"warn"}}}
           /\ k = "wq" => BadRelease(d, k) = {{}}
<1> DEFINE warned == {"irq", "misc", "usb", "gpio", "wait", "value", "threshold"}
           pointed == \/ k = "sysfs" /\ "kobject" \notin held[d]
                      \/ k = "device" /\ "class" \notin held[d]
<1>1. k \in Threads => k \notin {"sysfs", "device", "wq"} /\ k \notin warned
  BY DEF Threads
<1>2. CASE k \in Threads
  <2>1. BadRelease(d, k) = {{"oops"}}
    BY <1>2, <1>1, Zenon DEF BadRelease
  <2> QED BY <1>1, <1>2, <2>1
<1>3. CASE k = "sysfs" /\ "kobject" \notin held[d]
  <2>1. k \notin Threads /\ k \notin warned /\ k \notin {"device", "wq"}
    BY <1>3 DEF Threads
  <2>2. BadRelease(d, k) = ThroughPointer(d, "kobject")
    BY <1>3, <2>1, Zenon DEF BadRelease
  <2> QED BY <1>3, <2>1, <2>2
<1>4. CASE k = "device" /\ "class" \notin held[d]
  <2>1. k \notin Threads /\ k \notin warned /\ k \notin {"sysfs", "wq"}
    BY <1>4 DEF Threads
  <2>2. BadRelease(d, k) = ThroughPointer(d, "class")
    BY <1>4, <2>1, Zenon DEF BadRelease
  <2> QED BY <1>4, <2>1, <2>2
<1>5. CASE k \notin Threads /\ ~pointed /\ k \in warned
  <2>1. BadRelease(d, k) = {{"warn"}}
    BY <1>5, Zenon DEF BadRelease
  <2>2. k \notin {"wq", "sysfs", "device"}
    BY <1>5
  <2> QED BY <1>5, <2>1, <2>2
<1>6. CASE k \notin Threads /\ k \notin warned /\ ~pointed
  <2>1. BadRelease(d, k) = {{}}
    BY <1>6, Zenon DEF BadRelease
  <2> QED BY <1>6, <2>1
<1> QED BY <1>2, <1>3, <1>4, <1>5, <1>6

LEMMA FailureNextIs ==
    ASSUME NEW d, NEW label, FailureNext(d, label)
    PROVE  /\ label = "ignored" =>
                /\ step' = [step EXCEPT ![d] = step[d] + 1]
                /\ UNCHANGED <<phase, todo, ends, held, orphans>>
           /\ label = "return" => Leave(d) /\ UNCHANGED <<step, todo, ends>>
           /\ label \notin {"ignored", "return"} =>
                /\ phase' = [phase EXCEPT ![d] = "undo"]
                /\ todo' = [todo EXCEPT ![d] = Unwinding(d, label)]
                /\ ends' = [ends EXCEPT ![d] =
                     IF d \in DOMAIN KeepsLoaded /\ label \in KeepsLoaded[d]
                     THEN "loaded" ELSE "out"]
                /\ UNCHANGED <<step, held, orphans>>
BY Zenon DEF FailureNext

-----------------------------------------------------------------------------
LEMMA GotTypes == \A d, i : Got(d, i) \subseteq Resources
BY DEF Got

LEMMA GotGrows ==
    ASSUME NEW d, NEW i \in Nat, i >= 1, Steps(d)[i].get \in Resources \cup Tests
    PROVE  Got(d, i + 1) = Got(d, i) \cup ({Steps(d)[i].get} \ Tests)
BY DEF Got, Resources, Tests, Threads

LEMMA GotFirst == \A d : Got(d, 1) = {}
BY DEF Got

LEMMA FreedEmpty == Elems(<<>>) = {} /\ Freed(<<>>) = {}
BY DEF Elems, Freed

LEMMA TailReleases ==
    ASSUME NEW s \in Seq(Resources), s # <<>>
    PROVE  /\ Head(s) \in Resources
           /\ Tail(s) \in Seq(Resources)
           /\ Elems(s) = {Head(s)} \cup Elems(Tail(s))
           /\ Freed(s) \subseteq {Head(s)} \cup Below(Head(s)) \cup Freed(Tail(s))
           /\ Clean(s) => /\ Clean(Tail(s))
                          /\ \A r \in Elems(Tail(s)) : r \notin {Head(s)} \cup Below(Head(s))
           /\ Ordered(s) => /\ Ordered(Tail(s))
                            /\ Head(s) = "class" => "device" \notin Elems(Tail(s))
<1> DEFINE t == Tail(s)
<1>1. /\ Head(s) = s[1] /\ Head(s) \in Resources /\ t \in Seq(Resources)
      /\ Len(s) \in Nat /\ Len(s) >= 1 /\ Len(t) = Len(s) - 1
      /\ \A j \in 1 .. Len(t) : t[j] = s[j + 1]
  OBVIOUS
<1>2. \A j \in 1 .. Len(s) : s[j] = Head(s) \/ (j - 1 \in 1 .. Len(t) /\ s[j] = t[j - 1])
  BY <1>1
<1>3. Elems(s) = {Head(s)} \cup Elems(t)
  BY <1>1, <1>2 DEF Elems
<1>4. Freed(s) \subseteq {Head(s)} \cup Below(Head(s)) \cup Freed(t)
  BY <1>1, <1>2 DEF Freed
<1>5. ASSUME Clean(s)
      PROVE  Clean(t) /\ \A r \in Elems(t) : r \notin {Head(s)} \cup Below(Head(s))
  <2>1. \A j \in 1 .. Len(t) : 1 < j + 1 /\ j + 1 \in 1 .. Len(s) /\ 1 \in 1 .. Len(s)
    BY <1>1
  <2>2. \A r \in Elems(t) : r \notin {Head(s)} \cup Below(Head(s))
    BY <1>1, <1>5, <2>1 DEF Clean, Elems, Gone
  <2>3. Clean(t)
    BY <1>1, <1>5, <2>1 DEF Clean
  <2> QED BY <2>2, <2>3
<1>6. ASSUME Ordered(s)
      PROVE  Ordered(t) /\ (Head(s) = "class" => "device" \notin Elems(t))
  <2>1. \A j \in 1 .. Len(t) : 1 < j + 1 /\ j + 1 \in 1 .. Len(s) /\ 1 \in 1 .. Len(s)
    BY <1>1
  <2>2. Head(s) = "class" => "device" \notin Elems(t)
    BY <1>1, <1>6, <2>1 DEF Ordered, Elems
  <2>3. Ordered(t)
    BY <1>1, <1>6, <2>1 DEF Ordered
  <2> QED BY <2>2, <2>3
<1> QED BY <1>1, <1>3, <1>4, <1>5, <1>6

\* Releases that are clean, or that free no device node, are in order.
LEMMA CleanIsOrdered ==
    \A s : (Clean(s) \/ "device" \notin Elems(s)) => Ordered(s)
BY DEF Clean, Gone, Elems, Ordered, Resources

LEMMA ForgottenTypes == \A d : Forgotten(d) \subseteq Resources \ {"class", "irq"}
BY ForgottenIs DEF Resources, Threads

LEMMA LeftRegisteredTypes ==
    \A d, F : /\ LeftRegistered(d, F) \subseteq {"region", "cdev"}
              /\ \A G : F \subseteq G => LeftRegistered(d, F) \subseteq LeftRegistered(d, G)
BY DEF LeftRegistered

LEMMA MayRemainGrows ==
    ASSUME NEW d, NEW F, NEW G, F \subseteq G
    PROVE  MayRemain(d, F) \subseteq MayRemain(d, G)
<1>1. CASE G \subseteq FrontGot
  BY <1>1, LeftRegisteredTypes DEF MayRemain
<1>2. CASE ~(G \subseteq FrontGot)
  BY <1>2, ForgottenTypes, LeftRegisteredTypes DEF MayRemain, Resources, Threads, FrontGot
<1> QED BY <1>1, <1>2

-----------------------------------------------------------------------------
(* The load table: sequences of releases *)

\* s releases E, each resource while it is there.
Releases(s, E) == s \in Seq(Resources) /\ Elems(s) = E /\ Clean(s)

LEMMA ReleasesJoin ==
    ASSUME NEW s \in Seq(Resources), NEW t \in Seq(Resources)
    PROVE  /\ s \o t \in Seq(Resources)
           /\ Elems(s \o t) = Elems(s) \cup Elems(t)
           /\ /\ Clean(s) /\ Clean(t)
              /\ \A r \in Elems(s) : Gone(r) \cap Elems(t) = {}
              => Clean(s \o t)
           /\ Ordered(s) /\ Ordered(t) /\ "class" \notin Elems(s) => Ordered(s \o t)
<1> DEFINE u == s \o t
           n == Len(s)
<1>1. /\ u \in Seq(Resources) /\ n \in Nat /\ Len(t) \in Nat /\ Len(u) = n + Len(t)
      /\ \A j \in 1 .. n : j \in 1 .. Len(u) /\ u[j] = s[j]
      /\ \A j \in 1 .. Len(t) : n + j \in 1 .. Len(u) /\ u[n + j] = t[j]
  OBVIOUS
<1>2. \A j \in 1 .. Len(u) : \/ j \in 1 .. n /\ u[j] = s[j]
                             \/ j - n \in 1 .. Len(t) /\ u[j] = t[j - n] /\ j > n
  BY <1>1
<1>3. Elems(u) = Elems(s) \cup Elems(t)
  BY <1>1, <1>2 DEF Elems
<1>4. ASSUME Clean(s), Clean(t), \A r \in Elems(s) : Gone(r) \cap Elems(t) = {}
      PROVE  Clean(u)
  <2> SUFFICES ASSUME NEW j \in 1 .. Len(u), NEW k \in 1 .. Len(u), j < k
               PROVE  u[k] \notin Gone(u[j])
    BY DEF Clean
  <2>1. CASE j \in 1 .. n /\ k \in 1 .. n
    BY <1>1, <1>4, <2>1 DEF Clean
  <2>2. CASE j \in 1 .. n /\ k > n
    <3>1. u[j] \in Elems(s) /\ u[k] \in Elems(t)
      BY <1>1, <1>2, <2>2 DEF Elems
    <3> QED BY <1>4, <3>1
  <2>3. CASE j > n /\ k > n
    <3>1. /\ j - n \in 1 .. Len(t) /\ k - n \in 1 .. Len(t) /\ j - n < k - n
          /\ u[j] = t[j - n] /\ u[k] = t[k - n]
      BY <1>1, <1>2, <2>3
    <3> QED BY <1>4, <3>1 DEF Clean
  <2> QED BY <1>1, <2>1, <2>2, <2>3
<1>5. ASSUME Ordered(s), Ordered(t), "class" \notin Elems(s)
      PROVE  Ordered(u)
  <2> SUFFICES ASSUME NEW j \in 1 .. Len(u), NEW k \in 1 .. Len(u), j < k, u[j] = "class"
               PROVE  u[k] # "device"
    BY DEF Ordered
  <2>1. ~(j \in 1 .. n /\ u[j] = s[j])
    BY <1>5 DEF Elems, Resources
  <2>2. /\ j - n \in 1 .. Len(t) /\ k - n \in 1 .. Len(t) /\ j - n < k - n
        /\ u[j] = t[j - n] /\ u[k] = t[k - n]
    BY <1>1, <1>2, <2>1
  <2> QED BY <1>5, <2>2 DEF Ordered
<1> QED BY <1>1, <1>3, <1>4, <1>5

LEMMA Join ==
    ASSUME NEW s, NEW t, NEW E, NEW F, Releases(s, E), Releases(t, F),
           \A r \in E : Gone(r) \cap F = {}
    PROVE  Releases(s \o t, E \cup F)
BY ReleasesJoin DEF Releases

LEMMA ElemsFreed == \A s : Elems(s) \subseteq Freed(s)
BY DEF Elems, Freed

-----------------------------------------------------------------------------
(* The load table: steps of the common kinds *)

\* Step i of d registers kind and, when it fails, goes to label.
Entry(d, i, kind, label) == Steps(d)[i].get = kind /\ Steps(d)[i].err = label

LEMMA ThreadEntry ==
    ASSUME NEW d, NEW i, NEW label, NEW kind \in Threads, label # "never",
           Entry(d, i, kind, label)
    PROVE  EntrySound(d, i)
<1>1. Steps(d)[i].get = kind /\ Steps(d)[i].err = label
  BY DEF Entry
<1>2. EntryTyped(d, i, kind, label)
  BY BelowIs DEF EntryTyped, Resources, Threads
<1> QED BY <1>1, <1>2 DEF EntrySound, Stops

\* A step whose result is not looked at, in a directory only when that is there.
LEMMA IgnoredEntry ==
    ASSUME NEW d, NEW i, NEW kind \in Resources \ {"timer"}, Entry(d, i, kind, "ignored"),
           kind \in Below("procdir") =>
             \E j \in 1 .. i - 1 :
                Steps(d)[j].get = "procdir" /\ Stops("procdir", Steps(d)[j].err)
    PROVE  EntrySound(d, i)
BY DEF EntrySound, EntryTyped, Stops, Entry, Resources, Threads

LEMMA TimerEntry ==
    ASSUME NEW d, NEW i, Entry(d, i, "timer", "never")
    PROVE  EntrySound(d, i)
<1>1. Steps(d)[i].get = "timer" /\ Steps(d)[i].err = "never"
  BY DEF Entry
<1>2. EntryTyped(d, i, "timer", "never")
  BY BelowIs DEF EntryTyped, Resources
<1> QED BY <1>1, <1>2 DEF EntrySound, Stops

LEMMA NotBelow == "wake" \notin Below("procdir")
BY BelowIs

LEMMA WakeEntry ==
    ASSUME NEW d, NEW i, Entry(d, i, "wake", "never"), "thread" \in Got(d, i),
           d \notin NeedsQueue
    PROVE  EntrySound(d, i)
<1>1. Steps(d)[i].get = "wake" /\ Steps(d)[i].err = "never"
  BY DEF Entry
<1>2. EntryTyped(d, i, "wake", "never")
  <2>1. "wake" \notin Below("procdir")
    BY NotBelow
  <2>2. "wake" \in Resources \cup Tests
    BY DEF Tests
  <2> QED BY <2>1, <2>2 DEF EntryTyped
<1> QED BY <1>1, <1>2 DEF EntrySound, Stops

\* What may fail and is not made in a /proc directory.
Plain ==
    (Resources \cup Tests)
        \ (Threads \cup {"timer", "wake", "x_status", "wait", "value", "threshold"})

LEMMA ReturnEntry ==
    ASSUME NEW d, NEW i, NEW kind \in Plain, Entry(d, i, kind, "return"),
           Got(d, i) \subseteq MayRemain(d, {kind})
    PROVE  EntrySound(d, i)
BY BelowIs DEF EntrySound, EntryTyped, ReturnSound, Stops, Entry, Plain

\* Step i of d, for kind, unwinds at label by releasing E.
LabelFits(d, i, kind, label, E) ==
    /\ Entry(d, i, kind, label) /\ kind \in Plain
    /\ label \notin {"never", "ignored", "return", "r_miscdevice", "return0"}
    /\ Releases(Unwinding(d, label), E)
    /\ Got(d, i) \ E \subseteq MayRemain(d, {kind})
    /\ E \cap Threads \subseteq Got(d, i)
    /\ "sysfs" \in E => "kobject" \in Got(d, i)
    /\ d \in {"gpio", "sysfs_module"} => E \cap (Threads \cup {"sysfs"}) = {}
    /\ "device" \in E => ClassChecked(d, i)
    /\ d = "device_driver" => KeptSound(d, i, kind, Unwinding(d, label))
    /\ d \in NeedsQueue => "irq" \notin Got(d, i)

LEMMA LabelEntry ==
    ASSUME NEW d, NEW i, NEW kind, NEW label, NEW E, LabelFits(d, i, kind, label, E)
    PROVE  EntrySound(d, i)
<1> DEFINE s == Unwinding(d, label)
<1>1. Got(d, i) \ Freed(s) \subseteq MayRemain(d, {kind})
  BY ElemsFreed DEF LabelFits, Releases
<1>2. d \in DOMAIN KeepsLoaded /\ label \in KeepsLoaded[d] =>
        Lucky(d, {kind}) /\ KeptSound(d, i, kind, s)
  <2>1. \A e \in DOMAIN KeepsLoaded \ {"device_driver"} :
          KeepsLoaded[e] \subseteq {"r_miscdevice", "return0"}
    BY DEF KeepsLoaded
  <2> QED BY <2>1 DEF LabelFits, Lucky
<1>3. LabelSound(d, i, kind, label, s)
  BY <1>1, <1>2, CleanIsOrdered DEF LabelSound, Releases, LabelFits
<1>4. EntryTyped(d, i, kind, label)
  BY BelowIs DEF EntryTyped, LabelFits, Plain
<1>5. Steps(d)[i].get = kind /\ Steps(d)[i].err = label /\ label # "return"
  BY DEF Entry, LabelFits
<1> QED BY <1>3, <1>4, <1>5 DEF EntrySound

Fronted(d) ==
    /\ Entry(d, 1, "region", "return") /\ Entry(d, 2, "cdev", "r_class")
    /\ Entry(d, 3, "class", "r_class") /\ Entry(d, 4, "device", "r_device")
    /\ Releases(Unwinding(d, "r_class"), {"region", "cdev"})
    /\ \/ Releases(Unwinding(d, "r_device"), {"class"}) /\ d \notin LongUnwinding
       \/ Releases(Unwinding(d, "r_device"), {"class", "region", "cdev"})
    /\ d # "device_driver"

LEMMA FrontGots ==
    ASSUME NEW d, Fronted(d)
    PROVE  /\ Got(d, 2) = {"region"} /\ Got(d, 3) = {"region", "cdev"}
           /\ Got(d, 4) = {"region", "cdev", "class"} /\ Got(d, 5) = FrontGot
BY DEF Fronted, Got, Entry, Resources, FrontGot

LEMMA FrontEntries ==
    ASSUME NEW d, Fronted(d)
    PROVE  \A i \in 1 .. 4 : EntrySound(d, i)
<1> USE DEF Plain, Resources, Tests, Threads
<1>1. EntrySound(d, 1)
  BY GotFirst, ReturnEntry DEF Fronted
<1>2. LabelFits(d, 2, "cdev", "r_class", {"region", "cdev"})
  BY FrontGots DEF Fronted, LabelFits
<1>3. LabelFits(d, 3, "class", "r_class", {"region", "cdev"})
  BY FrontGots DEF Fronted, LabelFits
<1>4. \E E : LabelFits(d, 4, "device", "r_device", E)
  <2>1. CASE Releases(Unwinding(d, "r_device"), {"class"}) /\ d \notin LongUnwinding
    <3>1. Got(d, 4) \ {"class"} \subseteq MayRemain(d, {"device"})
      BY <2>1, FrontGots DEF MayRemain, LeftRegistered, FrontGot
    <3>2. LabelFits(d, 4, "device", "r_device", {"class"})
      BY <2>1, <3>1, FrontGots DEF Fronted, LabelFits
    <3> QED BY <3>2
  <2>2. CASE Releases(Unwinding(d, "r_device"), {"class", "region", "cdev"})
    <3>1. LabelFits(d, 4, "device", "r_device", {"class", "region", "cdev"})
      BY <2>2, FrontGots DEF Fronted, LabelFits
    <3> QED BY <3>1
  <2> QED BY <2>1, <2>2 DEF Fronted
<1> QED BY <1>1, <1>2, <1>3, <1>4, LabelEntry

-----------------------------------------------------------------------------
(* The load table, driver by driver *)

LEMMA CommonReleases ==
    /\ Releases(r_class, {"region", "cdev"})
    /\ Releases(<<"class">>, {"class"})
    /\ Releases(FrontExit, FrontGot)
    /\ Releases(<<>>, {})
BY BelowIs DEF Releases, Elems, Clean, r_class, FrontExit, FrontGot, Resources, Threads

LEMMA SysfsReleases == Releases(r_sysfs, {"sysfs", "kobject", "region", "cdev"})
<1>1. Releases(<<"sysfs", "kobject">>, {"sysfs", "kobject"})
  BY BelowIs DEF Releases, Elems, Clean, Resources, Threads
<1> QED BY <1>1, CommonReleases, Join, BelowIs DEF r_sysfs

\* free_irq, and what follows it.
LEMMA IrqReleases ==
    /\ Releases(<<"irq", "thread">> \o r_sysfs,
                {"irq", "thread", "sysfs", "kobject", "region", "cdev"})
    /\ Releases(<<"irq">> \o r_sysfs, {"irq", "sysfs", "kobject", "region", "cdev"})
    /\ Releases(<<"irq">> \o r_class, {"irq", "region", "cdev"})
<1>1. Releases(<<"irq", "thread">>, {"irq", "thread"}) /\ Releases(<<"irq">>, {"irq"})
  BY BelowIs DEF Releases, Elems, Clean, Resources, Threads
<1>2. Releases(<<"irq", "thread">> \o r_sysfs,
               {"irq", "thread", "sysfs", "kobject", "region", "cdev"})
  BY <1>1, SysfsReleases, Join, BelowIs
<1>3. Releases(<<"irq">> \o r_sysfs, {"irq", "sysfs", "kobject", "region", "cdev"})
  BY <1>1, SysfsReleases, Join, BelowIs
<1>4. Releases(<<"irq">> \o r_class, {"irq", "region", "cdev"})
  BY <1>1, CommonReleases, Join, BelowIs
<1> QED BY <1>2, <1>3, <1>4

LEMMA JoinFront ==
    ASSUME NEW s, NEW E, Releases(s, E), E \cap FrontGot = {}
    PROVE  Releases(s \o FrontExit, E \cup FrontGot)
<1>1. \A r \in E : Gone(r) \cap FrontGot = {}
  BY BelowIs DEF FrontGot
<1> QED BY <1>1, CommonReleases, Join

\* The releases s of E suit d, which has no failed step.
ExitFits(d, s, E) ==
    /\ \/ Releases(s, E)
       \/ d = "gpio" /\ s \in Seq(Resources) /\ Elems(s) = E /\ Ordered(s)
    /\ E \subseteq All(d)
    /\ All(d) \ E \subseteq Forgotten(d)
    /\ "sysfs" \in E =>
         /\ "kobject" \in E
         /\ d \notin {"gpio", "sysfs_module", "misc_module", "temp_watch", "usb",
                     "device_driver"}
    /\ E \cap Threads # {} =>
         d \notin {"gpio", "sysfs_module", "misc_module", "usb", "device_driver"}
    /\ "device" \in E => ClassMade(d)

LEMMA ExitEntry ==
    ASSUME NEW d, NEW s, NEW E, ExitFits(d, s, E)
    PROVE  ExitSound(d, s)
BY ElemsFreed, CleanIsOrdered DEF ExitFits, ExitSound, Releases

\* The front makes a class and ends the load when it cannot.
LEMMA FrontChecksClass ==
    \A d : Fronted(d) =>
              /\ ClassChecked(d, 4) /\ ClassChecked(d, 5)
              /\ (Len(Steps(d)) \in Nat /\ Len(Steps(d)) >= 4) => ClassMade(d)
<1> SUFFICES ASSUME NEW d, Fronted(d)
             PROVE  /\ ClassChecked(d, 4) /\ ClassChecked(d, 5)
                    /\ (Len(Steps(d)) \in Nat /\ Len(Steps(d)) >= 4) => ClassMade(d)
  OBVIOUS
<1>1. Steps(d)[3].get = "class" /\ Stops("class", Steps(d)[3].err)
  BY DEF Fronted, Entry, Stops, Threads
<1> QED BY <1>1 DEF ClassChecked, ClassMade

\* kobject_create_and_add and sysfs_create_file after the common front.
SysfsFronted(d) ==
    /\ Fronted(d)
    /\ Entry(d, 5, "kobject", "ignored") /\ Entry(d, 6, "sysfs", "r_sysfs")
    /\ Unwinding(d, "r_sysfs") = r_sysfs

LEMMA SysfsEntries ==
    ASSUME NEW d, SysfsFronted(d), d \notin {"gpio", "sysfs_module"}
    PROVE  \A i \in 1 .. 6 : EntrySound(d, i)
<1> USE DEF Plain, Resources, Tests, Threads
<1>1. Fronted(d) /\ Entry(d, 5, "kobject", "ignored") /\ Entry(d, 6, "sysfs", "r_sysfs")
  BY DEF SysfsFronted
<1>2. EntrySound(d, 5)
  BY <1>1, IgnoredEntry, BelowIs
<1>3. Got(d, 6) = FrontGot \cup {"kobject"}
  BY <1>1 DEF Fronted, Got, Entry, FrontGot
<1>4. LabelFits(d, 6, "sysfs", "r_sysfs", {"sysfs", "kobject", "region", "cdev"})
  <2>1. Got(d, 6) \ {"sysfs", "kobject", "region", "cdev"} \subseteq MayRemain(d, {"sysfs"})
    BY <1>3 DEF FrontGot, MayRemain
  <2> QED BY <1>1, <1>3, <2>1, SysfsReleases DEF SysfsFronted, Fronted, LabelFits, FrontGot
<1> QED BY <1>1, <1>2, <1>4, FrontEntries, LabelEntry

LEMMA UnwindingIs ==
    \A d, label :
       /\ label \in DOMAIN Program[d].undo => Unwinding(d, label) = Program[d].undo[label]
       /\ label \notin DOMAIN Program[d].undo =>
            /\ label = "r_class" => Unwinding(d, label) = r_class
            /\ label = "r_device" => Unwinding(d, label) = <<"class">>
BY DEF Unwinding, FrontUndo

-----------------------------------------------------------------------------
(* The load table: drivers of the common shape *)

\* Two threads beside the sysfs file.
LEMMA SpinlockTable ==
    ASSUME NEW d \in {"spinlock_module", "seqlock_module"}
    PROVE  TableSound(d)
<1> DEFINE E == {"thread", "thread1", "sysfs", "kobject"}
<1>1. /\ SysfsFronted(d) /\ Len(Steps(d)) = 8 /\ Program[d].uses = {}
      /\ Entry(d, 7, "thread", "r_thread") /\ Entry(d, 8, "thread1", "r_thread")
  <2>1. /\ Len(Steps(d)) = 8 /\ Program[d].uses = {}
        /\ Entry(d, 1, "region", "return") /\ Entry(d, 2, "cdev", "r_class")
        /\ Entry(d, 3, "class", "r_class") /\ Entry(d, 4, "device", "r_device")
        /\ Entry(d, 5, "kobject", "ignored") /\ Entry(d, 6, "sysfs", "r_sysfs")
        /\ Entry(d, 7, "thread", "r_thread") /\ Entry(d, 8, "thread1", "r_thread")
    BY SMTT(30) DEF Entry, Steps, Program, spinlock_module, seqlock_module, Common, Front,
                    SysfsFile, On
  <2>2. /\ DOMAIN Program[d].undo = {"r_thread", "r_sysfs"}
        /\ Program[d].undo.r_sysfs = r_sysfs
    BY DEF Program, spinlock_module, seqlock_module, Common
  <2>3. /\ Unwinding(d, "r_class") = r_class /\ Unwinding(d, "r_device") = <<"class">>
        /\ Unwinding(d, "r_sysfs") = r_sysfs
    BY <2>2, UnwindingIs
  <2> QED BY <2>1, <2>3, CommonReleases DEF SysfsFronted, Fronted, LongUnwinding
<1>2. Releases(Program[d].exit, E \cup FrontGot)
  <2>1. Program[d].exit = <<"thread", "thread1", "sysfs", "kobject">> \o FrontExit
    BY DEF Program, spinlock_module, seqlock_module, Common
  <2>2. Releases(<<"thread", "thread1", "sysfs", "kobject">>, E)
    BY BelowIs DEF Releases, Elems, Clean, Resources, Threads
  <2> QED BY <2>1, <2>2, JoinFront DEF FrontGot
<1>3. All(d) = FrontGot \cup {"kobject", "sysfs", "thread", "thread1"}
  BY <1>1 DEF All, Got, Entry, SysfsFronted, Fronted, FrontGot, Resources, Threads
<1>4. ExitFits(d, Program[d].exit, E \cup FrontGot)
  <2>1. Fronted(d) /\ Len(Steps(d)) \in Nat /\ Len(Steps(d)) >= 4
    BY <1>1 DEF SysfsFronted
  <2>2. ClassMade(d)
    BY <2>1, FrontChecksClass
  <2> QED BY <1>2, <1>3, <2>2, ForgottenIs DEF ExitFits, FrontGot, Threads
<1>5. EntrySound(d, 7)
  BY <1>1, ThreadEntry DEF Threads
<1>6. EntrySound(d, 8)
  BY <1>1, ThreadEntry DEF Threads
<1>7. QueueSound(d)
  BY <1>1 DEF QueueSound, NeedsQueue
<1>8. \A i \in 1 .. 8 : EntrySound(d, i)
  BY <1>1, <1>5, <1>6, SysfsEntries
<1> QED BY <1>1, <1>4, <1>7, <1>8, ExitEntry DEF TableSound

\* Three threads beside the sysfs file.
LEMMA RwSpinlockTable ==
    ASSUME NEW d \in {"rwspinlock_module"}
    PROVE  TableSound(d)
<1> DEFINE E == {"thread", "thread1", "thread2", "sysfs", "kobject"}
<1>1. /\ SysfsFronted(d) /\ Len(Steps(d)) = 9 /\ Program[d].uses = {}
      /\ Entry(d, 7, "thread", "r_thread") /\ Entry(d, 8, "thread1", "r_thread1")
      /\ Entry(d, 9, "thread2", "r_thread2")
  <2>1. /\ Len(Steps(d)) = 9 /\ Program[d].uses = {}
        /\ Entry(d, 1, "region", "return") /\ Entry(d, 2, "cdev", "r_class")
        /\ Entry(d, 3, "class", "r_class") /\ Entry(d, 4, "device", "r_device")
        /\ Entry(d, 5, "kobject", "ignored") /\ Entry(d, 6, "sysfs", "r_sysfs")
        /\ Entry(d, 7, "thread", "r_thread") /\ Entry(d, 8, "thread1", "r_thread1")
        /\ Entry(d, 9, "thread2", "r_thread2")
    BY SMTT(30) DEF Entry, Steps, Program, rwspinlock_module, Common, Front, SysfsFile, On
  <2>2. /\ DOMAIN Program[d].undo = {"r_thread", "r_thread1", "r_thread2", "r_sysfs"}
        /\ Program[d].undo.r_sysfs = r_sysfs
    BY DEF Program, rwspinlock_module, Common
  <2>3. /\ Unwinding(d, "r_class") = r_class /\ Unwinding(d, "r_device") = <<"class">>
        /\ Unwinding(d, "r_sysfs") = r_sysfs
    BY <2>2, UnwindingIs
  <2> QED BY <2>1, <2>3, CommonReleases DEF SysfsFronted, Fronted, LongUnwinding
<1>2. Releases(Program[d].exit, E \cup FrontGot)
  <2>1. Program[d].exit = <<"thread", "thread1", "thread2", "sysfs", "kobject">> \o FrontExit
    BY DEF Program, rwspinlock_module, Common
  <2>2. Releases(<<"thread", "thread1", "thread2", "sysfs", "kobject">>, E)
    BY BelowIs DEF Releases, Elems, Clean, Resources, Threads
  <2> QED BY <2>1, <2>2, JoinFront DEF FrontGot
<1>3. All(d) = FrontGot \cup {"kobject", "sysfs", "thread", "thread1", "thread2"}
  BY <1>1 DEF All, Got, Entry, SysfsFronted, Fronted, FrontGot, Resources, Threads
<1>4. ExitFits(d, Program[d].exit, E \cup FrontGot)
  <2>1. Fronted(d) /\ Len(Steps(d)) \in Nat /\ Len(Steps(d)) >= 4
    BY <1>1 DEF SysfsFronted
  <2>2. ClassMade(d)
    BY <2>1, FrontChecksClass
  <2> QED BY <1>2, <1>3, <2>2, ForgottenIs DEF ExitFits, FrontGot, Threads
<1>5. EntrySound(d, 7)
  BY <1>1, ThreadEntry DEF Threads
<1>6. EntrySound(d, 8)
  BY <1>1, ThreadEntry DEF Threads
<1>7. EntrySound(d, 9)
  BY <1>1, ThreadEntry DEF Threads
<1>8. QueueSound(d)
  BY <1>1 DEF QueueSound, NeedsQueue
<1>9. \A i \in 1 .. 9 : EntrySound(d, i)
  BY <1>1, <1>5, <1>6, <1>7, SysfsEntries
<1> QED BY <1>1, <1>4, <1>8, <1>9, ExitEntry DEF TableSound

\* A thread and a timer beside the sysfs file.
LEMMA SpinlockInterruptsTable ==
    ASSUME NEW d \in {"spinlock_with_interrupts"}
    PROVE  TableSound(d)
<1> DEFINE E == {"thread", "timer", "sysfs", "kobject"}
<1>1. /\ SysfsFronted(d) /\ Len(Steps(d)) = 8 /\ Program[d].uses = {}
      /\ Entry(d, 7, "thread", "r_thread") /\ Entry(d, 8, "timer", "never")
  <2>1. /\ Len(Steps(d)) = 8 /\ Program[d].uses = {}
        /\ Entry(d, 1, "region", "return") /\ Entry(d, 2, "cdev", "r_class")
        /\ Entry(d, 3, "class", "r_class") /\ Entry(d, 4, "device", "r_device")
        /\ Entry(d, 5, "kobject", "ignored") /\ Entry(d, 6, "sysfs", "r_sysfs")
        /\ Entry(d, 7, "thread", "r_thread") /\ Entry(d, 8, "timer", "never")
    BY SMTT(30) DEF Entry, Steps, Program, spinlock_with_interrupts, Common, Front,
                    SysfsFile, On
  <2>2. /\ DOMAIN Program[d].undo = {"r_thread", "r_sysfs"}
        /\ Program[d].undo.r_sysfs = r_sysfs
    BY DEF Program, spinlock_with_interrupts, Common
  <2>3. /\ Unwinding(d, "r_class") = r_class /\ Unwinding(d, "r_device") = <<"class">>
        /\ Unwinding(d, "r_sysfs") = r_sysfs
    BY <2>2, UnwindingIs
  <2> QED BY <2>1, <2>3, CommonReleases DEF SysfsFronted, Fronted, LongUnwinding
<1>2. Releases(Program[d].exit, E \cup FrontGot)
  <2>1. Program[d].exit = <<"thread", "timer", "sysfs", "kobject">> \o FrontExit
    BY DEF Program, spinlock_with_interrupts, Common
  <2>2. Releases(<<"thread", "timer", "sysfs", "kobject">>, E)
    BY BelowIs DEF Releases, Elems, Clean, Resources, Threads
  <2> QED BY <2>1, <2>2, JoinFront DEF FrontGot
<1>3. All(d) = FrontGot \cup {"kobject", "sysfs", "thread", "timer"}
  BY <1>1 DEF All, Got, Entry, SysfsFronted, Fronted, FrontGot, Resources, Threads
<1>4. ExitFits(d, Program[d].exit, E \cup FrontGot)
  <2>1. Fronted(d) /\ Len(Steps(d)) \in Nat /\ Len(Steps(d)) >= 4
    BY <1>1 DEF SysfsFronted
  <2>2. ClassMade(d)
    BY <2>1, FrontChecksClass
  <2> QED BY <1>2, <1>3, <2>2, ForgottenIs DEF ExitFits, FrontGot, Threads
<1>5. EntrySound(d, 7)
  BY <1>1, ThreadEntry DEF Threads
<1>6. EntrySound(d, 8)
  BY <1>1, TimerEntry
<1>7. QueueSound(d)
  BY <1>1 DEF QueueSound, NeedsQueue
<1>8. \A i \in 1 .. 8 : EntrySound(d, i)
  BY <1>1, <1>5, <1>6, SysfsEntries
<1> QED BY <1>1, <1>4, <1>7, <1>8, ExitEntry DEF TableSound

\* The common front and nothing else.
LEMMA PlainTable ==
    ASSUME NEW d \in {"sec_signal_module", "export_symbol", "export_symbol_2"}
    PROVE  TableSound(d)
<1> DEFINE E == {}
<1>1. /\ Fronted(d) /\ Len(Steps(d)) = 4 /\ Program[d].uses = {}
  <2>1. /\ Len(Steps(d)) = 4 /\ Program[d].uses = {}
        /\ Entry(d, 1, "region", "return") /\ Entry(d, 2, "cdev", "r_class")
        /\ Entry(d, 3, "class", "r_class") /\ Entry(d, 4, "device", "r_device")
    BY SMTT(30) DEF Entry, Steps, Program, sec_signal_module, export_symbol, export_symbol_2,
                    Common,
           Front, On
  <2>2. /\ DOMAIN Program[d].undo = {"none"}
    BY DEF Program, sec_signal_module, export_symbol, export_symbol_2, Common, NoLabel
  <2>3. /\ Unwinding(d, "r_class") = r_class /\ Unwinding(d, "r_device") = <<"class">>
    BY <2>2, UnwindingIs
  <2> QED BY <2>1, <2>3, CommonReleases DEF Fronted, LongUnwinding
<1>2. Releases(Program[d].exit, E \cup FrontGot)
  <2>1. Program[d].exit = <<>> \o FrontExit
    BY DEF Program, sec_signal_module, export_symbol, export_symbol_2, Common
  <2>2. Releases(<<>>, E)
    BY CommonReleases
  <2> QED BY <2>1, <2>2, JoinFront DEF FrontGot
<1>3. All(d) = FrontGot
  BY <1>1 DEF All, Got, Entry, Fronted, FrontGot, Resources, Threads
<1>4. ExitFits(d, Program[d].exit, E \cup FrontGot)
  <2>1. Fronted(d) /\ Len(Steps(d)) \in Nat /\ Len(Steps(d)) >= 4
    BY <1>1 DEF SysfsFronted
  <2>2. ClassMade(d)
    BY <2>1, FrontChecksClass
  <2> QED BY <1>2, <1>3, <2>2, ForgottenIs DEF ExitFits, FrontGot, Threads
<1>5. QueueSound(d)
  BY <1>1 DEF QueueSound, NeedsQueue
<1>6. \A i \in 1 .. 4 : EntrySound(d, i)
  BY <1>1, FrontEntries
<1> QED BY <1>1, <1>4, <1>5, <1>6, ExitEntry DEF TableSound

\* A timer.
LEMMA TimerTable ==
    ASSUME NEW d \in {"timer_module", "hrtimer_module"}
    PROVE  TableSound(d)
<1> DEFINE E == {"timer"}
<1>1. /\ Fronted(d) /\ Len(Steps(d)) = 5 /\ Program[d].uses = {}
      /\ Entry(d, 5, "timer", "never")
  <2>1. /\ Len(Steps(d)) = 5 /\ Program[d].uses = {}
        /\ Entry(d, 1, "region", "return") /\ Entry(d, 2, "cdev", "r_class")
        /\ Entry(d, 3, "class", "r_class") /\ Entry(d, 4, "device", "r_device")
        /\ Entry(d, 5, "timer", "never")
    BY SMTT(30) DEF Entry, Steps, Program, timer_module, hrtimer_module, Common, Front, On
  <2>2. /\ DOMAIN Program[d].undo = {"none"}
    BY DEF Program, timer_module, hrtimer_module, Common, NoLabel
  <2>3. /\ Unwinding(d, "r_class") = r_class /\ Unwinding(d, "r_device") = <<"class">>
    BY <2>2, UnwindingIs
  <2> QED BY <2>1, <2>3, CommonReleases DEF Fronted, LongUnwinding
<1>2. Releases(Program[d].exit, E \cup FrontGot)
  <2>1. Program[d].exit = <<"timer">> \o FrontExit
    BY DEF Program, timer_module, hrtimer_module, Common
  <2>2. Releases(<<"timer">>, E)
    BY BelowIs DEF Releases, Elems, Clean, Resources, Threads
  <2> QED BY <2>1, <2>2, JoinFront DEF FrontGot
<1>3. All(d) = FrontGot \cup {"timer"}
  BY <1>1 DEF All, Got, Entry, Fronted, FrontGot, Resources, Threads
<1>4. ExitFits(d, Program[d].exit, E \cup FrontGot)
  <2>1. Fronted(d) /\ Len(Steps(d)) \in Nat /\ Len(Steps(d)) >= 4
    BY <1>1 DEF SysfsFronted
  <2>2. ClassMade(d)
    BY <2>1, FrontChecksClass
  <2> QED BY <1>2, <1>3, <2>2, ForgottenIs DEF ExitFits, FrontGot, Threads
<1>5. EntrySound(d, 5)
  BY <1>1, TimerEntry
<1>6. QueueSound(d)
  BY <1>1 DEF QueueSound, NeedsQueue
<1>7. \A i \in 1 .. 5 : EntrySound(d, i)
  BY <1>1, <1>5, FrontEntries
<1> QED BY <1>1, <1>4, <1>6, <1>7, ExitEntry DEF TableSound

\* A thread that the exit function tells to end and does not stop.
LEMMA WaitingTable ==
    ASSUME NEW d \in {"wait_queue_module", "completion_module"}
    PROVE  TableSound(d)
<1> DEFINE E == {}
<1>1. /\ Fronted(d) /\ Len(Steps(d)) = 6 /\ Program[d].uses = {}
      /\ Entry(d, 5, "thread", "return") /\ Entry(d, 6, "wake", "never")
  <2>1. /\ Len(Steps(d)) = 6 /\ Program[d].uses = {}
        /\ Entry(d, 1, "region", "return") /\ Entry(d, 2, "cdev", "r_class")
        /\ Entry(d, 3, "class", "r_class") /\ Entry(d, 4, "device", "r_device")
        /\ Entry(d, 5, "thread", "return") /\ Entry(d, 6, "wake", "never")
    BY SMTT(30) DEF Entry, Steps, Program, wait_queue_module, completion_module, Common,
                    Front, On
  <2>2. /\ DOMAIN Program[d].undo = {"none"}
    BY DEF Program, wait_queue_module, completion_module, Common, NoLabel
  <2>3. /\ Unwinding(d, "r_class") = r_class /\ Unwinding(d, "r_device") = <<"class">>
    BY <2>2, UnwindingIs
  <2> QED BY <2>1, <2>3, CommonReleases DEF Fronted, LongUnwinding
<1>2. Releases(Program[d].exit, E \cup FrontGot)
  <2>1. Program[d].exit = <<>> \o FrontExit
    BY DEF Program, wait_queue_module, completion_module, Common
  <2>2. Releases(<<>>, E)
    BY CommonReleases
  <2> QED BY <2>1, <2>2, JoinFront DEF FrontGot
<1>3. All(d) = FrontGot \cup {"thread"}
  BY <1>1 DEF All, Got, Entry, Fronted, FrontGot, Resources, Threads
<1>4. ExitFits(d, Program[d].exit, E \cup FrontGot)
  <2>1. Fronted(d) /\ Len(Steps(d)) \in Nat /\ Len(Steps(d)) >= 4
    BY <1>1 DEF SysfsFronted
  <2>2. ClassMade(d)
    BY <2>1, FrontChecksClass
  <2> QED BY <1>2, <1>3, <2>2, ForgottenIs DEF ExitFits, FrontGot, Threads
<1>5. EntrySound(d, 5)
  BY <1>1, ThreadEntry DEF Threads
<1>6. EntrySound(d, 6)
  <2>1. "thread" \in Got(d, 6)
    BY <1>1 DEF Got, Entry, Resources, Threads
  <2> QED BY <1>1, <2>1, WakeEntry DEF NeedsQueue
<1>7. QueueSound(d)
  BY <1>1 DEF QueueSound, NeedsQueue
<1>8. \A i \in 1 .. 6 : EntrySound(d, i)
  BY <1>1, <1>5, <1>6, FrontEntries
<1> QED BY <1>1, <1>4, <1>7, <1>8, ExitEntry DEF TableSound

\* A thread.
LEMMA KthreadTable ==
    ASSUME NEW d \in {"kthread_module"}
    PROVE  TableSound(d)
<1> DEFINE E == {"thread"}
<1>1. /\ Fronted(d) /\ Len(Steps(d)) = 6 /\ Program[d].uses = {}
      /\ Entry(d, 5, "thread", "return") /\ Entry(d, 6, "wake", "never")
  <2>1. /\ Len(Steps(d)) = 6 /\ Program[d].uses = {}
        /\ Entry(d, 1, "region", "return") /\ Entry(d, 2, "cdev", "r_class")
        /\ Entry(d, 3, "class", "r_class") /\ Entry(d, 4, "device", "r_device")
        /\ Entry(d, 5, "thread", "return") /\ Entry(d, 6, "wake", "never")
    BY SMTT(30) DEF Entry, Steps, Program, kthread_module, Common, Front, On
  <2>2. /\ DOMAIN Program[d].undo = {"none"}
    BY DEF Program, kthread_module, Common, NoLabel
  <2>3. /\ Unwinding(d, "r_class") = r_class /\ Unwinding(d, "r_device") = <<"class">>
    BY <2>2, UnwindingIs
  <2> QED BY <2>1, <2>3, CommonReleases DEF Fronted, LongUnwinding
<1>2. Releases(Program[d].exit, E \cup FrontGot)
  <2>1. Program[d].exit = <<"thread">> \o FrontExit
    BY DEF Program, kthread_module, Common
  <2>2. Releases(<<"thread">>, E)
    BY BelowIs DEF Releases, Elems, Clean, Resources, Threads
  <2> QED BY <2>1, <2>2, JoinFront DEF FrontGot
<1>3. All(d) = FrontGot \cup {"thread"}
  BY <1>1 DEF All, Got, Entry, Fronted, FrontGot, Resources, Threads
<1>4. ExitFits(d, Program[d].exit, E \cup FrontGot)
  <2>1. Fronted(d) /\ Len(Steps(d)) \in Nat /\ Len(Steps(d)) >= 4
    BY <1>1 DEF SysfsFronted
  <2>2. ClassMade(d)
    BY <2>1, FrontChecksClass
  <2> QED BY <1>2, <1>3, <2>2, ForgottenIs DEF ExitFits, FrontGot, Threads
<1>5. EntrySound(d, 5)
  BY <1>1, ThreadEntry DEF Threads
<1>6. EntrySound(d, 6)
  <2>1. "thread" \in Got(d, 6)
    BY <1>1 DEF Got, Entry, Resources, Threads
  <2> QED BY <1>1, <2>1, WakeEntry DEF NeedsQueue
<1>7. QueueSound(d)
  BY <1>1 DEF QueueSound, NeedsQueue
<1>8. \A i \in 1 .. 6 : EntrySound(d, i)
  BY <1>1, <1>5, <1>6, FrontEntries
<1> QED BY <1>1, <1>4, <1>7, <1>8, ExitEntry DEF TableSound

\* Two threads.
LEMMA MutexTable ==
    ASSUME NEW d \in {"mutex_module", "without_mutex_module"}
    PROVE  TableSound(d)
<1> DEFINE E == {"thread", "thread1"}
<1>1. /\ Fronted(d) /\ Len(Steps(d)) = 6 /\ Program[d].uses = {}
      /\ Entry(d, 5, "thread1", "return") /\ Entry(d, 6, "thread", "return")
  <2>1. /\ Len(Steps(d)) = 6 /\ Program[d].uses = {}
        /\ Entry(d, 1, "region", "return") /\ Entry(d, 2, "cdev", "r_class")
        /\ Entry(d, 3, "class", "r_class") /\ Entry(d, 4, "device", "r_device")
        /\ Entry(d, 5, "thread1", "return") /\ Entry(d, 6, "thread", "return")
    BY SMTT(30) DEF Entry, Steps, Program, mutex_module, without_mutex_module, Common, Front,
                    On
  <2>2. /\ DOMAIN Program[d].undo = {"none"}
    BY DEF Program, mutex_module, without_mutex_module, Common, NoLabel
  <2>3. /\ Unwinding(d, "r_class") = r_class /\ Unwinding(d, "r_device") = <<"class">>
    BY <2>2, UnwindingIs
  <2> QED BY <2>1, <2>3, CommonReleases DEF Fronted, LongUnwinding
<1>2. Releases(Program[d].exit, E \cup FrontGot)
  <2>1. Program[d].exit = <<"thread", "thread1">> \o FrontExit
    BY DEF Program, mutex_module, without_mutex_module, Common
  <2>2. Releases(<<"thread", "thread1">>, E)
    BY BelowIs DEF Releases, Elems, Clean, Resources, Threads
  <2> QED BY <2>1, <2>2, JoinFront DEF FrontGot
<1>3. All(d) = FrontGot \cup {"thread1", "thread"}
  BY <1>1 DEF All, Got, Entry, Fronted, FrontGot, Resources, Threads
<1>4. ExitFits(d, Program[d].exit, E \cup FrontGot)
  <2>1. Fronted(d) /\ Len(Steps(d)) \in Nat /\ Len(Steps(d)) >= 4
    BY <1>1 DEF SysfsFronted
  <2>2. ClassMade(d)
    BY <2>1, FrontChecksClass
  <2> QED BY <1>2, <1>3, <2>2, ForgottenIs DEF ExitFits, FrontGot, Threads
<1>5. EntrySound(d, 5)
  BY <1>1, ThreadEntry DEF Threads
<1>6. EntrySound(d, 6)
  BY <1>1, ThreadEntry DEF Threads
<1>7. QueueSound(d)
  BY <1>1 DEF QueueSound, NeedsQueue
<1>8. \A i \in 1 .. 6 : EntrySound(d, i)
  BY <1>1, <1>5, <1>6, FrontEntries
<1> QED BY <1>1, <1>4, <1>7, <1>8, ExitEntry DEF TableSound

\* Two threads, the second of which nobody looks at.
LEMMA AtomicTable ==
    ASSUME NEW d \in {"atomic_variable"}
    PROVE  TableSound(d)
<1> DEFINE E == {"thread", "thread1"}
<1>1. /\ Fronted(d) /\ Len(Steps(d)) = 7 /\ Program[d].uses = {}
      /\ Entry(d, 5, "thread", "return") /\ Entry(d, 6, "wake", "never")
      /\ Entry(d, 7, "thread1", "ignored")
  <2>1. /\ Len(Steps(d)) = 7 /\ Program[d].uses = {}
        /\ Entry(d, 1, "region", "return") /\ Entry(d, 2, "cdev", "r_class")
        /\ Entry(d, 3, "class", "r_class") /\ Entry(d, 4, "device", "r_device")
        /\ Entry(d, 5, "thread", "return") /\ Entry(d, 6, "wake", "never")
        /\ Entry(d, 7, "thread1", "ignored")
    BY SMTT(30) DEF Entry, Steps, Program, atomic_variable, Common, Front, On
  <2>2. /\ DOMAIN Program[d].undo = {"none"}
    BY DEF Program, atomic_variable, Common, NoLabel
  <2>3. /\ Unwinding(d, "r_class") = r_class /\ Unwinding(d, "r_device") = <<"class">>
    BY <2>2, UnwindingIs
  <2> QED BY <2>1, <2>3, CommonReleases DEF Fronted, LongUnwinding
<1>2. Releases(Program[d].exit, E \cup FrontGot)
  <2>1. Program[d].exit = <<"thread", "thread1">> \o FrontExit
    BY DEF Program, atomic_variable, Common
  <2>2. Releases(<<"thread", "thread1">>, E)
    BY BelowIs DEF Releases, Elems, Clean, Resources, Threads
  <2> QED BY <2>1, <2>2, JoinFront DEF FrontGot
<1>3. All(d) = FrontGot \cup {"thread", "thread1"}
  BY <1>1 DEF All, Got, Entry, Fronted, FrontGot, Resources, Threads
<1>4. ExitFits(d, Program[d].exit, E \cup FrontGot)
  <2>1. Fronted(d) /\ Len(Steps(d)) \in Nat /\ Len(Steps(d)) >= 4
    BY <1>1 DEF SysfsFronted
  <2>2. ClassMade(d)
    BY <2>1, FrontChecksClass
  <2> QED BY <1>2, <1>3, <2>2, ForgottenIs DEF ExitFits, FrontGot, Threads
<1>5. EntrySound(d, 5)
  BY <1>1, ThreadEntry DEF Threads
<1>6. EntrySound(d, 6)
  <2>1. "thread" \in Got(d, 6)
    BY <1>1 DEF Got, Entry, Resources, Threads
  <2> QED BY <1>1, <2>1, WakeEntry DEF NeedsQueue
<1>7. EntrySound(d, 7)
  BY <1>1, ThreadEntry DEF Threads
<1>8. QueueSound(d)
  BY <1>1 DEF QueueSound, NeedsQueue
<1>9. \A i \in 1 .. 7 : EntrySound(d, i)
  BY <1>1, <1>5, <1>6, <1>7, FrontEntries
<1> QED BY <1>1, <1>4, <1>8, <1>9, ExitEntry DEF TableSound

\* A thread and an interrupt handler beside the sysfs file.
LEMMA WorkqueueTable ==
    ASSUME NEW d \in {"workqueues_module", "workqueues_on_cpu", "tasklet_module"}
    PROVE  TableSound(d)
<1> DEFINE E == {"irq", "thread", "sysfs", "kobject"}
<1>1. /\ SysfsFronted(d) /\ Len(Steps(d)) = 8 /\ Program[d].uses = {}
      /\ Entry(d, 7, "thread", "r_thread") /\ Entry(d, 8, "irq", "r_irq")
      /\ Unwinding(d, "r_irq") = <<"irq", "thread">> \o r_sysfs
  <2>1. /\ Len(Steps(d)) = 8 /\ Program[d].uses = {}
        /\ Entry(d, 1, "region", "return") /\ Entry(d, 2, "cdev", "r_class")
        /\ Entry(d, 3, "class", "r_class") /\ Entry(d, 4, "device", "r_device")
        /\ Entry(d, 5, "kobject", "ignored") /\ Entry(d, 6, "sysfs", "r_sysfs")
        /\ Entry(d, 7, "thread", "r_thread") /\ Entry(d, 8, "irq", "r_irq")
    <3> USE DEF Entry, Steps, Program, Common, Front, SysfsFile, On
    <3>1. CASE d = "workqueues_module"
      BY SMTT(30), <3>1 DEF workqueues_module
    <3>2. CASE d = "workqueues_on_cpu"
      BY SMTT(30), <3>2 DEF workqueues_on_cpu
    <3>3. CASE d = "tasklet_module"
      BY SMTT(30), <3>3 DEF tasklet_module
    <3> QED BY <3>1, <3>2, <3>3
  <2>2. /\ DOMAIN Program[d].undo = {"r_irq", "r_thread", "r_sysfs"}
        /\ Program[d].undo.r_sysfs = r_sysfs
        /\ Program[d].undo.r_irq = <<"irq", "thread">> \o r_sysfs
    <3>1. Program[d].undo = IrqUndo
      BY DEF Program, workqueues_module, workqueues_on_cpu, tasklet_module, Common
    <3> QED BY <3>1 DEF IrqUndo
  <2>3. /\ Unwinding(d, "r_class") = r_class /\ Unwinding(d, "r_device") = <<"class">>
        /\ Unwinding(d, "r_sysfs") = r_sysfs
        /\ Unwinding(d, "r_irq") = <<"irq", "thread">> \o r_sysfs
    BY <2>2, UnwindingIs
  <2> QED BY <2>1, <2>3, CommonReleases DEF SysfsFronted, Fronted, LongUnwinding
<1>2. Releases(Program[d].exit, E \cup FrontGot)
  <2>1. Program[d].exit = <<"irq", "thread", "sysfs", "kobject">> \o FrontExit
    BY DEF Program, workqueues_module, workqueues_on_cpu, tasklet_module, Common
  <2>2. Releases(<<"irq", "thread", "sysfs", "kobject">>, E)
    BY BelowIs DEF Releases, Elems, Clean, Resources, Threads
  <2> QED BY <2>1, <2>2, JoinFront DEF FrontGot
<1>3. All(d) = FrontGot \cup {"kobject", "sysfs", "thread", "irq"}
  BY <1>1 DEF All, Got, Entry, SysfsFronted, Fronted, FrontGot, Resources, Threads
<1>4. ExitFits(d, Program[d].exit, E \cup FrontGot)
  <2>1. Fronted(d) /\ Len(Steps(d)) \in Nat /\ Len(Steps(d)) >= 4
    BY <1>1 DEF SysfsFronted
  <2>2. ClassMade(d)
    BY <2>1, FrontChecksClass
  <2> QED BY <1>2, <1>3, <2>2, ForgottenIs DEF ExitFits, FrontGot, Threads
<1>5. EntrySound(d, 7)
  BY <1>1, ThreadEntry DEF Threads
<1>6. EntrySound(d, 8)
  <2>1. Got(d, 8) = FrontGot \cup {"kobject", "sysfs", "thread"}
    BY <1>1 DEF Got, Entry, SysfsFronted, Fronted, FrontGot, Resources, Threads
  <2>2. Got(d, 8) \ {"irq", "thread", "sysfs", "kobject", "region", "cdev"}
            \subseteq MayRemain(d, {"irq"})
    BY <2>1 DEF MayRemain, FrontGot, Resources, Threads
  <2>3. LabelFits(d, 8, "irq", "r_irq",
                  {"irq", "thread", "sysfs", "kobject", "region", "cdev"})
    BY <1>1, <2>1, <2>2, IrqReleases DEF LabelFits, Plain, FrontGot, Resources, Threads
  <2> QED BY <2>3, LabelEntry
<1>7. QueueSound(d)
  BY <1>1 DEF QueueSound, NeedsQueue
<1>8. \A i \in 1 .. 8 : EntrySound(d, i)
  BY <1>1, <1>5, <1>6, SysfsEntries
<1> QED BY <1>1, <1>4, <1>7, <1>8, ExitEntry DEF TableSound

\* An interrupt handler beside the sysfs file.
LEMMA SignalTable ==
    ASSUME NEW d \in {"signal_module"}
    PROVE  TableSound(d)
<1> DEFINE E == {"irq", "sysfs", "kobject"}
<1>1. /\ SysfsFronted(d) /\ Len(Steps(d)) = 7 /\ Program[d].uses = {}
      /\ Entry(d, 7, "irq", "r_irq")
      /\ Unwinding(d, "r_irq") = <<"irq">> \o r_sysfs
  <2>1. /\ Len(Steps(d)) = 7 /\ Program[d].uses = {}
        /\ Entry(d, 1, "region", "return") /\ Entry(d, 2, "cdev", "r_class")
        /\ Entry(d, 3, "class", "r_class") /\ Entry(d, 4, "device", "r_device")
        /\ Entry(d, 5, "kobject", "ignored") /\ Entry(d, 6, "sysfs", "r_sysfs")
        /\ Entry(d, 7, "irq", "r_irq")
    BY SMTT(30) DEF Entry, Steps, Program, signal_module, Common, Front, SysfsFile, On
  <2>2. /\ DOMAIN Program[d].undo = {"r_irq", "r_sysfs"}
        /\ Program[d].undo.r_sysfs = r_sysfs
        /\ Program[d].undo.r_irq = <<"irq">> \o r_sysfs
    BY DEF Program, signal_module, Common
  <2>3. /\ Unwinding(d, "r_class") = r_class /\ Unwinding(d, "r_device") = <<"class">>
        /\ Unwinding(d, "r_sysfs") = r_sysfs
        /\ Unwinding(d, "r_irq") = <<"irq">> \o r_sysfs
    BY <2>2, UnwindingIs
  <2> QED BY <2>1, <2>3, CommonReleases DEF SysfsFronted, Fronted, LongUnwinding
<1>2. Releases(Program[d].exit, E \cup FrontGot)
  <2>1. Program[d].exit = <<"irq", "sysfs", "kobject">> \o FrontExit
    BY DEF Program, signal_module, Common
  <2>2. Releases(<<"irq", "sysfs", "kobject">>, E)
    BY BelowIs DEF Releases, Elems, Clean, Resources, Threads
  <2> QED BY <2>1, <2>2, JoinFront DEF FrontGot
<1>3. All(d) = FrontGot \cup {"kobject", "sysfs", "irq"}
  BY <1>1 DEF All, Got, Entry, SysfsFronted, Fronted, FrontGot, Resources, Threads
<1>4. ExitFits(d, Program[d].exit, E \cup FrontGot)
  <2>1. Fronted(d) /\ Len(Steps(d)) \in Nat /\ Len(Steps(d)) >= 4
    BY <1>1 DEF SysfsFronted
  <2>2. ClassMade(d)
    BY <2>1, FrontChecksClass
  <2> QED BY <1>2, <1>3, <2>2, ForgottenIs DEF ExitFits, FrontGot, Threads
<1>5. EntrySound(d, 7)
  <2>1. Got(d, 7) = FrontGot \cup {"kobject", "sysfs"}
    BY <1>1 DEF Got, Entry, SysfsFronted, Fronted, FrontGot, Resources, Threads
  <2>2. Got(d, 7) \ {"irq", "sysfs", "kobject", "region", "cdev"} \subseteq MayRemain(d, {"irq"})
    BY <2>1 DEF MayRemain, FrontGot, Resources, Threads
  <2>3. LabelFits(d, 7, "irq", "r_irq",
                  {"irq", "sysfs", "kobject", "region", "cdev"})
    BY <1>1, <2>1, <2>2, IrqReleases DEF LabelFits, Plain, FrontGot, Resources, Threads
  <2> QED BY <2>3, LabelEntry
<1>6. QueueSound(d)
  BY <1>1 DEF QueueSound, NeedsQueue
<1>7. \A i \in 1 .. 7 : EntrySound(d, i)
  BY <1>1, <1>5, SysfsEntries
<1> QED BY <1>1, <1>4, <1>6, <1>7, ExitEntry DEF TableSound

\* An interrupt handler.
LEMMA InterruptTable ==
    ASSUME NEW d \in {"interrupt_module"}
    PROVE  TableSound(d)
<1> DEFINE E == {"irq"}
<1>1. /\ Fronted(d) /\ Len(Steps(d)) = 5 /\ Program[d].uses = {}
      /\ Entry(d, 5, "irq", "r_irq")
      /\ Unwinding(d, "r_irq") = <<"irq">> \o r_class
  <2>1. /\ Len(Steps(d)) = 5 /\ Program[d].uses = {}
        /\ Entry(d, 1, "region", "return") /\ Entry(d, 2, "cdev", "r_class")
        /\ Entry(d, 3, "class", "r_class") /\ Entry(d, 4, "device", "r_device")
        /\ Entry(d, 5, "irq", "r_irq")
    BY SMTT(30) DEF Entry, Steps, Program, interrupt_module, Common, Front, On
  <2>2. /\ DOMAIN Program[d].undo = {"r_irq"}
        /\ Program[d].undo.r_irq = <<"irq">> \o r_class
    BY DEF Program, interrupt_module, Common
  <2>3. /\ Unwinding(d, "r_class") = r_class /\ Unwinding(d, "r_device") = <<"class">>
        /\ Unwinding(d, "r_irq") = <<"irq">> \o r_class
    BY <2>2, UnwindingIs
  <2> QED BY <2>1, <2>3, CommonReleases DEF Fronted, LongUnwinding
<1>2. Releases(Program[d].exit, E \cup FrontGot)
  <2>1. Program[d].exit = <<"irq">> \o FrontExit
    BY DEF Program, interrupt_module, Common
  <2>2. Releases(<<"irq">>, E)
    BY BelowIs DEF Releases, Elems, Clean, Resources, Threads
  <2> QED BY <2>1, <2>2, JoinFront DEF FrontGot
<1>3. All(d) = FrontGot \cup {"irq"}
  BY <1>1 DEF All, Got, Entry, Fronted, FrontGot, Resources, Threads
<1>4. ExitFits(d, Program[d].exit, E \cup FrontGot)
  <2>1. Fronted(d) /\ Len(Steps(d)) \in Nat /\ Len(Steps(d)) >= 4
    BY <1>1 DEF SysfsFronted
  <2>2. ClassMade(d)
    BY <2>1, FrontChecksClass
  <2> QED BY <1>2, <1>3, <2>2, ForgottenIs DEF ExitFits, FrontGot, Threads
<1>5. EntrySound(d, 5)
  <2>1. Got(d, 5) = FrontGot
    BY <1>1 DEF Got, Entry, Fronted, FrontGot, Resources, Threads
  <2>2. Got(d, 5) \ {"irq", "region", "cdev"} \subseteq MayRemain(d, {"irq"})
    BY <2>1 DEF MayRemain, FrontGot, Resources, Threads
  <2>3. LabelFits(d, 5, "irq", "r_irq",
                  {"irq", "region", "cdev"})
    BY <1>1, <2>1, <2>2, IrqReleases DEF LabelFits, Plain, FrontGot, Resources, Threads
  <2> QED BY <2>3, LabelEntry
<1>6. QueueSound(d)
  BY <1>1 DEF QueueSound, NeedsQueue
<1>7. \A i \in 1 .. 5 : EntrySound(d, i)
  BY <1>1, <1>5, FrontEntries
<1> QED BY <1>1, <1>4, <1>6, <1>7, ExitEntry DEF TableSound

\* own_workqueues.c and linked_list.c have the same init and exit functions.
LEMMA QueueProgram ==
    ASSUME NEW d \in {"own_workqueues", "linked_list"}
    PROVE  /\ Steps(d) = Front \o (SysfsFile \o << On("thread", "r_thread"), On("irq", "r_irq"),
                                                   On("wq", "return") >>)
           /\ Program[d].exit = <<"wq", "irq", "thread", "sysfs", "kobject">> \o FrontExit
           /\ Program[d].uses = {"wq"}
<1> DEFINE init == SysfsFile \o << On("thread", "r_thread"), On("irq", "r_irq"),
                                   On("wq", "return") >>
           exit == <<"wq", "irq", "thread", "sysfs", "kobject">>
<1>1. Program[d] = [Common("mychardev", "test_file", init, IrqUndo, exit) EXCEPT !.uses = {"wq"}]
  BY DEF Program, own_workqueues, linked_list
<1>2. \A i, x :
        LET p == [Common("mychardev", "test_file", i, IrqUndo, x) EXCEPT !.uses = {"wq"}]
        IN  p.init = Front \o i /\ p.exit = x \o FrontExit /\ p.uses = {"wq"}
  BY DEF Common
<1> QED BY <1>1, <1>2 DEF Steps

LEMMA QueueExit ==
    ASSUME NEW s, s = <<"wq", "irq", "thread", "sysfs", "kobject">> \o FrontExit
    PROVE  s # <<>> /\ Head(s) = "wq" /\ Tail(s) # <<>> /\ Head(Tail(s)) = "irq"
<1>1. Len(s) = 9 /\ s[1] = "wq" /\ s[2] = "irq"
  BY DEF FrontExit
<1>2. s \in Seq(Resources)
  BY DEF FrontExit, Resources, Threads
<1> QED BY <1>1, <1>2

\* A thread, an interrupt handler and the workqueue it needs beside the sysfs file.
LEMMA QueueTable ==
    ASSUME NEW d \in {"own_workqueues", "linked_list"}
    PROVE  TableSound(d)
<1> DEFINE E == {"wq", "irq", "thread", "sysfs", "kobject"}
<1>1. /\ SysfsFronted(d) /\ Len(Steps(d)) = 9 /\ Program[d].uses = {"wq"}
      /\ Entry(d, 7, "thread", "r_thread") /\ Entry(d, 8, "irq", "r_irq")
      /\ Entry(d, 9, "wq", "return")
      /\ Unwinding(d, "r_irq") = <<"irq", "thread">> \o r_sysfs
  <2>1. /\ Len(Steps(d)) = 9 /\ Program[d].uses = {"wq"}
        /\ Entry(d, 1, "region", "return") /\ Entry(d, 2, "cdev", "r_class")
        /\ Entry(d, 3, "class", "r_class") /\ Entry(d, 4, "device", "r_device")
        /\ Entry(d, 5, "kobject", "ignored") /\ Entry(d, 6, "sysfs", "r_sysfs")
        /\ Entry(d, 7, "thread", "r_thread") /\ Entry(d, 8, "irq", "r_irq")
        /\ Entry(d, 9, "wq", "return")
    BY QueueProgram DEF Entry, Front, SysfsFile, On
  <2>2. /\ DOMAIN Program[d].undo = {"r_irq", "r_thread", "r_sysfs"}
        /\ Program[d].undo.r_sysfs = r_sysfs
        /\ Program[d].undo.r_irq = <<"irq", "thread">> \o r_sysfs
    <3>1. Program[d].undo = IrqUndo
      BY DEF Program, own_workqueues, linked_list, Common
    <3> QED BY <3>1 DEF IrqUndo
  <2>3. /\ Unwinding(d, "r_class") = r_class /\ Unwinding(d, "r_device") = <<"class">>
        /\ Unwinding(d, "r_sysfs") = r_sysfs
        /\ Unwinding(d, "r_irq") = <<"irq", "thread">> \o r_sysfs
    BY <2>2, UnwindingIs
  <2> QED BY <2>1, <2>3, CommonReleases DEF SysfsFronted, Fronted, LongUnwinding
<1>2. Releases(Program[d].exit, E \cup FrontGot)
  <2>1. Program[d].exit = <<"wq", "irq", "thread", "sysfs", "kobject">> \o FrontExit
    BY QueueProgram
  <2>2. Releases(<<"wq", "irq", "thread", "sysfs", "kobject">>, E)
    BY BelowIs DEF Releases, Elems, Clean, Resources, Threads
  <2> QED BY <2>1, <2>2, JoinFront DEF FrontGot
<1>3. All(d) = FrontGot \cup {"kobject", "sysfs", "thread", "irq", "wq"}
  BY <1>1 DEF All, Got, Entry, SysfsFronted, Fronted, FrontGot, Resources, Threads
<1>4. ExitFits(d, Program[d].exit, E \cup FrontGot)
  <2>1. Fronted(d) /\ Len(Steps(d)) \in Nat /\ Len(Steps(d)) >= 4
    BY <1>1 DEF SysfsFronted
  <2>2. ClassMade(d)
    BY <2>1, FrontChecksClass
  <2> QED BY <1>2, <1>3, <2>2, ForgottenIs DEF ExitFits, FrontGot, Threads
<1>5. EntrySound(d, 7)
  BY <1>1, ThreadEntry DEF Threads
<1>6. EntrySound(d, 8)
  <2>1. Got(d, 8) = FrontGot \cup {"kobject", "sysfs", "thread"}
    BY <1>1 DEF Got, Entry, SysfsFronted, Fronted, FrontGot, Resources, Threads
  <2>2. Got(d, 8) \ {"irq", "thread", "sysfs", "kobject", "region", "cdev"}
            \subseteq MayRemain(d, {"irq"})
    BY <2>1 DEF MayRemain, FrontGot, Resources, Threads
  <2>3. LabelFits(d, 8, "irq", "r_irq",
                  {"irq", "thread", "sysfs", "kobject", "region", "cdev"})
    BY <1>1, <2>1, <2>2, IrqReleases DEF LabelFits, Plain, FrontGot, Resources, Threads
  <2> QED BY <2>3, LabelEntry
<1>7. EntrySound(d, 9)
  <2>1. Got(d, 9) = FrontGot \cup {"kobject", "sysfs", "thread", "irq"}
    BY <1>1 DEF Got, Entry, SysfsFronted, Fronted, FrontGot, Resources, Threads
  <2>2. Got(d, 9) \subseteq MayRemain(d, {"wq"})
    BY <2>1 DEF MayRemain, NeedsQueue, FrontGot, Resources, Threads
  <2> QED BY <1>1, <2>2, ReturnEntry DEF Plain, Resources, Threads
<1>8. QueueSound(d)
  <2>1. /\ Program[d].exit # <<>> /\ Head(Program[d].exit) = "wq"
        /\ Tail(Program[d].exit) # <<>> /\ Head(Tail(Program[d].exit)) = "irq"
    BY QueueProgram, QueueExit
  <2> QED BY <1>1, <2>1 DEF QueueSound, NeedsQueue, Entry
<1>9. \A i \in 1 .. 9 : EntrySound(d, i)
  BY <1>1, <1>5, <1>6, <1>7, SysfsEntries
<1> QED BY <1>1, <1>4, <1>8, <1>9, ExitEntry DEF TableSound

-----------------------------------------------------------------------------
(* The load table: drivers of a shape of their own *)

\* /proc/tempwatch and its files, and a thread; without the directory the init
\* function returns 0.
LEMMA TempWatchTable ==
    ASSUME NEW d \in {"temp_watch"}
    PROVE  TableSound(d)
<1> DEFINE E == {"thread", "wait", "value", "threshold", "procdir"}
<1>1. /\ Fronted(d) /\ Len(Steps(d)) = 9 /\ Program[d].uses = {}
      /\ Entry(d, 5, "procdir", "return0") /\ Entry(d, 6, "wait", "ignored")
      /\ Entry(d, 7, "value", "ignored") /\ Entry(d, 8, "threshold", "ignored")
      /\ Entry(d, 9, "thread", "r_class")
      /\ Unwinding(d, "return0") = <<>>
  <2>1. /\ Len(Steps(d)) = 9 /\ Program[d].uses = {}
        /\ Entry(d, 1, "region", "return") /\ Entry(d, 2, "cdev", "r_class")
        /\ Entry(d, 3, "class", "r_class") /\ Entry(d, 4, "device", "r_device")
        /\ Entry(d, 5, "procdir", "return0") /\ Entry(d, 6, "wait", "ignored")
        /\ Entry(d, 7, "value", "ignored") /\ Entry(d, 8, "threshold", "ignored")
        /\ Entry(d, 9, "thread", "r_class")
    BY SMTT(30) DEF Entry, Steps, Program, temp_watch, Common, Front, On
  <2>2. DOMAIN Program[d].undo = {"return0"} /\ Program[d].undo.return0 = <<>>
    BY DEF Program, temp_watch, Common
  <2>3. /\ Unwinding(d, "r_class") = r_class /\ Unwinding(d, "r_device") = <<"class">>
        /\ Unwinding(d, "return0") = <<>>
    BY <2>2, UnwindingIs
  <2> QED BY <2>1, <2>3, CommonReleases DEF Fronted, LongUnwinding
<1>2. Releases(Program[d].exit, E \cup FrontGot)
  <2>1. Program[d].exit = <<"thread", "wait", "value", "threshold", "procdir">> \o FrontExit
    BY DEF Program, temp_watch, Common
  <2>2. Releases(<<"thread", "wait", "value", "threshold", "procdir">>, E)
    BY BelowIs DEF Releases, Elems, Clean, Resources, Threads
  <2> QED BY <2>1, <2>2, JoinFront DEF FrontGot
<1>3. All(d) = FrontGot \cup E
  BY <1>1 DEF All, Got, Entry, Fronted, FrontGot, Resources, Threads
<1>4. ExitFits(d, Program[d].exit, E \cup FrontGot)
  <2>1. Fronted(d) /\ Len(Steps(d)) \in Nat /\ Len(Steps(d)) >= 4
    BY <1>1 DEF SysfsFronted
  <2>2. ClassMade(d)
    BY <2>1, FrontChecksClass
  <2> QED BY <1>2, <1>3, <2>2, ForgottenIs DEF ExitFits, FrontGot, Threads
<1>5. EntrySound(d, 5)
  <2>1. Got(d, 5) \subseteq MayRemain(d, {"procdir"})
    BY <1>1, FrontGots DEF MayRemain, FrontGot, Resources, Threads
  <2>2. LabelSound(d, 5, "procdir", "return0", <<>>)
    BY <1>1, <2>1, CommonReleases, CleanIsOrdered, FrontChecksClass
       DEF LabelSound, Releases, Lucky, NeedsQueue, KeptSound
  <2>3. EntryTyped(d, 5, "procdir", "return0")
    BY BelowIs DEF EntryTyped, Resources
  <2> QED BY <1>1, <2>2, <2>3 DEF EntrySound, Entry
<1>6. EntrySound(d, 6) /\ EntrySound(d, 7) /\ EntrySound(d, 8)
  <2>1. Steps(d)[5].get = "procdir" /\ Stops("procdir", Steps(d)[5].err)
    BY <1>1 DEF Entry, Stops, Threads
  <2> QED BY <1>1, <2>1, IgnoredEntry DEF Resources
<1>7. EntrySound(d, 9)
  BY <1>1, ThreadEntry DEF Threads
<1>8. QueueSound(d)
  BY <1>1 DEF QueueSound, NeedsQueue
<1>9. \A i \in 1 .. 9 : EntrySound(d, i)
  BY <1>1, <1>5, <1>6, <1>7, FrontEntries
<1> QED BY <1>1, <1>4, <1>8, <1>9, ExitEntry DEF TableSound

\* A /proc directory that goes with what is below it.
LEMMA ProcfsTable ==
    ASSUME NEW d \in {"procfs_module"}
    PROVE  TableSound(d)
<1> DEFINE s == Program[d].exit
<1>1. /\ Fronted(d) /\ Len(Steps(d)) = 6 /\ Program[d].uses = {}
      /\ Entry(d, 5, "procdir", "return") /\ Entry(d, 6, "x_status", "ignored")
  <2>1. /\ Len(Steps(d)) = 6 /\ Program[d].uses = {}
        /\ Entry(d, 1, "region", "return") /\ Entry(d, 2, "cdev", "r_class")
        /\ Entry(d, 3, "class", "r_class") /\ Entry(d, 4, "device", "r_device")
        /\ Entry(d, 5, "procdir", "return") /\ Entry(d, 6, "x_status", "ignored")
    BY SMTT(30) DEF Entry, Steps, Program, procfs_module, Common, Front, On
  <2>2. DOMAIN Program[d].undo = {"r_class"} /\ Program[d].undo.r_class = <<"cdev", "region">>
    BY DEF Program, procfs_module, Common
  <2>3. Unwinding(d, "r_class") = <<"cdev", "region">> /\ Unwinding(d, "r_device") = <<"class">>
    BY <2>2, UnwindingIs
  <2>4. Releases(<<"cdev", "region">>, {"region", "cdev"})
    BY BelowIs DEF Releases, Elems, Clean, Resources, Threads
  <2> QED BY <2>1, <2>3, <2>4, CommonReleases DEF Fronted, LongUnwinding
<1>2. Releases(s, {"procdir"} \cup FrontGot)
  <2>1. s = <<"procdir">> \o FrontExit
    BY DEF Program, procfs_module, Common
  <2>2. Releases(<<"procdir">>, {"procdir"})
    BY BelowIs DEF Releases, Elems, Clean, Resources, Threads
  <2> QED BY <2>1, <2>2, JoinFront DEF FrontGot
<1>3. All(d) = FrontGot \cup {"procdir", "x_status"}
  BY <1>1 DEF All, Got, Entry, Fronted, FrontGot, Resources, Threads
<1>4. ExitSound(d, s)
  <2>1. "x_status" \in Freed(s)
    BY <1>2, BelowIs DEF Releases, Freed, Elems, Resources
  <2>2. All(d) \ Freed(s) = {}
    BY <1>2, <1>3, <2>1, ElemsFreed DEF Releases
  <2>3. Fronted(d) /\ Len(Steps(d)) \in Nat /\ Len(Steps(d)) >= 4
    BY <1>1
  <2>4. ClassMade(d)
    BY <2>3, FrontChecksClass
  <2> QED BY <1>2, <1>3, <2>2, <2>4, CleanIsOrdered DEF ExitSound, Releases, FrontGot, Threads
<1>5. EntrySound(d, 5)
  <2>1. Got(d, 5) \subseteq MayRemain(d, {"procdir"})
    BY <1>1, FrontGots DEF MayRemain, FrontGot, Resources, Threads
  <2> QED BY <1>1, <2>1, ReturnEntry DEF Plain, Resources, Threads
<1>6. EntrySound(d, 6)
  <2>1. Steps(d)[5].get = "procdir" /\ Stops("procdir", Steps(d)[5].err)
    BY <1>1 DEF Entry, Stops, Threads
  <2> QED BY <1>1, <2>1, IgnoredEntry DEF Resources
<1>7. QueueSound(d)
  BY <1>1 DEF QueueSound, NeedsQueue
<1>8. \A i \in 1 .. 6 : EntrySound(d, i)
  BY <1>1, <1>5, <1>6, FrontEntries
<1> QED BY <1>1, <1>4, <1>7, <1>8 DEF TableSound

\* A kobject and its file, which the exit function forgets, and an unwinding
\* that frees the kobject before it removes the file.
LEMMA SysfsTable ==
    ASSUME NEW d \in {"sysfs_module"}
    PROVE  TableSound(d)
<1> DEFINE u == <<"kobject", "sysfs", "class">> \o r_class
<1>1. /\ Fronted(d) /\ Len(Steps(d)) = 6 /\ Program[d].uses = {}
      /\ Entry(d, 5, "kobject", "return") /\ Entry(d, 6, "sysfs", "r_sysfs")
      /\ Unwinding(d, "r_sysfs") = u
  <2>1. /\ Len(Steps(d)) = 6 /\ Program[d].uses = {}
        /\ Entry(d, 1, "region", "return") /\ Entry(d, 2, "cdev", "r_class")
        /\ Entry(d, 3, "class", "r_class") /\ Entry(d, 4, "device", "r_device")
        /\ Entry(d, 5, "kobject", "return") /\ Entry(d, 6, "sysfs", "r_sysfs")
    BY SMTT(30) DEF Entry, Steps, Program, sysfs_module, Common, Front, On
  <2>2. /\ DOMAIN Program[d].undo = {"r_sysfs", "r_device"}
        /\ Program[d].undo.r_sysfs = u /\ Program[d].undo.r_device = <<"class">> \o r_class
    <3>1. DOMAIN Program[d].undo = {"r_sysfs", "r_device"}
      BY DEF Program, sysfs_module, Common
    <3>2. Program[d].undo.r_sysfs = u
      BY DEF Program, sysfs_module, Common
    <3>3. Program[d].undo.r_device = <<"class">> \o r_class
      BY DEF Program, sysfs_module, Common
    <3> QED BY <3>1, <3>2, <3>3
  <2>3. /\ Unwinding(d, "r_class") = r_class /\ Unwinding(d, "r_device") = <<"class">> \o r_class
        /\ Unwinding(d, "r_sysfs") = u
    BY <2>2, UnwindingIs
  <2>4. Releases(<<"class">> \o r_class, {"class", "region", "cdev"})
    BY CommonReleases, Join, BelowIs
  <2> QED BY <2>1, <2>3, <2>4, CommonReleases DEF Fronted, LongUnwinding
<1>2. Releases(Program[d].exit, FrontGot)
  <2>1. Program[d].exit = <<>> \o FrontExit
    BY DEF Program, sysfs_module, Common
  <2> QED BY <2>1, CommonReleases, JoinFront
<1>3. All(d) = FrontGot \cup {"kobject", "sysfs"}
  BY <1>1 DEF All, Got, Entry, Fronted, FrontGot, Resources, Threads
<1>4. ExitFits(d, Program[d].exit, FrontGot)
  <2>1. Fronted(d) /\ Len(Steps(d)) \in Nat /\ Len(Steps(d)) >= 4
    BY <1>1 DEF SysfsFronted
  <2>2. ClassMade(d)
    BY <2>1, FrontChecksClass
  <2> QED BY <1>2, <1>3, <2>2, ForgottenIs DEF ExitFits, FrontGot, Threads
<1>5. EntrySound(d, 5)
  <2>1. Got(d, 5) \subseteq MayRemain(d, {"kobject"})
    BY <1>1, FrontGots DEF MayRemain, FrontGot, Resources, Threads
  <2> QED BY <1>1, <2>1, ReturnEntry DEF Plain, Resources, Threads
<1>6. EntrySound(d, 6)
  <2>1. u \in Seq(Resources) /\ Elems(u) = {"kobject", "sysfs", "class", "region", "cdev"}
    <3> DEFINE t == <<"kobject", "sysfs", "class">>
    <3>1. t \in Seq(Resources) /\ Elems(t) = {"kobject", "sysfs", "class"}
      BY DEF Elems, Resources, Threads
    <3>2. r_class \in Seq(Resources) /\ Elems(r_class) = {"region", "cdev"}
      BY CommonReleases DEF Releases
    <3> HIDE DEF t
    <3>3. t \o r_class \in Seq(Resources) /\ Elems(t \o r_class) = Elems(t) \cup Elems(r_class)
      BY <3>1, <3>2, ReleasesJoin
    <3>4. u = t \o r_class
      BY DEF t
    <3> HIDE DEF u
    <3> QED BY <3>1, <3>2, <3>3, <3>4
  <2>2. Got(d, 6) = FrontGot \cup {"kobject"}
    BY <1>1 DEF Got, Entry, Fronted, FrontGot, Resources, Threads
  <2>3. Got(d, 6) \ Freed(u) \subseteq MayRemain(d, {"sysfs"})
    BY <2>1, <2>2, ElemsFreed DEF MayRemain, FrontGot, Resources
  <2>4. LabelSound(d, 6, "sysfs", "r_sysfs", u)
    BY <2>1, <2>2, <2>3, CleanIsOrdered DEF LabelSound, KeepsLoaded, NeedsQueue, Threads
  <2>5. EntryTyped(d, 6, "sysfs", "r_sysfs")
    BY BelowIs DEF EntryTyped, Resources
  <2> QED BY <1>1, <2>4, <2>5 DEF EntrySound, Entry
<1>7. QueueSound(d)
  BY <1>1 DEF QueueSound, NeedsQueue
<1>8. \A i \in 1 .. 6 : EntrySound(d, i)
  BY <1>1, <1>5, <1>6, FrontEntries
<1> QED BY <1>1, <1>4, <1>7, <1>8, ExitEntry DEF TableSound

\* A region, a class and a device without a cdev of their own to unwind.
LEMMA DeviceTable ==
    ASSUME NEW d \in {"device_driver"}
    PROVE  TableSound(d)
<1> USE DEF Plain, Resources, Tests, Threads
<1>1. /\ Len(Steps(d)) = 3 /\ Program[d].uses = {}
      /\ Entry(d, 1, "region", "r_chrdev") /\ Entry(d, 2, "class", "r_class")
      /\ Entry(d, 3, "device", "r_device")
      /\ Program[d].exit = <<"device", "class", "region">>
  BY DEF Entry, Steps, Program, device_driver, On
<1>2. /\ Unwinding(d, "r_chrdev") = <<"region">>
      /\ Unwinding(d, "r_class") = <<"class", "region">>
      /\ Unwinding(d, "r_device") = <<"device", "class", "region">>
  BY DEF Unwinding, Program, device_driver
<1>3. /\ Releases(<<"region">>, {"region"})
      /\ Releases(<<"class", "region">>, {"class", "region"})
      /\ Releases(<<"device", "class", "region">>, {"device", "class", "region"})
  BY BelowIs DEF Releases, Elems, Clean
<1>4. /\ Got(d, 1) = {} /\ Got(d, 2) = {"region"} /\ Got(d, 3) = {"region", "class"}
      /\ All(d) = {"region", "class", "device"}
  BY <1>1 DEF All, Got, Entry
<1>5. ClassChecked(d, 3) /\ ClassMade(d)
  BY <1>1 DEF ClassChecked, ClassMade, Entry, Stops
<1>6. EntrySound(d, 1)
  <2>1. LabelFits(d, 1, "region", "r_chrdev", {"region"})
    BY <1>1, <1>2, <1>3, <1>4 DEF LabelFits, NeedsQueue, KeptSound, MayRemain
  <2> QED BY <2>1, LabelEntry
<1>7. EntrySound(d, 2)
  <2>1. LabelFits(d, 2, "class", "r_class", {"class", "region"})
    BY <1>1, <1>2, <1>3, <1>4 DEF LabelFits, NeedsQueue, KeptSound, MayRemain
  <2> QED BY <2>1, LabelEntry
<1>8. EntrySound(d, 3)
  <2>1. LabelFits(d, 3, "device", "r_device", {"device", "class", "region"})
    BY <1>1, <1>2, <1>3, <1>4, <1>5 DEF LabelFits, NeedsQueue, KeptSound, MayRemain
  <2> QED BY <2>1, LabelEntry
<1>9. ExitFits(d, Program[d].exit, {"device", "class", "region"})
  BY <1>1, <1>3, <1>4, <1>5 DEF ExitFits
<1>10. QueueSound(d)
  BY <1>1 DEF QueueSound, NeedsQueue
<1>11. \A j \in 1 .. Len(Steps(d)) :
         Steps(d)[j].get \in FrontGot /\ Stops(Steps(d)[j].get, Steps(d)[j].err)
  BY <1>1 DEF Entry, Stops, FrontGot
<1> QED BY <1>1, <1>4, <1>6, <1>7, <1>8, <1>9, <1>10, <1>11, ExitEntry DEF TableSound

\* The front with labels that leave the cdev, as the exit function does.
LEMMA IoctlTable ==
    ASSUME NEW d \in {"ioctl"}
    PROVE  TableSound(d)
<1> USE DEF Plain, Resources, Tests, Threads
<1>1. /\ Len(Steps(d)) = 4 /\ Program[d].uses = {}
      /\ Entry(d, 1, "region", "return") /\ Entry(d, 2, "cdev", "r_class")
      /\ Entry(d, 3, "class", "r_class") /\ Entry(d, 4, "device", "r_device")
      /\ Program[d].exit = <<"device", "class", "region">>
  BY DEF Entry, Steps, Program, ioctl, Front, On
<1>2. Unwinding(d, "r_class") = <<"region">> /\ Unwinding(d, "r_device") = <<"class", "region">>
  BY DEF Unwinding, Program, ioctl
<1>3. /\ Releases(<<"region">>, {"region"})
      /\ Releases(<<"class", "region">>, {"class", "region"})
      /\ Releases(<<"device", "class", "region">>, {"device", "class", "region"})
  BY BelowIs DEF Releases, Elems, Clean
<1>4. /\ Got(d, 1) = {} /\ Got(d, 2) = {"region"} /\ Got(d, 3) = {"region", "cdev"}
      /\ Got(d, 4) = {"region", "cdev", "class"}
      /\ All(d) = {"region", "cdev", "class", "device"}
  BY <1>1 DEF All, Got, Entry
<1>5. /\ "cdev" \in MayRemain(d, {"class"}) /\ "cdev" \in MayRemain(d, {"device"})
      /\ ClassMade(d)
  BY <1>1, ForgottenIs DEF MayRemain, FrontGot, ClassMade, ClassChecked, Entry, Stops
<1>6. EntrySound(d, 1)
  BY <1>1, <1>4, ReturnEntry
<1>7. EntrySound(d, 2)
  <2>1. LabelFits(d, 2, "cdev", "r_class", {"region"})
    BY <1>1, <1>2, <1>3, <1>4 DEF LabelFits, NeedsQueue
  <2> QED BY <2>1, LabelEntry
<1>8. EntrySound(d, 3)
  <2>1. LabelFits(d, 3, "class", "r_class", {"region"})
    BY <1>1, <1>2, <1>3, <1>4, <1>5 DEF LabelFits, NeedsQueue
  <2> QED BY <2>1, LabelEntry
<1>9. EntrySound(d, 4)
  <2>1. LabelFits(d, 4, "device", "r_device", {"class", "region"})
    BY <1>1, <1>2, <1>3, <1>4, <1>5 DEF LabelFits, NeedsQueue
  <2> QED BY <2>1, LabelEntry
<1>10. ExitFits(d, Program[d].exit, {"device", "class", "region"})
  BY <1>1, <1>3, <1>4, <1>5, ForgottenIs DEF ExitFits
<1>11. QueueSound(d)
  BY <1>1 DEF QueueSound, NeedsQueue
<1> QED BY <1>1, <1>6, <1>7, <1>8, <1>9, <1>10, <1>11, ExitEntry DEF TableSound

\* Only the first result is looked at.
LEMMA UncheckedTable ==
    ASSUME NEW d \in {"kmalloc", "vmalloc"}
    PROVE  TableSound(d)
<1> USE DEF Plain, Resources, Tests, Threads
<1>1. /\ Len(Steps(d)) = 4 /\ Program[d].uses = {}
      /\ Entry(d, 1, "region", "return") /\ Entry(d, 2, "cdev", "ignored")
      /\ Entry(d, 3, "class", "ignored") /\ Entry(d, 4, "device", "ignored")
      /\ Program[d].exit = FrontExit
  BY DEF Entry, Steps, Program, kmalloc, vmalloc, Unchecked, On
<1>2. Got(d, 1) = {} /\ All(d) = FrontGot
  BY <1>1 DEF All, Got, Entry, FrontGot
<1>3. EntrySound(d, 1)
  BY <1>1, <1>2, ReturnEntry
<1>4. EntrySound(d, 2) /\ EntrySound(d, 3) /\ EntrySound(d, 4)
  BY <1>1, IgnoredEntry, BelowIs
<1>5. ExitFits(d, Program[d].exit, FrontGot)
  BY <1>1, <1>2, CommonReleases DEF ExitFits, FrontGot, ClassMade, UncheckedClass
<1>6. QueueSound(d)
  BY <1>1 DEF QueueSound, NeedsQueue
<1> QED BY <1>1, <1>3, <1>4, <1>5, <1>6, ExitEntry DEF TableSound

\* A failed cdev_add leaves the region.
LEMMA SlabTable ==
    ASSUME NEW d \in {"custom_slab_cache"}
    PROVE  TableSound(d)
<1> USE DEF Plain, Resources, Tests, Threads
<1>1. /\ Len(Steps(d)) = 5 /\ Program[d].uses = {}
      /\ Entry(d, 1, "region", "return") /\ Entry(d, 2, "cdev", "return")
      /\ Entry(d, 3, "class", "ignored") /\ Entry(d, 4, "device", "ignored")
      /\ Entry(d, 5, "slab", "ignored")
      /\ Program[d].exit = <<"slab">> \o FrontExit
  BY DEF Entry, Steps, Program, custom_slab_cache, On
<1>2. /\ Got(d, 1) = {} /\ Got(d, 2) = {"region"} /\ All(d) = FrontGot \cup {"slab"}
  BY <1>1 DEF All, Got, Entry, FrontGot
<1>3. EntrySound(d, 1)
  BY <1>1, <1>2, ReturnEntry
<1>4. EntrySound(d, 2)
  BY <1>1, <1>2, ReturnEntry DEF MayRemain, LeftRegistered, FrontGot
<1>5. EntrySound(d, 3) /\ EntrySound(d, 4) /\ EntrySound(d, 5)
  <2>1. /\ {"class", "device", "slab"} \subseteq Resources \ {"timer"}
        /\ {"class", "device", "slab"} \cap Below("procdir") = {}
    BY BelowIs
  <2> QED BY <1>1, <2>1, IgnoredEntry
<1>6. Releases(Program[d].exit, {"slab"} \cup FrontGot)
  <2>1. Releases(<<"slab">>, {"slab"})
    BY BelowIs DEF Releases, Elems, Clean
  <2> QED BY <1>1, <2>1, JoinFront DEF FrontGot
<1>7. ExitFits(d, Program[d].exit, {"slab"} \cup FrontGot)
  BY <1>2, <1>6 DEF ExitFits, FrontGot, ClassMade, UncheckedClass
<1>8. QueueSound(d)
  BY <1>1 DEF QueueSound, NeedsQueue
<1> QED BY <1>1, <1>3, <1>4, <1>5, <1>7, <1>8, ExitEntry DEF TableSound

\* One registration, whose failure the init function does not report.
LEMMA MiscTable ==
    ASSUME NEW d \in {"misc_module"}
    PROVE  TableSound(d)
<1> USE DEF Resources, Tests, Threads
<1>1. /\ Len(Steps(d)) = 1 /\ Program[d].uses = {} /\ Entry(d, 1, "misc", "r_miscdevice")
      /\ Program[d].exit = <<"misc">>
  BY DEF Entry, Steps, Program, misc_module, On
<1>2. Unwinding(d, "r_miscdevice") = <<"misc">>
  BY DEF Unwinding, Program, misc_module
<1>3. Releases(<<"misc">>, {"misc"})
  BY BelowIs DEF Releases, Elems, Clean
<1>4. Got(d, 1) = {} /\ All(d) = {"misc"}
  BY <1>1 DEF All, Got, Entry
<1>5. LabelSound(d, 1, "misc", "r_miscdevice", <<"misc">>)
  <2>1. ~HasNode(d)
    BY <1>1, <1>3 DEF HasNode, Releases
  <2> QED BY <1>3, <1>4, <2>1, CleanIsOrdered DEF LabelSound, Releases, Lucky, NeedsQueue
<1>6. EntryTyped(d, 1, "misc", "r_miscdevice")
  BY BelowIs DEF EntryTyped
<1>7. EntrySound(d, 1)
  BY <1>1, <1>2, <1>5, <1>6 DEF EntrySound, Entry
<1>8. ExitFits(d, Program[d].exit, {"misc"})
  BY <1>1, <1>3, <1>4 DEF ExitFits
<1>9. QueueSound(d)
  BY <1>1 DEF QueueSound, NeedsQueue
<1> QED BY <1>1, <1>7, <1>8, <1>9, ExitEntry DEF TableSound

LEMMA UsbTable ==
    ASSUME NEW d \in {"usb"}
    PROVE  TableSound(d)
<1> USE DEF Resources, Tests, Threads
<1>1. /\ Len(Steps(d)) = 1 /\ Program[d].uses = {} /\ Entry(d, 1, "usb", "return0")
      /\ Program[d].exit = <<"usb">>
  BY DEF Entry, Steps, Program, usb, On
<1>2. Unwinding(d, "return0") = <<>>
  BY DEF Unwinding, Program, usb
<1>3. Releases(<<"usb">>, {"usb"})
  BY BelowIs DEF Releases, Elems, Clean
<1>4. Got(d, 1) = {} /\ All(d) = {"usb"}
  BY <1>1 DEF All, Got, Entry
<1>5. LabelSound(d, 1, "usb", "return0", <<>>)
  <2>1. ~HasNode(d)
    BY <1>1, <1>3 DEF HasNode, Releases
  <2> QED BY <1>4, <2>1, CommonReleases, CleanIsOrdered
          DEF LabelSound, Releases, Lucky, NeedsQueue
<1>6. EntryTyped(d, 1, "usb", "return0")
  BY BelowIs DEF EntryTyped
<1>7. EntrySound(d, 1)
  BY <1>1, <1>2, <1>5, <1>6 DEF EntrySound, Entry
<1>8. ExitFits(d, Program[d].exit, {"usb"})
  BY <1>1, <1>3, <1>4 DEF ExitFits
<1>9. QueueSound(d)
  BY <1>1 DEF QueueSound, NeedsQueue
<1> QED BY <1>1, <1>7, <1>8, <1>9, ExitEntry DEF TableSound

LEMMA Usbv1Table ==
    ASSUME NEW d \in {"usbv1"}
    PROVE  TableSound(d)
<1> USE DEF Plain, Resources, Tests, Threads
<1>1. /\ Len(Steps(d)) = 1 /\ Program[d].uses = {} /\ Entry(d, 1, "usb", "return")
      /\ Program[d].exit = <<"usb">>
  BY DEF Entry, Steps, Program, usbv1, On
<1>2. Releases(<<"usb">>, {"usb"})
  BY BelowIs DEF Releases, Elems, Clean
<1>3. Got(d, 1) = {} /\ All(d) = {"usb"}
  BY <1>1 DEF All, Got, Entry
<1>4. EntrySound(d, 1)
  BY <1>1, <1>3, ReturnEntry
<1>5. ExitFits(d, Program[d].exit, {"usb"})
  BY <1>1, <1>2, <1>3 DEF ExitFits
<1>6. QueueSound(d)
  BY <1>1 DEF QueueSound, NeedsQueue
<1> QED BY <1>1, <1>4, <1>5, <1>6, ExitEntry DEF TableSound

\* The front, a line that is tested, taken and exported; the exit function gives
\* the line back twice.
LEMMA GpioTable ==
    ASSUME NEW d \in {"gpio"}
    PROVE  TableSound(d)
<1> USE DEF Plain, Resources, Tests, Threads
<1> DEFINE u == <<"device", "class">> \o <<"cdev", "region">>
           s == <<"export", "gpio", "gpio">> \o u
<1>1. /\ Len(Steps(d)) = 9 /\ Program[d].uses = {}
      /\ Entry(d, 1, "region", "r_unreg") /\ Entry(d, 2, "cdev", "r_cdev")
      /\ Entry(d, 3, "class", "r_class") /\ Entry(d, 4, "device", "r_device")
      /\ Entry(d, 5, "line", "r_device") /\ Entry(d, 6, "gpio", "r_device")
      /\ Entry(d, 7, "line", "r_gpio") /\ Entry(d, 8, "line", "r_gpio")
      /\ Entry(d, 9, "export", "ignored")
  BY DEF Entry, Steps, Program, gpio, On
<1>2. Program[d].exit = s
  BY DEF Program, gpio
<1>3. /\ DOMAIN Program[d].undo = {"r_unreg", "r_cdev", "r_class", "r_device", "r_gpio"}
      /\ Program[d].undo.r_unreg = <<"region">>
      /\ Program[d].undo.r_cdev = <<"cdev", "region">>
      /\ Program[d].undo.r_class = <<"class">> \o <<"cdev", "region">>
      /\ Program[d].undo.r_device = u
      /\ Program[d].undo.r_gpio = <<"gpio">> \o u
  <2>1. DOMAIN Program[d].undo = {"r_unreg", "r_cdev", "r_class", "r_device", "r_gpio"}
    BY DEF Program, gpio
  <2>2. /\ Program[d].undo.r_unreg = <<"region">>
        /\ Program[d].undo.r_cdev = <<"cdev", "region">>
    BY DEF Program, gpio
  <2>3. Program[d].undo.r_class = <<"class">> \o <<"cdev", "region">>
    BY DEF Program, gpio
  <2>4. Program[d].undo.r_device = u
    BY DEF Program, gpio
  <2>5. Program[d].undo.r_gpio = <<"gpio">> \o u
    BY DEF Program, gpio
  <2> QED BY <2>1, <2>2, <2>3, <2>4, <2>5
<1>4. /\ Unwinding(d, "r_unreg") = <<"region">>
      /\ Unwinding(d, "r_cdev") = <<"cdev", "region">>
      /\ Unwinding(d, "r_class") = <<"class">> \o <<"cdev", "region">>
      /\ Unwinding(d, "r_device") = u
      /\ Unwinding(d, "r_gpio") = <<"gpio">> \o u
  BY <1>3, UnwindingIs
<1>5. /\ Releases(<<"region">>, {"region"}) /\ Releases(<<"cdev", "region">>, {"cdev", "region"})
      /\ Releases(<<"device", "class">>, {"device", "class"}) /\ Releases(<<"gpio">>, {"gpio"})
  BY BelowIs DEF Releases, Elems, Clean
<1>6. Releases(<<"class">> \o <<"cdev", "region">>, {"class", "cdev", "region"})
  BY <1>5, CommonReleases, Join, BelowIs
<1>7. Releases(u, FrontGot)
  BY <1>5, Join, BelowIs DEF FrontGot
<1>8. Releases(<<"gpio">> \o u, {"gpio"} \cup FrontGot)
  BY <1>5, <1>7, Join, BelowIs DEF FrontGot
<1>9. s \in Seq(Resources) /\ Elems(s) = {"export", "gpio"} \cup FrontGot /\ Ordered(s)
  <2> DEFINE t == <<"export", "gpio", "gpio">>
  <2>1. t \in Seq(Resources) /\ Elems(t) = {"export", "gpio"} /\ Ordered(t)
    BY DEF Elems, Ordered
  <2>2. u \in Seq(Resources) /\ Elems(u) = FrontGot /\ Ordered(u)
    BY <1>7, CleanIsOrdered DEF Releases
  <2> HIDE DEF t, u
  <2>3. /\ t \o u \in Seq(Resources) /\ Elems(t \o u) = Elems(t) \cup Elems(u)
        /\ Ordered(t \o u)
    BY <2>1, <2>2, ReleasesJoin
  <2> QED BY <2>1, <2>2, <2>3 DEF t
<1>10. /\ Got(d, 1) = {} /\ Got(d, 2) = {"region"} /\ Got(d, 3) = {"region", "cdev"}
       /\ Got(d, 4) = {"region", "cdev", "class"} /\ Got(d, 5) = FrontGot
       /\ Got(d, 6) = FrontGot
  BY <1>1 DEF Got, Entry, FrontGot
<1>11. /\ Got(d, 7) = FrontGot \cup {"gpio"} /\ Got(d, 8) = FrontGot \cup {"gpio"}
       /\ All(d) = FrontGot \cup {"gpio", "export"}
  BY <1>1 DEF All, Got, Entry, FrontGot
<1>12. /\ ClassChecked(d, 4) /\ ClassChecked(d, 5) /\ ClassChecked(d, 6)
       /\ ClassChecked(d, 7) /\ ClassChecked(d, 8) /\ ClassMade(d)
  BY <1>1 DEF ClassChecked, ClassMade, Entry, Stops
<1>13. EntrySound(d, 1) /\ EntrySound(d, 2) /\ EntrySound(d, 3)
  <2>1. LabelFits(d, 1, "region", "r_unreg", {"region"})
    BY <1>1, <1>4, <1>5, <1>10 DEF LabelFits, NeedsQueue
  <2>2. LabelFits(d, 2, "cdev", "r_cdev", {"cdev", "region"})
    BY <1>1, <1>4, <1>5, <1>10 DEF LabelFits, NeedsQueue
  <2>3. LabelFits(d, 3, "class", "r_class", {"class", "cdev", "region"})
    BY <1>1, <1>4, <1>6, <1>10 DEF LabelFits, NeedsQueue
  <2> QED BY <2>1, <2>2, <2>3, LabelEntry
<1>14. EntrySound(d, 4) /\ EntrySound(d, 5) /\ EntrySound(d, 6)
  <2>1. LabelFits(d, 4, "device", "r_device", FrontGot)
    BY <1>1, <1>4, <1>7, <1>10, <1>12 DEF LabelFits, NeedsQueue, FrontGot
  <2>2. LabelFits(d, 5, "line", "r_device", FrontGot)
    BY <1>1, <1>4, <1>7, <1>10, <1>12 DEF LabelFits, NeedsQueue, FrontGot
  <2>3. LabelFits(d, 6, "gpio", "r_device", FrontGot)
    BY <1>1, <1>4, <1>7, <1>10, <1>12 DEF LabelFits, NeedsQueue, FrontGot
  <2> QED BY <2>1, <2>2, <2>3, LabelEntry
<1>15. EntrySound(d, 7) /\ EntrySound(d, 8)
  <2>1. LabelFits(d, 7, "line", "r_gpio", {"gpio"} \cup FrontGot)
    BY <1>1, <1>4, <1>8, <1>11, <1>12 DEF LabelFits, NeedsQueue, FrontGot
  <2>2. LabelFits(d, 8, "line", "r_gpio", {"gpio"} \cup FrontGot)
    BY <1>1, <1>4, <1>8, <1>11, <1>12 DEF LabelFits, NeedsQueue, FrontGot
  <2> QED BY <2>1, <2>2, LabelEntry
<1>16. EntrySound(d, 9)
  BY <1>1, IgnoredEntry, BelowIs
<1>17. ExitFits(d, Program[d].exit, {"export", "gpio"} \cup FrontGot)
  BY <1>2, <1>9, <1>11, <1>12 DEF ExitFits, FrontGot
<1>18. QueueSound(d)
  BY <1>1 DEF QueueSound, NeedsQueue
<1>19. \A i \in 1 .. 9 : EntrySound(d, i)
  BY <1>13, <1>14, <1>15, <1>16
<1> QED BY <1>1, <1>17, <1>18, <1>19, ExitEntry DEF TableSound

-----------------------------------------------------------------------------
(* The load table: every driver of it *)

LEMMA DriverNames ==
    DOMAIN Program =
      {"device_driver", "ioctl", "kmalloc", "vmalloc", "sysfs_module", "procfs_module",
       "custom_slab_cache", "wait_queue_module", "kthread_module", "mutex_module",
       "without_mutex_module", "temp_watch", "interrupt_module", "spinlock_module",
       "rwspinlock_module", "spinlock_with_interrupts", "workqueues_module",
       "workqueues_on_cpu", "own_workqueues", "linked_list", "tasklet_module",
       "signal_module", "sec_signal_module", "timer_module", "hrtimer_module",
       "completion_module", "export_symbol", "export_symbol_2", "atomic_variable",
       "seqlock_module", "misc_module", "usb", "usbv1", "gpio"}
BY DEF Program

\* The init and exit functions of any kernel's drivers are sound.
LEMMA TableIsSound == \A d \in Drivers : TableSound(d)
<1> SUFFICES ASSUME NEW d \in Drivers
             PROVE  TableSound(d)
  OBVIOUS
<1>1. d \in DOMAIN Program
  BY DriversAssumption
<1>2. CASE d \in {"device_driver", "ioctl", "kmalloc", "vmalloc", "sysfs_module",
                  "procfs_module", "custom_slab_cache", "temp_watch", "misc_module", "usb",
                  "usbv1", "gpio"}
  BY <1>2, DeviceTable, IoctlTable, UncheckedTable, SysfsTable, ProcfsTable, SlabTable,
     TempWatchTable, MiscTable, UsbTable, Usbv1Table, GpioTable
<1>3. CASE d \in {"wait_queue_module", "completion_module", "kthread_module", "mutex_module",
                  "without_mutex_module", "interrupt_module", "sec_signal_module",
                  "timer_module", "hrtimer_module", "export_symbol", "export_symbol_2",
                  "atomic_variable"}
  BY <1>3, WaitingTable, KthreadTable, MutexTable, InterruptTable, PlainTable, TimerTable,
     AtomicTable
<1>4. CASE d \in {"spinlock_module", "seqlock_module", "rwspinlock_module",
                  "spinlock_with_interrupts", "workqueues_module", "workqueues_on_cpu",
                  "tasklet_module", "own_workqueues", "linked_list", "signal_module"}
  BY <1>4, SpinlockTable, RwSpinlockTable, SpinlockInterruptsTable, WorkqueueTable,
     QueueTable, SignalTable
<1> QED BY <1>1, <1>2, <1>3, <1>4, DriverNames

-----------------------------------------------------------------------------
(* The inductive invariant, for one driver *)

HeldInv(d) ==
    /\ held[d] \subseteq All(d)
    /\ orphans[d] \subseteq MayRemain(d, failed[d])
    /\ \A k \in Resources : held[d] \cap Below(k) # {} => k \in held[d]
    /\ phase[d] = "out" => held[d] = {}
    /\ phase[d] = "init" =>
         /\ held[d] \subseteq Got(d, step[d])
         /\ Got(d, step[d]) \ failed[d] \subseteq held[d]
         /\ \A j \in 1 .. step[d] - 1 :
              Stops(Steps(d)[j].get, Steps(d)[j].err) => Steps(d)[j].get \in held[d] \cup Tests
         /\ ptr[d] = held[d]
    /\ phase[d] = "loaded" =>
         \/ All(d) \ failed[d] \subseteq held[d] /\ ptr[d] = held[d]
         \/ Lucky(d, failed[d])

\* Releases s are left, with h registered, p set and F failed: they give back
\* all that may not remain, none finds its resource gone by an earlier one, and
\* what a release of a thread or of a sysfs file relies on is there.
ReleasesSound(d, s, h, p, F) ==
    /\ h \ Freed(s) \subseteq MayRemain(d, F)
    /\ Clean(s) \/ d = "gpio" \/ (d = "sysfs_module" /\ "sysfs" \in F)
    /\ F \cap (Threads \cup {"kobject", "procdir"}) = {} => Elems(s) \cap Threads \subseteq h
    /\ d \in {"gpio", "sysfs_module"} => Elems(s) \cap Threads = {}
    /\ d = "gpio" => "sysfs" \notin Elems(s)
    /\ Ordered(s)
    /\ "device" \in Elems(s) => "class" \in h \/ Excused(d, p, F)
    /\ "sysfs" \in Elems(s) =>
         /\ "kobject" \in F \cup p
         /\ d # "sysfs_module" /\ "kobject" \in p => "kobject" \in h
         /\ d = "sysfs_module" => "sysfs" \in F

ReleaseInv(d) ==
    phase[d] \in {"undo", "exit"} =>
        ReleasesSound(d, todo[d], held[d], ptr[d], failed[d])

EndInv(d) ==
    /\ phase[d] = "undo" => failed[d] # {} /\ (ends[d] = "loaded" => Lucky(d, failed[d]))
    /\ phase[d] = "exit" =>
         /\ ends[d] = "out"
         /\ failed[d] = {} /\ d # "gpio" => Elems(todo[d]) \subseteq held[d]

OwnQueueInv(d) ==
    d \in NeedsQueue =>
      /\ phase[d] \in {"undo", "stuck"} => "irq" \notin held[d]
      /\ phase[d] = "exit" =>
           \/ todo[d] \in {Program[d].exit, Tail(Program[d].exit)}
           \/ "irq" \notin held[d]
      /\ phase[d] = "loaded" => "wq" \in held[d]
      /\ phase[d] = "init" /\ step[d] > Len(Steps(d)) => "wq" \in held[d]

MishapInv(d) ==
    /\ failed[d] = {} => mishap[d] \subseteq (IF d = "gpio" THEN {"warn"} ELSE {})
    /\ "stale" \in mishap[d] =>
         \/ d = "sysfs_module" /\ "sysfs" \in failed[d]
         \/ d = "device_driver" /\ "device" \in failed[d]
    /\ "oops" \in mishap[d] => PointerLost(d) \/ "stale" \in mishap[d]

\* A driver that is loaded, or will be, and whose exit function releases a device
\* node, has the class of the node or is excused; device_driver.c is loaded with
\* all that it registers or with nothing.
ClassInv(d) ==
    /\ phase[d] = "loaded" /\ HasNode(d) =>
         "class" \in held[d] \/ Excused(d, ptr[d], failed[d])
    /\ phase[d] = "undo" /\ ends[d] = "loaded" /\ HasNode(d) =>
         \/ todo[d] = <<>> /\ "class" \in held[d]
         \/ Excused(d, ptr[d], failed[d])
    /\ d = "device_driver" =>
         /\ failed[d] \subseteq FrontGot
         /\ phase[d] = "loaded" => held[d] \in {{}, {"region", "class", "device"}}

DriverInv(d) ==
    /\ HeldInv(d) /\ ReleaseInv(d) /\ EndInv(d) /\ OwnQueueInv(d) /\ MishapInv(d)
    /\ ClassInv(d)

PanicInv ==
    panic =>
      \E d \in Drivers \cap NeedsQueue :
         \/ "irq" \in held[d] /\ "wq" \notin held[d] /\ phase[d] \in {"init", "exit"}
         \/ "irq" \in orphans[d] /\ "wq" \in failed[d]

LoadInv == TypeOK /\ PanicInv /\ \A d \in Drivers : DriverInv(d)

\* A step that leaves driver e alone.
Rests(e) ==
    /\ phase'[e] = phase[e] /\ step'[e] = step[e] /\ todo'[e] = todo[e] /\ ends'[e] = ends[e]
    /\ held'[e] = held[e] /\ ptr'[e] = ptr[e] /\ orphans'[e] = orphans[e]
    /\ failed'[e] = failed[e] /\ mishap'[e] = mishap[e]

OthersRest(d) == \A e \in Drivers \ {d} : Rests(e)

\* What the others do does not change what is true of a driver.
LEMMA RestKeeps ==
    ASSUME NEW e, Rests(e), DriverInv(e)
    PROVE  DriverInv(e)'
BY DEF Rests, DriverInv, HeldInv, ReleaseInv, EndInv, OwnQueueInv, MishapInv, ClassInv,
       PointerLost

\* A load begins with nothing registered; what earlier ones left is orphaned.
LEMMA InsmodKeeps ==
    ASSUME TypeOK, NEW d \in Drivers, DriverInv(d), Insmod(d)
    PROVE  TypeOK' /\ DriverInv(d)' /\ OthersRest(d)
<1>1. /\ phase'[d] = "init" /\ step'[d] = 1 /\ ptr'[d] = {} /\ todo'[d] = todo[d]
      /\ ends'[d] = ends[d] /\ held'[d] = held[d] /\ orphans'[d] = orphans[d]
      /\ failed'[d] = failed[d] /\ mishap'[d] = mishap[d] /\ phase[d] = "out"
  BY DEF TypeOK, Insmod
<1>2. OthersRest(d)
  BY DEF TypeOK, Insmod, OthersRest, Rests
<1>3. TypeOK'
  <2>1. step'[d] \in 1 .. Len(Steps(d)) + 1
    BY <1>1, TableIsSound DEF TableSound
  <2> QED BY <2>1, BoundsAssumption DEF TypeOK, Insmod
<1>4. HeldInv(d)'
  BY <1>1, GotFirst DEF DriverInv, HeldInv
<1>5. ReleaseInv(d)' /\ EndInv(d)' /\ MishapInv(d)' /\ ClassInv(d)'
  BY <1>1 DEF DriverInv, ReleaseInv, EndInv, MishapInv, PointerLost, ClassInv
<1>6. OwnQueueInv(d)'
  BY <1>1, TableIsSound DEF DriverInv, OwnQueueInv, TableSound, QueueSound
<1> QED BY <1>2, <1>3, <1>4, <1>5, <1>6 DEF DriverInv

\* What a step that succeeds was not doomed by: a timer and a thread need nothing.
LEMMA StepDoneKeeps ==
    ASSUME TypeOK, NEW d \in Drivers, DriverInv(d), StepDone(d)
    PROVE  TypeOK' /\ DriverInv(d)' /\ OthersRest(d)
<1> DEFINE kind == Current(d).get
<1>1. /\ phase[d] = "init" /\ step[d] \in 1 .. Len(Steps(d)) /\ Len(Steps(d)) \in Nat
      /\ kind \in Resources \cup Tests /\ kind = Steps(d)[step[d]].get
  <2>1. phase[d] = "init" /\ step[d] \in 1 .. Len(Steps(d)) /\ Len(Steps(d)) \in Nat
    BY TableIsSound DEF TypeOK, StepDone, TableSound
  <2> QED BY <2>1, TableIsSound DEF TableSound, EntrySound, EntryTyped, Current
<1>2. /\ phase' = phase /\ todo' = todo /\ ends' = ends /\ orphans' = orphans
      /\ failed' = failed /\ mishap' = mishap /\ panic' = panic /\ loads' = loads
      /\ faults' = faults
      /\ step' = [step EXCEPT ![d] = step[d] + 1]
      /\ held' = [held EXCEPT ![d] = held[d] \cup ({kind} \ Tests)]
      /\ ptr' = [ptr EXCEPT ![d] = ptr[d] \cup ({kind} \ Tests)]
  BY DEF StepDone
<1>3. TypeOK'
  <2>1. step' \in [Drivers -> Nat] /\ \A e \in Drivers : step'[e] \in 1 .. Len(Steps(e)) + 1
    BY <1>1, <1>2 DEF TypeOK
  <2>2. held' \in [Drivers -> SUBSET Resources] /\ ptr' \in [Drivers -> SUBSET Resources]
    BY <1>1, <1>2 DEF TypeOK, Tests
  <2> QED BY <1>2, <2>1, <2>2 DEF TypeOK
<1>4. OthersRest(d)
  BY <1>2 DEF TypeOK, OthersRest, Rests
<1>5. /\ step'[d] = step[d] + 1 /\ held'[d] = held[d] \cup ({kind} \ Tests)
      /\ ptr'[d] = ptr[d] \cup ({kind} \ Tests)
  BY <1>2 DEF TypeOK
<1>6. /\ Got(d, step[d] + 1) = Got(d, step[d]) \cup ({kind} \ Tests)
      /\ Got(d, step[d] + 1) \subseteq All(d)
  <2>1. Got(d, step[d] + 1) = Got(d, step[d]) \cup ({kind} \ Tests)
    BY <1>1, GotGrows
  <2>2. Got(d, step[d] + 1) \subseteq All(d)
    BY <1>1 DEF All, Got
  <2> QED BY <2>1, <2>2
<1>7. HeldInv(d)'
  <2>1. \A j \in 1 .. step'[d] - 1 : Stops(Steps(d)[j].get, Steps(d)[j].err) =>
          Steps(d)[j].get \in held'[d] \cup Tests
    BY <1>1, <1>5 DEF DriverInv, HeldInv
  <2>2. \A k \in Resources : held'[d] \cap Below(k) # {} => k \in held'[d]
    <3>1. kind = "sysfs" => "kobject" \in held[d]
      BY ParentIs DEF StepDone, Doomed
    <3>2. kind \in Below("procdir") => "procdir" \in held[d]
      <4>1. EntryTyped(d, step[d], kind, Steps(d)[step[d]].err)
        BY <1>1, TableIsSound DEF TableSound, EntrySound
      <4> QED BY <1>1, <4>1 DEF EntryTyped, DriverInv, HeldInv, Tests
    <3> QED BY <1>5, <3>1, <3>2, BelowIs DEF DriverInv, HeldInv
  <2> QED BY <1>1, <1>2, <1>5, <1>6, <2>1, <2>2 DEF DriverInv, HeldInv
<1>8. ReleaseInv(d)' /\ EndInv(d)' /\ MishapInv(d)' /\ ClassInv(d)'
  BY <1>1, <1>2 DEF DriverInv, ReleaseInv, EndInv, MishapInv, PointerLost, ClassInv
<1>9. OwnQueueInv(d)'
  BY <1>1, <1>2, <1>5, TableIsSound DEF DriverInv, OwnQueueInv, TableSound, QueueSound, Tests
<1> QED BY <1>3, <1>4, <1>7, <1>8, <1>9 DEF DriverInv

\* The oops of wake_up_process on a thread that was not made: the load is stuck.
LEMMA StepOopsesKeeps ==
    ASSUME TypeOK, NEW d \in Drivers, DriverInv(d), StepOopses(d)
    PROVE  TypeOK' /\ DriverInv(d)' /\ OthersRest(d)
<1>1. /\ phase[d] = "init" /\ step[d] \in 1 .. Len(Steps(d))
      /\ Steps(d)[step[d]].get = "wake" /\ "thread" \notin held[d]
  BY ParentIs DEF TypeOK, StepOopses, Current, Doomed, NameTaken
<1>2. /\ step' = step /\ todo' = todo /\ ends' = ends /\ held' = held /\ ptr' = ptr
      /\ orphans' = orphans /\ failed' = failed /\ panic' = panic /\ loads' = loads
      /\ faults' = faults
      /\ phase' = [phase EXCEPT ![d] = "stuck"]
      /\ mishap' = [mishap EXCEPT ![d] = mishap[d] \cup {"oops"}]
  BY DEF StepOopses
<1>3. TypeOK' /\ OthersRest(d)
  BY <1>2 DEF TypeOK, OthersRest, Rests
<1>4. "thread" \in failed[d]
  <2>1. "thread" \in Got(d, step[d])
    BY <1>1, TableIsSound DEF TableSound, EntrySound, EntryTyped
  <2> QED BY <1>1, <2>1 DEF DriverInv, HeldInv
<1>5. phase'[d] = "stuck" /\ mishap'[d] = mishap[d] \cup {"oops"}
  BY <1>2 DEF TypeOK
<1>6. HeldInv(d)' /\ ReleaseInv(d)' /\ EndInv(d)' /\ ClassInv(d)'
  BY <1>2, <1>5 DEF DriverInv, HeldInv, ReleaseInv, EndInv, ClassInv
<1>7. OwnQueueInv(d)'
  <2>1. d \notin NeedsQueue
    BY <1>1, TableIsSound DEF TableSound, EntrySound, EntryTyped
  <2> QED BY <2>1 DEF OwnQueueInv
<1>8. MishapInv(d)'
  BY <1>2, <1>4, <1>5 DEF DriverInv, MishapInv, PointerLost, Threads
<1> QED BY <1>3, <1>6, <1>7, <1>8 DEF DriverInv

\* An init function that has run through has registered all that did not fail.
LEMMA InitReturnsKeeps ==
    ASSUME TypeOK, NEW d \in Drivers, DriverInv(d), InitReturns(d)
    PROVE  TypeOK' /\ DriverInv(d)' /\ OthersRest(d)
<1>1. phase[d] = "init" /\ step[d] = Len(Steps(d)) + 1 /\ step[d] > Len(Steps(d))
  BY TableIsSound DEF TypeOK, InitReturns, TableSound
<1>2. /\ step' = step /\ todo' = todo /\ ends' = ends /\ held' = held /\ ptr' = ptr
      /\ orphans' = orphans /\ failed' = failed /\ panic' = panic /\ loads' = loads
      /\ faults' = faults /\ mishap' = mishap
      /\ phase' = [phase EXCEPT ![d] = "loaded"]
  BY DEF InitReturns
<1>3. TypeOK' /\ OthersRest(d)
  BY <1>2 DEF TypeOK, OthersRest, Rests
<1>4. phase'[d] = "loaded"
  BY <1>2 DEF TypeOK
<1>5. HeldInv(d)'
  BY <1>1, <1>2, <1>4 DEF DriverInv, HeldInv, All
<1>6. ReleaseInv(d)' /\ EndInv(d)' /\ MishapInv(d)'
  BY <1>2, <1>4 DEF DriverInv, ReleaseInv, EndInv, MishapInv, PointerLost
<1>7. OwnQueueInv(d)'
  BY <1>1, <1>2, <1>4 DEF DriverInv, OwnQueueInv
<1>8. /\ held[d] \subseteq All(d) /\ All(d) \ failed[d] \subseteq held[d]
      /\ ptr[d] = held[d]
      /\ \A j \in 1 .. Len(Steps(d)) :
           Stops(Steps(d)[j].get, Steps(d)[j].err) => Steps(d)[j].get \in held[d] \cup Tests
  BY <1>1, TableIsSound DEF DriverInv, HeldInv, All, TableSound
<1>9. HasNode(d) => "class" \in held[d] \/ Excused(d, ptr[d], failed[d])
  <2>1. HasNode(d) => ClassMade(d)
    BY TableIsSound DEF HasNode, TableSound, ExitSound
  <2>2. ClassChecked(d, Len(Steps(d)) + 1) => "class" \in held[d]
    BY <1>8, TableIsSound DEF ClassChecked, TableSound, Tests
  <2> QED BY <1>8, <2>1, <2>2 DEF ClassMade, Excused
<1>10. d = "device_driver" => held[d] = {"region", "class", "device"}
  <2>1. ASSUME d = "device_driver" PROVE All(d) \subseteq held[d]
    <3>1. \A j \in 1 .. Len(Steps(d)) : Steps(d)[j].get \in held[d]
      BY <1>8, <2>1, TableIsSound DEF TableSound, FrontGot, Tests
    <3> QED BY <3>1, TableIsSound DEF All, Got, TableSound
  <2> QED BY <1>8, <2>1, TableIsSound DEF TableSound
<1>11. ClassInv(d)'
  BY <1>1, <1>2, <1>4, <1>9, <1>10 DEF DriverInv, ClassInv
<1> QED BY <1>3, <1>5, <1>6, <1>7, <1>11 DEF DriverInv

\* The exit function has to give back everything.
LEMMA RmmodKeeps ==
    ASSUME TypeOK, NEW d \in Drivers, DriverInv(d), Rmmod(d)
    PROVE  TypeOK' /\ DriverInv(d)' /\ OthersRest(d)
<1> DEFINE s == Program[d].exit
<1>1. ExitSound(d, s)
  BY TableIsSound DEF TableSound
<1>2. /\ step' = step /\ held' = held /\ ptr' = ptr /\ phase[d] = "loaded"
      /\ orphans' = orphans /\ failed' = failed /\ panic' = panic /\ loads' = loads
      /\ faults' = faults /\ mishap' = mishap
      /\ phase' = [phase EXCEPT ![d] = "exit"]
      /\ todo' = [todo EXCEPT ![d] = s]
      /\ ends' = [ends EXCEPT ![d] = "out"]
  BY DEF Rmmod
<1>3. TypeOK' /\ OthersRest(d)
  BY <1>1, <1>2 DEF TypeOK, OthersRest, Rests, ExitSound
<1>4. phase'[d] = "exit" /\ todo'[d] = s /\ ends'[d] = "out"
  BY <1>2 DEF TypeOK
<1>5. HeldInv(d)' /\ OwnQueueInv(d)' /\ MishapInv(d)' /\ ClassInv(d)'
  BY <1>2, <1>4 DEF DriverInv, HeldInv, OwnQueueInv, MishapInv, PointerLost, ClassInv
<1>10. Ordered(s) /\ ("device" \in Elems(s) => "class" \in held[d] \/ Excused(d, ptr[d], failed[d]))
  BY <1>1, <1>2 DEF ExitSound, DriverInv, ClassInv, HasNode
<1>6. held[d] \ Freed(s) \subseteq MayRemain(d, failed[d])
  <2>1. Forgotten(d) \subseteq MayRemain(d, failed[d])
    <3>1. Forgotten(d) \subseteq MayRemain(d, {})
      BY DEF MayRemain
    <3> QED BY <3>1, MayRemainGrows
  <2> QED BY <1>1, <2>1 DEF ExitSound, DriverInv, HeldInv
<1>7. ASSUME All(d) \ failed[d] \subseteq held[d] /\ ptr[d] = held[d]
      PROVE  ReleaseInv(d)' /\ EndInv(d)'
  <2>2. failed[d] \cap (Threads \cup {"kobject", "procdir"}) = {} =>
           Elems(s) \cap Threads \subseteq held[d]
    BY <1>1, <1>7 DEF ExitSound
  <2>3. "sysfs" \in Elems(s) => "kobject" \in failed[d] \cup ptr[d]
    BY <1>1, <1>7 DEF ExitSound
  <2>4. EndInv(d)'
    BY <1>1, <1>2, <1>4, <1>7 DEF EndInv, ExitSound
  <2>5. ReleasesSound(d, s, held[d], ptr[d], failed[d])
    BY <1>1, <1>7, <1>6, <1>10, <2>2, <2>3 DEF ReleasesSound, ExitSound
  <2> QED BY <1>2, <1>4, <2>4, <2>5 DEF ReleaseInv
<1>8. ASSUME Lucky(d, failed[d])
      PROVE  ReleaseInv(d)' /\ EndInv(d)'
  <2>1. "sysfs" \notin Elems(s) /\ d \notin {"gpio", "sysfs_module"}
    BY <1>1, <1>8 DEF ExitSound, Lucky
  <2>2. failed[d] \cap (Threads \cup {"kobject", "procdir"}) = {} => Elems(s) \cap Threads = {}
    BY <1>1, <1>8 DEF ExitSound, Lucky
  <2>3. failed[d] # {}
    BY <1>8 DEF Lucky
  <2>4. ReleasesSound(d, s, held[d], ptr[d], failed[d])
    BY <1>1, <1>6, <1>10, <2>1, <2>2 DEF ReleasesSound, ExitSound
  <2> QED BY <1>2, <1>4, <2>3, <2>4 DEF ReleaseInv, EndInv
<1>9. ReleaseInv(d)' /\ EndInv(d)'
  BY <1>2, <1>7, <1>8 DEF DriverInv, HeldInv
<1> QED BY <1>3, <1>5, <1>9 DEF DriverInv

\* A step that fails goes on, returns or begins the unwinding of its label.
LEMMA StepFailsKeeps ==
    ASSUME TypeOK, NEW d \in Drivers, DriverInv(d), StepFails(d)
    PROVE  TypeOK' /\ DriverInv(d)' /\ OthersRest(d)
<1> DEFINE i == step[d]
           kind == Steps(d)[i].get
           label == Steps(d)[i].err
<1>1. /\ phase[d] = "init" /\ i \in 1 .. Len(Steps(d)) /\ Len(Steps(d)) \in Nat
      /\ kind = Current(d).get /\ label = Current(d).err
  <2>1. phase[d] = "init" /\ i \in 1 .. Len(Steps(d)) /\ Len(Steps(d)) \in Nat
    <3>1. phase[d] = "init" /\ i <= Len(Steps(d))
      BY DEF StepFails
    <3> QED BY <3>1, TableIsSound DEF TypeOK, TableSound
  <2> QED BY <2>1 DEF Current
<1>2. EntrySound(d, i)
  BY <1>1, TableIsSound DEF TableSound
<1>3. /\ kind \in Resources \cup Tests
      /\ label = "never" <=> kind \in {"timer", "wake"}
  BY <1>2 DEF EntrySound, EntryTyped
<1>4. kind \notin {"timer", "wake"}
  BY <1>1, <1>3, ParentIs DEF StepFails, Doomed, NameTaken
<1>5. /\ faults' \in 0 .. MaxFaults /\ ptr' = ptr /\ panic' = panic /\ loads' = loads
      /\ mishap' = mishap
      /\ failed' = [failed EXCEPT ![d] = failed[d] \cup {kind}]
      /\ FailureNext(d, IF Seen(kind) THEN label ELSE "ignored")
  <2>1. faults' \in 0 .. MaxFaults
    <3>1. faults' = faults \/ (faults < MaxFaults /\ faults' = faults + 1)
      BY DEF StepFails
    <3> QED BY <3>1, BoundsAssumption DEF TypeOK
  <2>2. /\ failed' = [failed EXCEPT ![d] = failed[d] \cup {kind}]
        /\ FailureNext(d, IF Seen(kind) THEN label ELSE "ignored")
    BY DEF StepFails, Current
  <2> QED BY <2>1, <2>2 DEF StepFails
<1>6. /\ failed'[d] = failed[d] \cup {kind} /\ failed'[d] # {}
      /\ failed' \in [Drivers -> SUBSET (Resources \cup Tests)]
  BY <1>3, <1>5 DEF TypeOK
<1>7. /\ MayRemain(d, failed[d]) \subseteq MayRemain(d, failed'[d])
      /\ MayRemain(d, {kind}) \subseteq MayRemain(d, failed'[d])
  BY <1>6, MayRemainGrows
<1>8. MishapInv(d)'
  BY <1>5, <1>6 DEF DriverInv, MishapInv, PointerLost
<1>9. held[d] \subseteq Got(d, i) /\ Got(d, i) \ failed[d] \subseteq held[d] /\ ptr[d] = held[d]
  BY <1>1 DEF DriverInv, HeldInv
<1>13. d = "device_driver" => failed'[d] \subseteq FrontGot
  BY <1>1, <1>6, TableIsSound DEF DriverInv, ClassInv, TableSound
<1>10. ASSUME ~Stops(kind, label)
       PROVE  TypeOK' /\ DriverInv(d)' /\ OthersRest(d)
  <2>1. /\ step' = [step EXCEPT ![d] = step[d] + 1]
        /\ phase' = phase /\ todo' = todo /\ ends' = ends /\ held' = held /\ orphans' = orphans
    BY <1>4, <1>5, <1>10, FailureNextIs DEF Stops, Seen
  <2>2. step'[d] = i + 1
    BY <2>1 DEF TypeOK
  <2>3. step' \in [Drivers -> Nat] /\ \A e \in Drivers : step'[e] \in 1 .. Len(Steps(e)) + 1
    BY <1>1, <2>1 DEF TypeOK
  <2>4. TypeOK' /\ OthersRest(d)
    BY <1>5, <1>6, <2>1, <2>3 DEF TypeOK, OthersRest, Rests
  <2>5. Got(d, i + 1) = Got(d, i) \cup ({kind} \ Tests)
    <3>1. i \in Nat /\ i >= 1
      BY <1>1
    <3> QED BY <1>3, <3>1, GotGrows
  <2>6. HeldInv(d)'
    <3>1. \A j \in 1 .. i : Stops(Steps(d)[j].get, Steps(d)[j].err) =>
            Steps(d)[j].get \in held[d] \cup Tests
      BY <1>1, <1>10 DEF DriverInv, HeldInv
    <3>2. /\ held'[d] \subseteq Got(d, step'[d])
          /\ Got(d, step'[d]) \ failed'[d] \subseteq held'[d]
          /\ ptr'[d] = held'[d]
      BY <1>5, <1>6, <1>9, <2>1, <2>2, <2>5
    <3>3. orphans'[d] \subseteq MayRemain(d, failed'[d])
      BY <1>7, <2>1 DEF DriverInv, HeldInv
    <3>4. /\ held'[d] \subseteq All(d)
          /\ \A k \in Resources : held'[d] \cap Below(k) # {} => k \in held'[d]
      BY <2>1 DEF DriverInv, HeldInv
    <3> QED BY <1>1, <2>1, <2>2, <3>1, <3>2, <3>3, <3>4 DEF HeldInv
  <2>7. ReleaseInv(d)' /\ EndInv(d)' /\ ClassInv(d)'
    BY <1>1, <1>13, <2>1 DEF ReleaseInv, EndInv, ClassInv
  <2>8. OwnQueueInv(d)'
    <3>1. d \in NeedsQueue => i < Len(Steps(d))
      BY <1>1, <1>10, TableIsSound DEF TableSound, QueueSound, Stops, Threads
    <3> QED BY <1>1, <2>1, <2>2, <3>1 DEF OwnQueueInv
  <2> QED BY <1>8, <2>4, <2>6, <2>7, <2>8 DEF DriverInv
<1>11. ASSUME Stops(kind, label), label = "return"
       PROVE  TypeOK' /\ DriverInv(d)' /\ OthersRest(d)
  <2>1. /\ step' = step /\ todo' = todo /\ ends' = ends
        /\ phase' = [phase EXCEPT ![d] = "out"]
        /\ orphans' = [orphans EXCEPT ![d] = orphans[d] \cup held[d]]
        /\ held' = [held EXCEPT ![d] = {}]
    BY <1>5, <1>11, FailureNextIs DEF Stops, Seen, Leave
  <2>2. phase'[d] = "out" /\ held'[d] = {} /\ orphans'[d] = orphans[d] \cup held[d]
    BY <2>1 DEF TypeOK
  <2>3. TypeOK' /\ OthersRest(d)
    BY <1>5, <1>6, <2>1 DEF TypeOK, OthersRest, Rests
  <2>4. held[d] \subseteq MayRemain(d, {kind})
    BY <1>2, <1>9, <1>11 DEF EntrySound, ReturnSound
  <2>5. HeldInv(d)'
    BY <1>7, <2>2, <2>4 DEF DriverInv, HeldInv
  <2>6. ReleaseInv(d)' /\ EndInv(d)' /\ OwnQueueInv(d)' /\ ClassInv(d)'
    BY <1>13, <2>2 DEF ReleaseInv, EndInv, OwnQueueInv, ClassInv
  <2> QED BY <1>8, <2>3, <2>5, <2>6 DEF DriverInv
<1>12. ASSUME Stops(kind, label), label # "return"
       PROVE  TypeOK' /\ DriverInv(d)' /\ OthersRest(d)
  <2> DEFINE s == Unwinding(d, label)
  <2>1. LabelSound(d, i, kind, label, s)
    BY <1>2, <1>12 DEF EntrySound
  <2>2. /\ step' = step /\ held' = held /\ orphans' = orphans
        /\ phase' = [phase EXCEPT ![d] = "undo"]
        /\ todo' = [todo EXCEPT ![d] = s]
        /\ ends' = [ends EXCEPT ![d] =
             IF d \in DOMAIN KeepsLoaded /\ label \in KeepsLoaded[d] THEN "loaded" ELSE "out"]
    BY <1>5, <1>12, FailureNextIs DEF Stops, Seen
  <2>3. /\ phase'[d] = "undo" /\ todo'[d] = s
        /\ ends'[d] = "loaded" => Lucky(d, {kind})
    BY <2>1, <2>2 DEF TypeOK, LabelSound
  <2>4. TypeOK' /\ OthersRest(d)
    BY <1>5, <1>6, <2>1, <2>2 DEF TypeOK, OthersRest, Rests, LabelSound
  <2>5. HeldInv(d)'
    BY <1>7, <2>2, <2>3 DEF DriverInv, HeldInv
  <2>6. EndInv(d)'
    BY <1>6, <2>3 DEF EndInv, Lucky
  <2>7. OwnQueueInv(d)'
    BY <1>9, <2>1, <2>2, <2>3 DEF OwnQueueInv, LabelSound
  <2>10. ClassChecked(d, i) => "class" \in held[d]
    BY <1>1 DEF ClassChecked, DriverInv, HeldInv, Tests
  <2>8. ReleasesSound(d, s, held[d], ptr[d], failed'[d])
    <3>1. held[d] \ Freed(s) \subseteq MayRemain(d, failed'[d])
      BY <1>7, <1>9, <2>1 DEF LabelSound
    <3>2. failed'[d] \cap (Threads \cup {"kobject", "procdir"}) = {} =>
            Elems(s) \cap Threads \subseteq held[d]
      BY <1>6, <1>9, <2>1 DEF LabelSound
    <3>3. "sysfs" \in Elems(s) =>
            /\ "kobject" \in failed'[d] \cup ptr[d]
            /\ d # "sysfs_module" /\ "kobject" \in ptr[d] => "kobject" \in held[d]
            /\ d = "sysfs_module" => "sysfs" \in failed'[d]
      BY <1>6, <1>9, <2>1 DEF LabelSound
    <3>4. Clean(s) \/ d = "gpio" \/ (d = "sysfs_module" /\ "sysfs" \in failed'[d])
      BY <1>6, <2>1 DEF LabelSound
    <3>5. "device" \in Elems(s) => "class" \in held[d]
      BY <2>1, <2>10 DEF LabelSound
    <3> QED BY <2>1, <3>1, <3>2, <3>3, <3>4, <3>5 DEF ReleasesSound, LabelSound
  <2>9. ReleaseInv(d)'
    BY <1>5, <2>2, <2>3, <2>8 DEF ReleaseInv
  <2>11. ClassInv(d)'
    <3>1. ends'[d] = "loaded" => d \in DOMAIN KeepsLoaded /\ label \in KeepsLoaded[d]
      BY <2>2 DEF TypeOK
    <3>2. ends'[d] = "loaded" /\ HasNode(d) => KeptSound(d, i, kind, s)
      BY <2>1, <3>1 DEF LabelSound
    <3>3. KeptSound(d, i, kind, s) =>
            (s = <<>> /\ "class" \in held[d]) \/ Excused(d, ptr[d], failed'[d])
      BY <1>6, <1>9, <2>10 DEF KeptSound, Excused
    <3> QED BY <1>5, <1>13, <2>2, <2>3, <3>2, <3>3 DEF ClassInv
  <2> QED BY <1>8, <2>4, <2>5, <2>6, <2>7, <2>9, <2>11 DEF DriverInv
<1> QED BY <1>10, <1>11, <1>12

\* One release less is left; a bad one is explained by what failed.
LEMMA ReleaseKeeps ==
    ASSUME TypeOK, NEW d \in Drivers, DriverInv(d), Release(d)
    PROVE  TypeOK' /\ DriverInv(d)' /\ OthersRest(d)
<1> DEFINE s == todo[d]
           kind == Head(s)
           gone == {kind} \cup Below(kind)
<1>1. /\ phase[d] \in {"undo", "exit"} /\ s # <<>> /\ s \in Seq(Resources)
      /\ todo' = [todo EXCEPT ![d] = Tail(s)] /\ todo'[d] = Tail(s)
      /\ step' = step /\ ends' = ends /\ ptr' = ptr /\ orphans' = orphans /\ panic' = panic
      /\ loads' = loads /\ faults' = faults /\ failed' = failed
  BY DEF Release, TypeOK
<1>2. /\ kind \in Resources /\ Tail(s) \in Seq(Resources)
      /\ Elems(s) = {kind} \cup Elems(Tail(s))
      /\ Freed(s) \subseteq gone \cup Freed(Tail(s))
      /\ Clean(s) => Clean(Tail(s)) /\ \A r \in Elems(Tail(s)) : r \notin gone
      /\ Ordered(s) => Ordered(Tail(s)) /\ (kind = "class" => "device" \notin Elems(Tail(s)))
  BY <1>1, TailReleases
<1>3. ReleasesSound(d, s, held[d], ptr[d], failed[d])
  BY <1>1 DEF DriverInv, ReleaseInv
<1>4. \/ /\ kind \in held[d]
         /\ held' = [held EXCEPT ![d] = held[d] \ gone]
         /\ phase' = phase /\ mishap' = mishap
      \/ /\ kind \notin held[d]
         /\ held' = held
         /\ \E effect \in BadRelease(d, kind) :
              /\ mishap' = [mishap EXCEPT ![d] = mishap[d] \cup effect]
              /\ phase' = [phase EXCEPT ![d] = IF "oops" \in effect THEN "stuck" ELSE phase[d]]
  BY DEF Release
<1>5. CASE /\ kind \in held[d]
           /\ held' = [held EXCEPT ![d] = held[d] \ gone]
           /\ phase' = phase /\ mishap' = mishap
  <2>1. held'[d] = held[d] \ gone
    BY <1>5 DEF TypeOK
  <2>2. TypeOK' /\ OthersRest(d)
    BY <1>1, <1>2, <1>5 DEF TypeOK, OthersRest, Rests
  <2>3. HeldInv(d)'
    <3>1. \A k \in Resources : held'[d] \cap Below(k) # {} => k \in held'[d]
      BY <2>1, BelowIs DEF DriverInv, HeldInv
    <3> QED BY <1>1, <1>5, <2>1, <3>1 DEF DriverInv, HeldInv
  <2>4. ReleasesSound(d, Tail(s), held'[d], ptr[d], failed[d])
    <3>1. held'[d] \ Freed(Tail(s)) \subseteq MayRemain(d, failed[d])
      BY <1>2, <1>3, <2>1 DEF ReleasesSound
    <3>2. Clean(Tail(s)) \/ d = "gpio" \/ (d = "sysfs_module" /\ "sysfs" \in failed[d])
      BY <1>2, <1>3 DEF ReleasesSound
    <3>3. failed[d] \cap (Threads \cup {"kobject", "procdir"}) = {} =>
            Elems(Tail(s)) \cap Threads \subseteq held'[d]
      BY <1>2, <1>3, <2>1 DEF ReleasesSound
    <3>4. "sysfs" \in Elems(Tail(s)) /\ d # "sysfs_module" => "kobject" \notin gone
      BY <1>2, <1>3, BelowIs DEF ReleasesSound
    <3>5. /\ Ordered(Tail(s))
          /\ "device" \in Elems(Tail(s)) =>
               "class" \in held'[d] \/ Excused(d, ptr[d], failed[d])
      BY <1>2, <1>3, <2>1, BelowIs DEF ReleasesSound
    <3> QED BY <1>2, <1>3, <2>1, <3>1, <3>2, <3>3, <3>4, <3>5 DEF ReleasesSound
  <2>5. ReleaseInv(d)'
    BY <1>1, <2>4 DEF ReleaseInv
  <2>6. EndInv(d)'
    <3>1. phase[d] = "exit" /\ failed[d] = {} /\ d # "gpio" => Clean(s)
      BY <1>3 DEF ReleasesSound
    <3> QED BY <1>1, <1>2, <1>5, <2>1, <3>1 DEF DriverInv, EndInv
  <2>7. OwnQueueInv(d)'
    BY <1>1, <1>5, <2>1, TableIsSound DEF DriverInv, OwnQueueInv, TableSound, QueueSound
  <2>8. MishapInv(d)'
    BY <1>1, <1>5 DEF DriverInv, MishapInv, PointerLost
  <2>9. ClassInv(d)'
    BY <1>1, <1>5 DEF DriverInv, ClassInv
  <2> QED BY <2>2, <2>3, <2>5, <2>6, <2>7, <2>8, <2>9 DEF DriverInv
<1>6. ASSUME kind \notin held[d], held' = held, NEW effect \in BadRelease(d, kind),
             mishap' = [mishap EXCEPT ![d] = mishap[d] \cup effect],
             phase' = [phase EXCEPT ![d] = IF "oops" \in effect THEN "stuck" ELSE phase[d]]
      PROVE  TypeOK' /\ DriverInv(d)' /\ OthersRest(d)
  <2>1. /\ mishap'[d] = mishap[d] \cup effect
        /\ phase'[d] = IF "oops" \in effect THEN "stuck" ELSE phase[d]
    BY <1>6 DEF TypeOK
  <2>2. effect \subseteq {"warn", "stale", "oops"}
    BY <1>6, BadReleaseIs, ThroughPointerIs
  <2>3. TypeOK' /\ OthersRest(d)
    BY <1>1, <1>2, <1>6, <2>2 DEF TypeOK, OthersRest, Rests
  <2>4. HeldInv(d)'
    BY <1>1, <1>6, <2>1 DEF DriverInv, HeldInv
  <2>5. ReleaseInv(d)'
    <3>1. kind \notin held[d] /\ "kobject" \in ptr[d] /\ d # "sysfs_module"
            /\ "sysfs" \in Elems(Tail(s)) => kind # "kobject"
      BY <1>2, <1>3 DEF ReleasesSound
    <3>2. held[d] \ Freed(Tail(s)) \subseteq MayRemain(d, failed[d])
      BY <1>2, <1>3, <1>6 DEF ReleasesSound, DriverInv, HeldInv
    <3>3. ReleasesSound(d, Tail(s), held[d], ptr[d], failed[d])
      BY <1>2, <1>3, <1>6, <3>2 DEF ReleasesSound
    <3> QED BY <1>1, <1>6, <2>1, <3>3 DEF ReleaseInv
  <2>6. EndInv(d)'
    BY <1>1, <1>2, <1>6, <2>1 DEF DriverInv, EndInv
  <2>7. OwnQueueInv(d)'
    <3>1. ASSUME d \in NeedsQueue, phase[d] = "exit", "irq" \in held[d]
          PROVE  phase'[d] = "exit" /\ todo'[d] = Tail(Program[d].exit)
      <4>1. kind = "wq"
        BY <1>1, <1>6, <3>1, TableIsSound DEF DriverInv, OwnQueueInv, TableSound, QueueSound
      <4>2. s = Program[d].exit
        BY <1>1, <3>1, <4>1, TableIsSound DEF DriverInv, OwnQueueInv, TableSound, QueueSound
      <4>3. effect = {}
        BY <1>6, <4>1, BadReleaseIs
      <4> QED BY <1>1, <2>1, <3>1, <4>2, <4>3
    <3>2. d \in NeedsQueue /\ phase[d] = "undo" => "irq" \notin held[d]
      BY DEF DriverInv, OwnQueueInv
    <3>3. CASE "irq" \in held[d]
      <4>1. d \in NeedsQueue => phase'[d] = "exit" /\ todo'[d] = Tail(Program[d].exit)
        BY <1>1, <3>1, <3>2, <3>3
      <4> QED BY <4>1 DEF OwnQueueInv
    <3>4. CASE "irq" \notin held[d]
      <4>1. phase'[d] \in {"undo", "exit", "stuck"} /\ "irq" \notin held'[d]
        BY <1>1, <1>6, <2>1, <3>4
      <4> QED BY <4>1 DEF OwnQueueInv
    <3> QED BY <3>3, <3>4
  <2>8. MishapInv(d)'
    <3>1. kind = "device" /\ "class" \notin held[d] => Excused(d, ptr[d], failed[d])
      BY <1>2, <1>3 DEF ReleasesSound
    <3>2. ASSUME failed[d] = {} PROVE effect \subseteq (IF d = "gpio" THEN {"warn"} ELSE {})
      <4>1. phase[d] = "exit"
        BY <1>1, <3>2 DEF DriverInv, EndInv
      <4>2. d = "gpio" /\ kind \notin Threads \cup {"sysfs"}
        BY <1>2, <1>3, <1>6, <3>2, <4>1 DEF DriverInv, EndInv, ReleasesSound
      <4>3. ~(kind = "device" /\ "class" \notin held[d])
        BY <3>1, <3>2 DEF Excused
      <4> QED BY <1>6, <4>2, <4>3, BadReleaseIs
    <3>3. "stale" \in effect =>
            \/ kind = "sysfs" /\ "kobject" \notin held[d] /\ "kobject" \in ptr[d]
            \/ kind = "device" /\ "class" \notin held[d] /\ "class" \in ptr[d]
      BY <1>6, BadReleaseIs, ThroughPointerIs
    <3>4. "stale" \in effect =>
            \/ d = "sysfs_module" /\ "sysfs" \in failed[d]
            \/ d = "device_driver" /\ "device" \in failed[d]
      <4>1. kind = "sysfs" /\ "kobject" \notin held[d] /\ "kobject" \in ptr[d] =>
              d = "sysfs_module" /\ "sysfs" \in failed[d]
        BY <1>2, <1>3 DEF ReleasesSound
      <4>2. kind = "device" /\ "class" \notin held[d] /\ "class" \in ptr[d] =>
              d = "device_driver" /\ "device" \in failed[d]
        BY <3>1 DEF Excused
      <4> QED BY <3>3, <4>1, <4>2
    <3>5. "oops" \in effect /\ "stale" \notin effect =>
            \/ kind \in Threads
            \/ kind = "sysfs" /\ "kobject" \notin ptr[d]
            \/ kind = "device" /\ "class" \notin held[d] /\ "class" \notin ptr[d]
      BY <1>6, BadReleaseIs, ThroughPointerIs
    <3>6. "oops" \in effect /\ "stale" \notin effect => PointerLost(d)
      <4>1. ASSUME "oops" \in effect, "stale" \notin effect,
                   kind \in Threads \/ (kind = "sysfs" /\ "kobject" \notin ptr[d])
            PROVE  failed[d] \cap (Threads \cup {"kobject", "procdir"}) # {}
        BY <1>2, <1>3, <1>6, <4>1 DEF ReleasesSound
      <4>2. ASSUME kind = "device", "class" \notin held[d], "class" \notin ptr[d]
            PROVE  PointerLost(d)
        BY <3>1, <4>2 DEF Excused, PointerLost, UncheckedClass
      <4> QED BY <3>5, <4>1, <4>2 DEF PointerLost
    <3> QED BY <1>1, <2>1, <3>2, <3>4, <3>6 DEF DriverInv, MishapInv, PointerLost
  <2>9. ClassInv(d)'
    <3>1. phase'[d] \in {phase[d], "stuck"} /\ phase'[d] # "loaded"
      BY <1>1, <2>1
    <3> QED BY <1>1, <1>6, <3>1 DEF DriverInv, ClassInv
  <2> QED BY <2>3, <2>4, <2>5, <2>6, <2>7, <2>8, <2>9 DEF DriverInv
<1> QED BY <1>4, <1>5, <1>6

\* Nothing is left to give back: what is still there is orphaned, or loaded.
LEMMA ReleasesDoneKeeps ==
    ASSUME TypeOK, NEW d \in Drivers, DriverInv(d), ReleasesDone(d)
    PROVE  TypeOK' /\ DriverInv(d)' /\ OthersRest(d)
<1>1. /\ phase[d] \in {"undo", "exit"} /\ todo[d] = <<>>
      /\ step' = step /\ todo' = todo /\ ends' = ends /\ ptr' = ptr /\ panic' = panic
      /\ loads' = loads /\ faults' = faults /\ failed' = failed /\ mishap' = mishap
  BY DEF ReleasesDone
<1>2. held[d] \subseteq MayRemain(d, failed[d])
  BY <1>1, FreedEmpty DEF DriverInv, ReleaseInv, ReleasesSound
<1>3. CASE ends[d] = "out" /\ Leave(d)
  <2>1. /\ phase' = [phase EXCEPT ![d] = "out"]
        /\ orphans' = [orphans EXCEPT ![d] = orphans[d] \cup held[d]]
        /\ held' = [held EXCEPT ![d] = {}]
    BY <1>3 DEF Leave
  <2>2. phase'[d] = "out" /\ held'[d] = {} /\ orphans'[d] = orphans[d] \cup held[d]
    BY <2>1 DEF TypeOK
  <2>3. TypeOK' /\ OthersRest(d)
    BY <1>1, <2>1 DEF TypeOK, OthersRest, Rests
  <2>4. HeldInv(d)'
    BY <1>1, <1>2, <2>2 DEF DriverInv, HeldInv
  <2>5. ReleaseInv(d)' /\ EndInv(d)' /\ OwnQueueInv(d)' /\ MishapInv(d)' /\ ClassInv(d)'
    BY <1>1, <2>2 DEF DriverInv, ReleaseInv, EndInv, OwnQueueInv, MishapInv, PointerLost,
                      ClassInv
  <2> QED BY <2>3, <2>4, <2>5 DEF DriverInv
<1>4. CASE /\ ends[d] = "loaded"
           /\ phase' = [phase EXCEPT ![d] = "loaded"]
           /\ UNCHANGED <<held, orphans>>
  <2>1. phase'[d] = "loaded"
    BY <1>4 DEF TypeOK
  <2>2. TypeOK' /\ OthersRest(d)
    BY <1>1, <1>4 DEF TypeOK, OthersRest, Rests
  <2>3. Lucky(d, failed[d])
    BY <1>1, <1>4 DEF DriverInv, EndInv
  <2>4. HeldInv(d)'
    BY <1>1, <1>4, <2>1, <2>3 DEF DriverInv, HeldInv
  <2>5. ReleaseInv(d)' /\ EndInv(d)' /\ OwnQueueInv(d)' /\ MishapInv(d)'
    BY <1>1, <1>4, <2>1, <2>3 DEF DriverInv, ReleaseInv, EndInv, OwnQueueInv, MishapInv,
                                  PointerLost, Lucky, NeedsQueue
  <2>6. phase[d] = "undo"
    BY <1>1, <1>4 DEF DriverInv, EndInv
  <2>7. d = "device_driver" => held[d] = {}
    BY <1>2, ForgottenIs DEF DriverInv, ClassInv, MayRemain, LeftRegistered, LongUnwinding
  <2>8. ClassInv(d)'
    BY <1>1, <1>4, <2>1, <2>6, <2>7 DEF DriverInv, ClassInv
  <2> QED BY <2>2, <2>4, <2>5, <2>8 DEF DriverInv
<1> QED BY <1>3, <1>4 DEF ReleasesDone

\* An interrupt changes nothing but panic.
LEMMA InterruptExplained ==
    ASSUME TypeOK, NEW d \in Drivers, DriverInv(d), Interrupt(d)
    PROVE  PanicInv'
<1>1. UNCHANGED <<phase, step, todo, ends, held, ptr, orphans, loads, faults, failed, mishap>>
  BY DEF Interrupt
<1>2. CASE "irq" \in orphans[d]
  <2>1. "irq" \in MayRemain(d, failed[d])
    BY <1>2 DEF DriverInv, HeldInv
  <2>2. d \in NeedsQueue /\ "wq" \in failed[d]
    BY <2>1, ForgottenTypes, LeftRegisteredTypes DEF MayRemain
  <2> QED BY <1>1, <1>2, <2>2 DEF PanicInv
<1>3. CASE "irq" \in held[d] /\ ~(Program[d].uses \subseteq held[d])
  <2>1. d \in NeedsQueue /\ Program[d].uses = {"wq"}
    BY <1>3, TableIsSound DEF TableSound, QueueSound
  <2>2. phase[d] \in {"init", "exit"}
    BY <1>3, <2>1 DEF TypeOK, DriverInv, HeldInv, OwnQueueInv
  <2> QED BY <1>1, <1>3, <2>1, <2>2 DEF PanicInv
<1> QED BY <1>2, <1>3 DEF Interrupt

-----------------------------------------------------------------------------
LEMMA LoadInit == Init => LoadInv
<1> SUFFICES ASSUME Init PROVE LoadInv
  OBVIOUS
<1>1. TypeOK
  <2>1. step \in [Drivers -> Nat] /\ \A d \in Drivers : step[d] \in 1 .. Len(Steps(d)) + 1
    BY TableIsSound DEF Init, TableSound
  <2>2. todo \in [Drivers -> Seq(Resources)]
    BY DEF Init
  <2>3. loads \in 0 .. MaxLoads /\ faults \in 0 .. MaxFaults
    BY BoundsAssumption DEF Init
  <2>4. /\ phase \in [Drivers -> {"out", "init", "undo", "loaded", "exit", "stuck"}]
        /\ ends \in [Drivers -> {"out", "loaded"}]
        /\ held \in [Drivers -> SUBSET Resources] /\ ptr \in [Drivers -> SUBSET Resources]
        /\ orphans \in [Drivers -> SUBSET Resources]
        /\ failed \in [Drivers -> SUBSET (Resources \cup Tests)]
        /\ mishap \in [Drivers -> SUBSET {"warn", "stale", "oops"}]
        /\ panic \in BOOLEAN
    BY DEF Init
  <2> QED BY <2>1, <2>2, <2>3, <2>4 DEF TypeOK
<1>2. ASSUME NEW d \in Drivers PROVE DriverInv(d)
  <2>1. /\ phase[d] = "out" /\ held[d] = {} /\ orphans[d] = {}
        /\ failed[d] = {} /\ mishap[d] = {}
    BY DEF Init
  <2> QED BY <2>1 DEF DriverInv, HeldInv, ReleaseInv, EndInv, OwnQueueInv, MishapInv, ClassInv
<1>3. PanicInv
  BY DEF Init, PanicInv
<1> QED BY <1>1, <1>2, <1>3 DEF LoadInv

LEMMA LoadStep == LoadInv /\ [Next]_vars => LoadInv'
<1> SUFFICES ASSUME LoadInv, [Next]_vars PROVE LoadInv'
  OBVIOUS
<1>1. CASE UNCHANGED vars
  <2>1. TypeOK' /\ PanicInv'
    BY <1>1 DEF vars, LoadInv, TypeOK, PanicInv
  <2>2. \A e \in Drivers : DriverInv(e)'
    BY <1>1, RestKeeps DEF vars, LoadInv, Rests
  <2> QED BY <2>1, <2>2 DEF LoadInv
<1>2. CASE Next
  <2>1. PICK d \in Drivers : \/ Insmod(d) \/ StepDone(d) \/ StepOopses(d) \/ StepFails(d)
                             \/ InitReturns(d) \/ Rmmod(d) \/ Release(d) \/ ReleasesDone(d)
                             \/ Interrupt(d)
    BY <1>2 DEF Next
  <2>2. TypeOK /\ DriverInv(d) /\ ~panic
    BY <1>2 DEF LoadInv, Next
  <2>3. CASE Interrupt(d)
    <3>1. PanicInv'
      BY <2>2, <2>3, InterruptExplained
    <3>2. TypeOK'
      BY <2>2, <2>3 DEF Interrupt, TypeOK
    <3>3. \A e \in Drivers : DriverInv(e)'
      BY <2>3, RestKeeps DEF Interrupt, LoadInv, Rests
    <3> QED BY <3>1, <3>2, <3>3 DEF LoadInv
  <2>4. CASE \/ Insmod(d) \/ StepDone(d) \/ StepOopses(d) \/ StepFails(d) \/ InitReturns(d)
             \/ Rmmod(d) \/ Release(d) \/ ReleasesDone(d)
    <3>1. TypeOK' /\ DriverInv(d)' /\ OthersRest(d)
      BY <2>2, <2>4, InsmodKeeps, StepDoneKeeps, StepOopsesKeeps, StepFailsKeeps,
         InitReturnsKeeps, RmmodKeeps, ReleaseKeeps, ReleasesDoneKeeps
    <3>2. \A e \in Drivers \ {d} : DriverInv(e)'
      BY <3>1, RestKeeps DEF LoadInv, OthersRest
    <3>3. panic' = panic
      BY <2>4 DEF Insmod, StepDone, StepOopses, StepFails, InitReturns, Rmmod, Release,
                  ReleasesDone
    <3> QED BY <2>2, <3>1, <3>2, <3>3 DEF LoadInv, PanicInv
  <2> QED BY <2>1, <2>3, <2>4
<1> QED BY <1>1, <1>2

\* The inductive invariant holds in every state, for any drivers of the table, any of
\* them loading beside each other, any number of loads and of failures.
THEOREM LoadInductive == Spec => []LoadInv
BY LoadInit, LoadStep, PTL DEF Spec

\* Every variable has its type: no init function goes beyond its last step.
THEOREM LoadTypes == Spec => []TypeOK
<1>1. LoadInv => TypeOK
  BY DEF LoadInv
<1> QED BY LoadInductive, <1>1, PTL

\* A driver none of whose steps ever failed leaves nothing registered but what its exit
\* function forgets, and releases nothing that is not there (but for gpio.c, which gives its
\* line back twice), whatever fails in the drivers around it.
THEOREM CyclesAreClean == Spec => []CleanCycle
<1>1. LoadInv => CleanCycle
  BY DEF LoadInv, CleanCycle, DriverInv, HeldInv, MishapInv, MayRemain, LeftRegistered
<1> QED BY LoadInductive, <1>1, PTL

\* A loaded driver none of whose steps failed has registered all that its init function
\* registers, and nothing else, however often it and others were loaded before.
THEOREM LoadedIsComplete ==
    Spec => [](\A d \in Drivers : phase[d] = "loaded" /\ failed[d] = {} => held[d] = All(d))
<1>1. LoadInv =>
        \A d \in Drivers : phase[d] = "loaded" /\ failed[d] = {} => held[d] = All(d)
  BY DEF LoadInv, DriverInv, HeldInv, Lucky
<1> QED BY LoadInductive, <1>1, PTL

\* Failures of the first four steps leave registered only what Forgotten and
\* LeftRegistered name (ioctl.c's cdev, custom_slab_cache.c's region, the cdev and the region
\* where r_device is the last label); device_driver.c stays loaded with everything or with
\* nothing; a class stays behind only where a step past device_create failed.
THEOREM EarlyFailuresUnwind == Spec => []EarlyFailureUnwinds
<1>1. ASSUME LoadInv, NEW d \in Drivers
      PROVE  /\ failed[d] \subseteq {"region", "cdev", "class", "device"} =>
                  orphans[d] \subseteq Forgotten(d) \cup LeftRegistered(d, failed[d])
             /\ "class" \in orphans[d] =>
                  failed[d] \cap {"kobject", "sysfs", "irq", "wq", "procdir"} # {}
             /\ d = "device_driver" /\ phase[d] = "loaded" =>
                  held[d] \in {{}, {"region", "class", "device"}}
  <2>1. orphans[d] \subseteq MayRemain(d, failed[d])
    BY <1>1 DEF LoadInv, DriverInv, HeldInv
  <2>2. d = "device_driver" /\ phase[d] = "loaded" =>
          held[d] \in {{}, {"region", "class", "device"}}
    BY <1>1 DEF LoadInv, DriverInv, ClassInv
  <2> QED BY <2>1, <2>2, ForgottenTypes, LeftRegisteredTypes DEF MayRemain, FrontGot
<1>2. LoadInv => EarlyFailureUnwinds
  BY <1>1 DEF EarlyFailureUnwinds
<1> QED BY LoadInductive, <1>2, PTL

\* An insmod or rmmod crashes only after one of the failures CrashExplained names, class
\* failures that are not looked at or after which device_driver.c stays loaded included, and
\* an interrupt only where own_workqueues.c and linked_list.c have their handler without its
\* queue.
THEOREM CrashesAreExplained == Spec => []CrashExplained
<1>1. LoadInv => CrashExplained
  BY DEF LoadInv, DriverInv, MishapInv, PanicInv, NeedsQueue, CrashExplained
<1> QED BY LoadInductive, <1>1, PTL

-----------------------------------------------------------------------------
(* The drivers that defer work: the invariant *)

\* The call hello_init or hello_exit is at.
Stage == IF steps = << >> THEN "end" ELSE Head(steps)

LastStages == {"free_irq", "synchronize", "end"}

\* Where hello_init and hello_exit stand: a rest of the driver's list, its first
\* call perhaps begun.
InitLists ==
    IF Work!OwnQueue
    THEN {<<"request_irq", "alloc_workqueue">>, <<"alloc_workqueue">>, << >>}
    ELSE {<<"request_irq">>, << >>}
LastLists == {<<"free_irq">>, <<"synchronize">>, << >>}
TaskletLists == {<<"tasklet_kill", "free_irq">>, <<"killing", "free_irq">>}
FlushLists == {<<"flush_work", "free_irq">>, <<"flushing", "free_irq">>}
OwnLists ==
    {<<"flush_work", "destroy_workqueue", "free_irq">>,
     <<"flushing", "destroy_workqueue", "free_irq">>,
     <<"destroy_workqueue", "free_irq">>, <<"draining", "free_irq">>}

StepsInv ==
    /\ w_phase = "init" => steps \in InitLists
    /\ w_phase = "exit" =>
         \/ steps \in LastLists
         \/ w_driver \in Work!TaskletDrivers /\ steps \in TaskletLists
         \/ w_driver = "workqueues_on_cpu" /\ steps \in FlushLists
         \/ Work!OwnQueue /\ steps \in OwnLists
    /\ w_phase \in {"loaded", "gone"} => steps = << >>

\* A workqueue of its own is there between alloc_workqueue and the drain, and a
\* destroyed one holds no item.
QueueInv ==
    /\ ~Work!OwnQueue => queue = "ready"
    /\ Work!OwnQueue =>
         /\ w_phase = "init" => queue = IF Stage = "end" THEN "ready" ELSE "none"
         /\ w_phase = "loaded" => queue = "ready"
         /\ w_phase = "exit" => queue = CASE Stage \in LastStages -> "destroyed"
                                        [] Stage = "draining" -> "draining"
                                        [] OTHER -> "ready"
         /\ w_phase = "gone" => queue \in {"none", "destroyed"}
         /\ queue \in {"none", "destroyed"} => ~pending /\ ~running

\* After free_irq there is no interrupt.
IrqInv ==
    /\ w_phase = "exit" /\ Stage \in {"synchronize", "end"} => ~irq
    /\ w_phase = "exit" /\ Stage = "end" => ~handler
    /\ w_phase = "gone" /\ queue # "none" => ~irq /\ ~handler

\* What only hello_exit sets, with the queue or the tasklet it sets it for.
BitsInv ==
    /\ w_phase \in {"init", "loaded"} => ~refused /\ ~killing
    /\ killing => w_phase = "exit" /\ Stage = "killing" /\ ~pending
    /\ w_phase = "exit" /\ Stage = "killing" => killing

\* What was queued before hello_exit waits it waits for; the rest is late.
Waited == w_phase = "gone" \/ (w_phase = "exit" /\ Stage \in LastStages)
WaitedInv ==
    /\ w_driver \in Work!TaskletDrivers \cup {"workqueues_on_cpu"} /\ Waited =>
         (pending \/ running => late)
    /\ w_phase = "exit" /\ Stage = "flushing" /\ ~Work!OwnQueue =>
         /\ awaited = "nothing" /\ (pending \/ running) => late
         /\ awaited = "running" /\ pending => late

\* An interrupt is served, or its item is pending, until hello_exit is called.
ServedInv ==
    /\ Work!Alive /\ w_phase \in {"init", "loaded"} /\ unserved => pending
    /\ w_phase = "loaded" => Work!Alive

\* The inductive invariant.
IInv ==
    /\ Work!TypeOK /\ StepsInv /\ QueueInv /\ IrqInv /\ BitsInv /\ WaitedInv /\ ServedInv
    /\ Work!FreedQueueUse

-----------------------------------------------------------------------------
(* The lists: what follows a call, and which calls a driver makes. *)

\* The calls on every driver's list in the end, and what comes after each of them.
LEMMA LastListNext ==
    ASSUME steps \in LastLists
    PROVE  /\ Stage \in {"free_irq", "synchronize", "end"}
           /\ Work!PastFlush <=> w_phase = "exit" /\ Stage \notin {"tasklet_kill", "flush_work"}
           /\ Stage = "free_irq" /\ steps' = [steps EXCEPT ![1] = "synchronize"] =>
                steps' = <<"synchronize">> /\ Stage' = "synchronize"
           /\ Stage = "synchronize" /\ steps' = Tail(steps) =>
                steps' = << >> /\ Stage' = "end"
           /\ Stage = "end" <=> steps = << >>
<1>1. CASE steps = <<"free_irq">>
  <2>1. Stage = "free_irq" /\ steps # << >>
    BY <1>1 DEF Stage
  <2>2. Work!PastFlush <=> w_phase = "exit"
    BY <1>1 DEF Work!PastFlush
  <2>3. steps' = [steps EXCEPT ![1] = "synchronize"] =>
          steps' = <<"synchronize">> /\ Stage' = "synchronize"
    BY <1>1 DEF Stage
  <2> QED BY <2>1, <2>2, <2>3
<1>2. CASE steps = <<"synchronize">>
  <2>1. Stage = "synchronize" /\ steps # << >>
    BY <1>2 DEF Stage
  <2>2. Work!PastFlush <=> w_phase = "exit"
    BY <1>2 DEF Work!PastFlush
  <2>3. steps' = Tail(steps) => steps' = << >> /\ Stage' = "end"
    BY <1>2 DEF Stage
  <2> QED BY <2>1, <2>2, <2>3
<1>3. CASE steps = << >>
  <2>1. Stage = "end" /\ steps = << >>
    BY <1>3 DEF Stage
  <2>2. Work!PastFlush <=> w_phase = "exit"
    BY <1>3 DEF Work!PastFlush
  <2> QED BY <2>1, <2>2
<1> QED BY <1>1, <1>2, <1>3 DEF LastLists

\* The calls on a list with a tasklet, and what comes after each of them.
LEMMA TaskletListNext ==
    ASSUME steps \in TaskletLists
    PROVE  /\ Stage \in {"tasklet_kill", "killing"}
           /\ Work!PastFlush <=> w_phase = "exit" /\ Stage \notin {"tasklet_kill", "flush_work"}
           /\ Stage = "tasklet_kill" /\ steps' = [steps EXCEPT ![1] = "killing"] =>
                steps' = <<"killing", "free_irq">> /\ Stage' = "killing"
           /\ Stage = "killing" /\ steps' = Tail(steps) =>
                steps' = <<"free_irq">> /\ Stage' = "free_irq"
           /\ steps # << >>
<1>1. CASE steps = <<"tasklet_kill", "free_irq">>
  <2>1. Stage = "tasklet_kill" /\ steps # << >>
    BY <1>1 DEF Stage
  <2>2. ~Work!PastFlush
    <3>1. 1 \in DOMAIN steps /\ steps[1] = "tasklet_kill"
      BY <1>1
    <3> QED BY <3>1 DEF Work!PastFlush
  <2>3. steps' = [steps EXCEPT ![1] = "killing"] =>
          steps' = <<"killing", "free_irq">> /\ Stage' = "killing"
    BY <1>1 DEF Stage
  <2> QED BY <2>1, <2>2, <2>3
<1>2. CASE steps = <<"killing", "free_irq">>
  <2>1. Stage = "killing" /\ steps # << >>
    BY <1>2 DEF Stage
  <2>2. Work!PastFlush <=> w_phase = "exit"
    BY <1>2 DEF Work!PastFlush
  <2>3. steps' = Tail(steps) => steps' = <<"free_irq">> /\ Stage' = "free_irq"
    BY <1>2 DEF Stage
  <2> QED BY <2>1, <2>2, <2>3
<1> QED BY <1>1, <1>2 DEF TaskletLists

\* The calls on a list with flush_work and no more, and what comes after each of them.
LEMMA FlushListNext ==
    ASSUME steps \in FlushLists
    PROVE  /\ Stage \in {"flush_work", "flushing"}
           /\ Work!PastFlush <=> w_phase = "exit" /\ Stage \notin {"tasklet_kill", "flush_work"}
           /\ Stage = "flush_work" /\ steps' = [steps EXCEPT ![1] = "flushing"] =>
                steps' = <<"flushing", "free_irq">> /\ Stage' = "flushing"
           /\ Stage = "flushing" /\ steps' = Tail(steps) =>
                steps' = <<"free_irq">> /\ Stage' = "free_irq"
           /\ steps # << >>
<1>1. CASE steps = <<"flush_work", "free_irq">>
  <2>1. Stage = "flush_work" /\ steps # << >>
    BY <1>1 DEF Stage
  <2>2. ~Work!PastFlush
    <3>1. 1 \in DOMAIN steps /\ steps[1] = "flush_work"
      BY <1>1
    <3> QED BY <3>1 DEF Work!PastFlush
  <2>3. steps' = [steps EXCEPT ![1] = "flushing"] =>
          steps' = <<"flushing", "free_irq">> /\ Stage' = "flushing"
    BY <1>1 DEF Stage
  <2> QED BY <2>1, <2>2, <2>3
<1>2. CASE steps = <<"flushing", "free_irq">>
  <2>1. Stage = "flushing" /\ steps # << >>
    BY <1>2 DEF Stage
  <2>2. Work!PastFlush <=> w_phase = "exit"
    BY <1>2 DEF Work!PastFlush
  <2>3. steps' = Tail(steps) => steps' = <<"free_irq">> /\ Stage' = "free_irq"
    BY <1>2 DEF Stage
  <2> QED BY <2>1, <2>2, <2>3
<1> QED BY <1>1, <1>2 DEF FlushLists

\* The calls on the list of a driver with its own queue, and what comes after each of them.
LEMMA OwnListNext ==
    ASSUME steps \in OwnLists
    PROVE  /\ Stage \in {"flush_work", "flushing", "destroy_workqueue", "draining"}
           /\ Work!PastFlush <=> w_phase = "exit" /\ Stage \notin {"tasklet_kill", "flush_work"}
           /\ Stage = "flush_work" /\ steps' = [steps EXCEPT ![1] = "flushing"] =>
                steps' = <<"flushing", "destroy_workqueue", "free_irq">> /\ Stage' = "flushing"
           /\ Stage = "flushing" /\ steps' = Tail(steps) =>
                steps' = <<"destroy_workqueue", "free_irq">> /\ Stage' = "destroy_workqueue"
           /\ Stage = "destroy_workqueue" /\ steps' = [steps EXCEPT ![1] = "draining"] =>
                steps' = <<"draining", "free_irq">> /\ Stage' = "draining"
           /\ Stage = "draining" /\ steps' = Tail(steps) =>
                steps' = <<"free_irq">> /\ Stage' = "free_irq"
           /\ steps # << >>
<1>1. CASE steps = <<"flush_work", "destroy_workqueue", "free_irq">>
  <2>1. Stage = "flush_work" /\ steps # << >>
    BY <1>1 DEF Stage
  <2>2. ~Work!PastFlush
    <3>1. 1 \in DOMAIN steps /\ steps[1] = "flush_work"
      BY <1>1
    <3> QED BY <3>1 DEF Work!PastFlush
  <2>3. steps' = [steps EXCEPT ![1] = "flushing"] =>
          steps' = <<"flushing", "destroy_workqueue", "free_irq">> /\ Stage' = "flushing"
    BY <1>1 DEF Stage
  <2> QED BY <2>1, <2>2, <2>3
<1>2. CASE steps = <<"flushing", "destroy_workqueue", "free_irq">>
  <2>1. Stage = "flushing" /\ steps # << >>
    BY <1>2 DEF Stage
  <2>2. Work!PastFlush <=> w_phase = "exit"
    BY <1>2 DEF Work!PastFlush
  <2>3. steps' = Tail(steps) =>
          steps' = <<"destroy_workqueue", "free_irq">> /\ Stage' = "destroy_workqueue"
    BY <1>2 DEF Stage
  <2> QED BY <2>1, <2>2, <2>3
<1>3. CASE steps = <<"destroy_workqueue", "free_irq">>
  <2>1. Stage = "destroy_workqueue" /\ steps # << >>
    BY <1>3 DEF Stage
  <2>2. Work!PastFlush <=> w_phase = "exit"
    BY <1>3 DEF Work!PastFlush
  <2>3. steps' = [steps EXCEPT ![1] = "draining"] =>
          steps' = <<"draining", "free_irq">> /\ Stage' = "draining"
    BY <1>3 DEF Stage
  <2> QED BY <2>1, <2>2, <2>3
<1>4. CASE steps = <<"draining", "free_irq">>
  <2>1. Stage = "draining" /\ steps # << >>
    BY <1>4 DEF Stage
  <2>2. Work!PastFlush <=> w_phase = "exit"
    BY <1>4 DEF Work!PastFlush
  <2>3. steps' = Tail(steps) => steps' = <<"free_irq">> /\ Stage' = "free_irq"
    BY <1>4 DEF Stage
  <2> QED BY <2>1, <2>2, <2>3
<1> QED BY <1>1, <1>2, <1>3, <1>4 DEF OwnLists

\* Which calls hello_exit makes, by driver.
LEMMA ExitStages ==
    ASSUME Work!TypeOK, StepsInv, w_phase = "exit"
    PROVE  /\ Stage \in {"tasklet_kill", "killing"} =>
                w_driver \in Work!TaskletDrivers /\ steps \in TaskletLists
           /\ Stage \in {"flush_work", "flushing"} =>
                \/ w_driver = "workqueues_on_cpu" /\ steps \in FlushLists
                \/ Work!OwnQueue /\ steps \in OwnLists
           /\ Stage \in {"destroy_workqueue", "draining"} => Work!OwnQueue /\ steps \in OwnLists
           /\ Stage \in {"free_irq", "synchronize", "end"} => steps \in LastLists
           /\ Stage \in LastStages \cup {"tasklet_kill", "killing", "flush_work", "flushing",
                                        "destroy_workqueue", "draining"}
           /\ Work!PastFlush <=> Stage \notin {"tasklet_kill", "flush_work"}
           /\ steps = << >> <=> Stage = "end"
<1>1. CASE steps \in LastLists
  BY <1>1, LastListNext DEF LastStages
<1>2. CASE w_driver \in Work!TaskletDrivers /\ steps \in TaskletLists
  BY <1>2, TaskletListNext
<1>3. CASE w_driver = "workqueues_on_cpu" /\ steps \in FlushLists
  BY <1>3, FlushListNext
<1>4. CASE Work!OwnQueue /\ steps \in OwnLists
  BY <1>4, OwnListNext
<1> QED BY <1>1, <1>2, <1>3, <1>4 DEF StepsInv

\* Which calls hello_init makes, by driver, and what comes after each of them.
LEMMA InitListNext ==
    ASSUME steps \in InitLists
    PROVE  /\ Stage \in {"request_irq", "alloc_workqueue", "end"}
           /\ Stage = "request_irq" /\ steps' = Tail(steps) =>
                IF Work!OwnQueue
                THEN steps' = <<"alloc_workqueue">> /\ Stage' = "alloc_workqueue"
                ELSE steps' = << >> /\ Stage' = "end"
           /\ Stage = "alloc_workqueue" =>
                Work!OwnQueue /\ (steps' = Tail(steps) => steps' = << >> /\ Stage' = "end")
           /\ Stage = "end" <=> steps = << >>
<1>1. CASE Work!OwnQueue /\ steps = <<"request_irq", "alloc_workqueue">>
  <2>1. Stage = "request_irq" /\ steps # << >>
    BY <1>1 DEF Stage
  <2>2. steps' = Tail(steps) => steps' = <<"alloc_workqueue">> /\ Stage' = "alloc_workqueue"
    BY <1>1 DEF Stage
  <2> QED BY <1>1, <2>1, <2>2
<1>2. CASE Work!OwnQueue /\ steps = <<"alloc_workqueue">>
  <2>1. Stage = "alloc_workqueue" /\ steps # << >>
    BY <1>2 DEF Stage
  <2>2. steps' = Tail(steps) => steps' = << >> /\ Stage' = "end"
    BY <1>2 DEF Stage
  <2> QED BY <1>2, <2>1, <2>2
<1>3. CASE ~Work!OwnQueue /\ steps = <<"request_irq">>
  <2>1. Stage = "request_irq" /\ steps # << >>
    BY <1>3 DEF Stage
  <2>2. steps' = Tail(steps) => steps' = << >> /\ Stage' = "end"
    BY <1>3 DEF Stage
  <2> QED BY <1>3, <2>1, <2>2
<1>4. CASE steps = << >>
  BY <1>4 DEF Stage
<1> QED BY <1>1, <1>2, <1>3, <1>4 DEF InitLists

\* A call of hello_exit is made in hello_exit.
LEMMA ExitCall ==
    ASSUME Work!TypeOK, StepsInv,
           NEW call \in {"flush_work", "flushing", "destroy_workqueue", "draining",
                         "tasklet_kill", "killing", "free_irq", "synchronize"},
           Work!At(call)
    PROVE  w_phase = "exit" /\ Stage = call /\ Work!Alive
<1>1. Stage = call /\ steps # << >> /\ Work!Alive
  BY DEF Work!At, Stage
<1>2. w_phase # "init"
  BY <1>1, InitListNext DEF StepsInv
<1> QED BY <1>1, <1>2 DEF StepsInv, Work!TypeOK

-----------------------------------------------------------------------------
(* The invariant *)

LEMMA InitIInv == Work!Init => IInv
<1> SUFFICES ASSUME Work!Init PROVE IInv
  OBVIOUS
<1>1. Work!TypeOK /\ ServedInv /\ Work!FreedQueueUse /\ BitsInv /\ WaitedInv /\ IrqInv
  BY DEF Work!Init, Work!TypeOK, ServedInv, Work!FreedQueueUse, BitsInv, WaitedInv, Waited,
         IrqInv,
         Work!OwnQueue, Work!Drivers
<1>2. StepsInv
  <2>1. steps \in InitLists
    BY DEF Work!Init, Work!InitSteps, InitLists, Work!OwnQueue
  <2> QED BY <2>1 DEF Work!Init, StepsInv
<1>3. Stage = "request_irq"
  BY DEF Work!Init, Stage, Work!InitSteps
<1>4. QueueInv
  BY <1>3 DEF Work!Init, QueueInv, Work!OwnQueue
<1> QED BY <1>1, <1>2, <1>4 DEF IInv

\* Interrupts and the deferred function do not move hello_init and hello_exit.
LEMMA InterruptKeepsIInv ==
    ASSUME IInv, Work!Interrupt \/ Work!HandlerQueues \/ Work!WorkStep
    PROVE  IInv'
<1>1. steps' = steps /\ w_phase' = w_phase /\ w_driver' = w_driver /\ queue' = queue
      /\ killing' = killing
  BY DEF Work!Interrupt, Work!HandlerQueues, Work!WorkStep, Work!WorkBegins, Work!WorkEnds,
         Work!work, Work!history
<1>2. Stage' = Stage /\ Work!OwnQueue' = Work!OwnQueue /\ StepsInv'
  BY <1>1 DEF Stage, Work!OwnQueue, StepsInv, IInv, InitLists
<1>3. Work!PastFlush => w_phase = "exit" /\ Stage \notin {"tasklet_kill", "flush_work"}
  BY ExitStages DEF IInv, Work!PastFlush
<1>4. w_phase = "exit" /\ Stage \in LastStages \cup {"flushing", "killing"} => Work!PastFlush
  BY ExitStages DEF IInv, LastStages
<1> USE <1>1, <1>2
<1>5. CASE Work!Interrupt
  <2>1. Work!TypeOK'
    BY <1>5 DEF Work!Interrupt, IInv, Work!TypeOK, Work!history, Work!work
  <2>2. QueueInv'
    BY <1>5 DEF Work!Interrupt, IInv, Work!TypeOK, QueueInv, Work!history, Work!work
  <2>3. IrqInv'
    BY <1>5 DEF Work!Interrupt, IInv, Work!TypeOK, QueueInv, IrqInv, Work!history, Work!work
  <2>4. BitsInv'
    <3>1. refused' = refused /\ (killing => ~pending)
      BY <1>5 DEF Work!Interrupt, IInv, BitsInv, Work!history, Work!work
    <3>2. ~pending => ~pending'
      BY <1>5 DEF Work!Interrupt, Work!history, Work!work
    <3> QED BY <3>1, <3>2 DEF IInv, BitsInv
  <2>5. WaitedInv'
    BY <1>5, <1>3, <1>4
      DEF Work!Interrupt, IInv, Work!TypeOK, Waited, BitsInv, WaitedInv, Work!history,
          Work!work
  <2>6. ServedInv'
    BY <1>5 DEF Work!Interrupt, IInv, Work!TypeOK, BitsInv, Work!Alive, QueueInv, ServedInv,
                Work!history, Work!work
  <2>7. Work!FreedQueueUse'
    BY <1>5 DEF Work!Interrupt, IInv, QueueInv, IrqInv, Work!Alive, Work!FreedQueueUse,
                Work!history, Work!work
  <2> QED BY <2>1, <2>2, <2>3, <2>4, <2>5, <2>6, <2>7 DEF IInv
<1>6. CASE Work!HandlerQueues
  <2>1. Work!TypeOK'
    BY <1>6 DEF Work!HandlerQueues, Work!Pending, Work!Queued, Work!Refused, IInv,
                Work!TypeOK, Work!history, Work!work
  <2>2. QueueInv'
    BY <1>6
      DEF Work!HandlerQueues, Work!Pending, Work!Queued, Work!Refused, IInv, Work!TypeOK,
          QueueInv, Work!history, Work!work
  <2>3. IrqInv'
    BY <1>6
      DEF Work!HandlerQueues, Work!Pending, Work!Queued, Work!Refused, IInv, Work!TypeOK,
          QueueInv, IrqInv, Work!history,
          Work!work
  <2>4. BitsInv'
    <3>1. w_phase \in {"init", "loaded"} => ~refused'
      BY <1>6
        DEF Work!HandlerQueues, Work!Pending, Work!Refused, IInv, Work!TypeOK, QueueInv,
            BitsInv, LastStages
    <3>2. killing => ~pending'
      BY <1>6 DEF Work!HandlerQueues, Work!Pending, Work!Queued, IInv, BitsInv
    <3> QED BY <3>1, <3>2 DEF IInv, BitsInv
  <2>5. WaitedInv'
    <3>1. running' = running /\ awaited' = awaited /\ (late => late')
      BY <1>6 DEF Work!HandlerQueues
    <3>2. Work!PastFlush => pending \/ ~pending' \/ late'
      BY <1>6 DEF Work!HandlerQueues
    <3>3. w_phase = "gone" /\ pending' => pending \/ Work!OwnQueue
      BY <1>6 DEF Work!HandlerQueues, IInv, QueueInv, IrqInv
    <3>4. Waited => w_phase = "gone" \/ Work!PastFlush
      BY <1>4 DEF Waited
    <3>5. w_driver \in Work!TaskletDrivers \cup {"workqueues_on_cpu"} => ~Work!OwnQueue
      BY DEF Work!TaskletDrivers, Work!OwnQueue
    <3>6. Waited' = Waited
      BY DEF Waited
    <3> QED BY <3>1, <3>2, <3>3, <3>4, <3>5, <3>6, <1>4 DEF IInv, WaitedInv
  <2>6. ServedInv'
    BY <1>6
      DEF Work!HandlerQueues, Work!Pending, Work!Queued, Work!Refused, IInv, Work!TypeOK,
          BitsInv, Work!Alive, QueueInv,
          ServedInv, Work!history, Work!work
  <2>7. Work!FreedQueueUse'
    <3>1. w_crash' = "queue" => queue = "destroyed" /\ ~Work!Pending
      BY <1>6 DEF Work!HandlerQueues, Work!Alive
    <3>2. queue = "destroyed" => Work!OwnQueue /\ w_phase = "exit"
      BY <1>6 DEF Work!HandlerQueues, IInv, Work!TypeOK, QueueInv, IrqInv
    <3>3. queue = "destroyed" /\ ~Work!Pending => ~refused'
      BY <1>6 DEF Work!HandlerQueues, Work!Pending, Work!Refused
    <3> QED BY <3>1, <3>2, <3>3 DEF Work!FreedQueueUse
  <2> QED BY <2>1, <2>2, <2>3, <2>4, <2>5, <2>6, <2>7 DEF IInv
<1>7. CASE Work!WorkBegins
  <2>1. Work!TypeOK'
    <3>1. (awaited' = "pending" => pending') /\ (awaited' = "running" => running')
      BY <1>7 DEF Work!WorkBegins, IInv, Work!TypeOK
    <3>2. awaited' \in {"nothing", "pending", "running"} /\ w_crash' \in {w_crash, "work"}
      BY <1>7 DEF Work!WorkBegins, IInv, Work!TypeOK
    <3>3. pending' \in BOOLEAN /\ running' \in BOOLEAN /\ unserved' \in BOOLEAN
      BY <1>7 DEF Work!WorkBegins, IInv, Work!TypeOK
    <3>4. UNCHANGED <<w_phase, irq, handler, queue, refused, killing, late>>
      BY <1>7 DEF Work!WorkBegins
    <3> QED BY <3>1, <3>2, <3>3, <3>4 DEF IInv, Work!TypeOK
  <2>2. QueueInv'
    BY <1>7 DEF Work!WorkBegins, IInv, Work!TypeOK, QueueInv, Work!history, Work!work
  <2>3. IrqInv'
    BY <1>7 DEF Work!WorkBegins, IInv, Work!TypeOK, QueueInv, IrqInv, Work!history, Work!work
  <2>4. BitsInv'
    <3>1. refused' = refused /\ (killing => ~pending)
      BY <1>7 DEF Work!WorkBegins, IInv, BitsInv, Work!history, Work!work
    <3>2. ~pending => ~pending'
      BY <1>7 DEF Work!WorkBegins, Work!history, Work!work
    <3> QED BY <3>1, <3>2 DEF IInv, BitsInv
  <2>5. WaitedInv'
    BY <1>7, <1>3, <1>4
      DEF Work!WorkBegins, IInv, Work!TypeOK, Waited, BitsInv, WaitedInv, Work!history,
          Work!work
  <2>6. ServedInv'
    BY <1>7 DEF Work!WorkBegins, IInv, Work!TypeOK, BitsInv, Work!Alive, QueueInv, ServedInv,
                Work!history, Work!work
  <2>7. Work!FreedQueueUse'
    BY <1>7 DEF Work!WorkBegins, IInv, QueueInv, IrqInv, Work!Alive, Work!FreedQueueUse,
                Work!history, Work!work
  <2> QED BY <2>1, <2>2, <2>3, <2>4, <2>5, <2>6, <2>7 DEF IInv
<1>8. CASE Work!WorkEnds
  <2>1. Work!TypeOK'
    <3>1. (awaited' = "pending" => pending') /\ (awaited' = "running" => running')
      BY <1>8 DEF Work!WorkEnds, IInv, Work!TypeOK
    <3>2. awaited' \in {"nothing", "pending", "running"} /\ w_crash' \in {w_crash, "work"}
      BY <1>8 DEF Work!WorkEnds, IInv, Work!TypeOK
    <3>3. pending' \in BOOLEAN /\ running' \in BOOLEAN /\ unserved' \in BOOLEAN
      BY <1>8 DEF Work!WorkEnds, IInv, Work!TypeOK, Work!history
    <3>4. UNCHANGED <<w_phase, irq, handler, queue, refused, killing, late>>
      BY <1>8 DEF Work!WorkEnds, Work!history
    <3> QED BY <3>1, <3>2, <3>3, <3>4 DEF IInv, Work!TypeOK
  <2>2. QueueInv'
    BY <1>8 DEF Work!WorkEnds, IInv, Work!TypeOK, QueueInv, Work!history, Work!work
  <2>3. IrqInv'
    BY <1>8 DEF Work!WorkEnds, IInv, Work!TypeOK, QueueInv, IrqInv, Work!history, Work!work
  <2>4. BitsInv'
    <3>1. refused' = refused /\ (killing => ~pending)
      BY <1>8 DEF Work!WorkEnds, IInv, BitsInv, Work!history, Work!work
    <3>2. ~pending => ~pending'
      BY <1>8 DEF Work!WorkEnds, Work!history, Work!work
    <3> QED BY <3>1, <3>2 DEF IInv, BitsInv
  <2>5. WaitedInv'
    BY <1>8, <1>3, <1>4
      DEF Work!WorkEnds, IInv, Work!TypeOK, Waited, BitsInv, WaitedInv, Work!history, Work!work
  <2>6. ServedInv'
    BY <1>8 DEF Work!WorkEnds, IInv, Work!TypeOK, BitsInv, Work!Alive, QueueInv, ServedInv,
                Work!history, Work!work
  <2>7. Work!FreedQueueUse'
    BY <1>8 DEF Work!WorkEnds, IInv, QueueInv, IrqInv, Work!Alive, Work!FreedQueueUse,
                Work!history, Work!work
  <2> QED BY <2>1, <2>2, <2>3, <2>4, <2>5, <2>6, <2>7 DEF IInv
<1> QED BY <1>5, <1>6, <1>7, <1>8 DEF Work!WorkStep

\* hello_init: nothing is deferred before the queue is there.
LEMMA InitStepKeepsIInv ==
    ASSUME IInv, Work!InitStep
    PROVE  IInv'
<1>1. w_crash = "none" /\ w_crash' = w_crash /\ w_driver' = w_driver /\ w_phase = "init"
  <2>1. CASE Work!RequestIrq
    <3>1. Stage = "request_irq" /\ steps # << >> /\ Work!Alive
      BY <2>1 DEF Work!RequestIrq, Work!At, Stage
    <3>2. w_phase # "exit"
      BY <3>1, ExitStages DEF IInv, LastStages
    <3>3. w_phase = "init"
      BY <3>1, <3>2 DEF IInv, Work!TypeOK, StepsInv
    <3> QED BY <2>1, <3>1, <3>3 DEF Work!RequestIrq, Work!Alive
  <2>2. CASE Work!AllocWorkqueue
    <3>1. Stage = "alloc_workqueue" /\ steps # << >> /\ Work!Alive
      BY <2>2 DEF Work!AllocWorkqueue, Work!At, Stage
    <3>2. w_phase # "exit"
      BY <3>1, ExitStages DEF IInv, LastStages
    <3>3. w_phase = "init"
      BY <3>1, <3>2 DEF IInv, Work!TypeOK, StepsInv
    <3> QED BY <2>2, <3>1, <3>3 DEF Work!AllocWorkqueue, Work!Alive
  <2>3. CASE Work!AllocFails
    <3>1. Stage = "alloc_workqueue" /\ steps # << >> /\ Work!Alive
      BY <2>3 DEF Work!AllocFails, Work!At, Stage
    <3>2. w_phase # "exit"
      BY <3>1, ExitStages DEF IInv, LastStages
    <3>3. w_phase = "init"
      BY <3>1, <3>2 DEF IInv, Work!TypeOK, StepsInv
    <3> QED BY <2>3, <3>1, <3>3 DEF Work!AllocFails, Work!Alive
  <2>4. CASE Work!Loaded
    BY <2>4 DEF Work!Loaded, Work!Alive
  <2> QED BY <2>1, <2>2, <2>3, <2>4 DEF Work!InitStep
<1>2. Work!OwnQueue' = Work!OwnQueue /\ InitLists' = InitLists /\ Work!FreedQueueUse'
  BY <1>1 DEF Work!OwnQueue, Work!FreedQueueUse, InitLists
<1>3. steps \in InitLists
  BY <1>1 DEF IInv, StepsInv
<1>4. handler' = handler /\ pending' = pending /\ running' = running /\ refused' = refused
      /\ killing' = killing /\ awaited' = awaited /\ unserved' = unserved /\ late' = late
  BY DEF Work!InitStep, Work!RequestIrq, Work!AllocWorkqueue, Work!AllocFails, Work!Loaded,
         Work!work, Work!history
<1>5. ~refused /\ ~killing
  BY <1>1 DEF IInv, BitsInv
<1>6. w_phase' \in {"init", "loaded", "gone"} /\ (w_phase' = "gone" => Work!AllocFails)
      /\ (w_phase' = "loaded" => Work!Loaded)
  BY <1>1 DEF Work!InitStep, Work!RequestIrq, Work!AllocWorkqueue, Work!AllocFails, Work!Loaded
<1>7. Work!TypeOK'
  <2>1. irq' \in BOOLEAN /\ queue' \in {"none", "ready", "draining", "destroyed"}
    BY DEF Work!InitStep, Work!RequestIrq, Work!AllocWorkqueue, Work!AllocFails, Work!Loaded,
           IInv, Work!TypeOK
  <2> QED BY <2>1, <1>1, <1>4, <1>6 DEF IInv, Work!TypeOK
<1>8. BitsInv'
  BY <1>4, <1>5, <1>6 DEF BitsInv
<1>9. ServedInv'
  BY <1>1, <1>4 DEF IInv, ServedInv, Work!Alive
<1>10. w_phase' = "gone" => Work!OwnQueue /\ queue' = "none" /\ queue = "none"
  <2> SUFFICES ASSUME Work!AllocFails PROVE Work!OwnQueue /\ queue' = "none" /\ queue = "none"
    BY <1>6
  <2>1. Stage = "alloc_workqueue"
    BY DEF Work!AllocFails, Work!At, Stage
  <2>2. Work!OwnQueue
    BY <2>1, <1>3, InitListNext
  <2> QED BY <1>1, <2>1, <2>2 DEF Work!AllocFails, IInv, QueueInv
<1>11. IrqInv' /\ WaitedInv'
  <2>1. IrqInv'
    BY <1>6, <1>10 DEF IrqInv
  <2>2. w_phase' = "gone" => w_driver \notin Work!TaskletDrivers \cup {"workqueues_on_cpu"}
    BY <1>10 DEF Work!OwnQueue, Work!TaskletDrivers
  <2>3. WaitedInv'
    BY <1>1, <1>6, <2>2 DEF WaitedInv, Waited
  <2> QED BY <2>1, <2>3
<1>12. StepsInv' /\ QueueInv'
  <2>1. CASE Work!RequestIrq
    <3>1. Stage = "request_irq" /\ steps' = Tail(steps)
      BY <2>1 DEF Work!RequestIrq, Work!At, Stage
    <3>2. IF Work!OwnQueue
          THEN steps' = <<"alloc_workqueue">> /\ Stage' = "alloc_workqueue"
          ELSE steps' = << >> /\ Stage' = "end"
      BY <3>1, <1>3, InitListNext
    <3>3. w_phase' = "init" /\ queue' = queue
      BY <2>1, <1>1 DEF Work!RequestIrq
    <3> QED BY <3>1, <3>2, <3>3, <1>1, <1>2, <1>4 DEF StepsInv, QueueInv, IInv, InitLists
  <2>2. CASE Work!AllocWorkqueue
    <3>1. Stage = "alloc_workqueue" /\ steps' = Tail(steps)
      BY <2>2 DEF Work!AllocWorkqueue, Work!At, Stage
    <3>2. Work!OwnQueue /\ steps' = << >> /\ Stage' = "end"
      BY <3>1, <1>3, InitListNext
    <3>3. w_phase' = "init" /\ queue' = "ready"
      BY <2>2, <1>1 DEF Work!AllocWorkqueue
    <3> QED BY <3>2, <3>3, <1>1, <1>2, <1>4 DEF StepsInv, QueueInv, IInv, InitLists
  <2>3. CASE Work!AllocFails
    <3>1. steps' = << >> /\ w_phase' = "gone" /\ Work!OwnQueue /\ queue' = "none" /\ queue = "none"
      BY <2>3, <1>10 DEF Work!AllocFails
    <3> QED BY <3>1, <1>2, <1>4 DEF StepsInv, QueueInv, IInv
  <2>4. CASE Work!Loaded
    <3>1. w_phase' = "loaded" /\ steps' = steps /\ steps = << >> /\ queue' = queue
      BY <2>4 DEF Work!Loaded
    <3>2. Stage = "end"
      BY <3>1 DEF Stage
    <3> QED BY <3>1, <3>2, <1>1, <1>2, <1>4 DEF StepsInv, QueueInv, IInv
  <2> QED BY <2>1, <2>2, <2>3, <2>4 DEF Work!InitStep
<1> QED BY <1>2, <1>7, <1>8, <1>9, <1>11, <1>12 DEF IInv

\* hello_exit starts with the first call of its driver's list.
LEMMA ExitBeginsKeepsIInv ==
    ASSUME IInv, Work!ExitBegins
    PROVE  IInv'
<1>1. w_phase = "loaded" /\ w_phase' = "exit" /\ w_driver' = w_driver /\ irq' = irq
      /\ handler' = handler /\ queue' = queue /\ pending' = pending /\ running' = running
      /\ refused' = refused /\ killing' = killing /\ awaited' = awaited
      /\ unserved' = unserved /\ late' = late /\ w_crash' = w_crash
  BY DEF Work!ExitBegins, Work!work, Work!history
<1>2. Work!OwnQueue' = Work!OwnQueue /\ ~killing /\ queue = "ready"
  BY <1>1 DEF Work!OwnQueue, IInv, BitsInv, QueueInv
<1>3. /\ w_driver \in Work!TaskletDrivers =>
           steps' = <<"tasklet_kill", "free_irq">> /\ Stage' = "tasklet_kill"
      /\ w_driver = "workqueues_on_cpu" =>
           steps' = <<"flush_work", "free_irq">> /\ Stage' = "flush_work"
      /\ w_driver = "workqueues_module" => steps' = <<"free_irq">> /\ Stage' = "free_irq"
      /\ Work!OwnQueue => /\ steps' = <<"flush_work", "destroy_workqueue", "free_irq">>
                     /\ Stage' = "flush_work"
  <2>1. steps' = Work!ExitSteps(w_driver)
    BY DEF Work!ExitBegins
  <2>2. CASE w_driver \in Work!TaskletDrivers
    <3>1. steps' = <<"tasklet_kill", "free_irq">>
      BY <2>1, <2>2 DEF Work!ExitSteps, Work!TaskletDrivers
    <3> QED BY <2>2, <3>1 DEF Stage, Work!TaskletDrivers, Work!OwnQueue
  <2>3. CASE w_driver = "workqueues_on_cpu"
    <3>1. steps' = <<"flush_work", "free_irq">>
      BY <2>1, <2>3 DEF Work!ExitSteps, Work!TaskletDrivers
    <3> QED BY <2>3, <3>1 DEF Stage, Work!TaskletDrivers, Work!OwnQueue
  <2>4. CASE w_driver = "workqueues_module"
    <3>1. steps' = <<"free_irq">>
      BY <2>1, <2>4 DEF Work!ExitSteps, Work!TaskletDrivers
    <3> QED BY <2>4, <3>1 DEF Stage, Work!TaskletDrivers, Work!OwnQueue
  <2>5. CASE Work!OwnQueue
    <3>1. steps' = <<"flush_work", "destroy_workqueue", "free_irq">>
      BY <2>1, <2>5 DEF Work!ExitSteps, Work!TaskletDrivers, Work!OwnQueue
    <3> QED BY <2>5, <3>1 DEF Stage, Work!TaskletDrivers, Work!OwnQueue
  <2> QED BY <2>2, <2>3, <2>4, <2>5
<1>4. w_driver \in Work!TaskletDrivers \/ w_driver \in {"workqueues_on_cpu", "workqueues_module"}
      \/ Work!OwnQueue
  BY DEF IInv, Work!TypeOK, Work!Drivers, Work!OwnQueue
<1>5. Work!TypeOK' /\ Work!FreedQueueUse'
  BY <1>1, <1>2 DEF Work!ExitBegins, Work!Alive, IInv, Work!TypeOK, Work!FreedQueueUse
<1>6. StepsInv'
  BY <1>1, <1>2, <1>3, <1>4
    DEF StepsInv, LastLists, TaskletLists, FlushLists, OwnLists, Work!TaskletDrivers,
        Work!OwnQueue
<1>7. QueueInv'
  BY <1>1, <1>2, <1>3 DEF QueueInv, IInv, LastStages
<1>8. IrqInv' /\ BitsInv'
  BY <1>1, <1>2, <1>3, <1>4 DEF IrqInv, BitsInv
<1>9. WaitedInv'
  BY <1>1, <1>2, <1>3, <1>4 DEF WaitedInv, Waited, LastStages, Work!TaskletDrivers,
                                Work!OwnQueue
<1>10. ServedInv'
  BY <1>1 DEF ServedInv
<1> QED BY <1>5, <1>6, <1>7, <1>8, <1>9, <1>10 DEF IInv

\* hello_exit's calls, one by one.
LEMMA ExitStepKeepsIInv ==
    ASSUME IInv, Work!ExitStep
    PROVE  IInv'
<1>1. CASE Work!FlushBegins
  <2>1. Stage = "flush_work" /\ w_phase = "exit" /\ Work!Alive
    BY <1>1, ExitCall DEF Work!FlushBegins, IInv
  <2>2. \/ /\ w_driver = "workqueues_on_cpu" /\ ~Work!OwnQueue
           /\ steps' = <<"flushing", "free_irq">> /\ Stage' = "flushing"
        \/ Work!OwnQueue /\ steps' = <<"flushing", "destroy_workqueue", "free_irq">> /\ Stage' = "flushing"
    BY <1>1, <2>1, ExitStages, FlushListNext, OwnListNext DEF Work!FlushBegins, IInv,
                                                              Work!OwnQueue
  <2>3. w_phase' = "exit" /\ w_driver' = w_driver /\ handler' = handler /\ pending' = pending
        /\ running' = running /\ refused' = refused /\ unserved' = unserved /\ late' = late
        /\ w_crash' = w_crash /\ Work!OwnQueue' = Work!OwnQueue
    BY <1>1, <2>1 DEF Work!FlushBegins, Work!work, Work!history, Work!OwnQueue
  <2>4. Work!TypeOK' /\ ServedInv' /\ Work!FreedQueueUse'
    BY <1>1, <2>1, <2>3
      DEF Work!FlushBegins, Work!work, Work!history, IInv, Work!TypeOK, ServedInv,
          Work!FreedQueueUse, Work!Alive
  <2>5. StepsInv'
    BY <2>1, <2>2, <2>3, ExitStages
      DEF IInv, StepsInv, LastLists, TaskletLists, FlushLists, OwnLists, Work!TaskletDrivers,
          Work!OwnQueue
  <2>6. QueueInv'
    BY <1>1, <2>1, <2>2, <2>3 DEF Work!FlushBegins, IInv, QueueInv, LastStages
  <2>7. IrqInv'
    BY <1>1, <2>1, <2>2, <2>3 DEF Work!FlushBegins, IInv, IrqInv
  <2>8. BitsInv'
    BY <1>1, <2>1, <2>2, <2>3 DEF Work!FlushBegins, IInv, BitsInv, Work!work
  <2>9. WaitedInv'
    <3>1. ~Waited'
      BY <2>2, <2>3 DEF Waited, LastStages
    <3>2. /\ awaited' = "nothing" => ~pending /\ ~running
          /\ awaited' = "running" => ~pending
      BY <1>1 DEF Work!FlushBegins
    <3> QED BY <2>3, <3>1, <3>2 DEF WaitedInv
  <2> QED BY <2>4, <2>5, <2>6, <2>7, <2>8, <2>9 DEF IInv
<1>2. CASE Work!FlushReturns
  <2>1. Stage = "flushing" /\ w_phase = "exit" /\ Work!Alive
    BY <1>2, ExitCall DEF Work!FlushReturns, IInv
  <2>2. \/ /\ w_driver = "workqueues_on_cpu" /\ ~Work!OwnQueue
           /\ steps' = <<"free_irq">> /\ Stage' = "free_irq"
        \/ Work!OwnQueue /\ steps' = <<"destroy_workqueue", "free_irq">> /\ Stage' = "destroy_workqueue"
    BY <1>2, <2>1, ExitStages, FlushListNext, OwnListNext DEF Work!FlushReturns, IInv,
                                                              Work!OwnQueue
  <2>3. w_phase' = "exit" /\ w_driver' = w_driver /\ handler' = handler /\ pending' = pending
        /\ running' = running /\ refused' = refused /\ unserved' = unserved /\ late' = late
        /\ w_crash' = w_crash /\ Work!OwnQueue' = Work!OwnQueue
    BY <1>2, <2>1 DEF Work!FlushReturns, Work!work, Work!history, Work!OwnQueue
  <2>4. Work!TypeOK' /\ ServedInv' /\ Work!FreedQueueUse'
    BY <1>2, <2>1, <2>3
      DEF Work!FlushReturns, Work!work, Work!history, IInv, Work!TypeOK, ServedInv,
          Work!FreedQueueUse, Work!Alive
  <2>5. StepsInv'
    BY <2>1, <2>2, <2>3, ExitStages
      DEF IInv, StepsInv, LastLists, TaskletLists, FlushLists, OwnLists, Work!TaskletDrivers,
          Work!OwnQueue
  <2>6. QueueInv'
    BY <1>2, <2>1, <2>2, <2>3 DEF Work!FlushReturns, IInv, QueueInv, LastStages
  <2>7. IrqInv'
    BY <1>2, <2>1, <2>2, <2>3 DEF Work!FlushReturns, IInv, IrqInv
  <2>8. BitsInv'
    BY <1>2, <2>1, <2>2, <2>3 DEF Work!FlushReturns, IInv, BitsInv, Work!work
  <2>9. WaitedInv'
    <3>1. Work!OwnQueue => w_driver \notin Work!TaskletDrivers \cup {"workqueues_on_cpu"}
      BY DEF Work!OwnQueue, Work!TaskletDrivers
    <3>2. awaited = "nothing"
      BY <1>2 DEF Work!FlushReturns
    <3>3. ~Work!OwnQueue => (pending \/ running => late)
      BY <2>1, <3>2 DEF IInv, WaitedInv
    <3>4. Stage' # "flushing"
      BY <2>2
    <3> QED BY <2>2, <2>3, <3>1, <3>3, <3>4 DEF WaitedInv
  <2> QED BY <2>4, <2>5, <2>6, <2>7, <2>8, <2>9 DEF IInv
<1>3. CASE Work!DestroyBegins
  <2>1. Stage = "destroy_workqueue" /\ w_phase = "exit" /\ Work!Alive
    BY <1>3, ExitCall DEF Work!DestroyBegins, IInv
  <2>2. steps' = <<"draining", "free_irq">> /\ Stage' = "draining"
    BY <1>3, <2>1, ExitStages, OwnListNext DEF Work!DestroyBegins, IInv
  <2>3. w_phase' = "exit" /\ w_driver' = w_driver /\ handler' = handler /\ pending' = pending
        /\ running' = running /\ refused' = refused /\ unserved' = unserved /\ late' = late
        /\ w_crash' = w_crash /\ Work!OwnQueue' = Work!OwnQueue
    BY <1>3, <2>1 DEF Work!DestroyBegins, Work!work, Work!history, Work!OwnQueue
  <2>4. Work!TypeOK' /\ ServedInv' /\ Work!FreedQueueUse'
    BY <1>3, <2>1, <2>3
      DEF Work!DestroyBegins, Work!work, Work!history, IInv, Work!TypeOK, ServedInv,
          Work!FreedQueueUse, Work!Alive
  <2>5. StepsInv'
    BY <2>1, <2>2, <2>3, ExitStages
      DEF IInv, StepsInv, LastLists, TaskletLists, FlushLists, OwnLists, Work!TaskletDrivers,
          Work!OwnQueue
  <2>6. QueueInv'
    <3>1. Work!OwnQueue
      BY <2>1, ExitStages DEF IInv
    <3> QED BY <1>3, <2>2, <2>3, <3>1 DEF Work!DestroyBegins, QueueInv, LastStages
  <2>7. IrqInv'
    BY <1>3, <2>1, <2>2, <2>3 DEF Work!DestroyBegins, IInv, IrqInv
  <2>8. BitsInv'
    BY <1>3, <2>1, <2>2, <2>3 DEF Work!DestroyBegins, IInv, BitsInv, Work!work
  <2>9. WaitedInv'
    BY <1>3, <2>1, <2>2, <2>3, ExitStages
      DEF Work!DestroyBegins, IInv, Work!TypeOK, WaitedInv, Waited, LastStages,
          Work!TaskletDrivers,
          Work!OwnQueue, BitsInv, Work!work
  <2> QED BY <2>4, <2>5, <2>6, <2>7, <2>8, <2>9 DEF IInv
<1>4. CASE Work!DestroyReturns
  <2>1. Stage = "draining" /\ w_phase = "exit" /\ Work!Alive
    BY <1>4, ExitCall DEF Work!DestroyReturns, IInv
  <2>2. steps' = <<"free_irq">> /\ Stage' = "free_irq"
    BY <1>4, <2>1, ExitStages, OwnListNext DEF Work!DestroyReturns, IInv
  <2>3. w_phase' = "exit" /\ w_driver' = w_driver /\ handler' = handler /\ pending' = pending
        /\ running' = running /\ refused' = refused /\ unserved' = unserved /\ late' = late
        /\ w_crash' = w_crash /\ Work!OwnQueue' = Work!OwnQueue
    BY <1>4, <2>1 DEF Work!DestroyReturns, Work!work, Work!history, Work!OwnQueue
  <2>4. Work!TypeOK' /\ ServedInv' /\ Work!FreedQueueUse'
    BY <1>4, <2>1, <2>3
      DEF Work!DestroyReturns, Work!work, Work!history, IInv, Work!TypeOK, ServedInv,
          Work!FreedQueueUse, Work!Alive
  <2>5. StepsInv'
    BY <2>1, <2>2, <2>3, ExitStages
      DEF IInv, StepsInv, LastLists, TaskletLists, FlushLists, OwnLists, Work!TaskletDrivers,
          Work!OwnQueue
  <2>6. QueueInv'
    <3>1. Work!OwnQueue
      BY <2>1, ExitStages DEF IInv
    <3> QED BY <1>4, <2>2, <2>3, <3>1 DEF Work!DestroyReturns, QueueInv, LastStages
  <2>7. IrqInv'
    BY <1>4, <2>1, <2>2, <2>3 DEF Work!DestroyReturns, IInv, IrqInv
  <2>8. BitsInv'
    BY <1>4, <2>1, <2>2, <2>3 DEF Work!DestroyReturns, IInv, BitsInv, Work!work
  <2>9. WaitedInv'
    BY <1>4, <2>1, <2>2, <2>3, ExitStages
      DEF Work!DestroyReturns, IInv, Work!TypeOK, WaitedInv, Waited, LastStages,
          Work!TaskletDrivers,
          Work!OwnQueue, BitsInv, Work!work
  <2> QED BY <2>4, <2>5, <2>6, <2>7, <2>8, <2>9 DEF IInv
<1>5. CASE Work!KillBegins
  <2>1. Stage = "tasklet_kill" /\ w_phase = "exit" /\ Work!Alive
    BY <1>5, ExitCall DEF Work!KillBegins, IInv
  <2>2. steps' = <<"killing", "free_irq">> /\ Stage' = "killing"
    BY <1>5, <2>1, ExitStages, TaskletListNext DEF Work!KillBegins, IInv
  <2>3. w_phase' = "exit" /\ w_driver' = w_driver /\ handler' = handler /\ pending' = pending
        /\ running' = running /\ refused' = refused /\ unserved' = unserved /\ late' = late
        /\ w_crash' = w_crash /\ Work!OwnQueue' = Work!OwnQueue
    BY <1>5, <2>1 DEF Work!KillBegins, Work!work, Work!history, Work!OwnQueue
  <2>4. Work!TypeOK' /\ ServedInv' /\ Work!FreedQueueUse'
    BY <1>5, <2>1, <2>3
      DEF Work!KillBegins, Work!work, Work!history, IInv, Work!TypeOK, ServedInv,
          Work!FreedQueueUse, Work!Alive
  <2>5. StepsInv'
    BY <2>1, <2>2, <2>3, ExitStages
      DEF IInv, StepsInv, LastLists, TaskletLists, FlushLists, OwnLists, Work!TaskletDrivers,
          Work!OwnQueue
  <2>6. QueueInv'
    BY <1>5, <2>1, <2>2, <2>3 DEF Work!KillBegins, IInv, QueueInv, LastStages
  <2>7. IrqInv'
    BY <1>5, <2>1, <2>2, <2>3 DEF Work!KillBegins, IInv, IrqInv
  <2>8. BitsInv'
    BY <1>5, <2>1, <2>2, <2>3 DEF Work!KillBegins, IInv, BitsInv, Work!work
  <2>9. WaitedInv'
    BY <1>5, <2>1, <2>2, <2>3, ExitStages
      DEF Work!KillBegins, IInv, Work!TypeOK, WaitedInv, Waited, LastStages,
          Work!TaskletDrivers,
          Work!OwnQueue, BitsInv, Work!work
  <2> QED BY <2>4, <2>5, <2>6, <2>7, <2>8, <2>9 DEF IInv
<1>6. CASE Work!KillReturns
  <2>1. Stage = "killing" /\ w_phase = "exit" /\ Work!Alive
    BY <1>6, ExitCall DEF Work!KillReturns, IInv
  <2>2. steps' = <<"free_irq">> /\ Stage' = "free_irq"
    BY <1>6, <2>1, ExitStages, TaskletListNext DEF Work!KillReturns, IInv
  <2>3. w_phase' = "exit" /\ w_driver' = w_driver /\ handler' = handler /\ pending' = pending
        /\ running' = running /\ refused' = refused /\ unserved' = unserved /\ late' = late
        /\ w_crash' = w_crash /\ Work!OwnQueue' = Work!OwnQueue
    BY <1>6, <2>1 DEF Work!KillReturns, Work!work, Work!history, Work!OwnQueue
  <2>4. Work!TypeOK' /\ ServedInv' /\ Work!FreedQueueUse'
    <3>1. Work!TypeOK'
      <4>1. queue' = queue /\ awaited' = awaited /\ irq' = irq /\ killing' \in BOOLEAN
        BY <1>6 DEF Work!KillReturns, Work!work
      <4> QED BY ZenonT(40), <4>1, <2>3 DEF IInv, Work!TypeOK
    <3> QED BY <3>1, <2>1, <2>3 DEF ServedInv, Work!FreedQueueUse, Work!Alive
  <2>5. StepsInv'
    BY <2>1, <2>2, <2>3, ExitStages
      DEF IInv, StepsInv, LastLists, TaskletLists, FlushLists, OwnLists, Work!TaskletDrivers,
          Work!OwnQueue
  <2>6. QueueInv'
    <3>1. ~Work!OwnQueue
      BY <2>1, ExitStages DEF IInv, Work!OwnQueue, Work!TaskletDrivers
    <3> QED BY <1>6, <2>3, <3>1 DEF Work!KillReturns, IInv, QueueInv
  <2>7. IrqInv'
    BY <1>6, <2>1, <2>2, <2>3 DEF Work!KillReturns, IInv, IrqInv
  <2>8. BitsInv'
    BY <1>6, <2>1, <2>2, <2>3 DEF Work!KillReturns, IInv, BitsInv, Work!work
  <2>9. WaitedInv'
    <3>1. ~pending /\ ~running
      BY <1>6, <2>1 DEF Work!KillReturns, IInv, BitsInv
    <3> QED BY <2>2, <2>3, <3>1 DEF WaitedInv
  <2> QED BY <2>4, <2>5, <2>6, <2>7, <2>8, <2>9 DEF IInv
<1>7. CASE Work!FreeIrq
  <2>1. Stage = "free_irq" /\ w_phase = "exit" /\ Work!Alive
    BY <1>7, ExitCall DEF Work!FreeIrq, IInv
  <2>2. steps' = <<"synchronize">> /\ Stage' = "synchronize"
    BY <1>7, <2>1, ExitStages, LastListNext DEF Work!FreeIrq, IInv
  <2>3. w_phase' = "exit" /\ w_driver' = w_driver /\ handler' = handler /\ pending' = pending
        /\ running' = running /\ refused' = refused /\ unserved' = unserved /\ late' = late
        /\ w_crash' = w_crash /\ Work!OwnQueue' = Work!OwnQueue
    BY <1>7, <2>1 DEF Work!FreeIrq, Work!work, Work!history, Work!OwnQueue
  <2>4. Work!TypeOK' /\ ServedInv' /\ Work!FreedQueueUse'
    <3>1. Work!TypeOK'
      <4>1. queue' = queue /\ awaited' = awaited /\ killing' = killing /\ irq' \in BOOLEAN
        BY <1>7 DEF Work!FreeIrq, Work!work
      <4> QED BY ZenonT(40), <4>1, <2>3 DEF IInv, Work!TypeOK
    <3> QED BY <3>1, <2>1, <2>3 DEF ServedInv, Work!FreedQueueUse, Work!Alive
  <2>5. StepsInv'
    BY <2>1, <2>2, <2>3, ExitStages
      DEF IInv, StepsInv, LastLists, TaskletLists, FlushLists, OwnLists, Work!TaskletDrivers,
          Work!OwnQueue
  <2>6. QueueInv'
    BY <1>7, <2>1, <2>2, <2>3 DEF Work!FreeIrq, IInv, QueueInv, LastStages
  <2>7. IrqInv'
    BY <1>7, <2>1, <2>2, <2>3 DEF Work!FreeIrq, IInv, IrqInv
  <2>8. BitsInv'
    BY <1>7, <2>1, <2>2, <2>3 DEF Work!FreeIrq, IInv, BitsInv, Work!work
  <2>9. WaitedInv'
    <3>1. Waited /\ Stage' # "flushing"
      BY <2>1, <2>2 DEF Waited, LastStages
    <3> QED BY <2>3, <3>1 DEF IInv, WaitedInv
  <2> QED BY <2>4, <2>5, <2>6, <2>7, <2>8, <2>9 DEF IInv
<1>8. CASE Work!FreeIrqReturns
  <2>1. Stage = "synchronize" /\ w_phase = "exit" /\ Work!Alive
    BY <1>8, ExitCall DEF Work!FreeIrqReturns, IInv
  <2>2. steps' = << >> /\ Stage' = "end"
    BY <1>8, <2>1, ExitStages, LastListNext DEF Work!FreeIrqReturns, IInv
  <2>3. w_phase' = "exit" /\ w_driver' = w_driver /\ handler' = handler /\ pending' = pending
        /\ running' = running /\ refused' = refused /\ unserved' = unserved /\ late' = late
        /\ w_crash' = w_crash /\ Work!OwnQueue' = Work!OwnQueue
    BY <1>8, <2>1 DEF Work!FreeIrqReturns, Work!work, Work!history, Work!OwnQueue
  <2>4. Work!TypeOK' /\ ServedInv' /\ Work!FreedQueueUse'
    BY <1>8, <2>1, <2>3
      DEF Work!FreeIrqReturns, Work!work, Work!history, IInv, Work!TypeOK, ServedInv,
          Work!FreedQueueUse, Work!Alive
  <2>5. StepsInv'
    BY <2>1, <2>2, <2>3, ExitStages
      DEF IInv, StepsInv, LastLists, TaskletLists, FlushLists, OwnLists, Work!TaskletDrivers,
          Work!OwnQueue
  <2>6. QueueInv'
    BY <1>8, <2>1, <2>2, <2>3 DEF Work!FreeIrqReturns, IInv, QueueInv, LastStages
  <2>7. IrqInv'
    BY <1>8, <2>1, <2>2, <2>3 DEF Work!FreeIrqReturns, IInv, IrqInv
  <2>8. BitsInv'
    BY <1>8, <2>1, <2>2, <2>3 DEF Work!FreeIrqReturns, IInv, BitsInv, Work!work
  <2>9. WaitedInv'
    <3>1. Waited /\ Stage' # "flushing"
      BY <2>1, <2>2 DEF Waited, LastStages
    <3> QED BY <2>3, <3>1 DEF IInv, WaitedInv
  <2> QED BY <2>4, <2>5, <2>6, <2>7, <2>8, <2>9 DEF IInv
<1>9. CASE Work!Gone
  <2>1. Stage = "end" /\ w_phase = "exit" /\ Work!Alive /\ steps = << >>
    BY <1>9 DEF Work!Gone, Stage
  <2>2. w_phase' = "gone" /\ w_driver' = w_driver /\ handler' = handler /\ pending' = pending
        /\ running' = running /\ refused' = refused /\ unserved' = unserved /\ late' = late
        /\ w_crash' = w_crash /\ irq' = irq /\ queue' = queue /\ killing' = killing
        /\ awaited' = awaited /\ steps' = steps /\ Work!OwnQueue' = Work!OwnQueue
    BY <1>9 DEF Work!Gone, Work!work, Work!history, Work!OwnQueue
  <2>3. Work!TypeOK' /\ ServedInv' /\ Work!FreedQueueUse' /\ StepsInv'
    BY <2>1, <2>2 DEF IInv, Work!TypeOK, ServedInv, Work!FreedQueueUse, Work!Alive, StepsInv
  <2>4. QueueInv'
    BY <2>1, <2>2 DEF IInv, QueueInv, LastStages
  <2>5. IrqInv'
    BY <2>1, <2>2 DEF IInv, IrqInv
  <2>6. BitsInv'
    <3>1. ~killing
      BY <2>1 DEF IInv, BitsInv
    <3> QED BY <2>2, <3>1 DEF BitsInv
  <2>7. WaitedInv'
    BY <2>1, <2>2 DEF IInv, WaitedInv, Waited, LastStages
  <2> QED BY <2>3, <2>4, <2>5, <2>6, <2>7 DEF IInv
<1> QED BY <1>1, <1>2, <1>3, <1>4, <1>5, <1>6, <1>7, <1>8, <1>9 DEF Work!ExitStep

\* The inductive invariant holds in every state: IInv is TypeOK with what hello_exit's
\* progress says of the queue, the handler and the pending work.
THEOREM Inductive == Work!Spec => []IInv
<1>1. IInv /\ [Work!Next]_(Work!vars) => IInv'
  <2> SUFFICES ASSUME IInv, [Work!Next]_(Work!vars) PROVE IInv'
    OBVIOUS
  <2>1. CASE Work!Next
    BY <2>1, InitStepKeepsIInv, InterruptKeepsIInv, ExitBeginsKeepsIInv, ExitStepKeepsIInv
      DEF Work!Next
  <2>2. CASE UNCHANGED Work!vars
    <3>1. w_driver' = w_driver /\ w_phase' = w_phase /\ steps' = steps /\ irq' = irq
          /\ handler' = handler /\ queue' = queue /\ w_crash' = w_crash /\ awaited' = awaited
          /\ pending' = pending /\ running' = running /\ refused' = refused
          /\ killing' = killing /\ unserved' = unserved /\ late' = late
      BY <2>2 DEF Work!vars, Work!work, Work!history
    <3>2. Work!OwnQueue' = Work!OwnQueue /\ Stage' = Stage
      BY <3>1 DEF Work!OwnQueue, Stage
    <3>6. Work!TypeOK'
      <4>1. (awaited = "pending" => pending) /\ (awaited = "running" => running)
        BY DEF IInv, Work!TypeOK
      <4>2. (awaited' = "pending" => pending') /\ (awaited' = "running" => running')
        BY <3>1, <4>1
      <4>3. /\ irq' \in BOOLEAN /\ handler' \in BOOLEAN /\ pending' \in BOOLEAN
            /\ running' \in BOOLEAN /\ refused' \in BOOLEAN /\ killing' \in BOOLEAN
            /\ unserved' \in BOOLEAN /\ late' \in BOOLEAN
        BY <3>1, Zenon DEF IInv, Work!TypeOK
      <4>4. /\ w_driver' \in Work!Drivers /\ w_phase' \in {"init", "loaded", "exit", "gone"}
            /\ queue' \in {"none", "ready", "draining", "destroyed"}
            /\ awaited' \in {"nothing", "pending", "running"}
            /\ w_crash' \in {"none", "handler", "work", "queue", "no_queue"}
        BY <3>1, Zenon DEF IInv, Work!TypeOK, Work!Drivers, Work!TaskletDrivers
      <4> QED BY <4>2, <4>3, <4>4 DEF Work!TypeOK
    <3>7. ServedInv' /\ Work!FreedQueueUse'
      BY <3>1, <3>2 DEF IInv, ServedInv, Work!FreedQueueUse, Work!Alive
    <3>3. StepsInv'
      BY <3>1, <3>2 DEF IInv, StepsInv, InitLists
    <3>4. QueueInv' /\ IrqInv'
      BY <3>1, <3>2 DEF IInv, QueueInv, IrqInv
    <3>5. BitsInv' /\ WaitedInv'
      BY <3>1, <3>2 DEF IInv, BitsInv, WaitedInv, Waited
    <3> QED BY <3>3, <3>4, <3>5, <3>6, <3>7 DEF IInv
  <2> QED BY <2>1, <2>2
<1> QED BY InitIInv, <1>1, PTL DEF Work!Spec

\* Every variable has its type, and awaited names the state of a work item that is there.
THEOREM TypeCorrect == Work!Spec => []Work!TypeOK
<1>1. IInv => Work!TypeOK
  BY DEF IInv
<1> QED BY Inductive, <1>1, PTL

\* What survives the module's exit is work that hello_exit never waits for, or that came
\* after it had waited; a driver with its own workqueue leaves none.
THEOREM LateWorkIsExplained == Work!Spec => []LateWorkExplained
<1>1. IInv => LateWorkExplained
  <2> SUFFICES ASSUME IInv, w_phase = "gone", pending \/ running
               PROVE  ~Work!OwnQueue /\ (w_driver = "workqueues_module" \/ late)
    BY DEF LateWorkExplained, Work!LateWorkExplained
  <2>1. ~Work!OwnQueue
    BY DEF IInv, QueueInv
  <2>2. \/ w_driver = "workqueues_module"
        \/ w_driver \in Work!TaskletDrivers \cup {"workqueues_on_cpu"}
    BY <2>1 DEF IInv, Work!TypeOK, Work!Drivers, Work!OwnQueue
  <2> QED BY <2>1, <2>2 DEF IInv, WaitedInv, Waited
<1> QED BY Inductive, <1>1, PTL

\* Only an interrupt between destroy_workqueue and the end of free_irq uses the freed
\* queue, and none does once an item was refused during the drain.
THEOREM FreedQueueIsExplained == Work!Spec => []FreedQueueUse
<1>1. IInv => FreedQueueUse
  BY DEF IInv, FreedQueueUse
<1> QED BY Inductive, <1>1, PTL

\* While the module is loaded every interrupt is followed by a run of its function.
THEOREM InterruptsServed == Work!Spec => []NoInterruptLost
<1>1. IInv => NoInterruptLost
  BY DEF IInv, ServedInv, NoInterruptLost, Work!NoInterruptLost
<1> QED BY Inductive, <1>1, PTL

-----------------------------------------------------------------------------

\* TypeOK in three parts.
FlagsOK ==
    /\ armed \in BOOLEAN /\ masked \in BOOLEAN /\ asked \in BOOLEAN
    /\ t_crash \in BOOLEAN /\ overtook \in BOOLEAN
CpuOK == cpu \in Cpus \cup {None} /\ (cpu = None <=> cpc = "idle")
NamesOK ==
    /\ t_driver \in Timer!Drivers /\ home \in Cpus /\ value \in {0, 50, 100}
    /\ t_phase \in {"loaded", "stop_thread", "stop_timer", "rest", "gone"}
    /\ cpc \in {"idle", "lock", "body", "rearm", "return"}
    /\ lock \in {"free", "callback", "thread"}
    /\ tpc \in {"top", "mask", "lock", "set", "print", "unlock", "sleep", "stopped"}

\* The lock belongs to who is between its lock and unlock calls; lab 20 has none.
LockInv ==
    /\ Timer!HasThread => (lock = "callback" <=> cpc = "body")
    /\ Timer!HasThread => (lock = "thread" <=> tpc \in {"set", "print", "unlock"})
    /\ ~Timer!HasThread => lock = "free" /\ tpc = "stopped" /\ cpc # "lock"

\* The thread has interrupts disabled between irqsave and irqrestore, and then
\* the callback is on another processor.
MaskInv ==
    /\ masked <=> tpc \in {"lock", "set", "print", "unlock"}
    /\ masked => cpu # home

\* What the thread stored stays until it unlocks.
ValueInv == tpc \in {"print", "unlock"} => value = 50

\* After del_timer a timer is queued again only by the callback it overtook,
\* after hrtimer_cancel by none.
TimerStopInv ==
    t_phase \in {"rest", "gone"} /\ (armed \/ cpc # "idle") =>
        overtook /\ t_driver # "hrtimer_module"

\* The inductive invariant: LockWorks needs to know who has the lock and on
\* which processor, EscapeExplained what del_timer left.
TimerInv == FlagsOK /\ CpuOK /\ NamesOK /\ LockInv /\ MaskInv /\ ValueInv /\ TimerStopInv

LEMMA InitTimer == ASSUME None \notin Cpus PROVE Timer!Init => TimerInv
<1> SUFFICES ASSUME Timer!Init PROVE TimerInv
  OBVIOUS
<1> USE DEF Timer!Init
<1>1. FlagsOK /\ CpuOK /\ NamesOK
  BY DEF FlagsOK, CpuOK, NamesOK
<1>2. LockInv /\ MaskInv /\ ValueInv /\ TimerStopInv
  BY DEF LockInv, MaskInv, ValueInv, TimerStopInv, Timer!HasThread
<1> QED BY <1>1, <1>2 DEF TimerInv

\* The callback's steps.
LEMMA CallbackKeepsTimer ==
    ASSUME None \notin Cpus, TimerInv, Timer!Expires \/ Timer!CallbackStep
    PROVE  TimerInv'
<1> USE DEF TimerInv, Timer!HasThread, Timer!callback, Timer!thread
<1>1. CASE Timer!Expires
  <2>1. FlagsOK'
    BY <1>1 DEF Timer!Expires, FlagsOK, CpuOK
  <2>2. CpuOK'
    BY <1>1 DEF Timer!Expires, CpuOK, NamesOK
  <2>3. NamesOK'
    BY <1>1 DEF Timer!Expires, NamesOK, CpuOK
  <2>4. LockInv'
    BY <1>1 DEF Timer!Expires, LockInv, CpuOK, NamesOK
  <2>5. MaskInv'
    BY <1>1 DEF Timer!Expires, MaskInv, CpuOK, NamesOK
  <2>6. ValueInv'
    BY <1>1 DEF Timer!Expires, ValueInv, LockInv, CpuOK, NamesOK
  <2>7. TimerStopInv'
    BY <1>1 DEF Timer!Expires, TimerStopInv, CpuOK, NamesOK
  <2> QED BY <2>1, <2>2, <2>3, <2>4, <2>5, <2>6, <2>7
<1>2. CASE Timer!CallbackInFreedText
  <2>1. FlagsOK'
    BY <1>2 DEF Timer!CallbackInFreedText, FlagsOK, CpuOK
  <2>2. CpuOK'
    BY <1>2 DEF Timer!CallbackInFreedText, CpuOK, NamesOK
  <2>3. NamesOK'
    BY <1>2 DEF Timer!CallbackInFreedText, NamesOK, CpuOK
  <2>4. LockInv'
    BY <1>2 DEF Timer!CallbackInFreedText, LockInv, CpuOK, NamesOK
  <2>5. MaskInv'
    BY <1>2 DEF Timer!CallbackInFreedText, MaskInv, CpuOK, NamesOK
  <2>6. ValueInv'
    BY <1>2 DEF Timer!CallbackInFreedText, ValueInv, LockInv, CpuOK, NamesOK
  <2>7. TimerStopInv'
    BY <1>2 DEF Timer!CallbackInFreedText, TimerStopInv, CpuOK, NamesOK
  <2> QED BY <2>1, <2>2, <2>3, <2>4, <2>5, <2>6, <2>7
<1>3. CASE Timer!CallbackLocks
  <2>1. FlagsOK'
    BY <1>3 DEF Timer!CallbackLocks, FlagsOK, CpuOK
  <2>2. CpuOK'
    BY <1>3 DEF Timer!CallbackLocks, CpuOK, NamesOK
  <2>3. NamesOK'
    BY <1>3 DEF Timer!CallbackLocks, NamesOK, CpuOK
  <2>4. LockInv'
    BY <1>3 DEF Timer!CallbackLocks, LockInv, CpuOK, NamesOK
  <2>5. MaskInv'
    BY <1>3 DEF Timer!CallbackLocks, MaskInv, CpuOK, NamesOK
  <2>6. ValueInv'
    BY <1>3 DEF Timer!CallbackLocks, ValueInv, LockInv, CpuOK, NamesOK
  <2>7. TimerStopInv'
    BY <1>3 DEF Timer!CallbackLocks, TimerStopInv, CpuOK, NamesOK
  <2> QED BY <2>1, <2>2, <2>3, <2>4, <2>5, <2>6, <2>7
<1>4. CASE Timer!CallbackBody
  <2>1. FlagsOK'
    BY <1>4 DEF Timer!CallbackBody, FlagsOK, CpuOK
  <2>2. CpuOK'
    BY <1>4 DEF Timer!CallbackBody, CpuOK, NamesOK
  <2>3. NamesOK'
    BY <1>4 DEF Timer!CallbackBody, NamesOK, CpuOK
  <2>4. LockInv'
    BY <1>4 DEF Timer!CallbackBody, LockInv, CpuOK, NamesOK
  <2>5. MaskInv'
    BY <1>4 DEF Timer!CallbackBody, MaskInv, CpuOK, NamesOK
  <2>6. ValueInv'
    BY <1>4 DEF Timer!CallbackBody, ValueInv, LockInv, CpuOK, NamesOK
  <2>7. TimerStopInv'
    BY <1>4 DEF Timer!CallbackBody, TimerStopInv, CpuOK, NamesOK
  <2> QED BY <2>1, <2>2, <2>3, <2>4, <2>5, <2>6, <2>7
<1>5. CASE Timer!CallbackRearms
  <2>1. FlagsOK'
    BY <1>5 DEF Timer!CallbackRearms, FlagsOK, CpuOK, Timer!Rearmed
  <2>2. CpuOK'
    BY <1>5 DEF Timer!CallbackRearms, CpuOK, NamesOK, Timer!Rearmed
  <2>3. NamesOK'
    BY <1>5 DEF Timer!CallbackRearms, NamesOK, CpuOK, Timer!Rearmed
  <2>4. LockInv'
    BY <1>5 DEF Timer!CallbackRearms, LockInv, CpuOK, NamesOK, Timer!Rearmed
  <2>5. MaskInv'
    BY <1>5 DEF Timer!CallbackRearms, MaskInv, CpuOK, NamesOK, Timer!Rearmed
  <2>6. ValueInv'
    BY <1>5 DEF Timer!CallbackRearms, ValueInv, LockInv, CpuOK, NamesOK, Timer!Rearmed
  <2>7. TimerStopInv'
    BY <1>5 DEF Timer!CallbackRearms, TimerStopInv, CpuOK, NamesOK, Timer!Rearmed
  <2> QED BY <2>1, <2>2, <2>3, <2>4, <2>5, <2>6, <2>7
<1>6. CASE Timer!CallbackReturns
  <2>1. FlagsOK'
    BY <1>6 DEF Timer!CallbackReturns, FlagsOK, CpuOK
  <2>2. CpuOK'
    BY <1>6 DEF Timer!CallbackReturns, CpuOK, NamesOK
  <2>3. NamesOK'
    BY <1>6 DEF Timer!CallbackReturns, NamesOK, CpuOK
  <2>4. LockInv'
    BY <1>6 DEF Timer!CallbackReturns, LockInv, CpuOK, NamesOK
  <2>5. MaskInv'
    BY <1>6 DEF Timer!CallbackReturns, MaskInv, CpuOK, NamesOK
  <2>6. ValueInv'
    BY <1>6 DEF Timer!CallbackReturns, ValueInv, LockInv, CpuOK, NamesOK
  <2>7. TimerStopInv'
    BY <1>6 DEF Timer!CallbackReturns, TimerStopInv, CpuOK, NamesOK
  <2> QED BY <2>1, <2>2, <2>3, <2>4, <2>5, <2>6, <2>7
<1> QED BY <1>1, <1>2, <1>3, <1>4, <1>5, <1>6 DEF Timer!CallbackStep

\* The thread's steps.
LEMMA ThreadKeepsTimer ==
    ASSUME None \notin Cpus, TimerInv, Timer!ThreadStep \/ Timer!ThreadLocks
    PROVE  TimerInv'
<1> USE DEF TimerInv, Timer!HasThread, Timer!callback, Timer!thread
<1>1. CASE Timer!ThreadTop
  <2>1. FlagsOK'
    BY <1>1 DEF Timer!ThreadTop, FlagsOK, CpuOK
  <2>2. CpuOK'
    BY <1>1 DEF Timer!ThreadTop, CpuOK, NamesOK
  <2>3. NamesOK'
    BY <1>1 DEF Timer!ThreadTop, NamesOK, CpuOK
  <2>4. LockInv'
    BY <1>1 DEF Timer!ThreadTop, LockInv, CpuOK, NamesOK
  <2>5. MaskInv'
    BY <1>1 DEF Timer!ThreadTop, MaskInv, CpuOK, NamesOK
  <2>6. ValueInv'
    BY <1>1 DEF Timer!ThreadTop, ValueInv, LockInv, CpuOK, NamesOK
  <2>7. TimerStopInv'
    BY <1>1 DEF Timer!ThreadTop, TimerStopInv, CpuOK, NamesOK
  <2> QED BY <2>1, <2>2, <2>3, <2>4, <2>5, <2>6, <2>7
<1>2. CASE Timer!ThreadMasks
  <2>1. FlagsOK'
    BY <1>2 DEF Timer!ThreadMasks, FlagsOK, CpuOK, Timer!Preempted, Timer!ThreadMasked
  <2>2. CpuOK'
    BY <1>2 DEF Timer!ThreadMasks, CpuOK, NamesOK, Timer!Preempted, Timer!ThreadMasked
  <2>3. NamesOK'
    BY <1>2 DEF Timer!ThreadMasks, NamesOK, CpuOK, Timer!Preempted, Timer!ThreadMasked
  <2>4. LockInv'
    BY <1>2
      DEF Timer!ThreadMasks, LockInv, CpuOK, NamesOK, Timer!Preempted, Timer!ThreadMasked
  <2>5. MaskInv'
    BY <1>2
      DEF Timer!ThreadMasks, MaskInv, CpuOK, NamesOK, Timer!Preempted, Timer!ThreadMasked
  <2>6. ValueInv'
    BY <1>2
      DEF Timer!ThreadMasks, ValueInv, LockInv, CpuOK, NamesOK, Timer!Preempted,
          Timer!ThreadMasked
  <2>7. TimerStopInv'
    BY <1>2
      DEF Timer!ThreadMasks, TimerStopInv, CpuOK, NamesOK, Timer!Preempted,
          Timer!ThreadMasked
  <2> QED BY <2>1, <2>2, <2>3, <2>4, <2>5, <2>6, <2>7
<1>3. CASE Timer!ThreadLocks
  <2>1. FlagsOK'
    BY <1>3 DEF Timer!ThreadLocks, FlagsOK, CpuOK, Timer!Preempted
  <2>2. CpuOK'
    BY <1>3 DEF Timer!ThreadLocks, CpuOK, NamesOK, Timer!Preempted
  <2>3. NamesOK'
    BY <1>3 DEF Timer!ThreadLocks, NamesOK, CpuOK, Timer!Preempted
  <2>4. LockInv'
    BY <1>3 DEF Timer!ThreadLocks, LockInv, CpuOK, NamesOK, Timer!Preempted
  <2>5. MaskInv'
    BY <1>3 DEF Timer!ThreadLocks, MaskInv, CpuOK, NamesOK, Timer!Preempted
  <2>6. ValueInv'
    BY <1>3 DEF Timer!ThreadLocks, ValueInv, LockInv, CpuOK, NamesOK, Timer!Preempted
  <2>7. TimerStopInv'
    BY <1>3 DEF Timer!ThreadLocks, TimerStopInv, CpuOK, NamesOK, Timer!Preempted
  <2> QED BY <2>1, <2>2, <2>3, <2>4, <2>5, <2>6, <2>7
<1>4. CASE Timer!ThreadSets
  <2>1. FlagsOK'
    BY <1>4 DEF Timer!ThreadSets, FlagsOK, CpuOK, Timer!Preempted
  <2>2. CpuOK'
    BY <1>4 DEF Timer!ThreadSets, CpuOK, NamesOK, Timer!Preempted
  <2>3. NamesOK'
    BY <1>4 DEF Timer!ThreadSets, NamesOK, CpuOK, Timer!Preempted
  <2>4. LockInv'
    BY <1>4 DEF Timer!ThreadSets, LockInv, CpuOK, NamesOK, Timer!Preempted
  <2>5. MaskInv'
    BY <1>4 DEF Timer!ThreadSets, MaskInv, CpuOK, NamesOK, Timer!Preempted
  <2>6. ValueInv'
    BY <1>4 DEF Timer!ThreadSets, ValueInv, LockInv, CpuOK, NamesOK, Timer!Preempted
  <2>7. TimerStopInv'
    BY <1>4 DEF Timer!ThreadSets, TimerStopInv, CpuOK, NamesOK, Timer!Preempted
  <2> QED BY <2>1, <2>2, <2>3, <2>4, <2>5, <2>6, <2>7
<1>5. CASE Timer!ThreadPrints
  <2>1. FlagsOK'
    BY <1>5 DEF Timer!ThreadPrints, FlagsOK, CpuOK, Timer!Preempted
  <2>2. CpuOK'
    BY <1>5 DEF Timer!ThreadPrints, CpuOK, NamesOK, Timer!Preempted
  <2>3. NamesOK'
    BY <1>5 DEF Timer!ThreadPrints, NamesOK, CpuOK, Timer!Preempted
  <2>4. LockInv'
    BY <1>5 DEF Timer!ThreadPrints, LockInv, CpuOK, NamesOK, Timer!Preempted
  <2>5. MaskInv'
    BY <1>5 DEF Timer!ThreadPrints, MaskInv, CpuOK, NamesOK, Timer!Preempted
  <2>6. ValueInv'
    BY <1>5 DEF Timer!ThreadPrints, ValueInv, LockInv, CpuOK, NamesOK, Timer!Preempted
  <2>7. TimerStopInv'
    BY <1>5 DEF Timer!ThreadPrints, TimerStopInv, CpuOK, NamesOK, Timer!Preempted
  <2> QED BY <2>1, <2>2, <2>3, <2>4, <2>5, <2>6, <2>7
<1>6. CASE Timer!ThreadUnlocks
  <2>1. FlagsOK'
    BY <1>6 DEF Timer!ThreadUnlocks, FlagsOK, CpuOK
  <2>2. CpuOK'
    BY <1>6 DEF Timer!ThreadUnlocks, CpuOK, NamesOK
  <2>3. NamesOK'
    BY <1>6 DEF Timer!ThreadUnlocks, NamesOK, CpuOK
  <2>4. LockInv'
    BY <1>6 DEF Timer!ThreadUnlocks, LockInv, CpuOK, NamesOK
  <2>5. MaskInv'
    BY <1>6 DEF Timer!ThreadUnlocks, MaskInv, CpuOK, NamesOK
  <2>6. ValueInv'
    BY <1>6 DEF Timer!ThreadUnlocks, ValueInv, LockInv, CpuOK, NamesOK
  <2>7. TimerStopInv'
    BY <1>6 DEF Timer!ThreadUnlocks, TimerStopInv, CpuOK, NamesOK
  <2> QED BY <2>1, <2>2, <2>3, <2>4, <2>5, <2>6, <2>7
<1>7. CASE Timer!ThreadWakes
  <2>1. FlagsOK'
    BY <1>7 DEF Timer!ThreadWakes, FlagsOK, CpuOK
  <2>2. CpuOK'
    BY <1>7 DEF Timer!ThreadWakes, CpuOK, NamesOK
  <2>3. NamesOK'
    BY <1>7 DEF Timer!ThreadWakes, NamesOK, CpuOK
  <2>4. LockInv'
    BY <1>7 DEF Timer!ThreadWakes, LockInv, CpuOK, NamesOK
  <2>5. MaskInv'
    BY <1>7 DEF Timer!ThreadWakes, MaskInv, CpuOK, NamesOK
  <2>6. ValueInv'
    BY <1>7 DEF Timer!ThreadWakes, ValueInv, LockInv, CpuOK, NamesOK
  <2>7. TimerStopInv'
    BY <1>7 DEF Timer!ThreadWakes, TimerStopInv, CpuOK, NamesOK
  <2> QED BY <2>1, <2>2, <2>3, <2>4, <2>5, <2>6, <2>7
<1> QED BY <1>1, <1>2, <1>3, <1>4, <1>5, <1>6, <1>7 DEF Timer!ThreadStep

\* hello_exit's steps.
LEMMA ExitKeepsTimer ==
    ASSUME None \notin Cpus, TimerInv, Timer!ExitBegins \/ Timer!ExitStep
    PROVE  TimerInv'
<1> USE DEF TimerInv, Timer!HasThread, Timer!callback, Timer!thread
<1>1. CASE Timer!ExitBegins
  <2>1. FlagsOK'
    BY <1>1 DEF Timer!ExitBegins, FlagsOK, CpuOK
  <2>2. CpuOK'
    BY <1>1 DEF Timer!ExitBegins, CpuOK, NamesOK
  <2>3. NamesOK'
    BY <1>1 DEF Timer!ExitBegins, NamesOK, CpuOK
  <2>4. LockInv'
    BY <1>1 DEF Timer!ExitBegins, LockInv, CpuOK, NamesOK
  <2>5. MaskInv'
    BY <1>1 DEF Timer!ExitBegins, MaskInv, CpuOK, NamesOK
  <2>6. ValueInv'
    BY <1>1 DEF Timer!ExitBegins, ValueInv, LockInv, CpuOK, NamesOK
  <2>7. TimerStopInv'
    BY <1>1 DEF Timer!ExitBegins, TimerStopInv, CpuOK, NamesOK
  <2> QED BY <2>1, <2>2, <2>3, <2>4, <2>5, <2>6, <2>7
<1>2. CASE Timer!ThreadStopped
  <2>1. FlagsOK'
    BY <1>2 DEF Timer!ThreadStopped, FlagsOK, CpuOK
  <2>2. CpuOK'
    BY <1>2 DEF Timer!ThreadStopped, CpuOK, NamesOK
  <2>3. NamesOK'
    BY <1>2 DEF Timer!ThreadStopped, NamesOK, CpuOK
  <2>4. LockInv'
    BY <1>2 DEF Timer!ThreadStopped, LockInv, CpuOK, NamesOK
  <2>5. MaskInv'
    BY <1>2 DEF Timer!ThreadStopped, MaskInv, CpuOK, NamesOK
  <2>6. ValueInv'
    BY <1>2 DEF Timer!ThreadStopped, ValueInv, LockInv, CpuOK, NamesOK
  <2>7. TimerStopInv'
    BY <1>2 DEF Timer!ThreadStopped, TimerStopInv, CpuOK, NamesOK
  <2> QED BY <2>1, <2>2, <2>3, <2>4, <2>5, <2>6, <2>7
<1>3. CASE Timer!StopTimer
  <2>1. FlagsOK'
    BY <1>3 DEF Timer!StopTimer, FlagsOK, CpuOK, Timer!WaitsForCallback
  <2>2. CpuOK'
    BY <1>3 DEF Timer!StopTimer, CpuOK, NamesOK, Timer!WaitsForCallback
  <2>3. NamesOK'
    BY <1>3 DEF Timer!StopTimer, NamesOK, CpuOK, Timer!WaitsForCallback
  <2>4. LockInv'
    BY <1>3 DEF Timer!StopTimer, LockInv, CpuOK, NamesOK, Timer!WaitsForCallback
  <2>5. MaskInv'
    BY <1>3 DEF Timer!StopTimer, MaskInv, CpuOK, NamesOK, Timer!WaitsForCallback
  <2>6. ValueInv'
    BY <1>3 DEF Timer!StopTimer, ValueInv, LockInv, CpuOK, NamesOK, Timer!WaitsForCallback
  <2>7. TimerStopInv'
    BY <1>3 DEF Timer!StopTimer, TimerStopInv, CpuOK, NamesOK, Timer!WaitsForCallback
  <2> QED BY <2>1, <2>2, <2>3, <2>4, <2>5, <2>6, <2>7
<1>4. CASE Timer!Gone
  <2>1. FlagsOK'
    BY <1>4 DEF Timer!Gone, FlagsOK, CpuOK
  <2>2. CpuOK'
    BY <1>4 DEF Timer!Gone, CpuOK, NamesOK
  <2>3. NamesOK'
    BY <1>4 DEF Timer!Gone, NamesOK, CpuOK
  <2>4. LockInv'
    BY <1>4 DEF Timer!Gone, LockInv, CpuOK, NamesOK
  <2>5. MaskInv'
    BY <1>4 DEF Timer!Gone, MaskInv, CpuOK, NamesOK
  <2>6. ValueInv'
    BY <1>4 DEF Timer!Gone, ValueInv, LockInv, CpuOK, NamesOK
  <2>7. TimerStopInv'
    BY <1>4 DEF Timer!Gone, TimerStopInv, CpuOK, NamesOK
  <2> QED BY <2>1, <2>2, <2>3, <2>4, <2>5, <2>6, <2>7
<1> QED BY <1>1, <1>2, <1>3, <1>4 DEF Timer!ExitStep

\* The inductive invariant holds in every state.
THEOREM TimerInductive == ASSUME None \notin Cpus PROVE Timer!Spec => []TimerInv
<1>1. TimerInv /\ [Timer!Next]_Timer!vars => TimerInv'
  <2> SUFFICES ASSUME TimerInv, [Timer!Next]_Timer!vars PROVE TimerInv'
    OBVIOUS
  <2>1. CASE Timer!Next
    BY <2>1, CallbackKeepsTimer, ThreadKeepsTimer, ExitKeepsTimer DEF Timer!Next
  <2>2. CASE UNCHANGED Timer!vars
    <3> USE <2>2 DEF TimerInv, Timer!vars, Timer!callback, Timer!thread
    <3>1. FlagsOK'
      BY DEF FlagsOK
    <3>2. CpuOK' /\ NamesOK'
      BY DEF CpuOK, NamesOK
    <3>3. LockInv' /\ MaskInv' /\ ValueInv' /\ TimerStopInv'
      BY DEF LockInv, MaskInv, ValueInv, TimerStopInv, Timer!HasThread
    <3> QED BY <3>1, <3>2, <3>3
  <2> QED BY <2>1, <2>2
<1> QED BY InitTimer, <1>1, PTL DEF Timer!Spec

\* Every variable has its type.
THEOREM TimerTypes == ASSUME None \notin Cpus PROVE Timer!Spec => []Timer!TypeOK
<1>1. TimerInv => Timer!TypeOK
  BY DEF TimerInv, FlagsOK, CpuOK, NamesOK, Timer!TypeOK
<1> QED BY TimerInductive, <1>1, PTL

\* The callback never waits on its own processor for the thread it interrupted, and
\* the thread prints what it stored.
THEOREM LockKeepsApart == ASSUME None \notin Cpus PROVE Timer!Spec => []LockWorks
<1>1. TimerInv => LockWorks
  <2> SUFFICES ASSUME TimerInv PROVE LockWorks
    OBVIOUS
  <2>1. lock = "thread" => masked
    BY DEF TimerInv, LockInv, MaskInv
  <2>2. masked => cpu # home
    BY DEF TimerInv, MaskInv
  <2> QED BY <2>1, <2>2 DEF TimerInv, ValueInv, LockWorks, Timer!LockWorks
<1> QED BY TimerInductive, <1>1, PTL

\* Only a timer whose callback del_timer has overtaken outlives its module.
THEOREM EscapeIsExplained == ASSUME None \notin Cpus PROVE Timer!Spec => []EscapeExplained
<1>1. TimerInv => EscapeExplained
  BY DEF TimerInv, TimerStopInv, EscapeExplained, Timer!EscapeExplained
<1> QED BY TimerInductive, <1>1, PTL

-----------------------------------------------------------------------------
(* The two labs of MCUnloadRaces: in one kernel one of them takes steps. *)

LEMMA LabSteps == [MCNext]_all => [Work!Next]_(Work!vars) /\ [Timer!Next]_(Timer!vars)
  BY
    DEF MCNext, Deferring, Timing, all, w_vars, t_vars, Work!vars, Timer!vars, Timer!callback,
        Timer!thread, Work!work, Work!history

\* Whatever is true of both labs is true of the kernel that has a driver of one of them.
THEOREM BothLabs == MCSpec => Work!Spec /\ Timer!Spec
<1>1. MCInit => Work!Init /\ Timer!Init
  BY DEF MCInit
<1> QED BY <1>1, LabSteps, PTL DEF MCSpec, Work!Spec, Timer!Spec
=============================================================================
