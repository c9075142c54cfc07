----------------------------- MODULE DriverLoad -----------------------------
(***************************************************************************)
(* Loading and unloading the drivers of DriverTable in one kernel.  insmod *)
(* runs the init function step by step, any step that may fail may fail,   *)
(* and the goto chains unwind; rmmod runs the exit function.  What a load  *)
(* or an unload leaves registered stays with the kernel and its code is    *)
(* gone.  Drivers meet in the names they register and in the interrupts    *)
(* that arrive while a handler is registered.                              *)
(***************************************************************************)
EXTENDS Integers, DriverTable

CONSTANTS
    Drivers,    \* the drivers of this kernel
    Rivals,     \* those whose insmod and rmmod may run beside each other; any
                \* other runs while no other does
    MaxLoads,   \* bound on the number of insmod
    MaxFaults   \* bound on the number of steps that fail for no other reason

ASSUME DriversAssumption  == Drivers \subseteq DOMAIN Program
ASSUME RivalsAssumption  == Rivals \subseteq Drivers
ASSUME BoundsAssumption   == MaxLoads \in Nat /\ MaxFaults \in Nat

VARIABLES
    phase,   \* "out", "init", "undo", "loaded", "exit" or "stuck" (after an oops)
    step,    \* the next step of the init function
    todo,    \* the releases an unwinding or an exit function has left
    ends,    \* what the unwinding ends in: "out" or "loaded"
    held,    \* what this load has registered
    ptr,     \* the resources whose pointer variable this load has set
    orphans, \* what earlier loads left registered
    panic,   \* a crash in an interrupt handler: the machine has stopped
    loads,   \* number of insmod
    faults,  \* number of spontaneous failures
    failed,  \* history: the kinds of steps that ever failed
    mishap   \* history: "warn", "stale" (use of freed memory) and "oops"

vars == <<phase, step, todo, ends, held, ptr, orphans, panic, loads, faults, failed, mishap>>

Threads == {"thread", "thread1", "thread2"}

\* What a step registers and a release gives back.
Resources ==
    Threads \cup {"region", "cdev", "class", "device", "kobject", "sysfs", "procdir",
                  "x_status", "wait", "value", "threshold", "irq", "wq", "timer", "slab",
                  "misc", "usb", "gpio", "export"}

\* Steps that only test or start something and register nothing.
Tests == {"line", "wake"}

Busy(d) == phase[d] \in {"init", "undo", "exit"}

\* No insmod or rmmod is under way that d's must wait for (a bound).
MayBegin(d) == \A e \in Drivers : Busy(e) => {d, e} \subseteq Rivals

Steps(d) == Program[d].init
Current(d) == Steps(d)[step[d]]

Init ==
    /\ phase = [d \in Drivers |-> "out"]
    /\ step = [d \in Drivers |-> 1]
    /\ todo = [d \in Drivers |-> <<>>]
    /\ ends = [d \in Drivers |-> "out"]
    /\ held = [d \in Drivers |-> {}]
    /\ ptr = [d \in Drivers |-> {}]
    /\ orphans = [d \in Drivers |-> {}]
    /\ panic = FALSE
    /\ loads = 0
    /\ faults = 0
    /\ failed = [d \in Drivers |-> {}]
    /\ mishap = [d \in Drivers |-> {}]

-----------------------------------------------------------------------------
(* The kernel the drivers call *)

\* Everything driver d has registered, by this load or an earlier one.
Registered(d) == held[d] \cup orphans[d]

\* A class, a kobject below /sys/kernel and a /proc directory need a free name.
NameTaken(d, kind) ==
    \/ kind = "class" /\ \E e \in Drivers :
           "class" \in Registered(e) /\ Program[e].class = Program[d].class
    \/ kind = "kobject" /\ \E e \in Drivers :
           "kobject" \in Registered(e) /\ Program[e].kobject = Program[d].kobject
    \/ kind = "procdir" /\ "procdir" \in orphans[d]

\* What a registration is made under.
Parent(kind) ==
    CASE kind = "device" -> {"class"}
      [] kind = "sysfs"  -> {"kobject"}
      [] kind = "wake"   -> {"thread"}
      [] kind = "export" -> {"gpio"}
      [] OTHER           -> {}

\* What goes away with a directory or a kobject.
Below(kind) ==
    CASE kind = "procdir" -> {"x_status", "wait", "value", "threshold"}
      [] kind = "kobject" -> {"sysfs"}
      [] OTHER            -> {}

\* The step is bound to fail.
Doomed(d, kind) == NameTaken(d, kind) \/ ~(Parent(kind) \subseteq held[d])

\* kthread_run and kthread_create report failure by an error pointer, which
\* the test for NULL does not see: the init function goes on.
Seen(kind) == kind \notin Threads

\* A release through a pointer: to nothing or an error, or to freed memory.
ThroughPointer(d, kind) ==
    IF kind \in ptr[d] THEN {{"stale"}, {"stale", "oops"}} ELSE {{"oops"}}

\* The effects a release of something that is not registered may have: none, a
\* warning, an oops, or (for freed memory) anything.  device_destroy looks its
\* class up, and prints the name of one that it does not find.
BadRelease(d, kind) ==
    CASE kind \in Threads -> {{"oops"}}
      [] kind \in {"irq", "misc", "usb", "gpio", "wait", "value", "threshold"} -> {{"warn"}}
      [] kind = "sysfs" /\ "kobject" \notin held[d] ->
             ThroughPointer(d, "kobject")
      [] kind = "device" /\ "class" \notin held[d] -> ThroughPointer(d, "class")
      [] OTHER -> {{}}

\* export_symbol_2 calls a function of export_symbol.
Loadable(d) ==
    d = "export_symbol_2" /\ "export_symbol" \in Drivers => phase["export_symbol"] = "loaded"
Unloadable(d) ==
    d = "export_symbol" /\ "export_symbol_2" \in Drivers => phase["export_symbol_2"] = "out"

-----------------------------------------------------------------------------
(* insmod *)

Insmod(d) ==
    /\ phase[d] = "out"
    /\ loads < MaxLoads
    /\ MayBegin(d)
    /\ Loadable(d)
    /\ loads' = loads + 1
    /\ phase' = [phase EXCEPT ![d] = "init"]
    /\ step' = [step EXCEPT ![d] = 1]
    /\ ptr' = [ptr EXCEPT ![d] = {}]
    /\ UNCHANGED <<todo, ends, held, orphans, panic, faults, failed, mishap>>

\* The current step succeeds.
StepDone(d) ==
    /\ phase[d] = "init"
    /\ step[d] <= Len(Steps(d))
    /\ LET kind == Current(d).get
       IN  /\ ~Doomed(d, kind)
           /\ held' = [held EXCEPT ![d] = @ \cup ({kind} \ Tests)]
           /\ ptr' = [ptr EXCEPT ![d] = @ \cup ({kind} \ Tests)]
    /\ step' = [step EXCEPT ![d] = @ + 1]
    /\ UNCHANGED <<phase, todo, ends, orphans, panic, loads, faults, failed, mishap>>

\* wake_up_process on an error pointer.
StepOopses(d) ==
    /\ phase[d] = "init"
    /\ step[d] <= Len(Steps(d))
    /\ Current(d).get = "wake"
    /\ Doomed(d, "wake")
    /\ phase' = [phase EXCEPT ![d] = "stuck"]
    /\ mishap' = [mishap EXCEPT ![d] = @ \cup {"oops"}]
    /\ UNCHANGED <<step, todo, ends, held, ptr, orphans, panic, loads, faults, failed>>

\* The load is over and the module is freed; what is registered stays.
Leave(d) ==
    /\ phase' = [phase EXCEPT ![d] = "out"]
    /\ orphans' = [orphans EXCEPT ![d] = @ \cup held[d]]
    /\ held' = [held EXCEPT ![d] = {}]

\* What the init function does when the step with this label has failed.
FailureNext(d, label) ==
    CASE label = "ignored" ->
           /\ step' = [step EXCEPT ![d] = @ + 1]
           /\ UNCHANGED <<phase, todo, ends, held, orphans>>
      [] label = "return" ->
           /\ Leave(d)
           /\ UNCHANGED <<step, todo, ends>>
      [] OTHER ->
           /\ phase' = [phase EXCEPT ![d] = "undo"]
           /\ todo' = [todo EXCEPT ![d] = Unwinding(d, label)]
           /\ ends' = [ends EXCEPT ![d] =
                IF d \in DOMAIN KeepsLoaded /\ label \in KeepsLoaded[d] THEN "loaded" ELSE "out"]
           /\ UNCHANGED <<step, held, orphans>>

\* The current step fails, because it must or because memory runs out.
StepFails(d) ==
    /\ phase[d] = "init"
    /\ step[d] <= Len(Steps(d))
    /\ LET kind == Current(d).get
           label == Current(d).err
       IN  /\ kind # "wake"
           /\ \/ Doomed(d, kind) /\ UNCHANGED faults
              \/ /\ ~Doomed(d, kind)
                 /\ label # "never"
                 /\ faults < MaxFaults
                 /\ faults' = faults + 1
           /\ failed' = [failed EXCEPT ![d] = @ \cup {kind}]
           /\ FailureNext(d, IF Seen(kind) THEN label ELSE "ignored")
    /\ UNCHANGED <<ptr, panic, loads, mishap>>

\* return 0
InitReturns(d) ==
    /\ phase[d] = "init"
    /\ step[d] > Len(Steps(d))
    /\ phase' = [phase EXCEPT ![d] = "loaded"]
    /\ UNCHANGED <<step, todo, ends, held, ptr, orphans, panic, loads, faults, failed, mishap>>

-----------------------------------------------------------------------------
(* rmmod, and the releases it shares with the unwinding *)

Rmmod(d) ==
    /\ phase[d] = "loaded"
    /\ MayBegin(d)
    /\ Unloadable(d)
    /\ phase' = [phase EXCEPT ![d] = "exit"]
    /\ todo' = [todo EXCEPT ![d] = Program[d].exit]
    /\ ends' = [ends EXCEPT ![d] = "out"]
    /\ UNCHANGED <<step, held, ptr, orphans, panic, loads, faults, failed, mishap>>

\* The next release.
Release(d) ==
    /\ phase[d] \in {"undo", "exit"}
    /\ todo[d] # <<>>
    /\ LET kind == Head(todo[d])
       IN  \/ /\ kind \in held[d]
              /\ held' = [held EXCEPT ![d] = @ \ ({kind} \cup Below(kind))]
              /\ todo' = [todo EXCEPT ![d] = Tail(@)]
              /\ UNCHANGED <<phase, mishap>>
           \/ /\ kind \notin held[d]
              /\ \E effect \in BadRelease(d, kind) :
                   /\ mishap' = [mishap EXCEPT ![d] = @ \cup effect]
                   /\ phase' = [phase EXCEPT ![d] = IF "oops" \in effect THEN "stuck" ELSE @]
              /\ todo' = [todo EXCEPT ![d] = Tail(@)]
              /\ UNCHANGED held
    /\ UNCHANGED <<step, ends, ptr, orphans, panic, loads, faults, failed>>

ReleasesDone(d) ==
    /\ phase[d] \in {"undo", "exit"}
    /\ todo[d] = <<>>
    /\ \/ ends[d] = "out" /\ Leave(d)
       \/ /\ ends[d] = "loaded"
          /\ phase' = [phase EXCEPT ![d] = "loaded"]
          /\ UNCHANGED <<held, orphans>>
    /\ UNCHANGED <<step, todo, ends, ptr, panic, loads, faults, failed, mishap>>

\* An interrupt on a line whose handler belongs to d crashes when the handler's
\* code is gone or what it relies on is not there.
Interrupt(d) ==
    /\ \/ "irq" \in orphans[d]
       \/ "irq" \in held[d] /\ ~(Program[d].uses \subseteq held[d])
    /\ panic' = TRUE
    /\ UNCHANGED <<phase, step, todo, ends, held, ptr, orphans, loads, faults, failed, mishap>>

-----------------------------------------------------------------------------
Next ==
    /\ ~panic
    /\ \E d \in Drivers :
         \/ Insmod(d)
         \/ StepDone(d)
         \/ StepOopses(d)
         \/ StepFails(d)
         \/ InitReturns(d)
         \/ Rmmod(d)
         \/ Release(d)
         \/ ReleasesDone(d)
         \/ Interrupt(d)

Spec == Init /\ [][Next]_vars

-----------------------------------------------------------------------------
(* Properties *)

\* Every variable has its type.
TypeOK ==
    /\ phase \in [Drivers -> {"out", "init", "undo", "loaded", "exit", "stuck"}]
    /\ step \in [Drivers -> Nat]
    /\ \A d \in Drivers : step[d] \in 1 .. Len(Steps(d)) + 1
    /\ todo \in [Drivers -> Seq(Resources)]
    /\ ends \in [Drivers -> {"out", "loaded"}]
    /\ held \in [Drivers -> SUBSET Resources]
    /\ ptr \in [Drivers -> SUBSET Resources]
    /\ orphans \in [Drivers -> SUBSET Resources]
    /\ panic \in BOOLEAN
    /\ loads \in 0 .. MaxLoads
    /\ faults \in 0 .. MaxFaults
    /\ failed \in [Drivers -> SUBSET (Resources \cup Tests)]
    /\ mishap \in [Drivers -> SUBSET {"warn", "stale", "oops"}]

\* What the exit functions forget: ioctl.c its cdev, sysfs_module.c the
\* kobject and its file; the wait-queue and completion drivers tell their
\* thread to end without waiting for it.
Forgotten(d) ==
    CASE d = "ioctl"        -> {"cdev"}
      [] d = "sysfs_module" -> {"kobject", "sysfs"}
      [] d \in {"wait_queue_module", "completion_module"} -> {"thread"}
      [] OTHER              -> {}

\* A driver none of whose steps ever failed comes and goes without leaving
\* anything registered but what its exit function forgets, and without a
\* release the kernel complains about (but for the line gpio.c gives back
\* twice), whatever fails in the drivers around it.
CleanCycle ==
    \A d \in Drivers : failed[d] = {} =>
        /\ orphans[d] \subseteq Forgotten(d)
        /\ mishap[d] \subseteq (IF d = "gpio" THEN {"warn"} ELSE {})

\* The drivers whose label r_device, if they have one, does more than to destroy
\* the class.
LongUnwinding ==
    {"device_driver", "ioctl", "kmalloc", "vmalloc", "custom_slab_cache", "sysfs_module", "gpio"}

\* What the unwinding leaves when F, some of the first four steps, have failed.
LeftRegistered(d, F) ==
    {r \in {"region", "cdev"} :
        \/ d = "custom_slab_cache" /\ r = "region" /\ "cdev" \in F
        \/ d = "ioctl" /\ r = "cdev" /\ F \cap {"class", "device"} # {}
        \/ d \notin LongUnwinding /\ "device" \in F}

\* A region, a cdev or a class that could not be had, a refused class name
\* included, is unwound completely, but that custom_slab_cache.c returns from a
\* failed cdev_add with its region, and that r_class of ioctl.c, where a failed
\* class_create goes, keeps the cdev.  A device node that could not be made
\* leaves cdev and region behind in the drivers whose r_device is the last
\* label (own_workqueues.c:224), and never the class.  device_driver.c, which
\* returns 1, stays loaded with all of it or with nothing.  A class name stays
\* taken by a driver that is gone, so that no driver of that class loads again
\* before a reboot, only after a failure past device_create.
EarlyFailureUnwinds ==
    \A d \in Drivers :
        /\ failed[d] \subseteq {"region", "cdev", "class", "device"} =>
             orphans[d] \subseteq Forgotten(d) \cup LeftRegistered(d, failed[d])
        /\ d = "device_driver" /\ phase[d] = "loaded" =>
             held[d] \in {{}, {"region", "class", "device"}}
        /\ "class" \in orphans[d] =>
             failed[d] \cap {"kobject", "sysfs", "irq", "wq", "procdir"} # {}

\* What makes the exit function of a driver go through a bad pointer: a thread
\* that was not created (the error pointer passes the test for NULL), a
\* /sys/kernel/test_file or /proc/tempwatch that could not be made, a class
\* that kmalloc.c, vmalloc.c and custom_slab_cache.c do not look at, or a
\* device_driver.c that stayed loaded without its class.
PointerLost(d) ==
    \/ failed[d] \cap (Threads \cup {"kobject", "procdir"}) # {}
    \/ d \in {"kmalloc", "vmalloc", "custom_slab_cache"} /\ "class" \in failed[d]
    \/ d = "device_driver" /\ failed[d] \cap {"region", "class"} # {}

\* Freed memory is used only by sysfs_module.c, which removes the file of a
\* kobject it has just put, and by device_driver.c, which stays loaded without
\* its device and gives its class back twice.  An insmod or rmmod crashes only
\* there or through a lost pointer.  An interrupt crashes the machine only in
\* own_workqueues.c and linked_list.c: between request_irq and alloc_workqueue,
\* between destroy_workqueue and free_irq, or after alloc_workqueue failed and
\* the handler stayed behind.
CrashExplained ==
    /\ \A d \in Drivers :
         /\ "stale" \in mishap[d] =>
              \/ d = "sysfs_module" /\ "sysfs" \in failed[d]
              \/ d = "device_driver" /\ "device" \in failed[d]
         /\ "oops" \in mishap[d] => PointerLost(d) \/ "stale" \in mishap[d]
    /\ panic =>
         \E d \in Drivers \cap {"own_workqueues", "linked_list"} :
            \/ "irq" \in held[d] /\ "wq" \notin held[d] /\ phase[d] \in {"init", "exit"}
            \/ "irq" \in orphans[d] /\ "wq" \in failed[d]
=============================================================================
