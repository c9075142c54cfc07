----------------------- MODULE SignalRegistration_proofs -----------------------
(***************************************************************************)
(* Proofs about SignalRegistration, for any programs, writers and          *)
(* messages: whom the drivers signal, and what a writer leaves behind.     *)
(***************************************************************************)
EXTENDS SignalRegistration, TLAPS

\* The invariant: the registered task is that of a process that called the ioctl, until such
\* a process has ended, ...
Registrant ==
    ~departed /\ task # NULL => asked[task] /\ process[task] \in {"in_ioctl", "waiting"}

\* ... a program in the ioctl is registered, unless another ioctl overlaps its own, ...
Caller ==
    \A t \in Tasks : InIoctl(t) => /\ asked[t] /\ task # NULL
                                   /\ crossed[t] \/ task = t

\* ... only signal_module.c is written to, and who writes alone is alone, ...
AloneIsAlone ==
    \A w \in Writers : Active(w) =>
        /\ driver # "sec_signal_module"
        /\ message[w].len \in Nat
        /\ message[w].alone => \A v \in Writers \ {w} : ~Active(v)

\* ... and how far the message of such a writer has come: what is left of it is the whole
\* if no write has returned, otherwise less, and then no task was found at the first or
\* the message does not fit the buffer.
InProgress(w) ==
    /\ left[w] \in 1 .. message[w].len
    /\ left[w] < message[w].len => message[w].found = NULL \/ message[w].len >= BUFF_SIZE
    /\ pc[w] \in {"test", "send"} => text = SafeLen(w)
    /\ pc[w] = "send" /\ First(w) => message[w].found # NULL

Arrived(w) ==
    /\ text \in 1 .. message[w].len
    /\ text = message[w].len <=>
          /\ message[w].len < BUFF_SIZE
          /\ message[w].found # NULL \/ message[w].len = 1

Progress ==
    \A w \in Writers : Active(w) /\ message[w].alone =>
        IF pc[w] = "done" THEN Arrived(w) ELSE InProgress(w)

RegistrationInv ==
    TypeOK /\ Registrant /\ Caller /\ AloneIsAlone /\ Progress /\ SelfSignalled

-----------------------------------------------------------------------------
(* Types *)

\* The task of a send is registered, the count of its signals stays within the limit.
LEMMA SendTypes ==
    ASSUME TypeOK, NEW u \in Tasks, NEW ok \in BOOLEAN, Send(u, ok)
    PROVE  /\ signals' \in [Tasks -> 0 .. MaxSignals]
           /\ crash' \in BOOLEAN /\ strays' \in BOOLEAN
BY MaxSignalsAssumption DEF TypeOK, Send, Receives, Room

\* What one writer starts does not change how far the others have come.
LEMMA OpenToWriteTypes ==
    ASSUME TypeOK, NEW w \in Writers, OpenToWrite(w)
    PROVE  TypeOK'
<1>1. PICK n \in Lens :
        /\ left' = [left EXCEPT ![w] = n]
        /\ message' = [v \in Writers |->
              IF v = w THEN [len |-> n, found |-> NULL, alone |-> \A u \in Writers : ~Active(u)]
              ELSE [message[v] EXCEPT !.alone = FALSE]]
  BY DEF OpenToWrite
<1>2. n \in Nat \ {0}
  BY LensAssumption
<1>3. message' \in [Writers -> [len : Nat \cup {NULL}, found : Tasks \cup {NULL},
                               alone : BOOLEAN]]
  <2>1. ASSUME NEW v \in Writers
        PROVE  message'[v] \in [len : Nat \cup {NULL}, found : Tasks \cup {NULL}, alone : BOOLEAN]
    <3>1. (\A u \in Writers : ~Active(u)) \in BOOLEAN
      OBVIOUS
    <3>2. message[v] \in [len : Nat \cup {NULL}, found : Tasks \cup {NULL}, alone : BOOLEAN]
      BY DEF TypeOK
    <3> QED BY <1>1, <1>2, <3>1, <3>2
  <2> QED BY <1>1, <2>1
<1>4. /\ pc' = [pc EXCEPT ![w] = "copy"] /\ pc[w] = "closed"
      /\ UNCHANGED <<driver, task, text, program, crash, asked, departed, strays, crossed, refused>>
  BY DEF OpenToWrite
<1>5. \A v \in Writers : pc'[v] = "send" => task' # NULL
  BY <1>4 DEF TypeOK
<1>6. \A v \in Writers : pc'[v] = "done" <=> (Active(v)' /\ left'[v] = 0)
  BY <1>1, <1>2, <1>4 DEF TypeOK, Active
<1>7. left' \in [Writers -> Nat] /\ pc' \in [Writers -> {"closed", "copy", "test", "send", "done"}]
  BY <1>1, <1>2, <1>4 DEF TypeOK
<1> QED BY <1>3, <1>4, <1>5, <1>6, <1>7 DEF TypeOK, program

\* A rest of at least one byte loses one, or is sent for.
LEMMA TestTypes ==
    ASSUME TypeOK, NEW w \in Writers, Test(w)
    PROVE  TypeOK'
<1>1. /\ pc[w] = "test"
      /\ UNCHANGED <<driver, task, text, program, crash, asked, departed, strays, crossed, refused>>
  BY DEF Test
<1>2. left[w] \in Nat \ {0}
  BY <1>1 DEF TypeOK, Active
<1>3. message' \in [Writers -> [len : Nat \cup {NULL}, found : Tasks \cup {NULL},
                               alone : BOOLEAN]]
  <2>1. ASSUME NEW m \in [len : Nat \cup {NULL}, found : Tasks \cup {NULL}, alone : BOOLEAN]
        PROVE  [m EXCEPT !.found = task]
                 \in [len : Nat \cup {NULL}, found : Tasks \cup {NULL}, alone : BOOLEAN]
    BY DEF TypeOK
  <2>2. message' = [message EXCEPT ![w] = [message[w] EXCEPT !.found = task]] \/ message' = message
    BY DEF Test
  <2> QED BY <2>1, <2>2 DEF TypeOK
<1>4. CASE task # NULL
  <2>1. pc' = [pc EXCEPT ![w] = "send"] /\ left' = left
    BY <1>4 DEF Test
  <2>2. /\ \A v \in Writers : pc'[v] = "send" => task' # NULL
        /\ \A v \in Writers : pc'[v] = "done" <=> (Active(v)' /\ left'[v] = 0)
    BY <1>1, <1>2, <1>4, <2>1 DEF TypeOK, Active
  <2> QED BY <1>1, <1>3, <2>1, <2>2 DEF TypeOK, program
<1>5. CASE task = NULL
  <2>1. /\ left' = [left EXCEPT ![w] = left[w] - 1]
        /\ pc' = [pc EXCEPT ![w] = IF left'[w] = 0 THEN "done" ELSE "copy"]
    BY <1>5 DEF Test, AcceptedWithoutTask
  <2>2. /\ \A v \in Writers : pc'[v] = "send" => task' # NULL
        /\ \A v \in Writers : pc'[v] = "done" <=> (Active(v)' /\ left'[v] = 0)
    BY <1>1, <1>2, <1>5, <2>1 DEF TypeOK, Active
  <2>3. left' \in [Writers -> Nat] /\ pc' \in [Writers -> {"closed", "copy", "test", "send", "done"}]
    BY <1>2, <2>1 DEF TypeOK
  <2> QED BY <1>1, <1>3, <2>2, <2>3 DEF TypeOK, program
<1> QED BY <1>4, <1>5

-----------------------------------------------------------------------------
(* The invariant, action by action *)

\* A process that comes has asked for nothing; the end of one that has is departed.
LEMMA ProcessesKeep ==
    ASSUME RegistrationInv, NEW t \in Tasks, Fork(t) \/ Exit(t) \/ Reap(t)
    PROVE  RegistrationInv'
<1>0. TypeOK'
  <2> USE MaxSignalsAssumption DEF RegistrationInv, TypeOK, program, writer, history, Alive,
          App, InIoctl, Active
  <2>1. CASE Fork(t)
    BY <2>1 DEF Fork
  <2>2. CASE Exit(t)
    BY <2>2 DEF Exit
  <2>3. CASE Reap(t)
    BY <2>3 DEF Reap
  <2> QED BY <2>1, <2>2, <2>3
<1> USE MaxSignalsAssumption DEF RegistrationInv, TypeOK, Fork, Exit, Reap, program, writer,
             history, Alive, App, InIoctl, Active
<1>1. Registrant'
  BY <1>0 DEF Registrant
<1>2. Caller'
  BY <1>0 DEF Caller, Registrant
<1>3. AloneIsAlone'
  BY <1>0 DEF AloneIsAlone
<1>4. Progress'
  BY <1>0 DEF AloneIsAlone, Progress, InProgress, Arrived, First, AtMost, ToCopy, SafeLen
<1>5. SelfSignalled'
  BY <1>0 DEF SelfSignalled, Caller
<1> QED BY <1>0, <1>1, <1>2, <1>3, <1>4, <1>5

\* The handler has run when its signal is no longer pending.
LEMMA ProgramsKeep ==
    ASSUME RegistrationInv, NEW t \in Tasks, OpenDevice(t) \/ Handle(t)
    PROVE  RegistrationInv'
<1>0. TypeOK'
  <2> USE MaxSignalsAssumption DEF RegistrationInv, TypeOK, program, writer, history, Alive,
          App, InIoctl, Active
  <2>1. CASE OpenDevice(t)
    BY <2>1 DEF OpenDevice
  <2>2. CASE Handle(t)
    BY <2>2 DEF Handle
  <2> QED BY <2>1, <2>2
<1> USE MaxSignalsAssumption DEF RegistrationInv, TypeOK, OpenDevice, Handle, program,
             writer, history, Alive, App, InIoctl, Active
<1>1. Registrant'
  BY <1>0 DEF Registrant
<1>2. Caller'
  BY <1>0 DEF Caller, Registrant
<1>3. AloneIsAlone'
  BY <1>0 DEF AloneIsAlone
<1>4. Progress'
  BY <1>0 DEF AloneIsAlone, Progress, InProgress, Arrived, First, AtMost, ToCopy, SafeLen
<1>5. SelfSignalled'
  BY <1>0 DEF SelfSignalled, Caller
<1> QED BY <1>0, <1>1, <1>2, <1>3, <1>4, <1>5

\* The ioctl registers its caller; whoever is in it too has been crossed, and so has the
\* caller.
LEMMA RegisterKeeps ==
    ASSUME RegistrationInv, NEW t \in Tasks, Register(t)
    PROVE  RegistrationInv'
<1>0. TypeOK'
  BY TasksAssumption DEF RegistrationInv, TypeOK, Register, AfterRegister, Registered,
         program, writer, history, Alive, App, InIoctl, Active
<1> USE TasksAssumption DEF RegistrationInv, TypeOK, Register, AfterRegister, Registered,
             program, writer, history, Alive, App, InIoctl, Active
<1>1. Registrant'
  BY <1>0 DEF Registrant
<1>2. Caller'
  BY <1>0 DEF Caller, Registrant
<1>3. AloneIsAlone'
  BY <1>0 DEF AloneIsAlone
<1>4. Progress'
  BY <1>0 DEF AloneIsAlone, Progress, InProgress, Arrived, First, AtMost, ToCopy, SafeLen
<1>5. SelfSignalled'
  BY <1>0 DEF SelfSignalled, Caller
<1> QED BY <1>0, <1>1, <1>2, <1>3, <1>4, <1>5

\* The ioctl sends to its caller, unless another one has crossed it or the kernel refuses.
LEMMA SendAtOnceKeeps ==
    ASSUME RegistrationInv, NEW t \in Tasks, SendAtOnce(t)
    PROVE  RegistrationInv'
<1>1. PICK ok \in BOOLEAN :
        /\ Send(task, ok)
        /\ process' = [process EXCEPT ![t] = "waiting", ![task] =
                         IF task = t THEN "waiting" ELSE After(task, ok)]
        /\ refused' = [refused EXCEPT ![t] = ~ok /\ Receives(task)]
  BY DEF SendAtOnce
<1>2. /\ task \in Tasks /\ InIoctl(t) /\ asked[t] /\ (crossed[t] \/ task = t)
      /\ UNCHANGED <<driver, task, text, got, writer, asked, departed, crossed, message>>
  BY DEF SendAtOnce, RegistrationInv, TypeOK, Caller
<1>3. /\ signals' \in [Tasks -> 0 .. MaxSignals] /\ crash' \in BOOLEAN /\ strays' \in BOOLEAN
      /\ refused' \in [Tasks -> BOOLEAN]
  <2>1. (~ok /\ Receives(task)) \in BOOLEAN
    BY DEF Receives, App
  <2> QED BY <1>1, <1>2, <2>1, SendTypes DEF RegistrationInv, TypeOK
<1>4. process' \in [Tasks -> {"free", "other", "app", "opened", "in_ioctl", "waiting", "zombie"}]
      /\ process'[t] = "waiting"
      /\ \A u \in Tasks \ {t} :
            process'[u] = process[u] \/ (process[u] = "other" /\ process'[u] = "zombie")
  BY <1>1, <1>2 DEF RegistrationInv, TypeOK, After
<1>5. TypeOK'
  BY <1>2, <1>3, <1>4 DEF RegistrationInv, TypeOK, writer, Active
<1>6. Registrant'
  BY <1>2, <1>4 DEF RegistrationInv, Registrant, InIoctl
<1>7. Caller'
  BY <1>2, <1>4 DEF RegistrationInv, Caller, InIoctl
<1>8. AloneIsAlone' /\ Progress'
  BY <1>2 DEF RegistrationInv, AloneIsAlone, Progress, InProgress, Arrived, First, AtMost,
              ToCopy, SafeLen, writer, Active
<1>9. SelfSignalled'
  <2> SUFFICES ASSUME driver = "sec_signal_module", NEW u \in Tasks, process'[u] = "waiting",
                      ~crossed[u], ~refused'[u]
               PROVE  got[u] \/ signals'[u] > 0
    BY <1>2 DEF SelfSignalled
  <2>1. signals'[u] >= signals[u] /\ signals'[u] \in Nat /\ signals[u] \in Nat
    BY <1>1, <1>2, <1>3 DEF RegistrationInv, TypeOK, Send
  <2>2. CASE u = t
    <3>1. task = t /\ App(t) /\ Receives(task)
      BY <1>2, <2>2 DEF App, InIoctl, Receives
    <3>2. ok
      BY <1>1, <2>2, <3>1 DEF RegistrationInv, TypeOK
    <3>3. signals' = [signals EXCEPT ![t] = @ + 1]
      BY <1>1, <3>1, <3>2 DEF Send
    <3> QED BY <2>1, <2>2, <3>3 DEF RegistrationInv, TypeOK
  <2>3. CASE u # t
    <3>1. process[u] = "waiting" /\ refused'[u] = refused[u]
      BY <1>1, <1>4, <2>3 DEF RegistrationInv, TypeOK
    <3> QED BY <2>1, <3>1 DEF RegistrationInv, SelfSignalled
  <2> QED BY <2>2, <2>3
<1> QED BY <1>5, <1>6, <1>7, <1>8, <1>9 DEF RegistrationInv

\* A writer that starts beside others is not alone, and neither are they any more.
LEMMA OpenToWriteKeeps ==
    ASSUME RegistrationInv, NEW w \in Writers, OpenToWrite(w)
    PROVE  RegistrationInv'
<1>0. TypeOK'
  BY OpenToWriteTypes DEF RegistrationInv
<1> USE LensAssumption DEF RegistrationInv, TypeOK, OpenToWrite, program, writer, history,
             Alive, App, InIoctl, Active
<1>1. Registrant'
  BY <1>0 DEF Registrant
<1>2. Caller'
  BY <1>0 DEF Caller, Registrant
<1>3. AloneIsAlone'
  BY <1>0 DEF AloneIsAlone
<1>4. Progress'
  BY <1>0 DEF AloneIsAlone, Progress, InProgress, Arrived, First, AtMost, ToCopy, SafeLen
<1>5. SelfSignalled'
  BY <1>0 DEF SelfSignalled, Caller
<1> QED BY <1>0, <1>1, <1>2, <1>3, <1>4, <1>5

\* A writer that closes leaves nothing behind.
LEMMA ClosedTypes ==
    ASSUME TypeOK, NEW w \in Writers, Closed(w)
    PROVE  /\ pc' \in [Writers -> {"closed", "copy", "test", "send", "done"}]
           /\ left' \in [Writers -> Nat]
           /\ message' \in [Writers -> [len : Nat \cup {NULL}, found : Tasks \cup {NULL},
                                       alone : BOOLEAN]]
           /\ ~Active(w)'
           /\ \A v \in Writers \ {w} : /\ pc'[v] = pc[v] /\ left'[v] = left[v]
                                       /\ message'[v] = message[v] /\ Active(v)' = Active(v)
<1>1. NoLength \in [len : Nat \cup {NULL}, found : Tasks \cup {NULL}, alone : BOOLEAN]
  BY DEF NoLength
<1> QED BY <1>1 DEF TypeOK, Closed, Active

\* The copy leaves in the buffer what is left of the message, as far as it goes.
LEMMA CopyKeeps ==
    ASSUME RegistrationInv, NEW w \in Writers, Copy(w)
    PROVE  RegistrationInv'
<1>1. /\ pc[w] = "copy" /\ text' = SafeLen(w) /\ pc' = [pc EXCEPT ![w] = "test"]
      /\ UNCHANGED <<driver, task, process, signals, got, left, crash, asked, departed, strays,
                     crossed, refused, message>>
  BY DEF Copy, program, history
<1>2. text' \in 0 .. BUFF_SIZE - 1
  BY <1>1, SizeAssumption DEF RegistrationInv, TypeOK, SafeLen, ToCopy, AtMost
<1>3. TypeOK'
  BY <1>1, <1>2 DEF RegistrationInv, TypeOK, Active
<1>4. Registrant' /\ Caller' /\ SelfSignalled'
  BY <1>1 DEF RegistrationInv, Registrant, Caller, SelfSignalled, InIoctl
<1>5. AloneIsAlone'
  BY <1>1 DEF RegistrationInv, TypeOK, AloneIsAlone, Active
<1>6. Progress'
  <2> SUFFICES ASSUME NEW v \in Writers, Active(v)', message[v].alone
               PROVE  IF pc'[v] = "done" THEN Arrived(v)' ELSE InProgress(v)'
    BY <1>1 DEF Progress
  <2>1. v = w
    BY <1>1 DEF RegistrationInv, TypeOK, AloneIsAlone, Active
  <2>2. InProgress(w)
    BY <1>1, <2>1 DEF RegistrationInv, Progress, Active
  <2> QED BY <1>1, <2>1, <2>2 DEF RegistrationInv, TypeOK, InProgress, First, SafeLen, ToCopy
<1> QED BY <1>3, <1>4, <1>5, <1>6 DEF RegistrationInv

\* A writer that leaves was alone, or is nobody's business.
LEMMA ClosingKeeps ==
    ASSUME RegistrationInv, NEW w \in Writers, CopyFaults(w) \/ CloseWriter(w)
    PROVE  RegistrationInv'
<1>1. /\ Active(w) /\ Closed(w)
      /\ text' \in 0 .. BUFF_SIZE - 1
      /\ UNCHANGED <<driver, task, process, signals, got, crash, asked, departed, strays,
                     crossed, refused>>
  BY DEF RegistrationInv, TypeOK, CopyFaults, CloseWriter, program, Active
<1>2. /\ pc' \in [Writers -> {"closed", "copy", "test", "send", "done"}]
      /\ left' \in [Writers -> Nat]
      /\ message' \in [Writers -> [len : Nat \cup {NULL}, found : Tasks \cup {NULL},
                                  alone : BOOLEAN]]
      /\ ~Active(w)'
      /\ \A v \in Writers \ {w} : /\ pc'[v] = pc[v] /\ left'[v] = left[v]
                                  /\ message'[v] = message[v] /\ Active(v)' = Active(v)
  BY <1>1, ClosedTypes DEF RegistrationInv
<1>3. TypeOK'
  BY <1>1, <1>2 DEF RegistrationInv, TypeOK, Active
<1>4. Registrant' /\ Caller' /\ SelfSignalled'
  BY <1>1 DEF RegistrationInv, Registrant, Caller, SelfSignalled, InIoctl
<1>5. AloneIsAlone'
  BY <1>1, <1>2 DEF RegistrationInv, AloneIsAlone
<1>6. Progress'
  <2> SUFFICES ASSUME NEW v \in Writers, Active(v)', message'[v].alone PROVE FALSE
    BY DEF Progress
  <2>1. v # w /\ Active(v) /\ message[v].alone
    BY <1>2
  <2> QED BY <1>1, <2>1 DEF RegistrationInv, AloneIsAlone
<1> QED BY <1>3, <1>4, <1>5, <1>6 DEF RegistrationInv

\* Without a task the rest is one byte shorter, and done when it was the last.
LEMMA TestKeeps ==
    ASSUME RegistrationInv, NEW w \in Writers, Test(w)
    PROVE  RegistrationInv'
<1>1. TypeOK'
  BY TestTypes DEF RegistrationInv
<1>2. /\ pc[w] = "test"
      /\ UNCHANGED <<driver, task, text, process, signals, got, crash, asked, departed, strays,
                     crossed, refused>>
      /\ \A v \in Writers \ {w} :
            pc'[v] = pc[v] /\ left'[v] = left[v] /\ message'[v] = message[v]
      /\ pc'[w] # "closed"
      /\ message'[w].len = message[w].len /\ message'[w].alone = message[w].alone
      /\ message'[w].found = IF First(w) THEN task ELSE message[w].found
  BY DEF RegistrationInv, TypeOK, Test, program
<1>3. Registrant' /\ Caller' /\ SelfSignalled'
  BY <1>2 DEF RegistrationInv, Registrant, Caller, SelfSignalled, InIoctl
<1>4. AloneIsAlone'
  BY <1>2 DEF RegistrationInv, AloneIsAlone, Active
<1>5. Progress'
  <2> SUFFICES ASSUME NEW v \in Writers, Active(v)', message'[v].alone
               PROVE  IF pc'[v] = "done" THEN Arrived(v)' ELSE InProgress(v)'
    BY DEF Progress
  <2>1. v = w
    BY <1>2 DEF RegistrationInv, AloneIsAlone, Active
  <2>2. InProgress(w) /\ message[w].len \in Nat /\ left[w] \in Nat
    BY <1>2, <2>1 DEF RegistrationInv, Progress, AloneIsAlone, Active, TypeOK
  <2>3. CASE task # NULL
    <3>1. pc'[w] = "send" /\ left' = left
      BY <2>3 DEF RegistrationInv, TypeOK, Test
    <3> QED BY <1>2, <2>1, <2>2, <2>3, <3>1 DEF InProgress, First, SafeLen, ToCopy
  <2>4. CASE task = NULL
    <3>1. left'[w] = left[w] - 1 /\ pc'[w] = IF left'[w] = 0 THEN "done" ELSE "copy"
      BY <2>4 DEF RegistrationInv, TypeOK, Test, AcceptedWithoutTask
    <3>2. CASE left[w] = 1
      <4>1. text = 1
        BY <1>2, <2>2, <3>2, SizeAssumption DEF InProgress, SafeLen, ToCopy, AtMost
      <4> QED BY <1>2, <2>1, <2>2, <2>4, <3>1, <3>2, <4>1, SizeAssumption
          DEF InProgress, Arrived, First
    <3>3. CASE left[w] # 1
      BY <1>2, <2>1, <2>2, <2>4, <3>1, <3>3 DEF InProgress, First
    <3> QED BY <3>2, <3>3
  <2> QED BY <2>3, <2>4
<1> QED BY <1>1, <1>3, <1>4, <1>5 DEF RegistrationInv

\* With a task as much of the rest is accepted as went into the buffer.
LEMMA SendToTaskKeeps ==
    ASSUME RegistrationInv, NEW w \in Writers, SendToTask(w)
    PROVE  RegistrationInv'
<1>1. PICK ok \in BOOLEAN :
        Send(task, ok) /\ process' = [process EXCEPT ![task] = After(task, ok)]
  BY DEF SendToTask
<1>2. /\ pc[w] = "send" /\ task \in Tasks /\ driver # "sec_signal_module"
      /\ left' = [left EXCEPT ![w] = left[w] - ToCopy(w)]
      /\ pc' = [pc EXCEPT ![w] = IF left'[w] = 0 THEN "done" ELSE "copy"]
      /\ UNCHANGED <<driver, task, text, got, asked, departed, crossed, refused, message>>
  BY DEF SendToTask, RegistrationInv, TypeOK, AloneIsAlone, Active
<1>3. /\ left[w] \in Nat /\ ToCopy(w) \in 1 .. left[w]
      /\ ToCopy(w) = left[w] \/ (ToCopy(w) = BUFF_SIZE /\ BUFF_SIZE < left[w])
  BY <1>2, SizeAssumption DEF RegistrationInv, TypeOK, Active, ToCopy, AtMost
<1>4. /\ signals' \in [Tasks -> 0 .. MaxSignals] /\ crash' \in BOOLEAN /\ strays' \in BOOLEAN
  BY <1>1, <1>2, SendTypes DEF RegistrationInv
<1>5. process' \in [Tasks -> {"free", "other", "app", "opened", "in_ioctl", "waiting", "zombie"}]
      /\ \A u \in Tasks :
            process'[u] = process[u] \/ (process[u] = "other" /\ process'[u] = "zombie")
  BY <1>1, <1>2 DEF RegistrationInv, TypeOK, After
<1>6. /\ left' \in [Writers -> Nat]
      /\ pc' \in [Writers -> {"closed", "copy", "test", "send", "done"}]
      /\ \A v \in Writers : pc'[v] = "send" => task' # NULL
      /\ \A v \in Writers : pc'[v] = "done" <=> (Active(v)' /\ left'[v] = 0)
  <2>1. left[w] - ToCopy(w) \in Nat
    BY <1>3
  <2> QED BY <1>2, <2>1 DEF RegistrationInv, TypeOK, Active
<1>7. TypeOK'
  BY <1>2, <1>4, <1>5, <1>6 DEF RegistrationInv, TypeOK
<1>8. Registrant' /\ Caller' /\ SelfSignalled'
  BY <1>2, <1>5 DEF RegistrationInv, Registrant, Caller, SelfSignalled, InIoctl
<1>9. AloneIsAlone'
  BY <1>2 DEF RegistrationInv, TypeOK, AloneIsAlone, Active
<1>10. Progress'
  <2> SUFFICES ASSUME NEW v \in Writers, Active(v)', message[v].alone
               PROVE  IF pc'[v] = "done" THEN Arrived(v)' ELSE InProgress(v)'
    BY <1>2 DEF Progress
  <2>1. v = w
    BY <1>2 DEF RegistrationInv, TypeOK, AloneIsAlone, Active
  <2>2. InProgress(w) /\ message[w].len \in Nat
    BY <1>2, <2>1 DEF RegistrationInv, Progress, AloneIsAlone, Active
  <2>3. CASE ToCopy(w) = left[w]
    <3>1. left'[w] = 0 /\ pc'[w] = "done"
      BY <1>2, <1>3, <2>3 DEF RegistrationInv, TypeOK
    <3>2. text = AtMost(left[w], BUFF_SIZE - 1)
      BY <1>2, <2>2, <2>3 DEF InProgress, SafeLen
    <3> QED BY <1>2, <1>3, <2>1, <2>2, <2>3, <3>1, <3>2, SizeAssumption
        DEF InProgress, Arrived, First, AtMost
  <2>4. CASE ToCopy(w) = BUFF_SIZE /\ BUFF_SIZE < left[w]
    <3>1. left'[w] = left[w] - BUFF_SIZE /\ left'[w] \in Nat \ {0} /\ pc'[w] = "copy"
      BY <1>2, <1>3, <2>4, SizeAssumption DEF RegistrationInv, TypeOK
    <3> QED BY <1>2, <1>3, <2>1, <2>2, <2>4, <3>1, SizeAssumption DEF InProgress, First
  <2> QED BY <1>3, <2>3, <2>4
<1> QED BY <1>7, <1>8, <1>9, <1>10 DEF RegistrationInv

\* The driver comes back with nobody in the ioctl or a write.
LEMMA ReloadKeeps ==
    ASSUME RegistrationInv, Reload
    PROVE  RegistrationInv'
<1> USE DEF RegistrationInv, Reload, Unused, NoTask, program, writer, InIoctl, Active
<1>1. TypeOK'
  <2>1. 0 \in 0 .. BUFF_SIZE - 1
    BY SizeAssumption
  <2>2. /\ task' = NULL /\ text' = 0 /\ asked' \in [Tasks -> BOOLEAN]
        /\ \A w \in Writers : pc[w] = "closed"
    BY DEF TypeOK
  <2> QED BY <2>1, <2>2 DEF TypeOK
<1>2. Registrant' /\ Caller'
  BY DEF TypeOK, Registrant, Caller
<1>3. AloneIsAlone' /\ Progress'
  BY DEF TypeOK, AloneIsAlone, Progress
<1>4. SelfSignalled'
  BY DEF TypeOK, SelfSignalled
<1> QED BY <1>1, <1>2, <1>3, <1>4

\* At insmod nobody has asked, writes or waits.
LEMMA InitKeeps == Init => RegistrationInv
<1> SUFFICES ASSUME Init PROVE RegistrationInv
  OBVIOUS
<1> USE DEF Init, NoTask, NoLength, InIoctl, Active
<1>1. TypeOK
  <2>1. message \in [Writers -> [len : Nat \cup {NULL}, found : Tasks \cup {NULL},
                                alone : BOOLEAN]]
    OBVIOUS
  <2>2. /\ \A w \in Writers : pc[w] = "send" => task # NULL
        /\ \A w \in Writers : pc[w] = "done" <=> (Active(w) /\ left[w] = 0)
    OBVIOUS
  <2>3. signals \in [Tasks -> 0 .. MaxSignals]
    BY MaxSignalsAssumption
  <2>4. text \in 0 .. BUFF_SIZE - 1
    BY SizeAssumption
  <2> QED BY <2>1, <2>2, <2>3, <2>4 DEF TypeOK
<1>2. Registrant /\ Caller
  BY DEF Registrant, Caller
<1>3. AloneIsAlone /\ Progress
  BY DEF AloneIsAlone, Progress
<1>4. SelfSignalled
  BY DEF SelfSignalled
<1> QED BY <1>1, <1>2, <1>3, <1>4 DEF RegistrationInv

\* Every step keeps the invariant.
LEMMA StepKeeps == RegistrationInv /\ [Next]_vars => RegistrationInv'
<1> SUFFICES ASSUME RegistrationInv, [Next]_vars PROVE RegistrationInv'
  OBVIOUS
<1>1. ASSUME NEW t \in Tasks,
             \/ Fork(t) \/ Exit(t) \/ Reap(t) \/ OpenDevice(t) \/ Register(t)
             \/ Handle(t) \/ SendAtOnce(t)
      PROVE  RegistrationInv'
  BY <1>1, ProcessesKeep, ProgramsKeep, RegisterKeeps, SendAtOnceKeeps
<1>2. ASSUME NEW w \in Writers, OpenToWrite(w) \/ WriteStep(w) \/ CloseWriter(w)
      PROVE  RegistrationInv'
  BY <1>2, OpenToWriteKeeps, CopyKeeps, ClosingKeeps, TestKeeps, SendToTaskKeeps DEF WriteStep
<1>3. CASE Reload
  BY <1>3, ReloadKeeps
<1>4. CASE UNCHANGED vars
  BY <1>4 DEF vars, program, writer, history, RegistrationInv, TypeOK, Registrant, Caller,
              AloneIsAlone, Progress, InProgress, Arrived, First, AtMost, ToCopy, SafeLen,
              SelfSignalled, InIoctl, Active
<1> QED BY <1>1, <1>2, <1>3, <1>4 DEF Next

\* The invariant holds whatever the programs, the writers and their messages.
THEOREM RegistrationInductive == Spec => []RegistrationInv
<1>1. Init => RegistrationInv
  BY InitKeeps
<1>2. RegistrationInv /\ [Next]_vars => RegistrationInv'
  BY StepKeeps
<1> QED BY <1>1, <1>2, PTL DEF Spec

-----------------------------------------------------------------------------
(* What follows *)

\* Every variable has its type; a write is done when nothing of its message is left.
THEOREM RegistrationTypes == Spec => []TypeOK
<1>1. RegistrationInv => TypeOK
  BY DEF RegistrationInv
<1> QED BY <1>1, RegistrationInductive, PTL

\* A program that asked sec_signal_module.c waits in vain only if another ioctl crossed its
\* own.
THEOREM SelfIsSignalled == Spec => []SelfSignalled
<1>1. RegistrationInv => SelfSignalled
  BY DEF RegistrationInv
<1> QED BY <1>1, RegistrationInductive, PTL

\* A writer alone leaves its message whole in device_buffer exactly if a task was registered
\* at its first write, or if it wrote one byte.
THEOREM MessageIsWhole == Spec => []MessageWhole
<1>1. RegistrationInv => MessageWhole
  BY DEF RegistrationInv, Progress, Arrived, MessageWhole, Active
<1> QED BY <1>1, RegistrationInductive, PTL

\* Only a send reaches a process; one to a process that has not asked, or through a freed
\* task_struct, follows the end of one that had, and with sec_signal_module.c comes from an
\* ioctl that was crossed.
LEMMA SendsExplained ==
    ASSUME RegistrationInv, Next, strays' # strays \/ crash' # crash
    PROVE  /\ departed
           /\ driver = "sec_signal_module" => \E t \in Tasks : InIoctl(t) /\ crossed[t]
<1> USE DEF RegistrationInv
<1>1. \/ \E t \in Tasks : SendAtOnce(t)
      \/ \E w \in Writers : SendToTask(w)
  BY DEF Next, WriteStep, Fork, Exit, Reap, OpenDevice, Register, Handle, OpenToWrite, Copy,
         CopyFaults, Test, CloseWriter, Reload, history
<1>2. ~departed /\ task # NULL => asked[task] /\ process[task] # "free"
  BY DEF Registrant
<1>3. CASE \E t \in Tasks : SendAtOnce(t)
  <2>1. PICK t \in Tasks : SendAtOnce(t)
    BY <1>3
  <2>2. InIoctl(t) /\ task # NULL /\ asked[t] /\ (crossed[t] \/ task = t)
    BY <2>1 DEF SendAtOnce, Caller
  <2>3. ~asked[task] \/ process[task] = "free"
    BY <2>1 DEF SendAtOnce, Send, Alive, TypeOK
  <2>4. task # t
    BY <2>2, <2>3 DEF InIoctl
  <2> QED BY <1>2, <2>2, <2>3, <2>4
<1>4. CASE \E w \in Writers : SendToTask(w)
  <2>1. PICK w \in Writers : SendToTask(w)
    BY <1>4
  <2>2. task # NULL /\ driver # "sec_signal_module"
    BY <2>1 DEF SendToTask, TypeOK, AloneIsAlone, Active
  <2>3. ~asked[task] \/ process[task] = "free"
    BY <2>1 DEF SendToTask, Send, Alive, TypeOK
  <2> QED BY <1>2, <2>2, <2>3
<1> QED BY <1>1, <1>3, <1>4

\* SIGNO strays, or a freed task_struct is used, only after a registered process has ended.
THEOREM StraysAreExplained == Spec => StraysExplained
<1>1. RegistrationInv /\ [Next]_vars =>
        [strays' # strays \/ crash' # crash =>
          /\ departed
          /\ driver = "sec_signal_module" => \E t \in Tasks : InIoctl(t) /\ crossed[t]]_vars
  BY SendsExplained
<1> QED BY <1>1, RegistrationInductive, PTL DEF Spec, StraysExplained
=============================================================================
