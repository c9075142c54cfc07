------------------------------ MODULE Usb_proofs ------------------------------
(***************************************************************************)
(* Proofs about the two drivers of k_usb_module-26, for every number of    *)
(* calls of queue_command: what usbv1.c answers, forgets and leaves behind *)
(* (UsbStorage), and what usb.c's work item can reach after usb_disconnect *)
(* (UsbOneShot).                                                           *)
(***************************************************************************)
EXTENDS MCUsb, TLAPS

\* The parts of TypeOK.
HeldType ==
    held \subseteq Allocations \cup {"data_buffer", "coherent_buffer", "old_data_buffer"}
FlagTypes ==
    /\ active \in BOOLEAN /\ filled \subseteq {"sec", "csw"} /\ locked \in BOOLEAN
    /\ done \in BOOLEAN /\ known \in BOOLEAN
HandlerTypes ==
    /\ handler \in {"none", "length", "direction", "count", "data", "csw", "fake", "status",
                    "clear"}
    /\ context \in Urbs /\ answered \in BOOLEAN
TransferTypes ==
    /\ flight \subseteq Urbs
    /\ serial \in [Urbs -> 0..MaxIssues] /\ own \in 0..MaxIssues
    /\ stale \in BOOLEAN
    /\ left \subseteq {"handler", "reset", "abort", "check", "sense", "again"}
PhaseTypes ==
    /\ phase \in {"new", "bound", "flushing", "removing", "gone"}
    /\ mid \in {"idle", "ready", "begun", "answered", "sent", "kill_cbw", "kill_csw",
                "kill_data", "aborted", "reset", "resetting", "between", "offline"}
    /\ level \in {"none", "device", "bus", "host"}
    /\ oops \in {"none", "no_command", "no_scatterlist", "no_status_buffer", "sleeps"}
CommandTypes ==
    /\ shape \in {"none", "in", "out"} /\ count \in 0..1
    /\ opcode \in [{"cbw", "sec"} -> Opcodes \cup {"none"}]
    /\ place \in {"copy", "fill", "submit"}
    /\ command \in Kinds /\ timeouts \in 0..1
    /\ issues \in 0..MaxIssues

\* cbw_callback on its way to the next transfer, and a handler whose answer is to come.
GoingOn == {"length", "direction", "count", "data", "csw"}
Owing == handler \in GoingOn /\ ~answered

\* active_scmd is NULL under a transfer, a handler at work, or a call of queue_command
\* only after a device reset, or csw_callback, cleared it.
ActiveKept ==
    flight # {} \/ handler \notin {"none", "clear"} \/ mid \in {"begun", "answered"}
        => active \/ left \cap {"handler", "reset"} # {}

OrphanInv == ActiveKept /\ OrphanExplained

\* bufferlength and direction are those of the command that is out.
ShapeKept == mid \in {"begun", "answered", "sent"} => shape = Shape(Kind)

\* The second buffer was skipped: count became 1 when the CBW was in the first.
Skipped == count = 1 /\ opcode["sec"] = "none"

\* The second CBW is used when count is 1, and what queue_command copies is where
\* count says - or count has changed since.
CopyKept ==
    /\ count = 0 => "sec" \notin filled /\ opcode["sec"] = "none"
    /\ place # "copy" => mid \in {"begun", "answered"}
    /\ mid \in {"begun", "answered"} /\ place \in {"fill", "submit"} =>
         opcode[Cbw] = Opcode(Kind) \/ Skipped

\* A transfer or a handler that will answer the midlayer's command.
Answers(u) ==
    \/ u \in {"data", "csw"}
    \/ opcode[u] \in {"inquiry", "sense"}
    \/ opcode[u] = "other" /\ shape # "in"
WillAnswer ==
    \/ \E u \in flight : Answers(u)
    \/ /\ Owing
       /\ \/ handler = "length" /\ shape # "in"
          \/ handler = "direction" /\ shape = "out"
          \/ handler \in {"data", "csw"}

\* A command that is out will be answered, but for the one that reads and the one whose
\* CBW was skipped; the error handler's has a transfer until it is answered.
Awaited ==
    Running /\ mid = "sent" =>
        IF ErrorHandling THEN done \/ flight # {}
        ELSE command = "in" \/ WillAnswer \/ ("sec" \in filled /\ opcode["sec"] = "none")

ForgetInv == ShapeKept /\ CopyKept /\ Awaited

\* An earlier trouble that StaleAnswerExplained names.
Troubled == left \cap {"again", "sense", "abort", "check"} # {}

\* Where the handlers and the error handler are.
PlaceInv ==
    /\ handler \in {"fake", "status", "clear"} => answered
    /\ handler \in GoingOn => context \in {"cbw", "sec"}
    /\ mid \in {"reset", "resetting", "between"} => ErrorHandling

\* Outside error handling, without such trouble, ...
FlightInv ==
    \* ... there is one transfer in flight, or one handler that owes an answer, ...
    /\ \A u, v \in flight : u = v
    /\ Owing => flight = {}
    \* ... none when the midlayer has no command out, ...
    /\ mid \in {"idle", "ready", "begun", "aborted"} => flight = {} /\ ~Owing
    /\ mid # "answered"
    \* ... what eh_abort has not come to yet while it kills, ...
    /\ mid = "kill_cbw" => "sec" \notin flight /\ (Owing => context = "cbw")
    /\ mid = "kill_csw" => flight \subseteq {"csw", "data"} /\ ~Owing
    /\ mid = "kill_data" => flight \subseteq {"data"} /\ ~Owing
    \* ... and it is the current call's.
    /\ mid = "sent" => (\A u \in flight : serial[u] = issues) /\ (Owing => own = issues)

Quiet == ~Troubled /\ ~ErrorHandling /\ mid # "offline"

\* An answer to another call was given by trouble.
Blamed == stale => Troubled

StaleInv == PlaceInv /\ Blamed /\ (Quiet => FlightInv)

\* Nothing is submitted once the USB core has flushed the endpoints, and the midlayer
\* rests when the host is gone.
GoneInv ==
    /\ phase \in {"new", "removing", "gone"} => flight = {}
    /\ phase = "new" => mid = "idle"
    /\ phase = "gone" => mid \in {"idle", "offline"}
    /\ LeftBehind

StorageInv == TypeOK /\ OrphanInv /\ ForgetInv /\ StaleInv /\ GoneInv

\* The steps of Next, grouped.
QueueStep ==
    \/ NewCommand \/ QueueBegins \/ QueueNoMemory \/ QueueCopies \/ QueueFills
    \/ QueueSubmits \/ QueueFails \/ GivesUp
CbwStep(u) ==
    \/ HandlerCrashes(u) \/ HandlerCrashes("data") \/ CbwError(u) \/ BadSignature(u)
    \/ Inquiry(u) \/ CbwArrives(u)
OtherStep ==
    \/ DataArrives \/ DataError \/ DataErrorEnds
    \/ CswArrives \/ CswError \/ CswErrorEnds \/ Clear
HandlerStep(u) == CbwStep(u) \/ CbwEnds \/ OtherStep
ErrorStep ==
    \/ Timeout \/ AbortKills \/ AbortReturns \/ DeviceReset \/ PreReset \/ PostReset
    \/ TriesAgain \/ StopsTrying \/ Checked
DeviceStep == Probe \/ Unplugged \/ Flushed \/ Disconnect

-----------------------------------------------------------------------------
(* The operators of the model. *)

\* Shape, its CASE taken apart.
LEMMA ShapeIs ==
    ASSUME NEW kind
    PROVE  /\ kind = "tur" => Shape(kind) = "none"
           /\ kind = "out" => Shape(kind) = "out"
           /\ kind \notin {"tur", "out"} => Shape(kind) = "in"
           /\ Shape(kind) \in {"none", "in", "out"}
  BY Zenon DEF Shape

\* Opcode, its range.
LEMMA OpcodeIs == ASSUME NEW kind PROVE Opcode(kind) \in Opcodes
  BY DEF Opcode, Opcodes

\* What scsi_done may change for whomever it is called.
ScsiStep ==
    /\ UNCHANGED <<command, timeouts, level, issues>>
    /\ \/ mid' = mid
       \/ mid = "begun" /\ mid' = "answered"
       \/ mid = "sent" /\ mid' \in {"idle", "ready"}
    /\ done' \in BOOLEAN /\ known' \in BOOLEAN /\ stale' \in BOOLEAN
    /\ left' \in {left, left \cup {"again"}}

\* What it does for a handler of u.
AnswerGiven(u) ==
    /\ ScsiStep
    /\ done' = (done \/ ErrorHandling)
    /\ IF ~ErrorHandling /\ mid \in {"begun", "sent"}
       THEN /\ mid = "begun" => mid' = "answered"
            /\ mid = "sent" => mid' \in {"idle", "ready"}
            /\ answered => "again" \in left'
            /\ stale' => stale \/ Served(u) # issues
       ELSE mid' = mid /\ left' = left /\ (stale' => stale)

\* Answer, its CASEs taken apart.
LEMMA AnswerIs ==
    ASSUME TypeOK, NEW u \in Urbs, NEW good \in BOOLEAN, Answer(u, good)
    PROVE  AnswerGiven(u)
<1> DEFINE counts == ~ErrorHandling /\ mid \in {"begun", "sent"}
<1>0. /\ UNCHANGED <<command, timeouts, level, issues>>
      /\ known' = (known \/ (counts /\ good /\ command = "inquiry"))
      /\ done' = (done \/ ErrorHandling)
      /\ stale' = (stale \/ (counts /\ Served(u) # issues))
  BY Zenon DEF Answer
<1>1. mid' \in CASE counts /\ mid = "begun" -> {"answered"}
                 [] counts /\ mid = "sent" -> IF good THEN {"idle"} ELSE {"idle", "ready"}
                 [] OTHER -> {mid}
  BY Zenon DEF Answer
<1>2. left' = IF counts /\ answered THEN left \cup {"again"} ELSE left
  BY Zenon DEF Answer
<1>3. counts /\ mid = "begun" => mid' = "answered"
  BY Zenon, <1>1
<1>4. counts /\ mid = "sent" => mid' \in IF good THEN {"idle"} ELSE {"idle", "ready"}
  <2>1. SUFFICES ASSUME counts, mid = "sent"
                 PROVE  mid' \in IF good THEN {"idle"} ELSE {"idle", "ready"}
    OBVIOUS
  <2>2. mid # "begun"
    BY <2>1
  <2> HIDE DEF counts
  <2> QED BY Zenon, <1>1, <2>1, <2>2
<1>5. ~counts => mid' = mid
  BY Zenon, <1>1
<1>6. done' \in BOOLEAN /\ known' \in BOOLEAN /\ stale' \in BOOLEAN
  BY <1>0 DEF TypeOK, ErrorHandling
<1>7. ScsiStep
  BY <1>0, <1>2, <1>3, <1>4, <1>5, <1>6 DEF ScsiStep
<1> QED BY <1>0, <1>2, <1>3, <1>4, <1>5, <1>7 DEF AnswerGiven

\* No call of scsi_done changes nothing.
LEMMA NoAnswerIs == ASSUME TypeOK, NoAnswer PROVE ScsiStep
  BY DEF TypeOK, NoAnswer, ScsiStep, scsi, history

\* What a failed recovery leads to, its CASE taken apart.
LEMMA EscalatesTo ==
    ASSUME Escalates, level \in {"none", "device", "bus", "host"}
    PROVE  /\ level' \in {"none", "bus", "host"}
           /\ mid' = IF level = "host" THEN "offline" ELSE "reset"
           /\ level \in {"device", "bus"} => level' # "none"
<1>1. level' = CASE level = "device" -> "bus" [] level = "bus" -> "host" [] OTHER -> "none"
  BY Zenon DEF Escalates
<1>2. level = "device" => level' = "bus"
  BY Zenon, <1>1
<1>3. level = "bus" => level' = "host"
  BY Zenon, <1>1
<1>4. level \notin {"device", "bus"} => level' = "none"
  BY Zenon, <1>1
<1> QED BY <1>2, <1>3, <1>4 DEF Escalates

\* The kills of eh_abort, in their order, its CASE taken apart.
LEMMA KillsTo ==
    ASSUME AbortKills
    PROVE  /\ \/ /\ mid = "kill_cbw" /\ mid' = "kill_csw" /\ "cbw" \notin flight
                 /\ (handler # "none" => context # "cbw")
              \/ mid = "kill_csw" /\ mid' = "kill_data" /\ "csw" \notin flight
              \/ mid = "kill_data" /\ mid' = "aborted" /\ "data" \notin flight
           /\ oops = "none"
           /\ UNCHANGED <<phase, held, drv, locked, urbs, callback, command, timeouts,
                         level, done, known, issues, history, oops>>
<1>1. mid = "kill_cbw" => Killed(mid) = "cbw"
  BY Zenon DEF Killed
<1>2. mid = "kill_csw" => Killed(mid) = "csw"
  BY Zenon DEF Killed
<1>3. mid = "kill_data" => Killed(mid) = "data"
  BY Zenon DEF Killed
<1>4. mid' = CASE mid = "kill_cbw" -> "kill_csw" [] mid = "kill_csw" -> "kill_data"
                [] OTHER -> "aborted"
  BY Zenon DEF AbortKills
<1>5. mid = "kill_cbw" => mid' = "kill_csw"
  BY Zenon, <1>4
<1>6. mid = "kill_csw" => mid' = "kill_data"
  BY Zenon, <1>4
<1>7. mid = "kill_data" => mid' = "aborted"
  BY Zenon, <1>4
<1>8. /\ mid \in {"kill_cbw", "kill_csw", "kill_data"}
      /\ Killed(mid) \notin flight /\ (handler # "none" => context # Killed(mid))
      /\ oops = "none"
      /\ UNCHANGED <<phase, held, drv, locked, urbs, callback, command, timeouts,
                    level, done, known, issues, history, oops>>
  BY Zenon DEF AbortKills, Killing, Waited, Running
<1>9. CASE mid = "kill_cbw"
  BY <1>1, <1>5, <1>8, <1>9
<1>10. CASE mid = "kill_csw"
  BY <1>2, <1>6, <1>8, <1>10
<1>11. CASE mid = "kill_data"
  BY <1>3, <1>7, <1>8, <1>11
<1> QED BY Zenon, <1>8, <1>9, <1>10, <1>11

\* deallocate_usb_resource releases both pairs and the data buffer.
LEMMA DeallocatedIs ==
    ASSUME NEW h
    PROVE  /\ Deallocated(h) \subseteq h
           /\ Deallocated(h) \cap (Pairs \cup {"data_buffer"}) = {}
  BY DEF Deallocated, Pairs

\* What a failed probe keeps was allocated; without the host it keeps no pair.
LEMMA FailedProbe ==
    ASSUME NEW i \in DOMAIN Acquired
    PROVE  /\ AfterFailure(i) \subseteq Allocations
           /\ "host" \notin AfterFailure(i) =>
                AfterFailure(i) \cap (Pairs \cup {"data_buffer"}) = {}
<1> DEFINE before == {Acquired[j] : j \in 1..(i - 1)} \ {"endpoints"}
<1>1. i \in 1..11
  BY DEF Acquired
<1>2. before \subseteq Allocations
  <2>1. Acquired[10] = "endpoints"
    BY DEF Acquired
  <2>2. \A j \in 1..(i - 1) : j \in 1..9 \/ j = 10
    BY <1>1
  <2> QED BY <2>1, <2>2 DEF Allocations
<1>3. i # 1 => "host" \in before
  <2>1. Acquired[1] = "host"
    BY DEF Acquired
  <2> QED BY <1>1, <2>1
<1>4. AfterFailure(i) =
        IF Acquired[i] \in {"cbw_buffer", "sec_buffer", "csw_buffer"}
        THEN before \ {Acquired[i - 1]}
        ELSE IF Acquired[i] = "add_host" THEN Deallocated(before) \ {"host"} ELSE before
  <2> HIDE DEF before
  <2>1. AfterFailure(i) =
          CASE Acquired[i] \in {"cbw_buffer", "sec_buffer", "csw_buffer"} ->
                 before \ {Acquired[i - 1]}
            [] Acquired[i] = "add_host" -> Deallocated(before) \ {"host"}
            [] OTHER -> before
    BY Zenon DEF AfterFailure, before
  <2>2. Acquired[i] = "add_host" =>
          Acquired[i] \notin {"cbw_buffer", "sec_buffer", "csw_buffer"}
    OBVIOUS
  <2> QED BY Zenon, <2>1, <2>2
<1>5. Acquired[i] \in {"cbw_buffer", "sec_buffer", "csw_buffer"} =>
        Acquired[i - 1] # "host" /\ i # 1
  <2>1. \A j \in 2..10 : Acquired[j] # "host"
    BY DEF Acquired
  <2>2. Acquired[1] = "host" /\ Acquired[2] = "usb_device"
    BY DEF Acquired
  <2>3. i \notin {1, 2} => i - 1 \in 2..10
    BY <1>1
  <2> QED BY <2>1, <2>2, <2>3
<1>6. i = 1 => before = {} /\ Acquired[i] = "host"
  BY DEF Acquired
<1> HIDE DEF before
<1> QED BY <1>2, <1>3, <1>4, <1>5, <1>6, DeallocatedIs

\* A transfer given back by usb_kill_urb or by the USB core completes like any other.
LEMMA GivenBack ==
    ASSUME TypeOK, Kills \/ ResetFlushes \/ UnplugFlushes
    PROVE  Callback
<1>1. PICK u \in Urbs : Fails(u)
  <2>1. CASE Kills
    <3>1. Killed(mid) \in Urbs /\ Fails(Killed(mid))
      BY <2>1 DEF Kills, TypeOK
    <3> QED BY <3>1
  <2>2. CASE ResetFlushes
    BY <2>2 DEF ResetFlushes, TypeOK
  <2>3. CASE UnplugFlushes
    BY <2>3 DEF UnplugFlushes, TypeOK
  <2> QED BY <2>1, <2>2, <2>3
<1>2. CASE u \in {"cbw", "sec"}
  <2>1. HandlerCrashes(u) \/ CbwError(u)
    BY Zenon, <1>1, <1>2 DEF Fails
  <2> QED BY <1>2, <2>1 DEF Callback, CbwCallback
<1>3. CASE u = "data"
  <2>1. HandlerCrashes(u) \/ DataError
    BY <1>1, <1>3 DEF Fails
  <2> QED BY <1>3, <2>1 DEF Callback
<1>4. CASE u = "csw"
  <2>1. CswError
    BY <1>1, <1>4 DEF Fails
  <2> QED BY <2>1 DEF Callback
<1> QED BY <1>2, <1>3, <1>4 DEF Urbs

\* Every step of the model is one of the four kinds.
LEMMA StepKinds ==
    ASSUME TypeOK, Next
    PROVE  \/ QueueStep \/ ErrorStep \/ DeviceStep
           \/ \E u \in {"cbw", "sec"} : HandlerStep(u)
<1>1. Callback => \E u \in {"cbw", "sec"} : HandlerStep(u)
  BY DEF Callback, CbwCallback, HandlerStep, CbwStep, OtherStep
<1>2. HandlerEnds => \E u \in {"cbw", "sec"} : HandlerStep(u)
  BY DEF HandlerEnds, HandlerStep, OtherStep
<1> QED BY <1>1, <1>2, GivenBack DEF Next, Midlayer, QueueStep, ErrorStep, DeviceStep

\* The rest of the state that a handler leaves to the others.
Left ==
    /\ UNCHANGED <<phase, held, shape, opcode, place, locked>>
    /\ active' \in {active, FALSE} /\ count' \in {count, 1}
    /\ filled' \in {filled, filled \cup {"csw"}}
    /\ oops' \in {oops, "no_command", "no_scatterlist", "no_status_buffer", "sleeps"}

\* A transfer is taken out of flight, or one is submitted.
Moved ==
    \/ UNCHANGED <<flight, serial>>
    \/ \E x \in flight : handler = "none" /\ Completed(x)
    \/ /\ phase = "bound" /\ handler \in {"data", "csw"}
       /\ flight' = flight \cup {handler}
       /\ serial' = [serial EXCEPT ![handler] = own]

\* What every step of a handler has in common,
HandlerEffect ==
    /\ Left /\ Moved
    /\ \/ ScsiStep
       \/ /\ UNCHANGED <<scsi, stale>>
          /\ left' \in {left, left \cup {"sense"}, left \cup {"handler"}}
    /\ handler' \in {"none", "length", "direction", "count", "data", "csw", "fake", "status",
                     "clear"}
    /\ context' \in Urbs /\ answered' \in BOOLEAN /\ own' \in 0..MaxIssues
    /\ handler' \in {"fake", "status", "clear"} => answered'
    /\ handler' \in GoingOn => context' \in {"cbw", "sec"}

\* what FakeStatus does,
LEMMA FakeStatusIs ==
    ASSUME TypeOK, PlaceInv, NEW u \in Urbs, FakeStatus(u),
           handler = "none" \/ handler \notin GoingOn
    PROVE  /\ oops' \in {oops, "no_command", "no_status_buffer"}
           /\ ScsiStep
           /\ handler' \in {handler, "clear"}
           /\ context' \in Urbs /\ answered' \in BOOLEAN /\ own' \in 0..MaxIssues
           /\ handler' \in {"fake", "status", "clear"} => answered'
           /\ \/ AnswerGiven(u) /\ handler' = "clear" /\ answered' = TRUE /\ oops' = oops
              \/ NoAnswer /\ UNCHANGED callback /\ oops' # "none"
<1>1. CASE active /\ "csw" \in filled
  <2>1. /\ Answer(u, TRUE) /\ handler' = "clear" /\ context' = u /\ own' = Served(u)
        /\ answered' = TRUE /\ oops' = oops
    BY <1>1 DEF FakeStatus, GoesOn
  <2>2. AnswerGiven(u)
    BY <2>1, AnswerIs
  <2>3. Served(u) \in 0..MaxIssues
    BY DEF Served, TypeOK
  <2> QED BY <2>1, <2>2, <2>3 DEF AnswerGiven
<1>2. CASE ~(active /\ "csw" \in filled)
  <2>1. /\ oops' \in {"no_command", "no_status_buffer"}
        /\ NoAnswer /\ UNCHANGED callback
    BY <1>2 DEF FakeStatus
  <2> QED BY <2>1, NoAnswerIs DEF callback, TypeOK, PlaceInv
<1> QED BY <1>1, <1>2

\* what csw_callback does from its test of the signature on,
LEMMA StatusIs ==
    ASSUME TypeOK, PlaceInv, NEW u \in Urbs, Status(u),
           handler = "none" \/ handler \notin GoingOn
    PROVE  /\ oops' \in {oops, "no_command"}
           /\ ScsiStep
           /\ handler' \in {handler, "none", "clear"}
           /\ context' \in Urbs /\ answered' \in BOOLEAN /\ own' \in 0..MaxIssues
           /\ handler' \in {"fake", "status", "clear"} => answered'
           /\ \/ AnswerGiven(u) /\ handler' \in {"none", "clear"} /\ oops' = oops
              \/ NoAnswer /\ UNCHANGED callback /\ oops' # "none"
<1>1. CASE Answer(u, TRUE) /\ GoesOn("clear", u) /\ answered' = TRUE /\ UNCHANGED oops
  <2>1. AnswerGiven(u)
    BY <1>1, AnswerIs
  <2>2. Served(u) \in 0..MaxIssues
    BY DEF Served, TypeOK
  <2> QED BY <1>1, <2>1, <2>2 DEF AnswerGiven, GoesOn
<1>2. CASE Answer(u, FALSE) /\ Returns /\ UNCHANGED oops
  <2>1. AnswerGiven(u)
    BY <1>2, AnswerIs
  <2>2. ScsiStep
    BY <2>1 DEF AnswerGiven
  <2>3. 0 \in 0..MaxIssues /\ "cbw" \in Urbs
    BY MaxIssuesAssumption DEF Urbs
  <2>4. /\ handler' = "none" /\ context' = "cbw" /\ answered' = FALSE /\ own' = 0
        /\ oops' = oops
    BY <1>2 DEF Returns
  <2> QED BY <2>1, <2>2, <2>3, <2>4
<1>3. CASE oops' = "no_command" /\ NoAnswer /\ UNCHANGED callback
  BY <1>3, NoAnswerIs DEF callback, TypeOK, PlaceInv
<1> QED BY <1>1, <1>2, <1>3 DEF Status

\* what cbw_callback and data_callback do with a transfer that arrives,
LEMMA CbwStepEffect ==
    ASSUME TypeOK, PlaceInv, NEW u \in {"cbw", "sec"}, CbwStep(u)
    PROVE  HandlerEffect
<1>0. u \in Urbs /\ "data" \in Urbs
  BY DEF Urbs
<1> USE DEF Arrives, Completes
<1>1. CASE HandlerCrashes(u) \/ HandlerCrashes("data")
  <2>1. /\ UNCHANGED <<phase, held, drv, locked, urbs, callback, scsi, history>>
        /\ oops' \in {"no_command", "no_scatterlist"}
    BY <1>1 DEF HandlerCrashes, Crash
  <2>2. Left /\ Moved /\ ScsiStep
    BY <2>1 DEF Left, Moved, ScsiStep, TypeOK, drv, urbs, scsi, history
  <2> QED BY <2>1, <2>2 DEF HandlerEffect, callback, TypeOK, PlaceInv
<1>2. CASE CbwError(u)
  <2>1. /\ UNCHANGED <<phase, held, drv, locked, callback>> /\ oops' \in {oops, "sleeps"}
        /\ handler = "none" /\ u \in flight /\ Completed(u)
    BY <1>2 DEF CbwError
  <2>2. ScsiStep
    BY <1>0, <1>2, AnswerIs, NoAnswerIs DEF CbwError, AnswerGiven
  <2>3. Left /\ Moved
    BY <2>1 DEF Left, Moved, drv
  <2> QED BY <2>1, <2>2, <2>3 DEF HandlerEffect, callback, TypeOK, PlaceInv
<1>3. CASE BadSignature(u)
  <2>1. /\ UNCHANGED <<phase, held, drv, locked, callback, oops>> /\ NoAnswer
        /\ handler = "none" /\ u \in flight /\ Completed(u)
    BY <1>3 DEF BadSignature, NoAnswer
  <2>2. Left /\ Moved
    BY <2>1 DEF Left, Moved, drv
  <2> QED BY <2>1, <2>2, NoAnswerIs DEF HandlerEffect, callback, TypeOK, PlaceInv
<1>4. CASE Inquiry(u)
  <2>1. /\ UNCHANGED <<phase, held, drv, locked>> /\ FakeStatus(u)
        /\ handler = "none" /\ u \in flight /\ Completed(u)
    BY <1>4 DEF Inquiry
  <2>2. Left /\ Moved
    BY <1>0, <2>1, FakeStatusIs DEF Left, Moved, drv
  <2> QED BY <1>0, <2>1, <2>2, FakeStatusIs DEF HandlerEffect, GoingOn
<1>5. CASE CbwArrives(u)
  <2>1. /\ UNCHANGED <<phase, held, drv, locked, oops>>
        /\ handler = "none" /\ u \in flight /\ Completed(u)
        /\ handler' = "length" /\ context' = u /\ own' = serial[u]
        /\ answered' \in BOOLEAN
    BY <1>5 DEF CbwArrives, GoesOn, Served
  <2>2. ScsiStep
    BY <1>0, <1>5, AnswerIs, NoAnswerIs DEF CbwArrives, AnswerGiven
  <2>3. Left /\ Moved /\ own' \in 0..MaxIssues
    BY <1>0, <2>1 DEF Left, Moved, drv, TypeOK
  <2> QED BY <1>0, <2>1, <2>2, <2>3 DEF HandlerEffect
<1> QED BY <1>1, <1>2, <1>3, <1>4, <1>5 DEF CbwStep

\* the way of cbw_callback to the next transfer,
LEMMA SubmitOrAnswerIs ==
    ASSUME TypeOK, PlaceInv, NEW v \in {"data", "csw"}, handler = v, SubmitOrAnswer(v)
    PROVE  /\ oops' \in {oops, "no_command"}
           /\ Moved
           /\ \/ /\ v \in flight' /\ flight' = flight \cup {v}
                 /\ serial' = [serial EXCEPT ![v] = own]
                 /\ left' = IF answered THEN left \cup {"sense"} ELSE left
                 /\ UNCHANGED <<scsi, stale, oops>>
              \/ AnswerGiven(context) /\ UNCHANGED <<urbs, oops>>
              \/ NoAnswer /\ UNCHANGED urbs /\ oops' # "none"
<1>1. CASE Answer(context, FALSE) /\ UNCHANGED <<urbs, oops>>
  <2>1. AnswerGiven(context)
    BY <1>1, AnswerIs DEF TypeOK
  <2> QED BY <1>1, <2>1 DEF Moved, urbs
<1>2. CASE oops' = "no_command" /\ NoAnswer /\ UNCHANGED urbs
  BY <1>2 DEF Moved, urbs
<1>3. CASE /\ CanSubmit(v)
           /\ flight' = flight \cup {v}
           /\ serial' = [serial EXCEPT ![v] = own]
           /\ left' = IF answered THEN left \cup {"sense"} ELSE left
           /\ UNCHANGED <<scsi, stale, oops>>
  BY <1>3 DEF Moved, CanSubmit
<1> QED BY <1>1, <1>2, <1>3 DEF SubmitOrAnswer

LEMMA CbwEndsEffect == ASSUME TypeOK, PlaceInv, CbwEnds PROVE HandlerEffect
<1>0. 0 \in 0..MaxIssues /\ "cbw" \in Urbs
  BY MaxIssuesAssumption DEF Urbs
<1>1. ASSUME TestsLength \/ TestsDirection \/ ReadPhase PROVE HandlerEffect
  <2>1. Left /\ Moved /\ UNCHANGED <<scsi, stale, left>>
    BY <1>1
      DEF TestsLength, TestsDirection, ReadPhase, Left, Moved, drv, urbs, history
  <2>2. CASE TestsLength
    <3>1. /\ handler = "length" /\ handler' \in {"csw", "direction"}
          /\ UNCHANGED <<context, answered, own>>
      BY <2>2 DEF TestsLength
    <3> QED BY <2>1, <3>1 DEF HandlerEffect, TypeOK, PlaceInv, GoingOn
  <2>3. CASE Returns
    BY <1>0, <2>1, <2>3 DEF HandlerEffect, Returns, GoingOn
  <2>4. CASE TestsDirection /\ ~Returns
    <3>1. /\ handler = "direction" /\ handler' \in {"count", "data"}
          /\ UNCHANGED <<context, answered, own>>
      BY <2>4 DEF TestsDirection
    <3> QED BY <2>1, <3>1 DEF HandlerEffect, TypeOK, PlaceInv, GoingOn
  <2> QED BY <1>1, <2>2, <2>3, <2>4 DEF ReadPhase
<1>2. ASSUME StatusPhase \/ WritePhase PROVE HandlerEffect
  <2>1. PICK v \in {"data", "csw"} : handler = v /\ SubmitOrAnswer(v)
    BY <1>2 DEF StatusPhase, WritePhase
  <2>2. /\ Returns /\ UNCHANGED <<phase, held, active, shape, count, opcode, place, locked>>
        /\ filled' \in {filled, filled \cup {"csw"}}
    BY <1>2 DEF StatusPhase, WritePhase, drv
  <2>3. Left /\ Moved
    BY <2>1, <2>2, SubmitOrAnswerIs DEF Left
  <2>4. \/ ScsiStep
        \/ UNCHANGED <<scsi, stale>> /\ left' \in {left, left \cup {"sense"}}
    BY <2>1, SubmitOrAnswerIs, NoAnswerIs DEF AnswerGiven
  <2> QED BY <1>0, <2>2, <2>3, <2>4 DEF HandlerEffect, Returns, GoingOn
<1> QED BY <1>1, <1>2 DEF CbwEnds

\* and the rest of data_callback and csw_callback.
LEMMA OtherStepEffect == ASSUME TypeOK, PlaceInv, OtherStep PROVE HandlerEffect
<1>0. /\ "data" \in Urbs /\ "csw" \in Urbs /\ "cbw" \in Urbs /\ context \in Urbs
      /\ 0 \in 0..MaxIssues
  BY MaxIssuesAssumption DEF Urbs, TypeOK
<1> USE DEF Arrives, Completes
<1>1. CASE DataArrives
  <2>1. /\ UNCHANGED <<phase, held, drv, locked>> /\ FakeStatus("data")
        /\ handler = "none" /\ "data" \in flight /\ Completed("data")
    BY <1>1 DEF DataArrives
  <2>2. Left /\ Moved
    BY <1>0, <2>1, FakeStatusIs DEF Left, Moved, drv
  <2> QED BY <1>0, <2>1, <2>2, FakeStatusIs DEF HandlerEffect, GoingOn
<1>2. CASE DataError
  <2>1. /\ UNCHANGED <<phase, held, drv, locked, oops>>
        /\ handler = "none" /\ "data" \in flight /\ Completed("data")
        /\ handler' = "fake" /\ context' = "data" /\ own' = serial["data"] /\ answered' = TRUE
        /\ Answer("data", FALSE)
    BY <1>2 DEF DataError, GoesOn, Served
  <2>2. ScsiStep
    BY <1>0, <2>1, AnswerIs DEF AnswerGiven
  <2>3. Left /\ Moved /\ own' \in 0..MaxIssues
    BY <1>0, <2>1 DEF Left, Moved, drv, TypeOK
  <2> QED BY <1>0, <2>1, <2>2, <2>3 DEF HandlerEffect, GoingOn
<1>3. CASE DataErrorEnds
  <2>1. /\ UNCHANGED <<phase, held, drv, locked, urbs>> /\ FakeStatus(context)
        /\ handler = "fake"
    BY <1>3 DEF DataErrorEnds
  <2>2. Left /\ Moved
    BY <1>0, <2>1, FakeStatusIs DEF Left, Moved, drv, urbs, GoingOn
  <2> QED BY <1>0, <2>1, <2>2, FakeStatusIs DEF HandlerEffect, GoingOn
<1>4. CASE CswArrives
  <2>1. /\ UNCHANGED <<phase, held, drv, locked>> /\ Status("csw")
        /\ handler = "none" /\ "csw" \in flight /\ Completed("csw")
    BY <1>4 DEF CswArrives
  <2>2. Left /\ Moved
    BY <1>0, <2>1, StatusIs DEF Left, Moved, drv
  <2> QED BY <1>0, <2>1, <2>2, StatusIs DEF HandlerEffect, GoingOn
<1>5. CASE CswError /\ active
  <2>1. /\ UNCHANGED <<phase, held, drv, locked, oops>>
        /\ handler = "none" /\ "csw" \in flight /\ Completed("csw")
        /\ handler' = "status" /\ context' = "csw" /\ own' = serial["csw"] /\ answered' = TRUE
        /\ Answer("csw", FALSE)
    BY <1>5 DEF CswError, GoesOn, Served
  <2>2. ScsiStep
    BY <1>0, <2>1, AnswerIs DEF AnswerGiven
  <2>3. Left /\ Moved /\ own' \in 0..MaxIssues
    BY <1>0, <2>1 DEF Left, Moved, drv, TypeOK
  <2> QED BY <1>0, <2>1, <2>2, <2>3 DEF HandlerEffect, GoingOn
<1>6. CASE CswError /\ ~active
  <2>1. /\ UNCHANGED <<phase, held, drv, locked, urbs, callback, scsi, history>>
        /\ oops' = "no_command"
    BY <1>6 DEF CswError, Crash
  <2>2. Left /\ Moved /\ ScsiStep
    BY <2>1 DEF Left, Moved, ScsiStep, TypeOK, drv, urbs, scsi, history
  <2> QED BY <2>1, <2>2 DEF HandlerEffect, callback, TypeOK, PlaceInv
<1>7. CASE CswErrorEnds
  <2>1. /\ UNCHANGED <<phase, held, drv, locked, urbs>> /\ Status(context)
        /\ handler = "status"
    BY <1>7 DEF CswErrorEnds
  <2>2. Left /\ Moved
    BY <1>0, <2>1, StatusIs DEF Left, Moved, drv, urbs, GoingOn
  <2> QED BY <1>0, <2>1, <2>2, StatusIs DEF HandlerEffect, GoingOn
<1>8. CASE Clear
  <2>1. /\ UNCHANGED <<scsi, stale>> /\ left' \in {left, left \cup {"handler"}}
        /\ Returns /\ Left /\ Moved
    BY <1>8 DEF Clear, Left, Moved, urbs
  <2> QED BY <1>0, <2>1 DEF HandlerEffect, Returns, GoingOn
<1> QED BY <1>1, <1>2, <1>3, <1>4, <1>5, <1>6, <1>7, <1>8 DEF OtherStep

LEMMA HandlerEffects ==
    ASSUME TypeOK, PlaceInv, NEW u \in {"cbw", "sec"}, HandlerStep(u)
    PROVE  HandlerEffect
  BY CbwStepEffect, CbwEndsEffect, OtherStepEffect DEF HandlerStep

-----------------------------------------------------------------------------
(* Types *)

\* The parts of TypeOK, together.
LEMMA TypeParts ==
    /\ TypeOK <=> /\ HeldType /\ FlagTypes /\ HandlerTypes /\ TransferTypes /\ PhaseTypes
                  /\ CommandTypes
    /\ TypeOK' <=> /\ HeldType' /\ FlagTypes' /\ HandlerTypes' /\ TransferTypes' /\ PhaseTypes'
                   /\ CommandTypes'
<1>1. TypeOK <=> /\ HeldType /\ FlagTypes /\ HandlerTypes /\ TransferTypes /\ PhaseTypes
                 /\ CommandTypes
  BY Zenon DEF TypeOK, HeldType, FlagTypes, HandlerTypes, TransferTypes, PhaseTypes,
     CommandTypes
<1>2. TypeOK' <=> /\ HeldType' /\ FlagTypes' /\ HandlerTypes' /\ TransferTypes' /\ PhaseTypes'
                  /\ CommandTypes'
  BY Zenon DEF TypeOK, HeldType, FlagTypes, HandlerTypes, TransferTypes, PhaseTypes,
     CommandTypes
<1> QED BY <1>1, <1>2

\* queue_command and the midlayer's calls of it keep the types.
LEMMA QueueKeepsTypes == ASSUME TypeOK, QueueStep PROVE TypeOK'
<1> USE DEF drv, urbs, callback, scsi, history
<1>1. HeldType'
  BY DEF TypeOK, HeldType, QueueStep, NewCommand, QueueBegins, QueueNoMemory, QueueCopies,
     QueueFills, QueueSubmits, QueueFails, GivesUp
<1>2. FlagTypes'
  BY DEF TypeOK, FlagTypes, QueueStep, NewCommand, QueueBegins, QueueNoMemory, QueueCopies,
     QueueFills, Cbw, QueueSubmits, QueueFails, GivesUp, ErrorHandling
<1>3. HandlerTypes'
  BY DEF TypeOK, HandlerTypes, QueueStep, NewCommand, QueueBegins, QueueNoMemory,
     QueueCopies, QueueFills, QueueSubmits, QueueFails, GivesUp
<1>4. TransferTypes'
  <2>1. CASE QueueSubmits
    BY <2>1 DEF TypeOK, TransferTypes, QueueSubmits, Submitted, Cbw, Urbs
  <2>2. CASE ~QueueSubmits
    BY <2>2 DEF TypeOK, TransferTypes, QueueStep, NewCommand, QueueBegins, QueueNoMemory,
       QueueCopies, QueueFills, QueueFails, GivesUp
  <2> QED BY <2>1, <2>2
<1>5. PhaseTypes'
  BY DEF TypeOK, PhaseTypes, QueueStep, NewCommand, QueueBegins, QueueNoMemory,
     QueueCopies, QueueFills, QueueSubmits, QueueFails, GivesUp
<1>6. CommandTypes'
  <2> USE DEF TypeOK, CommandTypes
  <2>1. CASE NewCommand \/ GivesUp
    BY <2>1 DEF NewCommand, GivesUp, Kinds
  <2>2. CASE QueueBegins
    BY <2>2, ShapeIs, MaxIssuesAssumption DEF QueueBegins
  <2>3. CASE QueueNoMemory
    BY <2>3, ShapeIs, MaxIssuesAssumption DEF QueueNoMemory
  <2>4. CASE QueueCopies
    BY <2>4, OpcodeIs DEF QueueCopies
  <2>5. CASE QueueFills \/ QueueSubmits \/ QueueFails
    BY <2>5 DEF QueueFills, QueueSubmits, QueueFails
  <2> QED BY <2>1, <2>2, <2>3, <2>4, <2>5 DEF QueueStep
<1> QED BY <1>1, <1>2, <1>3, <1>4, <1>5, <1>6, TypeParts

\* So do the completion handlers,
LEMMA HandlerKeepsTypes ==
    ASSUME TypeOK, HandlerEffect
    PROVE  TypeOK'
<1>1. HeldType' /\ HandlerTypes'
  BY DEF TypeOK, HeldType, HandlerTypes, HandlerEffect, Left
<1>2. left' \subseteq {"handler", "reset", "abort", "check", "sense", "again"} /\ stale' \in BOOLEAN
  BY DEF TypeOK, HandlerEffect, ScsiStep
<1>3. FlagTypes'
  BY DEF TypeOK, FlagTypes, HandlerEffect, Left, ScsiStep, scsi
<1>4. TransferTypes'
  <2>1. flight' \subseteq Urbs /\ serial' \in [Urbs -> 0..MaxIssues]
    <3>1. 0 \in 0..MaxIssues
      BY MaxIssuesAssumption
    <3>2. CASE UNCHANGED <<flight, serial>>
      BY <3>2 DEF TypeOK
    <3>3. CASE \E x \in flight : Completed(x)
      BY <3>1, <3>3 DEF Completed, TypeOK
    <3>4. CASE /\ handler \in {"data", "csw"} /\ flight' = flight \cup {handler}
               /\ serial' = [serial EXCEPT ![handler] = own]
      BY <3>4 DEF TypeOK, Urbs
    <3> QED BY <3>2, <3>3, <3>4 DEF HandlerEffect, Moved
  <2> QED BY <1>2, <2>1 DEF HandlerEffect, TransferTypes
<1>5. PhaseTypes'
  BY DEF TypeOK, PhaseTypes, HandlerEffect, Left, ScsiStep, scsi
<1>6. CommandTypes'
  BY DEF TypeOK, CommandTypes, HandlerEffect, Left, ScsiStep, scsi
<1> QED BY <1>1, <1>3, <1>4, <1>5, <1>6, TypeParts

\* the error handler,
LEMMA ErrorKeepsTypes == ASSUME TypeOK, ErrorStep PROVE TypeOK'
<1> USE DEF ErrorStep, AbortReturns, DeviceReset, PreReset, PostReset, Unlocked, Recovered,
        TriesAgain, StopsTrying, Checked, Timeout, drv, urbs, callback, scsi, history
<1>1. HeldType'
  BY KillsTo DEF TypeOK, HeldType
<1>2. FlagTypes'
  BY KillsTo DEF TypeOK, FlagTypes
<1>3. HandlerTypes'
  BY KillsTo DEF TypeOK, HandlerTypes
<1>4. TransferTypes'
  BY KillsTo DEF TypeOK, TransferTypes
<1>5. PhaseTypes'
  BY KillsTo, EscalatesTo DEF TypeOK, PhaseTypes
<1>6. CommandTypes'
  BY KillsTo DEF TypeOK, CommandTypes
<1> QED BY <1>1, <1>2, <1>3, <1>4, <1>5, <1>6, TypeParts

\* and probing, unplugging and disconnecting.
LEMMA DeviceKeepsTypes == ASSUME TypeOK, DeviceStep PROVE TypeOK'
<1>1. HeldType'
  BY FailedProbe, DeallocatedIs
    DEF DeviceStep, Probe, Unplugged, Flushed, Disconnect, TypeOK, HeldType
<1>2. UNCHANGED <<drv, locked, urbs, callback, scsi, history, oops>>
  BY DEF DeviceStep, Probe, Unplugged, Flushed, Disconnect
<1>3. FlagTypes' /\ HandlerTypes'
  BY <1>2 DEF TypeOK, FlagTypes, HandlerTypes, drv, callback, scsi
<1>4. TransferTypes'
  BY <1>2 DEF TypeOK, TransferTypes, urbs, callback, history
<1>5. phase' \in {"new", "bound", "flushing", "removing", "gone"}
  BY DEF DeviceStep, Probe, Unplugged, Flushed, Disconnect
<1>6. PhaseTypes' /\ CommandTypes'
  BY <1>2, <1>5 DEF TypeOK, PhaseTypes, CommandTypes, drv, scsi
<1> QED BY <1>1, <1>3, <1>4, <1>6, TypeParts

-----------------------------------------------------------------------------
(* active_scmd *)

\* queue_command sets active_scmd before it submits.
LEMMA QueueKeepsOrphan == ASSUME TypeOK, OrphanInv, QueueStep PROVE OrphanInv'
  BY DEF OrphanInv, ActiveKept, OrphanExplained, TypeOK, QueueStep, NewCommand, QueueBegins,
     QueueNoMemory, Queueing, QueueCopies, QueueFills, QueueSubmits, QueueFails, GivesUp, drv,
     urbs, callback, scsi, history

\* A handler that clears it under a transfer is in left, and only where it is NULL does
\* a handler find no command.
LEMMA HandlerKeepsOrphan ==
    ASSUME TypeOK, PlaceInv, OrphanInv, NEW u \in {"cbw", "sec"}, HandlerStep(u)
    PROVE  OrphanInv'
<1>1. HandlerEffect
  BY HandlerEffects
<1>2. left \cap {"handler", "reset"} \subseteq left'
  BY <1>1 DEF HandlerEffect, ScsiStep
<1>3. oops' = "no_command" => oops = "no_command" \/ ~active
  BY DEF HandlerStep, CbwStep, CbwEnds, OtherStep, HandlerCrashes, Crash, CbwError, NoAnswer,
     BadSignature, Inquiry, CbwArrives, TestsLength, TestsDirection, StatusPhase, ReadPhase,
     WritePhase, SubmitOrAnswer, DataArrives, DataError, DataErrorEnds, FakeStatus,
     CswArrives, CswError, CswErrorEnds, Status, Clear
<1>4. ~active /\ oops' = "no_command" => oops = "no_command" \/ flight # {}
                                        \/ handler \notin {"none", "clear"}
  BY DEF HandlerStep, CbwStep, CbwEnds, OtherStep, HandlerCrashes, Completes, Arrives,
     Crash, CbwError, BadSignature, Inquiry, CbwArrives, TestsLength, TestsDirection,
     StatusPhase, ReadPhase, WritePhase, DataArrives, DataError, DataErrorEnds, CswArrives,
     CswError, CswErrorEnds, Clear
<1>5. OrphanExplained'
  BY <1>2, <1>3, <1>4 DEF OrphanInv, ActiveKept, OrphanExplained
<1>6. CASE Clear
  BY <1>5, <1>6 DEF Clear, Returns, OrphanInv, ActiveKept, scsi, urbs
<1>7. CASE ~Clear
  <2>1. active' = active
    BY <1>7 DEF HandlerStep, CbwStep, CbwEnds, OtherStep, HandlerCrashes, Crash, CbwError,
       BadSignature, Inquiry, CbwArrives, TestsLength, TestsDirection, StatusPhase,
       ReadPhase, WritePhase, DataArrives, DataError, DataErrorEnds, CswArrives, CswError,
       CswErrorEnds, drv
  <2>2. flight' # {} => flight # {} \/ handler \in {"data", "csw"}
    BY <1>1 DEF HandlerEffect, Moved, Completed
  <2>3. mid' \in {"begun", "answered"} => mid \in {"begun", "answered"}
    BY <1>1 DEF HandlerEffect, ScsiStep, scsi
  <2>4. handler' \notin {"none", "clear"} => handler \notin {"none", "clear"} \/ flight # {}
    BY <1>7 DEF HandlerStep, CbwStep, CbwEnds, OtherStep, HandlerCrashes, Completes, Arrives,
       Crash, CbwError, BadSignature, Inquiry, CbwArrives, TestsLength, TestsDirection,
       StatusPhase, ReadPhase, WritePhase, Returns, DataArrives, DataError, DataErrorEnds,
       CswArrives, CswError, CswErrorEnds, callback
  <2> QED BY <1>2, <1>5, <2>1, <2>2, <2>3, <2>4 DEF OrphanInv, ActiveKept
<1> QED BY <1>6, <1>7

\* So is a device reset that does; eh_abort has killed the transfers before it does.
LEMMA ErrorKeepsOrphan == ASSUME TypeOK, OrphanInv, ErrorStep PROVE OrphanInv'
<1> USE
  DEF OrphanInv, ActiveKept, OrphanExplained, TypeOK, drv, urbs, callback, scsi, history
<1>1. CASE Timeout
  BY <1>1 DEF Timeout
<1>2. CASE AbortKills
  BY <1>2, KillsTo
<1>3. CASE DeviceReset \/ PostReset
  BY <1>3, EscalatesTo DEF DeviceReset, PostReset, Recovered
<1>4. CASE AbortReturns \/ StopsTrying \/ Checked
  BY <1>4, EscalatesTo DEF AbortReturns, StopsTrying, Checked
<1>5. CASE PreReset \/ TriesAgain
  BY <1>5 DEF PreReset, TriesAgain
<1> QED BY <1>1, <1>2, <1>3, <1>4, <1>5 DEF ErrorStep

\* Nothing else clears it.
LEMMA DeviceKeepsOrphan == ASSUME TypeOK, OrphanInv, DeviceStep PROVE OrphanInv'
  BY DEF OrphanInv, ActiveKept, OrphanExplained, DeviceStep, Probe, Unplugged, Flushed,
     Disconnect, drv, urbs, callback, scsi, history

-----------------------------------------------------------------------------
(* A command that is out *)

\* queue_command sets shape and writes the CBW, and submits or fails.
LEMMA QueueKeepsForget == ASSUME TypeOK, ForgetInv, QueueStep PROVE ForgetInv'
<1> USE DEF ForgetInv, TypeOK, Kind, Checking, ErrorHandling, Running,
        drv, urbs, callback, scsi, history
<1>1. CASE NewCommand \/ GivesUp
  BY <1>1 DEF NewCommand, GivesUp, ShapeKept, CopyKept, Awaited
<1>2. CASE QueueBegins
  <2>1. ShapeKept'
    BY <1>2 DEF QueueBegins, ShapeKept
  <2>2. CopyKept' /\ Awaited'
    BY <1>2 DEF QueueBegins, CopyKept, Awaited, Skipped, Cbw
  <2> QED BY <2>1, <2>2
<1>3. CASE QueueNoMemory
  BY <1>3 DEF QueueNoMemory, ShapeKept, CopyKept, Awaited
<1>4. CASE QueueCopies
  <2>1. ShapeKept' /\ Awaited'
    BY <1>4 DEF Queueing, QueueCopies, ShapeKept, Awaited
  <2>2. CopyKept'
    BY <1>4 DEF Queueing, QueueCopies, CopyKept, Cbw
  <2> QED BY <2>1, <2>2
<1>5. CASE QueueFills
  <2>1. ShapeKept' /\ Awaited'
    BY <1>5 DEF Queueing, QueueFills, ShapeKept, Awaited
  <2>2. CopyKept'
    BY <1>5 DEF Queueing, QueueFills, CopyKept, Cbw, Skipped
  <2> QED BY <2>1, <2>2
<1>6. CASE QueueSubmits
  <2>1. ShapeKept' /\ CopyKept'
    BY <1>6 DEF Queueing, QueueSubmits, ShapeKept, CopyKept, Cbw, Skipped
  <2>2. Awaited'
    <3>0. /\ Cbw \in flight' /\ mid \in {"begun", "answered"} /\ place = "submit"
          /\ Cbw = "sec" => "sec" \in filled
          /\ mid' = "sent" => mid = "begun"
          /\ UNCHANGED <<shape, opcode, filled, command, level>>
      BY <1>6 DEF Queueing, QueueSubmits, Submitted
    <3>1. CASE mid' # "sent" \/ level # "none"
      BY <3>0, <3>1 DEF Awaited
    <3>2. CASE mid' = "sent" /\ level = "none"
      <4>1. Kind = command /\ Kind \in Kinds /\ mid = "begun"
        BY <3>0, <3>2
      <4>2. opcode[Cbw] = Opcode(command) \/ Skipped
        BY <3>0, <4>1 DEF CopyKept
      <4>3. CASE Skipped
        <5>1. "sec" \in filled' /\ opcode'["sec"] = "none"
          BY <3>0, <4>3 DEF Skipped, Cbw
        <5> QED BY <3>2, <3>0, <5>1 DEF Awaited
      <4>4. CASE opcode[Cbw] = Opcode(command)
        <5>1. shape = Shape(command)
          BY <3>0, <4>1 DEF ShapeKept
        <5>2. \/ command = "in" \/ opcode[Cbw] \in {"inquiry", "sense"}
              \/ opcode[Cbw] = "other" /\ shape # "in"
          BY <4>1, <4>4, <5>1, ShapeIs DEF Opcode, Kinds
        <5>3. command = "in" \/ WillAnswer'
          BY <3>0, <5>2 DEF WillAnswer, Answers
        <5> QED BY <3>0, <3>2, <5>3 DEF Awaited
      <4> QED BY <4>2, <4>3, <4>4
    <3> QED BY <3>1, <3>2
  <2> QED BY <2>1, <2>2
<1>7. CASE QueueFails
  BY <1>7 DEF Queueing, QueueFails, ShapeKept, CopyKept, Awaited
<1> QED BY <1>1, <1>2, <1>3, <1>4, <1>5, <1>6, <1>7 DEF QueueStep

\* An answer the midlayer takes ends the wait.
LEMMA AnswerEndsWait ==
    ASSUME TypeOK, Awaited, NEW u \in Urbs, AnswerGiven(u)
    PROVE  Awaited'
<1>1. CASE ErrorHandling
  <2>1. done'
    BY <1>1 DEF AnswerGiven
  <2> QED BY <1>1, <2>1 DEF Awaited, AnswerGiven, ScsiStep, ErrorHandling
<1>2. CASE ~ErrorHandling
  BY <1>2 DEF AnswerGiven, Awaited
<1> QED BY <1>1, <1>2

\* So does the end of the kernel.
LEMMA CrashEndsWait == ASSUME oops' # "none" PROVE Awaited'
  BY DEF Awaited, Running

\* A handler that answers nobody leaves the wait to another, or to the next.
LEMMA WaitGoesOn ==
    ASSUME TypeOK, Awaited, UNCHANGED <<mid, level, command, done, shape, opcode>>,
           filled \subseteq filled',
           oops = "none", ErrorHandling => flight' = flight \/ flight' # {},
           WillAnswer => WillAnswer'
    PROVE  Awaited'
  BY DEF Awaited, Running, ErrorHandling

\* A handler submits the next transfer or answers, but for the one that reads.
LEMMA CbwStepAwaits ==
    ASSUME TypeOK, Awaited, NEW u \in {"cbw", "sec"}, CbwStep(u)
    PROVE  Awaited'
<1>0. u \in Urbs /\ "data" \in Urbs
  BY DEF Urbs
<1> USE DEF Arrives, Completes, Running
<1>1. CASE HandlerCrashes(u) \/ HandlerCrashes("data")
  BY <1>1, CrashEndsWait DEF HandlerCrashes, Crash
<1>2. CASE CbwError(u)
  BY <1>0, <1>2, AnswerIs, AnswerEndsWait, CrashEndsWait DEF CbwError
<1>3. CASE Inquiry(u)
  <2>1. CASE Answer(u, TRUE)
    BY <1>0, <2>1, AnswerIs, AnswerEndsWait
  <2>2. CASE ~Answer(u, TRUE)
    BY <1>3, <2>2, CrashEndsWait DEF Inquiry, FakeStatus
  <2> QED BY <2>1, <2>2
<1>4. CASE BadSignature(u)
  <2>1. ~ErrorHandling \/ mid # "sent"
    BY <1>4 DEF BadSignature, HasData, Kind, Checking
  <2>2. /\ UNCHANGED <<mid, level, command, done, shape, opcode, filled>>
        /\ flight' = flight \ {u} /\ opcode[u] = "none" /\ handler = "none" /\ oops = "none"
    BY <1>4 DEF BadSignature, Completed, scsi, drv
  <2>3. WillAnswer => WillAnswer'
    BY <2>2 DEF WillAnswer, Answers, Owing, GoingOn
  <2> QED BY <2>1, <2>2, <2>3 DEF Awaited, ErrorHandling
<1>5. CASE CbwArrives(u)
  <2>1. CASE Answer(u, TRUE)
    BY <1>0, <2>1, AnswerIs, AnswerEndsWait
  <2>2. CASE ~Answer(u, TRUE)
    <3>1. /\ UNCHANGED <<mid, level, command, done, shape, opcode, filled>>
          /\ flight' = flight \ {u} /\ handler = "none" /\ oops = "none"
          /\ opcode[u] \in {"none", "other"}
          /\ handler' = "length" /\ answered' = FALSE
      BY <1>5, <2>2
        DEF CbwArrives, Completed, Reads, Opcodes, NoAnswer, GoesOn, scsi, drv, TypeOK
    <3>2. ~ErrorHandling \/ mid # "sent"
      BY <1>5 DEF CbwArrives, HasData, Kind, Checking
    <3>3. WillAnswer => WillAnswer'
      BY <3>1 DEF WillAnswer, Answers, Owing, GoingOn
    <3> QED BY <3>1, <3>2, <3>3 DEF Awaited, ErrorHandling
  <2> QED BY <2>1, <2>2
<1> QED BY <1>1, <1>2, <1>3, <1>4, <1>5 DEF CbwStep

LEMMA CbwEndsAwait == ASSUME TypeOK, PlaceInv, Awaited, CbwEnds PROVE Awaited'
<1> USE DEF Running
<1>1. CASE TestsLength \/ TestsDirection \/ ReadPhase
  <2>1. /\ UNCHANGED <<flight, mid, level, command, done, shape, opcode, filled>>
        /\ oops = "none"
    BY <1>1 DEF TestsLength, TestsDirection, ReadPhase, scsi, drv, urbs
  <2>2. WillAnswer => WillAnswer'
    <3>1. (\E u \in flight : Answers(u)) => WillAnswer'
      BY <2>1 DEF WillAnswer, Answers
    <3>2. CASE TestsLength
      BY <2>1, <3>1, <3>2 DEF TestsLength, WillAnswer, Owing, GoingOn, TypeOK
    <3>3. CASE TestsDirection
      BY <2>1, <3>1, <3>3 DEF TestsDirection, Returns, WillAnswer, Owing, GoingOn
    <3>4. CASE ReadPhase
      BY <2>1, <3>1, <3>4 DEF ReadPhase, WillAnswer
    <3> QED BY <1>1, <3>2, <3>3, <3>4
  <2> QED BY <2>1, <2>2, WaitGoesOn
<1>2. CASE StatusPhase \/ WritePhase
  <2>1. PICK v \in {"data", "csw"} : handler = v /\ SubmitOrAnswer(v)
    BY <1>2 DEF StatusPhase, WritePhase
  <2>2. UNCHANGED <<shape, opcode>> /\ filled \subseteq filled' /\ oops = "none"
    BY <1>2 DEF StatusPhase, WritePhase, drv
  <2>3. CASE v \in flight' /\ UNCHANGED <<scsi, stale, oops>>
    <3>1. WillAnswer' /\ flight' # {}
      BY <2>3 DEF WillAnswer, Answers
    <3> QED BY <2>2, <2>3, <3>1, WaitGoesOn DEF scsi
  <2>4. CASE AnswerGiven(context)
    BY <2>4, AnswerEndsWait DEF TypeOK
  <2>5. CASE oops' # "none"
    BY <2>5, CrashEndsWait
  <2> QED BY <2>1, <2>3, <2>4, <2>5, SubmitOrAnswerIs
<1> QED BY <1>1, <1>2 DEF CbwEnds

LEMMA OtherStepAwaits == ASSUME TypeOK, PlaceInv, Awaited, OtherStep PROVE Awaited'
<1>0. "data" \in Urbs /\ "csw" \in Urbs /\ context \in Urbs
  BY DEF Urbs, TypeOK
<1>1. ASSUME NEW x \in Urbs, NEW good \in BOOLEAN, Answer(x, good) PROVE Awaited'
  BY <1>1, AnswerIs, AnswerEndsWait
<1>2. CASE DataArrives \/ DataErrorEnds
  BY <1>0, <1>1, <1>2, CrashEndsWait DEF DataArrives, DataErrorEnds, FakeStatus
<1>3. CASE DataError
  BY <1>0, <1>1, <1>3 DEF DataError
<1>4. CASE CswArrives \/ CswErrorEnds
  BY <1>0, <1>1, <1>4, CrashEndsWait DEF CswArrives, CswErrorEnds, Status
<1>5. CASE CswError
  BY <1>0, <1>1, <1>5, CrashEndsWait DEF CswError, Crash
<1>6. CASE Clear
  <2>1. /\ UNCHANGED <<flight, mid, level, command, done, shape, opcode, filled>>
        /\ oops = "none" /\ handler = "clear"
    BY <1>6 DEF Clear, scsi, urbs, Running
  <2>2. WillAnswer => WillAnswer'
    BY <2>1 DEF WillAnswer, Answers, Owing, GoingOn
  <2> QED BY <2>1, <2>2, WaitGoesOn
<1> QED BY <1>2, <1>3, <1>4, <1>5, <1>6 DEF OtherStep

LEMMA HandlerKeepsForget ==
    ASSUME TypeOK, PlaceInv, ForgetInv, NEW u \in {"cbw", "sec"}, HandlerStep(u)
    PROVE  ForgetInv'
<1>1. Awaited'
  BY CbwStepAwaits, CbwEndsAwait, OtherStepAwaits DEF HandlerStep, ForgetInv
<1>2. HandlerEffect
  BY HandlerEffects
<1>3. /\ UNCHANGED <<shape, opcode, place, command, level>> /\ count' \in {count, 1}
      /\ filled' \in {filled, filled \cup {"csw"}}
      /\ mid' \in {"begun", "answered", "sent"} => mid \in {"begun", "answered", "sent"}
      /\ mid' \in {"begun", "answered"} <=> mid \in {"begun", "answered"}
  BY <1>2 DEF HandlerEffect, Left, ScsiStep, scsi
<1>4. mid' \in {"begun", "answered", "sent"} => Kind' = Kind
  BY <1>3 DEF Kind, Checking, ErrorHandling
<1>5. ShapeKept'
  BY <1>3, <1>4 DEF ForgetInv, ShapeKept
<1>6. CopyKept'
  <2>1. count' = 0 => count = 0
    BY <1>3
  <2>2. CASE count' = count
    BY <1>3, <1>4, <2>2 DEF ForgetInv, CopyKept, Cbw, Skipped
  <2>3. CASE count' = 1 /\ count = 0
    <3>1. Skipped'
      BY <1>3, <2>3 DEF Skipped, ForgetInv, CopyKept
    <3>2. place' # "copy" => mid' \in {"begun", "answered"}
      BY <1>3 DEF ForgetInv, CopyKept
    <3> QED BY <2>3, <3>1, <3>2 DEF CopyKept
  <2> QED BY <1>3, <2>2, <2>3 DEF TypeOK
<1> QED BY <1>1, <1>5, <1>6 DEF ForgetInv

\* The error handler's own command is sent, or answered.
LEMMA ErrorKeepsForget == ASSUME TypeOK, ForgetInv, ErrorStep PROVE ForgetInv'
<1>1. /\ mid' \notin {"begun", "answered", "sent"} /\ mid \notin {"begun", "answered"}
      /\ UNCHANGED <<count, opcode, filled, place>>
  BY KillsTo, EscalatesTo
    DEF TypeOK, ErrorStep, Timeout, AbortReturns, DeviceReset, PreReset, PostReset,
        Recovered, TriesAgain, StopsTrying, Checked, drv
<1> QED BY <1>1 DEF ForgetInv, ShapeKept, CopyKept, Awaited

\* A flushed transfer is given back to its handler.
LEMMA DeviceKeepsForget == ASSUME TypeOK, ForgetInv, DeviceStep PROVE ForgetInv'
<1>1. UNCHANGED <<drv, urbs, callback, scsi, history, oops>>
  BY DEF DeviceStep, Probe, Unplugged, Flushed, Disconnect
<1> USE <1>1 DEF ForgetInv, Kind, Checking, ErrorHandling, Running, drv, urbs, callback, scsi
<1>2. ShapeKept' /\ CopyKept'
  BY DEF ShapeKept, CopyKept, Cbw, Skipped
<1>3. Awaited'
  BY DEF Awaited, WillAnswer, Answers, Owing
<1> QED BY <1>2, <1>3


-----------------------------------------------------------------------------
(* Where handlers and the error handler are *)

\* None of queue_command's steps is a reset, and they leave the handler alone.
LEMMA QueueKeepsPlace == ASSUME TypeOK, PlaceInv, QueueStep PROVE PlaceInv'
  BY DEF PlaceInv, QueueStep, NewCommand, QueueBegins, QueueNoMemory, QueueCopies,
     QueueFills, QueueSubmits, QueueFails, GivesUp, ErrorHandling, callback, scsi

\* A handler goes on from where it is, and the error handler from where it was.
LEMMA HandlerKeepsPlace == ASSUME TypeOK, PlaceInv, HandlerEffect PROVE PlaceInv'
<1>1. level' = level /\ (mid' \in {"reset", "resetting", "between"} => mid' = mid)
  BY DEF HandlerEffect, ScsiStep, scsi
<1> QED BY <1>1 DEF PlaceInv, HandlerEffect, ErrorHandling

\* The error handler has a next means as long as there is one to reset.
LEMMA ErrorKeepsPlace == ASSUME TypeOK, PlaceInv, ErrorStep PROVE PlaceInv'
<1>1. UNCHANGED callback
  BY KillsTo
    DEF ErrorStep, Timeout, AbortReturns, DeviceReset, PreReset, PostReset, TriesAgain,
        StopsTrying, Checked
<1>2. mid' \in {"reset", "resetting", "between"} => ErrorHandling'
  BY KillsTo, EscalatesTo
    DEF TypeOK, PlaceInv, ErrorStep, Timeout, AbortReturns, DeviceReset, PreReset,
        PostReset, Recovered, TriesAgain, StopsTrying, Checked, ErrorHandling
<1> QED BY <1>1, <1>2 DEF PlaceInv, callback

-----------------------------------------------------------------------------
(* Whose transfer is answered *)

\* An answer that goes to another call than its transfer's is a trouble, or comes after
\* one; without trouble it ends the call, or nobody listens.
LEMMA AnswerBlamed ==
    ASSUME TypeOK, StaleInv, NEW u \in Urbs, AnswerGiven(u),
           \/ handler = "none" /\ u \in flight
           \/ handler # "none" /\ (Owing \/ answered)
    PROVE  /\ Blamed'
           /\ Quiet' => /\ Quiet /\ mid' # "answered"
                        /\ (mid' = mid \/ mid' \in {"idle", "ready"})
           /\ Quiet' /\ mid \in {"begun", "sent"} => ~answered
<1>1. ScsiStep /\ left \subseteq left'
  BY DEF AnswerGiven, ScsiStep
<1>2. UNCHANGED level /\ (mid' = "offline" <=> mid = "offline")
  BY <1>1 DEF ScsiStep
<1>3. Troubled => Troubled'
  BY <1>1 DEF Troubled
<1>4. Quiet' => Quiet
  BY <1>2, <1>3 DEF Quiet, ErrorHandling
<1>5. ASSUME ~ErrorHandling, mid \in {"begun", "sent"}, answered PROVE Troubled'
  BY <1>5 DEF AnswerGiven, Troubled
<1>6. ASSUME ~ErrorHandling, mid \in {"begun", "sent"}, ~answered, ~Troubled'
      PROVE  mid = "sent" /\ Served(u) = issues
  <2>1. FlightInv
    BY <1>3, <1>6 DEF StaleInv, Quiet
  <2>2. Owing \/ flight # {}
    BY <1>6
  <2>3. mid = "sent"
    BY <1>6, <2>1, <2>2 DEF FlightInv
  <2>4. Served(u) = issues
    BY <1>6, <2>1, <2>3 DEF FlightInv, Served
  <2> QED BY <2>3, <2>4
<1>7. Blamed'
  <2>1. ~stale' \/ stale \/ Troubled'
    BY <1>5, <1>6 DEF AnswerGiven
  <2> QED BY <1>3, <2>1 DEF StaleInv, Blamed
<1>8. ASSUME Quiet' PROVE mid' # "answered" /\ (mid' = mid \/ mid' \in {"idle", "ready"})
  <2>1. FlightInv /\ ~ErrorHandling /\ ~Troubled'
    BY <1>4, <1>8 DEF StaleInv, Quiet
  <2>2. mid \in {"begun", "sent"} => mid = "sent"
    BY <1>5, <1>6, <2>1
  <2> QED BY <2>1, <2>2 DEF AnswerGiven, FlightInv, ScsiStep
<1> QED BY <1>2, <1>3, <1>4, <1>5, <1>7, <1>8 DEF Quiet, ErrorHandling

\* With nothing in flight there is only an answered call of queue_command to exclude.
LEMMA NothingInFlight ==
    ASSUME flight' = {}, ~Owing', mid' # "answered"
    PROVE  FlightInv'
  BY DEF FlightInv

\* Whoever neither submits nor answers keeps FlightInv.
LEMMA FlightKept ==
    ASSUME FlightInv, UNCHANGED <<flight, serial, mid, issues>>,
           Owing' => Owing /\ UNCHANGED <<context, own>>
    PROVE  FlightInv'
  BY DEF FlightInv

\* A handler that answers, for the transfer it takes out of flight or further on.
LEMMA AnswerKeepsFlight ==
    ASSUME TypeOK, StaleInv, NEW u \in Urbs, AnswerGiven(u), ~Owing',
           \/ handler = "none" /\ u \in flight /\ flight' = flight \ {u}
           \/ handler # "none" /\ (Owing \/ answered) /\ UNCHANGED <<flight, serial>>
    PROVE  Blamed' /\ (Quiet' => FlightInv')
<1>1. /\ Blamed'
      /\ Quiet' => /\ Quiet /\ mid' # "answered"
                   /\ (mid' = mid \/ mid' \in {"idle", "ready"})
      /\ Quiet' /\ mid \in {"begun", "sent"} => ~answered
  BY AnswerBlamed
<1>2. ASSUME Quiet' PROVE FlightInv'
  <2>1. FlightInv
    BY <1>1, <1>2 DEF StaleInv
  <2>2. CASE handler = "none" /\ u \in flight /\ flight' = flight \ {u}
    <3>1. flight' = {}
      BY <2>1, <2>2 DEF FlightInv
    <3> QED BY <1>1, <1>2, <3>1, NothingInFlight
  <2>3. CASE Owing /\ UNCHANGED <<flight, serial>>
    <3>1. flight' = {}
      BY <2>1, <2>3 DEF FlightInv
    <3> QED BY <1>1, <1>2, <3>1, NothingInFlight
  <2>4. CASE answered /\ UNCHANGED <<flight, serial>>
    <3>1. UNCHANGED <<mid, issues>>
      BY <1>1, <1>2, <2>4 DEF AnswerGiven, ScsiStep
    <3> QED BY <2>1, <2>4, <3>1, FlightKept
  <2> QED BY <2>2, <2>3, <2>4
<1> QED BY <1>1, <1>2

\* A handler that answers nobody.
LEMMA SilenceKeepsBlame ==
    ASSUME StaleInv, UNCHANGED <<stale, level, mid>>, left \subseteq left'
    PROVE  Blamed' /\ (Quiet' => Quiet /\ FlightInv)
  BY DEF StaleInv, Blamed, Troubled, Quiet, ErrorHandling

LEMMA CbwStepKeepsFlight ==
    ASSUME TypeOK, StaleInv, NEW u \in {"cbw", "sec"}, CbwStep(u)
    PROVE  Blamed' /\ (Quiet' => FlightInv')
<1>0. u \in Urbs /\ "data" \in Urbs
  BY DEF Urbs
<1> USE DEF Arrives, Completes
<1>1. CASE HandlerCrashes(u) \/ HandlerCrashes("data")
  <2>1. UNCHANGED <<urbs, callback, scsi, history>>
    BY <1>1 DEF HandlerCrashes, Crash
  <2> QED BY <2>1, SilenceKeepsBlame, FlightKept
      DEF urbs, callback, scsi, history, Owing
<1>2. ASSUME NoAnswer, Completed(u), u \in flight, handler' = "none"
      PROVE  Blamed' /\ (Quiet' => FlightInv')
  <2>1. UNCHANGED <<stale, level, mid, left>> /\ ~Owing' /\ flight' = flight \ {u}
    BY <1>2 DEF NoAnswer, scsi, history, Owing, GoingOn, Completed
  <2>2. Blamed' /\ (Quiet' => Quiet /\ FlightInv)
    BY <2>1, SilenceKeepsBlame
  <2>3. Quiet' => flight' = {} /\ mid' # "answered"
    BY <1>2, <2>1, <2>2 DEF FlightInv
  <2> QED BY <2>1, <2>2, <2>3, NothingInFlight
<1>3. ASSUME AnswerGiven(u), Completed(u), u \in flight, handler = "none",
             handler' \notin GoingOn \/ answered'
      PROVE  Blamed' /\ (Quiet' => FlightInv')
  BY <1>0, <1>3, AnswerKeepsFlight DEF Completed, Owing
<1>4. CASE CbwError(u)
  <2>1. /\ u \in flight /\ handler = "none" /\ handler' = "none" /\ Completed(u)
    BY <1>4 DEF CbwError, callback
  <2>2. AnswerGiven(u) \/ NoAnswer
    BY <1>0, <1>4, AnswerIs DEF CbwError
  <2> QED BY <1>2, <1>3, <2>1, <2>2 DEF GoingOn
<1>5. CASE BadSignature(u)
  <2>1. /\ u \in flight /\ handler' = "none" /\ Completed(u) /\ NoAnswer
    BY <1>5 DEF BadSignature, callback, NoAnswer
  <2> QED BY <1>2, <2>1
<1>6. CASE Inquiry(u)
  <2>1. /\ u \in flight /\ handler = "none" /\ Completed(u) /\ FakeStatus(u)
    BY <1>6 DEF Inquiry
  <2>2. \/ AnswerGiven(u) /\ handler' = "clear"
        \/ NoAnswer /\ UNCHANGED callback
    BY <1>0, <2>1, FakeStatusIs DEF StaleInv
  <2> QED BY <1>2, <1>3, <2>1, <2>2 DEF GoingOn, callback
<1>7. CASE CbwArrives(u)
  <2>1. /\ u \in flight /\ handler = "none" /\ Completed(u) /\ GoesOn("length", u)
        /\ \/ Answer(u, TRUE) /\ answered' = TRUE
           \/ NoAnswer /\ answered' = FALSE
    BY <1>7 DEF CbwArrives
  <2>2. CASE Answer(u, TRUE) /\ answered' = TRUE
    BY <1>0, <1>3, <2>1, <2>2, AnswerIs
  <2>3. CASE NoAnswer /\ answered' = FALSE
    <3>1. /\ UNCHANGED <<stale, level, mid, left, issues>> /\ flight' = flight \ {u}
          /\ handler' = "length" /\ context' = u /\ own' = serial[u]
      BY <2>1, <2>3 DEF NoAnswer, scsi, history, GoesOn, Completed, Served
    <3>2. Blamed' /\ (Quiet' => Quiet /\ FlightInv)
      BY <3>1, SilenceKeepsBlame
    <3>3. FlightInv => flight' = {} /\ ({u} = flight)
      BY <2>1, <3>1 DEF FlightInv
    <3>4. FlightInv => FlightInv'
      BY <2>1, <3>1, <3>3 DEF FlightInv
    <3> QED BY <3>2, <3>4
  <2> QED BY <2>1, <2>2, <2>3
<1> QED BY <1>1, <1>4, <1>5, <1>6, <1>7 DEF CbwStep

LEMMA CbwEndsKeepsFlight ==
    ASSUME TypeOK, StaleInv, CbwEnds
    PROVE  Blamed' /\ (Quiet' => FlightInv')
<1>1. CASE TestsLength \/ TestsDirection \/ ReadPhase
  <2>1. UNCHANGED <<urbs, scsi, stale, left>>
    BY <1>1 DEF TestsLength, TestsDirection, ReadPhase, history
  <2>2. Owing' => Owing /\ UNCHANGED <<context, own>>
    BY <1>1 DEF TestsLength, TestsDirection, ReadPhase, Returns, Owing, GoingOn
  <2> QED BY <2>1, <2>2, SilenceKeepsBlame, FlightKept DEF urbs, scsi
<1>2. CASE StatusPhase \/ WritePhase
  <2>1. PICK v \in {"data", "csw"} : handler = v /\ SubmitOrAnswer(v)
    BY <1>2 DEF StatusPhase, WritePhase
  <2>2. ~Owing' /\ (Owing \/ answered) /\ handler # "none" /\ context \in Urbs
    BY <1>2, <2>1 DEF StatusPhase, WritePhase, Returns, Owing, GoingOn, TypeOK
  <2>3. CASE /\ flight' = flight \cup {v} /\ serial' = [serial EXCEPT ![v] = own]
             /\ left' = IF answered THEN left \cup {"sense"} ELSE left
             /\ UNCHANGED <<scsi, stale, oops>>
    <3>1. UNCHANGED <<stale, level, mid, issues>> /\ left \subseteq left'
      BY <2>3 DEF scsi
    <3>2. Blamed' /\ (Quiet' => Quiet /\ FlightInv)
      BY <3>1, SilenceKeepsBlame
    <3>3. ASSUME Quiet' PROVE FlightInv'
      <4>1. ~answered
        BY <2>3, <3>3 DEF Quiet, Troubled
      <4>2. FlightInv /\ Owing
        BY <2>2, <3>2, <3>3, <4>1
      <4>3. flight' = {v} /\ serial'[v] = own
        BY <2>3, <4>2 DEF FlightInv, TypeOK, Urbs
      <4> QED BY <2>2, <3>1, <4>2, <4>3 DEF FlightInv
    <3> QED BY <3>2, <3>3
  <2>4. CASE AnswerGiven(context) /\ UNCHANGED <<urbs, oops>>
    BY <2>2, <2>4, AnswerKeepsFlight DEF urbs
  <2>5. CASE NoAnswer /\ UNCHANGED urbs
    BY <2>2, <2>5, SilenceKeepsBlame, FlightKept DEF NoAnswer, scsi, urbs, history
  <2> QED BY <2>1, <2>3, <2>4, <2>5, SubmitOrAnswerIs DEF StaleInv
<1> QED BY <1>1, <1>2 DEF CbwEnds

LEMMA OtherStepKeepsFlight ==
    ASSUME TypeOK, StaleInv, OtherStep
    PROVE  Blamed' /\ (Quiet' => FlightInv')
<1>0. "data" \in Urbs /\ "csw" \in Urbs /\ context \in Urbs /\ PlaceInv
  BY DEF Urbs, TypeOK, StaleInv
<1> USE DEF Arrives, Completes
<1>1. ASSUME NEW x \in Urbs, AnswerGiven(x), Completed(x), x \in flight, handler = "none",
             handler' \notin GoingOn
      PROVE  Blamed' /\ (Quiet' => FlightInv')
  BY <1>1, AnswerKeepsFlight DEF Completed, Owing
<1>2. ASSUME NEW x \in Urbs, NoAnswer, Completed(x), x \in flight, handler' = "none"
      PROVE  Blamed' /\ (Quiet' => FlightInv')
  <2>1. UNCHANGED <<stale, level, mid, left>> /\ ~Owing' /\ flight' = flight \ {x}
    BY <1>2 DEF NoAnswer, scsi, history, Owing, GoingOn, Completed
  <2>2. Blamed' /\ (Quiet' => Quiet /\ FlightInv)
    BY <2>1, SilenceKeepsBlame
  <2>3. Quiet' => flight' = {} /\ mid' # "answered"
    BY <1>2, <2>1, <2>2 DEF FlightInv
  <2> QED BY <2>1, <2>2, <2>3, NothingInFlight
<1>3. ASSUME UNCHANGED urbs, handler \in {"fake", "status", "clear"},
             \/ AnswerGiven(context) \/ NoAnswer
             \/ UNCHANGED <<scsi, stale>> /\ left \subseteq left',
             handler' \notin GoingOn
      PROVE  Blamed' /\ (Quiet' => FlightInv')
  <2>1. ~Owing' /\ answered
    BY <1>0, <1>3 DEF Owing, PlaceInv
  <2>2. CASE AnswerGiven(context)
    BY <1>0, <1>3, <2>1, <2>2, AnswerKeepsFlight DEF urbs
  <2>3. CASE ~AnswerGiven(context)
    <3>1. UNCHANGED <<stale, level, mid, issues>> /\ left \subseteq left'
      BY <1>3, <2>3 DEF NoAnswer, scsi, history
    <3> QED BY <1>3, <2>1, <3>1, SilenceKeepsBlame, FlightKept DEF urbs
  <2> QED BY <2>2, <2>3
<1>4. CASE DataArrives
  <2>1. /\ "data" \in flight /\ handler = "none" /\ Completed("data") /\ FakeStatus("data")
    BY <1>4 DEF DataArrives
  <2>2. \/ AnswerGiven("data") /\ handler' = "clear"
        \/ NoAnswer /\ UNCHANGED callback
    BY <1>0, <2>1, FakeStatusIs
  <2> QED BY <1>0, <1>1, <1>2, <2>1, <2>2 DEF GoingOn, callback
<1>5. CASE DataError
  <2>1. /\ "data" \in flight /\ handler = "none" /\ Completed("data") /\ handler' = "fake"
        /\ AnswerGiven("data")
    BY <1>0, <1>5, AnswerIs DEF DataError, GoesOn
  <2> QED BY <1>0, <1>1, <2>1 DEF GoingOn
<1>6. CASE DataErrorEnds
  <2>1. UNCHANGED urbs /\ handler = "fake" /\ FakeStatus(context)
    BY <1>6 DEF DataErrorEnds
  <2>2. \/ AnswerGiven(context) /\ handler' = "clear"
        \/ NoAnswer /\ UNCHANGED callback
    BY <1>0, <2>1, FakeStatusIs DEF GoingOn
  <2> QED BY <1>3, <2>1, <2>2 DEF GoingOn, callback
<1>7. CASE CswArrives
  <2>1. /\ "csw" \in flight /\ handler = "none" /\ Completed("csw") /\ Status("csw")
    BY <1>7 DEF CswArrives
  <2>2. \/ AnswerGiven("csw") /\ handler' \in {"none", "clear"}
        \/ NoAnswer /\ UNCHANGED callback
    BY <1>0, <2>1, StatusIs
  <2> QED BY <1>0, <1>1, <1>2, <2>1, <2>2 DEF GoingOn, callback
<1>8. CASE CswError /\ active
  <2>1. /\ "csw" \in flight /\ handler = "none" /\ Completed("csw") /\ handler' = "status"
        /\ AnswerGiven("csw")
    BY <1>0, <1>8, AnswerIs DEF CswError, GoesOn
  <2> QED BY <1>0, <1>1, <2>1 DEF GoingOn
<1>9. CASE CswError /\ ~active
  <2>1. UNCHANGED <<urbs, callback, scsi, history>>
    BY <1>9 DEF CswError, Crash
  <2> QED BY <2>1, SilenceKeepsBlame, FlightKept
      DEF urbs, callback, scsi, history, Owing
<1>10. CASE CswErrorEnds
  <2>1. UNCHANGED urbs /\ handler = "status" /\ Status(context)
    BY <1>10 DEF CswErrorEnds
  <2>2. \/ AnswerGiven(context) /\ handler' \in {"none", "clear"}
        \/ NoAnswer /\ UNCHANGED callback
    BY <1>0, <2>1, StatusIs DEF GoingOn
  <2> QED BY <1>3, <2>1, <2>2 DEF GoingOn, callback
<1>11. CASE Clear
  <2>1. /\ UNCHANGED urbs /\ handler = "clear" /\ handler' = "none"
        /\ UNCHANGED <<scsi, stale>> /\ left \subseteq left'
    BY <1>11 DEF Clear, Returns
  <2> QED BY <1>3, <2>1 DEF GoingOn
<1> QED BY <1>4, <1>5, <1>6, <1>7, <1>8, <1>9, <1>10, <1>11 DEF OtherStep

\* Without trouble, a handler leaves the one transfer it submits, or none.
LEMMA HandlerKeepsStale ==
    ASSUME TypeOK, StaleInv, NEW u \in {"cbw", "sec"}, HandlerStep(u)
    PROVE  StaleInv'
  BY HandlerEffects, HandlerKeepsPlace, CbwStepKeepsFlight, CbwEndsKeepsFlight,
     OtherStepKeepsFlight
    DEF HandlerStep, StaleInv

\* queue_command submits when none is in flight.
LEMMA QueueKeepsStale == ASSUME TypeOK, StaleInv, QueueStep PROVE StaleInv'
<1>1. UNCHANGED <<stale, left>>
  BY DEF QueueStep, NewCommand, QueueBegins, QueueNoMemory, QueueCopies, QueueFills,
     QueueSubmits, QueueFails, GivesUp, history
<1>2. Blamed' /\ (Troubled' <=> Troubled)
  BY <1>1 DEF StaleInv, Blamed, Troubled
<1>3. UNCHANGED level /\ mid # "offline"
  BY DEF QueueStep, NewCommand, QueueBegins, QueueNoMemory, Queueing, QueueCopies,
     QueueFills, QueueSubmits, QueueFails, GivesUp, scsi
<1>4. Quiet' => Quiet /\ FlightInv
  BY <1>2, <1>3 DEF StaleInv, Quiet, ErrorHandling
<1>5. UNCHANGED callback /\ (Owing' <=> Owing)
  BY DEF QueueStep, NewCommand, QueueBegins, QueueNoMemory, QueueCopies, QueueFills,
     QueueSubmits, QueueFails, GivesUp, callback, Owing
<1>6. ASSUME Quiet' PROVE FlightInv'
  <2>1. CASE NewCommand \/ GivesUp
    BY <1>4, <1>5, <1>6, <2>1 DEF NewCommand, GivesUp, FlightInv, urbs
  <2>2. CASE QueueBegins \/ QueueNoMemory
    BY <1>4, <1>5, <1>6, <2>2 DEF QueueBegins, QueueNoMemory, FlightInv, urbs
  <2>3. CASE QueueCopies \/ QueueFills
    BY <1>4, <1>5, <1>6, <2>3, FlightKept
      DEF QueueCopies, QueueFills, urbs, scsi, callback
  <2>4. CASE QueueSubmits
    <3>1. /\ mid = "begun" /\ mid' = "sent" /\ flight = {} /\ ~Owing
      BY <1>4, <1>6, <2>4 DEF QueueSubmits, Queueing, FlightInv
    <3>2. flight' = {Cbw} /\ serial'[Cbw] = issues /\ issues' = issues
      BY <2>4, <3>1 DEF QueueSubmits, Submitted, Cbw, TypeOK, Urbs
    <3> QED BY <1>5, <3>1, <3>2 DEF FlightInv
  <2>5. CASE QueueFails
    BY <1>4, <1>5, <1>6, <2>5 DEF QueueFails, Queueing, FlightInv, urbs, Quiet, ErrorHandling
  <2> QED BY <2>1, <2>2, <2>3, <2>4, <2>5 DEF QueueStep
<1> QED BY <1>2, <1>6, QueueKeepsPlace DEF StaleInv

\* eh_abort has killed every transfer when it returns without trouble, and the error
\* handler is content without trouble only when nothing is in flight.
LEMMA ErrorKeepsStale == ASSUME TypeOK, StaleInv, ErrorStep PROVE StaleInv'
<1>1. UNCHANGED <<stale, urbs, callback, issues>> /\ left \subseteq left'
  BY KillsTo
    DEF ErrorStep, Timeout, AbortReturns, DeviceReset, PreReset, PostReset, Recovered,
        TriesAgain, StopsTrying, Checked, history
<1>2. Blamed' /\ (Troubled => Troubled') /\ (Owing' <=> Owing)
  BY <1>1 DEF StaleInv, Blamed, Troubled, Owing, callback
<1>3. PlaceInv
  BY DEF StaleInv
<1>4. ASSUME Quiet' PROVE FlightInv'
  <2>1. ~ErrorHandling' /\ mid' # "offline" /\ ~Troubled' /\ ~Troubled
    BY <1>2, <1>4 DEF Quiet
  <2>2. CASE Timeout
    <3>1. Quiet /\ FlightInv /\ mid = "sent" /\ mid' = "kill_cbw" /\ left' = left \cup
              IF "sec" \in flight \/ (handler # "none" /\ context = "sec")
              THEN {"abort"} ELSE {}
      BY <2>1, <2>2 DEF Timeout, Quiet, ErrorHandling, StaleInv
    <3>2. "sec" \notin flight /\ (handler # "none" => context # "sec")
      BY <2>1, <3>1 DEF Troubled
    <3>3. Owing => context = "cbw"
      BY <1>3, <3>2 DEF PlaceInv, Owing, GoingOn
    <3> QED BY <1>1, <1>2, <3>1, <3>2, <3>3 DEF FlightInv, urbs, callback
  <2>3. CASE AbortKills
    <3>1. Quiet /\ FlightInv
      BY <2>1, <2>3, KillsTo DEF Quiet, ErrorHandling, StaleInv
    <3> QED BY <1>1, <1>2, <2>3, <3>1, KillsTo
        DEF FlightInv, urbs, callback, TypeOK, Urbs, Owing, GoingOn
  <2>4. CASE AbortReturns \/ StopsTrying
    <3>1. Quiet /\ FlightInv /\ mid = "aborted" /\ mid' \in {"idle", "ready"}
      BY <2>1, <2>4, EscalatesTo
        DEF AbortReturns, StopsTrying, Quiet, ErrorHandling, StaleInv, TypeOK
    <3> QED BY <1>1, <1>2, <3>1 DEF FlightInv, urbs
  <2>5. CASE DeviceReset \/ PreReset \/ PostReset \/ TriesAgain
    BY <1>3, <2>1, <2>5, EscalatesTo
      DEF DeviceReset, PreReset, PostReset, Recovered, TriesAgain, PlaceInv, ErrorHandling,
          TypeOK
  <2>6. CASE Checked
    <3>1. flight = {} /\ handler = "none" /\ mid' # "answered"
      BY <2>1, <2>6, EscalatesTo DEF Checked, Troubled, ErrorHandling, TypeOK
    <3> QED BY <1>1, <1>2, <3>1, NothingInFlight DEF urbs, Owing, GoingOn
  <2> QED BY <2>2, <2>3, <2>4, <2>5, <2>6 DEF ErrorStep
<1> QED BY <1>2, <1>4, ErrorKeepsPlace DEF StaleInv

\* Probing and removing submit nothing.
LEMMA DeviceKeepsStale == ASSUME TypeOK, StaleInv, DeviceStep PROVE StaleInv'
<1>1. UNCHANGED <<urbs, callback, scsi, history>>
  BY DEF DeviceStep, Probe, Unplugged, Flushed, Disconnect
<1>2. PlaceInv' /\ Blamed' /\ (Quiet' => Quiet)
  BY <1>1
    DEF StaleInv, PlaceInv, Blamed, Troubled, Quiet, ErrorHandling, callback, scsi, history
<1>3. FlightInv => FlightInv'
  BY <1>1, FlightKept DEF urbs, callback, scsi, Owing
<1> QED BY <1>2, <1>3 DEF StaleInv

-----------------------------------------------------------------------------
(* What is left behind *)

\* The midlayer submits to no interface that is being removed.
LEMMA QueueKeepsGone == ASSUME TypeOK, GoneInv, QueueStep PROVE GoneInv'
<1>1. phase' = phase /\ phase # "gone" /\ phase # "new"
  BY DEF GoneInv, QueueStep, NewCommand, QueueBegins, QueueNoMemory, Queueing, QueueCopies,
     QueueFills, QueueSubmits, QueueFails, GivesUp
<1>2. phase = "removing" => flight' = flight
  BY DEF QueueStep, NewCommand, QueueBegins, QueueNoMemory, QueueCopies, QueueFills,
     QueueSubmits, Submitted, CanSubmit, QueueFails, GivesUp, urbs
<1> QED BY <1>1, <1>2 DEF GoneInv, LeftBehind

\* No handler submits once the endpoints are flushed.
LEMMA HandlerKeepsGone == ASSUME TypeOK, GoneInv, HandlerEffect PROVE GoneInv'
<1>1. UNCHANGED <<phase, held>> /\ (mid \in {"idle", "offline"} => mid' = mid)
  BY DEF HandlerEffect, Left, ScsiStep, scsi
<1>2. phase # "bound" => flight' \subseteq flight
  BY DEF HandlerEffect, Moved, Completed
<1> QED BY <1>1, <1>2 DEF GoneInv, LeftBehind

\* The error handler runs neither before the probe nor after scsi_remove_host.
LEMMA ErrorKeepsGone == ASSUME TypeOK, GoneInv, ErrorStep PROVE GoneInv'
<1>1. UNCHANGED <<phase, held, flight>>
  BY KillsTo
    DEF ErrorStep, Timeout, AbortReturns, DeviceReset, PreReset, PostReset, TriesAgain,
        StopsTrying, Checked, urbs
<1>2. phase \notin {"new", "gone"}
  BY KillsTo
    DEF GoneInv, ErrorStep, Timeout, AbortReturns, DeviceReset, PreReset, PostReset,
        TriesAgain, StopsTrying, Checked
<1> QED BY <1>1, <1>2 DEF GoneInv, LeftBehind

\* usb_disconnect and a failed usb_probe leave behind what LeftBehind says.
LEMMA DeviceKeepsGone ==
    ASSUME TypeOK, GoneInv, DeviceStep
    PROVE  GoneInv'
<1>1. CASE Probe
  <2>1. CASE held' = Allocations
    <3>1. "host" \in Allocations
      <4>1. Acquired[1] = "host" /\ 1 \in 1..9
         BY DEF Acquired
      <4> QED BY <4>1 DEF Allocations
    <3> QED BY <1>1, <2>1, <3>1
        DEF Probe, drv, urbs, callback, scsi, history, GoneInv, LeftBehind
  <2>2. CASE \E i \in DOMAIN Acquired : phase' = "gone" /\ held' = AfterFailure(i)
    BY <1>1, <2>2, FailedProbe
      DEF Probe, drv, urbs, callback, scsi, history, GoneInv, LeftBehind
  <2> QED BY <1>1, <2>1, <2>2 DEF Probe
<1>2. CASE Unplugged
  BY <1>2 DEF Unplugged, drv, urbs, callback, scsi, history, GoneInv, LeftBehind
<1>3. CASE Flushed
  BY <1>3 DEF Flushed, drv, urbs, callback, scsi, history, GoneInv, LeftBehind
<1>4. CASE Disconnect
  <2>1. held' \cap (Pairs \cup {"data_buffer"}) = {}
    BY <1>4, DeallocatedIs DEF Disconnect
  <2> QED BY <1>4, <2>1
    DEF Disconnect, drv, urbs, callback, scsi, history, GoneInv, LeftBehind
<1> QED BY <1>1, <1>2, <1>3, <1>4 DEF DeviceStep

-----------------------------------------------------------------------------
(* The inductive invariant of UsbStorage, from its initial states and from Settled. *)

Start == Init \/ Settled

\* It holds in the initial states, and when the disk is settled.
LEMMA StartHolds == Start => StorageInv
<1> SUFFICES ASSUME Start PROVE StorageInv
  OBVIOUS
<1> USE DEF Start, Init, Settled
<1>1. TypeOK
  <2>1. HeldType /\ FlagTypes
    BY DEF HeldType, FlagTypes
  <2>2. TransferTypes /\ HandlerTypes
    <3>1. /\ flight = {} /\ serial = [u \in Urbs |-> 0] /\ own = 0 /\ stale = FALSE
          /\ left = {} /\ handler = "none" /\ context = "cbw" /\ answered = FALSE
      OBVIOUS
    <3>2. 0 \in 0..MaxIssues /\ "cbw" \in Urbs
      BY MaxIssuesAssumption DEF Urbs
    <3>3. serial \in [Urbs -> 0..MaxIssues]
      BY <3>1, <3>2
    <3> QED BY <3>1, <3>2, <3>3 DEF TransferTypes, HandlerTypes
  <2>3. PhaseTypes /\ CommandTypes
    BY MaxIssuesAssumption DEF PhaseTypes, CommandTypes, Kinds, Opcodes
  <2> QED BY <2>1, <2>2, <2>3, TypeParts
<1>2. OrphanInv /\ GoneInv
  BY DEF OrphanInv, ActiveKept, OrphanExplained, GoneInv, LeftBehind
<1>3. ForgetInv
  BY DEF ForgetInv, ShapeKept, CopyKept, Awaited
<1>4. StaleInv
  BY DEF StaleInv, PlaceInv, Blamed, FlightInv, Owing, GoingOn
<1> QED BY <1>1, <1>2, <1>3, <1>4 DEF StorageInv

\* A stuttering step keeps it.
LEMMA StutterKeeps == ASSUME StorageInv, UNCHANGED vars PROVE StorageInv'
<1> USE DEF vars, drv, urbs, callback, scsi, history, StorageInv
<1>1. TypeOK'
  BY DEF TypeOK
<1>2. OrphanInv' /\ GoneInv'
  BY DEF OrphanInv, ActiveKept, OrphanExplained, GoneInv, LeftBehind
<1>3. ForgetInv'
  <2>1. ShapeKept' /\ CopyKept'
    BY DEF ForgetInv, ShapeKept, CopyKept, Cbw, Skipped, ErrorHandling, Kind, Checking
  <2>2. Awaited'
    BY DEF ForgetInv, Awaited, Running, ErrorHandling, WillAnswer, Answers, Owing
  <2> QED BY <2>1, <2>2 DEF ForgetInv
<1>4. StaleInv'
  BY DEF StaleInv, PlaceInv, Blamed, FlightInv, Troubled, Quiet, ErrorHandling, Owing
<1> QED BY <1>1, <1>2, <1>3, <1>4

\* The inductive invariant holds in every state.
THEOREM StorageInductive == Start /\ [][Next]_vars => []StorageInv
<1>1. StorageInv /\ [Next]_vars => StorageInv'
  <2> SUFFICES ASSUME StorageInv, [Next]_vars PROVE StorageInv'
    OBVIOUS
  <2> USE DEF StorageInv
  <2>1. CASE QueueStep
    BY <2>1, QueueKeepsTypes, QueueKeepsOrphan, QueueKeepsForget, QueueKeepsStale,
       QueueKeepsGone
  <2>2. ASSUME NEW u \in {"cbw", "sec"}, HandlerStep(u) PROVE StorageInv'
    <3>1. HandlerEffect /\ PlaceInv
      BY <2>2, HandlerEffects DEF StaleInv
    <3> QED BY <2>2, <3>1, HandlerKeepsTypes, HandlerKeepsOrphan, HandlerKeepsForget,
            HandlerKeepsStale, HandlerKeepsGone
  <2>3. CASE ErrorStep
    BY <2>3, ErrorKeepsTypes, ErrorKeepsOrphan, ErrorKeepsForget, ErrorKeepsStale,
       ErrorKeepsGone
  <2>4. CASE DeviceStep
    BY <2>4, DeviceKeepsTypes, DeviceKeepsOrphan, DeviceKeepsForget, DeviceKeepsStale,
       DeviceKeepsGone
  <2>5. CASE UNCHANGED vars
    BY <2>5, StutterKeeps
  <2>6. Next => \/ QueueStep \/ ErrorStep \/ DeviceStep
                \/ \E u \in {"cbw", "sec"} : HandlerStep(u)
    BY StepKinds
  <2> QED BY <2>1, <2>2, <2>3, <2>4, <2>5, <2>6
<1> QED BY StartHolds, <1>1, PTL

-----------------------------------------------------------------------------
(* UsbOneShot *)

\* What usb_disconnect has still to release.
Listed == {releases[i] : i \in DOMAIN releases}

\* What it releases, and what it leaves behind.
Released == {"cbw_urb", "cbw_buffer", "csw_urb", "csw_buffer", "inquiry_urb", "read_urb",
             "read_buffer", "write_urb", "write_buffer", "usb_device", "dev"}
Leftovers == {"lost_buffer", "inquiry_buffer"}

\* Before usb_probe there is nothing, and only a probe that succeeds starts work.
ProbeInv ==
    /\ o_phase = "new" => work = "none" /\ o_held = {}
    /\ work = "none" => o_phase \in {"new", "gone"}

\* The work item submits once, at its end; a transfer needs its endpoint open.
ShotFlight ==
    /\ work # "ended" => o_flight = {}
    /\ \A u \in o_flight : OneShot!Endpoint(u) \in open
    /\ \A u, v \in o_flight : u = v

\* The USB core has closed every endpoint before usb_disconnect.
ClosedInv == o_phase \in {"disconnecting", "gone"} /\ work # "none" => open = {}

\* Until then everything is there but the INQUIRY's urb and buffer, and these
\* until the CBW has arrived.
HeldInv ==
    o_phase = "bound" =>
        /\ OneShot!Allocations \ {"inquiry_urb", "inquiry_buffer"} \subseteq o_held
        /\ work # "ended" \/ o_flight \cap {"cbw", "inquiry"} # {} =>
             OneShot!Allocations \subseteq o_held

\* A work item that has not ended was overtaken by usb_disconnect.
OvertakenInv ==
    /\ o_phase \in {"disconnecting", "gone"} /\ work \notin {"none", "ended"} => overtaken
    /\ o_oops => overtaken

\* What is held is to be released, or left behind; a failed probe keeps the device.
ReleaseInv ==
    /\ releases \in Seq(Released)
    /\ o_phase = "disconnecting" => o_held \subseteq Listed \cup Leftovers
    /\ o_phase = "gone" => o_held \subseteq Leftovers \/ "dev" \in o_held

\* The inductive invariant.
ShotInv ==
    /\ OneShot!TypeOK /\ ProbeInv /\ ShotFlight /\ ClosedInv /\ HeldInv /\ OvertakenInv
    /\ ReleaseInv

-----------------------------------------------------------------------------
\* Acquired, as a set.
LEMMA ShotAllocations ==
    OneShot!Allocations =
        {"dev", "usb_device", "cbw_buffer", "cbw_urb", "csw_buffer", "csw_urb", "read_buffer",
         "read_urb", "lost_buffer", "inquiry_buffer", "inquiry_urb", "write_buffer", "write_urb"}
<1>1. 1..13 = {1, 2, 3, 4, 5, 6, 7, 8, 9, 10, 11, 12, 13}
  OBVIOUS
<1>2. OneShot!Allocations =
        {OneShot!Acquired[i] : i \in {1, 2, 3, 4, 5, 6, 7, 8, 9, 10, 11, 12, 13}}
  BY <1>1 DEF OneShot!Allocations
<1>3. /\ OneShot!Acquired[1] = "dev" /\ OneShot!Acquired[2] = "usb_device"
      /\ OneShot!Acquired[3] = "cbw_buffer" /\ OneShot!Acquired[4] = "cbw_urb"
      /\ OneShot!Acquired[5] = "csw_buffer" /\ OneShot!Acquired[6] = "csw_urb"
      /\ OneShot!Acquired[7] = "read_buffer" /\ OneShot!Acquired[8] = "read_urb"
      /\ OneShot!Acquired[9] = "lost_buffer" /\ OneShot!Acquired[10] = "inquiry_buffer"
      /\ OneShot!Acquired[11] = "inquiry_urb" /\ OneShot!Acquired[12] = "write_buffer"
      /\ OneShot!Acquired[13] = "write_urb"
  BY DEF OneShot!Acquired
<1> QED BY ZenonT(40), <1>2, <1>3

\* The memory of a transfer was allocated by usb_probe.
LEMMA MemoryAllocated ==
    ASSUME NEW u \in OneShot!Transfers
    PROVE  /\ OneShot!Memory(u) \subseteq OneShot!Allocations
           /\ u = "csw" => OneShot!Memory(u) \subseteq
                             OneShot!Allocations \ {"inquiry_urb", "inquiry_buffer"}
  BY ShotAllocations DEF OneShot!Memory, OneShot!Transfers

\* A probe that fails keeps the device or has nothing yet.
LEMMA FailedShot ==
    ASSUME NEW i \in OneShot!CanFail
    PROVE  /\ OneShot!AfterFailure(i) \subseteq OneShot!Allocations
           /\ OneShot!AfterFailure(i) = {} \/ "dev" \in OneShot!AfterFailure(i)
<1>1. i \in 1..14
  BY DEF OneShot!CanFail, OneShot!Acquired
<1>2. \A j \in 1..(i - 1) : j \in 1..13
  BY <1>1
<1>3. OneShot!AfterFailure(i) \subseteq OneShot!Allocations
  BY <1>2 DEF OneShot!AfterFailure, OneShot!Allocations
<1>4. CASE i = 1
  <2>1. 1..(i - 1) = {}
    BY <1>4
  <2> QED BY <1>3, <2>1 DEF OneShot!AfterFailure
<1>5. CASE i # 1
  <2>1. 1 \in 1..(i - 1) /\ OneShot!Acquired[1] = "dev"
    BY <1>1, <1>5 DEF OneShot!Acquired
  <2>2. OneShot!Acquired[2] = "usb_device"
    BY DEF OneShot!Acquired
  <2>3. ASSUME i # 2 PROVE OneShot!Acquired[i - 1] # "dev"
    <3>1. i - 1 \in {2, 3, 4, 5, 6, 7, 8, 9, 10, 11, 12, 13}
      BY <1>1, <1>5, <2>3
    <3>2. \A j \in {2, 3, 4, 5, 6, 7, 8, 9, 10, 11, 12, 13} : OneShot!Acquired[j] # "dev"
      <4>1. /\ OneShot!Acquired[2] # "dev" /\ OneShot!Acquired[3] # "dev"
            /\ OneShot!Acquired[4] # "dev" /\ OneShot!Acquired[5] # "dev"
            /\ OneShot!Acquired[6] # "dev" /\ OneShot!Acquired[7] # "dev"
            /\ OneShot!Acquired[8] # "dev" /\ OneShot!Acquired[9] # "dev"
            /\ OneShot!Acquired[10] # "dev" /\ OneShot!Acquired[11] # "dev"
            /\ OneShot!Acquired[12] # "dev" /\ OneShot!Acquired[13] # "dev"
        BY DEF OneShot!Acquired
      <4> QED BY <4>1
    <3> QED BY <3>1, <3>2
  <2> QED BY <1>3, <2>1, <2>2, <2>3 DEF OneShot!AfterFailure
<1> QED BY <1>4, <1>5

\* Releasing the first of the list leaves the rest of it.
LEMMA ReleaseFirst ==
    ASSUME releases \in Seq(Released), releases # << >>, releases' = Tail(releases)
    PROVE  releases' \in Seq(Released) /\ Listed \subseteq {Head(releases)} \cup Listed'
<1>1. releases' \in Seq(Released)
  OBVIOUS
<1>2. ASSUME NEW i \in DOMAIN releases, i # 1
      PROVE  i - 1 \in DOMAIN releases' /\ releases'[i - 1] = releases[i]
  BY <1>2
<1>3. Head(releases) = releases[1]
  OBVIOUS
<1> QED BY ZenonT(40), <1>1, <1>2, <1>3 DEF Listed

\* usb_clear_buffer_and_urb's list is one.
LEMMA ReleasesType == OneShot!Releases \in Seq(Released)
  BY SMTT(60) DEF OneShot!Releases, Released

\* What usb_disconnect releases is all but what it leaves behind.
LEMMA ReleasesAll ==
    ASSUME releases' = OneShot!Releases
    PROVE  /\ releases' \in Seq(Released)
           /\ OneShot!Allocations \subseteq Listed' \cup Leftovers
<1>1. OneShot!Releases \in Seq(Released)
  BY ReleasesType
<1>2. Len(OneShot!Releases) = 11
  BY DEF OneShot!Releases
<1>3. \A i \in 1..11 : OneShot!Releases[i] \in Listed'
  BY <1>1, <1>2 DEF Listed
<1>4. /\ OneShot!Releases[1] = "cbw_urb" /\ OneShot!Releases[2] = "cbw_buffer"
      /\ OneShot!Releases[3] = "csw_urb" /\ OneShot!Releases[4] = "csw_buffer"
      /\ OneShot!Releases[5] = "inquiry_urb"
      /\ OneShot!Releases[6] = "read_urb" /\ OneShot!Releases[7] = "read_buffer"
      /\ OneShot!Releases[8] = "write_urb" /\ OneShot!Releases[9] = "write_buffer"
      /\ OneShot!Releases[10] = "usb_device" /\ OneShot!Releases[11] = "dev"
  BY DEF OneShot!Releases
<1>5. Released \subseteq Listed'
  <2>1. /\ OneShot!Releases[1] \in Listed' /\ OneShot!Releases[2] \in Listed'
        /\ OneShot!Releases[3] \in Listed' /\ OneShot!Releases[4] \in Listed'
        /\ OneShot!Releases[5] \in Listed' /\ OneShot!Releases[6] \in Listed'
        /\ OneShot!Releases[7] \in Listed' /\ OneShot!Releases[8] \in Listed'
        /\ OneShot!Releases[9] \in Listed' /\ OneShot!Releases[10] \in Listed'
        /\ OneShot!Releases[11] \in Listed'
    BY <1>3
  <2> QED BY <2>1, <1>4 DEF Released
<1> QED BY <1>1, <1>5, ShotAllocations DEF Released, Leftovers

\* The initial state satisfies it.
LEMMA InitShot == OneShot!Init => ShotInv
<1> SUFFICES ASSUME OneShot!Init PROVE ShotInv
  OBVIOUS
<1> USE DEF OneShot!Init
<1>1. OneShot!TypeOK
  BY DEF OneShot!TypeOK
<1>2. ReleaseInv
  BY DEF ReleaseInv
<1> QED BY <1>1, <1>2 DEF ShotInv, ProbeInv, ShotFlight, ClosedInv, HeldInv, OvertakenInv

\* usb_probe.
LEMMA ProbeKeepsShot ==
    ASSUME ShotInv, OneShot!Probe
    PROVE  ShotInv'
<1> USE DEF ShotInv
<1>1. CASE OneShot!Probe
  <2>1. OneShot!TypeOK'
    BY <1>1, FailedShot DEF OneShot!Probe, OneShot!TypeOK
  <2>2. ProbeInv'
    BY <1>1 DEF OneShot!Probe, ProbeInv
  <2>3. ShotFlight'
    BY <1>1 DEF OneShot!Probe, ShotFlight, ProbeInv
  <2>4. ClosedInv'
    BY <1>1 DEF OneShot!Probe, ClosedInv, ProbeInv
  <2>5. HeldInv'
    BY <1>1 DEF OneShot!Probe, HeldInv, ProbeInv
  <2>6. OvertakenInv'
    BY <1>1 DEF OneShot!Probe, OvertakenInv, ProbeInv
  <2>7. ReleaseInv'
    BY <1>1, FailedShot DEF OneShot!Probe, ReleaseInv
  <2> QED BY <2>1, <2>2, <2>3, <2>4, <2>5, <2>6, <2>7
<1> QED BY <1>1

\* The work item.
LEMMA WorkKeepsShot ==
    ASSUME ShotInv, OneShot!WorkBegins \/ OneShot!WorkFills \/ OneShot!WorkSubmits
    PROVE  ShotInv'
<1> USE DEF ShotInv
<1>1. CASE OneShot!WorkBegins
  <2>1. OneShot!TypeOK'
    BY <1>1 DEF OneShot!WorkBegins, OneShot!TypeOK
  <2>2. ProbeInv'
    BY <1>1 DEF OneShot!WorkBegins, ProbeInv
  <2>3. ShotFlight'
    BY <1>1 DEF OneShot!WorkBegins, ShotFlight
  <2>4. ClosedInv'
    BY <1>1 DEF OneShot!WorkBegins, ClosedInv, OneShot!TypeOK
  <2>5. HeldInv'
    BY <1>1 DEF OneShot!WorkBegins, HeldInv
  <2>6. OvertakenInv'
    BY <1>1, ShotAllocations
      DEF OneShot!WorkBegins, OvertakenInv, ProbeInv, HeldInv, OneShot!TypeOK
  <2>7. ReleaseInv'
    BY <1>1 DEF OneShot!WorkBegins, ReleaseInv, Listed
  <2> QED BY <2>1, <2>2, <2>3, <2>4, <2>5, <2>6, <2>7
<1>2. CASE OneShot!WorkFills
  <2>1. OneShot!TypeOK'
    BY <1>2 DEF OneShot!WorkFills, OneShot!TypeOK
  <2>2. ProbeInv'
    BY <1>2 DEF OneShot!WorkFills, ProbeInv
  <2>3. ShotFlight'
    BY <1>2 DEF OneShot!WorkFills, ShotFlight
  <2>4. ClosedInv'
    BY <1>2 DEF OneShot!WorkFills, ClosedInv
  <2>5. HeldInv'
    BY <1>2 DEF OneShot!WorkFills, HeldInv
  <2>6. OvertakenInv'
    BY <1>2, MemoryAllocated
      DEF OneShot!WorkFills, OvertakenInv, ProbeInv, HeldInv, OneShot!TypeOK,
          OneShot!Transfers
  <2>7. ReleaseInv'
    BY <1>2 DEF OneShot!WorkFills, ReleaseInv, Listed
  <2> QED BY <2>1, <2>2, <2>3, <2>4, <2>5, <2>6, <2>7
<1>3. CASE OneShot!WorkSubmits
  <2>1. OneShot!TypeOK'
    BY <1>3 DEF OneShot!WorkSubmits, OneShot!TypeOK, OneShot!Transfers
  <2>2. ProbeInv'
    BY <1>3 DEF OneShot!WorkSubmits, ProbeInv
  <2>3. ShotFlight'
    BY <1>3 DEF OneShot!WorkSubmits, ShotFlight, OneShot!Endpoint
  <2>4. ClosedInv'
    BY <1>3 DEF OneShot!WorkSubmits, ClosedInv
  <2>5. HeldInv'
    BY <1>3 DEF OneShot!WorkSubmits, HeldInv, ShotFlight
  <2>6. OvertakenInv'
    BY <1>3, ShotAllocations
      DEF OneShot!WorkSubmits, OvertakenInv, ProbeInv, HeldInv, OneShot!TypeOK
  <2>7. ReleaseInv'
    BY <1>3 DEF OneShot!WorkSubmits, ReleaseInv, Listed
  <2> QED BY <2>1, <2>2, <2>3, <2>4, <2>5, <2>6, <2>7
<1> QED BY <1>1, <1>2, <1>3

\* The completion handlers.
LEMMA HandlersKeepShot ==
    ASSUME ShotInv, OneShot!CbwArrives \/ OneShot!DataArrives \/ OneShot!TransferEnds
    PROVE  ShotInv'
<1> USE DEF ShotInv
<1>1. CASE OneShot!CbwArrives
  <2>1. OneShot!TypeOK'
    BY <1>1 DEF OneShot!CbwArrives, OneShot!TypeOK, OneShot!Transfers
  <2>2. ProbeInv'
    BY <1>1 DEF OneShot!CbwArrives, ProbeInv
  <2>3. ShotFlight'
    BY <1>1 DEF OneShot!CbwArrives, ShotFlight, OneShot!Endpoint
  <2>4. ClosedInv'
    BY <1>1 DEF OneShot!CbwArrives, ClosedInv
  <2>5. HeldInv'
    BY <1>1 DEF OneShot!CbwArrives, HeldInv, ShotFlight
  <2>6. OvertakenInv'
    BY <1>1 DEF OneShot!CbwArrives, OvertakenInv
  <2>7. ReleaseInv'
    BY <1>1 DEF OneShot!CbwArrives, ReleaseInv, Listed, ShotFlight, ClosedInv, ProbeInv
  <2> QED BY <2>1, <2>2, <2>3, <2>4, <2>5, <2>6, <2>7
<1>2. CASE OneShot!DataArrives
  <2>1. OneShot!TypeOK'
    BY <1>2 DEF OneShot!DataArrives, OneShot!TypeOK, OneShot!Transfers
  <2>2. ProbeInv'
    BY <1>2 DEF OneShot!DataArrives, ProbeInv
  <2>3. ShotFlight'
    BY <1>2 DEF OneShot!DataArrives, ShotFlight, OneShot!Endpoint
  <2>4. ClosedInv'
    BY <1>2 DEF OneShot!DataArrives, ClosedInv
  <2>5. HeldInv'
    BY <1>2 DEF OneShot!DataArrives, HeldInv, ShotFlight
  <2>6. OvertakenInv'
    BY <1>2 DEF OneShot!DataArrives, OvertakenInv
  <2>7. ReleaseInv'
    BY <1>2 DEF OneShot!DataArrives, ReleaseInv, Listed
  <2> QED BY <2>1, <2>2, <2>3, <2>4, <2>5, <2>6, <2>7
<1>3. CASE OneShot!TransferEnds
  <2>1. OneShot!TypeOK'
    BY <1>3 DEF OneShot!TransferEnds, OneShot!TypeOK
  <2>2. ProbeInv'
    BY <1>3 DEF OneShot!TransferEnds, ProbeInv
  <2>3. ShotFlight'
    BY <1>3 DEF OneShot!TransferEnds, ShotFlight, OneShot!Endpoint
  <2>4. ClosedInv'
    BY <1>3 DEF OneShot!TransferEnds, ClosedInv
  <2>5. HeldInv'
    BY <1>3 DEF OneShot!TransferEnds, HeldInv, ShotFlight
  <2>6. OvertakenInv'
    BY <1>3 DEF OneShot!TransferEnds, OvertakenInv
  <2>7. ReleaseInv'
    BY <1>3 DEF OneShot!TransferEnds, ReleaseInv, Listed
  <2> QED BY <2>1, <2>2, <2>3, <2>4, <2>5, <2>6, <2>7
<1> QED BY <1>1, <1>2, <1>3

\* The USB core's closing and usb_disconnect.
LEMMA DisconnectKeepsShot ==
    ASSUME ShotInv,
           \/ \E e \in {"in", "out"} : OneShot!Closes(e)
           \/ OneShot!DisconnectBegins \/ OneShot!Release \/ OneShot!Disconnected
    PROVE  ShotInv'
<1> USE DEF ShotInv
<1>1. CASE \E e \in {"in", "out"} : OneShot!Closes(e)
  <2>1. OneShot!TypeOK'
    BY <1>1 DEF OneShot!Closes, OneShot!TypeOK
  <2>2. ProbeInv'
    BY <1>1 DEF OneShot!Closes, ProbeInv
  <2>3. ShotFlight'
    BY <1>1
      DEF OneShot!Closes, ShotFlight, OneShot!Endpoint, OneShot!TypeOK, OneShot!Transfers
  <2>4. ClosedInv'
    BY <1>1 DEF OneShot!Closes, ClosedInv
  <2>5. HeldInv'
    BY <1>1 DEF OneShot!Closes, HeldInv, ShotFlight
  <2>6. OvertakenInv'
    BY <1>1 DEF OneShot!Closes, OvertakenInv
  <2>7. ReleaseInv'
    BY <1>1 DEF OneShot!Closes, ReleaseInv, Listed
  <2> QED BY <2>1, <2>2, <2>3, <2>4, <2>5, <2>6, <2>7
<1>2. CASE OneShot!DisconnectBegins
  <2>1. OneShot!TypeOK'
    BY <1>2 DEF OneShot!DisconnectBegins, OneShot!TypeOK
  <2>2. ProbeInv'
    BY <1>2 DEF OneShot!DisconnectBegins, ProbeInv
  <2>3. ShotFlight'
    BY <1>2 DEF OneShot!DisconnectBegins, ShotFlight
  <2>4. ClosedInv'
    BY <1>2 DEF OneShot!DisconnectBegins, ClosedInv
  <2>5. HeldInv'
    BY <1>2 DEF OneShot!DisconnectBegins, HeldInv
  <2>6. OvertakenInv'
    BY <1>2 DEF OneShot!DisconnectBegins, OvertakenInv, OneShot!Running
  <2>7. ReleaseInv'
    BY <1>2, ReleasesAll DEF OneShot!DisconnectBegins, ReleaseInv, OneShot!TypeOK
  <2> QED BY <2>1, <2>2, <2>3, <2>4, <2>5, <2>6, <2>7
<1>3. CASE OneShot!Release
  <2>1. OneShot!TypeOK'
    BY <1>3 DEF OneShot!Release, OneShot!TypeOK
  <2>2. ProbeInv'
    BY <1>3 DEF OneShot!Release, ProbeInv, OneShot!TypeOK
  <2>3. ShotFlight'
    BY <1>3 DEF OneShot!Release, ShotFlight
  <2>4. ClosedInv'
    BY <1>3 DEF OneShot!Release, ClosedInv
  <2>5. HeldInv'
    BY <1>3 DEF OneShot!Release, HeldInv
  <2>6. OvertakenInv'
    BY <1>3 DEF OneShot!Release, OvertakenInv
  <2>7. ReleaseInv'
    BY <1>3, ReleaseFirst DEF OneShot!Release, ReleaseInv
  <2> QED BY <2>1, <2>2, <2>3, <2>4, <2>5, <2>6, <2>7
<1>4. CASE OneShot!Disconnected
  <2>1. OneShot!TypeOK'
    BY <1>4 DEF OneShot!Disconnected, OneShot!TypeOK
  <2>2. ProbeInv'
    BY <1>4 DEF OneShot!Disconnected, ProbeInv
  <2>3. ShotFlight'
    BY <1>4 DEF OneShot!Disconnected, ShotFlight
  <2>4. ClosedInv'
    BY <1>4 DEF OneShot!Disconnected, ClosedInv
  <2>5. HeldInv'
    BY <1>4 DEF OneShot!Disconnected, HeldInv
  <2>6. OvertakenInv'
    BY <1>4 DEF OneShot!Disconnected, OvertakenInv
  <2>7. ReleaseInv'
    BY <1>4 DEF OneShot!Disconnected, ReleaseInv, Listed
  <2> QED BY <2>1, <2>2, <2>3, <2>4, <2>5, <2>6, <2>7
<1> QED BY <1>1, <1>2, <1>3, <1>4

\* The inductive invariant holds in every state.
THEOREM ShotInductive == OneShot!Spec => []ShotInv
<1>1. ShotInv /\ [OneShot!Next]_OneShot!vars => ShotInv'
  <2> SUFFICES ASSUME ShotInv, [OneShot!Next]_OneShot!vars PROVE ShotInv'
    OBVIOUS
  <2>1. CASE OneShot!Next
    BY <2>1, ProbeKeepsShot, WorkKeepsShot, HandlersKeepShot, DisconnectKeepsShot
      DEF OneShot!Next
  <2>2. CASE UNCHANGED OneShot!vars
    <3> USE <2>2 DEF OneShot!vars, ShotInv
    <3>1. OneShot!TypeOK'
      BY DEF OneShot!TypeOK
    <3>2. ReleaseInv' /\ HeldInv'
      BY DEF ReleaseInv, HeldInv, Listed
    <3> QED BY <3>1, <3>2 DEF ProbeInv, ShotFlight, ClosedInv, OvertakenInv
  <2> QED BY <2>1, <2>2
<1> QED BY InitShot, <1>1, PTL DEF OneShot!Spec

\* Every variable has its type.
THEOREM ShotTypes == OneShot!Spec => []OneShot!TypeOK
<1>1. ShotInv => OneShot!TypeOK
  BY DEF ShotInv
<1> QED BY ShotInductive, <1>1, PTL

\* Freed memory is used only by a work item that usb_disconnect has overtaken, and by no
\* transfer.
THEOREM WorkUseIsExplained == OneShot!Spec => []OneShot!WorkUseExplained
<1>1. ShotInv => OneShot!WorkUseExplained
  <2> SUFFICES ASSUME ShotInv, NEW u \in o_flight PROVE OneShot!Memory(u) \subseteq o_held
    BY DEF ShotInv, OvertakenInv, OneShot!WorkUseExplained
  <2>1. u \in OneShot!Transfers
    BY DEF ShotInv, OneShot!TypeOK
  <2>2. o_phase = "bound"
    BY DEF ShotInv, OneShot!TypeOK, ShotFlight, ClosedInv, ProbeInv
  <2>3. CASE u = "csw"
    BY <2>1, <2>2, <2>3, MemoryAllocated DEF ShotInv, HeldInv
  <2>4. CASE u # "csw"
    <3>1. o_flight \cap {"cbw", "inquiry"} # {}
      BY <2>1, <2>4 DEF OneShot!Transfers
    <3> QED BY <2>1, <2>2, <3>1, MemoryAllocated DEF ShotInv, HeldInv
  <2> QED BY <2>3, <2>4
<1> QED BY ShotInductive, <1>1, PTL

\* usb_disconnect leaves two buffers and no transfer.
THEOREM LeavesTwoBuffers == OneShot!Spec => []OneShot!LeftBehind
<1>1. ShotInv => OneShot!LeftBehind
  BY DEF ShotInv, ReleaseInv, ClosedInv, ShotFlight, ProbeInv, Leftovers, OneShot!LeftBehind
<1> QED BY ShotInductive, <1>1, PTL

-----------------------------------------------------------------------------
(* The two drivers of MCUsb: an interface has one of them. *)

\* A step of either driver leaves the other's state alone.
LEMMA LabSteps == [MCNext]_all => [Next]_vars /\ [OneShot!Next]_(OneShot!vars)
  BY DEF MCNext, Storage, Shot, all, vars, o_vars, OneShot!vars

\* Whatever is true of both drivers is true of the interface that has one of them.
LEMMA BothDrivers == MCSpec => Start /\ [][Next]_vars /\ OneShot!Spec
<1>1. MCInit => Start /\ OneShot!Init
  BY DEF MCInit, Start
<1> QED BY <1>1, LabSteps, PTL DEF MCSpec, OneShot!Spec

\* Every variable of the storage driver has its type.
THEOREM StorageTypes == MCSpec => []TypeOK
<1>1. StorageInv => TypeOK
  BY DEF StorageInv
<1> QED BY StorageInductive, BothDrivers, <1>1, PTL

\* A completion handler finds no command only after a device reset, or csw_callback, has
\* cleared active_scmd under a transfer; eh_abort never causes it (usbv1.c:356).
THEOREM OrphansAreExplained == MCSpec => []OrphanExplained
<1>1. StorageInv => OrphanExplained
  BY DEF StorageInv, OrphanInv
<1> QED BY StorageInductive, BothDrivers, <1>1, PTL

\* A handler answers the command its transfer was submitted for, unless it has answered
\* before or came of one of the named troubles: cbw_callback had gone on after a REQUEST
\* SENSE, eh_abort had met the second CBW, or the error handler had been content too early.
THEOREM StaleAnswersAreExplained == MCSpec => []StaleAnswerExplained
<1>1. StorageInv => StaleAnswerExplained
  BY DEF StorageInv, StaleInv, Blamed, Troubled, StaleAnswerExplained
<1> QED BY StorageInductive, BothDrivers, <1>1, PTL

\* A command that is out, unanswered and not timed out has a transfer in flight or a
\* handler at work, but for the one that reads and the one whose CBW was skipped.
THEOREM NobodyIsForgotten == MCSpec => []NobodyForgotten
<1>1. StorageInv => NobodyForgotten
  BY DEF StorageInv, ForgetInv, Awaited, WillAnswer, Owing, GoingOn, NobodyForgotten
<1> QED BY StorageInductive, BothDrivers, <1>1, PTL

\* Freed memory is used only by a work item that usb_disconnect has overtaken.
THEOREM WorkUsesExplained == MCSpec => []WorkUseExplained
<1>1. OneShot!WorkUseExplained => WorkUseExplained
  BY DEF WorkUseExplained
<1> QED BY WorkUseIsExplained, BothDrivers, <1>1, PTL

\* What a driver that is gone has left behind.
THEOREM BothLeaveThis == MCSpec => []WhatIsLeft
<1>1. StorageInv => LeftBehind
  BY DEF StorageInv, GoneInv
<1>2. LeftBehind /\ OneShot!LeftBehind => WhatIsLeft
  BY DEF WhatIsLeft
<1> QED BY StorageInductive, LeavesTwoBuffers, BothDrivers, <1>1, <1>2, PTL
=============================================================================
