----------------------------- MODULE UsbStorage -----------------------------
(***************************************************************************)
(* k_usb_module-26/usbv1.c: a SCSI host for one USB stick, bulk-only.      *)
(* queue_command wraps the midlayer's command into a CBW and submits it;   *)
(* the completion handlers of the transfers answer it, some of them        *)
(* without asking the stick.  The midlayer gives one command at a time     *)
(* (can_queue 1), always in the same scsi_cmnd; when it is not answered in *)
(* time it calls eh_abort, the second time the resets, after each of which *)
(* its error handler sends TEST UNIT READY in the same scsi_cmnd.          *)
(*                                                                         *)
(* The midlayer and the USB core are not in the repository: their part is  *)
(* what the driver registers for and calls.                                *)
(***************************************************************************)
EXTENDS Integers, Sequences

CONSTANTS
    MaxIssues     \* bound on the calls of queue_command

ASSUME MaxIssuesAssumption == MaxIssues \in Nat

\* What a command is to the driver: INQUIRY and REQUEST SENSE it answers
\* itself, "tur" stands for every command without data, "in" and "out" for
\* the other commands that read and write.
Kinds == {"inquiry", "tur", "sense", "in", "out"}
Urbs == {"cbw", "sec", "data", "csw"}

\* ... and what its CBW is to cbw_callback.
Opcode(kind) == IF kind \in {"inquiry", "sense"} THEN kind ELSE "other"
Opcodes == {"inquiry", "sense", "other"}

VARIABLES
    phase,     \* "new", "bound", "flushing", "removing", "gone"
    held,      \* what the driver has allocated and not released
    active,    \* active_scmd # NULL
    shape,     \* bufferlength and direction: "none", "in", "out"
    count,     \* count: 1 when the second CBW is to be used
    opcode,    \* the command in each CBW buffer, "none": not yet written
    filled,    \* the urbs that were given a transfer buffer, of "sec" and "csw"
    place,     \* where queue_command is: "copy", "fill", "submit"
    locked,    \* usb_lock
    flight,    \* the transfers submitted and not completed
    serial,    \* history: the call of queue_command each was submitted for, or 0
    handler,   \* a completion handler that has more to do: "none", or where it is
    context,   \* its transfer ("cbw" when there is none)
    answered,  \* it has called scsi_done
    own,       \* history: the call of queue_command its transfer was submitted for
    mid,       \* where the midlayer's command is
    command,   \* what it is
    timeouts,  \* how often it has timed out since it was last given up
    level,     \* the error handler's next reset, "none": it rests
    done,      \* the error handler's command has been answered
    known,     \* an INQUIRY has been answered: the stick has a device node
    issues,    \* history: calls of queue_command
    stale,     \* history: a handler has answered another call than its own
    left,      \* history: the ways in which the driver came out of step
    oops       \* "none", or what crashed or hung the kernel

drv == <<active, shape, count, opcode, filled, place>>
urbs == <<flight, serial>>
scsi == <<mid, command, timeouts, level, done, known, issues>>
callback == <<handler, context, answered, own>>
history == <<stale, left>>
vars == <<phase, held, drv, locked, urbs, callback, scsi, history, oops>>

ErrorHandling == level # "none"

Running == oops = "none"

\* While the error handler's TEST UNIT READY is out, the scsi_cmnd has no
\* scatterlist; before and after, it is the command that timed out.
Checking == ErrorHandling /\ mid \notin {"ready", "between", "reset", "resetting"}
Kind == IF Checking THEN "tur" ELSE command

Shape(kind) == CASE kind = "tur" -> "none" [] kind = "out" -> "out" [] OTHER -> "in"

Pairs == {"cbw_urb", "cbw_buffer", "csw_urb", "csw_buffer"}

\* usb_probe's acquisitions in their order.
Acquired == <<"host", "usb_device", "cbw_urb", "cbw_buffer", "sec_urb", "sec_buffer",
              "csw_urb", "csw_buffer", "data_urb", "endpoints", "add_host">>
Allocations == {Acquired[i] : i \in 1..9}

Init ==
    /\ phase = "new" /\ held = {}
    /\ active = FALSE /\ shape = "none" /\ count = 0
    /\ opcode = [u \in {"cbw", "sec"} |-> "none"]
    /\ filled = {} /\ place = "copy" /\ locked = FALSE
    /\ flight = {} /\ serial = [u \in Urbs |-> 0]
    /\ handler = "none" /\ context = "cbw" /\ answered = FALSE /\ own = 0
    /\ mid = "idle" /\ command = "inquiry" /\ timeouts = 0
    /\ level = "none" /\ done = FALSE /\ known = FALSE
    /\ issues = 0 /\ stale = FALSE /\ left = {}
    /\ oops = "none"

-----------------------------------------------------------------------------
(* usb_probe *)

\* deallocate_usb_resource: the second CBW is not in it, and the data
\* transfer only together with a buffer.  Mutant: no csw_urb either.
DeallocatedForgets(h) ==
    h \ ({"cbw_urb", "cbw_buffer"} \cup
         IF "data_buffer" \in h THEN {"data_urb", "data_buffer"} ELSE {})

Deallocated(h) ==
    h \ (Pairs \cup IF "data_buffer" \in h THEN {"data_urb", "data_buffer"} ELSE {})

\* What stays when the i-th acquisition fails: a failed buffer gives up its own
\* urb, nothing gives up what came before, and only a failed scsi_add_host
\* releases all it can.
AfterFailure(i) ==
    LET before == {Acquired[j] : j \in 1..(i - 1)} \ {"endpoints"}
    IN  CASE Acquired[i] \in {"cbw_buffer", "sec_buffer", "csw_buffer"} ->
               before \ {Acquired[i - 1]}
          [] Acquired[i] = "add_host" -> Deallocated(before) \ {"host"}
          [] OTHER -> before

\* Nobody else knows the host before scsi_scan_host: one step.
Probe ==
    /\ Running /\ phase = "new"
    /\ \/ phase' = "bound" /\ held' = Allocations
       \/ \E i \in DOMAIN Acquired : phase' = "gone" /\ held' = AfterFailure(i)
    /\ UNCHANGED <<drv, locked, urbs, callback, scsi, history, oops>>

-----------------------------------------------------------------------------
(* scsi_done: the first call for a command that is out answers it; the       *)
(* error handler's own command it marks done, any other call is ignored.     *)

\* The call that the transfer u of a handler was submitted for.
Served(u) == IF handler = "none" THEN serial[u] ELSE own

Answer(u, good) ==
    LET counts == ~ErrorHandling /\ mid \in {"begun", "sent"}
    IN  /\ mid' \in CASE counts /\ mid = "begun" -> {"answered"}
                      [] counts /\ mid = "sent" -> IF good THEN {"idle"} ELSE {"idle", "ready"}
                      [] OTHER -> {mid}
        /\ done' = (done \/ ErrorHandling)
        /\ known' = (known \/ (counts /\ good /\ command = "inquiry"))
        /\ stale' = (stale \/ (counts /\ Served(u) # issues))
        /\ left' = IF counts /\ answered THEN left \cup {"again"} ELSE left
        /\ UNCHANGED <<command, timeouts, level, issues>>

NoAnswer == UNCHANGED <<scsi, history>>

-----------------------------------------------------------------------------
(* queue_command *)

\* The scan sends INQUIRY; the rest comes through the device node.
NewCommand ==
    /\ Running /\ phase \in {"bound", "flushing"} /\ mid = "idle"
    /\ \E kind \in IF known THEN Kinds ELSE {"inquiry"} : command' = kind
    /\ mid' = "ready"
    /\ timeouts' = 0
    /\ UNCHANGED <<phase, held, drv, locked, urbs, callback, level, done, known, issues,
                   history, oops>>

\* Up to the two allocations.  The first one's address is overwritten at once,
\* and what the command before left in data_buffer is not released.
QueueBegins ==
    /\ Running /\ mid = "ready" /\ issues < MaxIssues
    /\ issues' = issues + 1
    /\ mid' = "begun"
    /\ active' = TRUE
    /\ LET kind == IF ErrorHandling THEN "tur" ELSE command
       IN  /\ shape' = Shape(kind)
           /\ held' = IF Shape(kind) = "none" THEN held
                      ELSE held \cup {"data_buffer", "coherent_buffer"} \cup
                           (IF "data_buffer" \in held THEN {"old_data_buffer"} ELSE {})
    /\ UNCHANGED <<phase, count, opcode, filled, place, locked, urbs, callback, command,
                   timeouts, level, done, known, history, oops>>

\* return -ENOMEM: the midlayer will call again, data_buffer is NULL.
QueueNoMemory ==
    /\ Running /\ mid = "ready" /\ ~ErrorHandling /\ issues < MaxIssues
    /\ Shape(command) # "none"
    /\ issues' = issues + 1
    /\ active' = TRUE
    /\ shape' = Shape(command)
    /\ held' = (held \ {"data_buffer"}) \cup {"coherent_buffer"} \cup
               (IF "data_buffer" \in held THEN {"old_data_buffer"} ELSE {})
    /\ UNCHANGED <<phase, count, opcode, filled, place, locked, urbs, callback, mid, command,
                   timeouts, level, done, known, history, oops>>

\* queue_command reads count for each of its next steps, and a handler may
\* store 1 between them.
Cbw == IF count = 0 THEN "cbw" ELSE "sec"

Queueing(p) == Running /\ mid \in {"begun", "answered"} /\ place = p

\* The CBW into its buffer ...
QueueCopies ==
    /\ Queueing("copy")
    /\ opcode' = [opcode EXCEPT ![Cbw] = Opcode(Kind)]
    /\ place' = "fill"
    /\ UNCHANGED <<phase, held, active, shape, count, filled, locked, urbs, callback, scsi,
                   history, oops>>

\* ... the buffer into the urb ...
QueueFills ==
    /\ Queueing("fill")
    /\ filled' = filled \cup ({Cbw} \ {"cbw"})
    /\ place' = "submit"
    /\ UNCHANGED <<phase, held, active, shape, count, opcode, locked, urbs, callback, scsi,
                   history, oops>>

\* usb_submit_urb
CanSubmit(u) == phase = "bound" /\ u \notin flight
Submitted(u) ==
    /\ CanSubmit(u)
    /\ flight' = flight \cup {u}
    /\ serial' = [serial EXCEPT ![u] = issues]

\* ... and off it goes.
QueueSubmits ==
    /\ Queueing("submit")
    /\ Cbw = "sec" => "sec" \in filled
    /\ Submitted(Cbw)
    /\ place' = "copy"
    /\ mid' \in IF mid = "begun" THEN {"sent"} ELSE {"idle", "ready"}
    /\ UNCHANGED <<phase, held, active, shape, count, opcode, filled, locked, callback, command,
                   timeouts, level, done, known, issues, history, oops>>

\* scsi_done and return -ENOMEM: answered, and yet the midlayer calls again.
QueueFails ==
    /\ Queueing("submit")
    /\ place' = "copy"
    /\ IF active
       THEN /\ mid' = IF ErrorHandling THEN "between" ELSE "ready"
            /\ done' = (done \/ ErrorHandling)
            /\ UNCHANGED oops
       ELSE oops' = "no_command" /\ UNCHANGED <<mid, done>>
    /\ UNCHANGED <<phase, held, active, shape, count, opcode, filled, locked, urbs, callback,
                   command, timeouts, level, known, issues, history>>

\* Retries are exceeded, or the device is being removed.
GivesUp ==
    /\ Running /\ mid = "ready" /\ ~ErrorHandling
    /\ mid' = "idle"
    /\ UNCHANGED <<phase, held, drv, locked, urbs, callback, command, timeouts, level, done,
                   known, issues, history, oops>>
-----------------------------------------------------------------------------
(* The completion handlers, one at a time.  A transfer completes well as     *)
(* long as the device is there, or with an error at any time.                *)

Completes(u) == Running /\ handler = "none" /\ u \in flight
Completed(u) == flight' = flight \ {u} /\ serial' = [serial EXCEPT ![u] = 0]
Arrives(u) == Completes(u) /\ phase = "bound"

Crash(reason) ==
    /\ oops' = reason
    /\ UNCHANGED <<phase, held, drv, locked, urbs, callback, scsi, history>>

\* cbw_callback and data_callback read active_scmd->sdb and its scatterlist
\* first.
HasData == active /\ Kind # "tur"

HandlerCrashes(u) ==
    /\ Completes(u)
    /\ ~HasData
    /\ Crash(IF active THEN "no_scatterlist" ELSE "no_command")

\* urb->status < 0.  usb_clear_halt sleeps: in a completion handler that may
\* be the end.
CbwError(u) ==
    /\ Completes(u)
    /\ HasData
    /\ Completed(u)
    /\ \/ Answer(u, FALSE) /\ UNCHANGED oops
       \/ oops' = "sleeps" /\ NoAnswer
    /\ UNCHANGED <<phase, held, drv, locked, callback>>

\* What the handler of u does next is a step of its own ...
GoesOn(where, u) == handler' = where /\ context' = u /\ own' = Served(u)

\* ... or nothing.
Returns == handler' = "none" /\ answered' = FALSE /\ own' = 0 /\ context' = "cbw"

\* The end of data_callback: a CSW is made up, and csw_callback called for
\* csw_urb, whose transfer_buffer it reads.
FakeStatus(u) ==
    IF active /\ "csw" \in filled
    THEN Answer(u, TRUE) /\ GoesOn("clear", u) /\ answered' = TRUE /\ UNCHANGED oops
    ELSE oops' = (IF active THEN "no_status_buffer" ELSE "no_command")
         /\ NoAnswer /\ UNCHANGED callback

\* A buffer never written holds what its memory held before.
Reads(u) == IF opcode[u] = "none" THEN Opcodes ELSE {opcode[u]}

\* No CBW in an unwritten buffer: the handler returns, and answers nobody.
BadSignature(u) ==
    /\ Arrives(u)
    /\ HasData /\ opcode[u] = "none"
    /\ Completed(u)
    /\ UNCHANGED <<phase, held, drv, locked, callback, scsi, history, oops>>

\* case 0x12: memcpy(buf, fake_inquiry_response, len), and data_callback(data_urb).
Inquiry(u) ==
    /\ Arrives(u)
    /\ HasData /\ "inquiry" \in Reads(u)
    /\ Completed(u)
    /\ FakeStatus(u)
    /\ UNCHANGED <<phase, held, drv, locked>>

\* The other commands go on to the data phase, REQUEST SENSE when it has been
\* answered: what follows then reads what the next queue_command has stored.
CbwArrives(u) ==
    /\ Arrives(u)
    /\ HasData
    /\ \E code \in Reads(u) \ {"inquiry"} :
          /\ answered' = (code = "sense")
          /\ IF code = "sense" THEN Answer(u, TRUE) ELSE NoAnswer
    /\ Completed(u)
    /\ GoesOn("length", u)
    /\ UNCHANGED <<phase, held, drv, locked, oops>>

\* dev->bufferlength > 0 ...
TestsLength ==
    /\ Running /\ handler = "length"
    /\ handler' = IF shape = "none" THEN "csw" ELSE "direction"
    /\ UNCHANGED <<phase, held, drv, locked, urbs, context, answered, own, scsi, history, oops>>

\* ... and dev->direction: the next command may have none.
TestsDirection ==
    /\ Running /\ handler = "direction"
    /\ IF shape = "none" THEN Returns
       ELSE /\ handler' = IF shape = "in" THEN "count" ELSE "data"
            /\ UNCHANGED <<context, answered, own>>
    /\ UNCHANGED <<phase, held, drv, locked, urbs, scsi, history, oops>>

\* Mutant: a transfer that cannot be submitted is not answered.
SubmitOrForget(v) ==
    \/ /\ CanSubmit(v)
       /\ flight' = flight \cup {v}
       /\ serial' = [serial EXCEPT ![v] = own]
       /\ left' = IF answered THEN left \cup {"sense"} ELSE left
       /\ UNCHANGED <<scsi, stale, oops>>
    \/ NoAnswer /\ UNCHANGED <<urbs, oops>>

\* The transfer v that follows, or scsi_done because it cannot be submitted.
SubmitOrAnswer(v) ==
    \/ /\ CanSubmit(v)
       /\ flight' = flight \cup {v}
       /\ serial' = [serial EXCEPT ![v] = own]
       /\ left' = IF answered THEN left \cup {"sense"} ELSE left
       /\ UNCHANGED <<scsi, stale, oops>>
    \/ active /\ Answer(context, FALSE) /\ UNCHANGED <<urbs, oops>>
    \/ ~active /\ oops' = "no_command" /\ NoAnswer /\ UNCHANGED urbs

\* No data: the status transfer.
StatusPhase ==
    /\ Running /\ handler = "csw"
    /\ filled' = filled \cup {"csw"}
    /\ SubmitOrAnswer("csw")
    /\ Returns
    /\ UNCHANGED <<phase, held, active, shape, count, opcode, place, locked>>

\* Data to read: nothing is submitted.
ReadPhase ==
    /\ Running /\ handler = "count"
    /\ count' = 1
    /\ Returns
    /\ UNCHANGED <<phase, held, active, shape, opcode, filled, place, locked, urbs, scsi,
                   history, oops>>

\* Data to write.
WritePhase ==
    /\ Running /\ handler = "data"
    /\ SubmitOrAnswer("data")
    /\ Returns
    /\ UNCHANGED <<phase, held, drv, locked>>

CbwCallback(u) ==
    HandlerCrashes(u) \/ CbwError(u) \/ BadSignature(u) \/ Inquiry(u) \/ CbwArrives(u)

CbwEnds == TestsLength \/ TestsDirection \/ StatusPhase \/ ReadPhase \/ WritePhase

\* data_callback, called by the USB core.
DataArrives ==
    /\ Arrives("data")
    /\ HasData
    /\ Completed("data")
    /\ FakeStatus("data")
    /\ UNCHANGED <<phase, held, drv, locked>>

\* A failed transfer is answered, and then answered again as if it had not.
DataError ==
    /\ Completes("data")
    /\ HasData
    /\ Completed("data")
    /\ Answer("data", FALSE)
    /\ GoesOn("fake", "data") /\ answered' = TRUE
    /\ UNCHANGED <<phase, held, drv, locked, oops>>

DataErrorEnds ==
    /\ Running /\ handler = "fake"
    /\ FakeStatus(context)
    /\ UNCHANGED <<phase, held, drv, locked, urbs>>

\* csw_callback from its test of the signature on.
Status(u) ==
    \/ active /\ Answer(u, TRUE) /\ GoesOn("clear", u) /\ answered' = TRUE /\ UNCHANGED oops
    \/ active /\ Answer(u, FALSE) /\ Returns /\ UNCHANGED oops
    \/ ~active /\ oops' = "no_command" /\ NoAnswer /\ UNCHANGED callback

CswArrives ==
    /\ Arrives("csw")
    /\ Completed("csw")
    /\ Status("csw")
    /\ UNCHANGED <<phase, held, drv, locked>>

\* urb->status < 0: answered, and the handler goes on to what csw_buffer holds.
CswError ==
    /\ Completes("csw")
    /\ IF active
       THEN /\ Completed("csw")
            /\ Answer("csw", FALSE)
            /\ GoesOn("status", "csw") /\ answered' = TRUE
            /\ UNCHANGED <<phase, held, drv, locked, oops>>
       ELSE Crash("no_command")

CswErrorEnds ==
    /\ Running /\ handler = "status"
    /\ Status(context)
    /\ UNCHANGED <<phase, held, drv, locked, urbs>>

\* dev->active_scmd = NULL, after scsi_done: the next command may have begun.
Clear ==
    /\ Running /\ handler = "clear"
    /\ active' = FALSE
    /\ Returns
    /\ left' = IF mid \in {"begun", "answered", "sent"} \/ flight # {}
                THEN left \cup {"handler"} ELSE left
    /\ UNCHANGED <<phase, held, shape, count, opcode, filled, place, locked, urbs, scsi, stale,
                   oops>>

HandlerEnds == CbwEnds \/ DataErrorEnds \/ CswErrorEnds \/ Clear

\* A transfer given back with an error: killed, or its endpoint flushed.
Fails(u) ==
    CASE u \in {"cbw", "sec"} -> HandlerCrashes(u) \/ CbwError(u)
      [] u = "data" -> HandlerCrashes(u) \/ DataError
      [] u = "csw" -> CswError

Callback ==
    \/ \E u \in {"cbw", "sec"} : CbwCallback(u)
    \/ HandlerCrashes("data") \/ DataArrives \/ DataError \/ CswArrives \/ CswError

-----------------------------------------------------------------------------
(* Timeouts, eh_abort and the resets *)

\* The first timeout asks for eh_abort, the second, and one of the error
\* handler's command, for the error handler's next means.
Timeout ==
    /\ Running /\ mid = "sent" /\ ~done
    /\ \/ /\ timeouts = 0 \/ ErrorHandling
          /\ mid' = "kill_cbw"
          /\ timeouts' = IF ErrorHandling THEN timeouts ELSE 1
          /\ left' = IF "sec" \in flight \/ (handler # "none" /\ context = "sec")
                      THEN left \cup {"abort"} ELSE left
          /\ UNCHANGED level
       \/ /\ timeouts = 1 /\ ~ErrorHandling
          /\ mid' = "reset"
          /\ level' = "device"
          /\ timeouts' = 0
          /\ UNCHANGED left
    /\ UNCHANGED <<phase, held, drv, locked, urbs, callback, command, done, known, issues,
                   stale, oops>>

\* The next means, until the device is offline.
Escalates ==
    /\ mid' = IF level = "host" THEN "offline" ELSE "reset"
    /\ level' = CASE level = "device" -> "bus" [] level = "bus" -> "host" [] OTHER -> "none"

Killed(m) == CASE m = "kill_cbw" -> "cbw" [] m = "kill_csw" -> "csw" [] m = "kill_data" -> "data"
Killing == mid \in {"kill_cbw", "kill_csw", "kill_data"}

\* usb_kill_urb gives a transfer in flight back, and waits for its handler.
Waited == Killed(mid) \notin flight /\ (handler # "none" => context # Killed(mid))
Kills == Killing /\ Killed(mid) \in flight /\ Fails(Killed(mid))

\* Mutant: active_scmd is cleared first.
AbortKillsForgetful ==
    /\ Running /\ Killing /\ Waited
    /\ active' = FALSE
    /\ mid' = CASE mid = "kill_cbw" -> "kill_csw" [] mid = "kill_csw" -> "kill_data"
                [] OTHER -> "aborted"
    /\ UNCHANGED <<phase, held, shape, count, opcode, filled, place, locked, urbs, callback,
                   command, timeouts, level, done, known, issues, history, oops>>

\* Mutant: data_urb is not killed.
AbortKillsTwo ==
    /\ Running /\ Killing /\ Waited
    /\ mid' = CASE mid = "kill_cbw" -> "kill_csw" [] OTHER -> "aborted"
    /\ UNCHANGED <<phase, held, drv, locked, urbs, callback, command, timeouts, level, done,
                   known, issues, history, oops>>

AbortKills ==
    /\ Running /\ Killing /\ Waited
    /\ mid' = CASE mid = "kill_cbw" -> "kill_csw" [] mid = "kill_csw" -> "kill_data"
                [] OTHER -> "aborted"
    /\ UNCHANGED <<phase, held, drv, locked, urbs, callback, command, timeouts, level, done,
                   known, issues, history, oops>>

\* scsi_done, which nobody waits for, and SUCCESS: the command is given up or
\* sent again.
AbortReturns ==
    /\ Running /\ mid = "aborted"
    /\ IF ErrorHandling THEN Escalates
       ELSE mid' \in {"idle", "ready"} /\ UNCHANGED level
    /\ UNCHANGED <<phase, held, drv, locked, urbs, callback, command, timeouts, done, known,
                   issues, history, oops>>

\* active_scmd = NULL, and the midlayer tries whether the device is ready.
Recovered ==
    /\ active' = FALSE
    /\ left' = IF flight # {} \/ handler # "none" THEN left \cup {"reset"} ELSE left
    /\ mid' = "ready"
    /\ done' = FALSE
    /\ UNCHANGED level

\* usb_eh_dev_reset: the transfers are not touched.
DeviceReset ==
    /\ Running /\ mid = "reset" /\ level = "device"
    /\ \/ Recovered
       \/ Escalates /\ UNCHANGED <<active, done, left>>
    /\ UNCHANGED <<phase, held, shape, count, opcode, filled, place, locked, urbs, callback,
                   command, timeouts, known, issues, stale, oops>>

\* usb_eh_bus_reset and host_reset: usb_reset_device calls pre_reset ...
PreReset ==
    /\ Running /\ mid = "reset" /\ level \in {"bus", "host"}
    /\ ~locked
    /\ locked' = TRUE
    /\ mid' = "resetting"
    /\ UNCHANGED <<phase, held, drv, urbs, callback, command, timeouts, level, done, known,
                   issues, history, oops>>

\* ... gives every transfer back ...
ResetFlushes == \E u \in flight : mid = "resetting" /\ Fails(u)

\* Mutant: usb_lock is kept.
UnlockedNot == UNCHANGED locked

\* ... and calls post_reset, whatever became of the reset.
Unlocked == locked' = FALSE

PostReset ==
    /\ Running /\ mid = "resetting" /\ handler = "none"
    /\ Unlocked
    /\ \/ flight = {} /\ Recovered
       \/ Escalates /\ UNCHANGED <<active, done, left>>
    /\ UNCHANGED <<phase, held, shape, count, opcode, filled, place, urbs, callback, command,
                   timeouts, known, issues, stale, oops>>

\* The error handler's command was not taken: it tries again, for a while.
TriesAgain ==
    /\ Running /\ mid = "between"
    /\ mid' = "ready"
    /\ UNCHANGED <<phase, held, drv, locked, urbs, callback, command, timeouts, level, done,
                   known, issues, history, oops>>

StopsTrying ==
    /\ Running /\ ErrorHandling
    /\ mid = "between" \/ (mid = "ready" /\ issues = MaxIssues)
    /\ Escalates
    /\ UNCHANGED <<phase, held, drv, locked, urbs, callback, command, timeouts, done, known,
                   issues, history, oops>>

\* Its command is done, now or since it was not taken.
Checked ==
    /\ Running /\ ErrorHandling /\ mid = "sent" /\ done
    /\ \/ mid' \in {"idle", "ready"} /\ level' = "none"
       \/ Escalates
    /\ done' = FALSE
    /\ left' = IF flight # {} \/ handler # "none" THEN left \cup {"check"} ELSE left
    /\ UNCHANGED <<phase, held, drv, locked, urbs, callback, command, timeouts, known,
                   issues, stale, oops>>

-----------------------------------------------------------------------------
(* usb_disconnect *)

\* The USB core disables the endpoints and gives every transfer back ...
Unplugged ==
    /\ Running /\ phase = "bound"
    /\ phase' = "flushing"
    /\ UNCHANGED <<held, drv, locked, urbs, callback, scsi, history, oops>>

UnplugFlushes == \E u \in flight : phase = "flushing" /\ Fails(u)

Flushed ==
    /\ Running /\ phase = "flushing" /\ flight = {} /\ handler = "none"
    /\ phase' = "removing"
    /\ UNCHANGED <<held, drv, locked, urbs, callback, scsi, history, oops>>

\* ... scsi_remove_host waits for the midlayer, and the rest is released.
Disconnect ==
    /\ Running /\ phase = "removing"
    /\ mid \in {"idle", "offline"}
    /\ phase' = "gone"
    /\ held' = Deallocated(held) \ {"host", "usb_device"}
    /\ UNCHANGED <<drv, locked, urbs, callback, scsi, history, oops>>

-----------------------------------------------------------------------------
Midlayer ==
    \/ QueueCopies \/ QueueFills \/ QueueSubmits \/ QueueFails \/ HandlerEnds
    \/ Timeout \/ Kills \/ AbortKills \/ AbortReturns
    \/ DeviceReset \/ PreReset \/ ResetFlushes \/ PostReset
    \/ TriesAgain \/ StopsTrying \/ Checked
    \/ (ErrorHandling /\ QueueBegins)

Next ==
    \/ Probe \/ NewCommand \/ QueueBegins \/ QueueNoMemory \/ GivesUp
    \/ Callback \/ Midlayer
    \/ Unplugged \/ UnplugFlushes \/ Flushed \/ Disconnect

Spec == Init /\ [][Next]_vars

\* Processes run and timers expire; new commands come or do not, and the
\* device may never complete a transfer by itself.
FairSpec == Spec /\ WF_vars(Midlayer)

-----------------------------------------------------------------------------
(* Properties *)

\* Every variable has its type.
TypeOK ==
    /\ phase \in {"new", "bound", "flushing", "removing", "gone"}
    /\ held \subseteq Allocations \cup {"data_buffer", "coherent_buffer", "old_data_buffer"}
    /\ active \in BOOLEAN /\ shape \in {"none", "in", "out"} /\ count \in 0..1
    /\ opcode \in [{"cbw", "sec"} -> Opcodes \cup {"none"}] /\ filled \subseteq {"sec", "csw"}
    /\ place \in {"copy", "fill", "submit"} /\ locked \in BOOLEAN
    /\ flight \subseteq Urbs /\ serial \in [Urbs -> 0..MaxIssues]
    /\ handler \in {"none", "length", "direction", "count", "data", "csw", "fake", "status",
                    "clear"}
    /\ context \in Urbs /\ answered \in BOOLEAN /\ own \in 0..MaxIssues
    /\ mid \in {"idle", "ready", "begun", "answered", "sent", "kill_cbw", "kill_csw",
                "kill_data", "aborted", "reset", "resetting", "between", "offline"}
    /\ command \in Kinds /\ timeouts \in 0..1
    /\ level \in {"none", "device", "bus", "host"}
    /\ done \in BOOLEAN /\ known \in BOOLEAN /\ issues \in 0..MaxIssues
    /\ stale \in BOOLEAN
    /\ left \subseteq {"handler", "reset", "abort", "check", "sense", "again"}
    /\ oops \in {"none", "no_command", "no_scatterlist", "no_status_buffer", "sleeps"}

\* A completion handler finds no command only after active_scmd was cleared
\* under a transfer: by a device reset, which leaves transfers in flight, or by
\* csw_callback, which clears it after it has given the command back, when the
\* next one may have begun.  eh_abort never causes it.
OrphanExplained == oops = "no_command" => left \cap {"handler", "reset"} # {}

\* A handler answers the command its transfer was submitted for, unless it has
\* answered before (data_callback and csw_callback go on after an error,
\* cbw_callback after a REQUEST SENSE), or came of trouble: cbw_callback had
\* submitted a transfer for the REQUEST SENSE it had answered, eh_abort had met
\* the second CBW, which it does not kill, or the error handler had been content
\* while a transfer was in flight - one that a device reset had left, or its own
\* TEST UNIT READY, whose first submission had failed and answered it.  The
\* first CBW, data_urb and csw_urb never outlive an abort.
StaleAnswerExplained == stale => left \cap {"again", "sense", "abort", "check"} # {}

\* A command that is out, unanswered and not timed out has a transfer in flight
\* or a handler at work - except a command that reads, whose data phase is
\* commented out (usbv1.c:556), and one whose CBW was written into the first
\* buffer and the second buffer sent, unwritten, since a handler stored count
\* in between.
NobodyForgotten ==
    Running /\ mid = "sent" /\ ~done /\ flight = {} /\ handler = "none" =>
        \/ ~ErrorHandling /\ command = "in"
        \/ "sec" \in filled /\ opcode["sec"] = "none"

\* A host that is given up takes its CBW and its CSW along, and no transfer is
\* in flight any more.  (The second CBW stays, and all of a failed probe that
\* does not come as far as scsi_add_host.)
LeftBehind ==
    phase = "gone" /\ "host" \notin held =>
        held \cap (Pairs \cup {"data_buffer"}) = {} /\ flight = {}

\* The midlayer waits for the driver, not for a new command or a retry.
Busy == mid \notin {"idle", "offline"} /\ (mid = "ready" => ErrorHandling)

\* A command the driver was given comes back to the midlayer, or the kernel has
\* crashed: through abort, the resets and their lock, though a device may keep
\* every transfer for ever.
CommandEnds == Busy ~> ~Busy \/ ~Running

\* The comment at usbv1.c:504 says data_callback is called by hand "to manully
\* trigger csw tranaction for complete bot protocol": so an INQUIRY whose CBW
\* has arrived gets through csw_callback.
InquiryCompletes == oops # "no_status_buffer"
=============================================================================
