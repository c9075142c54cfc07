----------------------------- MODULE UsbOneShot -----------------------------
(***************************************************************************)
(* k_usb_module-26/usb.c: usb_probe schedules a work item that sleeps 300  *)
(* ms and submits one INQUIRY to the stick; the completion handlers submit *)
(* the data and the status transfer that follow.  usb_disconnect releases  *)
(* everything, the work item's structure included, and does not ask        *)
(* whether the work item has run.                                          *)
(*                                                                         *)
(* The other cases of cbw_callback are for commands that                   *)
(* init_usb_protocols has commented out.                                   *)
(***************************************************************************)
EXTENDS Integers, Sequences

\* usb_alloc_buffer_and_urb's acquisitions in their order, and usb_probe's.
Acquired == <<"dev", "usb_device", "cbw_buffer", "cbw_urb", "csw_buffer", "csw_urb",
              "read_buffer", "read_urb", "lost_buffer", "inquiry_buffer", "inquiry_urb",
              "write_buffer", "write_urb", "endpoints">>
Allocations == {Acquired[i] : i \in 1..13}

Transfers == {"cbw", "inquiry", "csw"}
Endpoint(u) == IF u = "cbw" THEN "out" ELSE "in"

\* What a transfer in flight needs.
Memory(u) ==
    {"dev"} \cup CASE u = "cbw" -> {"cbw_buffer", "cbw_urb"}
                   [] u = "inquiry" -> {"inquiry_buffer", "inquiry_urb"}
                   [] u = "csw" -> {"csw_buffer", "csw_urb"}

VARIABLES
    phase,     \* "new", "bound", "disconnecting", "gone"
    held,      \* what is allocated and not released
    open,      \* the endpoints that take transfers
    flight,    \* the transfers submitted and not completed
    work,      \* the work item: "none", "queued", "asleep", "filled", "ended"
    releases,  \* what usb_disconnect has still to release
    oops,      \* NULL or freed memory was used
    overtaken  \* history: usb_disconnect began before the work item had ended

vars == <<phase, held, open, flight, work, releases, oops, overtaken>>

Init ==
    /\ phase = "new" /\ held = {} /\ open = {"in", "out"}
    /\ flight = {} /\ work = "none" /\ releases = << >>
    /\ oops = FALSE /\ overtaken = FALSE

Running == ~oops

-----------------------------------------------------------------------------
(* usb_probe *)

\* A urb that cannot be allocated takes its own buffer along; the rest stays,
\* and nobody knows it any more.
AfterFailure(i) ==
    LET before == {Acquired[j] : j \in 1..(i - 1)}
    IN  IF Acquired[i] \in {"cbw_urb", "csw_urb", "read_urb", "inquiry_urb", "write_urb"}
        THEN before \ {Acquired[i - 1]} ELSE before

\* kmalloc's 36 bytes of the inquiry buffer and usb_get_dev are not tested.
CanFail == DOMAIN Acquired \ {2, 9}

Probe ==
    /\ Running /\ phase = "new"
    /\ \/ phase' = "bound" /\ held' = Allocations /\ work' = "queued"
       \/ \E i \in CanFail :
            phase' = "gone" /\ held' = AfterFailure(i) /\ UNCHANGED work
    /\ UNCHANGED <<open, flight, releases, oops, overtaken>>

-----------------------------------------------------------------------------
(* init_usb_protocols *)

\* msleep(300)
WorkBegins ==
    /\ Running /\ work = "queued"
    /\ IF "dev" \in held THEN work' = "asleep" /\ UNCHANGED oops
       ELSE oops' = TRUE /\ UNCHANGED work
    /\ UNCHANGED <<phase, held, open, flight, releases, overtaken>>

\* The CBW is written, the urb prepared ...
WorkFills ==
    /\ Running /\ work = "asleep"
    /\ IF Memory("cbw") \subseteq held THEN work' = "filled" /\ UNCHANGED oops
       ELSE oops' = TRUE /\ UNCHANGED work
    /\ UNCHANGED <<phase, held, open, flight, releases, overtaken>>

\* ... and submitted.
WorkSubmits ==
    /\ Running /\ work = "filled"
    /\ IF {"dev", "cbw_urb"} \subseteq held
       THEN /\ work' = "ended"
            /\ flight' \in {flight} \cup (IF "out" \in open THEN {flight \cup {"cbw"}} ELSE {})
            /\ UNCHANGED oops
       ELSE oops' = TRUE /\ UNCHANGED <<work, flight>>
    /\ UNCHANGED <<phase, held, open, releases, overtaken>>

-----------------------------------------------------------------------------
(* The completion handlers.  A transfer ends well or with an error; an error *)
(* is printed and ends the exchange.                                         *)

\* Mutant: the buffer is released whether the urb is submitted or not.
InquiryBegins ==
    /\ Running /\ "cbw" \in flight
    /\ \/ "in" \in open /\ flight' = {"inquiry"} /\ held' = held \ {"inquiry_buffer"}
       \/ flight' = {} /\ held' = held \ {"inquiry_urb", "inquiry_buffer"}
    /\ UNCHANGED <<phase, open, work, releases, oops, overtaken>>

\* cbw_callback: inquiry_urb, which is freed when it cannot be submitted, and
\* its buffer with it (by kfree, though it is the USB core's).
CbwArrives ==
    /\ Running /\ "cbw" \in flight
    /\ \/ "in" \in open /\ flight' = {"inquiry"} /\ UNCHANGED held
       \/ flight' = {} /\ held' = held \ {"inquiry_urb", "inquiry_buffer"}
    /\ UNCHANGED <<phase, open, work, releases, oops, overtaken>>

\* data_callback: csw_urb.
DataArrives ==
    /\ Running /\ "inquiry" \in flight
    /\ \/ "in" \in open /\ flight' = {"csw"}
       \/ flight' = {}
    /\ UNCHANGED <<phase, held, open, work, releases, oops, overtaken>>

\* csw_callback, and every handler when urb->status says error.
TransferEnds ==
    /\ Running
    /\ \E u \in flight : flight' = flight \ {u}
    /\ UNCHANGED <<phase, held, open, work, releases, oops, overtaken>>

-----------------------------------------------------------------------------
(* usb_disconnect *)

\* Before it is called, the USB core closes the endpoints one after the other
\* and gives their transfers back.
Closes(e) ==
    /\ Running /\ phase = "bound" /\ e \in open
    /\ open' = open \ {e}
    /\ flight' = {u \in flight : Endpoint(u) # e}
    /\ UNCHANGED <<phase, held, work, releases, oops, overtaken>>

\* usb_clear_buffer_and_urb's order and the end of usb_disconnect.  Mutant: the
\* second half is forgotten.
ReleasesHalf ==
    <<"cbw_urb", "cbw_buffer", "csw_urb", "csw_buffer", "inquiry_urb", "usb_device", "dev">>

\* inquiry_buffer's branch tests and frees csw_buffer once more.
Releases ==
    <<"cbw_urb", "cbw_buffer", "csw_urb", "csw_buffer", "inquiry_urb", "read_urb", "read_buffer",
      "write_urb", "write_buffer", "usb_device", "dev">>

DisconnectBegins ==
    /\ Running /\ phase = "bound" /\ open = {}
    /\ phase' = "disconnecting"
    /\ releases' = Releases
    /\ overtaken' = (work # "ended")
    /\ UNCHANGED <<held, open, flight, work, oops>>

\* usb_kill_urb finds nothing in flight any more.
Release ==
    /\ Running /\ phase = "disconnecting" /\ releases # << >>
    /\ held' = held \ {Head(releases)}
    /\ releases' = Tail(releases)
    /\ UNCHANGED <<phase, open, flight, work, oops, overtaken>>

Disconnected ==
    /\ Running /\ phase = "disconnecting" /\ releases = << >>
    /\ phase' = "gone"
    /\ UNCHANGED <<held, open, flight, work, releases, oops, overtaken>>

-----------------------------------------------------------------------------
Next ==
    \/ Probe
    \/ WorkBegins \/ WorkFills \/ WorkSubmits
    \/ CbwArrives \/ DataArrives \/ TransferEnds
    \/ \E e \in {"in", "out"} : Closes(e)
    \/ DisconnectBegins \/ Release \/ Disconnected

Spec == Init /\ [][Next]_vars

-----------------------------------------------------------------------------
(* Properties *)

\* Every variable has its type.
TypeOK ==
    /\ phase \in {"new", "bound", "disconnecting", "gone"}
    /\ held \subseteq Allocations
    /\ open \subseteq {"in", "out"}
    /\ flight \subseteq Transfers
    /\ work \in {"none", "queued", "asleep", "filled", "ended"}
    /\ oops \in BOOLEAN /\ overtaken \in BOOLEAN

\* NULL or freed memory is used only by a work item the disconnect has
\* overtaken; and the memory of a transfer in flight is never released, though
\* usb_disconnect runs against a work item that may still submit, and
\* cbw_callback frees what it could not submit.
WorkUseExplained ==
    /\ oops => overtaken
    /\ \A u \in flight : Memory(u) \subseteq held

\* What usb_disconnect leaves for ever is the buffer of INQUIRY and the one its
\* pointer held before, no transfer.  (A failed probe leaves all it had.)
LeftBehind ==
    phase = "gone" /\ "dev" \notin held =>
        held \subseteq {"lost_buffer", "inquiry_buffer"} /\ flight = {}
=============================================================================
