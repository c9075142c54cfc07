-------------------------------- MODULE MCUsb --------------------------------
(***************************************************************************)
(* The two drivers of k_usb_module-26, one at a time: both bind to every   *)
(* bulk-only storage interface, and an interface has one driver.  `lab'    *)
(* says which; the other's variables stand still.                          *)
(***************************************************************************)
EXTENDS UsbStorage

VARIABLES lab, o_phase, o_held, open, o_flight, work, releases, o_oops, overtaken

OneShot == INSTANCE UsbOneShot
    WITH phase <- o_phase, held <- o_held, flight <- o_flight, oops <- o_oops

o_vars == <<o_phase, o_held, open, o_flight, work, releases, o_oops, overtaken>>
all == <<lab, vars, o_vars>>

\* A later state of the first driver, histories aside: an INQUIRY has been
\* answered, and nothing is going on.  It is reached with five calls of
\* queue_command: two timeouts, a device reset, a TEST UNIT READY whose CBW
\* arrives when the error handler has given it up and fills csw_urb, and an
\* INQUIRY.
Settled ==
    /\ phase = "bound"
    /\ held = Allocations \cup {"data_buffer", "coherent_buffer", "old_data_buffer"}
    /\ active = FALSE /\ shape = "in" /\ count = 0
    /\ opcode = [u \in {"cbw", "sec"} |-> IF u = "cbw" THEN "inquiry" ELSE "none"]
    /\ filled = {"csw"} /\ place = "copy" /\ locked = FALSE
    /\ flight = {} /\ serial = [u \in Urbs |-> 0]
    /\ handler = "none" /\ context = "cbw" /\ answered = FALSE /\ own = 0
    /\ mid = "idle" /\ command = "inquiry" /\ timeouts = 0
    /\ level = "none" /\ done = FALSE /\ known = TRUE
    /\ issues = 0 /\ stale = FALSE /\ left = {}
    /\ oops = "none"

MCInit ==
    /\ OneShot!Init
    /\ \/ lab = "usbv1" /\ (Init \/ Settled)
       \/ lab = "usb" /\ Init

Storage(A) == lab = "usbv1" /\ A /\ UNCHANGED <<lab, o_vars>>
Shot(A) == lab = "usb" /\ A /\ UNCHANGED <<lab, vars>>

MCNext == Storage(Next) \/ Shot(OneShot!Next)

\* The fairness of UsbStorage.
MCSpec == MCInit /\ [][MCNext]_all /\ WF_all(Storage(Midlayer))

\* WorkUseExplained of UsbOneShot: freed memory is used only by a work item
\* that usb_disconnect has overtaken (usb.c:673).
WorkUseExplained == OneShot!WorkUseExplained

\* What both drivers leave behind (usbv1.c:1014, usb.c:929).
WhatIsLeft == LeftBehind /\ OneShot!LeftBehind
=============================================================================
