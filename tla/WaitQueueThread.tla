--------------------------- MODULE WaitQueueThread ---------------------------
(***************************************************************************)
(* k_wait_queues-10/wait_queue_module.c: a kernel thread sleeps on the     *)
(* wait queue wq until wait_queue_flag is nonzero.  my_read sets the flag  *)
(* to 1, the exit function sets it to 2, the thread sets it back to 0;     *)
(* nothing orders these stores.                                            *)
(*                                                                         *)
(* wait_event_interruptible is modelled by its steps: test the condition,  *)
(* join the queue, test again, sleep until a wake_up.  A kernel thread     *)
(* receives no signal.  The data my_read moves is the business of          *)
(* CharBuffer: here a read either stops short (end of file, fault) or goes *)
(* through to the flag.                                                    *)
(***************************************************************************)
EXTENDS Integers

CONSTANTS
    Readers,    \* processes that call read(2)
    MaxReads    \* bound on the reads that reach the flag, for TLC

VARIABLES
    flag,        \* wait_queue_flag
    read_count,  \* read_count
    tpc,         \* where wait_function stands
    rpc,         \* where each my_read stands
    xpc,         \* where hello_exit stands
    signals,     \* history: reads that set the flag
    caught       \* history: where the exit's store of 2 found the thread

vars == <<flag, read_count, tpc, rpc, xpc, signals, caught>>

ThreadPcs == {"check", "enqueue", "recheck", "sleep", "test", "count", "reset",
              "return", "stopped", "oops"}

Init ==
    /\ flag = 0
    /\ read_count = 0
    /\ tpc = "check"
    /\ rpc = [r \in Readers |-> "idle"]
    /\ xpc = "loaded"
    /\ signals = 0
    /\ caught = "none"

-----------------------------------------------------------------------------
(* wait_function *)

\* wait_event_interruptible tests its condition before it touches the queue.
FirstCheck ==
    /\ tpc = "check"
    /\ tpc' = IF flag # 0 THEN "test" ELSE "enqueue"
    /\ UNCHANGED <<flag, read_count, rpc, xpc, signals, caught>>

\* prepare_to_wait: from here on a wake_up reaches the thread.
Enqueue ==
    /\ tpc = "enqueue"
    /\ tpc' = "recheck"
    /\ UNCHANGED <<flag, read_count, rpc, xpc, signals, caught>>

\* Mutant: the thread sleeps on its first look at the flag.
SleepUnchecked ==
    /\ tpc = "recheck"
    /\ tpc' = "sleep"
    /\ UNCHANGED <<flag, read_count, rpc, xpc, signals, caught>>

\* The condition again, in the loop; false means schedule().
Recheck ==
    /\ tpc = "recheck"
    /\ tpc' = IF flag # 0 THEN "test" ELSE "sleep"
    /\ UNCHANGED <<flag, read_count, rpc, xpc, signals, caught>>

\* if(wait_queue_flag == 2)
TestStop ==
    /\ tpc = "test"
    /\ tpc' = IF flag = 2 THEN "return" ELSE "count"
    /\ UNCHANGED <<flag, read_count, rpc, xpc, signals, caught>>

\* return 0: the thread leaves the module's text for good.
Return ==
    /\ tpc = "return"
    /\ tpc' = "stopped"
    /\ UNCHANGED <<flag, read_count, rpc, xpc, signals, caught>>

\* ++read_count
Count ==
    /\ tpc = "count"
    /\ read_count' = read_count + 1
    /\ tpc' = "reset"
    /\ UNCHANGED <<flag, rpc, xpc, signals, caught>>

\* wait_queue_flag = 0, whatever was stored there since the test.
Reset ==
    /\ tpc = "reset"
    /\ flag' = 0
    /\ tpc' = "check"
    /\ UNCHANGED <<read_count, rpc, xpc, signals, caught>>

\* The module is gone and the thread's next instruction was in its text: an
\* oops.  Only a thread that sleeps in schedule(), with nobody left to wake it,
\* never gets there.
RunFreedText ==
    /\ xpc = "unloaded"
    /\ tpc \notin {"sleep", "stopped", "oops"}
    /\ tpc' = "oops"
    /\ UNCHANGED <<flag, read_count, rpc, xpc, signals, caught>>

\* wake_up_interruptible(&wq): a sleeping thread tests its condition again.
WakeUp == tpc' = IF tpc = "sleep" THEN "recheck" ELSE tpc

-----------------------------------------------------------------------------
(* my_read *)

\* A read that ends before line 204: end of file or -EFAULT.
ReadStopsShort(r) ==
    /\ rpc[r] = "idle"
    /\ xpc = "loaded"
    /\ UNCHANGED vars

\* wait_queue_flag = 1
SetFlag(r) ==
    /\ rpc[r] = "idle"
    /\ xpc = "loaded"
    /\ signals < MaxReads
    /\ flag' = 1
    /\ signals' = signals + 1
    /\ rpc' = [rpc EXCEPT ![r] = "wake"]
    /\ UNCHANGED <<read_count, tpc, xpc, caught>>

\* wake_up_interruptible(&wq); return length;
WakeAndReturn(r) ==
    /\ rpc[r] = "wake"
    /\ WakeUp
    /\ rpc' = [rpc EXCEPT ![r] = "idle"]
    /\ UNCHANGED <<flag, read_count, xpc, signals, caught>>

-----------------------------------------------------------------------------
(* hello_exit: fops.owner keeps it from running while a file is open, hence *)
(* while a read is in progress.                                             *)

\* Mutant: the exit raises the flag the way a read does.
ExitSetFlagOne ==
    /\ xpc = "loaded"
    /\ \A r \in Readers : rpc[r] = "idle"
    /\ flag' = 1
    /\ xpc' = "wake"
    /\ caught' = tpc
    /\ UNCHANGED <<read_count, tpc, rpc, signals>>

\* wait_queue_flag = 2
ExitSetFlag ==
    /\ xpc = "loaded"
    /\ \A r \in Readers : rpc[r] = "idle"
    /\ flag' = 2
    /\ xpc' = "wake"
    /\ caught' = tpc
    /\ UNCHANGED <<read_count, tpc, rpc, signals>>

\* Mutant: the exit forgets the wake_up.
ExitNoWake ==
    /\ xpc = "wake"
    /\ xpc' = "destroy"
    /\ UNCHANGED <<flag, read_count, tpc, rpc, signals, caught>>

\* wake_up_interruptible(&wq)
ExitWake ==
    /\ xpc = "wake"
    /\ WakeUp
    /\ xpc' = "destroy"
    /\ UNCHANGED <<flag, read_count, rpc, signals, caught>>

\* device_destroy ... unregister_chrdev_region, and the module's text is freed.
\* Nothing here waits for the thread.
ExitDestroy ==
    /\ xpc = "destroy"
    /\ xpc' = "unloaded"
    /\ UNCHANGED <<flag, read_count, tpc, rpc, signals, caught>>

-----------------------------------------------------------------------------
RunText ==
    /\ xpc # "unloaded"
    /\ FirstCheck \/ Enqueue \/ Recheck \/ TestStop \/ Return \/ Count \/ Reset

ThreadStep == RunText \/ RunFreedText

ReaderStep(r) == ReadStopsShort(r) \/ SetFlag(r) \/ WakeAndReturn(r)

ExitStep == ExitSetFlag \/ ExitWake \/ ExitDestroy

Next == ThreadStep \/ ExitStep \/ \E r \in Readers : ReaderStep(r)

Spec == Init /\ [][Next]_vars

\* The scheduler runs the thread, a process inside read(2) or delete_module(2)
\* until it blocks; nobody has to read or to unload.
FairSpec ==
    /\ Spec
    /\ WF_vars(ThreadStep)
    /\ WF_vars(ExitWake \/ ExitDestroy)
    /\ \A r \in Readers : WF_vars(WakeAndReturn(r))

-----------------------------------------------------------------------------
(* Properties *)

\* Every variable has its type.
TypeOK ==
    /\ flag \in {0, 1, 2}
    /\ read_count \in Nat
    /\ tpc \in ThreadPcs
    /\ rpc \in [Readers -> {"idle", "wake"}]
    /\ xpc \in {"loaded", "wake", "destroy", "unloaded"}
    /\ signals \in Nat
    /\ caught \in ThreadPcs \cup {"none"}

\* The thread is never asleep on a nonzero flag unless a wake_up for it is
\* still to come: neither a read nor the exit can slip between its test of the
\* condition and its sleep.
NoMissedWakeup ==
    tpc = "sleep" /\ flag # 0 =>
        xpc = "wake" \/ \E r \in Readers : rpc[r] = "wake"

\* read_count never exceeds the number of reads that raised the flag, and the
\* exit's 2 is never counted as a read.
CountsReadsOnly == read_count <= signals

\* Windows in which the thread has tested the flag and not yet cleared it.
InService == {"count", "reset"}

\* The exit's 2 stays in the flag for the thread to find, unless the exit came
\* while the thread was between its test and its store of 0: then the store
\* wipes the 2 out.
StopKept ==
    caught \notin InService \cup {"none"} /\ tpc # "stopped" => flag = 2

\* An unload begun outside that window never leaves the thread asleep: it comes
\* to its end, by its return if it gets there before the exit function frees the
\* text, which waits for no thread, and else by running into the freed text.  In
\* the window the order is lost, and the thread never returns.
UnloadStopsThread ==
    /\ xpc = "wake" /\ caught \notin InService ~> tpc \in {"stopped", "oops"}
    /\ [](caught \in InService => tpc # "stopped")
=============================================================================
