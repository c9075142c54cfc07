-------------------------- MODULE CompletionThread --------------------------
(***************************************************************************)
(* k_completion_module-21/completion_module.c: the thread waits for the    *)
(* completion completion_work; my_read and the exit function store their   *)
(* reason in wait_flag (1 and 2) and then do                               *)
(*                                                                         *)
(*     if(!completion_done(&completion_work)) complete(&completion_work);  *)
(*                                                                         *)
(* in two steps that other processes can come between.                     *)
(***************************************************************************)
EXTENDS Integers, FiniteSets

CONSTANTS
    Readers,    \* processes that call read(2)
    MaxReads    \* bound on the reads that reach the flag, for TLC

VARIABLES
    wait_flag,  \* wait_flag
    done,       \* completion_work.done: completes not yet waited for
    tpc,        \* where wait_function stands
    rpc,        \* where each my_read stands
    xpc,        \* where hello_exit stands
    signals,    \* history: reads that set the flag
    passes,     \* history: times the thread took a completion for a read
    caught      \* history: where the exit's store of 2 found the thread

vars == <<wait_flag, done, tpc, rpc, xpc, signals, passes, caught>>

ThreadPcs == {"call", "wait", "test", "reset", "stop", "return", "stopped", "oops"}

Init ==
    /\ wait_flag = 0
    /\ done = 0
    /\ tpc = "call"
    /\ rpc = [r \in Readers |-> "idle"]
    /\ xpc = "loaded"
    /\ signals = 0
    /\ passes = 0
    /\ caught = "none"

-----------------------------------------------------------------------------
(* wait_function *)

\* The top of the loop: the thread calls wait_for_completion and is in the
\* kernel's text until that returns.
Call ==
    /\ tpc = "call"
    /\ tpc' = "wait"
    /\ UNCHANGED <<wait_flag, done, rpc, xpc, signals, passes, caught>>

\* Mutant: the completion is not used up (complete_all instead of complete).
WaitKeepsDone ==
    /\ tpc = "wait"
    /\ done > 0
    /\ tpc' = "test"
    /\ UNCHANGED <<wait_flag, done, rpc, xpc, signals, passes, caught>>

\* wait_for_completion returns and uses one completion up.
WaitForCompletion ==
    /\ tpc = "wait"
    /\ done > 0
    /\ done' = done - 1
    /\ tpc' = "test"
    /\ UNCHANGED <<wait_flag, rpc, xpc, signals, passes, caught>>

\* if(wait_flag == 2)
TestStop ==
    /\ tpc = "test"
    /\ IF wait_flag = 2
       THEN tpc' = "stop" /\ passes' = passes
       ELSE tpc' = "reset" /\ passes' = passes + 1
    /\ UNCHANGED <<wait_flag, done, rpc, xpc, signals, caught>>

\* wait_flag = 0
Stop ==
    /\ tpc = "stop"
    /\ wait_flag' = 0
    /\ tpc' = "return"
    /\ UNCHANGED <<done, rpc, xpc, signals, passes, caught>>

\* return 0: the thread leaves the module's text for good.
Return ==
    /\ tpc = "return"
    /\ tpc' = "stopped"
    /\ UNCHANGED <<wait_flag, done, rpc, xpc, signals, passes, caught>>

\* wait_flag = 0, whatever was stored there since the test.
Reset ==
    /\ tpc = "reset"
    /\ wait_flag' = 0
    /\ tpc' = "call"
    /\ UNCHANGED <<done, rpc, xpc, signals, passes, caught>>

\* The module is gone and the thread's next instruction was in its text, or it
\* comes back there from wait_for_completion: an oops.  Only a thread that waits
\* for a completion nobody is left to give never gets there.
RunFreedText ==
    /\ xpc = "unloaded"
    /\ tpc \notin {"stopped", "oops"}
    /\ tpc = "wait" => done > 0
    /\ tpc' = "oops"
    /\ UNCHANGED <<wait_flag, done, rpc, xpc, signals, passes, caught>>

-----------------------------------------------------------------------------
(* my_read, from the store of its reason to its return *)

\* A read that ends before line 214: end of file or -EFAULT.
ReadStopsShort(r) ==
    /\ rpc[r] = "idle"
    /\ xpc = "loaded"
    /\ UNCHANGED vars

\* wait_flag = 1
SetFlag(r) ==
    /\ rpc[r] = "idle"
    /\ xpc = "loaded"
    /\ signals < MaxReads
    /\ wait_flag' = 1
    /\ signals' = signals + 1
    /\ rpc' = [rpc EXCEPT ![r] = "check"]
    /\ UNCHANGED <<done, tpc, xpc, passes, caught>>

\* Mutant: the test is inverted.
CheckDoneInverted(r) ==
    /\ rpc[r] = "check"
    /\ rpc' = [rpc EXCEPT ![r] = IF done # 0 THEN "complete" ELSE "idle"]
    /\ UNCHANGED <<wait_flag, done, tpc, xpc, signals, passes, caught>>

\* if(!completion_done(&completion_work)): otherwise the read is over.
CheckDone(r) ==
    /\ rpc[r] = "check"
    /\ rpc' = [rpc EXCEPT ![r] = IF done = 0 THEN "complete" ELSE "idle"]
    /\ UNCHANGED <<wait_flag, done, tpc, xpc, signals, passes, caught>>

\* complete(&completion_work)
Complete(r) ==
    /\ rpc[r] = "complete"
    /\ done' = done + 1
    /\ rpc' = [rpc EXCEPT ![r] = "idle"]
    /\ UNCHANGED <<wait_flag, tpc, xpc, signals, passes, caught>>

-----------------------------------------------------------------------------
(* hello_exit, which no open file lets run *)

\* wait_flag = 2
ExitSetFlag ==
    /\ xpc = "loaded"
    /\ \A r \in Readers : rpc[r] = "idle"
    /\ wait_flag' = 2
    /\ xpc' = "check"
    /\ caught' = tpc
    /\ UNCHANGED <<done, tpc, rpc, signals, passes>>

\* if(!completion_done(&completion_work))
ExitCheckDone ==
    /\ xpc = "check"
    /\ xpc' = IF done = 0 THEN "complete" ELSE "destroy"
    /\ UNCHANGED <<wait_flag, done, tpc, rpc, signals, passes, caught>>

\* Mutant: the exit never completes.
ExitNoComplete ==
    /\ xpc = "complete"
    /\ xpc' = "destroy"
    /\ UNCHANGED <<wait_flag, done, tpc, rpc, signals, passes, caught>>

\* complete(&completion_work)
ExitComplete ==
    /\ xpc = "complete"
    /\ done' = done + 1
    /\ xpc' = "destroy"
    /\ UNCHANGED <<wait_flag, tpc, rpc, signals, passes, caught>>

\* device_destroy ... unregister_chrdev_region, and the module's text is freed.
\* Nothing here waits for the thread.
ExitDestroy ==
    /\ xpc = "destroy"
    /\ xpc' = "unloaded"
    /\ UNCHANGED <<wait_flag, done, tpc, rpc, signals, passes, caught>>

-----------------------------------------------------------------------------
RunText ==
    /\ xpc # "unloaded"
    /\ Call \/ WaitForCompletion \/ TestStop \/ Stop \/ Return \/ Reset

ThreadStep == RunText \/ RunFreedText

ReaderFinish(r) == CheckDone(r) \/ Complete(r)

ReaderStep(r) == ReadStopsShort(r) \/ SetFlag(r) \/ ReaderFinish(r)

ExitFinish == ExitCheckDone \/ ExitComplete \/ ExitDestroy

Next ==
    \/ ThreadStep
    \/ ExitSetFlag
    \/ ExitFinish
    \/ \E r \in Readers : ReaderStep(r)

Spec == Init /\ [][Next]_vars

\* The thread runs when it can, a system call that was begun is carried on.
FairSpec ==
    /\ Spec
    /\ WF_vars(ThreadStep)
    /\ WF_vars(ExitFinish)
    /\ \A r \in Readers : WF_vars(ReaderFinish(r))

-----------------------------------------------------------------------------
(* Properties *)

\* Every variable has its type.
TypeOK ==
    /\ wait_flag \in {0, 1, 2}
    /\ done \in Nat
    /\ tpc \in ThreadPcs
    /\ rpc \in [Readers -> {"idle", "check", "complete"}]
    /\ xpc \in {"loaded", "check", "complete", "destroy", "unloaded"}
    /\ signals \in Nat
    /\ passes \in Nat
    /\ caught \in ThreadPcs \cup {"none"}

\* Completions in use or on their way.
Completing == {r \in Readers : rpc[r] = "complete"}
ExitCompleting == IF xpc = "complete" THEN 1 ELSE 0

\* The thread is never left waiting, or about to wait, with a reason in wait_flag, no completion,
\* and nobody about to complete: the skipped complete() of a reader that saw
\* done # 0 loses nothing.
NoMissedCompletion ==
    tpc \in {"call", "wait"} /\ done = 0 /\ wait_flag # 0 =>
        \/ xpc \in {"check", "complete"}
        \/ \E r \in Readers : rpc[r] \in {"check", "complete"}

\* Completions add up.  The test in front of complete() does not keep done at
\* one, but one completion per concurrent reader is the most that can pile up
\* (and one when there are no readers, for the exit); and the thread never
\* reports more reads than there were, although a completion may reach it after
\* the flag it belongs to was already cleared.
CompletionsAddUp ==
    /\ done + Cardinality(Completing) + ExitCompleting
         <= IF Readers = {} THEN 1 ELSE Cardinality(Readers)
    /\ passes <= signals + (IF caught = "reset" THEN 1 ELSE 0)

\* An unload begun outside the window between the thread's test of the flag and
\* its store of 0 never leaves the thread waiting: it comes to its end, by its
\* return if it gets there before the exit function frees the text, which waits
\* for no thread, and else by running into the freed text.  In the window the 2
\* is wiped out, and the thread never returns.
UnloadStopsThread ==
    /\ xpc = "check" /\ caught # "reset" ~> tpc \in {"stopped", "oops"}
    /\ [](caught = "reset" => tpc # "stopped")
=============================================================================
