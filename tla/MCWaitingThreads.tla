-------------------------- MODULE MCWaitingThreads --------------------------
(***************************************************************************)
(* The two drivers whose thread waits for reads, one at a time: their init *)
(* functions register the same class name, so a kernel holds one of them.  *)
(* `lab' says which; the other one's variables stand still.                *)
(***************************************************************************)
EXTENDS Integers, FiniteSets

CONSTANTS
    Processes,  \* processes that call read(2)
    MaxReads    \* bound on the reads that reach the flag, for TLC

ASSUME MaxReadsAssumption == MaxReads \in Nat

VARIABLES
    lab,
    flag, read_count, q_tpc, q_rpc, q_xpc, q_signals, q_caught,
    c_flag, done, c_tpc, c_rpc, c_xpc, c_signals, passes, c_caught

WaitQueue == INSTANCE WaitQueueThread
    WITH Readers <- Processes, tpc <- q_tpc, rpc <- q_rpc, xpc <- q_xpc,
         signals <- q_signals, caught <- q_caught

Completion == INSTANCE CompletionThread
    WITH Readers <- Processes, wait_flag <- c_flag, tpc <- c_tpc, rpc <- c_rpc, xpc <- c_xpc,
         signals <- c_signals, caught <- c_caught

q_vars == <<flag, read_count, q_tpc, q_rpc, q_xpc, q_signals, q_caught>>
c_vars == <<c_flag, done, c_tpc, c_rpc, c_xpc, c_signals, passes, c_caught>>

\* Steps of one lab while the other rests.
Queueing(A) == lab = "wait_queue" /\ A /\ UNCHANGED <<lab, c_vars>>
Completing(A) == lab = "completion" /\ A /\ UNCHANGED <<lab, q_vars>>

MCInit == lab \in {"wait_queue", "completion"} /\ WaitQueue!Init /\ Completion!Init

MCNext == Queueing(WaitQueue!Next) \/ Completing(Completion!Next)

all == <<lab, q_vars, c_vars>>

\* The fairness of both modules.
MCSpec ==
    /\ MCInit /\ [][MCNext]_all
    /\ WF_all(Queueing(WaitQueue!ThreadStep))
    /\ WF_all(Queueing(WaitQueue!ExitWake \/ WaitQueue!ExitDestroy))
    /\ \A r \in Processes : WF_all(Queueing(WaitQueue!WakeAndReturn(r)))
    /\ WF_all(Completing(Completion!ThreadStep)) /\ WF_all(Completing(Completion!ExitFinish))
    /\ \A r \in Processes : WF_all(Completing(Completion!ReaderFinish(r)))

\* NoMissedWakeup of WaitQueueThread: no wake-up is missed.
ThreadIsWoken == WaitQueue!NoMissedWakeup

\* StopKept of WaitQueueThread: the exit's order stays for the thread to find.
StopKept == WaitQueue!StopKept

\* NoMissedCompletion of CompletionThread: no completion is missed.
NoMissedCompletion == Completion!NoMissedCompletion

\* CompletionsAddUp of CompletionThread: completions and reads add up.
CompletionsAddUp == Completion!CompletionsAddUp

\* Neither exit function leaves its thread asleep, outside the window in which
\* the thread's store of 0 wipes the order out (wait_queue_module.c:60,
\* completion_module.c:65): the thread returns, or, overtaken by the unload, runs
\* into the freed text.
UnloadStopsThreads == WaitQueue!UnloadStopsThread /\ Completion!UnloadStopsThread
=============================================================================
