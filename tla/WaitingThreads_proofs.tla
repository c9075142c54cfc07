---------------------- MODULE WaitingThreads_proofs ----------------------
(***************************************************************************)
(* Proofs about the drivers that wait for a flag: WaitQueueThread's for    *)
(* every number of reads and reading processes, CompletionThread's for     *)
(* every finite number of them, TempWatch's for every number of processes, *)
(* all temperatures and thresholds, with and without signals.              *)
(***************************************************************************)
EXTENDS MCWaitingThreads, TempWatch, FiniteSetTheorems, TLAPS

-----------------------------------------------------------------------------
(* The wait-queue driver *)

\* A read that raised the flag and is not in read_count yet.
Uncounted == IF q_tpc = "count" \/ (flag = 1 /\ q_tpc # "reset") THEN 1 ELSE 0

\* The thread tests the flag only after it found it raised.
TestSeesFlag == q_tpc = "test" => flag # 0

\* Every read counted, or about to be, was signalled.
CountInv == read_count + Uncounted <= q_signals

\* hello_exit records where it found the thread when it leaves "loaded", and no
\* read raises the flag from then on.
ExitOnce ==
    /\ q_caught = "none" <=> q_xpc = "loaded"
    /\ q_xpc # "loaded" => flag # 1

\* The exit's 2 keeps the thread out of the part that clears the flag.
StopInv ==
    q_caught \notin WaitQueue!InService \cup {"none"} =>
        flag = 2 /\ q_tpc \notin WaitQueue!InService

\* The inductive invariant.  CountsReadsOnly needs the read the thread is about
\* to count, StopKept needs that the thread is not about to clear the flag.
QueueInv ==
    /\ WaitQueue!TypeOK /\ WaitQueue!NoMissedWakeup
    /\ TestSeesFlag /\ CountInv /\ ExitOnce /\ StopInv

LEMMA InitQueue == WaitQueue!Init => QueueInv
  BY DEF WaitQueue!Init, QueueInv, WaitQueue!TypeOK, WaitQueue!ThreadPcs,
         WaitQueue!NoMissedWakeup, TestSeesFlag, CountInv, Uncounted, ExitOnce, StopInv,
         WaitQueue!InService

LEMMA ThreadKeepsQueue ==
    ASSUME QueueInv, WaitQueue!ThreadStep
    PROVE  QueueInv'
<1> USE DEF QueueInv, WaitQueue!TypeOK, WaitQueue!ThreadPcs, WaitQueue!NoMissedWakeup,
            TestSeesFlag, CountInv, Uncounted, ExitOnce, StopInv, WaitQueue!InService
<1>1. CASE WaitQueue!FirstCheck
  BY <1>1 DEF WaitQueue!FirstCheck
<1>2. CASE WaitQueue!Enqueue
  BY <1>2 DEF WaitQueue!Enqueue
<1>3. CASE WaitQueue!Recheck
  BY <1>3 DEF WaitQueue!Recheck
<1>4. CASE WaitQueue!TestStop
  BY <1>4 DEF WaitQueue!TestStop
<1>5. CASE WaitQueue!Count
  BY <1>5 DEF WaitQueue!Count
<1>6. CASE WaitQueue!Reset
  BY <1>6 DEF WaitQueue!Reset
<1>7. CASE WaitQueue!Return
  BY <1>7 DEF WaitQueue!Return
<1>8. CASE WaitQueue!RunFreedText
  <2>1. q_xpc = "unloaded" /\ q_tpc' = "oops"
        /\ UNCHANGED <<flag, read_count, q_rpc, q_xpc, q_signals, q_caught>>
    BY <1>8 DEF WaitQueue!RunFreedText
  <2>2. WaitQueue!TypeOK'
    BY <2>1
  <2>3. WaitQueue!NoMissedWakeup'
    BY <2>1
  <2>4. TestSeesFlag'
    BY <2>1
  <2>5. CountInv'
    BY <2>1
  <2>6. ExitOnce' /\ StopInv'
    BY <2>1
  <2> QED BY <2>2, <2>3, <2>4, <2>5, <2>6
<1> QED BY <1>1, <1>2, <1>3, <1>4, <1>5, <1>6, <1>7, <1>8
    DEF WaitQueue!ThreadStep, WaitQueue!RunText

LEMMA ReaderKeepsQueue ==
    ASSUME QueueInv, NEW r \in Processes, WaitQueue!ReaderStep(r)
    PROVE  QueueInv'
<1> USE DEF QueueInv, WaitQueue!TypeOK, WaitQueue!ThreadPcs, WaitQueue!NoMissedWakeup,
            TestSeesFlag, CountInv, Uncounted, ExitOnce, StopInv, WaitQueue!InService
<1>1. CASE WaitQueue!ReadStopsShort(r)
  BY <1>1 DEF WaitQueue!ReadStopsShort, WaitQueue!vars
<1>2. CASE WaitQueue!SetFlag(r)
  <2>1. q_rpc' \in [Processes -> {"idle", "wake"}] /\ q_rpc'[r] = "wake"
    BY <1>2 DEF WaitQueue!SetFlag
  <2> QED BY <1>2, <2>1 DEF WaitQueue!SetFlag
<1>3. CASE WaitQueue!WakeAndReturn(r)
  BY <1>3 DEF WaitQueue!WakeAndReturn, WaitQueue!WakeUp
<1> QED BY <1>1, <1>2, <1>3 DEF WaitQueue!ReaderStep

LEMMA ExitKeepsQueue ==
    ASSUME QueueInv, WaitQueue!ExitStep
    PROVE  QueueInv'
<1> USE DEF QueueInv, WaitQueue!TypeOK, WaitQueue!ThreadPcs, WaitQueue!NoMissedWakeup,
            TestSeesFlag, CountInv, Uncounted, ExitOnce, StopInv, WaitQueue!InService
<1>1. CASE WaitQueue!ExitSetFlag
  BY <1>1 DEF WaitQueue!ExitSetFlag
<1>2. CASE WaitQueue!ExitWake
  BY <1>2 DEF WaitQueue!ExitWake, WaitQueue!WakeUp
<1>3. CASE WaitQueue!ExitDestroy
  BY <1>3 DEF WaitQueue!ExitDestroy
<1> QED BY <1>1, <1>2, <1>3 DEF WaitQueue!ExitStep

LEMMA StepKeepsQueue == QueueInv /\ [WaitQueue!Next]_WaitQueue!vars => QueueInv'
<1> SUFFICES ASSUME QueueInv, [WaitQueue!Next]_WaitQueue!vars PROVE QueueInv'
  OBVIOUS
<1>1. CASE UNCHANGED WaitQueue!vars
  BY <1>1 DEF WaitQueue!vars, QueueInv, WaitQueue!TypeOK, WaitQueue!NoMissedWakeup,
              TestSeesFlag, CountInv, Uncounted, ExitOnce, StopInv
<1>2. CASE WaitQueue!Next
  BY <1>2, ThreadKeepsQueue, ReaderKeepsQueue, ExitKeepsQueue DEF WaitQueue!Next
<1> QED BY <1>1, <1>2

\* The inductive invariant holds in every state.
THEOREM QueueInductive == WaitQueue!Spec => []QueueInv
  BY InitQueue, StepKeepsQueue, PTL DEF WaitQueue!Spec

\* The thread never sleeps on a raised flag without a wake_up under way.
THEOREM TheThreadIsWoken == WaitQueue!Spec => []ThreadIsWoken
<1>1. QueueInv => ThreadIsWoken
  BY DEF QueueInv, ThreadIsWoken
<1> QED BY <1>1, QueueInductive, PTL

\* read_count counts nothing but reads, each at most once.
THEOREM OnlyReadsAreCounted == WaitQueue!Spec => []WaitQueue!CountsReadsOnly
<1>1. QueueInv => WaitQueue!CountsReadsOnly
  BY DEF QueueInv, WaitQueue!TypeOK, CountInv, Uncounted, WaitQueue!CountsReadsOnly
<1> QED BY <1>1, QueueInductive, PTL

\* The stop request is lost in one window only: between the thread's test of
\* the flag and its store of 0.
THEOREM StopSurvives == WaitQueue!Spec => []StopKept
<1>1. QueueInv => StopKept
  BY DEF QueueInv, StopInv, StopKept, WaitQueue!StopKept
<1> QED BY <1>1, QueueInductive, PTL

-----------------------------------------------------------------------------
(* The completion driver *)

\* The reads that set the flag and have not returned yet.
Busy == {r \in Processes : c_rpc[r] # "idle"}

\* The completion the thread has taken and not yet judged.
Taken == IF c_tpc = "test" THEN 1 ELSE 0

\* The one completion the exit may add.
ExitsOwn == IF c_caught = "none" THEN 0 ELSE 1

\* While the exit function runs, no read does.
ExitAlone == c_xpc # "loaded" => \A r \in Processes : c_rpc[r] = "idle"

\* hello_exit records where it found the thread when it leaves "loaded".
ExitCaught == c_caught = "none" <=> c_xpc = "loaded"

\* Every completion passed, taken, counted or on its way has its signal.
Accounted ==
    passes + Taken + done + Cardinality(Busy) + Completion!ExitCompleting
        + (IF c_xpc = "check" THEN 1 ELSE 0) <= c_signals + ExitsOwn

\* Before the exit nobody stores 2; its 2 makes the thread stop, unless the
\* thread was about to store 0.
OrderInv ==
    /\ c_caught = "none" => c_flag # 2 /\ c_tpc \notin {"stop", "return", "stopped", "oops"}
    /\ c_caught \notin {"none", "reset"} =>
         /\ passes <= c_signals
         /\ \/ c_flag = 2 /\ c_tpc \in {"call", "wait", "test"}
            \/ c_tpc \in {"stop", "return", "stopped", "oops"}

\* One completion for each concurrent reader, and one for the exit alone.
Pile == done + Cardinality(Completion!Completing) + Completion!ExitCompleting
            <= IF Processes = {} THEN 1 ELSE Cardinality(Processes)

\* The inductive invariant: CompletionsAddUp needs every completion accounted
\* for, and what the exit's 2 meets.
CompletionInv ==
    /\ Completion!TypeOK /\ Completion!NoMissedCompletion /\ ExitAlone /\ ExitCaught
    /\ Accounted /\ OrderInv /\ Pile

-----------------------------------------------------------------------------
(* Counting *)

\* Reads on their way are readers, so there are finitely many.
LEMMA Counts ==
    ASSUME IsFiniteSet(Processes)
    PROVE  /\ IsFiniteSet(Busy) /\ IsFiniteSet(Completion!Completing)
           /\ Cardinality(Busy) \in Nat /\ Cardinality(Completion!Completing) \in Nat
           /\ Cardinality(Processes) \in Nat
           /\ Cardinality(Completion!Completing) <= Cardinality(Processes)
           /\ Processes # {} => Cardinality(Processes) # 0
  BY FS_Subset, FS_CardinalityType, FS_EmptySet DEF Busy, Completion!Completing

\* A read that moves changes the two sets by itself at most.
LEMMA ReadMoves ==
    ASSUME Completion!TypeOK, NEW r \in Processes, NEW pc \in {"idle", "check", "complete"},
           c_rpc' = [c_rpc EXCEPT ![r] = pc]
    PROVE  /\ c_rpc' \in [Processes -> {"idle", "check", "complete"}] /\ c_rpc'[r] = pc
           /\ \A s \in Processes \ {r} : c_rpc'[s] = c_rpc[s]
           /\ Busy' = IF pc = "idle" THEN Busy \ {r} ELSE Busy \cup {r}
           /\ Completion!Completing' = IF pc = "complete" THEN Completion!Completing \cup {r}
                                               ELSE Completion!Completing \ {r}
  BY DEF Completion!TypeOK, Busy, Completion!Completing

LEMMA InitCompletion == ASSUME IsFiniteSet(Processes) PROVE Completion!Init => CompletionInv
<1> SUFFICES ASSUME Completion!Init PROVE CompletionInv
  OBVIOUS
<1>1. Busy = {} /\ Completion!Completing = {}
  BY DEF Completion!Init, Busy, Completion!Completing
<1>2. Cardinality(Busy) = 0 /\ Cardinality(Completion!Completing) = 0
      /\ Cardinality(Processes) \in Nat /\ (Processes # {} => Cardinality(Processes) # 0)
  BY <1>1, FS_EmptySet, Counts
<1>3. Completion!TypeOK /\ Completion!NoMissedCompletion /\ ExitAlone /\ ExitCaught /\ OrderInv
  BY
    DEF Completion!Init, Completion!TypeOK, Completion!ThreadPcs,
        Completion!NoMissedCompletion, ExitAlone, ExitCaught, OrderInv
<1>4. Accounted /\ Pile
  BY <1>2 DEF Completion!Init, Accounted, Pile, Taken, ExitsOwn, Completion!ExitCompleting
<1> QED BY <1>3, <1>4 DEF CompletionInv

\* The thread's steps.
LEMMA ThreadKeepsCompletion ==
    ASSUME IsFiniteSet(Processes), CompletionInv, Completion!ThreadStep
    PROVE  CompletionInv'
<1>1. c_rpc' = c_rpc /\ c_xpc' = c_xpc /\ c_signals' = c_signals /\ c_caught' = c_caught
  BY
    DEF Completion!ThreadStep, Completion!RunText, Completion!WaitForCompletion,
        Completion!TestStop, Completion!Stop, Completion!Reset, Completion!Call,
        Completion!Return, Completion!RunFreedText
<1>2. Busy' = Busy /\ Completion!Completing' = Completion!Completing
      /\ Completion!ExitCompleting' = Completion!ExitCompleting
      /\ ExitsOwn' = ExitsOwn
  BY <1>1 DEF Busy, Completion!Completing, Completion!ExitCompleting, ExitsOwn
<1>3. ExitAlone' /\ ExitCaught'
  BY <1>1 DEF CompletionInv, ExitAlone, ExitCaught
<1>4. Cardinality(Busy) \in Nat /\ Cardinality(Completion!Completing) \in Nat
      /\ Cardinality(Processes) \in Nat
  BY Counts
<1>5. Completion!ExitCompleting \in 0..1
  BY DEF Completion!ExitCompleting
<1>6. CASE Completion!WaitForCompletion
  <2>1. Completion!TypeOK'
    BY <1>1, <1>6
      DEF Completion!WaitForCompletion, CompletionInv, Completion!TypeOK,
          Completion!ThreadPcs
  <2>2. Completion!NoMissedCompletion'
    BY <1>1, <1>6
      DEF Completion!WaitForCompletion, CompletionInv, Completion!TypeOK,
          Completion!NoMissedCompletion
  <2>3. Accounted'
    BY <1>1, <1>2, <1>4, <1>5, <1>6
      DEF Completion!WaitForCompletion, CompletionInv, Completion!TypeOK, Accounted, Taken
  <2>4. OrderInv'
    BY <1>1, <1>2, <1>4, <1>6
      DEF Completion!WaitForCompletion, CompletionInv, Completion!TypeOK, OrderInv
  <2>5. Pile'
    BY <1>1, <1>2, <1>4, <1>5, <1>6
      DEF Completion!WaitForCompletion, CompletionInv, Completion!TypeOK, Pile
  <2> QED BY <1>3, <2>1, <2>2, <2>3, <2>4, <2>5 DEF CompletionInv
<1>7. CASE Completion!TestStop
  <2>1. Completion!TypeOK'
    BY <1>1, <1>7
      DEF Completion!TestStop, CompletionInv, Completion!TypeOK, Completion!ThreadPcs
  <2>2. Completion!NoMissedCompletion'
    BY <1>1, <1>7
      DEF Completion!TestStop, CompletionInv, Completion!TypeOK,
          Completion!NoMissedCompletion
  <2>3. Accounted'
    <3>1. Taken = 1 /\ Taken' = 0 /\ done' = done
          /\ (passes' = passes \/ passes' = passes + 1)
      BY <1>7 DEF Completion!TestStop, Taken
    <3>2. /\ passes \in Nat /\ passes' \in Nat /\ done \in Nat /\ c_signals \in Nat
          /\ ExitsOwn \in Nat
      BY <2>1 DEF CompletionInv, Completion!TypeOK, ExitsOwn
    <3>3. passes' <= passes + 1
      BY <3>1, <3>2
    <3>4. passes + 1 + done + Cardinality(Busy) + Completion!ExitCompleting
            + (IF c_xpc = "check" THEN 1 ELSE 0) <= c_signals + ExitsOwn
      BY <3>1 DEF CompletionInv, Accounted
    <3>5. passes' + 0 + done' + Cardinality(Busy') + Completion!ExitCompleting'
            + (IF c_xpc' = "check" THEN 1 ELSE 0) <= c_signals' + ExitsOwn'
      BY <3>1, <3>2, <3>3, <3>4, <1>1, <1>2, <1>4, <1>5
    <3> QED BY <3>1, <3>5 DEF Accounted
  <2>4. OrderInv'
    BY <1>1, <1>2, <1>4, <1>7
      DEF Completion!TestStop, CompletionInv, Completion!TypeOK, OrderInv
  <2>5. Pile'
    BY <1>1, <1>2, <1>4, <1>5, <1>7
      DEF Completion!TestStop, CompletionInv, Completion!TypeOK, Pile
  <2> QED BY <1>3, <2>1, <2>2, <2>3, <2>4, <2>5 DEF CompletionInv
<1>8. CASE Completion!Stop
  <2>1. Completion!TypeOK'
    BY <1>1, <1>8
      DEF Completion!Stop, CompletionInv, Completion!TypeOK, Completion!ThreadPcs
  <2>2. Completion!NoMissedCompletion'
    BY <1>1, <1>8
      DEF Completion!Stop, CompletionInv, Completion!TypeOK, Completion!NoMissedCompletion
  <2>3. Accounted'
    BY <1>1, <1>2, <1>4, <1>5, <1>8
      DEF Completion!Stop, CompletionInv, Completion!TypeOK, Accounted, Taken
  <2>4. OrderInv'
    BY <1>1, <1>2, <1>4, <1>8
      DEF Completion!Stop, CompletionInv, Completion!TypeOK, OrderInv
  <2>5. Pile'
    BY <1>1, <1>2, <1>4, <1>5, <1>8
      DEF Completion!Stop, CompletionInv, Completion!TypeOK, Pile
  <2> QED BY <1>3, <2>1, <2>2, <2>3, <2>4, <2>5 DEF CompletionInv
<1>9. CASE Completion!Reset
  <2>1. Completion!TypeOK'
    BY <1>1, <1>9
      DEF Completion!Reset, CompletionInv, Completion!TypeOK, Completion!ThreadPcs
  <2>2. Completion!NoMissedCompletion'
    BY <1>1, <1>9
      DEF Completion!Reset, CompletionInv, Completion!TypeOK, Completion!NoMissedCompletion
  <2>3. Accounted'
    BY <1>1, <1>2, <1>4, <1>5, <1>9
      DEF Completion!Reset, CompletionInv, Completion!TypeOK, Accounted, Taken
  <2>4. OrderInv'
    BY <1>1, <1>2, <1>4, <1>9
      DEF Completion!Reset, CompletionInv, Completion!TypeOK, OrderInv
  <2>5. Pile'
    BY <1>1, <1>2, <1>4, <1>5, <1>9
      DEF Completion!Reset, CompletionInv, Completion!TypeOK, Pile
  <2> QED BY <1>3, <2>1, <2>2, <2>3, <2>4, <2>5 DEF CompletionInv
<1>10. CASE Completion!Call
  <2>1. Completion!TypeOK'
    BY <1>1, <1>10
      DEF Completion!Call, CompletionInv, Completion!TypeOK, Completion!ThreadPcs
  <2>2. Completion!NoMissedCompletion'
    BY <1>1, <1>10
      DEF Completion!Call, CompletionInv, Completion!TypeOK, Completion!NoMissedCompletion
  <2>3. Accounted'
    BY <1>1, <1>2, <1>4, <1>5, <1>10
      DEF Completion!Call, CompletionInv, Completion!TypeOK, Accounted, Taken
  <2>4. OrderInv'
    BY <1>1, <1>2, <1>4, <1>10
      DEF Completion!Call, CompletionInv, Completion!TypeOK, OrderInv, ExitCaught
  <2>5. Pile'
    BY <1>1, <1>2, <1>4, <1>5, <1>10
      DEF Completion!Call, CompletionInv, Completion!TypeOK, Pile
  <2> QED BY <1>3, <2>1, <2>2, <2>3, <2>4, <2>5 DEF CompletionInv
<1>11. CASE Completion!Return
  <2>1. Completion!TypeOK'
    BY <1>1, <1>11
      DEF Completion!Return, CompletionInv, Completion!TypeOK, Completion!ThreadPcs
  <2>2. Completion!NoMissedCompletion'
    BY <1>1, <1>11
      DEF Completion!Return, CompletionInv, Completion!TypeOK, Completion!NoMissedCompletion
  <2>3. Accounted'
    BY <1>1, <1>2, <1>4, <1>5, <1>11
      DEF Completion!Return, CompletionInv, Completion!TypeOK, Accounted, Taken
  <2>4. OrderInv'
    BY <1>1, <1>2, <1>4, <1>11
      DEF Completion!Return, CompletionInv, Completion!TypeOK, OrderInv, ExitCaught
  <2>5. Pile'
    BY <1>1, <1>2, <1>4, <1>5, <1>11
      DEF Completion!Return, CompletionInv, Completion!TypeOK, Pile
  <2> QED BY <1>3, <2>1, <2>2, <2>3, <2>4, <2>5 DEF CompletionInv
<1>12. CASE Completion!RunFreedText
  <2>1. Completion!TypeOK'
    BY <1>1, <1>12
      DEF Completion!RunFreedText, CompletionInv, Completion!TypeOK, Completion!ThreadPcs
  <2>2. Completion!NoMissedCompletion'
    <3>1. c_tpc' = "oops"
      BY <1>12 DEF Completion!RunFreedText
    <3>2. c_tpc' \notin {"call", "wait"}
      BY <3>1
    <3> QED BY <3>2 DEF Completion!NoMissedCompletion
  <2>3. Accounted'
    <3>1. done' = done /\ passes' = passes /\ c_tpc' = "oops"
      BY <1>12 DEF Completion!RunFreedText
    <3>2. Taken' = 0 /\ Taken \in {0, 1}
      BY <3>1 DEF Taken
    <3> QED BY <1>1, <1>2, <1>4, <1>5, <3>1, <3>2
        DEF CompletionInv, Completion!TypeOK, Accounted, ExitsOwn
  <2>4. OrderInv'
    BY <1>1, <1>2, <1>4, <1>12
      DEF Completion!RunFreedText, CompletionInv, Completion!TypeOK, OrderInv, ExitCaught
  <2>5. Pile'
    BY <1>1, <1>2, <1>4, <1>5, <1>12
      DEF Completion!RunFreedText, CompletionInv, Completion!TypeOK, Pile
  <2> QED BY <1>3, <2>1, <2>2, <2>3, <2>4, <2>5 DEF CompletionInv
<1> QED BY <1>6, <1>7, <1>8, <1>9, <1>10, <1>11, <1>12
    DEF Completion!ThreadStep, Completion!RunText

\* The steps of a read.
LEMMA ReaderKeepsCompletion ==
    ASSUME IsFiniteSet(Processes), CompletionInv, NEW r \in Processes,
           Completion!SetFlag(r) \/ Completion!ReaderFinish(r)
    PROVE  CompletionInv'
<1>1. c_xpc = "loaded" /\ c_xpc' = c_xpc /\ c_tpc' = c_tpc
      /\ c_caught = "none" /\ c_caught' = "none" /\ passes' = passes
  BY
    DEF Completion!SetFlag, Completion!ReaderFinish, Completion!CheckDone,
        Completion!Complete, CompletionInv, ExitAlone, ExitCaught
<1>2. ExitAlone' /\ ExitCaught'
      /\ Completion!ExitCompleting = 0 /\ Completion!ExitCompleting' = 0
      /\ ExitsOwn' = ExitsOwn /\ Taken' = Taken /\ Taken \in Nat /\ ExitsOwn = 0
  BY <1>1 DEF ExitAlone, ExitCaught, Completion!ExitCompleting, ExitsOwn, Taken
<1>3. /\ IsFiniteSet(Busy) /\ IsFiniteSet(Completion!Completing)
      /\ Cardinality(Busy) \in Nat /\ Cardinality(Completion!Completing) \in Nat
      /\ Cardinality(Processes) \in Nat /\ Cardinality(Processes) # 0 /\ Processes # {}
      /\ Cardinality(Completion!Completing) <= Cardinality(Processes)
  BY Counts
<1>4. CASE Completion!SetFlag(r)
  <2>1. c_rpc[r] = "idle" /\ c_rpc' = [c_rpc EXCEPT ![r] = "check"] /\ c_flag' = 1
        /\ done' = done /\ c_signals' = c_signals + 1
    BY <1>4 DEF Completion!SetFlag
  <2>2. c_rpc' \in [Processes -> {"idle", "check", "complete"}] /\ c_rpc'[r] = "check"
        /\ Busy' = Busy \cup {r} /\ Completion!Completing' = Completion!Completing \ {r}
    BY <2>1, ReadMoves DEF CompletionInv
  <2>3. Completion!Completing' = Completion!Completing /\ r \notin Busy
    BY <2>1, <2>2 DEF Completion!Completing, Busy
  <2>4. Cardinality(Busy') = Cardinality(Busy) + 1
    BY <2>2, <2>3, <1>3, FS_AddElement
  <2>5. Completion!TypeOK' /\ Completion!NoMissedCompletion' /\ OrderInv'
    BY <1>1, <2>1, <2>2
      DEF CompletionInv, Completion!TypeOK, Completion!NoMissedCompletion, OrderInv
  <2>6. Accounted'
    BY <1>1, <1>2, <1>3, <2>1, <2>4 DEF CompletionInv, Completion!TypeOK, Accounted
  <2>7. Pile'
    BY <1>2, <2>1, <2>3 DEF CompletionInv, Pile
  <2> QED BY <1>2, <2>5, <2>6, <2>7 DEF CompletionInv
<1>5. CASE Completion!CheckDone(r)
  <2>1. c_rpc[r] = "check" /\ c_flag' = c_flag /\ done' = done /\ c_signals' = c_signals
    BY <1>5 DEF Completion!CheckDone
  <2>2. CASE done = 0
    <3>1. c_rpc' = [c_rpc EXCEPT ![r] = "complete"]
      BY <1>5, <2>2 DEF Completion!CheckDone
    <3>2. c_rpc' \in [Processes -> {"idle", "check", "complete"}] /\ c_rpc'[r] = "complete"
          /\ Busy' = Busy \cup {r}
      BY <3>1, ReadMoves DEF CompletionInv
    <3>3. Busy' = Busy
      BY <2>1, <3>2 DEF Busy
    <3>4. Completion!TypeOK' /\ Completion!NoMissedCompletion' /\ OrderInv'
      BY <1>1, <2>1, <3>2
        DEF CompletionInv, Completion!TypeOK, Completion!NoMissedCompletion, OrderInv
    <3>5. Accounted'
      BY <1>1, <1>2, <2>1, <3>3 DEF CompletionInv, Accounted
    <3>6. Cardinality(Completion!Completing') \in Nat
          /\ Cardinality(Completion!Completing') <= Cardinality(Processes)
      <4>1. Completion!Completing' \subseteq Processes
        BY DEF Completion!Completing
      <4> QED BY <4>1, FS_Subset, FS_CardinalityType
    <3>7. Pile'
      BY <1>2, <1>3, <2>1, <2>2, <3>6 DEF Pile
    <3> QED BY <1>2, <3>4, <3>5, <3>7 DEF CompletionInv
  <2>3. CASE done # 0
    <3>1. c_rpc' = [c_rpc EXCEPT ![r] = "idle"]
      BY <1>5, <2>3 DEF Completion!CheckDone
    <3>2. c_rpc' \in [Processes -> {"idle", "check", "complete"}]
          /\ Busy' = Busy \ {r} /\ Completion!Completing' = Completion!Completing \ {r}
      BY <3>1, ReadMoves DEF CompletionInv
    <3>3. r \in Busy /\ Completion!Completing' = Completion!Completing
      BY <2>1, <3>2 DEF Busy, Completion!Completing
    <3>4. Cardinality(Busy') = Cardinality(Busy) - 1
      BY <3>2, <3>3, <1>3, FS_RemoveElement
    <3>5. Completion!TypeOK' /\ Completion!NoMissedCompletion' /\ OrderInv'
      BY <1>1, <2>1, <2>3, <3>2
        DEF CompletionInv, Completion!TypeOK, Completion!NoMissedCompletion, OrderInv
    <3>6. Accounted'
      BY <1>1, <1>2, <1>3, <2>1, <3>4 DEF CompletionInv, Completion!TypeOK, Accounted
    <3>7. Pile'
      BY <1>2, <2>1, <3>3 DEF CompletionInv, Pile
    <3> QED BY <1>2, <3>5, <3>6, <3>7 DEF CompletionInv
  <2> QED BY <2>2, <2>3
<1>6. CASE Completion!Complete(r)
  <2>1. c_rpc[r] = "complete" /\ c_flag' = c_flag /\ done' = done + 1
        /\ c_signals' = c_signals /\ c_rpc' = [c_rpc EXCEPT ![r] = "idle"]
    BY <1>6 DEF Completion!Complete
  <2>2. c_rpc' \in [Processes -> {"idle", "check", "complete"}]
        /\ Busy' = Busy \ {r} /\ Completion!Completing' = Completion!Completing \ {r}
    BY <2>1, ReadMoves DEF CompletionInv
  <2>3. r \in Busy /\ r \in Completion!Completing
    BY <2>1 DEF Busy, Completion!Completing
  <2>4. Cardinality(Busy') = Cardinality(Busy) - 1
        /\ Cardinality(Completion!Completing') = Cardinality(Completion!Completing) - 1
    BY <2>2, <2>3, <1>3, FS_RemoveElement
  <2>5. Completion!TypeOK' /\ Completion!NoMissedCompletion' /\ OrderInv'
    BY <1>1, <2>1, <2>2
      DEF CompletionInv, Completion!TypeOK, Completion!NoMissedCompletion, OrderInv
  <2>6. Accounted'
    BY <1>1, <1>2, <1>3, <2>1, <2>4 DEF CompletionInv, Completion!TypeOK, Accounted
  <2>7. Pile'
    BY <1>2, <1>3, <2>1, <2>4 DEF CompletionInv, Completion!TypeOK, Pile
  <2> QED BY <1>2, <2>5, <2>6, <2>7 DEF CompletionInv
<1> QED BY <1>4, <1>5, <1>6 DEF Completion!ReaderFinish

\* The exit's steps: no read is on its way.
LEMMA ExitKeepsCompletion ==
    ASSUME IsFiniteSet(Processes), CompletionInv, Completion!ExitSetFlag \/ Completion!ExitFinish
    PROVE  CompletionInv'
<1>1. \A r \in Processes : c_rpc[r] = "idle"
  BY
    DEF Completion!ExitSetFlag, Completion!ExitFinish, Completion!ExitCheckDone,
        Completion!ExitComplete, Completion!ExitDestroy, CompletionInv, ExitAlone
<1>2. c_rpc' = c_rpc /\ c_tpc' = c_tpc /\ c_signals' = c_signals /\ passes' = passes
      /\ c_xpc' # "loaded" /\ Taken' = Taken
  BY
    DEF Completion!ExitSetFlag, Completion!ExitFinish, Completion!ExitCheckDone,
        Completion!ExitComplete, Completion!ExitDestroy, Taken
<1>3. Busy = {} /\ Completion!Completing = {} /\ Busy' = {} /\ Completion!Completing' = {}
  BY <1>1, <1>2 DEF Busy, Completion!Completing
<1>4. Cardinality(Busy) = 0 /\ Cardinality(Completion!Completing) = 0 /\ Cardinality(Busy') = 0
      /\ Cardinality(Completion!Completing') = 0 /\ Cardinality(Processes) \in Nat
      /\ (Processes # {} => Cardinality(Processes) # 0)
  BY <1>3, FS_EmptySet, Counts
<1>5. ExitAlone'
  BY <1>1, <1>2 DEF ExitAlone
<1> USE DEF CompletionInv, Completion!TypeOK, Taken, ExitsOwn, Completion!ExitCompleting
<1>6. CASE Completion!ExitSetFlag
  <2>1. Completion!TypeOK'
    BY <1>2, <1>6 DEF Completion!ExitSetFlag, Completion!ThreadPcs
  <2>2. Completion!NoMissedCompletion'
    BY <1>1, <1>2, <1>6 DEF Completion!ExitSetFlag, Completion!NoMissedCompletion
  <2>3. ExitCaught'
    BY <1>2, <1>6 DEF Completion!ExitSetFlag, ExitCaught, Completion!ThreadPcs
  <2>4. Accounted'
    <3>1. /\ c_xpc = "loaded" /\ c_xpc' = "check" /\ c_caught = "none" /\ c_caught' # "none"
          /\ done' = done
      BY <1>6 DEF Completion!ExitSetFlag, ExitCaught, Completion!ThreadPcs
    <3>2. passes + Taken + done <= c_signals /\ Taken \in Nat
      BY <1>4, <3>1 DEF Accounted
    <3> QED BY <1>2, <1>4, <3>1, <3>2 DEF Accounted
  <2>5. OrderInv'
    BY <1>2, <1>4, <1>6
      DEF Completion!ExitSetFlag, OrderInv, ExitCaught, Accounted, Completion!ThreadPcs
  <2>6. Pile'
    BY <1>4, <1>6 DEF Completion!ExitSetFlag, Pile
  <2> QED BY <1>5, <2>1, <2>2, <2>3, <2>4, <2>5, <2>6
<1>7. CASE Completion!ExitCheckDone
  <2>1. Completion!TypeOK'
    BY <1>2, <1>7 DEF Completion!ExitCheckDone, Completion!ThreadPcs
  <2>2. Completion!NoMissedCompletion'
    BY <1>1, <1>2, <1>7 DEF Completion!ExitCheckDone, Completion!NoMissedCompletion
  <2>3. ExitCaught'
    BY <1>2, <1>7 DEF Completion!ExitCheckDone, ExitCaught, Completion!ThreadPcs
  <2>4. Accounted'
    BY <1>2, <1>4, <1>7 DEF Completion!ExitCheckDone, Accounted, ExitCaught
  <2>5. OrderInv'
    BY <1>2, <1>4, <1>7
      DEF Completion!ExitCheckDone, OrderInv, ExitCaught, Accounted, Completion!ThreadPcs
  <2>6. Pile'
    BY <1>4, <1>7 DEF Completion!ExitCheckDone, Pile
  <2> QED BY <1>5, <2>1, <2>2, <2>3, <2>4, <2>5, <2>6
<1>8. CASE Completion!ExitComplete
  <2>1. Completion!TypeOK'
    BY <1>2, <1>8 DEF Completion!ExitComplete, Completion!ThreadPcs
  <2>2. Completion!NoMissedCompletion'
    BY <1>1, <1>2, <1>8 DEF Completion!ExitComplete, Completion!NoMissedCompletion
  <2>3. ExitCaught'
    BY <1>2, <1>8 DEF Completion!ExitComplete, ExitCaught, Completion!ThreadPcs
  <2>4. Accounted'
    BY <1>2, <1>4, <1>8 DEF Completion!ExitComplete, Accounted, ExitCaught
  <2>5. OrderInv'
    BY <1>2, <1>4, <1>8
      DEF Completion!ExitComplete, OrderInv, ExitCaught, Accounted, Completion!ThreadPcs
  <2>6. Pile'
    BY <1>4, <1>8 DEF Completion!ExitComplete, Pile
  <2> QED BY <1>5, <2>1, <2>2, <2>3, <2>4, <2>5, <2>6
<1>9. CASE Completion!ExitDestroy
  <2>1. Completion!TypeOK'
    BY <1>2, <1>9 DEF Completion!ExitDestroy, Completion!ThreadPcs
  <2>2. Completion!NoMissedCompletion'
    BY <1>1, <1>2, <1>9 DEF Completion!ExitDestroy, Completion!NoMissedCompletion
  <2>3. ExitCaught'
    BY <1>2, <1>9 DEF Completion!ExitDestroy, ExitCaught, Completion!ThreadPcs
  <2>4. Accounted'
    BY <1>2, <1>4, <1>9 DEF Completion!ExitDestroy, Accounted, ExitCaught
  <2>5. OrderInv'
    BY <1>2, <1>4, <1>9
      DEF Completion!ExitDestroy, OrderInv, ExitCaught, Accounted, Completion!ThreadPcs
  <2>6. Pile'
    BY <1>4, <1>9 DEF Completion!ExitDestroy, Pile
  <2> QED BY <1>5, <2>1, <2>2, <2>3, <2>4, <2>5, <2>6
<1> QED BY <1>6, <1>7, <1>8, <1>9 DEF Completion!ExitFinish

\* The inductive invariant holds in every state.
THEOREM CompletionInductive == ASSUME IsFiniteSet(Processes)
    PROVE Completion!Spec => []CompletionInv
<1>1. CompletionInv /\ [Completion!Next]_Completion!vars => CompletionInv'
  <2> SUFFICES ASSUME CompletionInv, [Completion!Next]_Completion!vars PROVE CompletionInv'
    OBVIOUS
  <2>1. CASE UNCHANGED Completion!vars
    BY <2>1
      DEF Completion!vars, CompletionInv, Completion!TypeOK, Completion!NoMissedCompletion,
          ExitAlone, ExitCaught, Accounted, OrderInv, Pile, Taken, ExitsOwn,
          Completion!ExitCompleting, Busy, Completion!Completing
  <2>2. CASE Completion!ThreadStep
    BY <2>2, ThreadKeepsCompletion
  <2>3. CASE Completion!ExitSetFlag \/ Completion!ExitFinish
    BY <2>3, ExitKeepsCompletion
  <2>4. CASE \E r \in Processes : Completion!ReaderStep(r)
    <3>1. PICK r \in Processes : Completion!ReaderStep(r)
      BY <2>4
    <3>2. CASE Completion!ReadStopsShort(r)
      BY <3>2, <2>1 DEF Completion!ReadStopsShort
    <3> QED BY <3>1, <3>2, ReaderKeepsCompletion DEF Completion!ReaderStep
  <2> QED BY <2>1, <2>2, <2>3, <2>4 DEF Completion!Next
<1> QED BY InitCompletion, <1>1, PTL DEF Completion!Spec

\* Every variable has its type.
THEOREM CompletionTypes == ASSUME IsFiniteSet(Processes)
    PROVE Completion!Spec => []Completion!TypeOK
<1>1. CompletionInv => Completion!TypeOK
  BY DEF CompletionInv
<1> QED BY CompletionInductive, <1>1, PTL

\* complete() left out by a reader that saw completion_done() is never missed.
THEOREM NoCompletionMissed ==
    ASSUME IsFiniteSet(Processes) PROVE Completion!Spec => []NoMissedCompletion
<1>1. CompletionInv => NoMissedCompletion
  BY DEF CompletionInv, NoMissedCompletion
<1> QED BY CompletionInductive, <1>1, PTL

\* Completion!Cardinality is the Cardinality of FiniteSets under the instance's name.
LEMMA SameCount == ASSUME NEW S PROVE Completion!Cardinality(S) = Cardinality(S)
  BY DEF Cardinality, Completion!Cardinality, IsFiniteSet, Completion!IsFiniteSet

\* At most one completion per concurrent reader piles up, and the thread reports no
\* more reads than signalled.
THEOREM CompletionsBounded ==
    ASSUME IsFiniteSet(Processes) PROVE Completion!Spec => []CompletionsAddUp
<1>1. CompletionInv => CompletionsAddUp
  <2> SUFFICES ASSUME CompletionInv PROVE CompletionsAddUp
    OBVIOUS
  <2>1. Cardinality(Busy) \in Nat /\ Completion!ExitCompleting \in Nat /\ Taken \in Nat
    BY Counts DEF Completion!ExitCompleting, Taken
  <2>2. c_caught \in {"none", "reset"} =>
          passes <= c_signals + (IF c_caught = "reset" THEN 1 ELSE 0)
    BY <2>1 DEF CompletionInv, Completion!TypeOK, Accounted, ExitsOwn
  <2>3. c_caught \notin {"none", "reset"} => passes <= c_signals
    BY DEF CompletionInv, OrderInv
  <2>4. Completion!CompletionsAddUp
    BY <2>2, <2>3, SameCount
    DEF CompletionInv, Completion!TypeOK, Pile, Completion!CompletionsAddUp
  <2> QED BY <2>4 DEF CompletionsAddUp
<1> QED BY CompletionInductive, <1>1, PTL

-----------------------------------------------------------------------------
(* The two labs of MCWaitingThreads: in one kernel one of them takes steps. *)

LEMMA LabSteps == [MCNext]_all => [WaitQueue!Next]_(WaitQueue!vars)
                           /\ [Completion!Next]_(Completion!vars)
  BY DEF MCNext, Queueing, Completing, all, c_vars, q_vars, WaitQueue!vars,
         Completion!vars

\* Whatever is true of both drivers is true of the kernel that has one of them.
THEOREM BothLabs == MCSpec => WaitQueue!Spec /\ Completion!Spec
<1>1. MCInit => WaitQueue!Init /\ Completion!Init
  BY DEF MCInit
<1> QED BY <1>1, LabSteps, PTL DEF MCSpec, WaitQueue!Spec, Completion!Spec

-----------------------------------------------------------------------------
(* The temperature watch *)

\* A wait_read under way has seen a 1 coming, or was called upon it.
OneSpoils == \A w \in Waiters : Waiting(w) /\ wait_flag = 1 => spoiled[w]

\* What got a wait_read as far as its test of the flag is there still, or was
\* taken from it.
TestInv == \A w \in Waiters : wpc[w] = "test" => wait_flag = 2 \/ spoiled[w]

\* mutex_ref has one owner, and after a failed write nobody who will release it.
MutexInv ==
    /\ \A s \in Setters : spc[s] \in {"parse", "unlock"} => mutex_ref = s /\ ~leaked
    /\ leaked => mutex_ref # NoOwner

\* The inductive invariant: SilentReturnExplained needs what a wait_read may
\* still find in wait_flag, ThresholdFrozenByFailure who has the mutex.
WatchInv ==
    /\ TypeOK /\ NoMissedWakeup /\ OneSpoils /\ TestInv /\ SilentReturnExplained
    /\ MutexInv

LEMMA InitWatch == Init => WatchInv
  BY DefaultAssumption DEF Init, WatchInv, TypeOK, NoMissedWakeup, OneSpoils, TestInv,
     SilentReturnExplained, MutexInv, Waiting

\* The thread's steps.
LEMMA ThreadKeepsWatch ==
    ASSUME WatchInv, ThreadStep
    PROVE  WatchInv'
<1> USE DEF WatchInv
<1>1. CASE \E t \in Temps : Measure(t)
  <2>1. TypeOK'
    BY <1>1 DEF Measure, TypeOK
  <2>2. NoMissedWakeup'
    BY <1>1 DEF Measure, TypeOK, NoMissedWakeup, Waiting
  <2>3. OneSpoils'
    BY <1>1 DEF Measure, TypeOK, OneSpoils, Waiting
  <2>4. TestInv'
    BY <1>1 DEF Measure, TypeOK, TestInv, Waiting
  <2>5. SilentReturnExplained'
    BY <1>1 DEF Measure, TypeOK, SilentReturnExplained, Waiting
  <2>6. MutexInv'
    BY <1>1 DEF Measure, MutexInv
  <2> QED BY <2>1, <2>2, <2>3, <2>4, <2>5, <2>6
<1>2. CASE Raise
  <2>1. TypeOK'
    BY <1>2 DEF Raise, TypeOK
  <2>2. NoMissedWakeup'
    BY <1>2 DEF Raise, TypeOK, NoMissedWakeup, Waiting
  <2>3. OneSpoils'
    BY <1>2 DEF Raise, TypeOK, OneSpoils, Waiting
  <2>4. TestInv'
    BY <1>2 DEF Raise, TypeOK, TestInv, Waiting
  <2>5. SilentReturnExplained'
    BY <1>2 DEF Raise, TypeOK, SilentReturnExplained, Waiting
  <2>6. MutexInv'
    BY <1>2 DEF Raise, MutexInv
  <2> QED BY <2>1, <2>2, <2>3, <2>4, <2>5, <2>6
<1>3. CASE Wake
  <2>1. TypeOK'
    BY <1>3 DEF Wake, TypeOK, Woken
  <2>2. NoMissedWakeup'
    BY <1>3 DEF Wake, TypeOK, NoMissedWakeup, Waiting, Woken
  <2>3. OneSpoils'
    BY <1>3 DEF Wake, TypeOK, OneSpoils, Waiting, Woken
  <2>4. TestInv'
    BY <1>3 DEF Wake, TypeOK, TestInv, Waiting, Woken
  <2>5. SilentReturnExplained'
    BY <1>3 DEF Wake, TypeOK, SilentReturnExplained, Waiting, Woken
  <2>6. MutexInv'
    BY <1>3 DEF Wake, MutexInv, Woken
  <2> QED BY <2>1, <2>2, <2>3, <2>4, <2>5, <2>6
<1>4. CASE MsleepOver
  <2>1. TypeOK'
    BY <1>4 DEF MsleepOver, TypeOK
  <2>2. NoMissedWakeup'
    BY <1>4 DEF MsleepOver, TypeOK, NoMissedWakeup, Waiting
  <2>3. OneSpoils'
    BY <1>4 DEF MsleepOver, TypeOK, OneSpoils, Waiting
  <2>4. TestInv'
    BY <1>4 DEF MsleepOver, TypeOK, TestInv, Waiting
  <2>5. SilentReturnExplained'
    BY <1>4 DEF MsleepOver, TypeOK, SilentReturnExplained, Waiting
  <2>6. MutexInv'
    BY <1>4 DEF MsleepOver, MutexInv
  <2> QED BY <2>1, <2>2, <2>3, <2>4, <2>5, <2>6
<1>5. CASE ThreadEnds
  <2>1. TypeOK'
    BY <1>5 DEF ThreadEnds, TypeOK
  <2>2. NoMissedWakeup'
    BY <1>5 DEF ThreadEnds, TypeOK, NoMissedWakeup, Waiting
  <2>3. OneSpoils'
    BY <1>5 DEF ThreadEnds, TypeOK, OneSpoils, Waiting
  <2>4. TestInv'
    BY <1>5 DEF ThreadEnds, TypeOK, TestInv, Waiting
  <2>5. SilentReturnExplained'
    BY <1>5 DEF ThreadEnds, TypeOK, SilentReturnExplained, Waiting
  <2>6. MutexInv'
    BY <1>5 DEF ThreadEnds, MutexInv
  <2> QED BY <2>1, <2>2, <2>3, <2>4, <2>5, <2>6
<1> QED BY <1>1, <1>2, <1>3, <1>4, <1>5 DEF ThreadStep

\* The steps of a wait_read.
LEMMA WaiterKeepsWatch ==
    ASSUME WatchInv, NEW w \in Waiters, WaitCall(w) \/ WaitInterrupted(w) \/ WaiterRuns(w)
    PROVE  WatchInv'
<1> USE DEF WatchInv
<1>1. CASE WaitCall(w)
  <2>1. TypeOK'
    BY <1>1 DEF WaitCall, TypeOK, waitUnchanged
  <2>2. NoMissedWakeup'
    BY <1>1 DEF WaitCall, TypeOK, NoMissedWakeup, Waiting, waitUnchanged
  <2>3. OneSpoils'
    BY <1>1 DEF WaitCall, TypeOK, OneSpoils, Waiting, waitUnchanged
  <2>4. TestInv'
    BY <1>1 DEF WaitCall, TypeOK, TestInv, Waiting, waitUnchanged
  <2>5. SilentReturnExplained'
    BY <1>1 DEF WaitCall, TypeOK, SilentReturnExplained, Waiting, waitUnchanged
  <2>6. MutexInv'
    BY <1>1 DEF WaitCall, MutexInv, waitUnchanged
  <2> QED BY <2>1, <2>2, <2>3, <2>4, <2>5, <2>6
<1>2. CASE WaitInterrupted(w)
  <2>1. TypeOK'
    BY <1>2 DEF WaitInterrupted, TypeOK, waitUnchanged
  <2>2. NoMissedWakeup'
    BY <1>2 DEF WaitInterrupted, TypeOK, NoMissedWakeup, Waiting, waitUnchanged
  <2>3. OneSpoils'
    BY <1>2 DEF WaitInterrupted, TypeOK, OneSpoils, Waiting, waitUnchanged
  <2>4. TestInv'
    BY <1>2 DEF WaitInterrupted, TypeOK, TestInv, Waiting, waitUnchanged
  <2>5. SilentReturnExplained'
    BY <1>2 DEF WaitInterrupted, TypeOK, SilentReturnExplained, Waiting, waitUnchanged
  <2>6. MutexInv'
    BY <1>2 DEF WaitInterrupted, MutexInv, waitUnchanged
  <2> QED BY <2>1, <2>2, <2>3, <2>4, <2>5, <2>6
<1>3. CASE WaitCheck(w)
  <2>1. TypeOK'
    BY <1>3 DEF WaitCheck, TypeOK, waitUnchanged
  <2>2. NoMissedWakeup'
    BY <1>3 DEF WaitCheck, TypeOK, NoMissedWakeup, Waiting, waitUnchanged
  <2>3. OneSpoils'
    BY <1>3 DEF WaitCheck, TypeOK, OneSpoils, Waiting, waitUnchanged
  <2>4. TestInv'
    BY <1>3 DEF WaitCheck, TypeOK, TestInv, Waiting, waitUnchanged, OneSpoils
  <2>5. SilentReturnExplained'
    BY <1>3 DEF WaitCheck, TypeOK, SilentReturnExplained, Waiting, waitUnchanged
  <2>6. MutexInv'
    BY <1>3 DEF WaitCheck, MutexInv, waitUnchanged
  <2> QED BY <2>1, <2>2, <2>3, <2>4, <2>5, <2>6
<1>4. CASE WaitEnqueue(w)
  <2>1. TypeOK'
    BY <1>4 DEF WaitEnqueue, TypeOK, waitUnchanged
  <2>2. NoMissedWakeup'
    BY <1>4 DEF WaitEnqueue, TypeOK, NoMissedWakeup, Waiting, waitUnchanged
  <2>3. OneSpoils'
    BY <1>4 DEF WaitEnqueue, TypeOK, OneSpoils, Waiting, waitUnchanged
  <2>4. TestInv'
    BY <1>4 DEF WaitEnqueue, TypeOK, TestInv, Waiting, waitUnchanged
  <2>5. SilentReturnExplained'
    BY <1>4 DEF WaitEnqueue, TypeOK, SilentReturnExplained, Waiting, waitUnchanged
  <2>6. MutexInv'
    BY <1>4 DEF WaitEnqueue, MutexInv, waitUnchanged
  <2> QED BY <2>1, <2>2, <2>3, <2>4, <2>5, <2>6
<1>5. CASE WaitRecheck(w)
  <2>1. TypeOK'
    BY <1>5 DEF WaitRecheck, TypeOK, waitUnchanged
  <2>2. NoMissedWakeup'
    BY <1>5 DEF WaitRecheck, TypeOK, NoMissedWakeup, Waiting, waitUnchanged
  <2>3. OneSpoils'
    BY <1>5 DEF WaitRecheck, TypeOK, OneSpoils, Waiting, waitUnchanged
  <2>4. TestInv'
    BY <1>5 DEF WaitRecheck, TypeOK, TestInv, Waiting, waitUnchanged, OneSpoils
  <2>5. SilentReturnExplained'
    BY <1>5 DEF WaitRecheck, TypeOK, SilentReturnExplained, Waiting, waitUnchanged
  <2>6. MutexInv'
    BY <1>5 DEF WaitRecheck, MutexInv, waitUnchanged
  <2> QED BY <2>1, <2>2, <2>3, <2>4, <2>5, <2>6
<1>6. CASE WaitTest(w)
  <2>1. TypeOK'
    BY <1>6 DEF WaitTest, TypeOK, waitUnchanged
  <2>2. NoMissedWakeup'
    BY <1>6 DEF WaitTest, TypeOK, NoMissedWakeup, Waiting, waitUnchanged
  <2>3. OneSpoils'
    BY <1>6 DEF WaitTest, TypeOK, OneSpoils, Waiting, waitUnchanged
  <2>4. TestInv'
    BY <1>6 DEF WaitTest, TypeOK, TestInv, Waiting, waitUnchanged
  <2>5. SilentReturnExplained'
    BY <1>6 DEF WaitTest, TypeOK, SilentReturnExplained, Waiting, waitUnchanged, TestInv
  <2>6. MutexInv'
    BY <1>6 DEF WaitTest, MutexInv, waitUnchanged
  <2> QED BY <2>1, <2>2, <2>3, <2>4, <2>5, <2>6
<1>7. CASE WaitCopy(w)
  <2>1. TypeOK'
    BY <1>7 DEF WaitCopy, TypeOK, waitUnchanged
  <2>2. NoMissedWakeup'
    BY <1>7 DEF WaitCopy, TypeOK, NoMissedWakeup, Waiting, waitUnchanged
  <2>3. OneSpoils'
    BY <1>7 DEF WaitCopy, TypeOK, OneSpoils, Waiting, waitUnchanged
  <2>4. TestInv'
    BY <1>7 DEF WaitCopy, TypeOK, TestInv, Waiting, waitUnchanged
  <2>5. SilentReturnExplained'
    BY <1>7 DEF WaitCopy, TypeOK, SilentReturnExplained, Waiting, waitUnchanged
  <2>6. MutexInv'
    BY <1>7 DEF WaitCopy, MutexInv, waitUnchanged
  <2> QED BY <2>1, <2>2, <2>3, <2>4, <2>5, <2>6
<1>8. CASE WaitFault(w)
  <2>1. TypeOK'
    BY <1>8 DEF WaitFault, TypeOK, waitUnchanged
  <2>2. NoMissedWakeup'
    BY <1>8 DEF WaitFault, TypeOK, NoMissedWakeup, Waiting, waitUnchanged
  <2>3. OneSpoils'
    BY <1>8 DEF WaitFault, TypeOK, OneSpoils, Waiting, waitUnchanged
  <2>4. TestInv'
    BY <1>8 DEF WaitFault, TypeOK, TestInv, Waiting, waitUnchanged
  <2>5. SilentReturnExplained'
    BY <1>8 DEF WaitFault, TypeOK, SilentReturnExplained, Waiting, waitUnchanged
  <2>6. MutexInv'
    BY <1>8 DEF WaitFault, MutexInv, waitUnchanged
  <2> QED BY <2>1, <2>2, <2>3, <2>4, <2>5, <2>6
<1>9. CASE WaitReturn(w)
  <2>1. TypeOK'
    BY <1>9 DEF WaitReturn, TypeOK, waitUnchanged
  <2>2. NoMissedWakeup'
    BY <1>9 DEF WaitReturn, TypeOK, NoMissedWakeup, Waiting, waitUnchanged
  <2>3. OneSpoils'
    BY <1>9 DEF WaitReturn, TypeOK, OneSpoils, Waiting, waitUnchanged
  <2>4. TestInv'
    BY <1>9 DEF WaitReturn, TypeOK, TestInv, Waiting, waitUnchanged
  <2>5. SilentReturnExplained'
    BY <1>9 DEF WaitReturn, TypeOK, SilentReturnExplained, Waiting, waitUnchanged
  <2>6. MutexInv'
    BY <1>9 DEF WaitReturn, MutexInv, waitUnchanged
  <2> QED BY <2>1, <2>2, <2>3, <2>4, <2>5, <2>6
<1> QED BY <1>1, <1>2, <1>3, <1>4, <1>5, <1>6, <1>7, <1>8, <1>9 DEF WaiterRuns

\* The steps of a threshold_write: it does not touch wait_read.
LEMMA SetterKeepsWatch ==
    ASSUME WatchInv, NEW s \in Setters, SetCall(s) \/ SetterRuns(s)
    PROVE  WatchInv'
<1> USE DEF WatchInv
<1>1. wait_flag' = wait_flag /\ tpc' = tpc /\ wpc' = wpc /\ rpc' = rpc /\ spoiled' = spoiled
      /\ xpc' = xpc
  BY DEF SetCall, SetterRuns, SetLock, SetFails, SetValue, SetReturn, setUnchanged
<1>2. NoMissedWakeup' /\ OneSpoils' /\ TestInv' /\ SilentReturnExplained'
  BY <1>1 DEF NoMissedWakeup, OneSpoils, TestInv, SilentReturnExplained, Waiting
<1>3. CASE SetCall(s)
  <2>1. TypeOK'
    BY <1>1, <1>3 DEF SetCall, TypeOK
  <2>2. MutexInv'
    BY <1>3, OwnerAssumption DEF SetCall, TypeOK, MutexInv
  <2> QED BY <1>2, <2>1, <2>2
<1>4. CASE SetLock(s)
  <2>1. TypeOK'
    BY <1>1, <1>4 DEF SetLock, TypeOK
  <2>2. MutexInv'
    BY <1>4, OwnerAssumption DEF SetLock, TypeOK, MutexInv
  <2> QED BY <1>2, <2>1, <2>2
<1>5. CASE SetFails(s)
  <2>1. TypeOK'
    BY <1>1, <1>5 DEF SetFails, TypeOK
  <2>2. MutexInv'
    BY <1>5, OwnerAssumption DEF SetFails, TypeOK, MutexInv
  <2> QED BY <1>2, <2>1, <2>2
<1>6. CASE \E v \in Thresholds : SetValue(s, v)
  <2>1. TypeOK'
    BY <1>1, <1>6 DEF SetValue, TypeOK
  <2>2. MutexInv'
    BY <1>6, OwnerAssumption DEF SetValue, TypeOK, MutexInv
  <2> QED BY <1>2, <2>1, <2>2
<1>7. CASE SetReturn(s)
  <2>1. TypeOK'
    BY <1>1, <1>7 DEF SetReturn, TypeOK
  <2>2. MutexInv'
    BY <1>7, OwnerAssumption DEF SetReturn, TypeOK, MutexInv
  <2> QED BY <1>2, <2>1, <2>2
<1> QED BY <1>3, <1>4, <1>5, <1>6, <1>7 DEF SetterRuns

\* The steps of a my_read.
LEMMA ReaderKeepsWatch ==
    ASSUME WatchInv, NEW r \in Readers, ReadSetFlag(r) \/ ReadWake(r)
    PROVE  WatchInv'
<1> USE DEF WatchInv
<1>1. CASE ReadSetFlag(r)
  <2>1. TypeOK'
    BY <1>1 DEF ReadSetFlag, TypeOK, readUnchanged
  <2>2. NoMissedWakeup'
    BY <1>1 DEF ReadSetFlag, TypeOK, NoMissedWakeup, Waiting, readUnchanged
  <2>3. OneSpoils'
    BY <1>1 DEF ReadSetFlag, TypeOK, OneSpoils, Waiting, readUnchanged
  <2>4. TestInv'
    BY <1>1 DEF ReadSetFlag, TypeOK, TestInv, Waiting, readUnchanged
  <2>5. SilentReturnExplained'
    BY <1>1 DEF ReadSetFlag, TypeOK, SilentReturnExplained, Waiting, readUnchanged
  <2>6. MutexInv'
    BY <1>1 DEF ReadSetFlag, MutexInv, readUnchanged
  <2> QED BY <2>1, <2>2, <2>3, <2>4, <2>5, <2>6
<1>2. CASE ReadWake(r)
  <2>1. TypeOK'
    BY <1>2 DEF ReadWake, TypeOK, readUnchanged, Woken
  <2>2. NoMissedWakeup'
    BY <1>2 DEF ReadWake, TypeOK, NoMissedWakeup, Waiting, readUnchanged, Woken
  <2>3. OneSpoils'
    BY <1>2 DEF ReadWake, TypeOK, OneSpoils, Waiting, readUnchanged, Woken
  <2>4. TestInv'
    BY <1>2 DEF ReadWake, TypeOK, TestInv, Waiting, readUnchanged, Woken
  <2>5. SilentReturnExplained'
    BY <1>2 DEF ReadWake, TypeOK, SilentReturnExplained, Waiting, readUnchanged, Woken
  <2>6. MutexInv'
    BY <1>2 DEF ReadWake, MutexInv, readUnchanged, Woken
  <2> QED BY <2>1, <2>2, <2>3, <2>4, <2>5, <2>6
<1> QED BY <1>1, <1>2

\* The exit function moves nobody but itself.
LEMMA ExitKeepsWatch ==
    ASSUME WatchInv, ExitBegin \/ ExitRuns
    PROVE  WatchInv'
<1>1. /\ wait_flag' = wait_flag /\ threshold' = threshold /\ mutex_ref' = mutex_ref
      /\ tpc' = tpc /\ wpc' = wpc /\ spc' = spc /\ rpc' = rpc /\ spoiled' = spoiled
      /\ leaked' = leaked /\ xpc' \in {"stop", "rm_wait", "rm_threshold", "unloaded"}
  BY DEF ExitBegin, ExitRuns, ExitThreadStopped, ExitRemoveWait, ExitRemoveThreshold,
     exitUnchanged
<1> QED BY <1>1 DEF WatchInv, TypeOK, NoMissedWakeup, OneSpoils, TestInv, SilentReturnExplained,
       MutexInv, Waiting

LEMMA StepKeepsWatch == WatchInv /\ [Next]_vars => WatchInv'
<1> SUFFICES ASSUME WatchInv, [Next]_vars PROVE WatchInv'
  OBVIOUS
<1>1. CASE Next
  BY <1>1, ThreadKeepsWatch, WaiterKeepsWatch, SetterKeepsWatch, ReaderKeepsWatch, ExitKeepsWatch
    DEF Next
<1>2. CASE UNCHANGED vars
  BY <1>2 DEF vars, WatchInv, TypeOK, NoMissedWakeup, OneSpoils, TestInv, SilentReturnExplained,
     MutexInv, Waiting
<1> QED BY <1>1, <1>2

\* The inductive invariant holds in every state.
THEOREM WatchInductive == Spec => []WatchInv
BY InitWatch, StepKeepsWatch, PTL DEF Spec

\* Every variable has its type.
THEOREM WatchTypes == Spec => []TypeOK
<1>1. WatchInv => TypeOK
  BY DEF WatchInv
<1> QED BY WatchInductive, <1>1, PTL

\* No reader of wait sleeps on a raised flag unless a wake_up is under way.
THEOREM NoWakeupMissed == Spec => []NoMissedWakeup
<1>1. WatchInv => NoMissedWakeup
  BY DEF WatchInv
<1> QED BY WatchInductive, <1>1, PTL

\* A wait_read that returns without telling anything was spoiled by a read of the device,
\* another wait_read or a signal.
THEOREM SilentReturnsExplained == Spec => []SilentReturnExplained
<1>1. WatchInv => SilentReturnExplained
  BY DEF WatchInv
<1> QED BY WatchInductive, <1>1, PTL

\* After a failed write the threshold never changes again: the mutex is never released.
THEOREM ThresholdFrozen == Spec => ThresholdFrozenByFailure
<1>1. WatchInv /\ [Next]_vars => [leaked => threshold' = threshold]_vars
  <2> SUFFICES ASSUME WatchInv, Next, leaked PROVE threshold' = threshold
    OBVIOUS
  <2>1. \A s \in Setters : spc[s] # "parse"
    BY DEF WatchInv, MutexInv
  <2>2. CASE ThreadStep
    BY <2>2 DEF ThreadStep, Measure, Raise, Wake, MsleepOver, ThreadEnds
  <2>3. CASE \E w \in Waiters : WaitCall(w) \/ WaitInterrupted(w) \/ WaiterRuns(w)
    BY <2>3 DEF WaitCall, WaitInterrupted, WaiterRuns, WaitCheck, WaitEnqueue, WaitRecheck,
       WaitTest, WaitCopy, WaitFault, WaitReturn, waitUnchanged
  <2>4. CASE \E s \in Setters : SetCall(s) \/ SetterRuns(s)
    BY <2>1, <2>4 DEF SetCall, SetterRuns, SetLock, SetFails, SetValue, SetReturn
  <2>5. CASE \E r \in Readers : ReadSetFlag(r) \/ ReadWake(r)
    BY <2>5 DEF ReadSetFlag, ReadWake, readUnchanged
  <2>6. CASE ExitBegin \/ ExitRuns
    BY <2>6 DEF ExitBegin, ExitRuns, ExitThreadStopped, ExitRemoveWait, ExitRemoveThreshold,
       exitUnchanged
  <2> QED BY <2>2, <2>3, <2>4, <2>5, <2>6 DEF Next
<1> QED BY WatchInductive, <1>1, PTL DEF Spec, ThresholdFrozenByFailure
=============================================================================
