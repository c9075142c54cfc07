------------------------ MODULE SharedCounter_proofs ------------------------
(***************************************************************************)
(* SharedCounter's locked labs implement AtomicCounter, for any threads,   *)
(* any amount and any number of rounds.                                    *)
(***************************************************************************)
EXTENDS SharedCounter, TLAPS

\* Indices, registers and printed values are natural numbers, the lock's
\* holders are threads of the right kind; whatever the guard is.
THEOREM TypeCorrect == Spec => []TypeOK
<1>1. Init => TypeOK
  <2>1. Len(StopOrder) \in Nat
    BY OrderAssumption
  <2>2. Init => stops \in 0..Len(StopOrder)
    BY <2>1 DEF Init
  <2>3. Init => /\ value \in Nat /\ seq \in Nat /\ adds \in Nat /\ bit \in {0, 1}
                /\ reg \in [Threads -> Nat] /\ shown \in [Threads -> Nat]
                /\ kept \in [Threads -> Nat]
                /\ pc \in [Threads -> WriterPcs \cup ReaderPcs]
    BY DEF Init, WriterPcs, ReaderPcs
  <2>4. Init => guard \in Guards /\ owner \in Writers \cup {Nobody} /\ sharers \subseteq Readers
                /\ raced \in BOOLEAN
    BY DEF Init
  <2> QED
    BY <2>2, <2>3, <2>4 DEF TypeOK
<1>2. TypeOK /\ [Next]_vars => TypeOK'
  <2> SUFFICES ASSUME TypeOK, [Next]_vars
               PROVE  TypeOK'
    OBVIOUS
  <2> USE AmountAssumption DEF TypeOK, Threads, WriterPcs, ReaderPcs, Goto, locks
  <2>1. ASSUME NEW t \in Writers, WriterStep(t)
        PROVE  TypeOK'
    <3>1. CASE Load(t)        BY <3>1 DEF Load
    <3>2. CASE Store(t)       BY <3>2 DEF Store
    <3>3. CASE AtomicInc(t)   BY <3>3 DEF AtomicInc
    <3>4. CASE Toggle(t)      BY <3>4 DEF Toggle
    <3>5. CASE Printk(t)
      <4>1. Printable(t) \subseteq Nat
        BY DEF Printable
      <4> QED
        BY <3>5, <4>1 DEF Printk, PrintForGood
    <3>6. CASE WriterLeave(t) BY <3>6 DEF WriterLeave, Unlock
    <3> QED
      BY <2>1, <3>1, <3>2, <3>3, <3>4, <3>5, <3>6 DEF WriterStep
  <2>2. ASSUME NEW t \in Readers, ReaderStep(t)
        PROVE  TypeOK'
    <3>1. CASE ReadPrint(t)   BY <3>1 DEF ReadPrint, PrintForGood
    <3>2. CASE ReadUnlock(t)  BY <3>2 DEF ReadUnlock
    <3>3. CASE SeqPeek(t)     BY <3>3 DEF SeqPeek
    <3>4. CASE SeqAgain(t)    BY <3>4 DEF SeqAgain
    <3>5. CASE SeqAccept(t)   BY <3>5 DEF SeqAccept
    <3> QED
      BY <2>2, <3>1, <3>2, <3>3, <3>4, <3>5 DEF ReaderStep
  <2>3. ASSUME NEW t \in Threads, Enter(t) \/ Awake(t) \/ Return(t)
        PROVE  TypeOK'
    <3>1. CASE t \in Writers /\ WriterEnter(t)  BY <3>1 DEF WriterEnter
    <3>2. CASE t \in Readers /\ ReadLock(t)     BY <3>2 DEF ReadLock
    <3>3. CASE t \in Readers /\ SeqBegin(t)     BY <3>3 DEF SeqBegin
    <3>4. CASE Awake(t)                         BY <3>4 DEF Awake
    <3>5. CASE Return(t)                        BY <3>5 DEF Return
    <3> QED
      BY <2>3, <3>1, <3>2, <3>3, <3>4, <3>5 DEF Enter
  <2>4. CASE AskStop
    <3>1. Len(StopOrder) \in Nat
      BY OrderAssumption
    <3> QED
      BY <2>4, <3>1 DEF AskStop
  <2>5. CASE UNCHANGED vars
    BY <2>5 DEF vars
  <2> QED
    BY <2>1, <2>2, <2>3, <2>4, <2>5 DEF Next
<1> QED
  BY <1>1, <1>2, PTL DEF Spec

-----------------------------------------------------------------------------
\* A lab keeps its discipline.
LEMMA GuardFixed == [Next]_vars => guard' = guard
BY DEF Next, WriterStep, ReaderStep, Enter, Load, Store, AtomicInc, Toggle, Printk, WriterLeave,
   Unlock, ReadPrint, ReadUnlock, SeqPeek, SeqAgain, SeqAccept, WriterEnter, ReadLock, SeqBegin,
   Awake, Return, AskStop, vars, locks

\* Every step of the sequence changes its parity.
LEMMA Parity == \A n \in Nat : (n % 2 = 0) <=> ~((n + 1) % 2 = 0)
OBVIOUS

\* A writer's step leaves the lock whole.
LEMMA WriterKeepsLock ==
    ASSUME Locked, LockInv, NEW t \in Writers,
           WriterStep(t) \/ WriterEnter(t)
    PROVE  LockKept'
<1> USE AmountAssumption, ThreadAssumption DEF LockInv, TypeOK, LockKept, Inside, Even, Threads,
        Goto, locks, Locked
<1>1. CASE Load(t)         BY <1>1 DEF Load
<1>2. CASE Store(t)        BY <1>2 DEF Store
<1>3. CASE AtomicInc(t)    BY <1>3 DEF AtomicInc
<1>4. CASE Toggle(t)       BY <1>4 DEF Toggle
<1>5. CASE Printk(t)       BY <1>5 DEF Printk, PrintForGood
<1>6. CASE WriterLeave(t)
  <2>1. owner = t /\ owner' = Nobody /\ pc' = [pc EXCEPT ![t] = "sleep"]
    BY <1>6 DEF WriterLeave, Unlock
  <2>2. \A u \in Writers : (Inside(u) <=> owner = u)' /\ (pc[u] # "toggle")'
    BY <2>1
  <2>3. \A u \in Writers : (pc[u] = "store" => reg[u] = value)'
    BY <1>6, <2>1 DEF WriterLeave
  <2>4. (guard = "rw" =>
           /\ \A r \in Readers : pc[r] \in {"look", "leave"} <=> r \in sharers
           /\ owner # Nobody => sharers = {})'
    BY <1>6, <2>1 DEF WriterLeave, Unlock
  <2>0. guard' = guard
    BY <1>6 DEF WriterLeave, Unlock
  <2>5. ASSUME guard = "seq"
        PROVE  /\ Even'
               /\ \A r \in Readers : (pc[r] \in {"look", "retry"} =>
                                        reg[r] <= seq /\ reg[r] % 2 = 0)'
               /\ \A r \in Readers : ~(pc[r] = "retry" /\ reg[r] = seq)'
    <3>1. seq' = seq + 1 /\ seq \in Nat /\ reg' = reg
      BY <1>6, <2>5 DEF WriterLeave, Unlock
    <3>2. ~Even
      BY <2>1, <2>5
    <3>3. Even'
      BY <3>1, <3>2, Parity
    <3>4. \A r \in Readers : r # t /\ pc'[r] = pc[r] /\ reg[r] \in Nat
      BY <2>1
    <3>5. \A r \in Readers : pc[r] \in {"look", "retry"} => reg[r] <= seq /\ reg[r] % 2 = 0
      BY <2>5
    <3>6. ASSUME NEW r \in Readers, pc'[r] \in {"look", "retry"}
          PROVE  reg'[r] <= seq' /\ reg'[r] # seq' /\ reg'[r] % 2 = 0
      <4> HIDE DEF LockInv, TypeOK, LockKept
      <4> QED BY <3>1, <3>4, <3>5, <3>6
    <3> HIDE DEF LockInv, TypeOK, LockKept
    <3> QED
      BY <3>3, <3>6
  <2> QED
    BY <2>0, <2>1, <2>2, <2>3, <2>4, <2>5
<1>7. CASE WriterEnter(t)
  <2>1. /\ owner = Nobody /\ sharers = {} /\ owner' = t
        /\ seq' = IF guard = "seq" THEN seq + 1 ELSE seq
        /\ pc' = [pc EXCEPT ![t] = "load"]
        /\ UNCHANGED <<guard, value, sharers, reg, shown>>
    BY <1>7 DEF WriterEnter, LockFree
  <2>2. \A u \in Writers : (Inside(u) <=> owner = u)' /\ (pc[u] # "toggle")'
    BY <2>1
  <2>3. \A u \in Writers : (pc[u] = "store" => reg[u] = value)'
    BY <2>1
  <2>4. ASSUME guard = "seq"
        PROVE  /\ ~Even'
               /\ \A r \in Readers : (pc[r] \in {"look", "retry"} =>
                                        reg[r] <= seq /\ reg[r] % 2 = 0)'
               /\ \A r \in Readers : ~(pc[r] = "retry" /\ reg[r] = seq)'
    <3>1. seq' = seq + 1 /\ seq \in Nat /\ Even
      BY <2>1, <2>4
    <3>2. ~Even'
      BY <3>1, Parity
    <3>3. \A r \in Readers : r # t /\ pc'[r] = pc[r] /\ reg[r] \in Nat /\ reg'[r] = reg[r]
      BY <2>1
    <3> QED
      BY <2>4, <3>1, <3>2, <3>3
  <2> QED
    BY <2>1, <2>2, <2>3, <2>4
<1> QED
  BY <1>1, <1>2, <1>3, <1>4, <1>5, <1>6, <1>7 DEF WriterStep

\* So does a reader's.
LEMMA ReaderKeepsLock ==
    ASSUME Locked, LockInv, NEW t \in Readers,
           ReaderStep(t) \/ ReadLock(t) \/ SeqBegin(t)
    PROVE  LockKept'
<1> USE AmountAssumption, ThreadAssumption DEF LockInv, TypeOK, LockKept, Inside, Even, Threads,
        Goto, locks, Locked
<1>1. CASE ReadPrint(t)    BY <1>1 DEF ReadPrint, PrintForGood
<1>2. CASE ReadUnlock(t)   BY <1>2 DEF ReadUnlock
<1>3. CASE SeqPeek(t)      BY <1>3 DEF SeqPeek
<1>4. CASE SeqAgain(t)
  <2>1. /\ guard = "seq" /\ Even /\ owner = Nobody
        /\ pc' = [pc EXCEPT ![t] = "look"] /\ reg' = [reg EXCEPT ![t] = seq]
        /\ UNCHANGED <<guard, value, owner, sharers, seq, shown>>
    BY <1>4 DEF SeqAgain
  <2>2. \A u \in Writers : u # t /\ pc'[u] = pc[u] /\ reg'[u] = reg[u]
    BY <2>1
  <2>3. \A r \in Readers : (pc[r] \in {"look", "retry"} => reg[r] <= seq /\ reg[r] % 2 = 0)'
    <3> SUFFICES ASSUME NEW r \in Readers, pc'[r] \in {"look", "retry"}
                 PROVE  reg'[r] <= seq /\ reg'[r] % 2 = 0
      BY <2>1
    <3>1. CASE r = t
      BY <2>1, <3>1
    <3>2. CASE r # t
      BY <2>1, <3>2
    <3> QED
      BY <3>1, <3>2
  <2>4. \A r \in Readers :
          (pc[r] = "retry" /\ reg[r] = seq => owner = Nobody /\ shown[r] = value)'
    BY <2>1
  <2>5. LockKept'
    BY <2>1, <2>2, <2>3, <2>4
  <2> QED
    BY <2>5
<1>5. CASE SeqAccept(t)    BY <1>5 DEF SeqAccept
<1>6. CASE ReadLock(t)     BY <1>6 DEF ReadLock
<1>7. CASE SeqBegin(t)
  <2>1. /\ guard = "seq" /\ Even /\ owner = Nobody
        /\ pc' = [pc EXCEPT ![t] = "look"] /\ reg' = [reg EXCEPT ![t] = seq]
        /\ UNCHANGED <<guard, value, owner, sharers, seq, shown>>
    BY <1>7 DEF SeqBegin
  <2>2. \A u \in Writers : u # t /\ pc'[u] = pc[u] /\ reg'[u] = reg[u]
    BY <2>1
  <2>3. \A r \in Readers : (pc[r] \in {"look", "retry"} => reg[r] <= seq /\ reg[r] % 2 = 0)'
    <3> SUFFICES ASSUME NEW r \in Readers, pc'[r] \in {"look", "retry"}
                 PROVE  reg'[r] <= seq /\ reg'[r] % 2 = 0
      BY <2>1
    <3>1. CASE r = t
      BY <2>1, <3>1
    <3>2. CASE r # t
      BY <2>1, <3>2
    <3> QED
      BY <3>1, <3>2
  <2>4. \A r \in Readers :
          (pc[r] = "retry" /\ reg[r] = seq => owner = Nobody /\ shown[r] = value)'
    BY <2>1
  <2> QED
    BY <2>1, <2>2, <2>3, <2>4
<1> QED
  BY <1>1, <1>2, <1>3, <1>4, <1>5, <1>6, <1>7 DEF ReaderStep

\* mutex_lock, spin_lock, write_lock and write_seqlock keep out whoever must
\* stay out, and the threads of a locked lab give back what they took.
THEOREM LockInvariant == Spec => []LockInv
<1>1. Init => LockKept
  BY ThreadAssumption DEF Init, LockKept, Inside, Even, Threads, Locked
<1>2. LockInv /\ [Next]_vars => LockKept'
  <2> SUFFICES ASSUME LockInv, [Next]_vars
               PROVE  LockKept'
    OBVIOUS
  <2>1. CASE ~Locked
    BY <2>1, GuardFixed DEF LockKept, Locked
  <2>2. CASE Locked
    <3>1. ASSUME NEW t \in Threads, Awake(t) \/ Return(t)
          PROVE  LockKept'
      BY SMTT(30), <2>2, <3>1, ThreadAssumption DEF Awake, Return, LockInv, TypeOK, LockKept, Inside, Even,
         Threads, Goto, locks, Locked
    <3>2. ASSUME AskStop \/ UNCHANGED vars
          PROVE  LockKept'
      BY <2>2, <3>2 DEF AskStop, vars, locks, LockInv, LockKept, Inside, Even, Locked
    <3> QED
      BY <2>2, <3>1, <3>2, WriterKeepsLock, ReaderKeepsLock DEF Next, Enter
  <2> QED
    BY <2>1, <2>2
<1> QED
  BY <1>1, <1>2, TypeCorrect, PTL DEF Spec, LockInv

-----------------------------------------------------------------------------
\* While no writer is inside nothing waits to be printed.
LEMMA NobodyPrints ==
    ASSUME Locked, LockInv, owner = Nobody
    PROVE  Printed = value
BY ThreadAssumption DEF Locked, LockInv, LockKept, Inside, Printed, Threads

\* A writer's print shows the sum and makes it count.
LEMMA PrintCounts ==
    ASSUME Locked, LockInv, NEW t \in Writers, Printk(t)
    PROVE  Printed' = Printed + Amount /\ PrintForGood(t, Printed')
<1> USE AmountAssumption, ThreadAssumption DEF LockInv, TypeOK, LockKept, Inside, Threads, Goto,
        locks, Locked
<1>1. Printed = value - Amount
  BY DEF Printk, Printed, PrintForGood
<1>2. Printed' = value
  BY DEF Printk, Printed, PrintForGood
<1>3. PrintForGood(t, value)
  BY DEF Printk, Printable
<1> QED
  BY <1>1, <1>2, <1>3

\* A writer's other steps change nothing that counts.
LEMMA WriterStutters ==
    ASSUME Locked, LockInv, NEW t \in Writers, WriterStep(t), ~Printk(t)
    PROVE  UNCHANGED <<Printed, shown, kept>>
<1> USE AmountAssumption, ThreadAssumption DEF LockInv, TypeOK, LockKept, Inside, Threads, Goto,
        locks, Locked
<1>1. CASE Load(t)         BY <1>1 DEF Load, Printed
<1>2. CASE Store(t)
  <2>1. Printed = value
    BY <1>2 DEF Store, Printed
  <2>2. Printed' = value' - Amount
    BY <1>2 DEF Store, Printed
  <2> QED
    BY <1>2, <2>1, <2>2 DEF Store
<1>3. CASE AtomicInc(t)    BY <1>3 DEF AtomicInc, Printed
<1>4. CASE Toggle(t)       BY <1>4 DEF Toggle, Printed
<1>5. CASE WriterLeave(t)  BY <1>5 DEF WriterLeave, Unlock, Printed
<1> QED
  BY <1>1, <1>2, <1>3, <1>4, <1>5 DEF WriterStep

\* The seqlock's variable is the counter, or an addition ahead of it.
LEMMA AtMostOneAhead ==
    ASSUME Locked, LockInv
    PROVE  value \in {Printed, Printed + Amount}
BY AmountAssumption DEF LockInv, TypeOK, Printed

\* A reader's step shows the counter as it is, or nothing new; or, in seqlock_module.c,
\* prints what it has not yet made sure of.
LEMMA ReaderLooks ==
    ASSUME Locked, LockInv, NEW t \in Readers, ReaderStep(t)
    PROVE  /\ Printed' = Printed
           /\ \/ UNCHANGED <<shown, kept>>
              \/ PrintForGood(t, Printed)
              \/ /\ guard = "seq" /\ kept' = kept
                 /\ \E v \in {Printed, Printed + Amount} : shown' = [shown EXCEPT ![t] = v]
<1> USE AmountAssumption, ThreadAssumption DEF LockInv, TypeOK, LockKept, Inside, Threads, Goto,
        locks, Locked
<1>1. CASE ReadPrint(t)
  <2>1. owner = Nobody
    BY <1>1 DEF ReadPrint
  <2>2. Printed = value /\ Printed' = Printed
    BY <1>1, <2>1, NobodyPrints DEF ReadPrint, Printed
  <2> QED
    BY <1>1, <2>2 DEF ReadPrint
<1>2. CASE ReadUnlock(t)   BY <1>2 DEF ReadUnlock, Printed
<1>3. CASE SeqPeek(t)
  <2>1. Printed' = Printed
    BY <1>3 DEF SeqPeek, Printed
  <2>2. \E v \in {Printed, Printed + Amount} : shown' = [shown EXCEPT ![t] = v]
    BY <1>3, AtMostOneAhead DEF SeqPeek
  <2> QED
    BY <1>3, <2>1, <2>2 DEF SeqPeek
<1>4. CASE SeqAgain(t)     BY <1>4 DEF SeqAgain, Printed
<1>5. CASE SeqAccept(t)
  <2>1. owner = Nobody /\ shown[t] = value
    BY <1>5 DEF SeqAccept, RetryNeeded
  <2>2. Printed = value /\ Printed' = Printed
    BY <1>5, <2>1, NobodyPrints DEF SeqAccept, Printed
  <2>3. shown' = [shown EXCEPT ![t] = Printed] /\ kept' = [kept EXCEPT ![t] = Printed]
    BY <1>5, <2>1, <2>2 DEF SeqAccept
  <2> QED
    BY <2>2, <2>3 DEF PrintForGood
<1> QED
  BY <1>1, <1>2, <1>3, <1>4, <1>5 DEF ReaderStep

\* Nor do the steps outside the critical sections count.
LEMMA OthersStutter ==
    ASSUME NEW t \in Threads, Enter(t) \/ Awake(t) \/ Return(t) \/ AskStop \/ UNCHANGED vars
    PROVE  UNCHANGED <<Printed, shown, kept>>
<1>1. CASE UNCHANGED vars
  BY <1>1 DEF vars, Printed
<1>2. CASE AskStop
  BY <1>2 DEF AskStop, Printed
<1>3. CASE Enter(t) \/ Awake(t) \/ Return(t)
  <2>1. /\ value' = value /\ shown' = shown /\ kept' = kept
        /\ \E where \in {"load", "look", "top", "stopped"} : pc' = [pc EXCEPT ![t] = where]
        /\ pc[t] \in {"top", "sleep", "retry"}
    BY <1>3 DEF Enter, WriterEnter, ReadLock, SeqBegin, Awake, Return, Goto
  <2>2. \A u \in Writers : pc'[u] = "print" <=> pc[u] = "print"
    BY <2>1
  <2> QED
    BY <2>1, <2>2 DEF Printed
<1> QED
  BY <1>1, <1>2, <1>3

\* A step of a lab is a step of AtomicCounter or changes nothing there.
LEMMA StepRefines ==
    ASSUME LockInv, [Next]_vars
    PROVE  [Counter!Next]_<<Total, Display, Record, guard = "seq">>
<1> DEFINE Refined == [Counter!Next]_<<Total, Display, Record, guard = "seq">>
<1>1. guard' = guard /\ (guard = "seq")' = (guard = "seq")
  BY GuardFixed
<1>2. CASE ~Locked
  BY <1>1, <1>2 DEF Locked, Total, Display, Record
<1>3. CASE Locked
  <2>1. /\ Total = Printed /\ Total' = Printed'
        /\ Display = shown /\ Display' = shown'
        /\ Record = kept /\ Record' = kept'
    BY <1>1, <1>3 DEF Locked, Total, Display, Record
  <2>2. ASSUME NEW t \in Writers, WriterStep(t) PROVE Refined
    <3>1. CASE Printk(t)
      <4>1. Counter!Tick(t)
        BY <1>1, <1>3, <2>1, <3>1, PrintCounts
           DEF Counter!Tick, Counter!PrintForGood, PrintForGood
      <4> QED BY <4>1 DEF Counter!Next
    <3>2. CASE ~Printk(t)
      BY <1>1, <1>3, <2>1, <2>2, <3>2, WriterStutters
    <3> QED BY <3>1, <3>2
  <2>3. ASSUME NEW t \in Readers, ReaderStep(t) PROVE Refined
    <3>1. CASE UNCHANGED <<Printed, shown, kept>>
      BY <1>1, <2>1, <3>1
    <3>2. CASE Printed' = Printed /\ PrintForGood(t, Printed)
      <4>1. Counter!Look(t)
        BY <1>1, <2>1, <3>2 DEF Counter!Look, Counter!PrintForGood, PrintForGood
      <4> QED BY <4>1 DEF Counter!Next
    <3>3. CASE /\ Printed' = Printed /\ guard = "seq" /\ kept' = kept
               /\ \E v \in {Printed, Printed + Amount} : shown' = [shown EXCEPT ![t] = v]
      <4>1. Counter!Peek(t)
        BY <1>1, <2>1, <3>3 DEF Counter!Peek
      <4> QED BY <4>1 DEF Counter!Next
    <3> QED BY <1>3, <2>3, <3>1, <3>2, <3>3, ReaderLooks
  <2>4. ASSUME NEW t \in Threads, Enter(t) \/ Awake(t) \/ Return(t) PROVE Refined
    BY <1>1, <2>1, <2>4, OthersStutter
  <2>5. ASSUME AskStop \/ UNCHANGED vars PROVE Refined
    BY <1>1, <2>1, <2>5 DEF AskStop, vars, Printed
  <2> QED
    BY <2>2, <2>3, <2>4, <2>5 DEF Next
<1> QED
  BY <1>2, <1>3

\* The locked labs implement the atomic counter, and the seqlock's reader, which prints
\* early, the one whose readers may.
THEOREM LockedLabsAreAtomic == Spec => Atomic
<1>1. Init => Counter!Init
  BY DEF Init, Counter!Init, Total, Printed, Display, Record, Threads
<1>2. LockInv /\ [Next]_vars => [Counter!Next]_<<Total, Display, Record, guard = "seq">>
  BY StepRefines
<1> QED
  BY <1>1, <1>2, LockInvariant, PTL DEF Spec, Atomic, Counter!Spec
-----------------------------------------------------------------------------
\* Two writers between their load and their store have raced; one alone has loaded the
\* current value, so that its sum is the next one.
StoreInv ==
    /\ ~raced => \A t, u \in Writers :
         pc[t] = "store" => reg[t] = value /\ (pc[u] = "store" => u = t)
    /\ guard = "atomic" => \A t \in Writers : pc[t] # "store"

CountInv == NoLostUpdate /\ StoreInv

\* One more addition is one more Amount.
LEMMA OneMore == \A n \in Nat : Amount * n + Amount = Amount * (n + 1)
BY AmountAssumption

\* The critical section of a locked lab, and atomic_inc, never overlap another's.
LEMMA GuardsKeepApart ==
    ASSUME LockInv, StoreInv, NEW t \in Writers, Load(t), guard # "none"
    PROVE  ~Overlap(t)
<1>1. CASE Locked
  <2>1. owner = t
    BY <1>1 DEF LockInv, LockKept, Inside, Load
  <2>2. \A u \in Writers : pc[u] = "store" => owner = u
    BY <1>1 DEF LockInv, LockKept, Inside
  <2> QED
    BY <2>1, <2>2 DEF Overlap
<1>2. CASE ~Locked
  <2>1. guard = "atomic"
    BY <1>2, GuardAssumption DEF Locked, LockInv, TypeOK
  <2> QED
    BY <2>1 DEF Load
<1> QED
  BY <1>1, <1>2

\* A writer's step keeps the count.
LEMMA WriterKeepsCount ==
    ASSUME LockInv, CountInv, NEW t \in Writers, WriterStep(t)
    PROVE  CountInv'
<1> USE DEF CountInv, NoLostUpdate, StoreInv, LockInv, TypeOK, Threads, Goto, locks
<1>1. CASE Load(t)
  <2>1. guard # "none" => ~Overlap(t)
    BY <1>1, GuardsKeepApart
  <2>2. NoLostUpdate'
    BY <1>1, <2>1 DEF Load
  <2>3. ASSUME ~raced', NEW v \in Writers, NEW u \in Writers, pc'[v] = "store"
        PROVE  reg'[v] = value' /\ (pc'[u] = "store" => u = v)
    <3>1. ~raced /\ \A x \in Writers : pc[x] = "store" => x = t
      BY <1>1, <2>3 DEF Load, Overlap
    <3> QED
      BY <1>1, <2>3, <3>1 DEF Load
  <2>4. guard' # "atomic"
    BY <1>1 DEF Load
  <2> QED
    BY <2>2, <2>3, <2>4
<1>2. CASE Store(t)
  <2>1. ~raced => value' = Amount * adds'
    BY <1>2, OneMore DEF Store
  <2>2. ASSUME ~raced' PROVE \A u \in Writers : pc'[u] # "store"
    BY <1>2, <2>2 DEF Store
  <2> QED
    BY <1>2, <2>1, <2>2 DEF Store
<1>3. CASE AtomicInc(t)
  <2>1. ~raced => value' = Amount * adds'
    BY <1>3, OneMore DEF AtomicInc
  <2>2. \A u \in Writers : pc'[u] # "store"
    BY <1>3 DEF AtomicInc
  <2> QED
    BY <1>3, <2>1, <2>2 DEF AtomicInc
<1>4. CASE Toggle(t)       BY <1>4 DEF Toggle
<1>5. CASE Printk(t)       BY <1>5 DEF Printk, PrintForGood
<1>6. CASE WriterLeave(t)  BY <1>6 DEF WriterLeave, Unlock
<1> QED
  BY <1>1, <1>2, <1>3, <1>4, <1>5, <1>6 DEF WriterStep

\* Readers, and the steps outside the critical sections, do not touch it.
LEMMA OthersKeepCount ==
    ASSUME LockInv, CountInv, NEW t \in Threads,
           \/ t \in Readers /\ ReaderStep(t)
           \/ Enter(t) \/ Awake(t) \/ Return(t) \/ AskStop \/ UNCHANGED vars
    PROVE  CountInv'
<1>1. UNCHANGED <<guard, value, adds, raced>>
  BY DEF ReaderStep, ReadPrint, ReadUnlock, SeqPeek, SeqAgain, SeqAccept, Enter, WriterEnter,
     ReadLock, SeqBegin, Awake, Return, AskStop, vars, locks
<1>2. \A u \in Writers : pc'[u] = "store" => pc[u] = "store" /\ reg'[u] = reg[u]
  <2> USE ThreadAssumption DEF LockInv, TypeOK, Threads, Goto
  <2>1. CASE t \in Readers /\ (ReaderStep(t) \/ ReadLock(t) \/ SeqBegin(t))
    BY <2>1 DEF ReaderStep, ReadPrint, ReadUnlock, SeqPeek, SeqAgain, SeqAccept, ReadLock,
       SeqBegin
  <2>2. CASE WriterEnter(t) \/ Awake(t) \/ Return(t)
    BY <2>2 DEF WriterEnter, Awake, Return
  <2>3. CASE AskStop \/ UNCHANGED vars
    BY <2>3 DEF AskStop, vars
  <2> QED
    BY <2>1, <2>2, <2>3 DEF Enter
<1> QED
  BY <1>1, <1>2 DEF CountInv, NoLostUpdate, StoreInv

\* No lab loses an addition unless two of them overlapped, and under a lock or with
\* atomic_inc none do.
THEOREM NothingIsLost == Spec => []NoLostUpdate
<1>1. Init => CountInv
  BY AmountAssumption DEF Init, CountInv, NoLostUpdate, StoreInv, Threads
<1>2. LockInv /\ CountInv /\ [Next]_vars => CountInv'
  <2> SUFFICES ASSUME LockInv, CountInv, [Next]_vars
               PROVE  CountInv'
    OBVIOUS
  <2>1. CASE \E t \in Writers : WriterStep(t)
    BY <2>1, WriterKeepsCount
  <2>2. CASE \E t \in Threads : \/ t \in Readers /\ ReaderStep(t)
                                \/ Enter(t) \/ Awake(t) \/ Return(t)
    BY <2>2, OthersKeepCount
  <2>3. CASE AskStop \/ UNCHANGED vars
    BY <2>3 DEF AskStop, vars, locks, CountInv, NoLostUpdate, StoreInv
  <2> QED
    BY <2>1, <2>2, <2>3 DEF Next, Threads
<1>3. CountInv => NoLostUpdate
  BY DEF CountInv
<1> QED
  BY <1>1, <1>2, <1>3, LockInvariant, PTL DEF Spec
=============================================================================
