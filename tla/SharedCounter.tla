---------------------------- MODULE SharedCounter ----------------------------
(***************************************************************************)
(* The threads of labs 12, 15, 23 and 24 share one counting variable       *)
(* (read_count, global_variable, atomic_v, seq_variable).  They are the    *)
(* same loop, guarded in the way the lab is about:                         *)
(*                                                                         *)
(*   "none"    without_mutex_module.c: nothing                             *)
(*   "lock"    mutex_module.c, spinlock_module.c: a mutex, a spinlock      *)
(*   "rw"      rwspinlock_module.c: write_lock, read_lock                  *)
(*   "seq"     seqlock_module.c: write_seqlock, read_seqbegin/-retry       *)
(*   "atomic"  atomic_variable.c: atomic_inc, test_and_change_bit          *)
(*                                                                         *)
(* x += n is a load and a store.  What a thread prints matters as much as  *)
(* what it stores: the print is inside the critical section.               *)
(***************************************************************************)
EXTENDS Integers, Sequences, FiniteSets

CONSTANTS
    Guards,     \* the disciplines looked at
    Team,       \* the threads of the lab with each discipline
    Writers,    \* threads that add
    Readers,    \* threads that only print
    Amount,     \* what a writer adds
    StopOrder,  \* the threads in the order hello_exit stops them; those the
                \* lab does not have count as stopped
    MaxRounds,  \* bound on the additions, for TLC
    Nobody      \* no thread

Threads == Writers \cup Readers

ASSUME GuardAssumption  == Guards \subseteq {"none", "lock", "rw", "seq", "atomic"}
ASSUME TeamAssumption   == Team \in [Guards -> SUBSET Threads]
ASSUME ThreadAssumption == Writers \cap Readers = {} /\ Nobody \notin Threads
ASSUME OrderAssumption  == StopOrder \in Seq(Threads)
ASSUME AmountAssumption == Amount \in Nat \ {0}
ASSUME RoundsAssumption == MaxRounds \in Nat

VARIABLES
    guard,    \* the lab's discipline
    value,    \* the shared variable
    owner,    \* who holds the lock for writing
    sharers,  \* who holds it for reading
    seq,      \* the seqlock's sequence
    bit,      \* bit 1 of bit_check
    pc,       \* where each thread stands
    reg,      \* a thread's register: the loaded value, or the sequence number
    shown,    \* what each thread printed last
    kept,     \* history: the last print it did not go back on
    stops,    \* how many threads the exit function asked to stop; 0: loaded
    adds,     \* history: additions stored
    raced     \* history: two additions overlapped

vars == <<guard, value, owner, sharers, seq, bit, pc, reg, shown, kept, stops, adds, raced>>
locks == <<guard, owner, sharers, seq>>

WriterPcs == {"top", "load", "store", "toggle", "print", "leave", "sleep", "stopped"}
ReaderPcs == {"top", "look", "retry", "leave", "sleep", "stopped"}

Init ==
    /\ guard \in Guards
    /\ value = 0
    /\ owner = Nobody
    /\ sharers = {}
    /\ seq = 0
    /\ bit = 0
    /\ pc = [t \in Threads |-> IF t \in Team[guard] THEN "top" ELSE "stopped"]
    /\ reg = [t \in Threads |-> 0]
    /\ shown = [t \in Threads |-> 0]
    /\ kept = [t \in Threads |-> 0]
    /\ stops = 0
    /\ adds = 0
    /\ raced = FALSE

Goto(t, where) == pc' = [pc EXCEPT ![t] = where]

\* kthread_should_stop()
ShouldStop(t) == \E i \in 1..stops : StopOrder[i] = t

-----------------------------------------------------------------------------
(* A writer's round *)

\* Another thread stands between its load and its store.
Overlap(t) == \E u \in Writers \ {t} : pc[u] = "store"

\* mutex_lock, spin_lock, write_lock and write_seqlock wait for this.
LockFree == owner = Nobody /\ sharers = {}

\* while(!kthread_should_stop()) { lock
WriterEnter(t) ==
    /\ pc[t] = "top"
    /\ ~ShouldStop(t)
    /\ adds < MaxRounds
    /\ guard \in {"lock", "rw", "seq"} => LockFree
    /\ owner' = IF guard \in {"lock", "rw", "seq"} THEN t ELSE owner
    /\ seq' = IF guard = "seq" THEN seq + 1 ELSE seq
    /\ Goto(t, "load")
    /\ UNCHANGED <<guard, value, sharers, bit, reg, shown, kept, stops, adds, raced>>

\* The first half of read_count++.
Load(t) ==
    /\ pc[t] = "load"
    /\ guard # "atomic"
    /\ reg' = [reg EXCEPT ![t] = value]
    /\ raced' = (raced \/ Overlap(t))
    /\ Goto(t, "store")
    /\ UNCHANGED <<value, locks, bit, shown, kept, stops, adds>>

\* Mutant: the sum is one short.
StoreShort(t) ==
    /\ pc[t] = "store"
    /\ value' = reg[t] + Amount - 1
    /\ adds' = adds + 1
    /\ Goto(t, "print")
    /\ UNCHANGED <<locks, bit, reg, shown, kept, stops, raced>>

\* The second half.
Store(t) ==
    /\ pc[t] = "store"
    /\ value' = reg[t] + Amount
    /\ adds' = adds + 1
    /\ Goto(t, "print")
    /\ UNCHANGED <<locks, bit, reg, shown, kept, stops, raced>>

\* atomic_inc(&atomic_v)
AtomicInc(t) ==
    /\ pc[t] = "load"
    /\ guard = "atomic"
    /\ value' = value + Amount
    /\ adds' = adds + 1
    /\ Goto(t, "toggle")
    /\ UNCHANGED <<locks, bit, reg, shown, kept, stops, raced>>

\* per_value = test_and_change_bit(1, &bit_check)
Toggle(t) ==
    /\ pc[t] = "toggle"
    /\ reg' = [reg EXCEPT ![t] = bit]
    /\ bit' = 1 - bit
    /\ Goto(t, "print")
    /\ UNCHANGED <<value, locks, shown, kept, stops, adds, raced>>

\* The operand of pr_info: without a lock the build may reload the variable
\* or print the sum still in the register.
Printable(t) ==
    IF guard = "none" THEN {value, reg[t] + Amount} ELSE {value}

\* pr_info(...) of a value that stands.
PrintForGood(t, v) ==
    /\ shown' = [shown EXCEPT ![t] = v]
    /\ kept' = [kept EXCEPT ![t] = v]

\* pr_info(... read_count)
Printk(t) ==
    /\ pc[t] = "print"
    /\ \E v \in Printable(t) : PrintForGood(t, v)
    /\ Goto(t, "leave")
    /\ UNCHANGED <<value, locks, bit, reg, stops, adds, raced>>

\* Mutant: the lock is kept.
UnlockForgotten(t) == UNCHANGED locks

\* mutex_unlock and its kin; write_sequnlock makes the sequence even.
Unlock(t) ==
    /\ owner' = IF owner = t THEN Nobody ELSE owner
    /\ seq' = IF guard = "seq" THEN seq + 1 ELSE seq
    /\ UNCHANGED <<guard, sharers>>

WriterLeave(t) ==
    /\ pc[t] = "leave"
    /\ Unlock(t)
    /\ Goto(t, "sleep")
    /\ UNCHANGED <<value, bit, reg, shown, kept, stops, adds, raced>>

\* msleep is over; spinlock_module.c's first thread has none.
Awake(t) ==
    /\ pc[t] = "sleep"
    /\ Goto(t, "top")
    /\ UNCHANGED <<value, locks, bit, reg, shown, kept, stops, adds, raced>>

-----------------------------------------------------------------------------
(* A reader's round: rwspinlock_module.c *)

\* read_lock waits for a writer only.
ReadLock(t) ==
    /\ guard = "rw"
    /\ pc[t] = "top"
    /\ ~ShouldStop(t)
    /\ owner = Nobody
    /\ sharers' = sharers \cup {t}
    /\ Goto(t, "look")
    /\ UNCHANGED <<guard, value, owner, seq, bit, reg, shown, kept, stops, adds, raced>>

ReadPrint(t) ==
    /\ guard = "rw"
    /\ pc[t] = "look"
    /\ PrintForGood(t, value)
    /\ Goto(t, "leave")
    /\ UNCHANGED <<value, locks, bit, reg, stops, adds, raced>>

ReadUnlock(t) ==
    /\ guard = "rw"
    /\ pc[t] = "leave"
    /\ sharers' = sharers \ {t}
    /\ Goto(t, "sleep")
    /\ UNCHANGED <<guard, value, owner, seq, bit, reg, shown, kept, stops, adds, raced>>

-----------------------------------------------------------------------------
(* A reader's round: seqlock_module.c *)

Even == seq % 2 = 0

\* seq_no = read_seqbegin(&my_seqlock)
SeqBegin(t) ==
    /\ guard = "seq"
    /\ pc[t] = "top"
    /\ ~ShouldStop(t)
    /\ Even
    /\ reg' = [reg EXCEPT ![t] = seq]
    /\ Goto(t, "look")
    /\ UNCHANGED <<value, locks, bit, shown, kept, stops, adds, raced>>

\* pr_info(" T2 sv:%lu\n", seq_variable): printed, before it is known to be good
SeqPeek(t) ==
    /\ guard = "seq"
    /\ pc[t] = "look"
    /\ shown' = [shown EXCEPT ![t] = value]
    /\ Goto(t, "retry")
    /\ UNCHANGED <<value, locks, bit, reg, kept, stops, adds, raced>>

\* Mutant: read_seqretry finds nothing wrong.
RetryNever(t) == FALSE

\* read_seqretry(&my_seqlock, seq_no)
RetryNeeded(t) == seq # reg[t]

\* while (read_seqretry(...)): the loop goes back to read_seqbegin without
\* looking at kthread_should_stop.
SeqAgain(t) ==
    /\ guard = "seq"
    /\ pc[t] = "retry"
    /\ RetryNeeded(t)
    /\ Even
    /\ reg' = [reg EXCEPT ![t] = seq]
    /\ Goto(t, "look")
    /\ UNCHANGED <<value, locks, bit, shown, kept, stops, adds, raced>>

\* The loop is left, and what it printed last stands.
SeqAccept(t) ==
    /\ guard = "seq"
    /\ pc[t] = "retry"
    /\ ~RetryNeeded(t)
    /\ kept' = [kept EXCEPT ![t] = shown[t]]
    /\ Goto(t, "sleep")
    /\ UNCHANGED <<value, locks, bit, reg, shown, stops, adds, raced>>

-----------------------------------------------------------------------------
(* hello_exit: one kthread_stop after the other *)

\* kthread_stop(t): ask, and wait until the thread has returned.
AskStop ==
    /\ stops < Len(StopOrder)
    /\ stops > 0 => pc[StopOrder[stops]] = "stopped"
    /\ stops' = stops + 1
    /\ UNCHANGED <<value, locks, bit, pc, reg, shown, kept, adds, raced>>

\* The loop condition is false.
Return(t) ==
    /\ pc[t] = "top"
    /\ ShouldStop(t)
    /\ Goto(t, "stopped")
    /\ UNCHANGED <<value, locks, bit, reg, shown, kept, stops, adds, raced>>

-----------------------------------------------------------------------------
WriterStep(t) ==
    Load(t) \/ Store(t) \/ AtomicInc(t) \/ Toggle(t) \/ Printk(t) \/ WriterLeave(t)

ReaderStep(t) ==
    ReadPrint(t) \/ ReadUnlock(t) \/ SeqPeek(t) \/ SeqAgain(t) \/ SeqAccept(t)

\* Waiting for a lock, or for an even sequence.
Enter(t) ==
    \/ t \in Writers /\ WriterEnter(t)
    \/ t \in Readers /\ (ReadLock(t) \/ SeqBegin(t))

Next ==
    \/ \E t \in Writers : WriterStep(t)
    \/ \E t \in Readers : ReaderStep(t)
    \/ \E t \in Threads : Enter(t) \/ Awake(t) \/ Return(t)
    \/ AskStop

Spec == Init /\ [][Next]_vars

\* Threads are scheduled; mutexes, spinlocks and rwlocks queue their waiters,
\* so a thread that waits for a lock released again and again gets it.  The
\* module may stay loaded for ever, but a hello_exit that has begun goes on.
FairSpec ==
    /\ Spec
    /\ \A t \in Writers : WF_vars(WriterStep(t))
    /\ \A t \in Readers : WF_vars(ReaderStep(t))
    /\ WF_vars(stops > 0 /\ AskStop)
    /\ \A t \in Threads : WF_vars(Awake(t)) /\ WF_vars(Return(t)) /\ SF_vars(Enter(t))

-----------------------------------------------------------------------------
(* Properties *)

\* Every variable has its type.
TypeOK ==
    /\ guard \in Guards
    /\ value \in Nat
    /\ owner \in Writers \cup {Nobody}
    /\ sharers \subseteq Readers
    /\ seq \in Nat
    /\ bit \in {0, 1}
    /\ pc \in [Threads -> WriterPcs \cup ReaderPcs]
    /\ reg \in [Threads -> Nat]
    /\ shown \in [Threads -> Nat]
    /\ kept \in [Threads -> Nat]
    /\ stops \in 0..Len(StopOrder)
    /\ adds \in Nat
    /\ raced \in BOOLEAN

\* Every addition is in the variable, unless two of them overlapped - and
\* they can only overlap where there is no guard.  (mutex_module.c,
\* without_mutex_module.c: with and without mutex_lock around read_count++.)
NoLostUpdate ==
    /\ ~raced => value = Amount * adds
    /\ guard # "none" => ~raced

\* The labs with a mutex, a spinlock, a rwlock or a seqlock.
Locked == guard \in {"lock", "rw", "seq"}

\* Between taking the lock and releasing it.
Inside(t) == pc[t] \in {"load", "store", "print", "leave"}

\* The lock is whole: one writer inside or some readers, the loaded value is
\* the current one, and a reader of the seqlock whose sequence still stands
\* has printed the current one.  What makes the locked labs work.
LockKept ==
    Locked =>
        /\ \A t \in Writers : (Inside(t) <=> owner = t) /\ pc[t] # "toggle"
        /\ \A t \in Writers : pc[t] = "store" => reg[t] = value
        /\ guard = "rw" =>
            /\ \A r \in Readers : pc[r] \in {"look", "leave"} <=> r \in sharers
            /\ owner # Nobody => sharers = {}
        /\ guard = "seq" =>
            /\ Even <=> owner = Nobody
            /\ \A r \in Readers : pc[r] \in {"look", "retry"} =>
                                      reg[r] <= seq /\ reg[r] % 2 = 0
            /\ \A r \in Readers :
                pc[r] = "retry" /\ reg[r] = seq => owner = Nobody /\ shown[r] = value

\* The lock of a locked lab stays whole, in the form that each step preserves:
\* with the types it rests on.
LockInv == TypeOK /\ LockKept

\* The counter a locked lab shows: an addition counts from its print on.
Printed == IF \E t \in Writers : pc[t] = "print" THEN value - Amount ELSE value

\* The labs without a lock promise no such counter, theirs stands still.
Total == IF Locked THEN Printed ELSE 0
Display == IF Locked THEN shown ELSE [t \in Threads |-> 0]
Record == IF Locked THEN kept ELSE [t \in Threads |-> 0]

Counter == INSTANCE AtomicCounter
             WITH total <- Total, shown <- Display, kept <- Record, early <- guard = "seq"

\* The threads of a locked lab do what AtomicCounter says: additions are seen
\* when printed, and no reader shows the middle of a round; except that the
\* reader of seqlock_module.c prints before it knows, and what it then goes
\* back on may be one addition early.  What it does not go back on is right.
Atomic == Counter!Spec

\* Once hello_exit asks the first thread to stop it gets past every thread.
\* (It stops the seqlock's writer first, so the reader's retries end.)
ExitStopsAll == stops = 1 ~> \A t \in Threads : pc[t] = "stopped"
=============================================================================
