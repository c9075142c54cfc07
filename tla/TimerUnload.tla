----------------------------- MODULE TimerUnload -----------------------------
(***************************************************************************)
(* The timers of lab 20 and of k_spinlocks_module-15/                      *)
(* spinlock_with_interrupts.c re-arm themselves, and hello_exit takes them *)
(* down: with del_timer, which does not wait for a callback that runs on   *)
(* another processor, or with hrtimer_cancel, which does.                  *)
(*                                                                         *)
(* The third driver also has a thread.  Its callback takes spinlock_test   *)
(* with spin_lock in the timer softirq, its thread takes it with           *)
(* spin_lock_irqsave: the softirq may interrupt a thread that is on the    *)
(* same processor, and would wait there for ever for a lock the thread     *)
(* holds.                                                                  *)
(***************************************************************************)
EXTENDS Integers, Sequences

CONSTANTS
    Cpus,      \* processors
    None       \* no processor, nobody

Drivers == {"timer_module", "hrtimer_module", "spinlock_with_interrupts"}

VARIABLES
    driver,   \* the driver considered
    phase,    \* "loaded", then hello_exit's steps, then "gone"
    armed,    \* the timer is queued
    cpu,      \* the processor the callback runs on
    cpc,      \* where the callback stands
    lock,     \* spinlock_test: "free", "callback", "thread"
    value,    \* global_variable
    tpc,      \* where the thread stands
    home,     \* the processor the thread is on
    masked,   \* the thread has interrupts disabled there
    asked,    \* kthread_stop was called
    crash,    \* freed memory was used
    overtook  \* history: del_timer did not wait for the callback that ran

vars == <<driver, phase, armed, cpu, cpc, lock, value, tpc, home, masked, asked,
          crash, overtook>>
callback == <<armed, cpu, cpc>>
thread == <<tpc, home, masked>>

HasThread == driver = "spinlock_with_interrupts"

\* hello_init arms the timer last; the thread runs by then.
Init ==
    /\ driver \in Drivers
    /\ phase = "loaded"
    /\ armed = TRUE
    /\ cpu = None
    /\ cpc = "idle"
    /\ lock = "free"
    /\ value = 0
    /\ tpc = IF HasThread THEN "top" ELSE "stopped"
    /\ home \in Cpus
    /\ masked = FALSE
    /\ asked = FALSE
    /\ crash = FALSE
    /\ overtook = FALSE

Alive == ~crash

-----------------------------------------------------------------------------
(* timer_handler, timer_callback *)

\* The timer expires on some processor whose interrupts are enabled; running
\* a callback whose text or timer is freed is the end.
Expires ==
    /\ Alive /\ armed /\ cpc = "idle"
    /\ IF phase = "gone"
       THEN crash' = TRUE /\ UNCHANGED callback
       ELSE /\ \E c \in Cpus : ~(masked /\ home = c) /\ cpu' = c
            /\ armed' = FALSE
            /\ cpc' = IF HasThread THEN "lock" ELSE "body"
            /\ UNCHANGED crash
    /\ UNCHANGED <<driver, phase, lock, value, thread, asked, overtook>>

\* Every step of a callback whose module is gone is the end.
CallbackInFreedText ==
    /\ Alive /\ cpc # "idle" /\ phase = "gone"
    /\ crash' = TRUE
    /\ UNCHANGED <<driver, phase, callback, lock, value, thread, asked, overtook>>

\* spin_lock(&spinlock_test)
CallbackLocks ==
    /\ Alive /\ phase # "gone" /\ cpc = "lock" /\ lock = "free"
    /\ lock' = "callback"
    /\ cpc' = "body"
    /\ UNCHANGED <<driver, phase, armed, cpu, value, thread, asked, crash, overtook>>

\* global_variable = 100, the print, and spin_unlock; in lab 20 timer_count++.
CallbackBody ==
    /\ Alive /\ phase # "gone" /\ cpc = "body"
    /\ value' = IF HasThread THEN 100 ELSE value
    /\ lock' = "free"
    /\ cpc' = "rearm"
    /\ UNCHANGED <<driver, phase, armed, cpu, thread, asked, crash, overtook>>

\* mod_timer(&my_timer, ...): whoever deleted the timer meanwhile, it is
\* queued again.  hrtimer_forward_now and HRTIMER_RESTART: queued when the
\* callback has returned.
Rearmed == TRUE

CallbackRearms ==
    /\ Alive /\ phase # "gone" /\ cpc = "rearm"
    /\ armed' = (armed \/ Rearmed)
    /\ cpc' = IF driver = "hrtimer_module" THEN "idle" ELSE "return"
    /\ cpu' = IF driver = "hrtimer_module" THEN None ELSE cpu
    /\ UNCHANGED <<driver, phase, lock, value, thread, asked, crash, overtook>>

CallbackReturns ==
    /\ Alive /\ phase # "gone" /\ cpc = "return"
    /\ cpc' = "idle"
    /\ cpu' = None
    /\ UNCHANGED <<driver, phase, armed, lock, value, thread, asked, crash, overtook>>

-----------------------------------------------------------------------------
(* thread_function *)

\* The callback has the thread's processor.
Preempted == cpu = home

\* while(!kthread_should_stop())
ThreadTop ==
    /\ Alive /\ tpc = "top" /\ ~Preempted
    /\ tpc' = IF asked THEN "stopped" ELSE "mask"
    /\ UNCHANGED <<driver, phase, callback, lock, value, home, masked, asked, crash,
                   overtook>>

\* Mutant: spin_lock instead of spin_lock_irqsave.
ThreadMaskedNot == FALSE

\* spin_lock_irqsave disables interrupts ...
ThreadMasked == TRUE

ThreadMasks ==
    /\ Alive /\ tpc = "mask" /\ ~Preempted
    /\ masked' = ThreadMasked
    /\ tpc' = "lock"
    /\ UNCHANGED <<driver, phase, callback, lock, value, home, asked, crash, overtook>>

\* ... and waits for the lock.
ThreadLocks ==
    /\ Alive /\ tpc = "lock" /\ ~Preempted /\ lock = "free"
    /\ lock' = "thread"
    /\ tpc' = "set"
    /\ UNCHANGED <<driver, phase, callback, value, home, masked, asked, crash, overtook>>

\* global_variable = 50
ThreadSets ==
    /\ Alive /\ tpc = "set" /\ ~Preempted
    /\ value' = 50
    /\ tpc' = "print"
    /\ UNCHANGED <<driver, phase, callback, lock, home, masked, asked, crash, overtook>>

\* pr_info(" Value of GV :%d\n", global_variable)
ThreadPrints ==
    /\ Alive /\ tpc = "print" /\ ~Preempted
    /\ tpc' = "unlock"
    /\ UNCHANGED <<driver, phase, callback, lock, value, home, masked, asked, crash,
                   overtook>>

\* Mutant: the lock is kept.
ThreadKeepsLock ==
    /\ Alive /\ tpc = "unlock" /\ ~Preempted
    /\ masked' = FALSE
    /\ tpc' = "sleep"
    /\ UNCHANGED <<driver, phase, callback, lock, value, home, asked, crash, overtook>>

\* spin_unlock_irqrestore(&spinlock_test, flags)
ThreadUnlocks ==
    /\ Alive /\ tpc = "unlock" /\ ~Preempted
    /\ lock' = "free"
    /\ masked' = FALSE
    /\ tpc' = "sleep"
    /\ UNCHANGED <<driver, phase, callback, value, home, asked, crash, overtook>>

\* msleep(2000); the thread wakes up on any processor.
ThreadWakes ==
    /\ Alive /\ tpc = "sleep"
    /\ home' \in Cpus
    /\ tpc' = "top"
    /\ UNCHANGED <<driver, phase, callback, lock, value, masked, asked, crash, overtook>>

-----------------------------------------------------------------------------
(* hello_exit *)

\* kthread_stop(kthread), in the driver that has a thread.
ExitBegins ==
    /\ Alive /\ phase = "loaded"
    /\ phase' = IF HasThread THEN "stop_thread" ELSE "stop_timer"
    /\ asked' = HasThread
    /\ UNCHANGED <<driver, callback, lock, value, thread, crash, overtook>>

ThreadStopped ==
    /\ Alive /\ phase = "stop_thread" /\ tpc = "stopped"
    /\ phase' = "stop_timer"
    /\ UNCHANGED <<driver, callback, lock, value, thread, asked, crash, overtook>>

\* Mutant: hrtimer_try_to_cancel, which does not wait.
WaitsForNothing == FALSE

\* hrtimer_cancel waits for a running callback, del_timer does not.
WaitsForCallback == driver = "hrtimer_module"

StopTimer ==
    /\ Alive /\ phase = "stop_timer"
    /\ WaitsForCallback => cpc = "idle"
    /\ armed' = FALSE
    /\ overtook' = (cpc # "idle")
    /\ phase' = "rest"
    /\ UNCHANGED <<driver, cpu, cpc, lock, value, thread, asked, crash>>

\* The rest of hello_exit; then the module's memory is freed.
Gone ==
    /\ Alive /\ phase = "rest"
    /\ phase' = "gone"
    /\ UNCHANGED <<driver, callback, lock, value, thread, asked, crash, overtook>>

-----------------------------------------------------------------------------
CallbackStep ==
    \/ CallbackInFreedText \/ CallbackLocks \/ CallbackBody
    \/ CallbackRearms \/ CallbackReturns

ThreadStep ==
    \/ ThreadTop \/ ThreadMasks \/ ThreadSets \/ ThreadPrints
    \/ ThreadUnlocks \/ ThreadWakes

ExitStep == ThreadStopped \/ StopTimer \/ Gone

Next == Expires \/ CallbackStep \/ ThreadStep \/ ThreadLocks \/ ExitBegins \/ ExitStep

Spec == Init /\ [][Next]_vars

\* Time passes, processors and processes run; a spinlock queues who waits for
\* it.  The timers' periods are seconds, so a processor the callback leaves is
\* the thread's for a while: its steps get their turn though the callback
\* comes back again and again.
FairSpec ==
    /\ Spec
    /\ WF_vars(Expires) /\ WF_vars(CallbackStep) /\ WF_vars(ExitStep)
    /\ SF_vars(ThreadStep) /\ SF_vars(ThreadLocks) /\ SF_vars(CallbackLocks)
    /\ SF_vars(StopTimer)

-----------------------------------------------------------------------------
(* Properties *)

\* Every variable has its type.
TypeOK ==
    /\ driver \in Drivers
    /\ phase \in {"loaded", "stop_thread", "stop_timer", "rest", "gone"}
    /\ armed \in BOOLEAN
    /\ cpu \in Cpus \cup {None}
    /\ cpc \in {"idle", "lock", "body", "rearm", "return"}
    /\ lock \in {"free", "callback", "thread"}
    /\ value \in {0, 50, 100}
    /\ tpc \in {"top", "mask", "lock", "set", "print", "unlock", "sleep", "stopped"}
    /\ home \in Cpus
    /\ masked \in BOOLEAN /\ asked \in BOOLEAN
    /\ crash \in BOOLEAN /\ overtook \in BOOLEAN
    /\ (cpu = None) <=> (cpc = "idle")

\* spin_lock_irqsave does its work: the callback never waits for a lock whose
\* holder it has interrupted, and what the thread prints is what it stored,
\* without the callback's 100 in between.
LockWorks ==
    /\ ~(cpc = "lock" /\ lock = "thread" /\ cpu = home)
    /\ tpc \in {"print", "unlock"} => value = 50

\* A timer is queued, or its callback runs, in a freed module only if
\* del_timer overtook a callback; hrtimer_cancel lets none escape.
EscapeExplained ==
    phase = "gone" /\ (armed \/ cpc # "idle") =>
        /\ overtook
        /\ driver # "hrtimer_module"

\* hello_exit returns, or the escaped timer crashed the kernel before.
ExitEnds == phase \notin {"loaded", "gone"} ~> phase = "gone" \/ crash
=============================================================================
