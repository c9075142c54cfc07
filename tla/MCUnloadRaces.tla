---------------------------- MODULE MCUnloadRaces ----------------------------
(***************************************************************************)
(* The drivers whose unload races work they left for later, one at a time: *)
(* those of DeferredWork, with their tasklet or work item, and those of    *)
(* TimerUnload, with their timer.  `lab' says which of the two; the        *)
(* other's variables stand still.                                          *)
(***************************************************************************)
EXTENDS Integers, Sequences

CONSTANTS Cpus, None

VARIABLES
    lab,
    w_driver, w_phase, steps, irq, handler, queue, pending, running, refused, killing,
    awaited, w_crash, unserved, late,
    t_driver, t_phase, armed, cpu, cpc, lock, value, tpc, home, masked, asked,
    t_crash, overtook

Work == INSTANCE DeferredWork
    WITH driver <- w_driver, phase <- w_phase, crash <- w_crash

Timer == INSTANCE TimerUnload
    WITH driver <- t_driver, phase <- t_phase, crash <- t_crash

w_vars == <<w_driver, w_phase, steps, irq, handler, queue, pending, running, refused,
            killing, awaited, w_crash, unserved, late>>
t_vars == <<t_driver, t_phase, armed, cpu, cpc, lock, value, tpc, home, masked, asked,
            t_crash, overtook>>
all == <<lab, w_vars, t_vars>>

\* Steps of one lab while the other rests.
Deferring(A) == lab = "deferred" /\ A /\ UNCHANGED <<lab, t_vars>>
Timing(A) == lab = "timer" /\ A /\ UNCHANGED <<lab, w_vars>>

\* The one that rests is one driver, not each of them.
MCInit ==
    /\ lab \in {"deferred", "timer"}
    /\ Work!Init /\ Timer!Init
    /\ lab = "deferred" => t_driver = "timer_module" /\ home = CHOOSE c \in Cpus : TRUE
    /\ lab = "timer" => w_driver = "workqueues_module"

MCNext == Deferring(Work!Next) \/ Timing(Timer!Next)

\* The fairness of both modules.
MCSpec ==
    /\ MCInit /\ [][MCNext]_all
    /\ WF_all(Deferring(Work!HandlerQueues)) /\ WF_all(Deferring(Work!WorkStep))
    /\ WF_all(Deferring(Work!ExitStep))
    /\ WF_all(Timing(Timer!Expires)) /\ WF_all(Timing(Timer!CallbackStep))
    /\ WF_all(Timing(Timer!ExitStep))
    /\ SF_all(Timing(Timer!ThreadStep)) /\ SF_all(Timing(Timer!ThreadLocks))
    /\ SF_all(Timing(Timer!CallbackLocks)) /\ SF_all(Timing(Timer!StopTimer))

\* LateWorkExplained of DeferredWork: which deferred work meets the freed module
\* (tasklet_module.c, signal_module.c, workqueues_module.c, workqueues_on_cpu.c).
LateWorkExplained == Work!LateWorkExplained

\* FreedQueueUse of DeferredWork: when an interrupt uses the workqueue that
\* hello_exit has destroyed (own_workqueues.c, linked_list.c).
FreedQueueUse == Work!FreedQueueUse

\* NoInterruptLost of DeferredWork: a loaded module's deferred function begins
\* after the last interrupt.
NoInterruptLost == Work!NoInterruptLost

\* LockWorks of TimerUnload: the softirq never waits for the thread it has
\* interrupted (spinlock_with_interrupts.c:58, :102).
LockWorks == Timer!LockWorks

\* EscapeExplained of TimerUnload: which timers outlive their module
\* (timer_module.c:148, hrtimer_module.c:159).
EscapeExplained == Timer!EscapeExplained

\* The exit functions of both labs come to their end: the liveness of
\* flush_work, tasklet_kill, destroy_workqueue, free_irq, kthread_stop and
\* hrtimer_cancel against interrupts and timers that do not cease.
UnloadsEnd == Work!ExitEnds /\ Timer!ExitEnds
=============================================================================
