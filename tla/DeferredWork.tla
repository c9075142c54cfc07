---------------------------- MODULE DeferredWork ----------------------------
(***************************************************************************)
(* Labs 16 to 19 defer the work of their interrupt handler: to a tasklet   *)
(* (tasklet_module.c, signal_module.c), to the system's workqueue          *)
(* (workqueues_module.c, workqueues_on_cpu.c) or to one of their own       *)
(* (own_workqueues.c, linked_list.c).  The handler runs while it is        *)
(* registered, the deferred function some time later, hello_exit takes     *)
(* both down in an order of its own, and then the module's memory, which   *)
(* holds the functions and the work item, is freed.                        *)
(*                                                                         *)
(* Only the interrupt's part of hello_init and hello_exit is here; the     *)
(* rest is DriverLoad's.                                                   *)
(***************************************************************************)
EXTENDS Integers, Sequences

TaskletDrivers == {"tasklet_module", "signal_module"}
Drivers == TaskletDrivers \cup
    {"workqueues_module", "workqueues_on_cpu", "own_workqueues", "linked_list"}

VARIABLES
    driver,    \* the driver considered
    phase,     \* "init", "loaded", "exit", "gone": the module's memory is freed
    steps,     \* what hello_init or hello_exit has still to do
    irq,       \* the handler is registered
    handler,   \* irq_handler has been entered
    queue,     \* own_workqueue: "none", "ready", "draining", "destroyed"
    pending,   \* the work item waits for a worker, the tasklet for its softirq
    running,   \* workqueue_fn, tasklet_fn runs
    refused,   \* the item's PENDING bit is set, and it is on no queue
    killing,   \* tasklet_kill holds the tasklet's SCHED bit
    awaited,   \* what flush_work waits for: "nothing", "pending", "running"
    crash,     \* "none", or what freed or missing memory was used
    unserved,  \* history: a handler has run since the deferred function began
    late       \* history: work was queued after hello_exit's flush or kill

vars == <<driver, phase, steps, irq, handler, queue, pending, running, refused,
          killing, awaited, crash, unserved, late>>
work == <<pending, running, refused, killing, awaited>>
history == <<unserved, late>>

OwnQueue == driver \in {"own_workqueues", "linked_list"}

\* request_irq comes before alloc_workqueue.
InitSteps(d) ==
    IF d \in {"own_workqueues", "linked_list"} THEN <<"request_irq", "alloc_workqueue">>
    ELSE <<"request_irq">>

\* Mutant: nothing is waited for.
ExitStepsNoWait(d) == <<"free_irq">>

\* What takes the interrupt and its work down, in hello_exit's order.
ExitSteps(d) ==
    CASE d \in TaskletDrivers -> <<"tasklet_kill", "free_irq">>
      [] d = "workqueues_module" -> <<"free_irq">>
      [] d = "workqueues_on_cpu" -> <<"flush_work", "free_irq">>
      [] OTHER -> <<"flush_work", "destroy_workqueue", "free_irq">>

Init ==
    /\ driver \in Drivers
    /\ phase = "init"
    /\ steps = InitSteps(driver)
    /\ irq = FALSE
    /\ handler = FALSE
    /\ queue = IF OwnQueue THEN "none" ELSE "ready"
    /\ pending = FALSE /\ running = FALSE
    /\ refused = FALSE /\ killing = FALSE
    /\ awaited = "nothing"
    /\ crash = "none"
    /\ unserved = FALSE /\ late = FALSE

Alive == crash = "none"

At(step) == Alive /\ steps # << >> /\ Head(steps) = step

-----------------------------------------------------------------------------
(* hello_init *)

RequestIrq ==
    /\ At("request_irq")
    /\ irq' = TRUE
    /\ steps' = Tail(steps)
    /\ UNCHANGED <<driver, phase, handler, queue, work, crash, history>>

AllocWorkqueue ==
    /\ At("alloc_workqueue")
    /\ queue' = "ready"
    /\ steps' = Tail(steps)
    /\ UNCHANGED <<driver, phase, irq, handler, work, crash, history>>

\* return -ENOMEM: the module goes, its handler stays registered.
AllocFails ==
    /\ At("alloc_workqueue")
    /\ phase' = "gone"
    /\ steps' = << >>
    /\ UNCHANGED <<driver, irq, handler, queue, work, crash, history>>

Loaded ==
    /\ Alive /\ phase = "init" /\ steps = << >>
    /\ phase' = "loaded"
    /\ UNCHANGED <<driver, steps, irq, handler, queue, work, crash, history>>

-----------------------------------------------------------------------------
(* irq_handler *)

\* An interrupt on the line.
Interrupt ==
    /\ Alive /\ irq /\ ~handler
    /\ IF phase = "gone"
       THEN crash' = "handler" /\ UNCHANGED handler
       ELSE handler' = TRUE /\ UNCHANGED crash
    /\ UNCHANGED <<driver, phase, steps, irq, queue, work, history>>

\* Mutant: the handler prepares its item with INIT_WORK each time.
PendingReinit == pending \/ killing

\* The item's PENDING bit, the tasklet's SCHED bit: queueing it is refused.
Pending == pending \/ refused \/ killing

\* hello_exit has decided what it waits for; destroy_workqueue decides anew.
PastFlush == phase = "exit" /\ "flush_work" \notin {steps[i] : i \in DOMAIN steps}
                            /\ "tasklet_kill" \notin {steps[i] : i \in DOMAIN steps}

\* A queue being drained warns and drops the item, whose bit was just set.
Refused == ~Pending /\ queue = "draining"

\* Mutant: nothing is queued while the function runs.
QueuedIfIdle == ~Pending /\ ~running /\ queue = "ready"

Queued == ~Pending /\ queue = "ready"

\* tasklet_schedule(&tasklet), schedule_work(&workqueue),
\* queue_work(own_workqueue, &workqueue).
HandlerQueues ==
    /\ Alive /\ handler
    /\ handler' = FALSE
    /\ unserved' = TRUE
    /\ pending' = (pending \/ Queued)
    /\ refused' = (refused \/ Refused)
    /\ crash' = CASE ~Pending /\ queue = "none" -> "no_queue"
                  [] ~Pending /\ queue = "destroyed" -> "queue"
                  [] OTHER -> crash
    /\ late' = (late \/ (Queued /\ PastFlush))
    /\ UNCHANGED <<driver, phase, steps, irq, queue, running, killing, awaited>>

-----------------------------------------------------------------------------
(* workqueue_fn, tasklet_fn.  One item never runs on two processors. *)

WorkBegins ==
    /\ Alive /\ pending /\ ~running
    /\ IF phase = "gone"
       THEN crash' = "work" /\ UNCHANGED <<pending, running, awaited, unserved>>
       ELSE /\ pending' = FALSE
            /\ running' = TRUE
            /\ unserved' = FALSE
            /\ awaited' = IF awaited = "pending" THEN "running" ELSE awaited
            /\ UNCHANGED crash
    /\ UNCHANGED <<driver, phase, steps, irq, handler, queue, refused, killing, late>>

\* It prints, sleeps and returns.
WorkEnds ==
    /\ Alive /\ running
    /\ IF phase = "gone"
       THEN crash' = "work" /\ UNCHANGED <<running, awaited>>
       ELSE /\ running' = FALSE
            /\ awaited' = IF awaited = "running" THEN "nothing" ELSE awaited
            /\ UNCHANGED crash
    /\ UNCHANGED <<driver, phase, steps, irq, handler, queue, pending, refused,
                   killing, history>>

-----------------------------------------------------------------------------
(* hello_exit *)

ExitBegins ==
    /\ Alive /\ phase = "loaded"
    /\ phase' = "exit"
    /\ steps' = ExitSteps(driver)
    /\ UNCHANGED <<driver, irq, handler, queue, work, crash, history>>

\* flush_work(&workqueue): the queueing it finds, and no later one.
FlushBegins ==
    /\ At("flush_work")
    /\ awaited' = IF pending THEN "pending" ELSE IF running THEN "running" ELSE "nothing"
    /\ steps' = [steps EXCEPT ![1] = "flushing"]
    /\ UNCHANGED <<driver, phase, irq, handler, queue, pending, running, refused,
                   killing, crash, history>>

\* Mutant: a later queueing is waited for as well.
FlushReturnsIdle ==
    /\ At("flushing")
    /\ ~pending /\ ~running
    /\ steps' = Tail(steps)
    /\ UNCHANGED <<driver, phase, irq, handler, queue, work, crash, history>>

FlushReturns ==
    /\ At("flushing")
    /\ awaited = "nothing"
    /\ steps' = Tail(steps)
    /\ UNCHANGED <<driver, phase, irq, handler, queue, work, crash, history>>

\* destroy_workqueue drains the queue ...
DestroyBegins ==
    /\ At("destroy_workqueue")
    /\ queue' = "draining"
    /\ steps' = [steps EXCEPT ![1] = "draining"]
    /\ UNCHANGED <<driver, phase, irq, handler, work, crash, history>>

\* ... and frees it.
DestroyReturns ==
    /\ At("draining")
    /\ ~pending /\ ~running
    /\ queue' = "destroyed"
    /\ steps' = Tail(steps)
    /\ UNCHANGED <<driver, phase, irq, handler, work, crash, history>>

\* tasklet_kill waits until the tasklet is not scheduled, keeps it so ...
KillBegins ==
    /\ At("tasklet_kill")
    /\ ~pending
    /\ killing' = TRUE
    /\ steps' = [steps EXCEPT ![1] = "killing"]
    /\ UNCHANGED <<driver, phase, irq, handler, queue, pending, running, refused,
                   awaited, crash, history>>

\* ... until it does not run, and lets it be scheduled again.
KillReturns ==
    /\ At("killing")
    /\ ~running
    /\ killing' = FALSE
    /\ steps' = Tail(steps)
    /\ UNCHANGED <<driver, phase, irq, handler, queue, pending, running, refused,
                   awaited, crash, history>>

\* free_irq(IRQ_NO, &irq_dev_id) ...
FreeIrq ==
    /\ At("free_irq")
    /\ irq' = FALSE
    /\ steps' = [steps EXCEPT ![1] = "synchronize"]
    /\ UNCHANGED <<driver, phase, handler, queue, work, crash, history>>

\* ... returns when no handler runs.
FreeIrqReturns ==
    /\ At("synchronize")
    /\ ~handler
    /\ steps' = Tail(steps)
    /\ UNCHANGED <<driver, phase, irq, handler, queue, work, crash, history>>

Gone ==
    /\ Alive /\ phase = "exit" /\ steps = << >>
    /\ phase' = "gone"
    /\ UNCHANGED <<driver, steps, irq, handler, queue, work, crash, history>>

-----------------------------------------------------------------------------
InitStep == RequestIrq \/ AllocWorkqueue \/ AllocFails \/ Loaded

WorkStep == WorkBegins \/ WorkEnds

ExitStep ==
    \/ FlushBegins \/ FlushReturns
    \/ DestroyBegins \/ DestroyReturns
    \/ KillBegins \/ KillReturns
    \/ FreeIrq \/ FreeIrqReturns \/ Gone

Next == InitStep \/ Interrupt \/ HandlerQueues \/ WorkStep \/ ExitBegins \/ ExitStep

Spec == Init /\ [][Next]_vars

\* Handlers, workers and the exiting process run; interrupts come or do not.
FairSpec ==
    /\ Spec
    /\ WF_vars(HandlerQueues) /\ WF_vars(WorkStep) /\ WF_vars(ExitStep)

-----------------------------------------------------------------------------
(* Properties *)

\* Every variable has its type.
TypeOK ==
    /\ driver \in Drivers
    /\ phase \in {"init", "loaded", "exit", "gone"}
    /\ irq \in BOOLEAN /\ handler \in BOOLEAN
    /\ queue \in {"none", "ready", "draining", "destroyed"}
    /\ pending \in BOOLEAN /\ running \in BOOLEAN
    /\ refused \in BOOLEAN /\ killing \in BOOLEAN
    /\ awaited \in {"nothing", "pending", "running"}
    /\ crash \in {"none", "handler", "work", "queue", "no_queue"}
    /\ unserved \in BOOLEAN /\ late \in BOOLEAN
    /\ awaited = "pending" => pending
    /\ awaited = "running" => running

\* Deferred work meets the freed module only if hello_exit waits for none
\* (workqueues_module.c) or an interrupt came after hello_exit had waited:
\* flush_work and tasklet_kill, called before free_irq, do not reach it.  A
\* driver with its own queue leaves no work behind, late or not:
\* destroy_workqueue drains, and nothing gets past it.
LateWorkExplained ==
    phase = "gone" /\ (pending \/ running) =>
        ~OwnQueue /\ (driver = "workqueues_module" \/ late)

\* What happens there instead: an interrupt between destroy_workqueue and free_irq
\* uses the freed queue - unless one came during the drain, whose refused
\* item keeps its PENDING bit for ever and shields the queue.
FreedQueueUse == crash = "queue" => OwnQueue /\ phase = "exit" /\ ~refused

\* No interrupt of a loaded module is forgotten: the deferred function begins
\* after the last one, also when that one came while it was running.
NoInterruptLost == phase = "loaded" /\ unserved => pending

\* hello_exit gets through flush_work and destroy_workqueue however many
\* interrupts come; tasklet_kill they can keep waiting, and the drivers with a
\* tasklet are unloaded if they cease.
ExitEnds ==
    LET Ends(drivers) == phase = "exit" /\ driver \in drivers ~> phase = "gone" \/ ~Alive
    IN  /\ Ends(Drivers \ TaskletDrivers)
        /\ <>[](~handler) => Ends(TaskletDrivers)
=============================================================================
