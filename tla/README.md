# Kernel_driver_lab: models and proofs

The repository is a course of Linux device drivers, one lab per directory
(`k_hello_world-01` to `k_gpio_basics-28`). Each lab is a module of its own: an
init function that registers things with the kernel, an exit function that gives
them back, the calls of its device, `/proc` or `/sys` file, and whatever the lab
is about - a lock, a wait queue, a timer, a signal, a USB transfer. There is no
program around them; what they share is a kernel, text that was copied from lab
to lab, and names such as `mychardev`.

This directory holds TLA+ models of the drivers, configurations that check them
with TLC, and proofs for TLAPS. The models follow the code as it is, for a
kernel of at least version 6.4 (the one-argument `class_create`).
`PROJECT.json` maps every definition to the lines it stands for.

## 1. Inventory

The lab's number stands for its directory. "Load" is the work of the init and
exit functions, which all drivers have and which DriverTable and DriverLoad model
for 34 of them.

| Component (lab) | State | Operations and what they meet | What is hard | Correct means |
|---|---|---|---|---|
| message buffer (10-24) | `device_buffer` | `my_write` copies and terminates, `my_read` measures, terminates, copies; any number of processes, no lock | interleaved copies, a store of `'\0'` by the reader, faults half way, a message of BUFF_SIZE bytes | a string is always there to be found, a message written alone is read back |
| wait queue (10) | `wait_queue_flag`, `read_count`, `wq` | thread waits, reads raise the flag, exit stores 2 | wake-up before sleep, stores that overwrite each other, an exit that waits for no thread | no read unanswered, the exit's order reaches the thread |
| completion (21) | `wait_flag`, `completion_work` | `completion_done` and `complete` in two steps | two readers and the exit between the steps, an exit that waits for no thread | no missed completion, no read counted that was not |
| temperature watch (13) | `wait_flag`, `temperature`, `threshold_value`, `mutex_ref` | thread, `wait_read`, `threshold_write`, `my_read`, exit | one flag for two purposes, error paths that keep the mutex, an exit that waits for readers | an alarm is true and reaches a reader, the exit ends |
| load and unload (all) | what is registered with the kernel | `insmod`, `rmmod`, a failure of any step, interrupts | goto chains, error returns without unwinding, results that are not looked at, an init that fails with 1 and stays loaded, names shared by drivers, handlers that outlive what they use | nothing is left behind, nothing is released twice or too early |
| mutex, spinlocks, seqlock, atomics (12, 15, 23, 24) | one counter and its lock | two or three threads that add and print, `kthread_stop` | lost updates, what a reader without a lock sees, a retry loop | the counter behaves as if each round were one step |
| message list (17, 18) | `head_node`, the nodes, `temp_value` | `my_write` appends, `my_read` walks, exit frees; no lock on the append | two appends, the order of stores | a walk ends, lists nothing twice; the exit frees all |
| interrupt and deferred work (16, 17, 18, 19) | the work item or tasklet, the workqueue, the handler | interrupt, worker, init, exit | interrupts between two steps of the exit | no work meets freed memory |
| timers (15, 20) | the timer, its callback, `spinlock_test` | expiry, re-arming, `del_timer`, `hrtimer_cancel`, a thread | a callback on another processor, a softirq over a lock holder | the unload waits, nobody waits for himself |
| replaced buffers (06, 08) | `device_buffer`, `proc_buffer` and the heap | a write allocates anew (08 frees the old one), a read, exit | overlapping calls, failed allocations, terminator one byte too far | no use of freed memory, the message comes back, no leak |
| signals (19) | `task` | ioctl registers the caller, a write or the ioctl signals it | the task ends, its memory is reused; ioctls that cross; a send the kernel refuses, a message longer than BUFF_SIZE | the signal reaches the program that asked for it |
| USB storage (26, `usbv1.c`) | the URBs, `active_scmd`, `count`, `usb_lock`, the command's buffers | `queue_command`, three URB callbacks, the abort and the resets, probe and disconnect | callbacks against timeouts, handlers that answer twice or answer and go on, `count` and the command's fields read again and again, commands without data, `active_scmd` cleared late | every SCSI command comes back, answered by its own transfers |
| USB one shot (26, `usb.c`) | the URBs, a work item | probe schedules one INQUIRY, disconnect frees | disconnect against the work item | nothing runs after the free |
| ioctl, kmalloc, slab, gpio (04, 05, 09, 28) | one value, or memory of one call | copies in and out | - | - |
| hello, parameters, skeleton, sysfs, thread, interrupt, export, misc, fpu (01, 02, 03, 07, 11, 14, 22, 25, 27) | none beyond the load | they print | - | - |
| prototype example, `waitqueue.c` practice | - | do not compile (an attribute initialised as a pointer, a Makefile that names no file of the directory, an undeclared call) | - | - |
| `Test_usb_driver.c`, `usb.h` (26) | - | an earlier copy of `usb.c` and a copy of a kernel header; the Makefile does not name them (it names a `usbv2.o` that is not there) | - | - |

The user programs (`ioctl.userland.c`, `ioctl_userspace_file.c`,
`sec_userland_signal.c`) drive the devices; those of lab 19 are the processes
of SignalRegistration.

How the parts interact: processes enter a driver through `read`, `write`,
`ioctl`, concurrently and without any lock of the drivers' own but the ones the
lab is about; kernel threads share the drivers' global variables with them;
interrupts schedule work; the exit function runs when no file of `/dev` is open
(`.owner = THIS_MODULE`), but files of `/proc` do not hold the module, and
threads, timers and work items run on beside it. The two USB drivers are called by
others altogether: by the USB core (probe, completion handlers, the two halves of a
reset, disconnect) and, `usbv1.c`, by the SCSI midlayer (`queue_command`, and after a
timeout the error handlers).

## 2. Modules

| Module | Models | State, actions and where they come from |
|---|---|---|
| `CharBuffer` | the message buffer | one step per byte of `copy_from_user`, `strlen`, `copy_to_user`; `to_copy`, `length`, `*offset` are the code's locals; `sess` is a program that opens, reads to the end and closes |
| `WaitQueueThread` | lab 10 | `wait_event_interruptible` as test, `prepare_to_wait`, test, sleep; the thread's test, count and reset as three steps; the exit's store, `wake_up`, unregistering; the exit waits for no thread, so that the text may be freed under it: a thread that is not asleep then oopses (`RunFreedText`) |
| `CompletionThread` | lab 21 | `done` of the completion; `completion_done` and `complete` as two steps for readers and for the exit; here too the text may be freed under the thread |
| `TempWatch` | lab 13 | the thread's measure, raise, wake; `wait_read`; `threshold_write` with its three error returns that skip `mutex_unlock`; `my_read`; the exit with `kthread_stop` and the two `proc_remove` |
| `DriverTable` | all init and exit functions | a record per driver: the steps of init with the label a failure goes to, what follows each label, the releases of exit, and after which labels the init function returns 0 or 1, so that the kernel keeps the module |
| `DriverLoad` | insmod, rmmod | interprets the table; a failing step unwinds as the table says (`Unwinding`); class names, device nodes and kobjects are taken once per kernel; a release of what is not there is a warning, a use of freed memory or a bad pointer (`device_destroy` through the class three drivers do not look at); interrupts arrive while a handler is registered |
| `AtomicCounter` | abstract: a shared counter | a total and what each thread last printed; a writer's whole round (`Tick`) and a reader's (`Look`) in one step each; a reader that prints before it knows (`early`) may also show the addition under way (`Peek`), but does not leave it at that (`kept`) |
| `SharedCounter` | labs 12, 15, 23, 24 | load and store of `x += n` apart; mutex and spinlock (`owner`), rwlock (`sharers`), seqlock (`seq`; its reader prints inside the loop, before `read_seqretry`), atomics; `kthread_stop` in the exit's order |
| `MessageList` | labs 17, 18 | `list_add_tail` store by store, the plain stores in any order, the last one (`WRITE_ONCE`) after them; `temp_value += 1` as load and store; the walk of `my_read`; the freeing loop of the exit |
| `DeferredWork` | labs 16, 17, 18, 19 | handler, PENDING bit, worker; `flush_work`, `destroy_workqueue` (drain and free), `tasklet_kill`, `free_irq` as begin and return |
| `TimerUnload` | labs 15, 20 | expiry on some processor, the callback's lock, body and re-arming; `del_timer` and `hrtimer_cancel`; the thread with `spin_lock_irqsave` |
| `ReplacedBuffer` | labs 06, 08 | test, `kfree`, allocation, copy, terminator, print as steps of a write; strlen and copy of a read; `kfree` and `proc_remove` of the exit; blocks are addresses that come back, `strlen` is what a block holds; the terminator that misses its block goes to the neighbour (`kmalloc`) or faults in the guard page (`vmalloc`); a process that reads at NULL or oopses dies |
| `SignalRegistration` | lab 19 | the ioctl's store of `task`, the write's test and send, the send of `sec_signal_module.c`; processes that start, end, are reaped and replaced at the same address; a writer that writes until all is accepted, of whose message the driver takes what fits `BUFF_SIZE`; the kernel may refuse any send, whatever is pending for this program, since the limit is the user's |
| `UsbStorage` | lab 26, `usbv1.c` | probe with a failure of each acquisition; `queue_command` as begin, copy, fill, and submit or fail, since it reads `count` before each; `cbw_callback` as its answer or its look at the opcode, its test of the length, its test of the direction and its submission, each reading what the next `queue_command` may have overwritten; `data_callback` and `csw_callback` as one step, or two where they answer and go on; `Timeout`, the kills of `eh_abort` one by one, the three resets with `pre_reset` and `post_reset`; unplugging, flushing and disconnect |
| `UsbOneShot` | lab 26, `usb.c` | probe, the work item from its sleep to its submissions, the completions of CBW, data and CSW, the releases of disconnect one by one |

`DriverLoad` EXTENDS `DriverTable`. `SharedCounter` implements `AtomicCounter`
through `Counter == INSTANCE AtomicCounter WITH total <- Total, shown <- Display, kept <-
Record, early <- guard = "seq"`, where `Total` is the variable, less an addition that was
stored and not yet printed; the property is `Atomic == Counter!Spec`: the round takes
effect at its print. What a thread printed last is `shown`, also by the seqlock's reader in a
round it will repeat; the print it leaves the loop with is `kept`. The labs
without a lock promise no such counter, for them the mapped counter stands still.
Where a module stands for several drivers (`DeferredWork`, `TimerUnload`,
`SharedCounter`, `ReplacedBuffer`, `SignalRegistration`), a variable that never changes
holds the one at hand. An `MC...` module holds values of the constants that a cfg cannot
spell, and the symmetry sets. Three of them hold two labs with a common question each
and choose with the variable `lab`; the variables of the lab that rests stand still.
`MCWaitingThreads` INSTANCEs both of its labs (`WaitQueue` and `Completion`), and so does
`MCUnloadRaces` (DeferredWork as `Work`, TimerUnload as `Timer`); `MCUsb` extends
UsbStorage and INSTANCEs UsbOneShot (`OneShot`). The two USB drivers bind to the same interface and the two waiting
threads take the same class name, so that a kernel has one of each pair.
The `..._proofs` modules hold the theorems.

What the kernel does (wait queues, completions, kthreads, locks, lists, work items,
timers, `/proc`, the allocator, signals) is not in the repository. Those
definitions are marked external in the map and model what the code relies on.

### Conventions

* A definition whose comment starts with "Mutant" is not used by the specification: it is a
  wrong version of the one below it, put in its place to show that a property
  notices.
* History variables (`mixed`, `caught`, `raced`, `overlapped`, `late`, `asked` ...) are read by
  no guard. They let a property say when the code is right: many of these drivers
  are correct unless two particular calls overlap, and the property that is worth
  checking is that nothing else goes wrong.
* UsbStorage keeps the midlayer's command in `mid` and the error handler's progress in
  `level`. `scsi_done` is the operator `Answer`: the first call for a command that is out
  gives it back, a call during error handling only marks the error handler's own
  command, any other is ignored, as the midlayer's completion does.
* After an oops or a use of freed memory the model stops there, or stops the
  process the kernel would kill; it says nothing of what the memory's next owner
  would see.

## 3. Runs

| Run | Question | Bounds, and why they are enough |
|---|---|---|
| `buffer_writers` | When is the buffer not a string, and does reading to the end of the file end? Not a string only in the window of a full-size write (`TailTerminated`, `OverrunOnlyInWindow`; `ReadToEofEnds`). | 2 bytes, 2 writers, 1 reader: writes shorter than, as long as and longer than the buffer, all interleavings of two copies |
| `buffer_readers` | What do reads do to each other and to the message (`MessageKept`, `CleanReadExact`)? | 3 bytes (messages of up to two), 2 readers, 1 writer: the readers' stores meet each other and the writer |
| `waiting_threads` | Is a wake-up or a completion missed (`ThreadIsWoken`, `NoMissedCompletion`), when is the exit's order lost (`StopKept`), how far can completions pile up (`CompletionsAddUp`), and does the unload leave a thread asleep (`UnloadStopsThreads`: it ends, or runs into the freed text)? | one lab at a time, each with 3 readers and 8 reads: more than one read per window of the thread |
| `temp_watch` | Which alarms are missed (`NoMissedWakeup`, `SilentReturnExplained`), what a leaked mutex costs (`ThresholdFrozenByFailure`), what keeps the unload waiting (`UnloadEnds`)? | 2 waiters (one takes the other's flag), 2 setters (one fails, one blocks), 1 reader; two temperatures, of which one exceeds one of two thresholds |
| `load` | Does each driver come and go cleanly, which failures leave what, and what do drivers with common names do to each other (`CleanCycle`, `EarlyFailureUnwinds`, `CrashExplained`)? | all 34; 2 loads, of one driver or of two; 2 failing steps anywhere: one in each load, or two in one; four drivers that share names load and unload in parallel, the others one at a time |
| `counter` | Which labs implement the atomic counter (`Atomic`), what do the others lose (`NoLostUpdate`), and does the exit get past every thread (`ExitStopsAll`)? | each lab's own 2 or 3 threads, 6 additions: more than two rounds of each |
| `message_list` | What does the unlocked append cost (`WalkIsComplete`), and what can it never cost (`WalkIsSafe`)? | 2 writers, 4 nodes, 1 walker and the exit |
| `unload_races` | What of the deferred work outlives the module (`LateWorkExplained`, `FreedQueueUse`), is an interrupt lost (`NoInterruptLost`), what of a timer outlives it (`EscapeExplained`), who waits for whom (`LockWorks`), and do the exit functions end (`UnloadsEnd`)? | finite as it is: interrupts and expiries without end, one lab at a time; 2 processors for the timers |
| `replaced` | Use after free (`MisuseExplained`), leaks (`HeapAccounted`), and what a message looks like afterwards (`MessageRead`) | both drivers, 2 processes, two blocks of three bytes, messages of up to two: one that fills its block, so that the terminator misses it, and ones that leave room; memory runs out after two blocks; a file position behind every block's end counts as one (`Beyond`) |
| `signal` | Who gets the signal (`SelfSignalled`, `StraysExplained`), and what is left of the message (`MessageWhole`)? | both drivers, 2 task addresses, reused at once; 2 writers; `BUFF_SIZE` is 3 and messages have 1 to 4 bytes: shorter, as long and longer; 1 pending signal, and any send may be refused |
| `usb` | Who finds no command (`OrphanExplained`), who answers a command that is not its own (`StaleAnswerExplained`), is a command forgotten (`NobodyForgotten`), who uses freed memory (`WorkUseExplained`), what is left behind (`WhatIsLeft`), does every command come back (`CommandEnds`)? | one driver at a time. Each module makes four calls of `queue_command`, from the load or from `Settled`, a state of the running driver that takes five calls to reach; a command, its retry and the error handler's own command fit in. With five calls, 1.2 million states, the same properties hold, and the cause "check" of `StaleAnswerExplained` occurs alone; with four the others do |
| `usb_inquiry` | Does an INQUIRY get through `csw_callback`, as the comment at `usbv1.c:504` says (`InquiryCompletes`)? TLC finds that the first one does not | one call of `queue_command` |

All runs pass but the last, which is there for the comment it contradicts. What they show, beyond that the labs do what they teach:

* The message buffer is a string except while a write of BUFF_SIZE bytes has
  stored its last byte and not yet its terminator. Reads disturb a message only if a
  newer one was written during the read.
* The wait-queue and completion threads miss no wake-up. The exit's order is lost in
  exactly one window: between the thread's test of the flag and its reset. Then the
  thread sleeps in a module that is gone. And since neither exit waits for its thread, also a
  thread that got the order may still be on its way out when the text is freed, and oopses.
* In `temp_watch.c` one failed write of `threshold` freezes it for ever; a reader of
  the device turns an alarm into a silent return; the unload waits for a reader of
  `wait` that nobody will wake.
* Loading: a failure of region, cdev or class is unwound completely by most drivers, but not by
  all: `custom_slab_cache.c` returns from a failed `cdev_add` with its region, a failed
  `class_create` in `ioctl.c` goes past the `cdev_del` (`ioctl.c:64-66`), and `device_driver.c`
  returns 1, which the kernel takes for success. A device node that could not be made leaves
  region and cdev behind wherever `r_device` is the last label; a failure after it loses the
  class name until the next boot (all `EarlyFailureUnwinds`). `kmalloc.c`, `vmalloc.c` and
  `custom_slab_cache.c` do not look at what `class_create` returns, and crash in their rmmod when it
  failed, as does `device_driver.c`, which stayed loaded; two drivers can crash in their
  interrupt handler in three named windows (`CrashExplained`).
* Every lock lab implements the atomic counter. The seqlock's reader, which prints before it
  asks `read_seqretry`, may show an addition before its time; it then prints again, and the print
  it leaves the loop with is right. Without the mutex, additions are lost
  only when two overlap; with atomics nothing is lost but a print may show another
  thread's addition.
* Two appends to the list may lose a node, but no walk loops or touches freed
  memory, and the exit leaks exactly the lost nodes.
* Deferred work outlives the module in `workqueues_module.c` whenever some is pending, in the others
  only after an interrupt between the flush or kill and `free_irq`. A driver with
  its own queue leaves no work, and instead uses the freed queue in that window.
* `del_timer` lets a running callback escape, `hrtimer_cancel` does not; masking the
  interrupts is what keeps the spinlock lab from deadlock.
* `usbv1.c`: the first INQUIRY dereferences `csw_urb`'s `transfer_buffer`, which no command
  has set (the run `usb_inquiry`). Only a status phase of a command without data sets it, and
  such a command cannot come first: `cbw_callback` reads its scatterlist, which it has
  not. It takes an error handler's TEST UNIT READY that is answered late to get past
  both, and that is where `Settled` starts. From there every command the driver was given
  comes back, unless the kernel has crashed, though a device may keep every transfer
  for ever. A handler finds no command only after a device reset or in the window
  after `csw_callback` has answered (`OrphanExplained`). A command is answered by another's
  transfer only after one of four named causes (`StaleAnswerExplained`): the handler had
  answered before ("again"), or, a REQUEST SENSE answered, had gone on to submit a transfer by
  the next command's length and direction ("sense"); the abort had met the second CBW, which it
  does not kill ("abort"); the error handler had been content with a transfer in flight
  ("check"). Two kinds of commands wait for their timeout (`NobodyForgotten`): one that
  reads, whose data phase is commented out, and one whose CBW went to the first buffer while
  a handler set `count`, so that the second buffer is sent as it was and its signature, if it
  does not match, ends the handler without an answer.
* `usb.c`: `usb_disconnect` frees the device with the work item in it. Only the work item it
  overtakes meets freed memory, never a transfer, since the USB core has given all of
  them back. What stays behind is the INQUIRY's buffers.
* `proc_write` and `proc_read` touch freed memory only if calls overlap. Both drivers put
  the terminator one byte behind its place. Alone, a message comes back with at most
  one byte too many, unless it fills its block: then `proc_write` zeroes a byte that is not
  its own, and `my_write` of `vmalloc.c` dies in the guard page, as do reads that
  follow and find no end. `vmalloc.c` never touches freed memory, because it leaks every block; after
  a failed allocation it dereferences NULL (all `MisuseExplained`, `MessageRead`).
* A signal goes astray only after a registered program has ended; in
  `sec_signal_module.c` only if two ioctls cross. A writer that finds no registered
  task overwrites its own message, since `my_write` then returns 1. A send the kernel refuses is
  printed and otherwise forgotten: the ioctl returns 0, and the program waits in vain
  (`SelfSignalled` excepts it). A message of `BUFF_SIZE` bytes loses its last
  one to the terminator (`MessageWhole`).

### Fairness

Safety does not depend on fairness. The liveness properties assume what the kernel's
scheduling gives: a thread, a worker or a process inside a system call that can run
does run (weak fairness), and, in `SharedCounter` and `TimerUnload`, a lock that is
released again and again is given to each of its waiters (strong fairness: mutexes,
queued spinlocks and rwlocks are handed over in order). No fairness is assumed of
users: nobody has to read, to write, to unload, to send a signal, and interrupts need
not come - except that a program that reads to the end of a file calls read again, which
is what `ReadToEofEnds` is about, and that a timer which is armed expires. `TimerUnload` also assumes that a processor is left to the
thread between two expiries, whose distance is seconds; the part of
`DeferredWork`'s `ExitEnds` about tasklets states as its premise that interrupts cease.
For `UsbStorage` the steps of the midlayer and of its error handler are fair (its
processes run and its timers expire); no transfer ever has to complete, no command has
to come and nobody has to unplug the stick.

Deadlock is checked in the runs whose system cannot stop (`buffer_writers`,
`buffer_readers`); elsewhere the end of the module's life or a crash is a state without
successors. Symmetry is used where no liveness is checked (`buffer_readers`,
`message_list`, `replaced`, `signal`).

## 4. Theorems

All are about every value of the constants, under the assumptions the modules name; the
bounds of the runs (reads, rounds, calls, memory) are arbitrary numbers and sets in the
theorems. Nearly every invariant below is stronger than the property it serves, which is
not inductive by itself; TLC has checked each on the instance of its run, and the proof
has one lemma per action or group of actions.

**`CharBuffer_proofs`** - `TypeCorrect`, `TailAlwaysTerminated`, `StrlenStaysInside`, for any
buffer size, any number of writers and readers. The types are inductive as they
stand. For the tail one needs to know of every writer that a byte is
stored at the last index only with `to_copy = Size`, and that the terminator of such a
write goes to that index: then only the writer in its window can have
put something else there. A `strlen` that stands on the last byte and steps on has
just seen that byte differ from `'\0'`, so `OverrunOnlyInWindow` follows from the
invariant and the step.
`MessageIsKept` and `CleanReadsAreExact` rest on `MessageInv`: an idle reader has nothing
in its hands (`ReaderIdle`); a write that overlapped no other call is the only call, and
the buffer starts with what it has copied (`WriterAlone`); and while the last
message is known, no write is in progress, the message stands before its
terminator and every read has measured and delivered nothing but a part of it
(`Determined`). So the `'\0'` a read stores falls on the one that is there.

**`WaitingThreads_proofs`** - the three drivers that wait for a flag.

* Wait queue: `TheThreadIsWoken`, `OnlyReadsAreCounted`, `StopSurvives`, for any number of
  readers and reads. `QueueInv` joins the three with `TestSeesFlag` (a thread past its
  test has seen a nonzero flag and only the thread lowers it), `CountInv` (each count is
  paid by a signal: a raised flag that is not yet counted stands for one signal more) and
  `ExitOnce`, `StopInv` (where the exit stands and what it has stored since). That no
  wake-up is missed is not inductive alone: the step to sleep needs that a flag raised
  after the thread joined the queue has its wake-up still to come.
* Completion: `NoCompletionMissed`, `CompletionsBounded`, for any finite set of readers (the
  completion counts them). The invariant is a balance (`Accounted`): completions passed,
  taken, counted in `done` and on their way are never more than the reads that signalled
  and the exit's one; a reader between its two steps is on its way. Together with what the
  exit's 2 meets (`StopInv`) and the bound on what can pile up (`Pile`) it gives
  `CompletionsAddUp`.
* Temperature watch: `NoWakeupMissed`, `SilentReturnsExplained`, `ThresholdFrozen` (an action
  property), for any numbers of processes, any temperatures and thresholds. A reader of
  `wait` that can still find a 1 has been spoiled (`OneSpoils`), one that got as far as its
  test finds a 2 or has been spoiled (`TestInv`); a writer that parses owns the mutex, and
  once a failed write has kept it nobody owns it who would release it (`MutexInv`).

**`SharedCounter_proofs`** - `TypeCorrect`, `LockInvariant` (mutual exclusion for
mutex, spinlock, rwlock and seqlock, and the parity of the sequence),
`LockedLabsAreAtomic`: with any of the locks the threads implement `AtomicCounter`, and
`NothingIsLost`: no lab loses an addition but the one without a mutex, and that one only
after two rounds have overlapped. The inductive invariant of the first three is `LockInv`:
`TypeOK` and `LockKept`, which says who is inside and that the loaded value is the
current one; for the seqlock, that a reader whose sequence still stands has
printed the current value. `StepRefines` then shows that each step is one of the abstract
specification or leaves its variables alone, from three lemmas: a writer's print makes its
addition count (`PrintCounts`), its other steps change nothing that counts
(`WriterStutters`), a reader
shows the counter as it is, or, of the seqlock, at most one addition ahead
(`AtMostOneAhead`) before it tries again (`ReaderLooks`). `Locked` says
that the lab has one of the four locks; for the others `LockKept` says nothing and
the mapped counter stands still. `NothingIsLost` adds `StoreInv` (a thread about to store
loaded the current value) and `CountInv` (the variable is the sum of the additions), for
the atomics without any lock.

**`MessageList_proofs`** - for any writers and readers and any finite memory.
`WalksAreSafe`, whatever overlaps, from `ListInv`: a node not yet published is its writer's
alone (`Owners`); every link leads to a node on the list, to the head, or from a new node
to itself, and the `prev` of a node on the list leads back to the cell that links to it,
which is what the exit's `list_del` relies on (`Links`); and there is a rank, the order in
which the nodes' `list_add_tail` read the tail, that grows along every link and every walk
(`Ranked`). A lost node is bypassed, never linked to, so a walk cannot turn back. The rank
exists for every state and is updated in the proof: a node gets the next number when its
writer reads the tail. Since ranks are at most the number of nodes, a walk is at the head
after that many links (`WalkComesBack`). `Ahead` is built on a function that is recursive
in the number of links; induction being out of reach of the provers, the three facts about
it are proved by taking the least counterexample (`LeastNumber`, from the library's
well-founded order of the numbers).
`WalksAreComplete` adds to `ListInv` what holds while no two appends have overlapped
(`CompleteInv`): `next` runs through `added` in order, up to the first nodes the exit has taken
away (`Freed`), the one append under way has the last node as its tail and the next number
(`AtTheEnd`, `Numbered`), and a walk has listed a prefix of `added` and stands at the
node behind it (`InOrder`).

**`LoadAndUnload_proofs`, the load table** - `CyclesAreClean`, `EarlyFailuresUnwind` and
`CrashesAreExplained`, for any of the 34 drivers together in a kernel, any of them
loading beside each other, any number of loads and of failures, by chance or because
a name is taken; and `LoadedIsComplete`, that a driver loaded without a failure holds what
its init function registers. The proof has two halves.

* What has to be true of a driver's init and exit functions is `TableSound`, which knows
  no state: whatever the steps before step i can have registered (`Got`) is given back at
  the label of step i, or may remain after such a failure (`MayRemain`, with what
  `LeftRegistered` names); no release finds its resource gone by an earlier one, on its own or with its parent (`Clean`), and no device node is released after its class
  (`Ordered`), or at a place where the class need not have been made, but for the three drivers
  that do not look (`ClassChecked`, `ClassMade`); what a driver holds that the kernel keeps after a failure
  is known (`KeptSound`); a label stops no
  thread and removes no file that cannot be there; the exit function gives back all but what
  it forgets (`Forgotten`); and the two drivers whose handler needs a workqueue make that last and
  destroy it first (`QueueSound`). `TableIsSound` proves this of every driver, a lemma for
  each shape of init function: `FrontEntries` and `SysfsEntries` do the common beginnings,
  `ThreadEntry`, `LabelEntry`, `ReturnEntry`, `IgnoredEntry` the kinds of steps, and
  `Join` puts the releases of a label together as the labels fall through. The exceptions
  the properties name (`ioctl.c`, `custom_slab_cache.c`, `sysfs_module.c`, `gpio.c` ...) come out as
  the places where a driver meets only the weaker branch of a clause.
* From a sound table `LoadInv` is inductive, one lemma per action (`InsmodKeeps` ...
  `ReleasesDoneKeeps`). For each driver: what is registered lies between what the
  finished steps registered and that less what failed, and what earlier loads left is
  something that may remain (`HeldInv`); the releases still to do give back all that may not
  remain, and meet their thread or kobject unless its making had failed (`ReleaseInv`); an exit
  function of a driver without failures finds all it gives back (`EndInv`); a driver whose
  handler uses a workqueue has the queue whenever it is loaded (`OwnQueueInv`), one that will release a device node has its
  class, or lost the pointer (`ClassInv`); what went wrong is
  explained by what failed (`MishapInv`). A panic stays explained, for the machine stops (`PanicInv`).
  `CleanCycle` alone is not inductive: that nothing is left behind needs to be known of every
  point of an unwinding, not only of its end.

**`LoadAndUnload_proofs`, deferred work and timers** - `LateWorkIsExplained`, `FreedQueueIsExplained`,
`InterruptsServed`, for all six drivers and any number of interrupts. The invariant says
what is left of each driver's list of calls (`StepsInv`; four lemmas say what follows
each call, `ExitStages` which driver makes it), and hangs the rest on that place:
the state of the queue (`QueueInv`), that `free_irq` lets no handler in any more
(`IrqInv`), the two bits that only the exit sets (`BitsInv`), that what was queued
before the exit waited is waited for, so that the rest is `late` (`WaitedInv`), and that an
interrupt of a loaded module is served or pending (`ServedInv`). `FreedQueueUse` needs
all but the last: a destroyed queue is one that was drained.
For the timers `LockKeepsApart` and `EscapeIsExplained`, for any number of
processors, with the assumption that `None` is no processor. The lock belongs to who
stands between its lock and unlock calls (`LockInv`); a thread that is there has
interrupts disabled, and then the callback is on another processor (`MaskInv`); after
the exit has called its `del_timer` or `hrtimer_cancel`, a timer is armed or running
only if `del_timer` overtook a callback (`StopInv`).

**`ReplacedBuffer_proofs`** - `MisuseIsExplained`, `MessageIsRead`, `HeapIsAccounted`, for any
processes, blocks and messages. Of the two drivers together `BufferInv` knows only
the types and that a block is as large as the message it was allocated for. While no write
and no exit has overlapped another call, a writer is the only call and every call's
block is the variable's (`Ordered`), that block holds the last message with at most a byte too
many, or, where the message fills the block (`Fills`), a text without an end (`MessageText`), and it is the only one `procfs_module.c` has (`OneBlock`).
`MisuseExplained` is about the steps that go wrong: `WhoMisuses` says which calls leave the
driver's memory, `WhoDies` which processes are killed.
`vmalloc.c` frees nothing before its exit, and its exit finds the file closed (`Leaks`), so
that it needs no such premise. The length of what is read behind a block's end is
defined by the largest block, so there has to be one (`LargestAssumption`).

**`SignalRegistration_proofs`** - `SelfIsSignalled`, `MessageIsWhole` and the action property
`StraysAreExplained`, for any programs, writers and messages. Until a registered process has
ended, the registered task is one that asked and lives (`Registrant`); a program in
the ioctl is registered unless another ioctl crossed its own (`Caller`); a writer that is
alone has the buffer to itself (`AloneIsAlone`), and how much of its message is left says
whether its first write found a task (`Progress`). What arrives is not assumed: the limit
of pending signals may be any number, zero included, and any send may be refused. `BUFF_SIZE`
may be any number above one, and messages may be longer than it.

**`Usb_proofs`** - for any bound on the calls of `queue_command`, from the load or from
`Settled`. `StorageInductive` proves `StorageInv`, from which `OrphansAreExplained`,
`StaleAnswersAreExplained` and `NobodyIsForgotten` follow: who may still run a handler has
`active_scmd` unless a device reset or the late clear of `csw_callback` took it
(`ActiveKept`); the fields of the command that is out are what `queue_command` stored
(`ShapeKept`), and its CBW is in the buffer that `count` says, unless `count` has become 1
since (`CopyKept`, `Skipped`); a command that is out has somebody to answer it, a transfer or a
handler that still owes it (`Owing`, `WillAnswer`), but for the two kinds that
`NobodyForgotten` names (`Awaited`). An answer to another call was given by one of the four
troubles that `StaleAnswerExplained` names (`Blamed`); and as long as none of them has come and
the error handler rests (`Quiet`), there is one transfer in flight or one handler that owes an
answer, never both, it belongs to the call that is out, and there is none when no
command is or the abort has got past it (`FlightInv`). The point of the last is that the four
causes are all: every other step keeps it. The proof of it goes by the steps of the
handlers (`CbwStepKeepsFlight`, `CbwEndsKeepsFlight`, `OtherStepKeepsFlight`), over what an
answer does to it (`AnswerBlamed`, `AnswerKeepsFlight`): a REQUEST SENSE that
has answered and goes on leaves a "sense" with the transfer it submits and an "again" with
the second answer it gives when it cannot.
For `usb.c`, `WorkUseIsExplained` and `LeavesTwoBuffers`. A transfer needs its
endpoint open, and the endpoints are closed before `usb_disconnect` (`FlightInv`, `ClosedInv`
of `ShotInv`); until then all memory is there but the INQUIRY's, and that while a transfer may
need it (`HeldInv`); what is held later is on the list to release, or one of the two
buffers (`ReleaseInv`). `WorkUsesExplained` and `BothLeaveThis` carry this over to the
kernel that has either driver, as the run checks it.

Where one run holds two labs, `BothLabs` (`WaitingThreads_proofs`, `LoadAndUnload_proofs`) and
`BothDrivers` (`Usb_proofs`) show that the specification of the run implements those of both
labs, so that the theorems, which are about a lab's own specification, hold of what
TLC checks.

Only model-checked: liveness, since the prover has no fairness and no ENABLED
(`ReadToEofEnds`, `UnloadStopsThreads`, `UnloadEnds`, `ExitStopsAll`, `UnloadsEnd`, `CommandEnds`). Every
invariant and every action property of the runs that pass is also a theorem.
`OnlyReadsAreCounted` and `LoadedIsComplete` are proved only. No module declares a RECURSIVE operator.

## 5. Not modelled

* `my_read` never looks at the `len` of read(2) and copies the whole string; what
  that does to a caller with a shorter buffer is the caller's memory and is left
  out. `vmalloc.c` returns `len` where it copied `length`; what a read returns is not in
  ReplacedBuffer, only what it delivers.
* Text that is only printed; `dump_stack`, `in_interrupt`.
* The debugging options of the kernel (list debugging, shared-interrupt
  debugging) and weak memory beyond the reorderings named in MessageList.
* `usbv1.c`: the bytes of CBW, CSW and sense data (a status is good or bad, whatever the
  device says), and which memory a release is called for: `usb_free_coherent` of memory
  from `kmalloc`, the first of the two allocations in `queue_command`, whose address is
  overwritten at once. `held` says that a buffer is lost, not how often. The
  midlayer's retries, its timers and its error handler's order are modelled from what
  the driver registers and returns.
* `usb.c`: the cases of `cbw_callback` for commands that `init_usb_protocols` has commented
  out; they cannot be reached.
* `Test_usb_driver.c` and `usb.h`, which no Makefile builds.
* The object that `custom_slab_cache.c` allocates is freed within the call, and the memory
  `kmalloc.c` copies through as well, unless the copy fails: then it is leaked
  (`kmalloc.c:95-98`).
* `gpio.c`'s line value, `ioctl.c`'s integer, module parameters, the fpu test: one
  assignment each.
* The two files that do not compile.

## 6. Plan

Done, in this order: the buffer all drivers share and the waiting threads (the
behaviour most labs have in common), load and unload of everything, the locks with
their abstract counter, the list, deferred work, timers, replaced buffers, signals, the
two USB drivers; the proofs of section 4.

What would come next:

1. An abstract SCSI host, which answers each command once, and what of UsbStorage
   implements it: `StaleAnswerExplained` lists the four ways in which it does not.
2. `ioctl.c`'s and `gpio.c`'s integer with two callers, if it proves worth a run.
