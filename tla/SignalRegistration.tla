-------------------------- MODULE SignalRegistration --------------------------
(***************************************************************************)
(* The drivers of lab 19 send SIGNO to a program.  A program registers     *)
(* with an ioctl, which keeps the address of its task_struct without       *)
(* taking a reference.  signal_module.c sends when somebody writes to the  *)
(* device, sec_signal_module.c in the ioctl itself.                        *)
(*                                                                         *)
(* A task is an address: when its process is gone, the memory is free and  *)
(* may become the task_struct of another process.  Programs that use the   *)
(* drivers (ioctl_userspace_file.c, sec_userland_signal.c) handle SIGNO;   *)
(* any other process is killed by it.                                      *)
(*                                                                         *)
(* The interrupt and the tasklet of signal_module.c are DeferredWork's     *)
(* subject, the bytes of the message CharBuffer's.                         *)
(***************************************************************************)
EXTENDS Integers, FiniteSets

CONSTANTS
    Drivers,     \* the ones of the two that are looked at
    Tasks,       \* the addresses task_structs can have
    Writers,     \* processes that write to the device
    NULL,        \* no task, no length
    Lens,        \* the lengths of their messages
    BUFF_SIZE,   \* size of device_buffer
    MaxSignals   \* bound on the SIGNOs pending for one task

ASSUME DriverAssumption == Drivers \subseteq {"signal_module", "sec_signal_module"}
ASSUME TasksAssumption == NULL \notin Tasks
ASSUME LensAssumption == Lens \subseteq Nat \ {0}
ASSUME SizeAssumption == BUFF_SIZE \in Nat \ {0, 1}
ASSUME MaxSignalsAssumption == MaxSignals \in Nat

VARIABLES
    driver,    \* the driver
    task,      \* the registered task
    text,      \* the length of the message in device_buffer
    process,   \* per task: what runs in it
    signals,   \* per task: pending SIGNOs
    got,       \* per task: its handler has run
    pc,        \* per writer: the step of my_write
    left,      \* per writer: the bytes of its message not yet accepted
    crash,     \* memory of a freed task_struct was used
    asked,     \* history, per task: the process in it called the ioctl
    departed,  \* history: a process that had called it has ended
    strays,    \* history: SIGNO was sent to a process that had not
    crossed,   \* history, per task: another ioctl overlapped its own
    refused,   \* history, per task: the send of its ioctl got -EAGAIN
    message    \* history, per writer: its whole length, the task found first,
               \* and whether it wrote alone

program == <<process, signals, got>>
writer == <<pc, left>>
history == <<asked, departed, strays, crossed, refused, message>>
vars == <<driver, task, text, program, writer, crash, history>>

NoTask == [t \in Tasks |-> FALSE]
NoLength == [len |-> NULL, found |-> NULL, alone |-> FALSE]

Init ==
    /\ driver \in Drivers
    /\ task = NULL /\ text = 0
    /\ process = [t \in Tasks |-> "free"]
    /\ signals = [t \in Tasks |-> 0]
    /\ got = NoTask
    /\ pc = [w \in Writers |-> "closed"]
    /\ left = [w \in Writers |-> 0]
    /\ crash = FALSE
    /\ asked = NoTask /\ departed = FALSE /\ strays = FALSE
    /\ crossed = NoTask /\ refused = NoTask
    /\ message = [w \in Writers |-> NoLength]

App(t) == process[t] \in {"app", "opened", "in_ioctl", "waiting"}

Alive == ~crash

-----------------------------------------------------------------------------
(* Processes come and go. *)

Fork(t) ==
    /\ Alive /\ process[t] = "free"
    /\ \E kind \in {"app", "other"} : process' = [process EXCEPT ![t] = kind]
    /\ UNCHANGED <<driver, task, text, signals, got, writer, crash, history>>

\* At its end or by a signal, but not within the ioctl.  close calls
\* my_release, in which get_current() is never NULL: task stays.
Exit(t) ==
    /\ Alive /\ process[t] \in {"app", "opened", "waiting", "other"}
    /\ process' = [process EXCEPT ![t] = "zombie"]
    /\ departed' = (departed \/ asked[t])
    /\ UNCHANGED <<driver, task, text, signals, got, writer, crash, asked, strays, crossed,
                   refused, message>>

\* The parent has waited for it: its task_struct is freed, and what was known of
\* the process with it.
Reap(t) ==
    /\ Alive /\ process[t] = "zombie"
    /\ process' = [process EXCEPT ![t] = "free"]
    /\ signals' = [signals EXCEPT ![t] = 0]
    /\ got' = [got EXCEPT ![t] = FALSE]
    /\ asked' = [asked EXCEPT ![t] = FALSE]
    /\ crossed' = [crossed EXCEPT ![t] = FALSE]
    /\ refused' = [refused EXCEPT ![t] = FALSE]
    /\ UNCHANGED <<driver, task, text, writer, crash, departed, strays, message>>

-----------------------------------------------------------------------------
(* The programs. *)

OpenDevice(t) ==
    /\ Alive /\ process[t] = "app"
    /\ process' = [process EXCEPT ![t] = "opened"]
    /\ UNCHANGED <<driver, task, text, signals, got, writer, crash, history>>

InIoctl(t) == process[t] = "in_ioctl"

\* Mutant: the ioctl returns before it sends.
AfterRegisterReturns == "waiting"

\* sec_signal_module.c goes on to send, signal_module.c returns.
AfterRegister == IF driver = "sec_signal_module" THEN "in_ioctl" ELSE "waiting"

\* Mutant: some other process, its parent say.
RegisteredParent(t) == CHOOSE u \in Tasks : u # t

\* task = get_current()
Registered(t) == t

\* ioctl(fd, IO_WRITE, ...) up to the store to task.
Register(t) ==
    /\ Alive /\ process[t] = "opened"
    /\ task' = Registered(t)
    /\ asked' = [asked EXCEPT ![t] = TRUE]
    /\ process' = [process EXCEPT ![t] = AfterRegister]
    /\ crossed' = [u \in Tasks |->
                     \/ crossed[u] /\ u # t
                     \/ InIoctl(u) /\ u # t
                     \/ u = t /\ \E v \in Tasks : InIoctl(v)]
    /\ UNCHANGED <<driver, text, signals, got, writer, crash, departed, strays, refused,
                   message>>

\* A handler runs.
Handle(t) ==
    /\ Alive /\ App(t) /\ signals[t] > 0
    /\ signals' = [signals EXCEPT ![t] = @ - 1]
    /\ got' = [got EXCEPT ![t] = TRUE]
    /\ UNCHANGED <<driver, task, text, process, writer, crash, history>>

-----------------------------------------------------------------------------
(* send_sig_info(SIGNO, &info, t), up to the process's next step. *)

\* A process that is there, and does not end, can be sent a signal (else -ESRCH).
Receives(t) == App(t) \/ process[t] = "other"

\* SIGNO waits for the handler in its turn.
Room(t) == App(t) => signals[t] < MaxSignals

\* The signal arrives, or it does not: -ESRCH, or -EAGAIN, which may come at any
\* time (RLIMIT_SIGPENDING counts all signals pending for the user's processes,
\* and the kernel may be out of memory).  Both drivers only print the error.
Send(t, arrives) ==
    /\ arrives => Receives(t) /\ Room(t)
    /\ signals' = IF arrives /\ App(t) THEN [signals EXCEPT ![t] = @ + 1] ELSE signals
    /\ crash' = (process[t] = "free")
    /\ strays' = (strays \/ ~asked[t])

\* SIGNO has no handler in any other process.
After(t, arrives) ==
    IF arrives /\ process[t] = "other" THEN "zombie" ELSE process[t]

\* my_ioctl of sec_signal_module.c reads task again to send.  It returns 0,
\* whether the signal was sent or not.
SendAtOnce(t) ==
    /\ Alive /\ InIoctl(t)
    /\ \E arrives \in BOOLEAN :
          /\ Send(task, arrives)
          /\ process' = [process EXCEPT ![t] = "waiting", ![task] =
                           IF task = t THEN "waiting" ELSE After(task, arrives)]
          /\ refused' = [refused EXCEPT ![t] = ~arrives /\ Receives(task)]
    /\ UNCHANGED <<driver, task, text, got, writer, asked, departed, crossed, message>>

-----------------------------------------------------------------------------
(* my_write of signal_module.c, called until the message is accepted. *)

Active(w) == pc[w] # "closed"

OpenToWrite(w) ==
    /\ Alive /\ pc[w] = "closed" /\ driver = "signal_module"
    /\ pc' = [pc EXCEPT ![w] = "copy"]
    /\ \E n \in Lens :
          /\ left' = [left EXCEPT ![w] = n]
          /\ message' = [v \in Writers |->
                IF v = w THEN [len |-> n, found |-> NULL,
                               alone |-> \A u \in Writers : ~Active(u)]
                ELSE [message[v] EXCEPT !.alone = FALSE]]
    /\ UNCHANGED <<driver, task, text, program, crash, asked, departed, strays, crossed,
                   refused>>

AtMost(n, bound) == IF n > bound THEN bound ELSE n

\* to_copy: the rest of the message, as far as device_buffer takes it.
ToCopy(w) == AtMost(left[w], BUFF_SIZE)

\* safe_len: one byte is the terminator's.
SafeLen(w) == AtMost(ToCopy(w), BUFF_SIZE - 1)

\* copy_from_user and device_buffer[safe_len] = '\0'.
Copy(w) ==
    /\ Alive /\ pc[w] = "copy"
    /\ text' = SafeLen(w)
    /\ pc' = [pc EXCEPT ![w] = "test"]
    /\ UNCHANGED <<driver, task, program, left, crash, history>>

Closed(w) ==
    /\ pc' = [pc EXCEPT ![w] = "closed"]
    /\ left' = [left EXCEPT ![w] = 0]
    /\ message' = [message EXCEPT ![w] = NoLength]

\* -EFAULT after part of the copy, without a terminator: the message ends where
\* a terminator happens to stand.  The writer gives up.
CopyFaults(w) ==
    /\ Alive /\ pc[w] = "copy"
    /\ text' \in 0 .. BUFF_SIZE - 1
    /\ Closed(w)
    /\ UNCHANGED <<driver, task, program, crash, asked, departed, strays, crossed, refused>>

\* Mutant: without a task to_copy is returned.
AcceptedAlways(w) == ToCopy(w)

\* return IRQ_HANDLED, which is 1: one byte is accepted.
AcceptedWithoutTask(w) == 1

First(w) == left[w] = message[w].len

\* if (!task)
Test(w) ==
    /\ Alive /\ pc[w] = "test"
    /\ message' = IF First(w) THEN [message EXCEPT ![w].found = task] ELSE message
    /\ IF task # NULL
       THEN pc' = [pc EXCEPT ![w] = "send"] /\ UNCHANGED left
       ELSE /\ left' = [left EXCEPT ![w] = @ - AcceptedWithoutTask(w)]
            /\ pc' = [pc EXCEPT ![w] = IF left'[w] = 0 THEN "done" ELSE "copy"]
    /\ UNCHANGED <<driver, task, text, program, crash, asked, departed, strays, crossed,
                   refused>>

\* send_sig_info to the task that is registered now; return to_copy, sent or not.
SendToTask(w) ==
    /\ Alive /\ pc[w] = "send"
    /\ \E arrives \in BOOLEAN :
          /\ Send(task, arrives)
          /\ process' = [process EXCEPT ![task] = After(task, arrives)]
    /\ left' = [left EXCEPT ![w] = @ - ToCopy(w)]
    /\ pc' = [pc EXCEPT ![w] = IF left'[w] = 0 THEN "done" ELSE "copy"]
    /\ UNCHANGED <<driver, task, text, got, asked, departed, crossed, refused, message>>

CloseWriter(w) ==
    /\ Alive /\ pc[w] = "done"
    /\ Closed(w)
    /\ UNCHANGED <<driver, task, text, program, crash, asked, departed, strays, crossed,
                   refused>>

-----------------------------------------------------------------------------
Unused ==
    /\ \A t \in Tasks : process[t] \in {"free", "app", "other", "zombie"}
    /\ \A w \in Writers : ~Active(w)

\* rmmod and insmod: the variables start again.
Reload ==
    /\ Alive /\ Unused
    /\ task' = NULL /\ text' = 0
    /\ departed' = FALSE /\ asked' = NoTask
    /\ UNCHANGED <<driver, program, writer, crash, strays, crossed, refused, message>>

WriteStep(w) == Copy(w) \/ CopyFaults(w) \/ Test(w) \/ SendToTask(w)

Next ==
    \/ \E t \in Tasks :
          \/ Fork(t) \/ Exit(t) \/ Reap(t) \/ OpenDevice(t) \/ Register(t)
          \/ Handle(t) \/ SendAtOnce(t)
    \/ \E w \in Writers : OpenToWrite(w) \/ WriteStep(w) \/ CloseWriter(w)
    \/ Reload

Spec == Init /\ [][Next]_vars

-----------------------------------------------------------------------------
(* Properties *)

\* Every variable has its type.
TypeOK ==
    /\ driver \in Drivers
    /\ task \in Tasks \cup {NULL}
    /\ text \in 0 .. BUFF_SIZE - 1
    /\ process \in [Tasks -> {"free", "other", "app", "opened", "in_ioctl", "waiting",
                              "zombie"}]
    /\ signals \in [Tasks -> 0 .. MaxSignals]
    /\ got \in [Tasks -> BOOLEAN]
    /\ pc \in [Writers -> {"closed", "copy", "test", "send", "done"}]
    /\ left \in [Writers -> Nat]
    /\ crash \in BOOLEAN /\ departed \in BOOLEAN /\ strays \in BOOLEAN
    /\ asked \in [Tasks -> BOOLEAN] /\ crossed \in [Tasks -> BOOLEAN]
    /\ refused \in [Tasks -> BOOLEAN]
    /\ message \in [Writers -> [len : Nat \cup {NULL}, found : Tasks \cup {NULL},
                                alone : BOOLEAN]]
    /\ \A w \in Writers : pc[w] = "send" => task # NULL
    /\ \A w \in Writers : pc[w] = "done" <=> (Active(w) /\ left[w] = 0)

\* SIGNO goes to a process that has not asked for it, or through the memory
\* of a freed task_struct, only if a process that had asked has ended since
\* the driver was loaded; and with sec_signal_module.c, which sends to its
\* caller, only in an ioctl that another one overlapped.
StraysExplained ==
    [][strays' # strays \/ crash' # crash =>
          /\ departed
          /\ driver = "sec_signal_module" => \E t \in Tasks : InIoctl(t) /\ crossed[t]]_vars

\* With sec_signal_module.c a program whose ioctl returned 0 waits for the signal in vain
\* only if another program's ioctl overlapped its own, or the kernel refused to queue the
\* signal, which the driver tells nobody.
SelfSignalled ==
    driver = "sec_signal_module" =>
        \A t \in Tasks :
            process[t] = "waiting" /\ ~crossed[t] /\ ~refused[t] =>
                got[t] \/ signals[t] > 0

\* A program that writes until all is accepted leaves its whole message in
\* device_buffer if it is shorter than the buffer and a task was registered at its
\* first write.  Without a task my_write's 1 makes it write the rest over the
\* beginning again; a message of BUFF_SIZE bytes loses its last to the terminator,
\* a longer one all but its end.
MessageWhole ==
    \A w \in Writers : pc[w] = "done" /\ message[w].alone =>
        /\ text \in 1 .. message[w].len
        /\ text = message[w].len <=>
              /\ message[w].len < BUFF_SIZE
              /\ message[w].found # NULL \/ message[w].len = 1
=============================================================================
