----------------------------- MODULE TempWatch -----------------------------
(***************************************************************************)
(* k_temp_watch-13/temp_watch.c: a thread measures a (random) temperature  *)
(* every two seconds and raises wait_flag = 2 when it is above the         *)
(* threshold; processes that read /proc/tempwatch/wait sleep for that      *)
(* flag; a write to /proc/tempwatch/threshold sets the threshold under     *)
(* mutex_ref; a read of /dev/mychardev stores wait_flag = 1.  The exit     *)
(* function stops the thread and removes the /proc files, which waits for  *)
(* calls in progress; unlike an open /dev file they do not keep the module *)
(* from being unloaded.                                                    *)
(*                                                                         *)
(* The temperature is compared at once and otherwise only printed; reads   *)
(* of value and the -EPERM handlers change no state.                       *)
(***************************************************************************)
EXTENDS Integers

CONSTANTS
    Waiters,      \* processes that read wait
    Setters,      \* processes that write threshold
    Readers,      \* processes that read the character device
    Temps,        \* temperatures, 0 .. 99 in the code
    Thresholds,   \* values written to threshold
    Default,      \* threshold_value at load, 75
    SignalsCome,  \* whether a signal may interrupt a sleeping reader of wait
    NoOwner       \* mutex_ref is free

ASSUME TempsAssumption   == Temps \subseteq Int /\ Thresholds \subseteq Int
ASSUME DefaultAssumption == Default \in Thresholds
ASSUME SignalsAssumption == SignalsCome \in BOOLEAN
ASSUME OwnerAssumption   == NoOwner \notin Setters

VARIABLES
    wait_flag,    \* wait_flag
    threshold,    \* threshold_value
    mutex_ref,    \* owner of mutex_ref
    tpc,          \* where thread_function stands
    wpc,          \* where each wait_read stands
    spc,          \* where each threshold_write stands
    rpc,          \* where each my_read stands
    xpc,          \* where hello_exit stands
    spoiled,      \* history: what else may have woken or emptied this wait_read
    leaked        \* history: a threshold_write returned holding mutex_ref

vars == <<wait_flag, threshold, mutex_ref, tpc, wpc, spc, rpc, xpc,
          spoiled, leaked>>

Init ==
    /\ wait_flag = 0
    /\ threshold = Default
    /\ mutex_ref = NoOwner
    /\ tpc = "top"
    /\ wpc = [w \in Waiters |-> "idle"]
    /\ spc = [s \in Setters |-> "idle"]
    /\ rpc = [r \in Readers |-> "idle"]
    /\ xpc = "loaded"
    /\ spoiled = [w \in Waiters |-> FALSE]
    /\ leaked = FALSE

\* wake_up_interruptible(&wq) reaches every sleeper of wq.
Woken == [w \in Waiters |-> IF wpc[w] = "sleep" THEN "recheck" ELSE wpc[w]]

Waiting(w) == wpc[w] # "idle"

-----------------------------------------------------------------------------
(* thread_function *)

\* One round: measure and compare, unless kthread_stop was called.
Measure(t) ==
    /\ tpc = "top"
    /\ xpc = "loaded"
    /\ tpc' = IF t > threshold THEN "raise" ELSE "msleep"
    /\ UNCHANGED <<wait_flag, threshold, mutex_ref, wpc, spc, rpc, xpc, spoiled, leaked>>

\* Mutant: the thread stores what my_read stores.
RaiseOne ==
    /\ tpc = "raise"
    /\ wait_flag' = 1
    /\ tpc' = "wake"
    /\ UNCHANGED <<threshold, mutex_ref, wpc, spc, rpc, xpc, spoiled, leaked>>

\* wait_flag = 2
Raise ==
    /\ tpc = "raise"
    /\ wait_flag' = 2
    /\ tpc' = "wake"
    /\ UNCHANGED <<threshold, mutex_ref, wpc, spc, rpc, xpc, spoiled, leaked>>

\* Mutant: the thread raises the flag and wakes nobody.
WakeNobody ==
    /\ tpc = "wake"
    /\ tpc' = "msleep"
    /\ UNCHANGED <<wait_flag, threshold, mutex_ref, wpc, spc, rpc, xpc,
                   spoiled, leaked>>

\* wake_up_interruptible(&wq)
Wake ==
    /\ tpc = "wake"
    /\ wpc' = Woken
    /\ tpc' = "msleep"
    /\ UNCHANGED <<wait_flag, threshold, mutex_ref, spc, rpc, xpc,
                   spoiled, leaked>>

\* msleep(2000) is over.
MsleepOver ==
    /\ tpc = "msleep"
    /\ tpc' = "top"
    /\ UNCHANGED <<wait_flag, threshold, mutex_ref, wpc, spc, rpc, xpc,
                   spoiled, leaked>>

\* Mutant: the thread looks at kthread_should_stop() only while the flag is up.
ThreadEndsRaised ==
    /\ tpc = "top"
    /\ xpc # "loaded"
    /\ wait_flag # 0
    /\ tpc' = "stopped"
    /\ UNCHANGED <<wait_flag, threshold, mutex_ref, wpc, spc, rpc, xpc,
                   spoiled, leaked>>

\* kthread_should_stop()
ThreadEnds ==
    /\ tpc = "top"
    /\ xpc # "loaded"
    /\ tpc' = "stopped"
    /\ UNCHANGED <<wait_flag, threshold, mutex_ref, wpc, spc, rpc, xpc,
                   spoiled, leaked>>

-----------------------------------------------------------------------------
(* wait_read *)

waitUnchanged == <<threshold, mutex_ref, tpc, spc, rpc, xpc, leaked>>

\* The call; a removed /proc file takes no more calls.  A file whose position
\* is at the end returns 0 at once: nothing happens.  The flag may still hold
\* the 1 of an earlier read of the device.
WaitCall(w) ==
    /\ wpc[w] = "idle"
    /\ xpc \in {"loaded", "stop"}
    /\ wpc' = [wpc EXCEPT ![w] = "check"]
    /\ spoiled' = [spoiled EXCEPT ![w] = (wait_flag = 1)]
    /\ UNCHANGED <<wait_flag, waitUnchanged>>

\* wait_event_interruptible: the condition, joining wq, the condition again.
WaitCheck(w) ==
    /\ wpc[w] = "check"
    /\ wpc' = [wpc EXCEPT ![w] = IF wait_flag # 0 THEN "test" ELSE "enqueue"]
    /\ UNCHANGED <<wait_flag, spoiled, waitUnchanged>>

WaitEnqueue(w) ==
    /\ wpc[w] = "enqueue"
    /\ wpc' = [wpc EXCEPT ![w] = "recheck"]
    /\ UNCHANGED <<wait_flag, spoiled, waitUnchanged>>

WaitRecheck(w) ==
    /\ wpc[w] = "recheck"
    /\ wpc' = [wpc EXCEPT ![w] = IF wait_flag # 0 THEN "test" ELSE "sleep"]
    /\ UNCHANGED <<wait_flag, spoiled, waitUnchanged>>

\* -ERESTARTSYS, which wait_read does not look at.
WaitInterrupted(w) ==
    /\ SignalsCome
    /\ wpc[w] = "sleep"
    /\ wpc' = [wpc EXCEPT ![w] = "test"]
    /\ spoiled' = [spoiled EXCEPT ![w] = TRUE]
    /\ UNCHANGED <<wait_flag, waitUnchanged>>

\* if(wait_flag == 2)
WaitTest(w) ==
    /\ wpc[w] = "test"
    /\ wpc' = [wpc EXCEPT ![w] = IF wait_flag = 2 THEN "copy" ELSE "silent"]
    /\ UNCHANGED <<wait_flag, spoiled, waitUnchanged>>

\* copy_to_user
WaitCopy(w) ==
    /\ wpc[w] = "copy"
    /\ wpc' = [wpc EXCEPT ![w] = "told"]
    /\ UNCHANGED <<wait_flag, spoiled, waitUnchanged>>

\* copy_to_user fails: -EFAULT, wait_flag stays.
WaitFault(w) ==
    /\ wpc[w] = "copy"
    /\ wpc' = [wpc EXCEPT ![w] = "idle"]
    /\ UNCHANGED <<wait_flag, spoiled, waitUnchanged>>

\* wait_flag = 0; return length; for a reader that was told something ("told")
\* and for one that was not ("silent").  Other readers may miss the flag.
WaitReturn(w) ==
    /\ wpc[w] \in {"told", "silent"}
    /\ wait_flag' = 0
    /\ wpc' = [wpc EXCEPT ![w] = "idle"]
    /\ spoiled' = [x \in Waiters |-> spoiled[x] \/ (x # w /\ Waiting(x))]
    /\ UNCHANGED waitUnchanged

-----------------------------------------------------------------------------
(* threshold_write *)

setUnchanged == <<wait_flag, tpc, wpc, rpc, xpc, spoiled>>

SetCall(s) ==
    /\ spc[s] = "idle"
    /\ xpc \in {"loaded", "stop", "rm_wait"}
    /\ spc' = [spc EXCEPT ![s] = "lock"]
    /\ UNCHANGED <<threshold, mutex_ref, leaked, setUnchanged>>

\* mutex_lock(&mutex_ref)
SetLock(s) ==
    /\ spc[s] = "lock"
    /\ mutex_ref = NoOwner
    /\ mutex_ref' = s
    /\ spc' = [spc EXCEPT ![s] = "parse"]
    /\ UNCHANGED <<threshold, leaked, setUnchanged>>

\* Mutant: the error returns release the mutex.
SetFailsUnlocked(s) ==
    /\ spc[s] = "parse"
    /\ spc' = [spc EXCEPT ![s] = "idle"]
    /\ mutex_ref' = NoOwner
    /\ leaked' = TRUE
    /\ UNCHANGED <<threshold, setUnchanged>>

\* Too long, -EFAULT or not a number: each returns with the mutex held.
SetFails(s) ==
    /\ spc[s] = "parse"
    /\ spc' = [spc EXCEPT ![s] = "idle"]
    /\ leaked' = TRUE
    /\ UNCHANGED <<threshold, mutex_ref, setUnchanged>>

\* threshold_value = value
SetValue(s, v) ==
    /\ spc[s] = "parse"
    /\ threshold' = v
    /\ spc' = [spc EXCEPT ![s] = "unlock"]
    /\ UNCHANGED <<mutex_ref, leaked, setUnchanged>>

\* mutex_unlock(&mutex_ref); return len;
SetReturn(s) ==
    /\ spc[s] = "unlock"
    /\ mutex_ref' = NoOwner
    /\ spc' = [spc EXCEPT ![s] = "idle"]
    /\ UNCHANGED <<threshold, leaked, setUnchanged>>

-----------------------------------------------------------------------------
(* my_read, from wait_flag = 1 on *)

readUnchanged == <<threshold, mutex_ref, tpc, spc, xpc, leaked>>

ReadSetFlag(r) ==
    /\ rpc[r] = "idle"
    /\ xpc = "loaded"
    /\ wait_flag' = 1
    /\ rpc' = [rpc EXCEPT ![r] = "wake"]
    /\ spoiled' = [w \in Waiters |-> spoiled[w] \/ Waiting(w)]
    /\ UNCHANGED <<wpc, readUnchanged>>

ReadWake(r) ==
    /\ rpc[r] = "wake"
    /\ wpc' = Woken
    /\ rpc' = [rpc EXCEPT ![r] = "idle"]
    /\ UNCHANGED <<wait_flag, spoiled, readUnchanged>>

-----------------------------------------------------------------------------
(* hello_exit *)

exitUnchanged == <<wait_flag, threshold, mutex_ref, tpc, wpc, spc, rpc,
                   spoiled, leaked>>

\* kthread_stop(kthread) is called; no /dev file is open.
ExitBegin ==
    /\ xpc = "loaded"
    /\ \A r \in Readers : rpc[r] = "idle"
    /\ xpc' = "stop"
    /\ UNCHANGED exitUnchanged

\* kthread_stop returns once the thread has ended.
ExitThreadStopped ==
    /\ xpc = "stop"
    /\ tpc = "stopped"
    /\ xpc' = "rm_wait"
    /\ UNCHANGED exitUnchanged

\* remove_proc_entry("wait") returns once no wait_read is in progress; the
\* reads of "value", removed next, do not block.
ExitRemoveWait ==
    /\ xpc = "rm_wait"
    /\ \A w \in Waiters : ~Waiting(w)
    /\ xpc' = "rm_threshold"
    /\ UNCHANGED exitUnchanged

\* remove_proc_entry("threshold"), proc_remove(parent), device_destroy ...
\* unregister_chrdev_region.
ExitRemoveThreshold ==
    /\ xpc = "rm_threshold"
    /\ \A s \in Setters : spc[s] = "idle"
    /\ xpc' = "unloaded"
    /\ UNCHANGED exitUnchanged

-----------------------------------------------------------------------------
ThreadStep ==
    \/ \E t \in Temps : Measure(t)
    \/ Raise
    \/ Wake
    \/ MsleepOver
    \/ ThreadEnds

\* A wait_read that is not asleep.
WaiterRuns(w) ==
    \/ WaitCheck(w)
    \/ WaitEnqueue(w)
    \/ WaitRecheck(w)
    \/ WaitTest(w)
    \/ WaitCopy(w)
    \/ WaitFault(w)
    \/ WaitReturn(w)

\* A threshold_write that was called.
SetterRuns(s) ==
    \/ SetLock(s)
    \/ SetFails(s)
    \/ \E v \in Thresholds : SetValue(s, v)
    \/ SetReturn(s)

ExitRuns == ExitThreadStopped \/ ExitRemoveWait \/ ExitRemoveThreshold

Next ==
    \/ ThreadStep
    \/ \E w \in Waiters : WaitCall(w) \/ WaitInterrupted(w) \/ WaiterRuns(w)
    \/ \E s \in Setters : SetCall(s) \/ SetterRuns(s)
    \/ \E r \in Readers : ReadSetFlag(r) \/ ReadWake(r)
    \/ ExitBegin
    \/ ExitRuns

Spec == Init /\ [][Next]_vars

\* The thread, the exit function and every call that is not asleep run on.
\* Nobody owes a call or a signal, and copy_to_user may fail.
FairSpec ==
    /\ Spec
    /\ WF_vars(ThreadStep)
    /\ WF_vars(ExitRuns)
    /\ \A w \in Waiters : WF_vars(WaiterRuns(w))
    /\ \A s \in Setters : WF_vars(SetterRuns(s))
    /\ \A r \in Readers : WF_vars(ReadWake(r))

-----------------------------------------------------------------------------
(* Properties *)

\* Every variable has its type.
TypeOK ==
    /\ wait_flag \in {0, 1, 2}
    /\ threshold \in Thresholds
    /\ mutex_ref \in Setters \cup {NoOwner}
    /\ tpc \in {"top", "raise", "wake", "msleep", "stopped"}
    /\ wpc \in [Waiters -> {"idle", "check", "enqueue", "recheck", "sleep", "test",
                            "copy", "told", "silent"}]
    /\ spc \in [Setters -> {"idle", "lock", "parse", "unlock"}]
    /\ rpc \in [Readers -> {"idle", "wake"}]
    /\ xpc \in {"loaded", "stop", "rm_wait", "rm_threshold", "unloaded"}
    /\ spoiled \in [Waiters -> BOOLEAN]
    /\ leaked \in BOOLEAN

\* No reader of wait sleeps on a raised flag unless a wake_up is under way.
NoMissedWakeup ==
    \A w \in Waiters :
        wpc[w] = "sleep" /\ wait_flag # 0 =>
            tpc = "wake" \/ \E r \in Readers : rpc[r] = "wake"

\* wait_read returns its length without having copied anything only when a read
\* of the character device had left the flag at 1 before it was called, or,
\* since then, a signal hit it, a read of the device stored 1, or another
\* wait_read took the flag down.
SilentReturnExplained ==
    \A w \in Waiters : wpc[w] = "silent" => spoiled[w]

\* After one failed write of threshold the mutex stays taken, and no later
\* write changes the threshold.
ThresholdFrozenByFailure == [][leaked => threshold' = threshold]_vars

\* The unload completes unless, from some point on, a reader of wait stays
\* asleep (its thread is gone, nobody will raise the flag) or a write of
\* threshold waits for the mutex a failed write left taken.
UnloadEnds ==
    xpc = "stop" ~>
        \/ xpc = "unloaded"
        \/ [](\E w \in Waiters : wpc[w] = "sleep")
        \/ [](leaked /\ \E s \in Setters : spc[s] = "lock")
=============================================================================
