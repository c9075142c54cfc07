---------------------------- MODULE ReplacedBuffer ----------------------------
(***************************************************************************)
(* Labs 6 and 8 keep a message in memory of its own size: my_write of      *)
(* vmalloc.c and proc_write of procfs_module.c allocate a block for each   *)
(* message and store its address in a global variable, which my_read,      *)
(* proc_read and the exit function use.  proc_write frees the block before *)
(* (kind = "procfs"), my_write never does (kind = "vmalloc").  No lock     *)
(* orders the calls.                                                       *)
(*                                                                         *)
(* A block is an address the allocator hands out, with the size of its     *)
(* slab slot or of its pages; chars is what strlen finds in it.  Messages  *)
(* hold no zero byte.  What lies behind a message is left over from the    *)
(* block's former use: zeros from the start on, or no zero at all.         *)
(***************************************************************************)
EXTENDS Integers, FiniteSets

CONSTANTS
    Kinds,     \* the drivers looked at, "procfs" and "vmalloc"
    Procs,     \* the processes that use its file
    Blocks,    \* the addresses the allocator may hand out ...
    Slot,      \* ... and the bytes at each
    NULL,      \* no address
    Lens       \* the lengths of the messages written

ASSUME KindAssumption == Kinds \subseteq {"procfs", "vmalloc"}
ASSUME SlotAssumption == Slot \in [Blocks -> Nat \ {0}] /\ NULL \notin Blocks
ASSUME LargestAssumption == \E b \in Blocks : \A c \in Blocks : Slot[c] <= Slot[b]
ASSUME LensAssumption == Lens \subseteq Nat

VARIABLES
    kind,        \* the driver
    buffer,      \* proc_buffer, device_buffer
    live,        \* the allocated blocks
    chars,       \* strlen of each block; Slot[b] if it runs out of it
    file,        \* per process: it has the file open
    offset,      \* *offset of that file
    pc,          \* the step of the process's call; "dead" after an oops
    ptr,         \* the block its call holds on to
    len,         \* proc_write's len, proc_read's length
    phase,       \* "loaded", "exit", "removing", "gone"
    crash,       \* "none", "double_free", "use_after_free", "overrun"
    overlapped,  \* history: a write or the exit overlapped another call
    last         \* history: how the last write ended, and its len

vars == <<kind, buffer, live, chars, file, offset, pc, ptr, len, phase, crash, overlapped,
          last>>
heap == <<buffer, live, chars>>
call == <<file, offset, ptr, len>>
history == <<overlapped, last>>

NoMessage == [end |-> "none", len |-> 0]

Init ==
    /\ kind \in Kinds
    /\ buffer = NULL
    /\ live = {} /\ chars \in [Blocks -> {0}]
    /\ file = [p \in Procs |-> FALSE]
    /\ offset = [p \in Procs |-> 0]
    /\ pc = [p \in Procs |-> "idle"]
    /\ ptr = [p \in Procs |-> NULL]
    /\ len = [p \in Procs |-> 0]
    /\ phase = "loaded"
    /\ crash = "none"
    /\ overlapped = FALSE
    /\ last = NoMessage

Alive == crash = "none"

Busy(p) == pc[p] \notin {"idle", "dead"}
Reading(p) == pc[p] \in {"strlen", "copyout"}
Writing(p) == Busy(p) /\ ~Reading(p)

At(p, step) == Alive /\ pc[p] = step
Goto(p, step) == pc' = [pc EXCEPT ![p] = step]

\* The call is over, and what it held.
Return(p) ==
    /\ Goto(p, "idle")
    /\ ptr' = [ptr EXCEPT ![p] = NULL]
    /\ len' = [len EXCEPT ![p] = 0]

\* A block of n bytes comes from the smallest slot that holds them.
Fits(b, n) == n <= Slot[b] /\ \A c \in Blocks : n <= Slot[c] => Slot[b] <= Slot[c]

\* The process is killed; its character device file is closed, its use of
\* the proc entry is not given back.
Oops(p) ==
    /\ Goto(p, "dead")
    /\ ptr' = [ptr EXCEPT ![p] = NULL]
    /\ len' = [len EXCEPT ![p] = 0]
    /\ file' = [file EXCEPT ![p] = FALSE]

-----------------------------------------------------------------------------
(* The file. *)

\* A /dev file cannot be opened once the unload began; the proc file serves
\* its calls until proc_remove.
Reachable == phase = "loaded" \/ (kind = "procfs" /\ phase = "exit")

Open(p) ==
    /\ At(p, "idle") /\ ~file[p]
    /\ Reachable
    /\ file' = [file EXCEPT ![p] = TRUE]
    /\ offset' = [offset EXCEPT ![p] = 0]
    /\ UNCHANGED <<kind, heap, pc, ptr, len, phase, crash, history>>

Close(p) ==
    /\ At(p, "idle") /\ file[p]
    /\ file' = [file EXCEPT ![p] = FALSE]
    /\ offset' = [offset EXCEPT ![p] = 0]
    /\ UNCHANGED <<kind, heap, pc, ptr, len, phase, crash, history>>

Admitted(p) == At(p, "idle") /\ file[p] /\ Reachable

-----------------------------------------------------------------------------
(* proc_write, my_write *)

FirstStep == IF kind = "procfs" THEN "test" ELSE "alloc"

WriteCall(p) ==
    /\ Admitted(p)
    /\ \E l \in Lens : len' = [len EXCEPT ![p] = l]
    /\ Goto(p, FirstStep)
    /\ overlapped' = (overlapped \/ phase = "exit" \/ \E q \in Procs : Busy(q))
    /\ UNCHANGED <<kind, heap, file, offset, ptr, phase, crash, last>>

\* if (proc_buffer != NULL)
WriteTest(p) ==
    /\ At(p, "test")
    /\ ptr' = [ptr EXCEPT ![p] = buffer]
    /\ Goto(p, IF buffer = NULL THEN "alloc" ELSE "free")
    /\ UNCHANGED <<kind, heap, file, offset, len, phase, crash, history>>

\* kfree(proc_buffer)
WriteFree(p) ==
    /\ At(p, "free")
    /\ live' = live \ {ptr[p]}
    /\ chars' = [chars EXCEPT ![ptr[p]] = 0]
    /\ crash' = IF ptr[p] \in live THEN crash ELSE "double_free"
    /\ ptr' = [ptr EXCEPT ![p] = NULL]
    /\ Goto(p, "alloc")
    /\ UNCHANGED <<kind, buffer, file, offset, len, phase, history>>

\* proc_buffer = kmalloc(len + 1), vmalloc(len + 1), with what is in it.
WriteAlloc(p) ==
    /\ At(p, "alloc")
    /\ \E b \in Blocks \ live :
          /\ Fits(b, len[p] + 1)
          /\ buffer' = b
          /\ live' = live \cup {b}
          /\ \E n \in {0, Slot[b]} : chars' = [chars EXCEPT ![b] = n]
          /\ ptr' = [ptr EXCEPT ![p] = b]
    /\ Goto(p, "copy")
    /\ UNCHANGED <<kind, file, offset, len, phase, crash, history>>

\* Mutant: the variable keeps the address of the freed block.
WriteAllocFailsDangling(p) ==
    /\ At(p, "alloc")
    /\ Return(p)
    /\ last' = NoMessage
    /\ UNCHANGED <<kind, heap, file, offset, phase, crash, overlapped>>

\* No memory: -EFAULT, -ENOMEM, and the variable is NULL.
WriteAllocFails(p) ==
    /\ At(p, "alloc")
    /\ buffer' = NULL
    /\ Return(p)
    /\ last' = NoMessage
    /\ UNCHANGED <<kind, live, chars, file, offset, phase, crash, overlapped>>

\* copy_from_user: the bytes behind the message stay as they were.
WriteCopy(p) ==
    /\ At(p, "copy")
    /\ IF ptr[p] \in live
       THEN /\ \E n \in {len[p], Slot[ptr[p]]} : chars' = [chars EXCEPT ![ptr[p]] = n]
            /\ UNCHANGED crash
       ELSE /\ crash' = IF len[p] > 0 THEN "use_after_free" ELSE crash
            /\ UNCHANGED chars
    /\ Goto(p, "nul")
    /\ UNCHANGED <<kind, buffer, live, call, phase, history>>

\* A copy that faults zeroes the rest of the len bytes; -EFAULT.
WriteFaults(p) ==
    /\ At(p, "copy") /\ len[p] > 0
    /\ IF ptr[p] \in live
       THEN /\ \E n \in 0 .. len[p] - 1 : chars' = [chars EXCEPT ![ptr[p]] = n]
            /\ UNCHANGED crash
       ELSE crash' = "use_after_free" /\ UNCHANGED chars
    /\ Return(p)
    /\ last' = [end |-> "fault", len |-> len[p]]
    /\ UNCHANGED <<kind, buffer, live, file, offset, phase, overlapped>>

\* Mutant: the index counts the terminator once more.
NulIndexFurther(p) == len[p] + 2

\* One byte further than the block was asked for.
NulIndex(p) == len[p] + 1

\* The process dies on its way out of the write.
WriterOops(p) ==
    /\ Oops(p)
    /\ last' = [end |-> "oops", len |-> len[p]]

\* proc_buffer[len + 1] = '\0', through the variable as it is now.
NulInside(p) ==
    /\ buffer \in live /\ NulIndex(p) < Slot[buffer]
    /\ chars' = IF NulIndex(p) < chars[buffer]
                THEN [chars EXCEPT ![buffer] = NulIndex(p)]
                ELSE chars
    /\ Goto(p, "print")
    /\ UNCHANGED <<file, ptr, len, crash, last>>

\* Behind the last page of a vmalloc area nothing is mapped.
NulFaults(p) ==
    /\ \/ buffer = NULL
       \/ buffer \in live /\ NulIndex(p) >= Slot[buffer] /\ kind = "vmalloc"
    /\ WriterOops(p)
    /\ UNCHANGED <<chars, crash>>

\* Behind a slab slot, or far behind an area, is other memory: somebody's, or
\* nobody's.
NulOutside(p) ==
    /\ buffer \in live
    /\ NulIndex(p) >= Slot[buffer] + (IF kind = "vmalloc" THEN 1 ELSE 0)
    /\ \/ crash' = "overrun" /\ UNCHANGED pc
       \/ Goto(p, "print") /\ UNCHANGED crash
    /\ UNCHANGED <<chars, file, ptr, len, last>>

NulFreed(p) ==
    /\ buffer \in Blocks \ live
    /\ crash' = "use_after_free"
    /\ UNCHANGED <<chars, file, pc, ptr, len, last>>

WriteNul(p) ==
    /\ At(p, "nul")
    /\ NulInside(p) \/ NulFaults(p) \/ NulOutside(p) \/ NulFreed(p)
    /\ UNCHANGED <<kind, buffer, live, offset, phase, overlapped>>

\* strlen of NULL faults, and so does one that leaves a vmalloc area; one that
\* leaves a slab slot goes on in other memory.
StrlenFaults ==
    \/ buffer = NULL
    \/ buffer \in live /\ kind = "vmalloc" /\ chars[buffer] = Slot[buffer]

\* pr_info("%s"), which prints (null) for NULL; my_write prints strlen as well.
\* return len
WritePrint(p) ==
    /\ At(p, "print")
    /\ IF kind = "vmalloc" /\ StrlenFaults
       THEN WriterOops(p) /\ UNCHANGED crash
       ELSE /\ crash' = IF buffer \in Blocks \ live THEN "use_after_free" ELSE crash
            /\ Return(p)
            /\ last' = [end |-> "kept", len |-> len[p]]
            /\ UNCHANGED file
    /\ UNCHANGED <<kind, heap, offset, phase, overlapped>>

-----------------------------------------------------------------------------
(* proc_read, my_read *)

ReadCall(p) ==
    /\ Admitted(p)
    /\ Goto(p, "strlen")
    /\ overlapped' = (overlapped \/ phase = "exit" \/ \E q \in Procs : Writing(q))
    /\ UNCHANGED <<kind, heap, call, phase, crash, last>>

AtEnd(p, length) == offset[p] >= length

\* length = strlen(proc_buffer); if (*offset >= length) return 0
ReadStrlen(p) ==
    /\ At(p, "strlen")
    /\ \/ /\ StrlenFaults
          /\ Oops(p)
          /\ UNCHANGED crash
       \/ /\ buffer \in live /\ ~StrlenFaults
          /\ AtEnd(p, chars[buffer])
          /\ Return(p)
          /\ UNCHANGED <<file, crash>>
       \/ /\ buffer \in live /\ ~StrlenFaults
          /\ ~AtEnd(p, chars[buffer])
          /\ ptr' = [ptr EXCEPT ![p] = buffer]
          /\ len' = [len EXCEPT ![p] = chars[buffer]]
          /\ Goto(p, "copyout")
          /\ UNCHANGED <<file, crash>>
       \/ /\ buffer \in Blocks \ live
          /\ crash' = "use_after_free"
          /\ UNCHANGED <<file, pc, ptr, len>>
    /\ UNCHANGED <<kind, heap, offset, phase, history>>

\* A position behind the longest string a block can hold; how far does not
\* matter (a bound).
Beyond(n) ==
    LET bound == CHOOSE m \in {Slot[b] : b \in Blocks} : \A b \in Blocks : Slot[b] <= m
    IN  IF n > bound THEN bound ELSE n

\* copy_to_user from the address strlen was given or from the present one,
\* as the compiler has it; *offset += length.
ReadCopy(p) ==
    /\ At(p, "copyout")
    /\ \E b \in {ptr[p], buffer} \ {NULL} :
          IF b \in live
          THEN /\ offset' = [offset EXCEPT ![p] = Beyond(offset[p] + len[p])]
               /\ UNCHANGED crash
          ELSE crash' = "use_after_free" /\ UNCHANGED offset
    /\ Return(p)
    /\ UNCHANGED <<kind, heap, file, phase, history>>

\* The reader's memory or NULL faults: -EFAULT.
ReadFaults(p) ==
    /\ At(p, "copyout")
    /\ Return(p)
    /\ UNCHANGED <<kind, heap, file, offset, phase, crash, history>>

-----------------------------------------------------------------------------
(* hello_exit, vmalloc_exit *)

\* The proc file holds no reference to the module, an open /dev file does.
Unloadable == kind = "procfs" \/ \A p \in Procs : ~file[p]

Rmmod ==
    /\ Alive /\ phase = "loaded" /\ Unloadable
    /\ phase' = "exit"
    /\ overlapped' = (overlapped \/ \E q \in Procs : Busy(q))
    /\ UNCHANGED <<kind, heap, call, pc, crash, last>>

\* Mutant: the exit function leaves the message's block.
ExitForgets ==
    /\ Alive /\ phase = "exit"
    /\ phase' = "removing"
    /\ UNCHANGED <<kind, heap, call, pc, crash, history>>

\* kfree(proc_buffer), vfree(device_buffer)
ExitFrees ==
    /\ Alive /\ phase = "exit"
    /\ live' = live \ {buffer}
    /\ crash' = IF buffer \in Blocks \ live THEN "double_free" ELSE crash
    /\ phase' = "removing"
    /\ UNCHANGED <<kind, buffer, chars, call, pc, history>>

\* proc_remove waits for the calls it finds.
InUse(p) == Busy(p) \/ (kind = "procfs" /\ pc[p] = "dead")

ExitReturns ==
    /\ Alive /\ phase = "removing"
    /\ \A p \in Procs : ~InUse(p)
    /\ phase' = "gone"
    /\ UNCHANGED <<kind, heap, call, pc, crash, history>>

-----------------------------------------------------------------------------
WriteStep(p) ==
    \/ WriteTest(p) \/ WriteFree(p) \/ WriteAlloc(p) \/ WriteAllocFails(p)
    \/ WriteCopy(p) \/ WriteFaults(p) \/ WriteNul(p) \/ WritePrint(p)

ReadStep(p) == ReadStrlen(p) \/ ReadCopy(p) \/ ReadFaults(p)

Next ==
    \/ \E p \in Procs :
          \/ Open(p) \/ Close(p) \/ WriteCall(p) \/ ReadCall(p)
          \/ WriteStep(p) \/ ReadStep(p)
    \/ Rmmod \/ ExitFrees \/ ExitReturns

Spec == Init /\ [][Next]_vars

-----------------------------------------------------------------------------
(* Properties *)

\* Every variable has its type.
TypeOK ==
    /\ kind \in Kinds
    /\ buffer \in Blocks \cup {NULL}
    /\ live \subseteq Blocks
    /\ \A b \in Blocks : chars[b] \in 0 .. Slot[b]
    /\ file \in [Procs -> BOOLEAN]
    /\ offset \in [Procs -> Nat]
    /\ pc \in [Procs -> {"idle", "dead", "test", "free", "alloc", "copy", "nul",
                         "print", "strlen", "copyout"}]
    /\ ptr \in [Procs -> Blocks \cup {NULL}]
    /\ len \in [Procs -> Nat]
    /\ phase \in {"loaded", "exit", "removing", "gone"}
    /\ crash \in {"none", "double_free", "use_after_free", "overrun"}
    /\ overlapped \in BOOLEAN
    /\ last \in [end : {"none", "fault", "kept", "oops"}, len : Nat]
    /\ \A p \in Procs : Busy(p) => file[p]
    /\ \A p \in Procs : pc[p] = "copyout" => offset[p] < len[p]

\* A message of n bytes leaves no room in its block for the byte behind the
\* terminator's place.
Fills(n) == buffer # NULL /\ Slot[buffer] = n + 1

\* Freed memory is only touched after a call overlapped a write or the exit,
\* and by vmalloc.c's calls never, because my_write leaks every block it
\* replaces.  Without such an overlap memory that is not the driver's is only
\* written behind a message that fills its block, and a process is killed only
\* when it reads where no message is (none was written, or the last write found
\* no memory), or at, or after, a write of vmalloc.c that fills its block.
MisuseExplained ==
    [][/\ crash' # crash => overlapped' \/ \E p \in Procs : pc[p] = "nul" /\ Fills(len[p])
       /\ crash' # crash /\ crash' # "overrun" => overlapped' /\ kind = "procfs"
       /\ \A p \in Procs : pc[p] # "dead" /\ pc'[p] = "dead" =>
             \/ overlapped'
             \/ Reading(p) /\ buffer = NULL /\ last.end = "none"
             \/ kind = "vmalloc" /\ Fills(last'.len) /\ last'.end = "oops"]_vars

Quiet == ~overlapped /\ \A p \in Procs : ~Writing(p)

\* Between calls that do not overlap, a message that was written is read back
\* with at most one byte too many, and strlen leaves the block only where
\* len + 1 bytes fill it to the last one; then the store of the terminator has
\* missed the block too, and my_write has died of it.  A message whose copy
\* faulted is shorter than asked for, and terminated.
MessageRead ==
    Quiet /\ phase = "loaded" /\ buffer # NULL /\ Alive =>
        \/ /\ last.end \in {"kept", "oops"}
           /\ chars[buffer] \in {last.len, last.len + 1}
           /\ chars[buffer] = Slot[buffer] => Fills(last.len)
           /\ Fills(last.len) => (last.end = "oops" <=> kind = "vmalloc")
           /\ last.end = "oops" => Fills(last.len)
        \/ last.end = "fault" /\ chars[buffer] < last.len

\* proc_write keeps one block at a time and hello_exit gives it back, as long
\* as no two calls overlap, and whichever steps failed on the way.
HeapAccounted ==
    kind = "procfs" /\ Quiet /\ Alive =>
        live = IF phase \in {"loaded", "exit"} THEN {buffer} \ {NULL} ELSE {}
=============================================================================
