------------------------- MODULE ReplacedBuffer_proofs -------------------------
(***************************************************************************)
(* Proofs about ReplacedBuffer, for any processes, blocks and messages:    *)
(* what the drivers that replace their buffer touch, keep and read back.   *)
(***************************************************************************)
EXTENDS ReplacedBuffer, TLAPS

\* The block the driver would free or read is allocated, but for a writer that has freed it
\* and not yet asked for the next.
Owned == (\A p \in Procs : pc[p] # "alloc") => buffer \in live \cup {NULL}

\* While no write and no exit has overlapped another call, a writer is the only call, the
\* exit runs alone, and a call holds on to the block of the variable.
Ordered ==
    /\ \A p, q \in Procs : Writing(p) /\ Busy(q) => q = p
    /\ phase # "loaded" => \A p \in Procs : ~Busy(p)
    /\ phase \in {"loaded", "exit"} => Owned
    /\ \A p \in Procs : pc[p] \in {"free", "copy", "nul", "print", "copyout"} =>
                            ptr[p] = buffer /\ buffer # NULL

\* The one block of procfs_module.c.
OneBlock ==
    live = IF phase \in {"loaded", "exit"} /\ \A p \in Procs : pc[p] # "alloc"
           THEN {buffer} \ {NULL} ELSE {}

\* vmalloc.c frees nothing before its exit, and its exit finds the file closed.
Leaks ==
    /\ phase \in {"loaded", "exit"} => buffer \in live \cup {NULL}
    /\ phase # "loaded" => \A p \in Procs : ~file[p]
    /\ \A p \in Procs : phase = "loaded" => ptr[p] \in live \cup {NULL}
    /\ \A p \in Procs : pc[p] = "copy" => ptr[p] # NULL
    /\ \A p \in Procs : pc[p] \notin {"test", "free"}

\* What strlen finds of the last message, in the block and behind it.
Readable ==
    \/ /\ last.end \in {"kept", "oops"}
       /\ chars[buffer] \in {last.len, last.len + 1}
       /\ chars[buffer] = Slot[buffer] => Fills(last.len)
       /\ Fills(last.len) => (last.end = "oops" <=> kind = "vmalloc")
       /\ last.end = "oops" => Fills(last.len)
    \/ /\ last.end = "fault"
       /\ chars[buffer] < last.len /\ last.len < Slot[buffer]

\* The message on its way: its block has room for it and its terminator, copy_from_user
\* leaves what lies behind it, and the misplaced terminator cuts that to one byte, or is
\* lost; my_write dies of that.
Written(p) ==
    /\ pc[p] \in {"copy", "nul"} => len[p] + 1 <= Slot[buffer]
    /\ pc[p] = "nul" => chars[buffer] \in {len[p], Slot[buffer]}
    /\ pc[p] = "print" => /\ chars[buffer] \in {len[p], len[p] + 1}
                          /\ chars[buffer] = Slot[buffer] => Fills(len[p])
                          /\ Fills(len[p]) => kind = "procfs"

MessageText ==
    phase = "loaded" =>
        /\ buffer # NULL => /\ (\A p \in Procs : ~Writing(p)) => Readable
                            /\ \A p \in Procs : Written(p)
        /\ buffer = NULL => last.end = "none"

\* The block a message is copied into was allocated for it.
Room == \A p \in Procs : pc[p] = "copy" => ptr[p] \in Blocks /\ len[p] + 1 <= Slot[ptr[p]]

Typed == TypeOK /\ chars \in [Blocks -> Nat] /\ Room

\* The inductive invariant: types, and what holds while nothing was misused.
Sound ==
    /\ ~overlapped => Ordered /\ MessageText
    /\ ~overlapped /\ kind = "procfs" => OneBlock
    /\ kind = "vmalloc" => Leaks

BufferInv == Typed /\ (Alive => Sound)

-----------------------------------------------------------------------------
(* Types *)

\* The largest slot is one of the slots.
LEMMA BeyondType == ASSUME NEW n \in Nat PROVE Beyond(n) \in Nat
<1> DEFINE Sizes == {Slot[b] : b \in Blocks}
           bound == CHOOSE m \in Sizes : \A b \in Blocks : Slot[b] <= m
<1>1. \E m \in Sizes : \A b \in Blocks : Slot[b] <= m
  BY LargestAssumption
<1>2. bound \in Sizes
  BY <1>1
<1>3. Sizes \subseteq Nat
  BY SlotAssumption
<1>4. bound \in Nat
  BY <1>2, <1>3
<1>5. Beyond(n) = IF n > bound THEN bound ELSE n
  BY DEF Beyond
<1> HIDE DEF bound
<1> QED BY <1>4, <1>5

\* A string is no longer than its block.
LEMMA CharsType ==
    ASSUME Typed, NEW b, NEW n \in Nat, b \in Blocks => n <= Slot[b],
           chars' = [chars EXCEPT ![b] = n] \/ chars' = chars
    PROVE  chars' \in [Blocks -> Nat] /\ \A c \in Blocks : chars'[c] \in 0 .. Slot[c]
BY SlotAssumption DEF Typed, TypeOK

\* Types hold at insmod, ...
LEMMA InitTypes == Init => Typed
<1> SUFFICES ASSUME Init PROVE Typed
  OBVIOUS
<1> USE DEF Init
<1>1. chars \in [Blocks -> Nat] /\ \A b \in Blocks : chars[b] \in 0 .. Slot[b]
  BY SlotAssumption
<1>2. /\ pc \in [Procs -> {"idle"}] /\ ptr \in [Procs -> {NULL}] /\ len \in [Procs -> {0}]
      /\ file \in [Procs -> {FALSE}] /\ offset \in [Procs -> {0}]
  OBVIOUS
<1>3. last \in [end : {"none", "fault", "kept", "oops"}, len : Nat]
  BY DEF NoMessage
<1> QED BY <1>1, <1>2, <1>3 DEF Typed, TypeOK, Room, Busy

\* ... through open, close and the start of a call, ...
LEMMA FileKeepsTypes ==
    ASSUME Typed, NEW p \in Procs, Open(p) \/ Close(p) \/ WriteCall(p) \/ ReadCall(p)
    PROVE  Typed'
<1> USE DEF Typed, TypeOK, Room, At, Goto, Admitted, heap, call, history, Busy
<1>1. CASE Open(p)       BY <1>1 DEF Open
<1>2. CASE Close(p)      BY <1>2 DEF Close
<1>3. CASE WriteCall(p)  BY <1>3, LensAssumption DEF WriteCall, FirstStep
<1>4. CASE ReadCall(p)   BY <1>4 DEF ReadCall
<1> QED BY <1>1, <1>2, <1>3, <1>4

\* ... the steps of a write, where a message is no longer than its block, ...
LEMMA WriteKeepsTypes ==
    ASSUME Typed, NEW p \in Procs, WriteStep(p)
    PROVE  Typed'
<1> USE SlotAssumption DEF Typed, TypeOK, Room, At, Goto, Return, Oops, heap, call, history, Busy
<1>1. CASE WriteTest(p)        BY <1>1 DEF WriteTest
<1>2. CASE WriteFree(p)
  <2>1. chars' \in [Blocks -> Nat] /\ \A c \in Blocks : chars'[c] \in 0 .. Slot[c]
    <3>1. chars' = [chars EXCEPT ![ptr[p]] = 0]
      BY <1>2 DEF WriteFree
    <3>2. ptr[p] \in Blocks => 0 <= Slot[ptr[p]]
      OBVIOUS
    <3> HIDE DEF Typed
    <3> QED BY <3>1, <3>2, CharsType
  <2>2. live' \subseteq Blocks /\ buffer' = buffer
    BY <1>2 DEF WriteFree
  <2> QED BY <1>2, <2>1, <2>2 DEF WriteFree
<1>3. CASE WriteAlloc(p)
  <2>1. PICK b \in Blocks \ live :
          /\ buffer' = b /\ live' = live \cup {b} /\ ptr' = [ptr EXCEPT ![p] = b]
          /\ \E n \in {0, Slot[b]} : chars' = [chars EXCEPT ![b] = n]
    BY <1>3 DEF WriteAlloc
  <2>2. chars' \in [Blocks -> Nat] /\ \A c \in Blocks : chars'[c] \in 0 .. Slot[c]
    BY <2>1
  <2>3. /\ pc' = [pc EXCEPT ![p] = "copy"] /\ buffer' \in Blocks
        /\ UNCHANGED <<kind, file, offset, len, phase, crash, history>>
    BY <1>3, <2>1 DEF WriteAlloc
  <2>4. ptr'[p] \in Blocks /\ len[p] + 1 <= Slot[ptr'[p]]
    BY <1>3 DEF WriteAlloc, Fits
  <2>5. Room'
    BY <2>1, <2>3, <2>4
  <2>6. live' \subseteq Blocks /\ ptr' \in [Procs -> Blocks \cup {NULL}]
    BY <2>1
  <2>7. /\ pc' \in [Procs -> {"idle", "dead", "test", "free", "alloc", "copy", "nul",
                              "print", "strlen", "copyout"}]
    BY <2>3
  <2>8. \A q \in Procs : Busy(q)' => file'[q]
    <3>1. file[p]
      BY <1>3 DEF WriteAlloc
    <3> QED BY <2>3, <3>1
  <2>9. \A q \in Procs : pc'[q] = "copyout" => offset'[q] < len'[q]
    BY <2>3
  <2> HIDE DEF Room
  <2> QED BY <2>2, <2>3, <2>5, <2>6, <2>7, <2>8, <2>9
<1>4. CASE WriteAllocFails(p)  BY <1>4 DEF WriteAllocFails, NoMessage
<1>5. CASE WriteCopy(p)
  <2>1. chars' \in [Blocks -> Nat] /\ \A c \in Blocks : chars'[c] \in 0 .. Slot[c]
    <3>1. PICK n \in {len[p], Slot[ptr[p]]} :
            chars' = [chars EXCEPT ![ptr[p]] = n] \/ chars' = chars
      BY <1>5 DEF WriteCopy
    <3>2. n \in Nat /\ ptr[p] \in Blocks /\ n <= Slot[ptr[p]]
      BY <1>5 DEF WriteCopy
    <3> HIDE DEF Typed
    <3> QED BY <3>1, <3>2, CharsType
  <2> QED BY <1>5, <2>1 DEF WriteCopy
<1>6. CASE WriteFaults(p)
  <2>1. chars' \in [Blocks -> Nat] /\ \A c \in Blocks : chars'[c] \in 0 .. Slot[c]
    <3>1. PICK n \in 0 .. len[p] - 1 : chars' = [chars EXCEPT ![ptr[p]] = n] \/ chars' = chars
      BY <1>6 DEF WriteFaults
    <3>2. n \in Nat /\ ptr[p] \in Blocks /\ n <= Slot[ptr[p]]
      BY <1>6 DEF WriteFaults
    <3> HIDE DEF Typed
    <3> QED BY <3>1, <3>2, CharsType
  <2> QED BY <1>6, <2>1 DEF WriteFaults
<1>7. CASE WriteNul(p)
  <2>1. /\ UNCHANGED <<kind, buffer, live, offset, phase, overlapped>>
        /\ chars' = chars \/ NulInside(p)
        /\ crash' \in {crash, "overrun", "use_after_free"}
    BY <1>7 DEF WriteNul, NulInside, NulFaults, NulOutside, NulFreed
  <2>2. chars' \in [Blocks -> Nat] /\ \A c \in Blocks : chars'[c] \in 0 .. Slot[c]
    <3>1. \/ chars' = chars
          \/ /\ buffer \in live /\ NulIndex(p) < Slot[buffer]
             /\ chars' = [chars EXCEPT ![buffer] = NulIndex(p)]
      BY <2>1 DEF NulInside
    <3>2. NulIndex(p) \in Nat
      BY DEF NulIndex
    <3> HIDE DEF Typed
    <3> QED BY <3>1, <3>2, CharsType
  <2>3. ASSUME UNCHANGED <<file, ptr, len, last>>, UNCHANGED pc \/ Goto(p, "print") PROVE Typed'
    BY <1>7, <2>1, <2>2, <2>3 DEF WriteNul
  <2>4. ASSUME WriterOops(p) PROVE Typed'
    BY <1>7, <2>1, <2>2, <2>4 DEF WriterOops
  <2> QED BY <1>7, <2>3, <2>4 DEF WriteNul, NulInside, NulFaults, NulOutside, NulFreed
<1>8. CASE WritePrint(p)
  <2>1. ASSUME WriterOops(p), UNCHANGED crash PROVE Typed'
    BY <1>8, <2>1 DEF WritePrint, WriterOops
  <2>2. ASSUME ~WriterOops(p) PROVE Typed'
    BY <1>8, <2>2 DEF WritePrint
  <2> QED BY <1>8, <2>1, <2>2 DEF WritePrint
<1> QED BY <1>1, <1>2, <1>3, <1>4, <1>5, <1>6, <1>7, <1>8 DEF WriteStep

\* ... those of a read, ...
LEMMA ReadKeepsTypes ==
    ASSUME Typed, NEW p \in Procs, ReadStep(p)
    PROVE  Typed'
<1> USE SlotAssumption DEF Typed, TypeOK, Room, At, Goto, Return, Oops, heap, call, history, Busy
<1>1. CASE ReadStrlen(p)
  <2>1. /\ len' \in [Procs -> Nat] /\ ptr' \in [Procs -> Blocks \cup {NULL}]
        /\ file' \in [Procs -> BOOLEAN] /\ UNCHANGED <<kind, heap, offset, phase, history>>
        /\ crash' \in {"none", "use_after_free"} \cup {crash}
        /\ \E s \in {"dead", "idle", "copyout", "strlen"} : pc' = [pc EXCEPT ![p] = s]
    <3>1. CASE Oops(p) /\ UNCHANGED crash
      BY <1>1, <3>1 DEF ReadStrlen
    <3>2. CASE buffer \in live /\ Return(p) /\ UNCHANGED <<file, crash>>
      BY <1>1, <3>2 DEF ReadStrlen
    <3>3. CASE /\ buffer \in live /\ ptr' = [ptr EXCEPT ![p] = buffer]
               /\ len' = [len EXCEPT ![p] = chars[buffer]]
               /\ Goto(p, "copyout") /\ UNCHANGED <<file, crash>>
      BY <1>1, <3>3 DEF ReadStrlen
    <3>4. CASE crash' = "use_after_free" /\ UNCHANGED <<file, pc, ptr, len>>
      <4>1. pc' = [pc EXCEPT ![p] = "strlen"]
        BY <1>1, <3>4 DEF ReadStrlen
      <4> QED BY <1>1, <3>4, <4>1 DEF ReadStrlen
    <3> QED BY <1>1, <3>1, <3>2, <3>3, <3>4 DEF ReadStrlen
  <2>2. \A q \in Procs : Busy(q)' => file'[q]
    BY <1>1 DEF ReadStrlen
  <2>3. \A q \in Procs : pc'[q] = "copyout" => offset'[q] < len'[q]
    BY <1>1 DEF ReadStrlen, AtEnd
  <2> QED BY <1>1, <2>1, <2>2, <2>3 DEF ReadStrlen
<1>2. CASE ReadCopy(p)
  <2>1. Beyond(offset[p] + len[p]) \in Nat
    BY BeyondType
  <2>2. offset' \in [Procs -> Nat] /\ \A q \in Procs \ {p} : offset'[q] = offset[q]
    BY <1>2, <2>1 DEF ReadCopy
  <2> QED BY <1>2, <2>2 DEF ReadCopy
<1>3. CASE ReadFaults(p)  BY <1>3 DEF ReadFaults
<1> QED BY <1>1, <1>2, <1>3 DEF ReadStep

\* ... and the exit's.
LEMMA ExitKeepsTypes ==
    ASSUME Typed, Rmmod \/ ExitFrees \/ ExitReturns \/ UNCHANGED vars
    PROVE  Typed'
<1> USE DEF Typed, TypeOK, Room, heap, call, history, Busy
<1>1. CASE Rmmod           BY <1>1 DEF Rmmod
<1>2. CASE ExitFrees       BY <1>2 DEF ExitFrees
<1>3. CASE ExitReturns     BY <1>3 DEF ExitReturns
<1>4. CASE UNCHANGED vars  BY <1>4 DEF vars
<1> QED BY <1>1, <1>2, <1>3, <1>4
-----------------------------------------------------------------------------
(* The invariant, action by action.  In each proof: the order of the calls, the text, the   *)
(* block of procfs_module.c, the blocks of vmalloc.c.                                       *)

\* Opening and closing leave memory and calls alone; a loaded /dev file is closed by its exit, ...
LEMMA OpenKeeps ==
    ASSUME BufferInv, Typed', Alive', NEW p \in Procs, Open(p) \/ Close(p)
    PROVE  Sound'
<1> USE SlotAssumption DEF BufferInv, Sound, Typed, TypeOK, Open, Close, Reachable, Alive, At,
             heap, call, history, Busy, Reading, Writing
<1>1. ~overlapped' => Ordered'
  BY DEF Ordered, Owned
<1>2. ~overlapped' => MessageText'
  BY DEF Ordered, Owned, MessageText, Written, Readable, Fills
<1>3. ~overlapped' /\ kind' = "procfs" => OneBlock'
  BY DEF Ordered, Owned, OneBlock
<1>4. kind' = "vmalloc" => Leaks'
  BY DEF Leaks
<1> QED BY <1>1, <1>2, <1>3, <1>4

\* ... a write that starts while a call is on its way, or the exit, sets overlapped, ...
LEMMA WriteCallKeeps ==
    ASSUME BufferInv, Typed', Alive', NEW p \in Procs, WriteCall(p)
    PROVE  Sound'
<1> USE SlotAssumption DEF BufferInv, Sound, Typed, TypeOK, WriteCall, FirstStep, Admitted,
             Reachable, Alive, At, Goto, heap, call, history, Busy, Reading, Writing
<1>1. ~overlapped' => Ordered'
  BY DEF Ordered, Owned
<1>2. ~overlapped' => MessageText'
  BY DEF Ordered, Owned, MessageText, Written, Readable, Fills
<1>3. ~overlapped' /\ kind' = "procfs" => OneBlock'
  BY DEF Ordered, Owned, OneBlock
<1>4. kind' = "vmalloc" => Leaks'
  BY DEF Leaks
<1> QED BY <1>1, <1>2, <1>3, <1>4

\* ... and so does a read that starts while a write is on its way.
LEMMA ReadCallKeeps ==
    ASSUME BufferInv, Typed', Alive', NEW p \in Procs, ReadCall(p)
    PROVE  Sound'
<1> USE SlotAssumption DEF BufferInv, Sound, Typed, TypeOK, ReadCall, Admitted, Reachable, Alive,
             At, Goto, heap, call, history, Busy, Reading, Writing
<1>1. ~overlapped' => Ordered'
  BY DEF Ordered, Owned
<1>2. ~overlapped' => MessageText'
  BY DEF Ordered, Owned, MessageText, Written, Readable, Fills
<1>3. ~overlapped' /\ kind' = "procfs" => OneBlock'
  BY DEF Ordered, Owned, OneBlock
<1>4. kind' = "vmalloc" => Leaks'
  BY DEF Leaks
<1> QED BY <1>1, <1>2, <1>3, <1>4

\* The writer finds the block it will free: nobody else is there to free it first.
LEMMA WriteTestKeeps ==
    ASSUME BufferInv, Typed', Alive', NEW p \in Procs, WriteTest(p)
    PROVE  Sound'
<1> USE SlotAssumption DEF BufferInv, Sound, Typed, TypeOK, WriteTest, Alive, At, Goto, heap, call,
             history, Busy, Reading, Writing
<1>1. ~overlapped' => Ordered'
  BY DEF Ordered, Owned
<1>2. ~overlapped' => MessageText'
  BY DEF Ordered, Owned, MessageText, Written, Readable, Fills
<1>3. ~overlapped' /\ kind' = "procfs" => OneBlock'
  BY DEF Ordered, Owned, OneBlock
<1>4. kind' = "vmalloc" => Leaks'
  BY DEF Leaks
<1> QED BY <1>1, <1>2, <1>3, <1>4

\* So the free is the first, and for a moment procfs_module.c owns nothing.
LEMMA WriteFreeKeeps ==
    ASSUME BufferInv, Typed', Alive', NEW p \in Procs, WriteFree(p)
    PROVE  Sound'
<1> USE SlotAssumption DEF BufferInv, Sound, Typed, TypeOK, WriteFree, Alive, At, Goto, heap, call,
             history, Busy, Reading, Writing
<1>1. ~overlapped' => Ordered'
  BY DEF Ordered, Owned
<1>2. ~overlapped' => MessageText'
  BY DEF Ordered, Owned, MessageText, Written, Readable, Fills
<1>3. ~overlapped' /\ kind' = "procfs" => OneBlock'
  BY DEF Ordered, Owned, OneBlock
<1>4. kind' = "vmalloc" => Leaks'
  BY DEF Leaks
<1> QED BY <1>1, <1>2, <1>3, <1>4

\* The new block has room for the message and its terminator.
LEMMA WriteAllocKeeps ==
    ASSUME BufferInv, Typed', Alive', NEW p \in Procs, WriteAlloc(p)
    PROVE  Sound'
<1> USE SlotAssumption DEF BufferInv, Sound, Typed, TypeOK, WriteAlloc, Fits, Alive, At, Goto,
             heap, call, history, Busy, Reading, Writing
<1>1. ~overlapped' => Ordered'
  BY DEF Ordered, Owned
<1>2. ~overlapped' => MessageText'
  BY DEF Ordered, Owned, MessageText, Written, Readable, Fills
<1>3. ~overlapped' /\ kind' = "procfs" => OneBlock'
  BY DEF Ordered, Owned, OneBlock
<1>4. kind' = "vmalloc" => Leaks'
  BY DEF Leaks
<1> QED BY <1>1, <1>2, <1>3, <1>4

\* A failed allocation leaves NULL in the variable and procfs_module.c without a block.
LEMMA WriteAllocFailsKeeps ==
    ASSUME BufferInv, Typed', Alive', NEW p \in Procs, WriteAllocFails(p)
    PROVE  Sound'
<1> USE SlotAssumption DEF BufferInv, Sound, Typed, TypeOK, WriteAllocFails, NoMessage, Return,
             Alive, At, Goto, heap, call, history, Busy, Reading, Writing
<1>1. ~overlapped' => Ordered'
  BY DEF Ordered, Owned
<1>2. ~overlapped' => MessageText'
  BY DEF Ordered, Owned, MessageText, Written, Readable, Fills
<1>3. ~overlapped' /\ kind' = "procfs" => OneBlock'
  BY DEF Ordered, Owned, OneBlock
<1>4. kind' = "vmalloc" => Leaks'
  BY DEF Leaks
<1> QED BY <1>1, <1>2, <1>3, <1>4

\* The copy goes to the block of the variable, and leaves what lies behind it.
LEMMA WriteCopyKeeps ==
    ASSUME BufferInv, Typed', Alive', NEW p \in Procs, WriteCopy(p)
    PROVE  Sound'
<1> USE SlotAssumption DEF BufferInv, Sound, Typed, TypeOK, WriteCopy, Room, Alive, At, Goto, heap,
             call, history, Busy, Reading, Writing
<1>1. ~overlapped' => Ordered'
  BY DEF Ordered, Owned
<1>2. ~overlapped' => MessageText'
  BY DEF Ordered, Owned, MessageText, Written, Readable, Fills
<1>3. ~overlapped' /\ kind' = "procfs" => OneBlock'
  BY DEF Ordered, Owned, OneBlock
<1>4. kind' = "vmalloc" => Leaks'
  BY DEF Leaks
<1> QED BY <1>1, <1>2, <1>3, <1>4

\* A copy that faults leaves less than was asked for.
LEMMA WriteFaultsKeeps ==
    ASSUME BufferInv, Typed', Alive', NEW p \in Procs, WriteFaults(p)
    PROVE  Sound'
<1> USE SlotAssumption DEF BufferInv, Sound, Typed, TypeOK, WriteFaults, Room, Return, Alive, At,
             Goto, heap, call, history, Busy, Reading, Writing
<1>1. ~overlapped' => Ordered'
  BY DEF Ordered, Owned
<1>2. ~overlapped' => MessageText'
  BY DEF Ordered, Owned, MessageText, Written, Readable, Fills
<1>3. ~overlapped' /\ kind' = "procfs" => OneBlock'
  BY DEF Ordered, Owned, OneBlock
<1>4. kind' = "vmalloc" => Leaks'
  BY DEF Leaks
<1> QED BY <1>1, <1>2, <1>3, <1>4

\* The terminator one byte too far cuts what lies behind the message to one byte; behind a
\* message that fills its block it kills the writer of vmalloc.c, or lands in memory of nobody.
LEMMA WriteNulKeeps ==
    ASSUME BufferInv, Typed', Alive', NEW p \in Procs, WriteNul(p)
    PROVE  Sound'
<1> USE SlotAssumption DEF BufferInv, Sound, Typed, TypeOK, NulIndex, Alive, At, Goto, heap,
             call, history, Busy, Reading, Writing
<1>1. /\ UNCHANGED <<kind, buffer, live, offset, phase, overlapped, crash>>
      /\ pc[p] = "nul" /\ Alive
  BY DEF WriteNul, NulInside, NulFaults, NulOutside, NulFreed, WriterOops, Oops
<1>2. ASSUME NulInside(p) \/ NulOutside(p), UNCHANGED crash PROVE Sound'
  <2>1. pc' = [pc EXCEPT ![p] = "print"] /\ UNCHANGED <<file, ptr, len, last>>
    BY <1>1, <1>2 DEF NulInside, NulOutside
  <2>2. ~overlapped' => Ordered'
    BY <1>1, <2>1 DEF Ordered, Owned
  <2>3. ~overlapped' /\ kind' = "procfs" => OneBlock'
    BY <1>1, <2>1 DEF Ordered, Owned, OneBlock
  <2>4. kind' = "vmalloc" => Leaks'
    BY <1>1, <2>1 DEF Leaks
  <2>5. ASSUME ~overlapped, phase = "loaded" PROVE MessageText'
    <3>1. /\ buffer # NULL /\ buffer \in live /\ buffer \in Blocks
          /\ Slot[buffer] \in Nat /\ len[p] + 1 <= Slot[buffer]
          /\ chars[buffer] \in {len[p], Slot[buffer]}
          /\ \A q \in Procs : Writing(q) => q = p
      BY <1>1, <2>5 DEF Ordered, Owned, MessageText, Written
    <3>2. CASE NulInside(p)
      <4>1. chars'[buffer] \in {len[p], len[p] + 1} /\ chars'[buffer] < Slot[buffer]
        BY <3>1, <3>2 DEF NulInside
      <4>2. ~Fills(len[p])
        BY <3>1, <3>2 DEF NulInside, Fills
      <4> QED BY <1>1, <2>1, <3>1, <4>1, <4>2 DEF MessageText, Written, Fills
    <3>3. CASE NulOutside(p)
      <4>1. kind = "procfs" /\ chars' = chars /\ Slot[buffer] = len[p] + 1
        BY <3>1, <3>3, KindAssumption DEF NulOutside
      <4> QED BY <1>1, <2>1, <3>1, <4>1 DEF MessageText, Written, Fills
    <3> QED BY <1>2, <3>2, <3>3
  <2>6. phase # "loaded" => MessageText'
    BY <1>1 DEF MessageText
  <2> QED BY <1>1, <2>2, <2>3, <2>4, <2>5, <2>6
<1>3. ASSUME NulFaults(p) PROVE Sound'
  <2>1. /\ pc' = [pc EXCEPT ![p] = "dead"] /\ ptr' = [ptr EXCEPT ![p] = NULL]
        /\ len' = [len EXCEPT ![p] = 0] /\ file' = [file EXCEPT ![p] = FALSE]
        /\ last' = [end |-> "oops", len |-> len[p]] /\ chars' = chars
    BY <1>3 DEF NulFaults, WriterOops, Oops
  <2>2. ~overlapped' => Ordered'
    BY <1>1, <2>1 DEF Ordered, Owned
  <2>3. ~overlapped' /\ kind' = "procfs" => OneBlock'
    BY <1>1, <2>1 DEF Ordered, Owned, OneBlock
  <2>4. kind' = "vmalloc" => Leaks'
    BY <1>1, <2>1 DEF Leaks
  <2>5. ASSUME ~overlapped, phase = "loaded" PROVE MessageText'
    <3>1. /\ buffer # NULL /\ buffer \in live /\ buffer \in Blocks
          /\ Slot[buffer] \in Nat /\ len[p] + 1 <= Slot[buffer]
          /\ chars[buffer] \in {len[p], Slot[buffer]}
          /\ \A q \in Procs : Writing(q) => q = p
      BY <1>1, <2>5 DEF Ordered, Owned, MessageText, Written
    <3>2. kind = "vmalloc" /\ Slot[buffer] = len[p] + 1
      BY <1>3, <3>1 DEF NulFaults
    <3>3. Readable'
      BY <1>1, <2>1, <3>1, <3>2 DEF Readable, Fills
    <3>4. \A q \in Procs : Written(q)'
      BY <1>1, <2>1, <3>1 DEF Written
    <3> QED BY <1>1, <3>1, <3>3, <3>4 DEF MessageText
  <2>6. phase # "loaded" => MessageText'
    BY <1>1 DEF MessageText
  <2> QED BY <1>1, <2>2, <2>3, <2>4, <2>5, <2>6
<1> QED BY <1>1, <1>2, <1>3 DEF WriteNul, NulFreed

\* What the write leaves is the message that is now kept, and my_write measures it safely.
LEMMA WritePrintKeeps ==
    ASSUME BufferInv, Typed', Alive', NEW p \in Procs, WritePrint(p)
    PROVE  Sound'
<1> USE SlotAssumption DEF BufferInv, Sound, Typed, TypeOK, Alive, At, Goto, heap, call,
             history, Busy, Reading, Writing
<1>1. /\ UNCHANGED <<kind, heap, offset, phase, overlapped, crash>>
      /\ pc[p] = "print" /\ Alive
      /\ \E s \in {"idle", "dead"} : pc' = [pc EXCEPT ![p] = s]
      /\ ptr' = [ptr EXCEPT ![p] = NULL] /\ len' = [len EXCEPT ![p] = 0]
      /\ file' = file \/ file' = [file EXCEPT ![p] = FALSE]
  BY DEF WritePrint, WriterOops, Oops, Return
<1>2. ~overlapped' => Ordered'
  BY <1>1 DEF Ordered, Owned
<1>3. ~overlapped' /\ kind' = "procfs" => OneBlock'
  BY <1>1 DEF Ordered, Owned, OneBlock
<1>4. kind' = "vmalloc" => Leaks'
  BY <1>1 DEF Leaks
<1>5. ASSUME ~overlapped, phase = "loaded" PROVE MessageText'
  <2>1. /\ buffer # NULL /\ buffer \in live /\ buffer \in Blocks
        /\ chars[buffer] \in {len[p], len[p] + 1}
        /\ chars[buffer] = Slot[buffer] => Fills(len[p])
        /\ Fills(len[p]) => kind = "procfs"
        /\ \A q \in Procs : Writing(q) => q = p
    BY <1>1, <1>5 DEF Ordered, Owned, MessageText, Written
  <2>2. ~(kind = "vmalloc" /\ StrlenFaults)
    BY <2>1 DEF StrlenFaults
  <2>3. last' = [end |-> "kept", len |-> len[p]]
    BY <2>2 DEF WritePrint
  <2>4. Readable'
    BY <1>1, <2>1, <2>3, KindAssumption DEF Readable, Fills
  <2>5. \A q \in Procs : Written(q)'
    BY <1>1, <2>1 DEF Written
  <2> QED BY <1>1, <2>1, <2>4, <2>5 DEF MessageText
<1>6. phase # "loaded" => MessageText'
  BY <1>1 DEF MessageText
<1> QED BY <1>1, <1>2, <1>3, <1>4, <1>5, <1>6

\* A read changes no memory; no write frees the block it measures, ...
LEMMA ReadStrlenKeeps ==
    ASSUME BufferInv, Typed', Alive', NEW p \in Procs, ReadStrlen(p)
    PROVE  Sound'
<1> USE SlotAssumption DEF BufferInv, Sound, Typed, TypeOK, ReadStrlen, AtEnd, Oops, Return, Alive,
             At, Goto, heap, call, history, Busy, Reading, Writing
<1>1. ~overlapped' => Ordered'
  BY DEF Ordered, Owned
<1>2. ~overlapped' => MessageText'
  BY DEF Ordered, Owned, MessageText, Written, Readable, Fills
<1>3. ~overlapped' /\ kind' = "procfs" => OneBlock'
  BY DEF Ordered, Owned, OneBlock
<1>4. kind' = "vmalloc" => Leaks'
  BY DEF Leaks
<1> QED BY <1>1, <1>2, <1>3, <1>4

\* ... or replaces it before it is copied out.
LEMMA ReadCopyKeeps ==
    ASSUME BufferInv, Typed', Alive', NEW p \in Procs, ReadCopy(p) \/ ReadFaults(p)
    PROVE  Sound'
<1> USE SlotAssumption DEF BufferInv, Sound, Typed, TypeOK, ReadCopy, ReadFaults, Return, Alive,
             At, Goto, heap, call, history, Busy, Reading, Writing
<1>1. ~overlapped' => Ordered'
  BY DEF Ordered, Owned
<1>2. ~overlapped' => MessageText'
  BY DEF Ordered, Owned, MessageText, Written, Readable, Fills
<1>3. ~overlapped' /\ kind' = "procfs" => OneBlock'
  BY DEF Ordered, Owned, OneBlock
<1>4. kind' = "vmalloc" => Leaks'
  BY DEF Leaks
<1> QED BY <1>1, <1>2, <1>3, <1>4

\* The exit of vmalloc.c starts with the file closed, that of procfs_module.c has
\* overlapped a call or runs with none, ...
LEMMA RmmodKeeps ==
    ASSUME BufferInv, Typed', Alive', Rmmod
    PROVE  Sound'
<1> USE SlotAssumption DEF BufferInv, Sound, Typed, TypeOK, Rmmod, Unloadable, Alive, heap, call,
             history, Busy, Reading, Writing
<1>1. ~overlapped' => Ordered'
  BY DEF Ordered, Owned
<1>2. ~overlapped' => MessageText'
  BY DEF Ordered, Owned, MessageText, Written, Readable, Fills
<1>3. ~overlapped' /\ kind' = "procfs" => OneBlock'
  BY DEF Ordered, Owned, OneBlock
<1>4. kind' = "vmalloc" => Leaks'
  BY DEF Leaks
<1> QED BY <1>1, <1>2, <1>3, <1>4

\* ... and frees the block of the variable, which nobody has freed.
LEMMA ExitKeeps ==
    ASSUME BufferInv, Typed', Alive', ExitFrees \/ ExitReturns
    PROVE  Sound'
<1> USE SlotAssumption DEF BufferInv, Sound, Typed, TypeOK, ExitFrees, ExitReturns, Alive, heap,
             call, history, Busy, Reading, Writing
<1>1. ~overlapped' => Ordered'
  BY DEF Ordered, Owned
<1>2. ~overlapped' => MessageText'
  BY DEF Ordered, Owned, MessageText, Written, Readable, Fills
<1>3. ~overlapped' /\ kind' = "procfs" => OneBlock'
  BY DEF Ordered, Owned, OneBlock
<1>4. kind' = "vmalloc" => Leaks'
  BY DEF Leaks
<1> QED BY <1>1, <1>2, <1>3, <1>4

\* At insmod there is no message and no block.
LEMMA InitKeeps == Init => BufferInv
<1> SUFFICES ASSUME Init PROVE BufferInv
  OBVIOUS
<1>1. Typed
  BY InitTypes
<1> USE DEF Init, Busy, Reading, Writing
<1>2. Ordered
  BY DEF Ordered, Owned
<1>3. MessageText
  BY DEF MessageText, NoMessage
<1>4. OneBlock
  BY DEF OneBlock
<1>5. Leaks
  BY DEF Leaks
<1> QED BY <1>1, <1>2, <1>3, <1>4, <1>5 DEF BufferInv, Sound

\* Every step keeps the invariant.
LEMMA StepKeeps == BufferInv /\ [Next]_vars => BufferInv'
<1> SUFFICES ASSUME BufferInv, [Next]_vars PROVE BufferInv'
  OBVIOUS
<1>0. Typed
  BY DEF BufferInv
<1>1. Typed'
  <2>1. ASSUME NEW p \in Procs, Open(p) \/ Close(p) \/ WriteCall(p) \/ ReadCall(p) PROVE Typed'
    BY <1>0, <2>1, FileKeepsTypes
  <2>2. ASSUME NEW p \in Procs, WriteStep(p) PROVE Typed'
    BY <1>0, <2>2, WriteKeepsTypes
  <2>3. ASSUME NEW p \in Procs, ReadStep(p) PROVE Typed'
    BY <1>0, <2>3, ReadKeepsTypes
  <2>4. ASSUME Rmmod \/ ExitFrees \/ ExitReturns \/ UNCHANGED vars PROVE Typed'
    BY <1>0, <2>4, ExitKeepsTypes
  <2> QED BY <2>1, <2>2, <2>3, <2>4 DEF Next
<1> SUFFICES ASSUME Alive' PROVE Sound'
  BY <1>1 DEF BufferInv
<1>2. ASSUME NEW p \in Procs, Open(p) \/ Close(p) \/ WriteCall(p) \/ ReadCall(p) PROVE Sound'
  BY <1>1, <1>2, OpenKeeps, WriteCallKeeps, ReadCallKeeps
<1>3. ASSUME NEW p \in Procs, WriteStep(p) PROVE Sound'
  BY <1>1, <1>3, WriteTestKeeps, WriteFreeKeeps, WriteAllocKeeps, WriteAllocFailsKeeps,
     WriteCopyKeeps, WriteFaultsKeeps, WriteNulKeeps, WritePrintKeeps DEF WriteStep
<1>4. ASSUME NEW p \in Procs, ReadStep(p) PROVE Sound'
  BY <1>1, <1>4, ReadStrlenKeeps, ReadCopyKeeps DEF ReadStep
<1>5. ASSUME Rmmod \/ ExitFrees \/ ExitReturns PROVE Sound'
  BY <1>1, <1>5, RmmodKeeps, ExitKeeps
<1>6. ASSUME UNCHANGED vars PROVE Sound'
  BY <1>6 DEF vars, BufferInv, Sound, Alive, Ordered, Owned, MessageText, Written, Readable,
              Fills, OneBlock, Leaks, Busy, Reading, Writing
<1> QED BY <1>2, <1>3, <1>4, <1>5, <1>6 DEF Next

\* The invariant holds whatever the processes, the blocks and the messages.
THEOREM BufferInductive == Spec => []BufferInv
<1>1. Init => BufferInv
  BY InitKeeps
<1>2. BufferInv /\ [Next]_vars => BufferInv'
  BY StepKeeps
<1> QED BY <1>1, <1>2, PTL DEF Spec

-----------------------------------------------------------------------------
(* What follows *)

\* Every variable has its type; a process in a call has its file open.
THEOREM BufferTypes == Spec => []TypeOK
<1>1. BufferInv => TypeOK
  BY DEF BufferInv, Typed
<1> QED BY <1>1, BufferInductive, PTL

\* While it is not yet over, a call that no write and no exit has overlapped finds the
\* block of the variable.
LEMMA FindsItsBlock ==
    ASSUME BufferInv, Alive, ~overlapped
    PROVE  /\ \A p \in Procs : pc[p] \in {"free", "copy", "nul", "print", "copyout"} =>
                                   ptr[p] = buffer /\ buffer \in live
           /\ \A p \in Procs : pc[p] = "strlen" => buffer \in live \cup {NULL}
           /\ phase = "exit" => buffer \in live \cup {NULL}
<1> USE DEF BufferInv, Sound, Ordered, Owned, Busy, Reading, Writing, Typed, TypeOK
<1>1. \A p \in Procs : pc[p] \in {"free", "copy", "nul", "print", "copyout"} =>
                           ptr[p] = buffer /\ buffer \in live
  OBVIOUS
<1>2. \A p \in Procs : pc[p] = "strlen" => buffer \in live \cup {NULL}
  OBVIOUS
<1>3. phase = "exit" => buffer \in live \cup {NULL}
  OBVIOUS
<1> QED BY <1>1, <1>2, <1>3

\* Only a step of a call that holds on to a block, strlen and the exit misuse memory; they
\* change nothing else that counts.
LEMMA WhoMisuses ==
    ASSUME Typed, [Next]_vars, crash' # crash
    PROVE  /\ UNCHANGED <<overlapped, kind>> /\ Alive
           /\ \/ crash' # "overrun" /\ phase = "exit" /\ buffer \in Blocks \ live
              \/ \E p \in Procs :
                    \/ crash' # "overrun" /\ pc[p] \in {"free", "copy"} /\ ptr[p] \notin live
                    \/ /\ crash' # "overrun" /\ pc[p] \in {"nul", "print", "copyout"}
                       /\ \E b \in {ptr[p], buffer} \ {NULL} : b \notin live
                    \/ crash' # "overrun" /\ pc[p] = "strlen" /\ buffer \in Blocks \ live
                    \/ /\ crash' = "overrun" /\ pc[p] = "nul" /\ buffer \in live
                       /\ NulIndex(p) >= Slot[buffer] + (IF kind = "vmalloc" THEN 1 ELSE 0)
<1> USE SlotAssumption DEF At, Alive, heap, call, history
<1>1. ASSUME NEW p \in Procs, Open(p) \/ Close(p) \/ WriteCall(p) \/ ReadCall(p) PROVE FALSE
  BY <1>1 DEF Open, Close, WriteCall, ReadCall
<1>2. ASSUME NEW p \in Procs, WriteTest(p) \/ WriteAlloc(p) \/ WriteAllocFails(p) \/ ReadFaults(p)
      PROVE  FALSE
  BY <1>2 DEF WriteTest, WriteAlloc, WriteAllocFails, ReadFaults
<1> DEFINE Held(p) ==
        \/ crash' # "overrun" /\ pc[p] \in {"free", "copy"} /\ ptr[p] \notin live
        \/ /\ crash' # "overrun" /\ pc[p] \in {"nul", "print", "copyout"}
           /\ \E b \in {ptr[p], buffer} \ {NULL} : b \notin live
           Kept == UNCHANGED <<overlapped, kind>> /\ Alive
<1>3. ASSUME NEW p \in Procs, WriteFree(p) PROVE Kept /\ Held(p)
  BY <1>3 DEF WriteFree
<1>4. ASSUME NEW p \in Procs, WriteCopy(p) PROVE Kept /\ Held(p)
  BY <1>4 DEF WriteCopy
<1>5. ASSUME NEW p \in Procs, WriteFaults(p) PROVE Kept /\ Held(p)
  BY <1>5 DEF WriteFaults
<1>6. ASSUME NEW p \in Procs, WritePrint(p) PROVE Kept /\ Held(p)
  BY <1>6 DEF WritePrint
<1>7. ASSUME NEW p \in Procs, ReadCopy(p) PROVE Kept /\ Held(p)
  BY <1>7 DEF ReadCopy
<1>8. ASSUME NEW p \in Procs, ReadStrlen(p)
      PROVE  Kept /\ crash' # "overrun" /\ pc[p] = "strlen" /\ buffer \in Blocks \ live
  BY <1>8 DEF ReadStrlen
<1>9. ASSUME NEW p \in Procs, WriteNul(p)
      PROVE  /\ Kept
             /\ \/ Held(p)
                \/ /\ crash' = "overrun" /\ pc[p] = "nul" /\ buffer \in live
                   /\ NulIndex(p) >= Slot[buffer] + (IF kind = "vmalloc" THEN 1 ELSE 0)
  BY <1>9 DEF WriteNul, NulInside, NulFaults, NulOutside, NulFreed
<1>10. ASSUME ExitFrees
       PROVE  Kept /\ crash' # "overrun" /\ phase = "exit" /\ buffer \in Blocks \ live
  BY <1>10 DEF ExitFrees
<1>11. ASSUME Rmmod \/ ExitReturns \/ UNCHANGED vars PROVE FALSE
  BY <1>11 DEF Rmmod, ExitReturns, vars
<1> QED BY <1>1, <1>2, <1>3, <1>4, <1>5, <1>6, <1>7, <1>8, <1>9, <1>10, <1>11
        DEF Next, WriteStep, ReadStep

\* A process is killed in the three steps that dereference the variable.
LEMMA WhoDies ==
    ASSUME [Next]_vars, NEW p \in Procs, pc[p] # "dead", pc'[p] = "dead", Typed
    PROVE  /\ UNCHANGED <<overlapped, kind>> /\ Alive
           /\ \/ pc[p] = "nul" /\ NulFaults(p)
              \/ pc[p] = "print" /\ kind = "vmalloc" /\ StrlenFaults
              \/ pc[p] = "strlen" /\ StrlenFaults /\ last' = last
<1> USE DEF At, Alive, Goto, heap, call, history, Typed, TypeOK
<1> DEFINE Goal(q) ==
        /\ UNCHANGED <<overlapped, kind>> /\ Alive
        /\ \/ pc[q] = "nul" /\ NulFaults(q)
           \/ pc[q] = "print" /\ kind = "vmalloc" /\ StrlenFaults
           \/ pc[q] = "strlen" /\ StrlenFaults /\ last' = last
<1>1. ASSUME NEW q \in Procs, Open(q) \/ Close(q) \/ WriteCall(q) \/ ReadCall(q) PROVE FALSE
  BY <1>1 DEF Open, Close, WriteCall, ReadCall, FirstStep
<1>2. ASSUME NEW q \in Procs, WriteTest(q) \/ WriteFree(q) \/ WriteAlloc(q) \/ WriteAllocFails(q)
      PROVE  FALSE
  BY <1>2 DEF WriteTest, WriteFree, WriteAlloc, WriteAllocFails, Return
<1>3. ASSUME NEW q \in Procs, WriteCopy(q) \/ WriteFaults(q) \/ ReadCopy(q) \/ ReadFaults(q)
      PROVE  FALSE
  BY <1>3 DEF WriteCopy, WriteFaults, ReadCopy, ReadFaults, Return
<1>4. ASSUME NEW q \in Procs, WriteNul(q) PROVE q = p /\ Goal(q)
  BY <1>4 DEF WriteNul, NulInside, NulFaults, NulOutside, NulFreed, WriterOops, Oops
<1>5. ASSUME NEW q \in Procs, WritePrint(q) PROVE q = p /\ Goal(q)
  BY <1>5 DEF WritePrint, WriterOops, Oops, Return
<1>6. ASSUME NEW q \in Procs, ReadStrlen(q) PROVE q = p /\ Goal(q)
  BY <1>6 DEF ReadStrlen, Oops, Return
<1>7. ASSUME Rmmod \/ ExitFrees \/ ExitReturns \/ UNCHANGED vars PROVE FALSE
  BY <1>7 DEF Rmmod, ExitFrees, ExitReturns, vars
<1> QED BY <1>1, <1>2, <1>3, <1>4, <1>5, <1>6, <1>7 DEF Next, WriteStep, ReadStep

\* Freed memory is touched by procfs_module.c only, and only after calls overlapped; other
\* memory is written, and a process dies, after that or where a message fills its block, or
\* where it reads no message.
THEOREM MisuseIsExplained == Spec => MisuseExplained
<1> DEFINE Death(p) == \/ overlapped'
                       \/ Reading(p) /\ buffer = NULL /\ last.end = "none"
                       \/ kind = "vmalloc" /\ Fills(last'.len) /\ last'.end = "oops"
<1>1. ASSUME BufferInv, [Next]_vars, crash' # crash
      PROVE  /\ overlapped' \/ \E p \in Procs : pc[p] = "nul" /\ Fills(len[p])
             /\ crash' # "overrun" => overlapped' /\ kind = "procfs"
  <2>1. Typed /\ Sound
    BY <1>1, WhoMisuses DEF BufferInv
  <2>2. ASSUME crash' # "overrun", ~overlapped PROVE FALSE
    BY <1>1, <2>1, <2>2, WhoMisuses, FindsItsBlock, SlotAssumption
  <2>3. ASSUME crash' # "overrun", kind = "vmalloc" PROVE FALSE
    <3>1. ASSUME NEW p \in Procs, Busy(p)
          PROVE  /\ ptr[p] \in live \cup {NULL} /\ buffer \in live \cup {NULL}
                 /\ pc[p] # "free" /\ (pc[p] = "copy" => ptr[p] # NULL)
      BY <2>1, <2>3, <3>1 DEF Sound, Leaks, Typed, TypeOK
    <3>2. phase = "exit" => buffer \in live \cup {NULL}
      BY <2>1, <2>3 DEF Sound, Leaks
    <3> QED BY <1>1, <2>1, <2>3, <3>1, <3>2, WhoMisuses, SlotAssumption DEF Busy
  <2>4. ASSUME crash' = "overrun", ~overlapped
        PROVE  \E p \in Procs : pc[p] = "nul" /\ Fills(len[p])
    <3>1. PICK p \in Procs : /\ pc[p] = "nul" /\ buffer \in live
                             /\ NulIndex(p) >= Slot[buffer] + (IF kind = "vmalloc" THEN 1 ELSE 0)
      BY <1>1, <2>1, <2>4, WhoMisuses
    <3>2. /\ buffer # NULL /\ len[p] + 1 <= Slot[buffer] /\ Slot[buffer] \in Nat
          /\ len[p] \in Nat
      BY <2>1, <2>4, <3>1, SlotAssumption
         DEF Sound, Ordered, MessageText, Written, Typed, TypeOK, Busy, Reading, Writing
    <3> QED BY <3>1, <3>2 DEF NulIndex, Fills
  <2>5. kind \in {"procfs", "vmalloc"}
    BY <2>1, KindAssumption DEF Typed, TypeOK
  <2> QED BY <1>1, <2>1, <2>2, <2>3, <2>4, <2>5, WhoMisuses
<1>2. ASSUME BufferInv, [Next]_vars, NEW p \in Procs, pc[p] # "dead", pc'[p] = "dead"
      PROVE  Death(p)
  <2> SUFFICES ASSUME ~overlapped' PROVE Death(p)
    OBVIOUS
  <2>1. Typed /\ Sound /\ ~overlapped /\ Alive
    BY <1>2, WhoDies DEF BufferInv
  <2>2. Busy(p) => phase = "loaded"
    BY <1>2, <2>1 DEF Sound, Ordered, Typed, TypeOK
  <2>3. ASSUME pc[p] = "nul", NulFaults(p) PROVE Death(p)
    <3>1. /\ buffer # NULL /\ buffer \in Blocks /\ len[p] + 1 <= Slot[buffer]
          /\ Slot[buffer] \in Nat /\ len[p] \in Nat
      BY <2>1, <2>2, <2>3, SlotAssumption
         DEF Sound, Ordered, MessageText, Written, Typed, TypeOK, Busy, Reading, Writing
    <3>2. kind = "vmalloc" /\ NulIndex(p) >= Slot[buffer]
          /\ last' = [end |-> "oops", len |-> len[p]]
      BY <2>3, <3>1 DEF NulFaults, WriterOops
    <3> QED BY <3>1, <3>2 DEF NulIndex, Fills
  <2>4. ASSUME pc[p] = "print", kind = "vmalloc", StrlenFaults PROVE FALSE
    BY <2>1, <2>2, <2>4
       DEF Sound, Ordered, MessageText, Written, StrlenFaults, Busy, Reading, Writing
  <2>5. ASSUME pc[p] = "strlen", StrlenFaults, last' = last PROVE Death(p)
    <3>1. /\ phase = "loaded" /\ \A q \in Procs : ~Writing(q)
      BY <2>1, <2>2, <2>5 DEF Sound, Ordered, Busy, Reading, Writing
    <3>2. CASE buffer = NULL
      BY <2>1, <2>5, <3>1, <3>2 DEF Sound, MessageText, Reading
    <3>3. CASE buffer # NULL
      <4>1. kind = "vmalloc" /\ chars[buffer] = Slot[buffer] /\ Readable
        BY <2>1, <2>5, <3>1, <3>3 DEF Sound, MessageText, StrlenFaults
      <4>2. buffer \in Blocks /\ Slot[buffer] \in Nat /\ last.len \in Nat
        BY <2>1, <3>3, SlotAssumption DEF Typed, TypeOK
      <4> QED BY <2>5, <4>1, <4>2 DEF Readable
    <3> QED BY <3>2, <3>3
  <2> QED BY <1>2, <2>1, <2>3, <2>4, <2>5, WhoDies
<1> DEFINE Step == /\ crash' # crash => overlapped' \/ \E p \in Procs : pc[p] = "nul" /\ Fills(len[p])
                   /\ crash' # crash /\ crash' # "overrun" => overlapped' /\ kind = "procfs"
                   /\ \A p \in Procs : pc[p] # "dead" /\ pc'[p] = "dead" => Death(p)
<1>3. BufferInv /\ [Next]_vars => [Step]_vars
  BY <1>1, <1>2
<1>4. (Spec => [][Step]_vars) <=> (Spec => MisuseExplained)
  BY DEF MisuseExplained
<1> HIDE DEF Step
<1> QED BY <1>3, <1>4, BufferInductive, PTL DEF Spec

\* A message is read back with at most one byte too many, or its writer died of it because
\* it fills its block; one whose copy faulted is cut short.
THEOREM MessageIsRead == Spec => []MessageRead
<1>1. BufferInv => MessageRead
  <2> SUFFICES ASSUME BufferInv, Quiet, phase = "loaded", buffer # NULL, Alive
               PROVE  Readable
    BY DEF MessageRead, Readable
  <2> QED BY DEF BufferInv, Sound, MessageText, Quiet
<1> QED BY <1>1, BufferInductive, PTL

\* Between calls that do not overlap, procfs_module.c holds its one block, and none after
\* hello_exit.
THEOREM HeapIsAccounted == Spec => []HeapAccounted
<1>1. BufferInv => HeapAccounted
  BY DEF BufferInv, Sound, OneBlock, HeapAccounted, Quiet, Writing, Busy, Reading
<1> QED BY <1>1, BufferInductive, PTL
=============================================================================
