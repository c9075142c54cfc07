----------------------------- MODULE CharBuffer -----------------------------
(***************************************************************************)
(* The message buffer that most drivers of the repository share: a static *)
(* char device_buffer[BUFF_SIZE] that my_write fills and my_read returns,  *)
(* without any lock.  The two functions have the same text in the drivers  *)
(* of labs 10 to 24; the mapped copies are those of k_mutex_module-12 and  *)
(* k_spinlocks_module-15.                                                  *)
(*                                                                         *)
(* Calls of different processes interleave at every access of the buffer:  *)
(* copy_from_user and copy_to_user move one byte per step, strlen looks at *)
(* one byte per step.                                                      *)
(***************************************************************************)
EXTENDS Integers, Sequences

CONSTANTS
    Size,       \* BUFF_SIZE (1024 in the code)
    Chars,      \* the bytes a user may write, NUL not among them
    NUL,        \* '\0'
    Writers,    \* processes that call write(2)
    Readers,    \* processes that call read(2), each with its own open file
    Slack,      \* how far past the array an unterminated strlen may run
    Unknown     \* "no call sequence determines the message"

ASSUME SizeAssumption  == Size \in Nat \ {0}
ASSUME SlackAssumption == Slack \in Nat
ASSUME NulAssumption   == NUL \notin Chars
ASSUME UserAssumption  == Writers \cap Readers = {}

VARIABLES
    buffer,   \* device_buffer
    wpc,      \* writer: "idle", "copy" (in copy_from_user) or "term"
    to_copy,  \* writer: the local to_copy
    copied,   \* writer: bytes copy_from_user has stored so far
    byte,     \* writer: the byte its message consists of
    rpc,      \* reader: "idle", "strlen", "check", "nul" or "copy"
    length,   \* reader: the local length; during strlen the index it looks at
    out,      \* reader: bytes copy_to_user has delivered so far
    offset,   \* reader: *offset, the position of its open file
    sess,     \* reader: "closed", "reading" (until end of file) or "eof"
    mixed,    \* history: a write overlapped this call (for a write: any call)
    lastMsg   \* history: the message the finished calls determine

writerVars == <<wpc, to_copy, copied, byte>>
readerVars == <<rpc, length, out, offset, sess>>
vars == <<buffer, wpc, to_copy, copied, byte, rpc, length, out, offset, sess,
          mixed, lastMsg>>

Users == Writers \cup Readers
Index == 0 .. Size - 1
Bytes == Chars \cup {NUL}

\* device_buffer as the C string it is taken for.
Message ==
    LET k == CHOOSE k \in 0 .. Size :
                 /\ \A j \in 0 .. k - 1 : buffer[j] # NUL
                 /\ k < Size => buffer[k] = NUL
    IN  [j \in 1 .. k |-> buffer[j - 1]]

\* The string left by k bytes b in front of a NUL.
StringOf(b, k) == IF b = NUL THEN <<>> ELSE [j \in 1 .. k |-> b]

\* The buffer after device_buffer[k] = '\0'; past the array it does not change.
StoreNul(k) == [j \in Index |-> IF j = k THEN NUL ELSE buffer[j]]

Writing(w) == wpc[w] # "idle"
Reading(r) == rpc[r] # "idle"

Init ==
    /\ buffer = [j \in Index |-> NUL]
    /\ wpc = [w \in Writers |-> "idle"]
    /\ to_copy = [w \in Writers |-> 0]
    /\ copied = [w \in Writers |-> 0]
    /\ byte = [w \in Writers |-> NUL]
    /\ rpc = [r \in Readers |-> "idle"]
    /\ length = [r \in Readers |-> 0]
    /\ out = [r \in Readers |-> <<>>]
    /\ offset = [r \in Readers |-> 0]
    /\ sess = [r \in Readers |-> "closed"]
    /\ mixed = [u \in Users |-> FALSE]
    /\ lastMsg = <<>>

-----------------------------------------------------------------------------
(* my_write *)

\* to_copy: a longer write is cut to BUFF_SIZE bytes.
ToCopy(len) == IF len > Size THEN Size ELSE len

\* write(2) enters my_write.
WriteCall(w, len, b) ==
    /\ wpc[w] = "idle"
    /\ wpc' = [wpc EXCEPT ![w] = "copy"]
    /\ to_copy' = [to_copy EXCEPT ![w] = ToCopy(len)]
    /\ copied' = [copied EXCEPT ![w] = 0]
    /\ byte' = [byte EXCEPT ![w] = b]
    /\ mixed' = [u \in Users |->
                   IF u = w
                   THEN \/ \E x \in Writers \ {w} : Writing(x)
                        \/ \E r \in Readers : Reading(r)
                   ELSE \/ mixed[u]
                        \/ u \in Writers /\ Writing(u)
                        \/ u \in Readers /\ Reading(u)]
    /\ lastMsg' = Unknown
    /\ UNCHANGED <<buffer, readerVars>>

\* copy_from_user stores the next byte.
CopyIn(w) ==
    /\ wpc[w] = "copy"
    /\ copied[w] < to_copy[w]
    /\ buffer' = [buffer EXCEPT ![copied[w]] = byte[w]]
    /\ copied' = [copied EXCEPT ![w] = @ + 1]
    /\ UNCHANGED <<wpc, to_copy, byte, readerVars, mixed, lastMsg>>

CopyInDone(w) ==
    /\ wpc[w] = "copy"
    /\ copied[w] = to_copy[w]
    /\ wpc' = [wpc EXCEPT ![w] = "term"]
    /\ UNCHANGED <<buffer, to_copy, copied, byte, readerVars, mixed, lastMsg>>

\* my_write returns, its locals are gone; k is the number of bytes it left in
\* front of a NUL.
WriteReturn(w, k) ==
    /\ wpc' = [wpc EXCEPT ![w] = "idle"]
    /\ to_copy' = [to_copy EXCEPT ![w] = 0]
    /\ copied' = [copied EXCEPT ![w] = 0]
    /\ byte' = [byte EXCEPT ![w] = NUL]
    /\ mixed' = [mixed EXCEPT ![w] = FALSE]
    /\ lastMsg' = IF mixed[w] THEN Unknown ELSE StringOf(byte[w], k)
    /\ UNCHANGED readerVars

\* The user page is missing: copy_from_user zeroes what it could not copy and
\* my_write returns -EFAULT without storing the terminator.
WriteFault(w) ==
    /\ wpc[w] = "copy"
    /\ copied[w] < to_copy[w]
    /\ buffer' = [j \in Index |->
                    IF j \in copied[w] .. to_copy[w] - 1 THEN NUL ELSE buffer[j]]
    /\ WriteReturn(w, copied[w])

\* Mutant: the terminator of a full-size write goes past the array.
SafeLenUncapped(n) == n

\* safe_len: where the terminator goes.
SafeLen(n) == IF n < Size - 1 THEN n ELSE Size - 1

\* device_buffer[safe_len] = '\0' and the return of to_copy.
Terminate(w) ==
    /\ wpc[w] = "term"
    /\ buffer' = StoreNul(SafeLen(to_copy[w]))
    /\ WriteReturn(w, SafeLen(to_copy[w]))

-----------------------------------------------------------------------------
(* my_read *)

\* open(2) gives the process a file with position 0; my_open does nothing.
Open(r) ==
    /\ sess[r] = "closed"
    /\ sess' = [sess EXCEPT ![r] = "reading"]
    /\ UNCHANGED <<buffer, writerVars, rpc, length, out, offset, mixed, lastMsg>>

\* close(2), between two reads; my_release does nothing.
Close(r) ==
    /\ sess[r] # "closed"
    /\ rpc[r] = "idle"
    /\ sess' = [sess EXCEPT ![r] = "closed"]
    /\ offset' = [offset EXCEPT ![r] = 0]
    /\ UNCHANGED <<buffer, writerVars, rpc, length, out, mixed, lastMsg>>

ReadCall(r) ==
    /\ sess[r] # "closed"
    /\ rpc[r] = "idle"
    /\ rpc' = [rpc EXCEPT ![r] = "strlen"]
    /\ mixed' = [u \in Users |->
                   IF u = r
                   THEN \E w \in Writers : Writing(w)
                   ELSE mixed[u] \/ (u \in Writers /\ Writing(u))]
    /\ UNCHANGED <<buffer, writerVars, length, out, offset, sess, lastMsg>>

\* strlen(device_buffer) passes a byte of the message.
StrlenStep(r) ==
    /\ rpc[r] = "strlen"
    /\ length[r] < Size
    /\ buffer[length[r]] # NUL
    /\ length' = [length EXCEPT ![r] = @ + 1]
    /\ UNCHANGED <<buffer, writerVars, rpc, out, offset, sess, mixed, lastMsg>>

\* strlen finds the terminator.
StrlenEnd(r) ==
    /\ rpc[r] = "strlen"
    /\ length[r] < Size
    /\ buffer[length[r]] = NUL
    /\ rpc' = [rpc EXCEPT ![r] = "check"]
    /\ UNCHANGED <<buffer, writerVars, length, out, offset, sess, mixed, lastMsg>>

\* No terminator in the array: strlen goes on in whatever follows it.
StrlenOverrun(r) ==
    /\ rpc[r] = "strlen"
    /\ length[r] = Size
    /\ \E k \in 0 .. Slack : length' = [length EXCEPT ![r] = Size + k]
    /\ rpc' = [rpc EXCEPT ![r] = "check"]
    /\ UNCHANGED <<buffer, writerVars, out, offset, sess, mixed, lastMsg>>

\* my_read returns; the program will read on (s = "reading") or not ("eof").
ReadReturn(r, s) ==
    /\ rpc' = [rpc EXCEPT ![r] = "idle"]
    /\ sess' = [sess EXCEPT ![r] = s]
    /\ length' = [length EXCEPT ![r] = 0]
    /\ out' = [out EXCEPT ![r] = <<>>]
    /\ mixed' = [mixed EXCEPT ![r] = FALSE]
    /\ UNCHANGED <<buffer, writerVars, lastMsg>>

\* if(*offset >= length) return 0;
ReadEof(r) ==
    /\ rpc[r] = "check"
    /\ offset[r] >= length[r]
    /\ ReadReturn(r, "eof")
    /\ UNCHANGED offset

ReadGoesOn(r) ==
    /\ rpc[r] = "check"
    /\ offset[r] < length[r]
    /\ rpc' = [rpc EXCEPT ![r] = "nul"]
    /\ UNCHANGED <<buffer, writerVars, length, out, offset, sess, mixed, lastMsg>>

\* Mutant: the terminator replaces the last byte of the message.
NulStoreEarly(r) ==
    /\ rpc[r] = "nul"
    /\ buffer' = StoreNul(length[r] - 1)
    /\ rpc' = [rpc EXCEPT ![r] = "copy"]
    /\ UNCHANGED <<writerVars, length, out, offset, sess, mixed, lastMsg>>

\* device_buffer[length] = '\0': the reader stores into the shared buffer.
NulStore(r) ==
    /\ rpc[r] = "nul"
    /\ buffer' = StoreNul(length[r])
    /\ rpc' = [rpc EXCEPT ![r] = "copy"]
    /\ UNCHANGED <<writerVars, length, out, offset, sess, mixed, lastMsg>>

\* Mutant: the copy starts at the file position.
SourceIndexAtOffset(r) == offset[r] + Len(out[r])

\* Where copy_to_user takes the next byte from: it always starts at the front.
SourceIndex(r) == Len(out[r])

\* copy_to_user delivers the next byte (past the array: one that is not ours).
CopyOut(r) ==
    /\ rpc[r] = "copy"
    /\ Len(out[r]) < length[r]
    /\ out' = [out EXCEPT ![r] =
                 Append(@, IF SourceIndex(r) < Size
                           THEN buffer[SourceIndex(r)] ELSE Unknown)]
    /\ UNCHANGED <<buffer, writerVars, rpc, length, offset, sess, mixed, lastMsg>>

\* Mutant: *offset is not moved.
NewOffsetSame(r) == offset[r]

\* *offset += length
NewOffset(r) == offset[r] + length[r]

\* The return of length.
ReadDone(r) ==
    /\ rpc[r] = "copy"
    /\ Len(out[r]) = length[r]
    /\ offset' = [offset EXCEPT ![r] = NewOffset(r)]
    /\ ReadReturn(r, "reading")

\* copy_to_user fails: -EFAULT, the position stays and the program gives up.
ReadFault(r) ==
    /\ rpc[r] = "copy"
    /\ Len(out[r]) < length[r]
    /\ ReadReturn(r, "eof")
    /\ UNCHANGED offset

-----------------------------------------------------------------------------
\* len is any length up to one more than the buffer holds: my_write treats
\* all longer ones as Size + 1.
WriterNext(w) ==
    \/ \E len \in 0 .. Size + 1, b \in Bytes : WriteCall(w, len, b)
    \/ CopyIn(w)
    \/ CopyInDone(w)
    \/ WriteFault(w)
    \/ Terminate(w)

\* One call of my_read, from strlen to its return.
ReadStep(r) ==
    \/ StrlenStep(r)
    \/ StrlenEnd(r)
    \/ StrlenOverrun(r)
    \/ ReadEof(r)
    \/ ReadGoesOn(r)
    \/ NulStore(r)
    \/ CopyOut(r)
    \/ ReadDone(r)

ReaderNext(r) ==
    \/ Open(r)
    \/ Close(r)
    \/ ReadCall(r)
    \/ ReadStep(r)
    \/ ReadFault(r)

Next ==
    \/ \E w \in Writers : WriterNext(w)
    \/ \E r \in Readers : ReaderNext(r)

Spec == Init /\ [][Next]_vars

\* A process inside read(2) is scheduled again, and a program that reads to
\* the end of the file calls read again after a nonzero return.  Writers owe
\* nothing.
FairSpec ==
    /\ Spec
    /\ \A r \in Readers :
         WF_vars(ReadStep(r) \/ (sess[r] = "reading" /\ ReadCall(r)))

-----------------------------------------------------------------------------
(* Properties *)

\* Every variable has its type.
TypeOK ==
    /\ buffer \in [Index -> Bytes]
    /\ wpc \in [Writers -> {"idle", "copy", "term"}]
    /\ to_copy \in [Writers -> 0 .. Size]
    /\ copied \in [Writers -> 0 .. Size]
    /\ byte \in [Writers -> Bytes]
    /\ rpc \in [Readers -> {"idle", "strlen", "check", "nul", "copy"}]
    /\ length \in [Readers -> 0 .. Size + Slack]
    /\ out \in [Readers -> Seq(Bytes \cup {Unknown})]
    /\ offset \in [Readers -> Nat]
    /\ sess \in [Readers -> {"closed", "reading", "eof"}]
    /\ mixed \in [Users -> BOOLEAN]
    /\ lastMsg \in Seq(Chars) \cup {Unknown}

\* A write of the whole buffer that has stored the last byte and not yet
\* overwritten it with the terminator.
TailOpen(w) == Writing(w) /\ to_copy[w] = Size /\ copied[w] = Size

\* The last byte of device_buffer is the terminator, except while a write of
\* BUFF_SIZE bytes or more is between copy_from_user and its store of '\0'.
TailTerminated ==
    buffer[Size - 1] # NUL => \E w \in Writers : TailOpen(w)

\* strlen leaves the array only inside that window of some writer.
OverrunOnlyInWindow ==
    [][\A r \in Readers :
         length[r] < Size /\ length'[r] >= Size => \E w \in Writers : TailOpen(w)]_vars

\* Once a write ran alone (finished or failed with -EFAULT half way), the
\* buffer holds exactly the bytes it stored, whatever was there before, and
\* any number of reads leaves it that way.
MessageKept == lastMsg # Unknown => Message = lastMsg

\* A read that no write overlapped returns the message of the last write,
\* from its start and in full, whichever other reads run beside it.
CleanReadExact ==
    \A r \in Readers :
        Reading(r) /\ ~mixed[r] /\ lastMsg # Unknown =>
            /\ rpc[r] \in {"check", "nul", "copy"} => length[r] = Len(lastMsg)
            /\ out[r] = SubSeq(lastMsg, 1, Len(out[r]))

\* A program that reads until read returns 0 comes to an end, however often
\* the message is replaced meanwhile: each nonzero return moves *offset.
ReadToEofEnds ==
    \A r \in Readers : sess[r] = "reading" ~> sess[r] # "reading"
=============================================================================
