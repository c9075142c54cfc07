-------------------------- MODULE CharBuffer_proofs --------------------------
(***************************************************************************)
(* Proofs about CharBuffer, for every buffer size and every set of users. *)
(***************************************************************************)
EXTENDS CharBuffer, TLAPS

LEMMA InitType == Init => TypeOK
  BY SizeAssumption, SlackAssumption, NulAssumption
  DEF Init, TypeOK, Index, Bytes, Users

\* Storing the terminator keeps device_buffer a buffer and can only clear bytes.
LEMMA StoreNulType ==
    ASSUME buffer \in [Index -> Bytes], NEW k
    PROVE  StoreNul(k) \in [Index -> Bytes]
  BY DEF StoreNul, Bytes

LEMMA SafeLenInside ==
    ASSUME NEW n \in 0 .. Size
    PROVE  SafeLen(n) \in 0 .. Size - 1
  BY SizeAssumption DEF SafeLen

LEMMA ToCopyType ==
    ASSUME NEW n \in 0 .. Size + 1
    PROVE  ToCopy(n) \in 0 .. Size
  BY SizeAssumption DEF ToCopy

LEMMA StringType ==
    ASSUME NEW b \in Bytes, NEW k \in Nat
    PROVE  StringOf(b, k) \in Seq(Chars)
<1>1. CASE b = NUL
  BY <1>1 DEF StringOf
<1>2. CASE b # NUL
  <2>1. b \in Chars
    BY <1>2 DEF Bytes
  <2>2. [j \in 1 .. k |-> b] \in [1 .. k -> Chars]
    BY <2>1
  <2>3. [j \in 1 .. k |-> b] \in Seq(Chars)
    BY <2>2
  <2> QED BY <2>3, <1>2 DEF StringOf
<1> QED BY <1>1, <1>2

LEMMA WriteReturnType ==
    ASSUME TypeOK, NEW w \in Writers, NEW k \in Nat, WriteReturn(w, k),
           buffer' \in [Index -> Bytes]
    PROVE  TypeOK'
<1>1. StringOf(byte[w], k) \in Seq(Chars)
  BY StringType DEF TypeOK
<1>2. lastMsg' \in Seq(Chars) \cup {Unknown}
  BY <1>1 DEF WriteReturn
<1>3. byte' \in [Writers -> Bytes]
  BY DEF WriteReturn, TypeOK, Bytes
<1>4. to_copy' \in [Writers -> 0 .. Size] /\ copied' \in [Writers -> 0 .. Size]
  BY SizeAssumption DEF WriteReturn, TypeOK
<1>5. wpc' \in [Writers -> {"idle", "copy", "term"}] /\ mixed' \in [Users -> BOOLEAN]
  BY DEF WriteReturn, TypeOK
<1> QED
  BY <1>2, <1>3, <1>4, <1>5 DEF WriteReturn, TypeOK, readerVars, Index, Bytes

LEMMA ReadReturnType ==
    ASSUME TypeOK, NEW r \in Readers, NEW s \in {"reading", "eof"},
           ReadReturn(r, s), offset' \in [Readers -> Nat]
    PROVE  TypeOK'
<1>1. length' \in [Readers -> 0 .. Size + Slack]
  BY SizeAssumption, SlackAssumption DEF ReadReturn, TypeOK
<1>2. out' \in [Readers -> Seq(Bytes \cup {Unknown})]
  BY DEF ReadReturn, TypeOK
<1>3. rpc' \in [Readers -> {"idle", "strlen", "check", "nul", "copy"}]
  BY DEF ReadReturn, TypeOK
<1>4. mixed' \in [Users -> BOOLEAN] /\ sess' \in [Readers -> {"closed", "reading", "eof"}]
  BY DEF ReadReturn, TypeOK
<1> QED
  BY <1>1, <1>2, <1>3, <1>4 DEF ReadReturn, TypeOK, writerVars, Index, Bytes, Users

LEMMA WriterType ==
    ASSUME TypeOK, NEW w \in Writers, WriterNext(w)
    PROVE  TypeOK'
<1> USE DEF TypeOK, Index, Users, readerVars
<1>1. ASSUME NEW len \in 0 .. Size + 1, NEW b \in Bytes, WriteCall(w, len, b)
      PROVE  TypeOK'
  <2>1. to_copy' \in [Writers -> 0 .. Size]
    BY <1>1, ToCopyType DEF WriteCall
  <2>2. mixed' \in [Users -> BOOLEAN]
    BY <1>1 DEF WriteCall, Writing, Reading
  <2>3. wpc' \in [Writers -> {"idle", "copy", "term"}] /\ byte' \in [Writers -> Bytes]
    BY <1>1 DEF WriteCall
  <2>4. copied' \in [Writers -> 0 .. Size]
    BY <1>1, SizeAssumption DEF WriteCall
  <2> QED BY <1>1, <2>1, <2>2, <2>3, <2>4 DEF WriteCall, Bytes
<1>2. CASE CopyIn(w)
  <2>1. buffer' \in [Index -> Bytes]
    BY <1>2 DEF CopyIn
  <2>2. copied' \in [Writers -> 0 .. Size]
    BY <1>2, SizeAssumption DEF CopyIn
  <2> QED BY <1>2, <2>1, <2>2 DEF CopyIn, Bytes
<1>3. CASE CopyInDone(w)
  BY <1>3 DEF CopyInDone, Bytes
<1>4. CASE WriteFault(w)
  <2>1. buffer' \in [Index -> Bytes]
    BY <1>4 DEF WriteFault, Bytes
  <2>2. copied[w] \in Nat
    BY SizeAssumption
  <2> QED BY <1>4, <2>1, <2>2, WriteReturnType DEF WriteFault
<1>5. CASE Terminate(w)
  <2>1. buffer' \in [Index -> Bytes]
    BY <1>5, StoreNulType DEF Terminate
  <2>2. SafeLen(to_copy[w]) \in Nat
    BY SafeLenInside
  <2> QED BY <1>5, <2>1, <2>2, WriteReturnType DEF Terminate
<1> QED BY <1>1, <1>2, <1>3, <1>4, <1>5 DEF WriterNext

LEMMA ReaderType ==
    ASSUME TypeOK, NEW r \in Readers, ReaderNext(r)
    PROVE  TypeOK'
<1> USE DEF TypeOK, Index, writerVars
<1>1. CASE Open(r)
  BY <1>1 DEF Open, Bytes, Users
<1>2. CASE Close(r)
  BY <1>2 DEF Close, Bytes, Users
<1>3. CASE ReadCall(r)
  <2>1. mixed' \in [Users -> BOOLEAN]
    BY <1>3 DEF ReadCall, Writing
  <2> QED BY <1>3, <2>1 DEF ReadCall, Bytes, Users
<1>4. CASE StrlenStep(r)
  <2>1. length' \in [Readers -> 0 .. Size + Slack]
    BY <1>4, SizeAssumption, SlackAssumption DEF StrlenStep
  <2> QED BY <1>4, <2>1 DEF StrlenStep, Bytes, Users
<1>5. CASE StrlenEnd(r)
  BY <1>5 DEF StrlenEnd, Bytes, Users
<1>6. CASE StrlenOverrun(r)
  <2>1. length' \in [Readers -> 0 .. Size + Slack]
    BY <1>6, SizeAssumption, SlackAssumption DEF StrlenOverrun
  <2> QED BY <1>6, <2>1 DEF StrlenOverrun, Bytes, Users
<1>7. CASE ReadEof(r)
  BY <1>7, ReadReturnType DEF ReadEof
<1>8. CASE ReadGoesOn(r)
  BY <1>8 DEF ReadGoesOn, Bytes, Users
<1>9. CASE NulStore(r)
  <2>1. buffer' \in [Index -> Bytes]
    BY <1>9, StoreNulType DEF NulStore
  <2> QED BY <1>9, <2>1 DEF NulStore, Bytes, Users
<1>10. CASE CopyOut(r)
  <2>1. out[r] \in Seq(Bytes \cup {Unknown}) /\ Len(out[r]) \in Nat
    OBVIOUS
  <2> DEFINE b == IF SourceIndex(r) < Size THEN buffer[SourceIndex(r)] ELSE Unknown
  <2>2. b \in Bytes \cup {Unknown}
    BY <2>1, SizeAssumption DEF SourceIndex
  <2>3. Append(out[r], b) \in Seq(Bytes \cup {Unknown})
    BY <2>1, <2>2
  <2>4. out' = [out EXCEPT ![r] = Append(out[r], b)]
    BY <1>10 DEF CopyOut
  <2> HIDE DEF b
  <2>5. out' \in [Readers -> Seq(Bytes \cup {Unknown})]
    BY <2>3, <2>4
  <2> QED BY <1>10, <2>5 DEF CopyOut, Bytes, Users
<1>11. CASE ReadDone(r)
  <2>1. offset' \in [Readers -> Nat]
    BY <1>11, SizeAssumption, SlackAssumption DEF ReadDone, NewOffset
  <2> QED BY <1>11, <2>1, ReadReturnType DEF ReadDone
<1>12. CASE ReadFault(r)
  BY <1>12, ReadReturnType DEF ReadFault
<1> QED
  BY <1>1, <1>2, <1>3, <1>4, <1>5, <1>6, <1>7, <1>8, <1>9, <1>10, <1>11, <1>12
  DEF ReaderNext, ReadStep

LEMMA StepType == TypeOK /\ [Next]_vars => TypeOK'
<1> SUFFICES ASSUME TypeOK, [Next]_vars PROVE TypeOK'
  OBVIOUS
<1>1. CASE UNCHANGED vars
  BY <1>1 DEF TypeOK, vars, Index, Bytes, Users
<1>2. CASE Next
  BY <1>2, WriterType, ReaderType DEF Next
<1> QED BY <1>1, <1>2

\* Every reachable state of CharBuffer is well typed: in particular to_copy and
\* copied stay within BUFF_SIZE and strlen within the array plus Slack.
THEOREM TypeCorrect == Spec => []TypeOK
  BY InitType, StepType, PTL DEF Spec
-----------------------------------------------------------------------------
(***************************************************************************)
(* TailTerminated is inductive once every variable has its type.          *)
(***************************************************************************)
LEMMA InitTail == Init => TailTerminated
  BY SizeAssumption DEF Init, TailTerminated, Index

\* A terminator stored anywhere does not make the last byte a letter.
LEMMA StoreNulTail ==
    ASSUME TypeOK, NEW k, buffer' = StoreNul(k), buffer'[Size - 1] # NUL
    PROVE  buffer[Size - 1] # NUL
  BY SizeAssumption DEF StoreNul, TypeOK, Index

LEMMA WriterTail ==
    ASSUME TypeOK, TailTerminated, NEW w \in Writers, WriterNext(w)
    PROVE  TailTerminated'
<1> SUFFICES ASSUME buffer'[Size - 1] # NUL
             PROVE  \E x \in Writers : TailOpen(x)'
  BY DEF TailTerminated
<1> USE DEF TypeOK, Index, TailOpen, Writing
<1>1. ASSUME NEW len \in 0 .. Size + 1, NEW b \in Bytes, WriteCall(w, len, b)
      PROVE  \E x \in Writers : TailOpen(x)'
  <2>1. PICK x \in Writers : TailOpen(x)
    BY <1>1 DEF WriteCall, TailTerminated
  <2>2. x # w
    BY <1>1, <2>1 DEF WriteCall
  <2>3. TailOpen(x)'
    BY <1>1, <2>1, <2>2 DEF WriteCall
  <2> QED BY <2>3
<1>2. CASE CopyIn(w)
  <2>1. CASE copied[w] = Size - 1
    <3>1. TailOpen(w)'
      BY <1>2, <2>1, SizeAssumption DEF CopyIn
    <3> QED BY <3>1
  <2>2. CASE copied[w] # Size - 1
    <3>1. buffer'[Size - 1] = buffer[Size - 1]
      BY <1>2, <2>2, SizeAssumption DEF CopyIn
    <3>2. PICK x \in Writers : TailOpen(x)
      BY <3>1 DEF TailTerminated
    <3>3. TailOpen(x)'
      BY <1>2, <3>2, SizeAssumption DEF CopyIn
    <3> QED BY <3>3
  <2> QED BY <2>1, <2>2
<1>3. CASE CopyInDone(w)
  <2>1. PICK x \in Writers : TailOpen(x)
    BY <1>3 DEF CopyInDone, TailTerminated
  <2>2. TailOpen(x)'
    BY <1>3, <2>1 DEF CopyInDone
  <2> QED BY <2>2
<1>4. CASE WriteFault(w)
  <2>1. buffer[Size - 1] # NUL
    BY <1>4, SizeAssumption DEF WriteFault
  <2>2. PICK x \in Writers : TailOpen(x)
    BY <2>1 DEF TailTerminated
  <2>3. x # w
    BY <1>4, <2>2, SizeAssumption DEF WriteFault
  <2>4. TailOpen(x)'
    BY <1>4, <2>2, <2>3 DEF WriteFault, WriteReturn
  <2> QED BY <2>4
<1>5. CASE Terminate(w)
  <2>1. buffer[Size - 1] # NUL
    BY <1>5, StoreNulTail DEF Terminate
  <2>2. PICK x \in Writers : TailOpen(x)
    BY <2>1 DEF TailTerminated
  <2>3. x # w
    BY <1>5, <2>2, SizeAssumption DEF Terminate, StoreNul, SafeLen
  <2>4. TailOpen(x)'
    BY <1>5, <2>2, <2>3 DEF Terminate, WriteReturn
  <2> QED BY <2>4
<1> QED BY <1>1, <1>2, <1>3, <1>4, <1>5 DEF WriterNext

\* A reader only ever stores the terminator and never moves a writer.
LEMMA ReaderTail ==
    ASSUME TypeOK, TailTerminated, NEW r \in Readers, ReaderNext(r)
    PROVE  TailTerminated'
<1>1. UNCHANGED writerVars /\ (buffer' = buffer \/ buffer' = StoreNul(length[r]))
  BY DEF ReaderNext, ReadStep, Open, Close, ReadCall, StrlenStep, StrlenEnd,
         StrlenOverrun, ReadEof, ReadGoesOn, NulStore, CopyOut, ReadDone,
         ReadFault, ReadReturn
<1>2. buffer'[Size - 1] # NUL => buffer[Size - 1] # NUL
  BY <1>1, StoreNulTail
<1>3. \A x \in Writers : TailOpen(x) => TailOpen(x)'
  BY <1>1 DEF TailOpen, Writing, writerVars
<1> QED BY <1>2, <1>3 DEF TailTerminated

LEMMA StepTail == TypeOK /\ TailTerminated /\ [Next]_vars => TailTerminated'
<1> SUFFICES ASSUME TypeOK, TailTerminated, [Next]_vars PROVE TailTerminated'
  OBVIOUS
<1>1. CASE UNCHANGED vars
  BY <1>1 DEF TailTerminated, TailOpen, Writing, vars
<1>2. CASE Next
  BY <1>2, WriterTail, ReaderTail DEF Next
<1> QED BY <1>1, <1>2

\* The last byte of device_buffer is '\0' whenever no full-size write stands
\* between its copy_from_user and its terminator.
THEOREM TailAlwaysTerminated == Spec => []TailTerminated
  BY InitTail, StepTail, TypeCorrect, PTL DEF Spec

\* strlen in my_read walks out of the array only in that window, because it
\* needs a letter in the last byte to do so.
THEOREM StrlenStaysInside == Spec => OverrunOnlyInWindow
<1> DEFINE A == \A r \in Readers :
                  length[r] < Size /\ length'[r] >= Size =>
                      \E w \in Writers : TailOpen(w)
<1>1. ASSUME TypeOK, TailTerminated, [Next]_vars
      PROVE  [A]_vars
  <2> SUFFICES ASSUME NEW r \in Readers, length[r] < Size, length'[r] >= Size
               PROVE  \E w \in Writers : TailOpen(w)
    OBVIOUS
  <2>1. PICK x \in Readers : ReaderNext(x)
    BY <1>1, SizeAssumption
    DEF Next, vars, WriterNext, WriteCall, CopyIn, CopyInDone, WriteFault, Terminate,
        WriteReturn, readerVars, TypeOK
  <2>2. x = r /\ StrlenStep(r)
    <3> USE <1>1, SizeAssumption, SlackAssumption DEF TypeOK
    <3>1. length'[r] # length[r]
      OBVIOUS
    <3>2. ~(Open(x) \/ Close(x) \/ ReadCall(x) \/ StrlenEnd(x) \/ ReadGoesOn(x)
              \/ NulStore(x) \/ CopyOut(x))
      BY <3>1
      DEF Open, Close, ReadCall, StrlenEnd, ReadGoesOn, NulStore, CopyOut
    <3>3. ASSUME NEW s, ReadReturn(x, s) PROVE FALSE
      BY <3>3 DEF ReadReturn
    <3>4. ~(ReadEof(x) \/ ReadDone(x) \/ ReadFault(x))
      BY <3>3 DEF ReadEof, ReadDone, ReadFault
    <3>5. ASSUME StrlenOverrun(x) PROVE FALSE
      <4>1. x # r
        BY <3>5 DEF StrlenOverrun
      <4>2. PICK k \in 0 .. Slack : length' = [length EXCEPT ![x] = Size + k]
        BY <3>5 DEF StrlenOverrun
      <4> QED BY <3>1, <4>1, <4>2
    <3>6. StrlenStep(x)
      BY <2>1, <3>2, <3>4, <3>5 DEF ReaderNext, ReadStep
    <3> QED BY <3>1, <3>6 DEF StrlenStep
  <2>3. length[r] = Size - 1
    BY <1>1, <2>2, SizeAssumption, SlackAssumption DEF StrlenStep, TypeOK
  <2> QED BY <1>1, <2>2, <2>3 DEF StrlenStep, TailTerminated
<1> HIDE DEF A
<1>2. TypeOK /\ TailTerminated /\ [Next]_vars => [A]_vars
  BY <1>1
<1>3. Spec => [][A]_vars
  BY <1>2, TypeCorrect, TailAlwaysTerminated, PTL DEF Spec
<1> QED BY <1>3 DEF OverrunOnlyInWindow, A
-----------------------------------------------------------------------------
(***************************************************************************)
(* MessageKept and CleanReadExact.  Why they hold: a write that overlaps   *)
(* nothing leaves its message in front of its terminator, and from then to *)
(* the next write no reader has any other length than the message's, so    *)
(* that the '\0' every reader stores falls on the terminator.             *)
(***************************************************************************)
\* A reader between two calls has no locals, and copies nothing before its strlen is over.
ReaderIdle ==
    \A r \in Readers :
        /\ rpc[r] = "idle" => length[r] = 0
        /\ rpc[r] # "copy" => out[r] = <<>>

\* A write that overlapped no other call is the only call in progress, and the buffer
\* starts with the bytes it has stored.
WriterAlone ==
    \A w \in Writers :
        /\ wpc[w] = "term" => copied[w] = to_copy[w]
        /\ Writing(w) /\ ~mixed[w] =>
             /\ \A x \in Writers : Writing(x) => x = w
             /\ \A r \in Readers : ~Reading(r)
             /\ \A j \in 0 .. copied[w] - 1 : buffer[j] = byte[w]

\* The message of the last write stands in front of its terminator, ...
Stands ==
    /\ Len(lastMsg) < Size
    /\ buffer[Len(lastMsg)] = NUL
    /\ \A j \in 1 .. Len(lastMsg) : buffer[j - 1] = lastMsg[j]

\* ... no write is in progress, and every read in progress began after that write: it
\* has found so much of the message.
Found(r) ==
    /\ length[r] <= Len(lastMsg)
    /\ rpc[r] \in {"check", "nul", "copy"} => length[r] = Len(lastMsg)
    /\ Len(out[r]) <= Len(lastMsg)
    /\ \A j \in 1 .. Len(out[r]) : out[r][j] = lastMsg[j]

Determined ==
    /\ \A w \in Writers : ~Writing(w)
    /\ Stands
    /\ \A r \in Readers : Reading(r) => Found(r)

MessageInv == ReaderIdle /\ WriterAlone /\ (lastMsg # Unknown => Determined)

\* Where the C string in buf ends.
EndsAt(buf, k) ==
    /\ \A j \in 0 .. k - 1 : buf[j] # NUL
    /\ k < Size => buf[k] = NUL

\* strlen of the message is where its terminator stands.
LEMMA MessageIs ==
    ASSUME NEW k \in 0 .. Size, EndsAt(buffer, k)
    PROVE  Message = [j \in 1 .. k |-> buffer[j - 1]]
<1>1. \A l \in 0 .. Size : EndsAt(buffer, l) => l = k
  BY SizeAssumption DEF EndsAt
<1>2. (CHOOSE l \in 0 .. Size : EndsAt(buffer, l)) = k
  <2> HIDE DEF EndsAt
  <2> QED BY <1>1
<1> QED BY <1>2 DEF Message, EndsAt

\* A message that stands is the one strlen finds.
LEMMA StandingMessage ==
    ASSUME TypeOK, lastMsg # Unknown, Stands
    PROVE  Message = lastMsg
<1>1. lastMsg \in Seq(Chars) /\ Len(lastMsg) \in 0 .. Size
  BY SizeAssumption DEF TypeOK, Stands
<1>2. \A j \in 1 .. Len(lastMsg) : lastMsg[j] # NUL
  BY <1>1, NulAssumption
<1>3. EndsAt(buffer, Len(lastMsg))
  <2>1. ASSUME NEW j \in 0 .. Len(lastMsg) - 1 PROVE buffer[j] # NUL
    <3>1. j + 1 \in 1 .. Len(lastMsg) /\ (j + 1) - 1 = j
      BY <1>1
    <3> QED BY <1>2, <3>1 DEF Stands
  <2> QED BY <2>1 DEF EndsAt, Stands
<1>4. [j \in 1 .. Len(lastMsg) |-> buffer[j - 1]] = [j \in 1 .. Len(lastMsg) |-> lastMsg[j]]
  BY DEF Stands
<1>5. lastMsg = [j \in 1 .. Len(lastMsg) |-> lastMsg[j]]
  BY <1>1
<1> QED BY <1>1, <1>3, <1>4, <1>5, MessageIs

LEMMA InitMessage == Init => MessageInv
<1> SUFFICES ASSUME Init PROVE MessageInv
  OBVIOUS
<1>1. ReaderIdle /\ WriterAlone
  BY DEF Init, ReaderIdle, WriterAlone, Writing
<1>2. Determined
  BY SizeAssumption DEF Init, Determined, Stands, Writing, Reading, Index
<1> QED BY <1>1, <1>2 DEF MessageInv

\* my_write returns: what it stored in front of a NUL is the message, if it was alone.
LEMMA WriteReturnKeeps ==
    ASSUME TypeOK, MessageInv, NEW w \in Writers, Writing(w), NEW k \in 0 .. Size - 1,
           WriteReturn(w, k), buffer' \in [Index -> Bytes], buffer'[k] = NUL,
           ~mixed[w] => \A j \in 0 .. k - 1 : buffer'[j] = byte[w]
    PROVE  MessageInv'
<1> USE DEF MessageInv
<1>1. ReaderIdle'
  BY DEF WriteReturn, ReaderIdle, readerVars
<1>2. WriterAlone'
  <2>1. ASSUME NEW x \in Writers, Writing(x)' PROVE x # w /\ Writing(x) /\ mixed'[x] = mixed[x]
    BY <2>1, UserAssumption DEF WriteReturn, Writing, TypeOK, Users
  <2>2. \A x \in Writers : Writing(x)' => mixed'[x]
    BY <2>1 DEF WriterAlone
  <2>3. \A x \in Writers : wpc'[x] = "term" => copied'[x] = to_copy'[x]
    BY DEF WriteReturn, WriterAlone, TypeOK
  <2> QED BY <2>2, <2>3 DEF WriterAlone
<1>3. ASSUME lastMsg' # Unknown PROVE Determined'
  <2>1. ~mixed[w] /\ lastMsg' = StringOf(byte[w], k)
    BY <1>3 DEF WriteReturn
  <2>2. \A x \in Writers : ~Writing(x)'
    BY <2>1 DEF WriterAlone, WriteReturn, Writing, TypeOK
  <2>3. \A r \in Readers : ~Reading(r)'
    BY <2>1 DEF WriterAlone, WriteReturn, Reading, readerVars
  <2>4. Stands'
    <3>1. CASE byte[w] = NUL
      <4>1. lastMsg' = <<>>
        BY <2>1, <3>1 DEF StringOf
      <4>2. buffer'[0] = NUL
        BY <2>1, <3>1, SizeAssumption
      <4> QED BY <4>1, <4>2, SizeAssumption DEF Stands
    <3>2. CASE byte[w] # NUL
      <4>1. lastMsg' = [j \in 1 .. k |-> byte[w]]
        BY <2>1, <3>2 DEF StringOf
      <4>2. Len(lastMsg') = k /\ \A j \in 1 .. k : lastMsg'[j] = byte[w]
        BY <4>1, SizeAssumption
      <4>3. \A j \in 1 .. k : buffer'[j - 1] = byte[w]
        BY <2>1, SizeAssumption
      <4> QED BY <4>2, <4>3, SizeAssumption DEF Stands
    <3> QED BY <3>1, <3>2
  <2> QED BY <2>2, <2>3, <2>4 DEF Determined
<1> QED BY <1>1, <1>2, <1>3

\* A call of my_write mixes with every call in progress and determines nothing.
LEMMA WriterMessage ==
    ASSUME TypeOK, MessageInv, NEW w \in Writers, WriterNext(w)
    PROVE  MessageInv'
<1> USE DEF MessageInv
<1>1. ASSUME NEW len \in 0 .. Size + 1, NEW b \in Bytes, WriteCall(w, len, b)
      PROVE  MessageInv'
  <2>1. ReaderIdle' /\ lastMsg' = Unknown
    BY <1>1 DEF WriteCall, ReaderIdle, readerVars
  <2>2. ASSUME NEW x \in Writers, Writing(x)', ~mixed'[x]
        PROVE  /\ x = w /\ copied'[x] = 0
               /\ \A y \in Writers : Writing(y)' => y = x
               /\ \A r \in Readers : ~Reading(r)'
    <3>1. x = w
      BY <1>1, <2>2 DEF WriteCall, Writing, TypeOK, Users
    <3>2. ~\E y \in Writers \ {w} : Writing(y)
      BY <1>1, <2>2, <3>1 DEF WriteCall, Users
    <3>3. ~\E r \in Readers : Reading(r)
      BY <1>1, <2>2, <3>1 DEF WriteCall, Users
    <3>4. /\ \A y \in Writers \ {w} : Writing(y)' = Writing(y)
          /\ \A r \in Readers : Reading(r)' = Reading(r)
          /\ copied'[w] = 0
      BY <1>1 DEF WriteCall, Writing, Reading, readerVars, TypeOK
    <3> QED BY <3>1, <3>2, <3>3, <3>4
  <2>3. \A x \in Writers : wpc'[x] = "term" => copied'[x] = to_copy'[x]
    BY <1>1 DEF WriteCall, WriterAlone, TypeOK
  <2> QED BY <2>1, <2>2, <2>3 DEF WriterAlone
<1>2. CASE CopyIn(w)
  <2>1. ReaderIdle' /\ lastMsg' = Unknown
    BY <1>2 DEF CopyIn, ReaderIdle, readerVars, Determined, Writing
  <2>2. WriterAlone'
    <3>1. ASSUME NEW x \in Writers, Writing(x)', ~mixed'[x]
          PROVE  /\ x = w
                 /\ \A y \in Writers : Writing(y)' => y = x
                 /\ \A r \in Readers : ~Reading(r)'
                 /\ \A j \in 0 .. copied'[x] - 1 : buffer'[j] = byte'[x]
      <4>1. x = w /\ \A y \in Writers : Writing(y)' => y = w
        BY <1>2, <3>1 DEF CopyIn, WriterAlone, Writing
      <4>2. \A r \in Readers : ~Reading(r)'
        BY <1>2, <3>1 DEF CopyIn, WriterAlone, Writing, Reading, readerVars
      <4>3. \A j \in 0 .. copied[w] - 1 : buffer[j] = byte[w]
        BY <1>2, <3>1, <4>1 DEF CopyIn, WriterAlone, Writing
      <4>4. copied'[w] = copied[w] + 1 /\ byte' = byte /\ copied[w] \in Index
        BY <1>2, SizeAssumption DEF CopyIn, TypeOK, Index
      <4>5. buffer' = [buffer EXCEPT ![copied[w]] = byte[w]]
        BY <1>2 DEF CopyIn
      <4>6. \A j \in 0 .. copied[w] : buffer'[j] = byte[w]
        BY <4>3, <4>4, <4>5, SizeAssumption DEF TypeOK, Index
      <4> QED BY <4>1, <4>2, <4>4, <4>6, SizeAssumption DEF Index
    <3>2. \A x \in Writers : wpc'[x] = "term" => copied'[x] = to_copy'[x]
      BY <1>2 DEF CopyIn, WriterAlone, TypeOK
    <3> QED BY <3>1, <3>2 DEF WriterAlone
  <2> QED BY <2>1, <2>2
<1>3. CASE CopyInDone(w)
  <2>1. ReaderIdle' /\ lastMsg' = Unknown
    BY <1>3 DEF CopyInDone, ReaderIdle, readerVars, Determined, Writing
  <2>2. \A x \in Writers : Writing(x)' <=> Writing(x)
    BY <1>3 DEF CopyInDone, Writing, TypeOK
  <2>3. \A r \in Readers : Reading(r)' <=> Reading(r)
    BY <1>3 DEF CopyInDone, Reading, readerVars
  <2>4. \A x \in Writers : wpc'[x] = "term" => copied'[x] = to_copy'[x]
    BY <1>3 DEF CopyInDone, WriterAlone, TypeOK
  <2>5. UNCHANGED <<buffer, copied, byte, mixed>>
    BY <1>3 DEF CopyInDone
  <2> QED BY <2>1, <2>2, <2>3, <2>4, <2>5 DEF WriterAlone
<1>4. CASE WriteFault(w)
  <2>1. /\ copied[w] \in 0 .. Size - 1 /\ Writing(w)
        /\ to_copy[w] \in 0 .. Size /\ copied[w] < to_copy[w]
    BY <1>4, SizeAssumption DEF WriteFault, TypeOK, Writing
  <2>2. buffer' = [j \in Index |-> IF j \in copied[w] .. to_copy[w] - 1 THEN NUL ELSE buffer[j]]
    BY <1>4 DEF WriteFault
  <2>3. buffer' \in [Index -> Bytes] /\ buffer'[copied[w]] = NUL
    BY <2>1, <2>2, SizeAssumption DEF TypeOK, Bytes, Index
  <2>4. \A j \in 0 .. copied[w] - 1 : buffer'[j] = buffer[j]
    BY <2>1, <2>2, SizeAssumption DEF Index
  <2>5. ~mixed[w] => \A j \in 0 .. copied[w] - 1 : buffer'[j] = byte[w]
    BY <2>1, <2>4 DEF WriterAlone
  <2>6. WriteReturn(w, copied[w])
    BY <1>4 DEF WriteFault
  <2> QED BY <2>1, <2>3, <2>5, <2>6, WriteReturnKeeps
<1>5. CASE Terminate(w)
  <2> DEFINE k == SafeLen(to_copy[w])
  <2>1. k \in 0 .. Size - 1 /\ k <= to_copy[w] /\ Writing(w) /\ copied[w] = to_copy[w]
        /\ to_copy[w] \in 0 .. Size
    BY <1>5, SizeAssumption DEF Terminate, TypeOK, Writing, WriterAlone, SafeLen
  <2>2. buffer' = StoreNul(k) /\ WriteReturn(w, k)
    BY <1>5 DEF Terminate
  <2> HIDE DEF k
  <2>3. buffer' \in [Index -> Bytes] /\ buffer'[k] = NUL
    BY <2>1, <2>2, SizeAssumption DEF TypeOK, Bytes, Index, StoreNul
  <2>4. \A j \in 0 .. k - 1 : buffer'[j] = buffer[j]
    BY <2>1, <2>2, SizeAssumption DEF Index, StoreNul
  <2>5. ~mixed[w] => \A j \in 0 .. k - 1 : buffer[j] = byte[w]
    BY <2>1, SizeAssumption DEF WriterAlone
  <2>6. ~mixed[w] => \A j \in 0 .. k - 1 : buffer'[j] = byte[w]
    BY <2>4, <2>5
  <2> QED BY <2>1, <2>2, <2>3, <2>6, WriteReturnKeeps
<1> QED BY <1>1, <1>2, <1>3, <1>4, <1>5 DEF WriterNext

\* A step of a reader that moves no byte of the buffer and ends no call.
LEMMA FoundUnchanged ==
    ASSUME TypeOK, Determined, UNCHANGED <<buffer, writerVars, lastMsg>>, NEW r \in Readers,
           \A x \in Readers \ {r} : /\ rpc'[x] = rpc[x] /\ length'[x] = length[x]
                                    /\ out'[x] = out[x],
           Reading(r)' => Found(r)'
    PROVE  Determined'
<1>1. Stands' /\ \A w \in Writers : ~Writing(w)'
  BY DEF Determined, Stands, Writing, writerVars
<1>2. ASSUME NEW x \in Readers \ {r}, Reading(x)' PROVE Found(x)'
  BY <1>2 DEF Determined, Reading, Found
<1> QED BY <1>1, <1>2 DEF Determined

\* Of the readers' steps only a call of my_read begins to overlap a write.
LEMMA ReaderKeepsAlone ==
    ASSUME TypeOK, WriterAlone, NEW r \in Readers, ReaderNext(r)
    PROVE  WriterAlone'
<1>1. UNCHANGED writerVars
  BY DEF ReaderNext, ReadStep, Open, Close, ReadCall, StrlenStep, StrlenEnd, StrlenOverrun,
     ReadEof, ReadGoesOn, NulStore, CopyOut, ReadDone, ReadFault, ReadReturn
<1>2. ASSUME NEW w \in Writers, Writing(w)', ~mixed'[w]
      PROVE  /\ \A x \in Writers : Writing(x)' => x = w
             /\ \A x \in Readers : ~Reading(x)'
             /\ \A j \in 0 .. copied'[w] - 1 : buffer'[j] = byte'[w]
  <2>1. Writing(w) /\ w \in Users /\ w # r
    BY <1>1, <1>2, UserAssumption DEF Writing, writerVars, Users
  <2>2. ~ReadCall(r)
    BY <1>2, <2>1 DEF ReadCall
  <2>3. CASE Open(r) \/ Close(r)
    <3>1. ~mixed[w] /\ UNCHANGED <<buffer, rpc>>
      BY <1>2, <2>3 DEF Open, Close
    <3> QED BY <1>1, <2>1, <3>1 DEF WriterAlone, Writing, Reading, writerVars
  <2>4. CASE ReadStep(r) \/ ReadFault(r)
    <3>1. Reading(r)
      BY <2>4 DEF ReadStep, StrlenStep, StrlenEnd, StrlenOverrun, ReadEof, ReadGoesOn, NulStore,
         CopyOut, ReadDone, ReadFault, Reading
    <3>2. mixed'[w] = mixed[w]
      BY <2>1, <2>4 DEF ReadStep, StrlenStep, StrlenEnd, StrlenOverrun, ReadEof, ReadGoesOn,
         NulStore, CopyOut, ReadDone, ReadFault, ReadReturn, TypeOK
    <3> QED BY <1>2, <2>1, <3>1, <3>2 DEF WriterAlone
  <2> QED BY <2>2, <2>3, <2>4 DEF ReaderNext
<1>3. \A w \in Writers : wpc'[w] = "term" => copied'[w] = to_copy'[w]
  BY <1>1 DEF WriterAlone, writerVars
<1> QED BY <1>2, <1>3 DEF WriterAlone

\* my_read leaves its locals behind when it returns.
LEMMA ReaderKeepsIdle ==
    ASSUME TypeOK, ReaderIdle, NEW r \in Readers, ReaderNext(r)
    PROVE  ReaderIdle'
<1> USE DEF ReaderIdle, TypeOK
<1>1. CASE Open(r) \/ Close(r) \/ ReadCall(r)
  BY <1>1 DEF Open, Close, ReadCall
<1>2. CASE StrlenStep(r) \/ StrlenEnd(r) \/ ReadGoesOn(r) \/ NulStore(r)
  BY <1>2 DEF StrlenStep, StrlenEnd, ReadGoesOn, NulStore
<1>3. CASE StrlenOverrun(r)
  BY <1>3 DEF StrlenOverrun
<1>4. CASE CopyOut(r)
  BY <1>4 DEF CopyOut
<1>5. ASSUME NEW s, ReadReturn(r, s) PROVE ReaderIdle'
  BY <1>5 DEF ReadReturn
<1>6. CASE ReadEof(r) \/ ReadDone(r) \/ ReadFault(r)
  BY <1>5, <1>6 DEF ReadEof, ReadDone, ReadFault
<1> QED BY <1>1, <1>2, <1>3, <1>4, <1>6 DEF ReaderNext, ReadStep

\* While the message stands a reader finds it, byte by byte.
LEMMA ReaderDetermined ==
    ASSUME TypeOK, ReaderIdle, Determined, lastMsg # Unknown, NEW r \in Readers, ReaderNext(r)
    PROVE  Determined'
<1> USE DEF Reading
<1>0. /\ lastMsg \in Seq(Chars) /\ Len(lastMsg) \in 0 .. Size - 1
      /\ length[r] \in Nat /\ out[r] \in Seq(Bytes \cup {Unknown}) /\ Len(out[r]) \in Nat
      /\ buffer[Len(lastMsg)] = NUL
      /\ \A j \in 0 .. Len(lastMsg) - 1 : buffer[j] # NUL /\ buffer[j] = lastMsg[j + 1]
  <2>1. lastMsg \in Seq(Chars) /\ Len(lastMsg) \in 0 .. Size - 1
    BY SizeAssumption DEF TypeOK, Determined, Stands
  <2>2. length[r] \in Nat /\ out[r] \in Seq(Bytes \cup {Unknown}) /\ Len(out[r]) \in Nat
    BY SizeAssumption, SlackAssumption DEF TypeOK
  <2>3. buffer[Len(lastMsg)] = NUL
    BY DEF Determined, Stands
  <2>4. ASSUME NEW j \in 0 .. Len(lastMsg) - 1
        PROVE  buffer[j] # NUL /\ buffer[j] = lastMsg[j + 1]
    <3>1. j + 1 \in 1 .. Len(lastMsg) /\ (j + 1) - 1 = j
      BY <2>1
    <3> QED BY <2>1, <3>1, NulAssumption DEF Determined, Stands
  <2> QED BY <2>1, <2>2, <2>3, <2>4
<1>1. CASE Open(r) \/ Close(r)
  BY <1>1 DEF Open, Close, Determined, Stands, Writing, Found, writerVars
<1>2. CASE ReadCall(r)
  <2>1. Found(r)'
    BY <1>0, <1>2 DEF ReadCall, Found, ReaderIdle, TypeOK
  <2> QED BY <1>2, <2>1, FoundUnchanged DEF ReadCall, TypeOK
<1>3. CASE StrlenStep(r)
  <2>1. rpc' = rpc /\ length' = [length EXCEPT ![r] = length[r] + 1] /\ out' = out
        /\ rpc[r] = "strlen" /\ buffer[length[r]] # NUL
        /\ UNCHANGED <<buffer, writerVars, lastMsg>>
    BY <1>3 DEF StrlenStep
  <2>2. length[r] < Len(lastMsg) /\ Found(r)
    BY <1>0, <2>1 DEF Determined, Found
  <2>3. Found(r)'
    BY <1>0, <2>1, <2>2 DEF Found, TypeOK
  <2> QED BY <2>1, <2>3, FoundUnchanged DEF TypeOK
<1>4. CASE StrlenEnd(r)
  <2>1. rpc' = [rpc EXCEPT ![r] = "check"] /\ length' = length /\ out' = out
        /\ rpc[r] = "strlen" /\ buffer[length[r]] = NUL
        /\ UNCHANGED <<buffer, writerVars, lastMsg>>
    BY <1>4 DEF StrlenEnd
  <2>2. length[r] = Len(lastMsg) /\ Found(r)
    BY <1>0, <2>1 DEF Determined, Found
  <2>3. Found(r)'
    BY <1>0, <2>1, <2>2 DEF Found, TypeOK
  <2> QED BY <2>1, <2>3, FoundUnchanged DEF TypeOK
<1>5. CASE StrlenOverrun(r)
  BY <1>0, <1>5 DEF StrlenOverrun, Determined, Found
<1>6. CASE ReadGoesOn(r)
  <2>1. Found(r)'
    BY <1>6 DEF ReadGoesOn, Determined, Found, TypeOK
  <2> QED BY <1>6, <2>1, FoundUnchanged DEF ReadGoesOn, TypeOK
<1>7. CASE NulStore(r)
  <2>1. length[r] = Len(lastMsg) /\ Found(r)
    BY <1>7 DEF NulStore, Determined, Found
  <2>2. buffer' = buffer
    BY <1>0, <1>7, <2>1 DEF NulStore, StoreNul, TypeOK
  <2>3. Found(r)'
    BY <1>7, <2>1 DEF NulStore, Found
  <2> QED BY <1>7, <2>2, <2>3, FoundUnchanged DEF NulStore, TypeOK
<1>8. CASE CopyOut(r)
  <2>1. length[r] = Len(lastMsg) /\ Found(r) /\ Len(out[r]) < Len(lastMsg)
    BY <1>8 DEF CopyOut, Determined, Found
  <2>2. out' = [out EXCEPT ![r] = Append(out[r], lastMsg[Len(out[r]) + 1])]
    <3>1. Len(out[r]) < Size /\ buffer[Len(out[r])] = lastMsg[Len(out[r]) + 1]
      BY <1>0, <2>1, SizeAssumption
    <3> QED BY <1>8, <3>1 DEF CopyOut, SourceIndex
  <2> DEFINE longer == Append(out[r], lastMsg[Len(out[r]) + 1])
  <2>3. /\ Len(longer) = Len(out[r]) + 1
        /\ \A j \in 1 .. Len(out[r]) : longer[j] = out[r][j]
        /\ longer[Len(out[r]) + 1] = lastMsg[Len(out[r]) + 1]
    BY <1>0
  <2>4. out'[r] = longer
    BY <2>2 DEF TypeOK
  <2> HIDE DEF longer
  <2>5. /\ Len(longer) <= Len(lastMsg)
        /\ \A j \in 1 .. Len(longer) : longer[j] = lastMsg[j]
    <3>1. Len(longer) <= Len(lastMsg)
      BY <1>0, <2>1, <2>3
    <3>2. ASSUME NEW j \in 1 .. Len(longer) PROVE longer[j] = lastMsg[j]
      <4>1. j \in 1 .. Len(out[r]) \/ j = Len(out[r]) + 1
        BY <1>0, <2>3
      <4> QED BY <2>1, <2>3, <4>1 DEF Found
    <3> QED BY <3>1, <3>2
  <2>6. Found(r)'
    BY <1>8, <2>1, <2>4, <2>5 DEF CopyOut, Found
  <2> QED BY <1>8, <2>6, FoundUnchanged DEF CopyOut, TypeOK
<1>9. ASSUME NEW s, ReadReturn(r, s) PROVE Determined'
  BY <1>9, FoundUnchanged DEF ReadReturn, TypeOK
<1>10. CASE ReadEof(r) \/ ReadDone(r) \/ ReadFault(r)
  BY <1>9, <1>10 DEF ReadEof, ReadDone, ReadFault
<1> QED BY <1>1, <1>2, <1>3, <1>4, <1>5, <1>6, <1>7, <1>8, <1>10 DEF ReaderNext, ReadStep

LEMMA StepMessage == TypeOK /\ MessageInv /\ [Next]_vars => MessageInv'
<1> SUFFICES ASSUME TypeOK, MessageInv, [Next]_vars PROVE MessageInv'
  OBVIOUS
<1>1. CASE UNCHANGED vars
  BY <1>1 DEF MessageInv, ReaderIdle, WriterAlone, Determined, Stands, Found, Writing, Reading,
     vars
<1>2. ASSUME NEW r \in Readers, ReaderNext(r) PROVE MessageInv'
  <2>1. lastMsg' = lastMsg
    BY <1>2 DEF ReaderNext, ReadStep, Open, Close, ReadCall, StrlenStep, StrlenEnd,
       StrlenOverrun, ReadEof, ReadGoesOn, NulStore, CopyOut, ReadDone, ReadFault, ReadReturn
  <2>2. ReaderIdle' /\ WriterAlone'
    BY <1>2, ReaderKeepsIdle, ReaderKeepsAlone DEF MessageInv
  <2>3. lastMsg # Unknown => Determined'
    BY <1>2, ReaderDetermined DEF MessageInv
  <2> QED BY <2>1, <2>2, <2>3 DEF MessageInv
<1> QED BY <1>1, <1>2, WriterMessage DEF Next

\* Once a write ran alone the buffer holds its bytes and its terminator, and reads leave
\* it that way, though each of them stores a '\0' (my_read's device_buffer[length]).
THEOREM MessageIsKept == Spec => []MessageKept
<1>1. TypeOK /\ MessageInv => MessageKept
  BY StandingMessage DEF MessageInv, Determined, MessageKept
<1> QED BY InitMessage, StepMessage, TypeCorrect, <1>1, PTL DEF Spec

\* A read that no write overlapped returns that message, from its start and in full,
\* however many other reads run beside it.
THEOREM CleanReadsAreExact == Spec => []CleanReadExact
<1>1. TypeOK /\ MessageInv => CleanReadExact
  <2> SUFFICES ASSUME TypeOK, MessageInv, NEW r \in Readers, Reading(r), lastMsg # Unknown
               PROVE  /\ rpc[r] \in {"check", "nul", "copy"} => length[r] = Len(lastMsg)
                      /\ out[r] = SubSeq(lastMsg, 1, Len(out[r]))
    BY DEF CleanReadExact
  <2>1. Found(r) /\ lastMsg \in Seq(Chars) /\ out[r] \in Seq(Bytes \cup {Unknown})
    BY DEF MessageInv, Determined, TypeOK
  <2>2. SubSeq(lastMsg, 1, Len(out[r])) = [j \in 1 .. Len(out[r]) |-> lastMsg[j]]
    BY <2>1 DEF Found
  <2>3. out[r] = [j \in 1 .. Len(out[r]) |-> out[r][j]]
    BY <2>1
  <2> QED BY <2>1, <2>2, <2>3 DEF Found
<1> QED BY InitMessage, StepMessage, TypeCorrect, <1>1, PTL DEF Spec
=============================================================================
