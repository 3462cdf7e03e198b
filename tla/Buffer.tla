------------------------------- MODULE Buffer -------------------------------
(***************************************************************************)
(* The user-space buffer of server/net/Buffer.{h,cc}: a vector of bytes    *)
(* with two indices into it.  What can be read lies between them; the      *)
(* first KCheapPrepend bytes are kept free for prepend.  When the room     *)
(* behind writeIndex runs out, append either moves what can be read to the *)
(* front or makes the vector longer, whichever is enough.                  *)
(*                                                                         *)
(* Indices count from 0, as in the code; the byte at index i is            *)
(* buffer[i + 1].  An assert on an argument is the caller's duty and a     *)
(* guard here; the asserts inside append are about Buffer itself: failed   *)
(* says that one of them did not hold.                                     *)
(***************************************************************************)
EXTENDS Naturals, Sequences

CONSTANTS
  Bytes,
  Zero,            \* the byte a vector is filled with
  KCheapPrepend,
  KInitialSize,
  Extra,           \* size of readFd's second buffer, on the stack
  Chunks,          \* what is appended, prepended or arrives on the descriptor
  MaxSize          \* bound: nothing is added when the vector might outgrow it

ASSUME ZeroAssumption == Zero \in Bytes
ASSUME SizesAssumption == KCheapPrepend \in Nat /\ KInitialSize \in Nat /\ Extra \in Nat
ASSUME ChunksAssumption == Chunks \subseteq Seq(Bytes)
ASSUME MaxSizeAssumption == MaxSize \in Nat

VARIABLES
  buffer, readIndex, writeIndex,
  failed,     \* an assert inside append has failed
  result      \* what the last operation returned, if it returns bytes

vars == <<buffer, readIndex, writeIndex, failed, result>>

TypeOK ==
  /\ buffer \in Seq(Bytes)
  /\ readIndex \in Nat
  /\ writeIndex \in Nat
  /\ readIndex <= writeIndex
  /\ writeIndex <= Len(buffer)
  /\ failed \in BOOLEAN
  /\ result \in Seq(Bytes)

Init ==
  /\ buffer = [i \in 1..KInitialSize + KCheapPrepend |-> Zero]
  /\ readIndex = KCheapPrepend
  /\ writeIndex = KCheapPrepend
  /\ failed = FALSE
  /\ result = <<>>

readableBytes == writeIndex - readIndex
writeableBytes == Len(buffer) - writeIndex
prependableBytes == readIndex

\* The bytes from peek() on, which are those a read hands out.
readable == SubSeq(buffer, readIndex + 1, writeIndex)

-----------------------------------------------------------------------------
(* Adding.                                                                 *)

\* std::copy of data to index at of b.
Copy(b, at, data) ==
  [i \in 1..Len(b) |-> IF at < i /\ i <= at + Len(data) THEN data[i - at] ELSE b[i]]

\* vector::resize to a larger size.
Resize(b, size) == [i \in 1..size |-> IF i <= Len(b) THEN b[i] ELSE Zero]

\* Mutant of MakeSpace: what can be read stays where it was.
MakeSpaceUnmoved(b, rd, wr, len) ==
  IF Len(b) - wr >= len
    THEN [buffer |-> b, readIndex |-> rd, writeIndex |-> wr, ok |-> TRUE]
    ELSE IF (Len(b) - wr) + rd < len + KCheapPrepend
    THEN [buffer |-> Resize(b, wr + len), readIndex |-> rd, writeIndex |-> wr, ok |-> TRUE]
    ELSE [buffer     |-> b,
          readIndex  |-> KCheapPrepend,
          writeIndex |-> KCheapPrepend + (wr - rd),
          ok         |-> KCheapPrepend < rd]

\* Mutant of MakeSpace: the vector is made longer whenever its end is reached.
MakeSpaceGrowing(b, rd, wr, len) ==
  [buffer     |-> IF Len(b) - wr >= len THEN b ELSE Resize(b, wr + len),
   readIndex  |-> rd,
   writeIndex |-> wr,
   ok         |-> TRUE]

\* Mutant of MakeSpace: the bytes kept for prepend are counted as room.
MakeSpaceGreedy(b, rd, wr, len) ==
  IF Len(b) - wr >= len
    THEN [buffer |-> b, readIndex |-> rd, writeIndex |-> wr, ok |-> TRUE]
    ELSE IF (Len(b) - wr) + rd < len
    THEN [buffer |-> Resize(b, wr + len), readIndex |-> rd, writeIndex |-> wr, ok |-> TRUE]
    ELSE [buffer     |-> Copy(b, KCheapPrepend, SubSeq(b, rd + 1, wr)),
          readIndex  |-> KCheapPrepend,
          writeIndex |-> KCheapPrepend + (wr - rd),
          ok         |-> KCheapPrepend < rd]

\* The first half of append: room for len bytes behind the write index, and
\* whether its first assert holds.
MakeSpace(b, rd, wr, len) ==
  IF Len(b) - wr >= len
    THEN [buffer |-> b, readIndex |-> rd, writeIndex |-> wr, ok |-> TRUE]
    ELSE IF (Len(b) - wr) + rd < len + KCheapPrepend
    THEN [buffer |-> Resize(b, wr + len), readIndex |-> rd, writeIndex |-> wr, ok |-> TRUE]
    ELSE [buffer     |-> Copy(b, KCheapPrepend, SubSeq(b, rd + 1, wr)),
          readIndex  |-> KCheapPrepend,
          writeIndex |-> KCheapPrepend + (wr - rd),
          ok         |-> KCheapPrepend < rd]

\* append, called with the indices rd and wr into b.
AppendAt(b, rd, wr, data) ==
  LET s == MakeSpace(b, rd, wr, Len(data))
  IN IF s.ok /\ Len(s.buffer) - s.writeIndex >= Len(data)
       THEN /\ buffer' = Copy(s.buffer, s.writeIndex, data)
            /\ readIndex' = s.readIndex
            /\ writeIndex' = s.writeIndex + Len(data)
            /\ UNCHANGED failed
       ELSE /\ failed' = TRUE
            /\ UNCHANGED <<buffer, readIndex, writeIndex>>

Running(data) == ~failed /\ writeIndex + Len(data) <= MaxSize

append(data) ==
  /\ Running(data)
  /\ AppendAt(buffer, readIndex, writeIndex, data)
  /\ result' = <<>>

\* Mutant of readFd: the second buffer is forgotten.
readFdShort(data) ==
  /\ Running(data)
  /\ Len(data) <= writeableBytes + Extra
  /\ buffer' = Copy(buffer, writeIndex, data)
  /\ writeIndex' = writeIndex + Len(data)
  /\ UNCHANGED <<readIndex, failed>>
  /\ result' = <<>>

\* readv fills what is left of the vector, then the buffer on the stack, and
\* append takes over what is there.
readFd(data) ==
  /\ Running(data)
  /\ Len(data) <= writeableBytes + Extra
  /\ IF Len(data) <= writeableBytes
       THEN /\ buffer' = Copy(buffer, writeIndex, data)
            /\ writeIndex' = writeIndex + Len(data)
            /\ UNCHANGED <<readIndex, failed>>
       ELSE AppendAt(Copy(buffer, writeIndex, SubSeq(data, 1, writeableBytes)),
                     readIndex, Len(buffer),
                     SubSeq(data, writeableBytes + 1, Len(data)))
  /\ result' = <<>>

prepend(data) ==
  /\ ~failed
  /\ Len(data) <= prependableBytes
  /\ readIndex' = readIndex - Len(data)
  /\ buffer' = Copy(buffer, readIndex - Len(data), data)
  /\ UNCHANGED <<writeIndex, failed>>
  /\ result' = <<>>

-----------------------------------------------------------------------------
(* Taking.                                                                 *)

\* Mutant of Drop: the indices are not reset when nothing is left.
DropOnly(len) == readIndex' = readIndex + len /\ UNCHANGED writeIndex

\* The body of retrieve and, when nothing is left, of retrieveAll.
Drop(len) ==
  IF len < readableBytes
    THEN readIndex' = readIndex + len /\ UNCHANGED writeIndex
    ELSE readIndex' = KCheapPrepend /\ writeIndex' = KCheapPrepend

\* retrieve, retrieveUntil and retrieveAll.
retrieve(len) ==
  /\ ~failed
  /\ len <= readableBytes
  /\ Drop(len)
  /\ UNCHANGED <<buffer, failed>>
  /\ result' = <<>>

\* retrieveAsString and retrieveAllAsString.
retrieveAsString(len) ==
  /\ ~failed
  /\ len <= readableBytes
  /\ result' = SubSeq(readable, 1, len)
  /\ Drop(len)
  /\ UNCHANGED <<buffer, failed>>

Next ==
  \/ \E data \in Chunks : append(data)
  \/ \E data \in Chunks : readFd(data)
  \/ \E data \in Chunks : prepend(data)
  \/ \E len \in 0..readableBytes : retrieve(len)
  \/ \E len \in 0..readableBytes : retrieveAsString(len)

Spec == Init /\ [][Next]_vars

-----------------------------------------------------------------------------
(* Safety.                                                                 *)

\* The asserts inside append hold: moving is tried only when there is
\* something to gain by it, and the room made is enough (Buffer.cc:101-109).
AssertsHold == ~failed

\* An empty buffer has its full room for prepending and its full room behind,
\* however it was emptied (Buffer.cc:33-57).
EmptyIsReset == readableBytes = 0 => readIndex = KCheapPrepend

\* The vector grows only when the bytes to be kept could not be held behind
\* the room for prepending even if they were moved (Buffer.cc:91-113).
GrowthIsNeeded ==
  [][Len(buffer') > Len(buffer) =>
       KCheapPrepend + (writeIndex' - readIndex') > Len(buffer)]_vars

\* Neither moving nor growing, nor splitting what arrives between the vector
\* and the stack, loses, repeats or reorders a byte.
Queue == INSTANCE ByteQueue WITH queue <- readable, taken <- result

RefinesByteQueue == Queue!Spec
=============================================================================
