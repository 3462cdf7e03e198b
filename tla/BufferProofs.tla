---------------------------- MODULE BufferProofs ----------------------------
(* Buffer keeps its indices in order, its asserts hold, it grows only when  *)
(* it must, and it implements ByteQueue: for every set of bytes and chunks  *)
(* and every choice of its three sizes.                                     *)
EXTENDS Buffer, SequenceTheorems, TLAPS

\* A vector and two indices into it that are in order.
Indexed(b, rd, wr) ==
  /\ b \in Seq(Bytes)
  /\ rd \in Nat
  /\ wr \in Nat
  /\ rd <= wr
  /\ wr <= Len(b)

\* The bytes that can be read.
Window(b, rd, wr) == SubSeq(b, rd + 1, wr)

-----------------------------------------------------------------------------
(* The copies.                                                             *)

\* The bytes between the two indices, one by one.
LEMMA WindowProperties ==
  ASSUME NEW b, NEW rd, NEW wr, Indexed(b, rd, wr)
  PROVE  LET w == Window(b, rd, wr)
         IN /\ w \in Seq(Bytes)
            /\ Len(w) = wr - rd
            /\ \A i \in 1..wr - rd : w[i] = b[rd + i]
<1>1. \A i \in rd + 1..wr : b[i] \in Bytes
  BY ElementOfSeq DEF Indexed
<1>2. rd + 1 \in Int /\ wr \in Int
  BY DEF Indexed
<1>3. /\ SubSeq(b, rd + 1, wr) \in Seq(Bytes)
      /\ Len(SubSeq(b, rd + 1, wr)) = IF rd + 1 <= wr THEN wr - (rd + 1) + 1 ELSE 0
      /\ \A i \in 1..wr - (rd + 1) + 1 : SubSeq(b, rd + 1, wr)[i] = b[(rd + 1) + i - 1]
  BY <1>1, <1>2, SubSeqProperties
<1> QED
  BY <1>3 DEF Indexed, Window

\* std::copy within the vector changes the bytes it covers and no others.
LEMMA CopyProperties ==
  ASSUME NEW b \in Seq(Bytes), NEW at \in Nat, NEW data \in Seq(Bytes)
  PROVE  /\ Copy(b, at, data) \in Seq(Bytes)
         /\ Len(Copy(b, at, data)) = Len(b)
         /\ \A i \in 1..Len(b) :
              Copy(b, at, data)[i] =
                IF at < i /\ i <= at + Len(data) THEN data[i - at] ELSE b[i]
<1> DEFINE e(i) == IF at < i /\ i <= at + Len(data) THEN data[i - at] ELSE b[i]
<1>1. Len(b) \in Nat /\ Len(data) \in Nat
  BY LenProperties
<1>2. ASSUME NEW i \in 1..Len(b) PROVE e(i) \in Bytes
  <2>1. CASE at < i /\ i <= at + Len(data)
    <3>1. i - at \in 1..Len(data)
      BY <1>1, <2>1
    <3> QED
      BY <2>1, <3>1, ElementOfSeq
  <2>2. CASE ~(at < i /\ i <= at + Len(data))
    BY <2>2, ElementOfSeq
  <2> QED
    BY <2>1, <2>2
<1>3. Copy(b, at, data) = [i \in 1..Len(b) |-> e(i)]
  BY DEF Copy
<1> HIDE DEF e
<1>4. [i \in 1..Len(b) |-> e(i)] \in Seq(Bytes)
  BY <1>1, <1>2, IsASeq
<1>5. Len([i \in 1..Len(b) |-> e(i)]) = Len(b)
  BY <1>1, <1>4, LenProperties
<1> QED
  BY <1>3, <1>4, <1>5 DEF e

\* A longer vector begins with the old one.
LEMMA ResizeProperties ==
  ASSUME NEW b \in Seq(Bytes), NEW size \in Nat
  PROVE  /\ Resize(b, size) \in Seq(Bytes)
         /\ Len(Resize(b, size)) = size
         /\ \A i \in 1..size : Resize(b, size)[i] = IF i <= Len(b) THEN b[i] ELSE Zero
<1> DEFINE e(i) == IF i <= Len(b) THEN b[i] ELSE Zero
<1>1. Len(b) \in Nat
  BY LenProperties
<1>2. ASSUME NEW i \in 1..size PROVE e(i) \in Bytes
  <2>1. CASE i <= Len(b)
    <3>1. i \in 1..Len(b)
      BY <1>1, <2>1
    <3> QED
      BY <2>1, <3>1, ElementOfSeq
  <2> QED
    BY <2>1, ZeroAssumption
<1>3. Resize(b, size) = [i \in 1..size |-> e(i)]
  BY DEF Resize
<1> HIDE DEF e
<1>4. [i \in 1..size |-> e(i)] \in Seq(Bytes)
  BY <1>2, IsASeq
<1>5. Len([i \in 1..size |-> e(i)]) = size
  BY <1>4, LenProperties
<1> QED
  BY <1>3, <1>4, <1>5 DEF e

\* Copying data right behind what can be read lengthens it by data.
LEMMA CopyBehind ==
  ASSUME NEW b, NEW rd, NEW wr, Indexed(b, rd, wr),
         NEW data \in Seq(Bytes), wr + Len(data) <= Len(b)
  PROVE  LET c == Copy(b, wr, data)
         IN /\ Indexed(c, rd, wr + Len(data))
            /\ Len(c) = Len(b)
            /\ Window(c, rd, wr + Len(data)) = Window(b, rd, wr) \o data
<1> DEFINE c == Copy(b, wr, data)
           end == wr + Len(data)
           new == Window(c, rd, end)
           old == Window(b, rd, wr)
<1>1. Len(data) \in Nat /\ Len(b) \in Nat /\ wr \in Nat /\ rd \in Nat /\ rd <= wr
  BY LenProperties DEF Indexed
<1>2. /\ c \in Seq(Bytes)
      /\ Len(c) = Len(b)
      /\ \A i \in 1..Len(b) :
           c[i] = IF wr < i /\ i <= wr + Len(data) THEN data[i - wr] ELSE b[i]
  BY <1>1, CopyProperties DEF Indexed
<1> HIDE DEF c
<1>3. Indexed(c, rd, end)
  BY <1>1, <1>2 DEF Indexed
<1> HIDE DEF end
<1>4. /\ new \in Seq(Bytes)
      /\ Len(new) = end - rd
      /\ \A i \in 1..end - rd : new[i] = c[rd + i]
  BY <1>3, WindowProperties
<1>5. /\ old \in Seq(Bytes)
      /\ Len(old) = wr - rd
      /\ \A i \in 1..wr - rd : old[i] = b[rd + i]
  BY WindowProperties
<1> HIDE DEF new, old
<1>6. /\ old \o data \in Seq(Bytes)
      /\ Len(old \o data) = Len(old) + Len(data)
      /\ \A i \in 1..Len(old) + Len(data) :
           (old \o data)[i] = IF i <= Len(old) THEN old[i] ELSE data[i - Len(old)]
  BY <1>5, ConcatProperties
<1>7. Len(new) = Len(old \o data)
  BY <1>1, <1>4, <1>5, <1>6 DEF end
<1>8. ASSUME NEW i \in 1..Len(new) PROVE new[i] = (old \o data)[i]
  <2>1. i \in 1..end - rd /\ i \in 1..wr + Len(data) - rd /\ rd + i \in 1..Len(b)
    BY <1>1, <1>4 DEF end
  <2>2. new[i] = c[rd + i]
    BY <1>4, <2>1
  <2>3. CASE i <= wr - rd
    <3>1. i \in 1..wr - rd /\ rd + i <= wr /\ i <= Len(old) /\ i \in 1..Len(old) + Len(data)
      BY <1>1, <1>5, <2>1, <2>3
    <3>2. c[rd + i] = b[rd + i]
      BY <1>1, <1>2, <2>1, <3>1
    <3>3. (old \o data)[i] = b[rd + i]
      BY <1>5, <1>6, <3>1
    <3> QED
      BY <2>2, <3>2, <3>3
  <2>4. CASE ~(i <= wr - rd)
    <3>1. /\ wr < rd + i /\ rd + i <= wr + Len(data) /\ (rd + i) - wr = i - (wr - rd)
          /\ ~(i <= Len(old)) /\ i \in 1..Len(old) + Len(data)
      BY <1>1, <1>5, <2>1, <2>4
    <3>2. c[rd + i] = data[i - (wr - rd)]
      BY <1>2, <2>1, <3>1
    <3>3. (old \o data)[i] = data[i - (wr - rd)]
      BY <1>5, <1>6, <3>1
    <3> QED
      BY <2>2, <3>2, <3>3
  <2> QED
    BY <2>3, <2>4
<1>9. new = old \o data
  BY <1>4, <1>6, <1>7, <1>8, SeqEqual
<1> QED
  BY <1>2, <1>3, <1>9 DEF c, new, old, end

-----------------------------------------------------------------------------
(* append.                                                                 *)

\* The first half of append keeps what can be read and makes the room it was
\* asked for; both of append's asserts hold; and it makes the vector longer
\* only if moving would not have been enough (Buffer.cc:93-109).
LEMMA MakeSpaceEffect ==
  ASSUME NEW b, NEW rd, NEW wr, Indexed(b, rd, wr), NEW len \in Nat
  PROVE  LET s == MakeSpace(b, rd, wr, len)
         IN /\ s.ok
            /\ Indexed(s.buffer, s.readIndex, s.writeIndex)
            /\ Len(s.buffer) - s.writeIndex >= len
            /\ s.writeIndex + len <= Len(s.buffer)
            /\ Window(s.buffer, s.readIndex, s.writeIndex) = Window(b, rd, wr)
            /\ s.writeIndex - s.readIndex = wr - rd
            /\ Len(s.buffer) >= Len(b)
            /\ Len(s.buffer) > Len(b) => KCheapPrepend + (wr - rd) + len > Len(b)
            /\ len = 0 => s.readIndex = rd
<1> DEFINE s == MakeSpace(b, rd, wr, len)
<1>1. Len(b) \in Nat /\ b \in Seq(Bytes) /\ rd \in Nat /\ wr \in Nat /\ rd <= wr /\ wr <= Len(b)
  BY LenProperties DEF Indexed
<1>2. KCheapPrepend \in Nat
  BY SizesAssumption
<1>3. CASE Len(b) - wr >= len
  <2>1. s = [buffer |-> b, readIndex |-> rd, writeIndex |-> wr, ok |-> TRUE]
    BY <1>3 DEF MakeSpace
  <2> QED
    BY <1>1, <1>3, <2>1
<1>4. CASE ~(Len(b) - wr >= len) /\ (Len(b) - wr) + rd < len + KCheapPrepend
  <2> DEFINE r == Resize(b, wr + len)
  <2>1. s = [buffer |-> r, readIndex |-> rd, writeIndex |-> wr, ok |-> TRUE]
    BY <1>4 DEF MakeSpace
  <2>2. wr + len \in Nat /\ Len(b) < wr + len
    BY <1>1, <1>4
  <2>3. /\ r \in Seq(Bytes)
        /\ Len(r) = wr + len
        /\ \A i \in 1..wr + len : r[i] = IF i <= Len(b) THEN b[i] ELSE Zero
    BY <1>1, <2>2, ResizeProperties
  <2> HIDE DEF r
  <2>4. Indexed(r, rd, wr)
    BY <1>1, <2>3 DEF Indexed
  <2>5. /\ Window(r, rd, wr) \in Seq(Bytes)
        /\ Len(Window(r, rd, wr)) = wr - rd
        /\ \A i \in 1..wr - rd : Window(r, rd, wr)[i] = r[rd + i]
    BY <2>4, WindowProperties
  <2>6. /\ Window(b, rd, wr) \in Seq(Bytes)
        /\ Len(Window(b, rd, wr)) = wr - rd
        /\ \A i \in 1..wr - rd : Window(b, rd, wr)[i] = b[rd + i]
    BY WindowProperties
  <2>7. \A i \in 1..wr - rd : r[rd + i] = b[rd + i]
    BY <1>1, <2>3
  <2>8. Window(r, rd, wr) = Window(b, rd, wr)
    BY <2>5, <2>6, <2>7, SeqEqual
  <2>9. s.buffer = r /\ s.readIndex = rd /\ s.writeIndex = wr /\ s.ok
    BY <2>1
  <2> HIDE DEF s
  <2> QED
    BY <1>1, <1>2, <1>4, <2>2, <2>3, <2>4, <2>8, <2>9 DEF s
<1>5. CASE ~(Len(b) - wr >= len) /\ ~((Len(b) - wr) + rd < len + KCheapPrepend)
  <2> DEFINE w == Window(b, rd, wr)
             c == Copy(b, KCheapPrepend, w)
             end == KCheapPrepend + (wr - rd)
  <2>1. KCheapPrepend < rd /\ end \in Nat /\ end + len <= Len(b)
    BY <1>1, <1>2, <1>5
  <2>2. /\ s.buffer = c /\ s.readIndex = KCheapPrepend /\ s.writeIndex = end
        /\ s.ok = (KCheapPrepend < rd)
    BY <1>5 DEF MakeSpace, Window
  <2>3. /\ w \in Seq(Bytes)
        /\ Len(w) = wr - rd
        /\ \A i \in 1..wr - rd : w[i] = b[rd + i]
    BY WindowProperties
  <2> HIDE DEF w
  <2>4. /\ c \in Seq(Bytes)
        /\ Len(c) = Len(b)
        /\ \A i \in 1..Len(b) :
             c[i] = IF KCheapPrepend < i /\ i <= KCheapPrepend + Len(w)
                      THEN w[i - KCheapPrepend] ELSE b[i]
    BY <1>1, <1>2, <2>3, CopyProperties
  <2> HIDE DEF c
  <2>5. Indexed(c, KCheapPrepend, end)
    BY <1>1, <1>2, <2>1, <2>4 DEF Indexed
  <2>6. /\ Window(c, KCheapPrepend, end) \in Seq(Bytes)
        /\ Len(Window(c, KCheapPrepend, end)) = end - KCheapPrepend
        /\ \A i \in 1..end - KCheapPrepend :
             Window(c, KCheapPrepend, end)[i] = c[KCheapPrepend + i]
    BY <2>5, WindowProperties
  <2>7. end - KCheapPrepend = wr - rd
    BY <1>1, <1>2
  <2>8. ASSUME NEW i \in 1..wr - rd PROVE c[KCheapPrepend + i] = w[i]
    <3>1. KCheapPrepend + i \in 1..Len(b) /\ (KCheapPrepend + i) - KCheapPrepend = i
          /\ KCheapPrepend < KCheapPrepend + i /\ KCheapPrepend + i <= KCheapPrepend + (wr - rd)
      BY <1>1, <1>2, <2>1
    <3>2. c[KCheapPrepend + i] =
            IF KCheapPrepend < KCheapPrepend + i /\ KCheapPrepend + i <= KCheapPrepend + Len(w)
              THEN w[(KCheapPrepend + i) - KCheapPrepend] ELSE b[KCheapPrepend + i]
      BY <2>4, <3>1
    <3> QED
      BY <2>3, <3>1, <3>2
  <2>9. Window(c, KCheapPrepend, end) = w
    BY <2>3, <2>6, <2>7, <2>8, SeqEqual
  <2>10. s.ok
    BY <2>1, <2>2
  <2>11. len # 0
    BY <1>1, <1>5
  <2> HIDE DEF s
  <2> QED
    BY <1>1, <1>2, <2>1, <2>2, <2>4, <2>5, <2>7, <2>9, <2>10, <2>11 DEF s, w
<1> QED
  BY <1>3, <1>4, <1>5

\* append puts data behind what could be read, and its asserts hold.
LEMMA AppendAtEffect ==
  ASSUME NEW b, NEW rd, NEW wr, Indexed(b, rd, wr), NEW data \in Seq(Bytes),
         AppendAt(b, rd, wr, data)
  PROVE  /\ Indexed(buffer', readIndex', writeIndex')
         /\ UNCHANGED failed
         /\ readable' = Window(b, rd, wr) \o data
         /\ writeIndex' - readIndex' = (wr - rd) + Len(data)
         /\ Len(buffer') >= Len(b)
         /\ Len(buffer') > Len(b) => KCheapPrepend + (wr - rd) + Len(data) > Len(b)
         /\ Len(data) = 0 => readIndex' = rd
<1> DEFINE len == Len(data)
           s == MakeSpace(b, rd, wr, len)
           old == Window(b, rd, wr)
<1>1. len \in Nat
  BY LenProperties
<1> HIDE DEF len
<1> DEFINE B == s.buffer
           R == s.readIndex
           W == s.writeIndex
           c == Copy(B, W, data)
<1>2. s.ok
  BY <1>1, MakeSpaceEffect
<1>3. Indexed(B, R, W)
  BY <1>1, MakeSpaceEffect
<1>4. W + len <= Len(B)
  BY <1>1, MakeSpaceEffect
<1>5. Window(B, R, W) = old
  BY <1>1, MakeSpaceEffect
<1>6. W - R = wr - rd
  BY <1>1, MakeSpaceEffect
<1>7. Len(B) >= Len(b) /\ (Len(B) > Len(b) => KCheapPrepend + (wr - rd) + len > Len(b))
  BY <1>1, MakeSpaceEffect
<1>8. len = 0 => R = rd
  BY <1>1, MakeSpaceEffect
<1>9. /\ IF s.ok /\ Len(B) - W >= len
            THEN buffer' = c /\ readIndex' = R /\ writeIndex' = W + len /\ UNCHANGED failed
            ELSE failed' = TRUE /\ UNCHANGED <<buffer, readIndex, writeIndex>>
  BY DEF AppendAt, len
<1> HIDE DEF B, R, W, s
<1>10. B \in Seq(Bytes) /\ Len(B) \in Nat /\ R \in Nat /\ W \in Nat /\ wr \in Nat /\ rd \in Nat
  BY <1>3, LenProperties DEF Indexed
<1>11. Len(B) - W >= len
  BY <1>1, <1>4, <1>10
<1>12. buffer' = c /\ readIndex' = R /\ writeIndex' = W + len /\ UNCHANGED failed
  BY <1>2, <1>9, <1>11
<1>13. /\ Indexed(c, R, W + len)
       /\ Len(c) = Len(B)
       /\ Window(c, R, W + len) = Window(B, R, W) \o data
  <2>1. W + Len(data) <= Len(B)
    BY <1>4 DEF len
  <2>2. /\ Indexed(c, R, W + Len(data))
        /\ Len(c) = Len(B)
        /\ Window(c, R, W + Len(data)) = Window(B, R, W) \o data
    BY <1>3, <2>1, CopyBehind
  <2> QED
    BY <2>2 DEF len
<1> HIDE DEF c
<1>14. writeIndex' - readIndex' = (wr - rd) + len
  BY <1>1, <1>6, <1>10, <1>12
<1>15. readable' = old \o data
  BY <1>5, <1>12, <1>13 DEF readable, Window
<1> QED
  BY <1>7, <1>8, <1>12, <1>13, <1>14, <1>15 DEF len

-----------------------------------------------------------------------------
(* The inductive invariant.  That an emptied buffer is reset needs nothing *)
(* but itself and the types; that the asserts hold needs the order of the  *)
(* indices, without which moving could fail to make room; and the order of *)
(* the indices needs one thing more, which no property above says: the     *)
(* vector always reaches as far as the place an emptied buffer goes to.    *)

PlaceForReset == KCheapPrepend <= Len(buffer)

IInv == TypeOK /\ PlaceForReset /\ AssertsHold /\ EmptyIsReset

\* The type invariant has the indices in order.
LEMMA InvIndexed ==
  ASSUME TypeOK
  PROVE  Indexed(buffer, readIndex, writeIndex)
BY DEF TypeOK, Indexed

\* A new Buffer satisfies it (Buffer.cc:3-11).
LEMMA InitInv == Init => IInv
<1> SUFFICES ASSUME Init PROVE IInv
  OBVIOUS
<1> DEFINE size == KInitialSize + KCheapPrepend
<1>1. size \in Nat /\ KCheapPrepend \in Nat /\ KCheapPrepend <= size
  BY SizesAssumption
<1> HIDE DEF size
<1> DEFINE zeros == [i \in 1..size |-> Zero]
<1>2. \A i \in 1..size : Zero \in Bytes
  BY ZeroAssumption
<1>3. zeros \in Seq(Bytes)
  BY <1>1, <1>2, IsASeq
<1>4. Len(zeros) = size
  BY <1>1, <1>3, LenProperties
<1>5. <<>> \in Seq(Bytes)
  BY EmptySeq
<1>6. buffer = zeros /\ readIndex = KCheapPrepend /\ writeIndex = KCheapPrepend
      /\ failed = FALSE /\ result = <<>>
  BY DEF Init, size
<1> HIDE DEF zeros
<1>7. TypeOK
  <2>1. buffer \in Seq(Bytes) /\ result \in Seq(Bytes) /\ failed \in BOOLEAN
    BY <1>3, <1>5, <1>6
  <2>2. writeIndex \in Nat /\ readIndex \in Nat /\ readIndex <= writeIndex
        /\ writeIndex <= Len(buffer)
    BY <1>1, <1>4, <1>6
  <2> QED
    BY <2>1, <2>2 DEF TypeOK
<1>8. PlaceForReset
  BY <1>1, <1>4, <1>6 DEF PlaceForReset
<1>9. AssertsHold /\ EmptyIsReset
  BY <1>6 DEF AssertsHold, EmptyIsReset
<1> QED
  BY <1>7, <1>8, <1>9 DEF IInv

\* What every operation that adds data at the end amounts to.
Added(data) ==
  /\ Indexed(buffer', readIndex', writeIndex')
  /\ UNCHANGED failed
  /\ readable' = readable \o data
  /\ writeIndex' - readIndex' = (writeIndex - readIndex) + Len(data)
  /\ Len(buffer') >= Len(buffer)
  /\ Len(buffer') > Len(buffer) =>
       KCheapPrepend + (writeIndex' - readIndex') > Len(buffer)
  /\ Len(data) = 0 => readIndex' = readIndex
  /\ result' = <<>>

\* append does (Buffer.cc:91-113).
LEMMA AppendAdds ==
  ASSUME TypeOK, NEW data \in Chunks, append(data)
  PROVE  Added(data)
<1>1. data \in Seq(Bytes) /\ Len(data) \in Nat /\ KCheapPrepend \in Nat
  BY ChunksAssumption, SizesAssumption, LenProperties
<1>2. Indexed(buffer, readIndex, writeIndex)
  BY InvIndexed
<1>3. /\ Indexed(buffer', readIndex', writeIndex')
      /\ UNCHANGED failed
      /\ readable' = Window(buffer, readIndex, writeIndex) \o data
      /\ writeIndex' - readIndex' = (writeIndex - readIndex) + Len(data)
      /\ Len(buffer') >= Len(buffer)
      /\ Len(buffer') > Len(buffer) =>
           KCheapPrepend + (writeIndex - readIndex) + Len(data) > Len(buffer)
      /\ Len(data) = 0 => readIndex' = readIndex
  BY <1>1, <1>2, AppendAtEffect DEF append
<1>4. readable = Window(buffer, readIndex, writeIndex)
  BY DEF readable, Window
<1>5. KCheapPrepend + (writeIndex' - readIndex') = KCheapPrepend + (writeIndex - readIndex) + Len(data)
  BY <1>1, <1>3 DEF TypeOK
<1> QED
  BY <1>3, <1>4, <1>5 DEF Added, append

\* readFd does: the bytes that fit the vector come first, then those that
\* went to the stack (Buffer.cc:115-138).
LEMMA ReadFdAdds ==
  ASSUME TypeOK, NEW data \in Chunks, readFd(data)
  PROVE  Added(data)
<1>1. /\ data \in Seq(Bytes) /\ Len(data) \in Nat /\ KCheapPrepend \in Nat
      /\ buffer \in Seq(Bytes) /\ Len(buffer) \in Nat
      /\ readIndex \in Nat /\ writeIndex \in Nat /\ writeIndex <= Len(buffer) /\ readIndex <= writeIndex
  BY ChunksAssumption, SizesAssumption, LenProperties DEF TypeOK
<1>2. Indexed(buffer, readIndex, writeIndex)
  BY InvIndexed
<1>3. readable = Window(buffer, readIndex, writeIndex)
  BY DEF readable, Window
<1>4. CASE Len(data) <= writeableBytes
  <2>1. /\ buffer' = Copy(buffer, writeIndex, data)
        /\ writeIndex' = writeIndex + Len(data)
        /\ UNCHANGED <<readIndex, failed>>
        /\ result' = <<>>
    BY <1>4 DEF readFd
  <2>2. writeIndex + Len(data) <= Len(buffer)
    BY <1>1, <1>4 DEF writeableBytes
  <2>3. /\ Indexed(buffer', readIndex, writeIndex + Len(data))
        /\ Len(buffer') = Len(buffer)
        /\ Window(buffer', readIndex, writeIndex + Len(data))
             = Window(buffer, readIndex, writeIndex) \o data
    <3> DEFINE c == Copy(buffer, writeIndex, data)
    <3>1. /\ Indexed(c, readIndex, writeIndex + Len(data))
          /\ Len(c) = Len(buffer)
          /\ Window(c, readIndex, writeIndex + Len(data))
               = Window(buffer, readIndex, writeIndex) \o data
      BY <1>1, <1>2, <2>2, CopyBehind
    <3>2. buffer' = c
      BY <2>1
    <3> HIDE DEF c
    <3> QED
      BY <3>1, <3>2
  <2>4. readable' = Window(buffer', readIndex, writeIndex + Len(data))
    BY <2>1 DEF readable, Window
  <2>5. Len(buffer') >= Len(buffer) /\ ~(Len(buffer') > Len(buffer))
    BY <1>1, <2>3
  <2>6. writeIndex' - readIndex' = (writeIndex - readIndex) + Len(data)
    BY <1>1, <2>1
  <2> QED
    BY <1>3, <2>1, <2>3, <2>4, <2>5, <2>6 DEF Added
<1>5. CASE ~(Len(data) <= writeableBytes)
  <2> DEFINE room == writeableBytes
             here == SubSeq(data, 1, room)
             rest == SubSeq(data, room + 1, Len(data))
             full == Copy(buffer, writeIndex, here)
  <2>1. AppendAt(full, readIndex, Len(buffer), rest) /\ result' = <<>>
    BY <1>5 DEF readFd
  <2>2. room \in Nat /\ room < Len(data) /\ writeIndex + room = Len(buffer)
    BY <1>1, <1>5 DEF writeableBytes
  <2> HIDE DEF room
  <2>3. /\ here \in Seq(Bytes) /\ Len(here) = room
        /\ rest \in Seq(Bytes) /\ Len(rest) = Len(data) - room
        /\ here \o rest = data
    <3>1. (\A i \in 1..room : data[i] \in Bytes) /\ (\A i \in room + 1..Len(data) : data[i] \in Bytes)
      BY <1>1, <2>2, ElementOfSeq
    <3>2. here \in Seq(Bytes) /\ Len(here) = IF 1 <= room THEN room - 1 + 1 ELSE 0
      BY <2>2, <3>1, SubSeqProperties
    <3>3. rest \in Seq(Bytes)
          /\ Len(rest) = IF room + 1 <= Len(data) THEN Len(data) - (room + 1) + 1 ELSE 0
      BY <1>1, <2>2, <3>1, SubSeqProperties
    <3>4. SubSeq(data, 1, room) \o SubSeq(data, room + 1, Len(data)) = SubSeq(data, 1, Len(data))
      <4>1. 1 \in 1..Len(data) + 1 /\ room \in 1 - 1..Len(data) /\ Len(data) \in room..Len(data)
        BY <1>1, <2>2
      <4> QED
        BY <1>1, <4>1, ConcatAdjacentSubSeq
    <3>5. SubSeq(data, 1, Len(data)) = data
      BY <1>1, SubSeqFull
    <3>6. here \o rest = data
      BY <3>4, <3>5
    <3> HIDE DEF here, rest
    <3> QED
      BY <1>1, <2>2, <3>2, <3>3, <3>6
  <2> HIDE DEF here, rest
  <2>4. /\ Indexed(full, readIndex, writeIndex + Len(here))
        /\ Len(full) = Len(buffer)
        /\ Window(full, readIndex, writeIndex + Len(here)) = readable \o here
    <3>1. writeIndex + Len(here) <= Len(buffer)
      BY <1>1, <2>2, <2>3
    <3>2. /\ Indexed(full, readIndex, writeIndex + Len(here))
          /\ Len(full) = Len(buffer)
          /\ Window(full, readIndex, writeIndex + Len(here))
               = Window(buffer, readIndex, writeIndex) \o here
      BY <1>2, <2>3, <3>1, CopyBehind
    <3> QED
      BY <1>3, <3>2
  <2> HIDE DEF full
  <2>5. writeIndex + Len(here) = Len(buffer)
    BY <2>2, <2>3
  <2>6. Indexed(full, readIndex, Len(buffer)) /\ Window(full, readIndex, Len(buffer)) = readable \o here
    BY <2>4, <2>5
  <2>7. /\ Indexed(buffer', readIndex', writeIndex')
        /\ UNCHANGED failed
        /\ readable' = Window(full, readIndex, Len(buffer)) \o rest
        /\ writeIndex' - readIndex' = (Len(buffer) - readIndex) + Len(rest)
        /\ Len(buffer') >= Len(full)
        /\ Len(buffer') > Len(full) =>
             KCheapPrepend + (Len(buffer) - readIndex) + Len(rest) > Len(full)
    <3>1. AppendAt(full, readIndex, Len(buffer), rest)
      BY <2>1
    <3>2. rest \in Seq(Bytes)
      BY <2>3
    <3>3. Indexed(full, readIndex, Len(buffer))
      BY <2>6
    <3> QED
      BY <3>1, <3>2, <3>3, AppendAtEffect
  <2>8. (readable \o here) \o rest = readable \o data
    <3>1. readable \in Seq(Bytes)
      BY <1>2, <1>3, WindowProperties
    <3>2. (readable \o here) \o rest = readable \o (here \o rest)
      <4>1. here \in Seq(Bytes) /\ rest \in Seq(Bytes)
        BY <2>3
      <4> QED
        BY <3>1, <4>1, ConcatAssociative
    <3>3. here \o rest = data
      BY <2>3
    <3> QED
      BY <3>2, <3>3
  <2>9. (Len(buffer) - readIndex) + Len(rest) = (writeIndex - readIndex) + Len(data)
    <3>1. Len(rest) = Len(data) - room
      BY <2>3
    <3> QED
      BY <1>1, <2>2, <3>1
  <2>10. /\ Len(buffer') >= Len(buffer)
         /\ Len(buffer') > Len(buffer) =>
              KCheapPrepend + (writeIndex' - readIndex') > Len(buffer)
    <3>1. KCheapPrepend + (Len(buffer) - readIndex) + Len(rest)
            = KCheapPrepend + ((Len(buffer) - readIndex) + Len(rest))
      BY <1>1, <2>2, <2>3
    <3> QED
      BY <2>4, <2>7, <3>1
  <2>11. Len(data) # 0
    BY <1>1, <2>2
  <2> QED
    BY <2>1, <2>6, <2>7, <2>8, <2>9, <2>10, <2>11 DEF Added
<1> QED
  BY <1>4, <1>5

\* prepend puts data before what could be read, in the room before it.
Prepended(data) ==
  /\ Indexed(buffer', readIndex', writeIndex')
  /\ UNCHANGED failed
  /\ readable' = data \o readable
  /\ writeIndex' - readIndex' = (writeIndex - readIndex) + Len(data)
  /\ Len(buffer') = Len(buffer)
  /\ Len(data) = 0 => readIndex' = readIndex
  /\ result' = <<>>

\* prepend does what Prepended says (Buffer.cc:83-89).
LEMMA PrependPrepends ==
  ASSUME TypeOK, NEW data \in Chunks, prepend(data)
  PROVE  Prepended(data)
<1> DEFINE at == readIndex - Len(data)
           c == Copy(buffer, at, data)
           new == Window(c, at, writeIndex)
           old == Window(buffer, readIndex, writeIndex)
<1>1. /\ data \in Seq(Bytes) /\ Len(data) \in Nat
      /\ buffer \in Seq(Bytes) /\ Len(buffer) \in Nat
      /\ readIndex \in Nat /\ writeIndex \in Nat /\ writeIndex <= Len(buffer) /\ readIndex <= writeIndex
  BY ChunksAssumption, LenProperties DEF TypeOK
<1>2. /\ buffer' = c /\ readIndex' = at /\ writeIndex' = writeIndex
      /\ UNCHANGED failed /\ result' = <<>> /\ Len(data) <= readIndex
  BY DEF prepend, prependableBytes
<1>3. at \in Nat /\ at + Len(data) = readIndex
  BY <1>1, <1>2
<1> HIDE DEF at
<1>4. /\ c \in Seq(Bytes)
      /\ Len(c) = Len(buffer)
      /\ \A i \in 1..Len(buffer) :
           c[i] = IF at < i /\ i <= at + Len(data) THEN data[i - at] ELSE buffer[i]
  BY <1>1, <1>3, CopyProperties
<1> HIDE DEF c
<1>5. Indexed(c, at, writeIndex)
  BY <1>1, <1>3, <1>4 DEF Indexed
<1>6. /\ new \in Seq(Bytes)
      /\ Len(new) = writeIndex - at
      /\ \A i \in 1..writeIndex - at : new[i] = c[at + i]
  BY <1>5, WindowProperties
<1>7. /\ old \in Seq(Bytes)
      /\ Len(old) = writeIndex - readIndex
      /\ \A i \in 1..writeIndex - readIndex : old[i] = buffer[readIndex + i]
  BY InvIndexed, WindowProperties
<1> HIDE DEF new, old
<1>8. /\ data \o old \in Seq(Bytes)
      /\ Len(data \o old) = Len(data) + Len(old)
      /\ \A i \in 1..Len(data) + Len(old) :
           (data \o old)[i] = IF i <= Len(data) THEN data[i] ELSE old[i - Len(data)]
  BY <1>1, <1>7, ConcatProperties
<1>9. Len(new) = Len(data \o old)
  <2>1. Len(new) = writeIndex - at /\ Len(old) = writeIndex - readIndex
    BY <1>6, <1>7
  <2>2. Len(new) = Len(data) + Len(old)
    BY <1>1, <1>3, <2>1
  <2> QED
    BY <1>8, <2>2
<1>10. ASSUME NEW i \in 1..Len(new) PROVE new[i] = (data \o old)[i]
  <2>1. /\ i \in 1..writeIndex - at /\ at + i \in 1..Len(buffer)
        /\ i \in 1..Len(data) + Len(old) /\ (at + i) - at = i
    BY <1>1, <1>3, <1>6, <1>7
  <2>2. new[i] = c[at + i]
    BY <1>6, <2>1
  <2>3. CASE i <= Len(data)
    <3>1. at < at + i /\ at + i <= at + Len(data)
      BY <1>1, <1>3, <2>1, <2>3
    <3>2. c[at + i] = data[i]
      BY <1>4, <2>1, <3>1
    <3>3. (data \o old)[i] = data[i]
      BY <1>8, <2>1, <2>3
    <3> QED
      BY <2>2, <3>2, <3>3
  <2>4. CASE ~(i <= Len(data))
    <3>1. /\ ~(at + i <= at + Len(data))
          /\ i - Len(data) \in 1..writeIndex - readIndex
          /\ readIndex + (i - Len(data)) = at + i
      BY <1>1, <1>3, <2>1, <2>4
    <3>2. c[at + i] = buffer[at + i]
      BY <1>4, <2>1, <3>1
    <3>3. (data \o old)[i] = old[i - Len(data)]
      BY <1>8, <2>1, <2>4
    <3>4. old[i - Len(data)] = buffer[at + i]
      BY <1>7, <3>1
    <3> QED
      BY <2>2, <3>2, <3>3, <3>4
  <2> QED
    BY <2>3, <2>4
<1>11. new = data \o old
  BY <1>6, <1>8, <1>9, <1>10, SeqEqual
<1>12. readable' = new /\ readable = old
  BY <1>2 DEF new, old, readable, Window
<1>13. writeIndex' - readIndex' = (writeIndex - readIndex) + Len(data)
  BY <1>1, <1>2, <1>3
<1>14. Len(data) = 0 => readIndex' = readIndex
  BY <1>1, <1>2, <1>3
<1> QED
  BY <1>2, <1>4, <1>5, <1>11, <1>12, <1>13, <1>14 DEF Prepended

\* What retrieve and retrieveAsString do to the vector and what can be read.
Dropped(len) ==
  /\ Indexed(buffer', readIndex', writeIndex')
  /\ readable' = SubSeq(readable, len + 1, Len(readable))
  /\ writeIndex' - readIndex' = 0 => readIndex' = KCheapPrepend
  /\ UNCHANGED <<buffer, failed>>

\* Advancing or resetting the indices does it (Buffer.cc:33-57).
LEMMA DropDrops ==
  ASSUME TypeOK, PlaceForReset, NEW len \in 0..readableBytes,
         Drop(len), UNCHANGED <<buffer, failed>>
  PROVE  Dropped(len)
<1> DEFINE old == Window(buffer, readIndex, writeIndex)
           rest == SubSeq(old, len + 1, Len(old))
           size == writeIndex - readIndex
<1>1. /\ buffer \in Seq(Bytes) /\ Len(buffer) \in Nat /\ KCheapPrepend \in Nat
      /\ readIndex \in Nat /\ writeIndex \in Nat /\ writeIndex <= Len(buffer) /\ readIndex <= writeIndex
  BY SizesAssumption, LenProperties DEF TypeOK
<1>2. len \in Nat /\ len <= size /\ size \in Nat
  BY <1>1 DEF readableBytes
<1>3. /\ old \in Seq(Bytes)
      /\ Len(old) = size
      /\ \A i \in 1..size : old[i] = buffer[readIndex + i]
  BY InvIndexed, WindowProperties
<1>4. readable = old
  BY DEF readable, Window
<1> HIDE DEF old
<1>5. /\ rest \in Seq(Bytes)
      /\ Len(rest) = size - len
      /\ \A i \in 1..size - len : rest[i] = old[len + i]
  <2>1. \A i \in len + 1..Len(old) : old[i] \in Bytes
    BY <1>2, <1>3, ElementOfSeq
  <2>2. len + 1 \in Int /\ Len(old) \in Int
    BY <1>2, <1>3
  <2>3. /\ SubSeq(old, len + 1, Len(old)) \in Seq(Bytes)
        /\ Len(SubSeq(old, len + 1, Len(old)))
             = IF len + 1 <= Len(old) THEN Len(old) - (len + 1) + 1 ELSE 0
        /\ \A i \in 1..Len(old) - (len + 1) + 1 :
             SubSeq(old, len + 1, Len(old))[i] = old[(len + 1) + i - 1]
    BY <2>1, <2>2, SubSeqProperties
  <2> HIDE DEF size
  <2> QED
    BY <1>2, <1>3, <2>3
<1> HIDE DEF rest
<1>6. CASE len < size
  <2> DEFINE new == Window(buffer, readIndex + len, writeIndex)
  <2>1. readIndex' = readIndex + len /\ writeIndex' = writeIndex /\ buffer' = buffer
    BY <1>6 DEF Drop, readableBytes
  <2>2. Indexed(buffer, readIndex + len, writeIndex)
    BY <1>1, <1>2 DEF Indexed
  <2>3. /\ new \in Seq(Bytes)
        /\ Len(new) = writeIndex - (readIndex + len)
        /\ \A i \in 1..writeIndex - (readIndex + len) : new[i] = buffer[(readIndex + len) + i]
    BY <2>2, WindowProperties
  <2>4. readable' = new
    BY <2>1 DEF readable, Window
  <2> HIDE DEF new
  <2>5. writeIndex - (readIndex + len) = size - len
    BY <1>1, <1>2
  <2>6. ASSUME NEW i \in 1..size - len PROVE new[i] = rest[i]
    <3>1. len + i \in 1..size /\ readIndex + (len + i) = (readIndex + len) + i
      BY <1>1, <1>2
    <3>2. new[i] = buffer[(readIndex + len) + i]
      BY <2>3, <2>5
    <3>3. rest[i] = old[len + i]
      BY <1>5
    <3>4. old[len + i] = buffer[readIndex + (len + i)]
      BY <1>3, <3>1
    <3> QED
      BY <3>1, <3>2, <3>3, <3>4
  <2>7. new = rest
    BY <1>5, <2>3, <2>5, <2>6, SeqEqual
  <2>8. writeIndex' - readIndex' # 0
    BY <1>1, <1>6, <2>1
  <2> QED
    BY <1>4, <2>1, <2>2, <2>4, <2>7, <2>8 DEF Dropped, rest
<1>7. CASE ~(len < size)
  <2> DEFINE new == Window(buffer, KCheapPrepend, KCheapPrepend)
  <2>1. readIndex' = KCheapPrepend /\ writeIndex' = KCheapPrepend /\ buffer' = buffer
    BY <1>7 DEF Drop, readableBytes
  <2>2. Indexed(buffer, KCheapPrepend, KCheapPrepend)
    BY <1>1 DEF Indexed, PlaceForReset
  <2>3. new \in Seq(Bytes) /\ Len(new) = KCheapPrepend - KCheapPrepend
    BY <2>2, WindowProperties
  <2>4. readable' = new
    BY <2>1 DEF readable, Window
  <2> HIDE DEF new
  <2>5. Len(new) = 0 /\ Len(rest) = 0
    BY <1>1, <1>2, <1>5, <1>7, <2>3
  <2>6. new = rest
    BY <1>5, <2>3, <2>5, SeqEqual
  <2> QED
    BY <1>4, <2>1, <2>2, <2>4, <2>6 DEF Dropped, rest
<1> QED
  BY <1>6, <1>7

\* What retrieveAsString hands out are bytes.
LEMMA TakenBytes ==
  ASSUME TypeOK, NEW len \in 0..readableBytes
  PROVE  SubSeq(readable, 1, len) \in Seq(Bytes)
<1> DEFINE old == Window(buffer, readIndex, writeIndex)
<1>1. readableBytes \in Nat
  BY DEF TypeOK, readableBytes
<1>2. old \in Seq(Bytes) /\ Len(old) = readableBytes
  BY InvIndexed, WindowProperties DEF readableBytes
<1>3. readable = old
  BY DEF readable, Window
<1> HIDE DEF old
<1>4. 1 \in Int /\ len \in Int /\ \A i \in 1..len : old[i] \in Bytes
  BY <1>1, <1>2, ElementOfSeq
<1> QED
  BY <1>3, <1>4, SubSeqProperties

\* Every step keeps the invariant: one step per action.
LEMMA NextInv == IInv /\ [Next]_vars => IInv'
<1> SUFFICES ASSUME IInv, [Next]_vars PROVE IInv'
  OBVIOUS
<1>1. /\ buffer \in Seq(Bytes) /\ Len(buffer) \in Nat /\ KCheapPrepend \in Nat
      /\ readIndex \in Nat /\ writeIndex \in Nat /\ writeIndex <= Len(buffer) /\ readIndex <= writeIndex
      /\ failed \in BOOLEAN /\ KCheapPrepend <= Len(buffer)
  BY SizesAssumption, LenProperties DEF IInv, TypeOK, PlaceForReset
<1>2. TypeOK /\ PlaceForReset /\ ~failed /\ (writeIndex - readIndex = 0 => readIndex = KCheapPrepend)
  BY DEF IInv, AssertsHold, EmptyIsReset, readableBytes
<1>3. <<>> \in Seq(Bytes)
  BY EmptySeq
<1>4. ASSUME Indexed(buffer', readIndex', writeIndex'), UNCHANGED failed,
             result' \in Seq(Bytes), Len(buffer') >= Len(buffer),
             writeIndex' - readIndex' = 0 => readIndex' = KCheapPrepend
      PROVE  IInv'
  <2>1. TypeOK'
    BY <1>1, <1>4 DEF TypeOK, Indexed
  <2>2. PlaceForReset'
    <3>1. Len(buffer') \in Nat
      BY <1>4, LenProperties DEF Indexed
    <3> QED
      BY <1>1, <1>4, <3>1 DEF PlaceForReset
  <2>3. AssertsHold'
    BY <1>2, <1>4 DEF AssertsHold
  <2>4. EmptyIsReset'
    BY <1>4 DEF EmptyIsReset, readableBytes
  <2> QED
    BY <2>1, <2>2, <2>3, <2>4 DEF IInv
<1>5. ASSUME NEW data \in Chunks, Len(buffer') >= Len(buffer),
             Indexed(buffer', readIndex', writeIndex'), UNCHANGED failed,
             writeIndex' - readIndex' = (writeIndex - readIndex) + Len(data),
             Len(data) = 0 => readIndex' = readIndex,
             result' = <<>>
      PROVE  IInv'
  <2>1. Len(data) \in Nat
    BY ChunksAssumption, LenProperties
  <2>2. writeIndex' - readIndex' = 0 => readIndex' = KCheapPrepend
    <3>1. writeIndex' - readIndex' = 0 => Len(data) = 0 /\ writeIndex - readIndex = 0
      BY <1>1, <1>5, <2>1
    <3> QED
      BY <1>2, <1>5, <3>1
  <2> QED
    BY <1>3, <1>4, <1>5, <2>2
<1>6. ASSUME NEW data \in Chunks, append(data) PROVE IInv'
  <2>1. Added(data)
    BY <1>2, <1>6, AppendAdds
  <2> QED
    BY <1>5, <2>1 DEF Added
<1>7. ASSUME NEW data \in Chunks, readFd(data) PROVE IInv'
  <2>1. Added(data)
    BY <1>2, <1>7, ReadFdAdds
  <2> QED
    BY <1>5, <2>1 DEF Added
<1>8. ASSUME NEW data \in Chunks, prepend(data) PROVE IInv'
  <2>1. Prepended(data)
    BY <1>2, <1>8, PrependPrepends
  <2>2. Len(buffer') >= Len(buffer)
    BY <1>1, <2>1 DEF Prepended
  <2> QED
    BY <1>5, <2>1, <2>2 DEF Prepended
<1>9. ASSUME NEW len \in 0..readableBytes, Drop(len), UNCHANGED <<buffer, failed>>,
             result' \in Seq(Bytes)
      PROVE  IInv'
  <2>1. Dropped(len)
    BY <1>2, <1>9, DropDrops
  <2>2. Len(buffer') >= Len(buffer)
    BY <1>1, <1>9
  <2> QED
    BY <1>4, <1>9, <2>1, <2>2 DEF Dropped
<1>10. ASSUME NEW len \in 0..readableBytes, retrieve(len) PROVE IInv'
  BY <1>3, <1>9, <1>10 DEF retrieve
<1>11. ASSUME NEW len \in 0..readableBytes, retrieveAsString(len) PROVE IInv'
  <2>1. result' \in Seq(Bytes)
    BY <1>2, TakenBytes, <1>11 DEF retrieveAsString
  <2> QED
    BY <1>9, <1>11, <2>1 DEF retrieveAsString
<1>12. CASE UNCHANGED vars
  BY <1>12 DEF vars, IInv, TypeOK, PlaceForReset, AssertsHold, EmptyIsReset, readableBytes
<1> QED
  BY <1>6, <1>7, <1>8, <1>10, <1>11, <1>12 DEF Next

\* The inductive invariant holds in every reachable state of Buffer.
THEOREM Invariance == Spec => []IInv
<1> QED
  BY InitInv, NextInv, PTL DEF Spec

\* The indices stay in order and inside the vector (Buffer.cc:13-31).
THEOREM TypeCorrect == Spec => []TypeOK
<1>1. IInv => TypeOK
  BY DEF IInv
<1> QED
  BY <1>1, Invariance, PTL

\* The asserts inside append hold (Buffer.cc:101-109).
THEOREM AssertsAlwaysHold == Spec => []AssertsHold
<1>1. IInv => AssertsHold
  BY DEF IInv
<1> QED
  BY <1>1, Invariance, PTL

\* An empty buffer is a reset buffer (Buffer.cc:33-57).
THEOREM EmptiedIsReset == Spec => []EmptyIsReset
<1>1. IInv => EmptyIsReset
  BY DEF IInv
<1> QED
  BY <1>1, Invariance, PTL

-----------------------------------------------------------------------------
(* Growth.                                                                 *)

\* The vector grows only when moving would not be enough (Buffer.cc:91-113).
THEOREM GrowsOnlyWhenNeeded == Spec => GrowthIsNeeded
<1>1. ASSUME IInv, [Next]_vars
      PROVE  [Len(buffer') > Len(buffer) =>
                KCheapPrepend + (writeIndex' - readIndex') > Len(buffer)]_vars
  <2> SUFFICES ASSUME Next, Len(buffer') > Len(buffer)
               PROVE  KCheapPrepend + (writeIndex' - readIndex') > Len(buffer)
    BY <1>1
  <2>1. TypeOK /\ Len(buffer) \in Nat
    BY <1>1, LenProperties DEF IInv, TypeOK
  <2>2. ASSUME NEW data \in Chunks, append(data) \/ readFd(data)
        PROVE  KCheapPrepend + (writeIndex' - readIndex') > Len(buffer)
    <3>1. Added(data)
      BY <2>1, <2>2, AppendAdds, ReadFdAdds
    <3> QED
      BY <3>1 DEF Added
  <2>3. ASSUME NEW data \in Chunks, prepend(data) PROVE FALSE
    <3>1. Prepended(data)
      BY <2>1, <2>3, PrependPrepends
    <3> QED
      BY <2>1, <3>1 DEF Prepended
  <2>4. ASSUME NEW len, retrieve(len) \/ retrieveAsString(len) PROVE FALSE
    BY <2>1, <2>4 DEF retrieve, retrieveAsString
  <2> QED
    BY <2>2, <2>3, <2>4 DEF Next
<1> QED
  BY <1>1, Invariance, PTL DEF Spec, GrowthIsNeeded

-----------------------------------------------------------------------------
(* Refinement.                                                             *)

\* A new Buffer is an empty queue.
LEMMA InitRefines == Init => Queue!Init
<1> SUFFICES ASSUME Init PROVE readable = <<>> /\ result = <<>>
  BY DEF Queue!Init
<1>1. KCheapPrepend \in Nat
  BY SizesAssumption
<1>2. KCheapPrepend + 1 \in Int /\ KCheapPrepend \in Int /\ KCheapPrepend < KCheapPrepend + 1
  BY <1>1
<1>3. readable = SubSeq(buffer, KCheapPrepend + 1, KCheapPrepend)
  BY DEF Init, readable
<1>4. SubSeq(buffer, KCheapPrepend + 1, KCheapPrepend) = <<>>
  BY <1>2, SubSeqEmpty
<1> QED
  BY <1>3, <1>4 DEF Init

\* Every step of Buffer is a step of the queue: append and readFd put at the
\* end, prepend at the front, and the two kinds of retrieve skip or take.
LEMMA NextRefines == IInv /\ [Next]_vars => [Queue!Next]_(Queue!vars)
<1> SUFFICES ASSUME IInv, [Next]_vars PROVE [Queue!Next]_(Queue!vars)
  OBVIOUS
<1>1. TypeOK /\ PlaceForReset
  BY DEF IInv
<1>2. ASSUME NEW data \in Chunks, append(data) \/ readFd(data) PROVE Queue!Next
  <2>1. Added(data)
    BY <1>1, <1>2, AppendAdds, ReadFdAdds
  <2>2. Queue!Put(data)
    BY <2>1 DEF Added, Queue!Put
  <2> QED
    BY <2>2 DEF Queue!Next
<1>3. ASSUME NEW data \in Chunks, prepend(data) PROVE Queue!Next
  <2>1. Prepended(data)
    BY <1>1, <1>3, PrependPrepends
  <2>2. Queue!PutFront(data)
    BY <2>1 DEF Prepended, Queue!PutFront
  <2> QED
    BY <2>2 DEF Queue!Next
<1>4. Len(readable) = readableBytes
  BY <1>1, InvIndexed, WindowProperties DEF readable, Window, readableBytes
<1>5. ASSUME NEW len \in 0..readableBytes, retrieve(len) PROVE Queue!Next
  <2>1. Dropped(len)
    BY <1>1, <1>5, DropDrops DEF retrieve
  <2>2. Queue!Skip(len)
    BY <1>5, <2>1 DEF Dropped, Queue!Skip, retrieve
  <2> QED
    BY <1>4, <2>2 DEF Queue!Next
<1>6. ASSUME NEW len \in 0..readableBytes, retrieveAsString(len) PROVE Queue!Next
  <2>1. Dropped(len)
    BY <1>1, <1>6, DropDrops DEF retrieveAsString
  <2>2. Queue!Take(len)
    BY <1>6, <2>1 DEF Dropped, Queue!Take, retrieveAsString
  <2> QED
    BY <1>4, <2>2 DEF Queue!Next
<1>7. CASE UNCHANGED vars
  BY <1>7 DEF vars, Queue!vars, readable
<1> QED
  BY <1>2, <1>3, <1>5, <1>6, <1>7 DEF Next

\* Moving, growing and splitting lose, repeat and reorder nothing: Buffer is
\* a queue of bytes (Buffer.cc:33-138).
THEOREM BufferRefinesByteQueue == Spec => RefinesByteQueue
<1> QED
  BY InitRefines, NextRefines, Invariance, PTL DEF Spec, Queue!Spec, RefinesByteQueue
=============================================================================
