----------------------- MODULE StreamRefinementProofs -----------------------
(***************************************************************************)
(* Proofs about MemoryStream, for every set of messages, every encoding    *)
(* and every size of the deframer's array: its own invariants first, then  *)
(* that it implements MessageChannel.                                      *)
(***************************************************************************)
EXTENDS StreamRefinement, SequenceTheorems, TLAPS

(* A read that stops leaves no complete frame in buf; a stopped deframer   *)
(* whose buf is full has met an invalid header.                            *)
Deframed ==
    pc # "deframe" =>
        /\ ~Valid(buf)
        /\ Len(buf) = MAX_WIRE_SIZE => desynced

(* While a read is being deframed outbound is empty, and a read without    *)
(* new bytes finds what the read before it left.                           *)
Deframing ==
    pc = "deframe" =>
        /\ outbound = <<>>
        /\ newBytes = 0 => frames = <<>> /\ ~Valid(buf)

Drained == pc = "none" => outbound = <<>> /\ frames = <<>>

(* The inductive invariant: the properties, and why they are preserved.    *)
IInv ==
    /\ TypeOK
    /\ outPos = Len(outbound)
    /\ InboundFifo
    /\ OutboundConserved
    /\ Len(buf) + Len(outbound) <= peak
    /\ Deframed
    /\ Deframing
    /\ Drained
    /\ desynced => Invalid(buf)

-----------------------------------------------------------------------------
(* Facts on concatenation, at the type at which they are used.             *)
LEMMA ByteConcat ==
    \A a, b \in Seq(Byte) : a \o b \in Seq(Byte) /\ Len(a \o b) = Len(a) + Len(b)
  BY ConcatProperties

(* Concatenation is associative.                                           *)
LEMMA ByteAssoc ==
    \A a, b, c \in Seq(Byte) : (a \o b) \o c = a \o (b \o c)
  BY ConcatAssociative

(* A common prefix may be dropped.                                         *)
LEMMA ByteCancel ==
    \A a, b, c \in Seq(Byte) : a \o b = a \o c => b = c
  BY ConcatSimplifications, Zenon

(* The empty sequence is neutral.                                          *)
LEMMA ByteEmpty ==
    \A a \in Seq(Byte) : a \o <<>> = a /\ <<>> \o a = a
  BY ConcatEmptySeq

(* Writing at the end of a vector appends to it.                           *)
LEMMA CursorWriteAppends ==
    ASSUME NEW v \in Seq(Byte), NEW b \in Seq(Byte)
    PROVE  CursorWrite(v, Len(v), b) = v \o b
<1>1. /\ v \o b \in Seq(Byte)
      /\ Len(v \o b) = Len(v) + Len(b)
      /\ \A i \in 1..(Len(v) + Len(b)) :
            (v \o b)[i] = IF i <= Len(v) THEN v[i] ELSE b[i - Len(v)]
  BY ConcatProperties
<1>2. Len(v) \in Nat /\ Len(b) \in Nat
  BY LenProperties
<1>3. Max2(Len(v), Len(v) + Len(b)) = Len(v) + Len(b)
  BY <1>2 DEF Max2
<1>4. v \o b = [i \in 1..(Len(v) + Len(b)) |-> (v \o b)[i]]
  BY <1>1, <1>2, LenProperties
<1>5. \A i \in 1..(Len(v) + Len(b)) :
        (v \o b)[i] = IF i \in (Len(v) + 1)..(Len(v) + Len(b)) THEN b[i - Len(v)]
                      ELSE IF i <= Len(v) THEN v[i] ELSE Zero
  BY <1>1, <1>2
<1> QED
  BY <1>3, <1>4, <1>5 DEF CursorWrite

(* A prefix followed by what remains is the whole.                         *)
LEMMA SplitSeq ==
    ASSUME NEW S, NEW s \in Seq(S), NEW n \in 0..Len(s)
    PROVE  /\ SubSeq(s, 1, n) \in Seq(S)
           /\ SubSeq(s, n + 1, Len(s)) \in Seq(S)
           /\ Len(SubSeq(s, 1, n)) = n
           /\ Len(SubSeq(s, n + 1, Len(s))) = Len(s) - n
           /\ SubSeq(s, 1, n) \o SubSeq(s, n + 1, Len(s)) = s
<1>1. Len(s) \in Nat /\ \A i \in 1..Len(s) : s[i] \in S
  BY LenProperties, ElementOfSeq
<1>2. /\ SubSeq(s, 1, n) \in Seq(S)
      /\ Len(SubSeq(s, 1, n)) = IF 1 <= n THEN n - 1 + 1 ELSE 0
  <2>1. \A i \in 1..n : s[i] \in S
    BY <1>1
  <2> QED
    BY <2>1, SubSeqProperties
<1>3. /\ SubSeq(s, n + 1, Len(s)) \in Seq(S)
      /\ Len(SubSeq(s, n + 1, Len(s))) = IF n + 1 <= Len(s) THEN Len(s) - (n + 1) + 1 ELSE 0
  <2>1. \A i \in (n + 1)..Len(s) : s[i] \in S
    BY <1>1
  <2> QED
    BY <1>1, <2>1, SubSeqProperties
<1>4. SubSeq(s, 1, n) \o SubSeq(s, n + 1, Len(s)) = SubSeq(s, 1, Len(s))
  <2>1. 1 \in 1..(Len(s) + 1) /\ n \in (1 - 1)..Len(s) /\ Len(s) \in n..Len(s)
    BY <1>1
  <2> QED
    BY <2>1, ConcatAdjacentSubSeq, Zenon
<1>5. SubSeq(s, 1, Len(s)) = s
  BY SubSeqFull
<1>6. Len(SubSeq(s, 1, n)) = n /\ Len(SubSeq(s, n + 1, Len(s))) = Len(s) - n
  BY <1>1, <1>2, <1>3
<1> QED
  BY <1>2, <1>3, <1>4, <1>5, <1>6, Zenon

(* Appending bytes to a buffer whose header is complete does not change    *)
(* what its header says.                                                   *)
LEMMA HeaderStable ==
    ASSUME NEW b \in Seq(Byte), NEW c \in Seq(Byte), Invalid(b)
    PROVE  Invalid(b \o c)
<1>1. Len(b) \in Nat /\ Len(c) \in Nat /\ HeaderSize \in Nat \ {0}
  BY LenProperties, StreamAssumption
<1>2. Len(b) >= HeaderSize
  BY <1>1 DEF Invalid, TooShortForHeader
<1>3. HeaderSize \in 1..Len(b) /\ 1 \in 1..Len(b)
  BY <1>1, <1>2
<1>4. SubSeq(b \o c, 1, HeaderSize) = SubSeq(b, 1, HeaderSize)
  BY <1>3, SubSeqOfConcat1
<1>5. Len(b \o c) = Len(b) + Len(c)
  BY ConcatProperties
<1>6. ~TooShortForHeader(b \o c)
  BY <1>1, <1>2, <1>5 DEF TooShortForHeader
<1>7. HeaderIn(b \o c) = HeaderIn(b)
  BY <1>4, Zenon DEF HeaderIn
<1> QED
  BY <1>6, <1>7, Zenon DEF Invalid

(* A header that is accepted announces a frame shorter than the array.     *)
LEMMA AcceptedFits ==
    ASSUME NEW b \in Seq(Byte), ~TooShortForHeader(b), ~Rejected(HeaderIn(b))
    PROVE  FrameLen(b) \in Nat /\ FrameLen(b) < MAX_WIRE_SIZE
<1>1. Len(b) \in Nat /\ HeaderSize \in Nat \ {0} /\ MaxPayload \in Nat
  BY LenProperties, StreamAssumption
<1>2. HeaderSize \in 0..Len(b)
  BY <1>1 DEF TooShortForHeader
<1>3. SubSeq(b, 1, HeaderSize) \in Seq(Byte) /\ Len(SubSeq(b, 1, HeaderSize)) = HeaderSize
  BY <1>2, SplitSeq
<1>4. SubSeq(b, 1, HeaderSize) \in [1..HeaderSize -> Byte]
  BY <1>3, LenProperties
<1>5. HeaderIn(b) \in Header
  BY <1>4, CodecAssumption DEF HeaderIn
<1> QED
  BY <1>1, <1>5 DEF Rejected, FrameLen, MAX_WIRE_SIZE, Header

-----------------------------------------------------------------------------
(* The invariant holds initially.                                          *)
LEMMA InitIInv == Init => IInv
<1> SUFFICES ASSUME Init PROVE IInv
  OBVIOUS
<1>1. /\ <<>> \in Seq(Byte) /\ <<>> \in Seq(Seq(Byte)) /\ <<>> \in Seq(Msgs)
      /\ Len(<<>>) = 0
  BY EmptySeq
<1>2. HeaderSize \in Nat \ {0} /\ MaxPayload \in Nat \ {0}
  BY StreamAssumption
<1>3. TypeOK
  <2>1. inPos \in 0..Len(inbound) /\ outPos \in 0..Len(outbound) /\ Len(buf) <= MAX_WIRE_SIZE
    BY <1>1, <1>2 DEF Init, MAX_WIRE_SIZE
  <2>2. newBytes \in Nat /\ peak \in Nat
    BY DEF Init
  <2> QED
    BY <1>1, <2>1, <2>2, Zenon DEF Init, TypeOK
<1>4. ~Valid(buf)
  BY <1>1, <1>2 DEF Init, Valid, TooShortForHeader
<1>5. SubSeq(inbound, inPos + 1, Len(inbound)) = <<>>
  BY <1>1, SubSeqEmpty DEF Init
<1>6. <<>> \o <<>> = <<>>
  BY <1>1, ConcatEmptySeq
<1>7. InboundFifo /\ OutboundConserved
  BY <1>5, <1>6 DEF Init, InboundFifo, OutboundConserved
<1> QED
  BY <1>1, <1>2, <1>3, <1>4, <1>7
  DEF Init, IInv, Deframed, Deframing, Drained, MAX_WIRE_SIZE

(* Adding a message to inbound preserves the invariant.                    *)
LEMMA AddStep ==
    ASSUME IInv, NEW m \in Msgs, add_to_inbound(m)
    PROVE  IInv'
<1>1. Wire[m] \in Seq(Byte)
  BY StreamAssumption
<1>2. /\ inbound \in Seq(Byte) /\ inPos \in 0..Len(inbound)
      /\ injected \in Seq(Byte) /\ delivered \in Seq(Byte)
  BY DEF IInv, TypeOK
<1>3. /\ inbound' \in Seq(Byte) /\ injected' \in Seq(Byte)
      /\ Len(inbound') = Len(inbound) + Len(Wire[m])
  BY <1>1, <1>2, ConcatProperties DEF add_to_inbound
<1>4. Len(inbound) \in Nat /\ Len(Wire[m]) \in Nat
  BY <1>1, <1>2, LenProperties
<1>5. inPos' \in 0..Len(inbound')
  BY <1>2, <1>3, <1>4 DEF add_to_inbound
<1>6. TypeOK'
  BY <1>3, <1>5 DEF IInv, TypeOK, add_to_inbound, deframer
<1>7. InboundFifo'
  <2> DEFINE rest == SubSeq(inbound, inPos + 1, Len(inbound))
  <2>1. /\ SubSeq(inbound, 1, inPos) \in Seq(Byte) /\ rest \in Seq(Byte)
        /\ Len(SubSeq(inbound, 1, inPos)) = inPos
        /\ SubSeq(inbound, 1, inPos) \o rest = inbound
    BY <1>2, SplitSeq
  <2>2. /\ SubSeq(inbound', 1, inPos) \in Seq(Byte)
        /\ SubSeq(inbound', inPos + 1, Len(inbound')) \in Seq(Byte)
        /\ SubSeq(inbound', 1, inPos) \o SubSeq(inbound', inPos + 1, Len(inbound')) = inbound'
    <3>1. inPos \in 0..Len(inbound')
      BY <1>2, <1>3, <1>4
    <3> QED
      BY <1>3, <3>1, SplitSeq, Zenon
  <2>3. SubSeq(inbound', 1, inPos) = SubSeq(inbound, 1, inPos)
    <3>1. CASE inPos = 0
      BY <3>1, SubSeqEmpty
    <3>2. CASE inPos # 0
      <4>1. 1 \in 1..Len(inbound) /\ inPos \in 1..Len(inbound)
        BY <3>2, <1>2, <1>4
      <4> QED
        BY <4>1, <1>1, <1>2, SubSeqOfConcat1 DEF add_to_inbound
    <3> QED
      BY <3>1, <3>2
  <2>4. inbound' = SubSeq(inbound, 1, inPos) \o (rest \o Wire[m])
    <3>1. inbound' = (SubSeq(inbound, 1, inPos) \o rest) \o Wire[m]
      BY <2>1 DEF add_to_inbound
    <3> HIDE DEF rest
    <3> QED
      BY <3>1, <2>1, <1>1, ByteAssoc, Zenon
  <2>5. rest \o Wire[m] \in Seq(Byte)
    BY <2>1, <1>1, ConcatProperties
  <2>6. SubSeq(inbound', inPos + 1, Len(inbound')) = rest \o Wire[m]
    <3> HIDE DEF rest
    <3>1. SubSeq(inbound, 1, inPos) \o SubSeq(inbound', inPos + 1, Len(inbound'))
             = SubSeq(inbound, 1, inPos) \o (rest \o Wire[m])
      BY <2>2, <2>3, <2>4, Zenon
    <3> QED
      BY <2>1, <2>2, <2>5, <3>1, ByteCancel, Zenon
  <2>7. delivered \o (rest \o Wire[m]) = (delivered \o rest) \o Wire[m]
    <3> HIDE DEF rest
    <3> QED
      BY <2>1, <1>1, <1>2, ByteAssoc, ZenonT(40)
  <2>8. delivered \o rest = injected
    BY DEF IInv, InboundFifo
  <2> QED
    BY <2>6, <2>7, <2>8 DEF InboundFifo, add_to_inbound
<1> QED
  BY <1>6, <1>7 DEF IInv, add_to_inbound, deframer, OutboundConserved, Deframed,
     Deframing, Drained, Valid, Invalid, TooShortForHeader, HeaderIn, FrameLen

(* The PUT's read preserves the invariant.                                 *)
LEMMA ReadStep ==
    ASSUME IInv, NEW n \in 1..MAX_WIRE_SIZE, read(n)
    PROVE  IInv'
<1> DEFINE k == Min2(inPos + n, Len(inbound))
           got == SubSeq(inbound, inPos + 1, k)
           rest == SubSeq(inbound, k + 1, Len(inbound))
<1>1. /\ inbound \in Seq(Byte) /\ inPos \in 0..Len(inbound)
      /\ delivered \in Seq(Byte) /\ injected \in Seq(Byte)
  BY DEF IInv, TypeOK
<1>2. Len(inbound) \in Nat /\ inPos \in Nat /\ n \in Nat \ {0}
  BY <1>1, LenProperties, StreamAssumption DEF MAX_WIRE_SIZE
<1>3. k \in inPos..Len(inbound) /\ k \in 0..Len(inbound)
  BY <1>1, <1>2 DEF Min2
<1>4. \A i \in 1..Len(inbound) : inbound[i] \in Byte
  BY <1>1, ElementOfSeq
<1>5. /\ got \in Seq(Byte)
      /\ Len(got) = IF inPos + 1 <= k THEN k - (inPos + 1) + 1 ELSE 0
  <2>1. \A i \in (inPos + 1)..k : inbound[i] \in Byte
    BY <1>2, <1>3, <1>4
  <2> QED
    BY <1>2, <1>3, <2>1, SubSeqProperties
<1>6. inPos + Len(got) = k
  <2> HIDE DEF k, got
  <2> QED
    BY <1>2, <1>3, <1>5
<1>7. /\ delivered' = delivered \o got
      /\ IF k = Len(inbound) THEN inbound' = <<>> /\ inPos' = 0
                             ELSE inbound' = inbound /\ inPos' = k
  BY <1>6 DEF read
<1>8. delivered' \in Seq(Byte)
  BY <1>1, <1>5, <1>7, ConcatProperties
<1>9. inbound' \in Seq(Byte) /\ inPos' \in 0..Len(inbound')
  <2> HIDE DEF k
  <2>1. CASE k = Len(inbound)
    <3>1. inbound' = <<>> /\ inPos' = 0
      BY <2>1, <1>7
    <3> QED
      BY <3>1, EmptySeq
  <2>2. CASE k # Len(inbound)
    BY <2>2, <1>1, <1>2, <1>3, <1>7
  <2> QED
    BY <2>1, <2>2
<1>10. TypeOK'
  BY <1>8, <1>9 DEF IInv, TypeOK, read, deframer
<1>11. InboundFifo'
  <2>1. rest \in Seq(Byte)
    BY <1>1, <1>3, SplitSeq
  <2>2. got \o rest = SubSeq(inbound, inPos + 1, Len(inbound))
    <3>1. /\ inPos + 1 \in 1..(Len(inbound) + 1)
          /\ k \in ((inPos + 1) - 1)..Len(inbound)
          /\ Len(inbound) \in k..Len(inbound)
      BY <1>1, <1>2, <1>3
    <3> QED
      BY <1>1, <3>1, ConcatAdjacentSubSeq, Zenon
  <2>3. (delivered \o got) \o rest = injected
    <3>1. delivered \o (got \o rest) = injected
      BY <2>2, Zenon DEF IInv, InboundFifo
    <3> HIDE DEF got, rest
    <3> QED
      BY <1>1, <1>5, <2>1, <3>1, ByteAssoc, ZenonT(40)
  <2>4. SubSeq(inbound', inPos' + 1, Len(inbound')) = rest
    <3>1. CASE k = Len(inbound)
      <4>1. rest = <<>>
        BY <3>1, <1>2, SubSeqEmpty
      <4>2. inbound' = <<>> /\ inPos' = 0 /\ Len(inbound') = 0
        BY <3>1, <1>7, EmptySeq
      <4>3. SubSeq(<<>>, 0 + 1, 0) = <<>>
        BY SubSeqEmpty
      <4> QED
        BY <4>1, <4>2, <4>3, Zenon
    <3>2. CASE k # Len(inbound)
      BY <3>2, <1>7
    <3> QED
      BY <3>1, <3>2
  <2> HIDE DEF got, rest
  <2>5. injected' = injected
    BY DEF read
  <2> QED
    BY <2>3, <2>4, <2>5, <1>7, Zenon DEF InboundFifo
<1> QED
  BY <1>10, <1>11 DEF IInv, read, deframer, OutboundConserved, Deframed,
     Deframing, Drained, Valid, Invalid, TooShortForHeader, HeaderIn, FrameLen

(* What both forms of the PUT's write have in common.                      *)
LEMMA WriteStep ==
    ASSUME IInv, NEW b \in Seq(Byte), Idle, write(b), pc' = "idle",
           pending' \in Seq(Byte), sent' \in Seq(Msgs),
           UNCHANGED <<inbound, inPos, deframer, newBytes, injected, delivered,
                       consumed, taken>>
    PROVE  IInv'
<1>1. /\ outbound \in Seq(Byte) /\ buf \in Seq(Byte) /\ consumed \in Seq(Byte)
      /\ written \in Seq(Byte) /\ peak \in Nat /\ outPos = Len(outbound)
  BY DEF IInv, TypeOK
<1>2. outbound' = outbound \o b /\ outPos' = Len(outbound) + Len(b)
      /\ written' = written \o b
  BY <1>1, CursorWriteAppends DEF write
<1>3. /\ outbound' \in Seq(Byte) /\ written' \in Seq(Byte)
      /\ Len(outbound') = Len(outbound) + Len(b)
  BY <1>1, <1>2, ByteConcat
<1>4. Len(outbound) \in Nat /\ Len(b) \in Nat /\ Len(buf) \in Nat
  BY <1>1, LenProperties
<1>5. peak' \in Nat /\ peak <= peak' /\ Len(buf) + Len(outbound') <= peak'
  BY <1>1, <1>3, <1>4 DEF write, Max2
<1>6. TypeOK'
  <2>1. outPos' \in 0..Len(outbound')
    BY <1>2, <1>3, <1>4
  <2> QED
    BY <1>3, <1>5, <2>1 DEF IInv, TypeOK, deframer
<1>7. OutboundConserved'
  <2> SUFFICES ASSUME peak' <= MAX_WIRE_SIZE
               PROVE  (consumed \o buf) \o outbound' = written'
    BY DEF OutboundConserved, deframer
  <2>1. peak <= MAX_WIRE_SIZE
    BY <1>1, <1>5, StreamAssumption DEF MAX_WIRE_SIZE
  <2>2. (consumed \o buf) \o outbound = written
    BY <2>1 DEF IInv, OutboundConserved
  <2>3. consumed \o buf \in Seq(Byte)
    BY <1>1, ByteConcat
  <2>4. (consumed \o buf) \o (outbound \o b) = ((consumed \o buf) \o outbound) \o b
    <3> DEFINE x == consumed \o buf
    <3>1. x \in Seq(Byte)
      BY <2>3
    <3> HIDE DEF x
    <3>2. x \o (outbound \o b) = (x \o outbound) \o b
      BY <3>1, <1>1, ByteAssoc, Zenon
    <3> QED
      BY <3>2 DEF x
  <2> QED
    BY <1>2, <2>2, <2>4, Zenon
<1>8. outPos' = Len(outbound') /\ (Len(buf) + Len(outbound) <= peak)'
  BY <1>2, <1>3, <1>5 DEF deframer
<1>9. Deframed' /\ Deframing' /\ Drained' /\ InboundFifo'
  BY DEF IInv, Idle, deframer, Deframed, Deframing, Drained, InboundFifo, Valid,
     TooShortForHeader, HeaderIn, FrameLen
<1>10. (desynced => Invalid(buf))'
  BY DEF IInv, deframer, Invalid, TooShortForHeader, HeaderIn
<1> QED
  BY <1>6, <1>7, <1>8, <1>9, <1>10 DEF IInv

(* A PUT begins to write a message.                                        *)
LEMMA WriteBeginStep ==
    ASSUME IInv, NEW m \in Msgs, NEW k \in 1..MAX_WIRE_SIZE, WriteBegin(m, k)
    PROVE  IInv'
<1>1. Wire[m] \in Seq(Byte) /\ sent \in Seq(Msgs)
  BY StreamAssumption DEF IInv, TypeOK
<1>2. k \in 0..Len(Wire[m])
  BY <1>1, LenProperties DEF WriteBegin
<1>3. /\ SubSeq(Wire[m], 1, k) \in Seq(Byte)
      /\ SubSeq(Wire[m], k + 1, Len(Wire[m])) \in Seq(Byte)
  BY <1>1, <1>2, SplitSeq
<1>4. Append(sent, m) \in Seq(Msgs)
  BY <1>1, AppendProperties
<1> QED
  BY <1>3, <1>4, WriteStep DEF WriteBegin

(* A PUT writes the rest of its message.                                   *)
LEMMA WriteRestStep ==
    ASSUME IInv, WriteRest
    PROVE  IInv'
<1>1. pending \in Seq(Byte) /\ <<>> \in Seq(Byte) /\ sent \in Seq(Msgs)
  BY EmptySeq DEF IInv, TypeOK
<1> QED
  BY <1>1, WriteStep DEF WriteRest

(* Beginning a call, and returning a frame.                                *)
LEMMA TakeBeginStep ==
    ASSUME IInv, Take
    PROVE  IInv'
  BY DEF Take, IInv, TypeOK, Idle, channels, deframer, history, InboundFifo,
     OutboundConserved, Deframed, Deframing, Drained, Valid, Invalid,
     TooShortForHeader, HeaderIn, FrameLen

(* A frame is handed to the fuzzer.                                        *)
LEMMA PopFrameStep ==
    ASSUME IInv, PopFrame
    PROVE  IInv'
<1>1. frames \in Seq(Seq(Byte)) /\ frames # <<>> /\ taken \in Seq(Seq(Byte))
  BY DEF IInv, TypeOK, PopFrame
<1>2. Head(frames) \in Seq(Byte) /\ Tail(frames) \in Seq(Seq(Byte))
  BY <1>1, HeadTailProperties
<1>3. Append(taken, Head(frames)) \in Seq(Seq(Byte))
  BY <1>1, <1>2, AppendProperties
<1>4. TypeOK'
  BY <1>2, <1>3 DEF PopFrame, IInv, TypeOK, channels
<1> QED
  BY <1>4 DEF PopFrame, IInv, channels, InboundFifo, OutboundConserved, Deframed,
     Deframing, Drained, Valid, Invalid, TooShortForHeader, HeaderIn, FrameLen

(* The read of the deframer: this is where a too large flight loses bytes, *)
(* and why a flight that fits loses none.                                  *)
LEMMA DeframerReadStep ==
    ASSUME IInv, DeframerRead
    PROVE  IInv'
<1> DEFINE n == Min2(Len(outbound), MAX_WIRE_SIZE - Len(buf))
           new == SubSeq(outbound, 1, n)
<1>1. /\ outbound \in Seq(Byte) /\ buf \in Seq(Byte) /\ consumed \in Seq(Byte)
      /\ peak \in Nat /\ Len(buf) <= MAX_WIRE_SIZE
      /\ Len(buf) + Len(outbound) <= peak
      /\ frames = <<>> /\ pc = "loop"
  BY DEF IInv, TypeOK, DeframerRead
<1>2. Len(outbound) \in Nat /\ Len(buf) \in Nat /\ MAX_WIRE_SIZE \in Nat
  BY <1>1, LenProperties, StreamAssumption DEF MAX_WIRE_SIZE
<1>3. n \in 0..Len(outbound) /\ Len(buf) + n <= MAX_WIRE_SIZE
  BY <1>1, <1>2 DEF Min2
<1>4. /\ buf' = buf \o new /\ newBytes' = n
      /\ outbound' = <<>> /\ outPos' = 0 /\ pc' = "deframe"
  BY DEF DeframerRead
<1>5. new \in Seq(Byte) /\ Len(new) = n
  BY <1>1, <1>3, SplitSeq
<1>6. buf' \in Seq(Byte) /\ Len(buf') = Len(buf) + n
  BY <1>1, <1>4, <1>5, ByteConcat
<1>7. <<>> \in Seq(Byte) /\ Len(<<>>) = 0
  BY EmptySeq
<1>8. TypeOK'
  <2>1. Len(buf') <= MAX_WIRE_SIZE /\ newBytes' \in Nat
    BY <1>2, <1>3, <1>4, <1>6
  <2>2. outPos' \in 0..Len(outbound')
    BY <1>4, <1>7
  <2> QED
    BY <1>4, <1>6, <1>7, <2>1, <2>2 DEF IInv, TypeOK, DeframerRead, history
<1>9. OutboundConserved'
  <2> SUFFICES ASSUME peak <= MAX_WIRE_SIZE
               PROVE  (consumed \o buf') \o <<>> = written
    BY <1>4 DEF OutboundConserved, DeframerRead, history
  <2>1. n = Len(outbound)
    BY <1>1, <1>2 DEF Min2
  <2>2. new = outbound
    BY <1>1, <2>1, SubSeqFull
  <2>3. (consumed \o buf) \o outbound = written
    BY DEF IInv, OutboundConserved
  <2>4. (consumed \o buf) \o outbound = consumed \o (buf \o outbound)
    BY <1>1, ByteAssoc, Zenon
  <2>5. consumed \o buf' = written
    BY <1>4, <2>2, <2>3, <2>4, Zenon
  <2>6. consumed \o buf' \in Seq(Byte)
    BY <1>1, <1>6, ByteConcat
  <2> QED
    BY <2>5, <2>6, ByteEmpty, Zenon
<1>10. outPos' = Len(outbound') /\ (Len(buf) + Len(outbound) <= peak)'
  BY <1>1, <1>2, <1>3, <1>4, <1>6, <1>7 DEF DeframerRead, history
<1>11. Deframing'
  <2> SUFFICES ASSUME n = 0
               PROVE  ~Valid(buf')
    BY <1>1, <1>4 DEF Deframing, DeframerRead
  <2>1. new = <<>>
    BY SubSeqEmpty
  <2>2. buf' = buf
    BY <1>1, <1>4, <2>1, ByteEmpty
  <2>3. ~Valid(buf)
    BY <1>1 DEF IInv, Deframed
  <2> QED
    BY <2>2, <2>3
<1>12. (desynced => Invalid(buf))'
  <2>1. desynced => Invalid(buf)
    BY DEF IInv
  <2>2. desynced => Invalid(buf \o new)
    BY <2>1, <1>1, <1>5, HeaderStable
  <2> QED
    BY <1>4, <2>2 DEF DeframerRead
<1>13. InboundFifo' /\ Deframed' /\ Drained'
  BY <1>4 DEF IInv, InboundFifo, Deframed, Drained, DeframerRead, history
<1> QED
  BY <1>8, <1>9, <1>10, <1>11, <1>12, <1>13 DEF IInv

(* Cutting a frame off the front of buf.                                   *)
LEMMA DeframeValidStep ==
    ASSUME IInv, DeframeValid
    PROVE  IInv'
<1> DEFINE frame == SubSeq(buf, 1, FrameLen(buf))
           rest == SubSeq(buf, FrameLen(buf) + 1, Len(buf))
<1>1. /\ outbound \in Seq(Byte) /\ buf \in Seq(Byte) /\ consumed \in Seq(Byte)
      /\ frames \in Seq(Seq(Byte)) /\ peak \in Nat /\ Len(buf) <= MAX_WIRE_SIZE
      /\ Len(buf) + Len(outbound) <= peak
  BY DEF IInv, TypeOK
<1>2. pc = "deframe" /\ pc' = "deframe" /\ Valid(buf) /\ outbound' = outbound
      /\ frames' = Append(frames, frame) /\ buf' = rest /\ consumed' = consumed \o frame
  BY DEF DeframeValid, channels
<1>3. ~desynced /\ newBytes # 0
  BY <1>2 DEF IInv, Deframing, Valid, Invalid
<1>4. Len(outbound) \in Nat /\ Len(buf) \in Nat /\ MAX_WIRE_SIZE \in Nat
  BY <1>1, LenProperties, StreamAssumption DEF MAX_WIRE_SIZE
<1>5. FrameLen(buf) \in 0..Len(buf)
  <2>1. FrameLen(buf) \in Nat
    BY <1>1, <1>2, AcceptedFits DEF Valid
  <2> QED
    BY <1>2, <1>4, <2>1 DEF Valid
<1>6. /\ frame \in Seq(Byte) /\ rest \in Seq(Byte)
      /\ Len(rest) = Len(buf) - FrameLen(buf) /\ frame \o rest = buf
  BY <1>1, <1>5, SplitSeq
<1>7. Append(frames, frame) \in Seq(Seq(Byte)) /\ consumed \o frame \in Seq(Byte)
  BY <1>1, <1>6, AppendProperties, ByteConcat
<1>8. Len(buf') <= Len(buf)
  BY <1>2, <1>4, <1>5, <1>6
<1>9. TypeOK'
  <2>1. Len(buf') <= MAX_WIRE_SIZE
    BY <1>1, <1>2, <1>4, <1>5, <1>6
  <2> QED
    BY <1>2, <1>6, <1>7, <2>1 DEF IInv, TypeOK, DeframeValid, channels
<1>10. OutboundConserved'
  <2> SUFFICES ASSUME peak <= MAX_WIRE_SIZE
               PROVE  ((consumed \o frame) \o rest) \o outbound = written
    BY <1>2 DEF OutboundConserved, DeframeValid
  <2>1. (consumed \o buf) \o outbound = written
    BY DEF IInv, OutboundConserved
  <2>2. (consumed \o frame) \o rest = consumed \o buf
    <3> HIDE DEF frame, rest
    <3>1. (consumed \o frame) \o rest = consumed \o (frame \o rest)
      BY <1>1, <1>6, ByteAssoc, Zenon
    <3> QED
      BY <3>1, <1>6
  <2> QED
    BY <2>1, <2>2
<1>11. (Len(buf) + Len(outbound) <= peak)'
  <2>1. Len(buf') = Len(buf) - FrameLen(buf) /\ Len(outbound') = Len(outbound)
    BY <1>2, <1>6
  <2>2. peak' = peak
    BY DEF DeframeValid
  <2> HIDE DEF frame, rest
  <2> QED
    BY <1>1, <1>4, <1>5, <2>1, <2>2
<1>12. Deframing' /\ Deframed' /\ Drained' /\ (desynced => Invalid(buf))'
  BY <1>2, <1>3 DEF IInv, Deframing, Deframed, Drained, DeframeValid, channels
<1>13. InboundFifo' /\ (outPos = Len(outbound))'
  BY DEF IInv, InboundFifo, DeframeValid, channels
<1> QED
  BY <1>9, <1>10, <1>11, <1>12, <1>13 DEF IInv

(* Ending a read: a full buf without a frame has an invalid header.        *)
LEMMA DeframeStopStep ==
    ASSUME IInv, DeframeStop
    PROVE  IInv'
<1>1. /\ buf \in Seq(Byte) /\ buf' = buf /\ ~Valid(buf) /\ pc = "deframe"
      /\ desynced' = (desynced \/ Invalid(buf)) /\ desynced \in BOOLEAN
      /\ pc' = IF newBytes = 0 THEN "none" ELSE "loop"
      /\ outbound' = outbound /\ frames' = frames
  BY DEF IInv, TypeOK, DeframeStop, channels
<1>2. Len(buf) = MAX_WIRE_SIZE => Invalid(buf)
  <2> SUFFICES ASSUME Len(buf) = MAX_WIRE_SIZE, ~Invalid(buf)
               PROVE  FALSE
    OBVIOUS
  <2>1. ~TooShortForHeader(buf)
    BY StreamAssumption DEF TooShortForHeader, MAX_WIRE_SIZE
  <2>2. ~Rejected(HeaderIn(buf))
    BY <2>1 DEF Invalid
  <2>3. FrameLen(buf) \in Nat /\ FrameLen(buf) < MAX_WIRE_SIZE
    BY <1>1, <2>1, <2>2, AcceptedFits
  <2> QED
    BY <1>1, <2>1, <2>2, <2>3, StreamAssumption DEF Valid, MAX_WIRE_SIZE
<1>3. ~Valid(buf') /\ (desynced' => Invalid(buf'))
  BY <1>1 DEF IInv
<1>4. Deframed'
  BY <1>1, <1>2, <1>3 DEF Deframed
<1>5. Drained' /\ Deframing'
  BY <1>1 DEF IInv, Drained, Deframing
<1>6. TypeOK'
  <2>1. desynced' \in BOOLEAN /\ pc' \in {"idle", "none", "loop", "deframe"}
    BY <1>1, Zenon
  <2> QED
    BY <2>1 DEF IInv, TypeOK, DeframeStop, channels, history
<1>7. InboundFifo' /\ OutboundConserved' /\ (outPos = Len(outbound))'
      /\ (Len(buf) + Len(outbound) <= peak)'
  BY DEF IInv, InboundFifo, OutboundConserved, DeframeStop, channels, history
<1> QED
  BY <1>3, <1>4, <1>5, <1>6, <1>7 DEF IInv

-----------------------------------------------------------------------------
(* The inductive step: one case per action.                                *)
LEMMA NextIInv == IInv /\ [Next]_vars => IInv'
<1> SUFFICES ASSUME IInv, [Next]_vars PROVE IInv'
  OBVIOUS
<1>1. CASE \E m \in Msgs : add_to_inbound(m)
  BY <1>1, AddStep
<1>2. CASE \E n \in 1..MAX_WIRE_SIZE : read(n)
  BY <1>2, ReadStep
<1>3. CASE \E m \in Msgs, k \in 1..MAX_WIRE_SIZE : WriteBegin(m, k)
  BY <1>3, WriteBeginStep
<1>4. CASE WriteRest
  BY <1>4, WriteRestStep
<1>5. CASE Take
  BY <1>5, TakeBeginStep
<1>6. CASE PopFrame
  BY <1>6, PopFrameStep
<1>7. CASE DeframerRead
  BY <1>7, DeframerReadStep
<1>8. CASE DeframeValid
  BY <1>8, DeframeValidStep
<1>9. CASE DeframeStop
  BY <1>9, DeframeStopStep
<1>10. CASE UNCHANGED vars
  BY <1>10 DEF vars, IInv, TypeOK, channels, deframer, history, InboundFifo,
     OutboundConserved, Deframed, Deframing, Drained, Valid, Invalid,
     TooShortForHeader, HeaderIn, FrameLen
<1> QED
  BY <1>1, <1>2, <1>3, <1>4, <1>5, <1>6, <1>7, <1>8, <1>9, <1>10 DEF Next, TakeStep

(* IInv is an invariant, from which the theorems follow.                   *)
LEMMA InvariantHolds == Spec => []IInv
  BY InitIInv, NextIInv, PTL DEF Spec

(* For every instance the state is well typed: in particular buf never     *)
(* outgrows its array and no cursor leaves its vector.                     *)
THEOREM TypeCorrect == Spec => []TypeOK
<1>1. IInv => TypeOK
  BY DEF IInv
<1> QED
  BY <1>1, InvariantHolds, PTL

(* For every instance the PUT reads exactly what was injected.             *)
THEOREM InboundIsFifo == Spec => []InboundFifo
<1>1. IInv => InboundFifo
  BY DEF IInv
<1> QED
  BY <1>1, InvariantHolds, PTL

(* For every instance no output byte is lost, repeated or reordered as     *)
(* long as what waits between two drains fits the deframer's array.        *)
THEOREM OutboundIsConserved == Spec => []OutboundConserved
<1>1. IInv => OutboundConserved
  BY DEF IInv
<1> QED
  BY <1>1, InvariantHolds, PTL

(* For every instance a call that answers None leaves nothing behind that  *)
(* a later call could have returned at once.                               *)
THEOREM NoneIsDrained == Spec => []NoneMeansDrained
<1>1. IInv => NoneMeansDrained
  BY DEF IInv, Drained, Deframed, NoneMeansDrained
<1> QED
  BY <1>1, InvariantHolds, PTL

(* For every instance the deframer jams only after an invalid header.      *)
THEOREM JamNeedsDesync == Spec => []JamsOnlyDesynced
<1>1. IInv => JamsOnlyDesynced
  BY DEF IInv, Deframed, JamsOnlyDesynced, Idle
<1> QED
  BY <1>1, InvariantHolds, PTL

(* For every instance an invalid header is the end of all output.          *)
THEOREM DesyncForever == Spec => DesyncIsFinal
<1>1. IInv /\ [Next]_vars => [desynced => consumed' = consumed /\ desynced']_vars
  <2> SUFFICES ASSUME IInv, Next, desynced
               PROVE  consumed' = consumed /\ desynced'
    BY DEF vars
  <2>1. ~DeframeValid
    BY DEF IInv, DeframeValid, Valid, Invalid
  <2>2. CASE DeframeStop
    BY <2>2 DEF DeframeStop, history
  <2>3. CASE PopFrame \/ DeframerRead \/ Take \/ WriteRest
    BY <2>3 DEF PopFrame, DeframerRead, Take, WriteRest, deframer, history
  <2>4. ASSUME NEW m \in Msgs, NEW k \in 1..MAX_WIRE_SIZE, WriteBegin(m, k)
        PROVE  consumed' = consumed /\ desynced'
    BY <2>4 DEF WriteBegin, deframer
  <2>5. ASSUME NEW m \in Msgs, add_to_inbound(m)
        PROVE  consumed' = consumed /\ desynced'
    BY <2>5 DEF add_to_inbound, deframer
  <2>6. ASSUME NEW n \in 1..MAX_WIRE_SIZE, read(n)
        PROVE  consumed' = consumed /\ desynced'
    BY <2>6 DEF read, deframer
  <2> QED
    BY <2>1, <2>2, <2>3, <2>4, <2>5, <2>6 DEF Next, TakeStep
<1> QED
  BY <1>1, InvariantHolds, PTL DEF Spec, DesyncIsFinal

-----------------------------------------------------------------------------
(* MemoryStream implements MessageChannel *)

(* off[i] is where the encoding of sq[i] ends in the bytes s.              *)
Framing(off, sq, s) ==
    /\ off \in [0..Len(sq) -> Nat]
    /\ off[0] = 0 /\ off[Len(sq)] = Len(s)
    /\ \A i, j \in 0..Len(sq) : i <= j => off[i] <= off[j]
    /\ \A i \in 1..Len(sq) :
          /\ off[i] = off[i - 1] + Len(Wire[sq[i]])
          /\ \A p \in 1..Len(Wire[sq[i]]) : s[off[i - 1] + p] = Wire[sq[i]][p]

(* The number of frames cut so far, and what is true of them.              *)
Cut == Len(taken) + Len(frames)

CutIsRight(off) ==
    /\ Cut <= Len(sent)
    /\ Len(consumed) = off[Cut]
    /\ \A i \in 1..Len(taken) : taken[i] = Wire[sent[i]]
    /\ \A i \in 1..Len(frames) : frames[i] = Wire[sent[Len(taken) + i]]

(* Until the stream is overrun the frames are the first messages sent, and *)
(* what left buf are the bytes of just these.                              *)
FramesAreMessages ==
    \E off : Framing(off, sent, written \o pending) /\ (InBounds => CutIsRight(off))

(* Only a part of the last message is yet to be written.                   *)
PendingIsPart ==
    pending # <<>> => sent # <<>> /\ Len(pending) < Len(Wire[sent[Len(sent)]])

RInv == IInv /\ FramesAreMessages /\ PendingIsPart

-----------------------------------------------------------------------------
(* Framing                                                                 *)

(* One more message at the end of the bytes ends where the bytes end.      *)
LEMMA FramingExtends ==
    ASSUME NEW off, NEW sq \in Seq(Msgs), NEW s \in Seq(Byte), NEW m \in Msgs,
           Framing(off, sq, s)
    PROVE  \E o : /\ Framing(o, Append(sq, m), s \o Wire[m])
                  /\ \A i \in 0..Len(sq) : o[i] = off[i]
  <1>1. PICK N \in Nat : N = Len(sq)
    OBVIOUS
  <1>2. PICK L \in Nat : L = Len(s)
    OBVIOUS
  <1>3. PICK w \in Seq(Byte) : w = Wire[m]
    BY StreamAssumption
  <1>4. PICK K \in Nat : K = Len(w)
    OBVIOUS
  <1>5. PICK t \in Seq(Msgs) : t = Append(sq, m)
    BY AppendProperties
  <1>6. Len(t) = N + 1 /\ t[N + 1] = m /\ \A i \in 1..N : t[i] = sq[i]
    BY <1>1, <1>5
  <1>7. PICK u \in Seq(Byte) : u = s \o w
    BY ByteConcat
  <1>8. /\ Len(u) = L + K
        /\ \A i \in 1..L : u[i] = s[i]
        /\ \A p \in 1..K : u[L + p] = w[p]
    BY <1>2, <1>4, <1>7
  <1>9. /\ off \in [0..N -> Nat] /\ off[0] = 0 /\ off[N] = L
        /\ \A i, j \in 0..N : i <= j => off[i] <= off[j]
        /\ \A i \in 1..N :
              /\ off[i] = off[i - 1] + Len(Wire[sq[i]])
              /\ \A p \in 1..Len(Wire[sq[i]]) : s[off[i - 1] + p] = Wire[sq[i]][p]
    BY <1>1, <1>2 DEF Framing
  <1>10. PICK o : o = [i \in 0..N + 1 |-> IF i = N + 1 THEN L + K ELSE off[i]]
    OBVIOUS
  <1>11. o[N + 1] = L + K /\ \A i \in 0..N : o[i] = off[i]
    BY <1>1, <1>10
  <1>12. o \in [0..N + 1 -> Nat] /\ o[0] = 0
    BY <1>1, <1>2, <1>4, <1>9, <1>10
  <1>13. ASSUME NEW i \in 0..N + 1, NEW j \in 0..N + 1, i <= j PROVE o[i] <= o[j]
    <2>1. CASE j = N + 1
      <3>1. CASE i = N + 1
        BY <1>2, <1>4, <1>11, <2>1, <3>1
      <3>2. CASE i # N + 1
        <4>1. i \in 0..N /\ N \in 0..N /\ i <= N
          BY <1>1, <3>2
        <4>2. PICK a \in Nat : a = off[i] /\ a <= L
          BY <1>9, <4>1
        <4>3. a <= L + K
          BY <1>2, <1>4, <4>2
        <4> QED BY <1>11, <2>1, <4>1, <4>2, <4>3
      <3> QED BY <3>1, <3>2
    <2>2. CASE j # N + 1
      <3>1. i \in 0..N /\ j \in 0..N
        BY <1>1, <1>13, <2>2
      <3> QED BY <1>9, <1>11, <1>13, <3>1
    <2> QED BY <2>1, <2>2
  <1>14. ASSUME NEW i \in 1..N + 1
         PROVE  /\ o[i] = o[i - 1] + Len(Wire[t[i]])
                /\ \A p \in 1..Len(Wire[t[i]]) : u[o[i - 1] + p] = Wire[t[i]][p]
    <2>1. CASE i = N + 1
      <3>1. o[i] = L + K /\ i - 1 = N /\ N \in 0..N
        BY <1>1, <1>11, <2>1
      <3>2. o[i - 1] = L
        BY <1>9, <1>11, <3>1
      <3>3. Wire[t[i]] = w
        BY <1>3, <1>6, <2>1
      <3> QED BY <1>4, <1>8, <3>1, <3>2, <3>3
    <2>2. CASE i # N + 1
      <3>1. i \in 1..N /\ i \in 0..N /\ i - 1 \in 0..N /\ N \in 0..N /\ i <= N
        BY <1>1, <2>2
      <3>2. t[i] = sq[i] /\ o[i] = off[i] /\ o[i - 1] = off[i - 1]
        BY <1>6, <1>11, <3>1
      <3>3. sq[i] \in Msgs
        BY <1>1, <3>1
      <3>4. PICK v \in Seq(Byte) : v = Wire[sq[i]]
        BY <3>3, StreamAssumption
      <3>5. PICK a \in Nat : a = off[i - 1]
        BY <1>9, <3>1
      <3>6. PICK l \in Nat : l = Len(v)
        OBVIOUS
      <3>7. off[i] = a + l /\ \A p \in 1..l : s[a + p] = v[p]
        BY <1>9, <3>1, <3>4, <3>5, <3>6
      <3>8. a + l <= L
        BY <1>9, <3>1, <3>7
      <3>9. \A p \in 1..l : a + p \in 1..L
        BY <1>2, <3>5, <3>6, <3>8
      <3>10. \A p \in 1..l : u[a + p] = v[p]
        BY <1>8, <3>7, <3>9
      <3> QED BY <3>2, <3>4, <3>5, <3>6, <3>7, <3>10
    <2> QED BY <2>1, <2>2
  <1>15. Framing(o, t, u)
    BY <1>6, <1>8, <1>11, <1>12, <1>13, <1>14 DEF Framing
  <1> QED BY <1>1, <1>3, <1>5, <1>7, <1>11, <1>15

(* The bytes b begin as the (n + 1)st message does.                        *)
NextFrame(off, sq, n, b) ==
    /\ n + 1 \in 1..Len(sq)
    /\ HeaderIn(b) = HeaderIn(Wire[sq[n + 1]])
    /\ FrameLen(b) = Len(Wire[sq[n + 1]])
    /\ FrameLen(b) <= Len(b) => SubSeq(b, 1, FrameLen(b)) = Wire[sq[n + 1]]
    /\ off[n + 1] = off[n] + FrameLen(b)

(* Bytes that begin at a boundary begin with the next message.             *)
LEMMA FrameAtBoundary ==
    ASSUME NEW off, NEW sq \in Seq(Msgs), NEW s \in Seq(Byte), Framing(off, sq, s),
           NEW c \in Seq(Byte), NEW b \in Seq(Byte), NEW r \in Seq(Byte),
           (c \o b) \o r = s, NEW n \in 0..Len(sq), Len(c) = off[n],
           Len(b) >= HeaderSize
    PROVE  NextFrame(off, sq, n, b)
  <1>1. PICK N \in Nat : N = Len(sq)
    OBVIOUS
  <1>2. PICK C, B, R \in Nat : C = Len(c) /\ B = Len(b) /\ R = Len(r)
    OBVIOUS
  <1>3. PICK H \in Nat \ {0} : H = HeaderSize
    BY StreamAssumption
  <1>4. PICK d \in Seq(Byte) : d = c \o b
    BY ByteConcat
  <1>5. /\ Len(d) = C + B
        /\ \A p \in 1..B : d[C + p] = b[p]
    <2>1. /\ Len(d) = Len(c) + Len(b)
          /\ \A p \in 1..(Len(c) + Len(b)) :
                d[p] = IF p <= Len(c) THEN c[p] ELSE b[p - Len(c)]
      BY <1>4, ConcatProperties, ZenonT(30)
    <2>2. \A p \in 1..B : C + p \in 1..(C + B) /\ ~(C + p <= C) /\ (C + p) - C = p
      BY <1>2
    <2> QED BY <1>2, <2>1, <2>2
  <1>6. /\ Len(s) = (C + B) + R
        /\ \A p \in 1..(C + B) : s[p] = d[p]
    BY <1>2, <1>4, <1>5, SMTT(30)
  <1>7. \A p \in 1..B : s[C + p] = b[p]
    <2> SUFFICES ASSUME NEW p \in 1..B PROVE s[C + p] = b[p]
      OBVIOUS
    <2>1. C + p \in 1..(C + B)
      BY <1>2
    <2> QED BY <1>5, <1>6, <2>1
  <1>8. n < N
    <2> SUFFICES ASSUME n = N PROVE FALSE
      BY <1>1
    <2>1. off[n] = Len(s)
      BY <1>1 DEF Framing
    <2>2. C = (C + B) + R
      BY <1>2, <1>6, <2>1
    <2>3. B >= H
      BY <1>2, <1>3
    <2> QED BY <1>2, <1>3, <2>2, <2>3
  <1>9. n + 1 \in 1..N /\ (n + 1) - 1 = n
    BY <1>1, <1>8
  <1>10. sq[n + 1] \in Msgs
    BY <1>1, <1>9
  <1>11. PICK w \in Seq(Byte) : w = Wire[sq[n + 1]]
    BY <1>10, StreamAssumption
  <1>12. PICK K \in Nat : K = Len(w)
    OBVIOUS
  <1>13. off[n + 1] = C + K /\ \A p \in 1..K : s[C + p] = w[p]
    <2>1. /\ off[n + 1] = off[(n + 1) - 1] + Len(Wire[sq[n + 1]])
          /\ \A p \in 1..Len(Wire[sq[n + 1]]) :
                s[off[(n + 1) - 1] + p] = Wire[sq[n + 1]][p]
      BY <1>1, <1>9, Zenon DEF Framing
    <2> QED BY <1>2, <1>9, <1>11, <1>12, <2>1
  <1>14. K >= H /\ H + HeaderOf(SubSeq(w, 1, H)).len = K
    BY <1>3, <1>10, <1>11, <1>12, CodecAssumption
  <1>15. B >= H
    BY <1>2, <1>3
  <1>16. SubSeq(b, 1, H) = SubSeq(w, 1, H)
    <2>1. \A p \in 1..H : p \in 1..B /\ p \in 1..K
      BY <1>2, <1>3, <1>12, <1>14, <1>15
    <2>2. \A p \in 1..H : b[p] = w[p]
      BY <1>7, <1>13, <2>1
    <2>3. SubSeq(b, 1, H) = [p \in 1..H |-> b[p]]
      BY <1>2, <1>3, <1>15
    <2>4. SubSeq(w, 1, H) = [p \in 1..H |-> w[p]]
      BY <1>3, <1>12, <1>14
    <2> QED BY <2>2, <2>3, <2>4
  <1>17. HeaderIn(b) = HeaderIn(w)
    BY <1>3, <1>16 DEF HeaderIn
  <1>18. FrameLen(b) = K
    BY <1>3, <1>14, <1>17 DEF FrameLen, HeaderIn
  <1>19. ASSUME K <= B PROVE SubSeq(b, 1, K) = w
    <2>1. \A p \in 1..K : p \in 1..B
      BY <1>2, <1>12, <1>19
    <2>2. \A p \in 1..K : b[p] = w[p]
      BY <1>7, <1>13, <2>1
    <2>3. SubSeq(b, 1, K) = [p \in 1..K |-> b[p]]
      BY <1>2, <1>12, <1>19
    <2>4. w = [p \in 1..K |-> w[p]]
      BY <1>12
    <2> QED BY <2>2, <2>3, <2>4
  <1> QED BY <1>1, <1>2, <1>9, <1>11, <1>12, <1>13, <1>17, <1>18, <1>19 DEF NextFrame

-----------------------------------------------------------------------------
(* The frames cut are the messages sent                                    *)

(* A stream that was overrun stays so.                                     *)
LEMMA SoundnessOnlyEnds ==
    ASSUME IInv, [Next]_vars, InBounds'
    PROVE  InBounds
  <1>1. peak \in Nat /\ MAX_WIRE_SIZE \in Nat /\ sent \in Seq(Msgs)
    BY StreamAssumption DEF IInv, TypeOK, MAX_WIRE_SIZE
  <1>2. peak' <= MAX_WIRE_SIZE /\ \A i \in DOMAIN sent' : ~Invalid(Wire[sent'[i]])
    BY DEF InBounds
  <1>3. ASSUME peak' = peak, sent' = sent PROVE InBounds
    BY <1>2, <1>3 DEF InBounds
  <1>4. ASSUME NEW b, write(b) PROVE peak <= MAX_WIRE_SIZE
    <2>1. peak' = Max2(peak, Len(buf) + Len(outbound'))
      BY <1>4 DEF write
    <2>2. peak' = peak \/ (peak' = Len(buf) + Len(outbound') /\ ~(peak >= peak'))
      BY <2>1 DEF Max2
    <2> QED BY <1>1, <1>2, <2>2
  <1>5. CASE \E m \in Msgs, k \in 1..MAX_WIRE_SIZE : WriteBegin(m, k)
    <2>1. PICK m \in Msgs, k \in 1..MAX_WIRE_SIZE : WriteBegin(m, k)
      BY <1>5
    <2>2. peak <= MAX_WIRE_SIZE /\ sent' = Append(sent, m)
      BY <1>4, <2>1 DEF WriteBegin
    <2>3. \A i \in DOMAIN sent : i \in DOMAIN sent' /\ sent'[i] = sent[i]
      BY <1>1, <2>2
    <2> QED BY <1>2, <2>2, <2>3 DEF InBounds
  <1>6. CASE WriteRest
    <2>1. peak <= MAX_WIRE_SIZE /\ sent' = sent
      BY <1>4, <1>6 DEF WriteRest
    <2> QED BY <1>2, <2>1 DEF InBounds
  <1>7. CASE UNCHANGED <<peak, sent>>
    BY <1>3, <1>7
  <1>8. ASSUME NEW m \in Msgs, add_to_inbound(m) PROVE UNCHANGED <<peak, sent>>
    BY <1>8 DEF add_to_inbound
  <1>9. ASSUME NEW n \in 1..MAX_WIRE_SIZE, read(n) PROVE UNCHANGED <<peak, sent>>
    BY <1>9 DEF read
  <1>10. CASE Take \/ TakeStep \/ UNCHANGED vars
    BY <1>7, <1>10 DEF Take, TakeStep, PopFrame, DeframerRead, DeframeValid, DeframeStop,
       vars, history
  <1> QED BY <1>5, <1>6, <1>7, <1>8, <1>9, <1>10 DEF Next

(* Steps that neither write, nor cut, nor hand out.                        *)
LEMMA QuietStep ==
    ASSUME FramesAreMessages, PendingIsPart,
           UNCHANGED <<sent, written, pending, taken, frames, consumed, peak>>
    PROVE  FramesAreMessages' /\ PendingIsPart'
  <1>1. PICK off : Framing(off, sent, written \o pending) /\ (InBounds => CutIsRight(off))
    BY DEF FramesAreMessages
  <1>2. Framing(off, sent, written \o pending)'
    BY <1>1 DEF Framing
  <1>3. InBounds' = InBounds
    BY DEF InBounds
  <1>4. (InBounds => CutIsRight(off))'
    BY <1>1, <1>3 DEF CutIsRight, Cut
  <1>5. PendingIsPart'
    BY DEF PendingIsPart
  <1> QED BY <1>2, <1>4, <1>5 DEF FramesAreMessages

(* Beginning a message adds it at the end.                                 *)
LEMMA BeginKeepsFrames ==
    ASSUME RInv, NEW m \in Msgs, NEW k \in 1..MAX_WIRE_SIZE, WriteBegin(m, k)
    PROVE  FramesAreMessages' /\ PendingIsPart'
  <1>1. PICK off : Framing(off, sent, written \o pending) /\ (InBounds => CutIsRight(off))
    BY DEF RInv, FramesAreMessages
  <1>2. PICK w \in Seq(Byte) : w = Wire[m]
    BY StreamAssumption
  <1>3. PICK a, b : a = SubSeq(w, 1, k) /\ b = SubSeq(w, k + 1, Len(w))
    OBVIOUS
  <1>4. k \in 1..Len(w) /\ k \in 0..Len(w) /\ Len(w) \in Nat
    BY <1>2 DEF WriteBegin
  <1>5. a \in Seq(Byte) /\ b \in Seq(Byte) /\ Len(b) = Len(w) - k /\ a \o b = w
    BY <1>3, <1>4, SplitSeq
  <1>6. /\ sent \in Seq(Msgs) /\ written \in Seq(Byte) /\ pending = <<>>
        /\ taken \in Seq(Seq(Byte)) /\ frames \in Seq(Seq(Byte))
    BY DEF RInv, IInv, TypeOK, WriteBegin
  <1>7. written' = written \o a /\ pending' = b /\ sent' = Append(sent, m)
    BY <1>2, <1>3 DEF WriteBegin, write
  <1>8. taken' = taken /\ frames' = frames /\ consumed' = consumed
    BY DEF WriteBegin, deframer
  <1>9. written \o pending = written
    BY <1>6, ByteEmpty
  <1>10. written' \o pending' = written \o Wire[m]
    <2>1. (written \o a) \o b = written \o (a \o b)
      BY <1>5, <1>6, ByteAssoc, ZenonT(30)
    <2> QED BY <1>2, <1>5, <1>7, <2>1
  <1>11. PICK o : /\ Framing(o, Append(sent, m), written \o Wire[m])
                  /\ \A i \in 0..Len(sent) : o[i] = off[i]
    BY <1>1, <1>6, <1>9, FramingExtends
  <1>12. Framing(o, sent, written \o pending)'
    <2>1. Framing(o, sent', written' \o pending')
      BY <1>7, <1>10, <1>11, Zenon
    <2> QED BY <2>1 DEF Framing
  <1>13. PICK N, T, F \in Nat : N = Len(sent) /\ T = Len(taken) /\ F = Len(frames)
    BY <1>6
  <1>14. Len(sent') = N + 1 /\ \A i \in 1..N : sent'[i] = sent[i]
    BY <1>6, <1>7, <1>13
  <1>15. ASSUME InBounds' PROVE CutIsRight(o)'
    <2>1. CutIsRight(off)
      BY <1>1, <1>15, SoundnessOnlyEnds DEF RInv, Next
    <2>2. /\ T + F <= N /\ Len(consumed) = off[T + F]
          /\ \A i \in 1..T : taken[i] = Wire[sent[i]]
          /\ \A i \in 1..F : frames[i] = Wire[sent[T + i]]
      BY <1>13, <2>1 DEF CutIsRight, Cut
    <2>3. T + F \in 0..N /\ T + F <= N + 1
      BY <1>13, <2>2
    <2>4. \A i \in 1..T : i \in 1..N
      BY <1>13, <2>2
    <2>5. \A i \in 1..F : T + i \in 1..N
      BY <1>13, <2>2
    <2>6. /\ T + F <= N + 1 /\ Len(consumed) = o[T + F]
          /\ \A i \in 1..T : taken[i] = Wire[sent'[i]]
          /\ \A i \in 1..F : frames[i] = Wire[sent'[T + i]]
      BY <1>11, <1>13, <1>14, <2>2, <2>3, <2>4, <2>5
    <2> QED BY <1>8, <1>13, <1>14, <2>6 DEF CutIsRight, Cut
  <1>16. PendingIsPart'
    <2>1. Append(sent, m) # <<>> /\ Append(sent, m)[Len(Append(sent, m))] = m
      <3>1. PICK t : t = Append(sent, m)
        OBVIOUS
      <3>2. Len(t) = N + 1 /\ t[N + 1] = m
        BY <1>6, <1>13, <3>1, AppendProperties
      <3>3. t # <<>>
        BY <1>13, <3>2
      <3> QED BY <3>1, <3>2, <3>3
    <2>2. Len(b) < Len(w)
      BY <1>4, <1>5
    <2> QED BY <1>2, <1>7, <2>1, <2>2 DEF PendingIsPart
  <1> QED BY <1>12, <1>15, <1>16 DEF FramesAreMessages

(* Writing the rest of a message changes nothing of what is sent in all.   *)
LEMMA RestKeepsFrames ==
    ASSUME RInv, WriteRest
    PROVE  FramesAreMessages' /\ PendingIsPart'
  <1>1. PICK off : Framing(off, sent, written \o pending) /\ (InBounds => CutIsRight(off))
    BY DEF RInv, FramesAreMessages
  <1>2. written \in Seq(Byte) /\ pending \in Seq(Byte)
    BY DEF RInv, IInv, TypeOK
  <1>3. /\ written' = written \o pending /\ pending' = <<>> /\ sent' = sent
        /\ taken' = taken /\ frames' = frames /\ consumed' = consumed
    BY DEF WriteRest, write, deframer
  <1>4. written' \o pending' = written \o pending
    BY <1>2, <1>3, ByteConcat, ByteEmpty
  <1>5. Framing(off, sent, written \o pending)'
    <2>1. Framing(off, sent', written' \o pending')
      BY <1>1, <1>3, <1>4, Zenon
    <2> QED BY <2>1 DEF Framing
  <1>6. ASSUME InBounds' PROVE CutIsRight(off)'
    <2>1. CutIsRight(off)
      BY <1>1, <1>6, SoundnessOnlyEnds DEF RInv, Next
    <2> QED BY <1>3, <2>1 DEF CutIsRight, Cut
  <1>7. PendingIsPart'
    BY <1>3 DEF PendingIsPart
  <1> QED BY <1>5, <1>6, <1>7 DEF FramesAreMessages

(* A frame that is handed out stays the message it is.                     *)
LEMMA PopKeepsFrames ==
    ASSUME RInv, PopFrame
    PROVE  FramesAreMessages' /\ PendingIsPart'
  <1>1. PICK off : Framing(off, sent, written \o pending) /\ (InBounds => CutIsRight(off))
    BY DEF RInv, FramesAreMessages
  <1>2. taken \in Seq(Seq(Byte)) /\ frames \in Seq(Seq(Byte)) /\ frames # <<>>
    BY DEF RInv, IInv, TypeOK, PopFrame
  <1>3. /\ written' = written /\ pending' = pending /\ sent' = sent /\ peak' = peak
        /\ consumed' = consumed /\ taken' = Append(taken, Head(frames))
        /\ frames' = Tail(frames)
    BY DEF PopFrame
  <1>4. PICK T, F \in Nat : T = Len(taken) /\ F = Len(frames)
    BY <1>2
  <1>5. F # 0
    BY <1>2, <1>4
  <1>6. /\ Len(taken') = T + 1 /\ taken'[T + 1] = frames[1]
        /\ \A i \in 1..T : taken'[i] = taken[i]
    BY <1>2, <1>3, <1>4
  <1>7. Len(frames') = F - 1 /\ \A i \in 1..(F - 1) : frames'[i] = frames[i + 1]
    BY <1>2, <1>3, <1>4
  <1>8. Framing(off, sent, written \o pending)'
    BY <1>1, <1>3 DEF Framing
  <1>9. ASSUME InBounds' PROVE CutIsRight(off)'
    <2>1. InBounds
      BY <1>3, <1>9 DEF InBounds
    <2>2. /\ T + F <= Len(sent) /\ Len(consumed) = off[T + F]
          /\ \A i \in 1..T : taken[i] = Wire[sent[i]]
          /\ \A i \in 1..F : frames[i] = Wire[sent[T + i]]
      BY <1>1, <1>4, <2>1 DEF CutIsRight, Cut
    <2>3. (T + 1) + (F - 1) = T + F
      BY <1>4
    <2>4. ASSUME NEW i \in 1..(T + 1) PROVE taken'[i] = Wire[sent[i]]
      <3>1. CASE i = T + 1
        <4>1. 1 \in 1..F
          BY <1>4, <1>5
        <4> QED BY <1>6, <2>2, <3>1, <4>1
      <3>2. CASE i # T + 1
        <4>1. i \in 1..T
          BY <1>4, <3>2
        <4> QED BY <1>6, <2>2, <4>1
      <3> QED BY <3>1, <3>2
    <2>5. ASSUME NEW i \in 1..(F - 1) PROVE frames'[i] = Wire[sent[(T + 1) + i]]
      <3>1. i + 1 \in 1..F /\ T + (i + 1) = (T + 1) + i
        BY <1>4, <1>5
      <3> QED BY <1>7, <2>2, <3>1
    <2> QED BY <1>3, <1>6, <1>7, <2>2, <2>3, <2>4, <2>5 DEF CutIsRight, Cut
  <1>10. PendingIsPart'
    BY <1>3 DEF RInv, PendingIsPart
  <1> QED BY <1>8, <1>9, <1>10 DEF FramesAreMessages

(* What leaves buf is the next message.                                    *)
LEMMA CutKeepsFrames ==
    ASSUME RInv, DeframeValid
    PROVE  FramesAreMessages' /\ PendingIsPart'
  <1>1. PICK off : Framing(off, sent, written \o pending) /\ (InBounds => CutIsRight(off))
    BY DEF RInv, FramesAreMessages
  <1>2. /\ taken \in Seq(Seq(Byte)) /\ frames \in Seq(Seq(Byte)) /\ sent \in Seq(Msgs)
        /\ written \in Seq(Byte) /\ pending \in Seq(Byte) /\ consumed \in Seq(Byte)
        /\ buf \in Seq(Byte)
    BY DEF RInv, IInv, TypeOK
  <1>3. /\ written' = written /\ pending' = pending /\ sent' = sent /\ peak' = peak
        /\ taken' = taken /\ consumed' = consumed \o SubSeq(buf, 1, FrameLen(buf))
        /\ frames' = Append(frames, SubSeq(buf, 1, FrameLen(buf)))
        /\ pc = "deframe" /\ Valid(buf)
    BY DEF DeframeValid
  <1>4. PICK T, F, N \in Nat : T = Len(taken) /\ F = Len(frames) /\ N = Len(sent)
    BY <1>2
  <1>5. Framing(off, sent, written \o pending)'
    BY <1>1, <1>3 DEF Framing
  <1>6. ASSUME InBounds' PROVE CutIsRight(off)'
    <2>1. InBounds
      BY <1>3, <1>6 DEF InBounds
    <2>2. /\ T + F <= N /\ Len(consumed) = off[T + F]
          /\ \A i \in 1..T : taken[i] = Wire[sent[i]]
          /\ \A i \in 1..F : frames[i] = Wire[sent[T + i]]
      BY <1>1, <1>4, <2>1 DEF CutIsRight, Cut
    <2>3. consumed \o buf = written
      <3>1. outbound = <<>>
        BY <1>3 DEF RInv, IInv, Deframing
      <3>2. (consumed \o buf) \o outbound = written
        BY <2>1 DEF RInv, IInv, OutboundConserved, InBounds
      <3>3. consumed \o buf \in Seq(Byte)
        BY <1>2, ByteConcat
      <3> QED BY <3>1, <3>2, <3>3, ByteEmpty
    <2>4. PICK n \in 0..N : n = T + F
      BY <1>4, <2>2
    <2>5. (consumed \o buf) \o pending = written \o pending
          /\ written \o pending \in Seq(Byte)
      BY <1>2, <2>3, ByteConcat
    <2>6. Len(buf) >= HeaderSize
      <3>1. Len(buf) \in Nat /\ HeaderSize \in Nat
        BY <1>2, StreamAssumption
      <3> QED BY <1>3, <3>1 DEF Valid, TooShortForHeader
    <2>7. PICK l : l = FrameLen(buf)
      OBVIOUS
    <2>8. /\ n + 1 \in 1..N /\ l = Len(Wire[sent[n + 1]])
          /\ l <= Len(buf) => SubSeq(buf, 1, l) = Wire[sent[n + 1]]
          /\ off[n + 1] = off[n] + l
      <3>1. PICK s \in Seq(Byte) : s = written \o pending
        BY <2>5
      <3>2. Framing(off, sent, s) /\ (consumed \o buf) \o pending = s
        BY <1>1, <2>5, <3>1
      <3>3. n \in 0..Len(sent) /\ Len(consumed) = off[n]
        BY <1>4, <2>2, <2>4
      <3>4. NextFrame(off, sent, n, buf)
        BY <1>2, <2>6, <3>1, <3>2, <3>3, FrameAtBoundary
      <3> QED BY <1>4, <2>7, <3>4, Zenon DEF NextFrame
    <2>9. SubSeq(buf, 1, l) = Wire[sent[n + 1]]
      BY <1>3, <2>7, <2>8 DEF Valid
    <2>10. PICK w \in Seq(Byte) : w = Wire[sent[n + 1]]
      <3>1. sent[n + 1] \in Msgs
        BY <1>2, <1>4, <2>8
      <3> QED BY <3>1, StreamAssumption
    <2>11. Len(consumed') = off[n + 1]
      <3>1. Len(consumed \o w) = Len(consumed) + Len(w)
        BY <1>2, ByteConcat
      <3> QED BY <1>3, <2>2, <2>4, <2>7, <2>8, <2>9, <2>10, <3>1
    <2>12. /\ Len(frames') = F + 1 /\ frames'[F + 1] = w
           /\ \A i \in 1..F : frames'[i] = frames[i]
      <3>1. frames' = Append(frames, w)
        BY <1>3, <2>7, <2>9, <2>10
      <3> QED BY <1>2, <1>4, <3>1, AppendProperties
    <2>13. ASSUME NEW i \in 1..(F + 1) PROVE frames'[i] = Wire[sent[T + i]]
      <3>1. CASE i = F + 1
        <4>1. T + i = n + 1
          BY <1>4, <2>4, <3>1
        <4> QED BY <2>10, <2>12, <3>1, <4>1
      <3>2. CASE i # F + 1
        <4>1. i \in 1..F
          BY <1>4, <3>2
        <4> QED BY <2>2, <2>12, <4>1
      <3> QED BY <3>1, <3>2
    <2>14. T + (F + 1) = n + 1 /\ n + 1 <= N
      BY <1>4, <2>4, <2>8
    <2> QED BY <1>3, <1>4, <2>2, <2>11, <2>12, <2>13, <2>14 DEF CutIsRight, Cut
  <1>7. PendingIsPart'
    BY <1>3 DEF RInv, PendingIsPart
  <1> QED BY <1>5, <1>6, <1>7 DEF FramesAreMessages

(* RInv is an invariant.                                                   *)
LEMMA NextRInv == RInv /\ [Next]_vars => RInv'
  <1> SUFFICES ASSUME RInv, [Next]_vars PROVE RInv'
    OBVIOUS
  <1>1. IInv'
    BY NextIInv DEF RInv
  <1>2. CASE UNCHANGED <<sent, written, pending, taken, frames, consumed, peak>>
    BY <1>1, <1>2, QuietStep DEF RInv
  <1>3. ASSUME NEW m \in Msgs, add_to_inbound(m) PROVE RInv'
    BY <1>2, <1>3 DEF add_to_inbound, deframer
  <1>4. ASSUME NEW n \in 1..MAX_WIRE_SIZE, read(n) PROVE RInv'
    BY <1>2, <1>4 DEF read, deframer
  <1>5. ASSUME NEW m \in Msgs, NEW k \in 1..MAX_WIRE_SIZE, WriteBegin(m, k) PROVE RInv'
    BY <1>1, <1>5, BeginKeepsFrames DEF RInv
  <1>6. CASE WriteRest
    BY <1>1, <1>6, RestKeepsFrames DEF RInv
  <1>7. CASE PopFrame
    BY <1>1, <1>7, PopKeepsFrames DEF RInv
  <1>8. CASE DeframeValid
    BY <1>1, <1>8, CutKeepsFrames DEF RInv
  <1>9. CASE Take \/ DeframerRead \/ DeframeStop \/ UNCHANGED vars
    BY <1>2, <1>9 DEF Take, DeframerRead, DeframeStop, vars, deframer, history
  <1> QED BY <1>3, <1>4, <1>5, <1>6, <1>7, <1>8, <1>9 DEF Next, TakeStep

(* Initially nothing was sent.                                             *)
LEMMA InitRInv == Init => RInv
  <1> SUFFICES ASSUME Init PROVE RInv
    OBVIOUS
  <1>1. IInv
    BY InitIInv
  <1>2. /\ sent = <<>> /\ written = <<>> /\ pending = <<>> /\ taken = <<>>
        /\ frames = <<>> /\ consumed = <<>>
    BY DEF Init
  <1>3. <<>> \o <<>> = <<>> /\ Len(<<>>) = 0
    BY ConcatEmptySeq, EmptySeq
  <1>4. PICK off : off = [i \in 0..0 |-> 0]
    OBVIOUS
  <1>5. Framing(off, <<>>, <<>>)
    BY <1>3, <1>4 DEF Framing
  <1>6. CutIsRight(off)
    BY <1>2, <1>3, <1>4 DEF CutIsRight, Cut
  <1> QED BY <1>1, <1>2, <1>3, <1>5, <1>6 DEF RInv, FramesAreMessages, PendingIsPart

-----------------------------------------------------------------------------
(* The steps of the channel                                                *)

(* Every frame cut is of a message written to its end.                     *)
LEMMA CutIsComplete ==
    ASSUME RInv, InBounds
    PROVE  /\ Complete \in 0..Len(sent) /\ Cut \in 0..Complete
           /\ pending # <<>> => Complete = Len(sent) - 1 /\ Len(sent) # 0
           /\ \A i \in 1..Len(frames) : frames[i] = Wire[sent[Len(taken) + i]]
  <1>1. PICK off : Framing(off, sent, written \o pending) /\ CutIsRight(off)
    BY DEF RInv, FramesAreMessages
  <1>2. /\ taken \in Seq(Seq(Byte)) /\ frames \in Seq(Seq(Byte)) /\ sent \in Seq(Msgs)
        /\ written \in Seq(Byte) /\ pending \in Seq(Byte) /\ consumed \in Seq(Byte)
        /\ buf \in Seq(Byte) /\ outbound \in Seq(Byte)
    BY DEF RInv, IInv, TypeOK
  <1>3. PICK N, T, F \in Nat : N = Len(sent) /\ T = Len(taken) /\ F = Len(frames)
    BY <1>2
  <1>4. PICK n \in Nat : n = Cut
    BY <1>3 DEF Cut
  <1>5. n <= N /\ Len(consumed) = off[n] /\ off[N] = Len(written \o pending)
    BY <1>1, <1>3, <1>4 DEF CutIsRight, Framing
  <1>6. PICK P, W, C, B, O \in Nat : /\ P = Len(pending) /\ W = Len(written)
            /\ C = Len(consumed) /\ B = Len(buf) /\ O = Len(outbound)
    BY <1>2
  <1>7. Len(written \o pending) = W + P
    BY <1>2, <1>6, ByteConcat
  <1>8. W = (C + B) + O
    <2>1. (consumed \o buf) \o outbound = written
      BY DEF RInv, IInv, OutboundConserved, InBounds
    <2>2. consumed \o buf \in Seq(Byte) /\ Len(consumed \o buf) = C + B
      BY <1>2, <1>6, ByteConcat
    <2> QED BY <1>2, <1>6, <2>1, <2>2, ByteConcat
  <1>9. ASSUME pending # <<>> PROVE N # 0 /\ n # N
    <2>1. P # 0
      BY <1>2, <1>6, <1>9
    <2>2. N # 0
      BY <1>2, <1>3, <1>9 DEF RInv, PendingIsPart
    <2>3. ASSUME n = N PROVE FALSE
      <3>1. C = W + P
        BY <1>5, <1>6, <1>7, <2>3
      <3> QED BY <1>6, <1>8, <2>1, <3>1
    <2> QED BY <2>2, <2>3
  <1>10. CASE pending = <<>>
    <2>1. Complete = N
      BY <1>3, <1>10 DEF Complete
    <2> QED BY <1>1, <1>3, <1>4, <1>5, <1>10, <2>1 DEF CutIsRight
  <1>11. CASE pending # <<>>
    <2>1. Complete = N - 1
      BY <1>3, <1>11 DEF Complete
    <2>2. N - 1 \in 0..N /\ n \in 0..(N - 1)
      BY <1>3, <1>4, <1>5, <1>9, <1>11
    <2> QED BY <1>1, <1>3, <1>4, <1>9, <1>11, <2>1, <2>2 DEF CutIsRight
  <1> QED BY <1>10, <1>11

(* When all bytes went to buf and no frame can be cut, none is missing.    *)
LEMMA NothingIsLeft ==
    ASSUME RInv, InBounds, outbound = <<>>, frames = <<>>, ~Valid(buf)
    PROVE  Len(taken) = Complete
  <1>1. PICK off : Framing(off, sent, written \o pending) /\ CutIsRight(off)
    BY DEF RInv, FramesAreMessages
  <1>2. /\ taken \in Seq(Seq(Byte)) /\ sent \in Seq(Msgs)
        /\ written \in Seq(Byte) /\ pending \in Seq(Byte) /\ consumed \in Seq(Byte)
        /\ buf \in Seq(Byte)
    BY DEF RInv, IInv, TypeOK
  <1>3. PICK N, T, K \in Nat : N = Len(sent) /\ T = Len(taken) /\ K = Complete
    BY <1>2, CutIsComplete
  <1>4. Cut = T /\ T <= K /\ K <= N
    <2>1. Cut = T + 0
      BY <1>3 DEF Cut
    <2>2. Cut = T
      BY <1>3, <2>1
    <2> QED BY <1>3, <2>2, CutIsComplete
  <1> SUFFICES ASSUME T < K PROVE FALSE
    BY <1>3, <1>4
  <1>5. T + 1 \in 1..N /\ T \in 0..N /\ K \in 0..N /\ T + 1 \in 0..N /\ N \in 0..N
    BY <1>3, <1>4
  <1>6. PICK w \in Seq(Byte) : w = Wire[sent[T + 1]]
    <2>1. sent[T + 1] \in Msgs
      BY <1>2, <1>3, <1>5
    <2> QED BY <2>1, StreamAssumption
  <1>7. PICK P, W, C, B, L \in Nat : /\ P = Len(pending) /\ W = Len(written)
            /\ C = Len(consumed) /\ B = Len(buf) /\ L = Len(w)
    BY <1>2
  <1>8. consumed \o buf = written /\ W = C + B
    <2>1. (consumed \o buf) \o outbound = written
      BY DEF RInv, IInv, OutboundConserved, InBounds
    <2>2. consumed \o buf \in Seq(Byte) /\ Len(consumed \o buf) = C + B
      BY <1>2, <1>7, ByteConcat
    <2> QED BY <1>7, <2>1, <2>2, ByteEmpty
  <1>9. /\ off \in [0..N -> Nat] /\ off[T] = C /\ off[N] = W + P
        /\ off[T + 1] = C + L
        /\ \A i, j \in 0..N : i <= j => off[i] <= off[j]
        /\ N # 0 => off[N] = off[N - 1] + Len(Wire[sent[N]])
    <2>1. Len(written \o pending) = W + P
      BY <1>2, <1>7, ByteConcat
    <2>2. off[T + 1] = off[(T + 1) - 1] + Len(Wire[sent[T + 1]]) /\ (T + 1) - 1 = T
      BY <1>1, <1>3, <1>5 DEF Framing
    <2>3. off[T] = C
      BY <1>1, <1>4, <1>7 DEF CutIsRight
    <2>4. N # 0 => N \in 1..N
      BY <1>3
    <2>5. /\ off \in [0..N -> Nat] /\ off[N] = W + P
          /\ \A i, j \in 0..N : i <= j => off[i] <= off[j]
          /\ N # 0 => off[N] = off[N - 1] + Len(Wire[sent[N]])
      BY <1>1, <1>3, <2>1, <2>4 DEF Framing
    <2> QED BY <1>6, <1>7, <2>2, <2>3, <2>5
  <1>10. C + L <= W
    <2>1. CASE pending = <<>>
      <3>1. P = 0
        BY <1>7, <2>1
      <3>2. off[T + 1] <= off[N]
        BY <1>5, <1>9
      <3> QED BY <1>7, <1>9, <3>1, <3>2
    <2>2. CASE pending # <<>>
      <3>1. K = N - 1 /\ N # 0
        BY <1>3, <2>2, CutIsComplete
      <3>2. N - 1 \in 0..N /\ T + 1 <= N - 1
        BY <1>3, <3>1
      <3>3. PICK a \in Nat : a = off[N - 1] /\ off[T + 1] <= a
        BY <1>5, <1>9, <3>2
      <3>4. PICK b \in Nat : b = Len(Wire[sent[N]]) /\ P < b
        <4>1. sent[N] \in Msgs
          BY <1>2, <1>3, <3>1
        <4>2. Wire[sent[N]] \in Seq(Byte)
          BY <4>1, StreamAssumption
        <4>3. Len(Wire[sent[N]]) \in Nat
          BY <4>2
        <4> QED BY <1>3, <1>7, <2>2, <4>3 DEF RInv, PendingIsPart
      <3>5. W + P = a + b /\ C + L <= a
        BY <1>9, <3>1, <3>3, <3>4
      <3> QED BY <1>7, <3>3, <3>4, <3>5, SMTT(30)
    <2> QED BY <2>1, <2>2
  <1>11. L <= B
    BY <1>7, <1>8, <1>10
  <1>12. PICK H \in Nat : H = HeaderSize /\ H <= L
    <2>1. sent[T + 1] \in Msgs
      BY <1>2, <1>3, <1>5
    <2> QED BY <1>6, <1>7, <2>1, StreamAssumption, CodecAssumption
  <1>13. Len(buf) >= HeaderSize
    BY <1>7, <1>11, <1>12
  <1>14. HeaderIn(buf) = HeaderIn(w) /\ FrameLen(buf) = L
    <2>1. PICK s \in Seq(Byte) : s = written \o pending
      BY <1>2, ByteConcat
    <2>2. Framing(off, sent, s) /\ (consumed \o buf) \o pending = s
      BY <1>1, <1>8, <2>1
    <2>3. T \in 0..Len(sent) /\ Len(consumed) = off[T]
      BY <1>3, <1>5, <1>7, <1>9
    <2>4. NextFrame(off, sent, T, buf)
      BY <1>2, <1>13, <2>1, <2>2, <2>3, FrameAtBoundary
    <2> QED BY <1>6, <1>7, <2>4, Zenon DEF NextFrame
  <1>15. ~TooShortForHeader(buf) /\ ~TooShortForHeader(w)
    BY <1>7, <1>11, <1>12 DEF TooShortForHeader
  <1>16. ~Rejected(HeaderIn(w))
    <2>1. T + 1 \in DOMAIN sent
      BY <1>2, <1>3, <1>5
    <2>2. ~Invalid(w)
      BY <1>6, <2>1 DEF InBounds
    <2> QED BY <1>15, <2>2 DEF Invalid
  <1> QED BY <1>7, <1>11, <1>14, <1>15, <1>16, Zenon DEF Valid

(* What is left of a sequence behind a position, cut again.                *)
LEMMA CutRest ==
    ASSUME NEW v \in Seq(Byte), NEW p \in 0..Len(v), NEW q \in p..Len(v), NEW t,
           t = SubSeq(v, p + 1, Len(v))
    PROVE  /\ t \in Seq(Byte) /\ Len(t) = Len(v) - p
           /\ SubSeq(t, 1, q - p) = SubSeq(v, p + 1, q)
           /\ SubSeq(t, (q - p) + 1, Len(t)) = SubSeq(v, q + 1, Len(v))
  <1>1. PICK L \in Nat : L = Len(v)
    OBVIOUS
  <1>2. p \in Nat /\ q \in Nat /\ p <= q /\ q <= L
    BY <1>1
  <1>3. PICK a \in Nat : a = q - p
    BY <1>2
  <1>4. PICK b \in Nat : b = L - q
    <2>1. L - q \in Nat
      BY <1>1, <1>2
    <2> QED BY <2>1
  <1>5. /\ t \in Seq(Byte) /\ Len(t) = L - p
        /\ \A i \in 1..(L - p) : t[i] = v[p + i]
    <2>1. p \in 0..Len(v)
      OBVIOUS
    <2>2. t \in Seq(Byte) /\ Len(t) = L - p
      BY <1>1, SplitSeq
    <2>3. \A i \in 1..(L - p) : t[i] = v[p + i]
      BY <1>1, <1>2, <2>2
    <2> QED BY <2>2, <2>3
  <1>6. SubSeq(t, 1, a) = [i \in 1..a |-> v[p + i]]
    <2>1. a <= L - p /\ \A i \in 1..a : i \in 1..(L - p)
      BY <1>1, <1>2, <1>3
    <2>2. SubSeq(t, 1, a) = [i \in 1..a |-> t[i]]
      BY <1>3, <1>5, <2>1
    <2> QED BY <1>5, <2>1, <2>2
  <1>7. SubSeq(v, p + 1, q) = [i \in 1..a |-> v[p + i]]
    BY <1>1, <1>2, <1>3
  <1>8. SubSeq(t, a + 1, L - p) = [i \in 1..b |-> v[q + i]]
    <2>1. \A i \in 1..b : a + i \in 1..(L - p) /\ p + (a + i) = q + i
      BY <1>1, <1>2, <1>3, <1>4
    <2>2. SubSeq(t, a + 1, L - p) = [i \in 1..b |-> t[a + i]]
      BY <1>1, <1>2, <1>3, <1>4, <1>5
    <2> QED BY <1>5, <2>1, <2>2
  <1>9. SubSeq(v, q + 1, L) = [i \in 1..b |-> v[q + i]]
    BY <1>1, <1>2, <1>4
  <1> QED BY <1>1, <1>3, <1>5, <1>6, <1>7, <1>8, <1>9

(* The messages between two positions.                                     *)
LEMMA Between ==
    ASSUME NEW q \in Seq(Msgs), NEW t \in Nat, NEW e \in Nat, t <= e, e <= Len(q)
    PROVE  /\ SubSeq(q, t + 1, e) \in Seq(Msgs)
           /\ Len(SubSeq(q, t + 1, e)) = e - t
           /\ \A i \in 1..(e - t) : SubSeq(q, t + 1, e)[i] = q[t + i]
  <1>1. PICK N \in Nat : N = Len(q)
    OBVIOUS
  <1>2. CASE t = e
    <2>1. SubSeq(q, t + 1, e) = <<>>
      BY <1>2, SubSeqEmpty
    <2>2. e - t = 0
      BY <1>2
    <2> QED BY <2>1, <2>2
  <1>3. CASE t # e
    <2>1. /\ t + 1 \in 1..Len(q) /\ e \in 1..Len(q)
          /\ t + 1 <= e /\ (e - (t + 1)) + 1 = e - t
      BY <1>1, <1>3
    <2>2. \A i \in 1..(e - t) : ((t + 1) + i) - 1 = t + i
      OBVIOUS
    <2>3. PICK m : m = t + 1
      OBVIOUS
    <2>4. /\ SubSeq(q, m, e) \in Seq(Msgs)
          /\ Len(SubSeq(q, m, e)) = IF m <= e THEN e - m + 1 ELSE 0
          /\ \A i \in 1..(e - m + 1) : SubSeq(q, m, e)[i] = q[m + i - 1]
      BY <2>1, <2>3, SubSeqProperties
    <2> QED BY <2>1, <2>2, <2>3, <2>4
  <1> QED BY <1>2, <1>3

(* The messages behind a position when one more is sent.                   *)
LEMMA OneMoreWaits ==
    ASSUME NEW q \in Seq(Msgs), NEW m \in Msgs, NEW t \in 0..Len(q)
    PROVE  /\ SubSeq(Append(q, m), t + 1, Len(q)) = SubSeq(q, t + 1, Len(q))
           /\ SubSeq(Append(q, m), t + 1, Len(q) + 1) = Append(SubSeq(q, t + 1, Len(q)), m)
  <1>1. PICK N \in Nat : N = Len(q)
    OBVIOUS
  <1>2. PICK r \in Nat : r = N - t
    <2>1. N - t \in Nat
      BY <1>1
    <2> QED BY <2>1
  <1>3. PICK a \in Seq(Msgs) : a = Append(q, m)
    BY AppendProperties
  <1>4. Len(a) = N + 1 /\ a[N + 1] = m /\ \A i \in 1..N : a[i] = q[i]
    BY <1>1, <1>3, AppendProperties
  <1>5. /\ t \in Nat /\ N + 1 \in Nat /\ t <= N /\ N <= Len(q) /\ N <= Len(a)
        /\ t <= N + 1 /\ N + 1 <= Len(a) /\ (N + 1) - t = r + 1
    BY <1>1, <1>2, <1>4
  <1>6. PICK w \in Seq(Msgs) : w = SubSeq(q, t + 1, N)
    BY <1>5, Between
  <1>7. PICK x \in Seq(Msgs) : x = SubSeq(a, t + 1, N)
    BY <1>5, Between
  <1>8. PICK y \in Seq(Msgs) : y = SubSeq(a, t + 1, N + 1)
    BY <1>5, Between
  <1>9. Len(w) = r /\ \A i \in 1..r : w[i] = q[t + i]
    BY <1>2, <1>5, <1>6, Between
  <1>10. Len(x) = r /\ \A i \in 1..r : x[i] = a[t + i]
    BY <1>2, <1>5, <1>7, Between
  <1>11. Len(y) = r + 1 /\ \A i \in 1..(r + 1) : y[i] = a[t + i]
    BY <1>5, <1>8, Between
  <1>12. \A i \in 1..r : t + i \in 1..N
    BY <1>1, <1>2
  <1>13. x = w
    <2>1. \A i \in 1..Len(x) : x[i] = w[i]
      BY <1>4, <1>9, <1>10, <1>12
    <2> QED BY <1>9, <1>10, <2>1, SeqEqual
  <1>14. PICK z \in Seq(Msgs) : z = Append(w, m)
    BY AppendProperties
  <1>15. Len(z) = r + 1 /\ z[r + 1] = m /\ \A i \in 1..r : z[i] = w[i]
    BY <1>9, <1>14, AppendProperties
  <1>16. ASSUME NEW i \in 1..(r + 1) PROVE y[i] = z[i]
    <2>1. CASE i = r + 1
      <3>1. t + i = N + 1
        BY <1>1, <1>2, <2>1
      <3> QED BY <1>4, <1>11, <1>15, <2>1, <3>1
    <2>2. CASE i # r + 1
      <3>1. i \in 1..r
        BY <1>2, <2>2
      <3> QED BY <1>4, <1>9, <1>11, <1>12, <1>15, <3>1
    <2> QED BY <2>1, <2>2
  <1>17. y = z
    BY <1>11, <1>15, <1>16, SeqEqual
  <1> QED BY <1>1, <1>3, <1>6, <1>7, <1>8, <1>13, <1>14, <1>17

-----------------------------------------------------------------------------
(* The state of the channel                                                *)

Unread  == SubSeq(inbound, inPos + 1, Len(inbound))
Waiting == SubSeq(sent, Len(taken) + 1, Complete)
Answer  == IF pc = "none" THEN "none" ELSE "some"

ChannelStep == [Channel!Next]_<<Channel!in, Channel!out, InBounds>>

(* The actions of the channel, in the terms of the stream: a message is    *)
(* injected.                                                               *)
LEMMA ChannelInject ==
    ASSUME NEW m \in Msgs, Unread' = Unread \o Wire[m], delivered' = delivered,
           UNCHANGED <<Waiting, taken, Answer, InBounds>>
    PROVE  ChannelStep
  <1>1. Channel!Inject(m)
    BY DEF Channel!Inject, Channel!out, Unread, Waiting, Answer
  <1> QED BY <1>1 DEF ChannelStep, Channel!Next

(* Bytes are read by the program under test.                               *)
LEMMA ChannelDeliver ==
    ASSUME NEW n \in 1..Len(Unread),
           delivered' = delivered \o SubSeq(Unread, 1, n),
           Unread' = SubSeq(Unread, n + 1, Len(Unread)),
           UNCHANGED <<Waiting, taken, Answer, InBounds>>
    PROVE  ChannelStep
  <1>1. Channel!Deliver(n)
    BY DEF Channel!Deliver, Channel!out, Unread, Waiting, Answer
  <1> QED BY <1>1 DEF ChannelStep, Channel!Next, Unread

(* A message is written to its end.                                        *)
LEMMA ChannelSend ==
    ASSUME NEW m \in Msgs, InBounds, InBounds', Waiting' = Append(Waiting, m),
           Answer' = "some", UNCHANGED <<Unread, delivered, taken>>
    PROVE  ChannelStep
  <1>1. InBounds' = InBounds
    BY DEF InBounds
  <1>2. Channel!Send(m)
    BY <1>1 DEF Channel!Send, Channel!in, Unread, Waiting, Answer
  <1> QED BY <1>2 DEF ChannelStep, Channel!Next

(* A message is taken.                                                     *)
LEMMA ChannelReceive ==
    ASSUME InBounds, InBounds', Waiting # <<>>, taken' = Append(taken, Wire[Head(Waiting)]),
           Waiting' = Tail(Waiting), UNCHANGED <<Unread, delivered, Answer>>
    PROVE  ChannelStep
  <1>1. InBounds' = InBounds
    BY DEF InBounds
  <1>2. Channel!Receive
    BY <1>1 DEF Channel!Receive, Channel!in, Unread, Waiting, Answer
  <1> QED BY <1>2 DEF ChannelStep, Channel!Next

(* A call finds no message.                                                *)
LEMMA ChannelNone ==
    ASSUME InBounds, InBounds', Waiting = <<>>, Answer' = "none",
           UNCHANGED <<Unread, delivered, Waiting, taken>>
    PROVE  ChannelStep
  <1>1. InBounds' = InBounds
    BY DEF InBounds
  <1>2. Channel!AnswerNone
    BY <1>1 DEF Channel!AnswerNone, Channel!in, Unread, Waiting, Answer
  <1> QED BY <1>2 DEF ChannelStep, Channel!Next

(* The answer of the last call is old.                                     *)
LEMMA ChannelAsk ==
    ASSUME InBounds, InBounds', Answer' = "some",
           UNCHANGED <<Unread, delivered, Waiting, taken>>
    PROVE  ChannelStep
  <1>1. InBounds' = InBounds
    BY DEF InBounds
  <1>2. Channel!AskAgain
    BY <1>1 DEF Channel!AskAgain, Channel!in, Unread, Waiting, Answer
  <1> QED BY <1>2 DEF ChannelStep, Channel!Next

(* The stream is overrun, or was.                                          *)
LEMMA ChannelEnds ==
    ASSUME ~InBounds', UNCHANGED <<Unread, delivered>>
    PROVE  ChannelStep
  <1>1. Channel!Unsound
    BY DEF Channel!Unsound, Channel!in, Unread
  <1> QED BY <1>1 DEF ChannelStep, Channel!Next

(* Nothing the executor sees happens.                                      *)
LEMMA ChannelStutters ==
    ASSUME UNCHANGED <<Unread, delivered, Waiting, taken, Answer, InBounds>>
    PROVE  ChannelStep
  BY DEF ChannelStep, Channel!in, Channel!out, Unread, Waiting, Answer

-----------------------------------------------------------------------------
(* The steps of the stream                                                 *)

(* Injecting appends to the unread bytes.                                  *)
LEMMA AddRefines ==
    ASSUME RInv, NEW m \in Msgs, add_to_inbound(m)
    PROVE  ChannelStep
  <1>1. PICK w \in Seq(Byte) : w = Wire[m]
    BY StreamAssumption
  <1>2. inbound \in Seq(Byte) /\ inPos \in 0..Len(inbound)
    BY DEF RInv, IInv, TypeOK
  <1>3. PICK p \in Seq(Byte) : p = SubSeq(inbound, 1, inPos)
    BY <1>2, SplitSeq
  <1>4. Unread \in Seq(Byte) /\ p \o Unread = inbound /\ Len(p) = inPos
    BY <1>2, <1>3, SplitSeq DEF Unread
  <1>5. PICK v \in Seq(Byte) : v = inbound \o w
    BY <1>2, ByteConcat
  <1>6. inbound' = v /\ inPos' = inPos /\ delivered' = delivered
    BY <1>1, <1>5 DEF add_to_inbound
  <1>7. Unread' = Unread \o w
    <2>1. inPos \in 0..Len(v)
      <3>1. Len(v) = Len(inbound) + Len(w) /\ Len(inbound) \in Nat /\ Len(w) \in Nat
        BY <1>2, <1>5, ByteConcat
      <3> QED BY <1>2, <3>1
    <2>2. PICK q : q = SubSeq(v, 1, inPos)
      OBVIOUS
    <2>3. PICK u : u = SubSeq(v, inPos + 1, Len(v))
      OBVIOUS
    <2>4. q \in Seq(Byte) /\ u \in Seq(Byte) /\ q \o u = v
      BY <2>1, <2>2, <2>3, SplitSeq
    <2>5. q = p
      <3>1. inPos \in Nat /\ Len(inbound) \in Nat
        BY <1>2
      <3>2. CASE inPos = 0
        BY <1>3, <2>2, <3>2, SubSeqEmpty
      <3>3. CASE inPos # 0
        <4>1. 1 \in 1..Len(inbound) /\ inPos \in 1..Len(inbound)
          BY <1>2, <3>1, <3>3
        <4> QED BY <1>2, <1>3, <1>5, <2>2, <4>1, SubSeqOfConcat1
      <3> QED BY <3>2, <3>3
    <2>6. v = p \o (Unread \o w)
      <3>1. (p \o Unread) \o w = p \o (Unread \o w)
        BY <1>1, <1>3, <1>4, ByteAssoc, ZenonT(30)
      <3> QED BY <1>4, <1>5, <3>1
    <2>7. Unread \o w \in Seq(Byte)
      BY <1>4, ByteConcat
    <2>8. u = Unread \o w
      BY <1>3, <2>4, <2>5, <2>6, <2>7, ByteCancel
    <2> QED BY <1>6, <2>3, <2>8 DEF Unread
  <1>8. UNCHANGED <<Waiting, taken, Answer, InBounds>>
    BY DEF add_to_inbound, Waiting, Complete, Answer, InBounds
  <1> QED BY <1>1, <1>6, <1>7, <1>8, ChannelInject

(* Reading takes the first of the unread bytes.                            *)
LEMMA ReadRefines ==
    ASSUME RInv, NEW n \in 1..MAX_WIRE_SIZE, read(n)
    PROVE  ChannelStep
  <1>1. inbound \in Seq(Byte) /\ inPos \in 0..Len(inbound)
    BY DEF RInv, IInv, TypeOK
  <1>2. PICK L \in Nat : L = Len(inbound)
    BY <1>1
  <1>3. PICK e \in inPos..L : e = Min2(inPos + n, Len(inbound))
    <2>1. Min2(inPos + n, L) \in inPos..L
      BY <1>1, <1>2 DEF Min2
    <2> QED BY <1>2, <2>1
  <1>4. PICK k \in Nat : k = e - inPos
    <2>1. e - inPos \in Nat
      BY <1>1, <1>2, <1>3
    <2> QED BY <2>1
  <1>5. PICK t : t = Unread
    OBVIOUS
  <1>6. /\ t \in Seq(Byte) /\ Len(t) = L - inPos
        /\ SubSeq(t, 1, k) = SubSeq(inbound, inPos + 1, e)
        /\ SubSeq(t, k + 1, Len(t)) = SubSeq(inbound, e + 1, L)
    BY <1>1, <1>2, <1>3, <1>4, <1>5, CutRest DEF Unread
  <1>7. PICK got : got = SubSeq(t, 1, k)
    OBVIOUS
  <1>8. /\ got # <<>> /\ delivered' = delivered \o got
        /\ IF inPos + Len(got) = Len(inbound)
           THEN inbound' = <<>> /\ inPos' = 0
           ELSE inbound' = inbound /\ inPos' = inPos + Len(got)
    BY <1>3, <1>6, <1>7 DEF read
  <1>9. k \in 0..Len(t)
    BY <1>1, <1>2, <1>3, <1>4, <1>6
  <1>10. Len(got) = k
    BY <1>6, <1>7, <1>9, SplitSeq
  <1>11. k # 0
    BY <1>6, <1>7, <1>8, SubSeqEmpty
  <1>12. k \in 1..Len(t)
    BY <1>6, <1>9, <1>11
  <1>13. inPos + k = e
    BY <1>1, <1>2, <1>3, <1>4
  <1>14. Unread' = SubSeq(t, k + 1, Len(t))
    <2>1. CASE e = L
      <3>1. inbound' = <<>> /\ inPos' = 0
        BY <1>2, <1>8, <1>10, <1>13, <2>1
      <3>2. Unread' = SubSeq(<<>>, 1, 0)
        BY <3>1 DEF Unread
      <3>3. SubSeq(<<>>, 1, 0) = <<>> /\ SubSeq(inbound, e + 1, L) = <<>>
        BY <1>2, <2>1, SubSeqEmpty
      <3> QED BY <1>6, <3>2, <3>3
    <2>2. CASE e # L
      <3>1. inbound' = inbound /\ inPos' = e
        BY <1>2, <1>8, <1>10, <1>13, <2>2
      <3> QED BY <1>2, <1>6, <3>1 DEF Unread
    <2> QED BY <2>1, <2>2
  <1>15. UNCHANGED <<Waiting, taken, Answer, InBounds>>
    BY DEF read, Waiting, Complete, Answer, InBounds
  <1> QED BY <1>5, <1>7, <1>8, <1>12, <1>14, <1>15, ChannelDeliver

(* A message written in one piece is sent; the first piece of one is not.  *)
LEMMA BeginRefines ==
    ASSUME RInv, NEW m \in Msgs, NEW k \in 1..MAX_WIRE_SIZE, WriteBegin(m, k)
    PROVE  ChannelStep
  <1>1. UNCHANGED <<Unread, delivered, taken>>
    BY DEF WriteBegin, Unread
  <1>2. CASE ~InBounds'
    BY <1>1, <1>2, ChannelEnds
  <1>3. CASE InBounds'
    <2>1. InBounds
      BY <1>3, SoundnessOnlyEnds DEF RInv, Next
    <2>2. pending = <<>> /\ sent' = Append(sent, m) /\ pc' = "idle"
      BY DEF WriteBegin
    <2>3. Answer' = "some"
      BY <2>2 DEF Answer
    <2>4. sent \in Seq(Msgs) /\ taken \in Seq(Seq(Byte)) /\ frames \in Seq(Seq(Byte))
      BY DEF RInv, IInv, TypeOK
    <2>5. PICK N, T, F \in Nat : N = Len(sent) /\ T = Len(taken) /\ F = Len(frames)
      BY <2>4
    <2>6. Complete = N
      BY <2>2, <2>5 DEF Complete
    <2>7. T \in 0..Len(sent)
      BY <2>1, <2>5, <2>6, CutIsComplete DEF Cut
    <2>8. /\ SubSeq(Append(sent, m), T + 1, N) = SubSeq(sent, T + 1, N)
          /\ SubSeq(Append(sent, m), T + 1, N + 1) = Append(SubSeq(sent, T + 1, N), m)
      BY <2>4, <2>5, <2>7, OneMoreWaits
    <2>9. Waiting = SubSeq(sent, T + 1, N)
      BY <2>5, <2>6 DEF Waiting
    <2>10. Len(sent') = N + 1
      BY <2>2, <2>4, <2>5
    <2>11. CASE pending' = <<>>
      <3>1. Complete' = N + 1
        BY <2>10, <2>11 DEF Complete
      <3>2. Waiting' = Append(Waiting, m)
        BY <1>1, <2>2, <2>5, <2>8, <2>9, <3>1 DEF Waiting
      <3> QED BY <1>1, <1>3, <2>1, <2>3, <3>2, ChannelSend
    <2>12. CASE pending' # <<>>
      <3>1. Complete' = N
        BY <2>5, <2>10, <2>12 DEF Complete
      <3>2. Waiting' = Waiting
        BY <1>1, <2>2, <2>5, <2>8, <2>9, <3>1 DEF Waiting
      <3> QED BY <1>1, <1>3, <2>1, <2>3, <3>2, ChannelAsk
    <2> QED BY <2>11, <2>12
  <1> QED BY <1>2, <1>3

(* The last piece of a message sends it.                                   *)
LEMMA RestRefines ==
    ASSUME RInv, WriteRest
    PROVE  ChannelStep
  <1>1. UNCHANGED <<Unread, delivered, taken>>
    BY DEF WriteRest, Unread
  <1>2. CASE ~InBounds'
    BY <1>1, <1>2, ChannelEnds
  <1>3. CASE InBounds'
    <2>1. InBounds
      BY <1>3, SoundnessOnlyEnds DEF RInv, Next
    <2>2. pending # <<>> /\ pending' = <<>> /\ sent' = sent /\ pc' = "idle"
      BY DEF WriteRest
    <2>3. Answer' = "some"
      BY <2>2 DEF Answer
    <2>4. sent \in Seq(Msgs) /\ taken \in Seq(Seq(Byte)) /\ frames \in Seq(Seq(Byte))
      BY DEF RInv, IInv, TypeOK
    <2>5. PICK N, T, F \in Nat : N = Len(sent) /\ T = Len(taken) /\ F = Len(frames)
      BY <2>4
    <2>6. Complete = N - 1 /\ N # 0 /\ T + F \in 0..Complete
      BY <2>1, <2>2, <2>5, CutIsComplete DEF Cut
    <2>7. PICK M \in Nat : M = N - 1
      BY <2>5, <2>6
    <2>8. T <= M /\ M + 1 = N
      BY <2>5, <2>6, <2>7
    <2>9. PICK q \in Seq(Msgs) : q = SubSeq(sent, 1, M)
      <3>1. 0 + 1 = 1 /\ 0 <= M /\ M <= Len(sent)
        BY <2>5, <2>8
      <3> QED BY <2>4, <3>1, Between
    <2>10. PICK m \in Msgs : m = sent[N]
      BY <2>4, <2>5, <2>6
    <2>11. Len(q) = M /\ \A i \in 1..M : q[i] = sent[i]
      <3>1. 0 + 1 = 1 /\ 0 <= M /\ M <= Len(sent) /\ M - 0 = M
        BY <2>5, <2>8
      <3>2. \A i \in 1..M : 0 + i = i
        OBVIOUS
      <3> QED BY <2>4, <2>9, <3>1, <3>2, Between
    <2>12. sent = Append(q, m)
      <3>1. PICK a \in Seq(Msgs) : a = Append(q, m)
        BY AppendProperties
      <3>2. Len(a) = M + 1 /\ a[M + 1] = m /\ \A i \in 1..M : a[i] = q[i]
        BY <2>11, <3>1, AppendProperties
      <3>3. ASSUME NEW i \in 1..N PROVE sent[i] = a[i]
        <4>1. i = M + 1 \/ i \in 1..M
          BY <2>7, <2>8
        <4> QED BY <2>8, <2>10, <2>11, <3>2, <4>1
      <3> QED BY <2>4, <2>5, <2>8, <3>1, <3>2, <3>3, SeqEqual
    <2>13. T \in 0..Len(q)
      BY <2>5, <2>7, <2>8, <2>11
    <2>14. /\ SubSeq(sent, T + 1, M) = SubSeq(q, T + 1, M)
           /\ SubSeq(sent, T + 1, N) = Append(SubSeq(q, T + 1, M), m)
      BY <2>8, <2>11, <2>12, <2>13, OneMoreWaits
    <2>15. Waiting = SubSeq(sent, T + 1, M)
      BY <2>5, <2>6, <2>7 DEF Waiting
    <2>16. Waiting' = SubSeq(sent, T + 1, N)
      BY <1>1, <2>2, <2>5 DEF Waiting, Complete
    <2>17. Waiting' = Append(Waiting, m)
      BY <2>14, <2>15, <2>16
    <2> QED BY <1>1, <1>3, <2>1, <2>3, <2>17, ChannelSend
  <1> QED BY <1>2, <1>3

(* Handing out a frame takes the first waiting message.                    *)
LEMMA PopRefines ==
    ASSUME RInv, PopFrame
    PROVE  ChannelStep
  <1>1. UNCHANGED <<Unread, delivered, sent, pending, peak>>
    BY DEF PopFrame, channels, Unread
  <1>2. InBounds' = InBounds /\ Complete' = Complete
    BY <1>1 DEF InBounds, Complete
  <1>3. CASE ~InBounds
    BY <1>1, <1>2, <1>3, ChannelEnds
  <1>4. CASE InBounds
    <2>1. sent \in Seq(Msgs) /\ taken \in Seq(Seq(Byte)) /\ frames \in Seq(Seq(Byte))
      BY DEF RInv, IInv, TypeOK
    <2>2. PICK N, T, F, K \in Nat : /\ N = Len(sent) /\ T = Len(taken)
                                   /\ F = Len(frames) /\ K = Complete
      BY <1>4, <2>1, CutIsComplete
    <2>3. frames # <<>> /\ taken' = Append(taken, Head(frames))
          /\ pc = "loop" /\ pc' = "idle"
      BY DEF PopFrame
    <2>4. F # 0 /\ Head(frames) = frames[1]
      BY <2>1, <2>2, <2>3
    <2>5. T + F <= K /\ K <= N /\ 1 \in 1..F
      BY <1>4, <2>2, <2>4, CutIsComplete DEF Cut
    <2>6. Head(frames) = Wire[sent[T + 1]]
      BY <1>4, <2>2, <2>4, <2>5, CutIsComplete
    <2>7. T + 1 \in 1..Len(sent) /\ K \in (T + 1)..Len(sent)
      BY <2>2, <2>4, <2>5
    <2>8. Waiting = SubSeq(sent, T + 1, K)
      BY <2>2 DEF Waiting
    <2>9. Head(Waiting) = sent[T + 1] /\ Tail(Waiting) = SubSeq(sent, (T + 1) + 1, K)
      BY <2>1, <2>7, <2>8, HeadTailOfSubSeq
    <2>10. Waiting # <<>>
      <3>1. PICK w : w = Waiting
        OBVIOUS
      <3>2. T <= K /\ K <= Len(sent) /\ K - T # 0
        BY <2>2, <2>4, <2>5
      <3>3. Len(w) = K - T
        BY <2>1, <2>2, <2>8, <3>1, <3>2, Between
      <3>4. w # <<>>
        BY <3>2, <3>3
      <3> QED BY <3>1, <3>4
    <2>11. Len(taken') = T + 1
      <3>1. Head(frames) \in Seq(Byte)
        BY <2>1, <2>3, HeadTailProperties
      <3> QED BY <2>1, <2>2, <2>3, <3>1, AppendProperties
    <2>12. Waiting' = Tail(Waiting)
      BY <1>1, <1>2, <2>2, <2>9, <2>11 DEF Waiting
    <2>13. Answer' = Answer
      BY <2>3 DEF Answer
    <2>14. taken' = Append(taken, Wire[Head(Waiting)])
      BY <2>3, <2>6, <2>9
    <2> QED BY <1>1, <1>2, <1>4, <2>10, <2>12, <2>13, <2>14, ChannelReceive
  <1> QED BY <1>3, <1>4

(* A read that brings nothing and leaves no frame answers that there is    *)
(* none, and there is none.                                                *)
LEMMA StopRefines ==
    ASSUME RInv, DeframeStop
    PROVE  ChannelStep
  <1>1. UNCHANGED <<Unread, delivered, sent, pending, peak, taken>>
    BY DEF DeframeStop, channels, history, Unread
  <1>2. InBounds' = InBounds /\ Waiting' = Waiting
    BY <1>1 DEF InBounds, Waiting, Complete
  <1>3. /\ pc = "deframe" /\ ~Valid(buf)
        /\ pc' = IF newBytes = 0 THEN "none" ELSE "loop"
    BY DEF DeframeStop
  <1>4. CASE ~InBounds
    BY <1>1, <1>2, <1>4, ChannelEnds
  <1>5. CASE newBytes # 0
    <2>1. Answer' = Answer
      BY <1>3, <1>5 DEF Answer
    <2> QED BY <1>1, <1>2, <2>1, ChannelStutters
  <1>6. CASE InBounds /\ newBytes = 0
    <2>1. outbound = <<>> /\ frames = <<>>
      BY <1>3, <1>6 DEF RInv, IInv, Deframing
    <2>2. Len(taken) = Complete
      BY <1>3, <1>6, <2>1, NothingIsLeft
    <2>3. PICK K \in Nat : K = Complete
      <3>1. taken \in Seq(Seq(Byte))
        BY DEF RInv, IInv, TypeOK
      <3>2. Len(taken) \in Nat
        BY <3>1
      <3> QED BY <2>2, <3>2
    <2>4. Waiting = SubSeq(sent, K + 1, K)
      BY <2>2, <2>3 DEF Waiting
    <2>5. Waiting = <<>>
      BY <2>3, <2>4, SubSeqEmpty
    <2>6. Answer' = "none"
      BY <1>3, <1>6 DEF Answer
    <2> QED BY <1>1, <1>2, <1>6, <2>5, <2>6, ChannelNone
  <1> QED BY <1>4, <1>5, <1>6

(* Beginning a call makes the answer old; reading and cutting are steps    *)
(* that the executor does not see.                                         *)
LEMMA InsideRefines ==
    ASSUME RInv, Take \/ DeframerRead \/ DeframeValid \/ UNCHANGED vars
    PROVE  ChannelStep
  <1>1. UNCHANGED <<inbound, inPos, delivered, sent, pending, peak, taken>>
    BY DEF Take, DeframerRead, DeframeValid, vars, channels, history
  <1>2. InBounds' = InBounds /\ Waiting' = Waiting /\ Unread' = Unread
    BY <1>1 DEF InBounds, Waiting, Complete, Unread
  <1>3. CASE Take
    <2>1. Answer' = "some"
      BY <1>3 DEF Take, Answer
    <2>2. CASE InBounds
      BY <1>1, <1>2, <2>1, <2>2, ChannelAsk
    <2>3. CASE ~InBounds
      BY <1>1, <1>2, <2>3, ChannelEnds
    <2> QED BY <2>2, <2>3
  <1>4. CASE DeframerRead \/ DeframeValid \/ UNCHANGED vars
    <2>1. Answer' = Answer
      BY <1>4 DEF DeframerRead, DeframeValid, vars, Answer
    <2> QED BY <1>1, <1>2, <2>1, ChannelStutters
  <1> QED BY <1>3, <1>4

-----------------------------------------------------------------------------
(* For every set of messages, every encoding and every size of the array:  *)
(* the byte channels with the TLS deframer are, until they are overrun,    *)
(* the channel the executor takes them for.  Messages come out whole and   *)
(* in the order of sending however the program under test cut them into    *)
(* writes, and take_message_from_outbound answers None only when none is   *)
(* left.                                                                   *)
THEOREM StreamImplementsChannel == Spec => ImplementsChannel
  <1>1. Init => Channel!Init
    <2> SUFFICES ASSUME Init PROVE Channel!Init
      OBVIOUS
    <2>1. /\ inbound = <<>> /\ inPos = 0 /\ delivered = <<>> /\ sent = <<>>
          /\ pending = <<>> /\ taken = <<>> /\ pc = "idle" /\ peak = 0
      BY DEF Init
    <2>2. Len(<<>>) = 0 /\ SubSeq(<<>>, 1, 0) = <<>> /\ DOMAIN <<>> = {}
      BY SubSeqEmpty, EmptySeq
    <2>3. Unread = <<>> /\ Waiting = <<>>
      BY <2>1, <2>2 DEF Unread, Waiting, Complete
    <2>4. InBounds
      <3>1. 0 <= MAX_WIRE_SIZE
        BY StreamAssumption DEF MAX_WIRE_SIZE
      <3> QED BY <2>1, <2>2, <3>1 DEF InBounds
    <2>5. InBounds = TRUE
      BY <2>4 DEF InBounds
    <2> QED BY <2>1, <2>3, <2>5 DEF Channel!Init, Unread, Waiting
  <1>2. RInv /\ [Next]_vars => [Channel!Next]_<<Channel!in, Channel!out, InBounds>>
    <2> SUFFICES ASSUME RInv, [Next]_vars PROVE ChannelStep
      BY DEF ChannelStep
    <2> QED BY AddRefines, ReadRefines, BeginRefines, RestRefines, PopRefines, StopRefines,
               InsideRefines DEF Next, TakeStep
  <1> QED BY <1>1, <1>2, InitRInv, NextRInv, PTL DEF Spec, ImplementsChannel, Channel!Spec
=============================================================================
