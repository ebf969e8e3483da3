---------------------------- MODULE TcpPutProofs ----------------------------
(***************************************************************************)
(* Proofs about the TCP PUT, for every number of attempts, every number of *)
(* answers and every set of traces: the process is managed, and the frames *)
(* taken are the records sent, in order.                                   *)
(***************************************************************************)
EXTENDS TcpPut, WellFoundedInduction, SequenceTheorems, TLAPS

Piece == [rec : Nat, part : {"h", "b"}, conn : Nat]
Frame == Piece \X Piece

ProcType == [st : {"starting", "listening", "connected", "dead"}, age : Nat, sent : Nat, conn : Nat]
PutType == [st : {"connecting", "ready", "reading", "reconnecting", "error", "panic", "done"}, tries : 0..Tries,
            thread : {"started", "bound", "accepted"}]
DeframerType == [buf : Seq(Piece), frames : Seq(Frame), desynced : BOOLEAN]

Steps == {"input", "output", "reset"}

\* What a trace of a TCP PUT consists of.
LEMMA TraceType ==
    ASSUME NEW t \in TcpTraces
    PROVE  /\ t.role \in {"client", "server"} /\ t.startup \in Nat
           /\ t.steps \in Seq(Steps) /\ Len(t.steps) \in Nat
  BY TcpPutAssumption DEF Steps

------------------------------------------------------------------------------
(* Lemmas about the operators *)

\* A set of naturals with a bound has a greatest element.
LEMMA Greatest ==
    ASSUME NEW n \in Nat, NEW S \in SUBSET (0..n), S # {}
    PROVE  \E k \in S : \A l \in S : l <= k
<1> DEFINE T == {n - k : k \in S}
<1>1. T \subseteq Nat /\ T # {}
  <2>1. \A k \in S : n - k \in Nat
    OBVIOUS
  <2>2. PICK k \in S : TRUE
    OBVIOUS
  <2>3. n - k \in T
    OBVIOUS
  <2> QED
    BY <2>1, <2>3
<1>2. PICK m \in T : \A y \in T : ~(<<y, m>> \in OpToRel(<, Nat))
  BY <1>1, NatLessThanWellFounded, WFMin, Zenon
<1>3. \A y \in T : ~(y < m)
  BY <1>1, <1>2 DEF OpToRel
<1>4. PICK k \in S : m = n - k
  OBVIOUS
<1>5. ASSUME NEW l \in S PROVE l <= k
  <2>1. n - l \in T
    OBVIOUS
  <2>2. ~(n - l < m)
    BY <2>1, <1>3
  <2> QED
    BY <2>2, <1>4
<1> QED
  BY <1>5

\* MessageDeframer: the frames taken from the buffer are the pairs of pieces it
\* starts with, and no further frame is left.
LEMMA DeframeIs ==
    ASSUME NEW d, d \in DeframerType
    PROVE  /\ Deframe(d) \in DeframerType
           /\ \E k \in Nat :
                /\ 2 * k <= Len(d.buf)
                /\ Deframe(d).buf = SubSeq(d.buf, 2 * k + 1, Len(d.buf))
                /\ Deframe(d).frames = d.frames \o [i \in 1..k |-> <<d.buf[2 * i - 1], d.buf[2 * i]>>]
                /\ \A i \in 1..k : d.buf[2 * i - 1].part = "h"
           /\ Deframe(d).buf # <<>> /\ ~Deframe(d).desynced
                => Len(Deframe(d).buf) = 1 /\ Deframe(d).buf[1].part = "h"
<1> DEFINE n == Len(d.buf) \div 2
           whole == {k \in 0..n : \A i \in 1..k : d.buf[2 * i - 1].part = "h"}
           k == CHOOSE k \in whole : \A l \in whole : l <= k
           rest == SubSeq(d.buf, 2 * k + 1, Len(d.buf))
           new == [i \in 1..k |-> <<d.buf[2 * i - 1], d.buf[2 * i]>>]
<1>1. /\ d.buf \in Seq(Piece) /\ Len(d.buf) \in Nat /\ d.frames \in Seq(Frame) /\ d.desynced \in BOOLEAN
      /\ n \in Nat /\ 2 * n <= Len(d.buf) /\ Len(d.buf) <= 2 * n + 1
  BY DEF DeframerType
<1> HIDE DEF n
<1>2. 0 \in whole /\ whole \in SUBSET (0..n)
  BY <1>1
<1>3. k \in whole /\ \A l \in whole : l <= k
  <2> HIDE DEF whole
  <2> QED
    BY <1>1, <1>2, Greatest
<1>4. Deframe(d) = [buf |-> rest, frames |-> d.frames \o new,
                    desynced |-> d.desynced \/ (rest # <<>> /\ rest[1].part # "h")]
  BY DEF Deframe, n
<1> HIDE DEF k
<1>5. k \in Nat /\ 2 * k <= Len(d.buf) /\ k <= n /\ \A i \in 1..k : d.buf[2 * i - 1].part = "h"
  BY <1>1, <1>3
<1>6. rest \in Seq(Piece) /\ Len(rest) = Len(d.buf) - 2 * k /\ \A i \in 1..Len(rest) : rest[i] = d.buf[2 * k + i]
  <2>1. \A i \in 2 * k + 1..Len(d.buf) : d.buf[i] \in Piece
    BY <1>1, <1>5
  <2>2. /\ rest \in Seq(Piece)
        /\ Len(rest) = IF 2 * k + 1 <= Len(d.buf) THEN Len(d.buf) - (2 * k + 1) + 1 ELSE 0
        /\ \A i \in 1..Len(d.buf) - (2 * k + 1) + 1 : rest[i] = d.buf[2 * k + 1 + i - 1]
    BY <1>1, <1>5, <2>1, SubSeqProperties
  <2> HIDE DEF rest, whole
  <2>3. Len(rest) = Len(d.buf) - 2 * k
    <3>1. CASE 2 * k + 1 <= Len(d.buf)
      BY <1>1, <1>5, <2>2, <3>1
    <3>2. CASE ~(2 * k + 1 <= Len(d.buf))
      <4>1. Len(d.buf) = 2 * k
        BY <1>1, <1>5, <3>2, SMTT(30)
      <4> QED
        BY <4>1, <2>2, <3>2, <1>5
    <3> QED
      BY <3>1, <3>2
  <2>4. ASSUME NEW i \in 1..Len(rest) PROVE rest[i] = d.buf[2 * k + i]
    <3>1. i \in 1..Len(d.buf) - (2 * k + 1) + 1 /\ 2 * k + 1 + i - 1 = 2 * k + i
      BY <1>1, <1>5, <2>3
    <3> QED
      BY <3>1, <2>2
  <2> QED
    BY <2>2, <2>3, <2>4
<1>7. new \in Seq(Frame)
  <2>1. ASSUME NEW i \in 1..k PROVE <<d.buf[2 * i - 1], d.buf[2 * i]>> \in Frame
    <3>1. 2 * i - 1 \in 1..Len(d.buf) /\ 2 * i \in 1..Len(d.buf)
      BY <1>1, <1>5
    <3> QED
      BY <3>1, <1>1 DEF Frame
  <2> QED
    BY <2>1, <1>5
<1> HIDE DEF rest, new
<1>8. ASSUME rest # <<>>, rest[1].part = "h" PROVE Len(rest) = 1
  <2> SUFFICES ASSUME Len(rest) # 1 PROVE FALSE
    OBVIOUS
  <2>0. Len(rest) \in Nat /\ Len(rest) # 0
    BY <1>6, <1>8
  <2>1. Len(rest) >= 2
    <3>1. \A m \in Nat : m # 0 /\ m # 1 => m >= 2
      OBVIOUS
    <3> QED
      BY <2>0, <3>1
  <2>2. k + 1 \in 0..n
    BY <2>1, <1>6, <1>1, <1>5
  <2>3. \A i \in 1..(k + 1) : d.buf[2 * i - 1].part = "h"
    <3>1. rest[1] = d.buf[2 * k + 1]
      BY <1>6, <2>1
    <3>2. 2 * (k + 1) - 1 = 2 * k + 1
      BY <1>5
    <3>3. ASSUME NEW i \in 1..(k + 1) PROVE i \in 1..k \/ i = k + 1
      BY <1>5
    <3> QED
      BY <3>1, <3>2, <3>3, <1>8, <1>5
  <2>4. k + 1 \in whole
    BY <2>2, <2>3
  <2> QED
    BY <2>4, <1>3, <1>5
<1>9. rest # <<>> => Len(rest) # 0
  BY <1>6
<1>10. Deframe(d) \in DeframerType
  BY <1>4, <1>6, <1>7, <1>1 DEF DeframerType
<1>11. Deframe(d).buf # <<>> /\ ~Deframe(d).desynced
                => Len(Deframe(d).buf) = 1 /\ Deframe(d).buf[1].part = "h"
  <2>1. Deframe(d).buf = rest /\ Deframe(d).desynced = (d.desynced \/ (rest # <<>> /\ rest[1].part # "h"))
    BY <1>4
  <2> QED
    BY <2>1, <1>8
<1> QED
  <2>1. Deframe(d).buf = rest /\ Deframe(d).frames = d.frames \o new
    BY <1>4
  <2> QED
    BY <2>1, <1>5, <1>10, <1>11 DEF rest, new

\* What the process sends with one answer, after its record from.
LEMMA RecordPiecesAre ==
    ASSUME NEW from \in Nat, NEW n \in Nat, proc.conn \in Nat
    PROVE  /\ RecordPieces(from, n) \in Seq(Piece) /\ Len(RecordPieces(from, n)) = 2 * n
           /\ \A i \in 1..2 * n : RecordPieces(from, n)[i].conn = proc.conn
           /\ n > 0 => /\ RecordPieces(from, n)[1].part = "h" /\ RecordPieces(from, n)[1].rec = from + 1
                       /\ RecordPieces(from, n)[2 * n].part = "b"
                       /\ RecordPieces(from, n)[2 * n].rec = from + n
           /\ \A i \in 2..2 * n : Continues(RecordPieces(from, n)[i - 1], RecordPieces(from, n)[i])
<1> DEFINE r(i) == [rec |-> from + ((i + 1) \div 2), part |-> IF i % 2 = 1 THEN "h" ELSE "b",
                    conn |-> proc.conn]
           R == RecordPieces(from, n)
<1>1. R = [i \in 1..(2 * n) |-> r(i)]
  BY DEF RecordPieces
<1>2. ASSUME NEW i \in Nat PROVE (i + 1) \div 2 \in Nat /\ r(i) \in Piece
  <2>1. (i + 1) \div 2 \in Nat
    OBVIOUS
  <2> QED
    BY <2>1 DEF Piece
<1>3. R \in Seq(Piece) /\ Len(R) = 2 * n
  BY <1>1, <1>2
<1>4. ASSUME n > 0
      PROVE /\ R[1].part = "h" /\ R[1].rec = from + 1 /\ R[2 * n].part = "b" /\ R[2 * n].rec = from + n
  <2>1. 1 \in 1..2 * n /\ 2 * n \in 1..2 * n
    BY <1>4
  <2>2. (1 + 1) \div 2 = 1 /\ 1 % 2 = 1 /\ (2 * n + 1) \div 2 = n /\ (2 * n) % 2 = 0
    OBVIOUS
  <2>3. R[1] = r(1) /\ R[2 * n] = r(2 * n)
    BY <1>1, <2>1
  <2> HIDE DEF R
  <2> QED
    BY <2>2, <2>3
<1>5. ASSUME NEW i \in 2..2 * n PROVE Continues(R[i - 1], R[i])
  <2>1. i - 1 \in 1..2 * n /\ i \in 1..2 * n /\ (i - 1) + 1 = i
    OBVIOUS
  <2>4. R[i - 1] = r(i - 1) /\ R[i] = r(i)
    BY <1>1, <2>1
  <2> HIDE DEF R
  <2>2. CASE i % 2 = 0
    <3>1. (i - 1) % 2 = 1 /\ i \div 2 = (i + 1) \div 2
      BY <2>2
    <3> QED
      BY <2>1, <2>4, <2>2, <3>1 DEF Continues
  <2>3. CASE i % 2 = 1
    <3>1. (i - 1) % 2 = 0 /\ i \div 2 + 1 = (i + 1) \div 2 /\ i \div 2 \in Nat
      BY <2>3
    <3> QED
      BY <2>1, <2>4, <2>3, <3>1 DEF Continues
  <2> QED
    BY <2>2, <2>3
<1>6. \A i \in 1..2 * n : R[i].conn = proc.conn
  BY <1>1
<1> HIDE DEF r, R
<1> QED
  BY <1>3, <1>4, <1>5, <1>6 DEF R

------------------------------------------------------------------------------
(* The process is managed *)

TcpTypes ==
    /\ trace \in TcpTraces
    /\ proc \in ProcType /\ put \in PutType
    /\ step \in 1..Len(trace.steps) + 1
    /\ net \in Seq(Piece) /\ sock \in Seq(Piece) /\ toProc \in Seq(Nat)
    /\ deframer \in DeframerType
    /\ learnt \in Seq([step : Nat, frame : Frame])

\* What remains in the deframer between two reads is the start of a record.
BufferIsShort ==
    deframer.buf # <<>> /\ ~deframer.desynced => Len(deframer.buf) = 1 /\ deframer.buf[1].part = "h"

\* Where PUT and process are with each other: until the PUT has its first
\* connection each failed attempt is a tick of the process; once it may read,
\* there is one.
Together ==
    /\ put.st = "connecting" =>
          /\ proc.st \in {"starting", "listening"}
          /\ trace.role = "client" => proc.age + put.tries = Tries /\ put.tries > 0
    /\ proc.st \in {"starting", "listening"} => proc.conn = 0 /\ proc.sent = 0
    /\ proc.st = "connected" \/ put.thread = "accepted" => proc.conn > 0
    /\ put.st \in {"ready", "reading", "reconnecting"} /\ HasStream => proc.conn > 0
    /\ put.st = "reading" => HasStream /\ step <= Len(trace.steps)
    /\ put.st = "reconnecting" => trace.role = "client" /\ step <= Len(trace.steps)
    /\ trace.role = "server" => put.tries = Tries

TcpControl == TcpTypes /\ BufferIsShort /\ Together /\ TcpConnectsInTime /\ TcpNoOrphan

\* Before the first step only the role of the PUT is decided.
LEMMA TcpInitControl == TcpInit => TcpControl
<1> SUFFICES ASSUME TcpInit PROVE TcpControl
  OBVIOUS
<1>1. Tries \in Nat \ {0}
  BY TcpPutAssumption
<1>2. trace \in TcpTraces /\ Len(trace.steps) \in Nat
  BY TraceType DEF TcpInit
<1> QED
  BY <1>1, <1>2 DEF TcpInit, TcpControl, TcpTypes, BufferIsShort, Together, TcpConnectsInTime, TcpNoOrphan,
                    EmptyDeframer, HasStream, ProcType, PutType, DeframerType

\* The steps that concern the connection and not what it carries.
LEMMA ConnectingControl ==
    TcpControl /\ (new_stream \/ ProcListens \/ ServerReady \/ AcceptThreadBinds \/ ProcConnects)
      => TcpControl'
<1> SUFFICES ASSUME TcpControl,
                    new_stream \/ ProcListens \/ ServerReady \/ AcceptThreadBinds \/ ProcConnects
             PROVE  TcpControl'
  OBVIOUS
<1>a. TcpTypes
  BY DEF TcpControl
<1>b. BufferIsShort
  BY DEF TcpControl
<1>c. Together /\ TcpConnectsInTime /\ TcpNoOrphan
  BY DEF TcpControl
<1>d. proc \in ProcType /\ put \in PutType
  BY <1>a DEF TcpTypes
<1>1. /\ Tries \in Nat \ {0} /\ AnswerCount \in Nat
      /\ trace.startup \in Nat /\ Len(trace.steps) \in Nat /\ trace.role \in {"client", "server"}
      /\ proc.age \in Nat /\ proc.sent \in Nat /\ proc.conn \in Nat /\ step \in Nat
  BY <1>a, TcpPutAssumption, TraceType DEF TcpTypes, ProcType
<1>2. CASE new_stream
  <2>r. UNCHANGED <<trace, toProc, net, sock, deframer, step, learnt>>
    BY <1>2 DEF new_stream
  <2>b. BufferIsShort'
    BY <2>r, <1>b DEF BufferIsShort
  <2>t. put.st = "connecting" /\ trace.role = "client" /\ put.tries \in 1..Tries /\ proc.st \in {"starting", "listening"}
    BY <1>1, <1>2, <1>d, <1>c DEF new_stream, Together, PutType
  <2>1. CASE Listening
    <3>1. proc' = [proc EXCEPT !.st = "connected", !.conn = proc.conn + 1] /\ put' = [put EXCEPT !.st = "ready"]
      BY <1>2, <2>1 DEF new_stream
    <3>2. proc' \in ProcType /\ put' \in PutType
      <4>1. proc' \in ProcType
        <5>1. proc' = [st |-> "connected", age |-> proc.age, sent |-> proc.sent, conn |-> proc.conn + 1]
          BY <3>1, <1>d DEF ProcType
        <5> QED
          BY <5>1, <1>1, <1>d DEF ProcType
      <4>2. put' \in PutType
        BY <1>1, <2>t, <3>1, <1>d DEF PutType
      <4> QED
        BY <4>1, <4>2
    <3>3. /\ proc'.st = "connected" /\ proc'.conn = proc.conn + 1 /\ put'.st = "ready" /\ put'.tries = put.tries
          /\ put'.thread = put.thread
      BY <3>1, <1>1, <1>d DEF ProcType, PutType
    <3>4. Together' /\ TcpConnectsInTime' /\ TcpNoOrphan'
      BY <1>1, <2>r, <2>1, <3>3, <2>t, <1>c DEF Together, TcpConnectsInTime, TcpNoOrphan, HasStream
    <3> QED
      BY <2>b, <2>r, <3>2, <3>4, <1>a DEF TcpTypes, TcpControl
  <2>2. CASE ~Listening /\ put.tries > 1
    <3>1. proc' = [proc EXCEPT !.age = proc.age + 1] /\ put' = [put EXCEPT !.tries = put.tries - 1]
      BY <1>2, <2>2 DEF new_stream
    <3>2. proc' \in ProcType /\ put' \in PutType
      <4>1. proc' \in ProcType
        BY <1>1, <3>1, <1>d DEF ProcType
      <4>2. put' \in PutType
        BY <1>1, <2>t, <3>1, <1>d DEF PutType
      <4> QED
        BY <4>1, <4>2
    <3>3. /\ proc'.st = proc.st /\ proc'.conn = proc.conn /\ proc'.age = proc.age + 1 /\ proc'.sent = proc.sent
          /\ put'.st = put.st /\ put'.tries = put.tries - 1 /\ put'.thread = put.thread
      BY <3>1, <1>1, <2>t, <1>d DEF ProcType, PutType
    <3>4. Together' /\ TcpConnectsInTime' /\ TcpNoOrphan'
      BY <1>1, <2>r, <2>2, <3>3, <2>t, <1>c DEF Together, TcpConnectsInTime, TcpNoOrphan, HasStream
    <3> QED
      BY <2>b, <2>r, <3>2, <3>4, <1>a DEF TcpTypes, TcpControl
  <2>3. CASE ~Listening /\ put.tries = 1
    <3>1. proc' = [proc EXCEPT !.st = "dead"] /\ put' = [put EXCEPT !.tries = 0, !.st = "error"]
      BY <1>2, <2>3 DEF new_stream, new_stream_fails, TLSProcess_drop
    <3>2. proc' \in ProcType /\ put' \in PutType
      <4>1. proc' \in ProcType
        BY <1>1, <3>1, <1>d DEF ProcType
      <4>2. put' \in PutType
        <5>1. put' = [st |-> "error", tries |-> 0, thread |-> put.thread]
          BY <3>1, <1>d DEF PutType
        <5> QED
          BY <5>1, <1>1, <1>d DEF PutType
      <4> QED
        BY <4>1, <4>2
    <3>3. /\ proc'.st = "dead" /\ put'.st = "error" /\ proc.age < trace.startup
          /\ put'.thread = put.thread /\ proc'.conn = proc.conn
      BY <3>1, <1>1, <1>2, <2>3, <1>d DEF new_stream, TcpMayBeEarly, ProcType, PutType
    <3>4. Together' /\ TcpConnectsInTime' /\ TcpNoOrphan'
      BY <1>1, <2>r, <2>3, <3>3, <2>t, <1>c DEF Together, TcpConnectsInTime, TcpNoOrphan, HasStream
    <3> QED
      BY <2>b, <2>r, <3>2, <3>4, <1>a DEF TcpTypes, TcpControl
  <2> QED
    BY <2>t, <2>1, <2>2, <2>3
<1>3. CASE ProcListens
  <2>t. TcpTypes'
    <3>1. proc' \in ProcType
      BY <1>1, <1>3, <1>d DEF ProcListens, ProcType, PutType
    <3>2. put' \in PutType
      BY <1>1, <1>3, <1>d DEF ProcListens, ProcType, PutType
    <3>3. trace' = trace /\ step' \in 1..Len(trace.steps) + 1
      BY <1>1, <1>3, <1>a, <1>c DEF ProcListens, TcpTypes, Together
    <3>4. net' \in Seq(Piece) /\ sock' \in Seq(Piece) /\ toProc' \in Seq(Nat)
      BY <1>1, <1>3, <1>a DEF ProcListens, TcpTypes
    <3>5. deframer' \in DeframerType /\ learnt' \in Seq([step : Nat, frame : Frame])
      BY <1>1, <1>3, <1>a DEF ProcListens, TcpTypes
    <3> QED
      BY <1>a, <3>1, <3>2, <3>3, <3>4, <3>5 DEF TcpTypes
  <2>b. BufferIsShort'
    BY <1>1, <1>3, <1>b DEF ProcListens, BufferIsShort
  <2>g. Together'
    BY <1>1, <1>3, <1>d, <1>c DEF ProcListens, ProcType, PutType, Together, HasStream
  <2>c. TcpConnectsInTime'
    BY <1>1, <1>3, <1>d, <1>c DEF ProcListens, ProcType, PutType, Together, TcpConnectsInTime, HasStream
  <2>o. TcpNoOrphan'
    BY <1>1, <1>3, <1>d, <1>c DEF ProcListens, ProcType, PutType, Together, TcpNoOrphan
  <2> QED
    BY <2>t, <2>b, <2>g, <2>c, <2>o DEF TcpControl
<1>4. CASE ServerReady
  <2>t. TcpTypes'
    <3>1. proc' \in ProcType
      BY <1>1, <1>4, <1>d DEF ServerReady, ProcType, PutType
    <3>2. put' \in PutType
      BY <1>1, <1>4, <1>d DEF ServerReady, ProcType, PutType
    <3>3. trace' = trace /\ step' \in 1..Len(trace.steps) + 1
      BY <1>1, <1>4, <1>a, <1>c DEF ServerReady, TcpTypes, Together
    <3>4. net' \in Seq(Piece) /\ sock' \in Seq(Piece) /\ toProc' \in Seq(Nat)
      BY <1>1, <1>4, <1>a DEF ServerReady, TcpTypes
    <3>5. deframer' \in DeframerType /\ learnt' \in Seq([step : Nat, frame : Frame])
      BY <1>1, <1>4, <1>a DEF ServerReady, TcpTypes
    <3> QED
      BY <1>a, <3>1, <3>2, <3>3, <3>4, <3>5 DEF TcpTypes
  <2>b. BufferIsShort'
    BY <1>1, <1>4, <1>b DEF ServerReady, BufferIsShort
  <2>g. Together'
    BY <1>1, <1>4, <1>d, <1>c DEF ServerReady, ProcType, PutType, Together, HasStream
  <2>c. TcpConnectsInTime'
    BY <1>1, <1>4, <1>d, <1>c DEF ServerReady, ProcType, PutType, Together, TcpConnectsInTime, HasStream
  <2>o. TcpNoOrphan'
    BY <1>1, <1>4, <1>d, <1>c DEF ServerReady, ProcType, PutType, Together, TcpNoOrphan
  <2> QED
    BY <2>t, <2>b, <2>g, <2>c, <2>o DEF TcpControl
<1>5. CASE AcceptThreadBinds
  <2>t. TcpTypes'
    <3>1. proc' \in ProcType
      BY <1>1, <1>5, <1>d DEF AcceptThreadBinds, ProcType, PutType
    <3>2. put' \in PutType
      BY <1>1, <1>5, <1>d DEF AcceptThreadBinds, ProcType, PutType
    <3>3. trace' = trace /\ step' \in 1..Len(trace.steps) + 1
      BY <1>1, <1>5, <1>a, <1>c DEF AcceptThreadBinds, TcpTypes, Together
    <3>4. net' \in Seq(Piece) /\ sock' \in Seq(Piece) /\ toProc' \in Seq(Nat)
      BY <1>1, <1>5, <1>a DEF AcceptThreadBinds, TcpTypes
    <3>5. deframer' \in DeframerType /\ learnt' \in Seq([step : Nat, frame : Frame])
      BY <1>1, <1>5, <1>a DEF AcceptThreadBinds, TcpTypes
    <3> QED
      BY <1>a, <3>1, <3>2, <3>3, <3>4, <3>5 DEF TcpTypes
  <2>b. BufferIsShort'
    BY <1>1, <1>5, <1>b DEF AcceptThreadBinds, BufferIsShort
  <2>g. Together'
    BY <1>1, <1>5, <1>d, <1>c DEF AcceptThreadBinds, ProcType, PutType, Together, HasStream
  <2>c. TcpConnectsInTime'
    BY <1>1, <1>5, <1>d, <1>c DEF AcceptThreadBinds, ProcType, PutType, Together, TcpConnectsInTime, HasStream
  <2>o. TcpNoOrphan'
    BY <1>1, <1>5, <1>d, <1>c DEF AcceptThreadBinds, ProcType, PutType, Together, TcpNoOrphan
  <2> QED
    BY <2>t, <2>b, <2>g, <2>c, <2>o DEF TcpControl
<1>6. CASE ProcConnects
  <2>r. UNCHANGED <<trace, toProc, net, sock, deframer, step, learnt>>
    BY <1>6 DEF ProcConnects
  <2>b. BufferIsShort'
    BY <2>r, <1>b DEF BufferIsShort
  <2>t. trace.role = "server" /\ proc.st = "starting" /\ put.st # "connecting" /\ put.thread # "accepted"
    BY <1>6, <1>1, <1>c DEF ProcConnects, Together
  <2>1. CASE put.thread = "bound" /\ put.st # "panic"
    <3>1. proc' = [proc EXCEPT !.st = "connected", !.conn = 1] /\ put' = [put EXCEPT !.thread = "accepted"]
      BY <1>6, <2>1 DEF ProcConnects
    <3>2. proc' \in ProcType /\ put' \in PutType
      <4>1. proc' \in ProcType
        BY <1>1, <3>1, <1>d DEF ProcType
      <4>2. put' \in PutType
        BY <1>1, <2>t, <3>1, <1>d DEF PutType
      <4> QED
        BY <4>1, <4>2
    <3>3. /\ proc'.st = "connected" /\ proc'.conn = 1 /\ put'.st = put.st /\ put'.tries = put.tries
          /\ put'.thread = "accepted"
      BY <3>1, <1>d DEF ProcType, PutType
    <3>4. Together' /\ TcpConnectsInTime' /\ TcpNoOrphan'
      BY <1>1, <2>r, <2>t, <2>1, <3>3, <1>c DEF Together, TcpConnectsInTime, TcpNoOrphan, HasStream
    <3> QED
      BY <2>b, <2>r, <3>2, <3>4, <1>a DEF TcpTypes, TcpControl
  <2>2. CASE ~(put.thread = "bound" /\ put.st # "panic")
    <3>1. proc' = [proc EXCEPT !.st = "dead"] /\ put' = put
      BY <1>6, <2>2 DEF ProcConnects
    <3>2. proc' \in ProcType /\ put' \in PutType
      <4>1. proc' \in ProcType
        BY <1>1, <3>1, <1>d DEF ProcType
      <4>2. put' \in PutType
        BY <1>1, <2>t, <3>1, <1>d DEF PutType
      <4> QED
        BY <4>1, <4>2
    <3>3. proc'.st = "dead" /\ proc'.conn = proc.conn /\ put'.st = put.st /\ put'.tries = put.tries
          /\ put'.thread = put.thread
      BY <3>1, <1>d DEF ProcType
    <3>4. Together' /\ TcpConnectsInTime' /\ TcpNoOrphan'
      BY <1>1, <2>r, <2>t, <2>2, <3>3, <1>c DEF Together, TcpConnectsInTime, TcpNoOrphan, HasStream
    <3> QED
      BY <2>b, <2>r, <3>2, <3>4, <1>a DEF TcpTypes, TcpControl
  <2> QED
    BY <1>6, <2>1, <2>2 DEF ProcConnects
<1> QED
  BY <1>2, <1>3, <1>4, <1>5, <1>6

\* The steps of the process and of the network.
LEMMA CarryingControl ==
    TcpControl /\ (ProcAnswers \/ ProcSpeaksFirst \/ Arrive \/ ProcExits) => TcpControl'
<1> SUFFICES ASSUME TcpControl, ProcAnswers \/ ProcSpeaksFirst \/ Arrive \/ ProcExits PROVE TcpControl'
  OBVIOUS
<1>a. TcpTypes
  BY DEF TcpControl
<1>b. BufferIsShort
  BY DEF TcpControl
<1>c. Together /\ TcpConnectsInTime /\ TcpNoOrphan
  BY DEF TcpControl
<1>d. proc \in ProcType /\ put \in PutType
  BY <1>a DEF TcpTypes
<1>1. /\ Tries \in Nat \ {0} /\ AnswerCount \in Nat
      /\ trace.startup \in Nat /\ Len(trace.steps) \in Nat /\ trace.role \in {"client", "server"}
      /\ proc.age \in Nat /\ proc.sent \in Nat /\ proc.conn \in Nat /\ step \in Nat
  BY <1>a, TcpPutAssumption, TraceType DEF TcpTypes, ProcType
<1>2. CASE ProcAnswers
  <2>1. PICK n \in 0..AnswerCount : /\ net' = net \o RecordPieces(proc.sent, n)
                                   /\ proc' = [proc EXCEPT !.sent = @ + n]
    BY <1>2 DEF ProcAnswers
  <2>2. n \in Nat /\ proc.sent \in Nat /\ proc.conn \in Nat
    BY <1>1
  <2>3. RecordPieces(proc.sent, n) \in Seq(Piece)
    BY <2>2, RecordPiecesAre
  <2>4. net' \in Seq(Piece)
    BY <2>1, <2>3, <1>a DEF TcpTypes
  <2>t. TcpTypes'
    <3>1. proc' \in ProcType
      BY <2>1, <2>2, <1>d DEF ProcType
    <3>2. put' \in PutType
      BY <1>1, <1>2, <2>1, <2>2, <2>4, <1>d DEF ProcAnswers, ProcType, PutType
    <3>3. trace' = trace /\ step' \in 1..Len(trace.steps) + 1
      BY <1>1, <1>2, <2>1, <2>2, <2>4, <1>a, <1>c DEF ProcAnswers, TcpTypes, Together
    <3>4. net' \in Seq(Piece) /\ sock' \in Seq(Piece) /\ toProc' \in Seq(Nat)
      BY <1>1, <1>2, <2>1, <2>2, <2>4, <1>a DEF ProcAnswers, TcpTypes
    <3>5. deframer' \in DeframerType /\ learnt' \in Seq([step : Nat, frame : Frame])
      BY <1>1, <1>2, <2>1, <2>2, <2>4, <1>a DEF ProcAnswers, TcpTypes
    <3> QED
      BY <1>a, <3>1, <3>2, <3>3, <3>4, <3>5 DEF TcpTypes
  <2>b. BufferIsShort'
    BY <1>1, <1>2, <2>1, <2>2, <1>b DEF ProcAnswers, BufferIsShort
  <2>g. Together'
    BY <1>1, <1>2, <2>1, <2>2, <1>d, <1>c DEF ProcAnswers, ProcType, PutType, Together, HasStream
  <2>c. TcpConnectsInTime'
    BY <1>1, <1>2, <2>1, <2>2, <1>d, <1>c DEF ProcAnswers, ProcType, PutType, Together, TcpConnectsInTime, HasStream
  <2>o. TcpNoOrphan'
    BY <1>1, <1>2, <2>1, <2>2, <1>d, <1>c DEF ProcAnswers, ProcType, PutType, Together, TcpNoOrphan
  <2> QED
    BY <2>t, <2>b, <2>g, <2>c, <2>o DEF TcpControl
<1>3. CASE ProcSpeaksFirst
  <2>2. RecordPieces(0, 1) \in Seq(Piece)
    BY <1>1, RecordPiecesAre
  <2>4. net' \in Seq(Piece)
    BY <1>3, <2>2, <1>a DEF ProcSpeaksFirst, TcpTypes
  <2>t. TcpTypes'
    <3>1. proc' \in ProcType
      BY <1>1, <1>3, <2>4, <1>d DEF ProcSpeaksFirst, ProcType, PutType
    <3>2. put' \in PutType
      BY <1>1, <1>3, <2>4, <1>d DEF ProcSpeaksFirst, ProcType, PutType
    <3>3. trace' = trace /\ step' \in 1..Len(trace.steps) + 1
      BY <1>1, <1>3, <2>4, <1>a, <1>c DEF ProcSpeaksFirst, TcpTypes, Together
    <3>4. net' \in Seq(Piece) /\ sock' \in Seq(Piece) /\ toProc' \in Seq(Nat)
      BY <1>1, <1>3, <2>4, <1>a DEF ProcSpeaksFirst, TcpTypes
    <3>5. deframer' \in DeframerType /\ learnt' \in Seq([step : Nat, frame : Frame])
      BY <1>1, <1>3, <2>4, <1>a DEF ProcSpeaksFirst, TcpTypes
    <3> QED
      BY <1>a, <3>1, <3>2, <3>3, <3>4, <3>5 DEF TcpTypes
  <2>b. BufferIsShort'
    BY <1>1, <1>3, <1>b DEF ProcSpeaksFirst, BufferIsShort
  <2>g. Together'
    BY <1>1, <1>3, <1>d, <1>c DEF ProcSpeaksFirst, ProcType, PutType, Together, HasStream
  <2>c. TcpConnectsInTime'
    BY <1>1, <1>3, <1>d, <1>c DEF ProcSpeaksFirst, ProcType, PutType, Together, TcpConnectsInTime, HasStream
  <2>o. TcpNoOrphan'
    BY <1>1, <1>3, <1>d, <1>c DEF ProcSpeaksFirst, ProcType, PutType, Together, TcpNoOrphan
  <2> QED
    BY <2>t, <2>b, <2>g, <2>c, <2>o DEF TcpControl
<1>4. CASE Arrive
  <2>t. TcpTypes'
    <3>1. proc' \in ProcType
      BY <1>1, <1>4, <1>d DEF Arrive, ProcType, PutType
    <3>2. put' \in PutType
      BY <1>1, <1>4, <1>d DEF Arrive, ProcType, PutType
    <3>3. trace' = trace /\ step' \in 1..Len(trace.steps) + 1
      BY <1>1, <1>4, <1>a, <1>c DEF Arrive, TcpTypes, Together
    <3>4. net' \in Seq(Piece) /\ sock' \in Seq(Piece) /\ toProc' \in Seq(Nat)
      BY <1>1, <1>4, <1>a DEF Arrive, TcpTypes
    <3>5. deframer' \in DeframerType /\ learnt' \in Seq([step : Nat, frame : Frame])
      BY <1>1, <1>4, <1>a DEF Arrive, TcpTypes
    <3> QED
      BY <1>a, <3>1, <3>2, <3>3, <3>4, <3>5 DEF TcpTypes
  <2>b. BufferIsShort'
    BY <1>1, <1>4, <1>b DEF Arrive, BufferIsShort
  <2>g. Together'
    BY <1>1, <1>4, <1>d, <1>c DEF Arrive, ProcType, PutType, Together, HasStream
  <2>c. TcpConnectsInTime'
    BY <1>1, <1>4, <1>d, <1>c DEF Arrive, ProcType, PutType, Together, TcpConnectsInTime, HasStream
  <2>o. TcpNoOrphan'
    BY <1>1, <1>4, <1>d, <1>c DEF Arrive, ProcType, PutType, Together, TcpNoOrphan
  <2> QED
    BY <2>t, <2>b, <2>g, <2>c, <2>o DEF TcpControl
<1>5. CASE ProcExits
  <2>t. TcpTypes'
    <3>1. proc' \in ProcType
      BY <1>1, <1>5, <1>d DEF ProcExits, ProcType, PutType
    <3>2. put' \in PutType
      BY <1>1, <1>5, <1>d DEF ProcExits, ProcType, PutType
    <3>3. trace' = trace /\ step' \in 1..Len(trace.steps) + 1
      BY <1>1, <1>5, <1>a, <1>c DEF ProcExits, TcpTypes, Together
    <3>4. net' \in Seq(Piece) /\ sock' \in Seq(Piece) /\ toProc' \in Seq(Nat)
      BY <1>1, <1>5, <1>a DEF ProcExits, TcpTypes
    <3>5. deframer' \in DeframerType /\ learnt' \in Seq([step : Nat, frame : Frame])
      BY <1>1, <1>5, <1>a DEF ProcExits, TcpTypes
    <3> QED
      BY <1>a, <3>1, <3>2, <3>3, <3>4, <3>5 DEF TcpTypes
  <2>b. BufferIsShort'
    BY <1>1, <1>5, <1>b DEF ProcExits, BufferIsShort
  <2>g. Together'
    BY <1>1, <1>5, <1>d, <1>c DEF ProcExits, ProcType, PutType, Together, HasStream
  <2>c. TcpConnectsInTime'
    BY <1>1, <1>5, <1>d, <1>c DEF ProcExits, ProcType, PutType, Together, TcpConnectsInTime, HasStream
  <2>o. TcpNoOrphan'
    BY <1>1, <1>5, <1>d, <1>c DEF ProcExits, ProcType, PutType, Together, TcpNoOrphan
  <2> QED
    BY <2>t, <2>b, <2>g, <2>c, <2>o DEF TcpControl
<1> QED
  BY <1>2, <1>3, <1>4, <1>5

\* The steps of the PUT that read and write.
LEMMA ReadingControl ==
    TcpControl /\ (add_to_inbound \/ output \/ TakeFrame \/ ReadSome \/ ReadTimeout \/ ReadEof \/ ReadError)
      => TcpControl'
<1> SUFFICES ASSUME TcpControl, add_to_inbound \/ output \/ TakeFrame \/ ReadSome \/ ReadTimeout
                                \/ ReadEof \/ ReadError
             PROVE  TcpControl'
  OBVIOUS
<1>a. TcpTypes
  BY DEF TcpControl
<1>b. BufferIsShort
  BY DEF TcpControl
<1>c. Together /\ TcpConnectsInTime /\ TcpNoOrphan
  BY DEF TcpControl
<1>d. proc \in ProcType /\ put \in PutType
  BY <1>a DEF TcpTypes
<1>1. /\ Tries \in Nat \ {0} /\ AnswerCount \in Nat
      /\ trace.startup \in Nat /\ Len(trace.steps) \in Nat /\ trace.role \in {"client", "server"}
      /\ proc.age \in Nat /\ proc.sent \in Nat /\ proc.conn \in Nat /\ step \in Nat
  BY <1>a, TcpPutAssumption, TraceType DEF TcpTypes, ProcType
<1>2. CASE add_to_inbound
  <2>t. TcpTypes'
    <3>1. proc' \in ProcType
      BY <1>1, <1>2, <1>d DEF add_to_inbound, TcpRunning, HasStream, ProcType, PutType
    <3>2. put' \in PutType
      BY <1>1, <1>2, <1>d DEF add_to_inbound, TcpRunning, HasStream, ProcType, PutType
    <3>3. trace' = trace /\ step' \in 1..Len(trace.steps) + 1
      BY <1>1, <1>2, <1>a, <1>c DEF add_to_inbound, TcpRunning, HasStream, TcpTypes, Together
    <3>4. net' \in Seq(Piece) /\ sock' \in Seq(Piece) /\ toProc' \in Seq(Nat)
      <4>1. toProc' = toProc \/ toProc' = Append(toProc, step)
        BY <1>2 DEF add_to_inbound
      <4>2. toProc \in Seq(Nat) /\ step \in Nat
        BY <1>1, <1>a DEF TcpTypes
      <4>3. Append(toProc, step) \in Seq(Nat)
        BY <4>2
      <4>5. toProc' \in Seq(Nat)
        BY <4>1, <4>2, <4>3
      <4> QED
        BY <1>2, <4>5, <1>a DEF add_to_inbound, TcpTypes
    <3>5. deframer' \in DeframerType /\ learnt' \in Seq([step : Nat, frame : Frame])
      BY <1>1, <1>2, <1>a DEF add_to_inbound, TcpRunning, HasStream, TcpTypes
    <3> QED
      BY <1>a, <3>1, <3>2, <3>3, <3>4, <3>5 DEF TcpTypes
  <2>b. BufferIsShort'
    BY <1>1, <1>2, <1>b DEF add_to_inbound, TcpRunning, HasStream, BufferIsShort
  <2>g. Together'
    BY <1>1, <1>2, <1>d, <1>c DEF add_to_inbound, TcpRunning, HasStream, ProcType, PutType, Together, HasStream
  <2>c. TcpConnectsInTime'
    BY <1>1, <1>2, <1>d, <1>c DEF add_to_inbound, TcpRunning, HasStream, ProcType, PutType, Together, TcpConnectsInTime, HasStream
  <2>o. TcpNoOrphan'
    BY <1>1, <1>2, <1>d, <1>c DEF add_to_inbound, TcpRunning, HasStream, ProcType, PutType, Together, TcpNoOrphan
  <2> QED
    BY <2>t, <2>b, <2>g, <2>c, <2>o DEF TcpControl
<1>3. CASE output
  <2>t. TcpTypes'
    <3>1. proc' \in ProcType
      BY <1>1, <1>3, <1>d DEF output, TcpRunning, HasStream, ProcType, PutType
    <3>2. put' \in PutType
      BY <1>1, <1>3, <1>d DEF output, TcpRunning, HasStream, ProcType, PutType
    <3>3. trace' = trace /\ step' \in 1..Len(trace.steps) + 1
      BY <1>1, <1>3, <1>a, <1>c DEF output, TcpRunning, HasStream, TcpTypes, Together
    <3>4. net' \in Seq(Piece) /\ sock' \in Seq(Piece) /\ toProc' \in Seq(Nat)
      BY <1>1, <1>3, <1>a DEF output, TcpRunning, HasStream, TcpTypes
    <3>5. deframer' \in DeframerType /\ learnt' \in Seq([step : Nat, frame : Frame])
      BY <1>1, <1>3, <1>a DEF output, TcpRunning, HasStream, TcpTypes
    <3> QED
      BY <1>a, <3>1, <3>2, <3>3, <3>4, <3>5 DEF TcpTypes
  <2>b. BufferIsShort'
    BY <1>1, <1>3, <1>b DEF output, TcpRunning, HasStream, BufferIsShort
  <2>g. Together'
    BY <1>1, <1>3, <1>d, <1>c DEF output, TcpRunning, HasStream, ProcType, PutType, Together, HasStream
  <2>c. TcpConnectsInTime'
    BY <1>1, <1>3, <1>d, <1>c DEF output, TcpRunning, HasStream, ProcType, PutType, Together, TcpConnectsInTime, HasStream
  <2>o. TcpNoOrphan'
    BY <1>1, <1>3, <1>d, <1>c DEF output, TcpRunning, HasStream, ProcType, PutType, Together, TcpNoOrphan
  <2> QED
    BY <2>t, <2>b, <2>g, <2>c, <2>o DEF TcpControl
<1>4. CASE TakeFrame
  <2>1. Head(deframer.frames) \in Frame /\ Tail(deframer.frames) \in Seq(Frame)
    BY <1>4, <1>a DEF TakeFrame, TcpTypes, DeframerType
  <2>t. TcpTypes'
    <3>1. proc' \in ProcType
      BY <1>1, <1>4, <2>1, <1>d DEF TakeFrame, ProcType, PutType
    <3>2. put' \in PutType
      BY <1>1, <1>4, <2>1, <1>d DEF TakeFrame, ProcType, PutType
    <3>3. trace' = trace /\ step' \in 1..Len(trace.steps) + 1
      BY <1>1, <1>4, <2>1, <1>a, <1>c DEF TakeFrame, TcpTypes, Together
    <3>4. net' \in Seq(Piece) /\ sock' \in Seq(Piece) /\ toProc' \in Seq(Nat)
      BY <1>1, <1>4, <2>1, <1>a DEF TakeFrame, TcpTypes, DeframerType
    <3>5. deframer' \in DeframerType /\ learnt' \in Seq([step : Nat, frame : Frame])
      <4>1. deframer' = [deframer EXCEPT !.frames = Tail(deframer.frames)]
        BY <1>4 DEF TakeFrame
      <4>2. deframer' \in DeframerType
        BY <2>1, <4>1, <1>a DEF TcpTypes, DeframerType
      <4>3. [step |-> step, frame |-> Head(deframer.frames)] \in [step : Nat, frame : Frame]
        BY <1>1, <2>1
      <4>4. learnt' = Append(learnt, [step |-> step, frame |-> Head(deframer.frames)])
        BY <1>4 DEF TakeFrame
      <4> QED
        BY <4>2, <4>3, <4>4, <1>a DEF TcpTypes
    <3> QED
      BY <1>a, <3>1, <3>2, <3>3, <3>4, <3>5 DEF TcpTypes
  <2>b. BufferIsShort'
    BY <1>1, <1>4, <1>b DEF TakeFrame, BufferIsShort
  <2>g. Together'
    BY <1>1, <1>4, <1>d, <1>c DEF TakeFrame, ProcType, PutType, Together, HasStream
  <2>c. TcpConnectsInTime'
    BY <1>1, <1>4, <1>d, <1>c DEF TakeFrame, ProcType, PutType, Together, TcpConnectsInTime, HasStream
  <2>o. TcpNoOrphan'
    BY <1>1, <1>4, <1>d, <1>c DEF TakeFrame, ProcType, PutType, Together, TcpNoOrphan
  <2> QED
    BY <2>t, <2>b, <2>g, <2>c, <2>o DEF TcpControl
<1>5. CASE ReadSome
  <2> DEFINE d == [deframer EXCEPT !.buf = @ \o sock]
  <2>1. d \in DeframerType
    <3>1. deframer.buf \o sock \in Seq(Piece)
      BY <1>a DEF TcpTypes, DeframerType
    <3> QED
      BY <3>1, <1>a DEF TcpTypes, DeframerType
  <2>2. deframer' = Deframe(d)
    BY <1>5 DEF ReadSome
  <2> HIDE DEF d
  <2>3. deframer' \in DeframerType
    BY <2>1, <2>2, DeframeIs
  <2>t. TcpTypes'
    <3>1. proc' \in ProcType
      BY <1>1, <1>5, <2>3, <1>d DEF ReadSome, ProcType, PutType
    <3>2. put' \in PutType
      BY <1>1, <1>5, <2>3, <1>d DEF ReadSome, ProcType, PutType
    <3>3. trace' = trace /\ step' \in 1..Len(trace.steps) + 1
      BY <1>1, <1>5, <2>3, <1>a, <1>c DEF ReadSome, TcpTypes, Together
    <3>4. net' \in Seq(Piece) /\ sock' \in Seq(Piece) /\ toProc' \in Seq(Nat)
      BY <1>1, <1>5, <2>3, <1>a DEF ReadSome, TcpTypes
    <3>5. deframer' \in DeframerType /\ learnt' \in Seq([step : Nat, frame : Frame])
      BY <1>1, <1>5, <2>3, <1>a DEF ReadSome, TcpTypes
    <3> QED
      BY <1>a, <3>1, <3>2, <3>3, <3>4, <3>5 DEF TcpTypes
  <2>b. BufferIsShort'
    BY <2>1, <2>2, DeframeIs, <1>b DEF BufferIsShort
  <2>g. Together'
    BY <1>1, <1>5, <1>d, <1>c DEF ReadSome, ProcType, PutType, Together, HasStream
  <2>c. TcpConnectsInTime'
    BY <1>1, <1>5, <1>d, <1>c DEF ReadSome, ProcType, PutType, Together, TcpConnectsInTime, HasStream
  <2>o. TcpNoOrphan'
    BY <1>1, <1>5, <1>d, <1>c DEF ReadSome, ProcType, PutType, Together, TcpNoOrphan
  <2> QED
    BY <2>t, <2>b, <2>g, <2>c, <2>o DEF TcpControl
<1>6. CASE ReadTimeout \/ ReadEof
  <2>t. TcpTypes'
    <3>1. proc' \in ProcType
      BY <1>1, <1>6, <1>d DEF ReadTimeout, ReadEof, EndOfStep, ProcType, PutType
    <3>2. put' \in PutType
      BY <1>1, <1>6, <1>d DEF ReadTimeout, ReadEof, EndOfStep, ProcType, PutType
    <3>3. trace' = trace /\ step' \in 1..Len(trace.steps) + 1
      BY <1>1, <1>6, <1>a, <1>c DEF ReadTimeout, ReadEof, EndOfStep, TcpTypes, Together
    <3>4. net' \in Seq(Piece) /\ sock' \in Seq(Piece) /\ toProc' \in Seq(Nat)
      BY <1>1, <1>6, <1>a DEF ReadTimeout, ReadEof, EndOfStep, TcpTypes
    <3>5. deframer' \in DeframerType /\ learnt' \in Seq([step : Nat, frame : Frame])
      BY <1>1, <1>6, <1>a DEF ReadTimeout, ReadEof, EndOfStep, TcpTypes
    <3> QED
      BY <1>a, <3>1, <3>2, <3>3, <3>4, <3>5 DEF TcpTypes
  <2>b. BufferIsShort'
    BY <1>1, <1>6, <1>b DEF ReadTimeout, ReadEof, EndOfStep, BufferIsShort
  <2>g. Together'
    BY <1>1, <1>6, <1>d, <1>c DEF ReadTimeout, ReadEof, EndOfStep, ProcType, PutType, Together, HasStream
  <2>c. TcpConnectsInTime'
    BY <1>1, <1>6, <1>d, <1>c DEF ReadTimeout, ReadEof, EndOfStep, ProcType, PutType, Together, TcpConnectsInTime, HasStream
  <2>o. TcpNoOrphan'
    BY <1>1, <1>6, <1>d, <1>c DEF ReadTimeout, ReadEof, EndOfStep, ProcType, PutType, Together, TcpNoOrphan
  <2> QED
    BY <2>t, <2>b, <2>g, <2>c, <2>o DEF TcpControl
<1>7. CASE ReadError
  <2>t. TcpTypes'
    <3>1. proc' \in ProcType
      BY <1>1, <1>7, <1>d DEF ReadError, TLSProcess_drop, ProcType, PutType
    <3>2. put' \in PutType
      BY <1>1, <1>7, <1>d DEF ReadError, TLSProcess_drop, ProcType, PutType
    <3>3. trace' = trace /\ step' \in 1..Len(trace.steps) + 1
      BY <1>1, <1>7, <1>a, <1>c DEF ReadError, TLSProcess_drop, TcpTypes, Together
    <3>4. net' \in Seq(Piece) /\ sock' \in Seq(Piece) /\ toProc' \in Seq(Nat)
      BY <1>1, <1>7, <1>a DEF ReadError, TLSProcess_drop, TcpTypes
    <3>5. deframer' \in DeframerType /\ learnt' \in Seq([step : Nat, frame : Frame])
      BY <1>1, <1>7, <1>a DEF ReadError, TLSProcess_drop, TcpTypes
    <3> QED
      BY <1>a, <3>1, <3>2, <3>3, <3>4, <3>5 DEF TcpTypes
  <2>b. BufferIsShort'
    BY <1>1, <1>7, <1>b DEF ReadError, TLSProcess_drop, BufferIsShort
  <2>g. Together'
    BY <1>1, <1>7, <1>d, <1>c DEF ReadError, TLSProcess_drop, ProcType, PutType, Together, HasStream
  <2>c. TcpConnectsInTime'
    BY <1>1, <1>7, <1>d, <1>c DEF ReadError, TLSProcess_drop, ProcType, PutType, Together, TcpConnectsInTime, HasStream
  <2>o. TcpNoOrphan'
    BY <1>1, <1>7, <1>d, <1>c DEF ReadError, TLSProcess_drop, ProcType, PutType, Together, TcpNoOrphan
  <2> QED
    BY <2>t, <2>b, <2>g, <2>c, <2>o DEF TcpControl
<1> QED
  BY <1>2, <1>3, <1>4, <1>5, <1>6, <1>7

\* The steps that end the PUT or its connection.
LEMMA EndingControl ==
    TcpControl /\ (receive_stream_fails \/ reset \/ new_stream_again \/ shutdown) => TcpControl'
<1> SUFFICES ASSUME TcpControl, receive_stream_fails \/ reset \/ new_stream_again \/ shutdown
             PROVE  TcpControl'
  OBVIOUS
<1>a. TcpTypes
  BY DEF TcpControl
<1>b. BufferIsShort
  BY DEF TcpControl
<1>c. Together /\ TcpConnectsInTime /\ TcpNoOrphan
  BY DEF TcpControl
<1>d. proc \in ProcType /\ put \in PutType
  BY <1>a DEF TcpTypes
<1>1. /\ Tries \in Nat \ {0} /\ AnswerCount \in Nat
      /\ trace.startup \in Nat /\ Len(trace.steps) \in Nat /\ trace.role \in {"client", "server"}
      /\ proc.age \in Nat /\ proc.sent \in Nat /\ proc.conn \in Nat /\ step \in Nat
  BY <1>a, TcpPutAssumption, TraceType DEF TcpTypes, ProcType
<1>2. CASE receive_stream_fails
  <2>t. TcpTypes'
    <3>1. proc' \in ProcType
      BY <1>1, <1>2, <1>d DEF receive_stream_fails, TcpRunning, ProcType, PutType
    <3>2. put' \in PutType
      BY <1>1, <1>2, <1>d DEF receive_stream_fails, TcpRunning, ProcType, PutType
    <3>3. trace' = trace /\ step' \in 1..Len(trace.steps) + 1
      BY <1>1, <1>2, <1>a, <1>c DEF receive_stream_fails, TcpRunning, TcpTypes, Together
    <3>4. net' \in Seq(Piece) /\ sock' \in Seq(Piece) /\ toProc' \in Seq(Nat)
      BY <1>1, <1>2, <1>a DEF receive_stream_fails, TcpRunning, TcpTypes
    <3>5. deframer' \in DeframerType /\ learnt' \in Seq([step : Nat, frame : Frame])
      BY <1>1, <1>2, <1>a DEF receive_stream_fails, TcpRunning, TcpTypes
    <3> QED
      BY <1>a, <3>1, <3>2, <3>3, <3>4, <3>5 DEF TcpTypes
  <2>b. BufferIsShort'
    BY <1>1, <1>2, <1>b DEF receive_stream_fails, TcpRunning, BufferIsShort
  <2>g. Together'
    BY <1>1, <1>2, <1>d, <1>c DEF receive_stream_fails, TcpRunning, ProcType, PutType, Together, HasStream
  <2>c. TcpConnectsInTime'
    BY <1>1, <1>2, <1>d, <1>c DEF receive_stream_fails, TcpRunning, ProcType, PutType, Together, TcpConnectsInTime, HasStream
  <2>o. TcpNoOrphan'
    BY <1>1, <1>2, <1>d, <1>c DEF receive_stream_fails, TcpRunning, ProcType, PutType, Together, TcpNoOrphan
  <2> QED
    BY <2>t, <2>b, <2>g, <2>c, <2>o DEF TcpControl
<1>3. CASE reset
  <2>r. UNCHANGED <<trace, toProc, net, sock, deframer, step, learnt>>
    BY <1>3 DEF reset
  <2>b. BufferIsShort'
    BY <2>r, <1>b DEF BufferIsShort
  <2>t. put.st = "ready" /\ step <= Len(trace.steps) /\ (trace.role = "client" => proc.conn > 0)
    BY <1>3, <1>c DEF reset, TcpRunning, Together, HasStream
  <2>1. CASE trace.role = "server"
    <3>1. proc' = proc /\ put' = [put EXCEPT !.st = "panic"]
      BY <1>3, <2>1 DEF reset
    <3>2. put' \in PutType
      BY <1>1, <2>t, <3>1, <1>d DEF PutType
    <3>3. put'.st = "panic" /\ put'.tries = put.tries /\ put'.thread = put.thread
      BY <3>1, <1>d DEF PutType
    <3>4. Together' /\ TcpConnectsInTime' /\ TcpNoOrphan'
      BY <1>1, <2>r, <2>t, <2>1, <3>1, <3>3, <1>c DEF Together, TcpConnectsInTime, TcpNoOrphan, HasStream
    <3> QED
      BY <2>b, <2>r, <3>1, <3>2, <3>4, <1>a DEF TcpTypes, TcpControl
  <2>2. CASE trace.role = "client" /\ put' = [put EXCEPT !.st = "reconnecting", !.tries = Tries] /\ UNCHANGED proc
    <3>1. put' = [st |-> "reconnecting", tries |-> Tries, thread |-> put.thread]
      BY <2>2, <1>d DEF PutType
    <3>2. put' \in PutType
      BY <3>1, <1>1, <1>d DEF PutType
    <3>3. put'.st = "reconnecting" /\ put'.tries = Tries /\ put'.thread = put.thread
      BY <3>1
    <3>4. Together' /\ TcpConnectsInTime' /\ TcpNoOrphan'
      BY <1>1, <2>r, <2>t, <2>2, <3>3, <1>c DEF Together, TcpConnectsInTime, TcpNoOrphan, HasStream
    <3> QED
      BY <2>b, <2>r, <2>2, <3>2, <3>4, <1>a DEF TcpTypes, TcpControl
  <2>3. CASE trace.role = "client" /\ put' = [put EXCEPT !.st = "error"] /\ proc' = TLSProcess_drop(proc)
    <3>1. proc' = [proc EXCEPT !.st = "dead"]
      BY <2>3 DEF TLSProcess_drop
    <3>2. proc' \in ProcType /\ put' \in PutType
      <4>1. proc' \in ProcType
        BY <1>1, <3>1, <1>d DEF ProcType
      <4>2. put' \in PutType
        BY <1>1, <2>3, <1>d DEF PutType
      <4> QED
        BY <4>1, <4>2
    <3>3. /\ proc'.st = "dead" /\ put'.st = "error" /\ proc'.conn = proc.conn
          /\ put'.thread = put.thread
      BY <2>3, <3>1, <1>d DEF ProcType, PutType
    <3>4. Together' /\ TcpConnectsInTime' /\ TcpNoOrphan'
      BY <1>1, <2>r, <2>t, <2>3, <3>3, <1>c DEF Together, TcpConnectsInTime, TcpNoOrphan, HasStream
    <3> QED
      BY <2>b, <2>r, <3>2, <3>4, <1>a DEF TcpTypes, TcpControl
  <2> QED
    BY <1>1, <1>3, <2>1, <2>2, <2>3 DEF reset
<1>4. CASE shutdown
  <2>t. TcpTypes'
    <3>1. proc' \in ProcType
      BY <1>1, <1>4, <1>d DEF shutdown, TLSProcess_drop, ProcType, PutType
    <3>2. put' \in PutType
      BY <1>1, <1>4, <1>d DEF shutdown, TLSProcess_drop, ProcType, PutType
    <3>3. trace' = trace /\ step' \in 1..Len(trace.steps) + 1
      BY <1>1, <1>4, <1>a, <1>c DEF shutdown, TLSProcess_drop, TcpTypes, Together
    <3>4. net' \in Seq(Piece) /\ sock' \in Seq(Piece) /\ toProc' \in Seq(Nat)
      BY <1>1, <1>4, <1>a DEF shutdown, TLSProcess_drop, TcpTypes
    <3>5. deframer' \in DeframerType /\ learnt' \in Seq([step : Nat, frame : Frame])
      BY <1>1, <1>4, <1>a DEF shutdown, TLSProcess_drop, TcpTypes
    <3> QED
      BY <1>a, <3>1, <3>2, <3>3, <3>4, <3>5 DEF TcpTypes
  <2>b. BufferIsShort'
    BY <1>1, <1>4, <1>b DEF shutdown, TLSProcess_drop, BufferIsShort
  <2>g. Together'
    BY <1>1, <1>4, <1>d, <1>c DEF shutdown, TLSProcess_drop, ProcType, PutType, Together, HasStream
  <2>c. TcpConnectsInTime'
    BY <1>1, <1>4, <1>d, <1>c DEF shutdown, TLSProcess_drop, ProcType, PutType, Together, TcpConnectsInTime, HasStream
  <2>o. TcpNoOrphan'
    BY <1>1, <1>4, <1>d, <1>c DEF shutdown, TLSProcess_drop, ProcType, PutType, Together, TcpNoOrphan
  <2> QED
    BY <2>t, <2>b, <2>g, <2>c, <2>o DEF TcpControl
<1>5. CASE new_stream_again
  <2>r. UNCHANGED <<trace, deframer, learnt>>
    BY <1>5 DEF new_stream_again
  <2>b. BufferIsShort'
    BY <2>r, <1>b DEF BufferIsShort
  <2>t. put.st = "reconnecting" /\ step <= Len(trace.steps) /\ trace.role = "client" /\ proc.conn > 0
    BY <1>5, <1>c DEF new_stream_again, Together, HasStream
  <2>s. net' \in Seq(Piece) /\ sock' \in Seq(Piece) /\ toProc' \in Seq(Nat) /\ step' \in 1..Len(trace.steps) + 1
    <3>1. /\ net' = net \/ net' = <<>>
          /\ sock' = sock \/ sock' = <<>>
          /\ toProc' = toProc \/ toProc' = <<>>
          /\ step' = step \/ step' = step + 1
      BY <1>5 DEF new_stream_again
    <3>2. step' \in 1..Len(trace.steps) + 1
      BY <1>1, <2>t, <3>1, <1>a DEF TcpTypes
    <3>3. net \in Seq(Piece) /\ sock \in Seq(Piece) /\ toProc \in Seq(Nat)
      BY <1>a DEF TcpTypes
    <3>4. <<>> \in Seq(Piece) /\ <<>> \in Seq(Nat)
      OBVIOUS
    <3> QED
      BY <3>1, <3>2, <3>3, <3>4, Zenon
  <2>1. CASE Listening
    <3>0. proc.st = "connected"
      BY <1>1, <1>c, <2>1, <2>t DEF Listening, Together
    <3>1. proc' = [proc EXCEPT !.conn = proc.conn + 1, !.sent = 0] /\ put' = [put EXCEPT !.st = "ready"]
      BY <1>5, <2>1 DEF new_stream_again
    <3>2. proc' \in ProcType /\ put' \in PutType
      <4>1. proc' \in ProcType
        <5>1. proc' = [st |-> proc.st, age |-> proc.age, sent |-> 0, conn |-> proc.conn + 1]
          BY <3>1, <1>d DEF ProcType
        <5> QED
          BY <5>1, <1>1, <1>d DEF ProcType
      <4>2. put' \in PutType
        BY <1>1, <2>t, <3>1, <1>d DEF PutType
      <4> QED
        BY <4>1, <4>2
    <3>3. /\ proc'.st = "connected" /\ proc'.conn = proc.conn + 1
          /\ put'.st = "ready" /\ put'.tries = put.tries /\ put'.thread = put.thread
      BY <3>0, <3>1, <1>d DEF ProcType, PutType
    <3>4. Together' /\ TcpConnectsInTime' /\ TcpNoOrphan'
      BY <1>1, <2>r, <2>t, <3>3, <1>c DEF Together, TcpConnectsInTime, TcpNoOrphan, HasStream
    <3> QED
      BY <2>b, <2>r, <2>s, <3>2, <3>4, <1>a DEF TcpTypes, TcpControl
  <2>2. CASE ~Listening /\ put.tries > 1
    <3>1. proc' = proc /\ step' = step /\ put' = [put EXCEPT !.tries = put.tries - 1]
      BY <1>5, <2>2 DEF new_stream_again
    <3>2. put' \in PutType
      BY <1>1, <2>2, <2>t, <3>1, <1>d DEF PutType
    <3>3. put'.st = put.st /\ put'.thread = put.thread /\ put'.tries = put.tries - 1 /\ put.tries \in Nat
      BY <3>1, <1>1, <1>d DEF PutType
    <3>4. Together' /\ TcpConnectsInTime' /\ TcpNoOrphan'
      BY <1>1, <2>r, <2>t, <2>2, <3>1, <3>3, <1>c DEF Together, TcpConnectsInTime, TcpNoOrphan, HasStream
    <3> QED
      BY <2>b, <2>r, <2>s, <3>1, <3>2, <3>4, <1>a DEF TcpTypes, TcpControl
  <2>3. CASE ~Listening /\ put.tries = 1
    <3>1. proc' = [proc EXCEPT !.st = "dead"] /\ put' = [put EXCEPT !.tries = 0, !.st = "error"]
      BY <1>5, <2>3 DEF new_stream_again, new_stream_fails, TLSProcess_drop
    <3>2. proc' \in ProcType /\ put' \in PutType
      <4>1. proc' \in ProcType
        BY <1>1, <3>1, <1>d DEF ProcType
      <4>2. put' \in PutType
        <5>1. put' = [st |-> "error", tries |-> 0, thread |-> put.thread]
          BY <3>1, <1>d DEF PutType
        <5> QED
          BY <5>1, <1>1, <1>d DEF PutType
      <4> QED
        BY <4>1, <4>2
    <3>3. /\ proc'.st = "dead" /\ put'.st = "error" /\ proc'.conn = proc.conn
          /\ put'.thread = put.thread
      BY <3>1, <1>d DEF ProcType, PutType
    <3>4. Together' /\ TcpConnectsInTime' /\ TcpNoOrphan'
      BY <1>1, <2>r, <2>t, <2>3, <3>3, <1>c DEF Together, TcpConnectsInTime, TcpNoOrphan, HasStream
    <3> QED
      BY <2>b, <2>r, <2>s, <3>2, <3>4, <1>a DEF TcpTypes, TcpControl
  <2> QED
    BY <1>5, <2>1, <2>2, <2>3 DEF new_stream_again
<1> QED
  BY <1>2, <1>3, <1>4, <1>5

\* The connection, the thread and the process agree in every state.
LEMMA TcpControlInvariant == TcpSpec => []TcpControl
<1>1. TcpControl /\ [TcpNext]_tcpVars => TcpControl'
  <2> SUFFICES ASSUME TcpControl, [TcpNext]_tcpVars PROVE TcpControl'
    OBVIOUS
  <2>1. CASE UNCHANGED tcpVars
    BY <2>1 DEF tcpVars, TcpControl, TcpTypes, BufferIsShort, Together, TcpConnectsInTime, TcpNoOrphan, HasStream
  <2> QED
    BY <2>1, ConnectingControl, CarryingControl, ReadingControl, EndingControl DEF TcpNext, TcpPutNext
<1> QED
  BY <1>1, TcpInitControl, PTL DEF TcpSpec

\* TcpClientPut::new_stream and TLSProcess: a server that listens within the
\* time of the attempts is connected to, and no process outlives a PUT that ends
\* without a panic, whatever the traces and the number of attempts.
THEOREM ProcessIsManaged == TcpSpec => []TcpProcessIsManaged
<1>1. TcpControl => TcpProcessIsManaged
  BY DEF TcpControl, TcpTypes, ProcType, PutType, BufferIsShort, TcpProcessIsManaged, TcpTypeOK
<1> QED
  BY <1>1, TcpControlInvariant, PTL

------------------------------------------------------------------------------
(* The frames are the records, in order *)

\* The frames taken, by the trace or by the deframer.
Taken == Len(learnt) + Len(deframer.frames)

\* P is everything that was sent to the PUT and not lost with a connection, in
\* the order in which it was sent: frames, then the buffer of the deframer, then
\* what can be read, then what is on its way.
Carries(P) ==
    /\ Len(P) = 2 * Taken + Len(deframer.buf) + Len(sock) + Len(net)
    /\ \A i \in 1..Len(learnt) : P[2 * i - 1] = learnt[i].frame[1] /\ P[2 * i] = learnt[i].frame[2]
    /\ \A i \in 1..Len(deframer.frames) :
          /\ P[2 * (Len(learnt) + i) - 1] = deframer.frames[i][1]
          /\ P[2 * (Len(learnt) + i)] = deframer.frames[i][2]
    /\ \A i \in 1..Len(deframer.buf) : P[2 * Taken + i] = deframer.buf[i]
    /\ \A i \in 1..Len(sock) : P[2 * Taken + Len(deframer.buf) + i] = sock[i]
    /\ \A i \in 1..Len(net) : P[2 * Taken + Len(deframer.buf) + Len(sock) + i] = net[i]

\* The pieces continue each other, and frames start with a header.
InOrder(P) ==
    /\ Len(P) > 0 => P[1].part = "h" /\ P[1].rec = 1
    /\ \A j \in 2..Len(P) : Continues(P[j - 1], P[j])
    /\ \A i \in 1..Taken : P[2 * i - 1].part = "h"

\* A connected process has sent what the last piece says, if that is one of the
\* connection, and nothing otherwise.
UpToDate(P) ==
    /\ \A j \in 1..Len(P) : P[j].conn <= proc.conn
    /\ proc.st = "connected" =>
          IF Len(P) > 0 /\ P[Len(P)].conn = proc.conn
          THEN P[Len(P)].part = "b" /\ P[Len(P)].rec = proc.sent
          ELSE proc.sent = 0

TcpOrder == \E P \in Seq(Piece) : Carries(P) /\ InOrder(P) /\ UpToDate(P)

\* The places of frames and buffer among the pieces.
LEMMA Places ==
    ASSUME NEW l \in Nat, NEW f \in Nat, NEW b \in Nat
    PROVE  /\ 2 * (l + f) + b \in Nat
           /\ \A i \in 1..l : 2 * i - 1 \in 1..2 * (l + f) + b /\ 2 * i \in 1..2 * (l + f) + b
           /\ \A i \in 1..f : /\ 2 * (l + i) - 1 \in 1..2 * (l + f) + b
                             /\ 2 * (l + i) \in 1..2 * (l + f) + b
           /\ \A i \in 1..b : 2 * (l + f) + i \in 1..2 * (l + f) + b
           /\ \A i \in 1..l + f : 2 * i - 1 \in 1..2 * (l + f) + b
  OBVIOUS

\* Positions in what follows a sequence of length a.
LEMMA Shift ==
    ASSUME NEW a \in Nat, NEW n \in Nat, NEW k \in 1..2 * n
    PROVE  a + k \in a + 1..a + 2 * n /\ (a + k) - a = k
  OBVIOUS

\* The lengths of the queues an answer passes are natural numbers.
LEMMA Lengths ==
    ASSUME TcpTypes
    PROVE  /\ Len(learnt) \in Nat /\ Len(deframer.frames) \in Nat /\ Len(deframer.buf) \in Nat
           /\ Len(sock) \in Nat /\ Len(net) \in Nat /\ Taken \in Nat
  BY DEF TcpTypes, DeframerType, Taken

\* Pieces carry the numbers of their connection and of their record.
LEMMA ConnType ==
    /\ TcpTypes => proc.conn \in Nat /\ proc.sent \in Nat
    /\ \A P \in Seq(Piece) : \A j \in 1..Len(P) : P[j].conn \in Nat /\ P[j].rec \in Nat
<1>1. TcpTypes => proc.conn \in Nat /\ proc.sent \in Nat
  BY DEF TcpTypes, ProcType
<1>2. ASSUME NEW P \in Seq(Piece), NEW j \in 1..Len(P) PROVE P[j].conn \in Nat /\ P[j].rec \in Nat
  <2>1. P[j] \in Piece
    OBVIOUS
  <2> QED
    BY <2>1 DEF Piece
<1> QED
  BY <1>1, <1>2

\* A step that only starts or ends a connection.
LEMMA SameData ==
    ASSUME TcpTypes, TcpOrder, UNCHANGED <<net, sock, deframer, learnt>>, proc' \in ProcType,
           \/ proc'.st = proc.st /\ proc'.conn = proc.conn /\ proc'.sent = proc.sent
           \/ proc'.st # "connected" /\ proc'.conn = proc.conn
           \/ proc'.conn > proc.conn /\ proc'.sent = 0
    PROVE  TcpOrder'
<1>1. PICK P \in Seq(Piece) : Carries(P) /\ InOrder(P) /\ UpToDate(P)
  BY DEF TcpOrder
<1>2. Carries(P)' /\ InOrder(P)'
  BY <1>1 DEF Carries, InOrder, Taken
<1>3. proc.conn \in Nat /\ proc'.conn \in Nat /\ \A j \in 1..Len(P) : P[j].conn \in Nat
  <2>1. proc'.conn \in Nat
    BY DEF ProcType
  <2> QED
    BY <2>1, ConnType
<1>4. UpToDate(P)'
  <2>1. \A j \in 1..Len(P) : P[j].conn <= proc'.conn
    BY <1>1, <1>3 DEF UpToDate
  <2>2. Len(P) \in Nat /\ (Len(P) > 0 => Len(P) \in 1..Len(P))
    BY <1>1
  <2> QED
    BY <1>1, <1>3, <2>1, <2>2 DEF UpToDate
<1> QED
  BY <1>1, <1>2, <1>4 DEF TcpOrder

\* A step in which a connection is lost with what it carried.
LEMMA DroppedData ==
    ASSUME TcpTypes, TcpOrder, UNCHANGED <<deframer, learnt>>, net' = <<>>, sock' = <<>>, proc' \in ProcType,
           \/ proc'.st # "connected" /\ proc'.conn = proc.conn
           \/ proc'.conn > proc.conn /\ proc'.sent = 0
    PROVE  TcpOrder'
<1>1. PICK P \in Seq(Piece) : Carries(P) /\ InOrder(P) /\ UpToDate(P)
  BY DEF TcpOrder
<1>2. PICK m : m = 2 * Taken + Len(deframer.buf)
  OBVIOUS
<1>3. m \in Nat /\ m <= Len(P) /\ Len(P) \in Nat
  BY <1>1, <1>2, Lengths, SMTT(30) DEF Carries
<1>4. PICK Q \in Seq(Piece) : Len(Q) = m /\ \A j \in 1..m : Q[j] = P[j]
  <2>1. SubSeq(P, 1, m) \in Seq(Piece) /\ Len(SubSeq(P, 1, m)) = m /\ \A j \in 1..m : SubSeq(P, 1, m)[j] = P[j]
    BY <1>1, <1>3
  <2> QED
    BY <2>1
<1>5. /\ \A i \in 1..Len(learnt) : 2 * i - 1 \in 1..m /\ 2 * i \in 1..m
      /\ \A i \in 1..Len(deframer.frames) :
           2 * (Len(learnt) + i) - 1 \in 1..m /\ 2 * (Len(learnt) + i) \in 1..m
      /\ \A i \in 1..Len(deframer.buf) : 2 * Taken + i \in 1..m
      /\ \A i \in 1..Taken : 2 * i - 1 \in 1..m
  BY <1>2, Lengths, Places DEF Taken
<1>6. Carries(Q)'
  <2>1. Taken' = Taken
    BY DEF Taken
  <2>2. Len(net') = 0 /\ Len(sock') = 0
    OBVIOUS
  <2>3. Len(Q) = 2 * Taken + Len(deframer.buf) + 0 + 0
    BY <1>2, <1>4, Lengths
  <2> QED
    BY <1>1, <1>4, <1>5, <2>1, <2>2, <2>3 DEF Carries
<1>7. InOrder(Q)'
  <2>1. Taken' = Taken
    BY DEF Taken
  <2>2. \A j \in 2..m : j \in 1..m /\ j - 1 \in 1..m /\ j \in 2..Len(P)
    BY <1>3
  <2>4. m > 0 => 1 \in 1..m /\ Len(P) > 0
    BY <1>3
  <2> QED
    BY <1>1, <1>4, <1>5, <2>1, <2>2, <2>4 DEF InOrder
<1>8. UpToDate(Q)'
  <2>1. proc.conn \in Nat /\ proc'.conn \in Nat /\ \A j \in 1..m : Q[j].conn \in Nat
    <3>1. proc'.conn \in Nat
      BY DEF ProcType
    <3> QED
      BY <1>4, <3>1, ConnType
  <2>2. \A j \in 1..m : Q[j].conn <= proc.conn
    BY <1>1, <1>3, <1>4 DEF UpToDate
  <2>3. m > 0 => m \in 1..m
    BY <1>3
  <2>4. \A j \in 1..m : Q[j].conn <= proc'.conn
    BY <2>1, <2>2
  <2>5. proc'.st = "connected" => proc'.sent = 0 /\ \A j \in 1..m : Q[j].conn # proc'.conn
    BY <2>1, <2>2
  <2> QED
    BY <1>4, <2>3, <2>4, <2>5 DEF UpToDate
<1> QED
  BY <1>6, <1>7, <1>8 DEF TcpOrder


\* The process sends n records.
LEMMA SentData ==
    ASSUME TcpTypes, TcpOrder, proc.st = "connected", UNCHANGED <<sock, deframer, learnt>>, NEW n \in Nat,
           net' = net \o RecordPieces(proc.sent, n), proc' = [proc EXCEPT !.sent = proc.sent + n]
    PROVE  TcpOrder'
<1>1. PICK P \in Seq(Piece) : Carries(P) /\ InOrder(P) /\ UpToDate(P)
  BY DEF TcpOrder
<1>2. PICK R : R = RecordPieces(proc.sent, n)
  OBVIOUS
<1>3. proc.conn \in Nat /\ proc.sent \in Nat /\ Len(P) \in Nat
  BY <1>1, ConnType
<1>4. /\ R \in Seq(Piece) /\ Len(R) = 2 * n
      /\ \A i \in 1..2 * n : R[i].conn = proc.conn
      /\ n > 0 => /\ R[1].part = "h" /\ R[1].rec = proc.sent + 1
                  /\ R[2 * n].part = "b" /\ R[2 * n].rec = proc.sent + n
      /\ \A i \in 2..2 * n : Continues(R[i - 1], R[i])
  <2>1. /\ RecordPieces(proc.sent, n) \in Seq(Piece) /\ Len(RecordPieces(proc.sent, n)) = 2 * n
        /\ \A i \in 1..2 * n : RecordPieces(proc.sent, n)[i].conn = proc.conn
        /\ n > 0 => /\ RecordPieces(proc.sent, n)[1].part = "h"
                    /\ RecordPieces(proc.sent, n)[1].rec = proc.sent + 1
                    /\ RecordPieces(proc.sent, n)[2 * n].part = "b"
                    /\ RecordPieces(proc.sent, n)[2 * n].rec = proc.sent + n
        /\ \A i \in 2..2 * n : Continues(RecordPieces(proc.sent, n)[i - 1], RecordPieces(proc.sent, n)[i])
    BY <1>3, RecordPiecesAre, ZenonT(30)
  <2> QED
    BY <1>2, <2>1, Zenon
<1>5. proc'.st = "connected" /\ proc'.conn = proc.conn /\ proc'.sent = proc.sent + n
  BY DEF TcpTypes, ProcType
<1>6. PICK Q \in Seq(Piece) : /\ Len(Q) = Len(P) + 2 * n
                              /\ \A i \in 1..Len(P) : Q[i] = P[i]
                              /\ \A i \in Len(P) + 1..Len(P) + 2 * n : Q[i] = R[i - Len(P)]
  <2>1. /\ P \o R \in Seq(Piece) /\ Len(P \o R) = Len(P) + Len(R)
        /\ \A i \in 1..Len(P) + Len(R) : (P \o R)[i] = IF i <= Len(P) THEN P[i] ELSE R[i - Len(P)]
    BY <1>1, <1>4, ConcatProperties
  <2>2. \A i \in 1..Len(P) : i \in 1..Len(P) + Len(R) /\ i <= Len(P)
    BY <1>3, <1>4
  <2>3. \A i \in Len(P) + 1..Len(P) + 2 * n : i \in 1..Len(P) + Len(R) /\ ~(i <= Len(P))
    BY <1>3, <1>4
  <2> QED
    BY <1>4, <2>1, <2>2, <2>3
<1>7. Carries(Q)'
  <2>1. Taken' = Taken
    BY DEF Taken
  <2> DEFINE m == 2 * Taken + Len(deframer.buf) + Len(sock)
  <2>2. m \in Nat /\ Len(P) = m + Len(net) /\ \A i \in 1..Len(net) : P[m + i] = net[i]
    BY <1>1, Lengths, SMTT(30) DEF Carries
  <2> HIDE DEF m
  <2>3. Len(net') = Len(net) + 2 * n /\ \A i \in 1..Len(net) : net'[i] = net[i]
    BY <1>2, <1>4 DEF TcpTypes
  <2>4. \A i \in 1..2 * n : net'[Len(net) + i] = R[i]
    BY <1>2, <1>4, SMTT(30) DEF TcpTypes
  <2>5. ASSUME NEW i \in 1..Len(net') PROVE Q[m + i] = net'[i]
    <3>1. CASE i \in 1..Len(net)
      <4>1. m + i \in 1..Len(P)
        BY <2>2, <3>1, Lengths
      <4>2. P[m + i] = net[i]
        BY <2>2, <3>1
      <4> QED
        BY <1>6, <2>3, <3>1, <4>1, <4>2
    <3>2. CASE ~(i \in 1..Len(net))
      <4>1. PICK k \in 1..2 * n : i = Len(net) + k
        <5>1. i - Len(net) \in 1..2 * n /\ i = Len(net) + (i - Len(net))
          BY <2>3, <2>5, <3>2, Lengths
        <5> QED
          BY <5>1
      <4>2. m + i = Len(P) + k
        BY <2>2, <4>1, Lengths
      <4>3. m + i \in Len(P) + 1..Len(P) + 2 * n /\ (m + i) - Len(P) = k
        BY <1>3, <4>2, Shift, Zenon
      <4>4. Q[m + i] = R[(m + i) - Len(P)]
        BY <1>6, <4>3
      <4> QED
        BY <2>4, <4>1, <4>3, <4>4
    <3> QED
      BY <3>1, <3>2
  <2>6. Len(Q) = m + Len(net')
    BY <1>6, <2>2, <2>3, Lengths
  <2>7. \A i \in 1..m : i \in 1..Len(P)
    BY <2>2, Lengths
  <2>8. /\ \A i \in 1..Len(learnt) : 2 * i - 1 \in 1..m /\ 2 * i \in 1..m
        /\ \A i \in 1..Len(deframer.frames) :
              2 * (Len(learnt) + i) - 1 \in 1..m /\ 2 * (Len(learnt) + i) \in 1..m
        /\ \A i \in 1..Len(deframer.buf) : 2 * Taken + i \in 1..m
        /\ \A i \in 1..Len(sock) : 2 * Taken + Len(deframer.buf) + i \in 1..m
    <3>1. \A l, f, b, k \in Nat : 2 * (l + f) + (b + k) = 2 * (l + f) + b + k
      OBVIOUS
    <3>2. m = 2 * Taken + (Len(deframer.buf) + Len(sock))
      BY Lengths DEF m
    <3>3. Len(deframer.buf) + Len(sock) \in Nat
      BY Lengths
    <3>4. /\ \A i \in 1..Len(learnt) : 2 * i - 1 \in 1..m /\ 2 * i \in 1..m
          /\ \A i \in 1..Len(deframer.frames) :
                2 * (Len(learnt) + i) - 1 \in 1..m /\ 2 * (Len(learnt) + i) \in 1..m
          /\ \A i \in 1..Len(deframer.buf) + Len(sock) : 2 * Taken + i \in 1..m
      BY <3>2, <3>3, Lengths, Places DEF Taken
    <3>5. \A i \in 1..Len(deframer.buf) : i \in 1..Len(deframer.buf) + Len(sock)
      BY Lengths
    <3>6. \A i \in 1..Len(sock) : /\ Len(deframer.buf) + i \in 1..Len(deframer.buf) + Len(sock)
                                 /\ 2 * Taken + Len(deframer.buf) + i = 2 * Taken + (Len(deframer.buf) + i)
      BY Lengths, SMTT(30)
    <3> QED
      BY <3>4, <3>5, <3>6
  <2>9. /\ \A i \in 1..Len(learnt) : Q[2 * i - 1] = learnt[i].frame[1] /\ Q[2 * i] = learnt[i].frame[2]
        /\ \A i \in 1..Len(deframer.frames) :
              /\ Q[2 * (Len(learnt) + i) - 1] = deframer.frames[i][1]
              /\ Q[2 * (Len(learnt) + i)] = deframer.frames[i][2]
        /\ \A i \in 1..Len(deframer.buf) : Q[2 * Taken + i] = deframer.buf[i]
        /\ \A i \in 1..Len(sock) : Q[2 * Taken + Len(deframer.buf) + i] = sock[i]
    BY <1>1, <1>6, <2>7, <2>8, ZenonT(30) DEF Carries
  <2> QED
    BY <2>1, <2>5, <2>6, <2>9 DEF Carries, m
<1>8. InOrder(Q)'
  <2>1. Taken' = Taken
    BY DEF Taken
  <2>2. \A i \in 1..Taken : 2 * i - 1 \in 1..Len(P)
    <3>1. \A t, b \in Nat : \A i \in 1..t : 2 * i - 1 \in 1..2 * t + b
      OBVIOUS
    <3>2. Len(deframer.buf) + Len(sock) + Len(net) \in Nat
          /\ Len(P) = 2 * Taken + (Len(deframer.buf) + Len(sock) + Len(net))
      BY <1>1, Lengths DEF Carries
    <3> QED
      BY <3>1, <3>2, Lengths
  <2>3. \A i \in 1..Taken : Q[2 * i - 1].part = "h"
    BY <1>1, <1>6, <2>2 DEF InOrder
  <2>4. Len(Q) > 0 => Q[1].part = "h" /\ Q[1].rec = 1
    <3>1. CASE Len(P) > 0
      <4>1. 1 \in 1..Len(P)
        BY <1>3, <3>1
      <4> QED
        BY <1>1, <1>6, <3>1, <4>1 DEF InOrder
    <3>2. CASE Len(P) = 0 /\ n > 0
      <4>1. 1 \in Len(P) + 1..Len(P) + 2 * n /\ 1 - Len(P) = 1
        BY <3>2
      <4>3. Q[1] = R[1 - Len(P)]
        BY <1>6, <4>1
      <4>2. Q[1] = R[1] /\ proc.sent = 0
        BY <1>1, <3>2, <4>1, <4>3 DEF UpToDate
      <4> QED
        BY <4>2, <1>4, <3>2
    <3> QED
      BY <1>3, <1>6, <3>1, <3>2
  <2>5. ASSUME NEW j \in 2..Len(Q) PROVE Continues(Q[j - 1], Q[j])
    <3>1. CASE j <= Len(P)
      <4>1. j - 1 \in 1..Len(P) /\ j \in 1..Len(P) /\ j \in 2..Len(P)
        BY <1>3, <2>5, <3>1
      <4> QED
        BY <1>1, <1>6, <4>1 DEF InOrder
    <3>2. CASE j = Len(P) + 1
      <4>0. /\ n > 0 /\ Len(P) > 0 /\ j - 1 = Len(P) /\ Len(P) \in 1..Len(P) /\ 1 \in 1..2 * n
            /\ j \in Len(P) + 1..Len(P) + 2 * n /\ j - Len(P) = 1
        BY <1>3, <1>6, <2>5, <3>2
      <4>1. /\ Q[j] = R[1] /\ Q[j - 1] = P[Len(P)] /\ n > 0 /\ Len(P) > 0
            /\ Len(P) \in 1..Len(P) /\ 1 \in 1..2 * n
        BY <1>6, <4>0
      <4>2. R[1].conn = proc.conn /\ R[1].part = "h" /\ R[1].rec = proc.sent + 1
        BY <1>4, <4>1
      <4>3. P[Len(P)].conn \in Nat /\ P[Len(P)].conn <= proc.conn
        BY <1>1, <4>1, ConnType DEF UpToDate
      <4>4. IF P[Len(P)].conn = proc.conn
            THEN P[Len(P)].part = "b" /\ P[Len(P)].rec = proc.sent
            ELSE proc.sent = 0
        BY <1>1, <4>1 DEF UpToDate
      <4> QED
        BY <1>3, <3>2, <4>1, <4>2, <4>3, <4>4 DEF Continues
    <3>3. CASE j > Len(P) + 1
      <4>1. PICK k \in 2..2 * n : j = Len(P) + k
        <5>1. j - Len(P) \in 2..2 * n /\ j = Len(P) + (j - Len(P))
          BY <1>3, <1>6, <2>5, <3>3
        <5> QED
          BY <5>1
      <4>2. /\ j \in Len(P) + 1..Len(P) + 2 * n /\ j - Len(P) = k
            /\ j - 1 \in Len(P) + 1..Len(P) + 2 * n /\ (j - 1) - Len(P) = k - 1
        <5>1. k \in 1..2 * n /\ k - 1 \in 1..2 * n /\ j - 1 = Len(P) + (k - 1)
          BY <1>3, <4>1
        <5> QED
          BY <1>3, <4>1, <5>1, Shift, ZenonT(30)
      <4>3. Q[j] = R[k] /\ Q[j - 1] = R[k - 1]
        <5>1. Q[j] = R[j - Len(P)] /\ Q[j - 1] = R[(j - 1) - Len(P)]
          BY <1>6, <4>2
        <5> QED
          BY <4>2, <5>1
      <4> QED
        BY <1>4, <4>1, <4>3
    <3> QED
      BY <1>3, <2>5, <3>1, <3>2, <3>3
  <2> QED
    BY <2>1, <2>3, <2>4, <2>5 DEF InOrder
<1>9. UpToDate(Q)'
  <2>1. ASSUME NEW j \in 1..Len(Q) PROVE Q[j].conn <= proc.conn
    <3>1. CASE j \in 1..Len(P)
      BY <1>1, <1>6, <3>1 DEF UpToDate
    <3>2. CASE ~(j \in 1..Len(P))
      <4>1. j - Len(P) \in 1..2 * n /\ j \in Len(P) + 1..Len(P) + 2 * n
        BY <1>3, <1>6, <2>1, <3>2
      <4>2. Q[j].conn = proc.conn
        <5>1. Q[j] = R[j - Len(P)]
          BY <1>6, <4>1
        <5> QED
          BY <1>4, <4>1, <5>1
      <4> QED
        BY <1>3, <4>2
    <3> QED
      BY <3>1, <3>2
  <2>2. CASE n = 0
    <3>1. Len(Q) = Len(P) /\ (Len(P) > 0 => Q[Len(P)] = P[Len(P)]) /\ proc'.sent = proc.sent
      BY <1>3, <1>5, <1>6, <2>2
    <3> QED
      BY <1>1, <1>5, <2>1, <3>1 DEF UpToDate
  <2>3. CASE n > 0
    <3>1. /\ 2 * n \in 1..2 * n /\ Len(Q) > 0
          /\ Len(Q) \in Len(P) + 1..Len(P) + 2 * n /\ Len(Q) - Len(P) = 2 * n
      BY <1>3, <1>6, <2>3
    <3>2. Q[Len(Q)] = R[2 * n]
      <4>1. Q[Len(Q)] = R[Len(Q) - Len(P)]
        BY <1>6, <3>1
      <4> QED
        BY <3>1, <4>1
    <3> QED
      BY <1>4, <1>5, <2>1, <2>3, <3>1, <3>2 DEF UpToDate
  <2> QED
    BY <2>2, <2>3
<1> QED
  BY <1>7, <1>8, <1>9 DEF TcpOrder


\* A piece arrives: the pieces are the same.
LEMMA ArriveOrder == TcpTypes /\ TcpOrder /\ Arrive => TcpOrder'
<1> SUFFICES ASSUME TcpTypes, TcpOrder, Arrive PROVE TcpOrder'
  OBVIOUS
<1>1. PICK P \in Seq(Piece) : Carries(P) /\ InOrder(P) /\ UpToDate(P)
  BY DEF TcpOrder
<1>2. /\ sock \in Seq(Piece) /\ net \in Seq(Piece) /\ net # <<>>
      /\ sock' = Append(sock, Head(net)) /\ net' = Tail(net)
      /\ UNCHANGED <<proc, deframer, learnt>>
  BY DEF Arrive, TcpTypes
<1>3. /\ Len(sock') = Len(sock) + 1 /\ Len(net') = Len(net) - 1 /\ Len(net) > 0
      /\ \A i \in 1..Len(sock) : sock'[i] = sock[i]
      /\ sock'[Len(sock) + 1] = net[1]
      /\ \A i \in 1..Len(net) - 1 : net'[i] = net[i + 1]
  BY <1>2
<1>4. Taken' = Taken
  BY <1>2 DEF Taken
<1>5. PICK m \in Nat : m = 2 * Taken + Len(deframer.buf)
  BY Lengths
<1>6. /\ Len(P) = m + Len(sock) + Len(net)
      /\ \A i \in 1..Len(sock) : P[m + i] = sock[i]
      /\ \A i \in 1..Len(net) : P[m + Len(sock) + i] = net[i]
  BY <1>1, <1>5 DEF Carries
<1>7. Len(P) = m + Len(sock') + Len(net')
  BY <1>3, <1>6, Lengths
<1>8. ASSUME NEW i \in 1..Len(sock') PROVE P[m + i] = sock'[i]
  <2>1. CASE i \in 1..Len(sock)
    BY <1>3, <1>6, <2>1
  <2>2. CASE i = Len(sock) + 1
    <3>1. 1 \in 1..Len(net) /\ m + i = m + Len(sock) + 1
      BY <1>3, <2>2, Lengths
    <3> QED
      BY <1>3, <1>6, <2>2, <3>1
  <2> QED
    BY <1>3, <1>8, <2>1, <2>2, Lengths
<1>9. ASSUME NEW i \in 1..Len(net') PROVE P[m + Len(sock') + i] = net'[i]
  <2>1. i \in 1..Len(net) - 1 /\ i + 1 \in 1..Len(net) /\ m + Len(sock') + i = m + Len(sock) + (i + 1)
    BY <1>3, <1>9, Lengths
  <2> QED
    BY <1>3, <1>6, <2>1
<1>10. Carries(P)'
  BY <1>1, <1>2, <1>4, <1>5, <1>7, <1>8, <1>9 DEF Carries
<1>11. InOrder(P)' /\ UpToDate(P)'
  BY <1>1, <1>2, <1>4 DEF InOrder, UpToDate
<1> QED
  BY <1>10, <1>11 DEF TcpOrder

\* A frame is taken out of the deframer: the pieces are the same.
LEMMA TakeFrameOrder == TcpTypes /\ TcpOrder /\ TakeFrame => TcpOrder'
<1> SUFFICES ASSUME TcpTypes, TcpOrder, TakeFrame PROVE TcpOrder'
  OBVIOUS
<1>1. PICK P \in Seq(Piece) : Carries(P) /\ InOrder(P) /\ UpToDate(P)
  BY DEF TcpOrder
<1>2. PICK f : f = deframer.frames
  OBVIOUS
<1>3. /\ f \in Seq(Frame) /\ f # <<>> /\ learnt \in Seq([step : Nat, frame : Frame])
      /\ UNCHANGED <<proc, sock, net>>
      /\ learnt' = Append(learnt, [step |-> step, frame |-> Head(f)])
      /\ deframer' = [deframer EXCEPT !.frames = Tail(f)]
  BY <1>2 DEF TakeFrame, TcpTypes, DeframerType
<1>4. deframer'.buf = deframer.buf /\ deframer'.frames = Tail(f)
  BY <1>3 DEF TcpTypes, DeframerType
<1>5. /\ Len(learnt) \in Nat /\ Len(f) \in Nat /\ Len(f) > 0
      /\ Len(learnt') = Len(learnt) + 1 /\ Len(deframer'.frames) = Len(f) - 1
      /\ \A i \in 1..Len(learnt) : learnt'[i] = learnt[i]
      /\ learnt'[Len(learnt) + 1].frame = f[1]
      /\ \A i \in 1..Len(f) - 1 : deframer'.frames[i] = f[i + 1]
  BY <1>3, <1>4
<1>6. Taken' = Taken
  <2>1. Taken' = Len(learnt') + Len(deframer'.frames) /\ Taken = Len(learnt) + Len(f)
    BY <1>2 DEF Taken
  <2> QED
    BY <1>5, <2>1
<1>7. /\ \A i \in 1..Len(learnt) : P[2 * i - 1] = learnt[i].frame[1] /\ P[2 * i] = learnt[i].frame[2]
      /\ \A i \in 1..Len(f) : P[2 * (Len(learnt) + i) - 1] = f[i][1] /\ P[2 * (Len(learnt) + i)] = f[i][2]
  BY <1>1, <1>2 DEF Carries
<1>8. ASSUME NEW i \in 1..Len(learnt')
      PROVE  P[2 * i - 1] = learnt'[i].frame[1] /\ P[2 * i] = learnt'[i].frame[2]
  <2>1. CASE i \in 1..Len(learnt)
    BY <1>5, <1>7, <2>1
  <2>2. CASE i = Len(learnt) + 1
    <3>1. 1 \in 1..Len(f)
      BY <1>5
    <3> QED
      BY <1>5, <1>7, <2>2, <3>1
  <2> QED
    BY <1>5, <1>8, <2>1, <2>2
<1>9. ASSUME NEW i \in 1..Len(deframer'.frames)
      PROVE  /\ P[2 * (Len(learnt') + i) - 1] = deframer'.frames[i][1]
             /\ P[2 * (Len(learnt') + i)] = deframer'.frames[i][2]
  <2>1. i \in 1..Len(f) - 1 /\ i + 1 \in 1..Len(f) /\ Len(learnt') + i = Len(learnt) + (i + 1)
    BY <1>5, <1>9
  <2> QED
    BY <1>5, <1>7, <2>1
<1>10. Carries(P)'
  BY <1>1, <1>3, <1>4, <1>6, <1>8, <1>9 DEF Carries
<1>11. InOrder(P)' /\ UpToDate(P)'
  BY <1>1, <1>3, <1>6 DEF InOrder, UpToDate
<1> QED
  BY <1>10, <1>11 DEF TcpOrder


\* What can be read goes through the deframer: the pieces are the same.
LEMMA ReadSomeOrder == TcpTypes /\ TcpOrder /\ ReadSome => TcpOrder'
<1> SUFFICES ASSUME TcpTypes, TcpOrder, ReadSome PROVE TcpOrder'
  OBVIOUS
<1>1. PICK P \in Seq(Piece) : Carries(P) /\ InOrder(P) /\ UpToDate(P)
  BY DEF TcpOrder
<1>2. PICK d : d = [deframer EXCEPT !.buf = deframer.buf \o sock]
  OBVIOUS
<1>3. deframer.buf \in Seq(Piece) /\ sock \in Seq(Piece) /\ deframer \in DeframerType /\ deframer.frames = <<>>
  BY DEF ReadSome, TcpTypes, DeframerType
<1>4. d \in DeframerType /\ d.buf = deframer.buf \o sock /\ d.frames = <<>>
  <2>1. deframer.buf \o sock \in Seq(Piece)
    BY <1>3
  <2> QED
    BY <1>2, <1>3, <2>1 DEF DeframerType
<1>5. deframer' = Deframe(d) /\ sock' = <<>> /\ UNCHANGED <<proc, net, learnt>>
  BY <1>2 DEF ReadSome
<1>6. PICK B : B = deframer.buf \o sock
  OBVIOUS
<1>7. PICK k \in Nat :
        /\ 2 * k <= Len(d.buf)
        /\ Deframe(d).buf = SubSeq(d.buf, 2 * k + 1, Len(d.buf))
        /\ Deframe(d).frames = d.frames \o [i \in 1..k |-> <<d.buf[2 * i - 1], d.buf[2 * i]>>]
        /\ \A i \in 1..k : d.buf[2 * i - 1].part = "h"
  BY <1>4, DeframeIs, Zenon
<1>8. /\ B \in Seq(Piece) /\ Len(B) = Len(deframer.buf) + Len(sock) /\ Len(B) \in Nat
      /\ \A i \in 1..Len(B) : B[i] = IF i <= Len(deframer.buf) THEN deframer.buf[i] ELSE sock[i - Len(deframer.buf)]
  BY <1>3, <1>6, ConcatProperties
<1>9. /\ 2 * k <= Len(B) /\ \A i \in 1..k : B[2 * i - 1].part = "h"
      /\ deframer'.buf = SubSeq(B, 2 * k + 1, Len(B))
  BY <1>4, <1>5, <1>6, <1>7
<1>10. Len(deframer'.frames) = k /\ \A i \in 1..k : deframer'.frames[i] = <<B[2 * i - 1], B[2 * i]>>
  <2>1. deframer'.frames = <<>> \o [i \in 1..k |-> <<B[2 * i - 1], B[2 * i]>>]
    BY <1>4, <1>5, <1>6, <1>7
  <2> QED
    BY <2>1
<1>11. Len(deframer'.buf) = Len(B) - 2 * k /\ \A i \in 1..Len(B) - 2 * k : deframer'.buf[i] = B[2 * k + i]
  <2>1. \A i \in 2 * k + 1..Len(B) : B[i] \in Piece
    BY <1>8
  <2>2. /\ Len(deframer'.buf) = IF 2 * k + 1 <= Len(B) THEN Len(B) - (2 * k + 1) + 1 ELSE 0
        /\ \A i \in 1..Len(B) - (2 * k + 1) + 1 : deframer'.buf[i] = B[2 * k + 1 + i - 1]
    BY <1>8, <1>9, <2>1, SubSeqProperties
  <2>3. Len(deframer'.buf) = Len(B) - 2 * k
    <3>1. \A x, y \in Nat : 2 * x <= y => (IF 2 * x + 1 <= y THEN y - (2 * x + 1) + 1 ELSE 0) = y - 2 * x
      OBVIOUS
    <3> QED
      BY <1>8, <1>9, <2>2, <3>1
  <2>4. ASSUME NEW i \in 1..Len(B) - 2 * k PROVE deframer'.buf[i] = B[2 * k + i]
    <3>1. i \in 1..Len(B) - (2 * k + 1) + 1 /\ 2 * k + 1 + i - 1 = 2 * k + i
      BY <1>8, <2>4
    <3> QED
      BY <2>2, <3>1
  <2> QED
    BY <2>3, <2>4
<1>12. PICK t \in Nat : t = Len(learnt)
  BY Lengths
<1>18. PICK b, s, n \in Nat : b = Len(deframer.buf) /\ s = Len(sock) /\ n = Len(net)
  BY Lengths
<1>19. Len(B) = b + s
  BY <1>8, <1>18
<1>20. Len(deframer'.buf) = (b + s) - 2 * k /\ 2 * k <= b + s /\ Len(sock') = 0 /\ net' = net /\ Len(net') = n
  BY <1>5, <1>9, <1>11, <1>18, <1>19
<1>13. Taken = t /\ Taken' = t + k
  BY <1>3, <1>5, <1>10, <1>12 DEF Taken
<1>14. /\ Len(P) = 2 * t + Len(B) + Len(net)
       /\ \A i \in 1..Len(B) : P[2 * t + i] = B[i]
       /\ \A i \in 1..Len(net) : P[2 * t + Len(B) + i] = net[i]
  <2>1. Len(P) = 2 * t + b + s + n
    BY <1>1, <1>13, <1>18 DEF Carries
  <2>4. Len(P) = 2 * t + Len(B) + Len(net)
    <3>1. 2 * t + b + s + n = 2 * t + (b + s) + n
      OBVIOUS
    <3> QED
      BY <1>18, <1>19, <2>1, <3>1, Zenon
  <2>2. ASSUME NEW i \in 1..Len(B) PROVE P[2 * t + i] = B[i]
    <3>1. CASE i <= Len(deframer.buf)
      <4>1. i \in 1..Len(deframer.buf)
        BY <1>18, <1>19, <2>2, <3>1
      <4> QED
        BY <1>1, <1>8, <1>13, <3>1, <4>1 DEF Carries
    <3>2. CASE ~(i <= Len(deframer.buf))
      <4>1. /\ i - Len(deframer.buf) \in 1..Len(sock)
            /\ 2 * t + Len(deframer.buf) + (i - Len(deframer.buf)) = 2 * t + i
        <5>1. \A x \in 1..b + s : x > b => x - b \in 1..s /\ 2 * t + b + (x - b) = 2 * t + x
          OBVIOUS
        <5>2. i \in 1..b + s /\ i > b
          BY <1>18, <1>19, <2>2, <3>2
        <5> QED
          BY <1>18, <5>1, <5>2
      <4>2. P[2 * t + Len(deframer.buf) + (i - Len(deframer.buf))] = sock[i - Len(deframer.buf)]
        BY <1>1, <1>13, <4>1 DEF Carries
      <4> QED
        BY <1>8, <3>2, <4>1, <4>2
    <3> QED
      BY <3>1, <3>2
  <2>3. ASSUME NEW i \in 1..Len(net) PROVE P[2 * t + Len(B) + i] = net[i]
    <3>1. 2 * t + Len(B) + i = 2 * t + Len(deframer.buf) + Len(sock) + i
      <4>1. \A x \in Nat : 2 * t + (b + s) + x = 2 * t + b + s + x
        OBVIOUS
      <4>2. i \in Nat
        BY <1>18, <2>3
      <4> QED
        BY <1>18, <1>19, <4>1, <4>2, Zenon
    <3> QED
      BY <1>1, <1>13, <3>1 DEF Carries
  <2> QED
    BY <2>2, <2>3, <2>4
<1>15. Carries(P)'
  <2>1. Len(P) = 2 * (t + k) + Len(deframer'.buf) + Len(sock') + Len(net')
    <3>1. 2 * t + (b + s) + n = 2 * (t + k) + ((b + s) - 2 * k) + 0 + n
      OBVIOUS
    <3> QED
      BY <1>14, <1>18, <1>19, <1>20, <3>1, Zenon
  <2>2. \A i \in 1..Len(learnt') : P[2 * i - 1] = learnt'[i].frame[1] /\ P[2 * i] = learnt'[i].frame[2]
    BY <1>1, <1>5 DEF Carries
  <2>3. ASSUME NEW i \in 1..k PROVE P[2 * (t + i) - 1] = B[2 * i - 1] /\ P[2 * (t + i)] = B[2 * i]
    <3>1. /\ 2 * i - 1 \in 1..Len(B) /\ 2 * i \in 1..Len(B)
          /\ 2 * (t + i) - 1 = 2 * t + (2 * i - 1) /\ 2 * (t + i) = 2 * t + 2 * i
      BY <1>8, <1>9, <2>3
    <3> QED
      BY <1>14, <3>1
  <2>4. ASSUME NEW i \in 1..Len(deframer'.buf) PROVE P[2 * (t + k) + i] = deframer'.buf[i]
    <3>1. i \in 1..Len(B) - 2 * k /\ 2 * k + i \in 1..Len(B) /\ 2 * (t + k) + i = 2 * t + (2 * k + i)
      BY <1>19, <1>20, <2>4
    <3> QED
      BY <1>11, <1>14, <3>1
  <2>5. ASSUME NEW i \in 1..Len(net') PROVE P[2 * (t + k) + Len(deframer'.buf) + Len(sock') + i] = net'[i]
    <3>1. Len(sock') = 0 /\ net' = net
      BY <1>5
    <3>2. 2 * (t + k) + Len(deframer'.buf) + Len(sock') + i = 2 * t + Len(B) + i
      <4>1. \A x \in Nat : 2 * (t + k) + ((b + s) - 2 * k) + 0 + x = 2 * t + (b + s) + x
        OBVIOUS
      <4>2. i \in Nat
        BY <1>18, <1>20, <2>5
      <4> QED
        BY <1>19, <1>20, <4>1, <4>2, Zenon
    <3> QED
      BY <1>14, <2>5, <3>1, <3>2
  <2>6. ASSUME NEW i \in 1..Len(deframer'.frames)
        PROVE  /\ P[2 * (Len(learnt') + i) - 1] = deframer'.frames[i][1]
               /\ P[2 * (Len(learnt') + i)] = deframer'.frames[i][2]
    BY <1>5, <1>10, <1>12, <2>3, <2>6, SMTT(30)
  <2>7. \A i \in 1..Len(sock') : P[2 * (t + k) + Len(deframer'.buf) + i] = sock'[i]
    BY <1>20
  <2> QED
    BY <1>13, <2>1, <2>2, <2>4, <2>5, <2>6, <2>7 DEF Carries
<1>16. ASSUME NEW i \in 1..t + k PROVE P[2 * i - 1].part = "h"
  <2>1. CASE i \in 1..t
    BY <1>1, <1>13, <2>1 DEF InOrder
  <2>2. CASE ~(i \in 1..t)
    <3>1. /\ i - t \in 1..k /\ 2 * (i - t) - 1 \in 1..Len(B)
          /\ 2 * i - 1 = 2 * t + (2 * (i - t) - 1)
      BY <1>8, <1>9, <1>16, <2>2
    <3>2. P[2 * i - 1] = B[2 * (i - t) - 1]
      BY <1>14, <3>1
    <3> QED
      BY <1>9, <3>1, <3>2
  <2> QED
    BY <2>1, <2>2
<1>17. InOrder(P)' /\ UpToDate(P)'
  BY <1>1, <1>5, <1>13, <1>16 DEF InOrder, UpToDate
<1> QED
  BY <1>15, <1>17 DEF TcpOrder

\* What happens to the process is one of four things, in each of the steps that
\* leave the data alone.
LEMMA SameDataSteps ==
    ASSUME TcpControl, TcpControl', TcpOrder,
           \/ new_stream \/ ProcListens \/ ServerReady \/ AcceptThreadBinds \/ ProcConnects \/ ProcExits
           \/ receive_stream_fails \/ add_to_inbound \/ output \/ ReadTimeout \/ ReadEof \/ shutdown
           \/ reset \/ (new_stream_again /\ ~Listening)
    PROVE  TcpOrder'
<1>1. TcpTypes /\ Together /\ proc \in ProcType /\ proc' \in ProcType
  BY DEF TcpControl, TcpTypes
<1>2. proc.conn \in Nat /\ proc.sent \in Nat
  BY <1>1 DEF ProcType
<1>3. UNCHANGED <<net, sock, deframer, learnt>>
  BY DEF new_stream, ProcListens, ServerReady, AcceptThreadBinds, ProcConnects, ProcExits, receive_stream_fails,
         add_to_inbound, output, ReadTimeout, ReadEof, EndOfStep, shutdown, reset, new_stream_again
<1> DEFINE Fits == \/ proc'.st = proc.st /\ proc'.conn = proc.conn /\ proc'.sent = proc.sent
                   \/ proc'.st # "connected" /\ proc'.conn = proc.conn
                   \/ proc'.conn > proc.conn /\ proc'.sent = 0
<1>4. Fits
  <2>1. CASE UNCHANGED proc
    BY <2>1
  <2>2. CASE \E s \in {"dead", "listening"} : proc' = [proc EXCEPT !.st = s]
    BY <1>1, <2>2 DEF ProcType
  <2>3. CASE new_stream
    <3>1. proc.st \in {"starting", "listening"} /\ proc.sent = 0
      BY <1>1, <2>3 DEF new_stream, Together
    <3>2. CASE Listening
      <4>1. proc' = [proc EXCEPT !.st = "connected", !.conn = proc.conn + 1]
        BY <2>3, <3>2 DEF new_stream
      <4>2. proc'.conn = proc.conn + 1 /\ proc'.sent = proc.sent
        BY <1>1, <4>1 DEF ProcType
      <4> QED
        BY <1>2, <3>1, <4>2
    <3>3. CASE ~Listening
      <4>1. proc' = [proc EXCEPT !.age = proc.age + 1] \/ proc' = [proc EXCEPT !.st = "dead"]
        BY <2>3, <3>3 DEF new_stream, new_stream_fails, TLSProcess_drop
      <4>2. proc' = [proc EXCEPT !.age = proc.age + 1] => Fits
        BY <1>1 DEF ProcType
      <4> QED
        BY <2>2, <4>1, <4>2
    <3> QED
      BY <3>2, <3>3
  <2>4. CASE ProcConnects
    <3>1. proc.conn = 0 /\ proc.sent = 0
      BY <1>1, <2>4 DEF ProcConnects, Together
    <3>2. proc' = [proc EXCEPT !.st = "connected", !.conn = 1] \/ proc' = [proc EXCEPT !.st = "dead"]
      BY <2>4 DEF ProcConnects
    <3>3. proc' = [proc EXCEPT !.st = "connected", !.conn = 1] => proc'.conn = 1 /\ proc'.sent = proc.sent
      BY <1>1 DEF ProcType
    <3> QED
      BY <2>2, <3>1, <3>2, <3>3
  <2>5. \/ UNCHANGED proc \/ (\E s \in {"dead", "listening"} : proc' = [proc EXCEPT !.st = s])
        \/ new_stream \/ ProcConnects
    BY DEF ProcListens, ServerReady, AcceptThreadBinds, ProcExits, receive_stream_fails, add_to_inbound, output,
           ReadTimeout, ReadEof, EndOfStep, shutdown, reset, new_stream_again, new_stream_fails, TLSProcess_drop
  <2> QED
    BY <2>1, <2>2, <2>3, <2>4, <2>5
<1> QED
  BY <1>1, <1>3, <1>4, SameData

\* The steps that lose what was carried.
LEMMA DroppedDataSteps ==
    ASSUME TcpControl, TcpControl', TcpOrder, ReadError \/ (new_stream_again /\ Listening)
    PROVE  TcpOrder'
<1>1. TcpTypes /\ proc \in ProcType /\ proc' \in ProcType
  BY DEF TcpControl, TcpTypes
<1>2. UNCHANGED <<deframer, learnt>> /\ net' = <<>> /\ sock' = <<>>
  BY DEF ReadError, new_stream_again
<1>3. \/ proc' = [proc EXCEPT !.st = "dead"]
      \/ proc' = [proc EXCEPT !.conn = proc.conn + 1, !.sent = 0]
  BY DEF ReadError, new_stream_again, TLSProcess_drop
<1>4. \/ proc'.st = "dead" /\ proc'.conn = proc.conn
      \/ proc'.conn = proc.conn + 1 /\ proc'.sent = 0
  BY <1>1, <1>3 DEF ProcType
<1>5. proc.conn \in Nat
  BY <1>1 DEF ProcType
<1> QED
  BY <1>1, <1>2, <1>4, <1>5, DroppedData

\* What was learnt, framed, buffered and sent is one sequence of pieces.
LEMMA TcpOrderInvariant == TcpSpec => []TcpOrder
<1>1. TcpInit => TcpOrder
  <2> SUFFICES ASSUME TcpInit PROVE TcpOrder
    OBVIOUS
  <2>1. Taken = 0 /\ <<>> \in Seq(Piece)
    BY DEF TcpInit, Taken, EmptyDeframer
  <2>2. Carries(<<>>)
    BY <2>1 DEF TcpInit, Carries, EmptyDeframer
  <2>3. InOrder(<<>>) /\ UpToDate(<<>>)
    BY <2>1 DEF TcpInit, InOrder, UpToDate
  <2> QED
    BY <2>1, <2>2, <2>3 DEF TcpOrder
<1>2. TcpControl /\ TcpControl' /\ TcpOrder /\ [TcpNext]_tcpVars => TcpOrder'
  <2> SUFFICES ASSUME TcpControl, TcpControl', TcpOrder, [TcpNext]_tcpVars PROVE TcpOrder'
    OBVIOUS
  <2>1. TcpTypes
    BY DEF TcpControl
  <2>2. CASE UNCHANGED tcpVars
    BY <2>2 DEF tcpVars, TcpOrder, Carries, InOrder, UpToDate, Taken
  <2>3. CASE ProcAnswers
    <3>1. PICK n \in 0..AnswerCount : /\ net' = net \o RecordPieces(proc.sent, n)
                                     /\ proc' = [proc EXCEPT !.sent = proc.sent + n]
      BY <2>3 DEF ProcAnswers
    <3>2. n \in Nat
      BY TcpPutAssumption
    <3> QED
      BY <2>1, <2>3, <3>1, <3>2, SentData DEF ProcAnswers
  <2>4. CASE ProcSpeaksFirst
    <3>1. /\ net' = net \o RecordPieces(proc.sent, 1)
          /\ proc' = [proc EXCEPT !.sent = proc.sent + 1]
      BY <2>4 DEF ProcSpeaksFirst
    <3> QED
      BY <2>1, <2>4, <3>1, SentData DEF ProcSpeaksFirst
  <2>5. CASE ReadError \/ (new_stream_again /\ Listening)
    BY <2>5, DroppedDataSteps
  <2>6. CASE \/ new_stream \/ ProcListens \/ ServerReady \/ AcceptThreadBinds \/ ProcConnects \/ ProcExits
             \/ receive_stream_fails \/ add_to_inbound \/ output \/ ReadTimeout \/ ReadEof \/ shutdown
             \/ reset \/ (new_stream_again /\ ~Listening)
    BY <2>6, SameDataSteps
  <2>7. CASE Arrive \/ TakeFrame \/ ReadSome
    BY <2>1, <2>7, ArriveOrder, TakeFrameOrder, ReadSomeOrder
  <2>8. CASE new_stream_again
    BY <2>5, <2>6, <2>8
  <2>9. CASE TcpPutNext
    BY <2>5, <2>6, <2>7, <2>8, <2>9, Zenon DEF TcpPutNext
  <2> QED
    BY <2>2, <2>3, <2>4, <2>6, <2>7, <2>9, Zenon DEF TcpNext
<1> QED
  BY <1>1, <1>2, TcpControlInvariant, PTL DEF TcpSpec

\* take_message_from_outbound of the TCP PUTs: the frames learnt are the records
\* of the process, whole, in order and without a gap on each connection, for
\* every trace, every cut of the records and every order of arrival and timeout.
THEOREM AnswersInOrder == TcpSpec => []TcpAnswersInOrder
<1>1. TcpTypes /\ TcpOrder => TcpAnswersInOrder
  <2> SUFFICES ASSUME TcpTypes, TcpOrder, NEW i \in DOMAIN learnt
               PROVE  /\ learnt[i].frame[1].part = "h"
                      /\ Continues(learnt[i].frame[1], learnt[i].frame[2])
                      /\ IF i = 1 THEN learnt[i].frame[1].rec = 1
                                  ELSE Continues(learnt[i - 1].frame[2], learnt[i].frame[1])
    BY DEF TcpAnswersInOrder
  <2>1. PICK P \in Seq(Piece) : Carries(P) /\ InOrder(P)
    BY DEF TcpOrder
  <2>2. PICK l, f, r \in Nat : /\ l = Len(learnt) /\ f = Len(deframer.frames)
                               /\ r = Len(deframer.buf) + Len(sock) + Len(net)
    BY Lengths
  <2>3. Taken = l + f /\ Len(P) = 2 * (l + f) + r
    <3>1. Taken = l + f
      BY <2>2 DEF Taken
    <3>2. Len(P) = 2 * (l + f) + Len(deframer.buf) + Len(sock) + Len(net)
      BY <2>1, <3>1 DEF Carries
    <3>3. PICK x, y, z \in Nat : x = Len(deframer.buf) /\ y = Len(sock) /\ z = Len(net)
      BY Lengths
    <3>4. 2 * (l + f) + x + y + z = 2 * (l + f) + (x + y + z)
      OBVIOUS
    <3>5. r = x + y + z
      BY <2>2, <3>3, Zenon
    <3> QED
      BY <3>1, <3>2, <3>3, <3>4, <3>5, Zenon
  <2>4. i \in 1..l /\ i \in Nat
    BY <2>2 DEF TcpTypes
  <2>5. /\ 2 * i \in 2..2 * (l + f) + r /\ i \in 1..l + f /\ 2 * (l + f) + r > 0
        /\ i # 1 => 2 * i - 1 \in 2..2 * (l + f) + r /\ i - 1 \in 1..l /\ (2 * i - 1) - 1 = 2 * (i - 1)
    BY <2>4
  <2>6. P[2 * i - 1] = learnt[i].frame[1] /\ P[2 * i] = learnt[i].frame[2]
    BY <2>1, <2>2, <2>4 DEF Carries
  <2>7. P[2 * i - 1].part = "h" /\ Continues(P[2 * i - 1], P[2 * i])
    BY <2>1, <2>3, <2>5 DEF InOrder
  <2>8. CASE i = 1
    <3>1. 2 * i - 1 = 1
      BY <2>8
    <3> QED
      BY <2>1, <2>3, <2>5, <2>6, <2>7, <2>8, <3>1 DEF InOrder
  <2>9. CASE i # 1
    <3>1. P[2 * (i - 1)] = learnt[i - 1].frame[2]
      BY <2>1, <2>2, <2>5, <2>9 DEF Carries
    <3>2. Continues(P[(2 * i - 1) - 1], P[2 * i - 1])
      BY <2>1, <2>3, <2>5, <2>9 DEF InOrder
    <3> QED
      BY <2>5, <2>6, <2>7, <2>9, <3>1, <3>2
  <2> QED
    BY <2>8, <2>9
<1>2. TcpControl => TcpTypes
  BY DEF TcpControl
<1> QED
  BY <1>1, <1>2, TcpControlInvariant, TcpOrderInvariant, PTL

==============================================================================
