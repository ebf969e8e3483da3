---------------------------- MODULE MemoryStream ----------------------------
(***************************************************************************)
(* The byte channels of an agent (puffin/src/stream.rs) with the TLS       *)
(* deframer that cuts the outbound bytes into messages                     *)
(* (tlspuffin/src/tls/rustls/msgs/deframer.rs).                            *)
(*                                                                         *)
(* The fuzzer adds encoded messages to `inbound`; the program under test   *)
(* (PUT) reads them and writes its own messages, in chunks of any size, to *)
(* `outbound`; the fuzzer takes whole messages out again.  Everything runs *)
(* on one thread: `pc` says where inside take_message_from_outbound        *)
(* control is, and no other operation runs while it is not Idle.  "none"   *)
(* is "idle" after a call that returned None with nothing written since.   *)
(*                                                                         *)
(* Bytes are abstract.  A message is known by its encoding Wire[m], and    *)
(* HeaderOf tells what OpaqueMessage::read sees in HeaderSize bytes,       *)
(* whether or not a message really begins there.                           *)
(***************************************************************************)
EXTENDS Integers, Sequences

CONSTANTS
    Byte,          \* the values of a byte
    Msgs,          \* the messages the fuzzer injects and the PUT emits
    Wire,          \* Wire[m]: the encoding of message m
    HeaderSize,    \* OpaqueMessage::HEADER_SIZE
    MaxPayload,    \* OpaqueMessage::MAX_PAYLOAD
    Zero,          \* the byte with which a Cursor fills a gap
    HeaderOf(_),   \* the header decoded from HeaderSize bytes
    MaxInjected,   \* bound: bytes ever injected
    MaxSent        \* bound: messages the PUT ever emits

(* typ, version and len as OpaqueMessage::read decodes them; only what its *)
(* checks tell apart is kept of the first two.                             *)
Header == [typ : {"ApplicationData", "Other", "Unknown"},
           tlsVersion : BOOLEAN,
           len : Nat]

MAX_WIRE_SIZE == MaxPayload + HeaderSize

ASSUME StreamAssumption ==
    /\ HeaderSize \in Nat \ {0}
    /\ MaxPayload \in Nat \ {0}
    /\ MaxInjected \in Nat /\ MaxSent \in Nat
    /\ Zero \in Byte
    /\ Wire \in [Msgs -> Seq(Byte)]

(* Decoding is total on HeaderSize bytes, and reads back from an encoded   *)
(* message the length that was encoded.                                    *)
ASSUME CodecAssumption ==
    /\ \A b \in [1..HeaderSize -> Byte] : HeaderOf(b) \in Header
    /\ \A m \in Msgs :
          /\ Len(Wire[m]) >= HeaderSize
          /\ HeaderSize + HeaderOf(SubSeq(Wire[m], 1, HeaderSize)).len = Len(Wire[m])

VARIABLES
    inbound,   \* Channel: bytes for the PUT
    inPos,     \* its cursor
    outbound,  \* Channel: bytes the PUT wrote
    outPos,    \* its cursor
    buf,       \* MessageDeframer.buf[..used]
    frames,    \* MessageDeframer.frames
    desynced,  \* MessageDeframer.desynced
    pc,        \* where take_message_from_outbound is
    newBytes,  \* the value `v` its last deframer.read returned
    pending    \* external: what the PUT has yet to write of its message

(* History variables: they record what crossed the interfaces and no       *)
(* action's guard or effect on the state above reads them.                 *)
VARIABLES
    injected,  \* bytes ever added to inbound
    delivered, \* bytes the PUT ever read
    sent,      \* messages the PUT ever began to write
    written,   \* bytes the PUT ever wrote
    consumed,  \* bytes that left buf as frames
    taken,     \* frames ever handed to the fuzzer
    peak       \* the most bytes that waited in buf and outbound together

channels == <<inbound, inPos, outbound, outPos>>
deframer == <<buf, frames, desynced>>
history  == <<injected, delivered, sent, written, consumed, taken, peak>>
vars     == <<channels, deframer, pc, newBytes, pending, history>>

Init ==
    /\ inbound = <<>> /\ inPos = 0
    /\ outbound = <<>> /\ outPos = 0
    /\ buf = <<>> /\ frames = <<>> /\ desynced = FALSE
    /\ pc = "idle" /\ newBytes = 0
    /\ pending = <<>>
    /\ injected = <<>> /\ delivered = <<>>
    /\ sent = <<>> /\ written = <<>>
    /\ consumed = <<>> /\ taken = <<>> /\ peak = 0

Idle == pc \in {"idle", "none"}

Max2(a, b) == IF a >= b THEN a ELSE b
Min2(a, b) == IF a <= b THEN a ELSE b

(* Write for io::Cursor<Vec<u8>>: overwrite from the cursor on, filling    *)
(* with zeros a gap between the end of the vector and the cursor.          *)
CursorWrite(v, pos, b) ==
    [i \in 1..Max2(Len(v), pos + Len(b)) |->
        IF i \in (pos + 1)..(pos + Len(b)) THEN b[i - pos]
        ELSE IF i <= Len(v) THEN v[i] ELSE Zero]

-----------------------------------------------------------------------------
(* Inbound: the fuzzer appends an encoded message at the end of the vector *)
(* (not at the cursor); the PUT reads from the cursor.                     *)

add_to_inbound(m) ==
    /\ Idle
    /\ Len(injected) + Len(Wire[m]) <= MaxInjected
    /\ inbound' = inbound \o Wire[m]
    /\ injected' = injected \o Wire[m]
    /\ UNCHANGED <<inPos, outbound, outPos, deframer, pc, newBytes,
                   pending, delivered, sent, written, consumed, taken, peak>>

(* Mutant: the vector is cleared but the cursor stays.                     *)
read_CursorKept(n) ==
    LET got == SubSeq(inbound, inPos + 1, Min2(inPos + n, Len(inbound)))
        pos == inPos + Len(got)
    IN  /\ Idle /\ got # <<>>
        /\ inbound' = IF pos = Len(inbound) THEN <<>> ELSE inbound
        /\ inPos' = pos
        /\ delivered' = delivered \o got
        /\ UNCHANGED <<outbound, outPos, deframer, pc, newBytes, pending,
                       injected, sent, written, consumed, taken, peak>>

(* Read with a buffer of n bytes; n = 0 or an empty channel gives          *)
(* WouldBlock and leaves the channel as it is.                             *)
read(n) ==
    LET got == SubSeq(inbound, inPos + 1, Min2(inPos + n, Len(inbound)))
        pos == inPos + Len(got)
    IN  /\ Idle
        /\ got # <<>>
        /\ IF pos = Len(inbound)
           THEN inbound' = <<>> /\ inPos' = 0
           ELSE inbound' = inbound /\ inPos' = pos
        /\ delivered' = delivered \o got
        /\ UNCHANGED <<outbound, outPos, deframer, pc, newBytes,
                       pending, injected, sent, written, consumed, taken, peak>>

-----------------------------------------------------------------------------
(* Outbound: the PUT writes a message in one or two chunks.                *)

write(b) ==
    /\ outbound' = CursorWrite(outbound, outPos, b)
    /\ outPos' = outPos + Len(b)
    /\ written' = written \o b
    /\ peak' = Max2(peak, Len(buf) + Len(outbound'))

WriteBegin(m, k) ==
    /\ Idle /\ pending = <<>>
    /\ Len(sent) < MaxSent
    /\ k \in 1..Len(Wire[m])
    /\ write(SubSeq(Wire[m], 1, k))
    /\ pending' = SubSeq(Wire[m], k + 1, Len(Wire[m]))
    /\ sent' = Append(sent, m)
    /\ pc' = "idle"
    /\ UNCHANGED <<inbound, inPos, deframer, newBytes, injected, delivered,
                   consumed, taken>>

WriteRest ==
    /\ Idle /\ pending # <<>>
    /\ write(pending)
    /\ pending' = <<>>
    /\ pc' = "idle"
    /\ UNCHANGED <<inbound, inPos, deframer, newBytes, injected, delivered, sent,
                   consumed, taken>>

-----------------------------------------------------------------------------
(* take_message_from_outbound.  "loop" is the head of its loop, "deframe"  *)
(* the loop inside MessageDeframer::read.                                  *)

Take ==
    /\ Idle
    /\ pc' = "loop" /\ newBytes' = 0
    /\ UNCHANGED <<channels, deframer, pending, history>>

(* Mutant: frames.pop_back.                                                *)
PopFrame_Back ==
    /\ pc = "loop" /\ frames # <<>>
    /\ frames' = SubSeq(frames, 1, Len(frames) - 1)
    /\ taken' = Append(taken, frames[Len(frames)])
    /\ pc' = "idle"
    /\ UNCHANGED <<channels, buf, desynced, newBytes, pending, injected,
                   delivered, sent, written, consumed, peak>>

(* A frame is ready: return it, decoded or not.                            *)
PopFrame ==
    /\ pc = "loop" /\ frames # <<>>
    /\ frames' = Tail(frames)
    /\ taken' = Append(taken, Head(frames))
    /\ pc' = "idle"
    /\ UNCHANGED <<channels, buf, desynced, newBytes, pending, injected,
                   delivered, sent, written, consumed, peak>>

(* Mutant: the size of the array is not respected.                         *)
DeframerRead_Unbounded ==
    /\ pc = "loop" /\ frames = <<>>
    /\ buf' = buf \o outbound /\ newBytes' = Len(outbound)
    /\ outbound' = <<>> /\ outPos' = 0
    /\ pc' = "deframe"
    /\ UNCHANGED <<inbound, inPos, frames, desynced, pending, history>>

(* Mutant: outbound is not cleared after it was read.                      *)
DeframerRead_NotCleared ==
    /\ pc = "loop" /\ frames = <<>>
    /\ LET n == Min2(Len(outbound), MAX_WIRE_SIZE - Len(buf))
       IN  buf' = buf \o SubSeq(outbound, 1, n) /\ newBytes' = n
    /\ pc' = "deframe"
    /\ UNCHANGED <<channels, frames, desynced, pending, history>>

(* No frame is ready: copy as much of outbound as buf has room for, and    *)
(* clear ALL of outbound.  Reading from a slice never fails.  The code     *)
(* clears after the deframing loop; nothing looks at outbound in between.  *)
DeframerRead ==
    /\ pc = "loop" /\ frames = <<>>
    /\ LET n == Min2(Len(outbound), MAX_WIRE_SIZE - Len(buf))
       IN  /\ buf' = buf \o SubSeq(outbound, 1, n)
           /\ newBytes' = n
    /\ outbound' = <<>> /\ outPos' = 0
    /\ pc' = "deframe"
    /\ UNCHANGED <<inbound, inPos, frames, desynced, pending, history>>

TooShortForHeader(b) == Len(b) < HeaderSize

HeaderIn(b) == HeaderOf(SubSeq(b, 1, HeaderSize))

(* Mutant: the check for oversize messages is missing.                     *)
Rejected_AnyLength(h) ==
    \/ h.typ # "ApplicationData" /\ h.len = 0
    \/ h.typ = "Unknown"
    \/ ~h.tlsVersion

(* The checks of OpaqueMessage::read on a complete header.                 *)
Rejected(h) ==
    \/ h.typ # "ApplicationData" /\ h.len = 0
    \/ h.len >= MaxPayload
    \/ h.typ = "Unknown"
    \/ ~h.tlsVersion

Invalid(b) == ~TooShortForHeader(b) /\ Rejected(HeaderIn(b))

FrameLen(b) == HeaderSize + HeaderIn(b).len

Valid(b) ==
    /\ ~TooShortForHeader(b)
    /\ ~Rejected(HeaderIn(b))
    /\ FrameLen(b) <= Len(b)

(* BufferContents::Valid: the frame goes to the queue, the rest moves to   *)
(* the front of buf (buf_consume), and the loop continues.                 *)
DeframeValid ==
    /\ pc = "deframe" /\ Valid(buf)
    /\ frames' = Append(frames, SubSeq(buf, 1, FrameLen(buf)))
    /\ buf' = SubSeq(buf, FrameLen(buf) + 1, Len(buf))
    /\ consumed' = consumed \o SubSeq(buf, 1, FrameLen(buf))
    /\ UNCHANGED <<channels, desynced, pc, newBytes, pending,
                   injected, delivered, sent, written, taken, peak>>

(* Mutant: one read per call.                                              *)
DeframeStop_NoRetry ==
    /\ pc = "deframe" /\ ~Valid(buf)
    /\ desynced' = (desynced \/ Invalid(buf))
    /\ pc' = "none"
    /\ UNCHANGED <<channels, buf, frames, newBytes, pending, history>>

(* Mutant: a read of zero bytes is retried.                                *)
DeframeStop_AlwaysRetry ==
    /\ pc = "deframe" /\ ~Valid(buf)
    /\ desynced' = (desynced \/ Invalid(buf))
    /\ pc' = "loop"
    /\ UNCHANGED <<channels, buf, frames, newBytes, pending, history>>

(* Mutant: an invalid header is dropped and deframing goes on.             *)
DeframeStop_Resync ==
    /\ pc = "deframe" /\ ~Valid(buf)
    /\ desynced' = (desynced \/ Invalid(buf))
    /\ buf' = IF Invalid(buf) THEN <<>> ELSE buf
    /\ pc' = IF newBytes = 0 THEN "none" ELSE "loop"
    /\ UNCHANGED <<channels, frames, newBytes, pending, history>>

(* BufferContents::Partial or Invalid: the read is over.  The caller       *)
(* returns None when it brought no new bytes, else it loops.               *)
DeframeStop ==
    /\ pc = "deframe" /\ ~Valid(buf)
    /\ desynced' = (desynced \/ Invalid(buf))
    /\ pc' = IF newBytes = 0 THEN "none" ELSE "loop"
    /\ UNCHANGED <<channels, buf, frames, newBytes, pending, history>>

-----------------------------------------------------------------------------
TakeStep == PopFrame \/ DeframerRead \/ DeframeValid \/ DeframeStop

Next ==
    \/ \E m \in Msgs : add_to_inbound(m)
    \/ \E n \in 1..MAX_WIRE_SIZE : read(n)
    \/ \E m \in Msgs, k \in 1..MAX_WIRE_SIZE : WriteBegin(m, k)
    \/ WriteRest
    \/ Take
    \/ TakeStep

Spec == Init /\ [][Next]_vars

(* A call that began runs on: it is ordinary sequential code.              *)
FairSpec == Spec /\ WF_vars(TakeStep)

-----------------------------------------------------------------------------
(* Type invariant; the bounds say that buf never outgrows the fixed array  *)
(* behind it (the debug_assert of MessageDeframer::read) and that cursors  *)
(* stay within their vectors.                                              *)
TypeOK ==
    /\ inbound \in Seq(Byte) /\ inPos \in 0..Len(inbound)
    /\ outbound \in Seq(Byte) /\ outPos \in 0..Len(outbound)
    /\ buf \in Seq(Byte) /\ Len(buf) <= MAX_WIRE_SIZE
    /\ frames \in Seq(Seq(Byte)) /\ desynced \in BOOLEAN
    /\ pc \in {"idle", "none", "loop", "deframe"} /\ newBytes \in Nat
    /\ pending \in Seq(Byte)
    /\ injected \in Seq(Byte) /\ delivered \in Seq(Byte)
    /\ sent \in Seq(Msgs) /\ written \in Seq(Byte)
    /\ consumed \in Seq(Byte) /\ taken \in Seq(Seq(Byte)) /\ peak \in Nat

(* The PUT reads exactly the injected bytes, in order and without a gap,   *)
(* although add_to_inbound appends behind the cursor's back and read       *)
(* empties the vector whenever the cursor reaches its end.                 *)
InboundFifo ==
    delivered \o SubSeq(inbound, inPos + 1, Len(inbound)) = injected

(* As long as the bytes waiting between two drains fit the deframer's      *)
(* array, every byte the PUT wrote is in a frame, in buf or in outbound,   *)
(* in the order written: nothing is lost, repeated or reordered.           *)
OutboundConserved ==
    peak <= MAX_WIRE_SIZE => consumed \o buf \o outbound = written

(* None means drained: when take_message_from_outbound answered None, no   *)
(* byte waits in outbound and no complete frame waits anywhere.            *)
NoneMeansDrained ==
    pc = "none" => outbound = <<>> /\ frames = <<>> /\ ~Valid(buf)

(* The deframer jams (a full buf, so that every later read brings zero     *)
(* bytes) only if it met an invalid header: a message still incomplete     *)
(* always leaves room for more.                                            *)
JamsOnlyDesynced ==
    (Idle /\ Len(buf) = MAX_WIRE_SIZE) => desynced

(* "The deframer cannot recover": after an invalid header no frame is ever *)
(* produced again, for the rest of the stream's life.                      *)
DesyncIsFinal ==
    [][desynced => consumed' = consumed /\ desynced']_vars

(* Every call of take_message_from_outbound returns.                       *)
TakeReturns == (pc = "loop") ~> Idle

(* The documentation of TraceContext: the streams "contain the messages    *)
(* which have need exchanged and are not yet processed by an output step". *)
(* Unconditional form of OutboundConserved.                                *)
UnprocessedOutputIsKept == consumed \o buf \o outbound = written
=============================================================================
