--------------------------- MODULE HandshakeFlow ---------------------------
(* Handshake messages in a stream of records: MessageFragmenter cuts them   *)
(* (msgs/fragmenter.rs), a peer may put the pieces of several messages into  *)
(* one record, and HandshakeJoiner puts them together (msgs/hsjoiner.rs).    *)
(* The layout of a message behind its header is the codec's business: it is  *)
(* a parameter here.                                                         *)
EXTENDS Integers, Sequences, SequencesExt

CONSTANTS
  FlowMessages,        \* the handshake messages that may be sent, in a sequence
  EncodingOf(_),       \* HandshakeMessagePayload::encode
  ReadingOf(_),        \* HandshakeMessagePayload::read_version of one message's bytes
  FragmentSizes,       \* sizes that set_max_fragment_size is called with
  MaxFlow,             \* messages sent in one flow
  MAX_HANDSHAKE_SIZE   \* 0xffff in the code

HEADER_SIZE == 1 + 3
\* The length in the header, a u24.
LengthIn(b) == 65536 * b[2] + 256 * b[3] + b[4]

\* Of the codec: a message has a header with the length of its body in it, and is
\* read back, if it is read at all, as what was written.
ASSUME FlowAssumption ==
  /\ MAX_HANDSHAKE_SIZE \in Nat
  /\ \A i \in DOMAIN FlowMessages :
       /\ EncodingOf(FlowMessages[i]) \in Seq(0 .. 255)
       /\ Len(EncodingOf(FlowMessages[i])) >= HEADER_SIZE
       /\ LengthIn(EncodingOf(FlowMessages[i])) = Len(EncodingOf(FlowMessages[i])) - HEADER_SIZE
       /\ \/ ~ReadingOf(EncodingOf(FlowMessages[i])).ok
          \/ ReadingOf(EncodingOf(FlowMessages[i])).value = FlowMessages[i]

VARIABLES
  max_frag,   \* MessageFragmenter.max_frag
  flow,       \* the messages that have been sent
  records,    \* payloads of the records on their way
  buf,        \* HandshakeJoiner.buf
  frames,     \* HandshakeJoiner.frames
  desynced    \* take_message has returned None

flowVars == <<max_frag, flow, records, buf, frames, desynced>>

MAX_FRAGMENT_LEN == 16384
PACKET_OVERHEAD == 1 + 2 + 2
MAX_FRAGMENT_SIZE == MAX_FRAGMENT_LEN + PACKET_OVERHEAD

FlowInit ==
  /\ max_frag = MAX_FRAGMENT_LEN
  /\ flow = <<>> /\ records = <<>> /\ buf = <<>> /\ frames = <<>>
  /\ desynced = FALSE

\* A size out of range is an error and leaves the old one.
set_max_fragment_size(size) ==
  /\ flow = <<>>
  /\ max_frag' = IF size \in 32 .. MAX_FRAGMENT_SIZE THEN size - PACKET_OVERHEAD ELSE max_frag
  /\ UNCHANGED <<flow, records, buf, frames, desynced>>

\* Mutant of Chunks: chunks_exact, which leaves the last piece out.
Chunks_Exact(payload, n) ==
  [i \in 1 .. Len(payload) \div n |-> SubSeq(payload, (i - 1) * n + 1, i * n)]

\* payload.chunks(max_frag); a payload that is short enough stays as it is.
Chunks(payload, n) ==
  [i \in 1 .. (Len(payload) + n - 1) \div n |->
     SubSeq(payload, (i - 1) * n + 1, IF i * n < Len(payload) THEN i * n ELSE Len(payload))]
fragment(payload) ==
  IF Len(payload) <= max_frag THEN <<payload>> ELSE Chunks(payload, max_frag)

SendFlow(i) ==
  /\ Len(flow) < MaxFlow
  /\ flow' = Append(flow, FlowMessages[i])
  /\ records' = records \o fragment(EncodingOf(FlowMessages[i]))
  /\ UNCHANGED <<max_frag, buf, frames, desynced>>

\* A peer fills its records: the next two become one.
MergeRecords ==
  /\ Len(records) > 1
  /\ Len(records[1]) + Len(records[2]) <= MAX_FRAGMENT_LEN
  /\ records' = <<records[1] \o records[2]>> \o SubSeq(records, 3, Len(records))
  /\ UNCHANGED <<max_frag, flow, buf, frames, desynced>>

\* The bytes of the message at the front of b, and those behind it; read_version
\* gives the body to a reader of its own (sub), so it looks at no other byte.
MessageIn(b) == SubSeq(b, 1, HEADER_SIZE + LengthIn(b))
Behind(b) == SubSeq(b, HEADER_SIZE + LengthIn(b) + 1, Len(b))

\* buf_contains_message
BufferState(b) ==
  IF Len(b) < HEADER_SIZE THEN "NeedsMoreData"
  ELSE CASE LengthIn(b) > MAX_HANDSHAKE_SIZE -> "MessageTooLarge"
         [] Len(b) >= HEADER_SIZE + LengthIn(b) -> "OneMessage"
         [] OTHER -> "NeedsMoreData"

Deframable(b) == BufferState(b) = "OneMessage" /\ ReadingOf(MessageIn(b)).ok
deframe_one(joiner) ==
  [buf |-> Behind(joiner.buf),
   frames |-> Append(joiner.frames, ReadingOf(MessageIn(joiner.buf)).value)]

\* One turn of the loop in take_message; it ends where a turn changes nothing.
Turn(joiner) == IF Deframable(joiner.buf) THEN deframe_one(joiner) ELSE joiner

\* The loop: every turn but the last takes at least a header from the buffer.
Deframe(b, out) ==
  LET turns == Len(b) \div HEADER_SIZE
      after[n \in 0 .. turns] == IF n = 0 THEN [buf |-> b, frames |-> out] ELSE Turn(after[n - 1])
  IN after[turns]

take_message ==
  /\ records # <<>> /\ ~desynced
  /\ \E joiner \in {Deframe(buf \o Head(records), frames)} :
       /\ buf' = joiner.buf
       /\ frames' = joiner.frames
       /\ desynced' = (BufferState(joiner.buf) # "NeedsMoreData")
  /\ records' = Tail(records)
  /\ UNCHANGED <<max_frag, flow>>

FlowNext ==
  \/ \E size \in FragmentSizes : set_max_fragment_size(size)
  \/ \E i \in DOMAIN FlowMessages : SendFlow(i)
  \/ MergeRecords
  \/ take_message

FlowSpec == FlowInit /\ [][FlowNext]_flowVars

(***************************************************************************)
(* Properties                                                              *)
(***************************************************************************)
AllBytes(messages) == FlattenSeq([i \in DOMAIN messages |-> EncodingOf(messages[i])])

\* The reader takes the message for what it is.
Joinable(h) == /\ Len(EncodingOf(h)) - HEADER_SIZE <= MAX_HANDSHAKE_SIZE
               /\ ReadingOf(EncodingOf(h)).ok

\* However the messages are cut and put together, those that come out are the first
\* of those that went in, complete and in order, with precisely one in each frame.
FramesAreTheFlow ==
  /\ Len(frames) <= Len(flow)
  /\ \A i \in DOMAIN frames : frames[i] = flow[i]

\* No byte is lost between the two ends, not even when the joiner has given up.
NoByteIsLost == AllBytes(frames) \o buf \o FlattenSeq(records) = AllBytes(flow)

\* The joiner gives a stream up only for a message that is too long, or that nobody
\* can read.
DesyncHasACause == desynced => \E i \in DOMAIN flow : ~Joinable(flow[i])

\* Once all records are taken, every message that can be read has come out,
\* unless one in front of it cannot be read: none waits for the next record.
NothingIsHeldBack ==
  records = <<>> =>
    \A n \in DOMAIN flow : (\A i \in 1 .. n : Joinable(flow[i])) => Len(frames) >= n

\* The joiner undoes what the fragmenter and the peer have done to a flow.
FlowIsKept == FramesAreTheFlow /\ NoByteIsLost /\ DesyncHasACause /\ NothingIsHeldBack
=============================================================================
