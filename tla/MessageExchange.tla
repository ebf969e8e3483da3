-------------------------- MODULE MessageExchange --------------------------
(* A message on its way: a term evaluates to it, the binder of a pre-shared  *)
(* key is filled in, it is encoded into a record, the record arrives whole,  *)
(* cut, in fragments, or as a peer lays it out, it is read, and the message  *)
(* that was read is used again in another term.                              *)
(* (tlspuffin: tls/rustls/msgs, tls/fn_utils.rs, tls/fn_messages.rs)         *)
EXTENDS TlsMessages

CONSTANTS
  Messages,     \* a sequence of messages that terms evaluate to
  Binders,      \* binders that terms compute
  CutPoints,    \* numbers of bytes after which a record or payload is cut
  MaxUses       \* how often a message that was read is used again

VARIABLES
  sent,       \* the message last built
  signed,     \* what the binder is computed over, or <<>>
  binder,     \* the binder filled in, or <<>>
  wire,       \* the bytes on the wire
  layout,     \* how the wire came to be: "whole", "cut", "fragment", ...
  got,        \* what was read
  uses,       \* how often the message has been used again
  stage       \* "idle" -> "built" -> "sent" -> "read"

exchangeVars == <<sent, signed, binder, wire, layout, got, uses, stage>>

NoMessage == TlsMessage(<<"ChangeCipherSpec", <<>>>>)
NoResult == MessageError("nothing read")
IsHandshake(m) == m.payload[1] = "Handshake"

ExchangeInit ==
  /\ sent = NoMessage /\ signed = <<>> /\ binder = <<>>
  /\ wire = <<>> /\ layout = "none"
  /\ got = NoResult /\ uses = 0 /\ stage = "idle"

\* A term evaluates to a message; fn_derive_binder takes its encoding.
Evaluate(i) ==
  /\ stage = "idle"
  /\ sent' = Messages[i]
  /\ signed' = IF IsHandshake(Messages[i]) THEN get_encoding_for_binder_signing(Messages[i].payload[2])
               ELSE <<>>
  /\ stage' = "built"
  /\ UNCHANGED <<binder, wire, layout, got, uses>>

\* fn_fill_binder
FillBinder(b) ==
  /\ stage = "built" /\ binder = <<>> /\ uses = 0
  /\ IsHandshake(sent) /\ OffersPsk(sent.payload[2])
  /\ sent' = [sent EXCEPT !.payload[2] = set_psk_binder(sent.payload[2], b)]
  /\ binder' = b
  /\ UNCHANGED <<signed, wire, layout, got, uses, stage>>

\* Message::encode
SendMessage ==
  /\ stage = "built"
  /\ wire' = EncodeMessage(sent)
  /\ layout' = "whole"
  /\ stage' = "sent"
  /\ UNCHANGED <<sent, signed, binder, got, uses>>

Header(b) == SubSeq(b, 1, 3)
PayloadOf(b) == SubSeq(b, 6, Len(b))
AsRecord(b, payload) == Header(b) \o WithLength(2, payload)
IsHandshakeRecord(b) == b[1] = ContentType.Handshake

\* The first time, the record may come to the reader in another form.
InTransit == stage = "sent" /\ layout = "whole" /\ uses = 0

\* Only a part of the record has arrived.
CutRecord(n) ==
  /\ InTransit
  /\ n < Len(wire)
  /\ wire' = SubSeq(wire, 1, n)
  /\ layout' = "cut"
  /\ UNCHANGED <<sent, signed, binder, got, uses, stage>>

\* The peer spreads a handshake message over records; this is the first one.
Fragment(n) ==
  /\ InTransit /\ IsHandshakeRecord(wire)
  /\ n > 0 /\ n < Len(PayloadOf(wire))
  /\ wire' = AsRecord(wire, SubSeq(PayloadOf(wire), 1, n))
  /\ layout' = "fragment"
  /\ UNCHANGED <<sent, signed, binder, got, uses, stage>>

\* The peer puts the next handshake message into the same record.
Coalesce ==
  /\ InTransit /\ IsHandshakeRecord(wire) /\ PayloadOf(wire) # <<>>
  /\ wire' = AsRecord(wire, PayloadOf(wire) \o EncodeHandshake(fn_server_hello_done.payload[2]))
  /\ layout' = "coalesced"
  /\ UNCHANGED <<sent, signed, binder, got, uses, stage>>

\* A peer that has no extensions leaves the block of a ServerHello out, and may
\* write an empty one into a ClientHello.
HasNoExtensions(m) == /\ IsHandshake(m)
                      /\ m.payload[2][2] \in {"ClientHello", "ServerHello"}
                      /\ ClientHelloExtensions(m.payload[2]) = <<>>
OtherLayout ==
  /\ InTransit /\ HasNoExtensions(sent)
  /\ LET h == sent.payload[2]
         fields == Encode(HandshakePayload[h[2]], h[3])
         body == IF h[2] = "ClientHello" THEN fields \o <<0, 0>>
                 ELSE SubSeq(fields, 1, Len(fields) - 2)
     IN wire' = AsRecord(wire, <<h[1]>> \o WithLength(3, body))
  /\ layout' = "other"
  /\ UNCHANGED <<sent, signed, binder, got, uses, stage>>

\* OpaqueMessage::read and Message::try_from
ReceiveMessage ==
  /\ stage = "sent"
  /\ got' = LET opaque == ReadOpaque(wire)
            IN IF opaque.ok THEN Some(try_from(opaque.value), opaque.left) ELSE opaque
  /\ stage' = "read"
  /\ UNCHANGED <<sent, signed, binder, wire, layout, uses>>

Corrupt(r) == ~r.ok \/ (r.ok /\ r.value.payload[1] = "corrupt")

\* The message that was read enters a term and is sent, or hashed, again.
UseAgain ==
  /\ stage = "read" /\ uses < MaxUses /\ ~Corrupt(got)
  /\ sent' = got.value
  /\ uses' = uses + 1
  /\ stage' = "built"
  /\ UNCHANGED <<signed, binder, wire, layout, got>>

ExchangeNext ==
  \/ \E i \in DOMAIN Messages : Evaluate(i)
  \/ \E b \in Binders : FillBinder(b)
  \/ SendMessage
  \/ \E n \in CutPoints : CutRecord(n) \/ Fragment(n)
  \/ Coalesce
  \/ OtherLayout
  \/ ReceiveMessage
  \/ UseAgain

ExchangeSpec == ExchangeInit /\ [][ExchangeNext]_exchangeVars

(***************************************************************************)
(* Properties                                                              *)
(***************************************************************************)

\* State of the right shape; in particular everything on the wire is a byte,
\* whatever lengths were written.
ExchangeTypeOK ==
  /\ stage \in {"idle", "built", "sent", "read"}
  /\ layout \in {"none", "whole", "cut", "fragment", "coalesced", "other"}
  /\ uses \in 0 .. MaxUses
  /\ \A i \in DOMAIN wire : wire[i] \in Byte
  /\ got.ok \in BOOLEAN

\* No length of the message is cut off when it is encoded.
FitsMessage(m) ==
  /\ Len(EncodePayload(m.payload)) < 65536
  /\ IsHandshake(m) => Fits(HandshakePayload[m.payload[2][2]], m.payload[2][3])
\* The reader accepts a record of this size.
FitsRecord(m) ==
  /\ Len(EncodePayload(m.payload)) < MAX_PAYLOAD
  /\ EncodePayload(m.payload) # <<>> \/ content_type(m.payload) = ContentType.ApplicationData

HasExtension(h, name) ==
  /\ h[2] = "ClientHello"
  /\ \E i \in DOMAIN ClientHelloExtensions(h) : ClientHelloExtensions(h)[i][1] = ExtensionType[name]
\* The version of the record makes the reader choose another structure.
ForOtherVersion(m) ==
  /\ IsHandshake(m) /\ m.version # TLSv1_3
  /\ m.payload[2][2] \in {"CertificateTLS13", "CertificateRequestTLS13", "NewSessionTicketTLS13"}
\* The places where the bytes do not determine the message they were written for.
Ambiguous(m) ==
  \/ ForOtherVersion(m)
  \/ IsHandshake(m) /\ HasExtension(m.payload[2], "RenegotiationInfo")
  \/ m.payload[1] = "HeartbeatWithLength"
  \/ m.payload[1] = "TLS12EncryptedHandshake"
\* Refused by the reader although the encoder writes it.
Refused(m) ==
  \/ ~FitsRecord(m)
  \/ IsHandshake(m) /\ m.payload[2][2] = "MessageHash"
  \/ IsHandshake(m) /\ m.payload[2][2] = "CertificateRequestTLS13" /\ <<13, <<>>>> \in
       {m.payload[2][3][2][i] : i \in {j \in DOMAIN m.payload[2][3][2] : m.payload[2][3][2][j][1] = 13}}

\* Every message whose lengths fit is read back as the message that was built,
\* also when another message follows it in its record or a peer lays it out in
\* another way; one that the reader refuses stays bytes or is an error, and is
\* not taken for a different message.
MessageIsReadBack ==
  (stage = "read" /\ layout \in {"whole", "coalesced", "other"} /\ FitsMessage(sent) /\ ~Ambiguous(sent))
    => IF Refused(sent)
       THEN Corrupt(got) \/ got.value.payload = <<"TLS12EncryptedHandshake", PayloadOf(wire)>>
       ELSE got.ok /\ got.value.payload[1] = sent.payload[1] /\ got.value = sent

\* What was read encodes to the bytes that were read: the transcripts that terms
\* hash over messages they have received are those of the peer.
BytesAreKept ==
  (stage = "read" /\ layout = "whole" /\ got.ok /\ ~Corrupt(got) /\ FitsMessage(sent)
     /\ ~(IsHandshake(sent) /\ HasExtension(sent.payload[2], "RenegotiationInfo")))
    => EncodeMessage(got.value) = wire

\* Part of a record is incomplete, not illegal: the deframer waits for more bytes
\* instead of giving the stream up.
PartIsIncomplete ==
  (stage = "read" /\ layout = "cut" /\ FitsMessage(sent) /\ FitsRecord(sent))
    => ~got.ok /\ got.why \in Incomplete

\* The first fragment of a handshake message is not taken for a message.
FragmentIsNoMessage ==
  (stage = "read" /\ layout = "fragment" /\ got.ok) => ~IsHandshake(got.value)

\* The bytes that a binder signs are those in front of the binders that are sent,
\* whatever the binder turns out to be.
BinderSignsTheHello ==
  (stage = "sent" /\ layout = "whole" /\ Len(binder) = 32 /\ uses = 0)
    => LET payload == PayloadOf(wire)
       IN payload = signed \o Encode(PresharedKeyBinders, <<binder>>)

\* Reading yields the message that was built, and never another one: not from
\* the part of a record that has arrived, nor from a fragment of a message.
MessageSurvives == ExchangeTypeOK /\ MessageIsReadBack /\ PartIsIncomplete /\ FragmentIsNoMessage

\* What terms hash and sign is what is on the wire: the messages that they have
\* received, and the hello that they send.
HashedBytesAreSent == BytesAreKept /\ BinderSignsTheHello
=============================================================================
