------------------------------ MODULE TlsWire ------------------------------
(* The TLS messages of rustls as puffin carries them (msgs/handshake.rs,     *)
(* msgs/message.rs, msgs/alert.rs, msgs/ccs.rs, msgs/heartbeat.rs): how each *)
(* structure is laid out, how a handshake message is told apart by its type, *)
(* the version of its record and its random, and what a record holds.        *)
EXTENDS Codec

(***************************************************************************)
(* enums.rs: widths, and the codes the readers branch on                   *)
(***************************************************************************)
ProtocolVersion == Enum(2)
TLSv1_2 == 771
TLSv1_3 == 772
CipherSuite == Enum(2)
Compression == Enum(1)
NullCompression == 0
NamedGroup == Enum(2)
SignatureScheme == Enum(2)
ECPointFormat == Enum(1)
ECCurveType == Enum(1)
ClientCertificateType == Enum(1)
PSKKeyExchangeMode == Enum(1)
KeyUpdateRequest == Enum(1)
AlertLevel == Enum(1)
AlertDescription == Enum(1)
HeartbeatMessageType == Enum(1)
ServerNameType == Enum(1)
CertificateStatusType == [OCSP |-> 1]

ContentType == [ChangeCipherSpec |-> 20, Alert |-> 21, Handshake |-> 22,
                ApplicationData |-> 23, Heartbeat |-> 24]

HandshakeType ==
  [HelloRequest |-> 0, ClientHello |-> 1, ServerHello |-> 2, NewSessionTicket |-> 4,
   EndOfEarlyData |-> 5, HelloRetryRequest |-> 6, EncryptedExtensions |-> 8, Certificate |-> 11,
   ServerKeyExchange |-> 12, CertificateRequest |-> 13, ServerHelloDone |-> 14,
   CertificateVerify |-> 15, ClientKeyExchange |-> 16, Finished |-> 20,
   CertificateStatus |-> 22, KeyUpdate |-> 24, MessageHash |-> 254]

ExtensionType ==
  [ServerName |-> 0, StatusRequest |-> 5, EllipticCurves |-> 10, ECPointFormats |-> 11,
   SignatureAlgorithms |-> 13, ALProtocolNegotiation |-> 16, SCT |-> 18,
   ExtendedMasterSecret |-> 23, SessionTicket |-> 35, PreSharedKey |-> 41, EarlyData |-> 42,
   SupportedVersions |-> 43, Cookie |-> 44, PSKKeyExchangeModes |-> 45,
   CertificateAuthorities |-> 47, SignatureAlgorithmsCert |-> 50, KeyShare |-> 51,
   TransportParameters |-> 57, RenegotiationInfo |-> 65281, TransportParametersDraft |-> 65445]

\* From the names of ExtensionType to the codes an extension table is read by.
Extension(named) ==
  Switch(2, 2, [code \in {ExtensionType[name] : name \in DOMAIN named} |->
                  named[CHOOSE name \in DOMAIN named : ExtensionType[name] = code]])

(***************************************************************************)
(* Parts of messages                                                       *)
(***************************************************************************)
VecU16OfPayloadU8 == declare_u16_vec(PayloadU8)
VecU16OfPayloadU16 == declare_u16_vec(PayloadU16)
Random == Fixed(32)
SessionID == Opaque(1, 32)
\* 0xcf21ad74..., compared as a whole and never looked into.
HELLO_RETRY_REQUEST_RANDOM ==
  <<207, 33, 173, 116, 229, 154, 97, 17, 190, 29, 140, 2, 30, 101, 184, 145,
    194, 162, 17, 22, 122, 187, 140, 94, 7, 158, 9, 226, 200, 168, 51, 156>>
ECPointFormatList == declare_u8_vec(ECPointFormat)
NamedGroups == declare_u16_vec(NamedGroup)
SupportedSignatureSchemes == declare_u16_vec(SignatureScheme)
ServerNamePayload == HostName
ServerName == Switch(1, 0, [typ \in {0} |-> ServerNamePayload])
ServerNameRequest == declare_u16_vec(ServerName)
ProtocolNameList == VecU16OfPayloadU8
KeyShareEntry == Struct(<<NamedGroup, PayloadU16>>)
PresharedKeyIdentity == Struct(<<PayloadU16, U32>>)
PresharedKeyIdentities == declare_u16_vec(PresharedKeyIdentity)
PresharedKeyBinders == VecU16OfPayloadU8
PresharedKeyOffer == Struct(<<PresharedKeyIdentities, PresharedKeyBinders>>)
OCSPCertificateStatusRequest == Struct(<<VecU16OfPayloadU16, PayloadU16>>)
CertificateStatusRequest ==
  Switch(1, 0, [typ \in {CertificateStatusType.OCSP} |-> OCSPCertificateStatusRequest])
SCTList == VecU16OfPayloadU16
PSKKeyExchangeModes == declare_u8_vec(PSKKeyExchangeMode)
KeyShareEntries == declare_u16_vec(KeyShareEntry)
ProtocolVersions == declare_u8_vec(ProtocolVersion)
CertificateStatus == Const(CertificateStatusType.OCSP, PayloadU24)
DistinguishedNames == VecU16OfPayloadU16

(***************************************************************************)
(* Extensions.  SessionTicket::Request and ::Offer, and the requests that  *)
(* become Unknown when they have a body, differ only in the body.          *)
(***************************************************************************)
\* The read takes the whole body as the payload, the encode puts a length before it.
ClientRenegotiationInfo == Split(PayloadU8, Payload)

ClientExtension == Extension(
  [ECPointFormats |-> ECPointFormatList, EllipticCurves |-> NamedGroups,
   SignatureAlgorithms |-> SupportedSignatureSchemes, ServerName |-> ServerNameRequest,
   SessionTicket |-> Payload, ALProtocolNegotiation |-> ProtocolNameList,
   SupportedVersions |-> ProtocolVersions, KeyShare |-> KeyShareEntries,
   PSKKeyExchangeModes |-> PSKKeyExchangeModes, PreSharedKey |-> PresharedKeyOffer,
   Cookie |-> PayloadU16, ExtendedMasterSecret |-> Payload,
   StatusRequest |-> CertificateStatusRequest, SCT |-> Payload,
   TransportParameters |-> Payload, TransportParametersDraft |-> Payload, EarlyData |-> Payload,
   RenegotiationInfo |-> ClientRenegotiationInfo,
   SignatureAlgorithmsCert |-> SupportedSignatureSchemes])

ServerRenegotiationInfo == PayloadU8

ServerExtension == Extension(
  [ECPointFormats |-> ECPointFormatList, ServerName |-> Empty, SessionTicket |-> Empty,
   RenegotiationInfo |-> ServerRenegotiationInfo, ALProtocolNegotiation |-> ProtocolNameList,
   KeyShare |-> KeyShareEntry, PreSharedKey |-> U(2), ExtendedMasterSecret |-> Empty,
   StatusRequest |-> Empty, SCT |-> SCTList, SupportedVersions |-> ProtocolVersion,
   TransportParameters |-> Payload, TransportParametersDraft |-> Payload, EarlyData |-> Empty])

HelloRetryExtension == Extension(
  [KeyShare |-> NamedGroup, Cookie |-> PayloadU16, SupportedVersions |-> ProtocolVersion])
CertificateExtension == Extension([StatusRequest |-> CertificateStatus, SCT |-> SCTList])
CertReqExtension == Extension([SignatureAlgorithms |-> NonEmpty(SupportedSignatureSchemes),
                               CertificateAuthorities |-> DistinguishedNames])
NewSessionTicketExtension == Extension([EarlyData |-> U32])

(***************************************************************************)
(* Handshake payloads                                                      *)
(***************************************************************************)
ClientHelloPayload ==
  Struct(<<ProtocolVersion, Random, SessionID, declare_u16_vec(CipherSuite),
           declare_u8_vec(Compression), Trailing(declare_u16_vec(ClientExtension), FALSE)>>)
ServerHelloPayload ==
  Struct(<<ProtocolVersion, Random, SessionID, CipherSuite, Compression,
           Trailing(declare_u16_vec(ServerExtension), TRUE)>>)
\* A ServerHello with the random above and no compression.
HelloRetryRequest ==
  Struct(<<ProtocolVersion, Fixed(32), SessionID, CipherSuite,
           Const(NullCompression, declare_u16_vec(HelloRetryExtension))>>)
CertificatePayload == vec_u24_limited(Certificate, 65536)
CertificateEntry == Struct(<<Certificate, declare_u16_vec(CertificateExtension)>>)
CertificatePayloadTLS13 == Struct(<<PayloadU8, vec_u24_limited(CertificateEntry, 65536)>>)
ECParameters == Struct(<<ECCurveType, NamedGroup>>)
DigitallySignedStruct == Struct(<<SignatureScheme, PayloadU16>>)
ServerECDHParams == Struct(<<ECParameters, PayloadU8>>)
ECDHEServerKeyExchange == Struct(<<ServerECDHParams, DigitallySignedStruct>>)
\* Whatever is encoded is read as Unknown, and parsed when the suite is known.
ServerKeyExchangePayload == Payload
EncryptedExtensions == declare_u16_vec(ServerExtension)
CertificateRequestPayload ==
  Struct(<<declare_u8_vec(ClientCertificateType), SupportedSignatureSchemes, DistinguishedNames>>)
CertificateRequestPayloadTLS13 == Struct(<<PayloadU8, declare_u16_vec(CertReqExtension)>>)
NewSessionTicketPayload == Struct(<<U32, PayloadU16>>)
NewSessionTicketPayloadTLS13 ==
  Struct(<<U32, U32, PayloadU8, PayloadU16, declare_u16_vec(NewSessionTicketExtension)>>)

HandshakePayload ==
  [HelloRequest |-> Payload, ClientHello |-> ClientHelloPayload, ServerHello |-> ServerHelloPayload,
   HelloRetryRequest |-> HelloRetryRequest, Certificate |-> CertificatePayload,
   CertificateTLS13 |-> CertificatePayloadTLS13, ServerKeyExchange |-> ServerKeyExchangePayload,
   CertificateRequest |-> CertificateRequestPayload,
   CertificateRequestTLS13 |-> CertificateRequestPayloadTLS13,
   CertificateVerify |-> DigitallySignedStruct, ServerHelloDone |-> Empty,
   EndOfEarlyData |-> Empty, ClientKeyExchange |-> Payload,
   NewSessionTicket |-> NewSessionTicketPayload,
   NewSessionTicketTLS13 |-> NewSessionTicketPayloadTLS13,
   EncryptedExtensions |-> EncryptedExtensions, KeyUpdate |-> KeyUpdateRequest,
   Finished |-> Payload, CertificateStatus |-> CertificateStatus, MessageHash |-> Payload,
   Unknown |-> Payload]

(***************************************************************************)
(* HandshakeMessagePayload: <<typ, variant, body>>                         *)
(***************************************************************************)
\* A HelloRetryRequest goes out as a ServerHello (not so in the mutant).
TypeOnWire_AsIs(typ) == typ
TypeOnWire(typ) ==
  IF typ = HandshakeType.HelloRetryRequest THEN HandshakeType.ServerHello ELSE typ

EncodeHandshake(h) ==
  to_be_bytes(TypeOnWire(h[1]), 1) \o WithLength(3, Encode(HandshakePayload[h[2]], h[3]))

\* Types that have no meaning on the wire, and the variants of the others.
NotOnWire == {HandshakeType.MessageHash, HandshakeType.HelloRetryRequest}
NameOf(typ) == IF \E name \in DOMAIN HandshakeType : HandshakeType[name] = typ
               THEN CHOOSE name \in DOMAIN HandshakeType : HandshakeType[name] = typ
               ELSE "Unknown"
\* The random of a ServerHello, behind the version.
RandomOf(body) == IF Len(body) < 34 THEN <<>> ELSE SubSeq(body, 3, 34)
VariantOf(typ, vers, body) ==
  CASE typ = HandshakeType.ServerHello /\ RandomOf(body) = HELLO_RETRY_REQUEST_RANDOM ->
         "HelloRetryRequest"
    [] vers = TLSv1_3 /\ typ = HandshakeType.Certificate -> "CertificateTLS13"
    [] vers = TLSv1_3 /\ typ = HandshakeType.CertificateRequest -> "CertificateRequestTLS13"
    [] vers = TLSv1_3 /\ typ = HandshakeType.NewSessionTicket -> "NewSessionTicketTLS13"
    [] OTHER -> NameOf(typ)
ReadType(typ, variant) ==
  IF variant = "HelloRetryRequest" THEN HandshakeType.HelloRetryRequest ELSE typ

read_version(b, vers) ==
  LET typ == read_int(b, 1)
      sub == sized(typ.left, 3)
      variant == VariantOf(typ.value, vers, sub.value)
      body == Whole(Read(HandshakePayload[variant], sub.value))
  IN IF ~typ.ok THEN Nothing
     ELSE IF ~sub.ok \/ typ.value \in NotOnWire THEN Nothing
     ELSE IF body.ok
          THEN Some(<<ReadType(typ.value, variant), variant, body.value>>, sub.left)
          ELSE Nothing

(***************************************************************************)
(* MessagePayload: <<"Alert", ...>>, <<"Handshake", h>>, ...               *)
(***************************************************************************)
AlertMessagePayload == Struct(<<AlertLevel, AlertDescription>>)
\* The value of the byte is not looked at.
ChangeCipherSpecPayload == Split(Const(1, Empty), U(1))
HeartbeatPayload == Struct(<<HeartbeatMessageType, PayloadU16>>)
\* A length of its own choice in front of the payload.
HeartbeatWithLength == Struct(<<HeartbeatMessageType, U(2), Payload>>)

EncodePayload(p) ==
  CASE p[1] = "Alert" -> Encode(AlertMessagePayload, p[2])
    [] p[1] = "Handshake" -> EncodeHandshake(p[2])
    [] p[1] \in {"TLS12EncryptedHandshake", "ApplicationData"} -> p[2]
    [] p[1] = "ChangeCipherSpec" -> Encode(ChangeCipherSpecPayload, <<>>)
    [] p[1] = "Heartbeat" -> Encode(HeartbeatPayload, p[2])
    [] p[1] = "HeartbeatWithLength" -> Encode(HeartbeatWithLength, p[2])

content_type(p) ==
  CASE p[1] \in {"Handshake", "TLS12EncryptedHandshake"} -> ContentType.Handshake
    [] p[1] = "HeartbeatWithLength" -> ContentType.Heartbeat
    [] OTHER -> ContentType[p[1]]

Parsed(name, r) == IF r.ok THEN <<name, r.value>> ELSE <<"corrupt", <<>>>>
\* MessagePayload::new: what follows the message in its record is dropped, and
\* a handshake record that cannot be read is taken to be encrypted.
new_payload(typ, vers, b) ==
  CASE typ = ContentType.ApplicationData -> <<"ApplicationData", b>>
    [] typ = ContentType.Alert -> Parsed("Alert", Read(AlertMessagePayload, b))
    [] typ = ContentType.Handshake -> LET r == read_version(b, vers)
                                      IN IF r.ok THEN <<"Handshake", r.value>>
                                         ELSE <<"TLS12EncryptedHandshake", b>>
    [] typ = ContentType.ChangeCipherSpec ->
         LET r == Read(ChangeCipherSpecPayload, b) IN IF r.ok THEN <<"ChangeCipherSpec", <<>>>>
                                                      ELSE <<"corrupt", <<>>>>
    [] typ = ContentType.Heartbeat -> Parsed("Heartbeat", Read(HeartbeatPayload, b))

(***************************************************************************)
(* OpaqueMessage: [typ, version, payload]                                  *)
(***************************************************************************)
MAX_PAYLOAD == 16384 + 2048

EncodeOpaque(typ, version, payload) ==
  to_be_bytes(typ, 1) \o to_be_bytes(version, 2) \o WithLength(2, payload)

MessageError(why) == [ok |-> FALSE, why |-> why]
Incomplete == {"TooShortForHeader", "TooShortForLength"}

ReadOpaque(b) ==
  LET header == Read(Struct(<<U(1), U(2), U(2)>>), b)
      typ == header.value[1]
      version == header.value[2]
      len == header.value[3]
      sub == take(header.left, len)
  IN IF ~header.ok THEN MessageError("TooShortForHeader")
     ELSE IF typ # ContentType.ApplicationData /\ len = 0 THEN MessageError("IllegalLength")
     ELSE IF len >= MAX_PAYLOAD THEN MessageError("IllegalLength")
     ELSE IF typ \notin {ContentType[name] : name \in DOMAIN ContentType}
          THEN MessageError("IllegalContentType")
     ELSE IF version \notin {512, 65279, 65277} /\ version \div 256 # 3
          THEN MessageError("IllegalProtocolVersion")
     ELSE IF ~sub.ok THEN MessageError("TooShortForLength")
     ELSE Some([typ |-> typ, version |-> version, payload |-> sub.value], sub.left)

(***************************************************************************)
(* Message: [version, payload]; PlainMessage::from, Message::try_from      *)
(***************************************************************************)
EncodeMessage(m) == EncodeOpaque(content_type(m.payload), m.version, EncodePayload(m.payload))
try_from(opaque) ==
  [version |-> opaque.version, payload |-> new_payload(opaque.typ, opaque.version, opaque.payload)]

(***************************************************************************)
(* The binder of a pre-shared key                                          *)
(***************************************************************************)
ClientHelloExtensions(h) == h[3][6]
LastExtension(h) == ClientHelloExtensions(h)[Len(ClientHelloExtensions(h))]
OffersPsk(h) == /\ h[2] = "ClientHello"
                /\ ClientHelloExtensions(h) # <<>>
                /\ LastExtension(h)[1] = ExtensionType.PreSharedKey

set_psk_binder(h, binder) ==
  IF ~OffersPsk(h) THEN h
  ELSE [h EXCEPT ![3][6][Len(ClientHelloExtensions(h))][2][2][1] = binder]

\* Mutant: only the binder itself is cut off, not the lengths in front of it.
get_encoding_for_binder_signing_Binder(h) ==
  LET ret == EncodeHandshake(h)
      binder_len == IF OffersPsk(h) THEN Len(LastExtension(h)[2][2][1]) ELSE 0
  IN SubSeq(ret, 1, Len(ret) - binder_len)

get_encoding_for_binder_signing(h) ==
  LET ret == EncodeHandshake(h)
      binder_len == IF OffersPsk(h) THEN Len(Encode(PresharedKeyBinders, LastExtension(h)[2][2])) ELSE 0
  IN SubSeq(ret, 1, Len(ret) - binder_len)
=============================================================================
