---------------------------- MODULE TlsMessages ----------------------------
(* The function symbols that build extensions and messages, down to the     *)
(* values the codec lays out (tls/fn_extensions.rs, tls/fn_messages.rs).     *)
(* An extension is <<code, body>>; bodies are the values TlsWire encodes.    *)
EXTENDS TlsWire

CONSTANTS
  UnknownLength,    \* bytes of an unknown extension: [42; 7000]
  TimestampLength   \* bytes of a certificate timestamp: [42; 128]

Bytes42(n) == [i \in 1 .. n |-> 42]

(***************************************************************************)
(* fn_extensions.rs: the lists                                             *)
(***************************************************************************)
fn_client_extensions_new == <<>>
fn_client_extensions_append(extensions, extension) == Append(extensions, extension)
fn_server_extensions_new == <<>>
fn_server_extensions_append(extensions, extension) == Append(extensions, extension)
fn_hello_retry_extensions_new == <<>>
fn_hello_retry_extensions_append(extensions, extension) == Append(extensions, extension)
fn_cert_req_extensions_new == <<>>
fn_cert_req_extensions_append(extensions, extension) == Append(extensions, extension)
fn_cert_extensions_new == <<>>
fn_cert_extensions_append(extensions, extension) == Append(extensions, extension)
fn_new_session_ticket_extensions_new == <<>>
fn_new_session_ticket_extensions_append(extensions, extension) == Append(extensions, extension)

(***************************************************************************)
(* fn_extensions.rs: the extensions                                        *)
(***************************************************************************)
Ext(name, body) == <<ExtensionType[name], body>>
UnknownExtension == <<65535, Bytes42(UnknownLength)>>
inria_fr == <<105, 110, 114, 105, 97, 46, 102, 114>>

fn_server_name_extension == Ext("ServerName", <<<<0, inria_fr>>>>)
fn_server_name_server_extension == Ext("ServerName", <<>>)
fn_status_request_extension(responder_ids, extensions) ==
  Ext("StatusRequest", <<CertificateStatusType.OCSP, <<responder_ids, extensions>>>>)
fn_status_request_server_extension == Ext("StatusRequest", <<>>)
fn_status_request_certificate_extension(ocsp_response) == Ext("StatusRequest", ocsp_response)
fn_support_group_extension(group) == Ext("EllipticCurves", <<group>>)
fn_ec_point_formats_extension == Ext("ECPointFormats", <<0>>)
fn_ec_point_formats_server_extension == Ext("ECPointFormats", <<0>>)
fn_signature_algorithm_extension == Ext("SignatureAlgorithms", <<1025, 2052>>)
fn_signature_algorithm_cert_req_extension == Ext("SignatureAlgorithms", <<1025, 2052>>)
fn_empty_vec_of_vec == <<>>
fn_append_vec(vec_of_vec, data) == Append(vec_of_vec, data)
fn_al_protocol_negotiation(names) == Ext("ALProtocolNegotiation", names)
fn_al_protocol_server_negotiation(names) == Ext("ALProtocolNegotiation", names)
fn_signed_certificate_timestamp_extension == Ext("SCT", <<>>)
fn_signed_certificate_timestamp_server_extension == Ext("SCT", <<Bytes42(TimestampLength)>>)
fn_signed_certificate_timestamp_certificate_extension == Ext("SCT", <<Bytes42(TimestampLength)>>)
fn_extended_master_secret_extension == Ext("ExtendedMasterSecret", <<>>)
fn_extended_master_secret_server_extension == Ext("ExtendedMasterSecret", <<>>)
fn_session_ticket_request_extension == Ext("SessionTicket", <<>>)
fn_session_ticket_offer_extension(ticket) == Ext("SessionTicket", ticket)
\* The code acknowledges the server name here.
fn_session_ticket_server_extension == Ext("ServerName", <<>>)
fn_new_preshared_key_identity(identity) == <<identity, to_be_bytes(10, 4)>>
fn_empty_preshared_keys_identity_vec == <<>>
fn_append_preshared_keys_identity(identities, identity) == Append(identities, identity)
\* The ticket and age of a NewSessionTicketTLS13, and 32 zeroes for the binder.
fn_preshared_keys_extension_empty_binder(new_ticket) ==
  LET ticket == new_ticket.payload[2][3]
      age == from_be_bytes(ticket[2])
  IN Ext("PreSharedKey", <<<< <<ticket[4], to_be_bytes(100 + age, 4)>> >>, <<Zeroes(32)>>>>)
fn_preshared_keys_server_extension(identities) == Ext("PreSharedKey", identities % 65536)
fn_early_data_extension == Ext("EarlyData", <<>>)
fn_early_data_new_session_ticket_extension(early_data) == Ext("EarlyData", to_be_bytes(early_data, 4))
fn_early_data_server_extension == Ext("EarlyData", <<>>)
fn_supported_versions12_extension == Ext("SupportedVersions", <<TLSv1_2>>)
fn_supported_versions13_extension == Ext("SupportedVersions", <<TLSv1_3>>)
fn_supported_versions12_hello_retry_extension == Ext("SupportedVersions", TLSv1_2)
fn_supported_versions13_hello_retry_extension == Ext("SupportedVersions", TLSv1_3)
fn_supported_versions12_server_extension == Ext("SupportedVersions", TLSv1_2)
fn_supported_versions13_server_extension == Ext("SupportedVersions", TLSv1_3)
fn_cookie_extension(cookie) == Ext("Cookie", cookie)
fn_cookie_hello_retry_extension(cookie) == Ext("Cookie", cookie)
fn_psk_exchange_mode_dhe_ke_extension == Ext("PSKKeyExchangeModes", <<1>>)
fn_psk_exchange_mode_ke_extension == Ext("PSKKeyExchangeModes", <<0>>)
\* x509::wrap_in_sequence: a DER sequence of one short name.
fn_certificate_authorities_extension ==
  Ext("CertificateAuthorities", <<<<48, Len(inria_fr)>> \o inria_fr>>)
fn_signature_algorithm_cert_extension ==
  Ext("SignatureAlgorithmsCert",
      <<513, 515, 1027, 1281, 1283, 1537, 1539, 2053, 2054, 2055, 2056, 1025, 2052>>)
fn_key_share_extension(key_share, group) == Ext("KeyShare", <<<<group, key_share>>>>)
fn_key_share_server_extension(key_share, group) == Ext("KeyShare", <<group, key_share>>)
fn_key_share_hello_retry_extension(group) == Ext("KeyShare", group)
fn_transport_parameters_extension(parameters) == Ext("TransportParameters", parameters)
fn_transport_parameters_server_extension(parameters) == Ext("TransportParameters", parameters)
fn_renegotiation_info_extension(data) == Ext("RenegotiationInfo", data)
fn_renegotiation_info_server_extension(data) == Ext("RenegotiationInfo", data)
fn_transport_parameters_draft_extension(parameters) == Ext("TransportParametersDraft", parameters)
fn_transport_parameters_draft_server_extension(parameters) ==
  Ext("TransportParametersDraft", parameters)
fn_unknown_client_extension == UnknownExtension
fn_unknown_server_extension == UnknownExtension
fn_unknown_hello_retry_extension == UnknownExtension
fn_unknown_cert_request_extension == UnknownExtension
fn_unknown_new_session_ticket_extension == UnknownExtension
fn_unknown_certificate_extension == UnknownExtension

(***************************************************************************)
(* fn_messages.rs: every message is given the version of TLS 1.2           *)
(***************************************************************************)
TlsMessage(payload) == [version |-> TLSv1_2, payload |-> payload]
HandshakeMessage(name, variant, body) == TlsMessage(<<"Handshake", <<HandshakeType[name], variant, body>>>>)

fn_empty_handshake_message == TlsMessage(<<"TLS12EncryptedHandshake", <<>>>>)
fn_alert_close_notify == TlsMessage(<<"Alert", <<1, 0>>>>)
fn_change_cipher_spec == TlsMessage(<<"ChangeCipherSpec", <<>>>>)
fn_application_data(data) == TlsMessage(<<"ApplicationData", data>>)
fn_heartbeat_fake_length(payload, fake_length) ==
  TlsMessage(<<"HeartbeatWithLength", <<1, fake_length, payload>>>>)
fn_heartbeat(payload) == fn_heartbeat_fake_length(payload, Len(payload))
fn_hello_request == HandshakeMessage("HelloRequest", "HelloRequest", <<>>)
fn_client_hello(version, random, session_id, suites, compressions, extensions) ==
  HandshakeMessage("ClientHello", "ClientHello",
            <<version, random, session_id, suites, compressions, extensions>>)
fn_server_hello(version, random, session_id, suite, compression, extensions) ==
  HandshakeMessage("ServerHello", "ServerHello",
            <<version, random, session_id, suite, compression, extensions>>)
fn_new_session_ticket(lifetime_hint, ticket) ==
  HandshakeMessage("NewSessionTicket", "NewSessionTicket", <<to_be_bytes(lifetime_hint, 4), ticket>>)
fn_new_session_ticket13(nonce, ticket, extensions) ==
  HandshakeMessage("NewSessionTicket", "NewSessionTicketTLS13",
            <<to_be_bytes(10, 4), to_be_bytes(12, 4), nonce, ticket, extensions>>)
fn_hello_retry_request(version, session_id, suite, extensions) ==
  HandshakeMessage("HelloRetryRequest", "HelloRetryRequest",
            <<version, HELLO_RETRY_REQUEST_RANDOM, session_id, suite, extensions>>)
fn_encrypted_extensions(extensions) ==
  HandshakeMessage("EncryptedExtensions", "EncryptedExtensions", extensions)
fn_certificate(certs) == HandshakeMessage("Certificate", "Certificate", certs)
fn_certificate13(context, entries) ==
  HandshakeMessage("Certificate", "CertificateTLS13", <<context, entries>>)
fn_server_key_exchange(data) == HandshakeMessage("ServerKeyExchange", "ServerKeyExchange", data)
\* "some ca name?"
fn_certificate_request ==
  HandshakeMessage("CertificateRequest", "CertificateRequest",
            <<<<1>>, <<2055>>,
              <<<<115, 111, 109, 101, 32, 99, 97, 32, 110, 97, 109, 101, 63>>>>>>)
fn_certificate_request13(context, extensions) ==
  HandshakeMessage("CertificateRequest", "CertificateRequestTLS13", <<context, extensions>>)
fn_server_hello_done == HandshakeMessage("ServerHelloDone", "ServerHelloDone", <<>>)
fn_certificate_verify(scheme, signature) ==
  HandshakeMessage("CertificateVerify", "CertificateVerify", <<scheme, signature>>)
fn_client_key_exchange(data) == HandshakeMessage("ClientKeyExchange", "ClientKeyExchange", data)
fn_finished(verify_data) == HandshakeMessage("Finished", "Finished", verify_data)
fn_certificate_status(ocsp_response) ==
  HandshakeMessage("CertificateStatus", "CertificateStatus", ocsp_response)
fn_key_update == HandshakeMessage("KeyUpdate", "KeyUpdate", 1)
fn_key_update_not_requested == HandshakeMessage("KeyUpdate", "KeyUpdate", 0)
fn_message_hash(hash) == HandshakeMessage("MessageHash", "MessageHash", hash)
=============================================================================
