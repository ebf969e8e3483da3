----------------------------- MODULE TlsSymbols -----------------------------
(***************************************************************************)
(* The function symbols of tlspuffin/src/tls/fn_*.rs that the seeds use:   *)
(* what a recipe computes.  A value is a tuple that starts with its        *)
(* constructor; cryptography is symbolic, so that two values are equal     *)
(* exactly if they were computed in the same way.  Err is the value of a   *)
(* symbol that fails, and of every symbol that is applied to it.           *)
(***************************************************************************)
EXTENDS Integers, Sequences

Err == <<"Err">>

\* Term::evaluate: a term fails if one of its subterms does.
Strict(args, r) == IF \E i \in DOMAIN args : args[i] = Err THEN Err ELSE r

\* A Vec.
List(s) == <<"Vec">> \o s
Push(list, x) == Strict(<<list, x>>, Append(list, x))
Elements(list) == Tail(list)

------------------------------------------------------------------------------
(* fn_constants.rs, fn_fields.rs *)

fn_empty_bytes_vec == <<"bytes">>
fn_protocol_version12 == <<"TLSv1_2">>
fn_new_session_id == <<"session 3">>
fn_new_random == <<"random 1">>
fn_compressions == List(<<<<"Null">>>>)
fn_compression == <<"Null">>
fn_named_group_secp384r1 == <<"secp384r1">>
fn_new_cipher_suites == List(<<>>)
fn_append_cipher_suite(suites, suite) == Push(suites, suite)
fn_cipher_suite12 == <<"TLS_ECDHE_RSA_WITH_AES_128_GCM_SHA256">>
fn_cipher_suite13_aes_128_gcm_sha256 == <<"TLS13_AES_128_GCM_SHA256">>
fn_no_key_share == <<"None">>
fn_no_psk == <<"None">>
fn_psk(psk) == psk

------------------------------------------------------------------------------
(* fn_extensions.rs *)

fn_client_extensions_new == List(<<>>)
fn_client_extensions_append(exts, ext) == Push(exts, ext)
fn_server_extensions_new == List(<<>>)
fn_server_extensions_append(exts, ext) == Push(exts, ext)

fn_support_group_extension(group) == <<"SupportedGroups", group>>
fn_ec_point_formats_extension == <<"EcPointFormats">>
fn_signature_algorithm_extension == <<"SignatureAlgorithms">>
fn_signature_algorithm_cert_extension == <<"SignatureAlgorithmsCert">>
fn_signed_certificate_timestamp_extension == <<"SignedCertificateTimestamp">>
fn_renegotiation_info_extension(data) == <<"RenegotiationInfo", data>>
fn_supported_versions13_extension == <<"SupportedVersions", <<"TLSv1_3">>>>
fn_supported_versions13_server_extension == <<"SupportedVersions", <<"TLSv1_3">>>>
fn_psk_exchange_mode_dhe_ke_extension == <<"PresharedKeyModes", <<"PSK_DHE_KE">>>>
fn_psk_exchange_mode_ke_extension == <<"PresharedKeyModes", <<"PSK_KE">>>>

\* A public key: its owner and its group; that of the fuzzer is always the same.
PublicKey(owner, group) == <<"key share", owner, group>>
Fuzzer == <<"fuzzer", 0>>
deterministic_key_share(group) == PublicKey(Fuzzer, group)

fn_key_share_deterministic_extension(group) ==
    Strict(<<group>>, <<"KeyShare", deterministic_key_share(group)>>)
fn_key_share_deterministic_server_extension(group) ==
    Strict(<<group>>, <<"KeyShare", deterministic_key_share(group)>>)

\* The extension of a type in a list, Err if there is none.
find_extension(exts, type) ==
    LET found == SelectSeq(Elements(exts), LAMBDA e : e[1] = type)
    IN  IF found = <<>> THEN Err ELSE found[1]

fn_get_server_key_share(exts) ==
    IF exts = Err THEN Err
    ELSE LET ext == find_extension(exts, "KeyShare") IN Strict(<<ext>>, ext[2])

\* A client has one key share here: the first is also that of its group.
fn_get_any_client_curve(exts) ==
    IF exts = Err THEN Err
    ELSE LET ext == find_extension(exts, "KeyShare") IN Strict(<<ext>>, ext[2][3])

fn_get_client_key_share(exts, group) ==
    IF exts = Err \/ group = Err THEN Err
    ELSE LET ext == find_extension(exts, "KeyShare")
         IN  IF ext = Err THEN Err ELSE IF ext[2][3] = group THEN ext[2] ELSE Err

------------------------------------------------------------------------------
(* fn_messages.rs *)

fn_opaque_message(m) == m
fn_change_cipher_spec == <<"ChangeCipherSpec">>
fn_application_data(data) == data
fn_client_hello(version, random, session_id, suites, compressions, exts) ==
    Strict(<<version, random, session_id, suites, compressions, exts>>,
           <<"ClientHello", version, random, session_id, suites, compressions, exts>>)
fn_server_hello(version, random, session_id, suite, compression, exts) ==
    Strict(<<version, random, session_id, suite, compression, exts>>,
           <<"ServerHello", version, random, session_id, suite, compression, exts>>)
fn_new_session_ticket(lifetime, ticket) ==
    Strict(<<lifetime, ticket>>, <<"NewSessionTicket", lifetime, ticket>>)
fn_encrypted_extensions(exts) == <<"EncryptedExtensions", exts>>
fn_certificate(certs) == Strict(<<certs>>, <<"Certificate", certs>>)
fn_certificate13(context, entries) == Strict(<<context, entries>>, <<"CertificateTLS13", context, entries>>)
fn_server_key_exchange(data) == Strict(<<data>>, <<"ServerKeyExchange", data>>)
fn_server_hello_done == <<"ServerHelloDone">>
fn_certificate_verify(scheme, signature) ==
    Strict(<<signature>>, <<"CertificateVerify", scheme, signature>>)
fn_client_key_exchange(data) == Strict(<<data>>, <<"ClientKeyExchange", data>>)
fn_finished(verify_data) == Strict(<<verify_data>>, <<"Finished", verify_data>>)

------------------------------------------------------------------------------
(* Transcripts: fn_utils.rs, fn_transcript.rs *)

fn_new_transcript == <<"transcript">>
fn_new_transcript12 == <<"transcript">>

fn_append_transcript(transcript, m) == Strict(<<transcript, m>>, Append(transcript, m))

\* The transcript of a claim is the hash of the messages so far.
fn_server_hello_transcript(claim) == claim
fn_certificate_transcript(claim) == claim
fn_server_finished_transcript(claim) == claim
fn_client_finished_transcript(claim) == claim

------------------------------------------------------------------------------
(* Keys: key_exchange.rs, key_schedule.rs *)

\* The secret of two key shares: the same for both of their owners.
SharedSecret(owner, share) == <<"secret", {owner, share[2]}, share[3]>>

tls13_key_exchange(share, group) ==
    IF share[3] = group THEN SharedSecret(Fuzzer, share) ELSE Err

\* The handshake secret from a key share, a PSK or both.
dhe_key_schedule(group, share, psk) ==
    CASE share = Err \/ psk = Err \/ group = Err -> Err
      [] share = fn_no_key_share /\ psk = fn_no_psk -> Err
      [] share = fn_no_key_share /\ psk # fn_no_psk -> <<"schedule", <<"zeroes">>, psk>>
      [] share # fn_no_key_share ->
            LET secret == tls13_key_exchange(share, group)
            IN  Strict(<<secret>>, <<"schedule", secret, psk>>)

Side(client) == IF client THEN "client" ELSE "server"

tls13_handshake_traffic_secret(server_hello, share, psk, client, group) ==
    LET schedule == dhe_key_schedule(group, share, psk)
    IN  Strict(<<schedule, server_hello>>, <<"handshake key", Side(client), schedule, server_hello>>)

tls13_application_traffic_secret(server_hello, server_finished, share, psk, group, client) ==
    LET schedule == dhe_key_schedule(group, share, psk)
    IN  Strict(<<schedule, server_hello, server_finished>>,
               <<"application key", Side(client), schedule, server_finished>>)

\* The resumption secret covers the whole handshake.
tls13_derive_psk(server_hello, server_finished, client_finished, share, nonce, group) ==
    LET schedule == dhe_key_schedule(group, share, fn_no_psk)
    IN  Strict(<<schedule, server_hello, server_finished, client_finished, nonce>>,
               <<"psk", schedule, client_finished, nonce>>)
fn_derive_psk(server_hello, server_finished, client_finished, share, nonce, group) ==
    tls13_derive_psk(server_hello, server_finished, client_finished, share, nonce, group)

------------------------------------------------------------------------------
(* Records *)

Encrypt13(m, key, seq) == Strict(<<m, key>>, <<"ApplicationData", key, seq, m>>)
Decrypt13(record, key, seq) ==
    CASE record = Err \/ key = Err -> Err
      [] record # Err /\ key # Err ->
            IF record[1] = "ApplicationData" /\ record[2] = key /\ record[3] = seq THEN record[4] ELSE Err

\* The sender's key: that of the server if the fuzzer is a client.
fn_decrypt_handshake(record, server_hello, share, psk, group, client, seq) ==
    Decrypt13(record, tls13_handshake_traffic_secret(server_hello, share, psk, ~client, group), seq)
fn_encrypt_handshake(m, server_hello, share, psk, group, client, seq) ==
    Encrypt13(m, tls13_handshake_traffic_secret(server_hello, share, psk, client, group), seq)
fn_decrypt_application(record, server_hello, server_finished, share, psk, group, client, seq) ==
    Decrypt13(record,
              tls13_application_traffic_secret(server_hello, server_finished, share, psk, group, ~client), seq)

\* What a Finished message carries.
VerifyData(side, schedule, server_hello, transcript) ==
    <<"verify data", side, schedule, server_hello, transcript>>
fn_verify_data(server_finished, server_hello, share, psk, group) ==
    LET schedule == dhe_key_schedule(group, share, psk)
    IN  Strict(<<schedule, server_hello, server_finished>>,
               VerifyData("client", schedule, server_hello, server_finished))
fn_verify_data_server(server_finished, server_hello, share, group, psk) ==
    LET schedule == dhe_key_schedule(group, share, psk)
    IN  Strict(<<schedule, server_hello, server_finished>>,
               VerifyData("server", schedule, server_hello, server_finished))

\* fn_cert.rs: certificates are named after their owners, who have the keys.
fn_alice_cert == <<"alice">>
fn_alice_key == <<"alice">>
fn_bob_cert == <<"bob">>
fn_bob_key == <<"bob">>
fn_certificate_entry(cert) == <<"entry", cert>>
fn_empty_certificate_chain == List(<<>>)
fn_append_certificate_entry(entry, chain) == Push(chain, entry)
fn_get_context(m) ==
    CASE m = Err -> Err
      [] m # Err -> IF m[1] = "CertificateRequestTLS13" THEN m[2] ELSE Err
fn_rsa_pss_signature_algorithm == <<"RSA_PSS_SHA256">>
Signature(side, transcript, key, scheme) == <<"signature", side, transcript, key, scheme>>
fn_rsa_sign_client(transcript, key, scheme) ==
    Strict(<<transcript>>, Signature("client", transcript, key, scheme))
fn_rsa_sign_server(transcript, key, scheme) ==
    Strict(<<transcript>>, Signature("server", transcript, key, scheme))

\* Tickets and binders.
fn_get_ticket(m) == CASE m = Err -> Err
                      [] m # Err -> IF m[1] = "NewSessionTicketTLS13" THEN m[3] ELSE Err
fn_get_ticket_nonce(m) == CASE m = Err -> Err
                            [] m # Err -> IF m[1] = "NewSessionTicketTLS13" THEN m[2] ELSE Err
NoBinder == <<"no binder">>
fn_preshared_keys_extension_empty_binder(m) ==
    LET ticket == fn_get_ticket(m) IN Strict(<<ticket>>, <<"PresharedKey", ticket, NoBinder>>)

\* The binder covers the ClientHello without its binders.
WithBinder(ch, binder) ==
    IF ch[7][Len(ch[7])][1] = "PresharedKey" THEN [ch EXCEPT ![7][Len(ch[7])][3] = binder] ELSE ch
fn_derive_binder(ch, psk) == Strict(<<ch, psk>>, <<"binder", WithBinder(ch, NoBinder), psk>>)
fn_fill_binder(ch, binder) == IF ch = Err \/ binder = Err THEN Err ELSE WithBinder(ch, binder)

\* TLS 1.2.
fn_new_pubkey12(group) == deterministic_key_share(group)
fn_encode_ec_pubkey12(pubkey) == <<"point", pubkey>>
fn_decode_ecdh_pubkey(params) == Strict(<<params>>, params[2])
tls12_new_secrets(server_random, pubkey, group) ==
    IF server_random = Err \/ pubkey = Err THEN Err
    ELSE LET secret == tls13_key_exchange(pubkey, group)
         IN  Strict(<<secret>>, <<"master", secret, fn_new_random, server_random>>)
fn_sign_transcript(server_random, pubkey, transcript, group) ==
    LET secrets == tls12_new_secrets(server_random, pubkey, group)
    IN  Strict(<<secrets, transcript>>, <<"verify data 12", "client", secrets, transcript>>)
fn_encrypt12(m, server_random, pubkey, group, client, seq) ==
    LET secrets == tls12_new_secrets(server_random, pubkey, group)
    IN  Strict(<<m, secrets>>, <<"Encrypted12", <<Side(client), secrets>>, seq, m>>)
=============================================================================
