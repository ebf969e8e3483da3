------------------------------ MODULE TlsSeeds ------------------------------
(***************************************************************************)
(* The seed corpus of tlspuffin/src/tls/seeds.rs.                          *)
(*                                                                         *)
(* A seed is an operator on K, which gives each variable its value in the  *)
(* knowledge and claims so far: its steps hold the messages that the       *)
(* recipes yield, Err where a variable is not found or a symbol fails.     *)
(***************************************************************************)
EXTENDS Integers, Sequences, SequencesExt, KnowledgeQuery, TlsSymbols

------------------------------------------------------------------------------
(* Recipes *)

Input(agent, m) == [do |-> "input", agent |-> agent, m |-> m]
Output(agent) == [do |-> "output", agent |-> agent]

\* A variable of a recipe is a query; its value is the item found, or a claim of
\* the agent.
SeedVariables ==
    [agent : STRING, counter : Nat, typ : STRING,
     matcher : {<<>>, <<Plain("ApplicationData")>>} \cup [{1} -> [ct : {"Handshake"}, hs : [{1} -> STRING]]]]
Context(knowledge, claims) ==
    [v \in SeedVariables |->
        LET item == find_variable(knowledge, v)
            claim == find_claim(claims, v.agent, v.typ)
        IN  CASE item # {} -> knowledge[CHOOSE i \in item : TRUE].data
              [] item = {} /\ claim # {} -> claims[CHOOSE i \in claim : TRUE].data
              [] item = {} /\ claim = {} -> Err]
Queried(K, agent, counter, matcher, typ) ==
    K[[agent |-> agent, counter |-> counter, matcher |-> matcher, typ |-> typ]]

Known(K, agent, typ) == Queried(K, agent, 0, <<>>, typ)
Of(K, agent, hs, typ) == Queried(K, agent, 0, <<Handshake(<<hs>>)>>, typ)
App(K, agent, counter) == Queried(K, agent, counter, <<Plain("ApplicationData")>>, "Message")
Data(K, agent, counter) == fn_application_data(Queried(K, agent, counter, <<Plain("ApplicationData")>>, "Vec<u8>"))
Opaque(K, agent, counter) == fn_opaque_message(Queried(K, agent, counter, <<>>, "OpaqueMessage"))

\* Agents: AgentDescriptor::default authenticates the server and not the client.
\* tickets stands for the feature tls12-session-resumption of the build, which
\* decides between two seeds of TLS 1.2.
Descriptor(name, typ, version, auth) ==
    [name |-> name, typ |-> typ, version |-> version, auth |-> auth, server_auth |-> TRUE, tickets |-> FALSE]
Both(version) == <<Descriptor("client", "Client", version, FALSE), Descriptor("server", "Server", version, FALSE)>>

\* A ClientHello, and a ServerHello, as it was sent.
client_hello(K) ==
    fn_client_hello(Known(K, "client", "ProtocolVersion"), Known(K, "client", "Random"), Known(K, "client", "SessionID"),
                    Known(K, "client", "Vec<CipherSuite>"), Known(K, "client", "Vec<Compression>"),
                    Known(K, "client", "Vec<ClientExtension>"))
server_hello(K) ==
    fn_server_hello(Of(K, "server", "ServerHello", "ProtocolVersion"), Of(K, "server", "ServerHello", "Random"),
                    Of(K, "server", "ServerHello", "SessionID"), Of(K, "server", "ServerHello", "CipherSuite"),
                    Of(K, "server", "ServerHello", "Compression"), Of(K, "server", "ServerHello", "Vec<ServerExtension>"))

------------------------------------------------------------------------------
(* Seeds that pass messages on *)

seed_successful_client_auth(K) ==
    [priors |-> <<>>,
     descriptors |-> <<Descriptor("client", "Client", "V1_3", TRUE), Descriptor("server", "Server", "V1_3", TRUE)>>,
     steps |-> <<Output("client"), Input("server", client_hello(K)), Input("client", server_hello(K))>>
               \o [i \in 1..5 |-> Input("client", Data(K, "server", i - 1))]
               \o [i \in 1..3 |-> Input("server", Data(K, "client", i - 1))]]

seed_successful(K) ==
    [priors |-> <<>>, descriptors |-> Both("V1_3"),
     steps |-> <<Output("client"), Input("server", client_hello(K)), Input("client", server_hello(K))>>
               \o [i \in 1..4 |-> Input("client", Data(K, "server", i - 1))]
               \o <<Input("server", Data(K, "client", 0))>>]

\* The cipher suites of the client are replaced: "This should fail".
seed_successful_mitm(K) ==
    [seed_successful(K) EXCEPT !.steps[2].m =
        fn_client_hello(Known(K, "client", "ProtocolVersion"), Known(K, "client", "Random"),
                        Known(K, "client", "SessionID"),
                        fn_append_cipher_suite(fn_new_cipher_suites, fn_cipher_suite13_aes_128_gcm_sha256),
                        Known(K, "client", "Vec<Compression>"), Known(K, "client", "Vec<ClientExtension>"))]

seed_successful12(K) ==
    [priors |-> <<>>, descriptors |-> Both("V1_2"),
     steps |-> <<Output("client"),
                 Input("server", client_hello(K)),
                 Input("client", server_hello(K)),
                 Input("client", fn_certificate(Known(K, "server", "Vec<Certificate>"))),
                 Input("client", fn_server_key_exchange(Of(K, "server", "ServerKeyExchange", "Vec<u8>"))),
                 Input("client", fn_server_hello_done),
                 Input("server", fn_client_key_exchange(Of(K, "client", "ClientKeyExchange", "Vec<u8>"))),
                 Input("server", fn_change_cipher_spec),
                 Input("server", Opaque(K, "client", 3)),
                 Input("client", fn_change_cipher_spec),
                 Input("client", Opaque(K, "server", 5))>>]

\* Vec::insert counts from 0.
insert(steps, i, step) == InsertAt(steps, i + 1, step)

seed_successful12_with_tickets(K) ==
    LET trace == seed_successful12(K)
        ticket == fn_new_session_ticket(Known(K, "server", "u64"), Of(K, "server", "NewSessionTicket", "Vec<u8>"))
        steps == insert(trace.steps, 9, Input("client", ticket))
    IN  [trace EXCEPT !.steps = [steps EXCEPT ![12] = Input("client", Opaque(K, "server", 6))],
                      !.descriptors[1].tickets = TRUE, !.descriptors[2].tickets = TRUE]

seed_successful_with_ccs(K) ==
    [seed_successful(K) EXCEPT !.steps =
        insert(insert(@, 3, Input("client", fn_change_cipher_spec)), 8, Input("server", fn_change_cipher_spec))]

seed_successful_with_tickets(K) ==
    [seed_successful_with_ccs(K) EXCEPT !.steps =
        @ \o <<Output("server"), Input("client", Data(K, "server", 4)), Input("client", Data(K, "server", 5))>>]

------------------------------------------------------------------------------
(* Seeds in which the fuzzer is the server *)

seed_server_attacker_full(K) ==
    LET exts == Of(K, "client", "ClientHello", "Vec<ClientExtension>")
        curve == fn_get_any_client_curve(exts)
        sh == fn_server_hello(fn_protocol_version12, fn_new_random, Of(K, "client", "ClientHello", "SessionID"),
                  fn_cipher_suite13_aes_128_gcm_sha256, fn_compression,
                  fn_server_extensions_append(
                      fn_server_extensions_append(fn_server_extensions_new,
                                                  fn_key_share_deterministic_server_extension(curve)),
                      fn_supported_versions13_server_extension))
        server_hello_transcript ==
            fn_append_transcript(fn_append_transcript(fn_new_transcript, Of(K, "client", "ClientHello", "Message")), sh)
        encrypted_extensions == fn_encrypted_extensions(fn_server_extensions_new)
        certificate == fn_certificate13(fn_empty_bytes_vec,
                           fn_append_certificate_entry(fn_certificate_entry(fn_alice_cert), fn_empty_certificate_chain))
        certificate_transcript ==
            fn_append_transcript(fn_append_transcript(server_hello_transcript, encrypted_extensions), certificate)
        certificate_verify ==
            fn_certificate_verify(fn_rsa_pss_signature_algorithm,
                fn_rsa_sign_server(certificate_transcript, fn_alice_key, fn_rsa_pss_signature_algorithm))
        certificate_verify_transcript == fn_append_transcript(certificate_transcript, certificate_verify)
        share == fn_get_client_key_share(Known(K, "client", "Vec<ClientExtension>"), curve)
        server_finished ==
            fn_finished(fn_verify_data_server(certificate_verify_transcript, server_hello_transcript, share, curve,
                                              fn_no_psk))
        Sealed(m, seq) ==
            Input("client", fn_encrypt_handshake(m, server_hello_transcript, share, fn_no_psk, curve, FALSE, seq))
    IN  [priors |-> <<>>, descriptors |-> <<Descriptor("client", "Client", "V1_3", FALSE)>>,
         steps |-> <<Output("client"), Input("client", sh), Sealed(encrypted_extensions, 0), Sealed(certificate, 1),
                     Sealed(certificate_verify, 2), Sealed(server_finished, 3)>>]

------------------------------------------------------------------------------
(* Seeds in which the fuzzer is the client *)

attacker_hello(exts) ==
    fn_client_hello(fn_protocol_version12, fn_new_random, fn_new_session_id,
        fn_append_cipher_suite(fn_new_cipher_suites, fn_cipher_suite13_aes_128_gcm_sha256), fn_compressions, exts)

group == fn_named_group_secp384r1
Extensions(exts) ==
    FoldLeft(LAMBDA acc, e : fn_client_extensions_append(acc, e), fn_client_extensions_new, exts)

attacker_client_hello ==
    attacker_hello(Extensions(<<fn_support_group_extension(group), fn_signature_algorithm_extension,
        fn_key_share_deterministic_extension(group), fn_supported_versions13_extension>>))

Share(K, server) == fn_get_server_key_share(Known(K, server, "Vec<ServerExtension>"))
HelloTranscript(K, server) == fn_server_hello_transcript(Known(K, server, "TranscriptServerHello"))
FinishedTranscript(K, server) == fn_server_finished_transcript(Known(K, server, "TranscriptServerFinished"))

\* A message of the client under its handshake key.
SealedBy(K, server, m, seq) ==
    Input(server, fn_encrypt_handshake(m, HelloTranscript(K, server), Share(K, server), fn_no_psk, group, TRUE, seq))

seed_client_attacker_auth(K) ==
    LET server == "server"
        certificate_request_message ==
            fn_decrypt_handshake(App(K, server, 1), HelloTranscript(K, server), Share(K, server), fn_no_psk, group,
                                 TRUE, 1)
        certificate == fn_certificate13(fn_get_context(certificate_request_message),
                           fn_append_certificate_entry(fn_certificate_entry(fn_bob_cert), fn_empty_certificate_chain))
        certificate_verify ==
            fn_certificate_verify(fn_rsa_pss_signature_algorithm,
                fn_rsa_sign_client(fn_certificate_transcript(Known(K, server, "TranscriptCertificate")), fn_bob_key,
                                   fn_rsa_pss_signature_algorithm))
        client_finished ==
            fn_finished(fn_verify_data(FinishedTranscript(K, server), HelloTranscript(K, server), Share(K, server),
                                       fn_no_psk, group))
    IN  [priors |-> <<>>, descriptors |-> <<Descriptor(server, "Server", "V1_3", TRUE)>>,
         steps |-> <<Input(server, attacker_client_hello), SealedBy(K, server, certificate, 0),
                     SealedBy(K, server, certificate_verify, 1), SealedBy(K, server, client_finished, 2)>>]

seed_client_attacker(K, server) ==
    LET client_finished ==
            fn_finished(fn_verify_data(FinishedTranscript(K, server), HelloTranscript(K, server), Share(K, server),
                                       fn_no_psk, group))
    IN  [priors |-> <<>>, descriptors |-> <<Descriptor(server, "Server", "V1_3", FALSE)>>,
         steps |-> <<Input(server, attacker_client_hello), SealedBy(K, server, client_finished, 0), Output(server)>>]

seed_client_attacker12(K) ==
    LET server == "server"
        hello == fn_client_hello(fn_protocol_version12, fn_new_random, fn_new_session_id,
                     fn_append_cipher_suite(fn_new_cipher_suites, fn_cipher_suite12), fn_compressions,
                     Extensions(<<fn_support_group_extension(group), fn_signature_algorithm_extension,
                                  fn_ec_point_formats_extension, fn_signed_certificate_timestamp_extension,
                                  fn_renegotiation_info_extension(fn_empty_bytes_vec),
                                  fn_signature_algorithm_cert_extension>>))
        client_key_exchange == fn_client_key_exchange(fn_encode_ec_pubkey12(fn_new_pubkey12(group)))
        client_key_exchange_transcript ==
            FoldLeft(LAMBDA acc, m : fn_append_transcript(acc, m), fn_new_transcript12,
                     <<hello, Of(K, server, "ServerHello", "Message"), Of(K, server, "Certificate", "Message"),
                       Of(K, server, "ServerKeyExchange", "Message"), Of(K, server, "ServerHelloDone", "Message"),
                       client_key_exchange>>)
        pubkey == fn_decode_ecdh_pubkey(Of(K, server, "ServerKeyExchange", "Vec<u8>"))
        random == Known(K, server, "Random")
        client_verify_data == fn_sign_transcript(random, pubkey, client_key_exchange_transcript, group)
    IN  [priors |-> <<>>, descriptors |-> <<Descriptor(server, "Server", "V1_2", FALSE)>>,
         steps |-> <<Input(server, hello), Input(server, client_key_exchange), Input(server, fn_change_cipher_spec),
                     Input(server, fn_encrypt12(fn_finished(client_verify_data), random, pubkey, group, TRUE, 0))>>]

\* The whole transcript from the messages: the trace and the transcripts.
_seed_client_attacker_full(K, server) ==
    LET server_hello_transcript ==
            fn_append_transcript(fn_append_transcript(fn_new_transcript, attacker_client_hello),
                                 Of(K, server, "ServerHello", "Message"))
        Plaintext(i) ==
            fn_decrypt_handshake(App(K, server, i), server_hello_transcript, Share(K, server), fn_no_psk, group, TRUE, i)
        server_finished_transcript ==
            FoldLeft(LAMBDA acc, i : fn_append_transcript(acc, Plaintext(i)), server_hello_transcript, <<0, 1, 2, 3>>)
        client_finished ==
            fn_finished(fn_verify_data(server_finished_transcript, server_hello_transcript, Share(K, server), fn_no_psk,
                                       group))
    IN  [trace |-> [priors |-> <<>>, descriptors |-> <<Descriptor(server, "Server", "V1_3", FALSE)>>,
                    steps |-> <<Input(server, attacker_client_hello), Output(server),
                                Input(server, fn_encrypt_handshake(client_finished, server_hello_transcript,
                                                  Share(K, server), fn_no_psk, group, TRUE, 0)),
                                Output(server)>>],
         hello |-> server_hello_transcript, finished |-> server_finished_transcript,
         client |-> fn_append_transcript(server_finished_transcript, client_finished)]

seed_client_attacker_full(K) == _seed_client_attacker_full(K, "server").trace

------------------------------------------------------------------------------
(* Session resumption: the ticket of a prior trace, from its transcripts *)

new_ticket_message(K, hello, finished) ==
    fn_decrypt_application(App(K, "initial_server", 4), hello, finished, Share(K, "initial_server"), fn_no_psk, group,
                           TRUE, 0)
resumption_psk(K, hello, finished, client) ==
    fn_derive_psk(hello, finished, client,
        fn_get_server_key_share(Of(K, "initial_server", "ServerHello", "Vec<ServerExtension>")),
        fn_get_ticket_nonce(new_ticket_message(K, hello, finished)), group)
full_client_hello(ticket, mode, psk) ==
    LET hello == attacker_hello(Extensions(<<fn_support_group_extension(group), fn_signature_algorithm_extension,
                     fn_supported_versions13_extension, fn_key_share_deterministic_extension(group), mode,
                     fn_preshared_keys_extension_empty_binder(ticket)>>))
    IN  fn_fill_binder(hello, fn_derive_binder(hello, psk))

\* The second handshake, with the given mode, key share and transcripts.
Resumed(hello_message, hello, finished, share, psk) ==
    LET client_finished == fn_finished(fn_verify_data(finished, hello, share, fn_psk(psk), group))
    IN  <<Input("server", hello_message),
          Input("server", fn_encrypt_handshake(client_finished, hello, share, fn_psk(psk), group, TRUE, 0))>>

Resumption(K, mode, share) ==
    LET hello == HelloTranscript(K, "initial_server")
        finished == FinishedTranscript(K, "initial_server")
        client == fn_client_finished_transcript(Known(K, "initial_server", "TranscriptClientFinished"))
        psk == resumption_psk(K, hello, finished, client)
    IN  [priors |-> <<seed_client_attacker(K, "initial_server")>>,
         descriptors |-> <<Descriptor("server", "Server", "V1_3", FALSE)>>,
         steps |-> Resumed(full_client_hello(new_ticket_message(K, hello, finished), mode, psk),
                           HelloTranscript(K, "server"), FinishedTranscript(K, "server"), share, psk)]

ResumedShare(K) == fn_get_server_key_share(Of(K, "server", "ServerHello", "Vec<ServerExtension>"))
seed_session_resumption_dhe(K) == Resumption(K, fn_psk_exchange_mode_dhe_ke_extension, ResumedShare(K))
seed_session_resumption_ke(K) == Resumption(K, fn_psk_exchange_mode_ke_extension, fn_no_key_share)

\* The same with transcripts of the messages themselves, after a handshake that
\* has its own (first).
FullResumption(K, first, psk, hello_message) ==
    LET hello == fn_append_transcript(fn_append_transcript(fn_new_transcript, hello_message),
                                      Of(K, "server", "ServerHello", "Message"))
        Plaintext(i) ==
            fn_decrypt_handshake(App(K, "server", i), hello, ResumedShare(K), fn_psk(psk), group, TRUE, i)
        finished == fn_append_transcript(fn_append_transcript(hello, Plaintext(0)), Plaintext(1))
    IN  [priors |-> <<first.trace>>, descriptors |-> <<Descriptor("server", "Server", "V1_3", FALSE)>>,
         steps |-> Resumed(hello_message, hello, finished, ResumedShare(K), psk)]
OfferTicket(K, first, psk) ==
    FullResumption(K, first, psk, full_client_hello(new_ticket_message(K, first.hello, first.finished),
                                                    fn_psk_exchange_mode_dhe_ke_extension, psk))
AfterFull(K, first) == OfferTicket(K, first, resumption_psk(K, first.hello, first.finished, first.client))
seed_session_resumption_dhe_full(K) == AfterFull(K, _seed_client_attacker_full(K, "initial_server"))

\* create_corpus, and the seeds that only tests run.
create_corpus(name, K) ==
    CASE name = "seed_successful" -> seed_successful(K)
      [] name = "seed_successful_with_ccs" -> seed_successful_with_ccs(K)
      [] name = "seed_successful_with_tickets" -> seed_successful_with_tickets(K)
      [] name = "seed_successful12" -> seed_successful12(K)
      [] name = "seed_successful12_with_tickets" -> seed_successful12_with_tickets(K)
      [] name = "seed_client_attacker" -> seed_client_attacker(K, "server")
      [] name = "seed_client_attacker_auth" -> seed_client_attacker_auth(K)
      [] name = "seed_client_attacker12" -> seed_client_attacker12(K)
      [] name = "seed_session_resumption_dhe" -> seed_session_resumption_dhe(K)
      [] name = "seed_session_resumption_ke" -> seed_session_resumption_ke(K)
      [] name = "seed_server_attacker_full" -> seed_server_attacker_full(K)
test_seeds(name, K) ==
    CASE name = "seed_successful_client_auth" -> seed_successful_client_auth(K)
      [] name = "seed_successful_mitm" -> seed_successful_mitm(K)
      [] name = "seed_client_attacker_full" -> seed_client_attacker_full(K)
      [] name = "seed_session_resumption_dhe_full" -> seed_session_resumption_dhe_full(K)
      [] OTHER -> create_corpus(name, K)
=============================================================================
