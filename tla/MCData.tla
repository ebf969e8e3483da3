------------------------------- MODULE MCData -------------------------------
(* The data of an execution: the claims and the policy on them, the          *)
(* knowledge and the queries on it, the messages on the wire, and handshake  *)
(* messages in fragments.  A behaviour is one of the component chosen at its *)
(* start.                                                                    *)
EXTENDS ClaimLog, Knowledge, MessageExchange, HandshakeFlow

(***************************************************************************)
(* Claims that deviate from an honest session in at most one respect       *)
(***************************************************************************)
Honest(o, n) ==
    [kind |-> "Finished", outbound |-> FALSE, agent |-> n, origin |-> o,
     version |-> "V1_3", secret |-> "k", server_random |-> "r", client_random |-> "r",
     cipher |-> "c1", available |-> <<"c1", "c2">>, sig |-> "s", peer_sig |-> "s",
     session_id |-> <<1>>, auth |-> TRUE,
     cert |-> IF o = "Server" THEN "bob" ELSE "alice"]

Deviations(c) ==
    {c, [c EXCEPT !.version = "V1_2"],
     [c EXCEPT !.version = "V1_2", !.session_id = <<>>],
     [c EXCEPT !.secret = "x"], [c EXCEPT !.server_random = "x"],
     [c EXCEPT !.client_random = "x"], [c EXCEPT !.cipher = "c2"],
     [c EXCEPT !.cipher = "c2", !.available = <<"c2", "c1">>],
     [c EXCEPT !.available = <<>>], [c EXCEPT !.available = <<"c3", "c2">>],
     [c EXCEPT !.sig = "x"], [c EXCEPT !.peer_sig = "x"],
     [c EXCEPT !.session_id = <<>>], [c EXCEPT !.session_id = <<2>>],
     [c EXCEPT !.cert = "eve"], [c EXCEPT !.cert = "eve", !.auth = FALSE],
     [c EXCEPT !.outbound = TRUE, !.cert = "eve"],
     [c EXCEPT !.kind = "ServerHello", !.cert = "eve"]}

MCClaims ==
    Deviations(Honest("Client", "a1")) \cup Deviations(Honest("Server", "a2"))
        \cup {Honest("Server", "a1"), [Honest("Server", "a3") EXCEPT !.cert = "eve"]}

(***************************************************************************)
(* Knowledge: opaque data (no matcher), an encrypted handshake message,    *)
(* two kinds of handshake message and an alert, mostly of one agent        *)
(***************************************************************************)
Matchers == {<<>>, <<Handshake(<<>>)>>, <<Handshake(<<"ServerHello">>)>>,
             <<Handshake(<<"Finished">>)>>, <<Plain("Alert")>>}

MCItems ==
    [agent : {"a1"}, matcher : Matchers, typ : {"t1"}]
        \cup {[agent |-> "a2", matcher |-> <<Plain("Alert")>>, typ |-> "t1"],
              [agent |-> "a1", matcher |-> <<Plain("Alert")>>, typ |-> "t2"]}

MCQueries ==
    [agent : {"a1"}, matcher : Matchers, typ : {"t1"}, counter : 0..2]

(***************************************************************************)
(* Messages that the function symbols build, with every extension of every *)
(* kind at least once                                                      *)
(***************************************************************************)
Data == <<1, 2>>
Long == Bytes42(300)
random == [i \in 1 .. 32 |-> i]

Hello(extensions) == fn_client_hello(TLSv1_2, random, Data, <<49195, 4865>>, <<0>>, extensions)
ServersHello(extensions) == fn_server_hello(TLSv1_2, random, <<>>, 4865, 0, extensions)
Ticket(extensions) == fn_new_session_ticket13(Data, <<7, 8>>, extensions)
As13(m) == [m EXCEPT !.version = TLSv1_3]

ClientExtensions ==
  <<fn_server_name_extension, fn_status_request_extension(<<Data>>, Data),
    fn_support_group_extension(24), fn_ec_point_formats_extension,
    fn_signature_algorithm_extension, fn_al_protocol_negotiation(<<Data, <<>>>>),
    fn_signed_certificate_timestamp_extension, fn_extended_master_secret_extension,
    fn_session_ticket_request_extension, fn_session_ticket_offer_extension(Data),
    fn_early_data_extension, fn_supported_versions12_extension, fn_supported_versions13_extension,
    fn_cookie_extension(Data), fn_psk_exchange_mode_dhe_ke_extension,
    fn_psk_exchange_mode_ke_extension, fn_signature_algorithm_cert_extension,
    fn_key_share_extension(Data, 24), fn_transport_parameters_extension(Data),
    fn_transport_parameters_draft_extension(Data), fn_unknown_client_extension>>
ServerExtensions ==
  <<fn_server_name_server_extension, fn_status_request_server_extension,
    fn_ec_point_formats_server_extension, fn_al_protocol_server_negotiation(<<Data>>),
    fn_signed_certificate_timestamp_server_extension, fn_extended_master_secret_server_extension,
    fn_session_ticket_server_extension, fn_preshared_keys_server_extension(65537),
    fn_early_data_server_extension, fn_supported_versions12_server_extension,
    fn_supported_versions13_server_extension, fn_key_share_server_extension(Data, 24),
    fn_transport_parameters_server_extension(Data), fn_renegotiation_info_server_extension(Data),
    fn_transport_parameters_draft_server_extension(Data), fn_unknown_server_extension>>

MCMessages ==
  <<Hello(fn_client_extensions_new),
    Hello(ClientExtensions),
    Hello(<<fn_renegotiation_info_extension(Data)>>),
    Hello(<<fn_al_protocol_negotiation(fn_append_vec(fn_empty_vec_of_vec, Long))>>),
    Hello(fn_client_extensions_append(<<fn_support_group_extension(24)>>,
                                      fn_preshared_keys_extension_empty_binder(Ticket(<<>>)))),
    ServersHello(fn_server_extensions_new),
    ServersHello(ServerExtensions),
    ServersHello(fn_server_extensions_append(<<>>, fn_renegotiation_info_server_extension(Long))),
    fn_hello_retry_request(TLSv1_2, <<>>, 4865,
      fn_hello_retry_extensions_append(
        fn_hello_retry_extensions_append(fn_hello_retry_extensions_new,
                                         fn_supported_versions13_hello_retry_extension),
        fn_key_share_hello_retry_extension(24))),
    fn_hello_retry_request(TLSv1_2, <<>>, 4865,
      <<fn_cookie_hello_retry_extension(Data), fn_supported_versions12_hello_retry_extension,
        fn_unknown_hello_retry_extension>>),
    fn_encrypted_extensions(ServerExtensions),
    fn_certificate(<<Data, <<>>>>),
    As13(fn_certificate13(<<>>,
      <<<<Data, fn_cert_extensions_append(fn_cert_extensions_new,
                  fn_status_request_certificate_extension(Data))>>,
        <<Data, <<fn_signed_certificate_timestamp_certificate_extension,
                  fn_unknown_certificate_extension>>>>>>)),
    fn_certificate13(<<>>, <<<<Data, <<>>>>>>),
    fn_server_key_exchange(Encode(ECDHEServerKeyExchange, <<<<<<3, 24>>, Data>>, <<2052, Data>>>>)),
    fn_certificate_request,
    As13(fn_certificate_request13(Data,
      fn_cert_req_extensions_append(fn_cert_req_extensions_new,
                                    fn_signature_algorithm_cert_req_extension))),
    As13(fn_certificate_request13(<<>>, <<fn_certificate_authorities_extension,
                                          fn_unknown_cert_request_extension>>)),
    As13(fn_certificate_request13(<<>>, <<<<13, <<>>>>>>)),
    fn_server_hello_done, fn_certificate_verify(2052, Data), fn_client_key_exchange(Data),
    fn_new_session_ticket(300, Data), Ticket(fn_new_session_ticket_extensions_new),
    As13(Ticket(fn_new_session_ticket_extensions_append(<<>>,
                  fn_early_data_new_session_ticket_extension(70000)))),
    As13(Ticket(<<fn_unknown_new_session_ticket_extension>>)),
    fn_finished(Data), fn_certificate_status(Data), fn_key_update, fn_key_update_not_requested,
    fn_message_hash(Data), fn_hello_request, fn_empty_handshake_message, fn_alert_close_notify,
    fn_change_cipher_spec, fn_application_data(<<>>), fn_application_data(Data),
    fn_application_data(Bytes42(MAX_PAYLOAD - 1)), fn_application_data(Bytes42(MAX_PAYLOAD)),
    fn_application_data(Bytes42(65535)), fn_application_data(Bytes42(65539)),
    fn_heartbeat(Data)>>

MCBinders == {[i \in 1 .. 32 |-> 7], [i \in 1 .. 31 |-> 7]}
MCCutPoints == 0 .. 60

(***************************************************************************)
(* Handshake messages of many lengths: one that ends a byte behind a       *)
(* fragment, one that may not be on the wire, one that is too long         *)
(***************************************************************************)
MCFlowMessages ==
  <<Hello(<<>>).payload[2], fn_server_hello_done.payload[2], fn_finished(Zeroes(24)).payload[2],
    fn_message_hash(Data).payload[2], fn_certificate(<<Bytes42(120)>>).payload[2]>>

MCReadingOf(b) == read_version(b, TLSv1_2)

\* What follows a message in the buffer makes no difference to its reader.
ASSUME ReaderStopsAtTheMessage ==
  \A i, j \in DOMAIN MCFlowMessages :
    LET b == EncodeHandshake(MCFlowMessages[i])
        behind == EncodeHandshake(MCFlowMessages[j])
    IN MCReadingOf(b \o behind) = IF MCReadingOf(b).ok THEN Some(MCReadingOf(b).value, behind)
                                  ELSE Nothing

VARIABLE which
DataVars == <<which, claims, knowledge, exchangeVars, flowVars>>

DataInit ==
  /\ which \in {"claims", "knowledge", "exchange", "flow"}
  /\ ClaimInit /\ KnowledgeInit /\ ExchangeInit /\ FlowInit

ClaimStep == which = "claims" /\ ClaimNext /\ UNCHANGED <<which, knowledge, exchangeVars, flowVars>>
KnowledgeStep == which = "knowledge" /\ KnowledgeNext /\ UNCHANGED <<which, claims, exchangeVars, flowVars>>
ExchangeStep == which = "exchange" /\ ExchangeNext /\ UNCHANGED <<which, claims, knowledge, flowVars>>
FlowStep == which = "flow" /\ FlowNext /\ UNCHANGED <<which, claims, knowledge, exchangeVars>>

DataNext == ClaimStep \/ KnowledgeStep \/ ExchangeStep \/ FlowStep

DataSpec == DataInit /\ [][DataNext]_DataVars
=============================================================================
