------------------------------- MODULE TlsPeer -------------------------------
(***************************************************************************)
(* The TLS library behind a PUT, as far as the traces of tlspuffin drive   *)
(* it: an honest client or server for TLS 1.2 and 1.3 that takes one       *)
(* record and returns what it sends.  External: modelled from what the     *)
(* seeds and the callbacks of the PUT rely on.                             *)
(*                                                                         *)
(* A peer is a record:                                                     *)
(*   name, typ, version, auth, ctx   what it was made with; the context    *)
(*                                   holds the keys of tickets             *)
(*   tickets     the library is built with tickets of TLS 1.2              *)
(*   st          what it waits for, "done" or "error"                      *)
(*   log         its transcript                                            *)
(*   keys        the schedule and transcript that its keys come from       *)
(*   rseq, wseq  sequence numbers; encrypted: has seen ChangeCipherSpec    *)
(*   out         records sent                                              *)
(*   events      the calls of the message callback, in order               *)
(***************************************************************************)
EXTENDS Integers, Sequences, SequencesExt, TlsSymbols

NewPeer(name, d, ctx) ==
    [name |-> name, typ |-> d.typ, version |-> d.version, auth |-> d.auth, tickets |-> d.tickets, ctx |-> ctx,
     st |-> "start", log |-> fn_new_transcript, schedule |-> Err, hello |-> Err, random |-> Err,
     certified |-> FALSE, psk |-> FALSE, encrypted |-> FALSE, rseq |-> 0, wseq |-> 0,
     out |-> <<>>, events |-> <<>>]

\* server_state = SERVER_HELLO_COMPLETE: the transcript ends with the ServerHello.
HelloComplete(p) == Len(p.log) > 1 /\ p.log[Len(p.log)][1] = "ServerHello"
Event(p, type, outbound) ==
    [p EXCEPT !.events = Append(@, [type |-> type, outbound |-> outbound,
                                    hello |-> HelloComplete(p), log |-> p.log])]
Hash(p, m) == [p EXCEPT !.log = Append(@, m)]
Fail(p) == [p EXCEPT !.st = "error", !.out = Append(@, <<"Alert">>)]

\* The callback sees a message before the transcript does.
Send(p, m) == [Hash(Event(p, m[1], TRUE), m) EXCEPT !.out = Append(@, m)]
SendCcs(p) == [Event(p, "ChangeCipherSpec", TRUE) EXCEPT !.out = Append(@, <<"ChangeCipherSpec">>)]
Receive(p, m) == Hash(Event(p, m[1], FALSE), m)

Mine(p) == Side(p.typ = "Client")
Peers(p) == Side(p.typ = "Server")
HandshakeKey(p, side) == <<"handshake key", side, p.schedule, p.hello>>
SendEncrypted(p, m) ==
    [Hash(Event(p, m[1], TRUE), m) EXCEPT
        !.out = Append(@, Encrypt13(m, HandshakeKey(p, Mine(p)), p.wseq)), !.wseq = @ + 1]
SendFinished13(p) == SendEncrypted(p, <<"Finished", VerifyData(Mine(p), p.schedule, p.hello, p.log)>>)

\* Certificate and CertificateVerify.
OwnCertificate(p) == IF p.typ = "Server" THEN fn_alice_cert ELSE fn_bob_cert
SendCertificate13(p) ==
    LET q == SendEncrypted(p, fn_certificate13(fn_empty_bytes_vec,
                                  List(<<fn_certificate_entry(OwnCertificate(p))>>)))
    IN  SendEncrypted(q, <<"CertificateVerify", fn_rsa_pss_signature_algorithm,
                           Signature(Mine(p), q.log, OwnCertificate(p), fn_rsa_pss_signature_algorithm)>>)

------------------------------------------------------------------------------
(* TLS 1.3 *)

Suites13 == <<<<"TLS13_AES_256_GCM_SHA384">>, fn_cipher_suite13_aes_128_gcm_sha256>>
Group == fn_named_group_secp384r1
ClientHello13(name) ==
    fn_client_hello(fn_protocol_version12, <<"random", name>>, <<"session", name>>, List(Suites13), fn_compressions,
        List(<<fn_support_group_extension(Group), fn_signature_algorithm_extension,
               fn_supported_versions13_extension, <<"KeyShare", PublicKey(name, Group)>>>>))

\* The PSK that a ClientHello offers, if the ticket is one of this server's
\* context, the binder is right, and the mode allows it.
OfferedPsk(p, ch) ==
    LET last == ch[7][Len(ch[7])]
    IN  IF last[1] = "PresharedKey"
        THEN IF last[2][2] = p.ctx /\ last[3] = fn_derive_binder(ch, last[2][3]) THEN last[2][3] ELSE Err
        ELSE fn_no_psk

ServerFlight13(p, ch) ==
    LET exts == ch[7]
        psk == OfferedPsk(p, ch)
        offered == Elements(ch[5])
        suites == SelectSeq(Suites13, LAMBDA s : \E i \in DOMAIN offered : offered[i] = s)
        ke == psk # fn_no_psk /\ find_extension(exts, "PresharedKeyModes") = fn_psk_exchange_mode_ke_extension
        share == find_extension(exts, "KeyShare")
        secret == IF ke THEN <<"zeroes">> ELSE SharedSecret(p.name, share[2])
        sh == <<"ServerHello", fn_protocol_version12, <<"random", p.name>>, ch[4], suites[1], fn_compression,
                List((IF ke THEN <<>> ELSE <<<<"KeyShare", PublicKey(p.name, share[2][3])>>>>)
                     \o <<fn_supported_versions13_server_extension>>)>>
        hello == Send(Receive(p, ch), sh)
        keyed == [SendCcs(hello) EXCEPT !.schedule = <<"schedule", secret, psk>>, !.hello = hello.log]
        ee == SendEncrypted(keyed, fn_encrypted_extensions(List(<<>>)))
        cr == IF p.auth /\ psk = fn_no_psk
              THEN SendEncrypted(ee, <<"CertificateRequestTLS13", fn_empty_bytes_vec>>) ELSE ee
        cert == IF psk = fn_no_psk THEN SendCertificate13(cr) ELSE cr
    IN  IF psk = Err \/ suites = <<>> \/ share = Err
            \/ find_extension(exts, "SupportedVersions") # fn_supported_versions13_extension
        THEN Fail(p)
        ELSE [SendFinished13(cert) EXCEPT !.st = IF p.auth /\ psk = fn_no_psk THEN "certificate" ELSE "finished",
                                          !.rseq = 0]

\* The end of a server's handshake: two tickets under the application key.
Tickets13(p, flight) ==
    LET ticket(n) == <<"NewSessionTicketTLS13", <<"nonce", n>>,
                       <<"ticket", p.ctx, <<"psk", p.schedule, p.log, <<"nonce", n>>>>>>>>
        key == <<"application key", "server", p.schedule, flight>>
    IN  [p EXCEPT !.st = "done", !.wseq = 2,
                  !.out = @ \o <<Encrypt13(ticket(0), key, 0), Encrypt13(ticket(1), key, 1)>>]

CertificateOk(p, m) ==
    m[1] = "CertificateTLS13" /\ m[3] = List(<<fn_certificate_entry(IF p.typ = "Server" THEN fn_bob_cert ELSE fn_alice_cert)>>)
VerifyOk(p, m) ==
    /\ m[1] = "CertificateVerify"
    /\ m[3] = Signature(Peers(p), p.log, IF p.typ = "Server" THEN fn_bob_key ELSE fn_alice_key, m[2])
FinishedOk13(p, m) == m = <<"Finished", VerifyData(Peers(p), p.schedule, p.hello, p.log)>>

\* The transcript at the end of the server's flight: without what the client
\* has sent since.
ServerFlightLog(p) ==
    SubSeq(p.log, 1, CHOOSE i \in DOMAIN p.log :
        /\ i > 1 /\ p.log[i][1] = "Finished"
        /\ \A j \in 2..(i - 1) : p.log[j][1] # "Finished")

Server13Encrypted(p, m) ==
    CASE p.st = "certificate" /\ CertificateOk(p, m) -> [Receive(p, m) EXCEPT !.st = "verify", !.certified = TRUE]
      [] p.st = "verify" /\ VerifyOk(p, m) -> [Receive(p, m) EXCEPT !.st = "finished"]
      [] p.st = "finished" /\ FinishedOk13(p, m) -> Tickets13(Receive(p, m), ServerFlightLog(p))
      [] OTHER -> Fail(p)

Client13Encrypted(p, m) ==
    CASE p.st = "extensions" /\ m[1] = "EncryptedExtensions" -> [Receive(p, m) EXCEPT !.st = "certificate"]
      [] p.st = "certificate" /\ m[1] = "CertificateRequestTLS13" -> Receive(p, m)
      [] p.st = "certificate" /\ CertificateOk(p, m) -> [Receive(p, m) EXCEPT !.st = "verify", !.certified = TRUE]
      [] p.st = "verify" /\ VerifyOk(p, m) -> [Receive(p, m) EXCEPT !.st = "finished"]
      [] p.st = "finished" /\ FinishedOk13(p, m) ->
            LET q == Receive(p, m)
            IN  [SendFinished13(IF p.auth THEN SendCertificate13(q) ELSE q) EXCEPT !.st = "done", !.rseq = 0]
      [] p.st = "done" /\ m[1] = "NewSessionTicketTLS13" -> p
      [] OTHER -> Fail(p)

\* The key that a peer reads with.
ReadKey13(p) ==
    IF p.st = "done" THEN <<"application key", Peers(p), p.schedule, ServerFlightLog(p)>>
    ELSE HandshakeKey(p, Peers(p))

ClientHelloDone13(p, sh) ==
    LET share == find_extension(sh[7], "KeyShare")
        q == Receive(p, sh)
    IN  IF share = Err \/ \A i \in DOMAIN Suites13 : sh[5] # Suites13[i] THEN Fail(p)
        ELSE [q EXCEPT !.st = "extensions", !.schedule = <<"schedule", SharedSecret(p.name, share[2]), fn_no_psk>>,
                       !.hello = q.log]

Take13(p, r) ==
    CASE r[1] = "ChangeCipherSpec" /\ p.st \notin {"start", "hello", "done"} -> Event(p, "ChangeCipherSpec", FALSE)
      [] r[1] = "ClientHello" /\ p.typ = "Server" /\ p.st = "start" -> ServerFlight13(p, r)
      [] r[1] = "ServerHello" /\ p.typ = "Client" /\ p.st = "hello" -> ClientHelloDone13(p, r)
      [] r[1] = "ApplicationData" /\ p.hello # Err /\ Decrypt13(r, ReadKey13(p), p.rseq) # Err ->
            LET q == [p EXCEPT !.rseq = @ + 1]
            IN  IF p.typ = "Server" THEN Server13Encrypted(q, r[4]) ELSE Client13Encrypted(q, r[4])
      [] OTHER -> Fail(p)

------------------------------------------------------------------------------
(* TLS 1.2 *)

\* create_client forces the request of a ticket: use_session_ticket.
TicketExtension == <<"SessionTicket">>
ClientHello12(p) ==
    fn_client_hello(fn_protocol_version12, <<"random", p.name>>, <<"session", p.name>>, List(<<fn_cipher_suite12>>),
        fn_compressions,
        List(<<fn_support_group_extension(Group), TicketExtension>>))

Master(secret, client_random, server_random) == <<"master", secret, client_random, server_random>>
Finished12(p, side) == <<"Finished", <<"verify data 12", side, p.schedule, p.log>>>>
SendFinished12(p) ==
    LET m == Finished12(p, Mine(p))
        q == SendCcs(p)
    IN  [Hash(Event(q, "Finished", TRUE), m) EXCEPT
            !.out = Append(@, <<"Encrypted12", <<Mine(p), p.schedule>>, 0, m>>)]

ServerFlight12(p, ch) ==
    LET sh == <<"ServerHello", fn_protocol_version12, <<"random", p.name>>, ch[4], fn_cipher_suite12, fn_compression,
                List(<<>>)>>
        q == FoldLeft(LAMBDA acc, m : Send(acc, m), Receive(p, ch),
                      <<sh, fn_certificate(List(<<fn_alice_cert>>)),
                        fn_server_key_exchange(<<"params", PublicKey(p.name, Group)>>), fn_server_hello_done>>)
    IN  IF \A i \in 2..Len(ch[5]) : ch[5][i] # fn_cipher_suite12 THEN Fail(p)
        ELSE [q EXCEPT !.st = "client key", !.hello = sh, !.random = ch[3],
                       !.psk = p.tickets /\ \E i \in 2..Len(ch[7]) : ch[7][i] = TicketExtension]

Server12(p, m) ==
    CASE p.st = "client key" /\ m[1] = "ClientKeyExchange" ->
            [Receive(p, m) EXCEPT !.st = "finished",
                !.schedule = Master(SharedSecret(p.name, m[2][2]), p.random, p.hello[3])]
      [] p.st = "finished" /\ p.encrypted /\ m = Finished12(p, "client") ->
            LET q == Receive(p, m)
            IN  [SendFinished12(IF p.psk THEN Send(q, <<"NewSessionTicket", <<"lifetime">>, <<"ticket", p.ctx>>>>) ELSE q)
                 EXCEPT !.st = "done"]
      [] OTHER -> Fail(p)

ClientFlight12(p) ==
    LET q == Send(p, fn_client_key_exchange(<<"point", PublicKey(p.name, Group)>>))
    IN  [SendFinished12(q) EXCEPT !.st = "server finished"]

Client12(p, m) ==
    CASE p.st = "hello" /\ m[1] = "ServerHello" -> [Receive(p, m) EXCEPT !.st = "certificate", !.hello = m]
      [] p.st = "certificate" /\ m = fn_certificate(List(<<fn_alice_cert>>)) ->
            [Receive(p, m) EXCEPT !.st = "server key", !.certified = TRUE]
      [] p.st = "server key" /\ m[1] = "ServerKeyExchange" ->
            [Receive(p, m) EXCEPT !.st = "hello done",
                !.schedule = Master(SharedSecret(p.name, m[2][2]), <<"random", p.name>>, p.hello[3])]
      [] p.st = "hello done" /\ m[1] = "ServerHelloDone" -> ClientFlight12(Receive(p, m))
      [] p.st = "server finished" /\ m[1] = "NewSessionTicket" /\ ~p.encrypted -> Receive(p, m)
      [] p.st = "server finished" /\ p.encrypted /\ m = Finished12(p, "server") -> [Receive(p, m) EXCEPT !.st = "done"]
      [] OTHER -> Fail(p)

Take12(p, r) ==
    CASE r[1] = "ChangeCipherSpec" /\ p.st \in {"finished", "server finished"} /\ ~p.encrypted ->
            [Event(p, "ChangeCipherSpec", FALSE) EXCEPT !.encrypted = TRUE]
      [] r[1] = "ClientHello" /\ p.typ = "Server" /\ p.st = "start" -> ServerFlight12(p, r)
      [] r[1] = "Encrypted12" /\ p.encrypted /\ r[2] = <<Peers(p), p.schedule>> /\ r[3] = 0 ->
            IF p.typ = "Server" THEN Server12(p, r[4]) ELSE Client12(p, r[4])
      [] r[1] \notin {"ChangeCipherSpec", "ClientHello", "Encrypted12", "ApplicationData"} /\ p.st # "start" ->
            IF p.typ = "Server" THEN Server12(p, r) ELSE Client12(p, r)
      [] OTHER -> Fail(p)

------------------------------------------------------------------------------
\* do_handshake of a client sends its ClientHello before it reads.
Start(p) ==
    IF p.typ = "Client" /\ p.st = "start"
    THEN [Send(p, IF p.version = "V1_3" THEN ClientHello13(p.name) ELSE ClientHello12(p)) EXCEPT !.st = "hello"]
    ELSE p

Take(p, r) == IF p.version = "V1_3" THEN Take13(p, r) ELSE Take12(p, r)

\* do_handshake, or ssl_read: everything that has arrived, up to an error.
Drive(p, records) ==
    FoldLeft(LAMBDA acc, r : CHOOSE q \in {IF x.st = "error" THEN x ELSE Take(x, r) : x \in {acc}} : TRUE,
             Start(p), records)
==============================================================================
