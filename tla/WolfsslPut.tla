----------------------------- MODULE WolfsslPut -----------------------------
(***************************************************************************)
(* The WolfSSL PUT of tlspuffin/src/wolfssl/mod.rs: it drives a TLS        *)
(* library, and claims the transcripts that recipes need.  A transcript is *)
(* wanted at the end of a flight, so that the message callback only notes  *)
(* the request, in a cell that holds one, and progress serves it.          *)
(*                                                                         *)
(* A PUT is a record: agent (its name), callback (the name in the message  *)
(* callback of its context), descriptor, peer, inbound, deferred (Option), *)
(* and lost, set when a request replaces one that was not served.          *)
(***************************************************************************)
EXTENDS Integers, Sequences, SequencesExt, TlsPeer

\* WolfSSL::new with create_client_ctx or create_server_ctx.
create(d, ctx) ==
    [agent |-> d.name, callback |-> d.name, descriptor |-> d, inbound |-> <<>>,
     peer |-> NewPeer(<<d.name, 0>>, d, ctx), deferred |-> <<>>, lost |-> FALSE]

authenticate_peer(d) == (d.typ = "Client" /\ d.server_auth) \/ (d.typ = "Server" /\ d.auth)

------------------------------------------------------------------------------
Claim(put, agent, kind, log) ==
    [kind |-> kind, agent |-> agent, origin |-> put.descriptor.typ, version |-> put.descriptor.version, data |-> log]

\* The claim of an inbound Finished; what is not known yet has a default.
FinishedClaim(put) ==
    [kind |-> "Finished", agent |-> put.callback, origin |-> put.descriptor.typ,
     version |-> put.descriptor.version, outbound |-> FALSE, auth |-> authenticate_peer(put.descriptor),
     cert |-> IF ~put.peer.certified THEN "none" ELSE IF put.descriptor.typ = "Server" THEN "bob" ELSE "alice",
     secret |-> 0, server_random |-> 0, client_random |-> 0, session_id |-> <<>>,
     cipher |-> 0, available |-> <<>>, sig |-> 0, peer_sig |-> 0, data |-> <<"Finished">>]

\* The cell of the request: a second one replaces the first.
Defer(put, kind) ==
    [put EXCEPT !.deferred = <<kind>>, !.lost = @ \/ (put.deferred # <<>> /\ put.deferred # <<kind>>)]

\* Mutant: the transcript is extracted in the callback.
msg_callback_NotDeferred(acc, e) ==
    IF ~e.outbound /\ e.type = "Finished"
    THEN [acc EXCEPT !.claims = @ \o <<FinishedClaim(acc.put), Claim(acc.put, acc.put.agent, "TranscriptClientFinished", e.log)>>]
    ELSE IF e.hello
    THEN [acc EXCEPT !.claims = @ \o <<Claim(acc.put, acc.put.callback, "TranscriptServerHello", e.log),
                                       Claim(acc.put, acc.put.agent, "TranscriptServerFinished", e.log)>>]
    ELSE acc

\* The message callback: first the type of an inbound message, then the state
\* of the handshake.
msg_callback(acc, e) ==
    LET inbound ==
            CASE e.outbound -> acc
              [] ~e.outbound /\ e.type \in {"Certificate", "CertificateTLS13"} ->
                    [acc EXCEPT !.put = Defer(@, "TranscriptCertificate")]
              [] ~e.outbound /\ e.type = "CertificateVerify" ->
                    [acc EXCEPT !.put = Defer(@, "TranscriptServerFinished")]
              [] ~e.outbound /\ e.type = "Finished" ->
                    [put |-> Defer(acc.put, "TranscriptClientFinished"),
                     claims |-> Append(acc.claims, FinishedClaim(acc.put))]
              [] OTHER -> acc
    IN  IF e.hello
        THEN [put |-> Defer(inbound.put, "TranscriptServerFinished"),
              claims |-> Append(inbound.claims,
                                Claim(acc.put, acc.put.callback, "TranscriptServerHello", e.log))]
        ELSE inbound

\* extract_current_transcript: none once the library has freed the hashes of a
\* handshake, which it may do at the end of one of TLS 1.2.
extract_current_transcript(peer) ==
    {<<peer.log>>} \cup (IF peer.version = "V1_2" /\ peer.st = "done" THEN {<<>>} ELSE {})

\* Take the request, if there is one, and serve it from the transcript as it is
\* now, if there is one.
deferred_transcript_extraction(acc) ==
    IF acc.put.deferred = <<>> THEN {acc}
    ELSE {[put |-> [acc.put EXCEPT !.deferred = <<>>],
           claims |-> acc.claims \o [i \in DOMAIN transcript |->
                                       Claim(acc.put, acc.put.agent, acc.put.deferred[1], transcript[i])]]
            : transcript \in extract_current_transcript(acc.put.peer)}

rename_agent(put, name) == [put EXCEPT !.agent = name, !.callback = name]

\* reset with a new stream of the same context (use_clear is off).
reset(put) ==
    [put EXCEPT !.peer = NewPeer(<<put.peer.name[1], put.peer.name[2] + 1>>, put.descriptor, @.ctx), !.inbound = <<>>]

is_state_successful(put) == put.peer.st = "done"

\* MaybeError: WouldBlock is no error, an error of the library is.
IsError(put) == put.peer.st = "error"

\* progress: do_handshake or ssl_read, during which the callback runs, then the
\* deferred extraction, also after an error.  The set of outcomes.
progress(put, claims) ==
    LET peer == Drive(put.peer, put.inbound)
        called == FoldLeft(LAMBDA acc, e : CHOOSE r \in {msg_callback(x, e) : x \in {acc}} : TRUE,
                           [put |-> [put EXCEPT !.peer = [peer EXCEPT !.events = <<>>], !.inbound = <<>>],
                            claims |-> claims],
                           peer.events)
    IN  deferred_transcript_extraction(called)
=============================================================================
