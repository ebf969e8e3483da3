------------------------------ MODULE SshSession ------------------------------
(***************************************************************************)
(* An SSH client and an SSH server of sshpuffin/src/ssh/russh, connected   *)
(* by two reliable streams: the first key exchange, authentication,        *)
(* channels, key re-exchange at any time from both sides, and              *)
(* compression.  One action is one iteration of the loop of                *)
(* client::Session::run or server::run_stream, from the event that select! *)
(* returns to the write to the stream; it composes the handlers as the     *)
(* code calls them.                                                        *)
(*                                                                         *)
(* A packet on a stream carries the number of the key exchange whose keys  *)
(* sealed it, and whether it was compressed.                               *)
(***************************************************************************)
EXTENDS SshConnection, TLC

CONSTANTS
    Plans,          \* what the applications do and how the ends are configured
    MsgQueueSize    \* capacity of the queue from the application (10 in the code)

VARIABLES
    plan,       \* the chosen plan; never changes
    ep,         \* the two sessions
    wire,       \* packets in flight to each of them
    msgs,       \* the client's queue of messages from its application
    app,        \* the client's application: Handle and Channel
    srvApp,     \* operations that the server's application has done
    rekeys,     \* re-exchanges that each side may still start
    sent        \* bytes handed to the sessions, in order (history)

vars == <<plan, ep, wire, msgs, app, srvApp, rekeys, sent>>

Sides == {"client", "server"}
Peer(s) == IF s = "client" THEN "server" ELSE "client"

\* A plan has the script of the client's application, that of the server's,
\* the methods the server offers and accepts, the re-exchanges each side
\* starts, whether compression is negotiated, and whether the server times out.
\* A script is shorter than the space of channel numbers (2^32 in the code).
ASSUME SshSessionAssumption ==
    /\ MsgQueueSize \in Nat \ {0}
    /\ \A p \in Plans :
          /\ DOMAIN p = {"client", "server", "methods", "accepted", "rekeys", "zlib", "timeout"}
          /\ Len(p.client) \in Nat /\ Len(p.client) + 1 < IdSpace
          /\ \A i \in 1..Len(p.client) : p.client[i].op = "send" => p.client[i].n \in Nat
          /\ Len(p.server) \in Nat
          /\ \A i \in 1..Len(p.server) :
                /\ p.server[i].op \in {"data", "extended_data", "eof", "close", "success", "xon_xoff",
                                       "exit_status", "exit_signal"}
                /\ p.server[i].op \in {"data", "extended_data"} => p.server[i].n \in Nat

------------------------------------------------------------------------------
(* Writing *)

\* CipherPair::write on a payload that is not compressed.
cipher_write(e, m) ==
    [e EXCEPT !.out = Append(@, [p |-> [msg |-> m], keys |-> e.cipher, z |-> FALSE])]

\* Encrypted::flush encrypts all packets.
Encrypted_flush(e) ==
    [e EXCEPT !.write = <<>>,
              !.out = @ \o [i \in DOMAIN e.write |->
                              [p |-> e.write[i], keys |-> e.cipher, z |-> e.compress]]]

\* A re-exchange starts if it is due and none is running.
initiate_rekey(e) ==
    IF e.rekey = "None" /\ e.exchange
    THEN [cipher_write(e, "KEXINIT") EXCEPT !.rekey = "Init", !.exchange = FALSE] ELSE e

\* Session::flush of either side.
flush(e, due) ==
    IF e.state = "None" THEN e
    ELSE IF due THEN initiate_rekey(Encrypted_flush(e)) ELSE Encrypted_flush(e)

------------------------------------------------------------------------------
(* Key exchange *)

\* KexInit::client_parse: answer a KEXINIT, sending ours first if need be.
client_parse(e, own) == cipher_write(IF own THEN e ELSE cipher_write(e, "KEXINIT"), "KEX_ECDH_INIT")

\* KexInit::server_parse: KEXINIT if we have not sent it.
server_parse(e, own) == IF own THEN e ELSE cipher_write(e, "KEXINIT")

\* KexDh::parse: the reply and NEWKEYS at once.
KexDh_parse(e) == cipher_write(cipher_write(e, "KEX_ECDH_REPLY"), "NEWKEYS")

\* CommonSession::encrypted and newkeys: both directions change keys together.
encrypted(e) == [e EXCEPT !.state = "WaitingServiceRequest", !.exchange = TRUE,
                          !.cipher = @ + 1, !.kex = "None"]
newkeys(e) == [e EXCEPT !.exchange = TRUE, !.cipher = @ + 1]

\* reply() of the client before encryption.
client_kex(e, p, due) ==
    CASE e.kex = "Init" -> IF p.msg = "KEXINIT"
                           THEN flush([client_parse(e, TRUE) EXCEPT !.kex = "DhDone"], due)
                           ELSE Failed(e, "Kex")
      [] e.kex = "DhDone" -> IF p.msg = "KEX_ECDH_REPLY"
                             THEN flush([cipher_write(e, "NEWKEYS") EXCEPT !.kex = "Keys"], due)
                             ELSE Failed(e, "Inconsistent")
      [] e.kex = "Keys" -> IF p.msg = "NEWKEYS" THEN encrypted(e) ELSE Failed(e, "Kex")

\* reply() of the server before encryption.
server_kex(e, p) ==
    CASE e.kex = "Init" -> IF p.msg = "KEXINIT"
                           THEN [server_parse(e, TRUE) EXCEPT !.kex = "Dh"] ELSE e
      [] e.kex = "Dh" -> IF p.msg = "KEX_ECDH_INIT"
                         THEN [KexDh_parse(e) EXCEPT !.kex = "Keys"] ELSE Failed(e, "panic")
      [] e.kex = "Keys" -> IF p.msg = "NEWKEYS" THEN encrypted(e) ELSE Failed(e, "Kex")

\* buf.len() of a packet that arrives: its message number, its numbers and its
\* strings, which are taken to be short where they are names or texts.
PacketLen(p) ==
    CASE p.msg = "CHANNEL_DATA" -> 9 + Len(p.data)
      [] p.msg = "CHANNEL_EXTENDED_DATA" -> 13 + Len(p.data)
      [] p.msg = "CHANNEL_WINDOW_ADJUST" -> 9
      [] p.msg \in {"CHANNEL_EOF", "CHANNEL_CLOSE", "CHANNEL_SUCCESS", "CHANNEL_FAILURE"} -> 5
      [] p.msg \in {"SERVICE_REQUEST", "SERVICE_ACCEPT", "CHANNEL_OPEN_CONFIRMATION"} -> 17
      [] p.msg \in {"USERAUTH_REQUEST", "USERAUTH_FAILURE", "USERAUTH_BANNER", "CHANNEL_OPEN",
                    "CHANNEL_OPEN_FAILURE", "CHANNEL_REQUEST", "GLOBAL_REQUEST"} -> 24
      [] OTHER -> 1

\* While our KEXINIT is not answered, packets are kept for later, up to twice a
\* window of them with their headers.
QueueRead(e, p) ==
    LET e1 == [e EXCEPT !.pending_len = @ + PacketLen(p)]
    IN  IF e1.pending_len > 2 * WindowSize THEN Failed(e1, "Pending")
        ELSE [e1 EXCEPT !.pending_reads = Append(@, p)]

------------------------------------------------------------------------------
(* Authentication *)

\* write_auth_request: a publickey request is a probe first.
AuthRequest(m, real) == [msg |-> "USERAUTH_REQUEST", method |-> m, real |-> real]

write_auth_request_if_needed(e, m) ==
    LET e1 == IF e.state = "WaitingServiceRequest" /\ ~e.service_sent
              THEN [cipher_write(e, "SERVICE_REQUEST") EXCEPT !.service_sent = TRUE] ELSE e
        e2 == IF e.state = "WaitingAuthRequest" \/ (e.service_accepted /\ e.state = "WaitingServiceRequest")
              THEN push_packet(e1, AuthRequest(m, FALSE)) ELSE e1
    IN  [e2 EXCEPT !.auth_method = m]

\* The client's side of authentication (process_packet).
client_auth(e, p) ==
    CASE e.state = "WaitingServiceRequest" ->
            IF p.msg # "SERVICE_ACCEPT" THEN Failed(e, "Inconsistent")
            ELSE LET e1 == [e EXCEPT !.service_accepted = TRUE]
                 IN  IF e.auth_method = "none" THEN e1
                     ELSE [push_packet(e1, AuthRequest(e.auth_method, FALSE))
                             EXCEPT !.state = "WaitingAuthRequest"]
      [] e.state = "WaitingAuthRequest" ->
            CASE p.msg = "USERAUTH_SUCCESS" ->
                    Report([e EXCEPT !.state = "InitCompression", !.decompress = e.zlib],
                           0, [t |-> "AuthSuccess"])
              [] p.msg = "USERAUTH_BANNER" -> e
              [] p.msg = "USERAUTH_FAILURE" ->
                    LET e1 == Report([e EXCEPT !.auth_method = "none"], 0, [t |-> "AuthFailure"])
                    IN  IF p.methods = {} THEN Failed(e1, "NoAuthMethod") ELSE e1
              [] p.msg = "USERAUTH_PK_OK" ->
                    IF e.auth_method = "publickey"
                    THEN [push_packet(e, AuthRequest("publickey", TRUE)) EXCEPT !.auth_method = "none"]
                    ELSE [e EXCEPT !.auth_method = "none"]
              [] OTHER -> Failed(e, "Inconsistent")
      [] e.state = "InitCompression" -> Failed(e, "panic")

reject_auth_request(e) ==
    [push_packet(e, [msg |-> "USERAUTH_FAILURE", methods |-> e.methods]) EXCEPT !.sent_pk_ok = FALSE]

auth_success(e) ==
    [push_packet(e, [msg |-> "USERAUTH_SUCCESS"])
        EXCEPT !.state = "InitCompression", !.decompress = e.zlib]

\* server_read_auth_request.  The handler accepts the methods in "accepted".
\* A rejected password is not offered again; a rejected key is.
server_read_auth_request(e, p, accepted) ==
    CASE p.method = "password" ->
            IF "password" \in accepted THEN auth_success(e)
            ELSE reject_auth_request([e EXCEPT !.methods = @ \ {"password"}])
      [] p.method = "publickey" /\ ~p.real ->
            IF "publickey" \in accepted
            THEN [push_packet(e, [msg |-> "USERAUTH_PK_OK"]) EXCEPT !.sent_pk_ok = TRUE]
            ELSE reject_auth_request(e)
      [] p.method = "publickey" /\ p.real ->
            IF e.sent_pk_ok THEN auth_success(e) ELSE reject_auth_request(e)
      [] OTHER -> reject_auth_request(e)

\* server_accept_service: the banner is part of the configuration.
server_accept_service(e) ==
    [push_packet(push_packet(e, [msg |-> "SERVICE_ACCEPT"]), [msg |-> "USERAUTH_BANNER"])
        EXCEPT !.state = "WaitingAuthRequest"]

------------------------------------------------------------------------------
(* Reading *)

client_process_packet(e, p) ==
    IF e.state = "Authenticated" THEN client_read_authenticated(e, p) ELSE client_auth(e, p)

\* The branch for data encrypts what has accumulated before the
\* handler sees the data; the others leave that to the end of the loop.
server_read_authenticated(e, p, ok, due) ==
    CASE p.msg = "CHANNEL_OPEN" -> server_handle_channel_open(e, p)
      [] p.msg = "CHANNEL_CLOSE" -> remove_channel(e, p.ch)
      [] p.msg = "CHANNEL_EOF" -> Report(e, p.ch, [t |-> "Eof"])
      [] p.msg \in {"CHANNEL_DATA", "CHANNEL_EXTENDED_DATA"} ->
            Report(flush(adjust_window_size(e, p.ch, Len(p.data)), due), p.ch, DataEvent(p))
      [] p.msg = "CHANNEL_WINDOW_ADJUST" -> window_adjusted(e, p)
      [] p.msg = "CHANNEL_REQUEST" -> server_channel_request(e, p, ok)
      [] p.msg = "GLOBAL_REQUEST" -> server_global_request(e, p, ok)
      [] OTHER -> e

server_process_packet(e, p, ok, due) ==
    CASE e.state = "WaitingServiceRequest" /\ p.msg = "SERVICE_REQUEST" -> server_accept_service(e)
      [] e.state = "WaitingAuthRequest" /\ p.msg = "USERAUTH_REQUEST" ->
            server_read_auth_request(e, p, plan.accepted)
      [] e.state = "InitCompression" ->
            server_read_authenticated(
                [e EXCEPT !.state = "Authenticated", !.compress = e.zlib], p, ok, due)
      [] e.state = "Authenticated" -> server_read_authenticated(e, p, ok, due)
      [] OTHER -> e

process_packet(e, p, ok, due) ==
    IF e.role = "client" THEN client_process_packet(e, p) ELSE server_process_packet(e, p, ok, due)

\* NEWKEYS ends the exchange: pending data, then queued packets, then the new
\* keys, then encryption.  Encrypted::rekey was taken first.
EndRekey(e, ok, due) ==
    LET Step(acc, p) == IF acc.fault # "none" THEN acc ELSE process_packet(acc, p, ok, due)
        after[n \in 0..Len(e.pending_reads)] ==
            IF n = 0 THEN flush_all_pending([e EXCEPT !.rekey = "None"])
            ELSE Step(after[n - 1], e.pending_reads[n])
        e1 == after[Len(e.pending_reads)]
    IN  IF e1.fault # "none" THEN e1
        ELSE flush(newkeys([e1 EXCEPT !.pending_reads = <<>>, !.pending_len = 0]), due)

client_read_encrypted(e, p, due) ==
    CASE p.msg = "KEXINIT" ->
            flush(CASE e.rekey = "Init" -> [client_parse(e, TRUE) EXCEPT !.rekey = "DhDone"]
                    [] e.rekey # "Init" /\ e.exchange ->
                          [client_parse(e, FALSE) EXCEPT !.rekey = "DhDone", !.exchange = FALSE]
                    [] OTHER -> [e EXCEPT !.rekey = "None"], due)
      [] p.msg # "KEXINIT" /\ e.rekey = "DhDone" ->
            IF p.msg = "KEX_ECDH_REPLY"
            THEN flush([cipher_write(e, "NEWKEYS") EXCEPT !.rekey = "Keys"], due)
            ELSE Failed(e, "Inconsistent")
      [] p.msg # "KEXINIT" /\ e.rekey = "Keys" ->
            IF p.msg = "NEWKEYS" THEN EndRekey(e, FALSE, due) ELSE Failed(e, "Kex")
      [] p.msg # "KEXINIT" /\ e.rekey = "Init" -> QueueRead(e, p)
      [] OTHER -> client_process_packet(e, p)

server_read_encrypted(e, p, ok, due) ==
    CASE p.msg = "KEXINIT" ->
            flush(CASE e.rekey = "Init" -> [server_parse(e, TRUE) EXCEPT !.rekey = "Dh"]
                    [] e.rekey # "Init" /\ e.exchange ->
                          [server_parse(e, FALSE) EXCEPT !.rekey = "Dh", !.exchange = FALSE]
                    [] OTHER -> [e EXCEPT !.rekey = "None"], due)
      [] p.msg # "KEXINIT" /\ e.rekey = "Dh" ->
            IF p.msg = "KEX_ECDH_INIT"
            THEN flush([KexDh_parse(e) EXCEPT !.rekey = "Keys"], due)
            ELSE Failed(e, "panic")
      [] p.msg # "KEXINIT" /\ e.rekey = "Keys" ->
            IF p.msg = "NEWKEYS" THEN EndRekey(e, ok, due) ELSE Failed(e, "Kex")
      [] p.msg # "KEXINIT" /\ e.rekey = "Init" -> QueueRead(e, p)
      [] OTHER -> server_process_packet(e, p, ok, due)

reply(e, p, ok, due) ==
    IF e.role = "client"
    THEN IF e.kex # "None" THEN client_kex(e, p, due) ELSE client_read_encrypted(e, p, due)
    ELSE IF e.state = "None" THEN server_kex(e, p) ELSE server_read_encrypted(e, p, ok, due)

\* cipher::read with the session's keys, then decompression, then reply.
Receive(e, q, ok, due) ==
    CASE q.keys # e.cipher -> Failed(e, "keys")
      [] q.keys = e.cipher /\ q.z # e.decompress -> Failed(e, "compression")
      [] OTHER -> IF q.p.msg = "DISCONNECT" THEN Failed(e, "closed") ELSE reply(e, q.p, ok, due)

------------------------------------------------------------------------------
(* The loops *)

Running(s) == ep[s].fault = "none" /\ ~ep[s].disconnected

is_rekeying(e) == e.state = "None" \/ e.rekey # "None"

\* A re-exchange may become due at any iteration, by bytes or by time.
DueChoices(s) == IF rekeys[s] > 0 THEN BOOLEAN ELSE {FALSE}

\* The end of an iteration: flush what the handlers wrote; the client starts
\* to compress after that.
EndIteration(e, due) ==
    LET e1 == flush(e, due)
    IN  IF e.fault # "none" THEN e
        ELSE IF e1.role = "client" /\ e1.state = "InitCompression"
        THEN [e1 EXCEPT !.state = "Authenticated", !.compress = e1.zlib] ELSE e1

\* One iteration of a loop that makes e0 of the session and leaves the packets
\* "rest" unread.  The output goes to the stream, unless an error ended the
\* loop.
Iteration(s, due, e0, rest) ==
    \E e \in {EndIteration(e0, due)} :
        /\ IF e.fault = "none"
           THEN /\ ep' = [ep EXCEPT ![s] = [e EXCEPT !.out = <<>>]]
                /\ wire' = [wire EXCEPT ![Peer(s)] = @ \o e.out, ![s] = rest]
           ELSE /\ ep' = [ep EXCEPT ![s] = e]
                /\ wire' = [wire EXCEPT ![s] = rest]
        /\ rekeys' = [rekeys EXCEPT ![s] =
                        IF ep[s].rekey # "Init" /\ e.rekey = "Init" THEN @ - 1 ELSE @]

\* The handler's answer matters for requests only.
Answers(p) == IF p.msg \in {"CHANNEL_REQUEST", "GLOBAL_REQUEST"} THEN BOOLEAN ELSE {TRUE}

\* A packet has arrived.
Read(s) ==
    /\ Running(s) /\ wire[s] # <<>>
    /\ \E due \in DueChoices(s), ok \in Answers(Head(wire[s]).p) :
          Iteration(s, due, Receive(ep[s], Head(wire[s]), ok, due), Tail(wire[s]))
    /\ UNCHANGED <<plan, msgs, app, srvApp, sent>>

\* Session::disconnect.
disconnect(e) == [push_packet(e, [msg |-> "DISCONNECT"]) EXCEPT !.disconnected = TRUE]

\* The message of the client's application that the loop has received.  A
\* client of another make may open channels of another type and make other
\* requests.
TakeMsg(e, m) ==
    CASE m.t = "Authenticate" -> write_auth_request_if_needed(e, m.method)
      [] m.t = "ChannelOpen" ->
            CASE m.type = "session" -> channel_open_session(e)
              [] m.type = "x11" -> channel_open_x11(e)
              [] m.type = "direct-tcpip" -> channel_open_direct_tcpip(e)
              [] OTHER -> channel_open(e, m.type)
      [] m.t = "Data" -> data(e, m.ch, m.data)
      [] m.t = "ExtendedData" -> extended_data(e, m.ch, m.ext, m.data)
      [] m.t = "Eof" -> byte(e, m.ch, "CHANNEL_EOF")
      [] m.t = "Request" ->
            CASE m.req = "pty-req" -> request_pty(e, m.ch, m.want_reply)
              [] m.req = "x11-req" -> request_x11(e, m.ch, m.want_reply)
              [] m.req = "env" -> set_env(e, m.ch, m.want_reply)
              [] m.req = "shell" -> request_shell(e, m.ch, m.want_reply)
              [] m.req = "exec" -> exec(e, m.ch, m.want_reply)
              [] m.req = "subsystem" -> request_subsystem(e, m.ch, m.want_reply)
              [] m.req = "signal" -> signal(e, m.ch)
              [] m.req = "window-change" -> window_change(e, m.ch)
              [] OTHER -> channel_request(e, m.ch, m.req, m.want_reply)
      [] m.t = "Global" ->
            IF m.req = "tcpip-forward" THEN tcpip_forward(e) ELSE cancel_tcpip_forward(e)
      [] m.t = "Disconnect" -> disconnect(e)

ClientTakesMsg ==
    /\ Running("client") /\ ~is_rekeying(ep.client) /\ msgs # <<>>
    /\ \E due \in DueChoices("client") :
          Iteration("client", due, TakeMsg(ep.client, Head(msgs)), wire.client)
    /\ msgs' = Tail(msgs)
    /\ UNCHANGED <<plan, app, srvApp, sent>>

\* The application has dropped its Handle and its Channels, and everything they
\* sent has been taken: recv() returns None, and the loop ends.
ClientDropped ==
    /\ Running("client") /\ ~is_rekeying(ep.client) /\ msgs = <<>>
    /\ app.pc > Len(plan.client) /\ app.phase = "run"
    /\ ep' = [ep EXCEPT !.client.disconnected = TRUE]
    /\ UNCHANGED <<plan, wire, msgs, app, srvApp, rekeys, sent>>

\* The server's application, through its Handle: the next operation of its
\* script on channel ch.
ServerOp(e, o, ch, buf) ==
    CASE o.op = "data" -> data(e, ch, buf)
      [] o.op = "extended_data" -> extended_data(e, ch, 1, buf)
      [] o.op = "eof" -> byte(e, ch, "CHANNEL_EOF")
      [] o.op = "close" -> byte(e, ch, "CHANNEL_CLOSE")
      [] o.op = "success" -> channel_success(e, ch)
      [] o.op = "xon_xoff" -> xon_xoff_request(e, ch)
      [] o.op = "exit_status" -> exit_status_request(e, ch)
      [] o.op = "exit_signal" -> exit_signal_request(e, ch)

\* Scripts name a channel by the number it has at the client; the server's
\* application learns its own number when the channel is opened.
ChannelFor(c) == {d \in DOMAIN ep.server.channels :
                    /\ ep.server.channels[d].confirmed
                    /\ ep.server.channels[d].recipient_channel = c}

\* The next n bytes an end sends are numbered in order.
Bytes(s, n) == [i \in 1..n |-> Len(sent[s]) + i]
Log(s, ch, ext, n) == [sent EXCEPT ![s] = @ \o [i \in 1..n |-> [ch |-> ch, ext |-> ext, b |-> Len(@) + i]]]

ServerTakesMsg ==
    LET o == plan.server[srvApp + 1]
        n == IF o.op \in {"data", "extended_data"} THEN o.n ELSE 0
    IN  /\ Running("server") /\ ~is_rekeying(ep.server) /\ srvApp < Len(plan.server)
        /\ \E due \in DueChoices("server"), ch \in ChannelFor(o.ch) :
              /\ Iteration("server", due, ServerOp(ep.server, o, ch, Bytes("server", n)), wire.server)
              /\ sent' = Log("server", ch, IF o.op = "extended_data" THEN 1 ELSE 0, n)
        /\ srvApp' = srvApp + 1
        /\ UNCHANGED <<plan, msgs, app>>

\* run_stream ends when nothing happens for connection_timeout.
ServerTimeout ==
    /\ plan.timeout /\ Running("server")
    /\ ep' = [ep EXCEPT !.server.fault = "closed"]
    /\ UNCHANGED <<plan, wire, msgs, app, srvApp, rekeys, sent>>

\* The other side has gone, and everything it sent has been read.
EndOfStream(s) ==
    /\ Running(s) /\ ~Running(Peer(s)) /\ wire[s] = <<>>
    /\ ep' = [ep EXCEPT ![s].fault = "closed"]
    /\ UNCHANGED <<plan, wire, msgs, app, srvApp, rekeys, sent>>

------------------------------------------------------------------------------
(* The client's application *)

Op == plan.client[app.pc]
HasOp(ops) == app.pc <= Len(plan.client) /\ app.phase = "run" /\ Op.op \in ops

\* Events on a channel that the application has not taken yet, and the first.
Unseen(ch) == {i \in DOMAIN ep.client.events : i > app.seen[ch] /\ ep.client.events[i].ch = ch}
NextEvent(ch) == ep.client.events[Min(Unseen(ch))].event

\* Handle and Channel wait for room in the queue of the session.
Send(m) == Len(msgs) < MsgQueueSize /\ msgs' = Append(msgs, m)

\* The application takes the next event of a channel.
Take(ch, a) == app' = [a EXCEPT !.seen[ch] = Min(Unseen(ch))]

GiveUp(a) == [a EXCEPT !.pc = Len(plan.client) + 1, !.phase = "run"]

\* Handle::authenticate_password and authenticate_publickey.
Authenticate ==
    /\ HasOp({"auth"})
    /\ Send([t |-> "Authenticate", method |-> Op.method])
    /\ app' = [app EXCEPT !.phase = "auth"]
    /\ UNCHANGED <<plan, ep, wire, srvApp, rekeys, sent>>

\* The reply: go on after the attempts, or with the next attempt, if any.
AuthReply ==
    /\ app.phase = "auth" /\ Unseen(0) # {}
    /\ LET later == {i \in app.pc + 1..Len(plan.client) : plan.client[i].op # "auth"}
           a == [app EXCEPT !.phase = "run"]
       IN  IF NextEvent(0).t = "AuthSuccess"
           THEN Take(0, [a EXCEPT !.pc = IF later = {} THEN Len(plan.client) + 1 ELSE Min(later)])
           ELSE Take(0, IF app.pc < Len(plan.client) /\ plan.client[app.pc + 1].op = "auth"
                        THEN [a EXCEPT !.pc = @ + 1] ELSE GiveUp(a))
    /\ UNCHANGED <<plan, ep, wire, msgs, srvApp, rekeys, sent>>

\* Handle::channel_open_* and wait_channel_confirmation.  The channel is the
\* one the session created for this request.
OpenChannel ==
    /\ HasOp({"open"})
    /\ Send([t |-> "ChannelOpen", type |-> Op.type])
    /\ app' = [app EXCEPT !.phase = "open"]
    /\ UNCHANGED <<plan, ep, wire, srvApp, rekeys, sent>>

wait_channel_confirmation ==
    LET ch == ep.client.last_channel_id
        a  == [app EXCEPT !.phase = "run", !.pc = @ + 1]
    IN  /\ app.phase = "open" /\ msgs = <<>> /\ Unseen(ch) # {}
        /\ CASE NextEvent(ch).t = "Open" ->
                  Take(ch, [a EXCEPT !.open = Append(@, ch), !.window[ch] = NextEvent(ch).window])
             [] NextEvent(ch).t = "Closed" -> Take(ch, [a EXCEPT !.open = Append(@, 0)])
             [] OTHER -> Take(ch, app)
        /\ UNCHANGED <<plan, ep, wire, msgs, srvApp, rekeys, sent>>

\* The channel of an operation; an operation on a channel that was refused, or
\* never opened, is skipped.
OpChannel == IF Op.i \in DOMAIN app.open THEN app.open[Op.i] ELSE 0
Refused == Op.op \in {"send", "wait", "request", "eof"} /\ OpChannel = 0

\* Bytes of an event that the application takes, whether it keeps them or not.
TakenBytes(ch, bytes, kept) == [i \in DOMAIN bytes |-> [ch |-> ch, b |-> bytes[i], kept |-> kept]]

\* Channel::send_data: a chunk that window and packet size admit.  The chunk
\* that finds nothing left to read is sent empty, and ends the call.
send_data ==
    LET ch == OpChannel
        n == Min({Op.n - app.done, app.window[ch], MaxPacketSize})
    IN  /\ HasOp({"send"}) /\ ~Refused /\ app.window[ch] > 0
        /\ Send([t |-> "Data", ch |-> ch, data |-> Bytes("client", n)])
        /\ app' = IF n = 0 THEN [app EXCEPT !.pc = @ + 1, !.done = 0]
                  ELSE [app EXCEPT !.window[ch] = @ - n, !.done = @ + n]
        /\ sent' = Log("client", ch, 0, n)
        /\ UNCHANGED <<plan, ep, wire, srvApp, rekeys>>

\* ... and the wait for the window, which discards every other message.
send_data_blocked ==
    LET ch == OpChannel
        ev == NextEvent(ch)
    IN  /\ HasOp({"send"}) /\ ~Refused /\ app.window[ch] = 0 /\ Unseen(ch) # {} /\ ev.t # "Closed"
        /\ CASE ev.t = "WindowAdjusted" -> Take(ch, [app EXCEPT !.window[ch] = ev.new_size])
             [] ev.t = "Data" -> Take(ch, [app EXCEPT !.taken = @ \o TakenBytes(ch, ev.data, FALSE)])
             [] OTHER -> Take(ch, app)
        /\ UNCHANGED <<plan, ep, wire, msgs, srvApp, rekeys, sent>>

\* The channel is closed while the call waits: the window admits nothing, and
\* the empty chunk ends the call.
send_data_closed ==
    LET ch == OpChannel
    IN  /\ HasOp({"send"}) /\ ~Refused /\ app.window[ch] = 0
        /\ Unseen(ch) # {} /\ NextEvent(ch).t = "Closed"
        /\ Send([t |-> "Data", ch |-> ch, data |-> <<>>])
        /\ app' = [app EXCEPT !.pc = @ + 1, !.done = 0]
        /\ UNCHANGED <<plan, ep, wire, srvApp, rekeys, sent>>

\* Channel::wait returns the next message.
wait ==
    LET ch == OpChannel
        ev == NextEvent(ch)
        a  == [app EXCEPT !.pc = @ + 1]
    IN  /\ HasOp({"wait"}) /\ ~Refused /\ Unseen(ch) # {}
        /\ CASE ev.t = "WindowAdjusted" -> Take(ch, [a EXCEPT !.window[ch] = @ + ev.new_size])
             [] ev.t = "Closed" -> app' = a
             [] ev.t = "Data" -> Take(ch, [a EXCEPT !.taken = @ \o TakenBytes(ch, ev.data, TRUE)])
             [] OTHER -> Take(ch, a)
        /\ UNCHANGED <<plan, ep, wire, msgs, srvApp, rekeys, sent>>

\* The requests that need no answer from the session, Channel::eof and
\* Handle::disconnect.
Simple ==
    /\ HasOp({"request", "eof", "global", "disconnect"}) /\ ~Refused
    /\ Send(CASE Op.op = "request" -> [t |-> "Request", ch |-> OpChannel, req |-> Op.req,
                                       want_reply |-> Op.want_reply]
              [] Op.op = "eof" -> [t |-> "Eof", ch |-> OpChannel]
              [] Op.op = "global" -> [t |-> "Global", req |-> Op.req]
              [] Op.op = "disconnect" -> [t |-> "Disconnect"])
    /\ app' = [app EXCEPT !.pc = @ + 1]
    /\ UNCHANGED <<plan, ep, wire, srvApp, rekeys, sent>>

\* A refused operation, or the session is gone: its queues are closed.
Skip ==
    /\ \/ app.pc <= Len(plan.client) /\ ~Running("client") /\ app' = GiveUp(app)
       \/ /\ app.pc <= Len(plan.client) /\ app.phase = "run" /\ Running("client")
          /\ Op.op \in {"send", "wait", "request", "eof"} /\ Refused
          /\ app' = [app EXCEPT !.pc = @ + 1]
    /\ UNCHANGED <<plan, ep, wire, msgs, srvApp, rekeys, sent>>

Application == \/ Authenticate \/ AuthReply \/ OpenChannel \/ wait_channel_confirmation
               \/ send_data \/ send_data_blocked \/ send_data_closed \/ wait \/ Simple \/ Skip

------------------------------------------------------------------------------
\* connect_stream and run_stream after the exchange of identification
\* strings (read_ssh_id): each side has sent its KEXINIT.
NewSession(r, pl) ==
    [role |-> r, kex |-> "Init", rekey |-> "None", exchange |-> FALSE, cipher |-> 0,
     state |-> "None", service_sent |-> FALSE, service_accepted |-> FALSE,
     auth_method |-> "none", methods |-> pl.methods, sent_pk_ok |-> FALSE,
     write |-> <<>>, out |-> <<>>, pending_reads |-> <<>>, pending_len |-> 0,
     compress |-> FALSE, decompress |-> FALSE, zlib |-> pl.zlib,
     channels |-> <<>>, last_channel_id |-> 1, events |-> <<>>,
     disconnected |-> FALSE, fault |-> "none"]

Init ==
    /\ plan \in Plans
    /\ ep = [s \in Sides |-> NewSession(s, plan)]
    /\ wire = [s \in Sides |-> <<[p |-> [msg |-> "KEXINIT"], keys |-> 0, z |-> FALSE]>>]
    /\ msgs = <<>>
    /\ app = [pc |-> 1, phase |-> "run", open |-> <<>>, done |-> 0, taken |-> <<>>,
              window |-> [c \in 0..IdSpace - 1 |-> 0],
              seen |-> [c \in 0..IdSpace - 1 |-> 0]]
    /\ srvApp = 0
    /\ rekeys = plan.rekeys
    /\ sent = [s \in Sides |-> <<>>]

Next == \/ \E s \in Sides : Read(s) \/ EndOfStream(s)
        \/ ClientTakesMsg \/ ClientDropped \/ ServerTakesMsg \/ ServerTimeout \/ Application

\* The loops run as long as their select! has something to return, and the
\* runtime polls every ready task: weak fairness of each loop.  The conditions
\* under which the actions are enabled are written out.
CanRead(s) == Running(s) /\ wire[s] # <<>>
CanTake == Running("client") /\ ~is_rekeying(ep.client) /\ msgs # <<>>
CanServe == /\ Running("server") /\ ~is_rekeying(ep.server) /\ srvApp < Len(plan.server)
            /\ ChannelFor(plan.server[srvApp + 1].ch) # {}

Fairness ==
    /\ \A s \in Sides : /\ []<>(~CanRead(s)) \/ []<><<Read(s)>>_vars
                        /\ WF_vars(EndOfStream(s))
    /\ []<>(~CanTake) \/ []<><<ClientTakesMsg>>_vars
    /\ []<>(~CanServe) \/ []<><<ServerTakesMsg>>_vars
    /\ WF_vars(Application)

Spec == Init /\ [][Next]_vars /\ Fairness

------------------------------------------------------------------------------
(* Properties *)

\* Packets on the way from one side that the other has not processed.
InFlight(s) == ep[Peer(s)].pending_reads \o [i \in DOMAIN wire[Peer(s)] |-> wire[Peer(s)][i].p]

Sum(numbers) ==
    LET first[n \in 0..Len(numbers)] == IF n = 0 THEN 0 ELSE first[n - 1] + numbers[n]
    IN  first[Len(numbers)]

\* Bytes and credit for channel ch in a sequence of packets.
Size(p, ch) == IF p.msg \in {"CHANNEL_DATA", "CHANNEL_EXTENDED_DATA"} /\ p.ch = ch THEN Len(p.data) ELSE 0
Credit(p, ch) == IF p.msg = "CHANNEL_WINDOW_ADJUST" /\ p.ch = ch THEN p.amount ELSE 0
DataFor(ch, packets) == Sum([i \in DOMAIN packets |-> Size(packets[i], ch)])
CreditFor(ch, packets) == Sum([i \in DOMAIN packets |-> Credit(packets[i], ch)])

\* Channels that both sides have, as pairs of their numbers.
Pairs == {q \in (DOMAIN ep.client.channels) \X (DOMAIN ep.server.channels) :
            /\ ep.client.channels[q[1]].confirmed
            /\ ep.client.channels[q[1]].recipient_channel = q[2]}

\* Type invariant: the sessions are between iterations, so that nothing waits
\* for encryption unless an error ended them.
TypeOK ==
    /\ \A s \in Sides :
          /\ ep[s].kex \in {"None", "Init", "Dh", "DhDone", "Keys"}
          /\ ep[s].rekey \in {"None", "Init", "Dh", "DhDone", "Keys"}
          /\ ep[s].state \in {"None", "WaitingServiceRequest", "WaitingAuthRequest",
                              "InitCompression", "Authenticated"}
          /\ ep[s].cipher \in Nat /\ rekeys[s] \in Nat
          /\ Running(s) => ep[s].write = <<>> /\ ep[s].out = <<>>
          /\ \A c \in DOMAIN ep[s].channels :
                /\ ep[s].channels[c].sender_window_size \in 0..WindowSize
                /\ ep[s].channels[c].recipient_window_size \in 0..WindowSize
    /\ Len(msgs) <= MsgQueueSize

\* A server that queued the client's data during a re-exchange it started itself
\* seals its answer under the old keys, behind its NEWKEYS (NothingBehindNewKeys).
DataMetRekey == rekeys.server < plan.rekeys.server /\ sent.client # <<>>

\* Packets that a window does not account for: those without data, and headers.
Overhead(e) ==
    e.pending_len - Sum([i \in DOMAIN e.pending_reads |->
                            IF e.pending_reads[i].msg \in {"CHANNEL_DATA", "CHANNEL_EXTENDED_DATA"}
                            THEN Len(e.pending_reads[i].data) ELSE 0])

\* Two ends of this code never make each other fail: no packet arrives
\* compressed when it should not be, in a state that does not expect it, or for
\* a channel that is gone (the errors Inconsistent, Kex, WrongChannel and the
\* assertions and unreachable!() of the handlers).  There are two exceptions,
\* both of a re-exchange that meets packets in flight: the limit on queued reads
\* (Error::Pending) is passed when headers and packets without data take more
\* than a window, and never by data alone; and a packet arrives under the wrong
\* keys at a client whose data met a re-exchange of the server.
SessionsNeverFail ==
    \A s \in Sides :
        \/ ep[s].fault \in {"none", "closed", "NoAuthMethod"}
        \/ ep[s].fault = "Pending" /\ Overhead(ep[s]) > WindowSize
        \/ ep[s].fault = "keys" /\ s = "client" /\ DataMetRekey

\* Nothing is encrypted under the old keys behind NEWKEYS: the comment in
\* Encrypted::flush says that packets are flushed if "we've not started to
\* rekey".
NothingBehindNewKeys ==
    \A s \in Sides : \A i, j \in DOMAIN wire[s] :
        i < j /\ wire[s][i].p.msg = "NEWKEYS" => wire[s][j].keys # wire[s][i].keys

\* Encrypted::exchange is there whenever no key exchange is running, so that
\* the next re-exchange can start.
ExchangeIsKept ==
    \A s \in Sides : Running(s) /\ ep[s].state # "None" => (ep[s].exchange <=> ep[s].rekey = "None")

\* Both ends agree on every window: what the sender may still send, what is on
\* its way, and the credit on its way back, add up to what the receiver is
\* ready to take.  In particular no sender overruns a window.
WindowsAgree ==
    \A q \in Pairs : \A s \in Sides :
        LET own   == IF s = "client" THEN q[1] ELSE q[2]
            other == IF s = "client" THEN q[2] ELSE q[1]
        IN  Running("client") /\ Running("server") =>
            ep[s].channels[own].recipient_window_size + DataFor(other, InFlight(s))
              + CreditFor(own, InFlight(Peer(s)))
            = ep[Peer(s)].channels[other].sender_window_size

\* The bytes that side s has reported on its channel ch, with their stream.
Received(s, ch) ==
    LET evs == SelectSeq(ep[s].events, LAMBDA ev : ev.ch = ch /\ ev.event.t = "Data")
    IN  FoldLeft(LAMBDA acc, ev : acc \o [i \in DOMAIN ev.event.data |->
                                            [ext |-> ev.event.ext, b |-> ev.event.data[i]]],
                 <<>>, evs)

SentOn(s, ch) == SelectSeq(sent[s], LAMBDA r : r.ch = ch)

\* Data arrives on the right channel, complete and in order, however it was
\* split, queued for the window or queued during a key exchange.  The stream of
\* the bytes is not compared: flush_pending sends queued extended data as
\* CHANNEL_DATA.
BytesInOrder ==
    \A q \in Pairs : \A s \in Sides :
        LET own   == IF s = "client" THEN q[1] ELSE q[2]
            other == IF s = "client" THEN q[2] ELSE q[1]
            there == Received(Peer(s), other)
            here  == SentOn(s, own)
        IN  /\ Len(there) <= Len(here)
            /\ \A i \in DOMAIN there : there[i].b = here[i].b

\* A channel of the client that is confirmed belongs to exactly one channel of
\* the server, which points back, and a channel exists on the server only
\* after it accepted the client.
ChannelsArePaired ==
    /\ \A c \in DOMAIN ep.client.channels : ep.client.channels[c].confirmed =>
          LET d == ep.client.channels[c].recipient_channel
          IN  HasChannel(ep.server, d) /\ ep.server.channels[d].recipient_channel = c
    /\ DOMAIN ep.server.channels # {} => ep.server.state = "Authenticated"
    /\ ep.client.state = "Authenticated" => ep.server.state \in {"InitCompression", "Authenticated"}

\* What the application takes from a channel, kept or thrown away, is what the
\* session received on it, in order and without a gap; and only a call of
\* Channel::send_data that has used up the window throws bytes away.
NothingElseDiscarded ==
    \A i \in DOMAIN app.open : app.open[i] # 0 =>
        LET all == Received("client", app.open[i])
            took == SelectSeq(app.taken, LAMBDA t : t.ch = app.open[i])
        IN  /\ Len(took) <= Len(all)
            /\ \A k \in DOMAIN took : took[k].b = all[k].b
            /\ (\E k \in DOMAIN took : ~took[k].kept)
                  => Len(SentOn("client", app.open[i])) >= WindowSize


\* What one application sends, the other gets, in order.
DataIsDelivered == BytesInOrder /\ NothingElseDiscarded

\* A key re-exchange ends, unless the session does.
RekeyEnds == \A s \in Sides : ep[s].rekey # "None" ~> ep[s].rekey = "None" \/ ~Running(s)

\* The applications get through their scripts, and what they have sent arrives,
\* unless a session ends.
WorkIsDone ==
    <>[](\/ \E s \in Sides : ~Running(s)
         \/ /\ app.pc > Len(plan.client) /\ srvApp = Len(plan.server)
            /\ \A q \in Pairs : /\ Len(Received("server", q[2])) = Len(SentOn("client", q[1]))
                                /\ Len(Received("client", q[1])) = Len(SentOn("server", q[2])))
==============================================================================
