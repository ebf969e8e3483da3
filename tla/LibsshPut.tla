------------------------------ MODULE LibsshPut ------------------------------
(***************************************************************************)
(* The libssh PUTs of sshpuffin, run by the trace seed_successful of       *)
(* ssh/seeds.rs: a client and a server exchange keys and authenticate      *)
(* through the fuzzer, which takes every message apart and puts the next   *)
(* one together from its knowledge.  Modelled are the PUT's state machine, *)
(* the deframer of the raw messages, the knowledge and its queries, the    *)
(* seed itself, and libssh (external) as far as the PUT drives it.         *)
(*                                                                         *)
(* A message on a stream is a sequence of Pieces pieces [m, k].            *)
(***************************************************************************)
EXTENDS Integers, Sequences, SequencesExt, FiniteSets, FiniteSetsExt

CONSTANTS Pieces,       \* pieces of a message
          ReadSizes     \* pieces that one read may return at most

ASSUME LibsshPutAssumption == Pieces \in Nat \ {0} /\ ReadSizes \subseteq Nat \ {0}

VARIABLES
    session,    \* libssh: state and inbox of each agent, KEXINITs it has seen
    state,      \* PutState of each agent
    toFuzz,     \* pieces that the session has written and nobody has read
    frames,     \* frames of each agent's SshMessageDeframer
    knowledge,  \* what the fuzzer has learnt, in order
    at,         \* step of the trace and phase in it
    result,     \* "running", "ok", or why the trace ended
    cut         \* whether a read has ended inside a message (history)

sshVars == <<session, state, toFuzz, frames, knowledge, at, result, cut>>

Agents == {"client", "server"}

------------------------------------------------------------------------------
(* Messages *)

\* A KEXINIT is its cookie and lists; the languages and the flag
\* first_kex_packet_follows are those that libssh sends.
KexInitTypes == <<"cookie", "KexAlgorithms", "SignatureSchemes", "EncryptionAlgorithms",
                  "EncryptionAlgorithms", "MacAlgorithms", "MacAlgorithms",
                  "CompressionAlgorithms", "CompressionAlgorithms">>
OwnKexInit(a) == [t |-> "KexInit", fields |-> [i \in 1..9 |-> <<a, i>>], rest |-> "empty"]

NoMessage == [t |-> "none"]
Banner(a) == [t |-> "Banner", of |-> a]
EcdhInit(a) == [t |-> "EcdhInit", fields |-> <<<<a, "ephemeral">>>>]
EcdhReply(h) == [t |-> "EcdhReply", fields |-> <<"host key", "ephemeral", h>>]
NewKeys == [t |-> "NewKeys"]
Encrypted(m) == [t |-> "Encrypted", m |-> m]

\* A raw message on the wire.
encode(m) == [k \in 1..Pieces |-> [m |-> m, k |-> k]]

\* The whole messages at the start of some bytes.
WholeAt(bytes, i) ==
    /\ i + Pieces - 1 <= Len(bytes)
    /\ \A k \in 1..Pieces : bytes[i + k - 1] = [m |-> bytes[i].m, k |-> k]

\* RawSshMessage::read: a banner or a packet in the clear.  Bytes from the middle
\* of a message are not taken for one, as their first four, read as the length of
\* a packet, exceed what is there.
raw_read(bytes) ==
    IF WholeAt(bytes, 1) /\ bytes[1].m.t # "Encrypted"
    THEN IF bytes[1].m.t = "Banner" THEN [raw |-> "Banner", m |-> bytes[1].m]
                                    ELSE [raw |-> "Packet", m |-> bytes[1].m]
    ELSE [raw |-> "None"]

------------------------------------------------------------------------------
(* SshMessageDeframer *)

\* try_deframe_one: a message, or else everything that is in the buffer as
\* data from the wire: what is not a whole message is never waited for.
try_deframe_one(acc) ==
    LET r == raw_read(acc.buf)
    IN  IF r.raw = "None"
        THEN [frames |-> Append(acc.frames, [raw |-> "OnWire", data |-> acc.buf]), buf |-> <<>>]
        ELSE [frames |-> Append(acc.frames, r), buf |-> SubSeq(acc.buf, Pieces + 1, Len(acc.buf))]

\* read(): deframe until the buffer is empty, which it is after every read.
deframe(bytes) ==
    FoldLeft(LAMBDA acc, i : IF acc.buf = <<>> THEN acc ELSE try_deframe_one(acc),
             [frames |-> <<>>, buf |-> bytes], [i \in DOMAIN bytes |-> i]).frames

------------------------------------------------------------------------------
(* libssh: what one call does with the messages it has, and what it sends. *)

\* Reads the message of type t at the start of the inbox.
Has(s, t) == WholeAt(s.inbox, 1) /\ s.inbox[1].m.t = t
HasEncrypted(s, m) == Has(s, "Encrypted") /\ s.inbox[1].m.m = m
First(s) == s.inbox[1].m
\* Enough bytes for a message, asked for when none of the expected ones is there.
Garbled(s) == Len(s.inbox) >= Pieces
Drop(s) == [s EXCEPT !.inbox = SubSeq(@, Pieces + 1, Len(@))]

Write(s, ms) == [s EXCEPT !.out = @ \o FlattenSeq([i \in DOMAIN ms |-> encode(ms[i])])]

\* The exchange hash covers both KEXINITs as this side has seen them.
Hash(s) == <<s.clientKexInit, s.serverKexInit>>

ClientKex(s) ==
    CASE s.st = "start" -> [Write(s, <<Banner("client")>>) EXCEPT !.st = "banner"]
      [] s.st = "banner" /\ Has(s, "Banner") ->
            [Write(Drop(s), <<OwnKexInit("client")>>) EXCEPT
                !.st = "kexinit", !.clientKexInit = OwnKexInit("client")]
      [] s.st = "kexinit" /\ Has(s, "KexInit") ->
            [Write(Drop(s), <<EcdhInit("client")>>) EXCEPT !.st = "dh", !.serverKexInit = First(s)]
      [] s.st = "dh" /\ Has(s, "EcdhReply") ->
            IF First(s).fields[3] = Hash(s)
            THEN [Write(Drop(s), <<NewKeys>>) EXCEPT !.st = "newkeys"] ELSE [s EXCEPT !.st = "error"]
      [] s.st = "newkeys" /\ Has(s, "NewKeys") -> [Drop(s) EXCEPT !.st = "open"]
      [] s.st \in {"banner", "kexinit", "dh", "newkeys"} /\ Garbled(s) -> [s EXCEPT !.st = "error"]
      [] OTHER -> s

ServerKex(s) ==
    CASE s.st = "start" -> [Write(s, <<Banner("server")>>) EXCEPT !.st = "banner"]
      [] s.st = "banner" /\ Has(s, "Banner") ->
            [Write(Drop(s), <<OwnKexInit("server")>>) EXCEPT
                !.st = "kexinit", !.serverKexInit = OwnKexInit("server")]
      [] s.st = "kexinit" /\ Has(s, "KexInit") -> [Drop(s) EXCEPT !.st = "dh", !.clientKexInit = First(s)]
      [] s.st = "dh" /\ Has(s, "EcdhInit") ->
            [Write(Drop(s), <<EcdhReply(Hash(s)), NewKeys>>) EXCEPT !.st = "newkeys"]
      [] s.st = "newkeys" /\ Has(s, "NewKeys") -> [Write(Drop(s), <<Encrypted("ExtInfo")>>) EXCEPT !.st = "open"]
      [] s.st \in {"banner", "kexinit", "dh", "newkeys"} /\ Garbled(s) -> [s EXCEPT !.st = "error"]
      [] OTHER -> s

UserAuth(s) ==
    CASE HasEncrypted(s, "ExtInfo") -> Drop(s)
      [] s.st = "open" /\ ~Has(s, "Encrypted") -> [Write(s, <<Encrypted("ServiceRequest")>>) EXCEPT !.st = "service"]
      [] s.st = "service" /\ HasEncrypted(s, "ServiceAccept") ->
            [Write(Drop(s), <<Encrypted("AuthRequest")>>) EXCEPT !.st = "auth"]
      [] s.st = "auth" /\ HasEncrypted(s, "AuthSuccess") -> [Drop(s) EXCEPT !.st = "authenticated"]
      [] s.st \in {"open", "service", "auth"} /\ Garbled(s) -> [s EXCEPT !.st = "error"]
      [] OTHER -> s

LibsshStep(call, s) ==
    CASE call = "connect" -> ClientKex(s)
      [] call = "handle_key_exchange" -> ServerKex(s)
      [] call = "userauth_password" -> UserAuth(s)

\* A call of libssh handles all that has arrived.
\* (The sets of one element make TLC evaluate each step once.)
Repeat(call, s) ==
    FoldLeft(LAMBDA acc, i : CHOOSE r \in {LibsshStep(call, x) : x \in {acc}} : TRUE, s, <<1, 2, 3, 4, 5, 6>>)
connect(s) == Repeat("connect", s)
handle_key_exchange(s) == Repeat("handle_key_exchange", s)
userauth_password(s) == Repeat("userauth_password", s)

------------------------------------------------------------------------------
(* LibSSL: the PUT *)

\* progress() of the PUT of agent a, as the session, the PutState and whether
\* it panics after the call.
progress(a, s, st) ==
    CASE a = "server" /\ st = "ExchangingKeys" ->
            LET r == handle_key_exchange(s)
            IN  [s |-> r, st |-> IF r.st = "open" THEN "Authenticating" ELSE st, panic |-> r.st = "error"]
      [] a = "server" /\ st = "Authenticating" ->
            CASE HasEncrypted(s, "AuthRequest") ->
                    [s |-> [Write(Drop(s), <<Encrypted("AuthSuccess")>>) EXCEPT !.st = "authenticated"],
                     st |-> "Done", panic |-> FALSE]
              [] HasEncrypted(s, "ServiceRequest") ->
                    [s |-> Write(Drop(s), <<Encrypted("ServiceAccept")>>), st |-> st, panic |-> FALSE]
              [] OTHER -> \* get_message gives none, also when the session has failed
                    [s |-> IF Garbled(s) THEN [s EXCEPT !.st = "error"] ELSE s, st |-> st, panic |-> FALSE]
      [] a = "client" /\ st = "ExchangingKeys" ->
            LET r == connect(s)
            IN  [s |-> r, st |-> IF r.st = "open" THEN "Authenticating" ELSE st, panic |-> r.st = "error"]
      [] a = "client" /\ st = "Authenticating" ->
            LET r == userauth_password(s)
            IN  [s |-> r, st |-> IF r.st = "authenticated" THEN "Done" ELSE st, panic |-> r.st = "error"]
      [] st = "Done" -> [s |-> s, st |-> st, panic |-> FALSE]

\* extract_knowledge of the message in a packet, then of the raw message.
Items(a, types, data) == [i \in DOMAIN types |-> [agent |-> a, type |-> types[i], data |-> data[i]]]

message_knowledge(a, m) ==
    CASE m.t = "KexInit" -> Items(a, KexInitTypes, m.fields)
      [] m.t = "EcdhInit" -> Items(a, <<"Vec">>, m.fields)
      [] m.t = "EcdhReply" -> Items(a, <<"Vec", "Vec", "Vec">>, m.fields)
      [] OTHER -> <<>>

raw_knowledge(a, r) ==
    CASE r.raw = "Banner" -> Items(a, <<"RawSshMessage", "String">>, <<r, r.m>>)
      [] r.raw = "Packet" -> Items(a, <<"RawSshMessage">>, <<r>>)
      [] r.raw = "OnWire" -> Items(a, <<"RawSshMessage", "OnWireData">>, <<r, r.data>>)

Learn(a, r) ==
    (IF r.raw = "Packet" THEN message_knowledge(a, r.m) ELSE <<>>) \o raw_knowledge(a, r)

------------------------------------------------------------------------------
(* The trace *)

\* A variable: the counter-th item of a type that came from an agent.
Q(a, counter, type) == [agent |-> a, counter |-> counter, type |-> type]
Matching(q) == SelectSeq(knowledge, LAMBDA k : k.agent = q.agent /\ k.type = q.type)
Known(q) == q.counter < Len(Matching(q))
Value(q) == Matching(q)[q.counter + 1].data

Input(a, f, args) == [agent |-> a, act |-> "input", f |-> f, args |-> args]

\* Mutant: the algorithms of the two directions are the same variable.
fn_kex_init_args_OneDirection(a) ==
    <<Q(a, 0, "cookie"), Q(a, 0, "KexAlgorithms"), Q(a, 0, "SignatureSchemes"),
      Q(a, 0, "EncryptionAlgorithms"), Q(a, 0, "EncryptionAlgorithms"), Q(a, 0, "MacAlgorithms"),
      Q(a, 0, "MacAlgorithms"), Q(a, 0, "CompressionAlgorithms"), Q(a, 0, "CompressionAlgorithms")>>

fn_kex_init_args(a) ==
    <<Q(a, 0, "cookie"), Q(a, 0, "KexAlgorithms"), Q(a, 0, "SignatureSchemes"),
      Q(a, 0, "EncryptionAlgorithms"), Q(a, 1, "EncryptionAlgorithms"), Q(a, 0, "MacAlgorithms"),
      Q(a, 1, "MacAlgorithms"), Q(a, 0, "CompressionAlgorithms"), Q(a, 1, "CompressionAlgorithms")>>

seed_successful ==
    << [agent |-> "client", act |-> "output"],
       Input("server", "fn_banner", <<Q("client", 0, "String")>>),
       Input("client", "fn_banner", <<Q("server", 0, "String")>>),
       Input("server", "fn_kex_init", fn_kex_init_args("client")),
       Input("client", "fn_kex_init", fn_kex_init_args("server")),
       Input("server", "fn_raw_message", <<Q("client", 2, "RawSshMessage")>>),
       Input("client", "fn_kex_ecdh_reply", <<Q("server", 0, "Vec"), Q("server", 1, "Vec"), Q("server", 2, "Vec")>>),
       Input("server", "fn_raw_message", <<Q("client", 3, "RawSshMessage")>>),
       Input("client", "fn_raw_message", <<Q("server", 3, "RawSshMessage")>>),
       Input("client", "fn_onwire_message", <<Q("server", 0, "OnWireData")>>),
       Input("server", "fn_onwire_message", <<Q("client", 0, "OnWireData")>>),
       Input("client", "fn_onwire_message", <<Q("server", 1, "OnWireData")>>),
       Input("server", "fn_onwire_message", <<Q("client", 1, "OnWireData")>>),
       Input("client", "fn_onwire_message", <<Q("server", 2, "OnWireData")>>) >>

\* What the function symbols make of their arguments, as bytes.
RawBytes(r) == IF r.raw = "OnWire" THEN r.data ELSE encode(r.m)
apply(f, args) ==
    CASE f = "fn_banner" -> encode(args[1])
      [] f = "fn_raw_message" -> RawBytes(args[1])
      [] f = "fn_onwire_message" -> args[1]
      [] f = "fn_kex_init" -> encode([t |-> "KexInit", fields |-> args, rest |-> "empty"])
      [] f = "fn_kex_ecdh_reply" -> encode([t |-> "EcdhReply", fields |-> args])

Step == seed_successful[at.step]

\* One call of progress in the trace.
Progress(a, s, next) ==
    LET r == progress(a, s, state[a])
    IN  /\ session' = [session EXCEPT ![a] = [r.s EXCEPT !.out = <<>>]]
        /\ state' = [state EXCEPT ![a] = r.st]
        /\ toFuzz' = [toFuzz EXCEPT ![a] = @ \o r.s.out]
        /\ result' = IF r.panic THEN "panic" ELSE result
        /\ at' = next

\* InputAction: the recipe is evaluated, the message sent, the PUT moves on.
InputStep ==
    /\ result = "running" /\ at.phase = "start" /\ Step.act = "input"
    /\ IF \A i \in DOMAIN Step.args : Known(Step.args[i])
       THEN Progress(Step.agent,
                     [session[Step.agent] EXCEPT !.inbox =
                         @ \o apply(Step.f, [i \in DOMAIN Step.args |-> Value(Step.args[i])])],
                     [at EXCEPT !.phase = "output"])
       ELSE result' = "no variable" /\ UNCHANGED <<session, state, toFuzz, at>>
    /\ UNCHANGED <<frames, knowledge, cut>>

\* OutputAction, also after every input: the PUT moves on, ...
OutputStep ==
    /\ result = "running"
    /\ at.phase = "output" \/ (at.phase = "start" /\ Step.act = "output")
    /\ Progress(Step.agent, session[Step.agent], [at EXCEPT !.phase = "take"])
    /\ UNCHANGED <<frames, knowledge, cut>>

\* ... and take_message_from_outbound is called until it returns nothing: a
\* frame, or a read of what is there, or the end of the step.
TakeMessage ==
    /\ result = "running" /\ at.phase = "take" /\ frames[Step.agent] # <<>>
    /\ knowledge' = knowledge \o Learn(Step.agent, Head(frames[Step.agent]))
    /\ frames' = [frames EXCEPT ![Step.agent] = Tail(@)]
    /\ UNCHANGED <<session, state, toFuzz, at, result, cut>>

ReadStream ==
    /\ result = "running" /\ at.phase = "take" /\ frames[Step.agent] = <<>> /\ toFuzz[Step.agent] # <<>>
    /\ \E n \in ReadSizes :
          LET k == Min({n, Len(toFuzz[Step.agent])})
          IN  /\ frames' = [frames EXCEPT ![Step.agent] = deframe(SubSeq(toFuzz[Step.agent], 1, k))]
              /\ toFuzz' = [toFuzz EXCEPT ![Step.agent] = SubSeq(@, k + 1, Len(@))]
              /\ cut' = (cut \/ toFuzz[Step.agent][k].k # Pieces)
    /\ UNCHANGED <<session, state, knowledge, at, result>>

WouldBlock ==
    /\ result = "running" /\ at.phase = "take"
    /\ frames[Step.agent] = <<>> /\ toFuzz[Step.agent] = <<>>
    /\ IF at.step = Len(seed_successful) THEN result' = "ok" /\ UNCHANGED at
       ELSE at' = [step |-> at.step + 1, phase |-> "start"] /\ UNCHANGED result
    /\ UNCHANGED <<session, state, toFuzz, frames, knowledge, cut>>

SshInit ==
    /\ session = [a \in Agents |-> [st |-> "start", inbox |-> <<>>, out |-> <<>>,
                                    clientKexInit |-> NoMessage, serverKexInit |-> NoMessage]]
    /\ state = [a \in Agents |-> "ExchangingKeys"]
    /\ toFuzz = [a \in Agents |-> <<>>]
    /\ frames = [a \in Agents |-> <<>>]
    /\ knowledge = <<>>
    /\ at = [step |-> 1, phase |-> "start"]
    /\ result = "running" /\ cut = FALSE

SshNext == InputStep \/ OutputStep \/ TakeMessage \/ ReadStream \/ WouldBlock

SshSpec == SshInit /\ [][SshNext]_sshVars /\ WF_sshVars(SshNext)

------------------------------------------------------------------------------
(* Properties *)

\* The raw messages learnt from an agent, and those that wait, are what it has
\* written: together, whole messages one after the other, none of them twice,
\* however the reads and the deframer have cut them.
RawIsComplete ==
    \A a \in Agents :
        LET raws == SelectSeq(knowledge, LAMBDA k : k.agent = a /\ k.type = "RawSshMessage")
            read == FlattenSeq([i \in DOMAIN raws |-> RawBytes(raws[i].data)])
                      \o FlattenSeq([i \in DOMAIN frames[a] |-> RawBytes(frames[a][i])])
                      \o toFuzz[a]
        IN  /\ \A i \in DOMAIN read : read[i].k = ((i - 1) % Pieces) + 1
            /\ IsInjective(read)

\* is_state_successful of the client: the seed ends with both PUTs
\* authenticated, each of its variables found, and with both sides having seen
\* the same KEXINITs although the fuzzer put them together anew.
SeedSucceeds ==
    /\ result \in {"running", "ok"}
    /\ result = "ok" => \A a \in Agents : session[a].st = "authenticated" /\ state[a] = "Done"

\* Data from the wire with a piece of a message in the clear.
UnencryptedData(r) == r.raw = "OnWire" /\ \E i \in DOMAIN r.data : r.data[i].m.t # "Encrypted"

\* "This deframer works to reconstruct SSH messages from arbitrary-sized reads,
\* buffering as necessary" (ssh/deframe.rs): data from the wire is only what
\* cannot be a message, an encrypted one, and no piece of one in the clear.
MessagesAreReconstructed ==
    /\ \A a \in Agents : \A i \in DOMAIN frames[a] : ~UnencryptedData(frames[a][i])
    /\ \A i \in DOMAIN knowledge : knowledge[i].type = "RawSshMessage" => ~UnencryptedData(knowledge[i].data)

\* Nothing of a stream is lost or doubled, however it is read; and as long as no
\* read ends inside a message, messages are reconstructed and the seed of
\* ssh/seeds.rs does its work.
SshSeedWorks == RawIsComplete /\ (~cut => MessagesAreReconstructed /\ SeedSucceeds)

\* The seed comes to its end.
SeedEnds == <>(result # "running")
==============================================================================
