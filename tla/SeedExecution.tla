--------------------------- MODULE SeedExecution ---------------------------
(***************************************************************************)
(* The seeds of TlsSeeds, run as puffin/src/trace.rs runs a trace on the   *)
(* PUTs of WolfsslPut: agents are spawned and reused, recipes evaluated,   *)
(* messages handed to the PUTs, their records learnt, the claims checked.  *)
(* A seed is also run as SkipMutator and RepeatMutator leave it.           *)
(***************************************************************************)
EXTENDS Integers, Sequences, SequencesExt, ViolationPolicy, WolfsslPut, TlsSeeds

CONSTANTS Runs      \* pairs of a seed's name and a mutation of its steps

VARIABLES
    run,        \* the element of Runs
    position,   \* the next instruction of its program
    taking,     \* whether that is an output action in its take loop
    agents,     \* the PUTs, in the order they were created
    knowledge,  \* what has been learnt
    claims,     \* the global claim list
    result      \* "running", "ok", "term", "put" or "claim"

seedVars == <<run, position, taking, agents, knowledge, claims, result>>

------------------------------------------------------------------------------
(* What the fuzzer learns from a record *)

\* The items of a decoded message: their types and data.  No record of the seeds
\* is a heartbeat or a handshake message of another type, which fails.
Each(typ, list) == [i \in 1..(Len(list) - 1) |-> <<typ, list[i + 1]>>]
extract_knowledge(m) ==
    CASE m[1] = "ClientHello" ->
            <<<<"Message", m>>, <<"HandshakeType", <<m[1]>>>>, <<"Random", m[3]>>, <<"SessionID", m[4]>>,
              <<"ProtocolVersion", m[2]>>, <<"Vec<ClientExtension>", m[7]>>, <<"Vec<Compression>", m[6]>>,
              <<"Vec<CipherSuite>", m[5]>>>>
            \o Each("ClientExtension", m[7]) \o Each("Compression", m[6]) \o Each("CipherSuite", m[5])
      [] m[1] = "ServerHello" ->
            <<<<"Message", m>>, <<"HandshakeType", <<m[1]>>>>, <<"Random", m[3]>>, <<"SessionID", m[4]>>,
              <<"CipherSuite", m[5]>>, <<"Compression", m[6]>>, <<"ProtocolVersion", m[2]>>,
              <<"Vec<ServerExtension>", m[7]>>>>
            \o Each("ServerExtension", m[7])
      [] m[1] = "HelloRequest" -> <<<<"Message", m>>, <<"HandshakeType", <<m[1]>>>>>>
      [] m[1] = "Certificate" -> <<<<"Message", m>>, <<"Vec<Certificate>", m[2]>>>>
      [] m[1] \in {"ServerKeyExchange", "ClientKeyExchange"} -> <<<<"Message", m>>, <<"Vec<u8>", m[2]>>>>
      [] m[1] = "NewSessionTicket" -> <<<<"Message", m>>, <<"u64", m[2]>>, <<"Vec<u8>", m[3]>>>>
      [] m[1] = "ServerHelloDone" -> <<<<"Message", m>>>>
      [] m[1] \in {"ApplicationData", "Encrypted12"} -> <<<<"Message", m>>, <<"Vec<u8>", m>>>>
      [] m[1] = "ChangeCipherSpec" -> <<>>
      [] m[1] = "Alert" -> <<<<"Message", m>>, <<"AlertDescription", m>>, <<"AlertLevel", m>>>>

ContentTypeOf(m) ==
    IF m[1] \in {"ApplicationData", "ChangeCipherSpec", "Alert"} THEN m[1] ELSE "Handshake"

\* MessagePayload::new: the nonce in front of an encrypted handshake message of
\* TLS 1.2 may be read as a HelloRequest.
Decoded(r) == IF r[1] = "Encrypted12" THEN {r, <<"HelloRequest">>} ELSE {r}

\* The knowledge from a record that decodes as m: its parts under the matcher
\* of the message, and the record itself under none.
learn(agent, r, m) ==
    LET matcher == create_matcher([ct |-> ContentTypeOf(m),
                                   payload |-> IF m[1] = "Encrypted12" THEN <<"Encrypted">> ELSE <<m[1]>>])
        parts == extract_knowledge(m)
    IN  [i \in DOMAIN parts |->
            [agent |-> agent, matcher |-> matcher, typ |-> parts[i][1], data |-> parts[i][2]]]
        \o <<[agent |-> agent, matcher |-> <<>>, typ |-> "OpaqueMessage", data |-> r]>>

------------------------------------------------------------------------------
(* The program of a trace *)

\* SkipMutator and RepeatMutator on the steps, counted from 1.
mutated(steps, mutation) ==
    CASE mutation[1] = "none" -> steps
      [] mutation[1] = "skip" -> RemoveAt(steps, mutation[2])
      [] mutation[1] = "repeat" -> InsertAt(steps, mutation[3], steps[mutation[2]])

\* Trace::execute: an input step is followed by an output action.
execute(t) ==
    <<[do |-> "spawn", descriptors |-> t.descriptors]>>
    \o FoldLeft(LAMBDA acc, s : acc \o (IF s.do = "input" THEN <<s, Output(s.agent)>> ELSE <<s>>), <<>>, t.steps)
    \o <<[do |-> "verify"]>>

\* A prior trace spawns its agents twice: before execute, and in it.
program ==
    LET found == test_seeds(run[1], Context(knowledge, claims))
        trace == [found EXCEPT !.steps = mutated(@, run[2])]
    IN  FoldLeft(LAMBDA acc, p : acc \o <<[do |-> "spawn", descriptors |-> p.descriptors]>> \o execute(p)
                                     \o <<[do |-> "reset"]>>,
                 <<>>, trace.priors)
        \o execute(trace)

\* find_agent_mut: the first of the name.
Named(name) == {i \in DOMAIN agents : agents[i].agent = name /\ \A j \in 1..(i - 1) : agents[j].agent # name}

is_reusable_with(put, d) == put.descriptor.typ = d.typ /\ put.descriptor.version = d.version

spawn_agents(puts, descriptors) ==
    FoldLeft(LAMBDA acc, d :
                 LET reusable == SelectInSeq(acc, LAMBDA put : is_reusable_with(put, d))
                 IN  IF reusable # 0 THEN [acc EXCEPT ![reusable] = rename_agent(@, d.name)]
                     ELSE Append(acc, create(d, Len(acc) + 1)),
             puts, descriptors)

------------------------------------------------------------------------------
(* Actions *)

SeedInit ==
    /\ run \in Runs
    /\ position = 1 /\ taking = FALSE /\ agents = <<>> /\ knowledge = <<>> /\ claims = <<>> /\ result = "running"

Goto(next) == position' = next /\ UNCHANGED run

Spawn(i) ==
    /\ i.do = "spawn"
    /\ agents' = spawn_agents(agents, i.descriptors)
    /\ Goto(position + 1)
    /\ UNCHANGED <<taking, knowledge, claims, result>>

\* Mutant: the error of a PUT is ignored.
Advance_ErrorIgnored(a, put) ==
    \E p \in progress(put, claims) :
        /\ agents' = [agents EXCEPT ![a] = p.put]
        /\ claims' = p.claims
        /\ UNCHANGED result

\* next_state: progress of the PUT; its error ends the trace.
Advance(a, put) ==
    \E p \in progress(put, claims) :
        /\ agents' = [agents EXCEPT ![a] = p.put]
        /\ claims' = p.claims
        /\ result' = IF IsError(p.put) THEN "put" ELSE "running"

InputStep(i) ==
    /\ i.do = "input"
    /\ \E a \in Named(i.agent) :
          IF i.m = Err THEN result' = "term" /\ UNCHANGED <<agents, claims>>
          ELSE Advance(a, [agents[a] EXCEPT !.inbound = Append(@, i.m)])
    /\ Goto(position + 1)
    /\ UNCHANGED <<taking, knowledge>>

OutputStep(i) ==
    /\ i.do = "output" /\ ~taking
    /\ \E a \in Named(i.agent) : Advance(a, agents[a])
    /\ taking' = (result' = "running")
    /\ Goto(position)
    /\ UNCHANGED knowledge

TakeRecord(i) ==
    /\ taking
    /\ \E a \in Named(i.agent) :
          /\ agents[a].peer.out # <<>>
          /\ \E m \in Decoded(agents[a].peer.out[1]) :
                knowledge' = knowledge \o learn(i.agent, agents[a].peer.out[1], m)
          /\ agents' = [agents EXCEPT ![a].peer.out = Tail(@)]
    /\ Goto(position)
    /\ UNCHANGED <<taking, claims, result>>

\* Mutant: the step is run again.
EndOfOutput_Again(i) ==
    /\ taking
    /\ \E a \in Named(i.agent) : agents[a].peer.out = <<>>
    /\ taking' = FALSE
    /\ Goto(position)
    /\ UNCHANGED <<agents, knowledge, claims, result>>

EndOfOutput(i) ==
    /\ taking
    /\ \E a \in Named(i.agent) : agents[a].peer.out = <<>>
    /\ taking' = FALSE
    /\ Goto(position + 1)
    /\ UNCHANGED <<agents, knowledge, claims, result>>

\* verify_security_violations; the one of the last trace ends the run.
Verify(i, last) ==
    /\ i.do = "verify"
    /\ result' = IF check_violation(claims) # None THEN "claim" ELSE IF last THEN "ok" ELSE "running"
    /\ Goto(position + 1)
    /\ UNCHANGED <<taking, agents, knowledge, claims>>

Reset(i) ==
    /\ i.do = "reset"
    /\ agents' = [a \in DOMAIN agents |-> reset(agents[a])]
    /\ Goto(position + 1)
    /\ UNCHANGED <<taking, knowledge, claims, result>>

SeedNext ==
    /\ result = "running"
    /\ \E prog \in {program} :
        \/ Spawn(prog[position])
        \/ InputStep(prog[position])
        \/ OutputStep(prog[position])
        \/ TakeRecord(prog[position])
        \/ EndOfOutput(prog[position])
        \/ Verify(prog[position], position = Len(prog))
        \/ Reset(prog[position])

\* Weak fairness of SeedNext, which is enabled while the trace is running:
\* execute is one loop without waiting.
SeedFairness == []<>(result # "running") \/ []<><<SeedNext>>_seedVars

SeedSpec == SeedInit /\ [][SeedNext]_seedVars /\ SeedFairness

------------------------------------------------------------------------------
(* Properties *)

Results == {"running", "ok", "term", "put", "claim"}

\* State of the right shape; between two steps, a PUT has read its input and
\* holds at most one request for a transcript, and a message is known under one
\* matcher at most.
SeedTypeOK ==
    /\ position \in Nat \ {0} /\ taking \in BOOLEAN /\ result \in Results
    /\ \A i \in DOMAIN agents : Len(agents[i].deferred) <= 1 /\ agents[i].inbound = <<>>
    /\ \A i \in DOMAIN knowledge : Len(knowledge[i].matcher) <= 1

Unmutated == run[2] = <<"none">>

\* The tests of seeds.rs (expect_trace and assert!(...is_state_successful())):
\* a seed runs to its end, every agent in it has then completed its handshake,
\* and the ticket of a resumption was accepted.  "This should fail" is said of
\* the seed in which the cipher suites of the client are replaced.
SeedsSucceed ==
    (Unmutated /\ result # "running") =>
        IF run[1] = "seed_successful_mitm" THEN result = "put"
        ELSE /\ result = "ok"
             /\ \A i \in DOMAIN agents : is_state_successful(agents[i])

\* No alarm of the oracle without an error of the library: an honest library
\* is never accused, whichever step of a seed is left out or repeated.
HonestIsNotAccused == result # "claim"

\* The seeds reach what their tests expect, and what is made of them by leaving
\* out or repeating a step accuses no honest library.
SeedsAreJudged == SeedTypeOK /\ SeedsSucceed /\ HonestIsNotAccused

LastOf(log) == log[Len(log)]

\* A transcript claimed by a TLS 1.3 server ends with the message that its kind names,
\* although it is extracted only after the callback has returned: at the end
\* of progress, when later messages may have been hashed.
TranscriptsAreWhatTheySay ==
    \A i \in DOMAIN claims :
        LET c == claims[i]
            last == LastOf(c.data)[1]
        IN  (c.origin = "Server" /\ c.version = "V1_3") =>
              /\ c.kind = "TranscriptServerHello" => last = "ServerHello"
              /\ c.kind = "TranscriptServerFinished" => last \in {"Finished", "CertificateVerify"}
              /\ c.kind = "TranscriptCertificate" => last \in {"Certificate", "CertificateTLS13"}
              /\ c.kind = "TranscriptClientFinished" => last = "Finished"

\* On a server, whose transcripts recipes use, no request is lost to a later
\* one that asks for another: the cell holds one, and progress serves it.  (A
\* TLS 1.2 client does lose one: the Certificate behind the ServerHello asks
\* for two.)
NoRequestLost == \A i \in DOMAIN agents : agents[i].descriptor.typ = "Server" => ~agents[i].lost

\* On servers, no request for a transcript is lost to another; and what a TLS 1.3
\* server, whose transcripts the recipes use, claims is the one asked for.
TranscriptsAreClaimed == NoRequestLost /\ TranscriptsAreWhatTheySay

\* A PUT that rejects a message leaves its alert in the outbound buffer: the
\* trace ends before the output action, and the fuzzer never learns an alert.
ErrorLeavesAlert ==
    /\ result = "put" => \E i \in DOMAIN agents : agents[i].peer.out # <<>> /\ LastOf(agents[i].peer.out) = <<"Alert">>
    /\ \A i \in DOMAIN knowledge : knowledge[i].data # <<"Alert">>

\* Every run of a seed comes to an end.
SeedRunEnds == <>(result # "running")
=============================================================================
