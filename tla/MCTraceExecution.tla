-------------------------- MODULE MCTraceExecution --------------------------
(***************************************************************************)
(* Traces in the manner of tlspuffin/src/tls/seeds.rs: a handshake, a      *)
(* resumption on a renamed server after it, a trace of another version, a  *)
(* trace whose prior trace has a prior trace, a trace with a step on an    *)
(* agent nobody spawned, and one whose server wants the client to          *)
(* authenticate.                                                           *)
(***************************************************************************)
EXTENDS TraceExecution

Desc(name, typ, version) ==
    [name |-> name, typ |-> typ, tls_version |-> version, try_reuse |-> FALSE,
     client_authentication |-> FALSE, server_authentication |-> TRUE]

In(agent, recipe) == [agent |-> agent, kind |-> "Input", recipe |-> recipe]
Out(agent) == [agent |-> agent, kind |-> "Output", recipe |-> {}]

ServerHello == <<Handshake(<<"ServerHello">>)>>

(* The random of the first ServerHello of n0, and its last Finished claim. *)
HelloOfN0 == [agent |-> "n0", typ |-> "Random", matcher |-> ServerHello, counter |-> 0]
ClaimOfN0 == [agent |-> "n0", typ |-> "Finished", matcher |-> <<>>, counter |-> 0]

MCNames  == {"n0", "n1", "n2", "n3"}
MCTraces == {"handshake", "resumption", "legacy", "nested", "stray", "mutualAuth"}

MCPrior ==
    [handshake  |-> <<>>,
     resumption |-> <<"handshake">>,
     legacy     |-> <<>>,
     nested     |-> <<"resumption", "legacy">>,
     stray      |-> <<"legacy">>,
     mutualAuth |-> <<"handshake">>]

MCDescriptors ==
    [handshake  |-> <<Desc("n1", "Client", "V1_3"), Desc("n0", "Server", "V1_3")>>,
     resumption |-> <<Desc("n2", "Server", "V1_3")>>,
     legacy     |-> <<Desc("n3", "Server", "V1_2")>>,
     nested     |-> <<Desc("n0", "Server", "V1_3")>>,
     stray      |-> <<Desc("n0", "Server", "V1_3")>>,
     mutualAuth |-> <<[Desc("n2", "Server", "V1_3") EXCEPT !.client_authentication = TRUE]>>]

MCSteps ==
    [handshake  |-> <<Out("n1"), In("n0", {})>>,
     resumption |-> <<In("n2", {HelloOfN0})>>,
     legacy     |-> <<Out("n3")>>,
     nested     |-> <<In("n0", {ClaimOfN0})>>,
     stray      |-> <<Out("n0"), In("n2", {})>>,
     mutualAuth |-> <<In("n2", {})>>]

MCDepth ==
    [handshake |-> 0, legacy |-> 0, resumption |-> 1, stray |-> 1, mutualAuth |-> 1,
     nested |-> 2]

(* The traces keep to what the theorems ask of them.                       *)
ASSUME TracesAreSound == NamesHaveOneKind /\ KindsHaveOneName /\ NestsBy(MCDepth)

MCMessage ==
    {[ct |-> "Handshake", payload |-> <<"ServerHello">>, typs |-> <<"Message", "Random">>]}

(* A Finished claim with the right certificate for a client, and with one  *)
(* that nobody should accept.                                              *)
Form(cert) ==
    [kind |-> "Finished", outbound |-> FALSE, agent |-> NoName, origin |-> "Client",
     version |-> "V1_3", secret |-> "k", server_random |-> "r", client_random |-> "r",
     cipher |-> "c", available |-> <<"c">>, sig |-> "s", peer_sig |-> "s",
     session_id |-> <<1>>, auth |-> FALSE, cert |-> cert]

MCClaimForms == {Form("alice"), Form("eve")}
=============================================================================
