--------------------------- MODULE TraceExecution ---------------------------
(***************************************************************************)
(* The execution of a trace (puffin/src/trace.rs): Trace::execute with its *)
(* prior traces, the spawning, reuse and reset of agents, the input and    *)
(* output actions, and the check of the claims at the end.                 *)
(*                                                                         *)
(* execute is recursive; here its calls are the frames of `stack`.  What a *)
(* program under test (PUT) does with its input is its own business: the   *)
(* external step `progress` reads any prefix of the input, sends any       *)
(* messages, makes at most one claim, and succeeds or fails.               *)
(*                                                                         *)
(* Messages in a PUT's inbound buffer are represented by the session       *)
(* (reset to reset) in which they were put there.                          *)
(***************************************************************************)
EXTENDS KnowledgeQuery, ViolationPolicy

CONSTANTS
    Traces,       \* names of traces
    Prior,        \* Trace.prior_traces: a sequence of traces for every trace
    Descriptors,  \* Trace.descriptors
    Steps,        \* Trace.steps: records agent, kind, recipe (a set of queries)
    Roots,        \* the traces the harness executes
    AgentName,
    DataType,     \* the TypeIds of knowledge
    Message,      \* what PUTs send: records ct, payload (an Option) and typs
    ClaimForms,   \* claims up to the fields their PUT fills in
    NewStream,    \* whether reset makes a new stream (WolfSSL) or clears the SSL
                  \* object (OpenSSL, or WolfSSL with the option use_clear)
    CallbackOnCtx,\* whether the message callback belongs to the context of the
                  \* PUT (FALSE: to the SSL object, as with feature wolfssl430)
    MaxSent,      \* bound: messages a PUT sends in one progress
    MaxClaims     \* bound: claims in one execution

AgentType  == {"Server", "Client"}
TLSVersion == {"V1_3", "V1_2"}
NoName     == "NoName"     \* no callback is registered

AgentDescriptor ==
    [name : AgentName, tls_version : TLSVersion, typ : AgentType, try_reuse : BOOLEAN,
     client_authentication : BOOLEAN, server_authentication : BOOLEAN]

Matcher == [ct : QueryContent, hs : Seq(STRING)]
Item    == [agent : AgentName, matcher : Seq(Matcher), typ : DataType]
Query   == [agent : AgentName, matcher : Seq(Matcher), typ : DataType, counter : Nat]
StepSet == [agent : AgentName, kind : {"Input", "Output"}, recipe : SUBSET Query]

(* TlsClaim: who claims, and the data of the claim.                        *)
ClaimBy(names) ==
    [agent : names, origin : AgentType, version : TLSVersion, auth : BOOLEAN,
     kind : STRING, outbound : BOOLEAN, cert : STRING, secret : STRING,
     server_random : STRING, client_random : STRING, cipher : STRING,
     available : Seq(STRING), sig : STRING, peer_sig : STRING, session_id : Seq(Nat)]

ASSUME TraceAssumption ==
    /\ NewStream \in BOOLEAN /\ CallbackOnCtx \in BOOLEAN
    /\ MaxSent \in Nat /\ MaxClaims \in Nat
    /\ NoName \notin AgentName
    /\ Roots \subseteq Traces
    /\ Prior \in [Traces -> Seq(Traces)]
    /\ Descriptors \in [Traces -> Seq(AgentDescriptor)]
    /\ Steps \in [Traces -> Seq(StepSet)]
    /\ Message \subseteq [ct : QueryContent, payload : Seq(STRING), typs : Seq(DataType)]
    /\ "OpaqueMessage" \in DataType
    /\ ClaimForms \subseteq ClaimBy({NoName})

VARIABLES
    stack,      \* the active calls of execute, the innermost last
    agents,     \* TraceContext.agents
    knowledge,  \* TraceContext.knowledge
    claims,     \* TraceContext.claims
    outcome,    \* "Running", "Ok" or the kind of Error returned
    executed    \* history: the steps that were executed, <<trace, index>>

vars == <<stack, agents, knowledge, claims, outcome, executed>>

(* An agent: its name, the descriptor it was created from, the name under  *)
(* which its callback makes claims, its streams, its number of resets.     *)
Agent ==
    [name : AgentName, descriptor : AgentDescriptor, claimer : AgentName \cup {NoName},
     inbound : Seq(Nat), outbound : Seq(Message), session : Nat]

Call(t) == [trace |-> t, pc |-> "prior", i |-> 1, d |-> 1]

Init ==
    /\ \E t \in Roots : stack = <<Call(t)>>
    /\ agents = <<>>
    /\ knowledge = <<>>
    /\ claims = <<>>
    /\ outcome = "Running"
    /\ executed = <<>>

(* Iterator::find on the agents: the least index, as a set.                *)
First(S) == {a \in S : \A b \in S : a <= b}

Top == stack[Len(stack)]
At(pc) == stack # <<>> /\ Top.pc = pc

Goto(pc, i, d) ==
    /\ stack' = [stack EXCEPT ![Len(stack)] = [@ EXCEPT !.pc = pc, !.i = i, !.d = d]]
    /\ outcome' = outcome

(* An error propagates through all callers with `?`.                       *)
Fail(error) ==
    /\ stack' = <<>>
    /\ outcome' = error

-----------------------------------------------------------------------------
(* Spawning agents                                                         *)

is_reusable_with(agent, desc) ==
    /\ agent.descriptor.typ = desc.typ
    /\ agent.descriptor.tls_version = desc.tls_version

authenticate_peer(desc) ==
    \/ desc.typ = "Client" /\ desc.server_authentication
    \/ desc.typ = "Server" /\ desc.client_authentication

new_agent(desc) ==
    [name |-> desc.name, descriptor |-> desc, claimer |-> desc.name,
     inbound |-> <<>>, outbound |-> <<>>, session |-> 0]

(* Mutant: the PUT is not told about its new name.                         *)
rename_AgentOnly(agent, name) == [agent EXCEPT !.name = name]

(* Agent::rename and the rename_agent of the PUT.                          *)
rename(agent, name) == [agent EXCEPT !.name = name, !.claimer = name]

(* The trace whose descriptors are being spawned: `execute` spawns the     *)
(* agents of a prior trace before it calls execute on it, which spawns     *)
(* them again.                                                             *)
SpawnedTrace == IF At("spawnPrior") THEN Prior[Top.trace][Top.i] ELSE Top.trace

Spawning == At("spawnPrior") \/ At("spawn")

Reusable(desc) == {a \in DOMAIN agents : is_reusable_with(agents[a], desc)}

(* Mutant: every descriptor gets an agent of its own.                      *)
SpawnAgent_NeverReuse(desc) == agents' = Append(agents, new_agent(desc))

SpawnAgent(desc) ==
    \/ \E a \in First(Reusable(desc)) :
          agents' = [agents EXCEPT ![a] = rename(@, desc.name)]
    \/ Reusable(desc) = {} /\ agents' = Append(agents, new_agent(desc))

(* One iteration of spawn_agents.  Creating a PUT, or registering its      *)
(* callback, may fail; so may the search for the factory of a new one.     *)
Spawn ==
    /\ Spawning
    /\ Top.d <= Len(Descriptors[SpawnedTrace])
    /\ \/ SpawnAgent(Descriptors[SpawnedTrace][Top.d]) /\ Goto(Top.pc, Top.i, Top.d + 1)
       \/ Fail("Put") /\ UNCHANGED agents
       \/ Reusable(Descriptors[SpawnedTrace][Top.d]) = {} /\ Fail("Agent") /\ UNCHANGED agents
    /\ UNCHANGED <<knowledge, claims, executed>>

SpawnEnd ==
    /\ Spawning
    /\ Top.d > Len(Descriptors[SpawnedTrace])
    /\ \/ /\ At("spawn")
          /\ Goto("step", 1, 1)
       \/ /\ At("spawnPrior")
          /\ stack' = Append([stack EXCEPT ![Len(stack)] = [@ EXCEPT !.pc = "reset", !.d = 1]],
                             Call(SpawnedTrace))
          /\ outcome' = outcome
    /\ UNCHANGED <<agents, knowledge, claims, executed>>

-----------------------------------------------------------------------------
(* Prior traces                                                            *)

(* The head of the loop over prior_traces.                                 *)
NextPrior ==
    /\ At("prior")
    /\ IF Top.i <= Len(Prior[Top.trace]) THEN Goto("spawnPrior", Top.i, 1)
                                         ELSE Goto("spawn", Top.i, 1)
    /\ UNCHANGED <<agents, knowledge, claims, executed>>

(* Mutant: the new session starts with the streams of the old one.         *)
reset_KeepInbound(agent) == [agent EXCEPT !.session = @ + 1]

(* Put::reset.  SSL_clear leaves the buffers of the MemoryStream alone; a  *)
(* new SSL object has no callback of its own.                              *)
reset(agent) ==
    IF NewStream
    THEN [agent EXCEPT !.session = @ + 1, !.inbound = <<>>, !.outbound = <<>>,
                       !.claimer = IF CallbackOnCtx THEN @ ELSE NoName]
    ELSE [agent EXCEPT !.session = @ + 1]

(* One iteration of reset_agents.  Making a new stream may fail.           *)
ResetAgent ==
    /\ At("reset")
    /\ Top.d <= Len(agents)
    /\ \/ agents' = [agents EXCEPT ![Top.d] = reset(@)] /\ Goto("reset", Top.i, Top.d + 1)
       \/ NewStream /\ Fail("Put") /\ UNCHANGED agents
    /\ UNCHANGED <<knowledge, claims, executed>>

(* Mutant: the loop over the prior traces advances by two.                 *)
ResetEnd_SkipsPrior ==
    /\ At("reset")
    /\ Top.d > Len(agents)
    /\ Goto("prior", Top.i + 2, 1)
    /\ UNCHANGED <<agents, knowledge, claims, executed>>

ResetEnd ==
    /\ At("reset")
    /\ Top.d > Len(agents)
    /\ Goto("prior", Top.i + 1, 1)
    /\ UNCHANGED <<agents, knowledge, claims, executed>>

-----------------------------------------------------------------------------
(* Steps                                                                   *)

Step == Steps[Top.trace][Top.i]

find_agent(name) == First({a \in DOMAIN agents : agents[a].name = name})

NextStep ==
    /\ At("step")
    /\ Top.i <= Len(Steps[Top.trace])
    /\ Goto(IF Step.kind = "Input" THEN "input" ELSE "output", Top.i, 1)
    /\ UNCHANGED <<agents, knowledge, claims, executed>>

(* Mutant: a step that names no agent is not answered by an error.         *)
Input_AwaitsAgent ==
    /\ At("input")
    /\ \A q \in Step.recipe : CanEvaluate(knowledge, claims, q)
    /\ \E a \in find_agent(Step.agent) :
          /\ agents' = [agents EXCEPT ![a].inbound = Append(@, agents[a].session)]
          /\ Goto("progress", Top.i, 1)
    /\ UNCHANGED <<knowledge, claims, executed>>

(* InputAction::input up to next_state: evaluate the recipe (a function    *)
(* symbol may fail) and put the message into the inbound buffer.           *)
Input ==
    /\ At("input")
    /\ \/ /\ \E q \in Step.recipe : ~CanEvaluate(knowledge, claims, q)
          /\ Fail("Term") /\ UNCHANGED agents
       \/ /\ \A q \in Step.recipe : CanEvaluate(knowledge, claims, q)
          /\ \/ Fail("Fn") /\ UNCHANGED agents
             \/ find_agent(Step.agent) = {} /\ Fail("Agent") /\ UNCHANGED agents
             \/ \E a \in find_agent(Step.agent) :
                    /\ agents' = [agents EXCEPT ![a].inbound = Append(@, agents[a].session)]
                    /\ Goto("progress", Top.i, 1)
    /\ UNCHANGED <<knowledge, claims, executed>>

(* The claim a PUT makes: its callback fixes the name, and the descriptor  *)
(* from which it was created the rest.                                     *)
Claim(agent, form) ==
    [form EXCEPT !.agent = agent.claimer, !.origin = agent.descriptor.typ,
                 !.version = agent.descriptor.tls_version,
                 !.auth = authenticate_peer(agent.descriptor)]

(* What a PUT may do: read the first n messages, send, and claim.          *)
PutRuns(a) ==
    /\ \E n \in 0..Len(agents[a].inbound), k \in 0..MaxSent : \E sent \in [1..k -> Message] :
          agents' = [agents EXCEPT ![a].inbound = SubSeq(@, n + 1, Len(@)),
                                   ![a].outbound = @ \o sent]
    /\ \/ claims' = claims
       \/ /\ Len(claims) < MaxClaims /\ agents[a].claimer # NoName
          /\ \E form \in ClaimForms : claims' = Append(claims, Claim(agents[a], form))

(* Put::progress as the two calls of next_state make it: at the end of an  *)
(* input action, and at the beginning of an output action.                 *)
progress ==
    /\ At("progress") \/ At("output")
    /\ \/ /\ find_agent(Step.agent) = {}
          /\ Fail("Agent") /\ UNCHANGED <<agents, claims>>
       \/ \E a \in find_agent(Step.agent) :
             /\ PutRuns(a)
             /\ \/ Goto(IF At("progress") THEN "output" ELSE "drain", Top.i, 1)
                \/ Fail("Put")
    /\ UNCHANGED <<knowledge, executed>>

(* Mutant: an output action takes one message only.                        *)
Drained_AfterOne(agent) == Len(agent.outbound) <= 1

Drained(agent) == agent.outbound = <<>>

(* What a message tells the attacker: its parts under its matcher, if it   *)
(* was decoded, and the opaque message, whose matcher cannot be trusted.   *)
extract_knowledge(name, msg) ==
    [j \in 1..(IF msg.payload = <<>> THEN 0 ELSE Len(msg.typs)) |->
        [agent |-> name, matcher |-> create_matcher(msg), typ |-> msg.typs[j]]]
    \o <<[agent |-> name, matcher |-> <<>>, typ |-> "OpaqueMessage"]>>

(* One iteration of the loop of OutputAction::output.                      *)
TakeMessage ==
    /\ At("drain")
    /\ \E a \in find_agent(Step.agent) :
          /\ ~Drained(agents[a])
          /\ knowledge' = knowledge \o extract_knowledge(Step.agent, Head(agents[a].outbound))
          /\ agents' = [agents EXCEPT ![a].outbound = Tail(@)]
    /\ UNCHANGED <<stack, claims, outcome, executed>>

StepEnd ==
    /\ At("drain")
    /\ \A a \in find_agent(Step.agent) : Drained(agents[a])
    /\ executed' = Append(executed, <<Top.trace, Top.i>>)
    /\ Goto("step", Top.i + 1, 1)
    /\ UNCHANGED <<agents, knowledge, claims>>

-----------------------------------------------------------------------------
(* The end of execute                                                      *)

(* Mutant: claims are checked at the end of the outermost trace only.      *)
verify_OutermostOnly ==
    IF Len(stack) > 1 THEN None ELSE check_violation(claims)

verify_security_violations == check_violation(claims)

(* Mutant: the end of a prior trace is the end of the execution.           *)
Return_EndsAll ==
    /\ At("step")
    /\ Top.i > Len(Steps[Top.trace])
    /\ stack' = SubSeq(stack, 1, Len(stack) - 1)
    /\ outcome' = "Ok"
    /\ UNCHANGED <<agents, knowledge, claims, executed>>

Return ==
    /\ At("step")
    /\ Top.i > Len(Steps[Top.trace])
    /\ IF verify_security_violations # None
       THEN Fail("SecurityClaim")
       ELSE /\ stack' = SubSeq(stack, 1, Len(stack) - 1)
            /\ outcome' = IF Len(stack) = 1 THEN "Ok" ELSE outcome
    /\ UNCHANGED <<agents, knowledge, claims, executed>>

Next ==
    \/ NextPrior \/ Spawn \/ SpawnEnd \/ ResetAgent \/ ResetEnd
    \/ NextStep \/ Input \/ progress \/ TakeMessage \/ StepEnd
    \/ Return

Spec == Init /\ [][Next]_vars

(* Execution is sequential code, and PUTs work on non-blocking streams.    *)
FairSpec == Spec /\ WF_vars(Next)

-----------------------------------------------------------------------------
(* Properties                                                              *)

Frame ==
    [trace : Traces,
     pc : {"prior", "spawnPrior", "reset", "spawn", "step", "input", "progress", "output",
           "drain"},
     i : Nat \ {0}, d : Nat \ {0}]

(* Type invariant of an execution: its frames, agents, knowledge and claims.*)
TypeOK ==
    /\ stack \in Seq(Frame)
    /\ agents \in Seq(Agent)
    /\ outcome \in {"Running", "Ok", "Put", "Agent", "Term", "Fn", "SecurityClaim"}
    /\ outcome = "Running" <=> stack # <<>>
    /\ knowledge \in Seq(Item)
    /\ claims \in Seq(ClaimBy(AgentName))
    /\ executed \in Seq(Traces \X Nat)

(* Because is_reusable_with looks at nothing else, there is never more     *)
(* than one agent of a type and version, in however many traces it served. *)
OneAgentPerKind ==
    \A a, b \in DOMAIN agents :
        (/\ agents[a].descriptor.typ = agents[b].descriptor.typ
         /\ agents[a].descriptor.tls_version = agents[b].descriptor.tls_version)
        => a = b

Stepping == At("step") \/ At("input") \/ At("progress") \/ At("output") \/ At("drain")

Declared == {Descriptors[Top.trace][k] : k \in DOMAIN Descriptors[Top.trace]}

SameKind(d, e) == d.typ = e.typ /\ d.tls_version = e.tls_version

(* What traces have to keep to, since nothing in the code enforces it: no  *)
(* name stands for agents of two kinds, and no trace has two names for     *)
(* agents of one kind.                                                     *)
NamesHaveOneKind ==
    \A t, u \in Traces : \A k \in DOMAIN Descriptors[t], l \in DOMAIN Descriptors[u] :
        Descriptors[t][k].name = Descriptors[u][l].name
            => SameKind(Descriptors[t][k], Descriptors[u][l])

KindsHaveOneName ==
    \A t \in Traces : \A k, l \in DOMAIN Descriptors[t] :
        SameKind(Descriptors[t][k], Descriptors[t][l])
            => Descriptors[t][k].name = Descriptors[t][l].name

(* While the steps of a trace run, its descriptors' names lead to agents   *)
(* of the declared type and version, after all the renaming and spawning   *)
(* that its prior traces did, if NamesHaveOneKind and KindsHaveOneName.    *)
StepsRunOnDeclaredAgents ==
    Stepping => \A desc \in Declared :
        /\ find_agent(desc.name) # {}
        /\ \A a \in find_agent(desc.name) :
              /\ agents[a].descriptor.typ = desc.typ
              /\ agents[a].descriptor.tls_version = desc.tls_version

(* While the steps of a trace run, the claims of every agent it declares   *)
(* are recorded, and under the agent's present name: reset may lose the    *)
(* callback and a prior trace have set another name, but the agent is      *)
(* always renamed before its next step.  (If NamesHaveOneKind.)            *)
ClaimsAreRecorded ==
    Stepping => \A desc \in Declared : \A a \in find_agent(desc.name) :
        agents[a].claimer = desc.name

(* An output action leaves no message behind: whatever an agent sent is    *)
(* knowledge before the next step, the end of the trace, and a reset that  *)
(* would discard it.                                                       *)
OutputBecomesKnowledge ==
    (outcome = "Ok" \/ (stack # <<>> /\ Top.pc \notin {"output", "drain"}))
        => \A a \in DOMAIN agents : agents[a].outbound = <<>>

(* A PUT never finds input of an earlier session in its buffer.            *)
SessionIsolation ==
    \A a \in DOMAIN agents : \A k \in DOMAIN agents[a].inbound :
        agents[a].inbound[k] = agents[a].session

Flatten(seqs) ==
    LET flat[k \in 0..Len(seqs)] == IF k = 0 THEN <<>> ELSE flat[k - 1] \o seqs[k]
    IN  flat[Len(seqs)]

(* Reference: all the steps of a trace in order, those of prior traces     *)
(* before.                                                                 *)
AllSteps[t \in Traces] ==
    Flatten([k \in DOMAIN Prior[t] |-> AllSteps[Prior[t][k]]])
        \o [k \in DOMAIN Steps[t] |-> <<t, k>>]

(* A trace owns its prior traces, so that none is its own prior trace: a   *)
(* depth can be given to every trace.                                      *)
NestsBy(depth) ==
    \A t \in Traces : \A k \in DOMAIN Prior[t] : depth[Prior[t][k]] < depth[t]

(* The steps executed are a prefix of all the steps of some root, all of   *)
(* them if execution succeeds: no step is skipped, repeated or run before  *)
(* a prior trace has ended, although agents are spawned twice.             *)
StepsInOrder ==
    \E t \in Roots :
        /\ Len(executed) <= Len(AllSteps[t])
        /\ \A k \in DOMAIN executed : executed[k] = AllSteps[t][k]
        /\ outcome = "Ok" => executed = AllSteps[t]
        /\ stack # <<>> => stack[1].trace = t

(* However often agents are spawned, reused and renamed by prior traces,   *)
(* all steps run, in order, and on agents of the declared kind.            *)
StepsRunAsDeclared == StepsInOrder /\ StepsRunOnDeclaredAgents

(* Success means that the policy had no objection to the claims, and no    *)
(* later trace starts on claims the policy objects to.                     *)
NothingRunsOnAViolation ==
    (outcome = "Ok" \/ Spawning) => check_violation(claims) = None

(* Every execution ends.                                                   *)
Terminates == <>(outcome # "Running")

-----------------------------------------------------------------------------
(* Statements of the documentation                                         *)

(* AgentDescriptor.try_reuse: "Whether we want to try to reuse a previous  *)
(* agent."  An agent only gets a new name from a descriptor that wants it. *)
ReuseOnlyIfWanted ==
    [][ \A a \in DOMAIN agents :
            agents'[a].name # agents[a].name
                => Descriptors[SpawnedTrace][Top.d].try_reuse ]_vars

(* verify_security_violations: "We only check for Finished claims right    *)
(* now, so its fine to check only at the end": no violation is missed.     *)
NoViolationIsMissed ==
    (check_violation(claims) # None) ~> (outcome = "SecurityClaim")
=============================================================================
