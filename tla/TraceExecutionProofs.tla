------------------------ MODULE TraceExecutionProofs ------------------------
(***************************************************************************)
(* Theorems about the execution of traces, for all traces, descriptors and *)
(* programs under test.                                                    *)
(***************************************************************************)
EXTENDS TraceExecution, WellFoundedInduction, SequenceTheorems, TLAPS

(* A frame whose index points into the sequence it is used on.             *)
GoodFrame ==
    {f \in Frame :
        /\ f.pc = "spawnPrior" => f.i \in 1..Len(Prior[f.trace])
        /\ f.pc \in {"input", "progress", "output", "drain"} =>
              f.i \in 1..Len(Steps[f.trace])}

StackOK ==
    /\ stack \in Seq(Frame) /\ stack \in Seq(GoodFrame)
    /\ outcome \in {"Running", "Ok", "Put", "Agent", "Term", "Fn", "SecurityClaim"}
    /\ outcome = "Running" <=> stack # <<>>

DataOK ==
    /\ agents \in Seq(Agent)
    /\ knowledge \in Seq(Item)
    /\ claims \in Seq(ClaimBy(AgentName))
    /\ executed \in Seq(Traces \X Nat)

(* TypeOK made inductive.                                                  *)
TypeInv == StackOK /\ DataOK

-----------------------------------------------------------------------------
(* Sequences                                                               *)

(* A part of a sequence has only elements of that sequence.                *)
LEMMA SubSeqType ==
    ASSUME NEW S, NEW s \in Seq(S), NEW m \in 1..(Len(s) + 1), NEW n \in 0..Len(s)
    PROVE  /\ SubSeq(s, m, n) \in Seq(S)
           /\ \A k \in DOMAIN SubSeq(s, m, n) :
                 \E l \in DOMAIN s : SubSeq(s, m, n)[k] = s[l]
  <1>1. SubSeq(s, m, n) \in Seq(S)
    OBVIOUS
  <1>2. ASSUME NEW k \in DOMAIN SubSeq(s, m, n)
        PROVE  \E l \in DOMAIN s : SubSeq(s, m, n)[k] = s[l]
    <2>1. k \in 1..Len(SubSeq(s, m, n)) /\ k + m - 1 \in DOMAIN s
      OBVIOUS
    <2>2. SubSeq(s, m, n)[k] = s[k + m - 1]
      BY <2>1
    <2> QED BY <2>1, <2>2
  <1> QED BY <1>1, <1>2

(* The length of a prefix.                                                 *)
LEMMA SubSeqLen ==
    ASSUME NEW S, NEW s \in Seq(S), NEW n \in 0..Len(s)
    PROVE  Len(SubSeq(s, 1, n)) = n
  OBVIOUS

(* Sequences over a set are closed under concatenation.                    *)
LEMMA ConcatType ==
    ASSUME NEW S, NEW s \in Seq(S), NEW t \in Seq(S)
    PROVE  s \o t \in Seq(S)
  OBVIOUS

(* What a PUT sends is a sequence of messages.                             *)
LEMMA SentType ==
    ASSUME NEW k \in Nat, NEW sent \in [1..k -> Message]
    PROVE  sent \in Seq(Message)
  OBVIOUS

-----------------------------------------------------------------------------
(* Control                                                                 *)

(* The innermost call of execute.                                          *)
LEMMA TopType ==
    ASSUME TypeInv, stack # <<>>
    PROVE  /\ Len(stack) \in 1..Len(stack)
           /\ Top \in GoodFrame
           /\ Top.trace \in Traces /\ Top.i \in Nat \ {0} /\ Top.d \in Nat \ {0}
           /\ Steps[Top.trace] \in Seq(StepSet)
           /\ Prior[Top.trace] \in Seq(Traces)
           /\ outcome = "Running"
  <1>1. Len(stack) \in 1..Len(stack) /\ outcome = "Running"
    BY DEF TypeInv, StackOK
  <1>2. Top \in GoodFrame
    BY <1>1 DEF TypeInv, StackOK, Top
  <1>3. Top.trace \in Traces /\ Top.i \in Nat \ {0} /\ Top.d \in Nat \ {0}
    BY <1>2 DEF GoodFrame, Frame
  <1> QED BY <1>1, <1>2, <1>3, TraceAssumption

(* The step that a stepping call executes.                                 *)
LEMMA StepType ==
    ASSUME TypeInv, stack # <<>>, Top.pc \in {"input", "progress", "output", "drain"}
    PROVE  Step \in StepSet /\ Step.agent \in AgentName
  <1>1. Top.i \in 1..Len(Steps[Top.trace]) /\ Steps[Top.trace] \in Seq(StepSet)
    BY TopType DEF GoodFrame
  <1>2. Step \in StepSet
    BY <1>1 DEF Step
  <1> QED BY <1>2 DEF StepSet

(* Where a frame may go on: pc is a label, and i points into the sequence  *)
(* that is used there.                                                     *)
Target(pc, i, d) ==
    /\ pc \in {"prior", "spawnPrior", "reset", "spawn", "step", "input", "progress",
               "output", "drain"}
    /\ i \in Nat \ {0} /\ d \in Nat \ {0}
    /\ pc = "spawnPrior" => i \in 1..Len(Prior[Top.trace])
    /\ pc \in {"input", "progress", "output", "drain"} => i \in 1..Len(Steps[Top.trace])

(* Going on inside the innermost call.                                     *)
LEMMA GotoType ==
    ASSUME TypeInv, stack # <<>>, NEW pc, NEW i, NEW d, Target(pc, i, d), Goto(pc, i, d)
    PROVE  /\ stack' \in Seq(GoodFrame) /\ stack' \in Seq(Frame)
           /\ stack' # <<>> /\ Len(stack') = Len(stack)
           /\ Top'.pc = pc /\ Top'.i = i /\ Top'.d = d /\ Top'.trace = Top.trace
           /\ \A l \in 1..Len(stack) - 1 : stack'[l] = stack[l]
           /\ outcome' = "Running" /\ StackOK'
  <1> USE DEF Target
  <1> DEFINE f == [Top EXCEPT !.pc = pc, !.i = i, !.d = d]
  <1>1. f \in GoodFrame /\ f \in Frame
    BY TopType DEF GoodFrame, Frame
  <1> HIDE DEF f, Target
  <1>2. stack' = [stack EXCEPT ![Len(stack)] = f] /\ outcome' = "Running"
    BY TopType DEF Goto, Top, f
  <1>3. stack \in Seq(GoodFrame) /\ stack \in Seq(Frame) /\ Len(stack) \in 1..Len(stack)
    BY TopType DEF TypeInv, StackOK, DataOK
  <1>4. stack' \in Seq(GoodFrame)
    BY <1>1, <1>2, <1>3
  <1>5. stack' \in Seq(Frame) /\ stack' # <<>> /\ Len(stack') = Len(stack)
    BY <1>1, <1>2, <1>3
  <1>6. Top' = f
    BY <1>2, <1>3, <1>5 DEF Top
  <1>7. StackOK'
    BY <1>2, <1>4, <1>5 DEF StackOK
  <1>8. Top'.pc = pc /\ Top'.i = i /\ Top'.d = d /\ Top'.trace = Top.trace
    BY <1>6, TopType DEF f, GoodFrame, Frame
  <1>9. \A l \in 1..Len(stack) - 1 : stack'[l] = stack[l]
    BY <1>2, <1>3
  <1> QED BY <1>2, <1>4, <1>5, <1>7, <1>8, <1>9

(* Returning an error from all calls.                                      *)
LEMMA FailType ==
    ASSUME NEW e, Fail(e), e \in {"Put", "Agent", "Term", "Fn", "SecurityClaim"}
    PROVE  /\ stack' = <<>> /\ stack' \in Seq(GoodFrame) /\ stack' \in Seq(Frame)
           /\ outcome' = e /\ outcome' # "Running" /\ outcome' # "Ok"
           /\ StackOK'
  BY DEF Fail, StackOK

-----------------------------------------------------------------------------
(* Agents                                                                  *)

(* spawn_agents works on a descriptor.                                     *)
LEMMA SpawnedDescriptor ==
    ASSUME TypeInv, Spawning, Top.d <= Len(Descriptors[SpawnedTrace])
    PROVE  Descriptors[SpawnedTrace][Top.d] \in AgentDescriptor
  <1>1. stack # <<>>
    BY DEF Spawning, At
  <1>2. SpawnedTrace \in Traces
    BY <1>1, TopType DEF SpawnedTrace, At, GoodFrame
  <1> QED BY <1>1, <1>2, TopType, TraceAssumption

(* Replacing one agent.                                                    *)
LEMMA AgentUpdate ==
    ASSUME TypeInv, NEW a \in DOMAIN agents, NEW x \in Agent
    PROVE  /\ [agents EXCEPT ![a] = x] \in Seq(Agent)
           /\ DOMAIN [agents EXCEPT ![a] = x] = DOMAIN agents
           /\ [agents EXCEPT ![a] = x][a] = x
           /\ \A b \in DOMAIN agents : b # a => [agents EXCEPT ![a] = x][b] = agents[b]
  BY DEF TypeInv, StackOK, DataOK

(* find_agent returns an agent of that name.                               *)
LEMMA FindAgentType ==
    ASSUME TypeInv, NEW name, NEW a \in find_agent(name)
    PROVE  a \in DOMAIN agents /\ agents[a] \in Agent /\ agents[a].name = name
  BY DEF find_agent, First, TypeInv, StackOK, DataOK

-----------------------------------------------------------------------------
(* Typing                                                                  *)

(* The initial state.                                                      *)
LEMMA InitType == Init => TypeInv
  <1> SUFFICES ASSUME Init PROVE TypeInv
    OBVIOUS
  <1>1. PICK t \in Roots : stack = <<Call(t)>>
    BY DEF Init
  <1>2. t \in Traces
    BY TraceAssumption
  <1>3. Call(t) \in Frame /\ Call(t) \in GoodFrame
    BY <1>2 DEF Call, Frame, GoodFrame
  <1>4. stack \in Seq(Frame) /\ stack \in Seq(GoodFrame) /\ stack # <<>>
    BY <1>1, <1>3
  <1> QED BY <1>4 DEF Init, TypeInv, StackOK, DataOK

(* Reusing or creating an agent.                                           *)
LEMMA SpawnAgentType ==
    ASSUME TypeInv, NEW desc \in AgentDescriptor, SpawnAgent(desc)
    PROVE  agents' \in Seq(Agent)
  <1>1. CASE Reusable(desc) = {} /\ agents' = Append(agents, new_agent(desc))
    <2>1. new_agent(desc) \in Agent
      BY DEF new_agent, Agent, AgentDescriptor
    <2> QED BY <1>1, <2>1 DEF TypeInv, StackOK, DataOK
  <1>2. ASSUME NEW a \in First(Reusable(desc)),
               agents' = [agents EXCEPT ![a] = rename(@, desc.name)]
        PROVE  agents' \in Seq(Agent)
    <2>1. a \in DOMAIN agents /\ agents[a] \in Agent
      BY DEF First, Reusable, TypeInv, StackOK, DataOK
    <2>2. rename(agents[a], desc.name) \in Agent
      BY <2>1 DEF rename, Agent, AgentDescriptor
    <2> QED BY <1>2, <2>1, <2>2 DEF TypeInv, StackOK, DataOK
  <1> QED BY <1>1, <1>2 DEF SpawnAgent

(* Resetting an agent.                                                     *)
LEMMA ResetType ==
    ASSUME NEW x \in Agent
    PROVE  reset(x) \in Agent
  <1> DEFINE c == IF CallbackOnCtx THEN x.claimer ELSE NoName
  <1>1. c \in AgentName \cup {NoName}
    BY DEF Agent
  <1>2. x.session + 1 \in Nat /\ <<>> \in Seq(Nat) /\ <<>> \in Seq(Message)
    BY DEF Agent
  <1>3. CASE NewStream
    <2>1. reset(x) = [x EXCEPT !.session = x.session + 1, !.inbound = <<>>,
                               !.outbound = <<>>, !.claimer = c]
      BY <1>3 DEF reset
    <2> QED BY <1>1, <1>2, <2>1 DEF Agent
  <1>4. CASE ~NewStream
    BY <1>2, <1>4 DEF reset, Agent
  <1> QED BY <1>3, <1>4

(* What a PUT does leaves the agents and the claims well-typed.            *)
LEMMA PutRunsType ==
    ASSUME TypeInv, NEW a \in DOMAIN agents, PutRuns(a)
    PROVE  agents' \in Seq(Agent) /\ claims' \in Seq(ClaimBy(AgentName))
  <1>1. agents[a] \in Agent
    BY DEF TypeInv, StackOK, DataOK
  <1>2. agents' \in Seq(Agent)
    <2>1. PICK n \in 0..Len(agents[a].inbound), k \in 0..MaxSent :
            \E sent \in [1..k -> Message] :
              agents' = [agents EXCEPT ![a].inbound = SubSeq(@, n + 1, Len(@)),
                                       ![a].outbound = @ \o sent]
      BY DEF PutRuns
    <2>2. PICK sent \in [1..k -> Message] :
              agents' = [agents EXCEPT ![a].inbound = SubSeq(@, n + 1, Len(@)),
                                       ![a].outbound = @ \o sent]
      BY <2>1
    <2> DEFINE in == SubSeq(agents[a].inbound, n + 1, Len(agents[a].inbound))
               out == agents[a].outbound \o sent
    <2>3. agents[a].inbound \in Seq(Nat) /\ agents[a].outbound \in Seq(Message)
      BY <1>1 DEF Agent
    <2>4. in \in Seq(Nat)
      BY <2>3, SubSeqType
    <2>5. sent \in Seq(Message)
      BY TraceAssumption, SentType
    <2>6. out \in Seq(Message)
      BY <2>3, <2>5, ConcatType
    <2>7. agents' = [agents EXCEPT ![a] = [agents[a] EXCEPT !.inbound = in, !.outbound = out]]
      BY <2>2
    <2> HIDE DEF in, out
    <2>8. [agents[a] EXCEPT !.inbound = in, !.outbound = out] \in Agent
      BY <1>1, <2>4, <2>6 DEF Agent
    <2> QED BY <2>7, <2>8, AgentUpdate
  <1>3. claims' \in Seq(ClaimBy(AgentName))
    <2>1. CASE claims' = claims
      BY <2>1 DEF TypeInv, StackOK, DataOK
    <2>2. ASSUME agents[a].claimer # NoName, NEW form \in ClaimForms,
                 claims' = Append(claims, Claim(agents[a], form))
          PROVE  claims' \in Seq(ClaimBy(AgentName))
      <3>1. form \in ClaimBy({NoName})
        BY TraceAssumption
      <3>2. /\ agents[a].claimer \in AgentName
            /\ agents[a].descriptor.typ \in AgentType
            /\ agents[a].descriptor.tls_version \in TLSVersion
            /\ authenticate_peer(agents[a].descriptor) \in BOOLEAN
        BY <1>1, <2>2 DEF Agent, AgentDescriptor, authenticate_peer
      <3>3. Claim(agents[a], form) \in ClaimBy(AgentName)
        BY <3>1, <3>2 DEF Claim, ClaimBy
      <3> QED BY <2>2, <3>3 DEF TypeInv, StackOK, DataOK
    <2> QED BY <2>1, <2>2 DEF PutRuns
  <1> QED BY <1>2, <1>3

(* Learning from a message.                                                *)
LEMMA KnowledgeType ==
    ASSUME TypeInv, NEW name \in AgentName, NEW msg \in Message
    PROVE  knowledge \o extract_knowledge(name, msg) \in Seq(Item)
  <1> DEFINE n == IF msg.payload = <<>> THEN 0 ELSE Len(msg.typs)
             parts == [j \in 1..n |->
                          [agent |-> name, matcher |-> create_matcher(msg), typ |-> msg.typs[j]]]
             opaque == <<[agent |-> name, matcher |-> <<>>, typ |-> "OpaqueMessage"]>>
  <1>0. msg \in [ct : QueryContent, payload : Seq(STRING), typs : Seq(DataType)]
    BY TraceAssumption
  <1>1. msg.typs \in Seq(DataType) /\ n \in 0..Len(msg.typs)
    BY <1>0
  <1>m. create_matcher(msg) \in Seq(Matcher)
    <2>1. msg.ct \in QueryContent /\ msg.payload \in Seq(STRING) /\ <<>> \in Seq(STRING)
      BY <1>0
    <2>2. \A hs \in Seq(STRING) : Handshake(hs) \in Matcher
      BY DEF Handshake, Matcher, QueryContent
    <2>3. \A ct \in QueryContent : Plain(ct) \in Matcher
      BY DEF Plain, Matcher
    <2>4. \A x \in Matcher : <<x>> \in Seq(Matcher)
      OBVIOUS
    <2> DEFINE hs == IF msg.payload = <<"Encrypted">> THEN <<>> ELSE msg.payload
    <2>5. hs \in Seq(STRING)
      BY <2>1
    <2>6. create_matcher(msg) = IF msg.ct = "Unknown" THEN <<>>
                                ELSE IF msg.ct # "Handshake" THEN <<Plain(msg.ct)>>
                                ELSE <<Handshake(hs)>>
      BY DEF create_matcher
    <2> HIDE DEF hs
    <2> QED BY <2>1, <2>2, <2>3, <2>4, <2>5, <2>6
  <1>2. parts \in Seq(Item)
    <2>1. \A j \in 1..n :
             [agent |-> name, matcher |-> create_matcher(msg), typ |-> msg.typs[j]] \in Item
      BY <1>1, <1>m DEF Item
    <2> HIDE DEF n
    <2> QED BY <1>1, <2>1
  <1>3. opaque \in Seq(Item)
    <2>0. "OpaqueMessage" \in DataType
      BY TraceAssumption
    <2>1. <<>> \in Seq(Matcher)
      OBVIOUS
    <2>2. [agent |-> name, matcher |-> <<>>, typ |-> "OpaqueMessage"] \in Item
      BY <2>0, <2>1 DEF Item
    <2> QED BY <2>2
  <1>4. extract_knowledge(name, msg) = parts \o opaque
    BY DEF extract_knowledge
  <1> HIDE DEF parts, opaque, n
  <1>5. extract_knowledge(name, msg) \in Seq(Item)
    BY <1>2, <1>3, <1>4, ConcatType
  <1> QED BY <1>5, ConcatType DEF TypeInv, StackOK, DataOK

(* Every step of an execution preserves the type invariant.                *)
LEMMA NextType == TypeInv /\ [Next]_vars => TypeInv'
  <1> SUFFICES ASSUME TypeInv, [Next]_vars PROVE StackOK' /\ DataOK'
    BY DEF TypeInv
  <1>d. DataOK /\ StackOK
    BY DEF TypeInv
  <1>1. CASE NextPrior
    <2>1. stack # <<>> /\ Top.trace \in Traces /\ Top.i \in Nat \ {0}
      BY <1>1, TopType DEF NextPrior, At
    <2>2. CASE Top.i <= Len(Prior[Top.trace]) /\ Goto("spawnPrior", Top.i, 1)
      <3>1. Top.i \in 1..Len(Prior[Top.trace])
        BY <2>1, <2>2, TopType
      <3>2. Target("spawnPrior", Top.i, 1)
        BY <2>1, <3>1 DEF Target
      <3>3. StackOK'
        BY <2>1, <2>2, <3>2, GotoType
      <3> QED BY <1>1, <1>d, <3>3 DEF NextPrior, DataOK
    <2>3. CASE Goto("spawn", Top.i, 1)
      <3>1. Target("spawn", Top.i, 1)
        BY <2>1 DEF Target
      <3>2. StackOK'
        BY <2>1, <2>3, <3>1, GotoType
      <3> QED BY <1>1, <1>d, <3>2 DEF NextPrior, DataOK
    <2> QED BY <1>1, <2>2, <2>3 DEF NextPrior
  <1>2. CASE Spawn
    <2>1. stack # <<>> /\ Top.pc \in {"spawnPrior", "spawn"}
      BY <1>2 DEF Spawn, Spawning, At
    <2>2. Top.i \in Nat \ {0} /\ Top.d + 1 \in Nat \ {0}
          /\ (Top.pc = "spawnPrior" => Top.i \in 1..Len(Prior[Top.trace]))
      BY <2>1, TopType DEF GoodFrame
    <2>3. CASE (Fail("Put") \/ Fail("Agent")) /\ UNCHANGED agents
      BY <1>2, <1>d, <2>3, FailType DEF Spawn, DataOK
    <2>4. CASE /\ SpawnAgent(Descriptors[SpawnedTrace][Top.d])
               /\ Goto(Top.pc, Top.i, Top.d + 1)
      <3>1. Descriptors[SpawnedTrace][Top.d] \in AgentDescriptor
        BY <1>2, SpawnedDescriptor DEF Spawn
      <3>2. agents' \in Seq(Agent)
        BY <2>4, <3>1, SpawnAgentType
      <3>3. Target(Top.pc, Top.i, Top.d + 1)
        BY <2>1, <2>2 DEF Target
      <3>4. StackOK'
        BY <2>1, <2>4, <3>3, GotoType
      <3> QED BY <1>2, <1>d, <3>2, <3>4 DEF Spawn, DataOK
    <2> QED BY <1>2, <2>3, <2>4 DEF Spawn
  <1>3. CASE SpawnEnd
    <2>1. stack # <<>>
      BY <1>3 DEF SpawnEnd, Spawning, At
    <2>2. DataOK'
      BY <1>3, <1>d DEF SpawnEnd, DataOK
    <2>3. CASE At("spawn") /\ Goto("step", 1, 1)
      <3>1. Target("step", 1, 1)
        BY DEF Target
      <3> QED BY <2>1, <2>2, <2>3, <3>1, GotoType
    <2>4. CASE At("spawnPrior") /\ ~At("spawn")
      <3> DEFINE f == [Top EXCEPT !.pc = "reset", !.d = 1]
                 t == Prior[Top.trace][Top.i]
      <3>1. Top \in Frame /\ Top \in GoodFrame
        BY <2>1, TopType DEF GoodFrame
      <3>2. f \in Frame
        <4>1. 1 \in Nat \ {0}
          OBVIOUS
        <4> QED BY <3>1, <4>1 DEF Frame
      <3>3. f \in GoodFrame
        BY <3>1, <3>2 DEF GoodFrame, Frame
      <3>4. t \in Traces
        BY <2>1, <2>4, TopType DEF GoodFrame, At
      <3>5. Call(t) \in GoodFrame /\ Call(t) \in Frame
        BY <3>4 DEF Call, GoodFrame, Frame
      <3>6. /\ stack' = Append([stack EXCEPT ![Len(stack)] = f], Call(t))
            /\ outcome' = outcome
        BY <1>3, <2>4 DEF SpawnEnd, SpawnedTrace, Top
      <3> HIDE DEF f, t
      <3>7. stack' \in Seq(GoodFrame)
        BY <1>d, <2>1, <3>3, <3>5, <3>6, TopType DEF StackOK
      <3>8. stack' \in Seq(Frame) /\ stack' # <<>>
        BY <1>d, <2>1, <3>2, <3>5, <3>6, TopType DEF StackOK
      <3> QED BY <1>d, <2>1, <2>2, <3>6, <3>7, <3>8 DEF StackOK
    <2> QED BY <1>3, <2>3, <2>4 DEF SpawnEnd, At
  <1>4. CASE ResetAgent
    <2>1. stack # <<>> /\ Top.i \in Nat \ {0} /\ Top.d \in DOMAIN agents
          /\ Top.d + 1 \in Nat \ {0}
      BY <1>4, <1>d, TopType DEF ResetAgent, At, DataOK
    <2>2. CASE Fail("Put") /\ UNCHANGED agents
      BY <1>4, <1>d, <2>2, FailType DEF ResetAgent, DataOK
    <2>3. CASE /\ agents' = [agents EXCEPT ![Top.d] = reset(@)]
               /\ Goto("reset", Top.i, Top.d + 1)
      <3>1. agents[Top.d] \in Agent
        BY <1>d, <2>1 DEF DataOK
      <3>2. agents' \in Seq(Agent)
        BY <2>1, <2>3, <3>1, ResetType, AgentUpdate
      <3>3. Target("reset", Top.i, Top.d + 1)
        BY <2>1 DEF Target
      <3>4. StackOK'
        BY <2>1, <2>3, <3>3, GotoType
      <3> QED BY <1>4, <1>d, <3>2, <3>4 DEF ResetAgent, DataOK
    <2> QED BY <1>4, <2>2, <2>3 DEF ResetAgent
  <1>5. CASE ResetEnd
    <2>1. stack # <<>> /\ Top.i + 1 \in Nat \ {0}
      BY <1>5, TopType DEF ResetEnd, At
    <2>2. Target("prior", Top.i + 1, 1)
      BY <2>1 DEF Target
    <2>3. StackOK'
      BY <1>5, <2>1, <2>2, GotoType DEF ResetEnd
    <2> QED BY <1>5, <1>d, <2>3 DEF ResetEnd, DataOK
  <1>6. CASE NextStep
    <2>1. stack # <<>> /\ Top.i \in 1..Len(Steps[Top.trace]) /\ Top.i \in Nat \ {0}
      BY <1>6, TopType DEF NextStep, At
    <2>2. PICK pc \in {"input", "output"} : Goto(pc, Top.i, 1)
      BY <1>6 DEF NextStep
    <2>3. Target(pc, Top.i, 1)
      BY <2>1 DEF Target
    <2>4. StackOK'
      BY <2>1, <2>2, <2>3, GotoType
    <2> QED BY <1>6, <1>d, <2>4 DEF NextStep, DataOK
  <1>7. CASE Input
    <2>1. stack # <<>> /\ Top.pc = "input" /\ UNCHANGED <<knowledge, claims, executed>>
      BY <1>7 DEF Input, At
    <2>2. CASE /\ Fail("Term") \/ Fail("Fn") \/ Fail("Agent")
               /\ UNCHANGED agents
      <3>1. StackOK'
        BY <2>2, FailType
      <3> QED BY <1>d, <2>1, <2>2, <3>1 DEF DataOK
    <2>3. ASSUME NEW a \in find_agent(Step.agent),
                 agents' = [agents EXCEPT ![a].inbound = Append(@, agents[a].session)],
                 Goto("progress", Top.i, 1)
          PROVE  StackOK' /\ DataOK'
      <3>1. a \in DOMAIN agents /\ agents[a] \in Agent
        BY FindAgentType
      <3>2. Append(agents[a].inbound, agents[a].session) \in Seq(Nat)
        BY <3>1 DEF Agent
      <3>3. [agents[a] EXCEPT !.inbound = Append(agents[a].inbound, agents[a].session)] \in Agent
        BY <3>1, <3>2 DEF Agent
      <3>4. agents' \in Seq(Agent)
        BY <2>3, <3>1, <3>3, AgentUpdate
      <3>5. Top.i \in 1..Len(Steps[Top.trace]) /\ Top.i \in Nat \ {0}
        BY <2>1, TopType DEF GoodFrame
      <3>6. Target("progress", Top.i, 1)
        BY <3>5 DEF Target
      <3>7. StackOK'
        BY <2>1, <2>3, <3>6, GotoType
      <3> QED BY <1>d, <2>1, <3>4, <3>7 DEF DataOK
    <2> QED BY <1>7, <2>2, <2>3 DEF Input
  <1>8. CASE progress
    <2>1. /\ stack # <<>> /\ Top.pc \in {"progress", "output"}
          /\ UNCHANGED <<knowledge, executed>>
      BY <1>8 DEF progress, At
    <2>2. CASE Fail("Agent") /\ UNCHANGED <<agents, claims>>
      BY <1>d, <2>1, <2>2, FailType DEF DataOK
    <2>3. ASSUME NEW a \in find_agent(Step.agent), PutRuns(a),
                 \/ Goto(IF At("progress") THEN "output" ELSE "drain", Top.i, 1)
                 \/ Fail("Put")
          PROVE  StackOK' /\ DataOK'
      <3>1. a \in DOMAIN agents
        BY FindAgentType
      <3>2. agents' \in Seq(Agent) /\ claims' \in Seq(ClaimBy(AgentName))
        BY <2>3, <3>1, PutRunsType
      <3>3. Top.i \in 1..Len(Steps[Top.trace]) /\ Top.i \in Nat \ {0}
        BY <2>1, TopType DEF GoodFrame
      <3>4. CASE Fail("Put")
        BY <1>d, <2>1, <3>2, <3>4, FailType DEF DataOK
      <3>5. ASSUME NEW pc \in {"output", "drain"}, Goto(pc, Top.i, 1)
            PROVE  StackOK' /\ DataOK'
        <4>1. Target(pc, Top.i, 1)
          BY <3>3 DEF Target
        <4>2. StackOK'
          BY <2>1, <3>5, <4>1, GotoType
        <4> QED BY <1>d, <2>1, <3>2, <4>2 DEF DataOK
      <3> QED BY <2>3, <3>4, <3>5
    <2> QED BY <1>8, <2>2, <2>3 DEF progress
  <1>9. CASE TakeMessage
    <2>1. stack # <<>> /\ Top.pc = "drain" /\ Step.agent \in AgentName
      BY <1>9, StepType DEF TakeMessage, At
    <2>2. PICK a \in find_agent(Step.agent) :
             /\ ~Drained(agents[a])
             /\ knowledge' = knowledge \o extract_knowledge(Step.agent, Head(agents[a].outbound))
             /\ agents' = [agents EXCEPT ![a].outbound = Tail(@)]
      BY <1>9 DEF TakeMessage
    <2>3. a \in DOMAIN agents /\ agents[a] \in Agent
      BY FindAgentType
    <2>4. agents[a].outbound \in Seq(Message) /\ agents[a].outbound # <<>>
      BY <2>2, <2>3 DEF Agent, Drained
    <2>5. Head(agents[a].outbound) \in Message /\ Tail(agents[a].outbound) \in Seq(Message)
      BY <2>4
    <2>6. [agents[a] EXCEPT !.outbound = Tail(agents[a].outbound)] \in Agent
      BY <2>3, <2>5 DEF Agent
    <2>7. agents' \in Seq(Agent)
      BY <2>2, <2>3, <2>6, AgentUpdate
    <2>8. knowledge' \in Seq(Item)
      BY <2>1, <2>2, <2>5, KnowledgeType
    <2> QED BY <1>9, <1>d, <2>7, <2>8 DEF TakeMessage, DataOK, StackOK
  <1>10. CASE StepEnd
    <2>1. /\ stack # <<>> /\ Top.trace \in Traces /\ Top.i \in Nat \ {0}
          /\ Top.i + 1 \in Nat \ {0}
      BY <1>10, TopType DEF StepEnd, At
    <2>2. executed' \in Seq(Traces \X Nat)
      BY <1>10, <1>d, <2>1 DEF StepEnd, DataOK
    <2>3. Target("step", Top.i + 1, 1)
      BY <2>1 DEF Target
    <2>4. StackOK'
      BY <1>10, <2>1, <2>3, GotoType DEF StepEnd
    <2> QED BY <1>10, <1>d, <2>2, <2>4 DEF StepEnd, DataOK
  <1>11. CASE Return
    <2>1. /\ stack # <<>> /\ outcome = "Running" /\ Len(stack) \in Nat \ {0}
          /\ stack \in Seq(Frame) /\ stack \in Seq(GoodFrame)
      BY <1>11, <1>d, TopType DEF Return, At, StackOK
    <2>2. DataOK'
      BY <1>11, <1>d DEF Return, DataOK
    <2>3. CASE Fail("SecurityClaim")
      BY <2>2, <2>3, FailType
    <2>4. CASE /\ stack' = SubSeq(stack, 1, Len(stack) - 1)
               /\ outcome' = IF Len(stack) = 1 THEN "Ok" ELSE outcome
      <3>1. 1 \in 1..(Len(stack) + 1) /\ Len(stack) - 1 \in 0..Len(stack)
        BY <2>1
      <3>2. stack' \in Seq(GoodFrame)
        BY <2>1, <2>4, <3>1, SubSeqType
      <3>3. stack' \in Seq(Frame)
        BY <2>1, <2>4, <3>1, SubSeqType
      <3>4. Len(stack') = Len(stack) - 1
        BY <2>1, <2>4, <3>1, SubSeqLen
      <3>5. stack' = <<>> <=> Len(stack') = 0
        BY <3>3
      <3> QED BY <2>1, <2>2, <2>4, <3>2, <3>3, <3>4, <3>5 DEF StackOK
    <2> QED BY <1>11, <2>3, <2>4 DEF Return
  <1>12. CASE UNCHANGED vars
    BY <1>12, <1>d DEF vars, DataOK, StackOK
  <1> QED BY <1>1, <1>2, <1>3, <1>4, <1>5, <1>6, <1>7, <1>8, <1>9, <1>10, <1>11, <1>12
          DEF Next

(* The states of an execution are well-typed, and it has an outcome        *)
(* exactly when no call of execute is left.                                *)
THEOREM TypeCorrect == Spec => []TypeOK
  <1>1. TypeInv => TypeOK
    BY DEF TypeInv, StackOK, DataOK, TypeOK
  <1> QED BY InitType, NextType, <1>1, PTL DEF Spec

-----------------------------------------------------------------------------
(* One agent per kind                                                      *)

SameDescriptors ==
    /\ DOMAIN agents' = DOMAIN agents
    /\ \A b \in DOMAIN agents : agents'[b].descriptor = agents[b].descriptor

(* An agent that is changed keeps the descriptor it was created from.      *)
LEMMA UpdateKeepsDescriptors ==
    ASSUME TypeInv, NEW a \in DOMAIN agents, NEW x \in Agent,
           agents' = [agents EXCEPT ![a] = x], x.descriptor = agents[a].descriptor
    PROVE  SameDescriptors
  BY AgentUpdate DEF SameDescriptors

(* Whatever a step does to the agents, their descriptors stay; the only    *)
(* new agents are the ones for descriptors no agent is reusable with.      *)
LEMMA AgentsEvolve ==
    ASSUME TypeInv, [Next]_vars
    PROVE  \/ SameDescriptors
           \/ \E desc \in AgentDescriptor :
                 Reusable(desc) = {} /\ agents' = Append(agents, new_agent(desc))
  <1> USE DEF TypeInv
  <1>0. ASSUME agents' = agents PROVE SameDescriptors
    BY <1>0 DEF SameDescriptors
  <1>1. CASE Spawn
    <2>1. CASE UNCHANGED agents
      BY <1>0, <2>1
    <2>2. CASE SpawnAgent(Descriptors[SpawnedTrace][Top.d])
      <3> DEFINE desc == Descriptors[SpawnedTrace][Top.d]
      <3>1. desc \in AgentDescriptor
        BY <1>1, SpawnedDescriptor DEF Spawn
      <3>2. SpawnAgent(desc)
        BY <2>2
      <3> HIDE DEF desc
      <3>3. ASSUME NEW a \in First(Reusable(desc)),
                   agents' = [agents EXCEPT ![a] = rename(@, desc.name)]
            PROVE  SameDescriptors
        <4>1. a \in DOMAIN agents /\ agents[a] \in Agent
          BY DEF First, Reusable, DataOK
        <4>2. rename(agents[a], desc.name) \in Agent
          BY <3>1, <4>1 DEF rename, Agent, AgentDescriptor
        <4>3. rename(agents[a], desc.name).descriptor = agents[a].descriptor
          BY <4>1 DEF rename, Agent
        <4> QED BY <3>3, <4>1, <4>2, <4>3, UpdateKeepsDescriptors
      <3> QED BY <3>1, <3>2, <3>3 DEF SpawnAgent
    <2> QED BY <1>1, <2>1, <2>2 DEF Spawn
  <1>2. CASE ResetAgent
    <2>1. CASE UNCHANGED agents
      BY <1>0, <2>1
    <2>2. CASE agents' = [agents EXCEPT ![Top.d] = reset(@)]
      <3>1. Top.d \in DOMAIN agents
        BY <1>2, TopType DEF ResetAgent, At, DataOK
      <3>2. agents[Top.d] \in Agent
        BY <3>1 DEF DataOK
      <3>3. reset(agents[Top.d]).descriptor = agents[Top.d].descriptor
        BY <3>2 DEF reset, Agent
      <3> QED BY <2>2, <3>1, <3>2, <3>3, ResetType, UpdateKeepsDescriptors
    <2> QED BY <1>2, <2>1, <2>2 DEF ResetAgent
  <1>3. CASE Input
    <2>1. CASE UNCHANGED agents
      BY <1>0, <2>1
    <2>2. ASSUME NEW a \in find_agent(Step.agent),
                 agents' = [agents EXCEPT ![a].inbound = Append(@, agents[a].session)]
          PROVE  SameDescriptors
      <3>1. a \in DOMAIN agents /\ agents[a] \in Agent
        BY FindAgentType
      <3> QED BY <2>2, <3>1 DEF SameDescriptors, Agent, DataOK
    <2> QED BY <1>3, <2>1, <2>2 DEF Input
  <1>4. CASE progress
    <2>1. CASE UNCHANGED agents
      BY <1>0, <2>1
    <2>2. ASSUME NEW a \in find_agent(Step.agent), PutRuns(a)
          PROVE  SameDescriptors
      <3>1. a \in DOMAIN agents /\ agents[a] \in Agent
        BY FindAgentType
      <3>2. PICK in, out : agents' = [agents EXCEPT ![a].inbound = in, ![a].outbound = out]
        BY <2>2 DEF PutRuns
      <3> QED BY <3>1, <3>2 DEF SameDescriptors, Agent, DataOK
    <2> QED BY <1>4, <2>1, <2>2 DEF progress
  <1>5. CASE TakeMessage
    <2>1. PICK a \in find_agent(Step.agent) : agents' = [agents EXCEPT ![a].outbound = Tail(@)]
      BY <1>5 DEF TakeMessage
    <2>2. a \in DOMAIN agents /\ agents[a] \in Agent
      BY FindAgentType
    <2> QED BY <2>1, <2>2 DEF SameDescriptors, Agent, DataOK
  <1>6. CASE NextPrior \/ SpawnEnd \/ ResetEnd \/ NextStep \/ StepEnd \/ Return
    BY <1>0, <1>6 DEF NextPrior, SpawnEnd, ResetEnd, NextStep, StepEnd, Return
  <1>7. CASE UNCHANGED vars
    BY <1>0, <1>7 DEF vars
  <1> QED BY <1>1, <1>2, <1>3, <1>4, <1>5, <1>6, <1>7 DEF Next

(* However many traces are executed after each other and whatever their    *)
(* descriptors say, there is at most one agent of each type and version:   *)
(* a trace that declares two such agents cannot run both.                  *)
THEOREM OneAgentPerKindAlways == Spec => []OneAgentPerKind
  <1>1. Init => OneAgentPerKind
    BY DEF Init, OneAgentPerKind
  <1>2. TypeInv /\ OneAgentPerKind /\ [Next]_vars => OneAgentPerKind'
    <2> SUFFICES ASSUME TypeInv, OneAgentPerKind, [Next]_vars PROVE OneAgentPerKind'
      OBVIOUS
    <2>1. CASE SameDescriptors
      BY <2>1 DEF SameDescriptors, OneAgentPerKind
    <2>2. ASSUME NEW desc \in AgentDescriptor, Reusable(desc) = {},
                 agents' = Append(agents, new_agent(desc))
          PROVE  OneAgentPerKind'
      <3>1. agents \in Seq(Agent)
        BY DEF TypeInv, DataOK
      <3>2. new_agent(desc).descriptor = desc
        BY DEF new_agent
      <3>3. \A a \in DOMAIN agents :
               ~(/\ agents[a].descriptor.typ = desc.typ
                 /\ agents[a].descriptor.tls_version = desc.tls_version)
        BY <2>2 DEF Reusable, is_reusable_with
      <3>4. \A a \in DOMAIN agents' :
               \/ a \in DOMAIN agents /\ agents'[a] = agents[a]
               \/ a = Len(agents) + 1 /\ agents'[a].descriptor = desc
        BY <2>2, <3>1, <3>2
      <3> QED BY <3>3, <3>4 DEF OneAgentPerKind
    <2> QED BY <2>1, <2>2, AgentsEvolve
  <1> QED BY <1>1, <1>2, InitType, NextType, PTL DEF Spec

-----------------------------------------------------------------------------
(* Sessions                                                                *)

(* All input of an agent is of its present session.                        *)
Fresh(x) == \A k \in DOMAIN x.inbound : x.inbound[k] = x.session

(* Isolation is a property of each agent by itself.                        *)
LEMMA IsolationByAgent == SessionIsolation <=> \A b \in DOMAIN agents : Fresh(agents[b])
  BY DEF SessionIsolation, Fresh

(* Replacing an agent by one whose input is of its present session.        *)
LEMMA UpdateIsolated ==
    ASSUME TypeInv, SessionIsolation, NEW a \in DOMAIN agents, NEW x \in Agent,
           agents' = [agents EXCEPT ![a] = x], Fresh(x)
    PROVE  SessionIsolation'
  <1>1. \A b \in DOMAIN agents' : Fresh(agents'[b])
    BY AgentUpdate, IsolationByAgent
  <1> QED BY <1>1 DEF SessionIsolation, Fresh

(* If reset makes a new stream, as the WolfSSL PUT does by default, no PUT *)
(* ever reads in one session what was sent to it in an earlier one.        *)
THEOREM SessionsAreIsolated == ASSUME NewStream PROVE Spec => []SessionIsolation
  <1>1. Init => SessionIsolation
    BY DEF Init, SessionIsolation
  <1>2. TypeInv /\ SessionIsolation /\ [Next]_vars => SessionIsolation'
    <2> SUFFICES ASSUME TypeInv, SessionIsolation, [Next]_vars PROVE SessionIsolation'
      OBVIOUS
    <2>0. ASSUME agents' = agents PROVE SessionIsolation'
      BY <2>0 DEF SessionIsolation
    <2>1. CASE Spawn
      <3>1. CASE SpawnAgent(Descriptors[SpawnedTrace][Top.d])
        <4> DEFINE desc == Descriptors[SpawnedTrace][Top.d]
        <4>1. desc \in AgentDescriptor /\ SpawnAgent(desc)
          BY <2>1, <3>1, SpawnedDescriptor DEF Spawn
        <4> HIDE DEF desc
        <4>2. CASE agents' = Append(agents, new_agent(desc))
          <5>1. agents \in Seq(Agent)
            BY DEF TypeInv, DataOK
          <5>2. \A b \in DOMAIN agents' :
                  agents'[b] = new_agent(desc) \/ (b \in DOMAIN agents /\ agents'[b] = agents[b])
            BY <4>2, <5>1
          <5>3. Fresh(new_agent(desc))
            BY DEF Fresh, new_agent
          <5> QED BY <5>2, <5>3 DEF SessionIsolation, Fresh
        <4>3. ASSUME NEW a \in First(Reusable(desc)),
                     agents' = [agents EXCEPT ![a] = rename(@, desc.name)]
              PROVE  SessionIsolation'
          <5>1. a \in DOMAIN agents /\ agents[a] \in Agent
            BY DEF First, Reusable, DataOK, TypeInv
          <5>2. rename(agents[a], desc.name) \in Agent
            BY <4>1, <5>1 DEF rename, Agent, AgentDescriptor
          <5>3. Fresh(agents[a])
            BY <5>1, IsolationByAgent
          <5>4. /\ rename(agents[a], desc.name).inbound = agents[a].inbound
                /\ rename(agents[a], desc.name).session = agents[a].session
            BY <5>1 DEF rename, Agent
          <5>5. Fresh(rename(agents[a], desc.name))
            BY <5>3, <5>4 DEF Fresh
          <5> QED BY <4>3, <5>1, <5>2, <5>5, UpdateIsolated
        <4> QED BY <4>1, <4>2, <4>3 DEF SpawnAgent
      <3> QED BY <2>0, <2>1, <3>1 DEF Spawn
    <2>2. CASE ResetAgent
      <3>1. CASE agents' = [agents EXCEPT ![Top.d] = reset(@)]
        <4>1. Top.d \in DOMAIN agents
          BY <2>2, TopType DEF ResetAgent, At, DataOK, TypeInv
        <4>2. agents[Top.d] \in Agent
          BY <4>1 DEF DataOK, TypeInv
        <4>3. reset(agents[Top.d]).inbound = <<>>
          BY <4>2 DEF reset, Agent
        <4>4. Fresh(reset(agents[Top.d]))
          BY <4>3 DEF Fresh
        <4> QED BY <3>1, <4>1, <4>2, <4>4, ResetType, UpdateIsolated
      <3> QED BY <2>0, <2>2, <3>1 DEF ResetAgent
    <2>3. CASE Input
      <3>1. ASSUME NEW a \in find_agent(Step.agent),
                   agents' = [agents EXCEPT ![a].inbound = Append(@, agents[a].session)]
            PROVE  SessionIsolation'
        <4>1. a \in DOMAIN agents /\ agents[a] \in Agent /\ Fresh(agents[a])
          BY FindAgentType, IsolationByAgent
        <4> DEFINE in == Append(agents[a].inbound, agents[a].session)
                   x == [agents[a] EXCEPT !.inbound = in]
        <4>2. in \in Seq(Nat) /\ \A k \in DOMAIN in : in[k] = agents[a].session
          BY <4>1 DEF Agent, Fresh
        <4>3. agents' = [agents EXCEPT ![a] = x]
          BY <3>1
        <4> HIDE DEF in
        <4>4. x \in Agent /\ x.inbound = in /\ x.session = agents[a].session
          BY <4>1, <4>2 DEF Agent
        <4>5. Fresh(x)
          BY <4>2, <4>4 DEF Fresh
        <4> QED BY <4>1, <4>3, <4>4, <4>5, UpdateIsolated
      <3> QED BY <2>0, <2>3, <3>1 DEF Input
    <2>4. CASE progress
      <3>1. ASSUME NEW a \in find_agent(Step.agent), PutRuns(a)
            PROVE  SessionIsolation'
        <4>1. a \in DOMAIN agents /\ agents[a] \in Agent /\ Fresh(agents[a])
          BY FindAgentType, IsolationByAgent
        <4>0. PICK n \in 0..Len(agents[a].inbound) : \E out :
                 agents' = [agents EXCEPT ![a].inbound = SubSeq(@, n + 1, Len(@)),
                                          ![a].outbound = out]
          BY <3>1 DEF PutRuns
        <4>2. PICK out :
                 agents' = [agents EXCEPT ![a].inbound = SubSeq(@, n + 1, Len(@)),
                                          ![a].outbound = out]
          BY <4>0
        <4> DEFINE in == SubSeq(agents[a].inbound, n + 1, Len(agents[a].inbound))
        <4>3. agents[a].inbound \in Seq(Nat)
          BY <4>1 DEF Agent
        <4>4. n + 1 \in 1..(Len(agents[a].inbound) + 1)
              /\ Len(agents[a].inbound) \in 0..Len(agents[a].inbound)
          BY <4>3
        <4>5. \A k \in DOMAIN in : \E l \in DOMAIN agents[a].inbound :
                 in[k] = agents[a].inbound[l]
          BY <4>3, <4>4, SubSeqType
        <4>6. \A k \in DOMAIN in : in[k] = agents[a].session
          BY <4>1, <4>5 DEF Fresh
        <4>7. agents' = [agents EXCEPT ![a] = [agents[a] EXCEPT !.inbound = in, !.outbound = out]]
          BY <4>2
        <4> HIDE DEF in
        <4>8. /\ agents'[a].inbound = in /\ agents'[a].session = agents[a].session
              /\ DOMAIN agents' = DOMAIN agents
              /\ \A b \in DOMAIN agents : b # a => agents'[b] = agents[b]
          BY <4>1, <4>7 DEF Agent, TypeInv, DataOK
        <4> QED BY <4>6, <4>8 DEF SessionIsolation
      <3> QED BY <2>0, <2>4, <3>1 DEF progress
    <2>5. CASE TakeMessage
      <3>1. PICK a \in find_agent(Step.agent) :
               agents' = [agents EXCEPT ![a].outbound = Tail(@)]
        BY <2>5 DEF TakeMessage
      <3>2. a \in DOMAIN agents /\ agents[a] \in Agent
        BY FindAgentType
      <3> QED BY <3>1, <3>2 DEF SessionIsolation, Agent, DataOK, TypeInv
    <2>6. CASE NextPrior \/ SpawnEnd \/ ResetEnd \/ NextStep \/ StepEnd \/ Return
      BY <2>0, <2>6 DEF NextPrior, SpawnEnd, ResetEnd, NextStep, StepEnd, Return
    <2>7. CASE UNCHANGED vars
      BY <2>0, <2>7 DEF vars
    <2> QED BY <2>1, <2>2, <2>3, <2>4, <2>5, <2>6, <2>7 DEF Next
  <1> QED BY <1>1, <1>2, InitType, NextType, PTL DEF Spec

-----------------------------------------------------------------------------
(* Output                                                                  *)

AllSent == \A a \in DOMAIN agents : agents[a].outbound = <<>>

InOutput == stack # <<>> /\ Top.pc \in {"output", "drain"}

(* OutputBecomesKnowledge made inductive: in an output action too, the     *)
(* only agent with output is the one of the step.                          *)
OutputInv ==
    /\ (outcome = "Ok" \/ (stack # <<>> /\ ~InOutput)) => AllSent
    /\ InOutput => \A a \in DOMAIN agents :
          a \notin find_agent(Step.agent) => agents[a].outbound = <<>>

(* When all output is learnt the invariant holds, wherever control is.     *)
LEMMA SentOutputInv == ASSUME AllSent' PROVE OutputInv'
  BY DEF AllSent, OutputInv

(* An error ends the execution, and nothing is required any more.          *)
LEMMA FailedOutputInv ==
    ASSUME NEW e, Fail(e), e \in {"Put", "Agent", "Term", "Fn", "SecurityClaim"}
    PROVE  OutputInv'
  BY FailType DEF OutputInv, InOutput

(* A step that leaves the output buffers alone.                            *)
LEMMA SameOutput ==
    ASSUME AllSent, NEW a \in DOMAIN agents, NEW x, TypeInv,
           agents' = [agents EXCEPT ![a] = x], x.outbound = <<>>
    PROVE  AllSent'
  BY DEF AllSent, TypeInv, DataOK

(* Everything an agent sends is knowledge of the attacker before the next  *)
(* step begins, before a reset and before an execution ends well.          *)
THEOREM OutputIsLearnt == Spec => []OutputBecomesKnowledge
  <1>1. Init => OutputInv
    BY DEF Init, OutputInv, AllSent
  <1>2. TypeInv /\ OutputInv /\ [Next]_vars => OutputInv'
    <2> SUFFICES ASSUME TypeInv, OutputInv, [Next]_vars PROVE OutputInv'
      OBVIOUS
    <2>0. ASSUME stack # <<>>, Top.pc \notin {"output", "drain"} PROVE AllSent
      BY <2>0 DEF OutputInv, InOutput
    <2>1. CASE NextPrior \/ SpawnEnd \/ ResetEnd \/ NextStep \/ Return
      <3>1. stack # <<>> /\ Top.pc \in {"prior", "spawnPrior", "spawn", "reset", "step"}
        BY <2>1 DEF NextPrior, SpawnEnd, Spawning, ResetEnd, NextStep, Return, At
      <3>2. AllSent
        BY <2>0, <3>1
      <3>3. agents' = agents
        BY <2>1 DEF NextPrior, SpawnEnd, ResetEnd, NextStep, Return
      <3> QED BY <3>2, <3>3, SentOutputInv DEF AllSent
    <2>2. CASE Spawn
      <3>1. AllSent
        BY <2>0, <2>2 DEF Spawn, Spawning, At
      <3>2. CASE Fail("Put") \/ Fail("Agent")
        BY <3>2, FailedOutputInv
      <3>3. CASE SpawnAgent(Descriptors[SpawnedTrace][Top.d])
        <4> DEFINE desc == Descriptors[SpawnedTrace][Top.d]
        <4>1. SpawnAgent(desc)
          BY <3>3
        <4> HIDE DEF desc
        <4>2. CASE agents' = Append(agents, new_agent(desc))
          <5>1. \A b \in DOMAIN agents' :
                  agents'[b] = new_agent(desc) \/ (b \in DOMAIN agents /\ agents'[b] = agents[b])
            BY <4>2 DEF TypeInv, DataOK
          <5>2. new_agent(desc).outbound = <<>>
            BY DEF new_agent
          <5>3. AllSent'
            BY <3>1, <5>1, <5>2 DEF AllSent
          <5> QED BY <5>3, SentOutputInv
        <4>3. ASSUME NEW a \in First(Reusable(desc)),
                     agents' = [agents EXCEPT ![a] = rename(@, desc.name)]
              PROVE  OutputInv'
          <5>1. a \in DOMAIN agents /\ agents[a] \in Agent
            BY DEF First, Reusable, DataOK, TypeInv
          <5>2. rename(agents[a], desc.name).outbound = <<>>
            BY <3>1, <5>1 DEF rename, Agent, AllSent
          <5> QED BY <3>1, <4>3, <5>1, <5>2, SameOutput, SentOutputInv
        <4> QED BY <4>1, <4>2, <4>3 DEF SpawnAgent
      <3> QED BY <2>2, <3>2, <3>3 DEF Spawn
    <2>3. CASE ResetAgent
      <3>1. AllSent
        BY <2>0, <2>3 DEF ResetAgent, At
      <3>2. CASE Fail("Put")
        BY <3>2, FailedOutputInv
      <3>3. CASE agents' = [agents EXCEPT ![Top.d] = reset(@)]
        <4>1. Top.d \in DOMAIN agents
          BY <2>3, TopType DEF ResetAgent, At, DataOK, TypeInv
        <4>2. agents[Top.d] \in Agent /\ agents[Top.d].outbound = <<>>
          BY <3>1, <4>1 DEF DataOK, TypeInv, AllSent
        <4>3. reset(agents[Top.d]).outbound = <<>>
          BY <4>2 DEF reset, Agent
        <4> QED BY <3>1, <3>3, <4>1, <4>3, SameOutput, SentOutputInv
      <3> QED BY <2>3, <3>2, <3>3 DEF ResetAgent
    <2>4. CASE Input
      <3>1. AllSent
        BY <2>0, <2>4 DEF Input, At
      <3>2. CASE Fail("Term") \/ Fail("Fn") \/ Fail("Agent")
        BY <3>2, FailedOutputInv
      <3>3. ASSUME NEW a \in find_agent(Step.agent),
                   agents' = [agents EXCEPT ![a].inbound = Append(@, agents[a].session)]
            PROVE  OutputInv'
        <4>1. a \in DOMAIN agents /\ agents[a] \in Agent
          BY FindAgentType
        <4>2. AllSent'
          BY <3>1, <3>3, <4>1 DEF AllSent, Agent, DataOK, TypeInv
        <4> QED BY <4>2, SentOutputInv
      <3> QED BY <2>4, <3>2, <3>3 DEF Input
    <2>5. CASE progress
      <3>1. stack # <<>> /\ Top.pc \in {"progress", "output"}
        BY <2>5 DEF progress, At
      <3>2. CASE Fail("Agent") \/ Fail("Put")
        BY <3>2, FailedOutputInv
      <3>3. ASSUME NEW a \in find_agent(Step.agent), PutRuns(a),
                   NEW pc \in {"output", "drain"}, Goto(pc, Top.i, 1)
            PROVE  OutputInv'
        <4>1. a \in DOMAIN agents /\ agents[a] \in Agent
          BY FindAgentType
        <4>2. PICK in, out : agents' = [agents EXCEPT ![a].inbound = in, ![a].outbound = out]
          BY <3>3 DEF PutRuns
        <4>3. /\ DOMAIN agents' = DOMAIN agents
              /\ \A b \in DOMAIN agents : agents'[b].name = agents[b].name
              /\ \A b \in DOMAIN agents : b # a => agents'[b] = agents[b]
          BY <4>1, <4>2 DEF Agent, DataOK, TypeInv
        <4>4. \A b \in DOMAIN agents :
                 b \notin find_agent(Step.agent) => agents[b].outbound = <<>>
          BY <3>1 DEF OutputInv, InOutput, AllSent
        <4>5. Target(pc, Top.i, 1)
          BY <3>1, TopType DEF Target, GoodFrame
        <4>6. stack' # <<>> /\ outcome' = "Running"
          BY <3>1, <3>3, <4>5, GotoType
        <4>8. Top'.pc = pc /\ Top'.i = Top.i /\ Top'.trace = Top.trace
          BY <3>1, <3>3, <4>5, GotoType
        <4>9. Step' = Step
          BY <4>8 DEF Step
        <4>10. find_agent(Step.agent)' = find_agent(Step.agent)
          BY <4>3, <4>9 DEF find_agent, First
        <4> QED BY <3>3, <4>3, <4>4, <4>6, <4>8, <4>10 DEF OutputInv, InOutput
      <3> QED BY <2>5, <3>2, <3>3 DEF progress
    <2>6. CASE TakeMessage
      <3>1. PICK a \in find_agent(Step.agent) :
               agents' = [agents EXCEPT ![a].outbound = Tail(@)]
        BY <2>6 DEF TakeMessage
      <3>2. a \in DOMAIN agents /\ agents[a] \in Agent
        BY FindAgentType
      <3>3. /\ DOMAIN agents' = DOMAIN agents
            /\ \A b \in DOMAIN agents : agents'[b].name = agents[b].name
            /\ \A b \in DOMAIN agents : b # a => agents'[b] = agents[b]
        BY <3>1, <3>2 DEF Agent, DataOK, TypeInv
      <3>4. stack' = stack /\ outcome' = outcome /\ InOutput
        BY <2>6 DEF TakeMessage, At, InOutput
      <3>5. Top' = Top /\ Step' = Step /\ outcome = "Running" /\ stack # <<>>
        BY <3>4, TopType DEF Top, Step, InOutput
      <3>6. find_agent(Step.agent)' = find_agent(Step.agent)
        BY <3>3, <3>5 DEF find_agent, First
      <3> QED BY <3>3, <3>4, <3>5, <3>6 DEF OutputInv, InOutput
    <2>7. CASE StepEnd
      <3>1. InOutput /\ agents' = agents
            /\ \A a \in find_agent(Step.agent) : agents[a].outbound = <<>>
        BY <2>7 DEF StepEnd, At, InOutput, Drained
      <3>2. AllSent
        BY <3>1 DEF OutputInv, AllSent
      <3> QED BY <3>1, <3>2, SentOutputInv DEF AllSent
    <2>8. CASE UNCHANGED vars
      BY <2>8 DEF vars, OutputInv, AllSent, InOutput, Top, Step, find_agent, First
    <2> QED BY <2>1, <2>2, <2>3, <2>4, <2>5, <2>6, <2>7, <2>8 DEF Next
  <1>3. OutputInv => OutputBecomesKnowledge
    BY DEF OutputInv, AllSent, InOutput, OutputBecomesKnowledge
  <1> QED BY <1>1, <1>2, <1>3, InitType, NextType, PTL DEF Spec

-----------------------------------------------------------------------------
(* The policy and the course of an execution                               *)

(* The policy has no objection to no claims.                               *)
LEMMA NoClaims == check_violation(<<>>) = None
  <1> DEFINE Filter(g) == g = [n \in 0..0 |-> IF n = 0 THEN <<>>
                                 ELSE IF IsInboundFinished(<<>>[n])
                                      THEN Append(g[n - 1], <<>>[n]) ELSE g[n - 1]]
  <1>1. PICK h : h = [n \in 0..0 |-> <<>>]
    OBVIOUS
  <1>2. Filter(h)
    BY <1>1
  <1>3. PICK g : g = CHOOSE f : Filter(f)
    OBVIOUS
  <1>4. Filter(g)
    <2> HIDE DEF Filter
    <2> QED BY <1>2, <1>3
  <1>5. g[0] = <<>>
    BY <1>4
  <1>6. Len(<<>>) = 0
    OBVIOUS
  <1>7. InboundFinished(<<>>) = g[0]
    BY <1>3, <1>6 DEF InboundFinished
  <1>8. InboundFinished(<<>>) = <<>>
    BY <1>5, <1>7
  <1>9. find_two_finished_messages(<<>>) = <<>>
    BY <1>6, <1>8 DEF find_two_finished_messages
  <1>10. SingleViolation(<<>>) = None
    BY <1>8 DEF SingleViolation
  <1> QED BY <1>9, <1>10 DEF check_violation

(* NothingRunsOnAViolation made inductive: the policy has no objection     *)
(* from the start of a call of execute up to its first step, and while     *)
(* agents are reset after a prior trace.                                   *)
ViolationInv ==
    (outcome = "Ok" \/ (stack # <<>> /\ Top.pc \in {"prior", "spawnPrior", "spawn", "reset"}))
        => check_violation(claims) = None

(* Once a violation is in the claims no further trace is started, nor does *)
(* the execution succeed: the check at the end of each trace is enough to  *)
(* keep the steps of a later trace from running on it.                     *)
THEOREM ViolationStops == Spec => []NothingRunsOnAViolation
  <1>1. Init => ViolationInv
    BY NoClaims DEF Init, ViolationInv
  <1>2. TypeInv /\ ViolationInv /\ [Next]_vars => ViolationInv'
    <2> SUFFICES ASSUME TypeInv, ViolationInv, [Next]_vars PROVE ViolationInv'
      OBVIOUS
    <2>0. ASSUME NEW e, Fail(e), e \in {"Put", "Agent", "Term", "Fn", "SecurityClaim"}
          PROVE  ViolationInv'
      BY <2>0, FailType DEF ViolationInv
    <2>1. CASE NextPrior \/ Spawn \/ SpawnEnd \/ ResetAgent \/ ResetEnd
      <3>1. check_violation(claims) = None /\ claims' = claims
        BY <2>1 DEF NextPrior, Spawn, SpawnEnd, ResetAgent, ResetEnd, Spawning, At, ViolationInv
      <3> QED BY <3>1 DEF ViolationInv
    <2>2. ASSUME NEW pc, NEW i, NEW d, Target(pc, i, d), Goto(pc, i, d), stack # <<>>,
                 pc \in {"step", "input", "progress", "output", "drain"}
          PROVE  ViolationInv'
      BY <2>2, GotoType DEF ViolationInv
    <2>3. CASE NextStep
      <3>1. stack # <<>> /\ Top.i \in 1..Len(Steps[Top.trace])
        BY <2>3, TopType DEF NextStep, At
      <3>2. \A pc \in {"input", "output"} : Target(pc, Top.i, 1)
        BY <3>1 DEF Target
      <3> QED BY <2>2, <2>3, <3>1, <3>2 DEF NextStep
    <2>4. CASE Input
      <3>1. stack # <<>> /\ Top.i \in 1..Len(Steps[Top.trace])
        BY <2>4, TopType DEF Input, At, GoodFrame
      <3>2. Target("progress", Top.i, 1)
        BY <3>1 DEF Target
      <3> QED BY <2>0, <2>2, <2>4, <3>1, <3>2 DEF Input
    <2>5. CASE progress
      <3>1. stack # <<>> /\ Top.i \in 1..Len(Steps[Top.trace])
        BY <2>5, TopType DEF progress, At, GoodFrame
      <3>2. \A pc \in {"output", "drain"} : Target(pc, Top.i, 1)
        BY <3>1 DEF Target
      <3> QED BY <2>0, <2>2, <2>5, <3>1, <3>2 DEF progress
    <2>6. CASE StepEnd
      <3>1. stack # <<>> /\ Top.i + 1 \in Nat \ {0}
        BY <2>6, TopType DEF StepEnd, At
      <3>2. Target("step", Top.i + 1, 1)
        BY <3>1 DEF Target
      <3> QED BY <2>2, <2>6, <3>1, <3>2 DEF StepEnd
    <2>7. CASE TakeMessage \/ UNCHANGED vars
      BY <2>7 DEF TakeMessage, vars, ViolationInv, Top
    <2>8. CASE Return
      <3>1. CASE verify_security_violations # None
        BY <2>0, <2>8, <3>1 DEF Return
      <3>2. CASE verify_security_violations = None
        BY <2>8, <3>2 DEF Return, verify_security_violations, ViolationInv
      <3> QED BY <3>1, <3>2
    <2> QED BY <2>1, <2>3, <2>4, <2>5, <2>6, <2>7, <2>8 DEF Next
  <1>3. ViolationInv => NothingRunsOnAViolation
    BY DEF ViolationInv, NothingRunsOnAViolation, Spawning, At
  <1> QED BY <1>1, <1>2, <1>3, InitType, NextType, PTL DEF Spec

-----------------------------------------------------------------------------
(* Names                                                                   *)

(* All calls of execute but the innermost wait for a prior trace, after    *)
(* which they reset the agents.                                            *)
CallersWait == \A l \in 1..Len(stack) - 1 : stack[l].pc = "reset"

(* The last descriptor that was spawned, by index: spawning goes through   *)
(* all the descriptors of a trace before its first step.                   *)
SpawnedSoFar(k) ==
    /\ k \in DOMAIN Descriptors[Top.trace]
    /\ Stepping \/ (At("spawn") /\ k < Top.d)

(* How control moves, as far as spawning is concerned.                     *)
ControlMoves ==
    \/ stack' = <<>>
    \/ stack' # <<>> /\ Top'.pc \in {"prior", "spawnPrior", "reset"}
    \/ At("prior") /\ At("spawn")' /\ Top'.d = 1
    \/ /\ At("spawn") /\ At("spawn")' /\ Top'.trace = Top.trace /\ Top'.d = Top.d + 1
       /\ Spawn
    \/ /\ At("spawn") /\ Stepping' /\ Top'.trace = Top.trace
       /\ Top.d > Len(Descriptors[Top.trace]) /\ agents' = agents
    \/ Stepping /\ Stepping' /\ Top'.trace = Top.trace
    \/ UNCHANGED vars

(* A step inside the innermost call leaves the waiting calls alone.        *)
LEMMA GotoCallers ==
    ASSUME TypeInv, CallersWait, stack # <<>>,
           NEW pc, NEW i, NEW d, Target(pc, i, d), Goto(pc, i, d)
    PROVE  /\ CallersWait' /\ stack' # <<>>
           /\ Top'.pc = pc /\ Top'.d = d /\ Top'.trace = Top.trace
  BY GotoType DEF CallersWait

(* Where control can go from where it is.                                  *)
LEMMA ControlMovesSo ==
    ASSUME TypeInv, CallersWait, [Next]_vars
    PROVE  ControlMoves /\ CallersWait'
  <1> DEFINE InStep == {"step", "input", "progress", "output", "drain"}
  <1>0. \A pc \in InStep : stack' # <<>> /\ Top'.pc = pc => Stepping'
    BY DEF Stepping, At
  <1>f. ASSUME stack' = <<>> PROVE ControlMoves /\ CallersWait'
    <2>1. ~\E l \in 1..Len(<<>>) - 1 : TRUE
      OBVIOUS
    <2> QED BY <1>f, <2>1 DEF ControlMoves, CallersWait
  <1>1. CASE NextPrior
    <2>1. stack # <<>> /\ Top.i \in Nat \ {0} /\ At("prior")
      BY <1>1, TopType DEF NextPrior, At
    <2>2. CASE Top.i <= Len(Prior[Top.trace]) /\ Goto("spawnPrior", Top.i, 1)
      <3>1. Target("spawnPrior", Top.i, 1)
        BY <2>1, <2>2, TopType DEF Target
      <3> QED BY <2>1, <2>2, <3>1, GotoCallers DEF ControlMoves
    <2>3. CASE Goto("spawn", Top.i, 1)
      <3>1. Target("spawn", Top.i, 1)
        BY <2>1 DEF Target
      <3> QED BY <2>1, <2>3, <3>1, GotoCallers DEF ControlMoves, At
    <2> QED BY <1>1, <2>2, <2>3 DEF NextPrior
  <1>2. CASE Spawn
    <2>1. stack # <<>> /\ Top.pc \in {"spawnPrior", "spawn"} /\ Top.d + 1 \in Nat \ {0}
      BY <1>2, TopType DEF Spawn, Spawning, At
    <2>2. CASE Fail("Put") \/ Fail("Agent")
      BY <1>f, <2>2 DEF Fail
    <2>3. CASE Goto(Top.pc, Top.i, Top.d + 1)
      <3>1. Target(Top.pc, Top.i, Top.d + 1)
        BY <2>1, TopType DEF Target, GoodFrame
      <3>2. /\ CallersWait' /\ stack' # <<>> /\ Top'.pc = Top.pc /\ Top'.d = Top.d + 1
            /\ Top'.trace = Top.trace
        BY <2>1, <2>3, <3>1, GotoCallers
      <3> QED BY <1>2, <2>1, <3>2 DEF ControlMoves, At
    <2> QED BY <1>2, <2>2, <2>3 DEF Spawn
  <1>3. CASE SpawnEnd
    <2>1. stack # <<>> /\ Len(stack) \in Nat \ {0} /\ stack \in Seq(GoodFrame)
      BY <1>3, TopType DEF SpawnEnd, Spawning, At, TypeInv, StackOK
    <2>2. CASE At("spawn") /\ Goto("step", 1, 1)
      <3>1. Target("step", 1, 1)
        BY DEF Target
      <3>2. /\ CallersWait' /\ stack' # <<>> /\ Top'.pc = "step" /\ Top'.trace = Top.trace
        BY <2>1, <2>2, <3>1, GotoCallers
      <3>3. SpawnedTrace = Top.trace
        BY <2>2 DEF SpawnedTrace, At
      <3> QED BY <1>0, <1>3, <2>2, <3>2, <3>3 DEF ControlMoves, SpawnEnd
    <2>3. CASE At("spawnPrior") /\ ~At("spawn")
      <3>1. PICK c : c = Call(SpawnedTrace)
        OBVIOUS
      <3>2. PICK f : f = [Top EXCEPT !.pc = "reset", !.d = 1]
        OBVIOUS
      <3>3. c.pc = "prior" /\ f.pc = "reset"
        BY <2>1, <3>1, <3>2, TopType DEF Call, GoodFrame, Frame
      <3>4. stack' = Append([stack EXCEPT ![Len(stack)] = f], c)
        BY <1>3, <2>3, <3>1, <3>2 DEF SpawnEnd, Top
      <3>5. PICK s : s = [stack EXCEPT ![Len(stack)] = f]
        OBVIOUS
      <3>6. s \in Seq(GoodFrame \cup {f, c}) /\ Len(s) = Len(stack)
        BY <2>1, <3>5
      <3>7. /\ Len(stack') = Len(s) + 1 /\ stack'[Len(s) + 1] = c
            /\ \A l \in 1..Len(s) : stack'[l] = s[l]
        <4>1. stack' = Append(s, c) /\ c \in GoodFrame \cup {f, c}
          BY <3>4, <3>5
        <4> QED BY <3>6, <4>1
      <3>8. Top' = c /\ stack' # <<>>
        BY <2>1, <3>6, <3>7 DEF Top
      <3>9. CallersWait'
        <4> SUFFICES ASSUME NEW l \in 1..Len(stack') - 1 PROVE stack'[l].pc = "reset"
          BY DEF CallersWait
        <4>1. l \in 1..Len(stack) /\ stack'[l] = s[l]
          BY <2>1, <3>6, <3>7
        <4>2. CASE l = Len(stack)
          BY <2>1, <3>3, <3>5, <4>1, <4>2
        <4>3. CASE l # Len(stack)
          <5>1. l \in 1..Len(stack) - 1 /\ s[l] = stack[l]
            BY <2>1, <3>5, <4>1, <4>3
          <5> QED BY <4>1, <5>1 DEF CallersWait
        <4> QED BY <4>2, <4>3
      <3> QED BY <3>3, <3>8, <3>9 DEF ControlMoves
    <2> QED BY <1>3, <2>2, <2>3 DEF SpawnEnd, At
  <1>4. CASE ResetAgent
    <2>1. stack # <<>> /\ Top.d + 1 \in Nat \ {0}
      BY <1>4, TopType DEF ResetAgent, At
    <2>2. CASE Fail("Put")
      BY <1>f, <2>2 DEF Fail
    <2>3. CASE Goto("reset", Top.i, Top.d + 1)
      <3>1. Target("reset", Top.i, Top.d + 1)
        BY <2>1, TopType DEF Target
      <3> QED BY <2>1, <2>3, <3>1, GotoCallers DEF ControlMoves
    <2> QED BY <1>4, <2>2, <2>3 DEF ResetAgent
  <1>5. CASE ResetEnd
    <2>1. stack # <<>> /\ Top.i + 1 \in Nat \ {0}
      BY <1>5, TopType DEF ResetEnd, At
    <2>2. Target("prior", Top.i + 1, 1)
      BY <2>1 DEF Target
    <2> QED BY <1>5, <2>1, <2>2, GotoCallers DEF ResetEnd, ControlMoves
  <1>6. ASSUME Stepping, NEW pc \in InStep, NEW i, Target(pc, i, 1), Goto(pc, i, 1)
        PROVE  ControlMoves /\ CallersWait'
    <2>1. stack # <<>>
      BY <1>6 DEF Stepping, At
    <2>2. CallersWait' /\ stack' # <<>> /\ Top'.pc = pc /\ Top'.trace = Top.trace
      BY <1>6, <2>1, GotoCallers
    <2> QED BY <1>0, <1>6, <2>2 DEF ControlMoves
  <1>7. CASE NextStep
    <2>1. Stepping /\ Top.i \in 1..Len(Steps[Top.trace])
      BY <1>7, TopType DEF NextStep, Stepping, At
    <2>2. \A pc \in {"input", "output"} : Target(pc, Top.i, 1)
      BY <2>1 DEF Target
    <2> QED BY <1>6, <1>7, <2>1, <2>2 DEF NextStep
  <1>8. CASE Input
    <2>1. Stepping /\ Target("progress", Top.i, 1)
      BY <1>8, TopType DEF Input, Stepping, At, GoodFrame, Target
    <2>2. CASE Fail("Term") \/ Fail("Fn") \/ Fail("Agent")
      BY <1>f, <2>2 DEF Fail
    <2> QED BY <1>6, <1>8, <2>1, <2>2 DEF Input
  <1>9. CASE progress
    <2>1. Stepping /\ \A pc \in {"output", "drain"} : Target(pc, Top.i, 1)
      BY <1>9, TopType DEF progress, Stepping, At, GoodFrame, Target
    <2>2. CASE Fail("Put") \/ Fail("Agent")
      BY <1>f, <2>2 DEF Fail
    <2> QED BY <1>6, <1>9, <2>1, <2>2 DEF progress
  <1>10. CASE StepEnd
    <2>1. Stepping /\ Target("step", Top.i + 1, 1)
      BY <1>10, TopType DEF StepEnd, Stepping, At, Target
    <2> QED BY <1>6, <1>10, <2>1 DEF StepEnd
  <1>11. CASE TakeMessage
    <2>1. Stepping /\ stack' = stack
      BY <1>11 DEF TakeMessage, Stepping
    <2>2. Stepping' /\ Top' = Top /\ CallersWait'
      BY <2>1 DEF Stepping, At, Top, CallersWait
    <2> QED BY <2>1, <2>2 DEF ControlMoves
  <1>12. CASE Return
    <2>1. stack # <<>> /\ Len(stack) \in Nat \ {0} /\ stack \in Seq(GoodFrame)
      BY <1>12, TopType DEF Return, At, TypeInv, StackOK
    <2>2. CASE Fail("SecurityClaim")
      BY <1>f, <2>2 DEF Fail
    <2>3. CASE stack' = SubSeq(stack, 1, Len(stack) - 1)
      <3>1. /\ Len(stack') = Len(stack) - 1
            /\ \A l \in 1..Len(stack) - 1 : stack'[l] = stack[l]
        <4>1. PICK n \in 0..Len(stack) : n = Len(stack) - 1
          BY <2>1, SMTT(30)
        <4>2. Len(SubSeq(stack, 1, n)) = n /\ \A l \in 1..n : SubSeq(stack, 1, n)[l] = stack[l]
          BY <2>1
        <4> QED BY <2>3, <4>1, <4>2
      <3>2. CASE Len(stack) = 1
        <4>1. stack' = <<>>
          BY <2>1, <2>3, <3>2
        <4> QED BY <1>f, <4>1
      <3>3. CASE Len(stack) > 1
        <4>1. Len(stack) - 1 \in 1..Len(stack) - 1 /\ stack' # <<>>
          BY <2>1, <3>1, <3>3
        <4>2. Top'.pc = "reset"
          BY <3>1, <4>1 DEF Top, CallersWait
        <4>3. CallersWait'
          <5>1. \A l \in 1..Len(stack') - 1 : l \in 1..Len(stack) - 1
            BY <2>1, <3>1
          <5> QED BY <3>1, <5>1 DEF CallersWait
        <4> QED BY <4>1, <4>2, <4>3 DEF ControlMoves
      <3>4. Len(stack) = 1 \/ Len(stack) > 1
        <4>1. \A n \in Nat \ {0} : n = 1 \/ n > 1
          OBVIOUS
        <4> QED BY <2>1, <4>1, Zenon
      <3> QED BY <3>2, <3>3, <3>4
    <2> QED BY <1>12, <2>2, <2>3 DEF Return
  <1>13. CASE UNCHANGED vars
    BY <1>13 DEF vars, ControlMoves, CallersWait
  <1> QED BY <1>1, <1>2, <1>3, <1>4, <1>5, <1>7, <1>8, <1>9, <1>10, <1>11, <1>12, <1>13
          DEF Next

(* What happens to names, descriptors and callbacks.                       *)
NamesStay ==
    /\ DOMAIN agents' = DOMAIN agents
    /\ \A b \in DOMAIN agents :
          agents'[b].name = agents[b].name /\ agents'[b].descriptor = agents[b].descriptor

ClaimersStay == NamesStay /\ \A b \in DOMAIN agents : agents'[b].claimer = agents[b].claimer

SpawnedFor(desc) ==
    \E a \in DOMAIN agents' :
        /\ agents'[a].name = desc.name /\ agents'[a].claimer = desc.name
        /\ SameKind(agents'[a].descriptor, desc)
        /\ \A b \in DOMAIN agents' : b # a => b \in DOMAIN agents /\ agents'[b] = agents[b]
        /\ \A b \in DOMAIN agents :
              b \in DOMAIN agents' /\ agents'[b].descriptor = agents[b].descriptor

(* Spawning gives one agent, of the kind of the descriptor, its name and   *)
(* registers its callback under it, whether it is new or used again.       *)
LEMMA SpawnAgentNames ==
    ASSUME TypeInv, NEW desc \in AgentDescriptor, SpawnAgent(desc)
    PROVE  SpawnedFor(desc)
  <1>0. agents \in Seq(Agent)
    BY DEF TypeInv, DataOK
  <1>1. ASSUME NEW a \in First(Reusable(desc)),
               agents' = [agents EXCEPT ![a] = rename(@, desc.name)]
        PROVE  SpawnedFor(desc)
    <2>1. a \in DOMAIN agents /\ agents[a] \in Agent /\ is_reusable_with(agents[a], desc)
      BY <1>0 DEF First, Reusable
    <2>2. PICK x : x = rename(agents[a], desc.name)
      OBVIOUS
    <2>3. /\ x \in Agent /\ x.name = desc.name /\ x.claimer = desc.name
          /\ x.descriptor = agents[a].descriptor
      BY <2>1, <2>2 DEF rename, Agent, AgentDescriptor
    <2>4. /\ DOMAIN agents' = DOMAIN agents /\ agents'[a] = x
          /\ \A b \in DOMAIN agents : b # a => agents'[b] = agents[b]
      BY <1>1, <2>1, <2>2, <2>3, AgentUpdate
    <2>5. SameKind(x.descriptor, desc)
      BY <2>1, <2>3 DEF is_reusable_with, SameKind
    <2> QED BY <2>1, <2>3, <2>4, <2>5 DEF SpawnedFor
  <1>2. ASSUME agents' = Append(agents, new_agent(desc)) PROVE SpawnedFor(desc)
    <2>1. PICK x : x = new_agent(desc)
      OBVIOUS
    <2>2. x.name = desc.name /\ x.claimer = desc.name /\ x.descriptor = desc
      BY <2>1 DEF new_agent
    <2>3. x \in Agent
      BY <2>1 DEF new_agent, Agent, AgentDescriptor
    <2>4. PICK n \in Nat : n = Len(agents)
      BY <1>0
    <2>5. /\ DOMAIN agents = 1..n /\ DOMAIN agents' = 1..n + 1 /\ agents'[n + 1] = x
          /\ \A b \in 1..n : agents'[b] = agents[b]
      BY <1>0, <1>2, <2>1, <2>3, <2>4
    <2>6. n + 1 \in 1..n + 1 /\ \A b \in 1..n + 1 : b # n + 1 => b \in 1..n
      BY <2>4
    <2>7. \A b \in 1..n : b \in 1..n + 1
      BY <2>4
    <2>8. SameKind(x.descriptor, desc)
      BY <2>2 DEF SameKind
    <2> QED BY <2>2, <2>5, <2>6, <2>7, <2>8 DEF SpawnedFor
  <1> QED BY <1>1, <1>2 DEF SpawnAgent

(* Only spawning and resetting touch names and callbacks.                  *)
LEMMA NamesEvolve ==
    ASSUME TypeInv, [Next]_vars
    PROVE  \/ ClaimersStay
           \/ At("reset") /\ NamesStay
           \/ Spawn /\ SpawnedFor(Descriptors[SpawnedTrace][Top.d])
  <1> USE DEF TypeInv
  <1>0. ASSUME agents' = agents PROVE ClaimersStay
    BY <1>0 DEF ClaimersStay, NamesStay
  <1>1. CASE Spawn
    <2>1. CASE SpawnAgent(Descriptors[SpawnedTrace][Top.d])
      <3>1. Descriptors[SpawnedTrace][Top.d] \in AgentDescriptor
        BY <1>1, SpawnedDescriptor DEF Spawn
      <3> QED BY <1>1, <2>1, <3>1, SpawnAgentNames
    <2> QED BY <1>0, <1>1, <2>1 DEF Spawn
  <1>2. CASE ResetAgent
    <2>1. CASE agents' = [agents EXCEPT ![Top.d] = reset(@)]
      <3>1. Top.d \in DOMAIN agents
        BY <1>2, TopType DEF ResetAgent, At, DataOK
      <3>2. agents[Top.d] \in Agent
        BY <3>1 DEF DataOK
      <3>3. PICK x : x = reset(agents[Top.d])
        OBVIOUS
      <3>4. x \in Agent
        BY <3>2, <3>3, ResetType
      <3>5. x.name = agents[Top.d].name /\ x.descriptor = agents[Top.d].descriptor
        BY <3>2, <3>3 DEF reset, Agent
      <3>6. NamesStay
        BY <2>1, <3>1, <3>3, <3>4, <3>5, AgentUpdate DEF NamesStay
      <3> QED BY <1>2, <3>6 DEF ResetAgent
    <2> QED BY <1>0, <1>2, <2>1 DEF ResetAgent
  <1>3. CASE Input
    <2>1. ASSUME NEW a \in find_agent(Step.agent),
                 agents' = [agents EXCEPT ![a].inbound = Append(@, agents[a].session)]
          PROVE  ClaimersStay
      <3>1. a \in DOMAIN agents /\ agents[a] \in Agent
        BY FindAgentType
      <3> QED BY <2>1, <3>1 DEF ClaimersStay, NamesStay, Agent, DataOK
    <2> QED BY <1>0, <1>3, <2>1 DEF Input
  <1>4. CASE progress
    <2>1. ASSUME NEW a \in find_agent(Step.agent), PutRuns(a)
          PROVE  ClaimersStay
      <3>1. a \in DOMAIN agents /\ agents[a] \in Agent
        BY FindAgentType
      <3>2. PICK in, out : agents' = [agents EXCEPT ![a].inbound = in, ![a].outbound = out]
        BY <2>1 DEF PutRuns
      <3> QED BY <3>1, <3>2 DEF ClaimersStay, NamesStay, Agent, DataOK
    <2> QED BY <1>0, <1>4, <2>1 DEF progress
  <1>5. CASE TakeMessage
    <2>1. PICK a \in find_agent(Step.agent) : agents' = [agents EXCEPT ![a].outbound = Tail(@)]
      BY <1>5 DEF TakeMessage
    <2>2. a \in DOMAIN agents /\ agents[a] \in Agent
      BY FindAgentType
    <2> QED BY <2>1, <2>2 DEF ClaimersStay, NamesStay, Agent, DataOK
  <1>6. CASE NextPrior \/ SpawnEnd \/ ResetEnd \/ NextStep \/ StepEnd \/ Return
    BY <1>0, <1>6 DEF NextPrior, SpawnEnd, ResetEnd, NextStep, StepEnd, Return
  <1>7. CASE UNCHANGED vars
    BY <1>0, <1>7 DEF vars
  <1> QED BY <1>1, <1>2, <1>3, <1>4, <1>5, <1>6, <1>7 DEF Next

(* An agent has its name from a descriptor of its own kind.                *)
Named(x) ==
    \E t \in Traces : \E k \in DOMAIN Descriptors[t] :
        x.name = Descriptors[t][k].name /\ SameKind(x.descriptor, Descriptors[t][k])

AllNamed == \A a \in DOMAIN agents : Named(agents[a])

UniqueNames == \A a, b \in DOMAIN agents : agents[a].name = agents[b].name => a = b

(* Each step keeps the names of agents to descriptors of their kind.       *)
LEMMA NamedStep == TypeInv /\ AllNamed /\ [Next]_vars => AllNamed'
  <1> SUFFICES ASSUME TypeInv, AllNamed, [Next]_vars PROVE AllNamed'
    OBVIOUS
  <1>1. CASE NamesStay
    BY <1>1 DEF NamesStay, AllNamed, Named
  <1>2. CASE Spawn /\ SpawnedFor(Descriptors[SpawnedTrace][Top.d])
    <2>1. stack # <<>> /\ Top.d \in Nat \ {0} /\ Top.d <= Len(Descriptors[SpawnedTrace])
      BY <1>2, TopType DEF Spawn, Spawning, At
    <2>2. SpawnedTrace \in Traces
      BY <2>1, TopType DEF SpawnedTrace, At, GoodFrame
    <2>3. Top.d \in DOMAIN Descriptors[SpawnedTrace]
      BY <2>1, <2>2, TraceAssumption
    <2>4. PICK a \in DOMAIN agents' :
            /\ agents'[a].name = Descriptors[SpawnedTrace][Top.d].name
            /\ SameKind(agents'[a].descriptor, Descriptors[SpawnedTrace][Top.d])
            /\ \A b \in DOMAIN agents' : b # a => b \in DOMAIN agents /\ agents'[b] = agents[b]
      BY <1>2 DEF SpawnedFor
    <2>5. Named(agents'[a])
      BY <2>2, <2>3, <2>4 DEF Named
    <2> QED BY <2>4, <2>5 DEF AllNamed
  <1> QED BY <1>1, <1>2, NamesEvolve DEF ClaimersStay

(* There being one agent of a kind, there is one of a name.                *)
LEMMA NamesUnique ==
    NamesHaveOneKind => (AllNamed /\ OneAgentPerKind => UniqueNames)
  BY DEF NamesHaveOneKind, AllNamed, Named, OneAgentPerKind, UniqueNames, SameKind

-----------------------------------------------------------------------------
(* Claims                                                                  *)

(* ClaimsAreRecorded made inductive: what it says of the agents of a       *)
(* running trace is true, while they are spawned, of those that are.       *)
RecordInv ==
    /\ CallersWait
    /\ \A k : SpawnedSoFar(k) => \A a \in DOMAIN agents :
          agents[a].name = Descriptors[Top.trace][k].name
              => agents[a].claimer = Descriptors[Top.trace][k].name

\* Every step keeps agents and their claimers under one name.
LEMMA RecordStep == TypeInv /\ RecordInv /\ UniqueNames' /\ [Next]_vars => RecordInv'
  <1> SUFFICES ASSUME TypeInv, RecordInv, UniqueNames', [Next]_vars PROVE RecordInv'
    OBVIOUS
  <1>1. CallersWait' /\ ControlMoves
    BY ControlMovesSo DEF RecordInv
  <1> SUFFICES ASSUME NEW k, SpawnedSoFar(k)', NEW a \in DOMAIN agents',
                      agents'[a].name = Descriptors[Top'.trace][k].name
               PROVE  agents'[a].claimer = Descriptors[Top'.trace][k].name
    BY <1>1 DEF RecordInv
  <1>2. stack' # <<>> /\ k \in DOMAIN Descriptors[Top'.trace]
        /\ Top'.pc \notin {"prior", "spawnPrior", "reset"}
        /\ ~(At("spawn")' /\ Top'.d = 1)
    <2>1. stack' # <<>> /\ k \in DOMAIN Descriptors[Top'.trace]
          /\ Top'.pc \notin {"prior", "spawnPrior", "reset"}
      BY DEF SpawnedSoFar, Stepping, At
    <2>2. ASSUME At("spawn")', Top'.d = 1 PROVE FALSE
      <3>1. k < 1
        BY <2>2 DEF SpawnedSoFar, Stepping, At
      <3>2. TypeInv'
        BY NextType
      <3>3. Top'.trace \in Traces
        <4>1. Len(stack') \in 1..Len(stack') /\ stack' \in Seq(Frame)
          BY <2>1, <3>2 DEF TypeInv, StackOK
        <4>2. Top' \in Frame
          BY <4>1 DEF Top
        <4> QED BY <4>2 DEF Frame
      <3>4. k \in 1..Len(Descriptors[Top'.trace]) /\ Len(Descriptors[Top'.trace]) \in Nat
        BY <2>1, <3>3, TraceAssumption
      <3> QED BY <3>1, <3>4
    <2> QED BY <2>1, <2>2
  <1>3. CASE /\ At("spawn") /\ At("spawn")' /\ Top'.trace = Top.trace /\ Top'.d = Top.d + 1
             /\ Spawn
    <2>1. SpawnedTrace = Top.trace /\ ~At("reset")
      BY <1>3 DEF SpawnedTrace, At
    <2>2. Top.trace \in Traces /\ Top.d \in Nat
      BY <1>3, TopType DEF At
    <2>3. k < Top.d + 1 /\ k \in Nat
      BY <1>2, <1>3, <2>2, TraceAssumption DEF SpawnedSoFar, Stepping, At
    <2>4. k # Top.d => SpawnedSoFar(k)
      BY <1>2, <1>3, <2>2, <2>3 DEF SpawnedSoFar
    <2>5. CASE ClaimersStay /\ k # Top.d
      BY <1>3, <2>4, <2>5 DEF ClaimersStay, NamesStay, RecordInv
    <2>6. CASE SpawnedFor(Descriptors[Top.trace][Top.d])
      <3>1. PICK c \in DOMAIN agents' :
              /\ agents'[c].name = Descriptors[Top.trace][Top.d].name
              /\ agents'[c].claimer = Descriptors[Top.trace][Top.d].name
              /\ \A b \in DOMAIN agents' : b # c => b \in DOMAIN agents /\ agents'[b] = agents[b]
        BY <2>6 DEF SpawnedFor
      <3>2. CASE a = c
        BY <1>3, <3>1, <3>2
      <3>3. CASE a # c
        <4>1. agents'[a].name # agents'[c].name
          BY <3>3 DEF UniqueNames
        <4>2. k # Top.d
          BY <1>3, <3>1, <4>1
        <4> QED BY <1>3, <2>4, <3>1, <3>3, <4>2 DEF RecordInv
      <3> QED BY <3>2, <3>3
    <2>7. SpawnedFor(Descriptors[Top.trace][Top.d])
      <3>1. CASE SpawnAgent(Descriptors[SpawnedTrace][Top.d])
        <4>1. Descriptors[SpawnedTrace][Top.d] \in AgentDescriptor
          BY <1>3, SpawnedDescriptor DEF Spawn
        <4> QED BY <2>1, <3>1, <4>1, SpawnAgentNames
      <3>2. CASE Fail("Put") \/ Fail("Agent")
        BY <1>2, <3>2 DEF Fail
      <3> QED BY <1>3, <3>1, <3>2 DEF Spawn
    <2> QED BY <2>6, <2>7
  <1>4. CASE /\ At("spawn") /\ Stepping' /\ Top'.trace = Top.trace
             /\ Top.d > Len(Descriptors[Top.trace]) /\ agents' = agents
    <2>1. Top.trace \in Traces /\ Top.d \in Nat
      BY <1>4, TopType DEF At
    <2>2. k < Top.d /\ k \in DOMAIN Descriptors[Top.trace]
      BY <1>2, <1>4, <2>1, TraceAssumption
    <2> QED BY <1>4, <2>2 DEF SpawnedSoFar, RecordInv
  <1>5. CASE Stepping /\ Stepping' /\ Top'.trace = Top.trace
    <2>1. ~At("reset") /\ ~Spawn
      BY <1>5 DEF Stepping, At, Spawn, Spawning
    <2>2. ClaimersStay
      BY <2>1, NamesEvolve
    <2>3. SpawnedSoFar(k)
      BY <1>2, <1>5 DEF SpawnedSoFar
    <2> QED BY <1>5, <2>2, <2>3 DEF ClaimersStay, NamesStay, RecordInv
  <1>6. CASE UNCHANGED vars
    BY <1>6 DEF vars, RecordInv, SpawnedSoFar, Stepping, At, Top
  <1> QED BY <1>1, <1>2, <1>3, <1>4, <1>5, <1>6 DEF ControlMoves

(* If traces use a name for one kind of agent only, then while the steps   *)
(* of a trace run every claim of its agents is recorded, under the name    *)
(* the trace knows the agent by: resets may take callbacks away and prior  *)
(* traces rename agents, but spawning always puts that right in time.      *)
THEOREM ClaimsRecorded == ASSUME NamesHaveOneKind PROVE Spec => []ClaimsAreRecorded
  <1>1. Init => AllNamed /\ RecordInv /\ OneAgentPerKind
    <2> SUFFICES ASSUME Init PROVE AllNamed /\ RecordInv /\ OneAgentPerKind
      OBVIOUS
    <2>1. agents = <<>> /\ \E t \in Roots : stack = <<Call(t)>>
      BY DEF Init
    <2>2. AllNamed /\ OneAgentPerKind
      BY <2>1 DEF AllNamed, OneAgentPerKind
    <2>3. CallersWait
      BY <2>1 DEF CallersWait
    <2> QED BY <2>1, <2>2, <2>3 DEF RecordInv
  <1>2. AllNamed /\ OneAgentPerKind => UniqueNames
    BY NamesUnique
  <1>3. RecordInv => ClaimsAreRecorded
    <2> SUFFICES ASSUME RecordInv, Stepping, NEW k \in DOMAIN Descriptors[Top.trace],
                        NEW a \in find_agent(Descriptors[Top.trace][k].name)
                 PROVE  agents[a].claimer = Descriptors[Top.trace][k].name
      BY DEF ClaimsAreRecorded, Declared
    <2>1. a \in DOMAIN agents /\ agents[a].name = Descriptors[Top.trace][k].name
      BY DEF find_agent, First
    <2>2. SpawnedSoFar(k)
      BY DEF SpawnedSoFar
    <2> QED BY <2>1, <2>2 DEF RecordInv
  <1>4. Spec => [](TypeInv /\ AllNamed)
    BY <1>1, NamedStep, InitType, NextType, PTL DEF Spec
  <1>5. Spec => []UniqueNames
    BY <1>2, <1>4, OneAgentPerKindAlways, PTL
  <1>6. Spec => []RecordInv
    BY <1>1, <1>4, <1>5, RecordStep, PTL DEF Spec
  <1> QED BY <1>3, <1>6, PTL

-----------------------------------------------------------------------------
(* Declared agents                                                         *)

(* StepsRunOnDeclaredAgents made inductive: a descriptor that was spawned  *)
(* has its agent.                                                          *)
DeclaredInv ==
    /\ CallersWait
    /\ \A k : SpawnedSoFar(k) => \E a \in DOMAIN agents :
          /\ agents[a].name = Descriptors[Top.trace][k].name
          /\ SameKind(agents[a].descriptor, Descriptors[Top.trace][k])

(* Spawning a descriptor leaves those spawned before their agents.         *)
LEMMA DeclaredStep ==
    KindsHaveOneName => (TypeInv /\ DeclaredInv /\ [Next]_vars => DeclaredInv')
  <1> SUFFICES ASSUME KindsHaveOneName, TypeInv, DeclaredInv, [Next]_vars PROVE DeclaredInv'
    OBVIOUS
  <1>1. CallersWait' /\ ControlMoves
    BY ControlMovesSo DEF DeclaredInv
  <1> SUFFICES ASSUME NEW k, SpawnedSoFar(k)'
               PROVE  \E a \in DOMAIN agents' :
                        /\ agents'[a].name = Descriptors[Top'.trace][k].name
                        /\ SameKind(agents'[a].descriptor, Descriptors[Top'.trace][k])
    BY <1>1 DEF DeclaredInv
  <1>2. stack' # <<>> /\ k \in DOMAIN Descriptors[Top'.trace]
        /\ Top'.pc \notin {"prior", "spawnPrior", "reset"}
    BY DEF SpawnedSoFar, Stepping, At
  <1>3. Top'.trace \in Traces
    <2>1. TypeInv'
      BY NextType
    <2>2. Len(stack') \in 1..Len(stack') /\ stack' \in Seq(Frame)
      BY <1>2, <2>1 DEF TypeInv, StackOK
    <2>3. Top' \in Frame
      BY <2>2 DEF Top
    <2> QED BY <2>3 DEF Frame
  <1>4. ~(At("spawn")' /\ Top'.d = 1)
    <2> SUFFICES ASSUME At("spawn")', Top'.d = 1 PROVE FALSE
      OBVIOUS
    <2>1. k < 1
      BY DEF SpawnedSoFar, Stepping, At
    <2>2. k \in 1..Len(Descriptors[Top'.trace]) /\ Len(Descriptors[Top'.trace]) \in Nat
      BY <1>2, <1>3, TraceAssumption
    <2> QED BY <2>1, <2>2
  <1>5. ASSUME SpawnedSoFar(k), Top'.trace = Top.trace, NamesStay
        PROVE  \E a \in DOMAIN agents' :
                 /\ agents'[a].name = Descriptors[Top'.trace][k].name
                 /\ SameKind(agents'[a].descriptor, Descriptors[Top'.trace][k])
    BY <1>5 DEF DeclaredInv, NamesStay
  <1>6. CASE /\ At("spawn") /\ At("spawn")' /\ Top'.trace = Top.trace /\ Top'.d = Top.d + 1
             /\ Spawn
    <2> DEFINE D == Descriptors[Top.trace]
    <2>1. Top.trace \in Traces /\ Top.d \in Nat \ {0} /\ SpawnedTrace = Top.trace
      BY <1>6, TopType DEF At, SpawnedTrace
    <2>2. Top.d \in DOMAIN D
      BY <1>6, <2>1, TraceAssumption DEF Spawn
    <2>3. D[Top.d] \in AgentDescriptor /\ SpawnAgent(D[Top.d])
      <3>1. SpawnAgent(D[Top.d])
        BY <1>2, <1>6, <2>1 DEF Spawn, Fail
      <3> QED BY <2>1, <2>2, <3>1, TraceAssumption
    <2>4. PICK c \in DOMAIN agents' :
            /\ agents'[c].name = D[Top.d].name
            /\ SameKind(agents'[c].descriptor, D[Top.d])
            /\ \A b \in DOMAIN agents' : b # c => b \in DOMAIN agents /\ agents'[b] = agents[b]
            /\ \A b \in DOMAIN agents :
                  b \in DOMAIN agents' /\ agents'[b].descriptor = agents[b].descriptor
      BY <2>3, SpawnAgentNames DEF SpawnedFor
    <2>5. CASE k = Top.d
      BY <1>6, <2>4, <2>5
    <2>6. CASE k # Top.d
      <3>1. k \in Nat /\ k < Top.d + 1
        BY <1>2, <1>3, <1>6, TraceAssumption DEF SpawnedSoFar, Stepping, At
      <3>2. SpawnedSoFar(k) /\ k \in DOMAIN D
        BY <1>2, <1>6, <2>1, <2>6, <3>1 DEF SpawnedSoFar
      <3>3. PICK a \in DOMAIN agents :
              agents[a].name = D[k].name /\ SameKind(agents[a].descriptor, D[k])
        BY <3>2 DEF DeclaredInv
      <3>4. CASE a = c
        <4>1. SameKind(agents'[c].descriptor, D[k])
          BY <2>4, <3>3, <3>4
        <4>2. SameKind(D[k], D[Top.d])
          BY <2>4, <4>1 DEF SameKind
        <4>3. D[k].name = D[Top.d].name
          BY <2>1, <2>2, <3>2, <4>2 DEF KindsHaveOneName
        <4> QED BY <1>6, <2>4, <4>1, <4>3
      <3>5. CASE a # c
        BY <1>6, <2>4, <3>3, <3>5
      <3> QED BY <3>4, <3>5
    <2> QED BY <2>5, <2>6
  <1>7. CASE /\ At("spawn") /\ Stepping' /\ Top'.trace = Top.trace
             /\ Top.d > Len(Descriptors[Top.trace]) /\ agents' = agents
    <2>1. Top.trace \in Traces /\ Top.d \in Nat
      BY <1>7, TopType DEF At
    <2>2. k < Top.d /\ k \in DOMAIN Descriptors[Top.trace]
      BY <1>2, <1>7, <2>1, TraceAssumption
    <2>3. SpawnedSoFar(k) /\ NamesStay
      BY <1>7, <2>2 DEF SpawnedSoFar, NamesStay
    <2> QED BY <1>5, <1>7, <2>3
  <1>8. CASE Stepping /\ Stepping' /\ Top'.trace = Top.trace
    <2>1. ~At("reset") /\ ~Spawn
      BY <1>8 DEF Stepping, At, Spawn, Spawning
    <2>2. NamesStay
      BY <2>1, NamesEvolve DEF ClaimersStay
    <2>3. SpawnedSoFar(k)
      BY <1>2, <1>8 DEF SpawnedSoFar
    <2> QED BY <1>5, <1>8, <2>2, <2>3
  <1>9. CASE UNCHANGED vars
    <2>1. SpawnedSoFar(k) /\ NamesStay /\ Top'.trace = Top.trace
      BY <1>9 DEF vars, SpawnedSoFar, Stepping, At, Top, NamesStay
    <2> QED BY <1>5, <2>1
  <1> QED BY <1>1, <1>2, <1>4, <1>6, <1>7, <1>8, <1>9 DEF ControlMoves

(* If, besides, no trace has two names for agents of one kind, then while  *)
(* its steps run each of its names leads to an agent of the declared type  *)
(* and version, whatever its prior traces have spawned and renamed.        *)
THEOREM DeclaredAgentsRun ==
    ASSUME NamesHaveOneKind, KindsHaveOneName
    PROVE  Spec => []StepsRunOnDeclaredAgents
  <1>1. Init => AllNamed /\ DeclaredInv
    <2> SUFFICES ASSUME Init PROVE AllNamed /\ DeclaredInv
      OBVIOUS
    <2>1. agents = <<>> /\ \E t \in Roots : stack = <<Call(t)>>
      BY DEF Init
    <2>2. AllNamed
      BY <2>1 DEF AllNamed
    <2>3. CallersWait
      BY <2>1 DEF CallersWait
    <2>4. ASSUME NEW k, SpawnedSoFar(k) PROVE FALSE
      <3>1. Top.pc = "prior"
        BY <2>1 DEF Top, Call
      <3> QED BY <2>4, <3>1 DEF SpawnedSoFar, Stepping, At
    <2> QED BY <2>2, <2>3, <2>4 DEF DeclaredInv
  <1>2. AllNamed /\ OneAgentPerKind => UniqueNames
    BY NamesUnique
  <1>3. TypeInv /\ DeclaredInv /\ UniqueNames => StepsRunOnDeclaredAgents
    <2> SUFFICES ASSUME TypeInv, DeclaredInv, UniqueNames, Stepping,
                        NEW k \in DOMAIN Descriptors[Top.trace]
                 PROVE  LET desc == Descriptors[Top.trace][k]
                        IN  /\ find_agent(desc.name) # {}
                            /\ \A a \in find_agent(desc.name) :
                                  SameKind(agents[a].descriptor, desc)
      BY DEF StepsRunOnDeclaredAgents, Declared, SameKind
    <2> DEFINE desc == Descriptors[Top.trace][k]
    <2>1. SpawnedSoFar(k)
      BY DEF SpawnedSoFar
    <2>2. PICK a \in DOMAIN agents :
            agents[a].name = desc.name /\ SameKind(agents[a].descriptor, desc)
      BY <2>1 DEF DeclaredInv
    <2>3. {b \in DOMAIN agents : agents[b].name = desc.name} = {a}
      BY <2>2 DEF UniqueNames
    <2>4. \A b \in find_agent(desc.name) : b = a
      BY <2>3 DEF find_agent, First
    <2>5. a \in Nat
      BY <2>2 DEF TypeInv, DataOK
    <2>6. a \in find_agent(desc.name)
      BY <2>3, <2>5 DEF find_agent, First
    <2> QED BY <2>2, <2>4, <2>6
  <1>4. Spec => [](TypeInv /\ AllNamed)
    BY <1>1, NamedStep, InitType, NextType, PTL DEF Spec
  <1>5. Spec => []UniqueNames
    BY <1>2, <1>4, OneAgentPerKindAlways, PTL
  <1>6. TypeInv /\ DeclaredInv /\ [Next]_vars => DeclaredInv'
    BY DeclaredStep
  <1>7. Spec => []DeclaredInv
    BY <1>1, <1>4, <1>6, PTL DEF Spec
  <1> QED BY <1>3, <1>4, <1>5, <1>7, PTL

-----------------------------------------------------------------------------
(* The reference for the order of the steps                                *)

(* Sequences one after the other.                                          *)
LEMMA ConcatIs ==
    ASSUME NEW S, NEW s \in Seq(S), NEW t \in Seq(S)
    PROVE  /\ s \o t \in Seq(S) /\ Len(s \o t) = Len(s) + Len(t)
           /\ \A k \in 1..Len(s) : (s \o t)[k] = s[k]
           /\ \A k \in 1..Len(t) : (s \o t)[Len(s) + k] = t[k]
  OBVIOUS

(* A set of naturals that is not empty has a least element.                *)
LEMMA LeastOf ==
    ASSUME NEW B, B \subseteq Nat, B # {}
    PROVE  \E n \in B : \A m \in B : ~(m < n)
  <1>1. PICK n \in B : \A y \in B : ~(<<y, n>> \in OpToRel(<, Nat))
    BY NatLessThanWellFounded, WFMin, Zenon
  <1>2. \A y \in B : ~(y < n)
    BY <1>1 DEF OpToRel
  <1> QED BY <1>1, <1>2

(* What is concatenated so far, sequence by sequence.                      *)
Concats(seqs, f) ==
    f = [k \in 0..Len(seqs) |-> IF k = 0 THEN <<>> ELSE f[k - 1] \o seqs[k]]

(* The recursion of Flatten is well founded.                               *)
LEMMA ConcatsExist ==
    ASSUME NEW seqs, Len(seqs) \in Nat
    PROVE  \E f : Concats(seqs, f)
  <1> DEFINE Upto(f, n) == f = [k \in 0..n |-> IF k = 0 THEN <<>> ELSE f[k - 1] \o seqs[k]]
             Bad == {n \in Nat : ~\E f : Upto(f, n)}
  <1>1. Bad = {}
    <2> SUFFICES ASSUME Bad # {} PROVE FALSE
      OBVIOUS
    <2>1. Bad \subseteq Nat
      OBVIOUS
    <2> HIDE DEF Bad
    <2>2. PICK n \in Bad : \A m \in Bad : ~(m < n)
      BY <2>1, LeastOf
    <2>3. n \in Nat /\ ~\E f : Upto(f, n)
      BY <2>2 DEF Bad
    <2>4. CASE n = 0
      <3>1. Upto([k \in 0..0 |-> <<>>], 0)
        OBVIOUS
      <3> QED BY <2>3, <2>4, <3>1
    <2>5. CASE n > 0
      <3>1. n - 1 \in Nat /\ n - 1 < n
        BY <2>3, <2>5
      <3>2. PICK g : Upto(g, n - 1)
        BY <2>2, <3>1 DEF Bad
      <3>3. PICK h : h = [k \in 0..n |-> IF k = n THEN g[n - 1] \o seqs[n] ELSE g[k]]
        OBVIOUS
      <3>4. \A k \in 0..n - 1 : g[k] = IF k = 0 THEN <<>> ELSE g[k - 1] \o seqs[k]
        BY <3>2
      <3>5. ASSUME NEW k \in 0..n PROVE h[k] = IF k = 0 THEN <<>> ELSE h[k - 1] \o seqs[k]
        <4>1. CASE k = 0
          <5>1. k \in 0..n - 1 /\ k # n
            BY <2>3, <2>5, <4>1
          <5> QED BY <3>3, <3>4, <4>1, <5>1
        <4>2. CASE k # 0 /\ k # n
          <5>1. k \in 0..n - 1 /\ k - 1 \in 0..n /\ k - 1 # n
            BY <2>3, <4>2
          <5>2. h[k] = g[k] /\ h[k - 1] = g[k - 1]
            BY <3>3, <4>2, <5>1
          <5> QED BY <3>4, <4>2, <5>1, <5>2
        <4>3. CASE k = n
          <5>1. n - 1 \in 0..n /\ n - 1 # n /\ k # 0 /\ n \in 0..n
            BY <2>3, <2>5, <4>3
          <5>2. h[n] = g[n - 1] \o seqs[n] /\ h[n - 1] = g[n - 1]
            BY <3>3, <5>1
          <5> QED BY <4>3, <5>1, <5>2
        <4> QED BY <4>1, <4>2, <4>3
      <3>6. h = [k \in 0..n |-> h[k]]
        BY <3>3
      <3>7. Upto(h, n)
        BY <3>5, <3>6
      <3> QED BY <2>3, <3>7
    <2>6. n = 0 \/ n > 0
      BY <2>3
    <2> QED BY <2>4, <2>5, <2>6
  <1>2. \E f : Upto(f, Len(seqs))
    BY <1>1
  <1> QED BY <1>2 DEF Concats

(* Flatten, as its recursion has it, on sequences of sequences.            *)
LEMMA FlattenIs ==
    ASSUME NEW S, NEW seqs \in Seq(Seq(S))
    PROVE  \E f \in [0..Len(seqs) -> Seq(S)] :
              /\ f[0] = <<>>
              /\ \A k \in 1..Len(seqs) : f[k] = f[k - 1] \o seqs[k]
              /\ Flatten(seqs) = f[Len(seqs)]
  <1>1. Len(seqs) \in Nat /\ \A k \in 1..Len(seqs) : seqs[k] \in Seq(S)
    OBVIOUS
  <1>2. PICK f : f = CHOOSE g : Concats(seqs, g)
    OBVIOUS
  <1>3. Concats(seqs, f)
    BY <1>1, <1>2, ConcatsExist
  <1>4. Flatten(seqs) = f[Len(seqs)]
    BY <1>2 DEF Flatten, Concats
  <1>5. f[0] = <<>> /\ \A k \in 1..Len(seqs) : f[k] = f[k - 1] \o seqs[k]
    <2>1. 0 \in 0..Len(seqs) /\ \A k \in 1..Len(seqs) : k \in 0..Len(seqs) /\ k # 0
      BY <1>1
    <2> QED BY <1>3, <2>1 DEF Concats
  <1>6. \A k \in 0..Len(seqs) : f[k] \in Seq(S)
    <2> DEFINE Bad == {k \in 0..Len(seqs) : f[k] \notin Seq(S)}
    <2> SUFFICES ASSUME Bad # {} PROVE FALSE
      OBVIOUS
    <2>1. Bad \subseteq Nat
      BY <1>1
    <2> HIDE DEF Bad
    <2>2. PICK n \in Bad : \A m \in Bad : ~(m < n)
      BY <2>1, LeastOf
    <2>3. n \in 0..Len(seqs) /\ f[n] \notin Seq(S)
      BY <2>2 DEF Bad
    <2>4. n # 0
      <3>1. <<>> \in Seq(S)
        OBVIOUS
      <3> QED BY <1>5, <2>3, <3>1
    <2>5. n \in 1..Len(seqs) /\ n - 1 \in 0..Len(seqs) /\ n - 1 < n
      BY <1>1, <2>3, <2>4
    <2>6. f[n - 1] \in Seq(S)
      BY <2>2, <2>5 DEF Bad
    <2>7. f[n] = f[n - 1] \o seqs[n] /\ seqs[n] \in Seq(S)
      BY <1>1, <1>5, <2>5
    <2> QED BY <2>3, <2>6, <2>7, ConcatIs
  <1>7. f = [k \in 0..Len(seqs) |-> f[k]]
    BY <1>3 DEF Concats
  <1>8. f \in [0..Len(seqs) -> Seq(S)]
    BY <1>6, <1>7
  <1> QED BY <1>4, <1>5, <1>8

(* The steps of a trace itself, and those of its prior traces.             *)
OwnSteps(t) == [k \in DOMAIN Steps[t] |-> <<t, k>>]

PriorsOf(g, t) == [k \in DOMAIN Prior[t] |-> g[Prior[t][k]]]

Assembled(g, t) == Flatten(PriorsOf(g, t)) \o OwnSteps(t)

(* The recursion of AllSteps is well founded, since traces nest.           *)
LEMMA AllStepsExist ==
    ASSUME NEW depth \in [Traces -> Nat], NestsBy(depth)
    PROVE  \A t \in Traces : AllSteps[t] = Assembled(AllSteps, t)
  <1> DEFINE Below(n) == {t \in Traces : depth[t] < n}
             Upto(g, n) == g = [t \in Below(n) |-> Assembled(g, t)]
  <1>1. ASSUME NEW n \in Nat, NEW t \in Traces, depth[t] < n + 1, NEW g, NEW h,
               \A u \in Below(n) : g[u] = h[u]
        PROVE  Assembled(g, t) = Assembled(h, t)
    <2>1. ASSUME NEW k \in DOMAIN Prior[t] PROVE Prior[t][k] \in Below(n)
      <3>1. Prior[t][k] \in Traces
        BY TraceAssumption
      <3>2. depth[Prior[t][k]] < depth[t]
        BY DEF NestsBy
      <3>3. depth[Prior[t][k]] \in Nat /\ depth[t] \in Nat
        BY <3>1
      <3>4. depth[Prior[t][k]] < n
        BY <1>1, <3>2, <3>3
      <3> QED BY <3>1, <3>4
    <2>2. \A k \in DOMAIN Prior[t] : g[Prior[t][k]] = h[Prior[t][k]]
      BY <1>1, <2>1
    <2>3. PriorsOf(g, t) = PriorsOf(h, t)
      BY <2>2 DEF PriorsOf
    <2> QED BY <2>3 DEF Assembled
  <1>2. \A n \in Nat : \E g : Upto(g, n)
    <2> DEFINE Bad == {n \in Nat : ~\E g : Upto(g, n)}
    <2> SUFFICES ASSUME Bad # {} PROVE FALSE
      OBVIOUS
    <2>1. Bad \subseteq Nat
      OBVIOUS
    <2> HIDE DEF Bad
    <2>2. PICK n \in Bad : \A m \in Bad : ~(m < n)
      BY <2>1, LeastOf
    <2>3. n \in Nat /\ ~\E g : Upto(g, n)
      BY <2>2 DEF Bad
    <2>4. CASE n = 0
      <3>1. Below(0) = {}
        OBVIOUS
      <3>2. Upto([t \in Below(0) |-> 0], 0)
        BY <3>1
      <3> QED BY <2>3, <2>4, <3>2
    <2>5. CASE n > 0
      <3>1. PICK m \in Nat : n = m + 1 /\ m < n
        <4>1. n - 1 \in Nat /\ n = (n - 1) + 1 /\ n - 1 < n
          BY <2>3, <2>5
        <4> QED BY <4>1
      <3>2. PICK g : Upto(g, m)
        BY <2>2, <3>1 DEF Bad
      <3>3. PICK h : h = [t \in Below(n) |-> Assembled(g, t)]
        OBVIOUS
      <3>4. ASSUME NEW t \in Below(m) PROVE g[t] = h[t]
        <4>1. t \in Below(n)
          BY <3>1
        <4> QED BY <3>2, <3>3, <4>1
      <3>5. ASSUME NEW t \in Below(n) PROVE Assembled(g, t) = Assembled(h, t)
        <4>1. t \in Traces /\ depth[t] < m + 1
          BY <3>1
        <4> HIDE DEF Below
        <4> QED BY <1>1, <3>4, <4>1
      <3>6. Upto(h, n)
        BY <3>3, <3>5
      <3> QED BY <2>3, <3>6
    <2>6. n = 0 \/ n > 0
      BY <2>3
    <2> QED BY <2>4, <2>5, <2>6
  <1>3. ASSUME NEW m \in Nat, NEW n \in Nat, NEW g, NEW h, Upto(g, m), Upto(h, n),
               NEW t \in Below(m), t \in Below(n)
        PROVE  g[t] = h[t]
    <2> DEFINE Bad == {j \in Nat : \E u \in Below(m) : u \in Below(n) /\ depth[u] = j /\ g[u] # h[u]}
    <2> SUFFICES ASSUME g[t] # h[t] PROVE FALSE
      OBVIOUS
    <2>1. Bad \subseteq Nat /\ Bad # {}
      <3>1. depth[t] \in Nat
        OBVIOUS
      <3> QED BY <1>3, <3>1
    <2> HIDE DEF Bad
    <2>2. PICK j \in Bad : \A i \in Bad : ~(i < j)
      BY <2>1, LeastOf
    <2>3. PICK u \in Below(m) : u \in Below(n) /\ depth[u] = j /\ g[u] # h[u] /\ j \in Nat
      BY <2>2 DEF Bad
    <2>4. ASSUME NEW v \in Below(j) PROVE g[v] = h[v]
      <3>1. v \in Traces /\ depth[v] < j /\ depth[v] \in Nat
        OBVIOUS
      <3>2. depth[v] \notin Bad
        BY <2>2, <3>1
      <3>3. depth[v] < m /\ depth[v] < n
        BY <2>3, <3>1
      <3>4. v \in Below(m) /\ v \in Below(n)
        BY <3>1, <3>3
      <3> QED BY <3>1, <3>2, <3>4 DEF Bad
    <2>5. u \in Traces /\ depth[u] < j + 1
      BY <2>3
    <2>6. Assembled(g, u) = Assembled(h, u)
      <3> HIDE DEF Below
      <3> QED BY <1>1, <2>3, <2>4, <2>5
    <2>7. g[u] = Assembled(g, u) /\ h[u] = Assembled(h, u)
      BY <1>3, <2>3
    <2> QED BY <2>3, <2>6, <2>7
  <1>4. \E g : g = [t \in Traces |-> Assembled(g, t)]
    <2> DEFINE Sol(n) == CHOOSE g : Upto(g, n)
    <2>1. \A n \in Nat : Upto(Sol(n), n)
      <3> HIDE DEF Upto
      <3> QED BY <1>2
    <2> HIDE DEF Sol
    <2>2. PICK G : G = [t \in Traces |-> Sol(depth[t] + 1)[t]]
      OBVIOUS
    <2>3. ASSUME NEW t \in Traces PROVE G[t] = Assembled(G, t)
      <3>1. depth[t] \in Nat /\ depth[t] + 1 \in Nat
        OBVIOUS
      <3>2. t \in Below(depth[t] + 1)
        BY <3>1
      <3>3. PICK g : g = Sol(depth[t] + 1)
        OBVIOUS
      <3>4. Upto(g, depth[t] + 1)
        <4> HIDE DEF Upto
        <4> QED BY <2>1, <3>1, <3>3
      <3>5. G[t] = Assembled(g, t)
        BY <2>2, <3>2, <3>3, <3>4
      <3>6. ASSUME NEW v \in Below(depth[t]) PROVE G[v] = g[v]
        <4>1. v \in Traces /\ depth[v] \in Nat /\ depth[v] + 1 \in Nat /\ depth[v] < depth[t] + 1
          BY <3>1
        <4>2. v \in Below(depth[v] + 1) /\ v \in Below(depth[t] + 1)
          BY <4>1
        <4>3. Upto(Sol(depth[v] + 1), depth[v] + 1)
          <5> HIDE DEF Upto
          <5> QED BY <2>1, <4>1
        <4>4. G[v] = Sol(depth[v] + 1)[v]
          BY <2>2, <4>1
        <4> HIDE DEF Upto, Below
        <4> QED BY <1>3, <3>1, <3>4, <4>1, <4>2, <4>3, <4>4
      <3>7. Assembled(G, t) = Assembled(g, t)
        <4>1. depth[t] < depth[t] + 1
          BY <3>1
        <4> HIDE DEF Below
        <4> QED BY <1>1, <3>1, <3>6, <4>1
      <3> QED BY <3>5, <3>7
    <2>4. G = [t \in Traces |-> G[t]]
      BY <2>2
    <2>5. G = [t \in Traces |-> Assembled(G, t)]
      BY <2>3, <2>4
    <2> QED BY <2>5
  <1>5. AllSteps = CHOOSE g : g = [t \in Traces |-> Assembled(g, t)]
    BY DEF AllSteps, Assembled, PriorsOf, OwnSteps
  <1>6. AllSteps = [t \in Traces |-> Assembled(AllSteps, t)]
    BY <1>4, <1>5
  <1> QED BY <1>6

(* The steps of the prior traces of t, by how many of them.                *)
IsPriorSteps(t, ps) ==
    /\ ps \in [0..Len(Prior[t]) -> Seq(Traces \X Nat)]
    /\ ps[0] = <<>>
    /\ \A k \in 1..Len(Prior[t]) : ps[k] = ps[k - 1] \o AllSteps[Prior[t][k]]
    /\ AllSteps[t] = ps[Len(Prior[t])] \o OwnSteps(t)

PriorSteps(t) == CHOOSE ps : IsPriorSteps(t, ps)

StepsDefined ==
    \A t \in Traces : /\ AllSteps[t] \in Seq(Traces \X Nat) /\ IsPriorSteps(t, PriorSteps(t))
                      /\ OwnSteps(t) \in Seq(Traces \X Nat) /\ Len(OwnSteps(t)) = Len(Steps[t])

(* AllSteps is what it is meant to be: the steps of the prior traces, one  *)
(* after the other, and then those of the trace.                           *)
LEMMA AllStepsIs ==
    ASSUME NEW depth \in [Traces -> Nat], NestsBy(depth)
    PROVE  StepsDefined
  <1> DEFINE S == Traces \X Nat
  <1>1. ASSUME NEW t \in Traces
        PROVE  OwnSteps(t) \in Seq(S) /\ Len(OwnSteps(t)) = Len(Steps[t])
    <2>1. Steps[t] \in Seq(StepSet)
      BY TraceAssumption
    <2>2. PICK n \in Nat : n = Len(Steps[t]) /\ DOMAIN Steps[t] = 1..n
      BY <2>1
    <2>3. OwnSteps(t) = [k \in 1..n |-> <<t, k>>]
      BY <2>2 DEF OwnSteps
    <2>4. [k \in 1..n |-> <<t, k>>] \in Seq(S) /\ Len([k \in 1..n |-> <<t, k>>]) = n
      OBVIOUS
    <2> QED BY <2>2, <2>3, <2>4
  <1>2. ASSUME NEW t \in Traces,
               \A k \in DOMAIN Prior[t] : AllSteps[Prior[t][k]] \in Seq(S)
        PROVE  AllSteps[t] \in Seq(S) /\ \E ps : IsPriorSteps(t, ps)
    <2>1. Prior[t] \in Seq(Traces)
      BY TraceAssumption
    <2>2. PICK n \in Nat : n = Len(Prior[t]) /\ DOMAIN Prior[t] = 1..n
      BY <2>1
    <2>3. PICK seqs : seqs = PriorsOf(AllSteps, t)
      OBVIOUS
    <2>4. seqs = [k \in 1..n |-> AllSteps[Prior[t][k]]]
      BY <2>2, <2>3 DEF PriorsOf
    <2>5. seqs \in Seq(Seq(S)) /\ Len(seqs) = n
      <3>1. PICK T : T = Seq(S)
        OBVIOUS
      <3>2. \A k \in 1..n : AllSteps[Prior[t][k]] \in T
        BY <1>2, <2>2, <3>1
      <3> HIDE DEF S
      <3>3. seqs \in Seq(T) /\ Len(seqs) = n
        BY <2>4, <3>2
      <3> QED BY <3>1, <3>3
    <2>6. PICK f \in [0..n -> Seq(S)] :
            /\ f[0] = <<>>
            /\ \A k \in 1..n : f[k] = f[k - 1] \o seqs[k]
            /\ Flatten(seqs) = f[n]
      <3> HIDE DEF S
      <3> QED BY <2>5, FlattenIs
    <2>7. AllSteps[t] = f[n] \o OwnSteps(t)
      BY <2>3, <2>6, AllStepsExist DEF Assembled
    <2>8. f[n] \in Seq(S)
      BY <2>6
    <2>9. AllSteps[t] \in Seq(S)
      BY <1>1, <2>7, <2>8, ConcatIs
    <2>10. \A k \in 1..n : f[k] = f[k - 1] \o AllSteps[Prior[t][k]]
      BY <2>4, <2>6
    <2>11. IsPriorSteps(t, f)
      BY <2>2, <2>6, <2>7, <2>10 DEF IsPriorSteps
    <2> QED BY <2>9, <2>11
  <1>3. \A t \in Traces : AllSteps[t] \in Seq(S)
    <2> DEFINE Bad == {j \in Nat : \E t \in Traces : depth[t] = j /\ AllSteps[t] \notin Seq(S)}
    <2> SUFFICES ASSUME Bad # {} PROVE FALSE
      OBVIOUS
    <2>1. Bad \subseteq Nat
      OBVIOUS
    <2> HIDE DEF Bad
    <2>2. PICK j \in Bad : \A i \in Bad : ~(i < j)
      BY <2>1, LeastOf
    <2>3. PICK t \in Traces : depth[t] = j /\ AllSteps[t] \notin Seq(S)
      BY <2>2 DEF Bad
    <2>4. ASSUME NEW k \in DOMAIN Prior[t] PROVE AllSteps[Prior[t][k]] \in Seq(S)
      <3>1. Prior[t][k] \in Traces
        BY TraceAssumption
      <3>2. depth[Prior[t][k]] < j /\ depth[Prior[t][k]] \in Nat
        BY <2>3, <3>1 DEF NestsBy
      <3> QED BY <2>2, <3>1, <3>2 DEF Bad
    <2> QED BY <1>2, <2>3, <2>4
  <1>4. ASSUME NEW t \in Traces PROVE IsPriorSteps(t, PriorSteps(t))
    <2>1. \A k \in DOMAIN Prior[t] : AllSteps[Prior[t][k]] \in Seq(S)
      BY <1>3, TraceAssumption, SMTT(30)
    <2>2. \E ps : IsPriorSteps(t, ps)
      BY <1>2, <2>1
    <2> QED BY <2>2 DEF PriorSteps
  <1> QED BY <1>1, <1>3, <1>4 DEF StepsDefined

(* s has the steps of u from position o on.                                *)
Within(s, u, o) ==
    /\ o + Len(u) <= Len(s)
    /\ \A k \in 1..Len(u) : s[o + k] = u[k]

(* Where the steps of a prior trace, and a trace's own, are among all of   *)
(* its steps.                                                              *)
LEMMA PriorWithin ==
    ASSUME StepsDefined, NEW t \in Traces
    PROVE  /\ \A k \in 0..Len(Prior[t]) : Len(PriorSteps(t)[k]) \in Nat
           /\ Len(PriorSteps(t)[0]) = 0
           /\ \A k \in 1..Len(Prior[t]) :
                /\ Len(PriorSteps(t)[k]) =
                       Len(PriorSteps(t)[k - 1]) + Len(AllSteps[Prior[t][k]])
                /\ Within(AllSteps[t], AllSteps[Prior[t][k]], Len(PriorSteps(t)[k - 1]))
           /\ Len(AllSteps[t]) = Len(PriorSteps(t)[Len(Prior[t])]) + Len(Steps[t])
           /\ \A k \in 1..Len(Steps[t]) :
                AllSteps[t][Len(PriorSteps(t)[Len(Prior[t])]) + k] = <<t, k>>
  <1> DEFINE S == Traces \X Nat
             ps == PriorSteps(t)
             A(k) == AllSteps[Prior[t][k]]
  <1>1. PICK N \in Nat : N = Len(Prior[t]) /\ DOMAIN Prior[t] = 1..N
    BY TraceAssumption
  <1>2. \A k \in 1..N : A(k) \in Seq(S)
    BY <1>1, TraceAssumption DEF StepsDefined
  <1>3. /\ ps \in [0..N -> Seq(S)] /\ ps[0] = <<>>
        /\ \A k \in 1..N : ps[k] = ps[k - 1] \o A(k)
        /\ AllSteps[t] = ps[N] \o OwnSteps(t)
    BY <1>1 DEF StepsDefined, IsPriorSteps
  <1>4. OwnSteps(t) \in Seq(S) /\ Len(OwnSteps(t)) = Len(Steps[t])
    BY DEF StepsDefined
  <1> HIDE DEF ps, A, S
  <1>5. \A k \in 0..N : ps[k] \in Seq(S) /\ Len(ps[k]) \in Nat
    BY <1>3
  <1>6. Len(ps[0]) = 0
    BY <1>3
  <1>7. ASSUME NEW k \in 1..N
        PROVE  /\ Len(ps[k]) = Len(ps[k - 1]) + Len(A(k))
               /\ \A i \in 1..Len(ps[k - 1]) : ps[k][i] = ps[k - 1][i]
               /\ \A i \in 1..Len(A(k)) : ps[k][Len(ps[k - 1]) + i] = A(k)[i]
    <2>1. k - 1 \in 0..N
      BY <1>1
    <2>2. ps[k - 1] \in Seq(S) /\ A(k) \in Seq(S) /\ ps[k] = ps[k - 1] \o A(k)
      BY <1>2, <1>3, <1>5, <2>1
    <2> QED BY <2>2, ConcatIs
  <1>8. ASSUME NEW k \in 0..N
        PROVE  \A m \in k..N : /\ Len(ps[k]) <= Len(ps[m])
                               /\ \A i \in 1..Len(ps[k]) : ps[m][i] = ps[k][i]
    <2> DEFINE P(m) == Len(ps[k]) <= Len(ps[m]) /\ \A i \in 1..Len(ps[k]) : ps[m][i] = ps[k][i]
               Bad == {m \in k..N : ~P(m)}
    <2> SUFFICES ASSUME Bad # {} PROVE FALSE
      OBVIOUS
    <2>1. Bad \subseteq Nat
      BY <1>1
    <2> HIDE DEF Bad
    <2>2. PICK m \in Bad : \A j \in Bad : ~(j < m)
      BY <2>1, LeastOf
    <2>3. m \in k..N /\ ~P(m) /\ k \in Nat
      BY <1>1, <2>2 DEF Bad
    <2>4. m # k
      BY <1>5, <2>3
    <2>5. m \in 1..N /\ m - 1 \in k..N /\ m - 1 \in 0..N /\ m - 1 < m
      BY <1>1, <2>3, <2>4
    <2>6. P(m - 1)
      BY <2>2, <2>5 DEF Bad
    <2>7. Len(ps[k]) \in Nat /\ Len(ps[m - 1]) \in Nat /\ Len(A(m)) \in Nat
      BY <1>2, <1>5, <2>5
    <2>8. Len(ps[k]) <= Len(ps[m])
      BY <1>7, <2>5, <2>6, <2>7
    <2>9. ASSUME NEW i \in 1..Len(ps[k]) PROVE ps[m][i] = ps[k][i]
      <3>1. i \in 1..Len(ps[m - 1])
        BY <2>6, <2>7
      <3> QED BY <1>7, <2>5, <2>6, <3>1
    <2> QED BY <2>3, <2>8, <2>9
  <1>9. /\ Len(AllSteps[t]) = Len(ps[N]) + Len(Steps[t])
        /\ \A i \in 1..Len(ps[N]) : AllSteps[t][i] = ps[N][i]
        /\ \A i \in 1..Len(Steps[t]) : AllSteps[t][Len(ps[N]) + i] = OwnSteps(t)[i]
    <2>1. N \in 0..N
      BY <1>1
    <2> QED BY <1>3, <1>4, <1>5, <2>1, ConcatIs
  <1>10. \A i \in 1..Len(Steps[t]) : OwnSteps(t)[i] = <<t, i>>
    <2>1. DOMAIN Steps[t] = 1..Len(Steps[t])
      BY TraceAssumption
    <2> QED BY <2>1 DEF OwnSteps
  <1>11. ASSUME NEW k \in 1..N PROVE Within(AllSteps[t], A(k), Len(ps[k - 1]))
    <2>1. k \in 0..N /\ k - 1 \in 0..N /\ N \in k..N /\ N \in 0..N
      BY <1>1
    <2>2. PICK a, b, c, d \in Nat :
             a = Len(ps[k - 1]) /\ b = Len(A(k)) /\ c = Len(ps[N]) /\ d = Len(Steps[t])
      <3>1. Len(ps[k - 1]) \in Nat /\ Len(ps[N]) \in Nat
        BY <1>5, <2>1
      <3>2. Len(A(k)) \in Nat
        BY <1>2
      <3>3. Len(Steps[t]) \in Nat
        BY TraceAssumption
      <3> QED BY <3>1, <3>2, <3>3
    <2>3. Len(ps[k]) = a + b /\ a + b <= c
      BY <1>7, <1>8, <2>1, <2>2
    <2>4. Len(AllSteps[t]) = c + d
      BY <1>9, <2>2
    <2>5. a + b <= c => a + b <= c + d
      OBVIOUS
    <2>6. ASSUME NEW i \in 1..b PROVE AllSteps[t][a + i] = A(k)[i]
      <3>1. a + i \in 1..a + b /\ a + i \in 1..c
        BY <2>2, <2>3
      <3>2. ps[k][a + i] = A(k)[i]
        BY <1>7, <2>2
      <3>3. ps[N][a + i] = ps[k][a + i]
        BY <1>8, <2>1, <2>3, <3>1
      <3>4. AllSteps[t][a + i] = ps[N][a + i]
        BY <1>9, <2>2, <3>1
      <3> QED BY <3>2, <3>3, <3>4
    <2> QED BY <2>2, <2>3, <2>4, <2>5, <2>6 DEF Within
  <1> QED BY <1>1, <1>5, <1>6, <1>7, <1>9, <1>10, <1>11 DEF ps, A

-----------------------------------------------------------------------------
(* The order of the steps                                                  *)

(* How many of all the steps of its trace a call has behind it.            *)
Progress(f) ==
    LET done == PriorSteps(f.trace)
    IN  CASE f.pc \in {"prior", "spawnPrior"} -> Len(done[f.i - 1])
          [] f.pc = "reset" -> Len(done[f.i])
          [] f.pc = "spawn" -> Len(done[Len(Prior[f.trace])])
          [] f.pc \in {"step", "input", "progress", "output", "drain"} ->
                 Len(done[Len(Prior[f.trace])]) + (f.i - 1)

(* The index of a call points at most one behind its last prior trace or   *)
(* step.                                                                   *)
Indexed(f) ==
    /\ f.pc = "prior" => f.i <= Len(Prior[f.trace]) + 1
    /\ f.pc = "reset" => f.i <= Len(Prior[f.trace])
    /\ f.pc = "step" => f.i <= Len(Steps[f.trace]) + 1

(* The steps of every active call have their place, from start on, among   *)
(* all the steps of the root; a call goes on behind the trace it waits for.*)
Placed(r, start) ==
    /\ start \in [1..Len(stack) -> Nat]
    /\ stack[1].trace = r
    /\ \A l \in 1..Len(stack) :
          Indexed(stack[l]) /\ Within(AllSteps[r], AllSteps[stack[l].trace], start[l])
    /\ \A l \in 1..Len(stack) - 1 :
          start[l + 1] + Len(AllSteps[stack[l + 1].trace]) = start[l] + Progress(stack[l])
    /\ Len(executed) = start[Len(stack)] + Progress(Top)

Prefix(r) ==
    /\ Len(executed) <= Len(AllSteps[r])
    /\ \A k \in DOMAIN executed : executed[k] = AllSteps[r][k]

(* StepsInOrder made inductive.                                            *)
OrderInv ==
    /\ CallersWait
    /\ \E r \in Roots :
          /\ Prefix(r)
          /\ stack # <<>> => \E start : Placed(r, start)
          /\ outcome = "Ok" => executed = AllSteps[r]

(* A step inside the innermost call.                                       *)
LEMMA OrderGoto ==
    ASSUME TypeInv, CallersWait, stack # <<>>,
           NEW r \in Roots, Prefix(r)', NEW start, Placed(r, start),
           NEW pc, NEW i, NEW d, Target(pc, i, d), Goto(pc, i, d),
           Indexed(Top'), Len(executed') = start[Len(stack)] + Progress(Top')
    PROVE  OrderInv'
  <1>1. PICK n \in Nat \ {0} : n = Len(stack)
    BY TopType
  <1>2. /\ Len(stack') = n /\ stack' # <<>> /\ Top'.trace = Top.trace
        /\ \A l \in 1..n - 1 : stack'[l] = stack[l]
        /\ outcome' = "Running"
    BY <1>1, GotoType
  <1>3. CallersWait'
    BY GotoCallers
  <1>4. Top' = stack'[n] /\ Top = stack[n]
    BY <1>1, <1>2 DEF Top
  <1>5. \A l \in 1..n : (l = n \/ l \in 1..n - 1) /\ (l # n => l \in 1..n - 1)
    BY <1>1
  <1>6. \A l \in 1..n : stack'[l].trace = stack[l].trace /\ Indexed(stack'[l])
    BY <1>1, <1>2, <1>4, <1>5 DEF Placed
  <1>7. 1 \in 1..n /\ \A l \in 1..n - 1 : l + 1 \in 1..n /\ l \in 1..n
    BY <1>1
  <1>8. \A l \in 1..n - 1 :
           start[l + 1] + Len(AllSteps[stack'[l + 1].trace]) = start[l] + Progress(stack'[l])
    BY <1>1, <1>2, <1>6, <1>7 DEF Placed
  <1>9. start \in [1..n -> Nat] /\ stack'[1].trace = r
        /\ \A l \in 1..n : Within(AllSteps[r], AllSteps[stack'[l].trace], start[l])
    BY <1>1, <1>6, <1>7 DEF Placed
  <1>10. Placed(r, start)'
    BY <1>1, <1>2, <1>6, <1>8, <1>9 DEF Placed
  <1> QED BY <1>2, <1>3, <1>10 DEF OrderInv

(* A step that executes nothing.                                           *)
LEMMA OrderStays ==
    ASSUME TypeInv, CallersWait, stack # <<>>,
           NEW r \in Roots, Prefix(r), NEW start, Placed(r, start),
           NEW pc, NEW i, NEW d, Target(pc, i, d), Goto(pc, i, d),
           executed' = executed, Indexed(Top'), Progress(Top') = Progress(Top)
    PROVE  OrderInv'
  <1>1. Prefix(r)'
    BY DEF Prefix
  <1>2. Len(executed') = start[Len(stack)] + Progress(Top')
    BY DEF Placed
  <1> HIDE DEF Prefix
  <1> QED BY <1>1, <1>2, OrderGoto

(* An error.                                                               *)
LEMMA OrderFails ==
    ASSUME OrderInv, NEW e, Fail(e), e \in {"Put", "Agent", "Term", "Fn", "SecurityClaim"},
           executed' = executed
    PROVE  OrderInv'
  <1>1. stack' = <<>> /\ outcome' # "Ok"
    BY FailType
  <1>2. CallersWait'
    <2>1. ~\E l \in 1..Len(<<>>) - 1 : TRUE
      OBVIOUS
    <2> QED BY <1>1, <2>1 DEF CallersWait
  <1> QED BY <1>1, <1>2 DEF OrderInv, Prefix

(* A call of execute on a prior trace.                                     *)
LEMMA OrderCalls ==
    ASSUME StepsDefined, TypeInv, OrderInv, SpawnEnd, At("spawnPrior"), [Next]_vars
    PROVE  OrderInv'
  <1>1. PICK n \in Nat \ {0} : n = Len(stack)
    BY TopType DEF At
  <1>2. stack # <<>> /\ stack \in Seq(GoodFrame) /\ Top = stack[n] /\ outcome = "Running"
    BY <1>1, TopType DEF At, TypeInv, StackOK, Top
  <1>3. PICK r \in Roots : Prefix(r) /\ \E start : Placed(r, start)
    BY <1>2 DEF OrderInv
  <1>4. PICK start : Placed(r, start)
    BY <1>3
  <1>5. PICK t, i, u : t = Top.trace /\ i = Top.i /\ u = Prior[t][i]
    OBVIOUS
  <1>6. t \in Traces /\ Prior[t] \in Seq(Traces) /\ i \in 1..Len(Prior[t]) /\ u \in Traces
    BY <1>2, <1>5, TopType DEF GoodFrame, At
  <1>7. PICK f, c : f = [Top EXCEPT !.pc = "reset", !.d = 1] /\ c = Call(u)
    OBVIOUS
  <1>8. f.pc = "reset" /\ f.trace = t /\ f.i = i
        /\ c.pc = "prior" /\ c.trace = u /\ c.i = 1
    BY <1>2, <1>5, <1>7, TopType DEF Call, GoodFrame, Frame
  <1>9. stack' = Append([stack EXCEPT ![n] = f], c)
    BY <1>1, <1>2, <1>5, <1>7 DEF SpawnEnd, At, SpawnedTrace, Top
  <1>10. /\ Len(stack') = n + 1 /\ stack'[n + 1] = c /\ stack'[n] = f
         /\ \A l \in 1..n - 1 : stack'[l] = stack[l]
    <2>1. PICK s : s = [stack EXCEPT ![n] = f]
      OBVIOUS
    <2>2. s \in Seq(GoodFrame \cup {f, c}) /\ Len(s) = n /\ s[n] = f
          /\ \A l \in 1..n - 1 : s[l] = stack[l]
      BY <1>1, <1>2, <2>1
    <2>3. stack' = Append(s, c) /\ c \in GoodFrame \cup {f, c}
      BY <1>9, <2>1
    <2>4. Len(stack') = n + 1 /\ stack'[n + 1] = c /\ \A l \in 1..n : stack'[l] = s[l]
      BY <2>2, <2>3
    <2>5. n \in 1..n /\ \A l \in 1..n - 1 : l \in 1..n
      BY <1>1
    <2> QED BY <2>2, <2>4, <2>5
  <1>11. stack' # <<>> /\ Top' = c /\ executed' = executed /\ outcome' = "Running"
    BY <1>1, <1>2, <1>10 DEF Top, SpawnEnd, At, Goto
  <1>12. PICK p : p = Len(PriorSteps(t)[i - 1])
    OBVIOUS
  <1>13. /\ p \in Nat /\ Len(PriorSteps(t)[i]) = p + Len(AllSteps[u])
         /\ Within(AllSteps[t], AllSteps[u], p) /\ Len(PriorSteps(u)[0]) = 0
    <2>1. i - 1 \in 0..Len(Prior[t])
      BY <1>6
    <2> QED BY <1>5, <1>6, <1>12, <2>1, PriorWithin
  <1>14. Progress(Top) = p /\ Progress(f) = p + Len(AllSteps[u]) /\ Progress(c) = 0
    BY <1>2, <1>5, <1>8, <1>12, <1>13, SMTT(30) DEF Progress, At
  <1>15. PICK o \in Nat : o = start[n]
    BY <1>1, <1>4 DEF Placed
  <1>16. PICK start2 : start2 = [l \in 1..n + 1 |-> IF l = n + 1 THEN o + p ELSE start[l]]
    OBVIOUS
  <1>17. /\ start2 \in [1..n + 1 -> Nat] /\ start2[n + 1] = o + p /\ start2[n] = o
         /\ \A l \in 1..n : start2[l] = start[l]
    <2>1. \A l \in 1..n + 1 : l # n + 1 => l \in 1..n
      BY <1>1
    <2>2. \A l \in 1..n : l \in 1..n + 1 /\ l # n + 1
      BY <1>1
    <2>3. n \in 1..n /\ n + 1 \in 1..n + 1 /\ o + p \in Nat
      BY <1>1, <1>13, <1>15
    <2>4. \A l \in 1..n : start[l] \in Nat
      BY <1>1, <1>4 DEF Placed
    <2> QED BY <1>15, <1>16, <2>1, <2>2, <2>3, <2>4
  <1>18. Within(AllSteps[r], AllSteps[u], o + p)
    <2>1. Within(AllSteps[r], AllSteps[t], o)
      BY <1>1, <1>2, <1>4, <1>5, <1>15 DEF Placed
    <2>2. PICK a, b, e \in Nat : a = Len(AllSteps[r]) /\ b = Len(AllSteps[t]) /\ e = Len(AllSteps[u])
      <3>1. AllSteps[r] \in Seq(Traces \X Nat)
        BY TraceAssumption DEF StepsDefined
      <3>2. AllSteps[t] \in Seq(Traces \X Nat) /\ AllSteps[u] \in Seq(Traces \X Nat)
        BY <1>6 DEF StepsDefined
      <3>3. \A s \in Seq(Traces \X Nat) : Len(s) \in Nat
        OBVIOUS
      <3> QED BY <3>1, <3>2, <3>3
    <2>3. /\ o + b <= a /\ \A k \in 1..b : AllSteps[r][o + k] = AllSteps[t][k]
          /\ p + e <= b /\ \A k \in 1..e : AllSteps[t][p + k] = AllSteps[u][k]
      BY <1>13, <2>1, <2>2 DEF Within
    <2>4. (o + p) + e <= a
      BY <1>13, <2>3
    <2>5. ASSUME NEW k \in 1..e PROVE AllSteps[r][(o + p) + k] = AllSteps[u][k]
      <3>1. p + k \in 1..b /\ (o + p) + k = o + (p + k)
        BY <1>13, <2>3
      <3> QED BY <2>3, <3>1
    <2> QED BY <2>2, <2>4, <2>5 DEF Within
  <1>19. Indexed(f) /\ Indexed(c)
    <2>1. 1 <= Len(Prior[u]) + 1
      BY <1>6, TraceAssumption
    <2> QED BY <1>6, <1>8, <2>1 DEF Indexed
  <1>20. /\ \A l \in 1..n - 1 : Indexed(stack[l]) /\ stack[l].trace \in Traces
                /\ Within(AllSteps[r], AllSteps[stack[l].trace], start[l])
         /\ Within(AllSteps[r], AllSteps[t], o)
         /\ stack[1].trace = r
    <2>1. n \in 1..n /\ \A l \in 1..n - 1 : l \in 1..n
      BY <1>1
    <2>2. \A l \in 1..n : stack[l].trace \in Traces
      BY <1>1, <1>2 DEF GoodFrame, Frame
    <2> QED BY <1>1, <1>2, <1>4, <1>5, <1>15, <2>1, <2>2 DEF Placed
  <1>21. \A l \in 1..n + 1 : l \in 1..n - 1 \/ l = n \/ l = n + 1
    BY <1>1
  <1>22. \A l \in 1..n + 1 :
            Indexed(stack'[l]) /\ Within(AllSteps[r], AllSteps[stack'[l].trace], start2[l])
    <2>1. \A l \in 1..n - 1 : l \in 1..n
      BY <1>1
    <2> QED BY <1>8, <1>10, <1>17, <1>18, <1>19, <1>20, <1>21, <2>1
  <1>23. ASSUME NEW l \in 1..n
         PROVE  start2[l + 1] + Len(AllSteps[stack'[l + 1].trace]) = start2[l] + Progress(stack'[l])
    <2>1. CASE l = n
      <3>1. Len(AllSteps[u]) \in Nat
        BY <1>6 DEF StepsDefined
      <3>2. (o + p) + Len(AllSteps[u]) = o + (p + Len(AllSteps[u]))
        <4>1. \A e \in Nat : (o + p) + e = o + (p + e)
          BY <1>13
        <4> QED BY <3>1, <4>1
      <3> QED BY <1>8, <1>10, <1>14, <1>17, <2>1, <3>2
    <2>2. CASE l # n
      <3>1. l \in 1..n - 1 /\ l + 1 \in 1..n /\ (l + 1 = n \/ l + 1 \in 1..n - 1)
        BY <1>1, <2>2
      <3>2. stack'[l + 1].trace = stack[l + 1].trace
        BY <1>2, <1>5, <1>8, <1>10, <3>1
      <3>3. start[l + 1] + Len(AllSteps[stack[l + 1].trace]) = start[l] + Progress(stack[l])
        BY <1>1, <1>4, <3>1 DEF Placed
      <3> QED BY <1>10, <1>17, <3>1, <3>2, <3>3
    <2> QED BY <2>1, <2>2
  <1>24. Len(executed') = start2[n + 1] + Progress(Top')
    <2>1. Len(executed) = o + p
      BY <1>1, <1>4, <1>14, <1>15 DEF Placed
    <2>2. o + p = (o + p) + 0
      BY <1>13
    <2> QED BY <1>11, <1>14, <1>17, <2>1, <2>2
  <1>25. stack'[1].trace = r
    <2>1. CASE n = 1
      BY <1>2, <1>5, <1>8, <1>10, <1>20, <2>1
    <2>2. CASE n # 1
      <3>1. 1 \in 1..n - 1
        BY <1>1, <2>2
      <3> QED BY <1>10, <1>20, <3>1
    <2> QED BY <2>1, <2>2
  <1>26. Placed(r, start2)'
    <2>1. (n + 1) - 1 = n
      BY <1>1
    <2> QED BY <1>10, <1>17, <1>22, <1>23, <1>24, <1>25, <2>1 DEF Placed
  <1>27. CallersWait' /\ Prefix(r)'
    BY <1>3, <1>11, ControlMovesSo DEF OrderInv, Prefix
  <1> QED BY <1>11, <1>26, <1>27 DEF OrderInv

(* The end of a trace without a violation.                                 *)
LEMMA OrderReturns ==
    ASSUME StepsDefined, TypeInv, OrderInv, At("step"), Top.i > Len(Steps[Top.trace]),
           stack' = SubSeq(stack, 1, Len(stack) - 1),
           outcome' = IF Len(stack) = 1 THEN "Ok" ELSE outcome,
           executed' = executed, [Next]_vars
    PROVE  OrderInv'
  <1>1. PICK n \in Nat \ {0} : n = Len(stack)
    BY TopType DEF At
  <1>2. stack # <<>> /\ stack \in Seq(GoodFrame) /\ Top = stack[n] /\ outcome = "Running"
    BY <1>1, TopType DEF At, TypeInv, StackOK, Top
  <1>3. PICK r \in Roots : Prefix(r) /\ \E start : Placed(r, start)
    BY <1>2 DEF OrderInv
  <1>4. PICK start : Placed(r, start)
    BY <1>3
  <1>5. PICK t, i : t = Top.trace /\ i = Top.i
    OBVIOUS
  <1>6. t \in Traces /\ Steps[t] \in Seq(StepSet) /\ i \in Nat \ {0} /\ Top.pc = "step"
    BY <1>2, <1>5, TopType DEF At
  <1>7. PICK m \in Nat : m = Len(Steps[t])
    BY <1>6
  <1>8. i = m + 1
    <2>1. Indexed(Top)
      BY <1>1, <1>2, <1>4 DEF Placed
    <2> QED BY <1>5, <1>6, <1>7, <2>1 DEF Indexed
  <1>9. Progress(Top) = Len(AllSteps[t])
    <2>1. PICK p : p = Len(PriorSteps(t)[Len(Prior[t])])
      OBVIOUS
    <2>2. p \in Nat /\ Len(AllSteps[t]) = p + m
      <3>1. Len(Prior[t]) \in 0..Len(Prior[t])
        BY <1>6, TraceAssumption
      <3> QED BY <1>6, <1>7, <2>1, <3>1, PriorWithin
    <2>3. i - 1 = m
      BY <1>8
    <2> QED BY <1>5, <1>6, <2>1, <2>2, <2>3 DEF Progress
  <1>10. PICK o \in Nat : o = start[n]
    BY <1>1, <1>4 DEF Placed
  <1>11. Len(executed) = o + Len(AllSteps[t])
    BY <1>1, <1>4, <1>9, <1>10 DEF Placed
  <1>12. CallersWait' /\ Prefix(r)'
    BY <1>3, ControlMovesSo DEF OrderInv, Prefix
  <1>13. CASE n = 1
    <2>1. stack' = <<>>
      BY <1>1, <1>2, <1>13
    <2>2. t = r
      BY <1>2, <1>4, <1>5, <1>13 DEF Placed
    <2>3. AllSteps[r] \in Seq(Traces \X Nat) /\ executed \in Seq(Traces \X Nat)
      BY TraceAssumption DEF StepsDefined, TypeInv, DataOK
    <2>4. Len(executed) = Len(AllSteps[r])
      <3>1. PICK a, b \in Nat : a = Len(executed) /\ b = Len(AllSteps[r])
        BY <2>3
      <3>2. a = o + b /\ a <= b
        BY <1>3, <1>11, <2>2, <3>1 DEF Prefix
      <3>3. a = b
        BY <3>2
      <3> QED BY <3>1, <3>3
    <2>5. executed = AllSteps[r]
      <3>1. DOMAIN executed = 1..Len(executed) /\ DOMAIN AllSteps[r] = 1..Len(AllSteps[r])
        BY <2>3
      <3>2. \A k \in 1..Len(executed) : executed[k] = AllSteps[r][k]
        BY <1>3, <3>1 DEF Prefix
      <3> QED BY <2>3, <2>4, <3>2, SeqEqual
    <2> QED BY <1>12, <2>1, <2>5 DEF OrderInv
  <1>14. CASE n > 1
    <2>1. n - 1 \in 0..Len(stack) /\ n - 1 \in Nat \ {0}
      BY <1>1, <1>14
    <2>2. PICK k \in Nat \ {0} : k = n - 1 /\ k \in 0..Len(stack) /\ n = k + 1
      BY <1>1, <2>1
    <2>3. /\ Len(SubSeq(stack, 1, k)) = k
          /\ \A l \in 1..k : SubSeq(stack, 1, k)[l] = stack[l]
      BY <1>2, <2>2
    <2>4. stack' = SubSeq(stack, 1, k)
      BY <1>1, <2>2
    <2>5. Len(stack') = k /\ \A l \in 1..k : stack'[l] = stack[l]
      BY <2>3, <2>4
    <2>6. k \in 1..k /\ 1 \in 1..k /\ \A l \in 1..k : l \in 1..n
      BY <2>2
    <2>7. \A l \in 1..k - 1 : l \in 1..k /\ l + 1 \in 1..k
      BY <2>2
    <2>8. Top' = stack[k] /\ stack' # <<>>
      <3>1. Top' = stack'[k]
        BY <2>5 DEF Top
      <3>2. stack' # <<>>
        BY <2>2, <2>5
      <3> QED BY <2>5, <2>6, <3>1, <3>2
    <2>9. outcome' = "Running"
      BY <1>1, <1>2, <1>14
    <2>10. PICK start2 : start2 = [l \in 1..k |-> start[l]]
      OBVIOUS
    <2>11. start2 \in [1..k -> Nat] /\ \A l \in 1..k : start2[l] = start[l]
      <3>1. \A l \in 1..k : start[l] \in Nat
        BY <1>1, <1>4, <2>6 DEF Placed
      <3> QED BY <2>10, <3>1
    <2>12. \A l \in 1..k :
             /\ Indexed(stack'[l])
             /\ Within(AllSteps[r], AllSteps[stack'[l].trace], start2[l])
      BY <1>1, <1>4, <2>5, <2>6, <2>11 DEF Placed
    <2>13. \A l \in 1..n - 1 :
              start[l + 1] + Len(AllSteps[stack[l + 1].trace]) = start[l] + Progress(stack[l])
      BY <1>1, <1>4 DEF Placed
    <2>14. \A l \in 1..k - 1 :
              start2[l + 1] + Len(AllSteps[stack'[l + 1].trace]) = start2[l] + Progress(stack'[l])
      BY <2>2, <2>5, <2>7, <2>11, <2>13
    <2>15. Len(executed') = start2[k] + Progress(Top')
      <3>1. start[k + 1] + Len(AllSteps[stack[k + 1].trace]) = start[k] + Progress(stack[k])
        BY <2>2, <2>6, <2>13
      <3>2. start[k + 1] = o /\ stack[k + 1].trace = t
        BY <1>2, <1>5, <1>10, <2>2
      <3> QED BY <1>11, <2>6, <2>8, <2>11, <3>1, <3>2
    <2>16. stack'[1].trace = r
      BY <1>4, <2>5, <2>6 DEF Placed
    <2>17. Placed(r, start2)'
      BY <2>5, <2>11, <2>12, <2>14, <2>15, <2>16 DEF Placed
    <2> QED BY <1>12, <2>8, <2>9, <2>17 DEF OrderInv
  <1>15. n = 1 \/ n > 1
    BY <1>1
  <1> QED BY <1>13, <1>14, <1>15

(* Every action keeps to the order.                                        *)
LEMMA OrderStep == StepsDefined => (TypeInv /\ OrderInv /\ [Next]_vars => OrderInv')
  <1> SUFFICES ASSUME StepsDefined, TypeInv, OrderInv, [Next]_vars PROVE OrderInv'
    OBVIOUS
  <1> DEFINE InStep == {"step", "input", "progress", "output", "drain"}
             Label == {"prior", "spawnPrior", "reset", "spawn"} \cup InStep
  <1>0. CallersWait
    BY DEF OrderInv
  <1>1. ASSUME stack # <<>>
        PROVE  \E r \in Roots : Prefix(r) /\ \E start : Placed(r, start)
    BY <1>1 DEF OrderInv
  <1>2. ASSUME stack # <<>> PROVE Indexed(Top)
    <2>1. PICK r \in Roots : \E start : Placed(r, start)
      BY <1>1, <1>2
    <2>2. Len(stack) \in 1..Len(stack)
      BY <1>2, TopType
    <2> QED BY <2>1, <2>2 DEF Placed, Top
  \* A step that goes on elsewhere in the call without executing anything.
  <1>3. ASSUME stack # <<>>, NEW pc \in Label, NEW i, NEW d, Target(pc, i, d), Goto(pc, i, d),
               executed' = executed,
               \A f : f.pc = pc /\ f.i = i /\ f.trace = Top.trace
                          => Indexed(f) /\ Progress(f) = Progress(Top)
        PROVE  OrderInv'
    <2>1. PICK r \in Roots : Prefix(r) /\ \E start : Placed(r, start)
      BY <1>1, <1>3
    <2>2. PICK start : Placed(r, start)
      BY <2>1
    <2>3. Top'.pc = pc /\ Top'.i = i /\ Top'.trace = Top.trace
      BY <1>3, GotoType
    <2>4. Indexed(Top') /\ Progress(Top') = Progress(Top)
      BY <1>3, <2>3
    <2> QED BY <1>0, <1>3, <2>1, <2>2, <2>4, OrderStays
  <1>4. ASSUME stack # <<>>, Top.pc \in InStep, NEW pc \in InStep \ {"step"},
               Goto(pc, Top.i, 1), Top.i \in 1..Len(Steps[Top.trace]), executed' = executed
        PROVE  OrderInv'
    <2>1. Target(pc, Top.i, 1)
      BY <1>4 DEF Target
    <2>2. ASSUME NEW f, f.pc = pc, f.i = Top.i, f.trace = Top.trace
          PROVE  Indexed(f) /\ Progress(f) = Progress(Top)
      <3>1. Indexed(f)
        BY <1>4, <2>2 DEF Indexed
      <3>2. Progress(f) = Len(PriorSteps(Top.trace)[Len(Prior[Top.trace])]) + (Top.i - 1)
        BY <1>4, <2>2 DEF Progress
      <3>3. Progress(Top) = Len(PriorSteps(Top.trace)[Len(Prior[Top.trace])]) + (Top.i - 1)
        BY <1>4 DEF Progress
      <3> QED BY <3>1, <3>2, <3>3
    <2> QED BY <1>3, <1>4, <2>1, <2>2
  <1>5. CASE NextPrior
    <2>1. stack # <<>> /\ Top.pc = "prior" /\ executed' = executed
          /\ Top.i \in Nat \ {0} /\ Top.trace \in Traces /\ Prior[Top.trace] \in Seq(Traces)
      BY <1>5, TopType DEF NextPrior, At
    <2>2. CASE Top.i <= Len(Prior[Top.trace]) /\ Goto("spawnPrior", Top.i, 1)
      <3>1. Target("spawnPrior", Top.i, 1)
        BY <2>1, <2>2 DEF Target
      <3>2. ASSUME NEW f, f.pc = "spawnPrior", f.i = Top.i, f.trace = Top.trace
            PROVE  Indexed(f) /\ Progress(f) = Progress(Top)
        BY <2>1, <3>2 DEF Indexed, Progress
      <3> QED BY <1>3, <2>1, <2>2, <3>1, <3>2
    <2>3. CASE ~(Top.i <= Len(Prior[Top.trace])) /\ Goto("spawn", Top.i, 1)
      <3>1. Target("spawn", Top.i, 1)
        BY <2>1 DEF Target
      <3>2. Top.i - 1 = Len(Prior[Top.trace])
        <4>1. Top.i <= Len(Prior[Top.trace]) + 1
          BY <1>2, <2>1 DEF Indexed
        <4>2. PICK n \in Nat : n = Len(Prior[Top.trace])
          BY <2>1
        <4> QED BY <2>1, <2>3, <4>1, <4>2
      <3>3. ASSUME NEW f, f.pc = "spawn", f.i = Top.i, f.trace = Top.trace
            PROVE  Indexed(f) /\ Progress(f) = Progress(Top)
        BY <2>1, <3>2, <3>3 DEF Indexed, Progress
      <3> QED BY <1>3, <2>1, <2>3, <3>1, <3>3
    <2> QED BY <1>5, <2>2, <2>3 DEF NextPrior
  <1>6. CASE Spawn
    <2>1. stack # <<>> /\ Top.pc \in {"spawnPrior", "spawn"} /\ executed' = executed
      BY <1>6 DEF Spawn, Spawning, At
    <2>2. CASE Fail("Put") \/ Fail("Agent")
      BY <2>1, <2>2, OrderFails
    <2>3. CASE Goto(Top.pc, Top.i, Top.d + 1)
      <3>1. Target(Top.pc, Top.i, Top.d + 1)
        BY <2>1, TopType DEF Target, GoodFrame
      <3>2. ASSUME NEW f, f.pc = Top.pc, f.i = Top.i, f.trace = Top.trace
            PROVE  Indexed(f) /\ Progress(f) = Progress(Top)
        BY <2>1, <3>2 DEF Indexed, Progress
      <3> QED BY <1>3, <2>1, <2>3, <3>1, <3>2
    <2> QED BY <1>6, <2>2, <2>3 DEF Spawn
  <1>7. CASE SpawnEnd
    <2>1. stack # <<>> /\ executed' = executed
      BY <1>7 DEF SpawnEnd, Spawning, At
    <2>2. CASE At("spawn") /\ Goto("step", 1, 1)
      <3>1. Target("step", 1, 1)
        BY DEF Target
      <3>2. Top.pc = "spawn" /\ Top.trace \in Traces /\ Len(Steps[Top.trace]) \in Nat
        BY <2>1, <2>2, TopType DEF At
      <3>3. Len(PriorSteps(Top.trace)[Len(Prior[Top.trace])]) \in Nat
        <4>1. Len(Prior[Top.trace]) \in 0..Len(Prior[Top.trace])
          BY <2>1, TopType
        <4> QED BY <3>2, <4>1, PriorWithin
      <3>4. ASSUME NEW f, f.pc = "step", f.i = 1, f.trace = Top.trace
            PROVE  Indexed(f) /\ Progress(f) = Progress(Top)
        <4>1. \A p \in Nat : p + (1 - 1) = p /\ 1 <= p + 1
          OBVIOUS
        <4> QED BY <3>2, <3>3, <3>4, <4>1 DEF Indexed, Progress
      <3> QED BY <1>3, <2>1, <2>2, <3>1, <3>4
    <2>3. CASE At("spawnPrior")
      BY <1>7, <2>3, OrderCalls
    <2> QED BY <1>7, <2>2, <2>3 DEF SpawnEnd
  <1>8. CASE ResetAgent
    <2>1. stack # <<>> /\ Top.pc = "reset" /\ executed' = executed
      BY <1>8 DEF ResetAgent, At
    <2>2. CASE Fail("Put")
      BY <2>1, <2>2, OrderFails
    <2>3. CASE Goto("reset", Top.i, Top.d + 1)
      <3>1. Target("reset", Top.i, Top.d + 1)
        BY <2>1, TopType DEF Target
      <3>2. ASSUME NEW f, f.pc = "reset", f.i = Top.i, f.trace = Top.trace
            PROVE  Indexed(f) /\ Progress(f) = Progress(Top)
        BY <1>2, <2>1, <3>2 DEF Indexed, Progress
      <3> QED BY <1>3, <2>1, <2>3, <3>1, <3>2
    <2> QED BY <1>8, <2>2, <2>3 DEF ResetAgent
  <1>9. CASE ResetEnd
    <2>1. stack # <<>> /\ Top.pc = "reset" /\ executed' = executed /\ Goto("prior", Top.i + 1, 1)
          /\ Top.i \in Nat \ {0} /\ Len(Prior[Top.trace]) \in Nat
      BY <1>9, TopType DEF ResetEnd, At
    <2>2. Target("prior", Top.i + 1, 1)
      BY <2>1 DEF Target
    <2>3. Top.i <= Len(Prior[Top.trace])
      BY <1>2, <2>1 DEF Indexed
    <2>4. (Top.i + 1) - 1 = Top.i /\ Top.i + 1 <= Len(Prior[Top.trace]) + 1
      BY <2>1, <2>3
    <2>5. ASSUME NEW f, f.pc = "prior", f.i = Top.i + 1, f.trace = Top.trace
          PROVE  Indexed(f) /\ Progress(f) = Progress(Top)
      BY <2>1, <2>4, <2>5 DEF Indexed, Progress
    <2> QED BY <1>3, <2>1, <2>2, <2>5
  <1>10. CASE NextStep
    <2>1. stack # <<>> /\ Top.pc = "step" /\ executed' = executed
          /\ Top.i \in 1..Len(Steps[Top.trace])
      BY <1>10, TopType DEF NextStep, At
    <2> QED BY <1>4, <1>10, <2>1 DEF NextStep
  <1>11. CASE Input
    <2>1. stack # <<>> /\ Top.pc = "input" /\ executed' = executed
          /\ Top.i \in 1..Len(Steps[Top.trace])
      BY <1>11, TopType DEF Input, At, GoodFrame
    <2>2. CASE Fail("Term") \/ Fail("Fn") \/ Fail("Agent")
      BY <2>1, <2>2, OrderFails
    <2>3. CASE Goto("progress", Top.i, 1)
      BY <1>4, <2>1, <2>3
    <2> QED BY <1>11, <2>2, <2>3 DEF Input
  <1>12. CASE progress
    <2>1. stack # <<>> /\ Top.pc \in {"progress", "output"} /\ executed' = executed
          /\ Top.i \in 1..Len(Steps[Top.trace])
      BY <1>12, TopType DEF progress, At, GoodFrame
    <2>2. CASE Fail("Put") \/ Fail("Agent")
      BY <2>1, <2>2, OrderFails
    <2>3. CASE Goto("output", Top.i, 1) \/ Goto("drain", Top.i, 1)
      BY <1>4, <2>1, <2>3
    <2> QED BY <1>12, <2>2, <2>3 DEF progress
  <1>13. CASE TakeMessage \/ UNCHANGED vars
    <2>1. stack' = stack /\ executed' = executed /\ outcome' = outcome
      BY <1>13 DEF TakeMessage, vars
    <2> QED BY <2>1 DEF OrderInv, CallersWait, Prefix, Placed, Top
  <1>14. CASE StepEnd
    <2>1. stack # <<>> /\ Top.pc = "drain" /\ Goto("step", Top.i + 1, 1)
          /\ Top.i \in 1..Len(Steps[Top.trace]) /\ Top.i \in Nat /\ Top.trace \in Traces
          /\ Steps[Top.trace] \in Seq(StepSet)
          /\ executed' = Append(executed, <<Top.trace, Top.i>>)
          /\ executed \in Seq(Traces \X Nat) /\ Len(stack) \in 1..Len(stack)
      BY <1>14, TopType DEF StepEnd, At, GoodFrame, TypeInv, DataOK
    <2>2. PICK r \in Roots : Prefix(r) /\ \E start : Placed(r, start)
      BY <1>1, <2>1
    <2>3. PICK start : Placed(r, start)
      BY <2>2
    <2>4. PICK t, i : t = Top.trace /\ i = Top.i
      OBVIOUS
    <2>5. PICK p \in Nat : p = Len(PriorSteps(t)[Len(Prior[t])])
      <3>1. Len(Prior[t]) \in 0..Len(Prior[t])
        BY <2>1, <2>4, TopType
      <3> QED BY <2>1, <2>4, <3>1, PriorWithin
    <2>6. PICK m \in Nat : m = Len(Steps[t]) /\ i \in 1..m
      BY <2>1, <2>4
    <2>7. PICK o \in Nat : o = start[Len(stack)]
      BY <2>1, <2>3 DEF Placed
    <2>8. Len(AllSteps[t]) = p + m /\ AllSteps[t][p + i] = <<t, i>>
      BY <2>1, <2>4, <2>5, <2>6, PriorWithin
    <2>9. Within(AllSteps[r], AllSteps[t], o)
      BY <2>1, <2>3, <2>4, <2>7 DEF Placed, Top
    <2>10. Len(executed) = o + (p + (i - 1))
      <3>1. Progress(Top) = p + (i - 1)
        BY <2>1, <2>4, <2>5 DEF Progress
      <3> QED BY <2>3, <2>7, <3>1 DEF Placed
    <2>11. Top'.pc = "step" /\ Top'.i = i + 1 /\ Top'.trace = t /\ Target("step", Top.i + 1, 1)
      <3>1. Target("step", Top.i + 1, 1)
        BY <2>1 DEF Target
      <3> QED BY <2>1, <2>4, <3>1, GotoType
    <2>12. Indexed(Top')
      <3>1. i + 1 <= m + 1
        BY <2>6
      <3> QED BY <2>6, <2>11, <3>1 DEF Indexed
    <2>13. Progress(Top') = p + i
      <3>1. (i + 1) - 1 = i
        BY <2>6
      <3> QED BY <2>5, <2>11, <3>1 DEF Progress
    <2>14. PICK n \in Nat : n = Len(executed)
      BY <2>1
    <2>15. /\ Len(executed') = n + 1 /\ executed'[n + 1] = <<t, i>>
           /\ DOMAIN executed' = 1..n + 1
           /\ \A k \in 1..n : executed'[k] = executed[k]
      BY <2>1, <2>4, <2>14
    <2>16. n + 1 = o + (p + i)
      BY <2>6, <2>10, <2>14
    <2>17. Prefix(r)'
      <3>1. PICK a \in Nat : a = Len(AllSteps[r])
        <4>1. AllSteps[r] \in Seq(Traces \X Nat)
          BY TraceAssumption DEF StepsDefined
        <4> QED BY <4>1
      <3>2. o + (p + m) <= a /\ \A k \in 1..p + m : AllSteps[r][o + k] = AllSteps[t][k]
        BY <2>8, <2>9, <3>1 DEF Within
      <3>3. p + i \in 1..p + m /\ n + 1 <= a
        BY <2>6, <2>16, <3>2
      <3>4. AllSteps[r][n + 1] = <<t, i>>
        BY <2>8, <2>16, <3>2, <3>3
      <3>5. \A k \in 1..n : executed[k] = AllSteps[r][k]
        BY <2>1, <2>2, <2>14 DEF Prefix
      <3>6. \A k \in 1..n + 1 : k = n + 1 \/ k \in 1..n
        BY <2>14
      <3> QED BY <2>15, <3>1, <3>3, <3>4, <3>5, <3>6 DEF Prefix
    <2>18. Len(executed') = start[Len(stack)] + Progress(Top')
      BY <2>7, <2>13, <2>15, <2>16
    <2> HIDE DEF Prefix
    <2> QED BY <1>0, <2>1, <2>3, <2>11, <2>12, <2>17, <2>18, OrderGoto
  <1>15. CASE Return
    <2>1. CASE Fail("SecurityClaim")
      BY <1>15, <2>1, OrderFails DEF Return
    <2>2. CASE /\ stack' = SubSeq(stack, 1, Len(stack) - 1)
               /\ outcome' = IF Len(stack) = 1 THEN "Ok" ELSE outcome
      BY <1>15, <2>2, OrderReturns DEF Return
    <2> QED BY <1>15, <2>1, <2>2 DEF Return
  <1> QED BY <1>5, <1>6, <1>7, <1>8, <1>9, <1>10, <1>11, <1>12, <1>13, <1>14, <1>15 DEF Next

(* Since traces nest, the steps executed are at any time a prefix of the   *)
(* steps of the root with those of its prior traces before, and all of     *)
(* them when the execution succeeds: none is skipped, repeated or early.   *)
THEOREM StepsKeepOrder ==
    ASSUME NEW depth \in [Traces -> Nat], NestsBy(depth)
    PROVE  Spec => []StepsInOrder
  <1>1. StepsDefined
    BY AllStepsIs
  <1>2. Init => OrderInv
    <2> SUFFICES ASSUME Init PROVE OrderInv
      OBVIOUS
    <2>1. PICK r \in Roots : stack = <<Call(r)>>
      BY DEF Init
    <2>2. r \in Traces /\ executed = <<>> /\ outcome = "Running"
      BY TraceAssumption DEF Init
    <2>3. Len(stack) = 1 /\ stack[1] = Call(r) /\ Top = Call(r)
      BY <2>1 DEF Top
    <2>4. Call(r).pc = "prior" /\ Call(r).i = 1 /\ Call(r).trace = r
      BY DEF Call
    <2>5. Len(AllSteps[r]) \in Nat /\ Len(Prior[r]) \in Nat
      BY <1>1, <2>2, TraceAssumption DEF StepsDefined
    <2>6. Progress(Call(r)) = 0 /\ Indexed(Call(r))
      <3>1. Len(PriorSteps(r)[0]) = 0
        BY <1>1, <2>2, PriorWithin
      <3>2. 1 - 1 = 0 /\ 1 <= Len(Prior[r]) + 1
        BY <2>5
      <3> QED BY <2>4, <3>1, <3>2 DEF Progress, Indexed
    <2>7. PICK start : start = [l \in 1..1 |-> 0]
      OBVIOUS
    <2>8. Within(AllSteps[r], AllSteps[r], 0)
      <3>1. 0 + Len(AllSteps[r]) <= Len(AllSteps[r]) /\ \A k \in 1..Len(AllSteps[r]) : 0 + k = k
        BY <2>5
      <3> QED BY <3>1 DEF Within
    <2>9. Placed(r, start)
      <3>1. start \in [1..1 -> Nat] /\ start[1] = 0 /\ \A l \in 1..1 : l = 1
        BY <2>7
      <3>2. ~\E l \in 1..1 - 1 : TRUE
        OBVIOUS
      <3>3. Len(executed) = 0 + 0
        BY <2>2
      <3> QED BY <2>3, <2>4, <2>6, <2>8, <3>1, <3>2, <3>3 DEF Placed
    <2>10. Prefix(r)
      BY <2>2, <2>5 DEF Prefix
    <2>11. CallersWait
      BY <2>1 DEF CallersWait
    <2> QED BY <2>2, <2>9, <2>10, <2>11 DEF OrderInv
  <1>3. TypeInv /\ OrderInv /\ [Next]_vars => OrderInv'
    BY <1>1, OrderStep
  <1>4. OrderInv => StepsInOrder
    BY DEF OrderInv, Prefix, Placed, StepsInOrder
  <1> QED BY <1>2, <1>3, <1>4, InitType, NextType, PTL DEF Spec

(* Both parts of the promise to a trace: all its steps, in order, on       *)
(* agents of the declared kinds.                                           *)
THEOREM TracesRunAsDeclared ==
    ASSUME NamesHaveOneKind, KindsHaveOneName, NEW depth \in [Traces -> Nat], NestsBy(depth)
    PROVE  Spec => []StepsRunAsDeclared
  <1>1. StepsInOrder /\ StepsRunOnDeclaredAgents => StepsRunAsDeclared
    BY DEF StepsRunAsDeclared
  <1>2. Spec => []StepsInOrder
    BY StepsKeepOrder
  <1>3. Spec => []StepsRunOnDeclaredAgents
    BY DeclaredAgentsRun
  <1> QED BY <1>1, <1>2, <1>3, PTL
=============================================================================
