------------------------------- MODULE MCPuts -------------------------------
(***************************************************************************)
(* The peers that are reached through streams: the TCP PUT, the streams of *)
(* the libssh PUTs, libssh PUTs running their seed, and the SSH client and *)
(* server.  A behaviour is one of the component chosen at its start.       *)
(***************************************************************************)
EXTENDS MCSshSession, TcpPut, LibsshFactory, LibsshPut

VARIABLE which

TcpTracesValue ==
    {[role |-> r, startup |-> 2, steps |-> <<"input", "output", "input">>] : r \in {"client", "server"}}
    \cup {[role |-> r, startup |-> 3, steps |-> <<"reset", "input">>] : r \in {"client", "server"}}
    \cup {[role |-> "client", startup |-> 1, steps |-> <<"input", "reset", "input">>]}

PutsVars == <<which, tcpVars, factoryVars, sshVars, vars>>

PutsInit ==
    /\ which \in {"tcp", "factory", "ssh", "session"}
    /\ TcpInit /\ FactoryInit /\ SshInit /\ Init
    /\ which # "tcp" => trace = CHOOSE t \in TcpTraces : TRUE
    /\ which # "session" => plan = CHOOSE p \in Plans : TRUE

InTcp(A) == which = "tcp" /\ A /\ UNCHANGED <<which, factoryVars, sshVars, vars>>
InFactory(A) == which = "factory" /\ A /\ UNCHANGED <<which, tcpVars, sshVars, vars>>
InSsh(A) == which = "ssh" /\ A /\ UNCHANGED <<which, tcpVars, factoryVars, vars>>
InSession(A) == which = "session" /\ A /\ UNCHANGED <<which, tcpVars, factoryVars, sshVars>>

PutsNext == InTcp(TcpNext) \/ InFactory(FactoryNext) \/ InSsh(SshNext) \/ InSession(Next)

\* Each component is as fair as in its own specification.
PutsFairness ==
    /\ WF_PutsVars(InTcp(TcpPutNext)) /\ WF_PutsVars(InTcp(ProcListens))
    /\ \A f \in Fuzzers : WF_PutsVars(InFactory(FactoryStep(f)))
    /\ WF_PutsVars(InSsh(SshNext))
    /\ WF_PutsVars(InSession(Application))
    /\ \A s \in Sides : /\ []<>~(which = "session" /\ CanRead(s)) \/ []<><<Read(s)>>_vars
                        /\ WF_PutsVars(InSession(EndOfStream(s)))
    /\ []<>~(which = "session" /\ CanTake) \/ []<><<ClientTakesMsg>>_vars
    /\ []<>~(which = "session" /\ CanServe) \/ []<><<ServerTakesMsg>>_vars

PutsSpec == PutsInit /\ [][PutsNext]_PutsVars /\ PutsFairness

\* Every peer gets on: a trace on a TCP PUT ends whatever the process does; of
\* the processes that create libssh PUTs at least one gets all of its own; the
\* SSH seed ends; and between SSH client and server key exchanges end, and the
\* applications get through their scripts and receive what was sent to them,
\* unless a session ends.
PutsGetOn ==
    /\ which = "tcp" => TcpTraceEnds
    /\ which = "factory" => SomeProcessGoesOn
    /\ which = "ssh" => SeedEnds
    /\ which = "session" => RekeyEnds /\ WorkIsDone
=============================================================================
