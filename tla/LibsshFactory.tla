---------------------------- MODULE LibsshFactory ----------------------------
(***************************************************************************)
(* LibSSLFactory::create of sshpuffin/src/libssh: the pair of streams      *)
(* between the fuzzer and a libssh session.  It is made with a listener on *)
(* an abstract socket whose name is the same for all PUTs of all           *)
(* processes, to which the process itself then connects.  Each of the      *)
(* fuzzing processes creates its PUTs one after the other.                 *)
(***************************************************************************)
EXTENDS Integers, Sequences, FiniteSets

CONSTANTS Fuzzers,      \* the processes
          PutsPerTrace  \* the PUTs that each of them creates

ASSUME LibsshFactoryAssumption == PutsPerTrace \in Nat

VARIABLES
    create,     \* for each process, the point in create it has reached
    listener,   \* processes with a listener on the socket
    backlog,    \* streams that are connected and not yet accepted
    pairs       \* for each process, the streams of its PUTs

factoryVars == <<create, listener, backlog, pairs>>

FactoryInit ==
    /\ create = [f \in Fuzzers |-> "bind"]
    /\ listener = {}
    /\ backlog = <<>>
    /\ pairs = [f \in Fuzzers |-> <<>>]

\* Mutant: the name may be bound again.
bind_addr_Shared(f) ==
    /\ create[f] = "bind" /\ Len(pairs[f]) < PutsPerTrace
    /\ create' = [create EXCEPT ![f] = "connect"] /\ listener' = listener \cup {f}
    /\ UNCHANGED <<backlog, pairs>>

\* UnixListener::bind_addr(..).unwrap(): a name that is in use is an error,
\* and the process panics.
bind_addr(f) ==
    /\ create[f] = "bind" /\ Len(pairs[f]) < PutsPerTrace
    /\ IF listener = {}
       THEN create' = [create EXCEPT ![f] = "connect"] /\ listener' = {f}
       ELSE create' = [create EXCEPT ![f] = "panic"] /\ UNCHANGED listener
    /\ UNCHANGED <<backlog, pairs>>

\* UnixStream::connect_addr: the stream waits at whichever listener there is.
connect_addr(f) ==
    /\ create[f] = "connect" /\ listener # {}
    /\ backlog' = Append(backlog, f)
    /\ create' = [create EXCEPT ![f] = "accept"]
    /\ UNCHANGED <<listener, pairs>>

\* listener.incoming().next(): non-blocking, so that an empty backlog is an
\* error.
incoming(f) ==
    /\ create[f] = "accept"
    /\ IF backlog = <<>>
       THEN create' = [create EXCEPT ![f] = "panic"] /\ UNCHANGED <<backlog, pairs>>
       ELSE /\ pairs' = [pairs EXCEPT ![f] = Append(@, [fuzz |-> f, put |-> Head(backlog)])]
            /\ backlog' = Tail(backlog)
            /\ create' = [create EXCEPT ![f] = "close"]
    /\ UNCHANGED listener

\* The end of create drops the listener, which frees the name.
drop_listener(f) ==
    /\ create[f] = "close"
    /\ listener' = listener \ {f}
    /\ create' = [create EXCEPT ![f] = "bind"]
    /\ UNCHANGED <<backlog, pairs>>

\* A process runs, up to its panic.
FactoryStep(f) == bind_addr(f) \/ connect_addr(f) \/ incoming(f) \/ drop_listener(f)

FactoryNext == \E f \in Fuzzers : FactoryStep(f)

FactorySpec ==
    FactoryInit /\ [][FactoryNext]_factoryVars /\ \A f \in Fuzzers : WF_factoryVars(FactoryStep(f))

------------------------------------------------------------------------------
\* The two streams of a PUT are the ends of one connection: a process never
\* gets the session of another one, whatever the interleaving.
StreamsArePaired == \A f \in Fuzzers : \A i \in DOMAIN pairs[f] : pairs[f][i].put = pairs[f][i].fuzz

\* At least one of the processes gets all its PUTs.
SomeProcessGoesOn ==
    <>(\E f \in Fuzzers : create[f] = "bind" /\ Len(pairs[f]) = PutsPerTrace)
==============================================================================
