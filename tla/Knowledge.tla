----------------------------- MODULE Knowledge -----------------------------
(***************************************************************************)
(* The attacker's knowledge as output steps extend it, and what queries    *)
(* on it return (puffin/src/trace.rs).                                     *)
(***************************************************************************)
EXTENDS KnowledgeQuery

CONSTANTS
    Items,        \* the knowledge items that may be learnt
    Queries,      \* the queries recipes may contain
    MaxKnowledge  \* bound: items learnt in one execution

(* The matcher of an item or a query is an Option, and only that of a      *)
(* handshake message has a handshake type.                                 *)
HasMatcher(x) ==
    /\ x.matcher \in Seq([ct : QueryContent, hs : Seq(STRING)])
    /\ Len(x.matcher) <= 1
    /\ \A k \in DOMAIN x.matcher : x.matcher[k].ct # "Handshake" => x.matcher[k].hs = <<>>

ASSUME KnowledgeAssumption ==
    /\ MaxKnowledge \in Nat
    /\ \A x \in Items \cup Queries : HasMatcher(x)
    /\ \A q \in Queries : q.counter \in Nat

VARIABLE knowledge   \* TraceContext.knowledge

KnowledgeInit == knowledge = <<>>

add_knowledge(item) ==
    /\ Len(knowledge) < MaxKnowledge
    /\ knowledge' = Append(knowledge, item)

KnowledgeNext == \E item \in Items : add_knowledge(item)

KnowledgeSpec == KnowledgeInit /\ [][KnowledgeNext]_knowledge

-----------------------------------------------------------------------------
(* A query is sharp if everything it matches is equally specific: its      *)
(* matcher names a handshake type, or a content type other than Handshake. *)
Sharp(q) ==
    q.matcher # <<>> /\ (q.matcher[1].ct # "Handshake" \/ q.matcher[1].hs # <<>>)

(* Reference for a sharp query: the item before which exactly q.counter    *)
(* items of the same agent, type and message were learnt.                  *)
CounterTh(q) ==
    LET same == {i \in DOMAIN knowledge :
                    /\ knowledge[i].agent = q.agent /\ knowledge[i].typ = q.typ
                    /\ knowledge[i].matcher = q.matcher}
    IN  {i \in same : Cardinality({j \in same : j < i}) = q.counter}

(* What the comment on Query.counter wants ("in case an agent sends        *)
(* multiple messages of the same type"): a sharp query with counter n      *)
(* returns the data of the n-th such message, and nothing before it came.  *)
CounterSelectsMessage ==
    \A q \in Queries : Sharp(q) => find_variable(knowledge, q) = CounterTh(q)

(* Every query returns at most one item, and returns one exactly if enough *)
(* items match: no query is ambiguous, whatever was learnt.                *)
AnswerIsUnique ==
    \A q \in Queries :
        Cardinality(find_variable(knowledge, q)) =
            (IF Cardinality(Possibilities(knowledge, q)) > q.counter THEN 1 ELSE 0)

(* find_variable answers every query with one item if it can, and a sharp  *)
(* one with an item that later output of the agents cannot replace.        *)
QueriesAreAnswered == CounterSelectsMessage /\ AnswerIsUnique

(* What the documentation of find_variable wants: "Returns the variable    *)
(* which matches best -> highest specificity".                             *)
BestMatchIsReturned ==
    \A q \in Queries : q.counter = 0 =>
        \A i \in find_variable(knowledge, q), j \in Possibilities(knowledge, q) :
            specificity(knowledge[j]) <= specificity(knowledge[i])

=============================================================================
