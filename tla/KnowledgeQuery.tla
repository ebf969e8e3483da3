--------------------------- MODULE KnowledgeQuery ---------------------------
(***************************************************************************)
(* How a variable of a recipe finds its value: the matchers of             *)
(* puffin/src/algebra/mod.rs and tlspuffin/src/query.rs, the lookup in the *)
(* attacker's knowledge (TraceContext::find_variable) and the fall-back to *)
(* the claims (find_claim, ClaimList::find_last_claim).                    *)
(*                                                                         *)
(* An Option is a sequence of at most one element.  A matcher is a record  *)
(* [ct, hs]: the content type and, for a handshake, the Option of its      *)
(* handshake type.  A knowledge item is a record with at least the fields  *)
(* agent, matcher (an Option) and typ (the TypeId of its data).            *)
(***************************************************************************)
EXTENDS Integers, Sequences, FiniteSets

Handshake(hs) == [ct |-> "Handshake", hs |-> hs]
Plain(ct)     == [ct |-> ct, hs |-> <<>>]

QueryContent ==
    {"ChangeCipherSpec", "Alert", "Handshake", "ApplicationData", "Heartbeat", "Unknown"}

(* The matcher under which knowledge from a message is stored, if any.     *)
(* msg.payload is the Option of the decoded message: "Encrypted" or, for a *)
(* handshake, its type.                                                    *)
create_matcher(msg) ==
    IF msg.ct = "Unknown" THEN <<>>
    ELSE IF msg.ct # "Handshake" THEN <<Plain(msg.ct)>>
    ELSE <<Handshake(IF msg.payload = <<"Encrypted">> THEN <<>> ELSE msg.payload)>>

(* Option<T>::matches, a query without a matcher takes everything, on      *)
(* HandshakeType, which is matched by equality.                            *)
HandshakeTypeMatches(opt, query) == query = <<>> \/ opt = query

(* TlsQueryMatcher::matches.                                               *)
TlsMatches(m, query) ==
    /\ m.ct = query.ct
    /\ query.ct = "Handshake" => HandshakeTypeMatches(m.hs, query.hs)

(* Option<T>::matches on TlsQueryMatcher.                                  *)
matches(item, q) ==
    q.matcher = <<>> \/ (item.matcher # <<>> /\ TlsMatches(item.matcher[1], q.matcher[1]))

(* The specificity of an Option<TlsQueryMatcher>.                          *)
specificity(item) ==
    IF item.matcher = <<>> THEN 0
    ELSE LET m == item.matcher[1]
         IN  1 + (IF m.ct = "Handshake" THEN 1 + Len(m.hs) ELSE 0)

Possibilities(knowledge, q) ==
    {i \in DOMAIN knowledge :
        /\ knowledge[i].typ = q.typ
        /\ knowledge[i].agent = q.agent
        /\ matches(knowledge[i], q)}

(* sort_by_key is stable and ascending: i comes before j if it is less     *)
(* specific, or as specific and older.                                     *)
SortedBefore(knowledge, i, j) ==
    \/ specificity(knowledge[i]) < specificity(knowledge[j])
    \/ specificity(knowledge[i]) = specificity(knowledge[j]) /\ i < j

(* Mutant: the items are sorted by age alone, newest first.                *)
find_variable_NewestFirst(knowledge, q) ==
    LET poss == Possibilities(knowledge, q)
    IN  {i \in poss : Cardinality({j \in poss : j > i}) = q.counter}

(* The index of the item at position q.counter of the sorted list, as a    *)
(* set of at most one index.                                               *)
find_variable(knowledge, q) ==
    LET poss == Possibilities(knowledge, q)
    IN  {i \in poss :
            Cardinality({j \in poss : SortedBefore(knowledge, j, i)}) = q.counter}

(* The index of the last claim of the agent that has the type, as a set of *)
(* at most one index.                                                      *)
find_claim(claims, agent, typ) ==
    LET own == {i \in DOMAIN claims : claims[i].kind = typ /\ claims[i].agent = agent}
    IN  {i \in own : \A j \in own : j <= i}

(* Term::evaluate on a variable: neither knowledge nor a claim is an error.*)
CanEvaluate(knowledge, claims, q) ==
    \/ find_variable(knowledge, q) # {}
    \/ find_claim(claims, q.agent, q.typ) # {}
=============================================================================
