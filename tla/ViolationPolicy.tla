--------------------------- MODULE ViolationPolicy ---------------------------
(***************************************************************************)
(* The bug oracle of the TLS fuzzer (tlspuffin/src/tls/violation.rs): what *)
(* TlsSecurityViolationPolicy::check_violation says of the list of claims  *)
(* the programs under test made.                                           *)
(*                                                                         *)
(* A claim is a record; `kind` is "Finished" for the only claims the       *)
(* policy looks at and anything else for transcripts and other messages.   *)
(* Secrets, randoms, ciphers, algorithms and session ids are compared and  *)
(* never computed with, so they may be values of any kind.                 *)
(***************************************************************************)
EXTENDS Integers, Sequences

(* The certificates of static_certs.rs; any other value is a certificate   *)
(* that the peer should not have accepted.                                 *)
BOB_CERT   == "bob"
ALICE_CERT == "alice"

NoId == <<>>       \* an empty session_id
None == "None"     \* no violation

IsInboundFinished(c) == c.kind = "Finished" /\ ~c.outbound

(* The claims that the filter of find_two_finished_messages lets through.  *)
InboundFinished(claims) ==
    LET fin[n \in 0..Len(claims)] ==
            IF n = 0 THEN <<>>
            ELSE IF IsInboundFinished(claims[n]) THEN Append(fin[n - 1], claims[n])
            ELSE fin[n - 1]
    IN  fin[Len(claims)]

(* collect_tuple: a pair exists only if there are exactly two inbound      *)
(* Finished claims.  Two of one agent are a resumption, not a pair.        *)
find_two_finished_messages(claims) ==
    LET fin == InboundFinished(claims)
    IN  IF Len(fin) = 2 /\ fin[1].agent # fin[2].agent THEN fin ELSE <<>>

(* Mutant: the first claim is taken for the client's.                      *)
get_client_server_InOrder(a, b) ==
    IF a.origin = b.origin THEN <<>> ELSE <<a, b>>

get_client_server(a, b) ==
    CASE a.origin = "Server" /\ b.origin = "Client" -> <<b, a>>
      [] a.origin = "Client" /\ b.origin = "Server" -> <<a, b>>
      [] OTHER -> <<>>

(* The most preferred cipher of the server that the client offers too, as  *)
(* a set of at most one cipher.                                            *)
BestCipher(client, server) ==
    LET common == {i \in DOMAIN server.available :
                      \E j \in DOMAIN client.available :
                          client.available[j] = server.available[i]}
    IN  {server.available[i] : i \in {k \in common : \A l \in common : k <= l}}

(* Mutant: whether the peer had to be authenticated is ignored.            *)
Bypassed_AuthIgnored(c) ==
    c.cert # (IF c.origin = "Server" THEN BOB_CERT ELSE ALICE_CERT)

(* A party that must authenticate its peer finished with a certificate     *)
(* that is not the one the peer owns.                                      *)
Bypassed(c) ==
    /\ c.auth
    /\ c.cert # (IF c.origin = "Server" THEN BOB_CERT ELSE ALICE_CERT)

(* The checks on the Finished claims of one client and one server, in      *)
(* their order.                                                            *)
PairChecks(client, server) ==
    <<  <<client.version # server.version, "Mismatching versions">>,
        <<client.secret # server.secret, "Mismatching master secrets">>,
        <<client.server_random # server.server_random, "Mismatching server random">>,
        <<client.client_random # server.client_random, "Mismatching client random">>,
        <<client.cipher # server.cipher, "Mismatching ciphers">>,
        <<client.sig # server.peer_sig \/ server.sig # client.peer_sig,
          "mismatching signature algorithms">>,
        <<Bypassed(server), "Authentication bypass">>,
        <<Bypassed(client), "Authentication bypass">>,
        <<CASE client.version = "V1_2" ->
                   server.session_id # NoId /\ client.session_id # server.session_id
            [] OTHER -> client.session_id # server.session_id,
          "Mismatching session ids">>,
        <<client.version = "V1_3" /\ \E c \in BestCipher(client, server) :
              c # server.cipher \/ c # client.cipher,
          "Not the best cipher choosen">>  >>

(* The first check that applies names the violation.                       *)
PairViolation(client, server) ==
    LET checks == PairChecks(client, server)
        hits == {i \in DOMAIN checks : checks[i][1]}
    IN  IF hits = {} THEN None
        ELSE checks[CHOOSE i \in hits : \A j \in hits : i <= j][2]

(* Without a pair only the first inbound Finished claim is examined, and   *)
(* only for its certificate.                                               *)
SingleViolation(claims) ==
    LET fin == InboundFinished(claims)
    IN  IF fin # <<>> /\ Bypassed(fin[1]) THEN "Authentication bypass" ELSE None

check_violation(claims) ==
    LET two == find_two_finished_messages(claims)
        cs  == get_client_server(two[1], two[2])
    IN  CASE two = <<>> -> SingleViolation(claims)
          [] two # <<>> /\ cs = <<>> -> None
          [] two # <<>> /\ cs # <<>> -> PairViolation(cs[1], cs[2])
=============================================================================
