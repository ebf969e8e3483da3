------------------------------ MODULE ClaimLog ------------------------------
(***************************************************************************)
(* The global claim list (puffin/src/claims.rs) as the programs under test *)
(* fill it, and the verdict of the TLS policy after every claim.           *)
(***************************************************************************)
EXTENDS ViolationPolicy, FiniteSets

CONSTANTS
    Claims,     \* the claims that may be made
    MaxClaims   \* bound: claims per execution

ASSUME ClaimLogAssumption ==
    /\ MaxClaims \in Nat
    /\ \A c \in Claims : c.origin \in {"Client", "Server"} /\ c.available \in Seq(STRING)

VARIABLE claims   \* ClaimList.claims

ClaimInit == claims = <<>>

claim_sized(c) ==
    /\ Len(claims) < MaxClaims
    /\ claims' = Append(claims, c)

ClaimNext == \E c \in Claims : claim_sized(c)

ClaimSpec == ClaimInit /\ [][ClaimNext]_claims

-----------------------------------------------------------------------------
Finishes == {i \in DOMAIN claims : claims[i].kind = "Finished" /\ ~claims[i].outbound}

(* Reference: the party was obliged to check its peer and accepted a       *)
(* certificate that is not its peer's.                                     *)
Deceived(c) ==
    /\ c.auth
    /\ c.origin = "Server" => c.cert # "bob"
    /\ c.origin = "Client" => c.cert # "alice"

(* Reference: what the two ends of one session must agree on, stated       *)
(* without regard to the order in which they finished.                     *)
Agree(c, s) ==
    /\ c.version = s.version
    /\ c.secret = s.secret
    /\ c.server_random = s.server_random /\ c.client_random = s.client_random
    /\ c.cipher = s.cipher
    /\ c.sig = s.peer_sig /\ s.sig = c.peer_sig
    /\ ~Deceived(s) /\ ~Deceived(c)
    /\ c.session_id = s.session_id \/ (c.version = "V1_2" /\ s.session_id = <<>>)
    /\ c.version = "V1_3" =>
          \A i \in DOMAIN s.available, j \in DOMAIN c.available :
              s.available[i] = c.available[j] =>
                  \E k \in 1..i : s.available[k] = s.cipher
                      /\ \E l \in DOMAIN c.available : c.available[l] = s.cipher

(* When exactly one client and one server finished, under different names, *)
(* the policy raises an alarm exactly if they disagree, whichever finished *)
(* first and whatever other claims lie between.                            *)
PairVerdict ==
    \A i, j \in Finishes :
        (/\ Finishes = {i, j}
         /\ claims[i].origin = "Client" /\ claims[j].origin = "Server"
         /\ claims[i].agent # claims[j].agent)
        => (check_violation(claims) = None <=> Agree(claims[i], claims[j]))

(* No alarm without a cause, however many sessions ran: if no party        *)
(* accepted a wrong certificate and every client agrees with every server, *)
(* the verdict is None.                                                    *)
NoFalseAlarm ==
    (/\ \A i \in Finishes : ~Deceived(claims[i])
     /\ \A i, j \in Finishes :
            claims[i].origin = "Client" /\ claims[j].origin = "Server"
                => Agree(claims[i], claims[j]))
    => check_violation(claims) = None

(* A party that finished alone with a wrong certificate is always found    *)
(* out (the case of a trace in which the fuzzer plays the other party).    *)
LoneBypassFound ==
    \A i \in Finishes :
        (Finishes = {i} /\ Deceived(claims[i])) => check_violation(claims) # None

(* The verdict of check_violation is right on every list of claims on      *)
(* which it can be.                                                        *)
VerdictIsRight == PairVerdict /\ NoFalseAlarm /\ LoneBypassFound

=============================================================================
