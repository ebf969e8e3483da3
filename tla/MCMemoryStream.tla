-------------------------- MODULE MCMemoryStream --------------------------
(* Small instances of MemoryStream: headers of 2 bytes, payloads of less   *)
(* than 4.  A byte is the pair of a message and an index.                  *)
EXTENDS StreamRefinement

MCHeaderSize == 2
MCMaxPayload == 4

(* "big" is the largest message that is accepted; "bad" has a type that is *)
(* not, "huge" a length that is not.                                       *)
MCHeader ==
    [small |-> [typ |-> "Other", tlsVersion |-> TRUE, len |-> 1],
     big   |-> [typ |-> "Other", tlsVersion |-> TRUE, len |-> 3],
     empty |-> [typ |-> "ApplicationData", tlsVersion |-> TRUE, len |-> 0],
     bad   |-> [typ |-> "Unknown", tlsVersion |-> TRUE, len |-> 1],
     huge  |-> [typ |-> "Other", tlsVersion |-> TRUE, len |-> 5]]

MCMsgs == {"small", "big", "empty", "bad", "huge"}
MCGoodMsgs == {"small", "big", "empty"}
MCWire == [m \in Msgs |->
              [i \in 1..(2 + MCHeader[m].len) |-> <<m, i>>]]
MCByte == UNION {{MCWire[m][i] : i \in DOMAIN MCWire[m]} : m \in Msgs}
              \cup {<<"zero", 0>>}
MCZero == <<"zero", 0>>

(* Two bytes that are not the start of a message decode to something too:  *)
(* here to a message of one byte of payload.                               *)
MCHeaderOf(b) ==
    IF b[1][2] = 1 /\ b[2][1] = b[1][1] /\ b[2][2] = 2
    THEN MCHeader[b[1][1]]
    ELSE [typ |-> "Other", tlsVersion |-> TRUE, len |-> 1]

(* Both ways are explored far on their own, and both together for a short  *)
(* injected message and two messages sent.                                 *)
Budget ==
    \/ sent' = <<>>
    \/ injected' = <<>>
    \/ Len(injected') <= 3 /\ Len(sent') <= 2

StreamNext == Next /\ Budget

(* As FairSpec.                                                            *)
StreamSpec == Init /\ [][StreamNext]_vars /\ WF_vars(TakeStep)
=============================================================================
