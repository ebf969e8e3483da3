---------------------------- MODULE MCSeedExecution ----------------------------
(* Every seed as it is, and with any one of its steps left out or repeated.    *)
EXTENDS SeedExecution

SeedNames ==
    {"seed_successful", "seed_successful_with_ccs", "seed_successful_with_tickets", "seed_successful12",
     "seed_successful12_with_tickets", "seed_client_attacker", "seed_client_attacker_auth",
     "seed_client_attacker12", "seed_session_resumption_dhe", "seed_session_resumption_ke",
     "seed_server_attacker_full", "seed_successful_client_auth", "seed_successful_mitm",
     "seed_client_attacker_full", "seed_session_resumption_dhe_full"}
StepCount(name) == Len(test_seeds(name, Context(<<>>, <<>>)).steps)
RunsValue ==
    {<<name, <<"none">>>> : name \in SeedNames}
    \cup UNION {{<<name, <<"skip", i>>>> : i \in 1..StepCount(name)} : name \in SeedNames}
    \cup UNION {{<<name, <<"repeat", i, i + 1>>>> : i \in 1..StepCount(name)} : name \in SeedNames}
================================================================================
