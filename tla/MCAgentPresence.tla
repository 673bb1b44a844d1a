-------------------------- MODULE MCAgentPresence ---------------------------
(***************************************************************************)
(* AgentPresence with two requests beside the events and the hooks, on one *)
(* bound for requests that wait for each other and one for those that do   *)
(* not.                                                                    *)
(***************************************************************************)
EXTENDS AgentPresence, TLC

CONSTANTS r1, r2

Bound(ops, requests, signals, drops, restarts, failures, overlap) ==
    [ops |-> ops, requests |-> requests, signals |-> signals, drops |-> drops,
     restarts |-> restarts, failures |-> failures, overlap |-> overlap]

AllScenarios ==
    {Bound(Operations, 4, 3, 1, 1, 1, FALSE), Bound(Operations \ {"roster"}, 3, 3, 0, 1, 0, TRUE)}

Symmetry == Permutations(Requests)

OneDrop == {Bound(Operations, 2, 2, 1, 0, 0, FALSE)}
=============================================================================
