------------------------------ MODULE MCCalls ------------------------------
(***************************************************************************)
(* Calls on small instances: a caller delivered to an agent by a queue and *)
(* then to another or to the same one, a caller the bot answers and an     *)
(* agent after it, a call an agent places and passes on, and a call        *)
(* between two phones nobody minted an id for.                             *)
(***************************************************************************)
EXTENDS Calls, TLC

CONSTANTS c1, c2, c3, A, B, m1, t1

LegOf(id, stamped, agent, from, points, queues) ==
    [id |-> id, stamped |-> stamped, agent |-> agent, from |-> from, points |-> points,
     queues |-> queues]

Caller(queues) == LegOf(m1, FALSE, NoOne, NoOne, FALSE, queues)
DeliveredTo(agent) == LegOf(NoOne, FALSE, agent, c1, TRUE, FALSE)
BotLeg == LegOf(m1, TRUE, NoOne, c1, FALSE, FALSE)

Delivery == c1 :> Caller(TRUE) @@ c2 :> DeliveredTo(A) @@ c3 :> NoOne
TwoAgents == c1 :> Caller(TRUE) @@ c2 :> DeliveredTo(A) @@ c3 :> DeliveredTo(B)
SameAgent == c1 :> Caller(TRUE) @@ c2 :> DeliveredTo(A) @@ c3 :> DeliveredTo(A)
BotAlone == c1 :> Caller(FALSE) @@ c2 :> BotLeg @@ c3 :> NoOne
BotThenAgent == c1 :> Caller(TRUE) @@ c2 :> BotLeg @@ c3 :> DeliveredTo(A)
Placed == c1 :> LegOf(m1, TRUE, A, NoOne, FALSE, FALSE)
          @@ c2 :> LegOf(m1, TRUE, NoOne, c1, FALSE, FALSE) @@ c3 :> NoOne
PassedOn == [Placed EXCEPT ![c3] = LegOf(NoOne, FALSE, B, c2, TRUE, FALSE)]
Unnamed == c1 :> LegOf(NoOne, FALSE, A, NoOne, FALSE, FALSE)
           @@ c2 :> LegOf(NoOne, FALSE, B, c1, FALSE, FALSE) @@ c3 :> NoOne

Scenario(leg, moves, drops, crashes, blinds, losses) ==
    [leg |-> leg, moves |-> moves, drops |-> drops, crashes |-> crashes, blinds |-> blinds,
     losses |-> losses]

\* The plans the theorems on calls, rows and work are about, and one beyond them:
\* the callee of a placed call is transferred, and raises a leg in turn.
Conversing ==
    {Scenario(Delivery, {}, 2, 0, 1, 0), Scenario(Delivery, {}, 0, 1, 0, 1),
     Scenario(Delivery, {t1}, 0, 0, 0, 1), Scenario(TwoAgents, {}, 1, 0, 0, 0),
     Scenario(SameAgent, {}, 1, 0, 0, 0), Scenario(BotAlone, {}, 1, 1, 1, 1),
     Scenario(BotThenAgent, {}, 1, 0, 0, 0), Scenario(Placed, {}, 1, 1, 0, 0),
     Scenario(Unnamed, {}, 0, 0, 0, 0)}

AllScenarios == Conversing \cup {Scenario(PassedOn, {t1}, 1, 0, 0, 0)}

ASSUME PlansAreConversations == \A s \in Conversing : IsConversation(s.leg)
ASSUME PlansAreMintedOnce == MintedOnce
ASSUME PlansAreKeptTogether == KeptTogether
=============================================================================
