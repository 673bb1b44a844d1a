----------------------------- MODULE SwitchLink -----------------------------
(***************************************************************************)
(* The switch as internal/outbound sees it: the channels it makes for the  *)
(* legs it was asked to originate, the events it tells of them, and the    *)
(* link those travel on (internal/esl). The switch outlives the            *)
(* application; what it tells while the link is down is lost.              *)
(***************************************************************************)
EXTENDS Integers, Sequences, FiniteSets

CONSTANTS
    Legs,        \* originated legs, one per placement request
    AgentLegs    \* those of click-to-dial; the others are for the bot

ASSUME LegsAssumption == IsFiniteSet(Legs) /\ AgentLegs \subseteq Legs

VARIABLES
    link,        \* "down"; "hook": connected, events wait; "up"
    chan,        \* the stage of each leg's channel
    events,      \* per leg: channel events the application has yet to handle
    result,      \* per leg: the originate's result, if it is on its way
    dying,       \* legs the switch was told to kill
    transfers    \* legs with a transfer command the switch has yet to run

switchVars == <<link, chan, events, result, dying, transfers>>

Stages == {"none", "queued", "ringing", "answered", "parked", "dialing", "invited", "bridged",
           "gone", "failed"}

\* A channel the listing shows.
UpStages == {"ringing", "answered", "parked", "dialing", "invited", "bridged"}

IsUp(l) == chan[l] \in UpStages

\* The originate still holds its leg until it writes its result.
IsOriginating(l) == chan[l] \in {"ringing", "answered"}

LinkUp == link # "down"

SwitchInit ==
    /\ link = "down"
    /\ chan = [l \in Legs |-> "none"]
    /\ events = [l \in Legs |-> <<>>]
    /\ result = [l \in Legs |-> "none"]
    /\ dying = {}
    /\ transfers = {}

SwitchTypeOK ==
    /\ link \in {"down", "hook", "up"}
    /\ chan \in [Legs -> Stages]
    /\ events \in [Legs -> Seq({"create", "answer", "bot", "hangup"})]
    /\ result \in [Legs -> {"none", "ok", "fail"}]
    /\ dying \subseteq Legs
    /\ transfers \subseteq Legs

-----------------------------------------------------------------------------
(* What the switch does.                                                   *)

Tell(l, e) ==
    events' = IF LinkUp THEN [events EXCEPT ![l] = Append(@, e)] ELSE events

Report(l, r) ==
    result' = IF LinkUp THEN [result EXCEPT ![l] = r] ELSE result

\* The originate runs, at once or when a stalled switch recovers.
RunOriginate(l) ==
    /\ chan[l] = "queued"
    /\ chan' = [chan EXCEPT ![l] = "ringing"]
    /\ Tell(l, "create")
    /\ UNCHANGED <<link, result, dying, transfers>>

\* It fails before there is a channel: the result is the only account of it.
RefuseOriginate(l) ==
    /\ chan[l] = "queued"
    /\ chan' = [chan EXCEPT ![l] = "failed"]
    /\ Report(l, "fail")
    /\ UNCHANGED <<link, events, dying, transfers>>

Answer(l) ==
    /\ chan[l] = "ringing"
    /\ chan' = [chan EXCEPT ![l] = "answered"]
    /\ Tell(l, "answer")
    /\ UNCHANGED <<link, result, dying, transfers>>

\* The originate lets go of the answered leg, which waits in park.
LetGo(l) ==
    /\ chan[l] = "answered"
    /\ chan' = [chan EXCEPT ![l] = "parked"]
    /\ Report(l, "ok")
    /\ UNCHANGED <<link, events, dying, transfers>>

\* Nobody answers, somebody hangs up, or the application's kill runs.
Hangup(l) ==
    /\ IsUp(l)
    /\ chan' = [chan EXCEPT ![l] = "gone"]
    /\ Tell(l, "hangup")
    /\ IF IsOriginating(l) THEN Report(l, "fail") ELSE UNCHANGED result
    /\ dying' = dying \ {l}
    /\ UNCHANGED <<link, transfers>>

\* A transfer runs: an agent's leg dials on, a customer's dials the bot.
RunTransfer(l) ==
    /\ l \in transfers
    /\ transfers' = transfers \ {l}
    /\ chan' = IF chan[l] = "parked"
               THEN [chan EXCEPT ![l] = IF l \in AgentLegs THEN "bridged" ELSE "dialing"]
               ELSE chan
    /\ UNCHANGED <<link, events, result, dying>>

-----------------------------------------------------------------------------
(* The link. Commands written before it drops may still run.               *)

LinkDrops ==
    /\ LinkUp
    /\ link' = "down"
    /\ events' = [l \in Legs |-> <<>>]
    /\ result' = [l \in Legs |-> "none"]
    /\ UNCHANGED <<chan, dying, transfers>>

\* EndLeg: the kill is sent once. One the switch does not confirm is asked
\* about and repeated, so it runs sooner or later; with the link down it fails.
EndLegs(L) == dying' = IF LinkUp THEN dying \cup {l \in L : IsUp(l)} ELSE dying
=============================================================================
