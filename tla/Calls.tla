------------------------------- MODULE Calls -------------------------------
(***************************************************************************)
(* internal/telephony: the registry of live calls and the coordinator that *)
(* builds it from the switch's events.                                     *)
(*                                                                         *)
(* Every leg is a channel of the switch. The coordinator handles one event *)
(* at a time (handleMu); each call is an actor with a mailbox, so what an  *)
(* event does to a call happens later than its handling, and a call that   *)
(* ended stays in the registry until its actor has returned.               *)
(***************************************************************************)
EXTENDS Integers, Sequences, FiniteSets, SequencesExt

CONSTANTS
    Channels,    \* the legs the switch may make
    Agents,
    Ids,         \* the call ids the dialplan mints
    NoOne,
    Moves,       \* transfer requests
    Scenarios    \* what a behaviour is made of, one chosen at the start:
                 \* [leg, moves, drops, crashes, blinds, losses]; leg[c] is [id,
                 \* stamped, agent, from, points, queues], see below, or NoOne when
                 \* c is not made

(* leg[c]: id is the call id its dialplan mints or NoOne; stamped, whether  *)
(* its creation already carries it; agent, whose phone it is; from, the leg *)
(* it is raised for, and points, whether it carries the pointer back;       *)
(* queues, whether its dialplan puts it in a queue.                         *)

LegKinds == [id : Ids \cup {NoOne}, stamped : BOOLEAN, agent : Agents \cup {NoOne},
             from : Channels \cup {NoOne}, points : BOOLEAN, queues : BOOLEAN]

\* A pointer and a queue need something to point at and a call to queue; the id
\* of a raised leg is exported to it, so its creation carries it.
IsLegPlan(leg) ==
    /\ leg \in [Channels -> LegKinds \cup {NoOne}]
    /\ \A c \in {d \in Channels : leg[d] # NoOne} :
           /\ leg[c].stamped \/ leg[c].queues => leg[c].id # NoOne
           /\ leg[c].points => leg[c].from # NoOne
           /\ leg[c].from # NoOne => /\ leg[leg[c].from] # NoOne
                                     /\ leg[c].stamped \/ leg[c].id = NoOne

ASSUME CallsAssumption ==
    /\ IsFiniteSet(Channels)
    /\ NoOne \notin Channels \cup Ids \cup Agents \cup LegKinds
    /\ \A s \in Scenarios : IsLegPlan(s.leg) /\ s.moves \subseteq Moves

\* The plans the theorems on rows are about: a raised leg raises none itself, and
\* carries its caller's id or none, none when it carries the pointer.
IsConversation(leg) ==
    \A c \in {d \in Channels : leg[d] # NoOne} :
        /\ leg[c].points => leg[c].id = NoOne
        /\ leg[c].from # NoOne => /\ leg[leg[c].from].from = NoOne
                                  /\ leg[c].id \in {NoOne, leg[leg[c].from].id}

Conversations == Channels \cap Ids = {} /\ \A s \in Scenarios : IsConversation(s.leg)

\* The plans the theorems on live legs are about: an id is minted for one leg.
IsMintedOnce(leg) ==
    \A c, d \in {e \in Channels : leg[e] # NoOne} :
        leg[c].from = NoOne /\ leg[d].from = NoOne /\ leg[c].id = leg[d].id =>
            c = d \/ leg[c].id = NoOne

MintedOnce == \A s \in Scenarios : IsMintedOnce(s.leg)

\* The plans the theorem on after-call work is about: of the legs raised for one
\* without an id, each carries the pointer, or there is one alone.
IsKeptTogether(leg) ==
    \A c, d \in {e \in Channels : leg[e] # NoOne} :
        leg[c].from # NoOne /\ leg[d].from = leg[c].from /\ leg[leg[c].from].id = NoOne =>
            leg[c].points \/ c = d

KeptTogether == \A s \in Scenarios : IsKeptTogether(s.leg)

VARIABLES
    scenario,
    spent,       \* the faults so far: [drops, crashes, blinds, missed, lost]; missed is what
                 \* the last reconnect could not read, lost the rows that were refused
    \* the switch
    link, chan, named, peer, queued, feed, pending,
    \* the application
    call, at, waiting, onCall, afterWork, toWrite, move,
    \* the database
    rows

switchVars == <<link, chan, named, peer, queued, feed, pending>>
appVars == <<call, at, waiting, onCall, afterWork, toWrite, move>>
vars == <<scenario, spent, switchVars, appVars, rows>>

Leg(c) == scenario.leg[c]
Legs == {c \in Channels : Leg(c) # NoOne}
AgentOf(c) == Leg(c).agent
ParentOf(c) == IF Leg(c).points THEN Leg(c).from ELSE NoOne

\* A call nobody minted an id for takes a fresh one: the name of its first leg.
CallIds == Channels \cup Ids
NoCall == [minted |-> FALSE, stopped |-> TRUE, ended |-> TRUE, party |-> <<>>,
           claims |-> {}, mailbox |-> <<>>, known |-> FALSE]

IsKnown(k) == call[k].known

PartyStates == {"DIALING", "RINGING", "TALKING", "RELEASED"}

Up == {c \in Legs : chan[c] \in {"ringing", "answered"}}

Init ==
    /\ scenario \in Scenarios
    /\ spent = [drops |-> 0, crashes |-> 0, blinds |-> 0, missed |-> {}, lost |-> {}]
    /\ link = "up"
    /\ chan = [c \in Channels |-> "none"]
    /\ named = {} /\ queued = {} /\ pending = {} /\ feed = <<>>
    /\ peer = [c \in Channels |-> NoOne]
    /\ call = [k \in CallIds |-> NoCall]
    /\ at = [c \in Channels |-> NoOne]
    /\ waiting = {} /\ afterWork = {} /\ toWrite = {} /\ rows = {}
    /\ onCall = [a \in Agents |-> FALSE]
    /\ move = [t \in Moves |-> [stage |-> "none", chan |-> NoOne, call |-> NoOne]]

-----------------------------------------------------------------------------
(* What the switch does (mod_sofia, the dialplan, mod_callcenter).         *)

\* An event carries the call id once the dialplan has set it on the channel.
Event(kind, c, other) ==
    [kind |-> kind, chan |-> c, other |-> other,
     id |-> IF c \in named THEN Leg(c).id ELSE NoOne]

Tell(evs) == feed' = IF link = "up" THEN feed \o evs ELSE feed

\* The queue's delivery of a caller to an agent.
IsDelivery(c) == Leg(c).points /\ Leg(Leg(c).from).queues

\* A delivery leg may be raised as the caller it is for hangs up; the others are
\* raised by the bridge of a dialplan, after it has answered.
CanBeRaised(c) ==
    LET f == Leg(c).from IN
    f # NoOne => IF IsDelivery(c) THEN f \in queued \/ chan[f] = "gone"
                 ELSE chan[f] = "answered"

ChannelCreate(c) ==
    /\ chan[c] = "none" /\ CanBeRaised(c)
    /\ \A d \in Up : AgentOf(d) = NoOne \/ AgentOf(d) # AgentOf(c)
    /\ chan' = [chan EXCEPT ![c] = "ringing"]
    /\ named' = IF Leg(c).stamped THEN named \cup {c} ELSE named
    /\ Tell(<<[Event("create", c, NoOne) EXCEPT
                   !.id = IF Leg(c).stamped THEN Leg(c).id ELSE NoOne]>>)
    /\ UNCHANGED <<scenario, spent, link, peer, queued, pending, appVars, rows>>

\* aicc_inbound.lua sets the id before it answers, and answers before it bridges
\* to the bot; no other script sets one.
DialplanNames(c) ==
    /\ chan[c] = "ringing" /\ c \notin named /\ Leg(c).id # NoOne
    /\ named' = named \cup {c}
    /\ UNCHANGED <<scenario, spent, link, chan, peer, queued, feed, pending, appVars, rows>>

ChannelAnswer(c) ==
    /\ chan[c] = "ringing" /\ (Leg(c).id # NoOne => c \in named)
    /\ chan' = [chan EXCEPT ![c] = "answered"]
    /\ Tell(<<Event("answer", c, NoOne)>>)
    /\ UNCHANGED <<scenario, spent, link, named, peer, queued, pending, appVars, rows>>

QueueJoin(c) ==
    /\ chan[c] = "answered" /\ c \in named /\ Leg(c).queues
    /\ c \notin queued /\ peer[c] = NoOne
    /\ queued' = queued \cup {c}
    /\ Tell(<<Event("join", c, NoOne)>>)
    /\ UNCHANGED <<scenario, spent, link, chan, named, peer, pending, appVars, rows>>

Bridge(c, d) ==
    /\ chan[c] = "answered" /\ chan[d] = "answered" /\ Leg(d).from = c
    /\ peer[c] = NoOne /\ peer[d] = NoOne /\ (IsDelivery(d) <=> c \in queued)
    /\ peer' = [peer EXCEPT ![c] = d, ![d] = c]
    /\ queued' = queued \ {c}
    /\ Tell(<<Event("bridge", c, d)>>
            \o (IF c \in queued THEN <<Event("left", c, NoOne)>> ELSE <<>>))
    /\ UNCHANGED <<scenario, spent, link, chan, named, pending, appVars, rows>>

Unbridged(c) ==
    IF peer[c] = NoOne THEN <<>> ELSE <<Event("unbridge", c, peer[c])>>

Apart(c) == [d \in Channels |-> IF d = c \/ peer[d] = c THEN NoOne ELSE peer[d]]

\* The member-left event of a caller who hangs up in a queue is not relied on.
Hangup(c) ==
    /\ c \in Up
    /\ chan' = [chan EXCEPT ![c] = "gone"]
    /\ peer' = Apart(c)
    /\ queued' = queued \ {c}
    /\ Tell(Unbridged(c) \o <<Event("hangup", c, NoOne)>>)
    /\ UNCHANGED <<scenario, spent, link, named, pending, appVars, rows>>

\* The switch runs a transfer: the leg leaves its bridge for the dialplan.
RunTransfer(t) ==
    LET c == move[t].chan IN
    /\ t \in pending
    /\ pending' = pending \ {t}
    /\ peer' = Apart(c)
    /\ Tell(Unbridged(c))
    /\ UNCHANGED <<scenario, spent, link, chan, named, queued, appVars, rows>>

-----------------------------------------------------------------------------
(* The registry and the coordinator, as functions of the state a handler   *)
(* works on: s is [call, at, waiting, onCall, afterWork].                  *)

State == [call |-> call, at |-> at, waiting |-> waiting, onCall |-> onCall,
          afterWork |-> afterWork]

\* Registry.Do: a stopped actor's loop may still take a command before it sees
\* that it is to quit; late says whether it does.
Runs(s, k, late) == s.call[k].known /\ (late \/ ~s.call[k].stopped)

CreateCall(s, k, minted) ==
    IF s.call[k].known THEN s
    ELSE [s EXCEPT !.call[k] = [NoCall EXCEPT !.known = TRUE, !.stopped = FALSE,
                                              !.ended = FALSE, !.minted = minted]]

BindChannel(s, c, k) == [s EXCEPT !.at[c] = k]

NewParty(parties) ==
    [state |-> IF DOMAIN parties = {} THEN "DIALING" ELSE "RINGING", answered |-> FALSE]

With(parties, c, p) == [d \in DOMAIN parties \cup {c} |-> IF d = c THEN p ELSE parties[d]]

SetOnCall(s, a, value) ==
    IF a = NoOne THEN s ELSE [s EXCEPT !.onCall[a] = value]

AddParty(s, k, c, late) ==
    IF ~Runs(s, k, late) \/ c \in DOMAIN s.call[k].party THEN s
    ELSE SetOnCall([s EXCEPT !.call[k].party = With(@, c, NewParty(@))], AgentOf(c), TRUE)

\* The call a leg is created into.
AdoptInto(s, ev) ==
    LET parent == ParentOf(ev.chan) IN
    CASE ev.id # NoOne -> ev.id
      [] ev.id = NoOne /\ parent # NoOne /\ s.at[parent] # NoOne -> s.at[parent]
      [] OTHER -> ev.chan

Adopt(s, ev, late) ==
    IF s.at[ev.chan] # NoOne THEN s
    ELSE LET k == AdoptInto(s, ev)
         IN AddParty(BindChannel(CreateCall(s, k, ev.id # NoOne), ev.chan, k),
                     k, ev.chan, late)

IsMintedID(s, k, late) == Runs(s, k, late) /\ s.call[k].minted

IsAgentOnly(s, k, late) ==
    Runs(s, k, late) => \A c \in DOMAIN s.call[k].party : AgentOf(c) # NoOne

Union(f, g) == [c \in DOMAIN f \cup DOMAIN g |-> IF c \in DOMAIN f THEN f[c] ELSE g[c]]

Claimed(claims) == {x.chan : x \in claims}

\* As a merge that moves the legs and leaves their channels bound as they were.
MergeMutant(s, keep, absorb, late) ==
    IF ~Runs(s, keep, late) THEN s
    ELSE [s EXCEPT !.call[keep].party = Union(@, s.call[absorb].party),
                   !.call[absorb].stopped = TRUE]

Merge(s, keep, absorb, late) ==
    LET gone == s.call[absorb]
        moved == IF Runs(s, absorb, late) THEN gone.party ELSE <<>>
        held == Claimed(s.call[keep].claims)
    IN  IF ~Runs(s, keep, late) THEN s
        ELSE [s EXCEPT !.call[keep].party = Union(@, moved),
                       !.call[keep].claims = @ \cup {x \in gone.claims : x.chan \notin held},
                       !.call[absorb].stopped = TRUE,
                       !.at = [c \in Channels |-> IF c \in DOMAIN moved THEN keep ELSE @[c]]]

\* Which of two bridged calls gives way to the other.
Absorbed(s, k, o, late) ==
    CASE IsMintedID(s, k, late) /\ ~IsMintedID(s, o, late) -> o
      [] IsMintedID(s, o, late) /\ ~IsMintedID(s, k, late) -> k
      [] OTHER -> IF IsAgentOnly(s, k, late) THEN k ELSE o

Join(s, ev, late) ==
    LET k == s.at[ev.chan]
        o == s.at[ev.other]
        absorbed == Absorbed(s, k, o, late)
    IN  IF k = NoOne \/ o = NoOne \/ k = o THEN s
        ELSE Merge(s, IF absorbed = k THEN o ELSE k, absorbed, late)

\* As a rename that keeps the call it finds the leg on.
ReidentifyMutant(s, ev, late) ==
    LET bound == s.at[ev.chan] IN
    IF ev.id = NoOne \/ bound \in {NoOne, ev.id} \/ IsMintedID(s, bound, late) THEN s
    ELSE Merge(CreateCall(s, ev.id, TRUE), bound, ev.id, late)

Reidentify(s, ev, late) ==
    LET bound == s.at[ev.chan] IN
    IF ev.id = NoOne \/ bound \in {NoOne, ev.id} \/ IsMintedID(s, bound, late) THEN s
    ELSE Merge(CreateCall(s, ev.id, TRUE), ev.id, bound, late)

\* As a line that waits for the member-left event of a caller who hung up.
TrackQueueMutant(s, ev) ==
    CASE ev.kind = "join" -> [s EXCEPT !.waiting = @ \cup {ev.chan}]
      [] ev.kind = "left" -> [s EXCEPT !.waiting = @ \ {ev.chan}]
      [] OTHER -> s

TrackQueue(s, ev) ==
    CASE ev.kind = "join" -> [s EXCEPT !.waiting = @ \cup {ev.chan}]
      [] ev.kind \in {"left", "hangup"} -> [s EXCEPT !.waiting = @ \ {ev.chan}]
      [] OTHER -> s

\* agentLegEnded: the leg is read before the call is told it ended.
AgentLegEnded(s, ev, late) ==
    LET k == s.at[ev.chan] IN
    /\ ev.kind = "hangup" /\ k # NoOne /\ AgentOf(ev.chan) # NoOne
    /\ Runs(s, k, late) /\ ev.chan \in DOMAIN s.call[k].party

Dispatch(s, ev) ==
    LET k == s.at[ev.chan] IN
    IF k = NoOne \/ s.call[k].stopped THEN s
    ELSE [s EXCEPT !.call[k].mailbox = Append(@, ev)]

\* A call's type is not modelled: a call between colleagues, which in the code owes
\* no work, owes it here, so the work here includes the code's.
LegIsOver(s, before, ev) ==
    LET k == before.at[ev.chan]
        a == AgentOf(ev.chan)
        off == SetOnCall(s, a, FALSE)
    IN  IF before.call[k].party[ev.chan].answered
        THEN [off EXCEPT !.afterWork = @ \cup {[agent |-> a, call |-> k]}]
        ELSE off

\* The actors a handler waits on: Registry.Do returns after everything posted
\* before it has run.
Awaited(ev) ==
    LET near == {at[ev.chan]}
        all == CASE ev.kind = "create" -> {ev.id, IF ParentOf(ev.chan) = NoOne THEN NoOne
                                                  ELSE at[ParentOf(ev.chan)]}
                 [] ev.kind = "bridge" -> near \cup {at[ev.other]}
                 [] ev.kind \in {"hangup", "join"} -> near
                 [] OTHER -> {}
    IN  (all \cup IF ev.id = NoOne \/ at[ev.chan] = ev.id THEN {} ELSE near \cup {ev.id})
            \ {NoOne}

HandleResult(ev, late) ==
    LET first == CASE ev.kind = "create" -> Adopt(State, ev, late)
                   [] ev.kind = "bridge" -> Join(State, ev, late)
                   [] OTHER -> State
        told == TrackQueue(Reidentify(first, ev, late), ev)
    IN  IF AgentLegEnded(told, ev, late) THEN LegIsOver(Dispatch(told, ev), told, ev)
        ELSE Dispatch(told, ev)

Handle ==
    /\ feed # <<>>
    /\ LET ev == Head(feed) IN
       /\ \A k \in Awaited(ev) : call[k].stopped \/ call[k].mailbox = <<>>
       /\ \E late \in BOOLEAN :
              LET s == HandleResult(ev, late) IN
              /\ call' = s.call /\ at' = s.at /\ waiting' = s.waiting
              /\ onCall' = s.onCall /\ afterWork' = s.afterWork
    /\ feed' = Tail(feed)
    /\ UNCHANGED <<scenario, spent, link, chan, named, peer, queued, pending, toWrite, move, rows>>

-----------------------------------------------------------------------------
(* A call's actor.                                                         *)

IsActive(p) == p.state # "RELEASED"

Establish(p) ==
    IF p.state \in {"DIALING", "RINGING"} THEN [state |-> "TALKING", answered |-> TRUE] ELSE p

\* What an event does to the legs of the call it was posted to.
Moved(parties, ev) ==
    [c \in DOMAIN parties |->
        CASE ev.kind = "answer" /\ c = ev.chan -> [parties[c] EXCEPT !.answered = TRUE]
          [] ev.kind = "bridge" /\ c \in {ev.chan, ev.other} -> Establish(parties[c])
          [] ev.kind = "hangup" /\ c = ev.chan -> [parties[c] EXCEPT !.state = "RELEASED"]
          [] OTHER -> parties[c]]

\* settleTransfers: a leg that moved or ended has no transfer on its way.
Settled(claims, ev) ==
    IF ev.kind \in {"unbridge", "bridge", "hangup", "join"}
    THEN {x \in claims : x.chan \notin {ev.chan, ev.other}} ELSE claims

\* As a call that is over when one of its legs is.
FinishesMutant(a, ev) == ev.kind = "hangup" /\ ev.chan \in DOMAIN a.party /\ ~a.ended

\* Call.Finish: once, when no leg is left.
Finishes(a, ev) ==
    /\ ev.kind = "hangup" /\ ev.chan \in DOMAIN a.party /\ ~a.ended
    /\ \A c \in DOMAIN a.party : ~IsActive(Moved(a.party, ev)[c])

ApplySwitchEvent(k) ==
    /\ IsKnown(k) /\ call[k].mailbox # <<>>
    /\ LET a == call[k]
           ev == Head(a.mailbox)
           isMine == ev.chan \in DOMAIN a.party
       IN  /\ call' = [call EXCEPT ![k] =
                  [a EXCEPT !.mailbox = Tail(@), !.claims = Settled(@, ev),
                            !.party = IF isMine THEN Moved(@, ev) ELSE @,
                            !.ended = @ \/ Finishes(a, ev),
                            !.stopped = @ \/ Finishes(a, ev)]]
           /\ toWrite' = IF Finishes(a, ev)
                         THEN toWrite \cup {[call |-> k, legs |-> DOMAIN a.party]} ELSE toWrite
    /\ UNCHANGED <<scenario, spent, switchVars, at, waiting, onCall, afterWork, move, rows>>

\* Registry.remove: the actor has returned; what is left in its mailbox is lost.
Unregister(k) ==
    /\ IsKnown(k) /\ call[k].stopped
    /\ call' = [call EXCEPT ![k] = NoCall]
    /\ at' = [c \in Channels |-> IF at[c] = k THEN NoOne ELSE at[c]]
    /\ UNCHANGED <<scenario, spent, switchVars, waiting, onCall, afterWork, toWrite, move, rows>>

\* CDRAssembler.CallFinished, on a goroutine of its own. A call the bot kept is
\* left to the bot's session, which writes the row of the same id: rows is the
\* ledger, whichever of the two wrote.
WriteRow(r) ==
    /\ r \in toWrite
    /\ toWrite' = toWrite \ {r}
    /\ rows' = rows \cup {r}
    /\ UNCHANGED <<scenario, spent, switchVars, call, at, waiting, onCall, afterWork, move>>

\* InsertCDR fails: it is logged, and the row is not written again.
LoseRow(r) ==
    /\ r \in toWrite /\ Cardinality(spent.lost) < scenario.losses
    /\ toWrite' = toWrite \ {r}
    /\ spent' = [spent EXCEPT !.lost = @ \cup {r}]
    /\ UNCHANGED <<scenario, switchVars, call, at, waiting, onCall, afterWork, move, rows>>

-----------------------------------------------------------------------------
(* Transfers: one on its way for a leg (transfer.go).                      *)

SurvivingLeg(k, a) ==
    {c \in DOMAIN call[k].party :
        /\ AgentOf(c) = NoOne /\ IsActive(call[k].party[c])
        /\ \E d \in DOMAIN call[k].party : AgentOf(d) = a /\ IsActive(call[k].party[d])}

\* The leg is claimed before the command is sent; refused when one is held.
SendTransfer(t, k, a) ==
    /\ t \in scenario.moves /\ move[t].stage = "none" /\ link = "up"
    /\ IsKnown(k) /\ ~call[k].stopped /\ call[k].mailbox = <<>>
    /\ \E c \in SurvivingLeg(k, a) :
           /\ c \notin Claimed(call[k].claims)
           /\ call' = [call EXCEPT ![k].claims = @ \cup {[chan |-> c, move |-> t]}]
           /\ move' = [move EXCEPT ![t] = [stage |-> "sent", chan |-> c, call |-> k]]
    /\ pending' = pending \cup {t}
    /\ UNCHANGED <<scenario, spent, link, chan, named, peer, queued, feed, at, waiting, onCall,
                   afterWork, toWrite, rows>>

\* releaseTransfer and keepTransfer: the reply gives the claim up; without one
\* it stays until the leg's events settle it, or its bound has passed.
TransferReturns(t, replied) ==
    LET k == move[t].call IN
    /\ move[t].stage = "sent"
    /\ replied => t \notin pending
    /\ ~call[k].known \/ call[k].stopped \/ call[k].mailbox = <<>>
    /\ move' = [move EXCEPT ![t].stage = IF replied THEN "done" ELSE "unconfirmed"]
    /\ call' = IF replied /\ IsKnown(k) /\ ~call[k].stopped
               THEN [call EXCEPT ![k].claims = {x \in @ : x.move # t}] ELSE call
    /\ UNCHANGED <<scenario, spent, switchVars, at, waiting, onCall, afterWork, toWrite, rows>>

\* The bound of a minute outlasts a stall the switch recovers from, so the
\* command it lapses for is one the switch will not run.
ClaimLapses(t) ==
    /\ move[t].stage = "unconfirmed" /\ t \notin pending
    /\ \E k \in CallIds :
           /\ \E x \in call[k].claims : x.move = t
           /\ call' = [call EXCEPT ![k].claims = {x \in @ : x.move # t}]
    /\ UNCHANGED <<scenario, spent, switchVars, at, waiting, onCall, afterWork, toWrite, move, rows>>

-----------------------------------------------------------------------------
(* The link and the process.                                               *)

Idle == feed = <<>> /\ \A k \in CallIds : call[k].mailbox = <<>>

\* A command the switch had not read goes with the connection.
LinkDrops ==
    /\ link = "up" /\ spent.drops < scenario.drops
    /\ spent' = [spent EXCEPT !.drops = @ + 1]
    /\ link' = "down"
    /\ \E lost \in SUBSET pending : pending' = pending \ lost
    /\ UNCHANGED <<scenario, chan, named, peer, queued, feed, appVars, rows>>

\* The process dies with the registry, the line and the flags it kept.
Crash ==
    /\ spent.crashes < scenario.crashes
    /\ spent' = [spent EXCEPT !.crashes = @ + 1]
    /\ link' = "down" /\ feed' = <<>>
    /\ call' = [k \in CallIds |-> NoCall]
    /\ at' = [c \in Channels |-> NoOne]
    /\ waiting' = {} /\ toWrite' = {}
    /\ onCall' = [a \in Agents |-> FALSE]
    /\ move' = [t \in Moves |-> IF move[t].stage = "none" THEN move[t]
                                 ELSE [move[t] EXCEPT !.stage = "done"]]
    /\ UNCHANGED <<scenario, chan, named, peer, queued, pending, afterWork, rows>>

\* adoptQueuedCaller, for every member the queue holds and the registry does not.
AdoptQueued ==
    LET mine == {c \in queued : at[c] = NoOne /\ ~IsKnown(Leg(c).id)}
        fresh(k) == {c \in mine : Leg(c).id = k}
    IN  [call |-> [k \in CallIds |->
                      IF fresh(k) = {} THEN call[k]
                      ELSE [NoCall EXCEPT !.known = TRUE, !.stopped = FALSE, !.ended = FALSE,
                                          !.minted = TRUE,
                                          !.party = [c \in fresh(k) |->
                                              [state |-> "DIALING", answered |-> TRUE]]]],
         at |-> [c \in Channels |-> IF c \in mine THEN Leg(c).id ELSE at[c]]]

\* closeVanished: the end of every leg the registry holds and the switch does not.
ReplayedEnds(owned) ==
    LET vanished == SetToSeq({c \in Channels : owned[c] # NoOne /\ c \notin Up})
    IN  [i \in 1..Len(vanished) |->
            [kind |-> "hangup", chan |-> vanished[i], other |-> NoOne, id |-> NoOne]]

\* The legs of ours the registry does not own, as they stand, bridges last.
ReplayedLegs(ours, owned) ==
    LET fresh == SetToSeq({c \in ours : owned[c] = NoOne})
        pairs == SetToSeq({c \in ours : /\ owned[c] = NoOne /\ peer[c] \in ours
                                        /\ owned[peer[c]] # NoOne \/ Leg(peer[c]).from = c})
        born(c) == <<Event("create", c, NoOne)>>
                   \o (IF chan[c] = "answered" THEN <<Event("answer", c, NoOne)>> ELSE <<>>)
    IN  FlattenSeq([i \in 1..Len(fresh) |-> born(fresh[i])])
        \o [i \in 1..Len(pairs) |-> Event("bridge", pairs[i], peer[pairs[i]])]

\* As a replay that trusts only the call id, and as one that forgets the legs
\* that ended while the link was down.
ReplayMutant(owned) == ReplayedLegs({c \in Up : c \in named}, owned) \o ReplayedEnds(owned)
ReplayForgets(owned) == ReplayedLegs({c \in Up : c \in named \/ ParentOf(c) # NoOne}, owned)

\* AdoptLiveChannels: the channels the registry does not own are replayed as
\* they stand, bridges last; closeVanished replays the end of the others.
Replay(owned) ==
    ReplayedLegs({c \in Up : c \in named \/ ParentOf(c) # NoOne}, owned) \o ReplayedEnds(owned)

\* The hooks run before the new connection's events are pumped, half a second
\* or more after the old one's last; a dialplan names its channel within
\* milliseconds of the creation, so none is listed without its name.
CanReconnect ==
    /\ link = "down" /\ Idle
    /\ \A c \in Up : Leg(c).id # NoOne => c \in named
    /\ \A k \in CallIds : IsKnown(k) => ~call[k].stopped

Reconnect ==
    /\ CanReconnect
    /\ link' = "up"
    /\ call' = AdoptQueued.call
    /\ at' = AdoptQueued.at
    /\ waiting' = queued
    /\ feed' = Replay(AdoptQueued.at)
    /\ spent' = [spent EXCEPT !.missed = {}]
    /\ UNCHANGED <<scenario, chan, named, peer, queued, pending, onCall, afterWork, toWrite,
                   move, rows>>

\* A reconnect that cannot read everything: a queue that is not read leaves the
\* line as it was and its callers to the listing; a channel that is not read is
\* skipped, and a listing that is not whole ends nobody. All channels unread and
\* nobody ended is a listing that failed; its retries, which run beside the
\* events, are not modelled.
ReconnectBlind(unread, isLineRead, isComplete) ==
    LET adopted == IF isLineRead THEN AdoptQueued ELSE [call |-> call, at |-> at]
        ours == {c \in Up : c \in named \/ ParentOf(c) # NoOne} \ unread
    IN  /\ CanReconnect /\ spent.blinds < scenario.blinds
        /\ unread # {} \/ ~isLineRead \/ ~isComplete
        /\ link' = "up"
        /\ call' = adopted.call
        /\ at' = adopted.at
        /\ waiting' = IF isLineRead THEN queued ELSE waiting
        /\ feed' = ReplayedLegs(ours, adopted.at)
                   \o (IF isComplete THEN ReplayedEnds(adopted.at) ELSE <<>>)
        /\ spent' = [spent EXCEPT !.blinds = @ + 1,
                                  !.missed = {m \in {"legs", "line", "ends"} :
                                                 \/ m = "legs" /\ unread # {}
                                                 \/ m = "line" /\ ~isLineRead
                                                 \/ m = "ends" /\ ~isComplete}]
        /\ UNCHANGED <<scenario, chan, named, peer, queued, pending, onCall, afterWork, toWrite,
                       move, rows>>

Next ==
    \/ \E c \in Legs : \/ ChannelCreate(c) \/ DialplanNames(c) \/ ChannelAnswer(c)
                       \/ QueueJoin(c) \/ Hangup(c) \/ (\E d \in Legs : Bridge(c, d))
    \/ \E t \in Moves : \/ RunTransfer(t) \/ ClaimLapses(t)
                       \/ (\E replied \in BOOLEAN : TransferReturns(t, replied))
                       \/ (\E k \in CallIds, a \in Agents : SendTransfer(t, k, a))
    \/ Handle
    \/ \E k \in CallIds : ApplySwitchEvent(k) \/ Unregister(k)
    \/ \E r \in toWrite : WriteRow(r) \/ LoseRow(r)
    \/ LinkDrops \/ Crash \/ Reconnect
    \/ \E unread \in SUBSET Up, isLineRead, isComplete \in BOOLEAN :
           ReconnectBlind(unread, isLineRead, isComplete)

Spec == Init /\ [][Next]_vars
-----------------------------------------------------------------------------
(* Properties.                                                             *)

Parties == [state : PartyStates, answered : BOOLEAN]

\* Every variable keeps its type.
TypeOK ==
    /\ chan \in [Channels -> {"none", "ringing", "answered", "gone"}]
    /\ named \cup queued \cup waiting \subseteq Channels
    /\ at \in [Channels -> CallIds \cup {NoOne}]
    /\ onCall \in [Agents -> BOOLEAN]
    /\ \A k \in CallIds : /\ DOMAIN call[k].party \subseteq Channels
                           /\ \A c \in DOMAIN call[k].party : call[k].party[c] \in Parties
                           /\ Claimed(call[k].claims) \subseteq Channels

\* Nothing of what the switch said is still to be applied.
Quiet == link = "up" /\ Idle /\ \A k \in CallIds : IsKnown(k) => ~call[k].stopped

\* A leg raised for a caller who is gone has no call to belong to.
IsOrphan(c) == Leg(c).from # NoOne /\ chan[Leg(c).from] = "gone"

IsOn(c, k) == IsKnown(k) /\ c \in DOMAIN call[k].party /\ IsActive(call[k].party[c])

\* The agent had a leg that ended, and the link dropped: the listing replays the
\* creations of live legs before the ends of those that vanished, so the end of
\* the old leg may clear the flag the new one has set.
HadAnotherLeg(c) ==
    spent.drops > 0 /\ \E d \in Legs \ {c} : AgentOf(d) = AgentOf(c) /\ chan[d] = "gone"

\* A caller named by the dialplan, or a leg raised for one, whose bot leg ended, and
\* the link dropped: if the drop hid the caller's name, the listing adopts the bot
\* leg under it in a call of its own, and a rename of the caller as that call ends
\* takes the caller along (reidentify).
LostItsBot(c) ==
    LET caller == IF Leg(c).from = NoOne THEN c ELSE Leg(c).from IN
    /\ spent.drops > 0 /\ ~Leg(caller).stamped
    /\ \E d \in Legs : Leg(d).from = caller /\ Leg(d).id # NoOne /\ chan[d] = "gone"

\* When everything said has been applied, each live leg is a live party of the
\* call its channel is bound to, and the agent whose leg it is shows as on a call
\* (Coordinator.Handle, merge, AdoptLiveChannels, addParty). Excepted are a leg
\* whose caller is gone, one that LostItsBot, every leg after a listing that could
\* not read one, and the flag of an agent who HadAnotherLeg.
RegistryAgrees ==
    Quiet /\ "legs" \notin spent.missed => \A c \in Up : ~IsOrphan(c) /\ ~LostItsBot(c) =>
        /\ at[c] # NoOne /\ IsOn(c, at[c])
        /\ AgentOf(c) # NoOne => onCall[AgentOf(c)] \/ HadAnotherLeg(c)

\* Two bridged legs are talking on one call, the one the dialplan named if it
\* named one, once every event about them has been applied (join, merge,
\* reidentify); a drop may have hidden the bridge, and a listing that could not
\* read a leg, the leg.
TalkIsOneCall ==
    spent.drops = 0 /\ Quiet /\ "legs" \notin spent.missed =>
        \A c \in Up : peer[c] # NoOne =>
            /\ at[peer[c]] = at[c] /\ IsOn(c, at[c]) /\ call[at[c]].party[c].state = "TALKING"
            /\ \A d \in {c, peer[c]} : Leg(d).id # NoOne => at[c] = Leg(d).id

\* When everything said has been applied, no call holds a leg that has ended: it
\* would never finish and never reach the ledger (closeVanished). After a listing
\* that was not whole it may, until the next.
NoGhosts ==
    Quiet /\ "ends" \notin spent.missed => \A k \in CallIds : IsKnown(k) =>
        \A c \in DOMAIN call[k].party : IsActive(call[k].party[c]) => c \in Up

\* A leg is recorded in one call only, and a call is recorded once: calls that
\* become one leave one row (merge, Call.Finish).
OneRowPerLeg ==
    \A r, q \in rows \cup toWrite : r.legs \cap q.legs # {} => r = q

Booked == rows \cup toWrite \cup spent.lost

\* After-call work is for a call that is live or has its row, or had it refused:
\* the id read off the leg is the one that outlives a merge (agentLegEnded),
\* unless a drop or a crash hid the event that would have merged them.
WorkIsForARow ==
    spent.drops + spent.crashes = 0 =>
        \A w \in afterWork :
            \/ IsKnown(w.call)
            \/ \E r \in Booked : r.call = w.call

\* When everything said has been applied, the line shows the callers the queue
\* holds, and nobody else (trackQueue, ReconcileWaiting), unless the last reconnect
\* could not read the queue.
LineAgrees == Quiet /\ "line" \notin spent.missed => waiting = queued
=============================================================================
