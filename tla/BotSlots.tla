------------------------------ MODULE BotSlots ------------------------------
(***************************************************************************)
(* The bot-capacity counter (internal/voice/slots.go) and the two parties  *)
(* that race on it: the SIP read loop, which turns an INVITE into a slot   *)
(* in use (uas.go), and the goroutines of answered outbound legs, which    *)
(* reserve a slot, park for one, keep, release and withdraw it             *)
(* (internal/outbound).  Every method of the counter runs under its mutex, *)
(* so a method is one step; ReserveWait and handleInvite call several, and *)
(* are one step per critical section.                                      *)
(*                                                                         *)
(* The callers are left free: a key may be kept, released or withdrawn at  *)
(* any moment, which includes every order the outbound layer can produce.  *)
(***************************************************************************)
EXTENDS Integers, FiniteSets

CONSTANTS Keys,            \* call ids: the keys of reservations and INVITEs
          Outbound,        \* the calls that are answered outbound legs: the
                           \* others are inbound, and only ever INVITE
          Withdrawable,    \* the legs whose bridge may go unconfirmed
          Cap,             \* AICC_BOT_MAX_CALLS
          InboundReserve,  \* AICC_BOT_INBOUND_RESERVE
          CanHold,         \* whether OverflowHold > 0
          MaxMade          \* bound: ReserveWait and Keep are called while fewer
                           \* reservation objects than this have been made

ASSUME SlotsAssumption ==
    /\ IsFiniteSet(Keys)
    /\ Outbound \subseteq Keys
    /\ Withdrawable \subseteq Outbound
    /\ Cap \in Nat \ {0}
    /\ InboundReserve \in 0 .. (Cap - 1)
    /\ CanHold \in BOOLEAN
    /\ MaxMade \in Nat

VARIABLES
    inUse,     \* slots held by accepted INVITEs
    reserved,  \* key -> the reservation object it holds, 0 for none
    made,      \* reservation objects created so far: an object's identity
    firing,    \* <<key, object>> whose timer has fired, expire not yet run
    stats,     \* how reservations ended
    withdrawn, \* keys an INVITE is refused for
    waiting,   \* the counter's own count of parked legs
    leg,       \* where each leg is in ReserveWait
    woken,     \* parked legs whose channel has been closed
    timedOut,  \* legs whose hold timer fired
    canceled,  \* legs whose customer hung up (ctx.Done)
    invite,    \* where each key's INVITE is in handleInvite
    promised   \* history: keys withdrawn before any INVITE came for them

counter == <<inUse, reserved, made, stats>>
legs    == <<waiting, leg, timedOut, canceled>>
vars    == <<counter, firing, withdrawn, legs, woken, invite, promised>>

None == 0

LegStates    == {"idle", "enter", "loop", "parked", "last", "won", "lost"}
InviteStates == {"none", "checked", "missed", "held"}

ReservedKeys == {k \in Keys : reserved[k] # None}
HeldKeys     == {k \in Keys : invite[k] = "held"}
Inside       == {k \in Keys : leg[k] \in LegStates \ {"idle", "enter"}}
Taken        == inUse + Cardinality(ReservedKeys)

-----------------------------------------------------------------------------
(* The counter's own steps.                                                *)

\* Mutant of Wake: a parked leg is not told.
WakeMutant == UNCHANGED woken

\* wakeLocked closes the channel every parked leg is waiting on.
Wake == woken' = woken \cup {k \in Keys : leg[k] = "parked"}

\* A new reservation object for k, with a timer of its own.
NewReservation(k) ==
    /\ made' = made + 1
    /\ reserved' = [reserved EXCEPT ![k] = made + 1]

\* The reservation under k ends one way: Consumed, Released or Expired.
EndReservation(k, how) ==
    /\ reserved' = [reserved EXCEPT ![k] = None]
    /\ stats' = [stats EXCEPT ![how] = @ + 1]
    /\ UNCHANGED made

\* reserveLocked succeeds when k already holds one, or under Cap - InboundReserve.
HasRoom == Taken < Cap - InboundReserve
CanReserve(k) == reserved[k] # None \/ HasRoom

ReserveLocked(k) ==
    \/ reserved[k] # None /\ UNCHANGED counter
    \/ /\ reserved[k] = None /\ HasRoom
       /\ NewReservation(k)
       /\ stats' = [stats EXCEPT !.Made = @ + 1]
       /\ UNCHANGED inUse

\* Release: a no-op for a key that holds none.
Release(k) ==
    /\ reserved[k] # None
    /\ EndReservation(k, "Released")
    /\ Wake
    /\ UNCHANGED <<inUse, firing, withdrawn, legs, invite, promised>>

\* Keep puts a new reservation object in the old one's place.
Keep(k) ==
    /\ made < MaxMade
    /\ reserved[k] # None
    /\ NewReservation(k)
    /\ UNCHANGED <<inUse, stats, firing, withdrawn, legs, woken, invite, promised>>

\* Withdraw refuses the key from now on, and takes the reservation back.
Withdraw(k) ==
    /\ withdrawn' = withdrawn \cup {k}
    /\ promised' = IF invite[k] = "none" THEN promised \cup {k} ELSE promised
    /\ IF reserved[k] # None
       THEN EndReservation(k, "Released") /\ Wake
       ELSE UNCHANGED <<reserved, made, stats, woken>>
    /\ UNCHANGED <<inUse, firing, legs, invite>>

\* A withdrawn key is forgotten after withdrawnFor, or to make room.
ForgetWithdrawn(k) ==
    /\ k \in withdrawn
    /\ withdrawn' = withdrawn \ {k}
    /\ promised' = promised \ {k}
    /\ UNCHANGED <<counter, firing, legs, woken, invite>>

\* A reservation's timer fires: its expire is running, and can no longer be
\* stopped.
TimerFires(k) ==
    /\ reserved[k] # None
    /\ <<k, reserved[k]>> \notin firing
    /\ firing' = firing \cup {<<k, reserved[k]>>}
    /\ UNCHANGED <<counter, withdrawn, legs, woken, invite, promised>>

\* Mutant of Expire: the reservation is not compared.
ExpireMutant(k, r) ==
    /\ firing' = firing \ {<<k, r>>}
    /\ EndReservation(k, "Expired") /\ Wake
    /\ UNCHANGED <<inUse, withdrawn, legs, invite, promised>>

\* expire(k, r) does nothing unless r is still the reservation under k.
Expire(k, r) ==
    /\ firing' = firing \ {<<k, r>>}
    /\ IF reserved[k] = r
       THEN EndReservation(k, "Expired") /\ Wake
       ELSE UNCHANGED <<reserved, made, stats, woken>>
    /\ UNCHANGED <<inUse, withdrawn, legs, invite, promised>>

Expired(k) == \E p \in firing : p[1] = k /\ Expire(k, p[2])

-----------------------------------------------------------------------------
(* handleInvite: the read loop is one goroutine, so one INVITE at a time   *)
(* is between its checks.                                                  *)

IsReading == \A k \in Keys : invite[k] \notin {"checked", "missed"}

\* IsWithdrawn: refused with 480, or on to Consume.
InviteArrives(k) ==
    /\ IsReading
    /\ invite[k] = "none"
    /\ k \notin withdrawn
    /\ invite' = [invite EXCEPT ![k] = "checked"]
    /\ UNCHANGED <<counter, firing, withdrawn, legs, woken, promised>>

\* Mutant of Consume: the slot the reservation becomes is not counted.
ConsumeMutant(k) ==
    /\ invite[k] = "checked"
    /\ IF reserved[k] # None
       THEN /\ EndReservation(k, "Consumed")
            /\ invite' = [invite EXCEPT ![k] = "held"]
            /\ UNCHANGED inUse
       ELSE /\ invite' = [invite EXCEPT ![k] = "missed"]
            /\ UNCHANGED counter
    /\ UNCHANGED <<firing, withdrawn, legs, woken, promised>>

\* Consume: the reservation, if there is one, becomes a slot in use.
Consume(k) ==
    /\ invite[k] = "checked"
    /\ IF reserved[k] # None
       THEN /\ EndReservation(k, "Consumed")
            /\ inUse' = inUse + 1
            /\ invite' = [invite EXCEPT ![k] = "held"]
       ELSE /\ invite' = [invite EXCEPT ![k] = "missed"]
            /\ UNCHANGED counter
    /\ UNCHANGED <<firing, withdrawn, legs, woken, promised>>

\* Mutant of TryAcquire: reservations are not counted.
TryAcquireMutant(k) ==
    /\ invite[k] = "missed"
    /\ IF inUse < Cap
       THEN inUse' = inUse + 1 /\ invite' = [invite EXCEPT ![k] = "held"]
       ELSE invite' = [invite EXCEPT ![k] = "none"] /\ UNCHANGED inUse
    /\ UNCHANGED <<reserved, made, stats, firing, withdrawn, legs, woken, promised>>

\* TryAcquire: a fresh slot under Cap, or 486 Busy Here.
TryAcquire(k) ==
    /\ invite[k] = "missed"
    /\ IF Taken < Cap
       THEN inUse' = inUse + 1 /\ invite' = [invite EXCEPT ![k] = "held"]
       ELSE invite' = [invite EXCEPT ![k] = "none"] /\ UNCHANGED inUse
    /\ UNCHANGED <<reserved, made, stats, firing, withdrawn, legs, woken, promised>>

\* The INVITE is refused further on, or its dialog ends: the slot goes back.
Free(k) ==
    /\ invite[k] = "held"
    /\ invite' = [invite EXCEPT ![k] = "none"]
    /\ inUse' = inUse - 1
    /\ Wake
    /\ UNCHANGED <<reserved, made, stats, firing, withdrawn, legs, promised>>

-----------------------------------------------------------------------------
(* ReserveWait.                                                            *)

Goto(k, where) == leg' = [leg EXCEPT ![k] = where]

\* The first attempt: it returns at once, or the leg is going to wait.
ReserveWait(k) ==
    /\ leg[k] = "idle" /\ made < MaxMade
    /\ \/ ReserveLocked(k) /\ UNCHANGED leg
       \/ /\ ~CanReserve(k)
          /\ Goto(k, IF CanHold THEN "enter" ELSE "idle")
          /\ UNCHANGED counter
    /\ UNCHANGED <<firing, withdrawn, waiting, timedOut, canceled, woken, invite, promised>>

Enter(k) ==
    /\ leg[k] = "enter"
    /\ waiting' = waiting + 1
    /\ Goto(k, "loop")
    /\ UNCHANGED <<counter, firing, withdrawn, timedOut, canceled, woken, invite, promised>>

\* The loop body: reserve, or take the channel under the same lock.
TryAgain(k) ==
    /\ leg[k] = "loop"
    /\ \/ ReserveLocked(k) /\ Goto(k, "won")
       \/ ~CanReserve(k) /\ Goto(k, "parked") /\ UNCHANGED counter
    /\ UNCHANGED <<firing, withdrawn, waiting, timedOut, canceled, woken, invite, promised>>

\* select: the leg leaves the channel it was parked on by any ready case.
Unpark(k, where) ==
    /\ leg[k] = "parked"
    /\ Goto(k, where)
    /\ woken' = woken \ {k}
    /\ UNCHANGED <<counter, firing, withdrawn, waiting, timedOut, canceled, invite, promised>>

SelectChanged(k) == k \in woken /\ Unpark(k, "loop")

\* Mutant of SelectTimedOut: the leg goes round again instead of giving up.
SelectTimedOutMutant(k) == k \in timedOut /\ Unpark(k, "loop")

SelectTimedOut(k) == k \in timedOut /\ Unpark(k, "last")

SelectDone(k) == k \in canceled /\ Unpark(k, "lost")

\* One last Reserve when the hold runs out.
LastTry(k) ==
    /\ leg[k] = "last"
    /\ \/ ReserveLocked(k) /\ Goto(k, "won")
       \/ ~CanReserve(k) /\ Goto(k, "lost") /\ UNCHANGED counter
    /\ UNCHANGED <<firing, withdrawn, waiting, timedOut, canceled, woken, invite, promised>>

\* Return: the deferred waiting-- and the hold timer's stop.  The context was
\* this call's own.
Leave(k) ==
    /\ leg[k] \in {"won", "lost"}
    /\ waiting' = waiting - 1
    /\ Goto(k, "idle")
    /\ timedOut' = timedOut \ {k}
    /\ canceled' = canceled \ {k}
    /\ UNCHANGED <<counter, firing, withdrawn, woken, invite, promised>>

\* The hold's own timer: armed once the leg waits.
HoldEnds(k) ==
    /\ leg[k] \in {"loop", "parked"} /\ k \notin timedOut
    /\ timedOut' = timedOut \cup {k}
    /\ UNCHANGED <<counter, firing, withdrawn, waiting, leg, canceled, woken, invite, promised>>

\* The customer hangs up: the wait's context is cancelled.
CustomerGone(k) ==
    /\ leg[k] \in {"enter", "loop", "parked"} /\ k \notin canceled
    /\ canceled' = canceled \cup {k}
    /\ UNCHANGED <<counter, firing, withdrawn, waiting, leg, timedOut, woken, invite, promised>>

-----------------------------------------------------------------------------
Init ==
    /\ inUse = 0
    /\ reserved = [k \in Keys |-> None]
    /\ made = 0
    /\ firing = {}
    /\ stats = [Made |-> 0, Consumed |-> 0, Released |-> 0, Expired |-> 0]
    /\ withdrawn = {}
    /\ waiting = 0
    /\ leg = [k \in Keys |-> "idle"]
    /\ woken = {}
    /\ timedOut = {}
    /\ canceled = {}
    /\ invite = [k \in Keys |-> "none"]
    /\ promised = {}

InviteStep(k) == InviteArrives(k) \/ Consume(k) \/ TryAcquire(k) \/ Free(k)

WaitStep(k) ==
    \/ Enter(k) \/ TryAgain(k) \/ LastTry(k) \/ Leave(k)
    \/ SelectChanged(k) \/ SelectTimedOut(k) \/ SelectDone(k)

CounterStep(k) ==
    \/ Release(k) \/ Keep(k) \/ TimerFires(k) \/ Expired(k)
    \/ k \in Withdrawable /\ (Withdraw(k) \/ ForgetWithdrawn(k))

LegStep(k) == ReserveWait(k) \/ WaitStep(k) \/ HoldEnds(k) \/ CustomerGone(k)

Next ==
    \/ \E k \in Keys : InviteStep(k)
    \/ \E k \in Outbound : CounterStep(k) \/ LegStep(k)

Spec == Init /\ [][Next]_vars

\* A goroutine that can take the mutex, or whose select has a ready case,
\* runs; every timer armed with AfterFunc fires; a fired expire runs.  select
\* picks among its ready cases at random, so a case that is ready each time
\* the leg comes round is taken: strong fairness.  A customer need not hang
\* up, no INVITE need come and no dialog need end.
Fairness == \A k \in Outbound :
    /\ WF_vars(WaitStep(k))
    /\ SF_vars(SelectTimedOut(k))
    /\ WF_vars(HoldEnds(k))
    /\ WF_vars(TimerFires(k))
    /\ WF_vars(Expired(k))

FairSpec == Spec /\ Fairness

-----------------------------------------------------------------------------
(* Properties.                                                             *)

\* Every variable has its type, and a reservation's identity is one that was
\* made.
TypeOK ==
    /\ inUse \in Nat
    /\ made \in Nat
    /\ reserved \in [Keys -> 0 .. made]
    /\ firing \subseteq Keys \X (1 .. made)
    /\ stats \in [Made : Nat, Consumed : Nat, Released : Nat, Expired : Nat]
    /\ withdrawn \subseteq Keys
    /\ waiting \in Nat
    /\ leg \in [Keys -> LegStates]
    /\ woken \subseteq Keys
    /\ timedOut \subseteq Keys
    /\ canceled \subseteq Keys
    /\ invite \in [Keys -> InviteStates]
    /\ promised \subseteq Keys

\* The slots in use and the slots reserved never exceed the capacity together:
\* an inbound INVITE cannot take a slot from under the outbound leg that
\* reserved it, whatever the order of TryAcquire, Reserve, Consume and Keep.
WithinCap == Taken <= Cap

\* "Every reservation ends in exactly one of Consumed, Released and Expired"
\* (SlotStats): the counters account for every reservation made, with a timer
\* firing while another goroutine consumes, releases or replaces it.
EveryReservationEnds ==
    stats.Made = stats.Consumed + stats.Released + stats.Expired
                   + Cardinality(ReservedKeys)

\* A slot in use belongs to exactly one accepted INVITE: none is counted twice
\* and none is lost, across Consume, TryAcquire, the refusals and Free.
SlotPerDialog == inUse = Cardinality(HeldKeys)

\* "no missed wake-up (a waiter takes the channel under the same lock as its
\* failed attempt)": a leg parked on a channel nobody has closed could not
\* have reserved a slot.
NoMissedWakeup ==
    \A k \in Keys : leg[k] = "parked" /\ k \notin woken => ~CanReserve(k)

\* waiting counts the legs inside ReserveWait, on each of its ways out: the
\* dialer's admission rule subtracts it from the free slots.
WaitingAgrees == waiting = Cardinality(Inside)

\* Withdraw "refuses the key to any INVITE that arrives later": once it ran
\* with no INVITE in hand for the key, no INVITE of that key holds a slot or is
\* on its way to one for as long as the withdrawal is remembered.
WithdrawnIsRefused == \A k \in promised : invite[k] = "none"

\* The reservation a step expires is the one its timer was armed for.
ExpiresItsOwn == \A k \in Keys :
    reserved[k] # None /\ reserved'[k] = None /\ stats'.Expired # stats.Expired
        => <<k, reserved[k]>> \in firing

\* "an expiry already firing finds it replaced and does nothing": a step that
\* expires a reservation is that of a timer armed for this very reservation,
\* never of one armed before Keep or for an earlier reservation of the key.
KeptIsHeld == [][ExpiresItsOwn]_vars

\* A leg that waits for a slot is answered, with a slot or without: ReserveWait
\* returns even if no slot ever frees and no customer ever hangs up.
WaiterReturns == \A k \in Keys : leg[k] # "idle" ~> leg[k] = "idle"

=============================================================================
