--------------------------- MODULE BotSlotsProofs ---------------------------
(***************************************************************************)
(* The bot-capacity counter keeps its promises for every set of calls,     *)
(* every capacity and every inbound reserve.                               *)
(*                                                                         *)
(* The inductive invariant is the conjunction of the invariants TLC checks *)
(* and one strengthening: a promised key is a withdrawn one.  The lemmas   *)
(* take the conjuncts one at a time, each over the actions that touch its  *)
(* variables.                                                              *)
(***************************************************************************)
EXTENDS BotSlots, FiniteSetTheorems, TLAPS

PromisedIsWithdrawn == promised \subseteq withdrawn

IInv ==
    /\ TypeOK
    /\ WithinCap
    /\ EveryReservationEnds
    /\ SlotPerDialog
    /\ NoMissedWakeup
    /\ WaitingAgrees
    /\ WithdrawnIsRefused
    /\ PromisedIsWithdrawn

-----------------------------------------------------------------------------
(* What the counts do when one call joins or leaves a set.                 *)

\* Adding a call to a set of calls, or taking one out, moves its size by one.
LEMMA OneCall ==
    ASSUME NEW S \in SUBSET Keys, NEW k \in Keys
    PROVE  /\ Cardinality(S) \in Nat
           /\ k \notin S => Cardinality(S \cup {k}) = Cardinality(S) + 1
           /\ k \in S => /\ Cardinality(S \ {k}) = Cardinality(S) - 1
                         /\ Cardinality(S) > 0
<1>1. IsFiniteSet(S)
  BY FS_Subset, SlotsAssumption DEF SlotsAssumption
<1>2. Cardinality(S) \in Nat
  BY <1>1, FS_CardinalityType
<1>3. ASSUME k \notin S PROVE Cardinality(S \cup {k}) = Cardinality(S) + 1
  BY <1>1, <1>3, FS_AddElement
<1>4. ASSUME k \in S PROVE /\ Cardinality(S \ {k}) = Cardinality(S) - 1
                           /\ Cardinality(S) > 0
  <2>1. Cardinality(S \ {k}) = Cardinality(S) - 1
    BY <1>1, <1>4, FS_RemoveElement
  <2>2. IsFiniteSet(S \ {k})
    BY <1>1, FS_Subset
  <2>3. Cardinality(S \ {k}) \in Nat
    BY <2>2, FS_CardinalityType
  <2> QED BY <1>2, <2>1, <2>3
<1> QED BY <1>2, <1>3, <1>4



-----------------------------------------------------------------------------
(* One lemma per conjunct.                                                 *)

\* Consume and TryAcquire add one INVITE to the holders with one slot in use,
\* Free takes both away; nothing else touches either.
LEMMA SlotPerDialogStep ==
    ASSUME TypeOK, SlotPerDialog, Next
    PROVE  SlotPerDialog' /\ inUse' \in Nat
<1> DEFINE H == HeldKeys
<1>0. H \in SUBSET Keys /\ inUse \in Nat /\ inUse = Cardinality(H)
  BY DEF HeldKeys, TypeOK, SlotPerDialog
<1>1. ASSUME NEW k \in Keys, invite[k] # "held",
             inUse' = inUse + 1, invite' = [invite EXCEPT ![k] = "held"]
      PROVE  SlotPerDialog' /\ inUse' \in Nat
  <2>1. HeldKeys' = H \cup {k} /\ k \notin H
    BY <1>1 DEF HeldKeys, TypeOK
  <2>2. Cardinality(H \cup {k}) = Cardinality(H) + 1
    BY <1>0, <2>1, OneCall
  <2> QED BY <1>0, <1>1, <2>1, <2>2 DEF SlotPerDialog
<1>2. ASSUME NEW k \in Keys, NEW s \in InviteStates \ {"held"}, invite[k] # "held",
             inUse' = inUse, invite' = [invite EXCEPT ![k] = s]
      PROVE  SlotPerDialog' /\ inUse' \in Nat
  <2>1. HeldKeys' = H
    BY <1>2 DEF HeldKeys, TypeOK
  <2> QED BY <1>0, <1>2, <2>1 DEF SlotPerDialog
<1>3. ASSUME NEW k \in Keys, Free(k)
      PROVE  SlotPerDialog' /\ inUse' \in Nat
  <2>1. HeldKeys' = H \ {k} /\ k \in H /\ inUse' = inUse - 1
    BY <1>3 DEF HeldKeys, TypeOK, Free
  <2>2. Cardinality(H \ {k}) = Cardinality(H) - 1 /\ Cardinality(H) > 0
    BY <1>0, <2>1, OneCall
  <2> QED BY <1>0, <2>1, <2>2 DEF SlotPerDialog
<1>4. ASSUME UNCHANGED <<inUse, invite>>
      PROVE  SlotPerDialog' /\ inUse' \in Nat
  BY <1>0, <1>4 DEF SlotPerDialog, HeldKeys
<1>5. ASSUME NEW k \in Keys, InviteStep(k)
      PROVE  SlotPerDialog' /\ inUse' \in Nat
  <2>1. CASE InviteArrives(k)
    <3>1. /\ invite[k] # "held" /\ inUse' = inUse
          /\ invite' = [invite EXCEPT ![k] = "checked"]
      BY <2>1 DEF InviteArrives, counter
    <3> QED BY <1>2, <3>1 DEF InviteStates
  <2>2. CASE Consume(k) /\ reserved[k] # None
    <3>1. /\ invite[k] # "held" /\ inUse' = inUse + 1
          /\ invite' = [invite EXCEPT ![k] = "held"]
      BY <2>2 DEF Consume
    <3> QED BY <1>1, <3>1
  <2>3. CASE Consume(k) /\ reserved[k] = None
    <3>1. /\ invite[k] # "held" /\ inUse' = inUse
          /\ invite' = [invite EXCEPT ![k] = "missed"]
      BY <2>3 DEF Consume, counter
    <3> QED BY <1>2, <3>1 DEF InviteStates
  <2>4. CASE TryAcquire(k) /\ Taken < Cap
    <3>1. /\ invite[k] # "held" /\ inUse' = inUse + 1
          /\ invite' = [invite EXCEPT ![k] = "held"]
      BY <2>4 DEF TryAcquire
    <3> QED BY <1>1, <3>1
  <2>5. CASE TryAcquire(k) /\ ~(Taken < Cap)
    <3>1. /\ invite[k] # "held" /\ inUse' = inUse
          /\ invite' = [invite EXCEPT ![k] = "none"]
      BY <2>5 DEF TryAcquire
    <3> QED BY <1>2, <3>1 DEF InviteStates
  <2> QED BY <1>3, <1>5, <2>1, <2>2, <2>3, <2>4, <2>5 DEF InviteStep
<1>6. ASSUME NEW k \in Outbound, CounterStep(k) \/ LegStep(k)
      PROVE  UNCHANGED <<inUse, invite>>
  <2>1. CounterStep(k) => UNCHANGED <<inUse, invite>>
    BY DEF CounterStep, Release, Keep, TimerFires, Expired, Expire, Withdraw,
           ForgetWithdrawn, counter
  <2>2. LegStep(k) => UNCHANGED <<inUse, invite>>
    BY DEF LegStep, ReserveWait, WaitStep, HoldEnds, CustomerGone, ReserveLocked,
           Enter, TryAgain, LastTry, Leave, SelectChanged, SelectTimedOut,
           SelectDone, Unpark, counter
  <2> QED BY <1>6, <2>1, <2>2
<1> QED BY <1>4, <1>5, <1>6 DEF Next

\* Enter takes a leg in and Leave out, with waiting; the steps between keep it
\* inside.
LEMMA WaitingAgreesStep ==
    ASSUME TypeOK, WaitingAgrees, Next
    PROVE  WaitingAgrees' /\ waiting' \in Nat
<1> DEFINE I == Inside
<1>0. I \in SUBSET Keys /\ waiting \in Nat /\ waiting = Cardinality(I)
  BY DEF Inside, TypeOK, WaitingAgrees
<1>0a. Outbound \subseteq Keys
  BY SlotsAssumption DEF SlotsAssumption
<1>1. ASSUME NEW k \in Keys, Enter(k)
      PROVE  WaitingAgrees' /\ waiting' \in Nat
  <2>1. Inside' = I \cup {k} /\ k \notin I /\ waiting' = waiting + 1
    BY <1>1 DEF Inside, TypeOK, Enter, Goto, LegStates
  <2>2. Cardinality(I \cup {k}) = Cardinality(I) + 1
    BY <1>0, <2>1, OneCall
  <2> QED BY <1>0, <2>1, <2>2 DEF WaitingAgrees
<1>2. ASSUME NEW k \in Keys, Leave(k)
      PROVE  WaitingAgrees' /\ waiting' \in Nat
  <2>1. Inside' = I \ {k} /\ k \in I /\ waiting' = waiting - 1
    BY <1>2 DEF Inside, TypeOK, Leave, Goto, LegStates
  <2>2. Cardinality(I \ {k}) = Cardinality(I) - 1 /\ Cardinality(I) > 0
    BY <1>0, <2>1, OneCall
  <2> QED BY <1>0, <2>1, <2>2 DEF WaitingAgrees
<1>3. ASSUME UNCHANGED waiting, Inside' = I
      PROVE  WaitingAgrees' /\ waiting' \in Nat
  BY <1>0, <1>3 DEF WaitingAgrees
<1>4. ASSUME NEW k \in Keys, UNCHANGED waiting, NEW s \in LegStates, Goto(k, s),
             (leg[k] \in {"idle", "enter"}) <=> (s \in {"idle", "enter"})
      PROVE  WaitingAgrees' /\ waiting' \in Nat
  <2>1. Inside' = I
    BY <1>4 DEF Inside, TypeOK, Goto, LegStates
  <2> QED BY <1>3, <1>4, <2>1
<1>5. ASSUME UNCHANGED <<waiting, leg>>
      PROVE  WaitingAgrees' /\ waiting' \in Nat
  <2>1. Inside' = I
    BY <1>5 DEF Inside
  <2> QED BY <1>3, <1>5, <2>1
<1>6. ASSUME NEW k \in Keys, InviteStep(k)
      PROVE  UNCHANGED <<waiting, leg>>
  BY <1>6 DEF InviteStep, InviteArrives, Consume, TryAcquire, Free, legs
<1>7. ASSUME NEW k \in Outbound, CounterStep(k)
      PROVE  UNCHANGED <<waiting, leg>>
  BY <1>7 DEF CounterStep, Release, Keep, TimerFires, Expired, Expire, Withdraw,
              ForgetWithdrawn, legs
<1>8. ASSUME NEW k \in Outbound, LegStep(k)
      PROVE  WaitingAgrees' /\ waiting' \in Nat
  <2>0. k \in Keys
    BY <1>0a
  <2>1. CASE ReserveWait(k)
    BY <1>4, <1>5, <2>0, <2>1 DEF ReserveWait, LegStates
  <2>2. CASE TryAgain(k)
    BY <1>4, <2>0, <2>2 DEF TryAgain, LegStates
  <2>3. CASE LastTry(k)
    BY <1>4, <2>0, <2>3 DEF LastTry, LegStates
  <2>4. CASE SelectChanged(k) \/ SelectTimedOut(k) \/ SelectDone(k)
    BY <1>4, <2>0, <2>4 DEF SelectChanged, SelectTimedOut, SelectDone, Unpark, LegStates
  <2>5. CASE HoldEnds(k) \/ CustomerGone(k)
    BY <1>5, <2>5 DEF HoldEnds, CustomerGone
  <2> QED BY <1>1, <1>2, <1>8, <2>0, <2>1, <2>2, <2>3, <2>4, <2>5 DEF LegStep, WaitStep
<1> QED BY <1>5, <1>6, <1>7, <1>8 DEF Next

(* The ways a step moves the counter.                                      *)

Same     == inUse' = inUse /\ UNCHANGED <<reserved, stats>>
Acquired == inUse' = inUse + 1 /\ Taken < Cap /\ UNCHANGED <<reserved, stats>>
Freed    == inUse' = inUse - 1 /\ UNCHANGED <<reserved, stats, leg>> /\ Wake

Kept(k) ==
    /\ reserved[k] # None
    /\ reserved' = [reserved EXCEPT ![k] = made + 1]
    /\ UNCHANGED <<inUse, stats>>

Reserves(k) ==
    /\ reserved[k] = None /\ HasRoom
    /\ reserved' = [reserved EXCEPT ![k] = made + 1]
    /\ stats' = [stats EXCEPT !.Made = @ + 1]
    /\ inUse' = inUse

Consumes(k) ==
    /\ reserved[k] # None
    /\ reserved' = [reserved EXCEPT ![k] = None]
    /\ stats' = [stats EXCEPT !.Consumed = @ + 1]
    /\ inUse' = inUse + 1

Ends(k) ==
    /\ reserved[k] # None
    /\ reserved' = [reserved EXCEPT ![k] = None]
    /\ \/ stats' = [stats EXCEPT !.Released = @ + 1]
       \/ stats' = [stats EXCEPT !.Expired = @ + 1]
    /\ UNCHANGED <<inUse, leg>> /\ Wake

Moves ==
    \/ Same \/ Acquired \/ Freed
    \/ \E k \in Keys : Kept(k) \/ Reserves(k) \/ Consumes(k) \/ Ends(k)

\* Every step moves the counter in one of these ways.
LEMMA NextMoves ==
    ASSUME TypeOK, Next
    PROVE  Moves
<1>0. Outbound \subseteq Keys
  BY SlotsAssumption DEF SlotsAssumption
<1>1. ASSUME NEW k \in Keys, InviteStep(k)
      PROVE  Moves
  <2>1. InviteArrives(k) => Same
    BY DEF InviteArrives, Same, counter
  <2>2. Consume(k) => Same \/ Consumes(k)
    BY DEF Consume, EndReservation, Consumes, Same, counter
  <2>3. TryAcquire(k) => Same \/ Acquired
    BY DEF TryAcquire, Same, Acquired
  <2>4. Free(k) => Freed
    BY DEF Free, Freed, legs
  <2> QED BY <1>1, <2>1, <2>2, <2>3, <2>4 DEF InviteStep, Moves
<1>2. ASSUME NEW k \in Keys, ReserveLocked(k)
      PROVE  Moves
  BY <1>2 DEF ReserveLocked, NewReservation, Moves, Same, Reserves, counter
<1>3. ASSUME NEW k \in Keys, CounterStep(k)
      PROVE  Moves
  <2>1. Release(k) => Ends(k)
    BY DEF Release, EndReservation, Ends, legs
  <2>2. Keep(k) => Kept(k)
    BY DEF Keep, NewReservation, Kept
  <2>3. TimerFires(k) \/ ForgetWithdrawn(k) => Same
    BY DEF TimerFires, ForgetWithdrawn, Same, counter
  <2>4. Withdraw(k) => Same \/ Ends(k)
    BY DEF Withdraw, EndReservation, Ends, Same, legs
  <2>5. ASSUME NEW p \in firing, p[1] = k, Expire(k, p[2])
        PROVE  Same \/ Ends(k)
    <3>1. p[2] # None
      BY DEF TypeOK, None
    <3> QED BY <2>5, <3>1 DEF Expire, EndReservation, Ends, Same, legs
  <2> QED BY <1>3, <2>1, <2>2, <2>3, <2>4, <2>5 DEF CounterStep, Expired, Moves
<1>4. ASSUME NEW k \in Keys, LegStep(k)
      PROVE  Moves
  <2>1. ReserveWait(k) \/ TryAgain(k) \/ LastTry(k) => ReserveLocked(k) \/ Same
    BY DEF ReserveWait, TryAgain, LastTry, Same, counter
  <2>2. Enter(k) \/ Leave(k) \/ HoldEnds(k) \/ CustomerGone(k) => Same
    BY DEF Enter, Leave, HoldEnds, CustomerGone, Same, counter
  <2>3. SelectChanged(k) \/ SelectTimedOut(k) \/ SelectDone(k) => Same
    BY DEF SelectChanged, SelectTimedOut, SelectDone, Unpark, Same, counter
  <2> QED BY <1>2, <1>4, <2>1, <2>2, <2>3 DEF LegStep, WaitStep, Moves
<1> QED BY <1>0, <1>1, <1>3, <1>4 DEF Next

\* What each of them does to the number of reservations.
LEMMA MovesCount ==
    ASSUME TypeOK
    PROVE  /\ Cardinality(ReservedKeys) \in Nat
           /\ \A k \in Keys :
                /\ Kept(k) => Cardinality(ReservedKeys') = Cardinality(ReservedKeys)
                /\ Reserves(k) =>
                     Cardinality(ReservedKeys') = Cardinality(ReservedKeys) + 1
                /\ Consumes(k) \/ Ends(k) =>
                     Cardinality(ReservedKeys') = Cardinality(ReservedKeys) - 1
<1> DEFINE R == ReservedKeys
<1>1. R \in SUBSET Keys
  BY DEF ReservedKeys
<1>2. Cardinality(R) \in Nat
  <2>1. IsFiniteSet(R)
    BY <1>1, FS_Subset, SlotsAssumption DEF SlotsAssumption
  <2> QED BY <2>1, FS_CardinalityType
<1>3. ASSUME NEW k \in Keys, Kept(k)
      PROVE  ReservedKeys' = R
  BY <1>3 DEF ReservedKeys, TypeOK, Kept, None
<1>4. ASSUME NEW k \in Keys, Reserves(k)
      PROVE  Cardinality(ReservedKeys') = Cardinality(R) + 1
  <2>1. ReservedKeys' = R \cup {k} /\ k \notin R
    BY <1>4 DEF ReservedKeys, TypeOK, Reserves, None
  <2> QED BY <1>1, <2>1, OneCall
<1>5. ASSUME NEW k \in Keys, Consumes(k) \/ Ends(k)
      PROVE  Cardinality(ReservedKeys') = Cardinality(R) - 1
  <2>1. ReservedKeys' = R \ {k} /\ k \in R
    BY <1>5 DEF ReservedKeys, TypeOK, Consumes, Ends, None
  <2> QED BY <1>1, <2>1, OneCall
<1> QED BY <1>2, <1>3, <1>4, <1>5

\* Each reservation is counted when it is made and counted once when it ends.
LEMMA EveryReservationEndsStep ==
    ASSUME TypeOK, EveryReservationEnds, Next
    PROVE  EveryReservationEnds'
<1>1. Moves
  BY NextMoves
<1>2. stats \in [Made : Nat, Consumed : Nat, Released : Nat, Expired : Nat]
  BY DEF TypeOK
<1>3. CASE Same \/ Acquired \/ Freed
  <2>1. ReservedKeys' = ReservedKeys /\ stats' = stats
    BY <1>3 DEF Same, Acquired, Freed, ReservedKeys
  <2> QED BY <2>1 DEF EveryReservationEnds
<1>4. ASSUME NEW k \in Keys, Kept(k) \/ Reserves(k) \/ Consumes(k) \/ Ends(k)
      PROVE  EveryReservationEnds'
  <2>1. CASE Kept(k)
    BY <2>1, MovesCount DEF EveryReservationEnds, Kept
  <2>2. CASE Reserves(k)
    <3>1. /\ stats'.Made = stats.Made + 1 /\ stats'.Consumed = stats.Consumed
          /\ stats'.Released = stats.Released /\ stats'.Expired = stats.Expired
      BY <1>2, <2>2 DEF Reserves
    <3> QED BY <1>2, <2>2, <3>1, MovesCount DEF EveryReservationEnds
  <2>3. CASE Consumes(k)
    <3>1. /\ stats'.Made = stats.Made /\ stats'.Consumed = stats.Consumed + 1
          /\ stats'.Released = stats.Released /\ stats'.Expired = stats.Expired
      BY <1>2, <2>3 DEF Consumes
    <3> QED BY <1>2, <2>3, <3>1, MovesCount DEF EveryReservationEnds
  <2>4. CASE Ends(k)
    <3>1. /\ stats'.Made = stats.Made /\ stats'.Consumed = stats.Consumed
          /\ \/ stats'.Released = stats.Released + 1 /\ stats'.Expired = stats.Expired
             \/ stats'.Released = stats.Released /\ stats'.Expired = stats.Expired + 1
      BY <1>2, <2>4 DEF Ends
    <3> QED BY <1>2, <2>4, <3>1, MovesCount DEF EveryReservationEnds
  <2> QED BY <1>4, <2>1, <2>2, <2>3, <2>4
<1> QED BY <1>1, <1>3, <1>4 DEF Moves

\* A slot is added under Cap, a reservation under Cap - InboundReserve, and a
\* consumed reservation only changes sides.
LEMMA WithinCapStep ==
    ASSUME TypeOK, WithinCap, Next
    PROVE  WithinCap'
<1>1. Moves
  BY NextMoves
<1>2. inUse \in Nat /\ Cap \in Nat /\ InboundReserve \in Nat
  BY SlotsAssumption DEF SlotsAssumption, TypeOK
<1>3. CASE Same \/ Acquired \/ Freed
  <2>1. ReservedKeys' = ReservedKeys
    BY <1>3 DEF Same, Acquired, Freed, ReservedKeys
  <2> QED BY <1>2, <1>3, <2>1, MovesCount DEF WithinCap, Taken, Same, Acquired, Freed
<1>4. ASSUME NEW k \in Keys, Kept(k) \/ Reserves(k) \/ Consumes(k) \/ Ends(k)
      PROVE  WithinCap'
  <2> DEFINE n == Cardinality(ReservedKeys)
             m == Cardinality(ReservedKeys')
  <2>0. n \in Nat /\ inUse + n <= Cap /\ (WithinCap' <=> inUse' + m <= Cap)
    BY MovesCount DEF WithinCap, Taken
  <2>1. CASE Kept(k)
    <3>1. inUse' = inUse /\ m = n
      BY <2>1, MovesCount DEF Kept
    <3> QED BY <2>0, <3>1
  <2>2. CASE Reserves(k)
    <3>1. inUse' = inUse /\ m = n + 1 /\ inUse + n < Cap - InboundReserve
      BY <2>2, MovesCount DEF Reserves, HasRoom, Taken
    <3> QED BY <1>2, <2>0, <3>1
  <2>3. CASE Consumes(k)
    <3>1. inUse' = inUse + 1 /\ m = n - 1
      BY <2>3, MovesCount DEF Consumes
    <3> QED BY <1>2, <2>0, <3>1
  <2>4. CASE Ends(k)
    <3>1. inUse' = inUse /\ m = n - 1
      BY <2>4, MovesCount DEF Ends
    <3> QED BY <1>2, <2>0, <3>1
  <2> QED BY <1>4, <2>1, <2>2, <2>3, <2>4
<1> QED BY <1>1, <1>3, <1>4 DEF Moves

\* A leg is parked on an open channel only if it was before the step, or if
\* this step found no slot for it; and no step reserves for a parked leg.
LEMMA Parks ==
    ASSUME TypeOK, Next, NEW j \in Keys, leg'[j] = "parked", j \notin woken'
    PROVE  /\ (leg[j] = "parked" /\ j \notin woken) \/ (~CanReserve(j) /\ Same)
           /\ reserved'[j] # None => reserved[j] # None
<1> DEFINE Goal == /\ (leg[j] = "parked" /\ j \notin woken) \/ (~CanReserve(j) /\ Same)
                   /\ reserved'[j] # None => reserved[j] # None
<1>0. Outbound \subseteq Keys
  BY SlotsAssumption DEF SlotsAssumption
<1>1. ASSUME NEW k \in Keys, InviteStep(k)
      PROVE  Goal
  BY <1>1 DEF InviteStep, InviteArrives, Consume, TryAcquire, Free, EndReservation,
              Wake, legs, counter, TypeOK
<1>2. ASSUME NEW k \in Keys, CounterStep(k)
      PROVE  Goal
  <2>1. CASE Release(k)
    BY <2>1 DEF Release, EndReservation, Wake, legs, TypeOK
  <2>2. CASE Keep(k)
    BY <2>2 DEF Keep, NewReservation, legs, TypeOK
  <2>3. CASE TimerFires(k) \/ ForgetWithdrawn(k)
    BY <2>3 DEF TimerFires, ForgetWithdrawn, legs, counter
  <2>4. CASE Withdraw(k)
    BY <2>4 DEF Withdraw, EndReservation, Wake, legs, TypeOK
  <2>5. ASSUME NEW p \in firing, p[1] = k, Expire(k, p[2])
        PROVE  Goal
    BY <2>5 DEF Expire, EndReservation, Wake, legs, TypeOK
  <2> QED BY <1>2, <2>1, <2>2, <2>3, <2>4, <2>5 DEF CounterStep, Expired
<1>3. ASSUME NEW k \in Keys, LegStep(k)
      PROVE  Goal
  <2>0. leg \in [Keys -> LegStates] /\ reserved \in [Keys -> 0 .. made]
    BY DEF TypeOK
  <2>1. CASE ReserveWait(k)
    BY <2>0, <2>1 DEF ReserveWait, ReserveLocked, NewReservation, Goto, counter
  <2>2. CASE TryAgain(k)
    BY <2>0, <2>2 DEF TryAgain, ReserveLocked, NewReservation, Goto, counter, Same
  <2>3. CASE LastTry(k)
    BY <2>0, <2>3 DEF LastTry, ReserveLocked, NewReservation, Goto, counter
  <2>4. CASE SelectChanged(k) \/ SelectTimedOut(k) \/ SelectDone(k)
    BY <2>0, <2>4 DEF SelectChanged, SelectTimedOut, SelectDone, Unpark, Goto, counter
  <2>5. CASE Enter(k) \/ Leave(k) \/ HoldEnds(k) \/ CustomerGone(k)
    BY <2>0, <2>5 DEF Enter, Leave, HoldEnds, CustomerGone, Goto, counter
  <2> QED BY <1>3, <2>1, <2>2, <2>3, <2>4, <2>5 DEF LegStep, WaitStep
<1> QED BY <1>0, <1>1, <1>2, <1>3 DEF Next

\* A step that makes room wakes every parked leg.
LEMMA RoomWakes ==
    ASSUME TypeOK, Next, HasRoom', ~HasRoom
    PROVE  UNCHANGED leg /\ Wake
<1> DEFINE n == Cardinality(ReservedKeys)
           m == Cardinality(ReservedKeys')
<1>1. /\ inUse \in Nat /\ Cap \in Nat /\ InboundReserve \in Nat /\ n \in Nat
      /\ inUse' + m < Cap - InboundReserve
      /\ ~(inUse + n < Cap - InboundReserve)
  BY SlotsAssumption, MovesCount DEF SlotsAssumption, TypeOK, HasRoom, Taken
<1>2. ~Same /\ ~Acquired
  <2>1. Same \/ Acquired => m = n /\ inUse' \in {inUse, inUse + 1}
    BY DEF Same, Acquired, ReservedKeys
  <2> QED BY <1>1, <2>1
<1>3. ASSUME NEW k \in Keys PROVE ~Kept(k) /\ ~Reserves(k) /\ ~Consumes(k)
  <2>1. Kept(k) => m = n /\ inUse' = inUse
    BY MovesCount DEF Kept
  <2>2. Reserves(k) => m = n + 1 /\ inUse' = inUse
    BY MovesCount DEF Reserves
  <2>3. Consumes(k) => m = n - 1 /\ inUse' = inUse + 1
    BY MovesCount DEF Consumes
  <2> QED BY <1>1, <2>1, <2>2, <2>3
<1>4. Freed \/ \E k \in Keys : Ends(k)
  BY <1>2, <1>3, NextMoves DEF Moves
<1> QED BY <1>4 DEF Freed, Ends

\* The wake-up a parked leg needs is never missed.
LEMMA NoMissedWakeupStep ==
    ASSUME TypeOK, NoMissedWakeup, Next
    PROVE  NoMissedWakeup'
<1> SUFFICES ASSUME NEW j \in Keys, leg'[j] = "parked", j \notin woken'
             PROVE  ~CanReserve(j)'
  BY DEF NoMissedWakeup
<1>1. (leg[j] = "parked" /\ j \notin woken) \/ (~CanReserve(j) /\ Same)
  BY Parks
<1>2. ~CanReserve(j)
  BY <1>1 DEF NoMissedWakeup
<1>3. reserved'[j] = None
  BY <1>2, Parks DEF CanReserve
<1>4. ASSUME HasRoom' PROVE FALSE
  <2>1. UNCHANGED leg /\ Wake
    BY <1>2, <1>4, RoomWakes DEF CanReserve
  <2> QED BY <2>1 DEF Wake
<1> QED BY <1>3, <1>4 DEF CanReserve

\* A promised key is withdrawn, and InviteArrives takes no withdrawn key.
LEMMA WithdrawnIsRefusedStep ==
    ASSUME TypeOK, WithdrawnIsRefused, PromisedIsWithdrawn, Next
    PROVE  WithdrawnIsRefused' /\ PromisedIsWithdrawn'
<1> USE DEF WithdrawnIsRefused, PromisedIsWithdrawn
<1>1. ASSUME NEW k \in Keys, InviteStep(k)
      PROVE  WithdrawnIsRefused' /\ PromisedIsWithdrawn'
  BY <1>1 DEF InviteStep, InviteArrives, Consume, TryAcquire, Free, TypeOK
<1>2. ASSUME NEW k \in Outbound, CounterStep(k)
      PROVE  WithdrawnIsRefused' /\ PromisedIsWithdrawn'
  BY <1>2 DEF CounterStep, Release, Keep, TimerFires, Expired, Expire, Withdraw,
              ForgetWithdrawn
<1>3. ASSUME NEW k \in Outbound, LegStep(k)
      PROVE  WithdrawnIsRefused' /\ PromisedIsWithdrawn'
  BY <1>3 DEF LegStep, ReserveWait, WaitStep, HoldEnds, CustomerGone, Enter, TryAgain,
              LastTry, Leave, SelectChanged, SelectTimedOut, SelectDone, Unpark
<1> QED BY <1>1, <1>2, <1>3 DEF Next

\* Types are kept; that inUse and waiting stay natural numbers is what the
\* counts above are for.
LEMMA TypeOKStep ==
    ASSUME TypeOK, SlotPerDialog, WaitingAgrees, Next
    PROVE  TypeOK'
<1>0. Outbound \subseteq Keys
  BY SlotsAssumption DEF SlotsAssumption
<1>1. inUse' \in Nat /\ waiting' \in Nat
  BY SlotPerDialogStep, WaitingAgreesStep
<1> DEFINE MadeOK == made' \in Nat /\ made <= made' /\ reserved' \in [Keys -> 0 .. made']
<1>2. MadeOK
  <2>0. made \in Nat /\ reserved \in [Keys -> 0 .. made]
    BY DEF TypeOK
  <2>1. CASE UNCHANGED <<made, reserved>>
    BY <2>0, <2>1
  <2>2. ASSUME NEW k \in Keys, NewReservation(k)
        PROVE  MadeOK
    BY <2>0, <2>2 DEF NewReservation
  <2>3. ASSUME NEW k \in Keys, made' = made, reserved' = [reserved EXCEPT ![k] = None]
        PROVE  MadeOK
    BY <2>0, <2>3 DEF None
  <2>4. ASSUME NEW k \in Keys, InviteStep(k)
        PROVE  MadeOK
    BY <2>1, <2>3, <2>4 DEF InviteStep, InviteArrives, Consume, TryAcquire, Free,
                            EndReservation, counter
  <2>5. ASSUME NEW k \in Keys, CounterStep(k)
        PROVE  MadeOK
    BY <2>1, <2>2, <2>3, <2>5 DEF CounterStep, Release, Keep, TimerFires, Expired, Expire,
                                  Withdraw, ForgetWithdrawn, EndReservation, counter
  <2>6. ASSUME NEW k \in Keys, LegStep(k)
        PROVE  MadeOK
    <3>1. ReserveLocked(k) \/ UNCHANGED counter
      BY <2>6 DEF LegStep, ReserveWait, WaitStep, HoldEnds, CustomerGone, Enter, TryAgain,
                  LastTry, Leave, SelectChanged, SelectTimedOut, SelectDone, Unpark
    <3> QED BY <2>1, <2>2, <3>1 DEF ReserveLocked, counter
  <2> QED BY <1>0, <2>4, <2>5, <2>6 DEF Next
<1>3. firing' \subseteq Keys \X (1 .. made')
  <2>0. firing \subseteq Keys \X (1 .. made')
    BY <1>2 DEF TypeOK
  <2>1. firing' \subseteq firing \/ \E k \in Keys : TimerFires(k)
    <3>1. ASSUME NEW k \in Keys, InviteStep(k) PROVE firing' \subseteq firing
      BY <3>1 DEF InviteStep, InviteArrives, Consume, TryAcquire, Free
    <3>2. ASSUME NEW k \in Keys, CounterStep(k)
          PROVE  firing' \subseteq firing \/ TimerFires(k)
      BY <3>2 DEF CounterStep, Release, Keep, Expired, Expire, Withdraw, ForgetWithdrawn
    <3>3. ASSUME NEW k \in Keys, LegStep(k) PROVE firing' \subseteq firing
      BY <3>3 DEF LegStep, ReserveWait, WaitStep, HoldEnds, CustomerGone, Enter, TryAgain,
                  LastTry, Leave, SelectChanged, SelectTimedOut, SelectDone, Unpark
    <3> QED BY <1>0, <3>1, <3>2, <3>3 DEF Next
  <2>2. ASSUME NEW k \in Keys, TimerFires(k)
        PROVE  firing' \subseteq Keys \X (1 .. made')
    <3>1. reserved[k] \in 1 .. made'
      BY <1>2, <2>2 DEF TimerFires, TypeOK, None
    <3> QED BY <2>0, <2>2, <3>1 DEF TimerFires
  <2> QED BY <2>0, <2>1, <2>2
<1>4. stats' \in [Made : Nat, Consumed : Nat, Released : Nat, Expired : Nat]
  <2>1. stats \in [Made : Nat, Consumed : Nat, Released : Nat, Expired : Nat]
    BY DEF TypeOK
  <2> QED BY <2>1, NextMoves
          DEF Moves, Same, Acquired, Freed, Kept, Reserves, Consumes, Ends
<1> DEFINE RestOK ==
        /\ withdrawn' \subseteq Keys /\ promised' \subseteq Keys
        /\ woken' \subseteq Keys /\ timedOut' \subseteq Keys /\ canceled' \subseteq Keys
        /\ invite' \in [Keys -> InviteStates] /\ leg' \in [Keys -> LegStates]
<1>5. RestOK
  <2>0. /\ withdrawn \subseteq Keys /\ promised \subseteq Keys
        /\ woken \subseteq Keys /\ timedOut \subseteq Keys /\ canceled \subseteq Keys
        /\ invite \in [Keys -> InviteStates] /\ leg \in [Keys -> LegStates]
    BY DEF TypeOK
  <2>1. ASSUME NEW k \in Keys, InviteStep(k) PROVE RestOK
    BY <2>0, <2>1 DEF InviteStep, InviteArrives, Consume, TryAcquire, Free, Wake, legs,
                      InviteStates
  <2>2. ASSUME NEW k \in Keys, CounterStep(k) PROVE RestOK
    BY <2>0, <2>2 DEF CounterStep, Release, Keep, TimerFires, Expired, Expire, Withdraw,
                      ForgetWithdrawn, Wake, legs
  <2>3. ASSUME NEW k \in Keys, LegStep(k) PROVE RestOK
    BY <2>0, <2>3 DEF LegStep, ReserveWait, WaitStep, HoldEnds, CustomerGone, Enter,
                      TryAgain, LastTry, Leave, SelectChanged, SelectTimedOut, SelectDone,
                      Unpark, Goto, LegStates
  <2> QED BY <1>0, <2>1, <2>2, <2>3 DEF Next
<1> QED BY <1>1, <1>2, <1>3, <1>4, <1>5 DEF TypeOK

-----------------------------------------------------------------------------
(* The theorems.                                                           *)

\* Initially nothing is held, reserved or parked.
LEMMA InitIInv == Init => IInv
<1> SUFFICES ASSUME Init PROVE IInv
  OBVIOUS
<1>1. ReservedKeys = {} /\ HeldKeys = {} /\ Inside = {}
  BY DEF Init, ReservedKeys, HeldKeys, Inside, LegStates
<1>2. Cardinality({}) = 0
  BY FS_EmptySet
<1>3. TypeOK
  BY DEF Init, TypeOK, None, LegStates, InviteStates
<1>4. WithinCap
  BY <1>1, <1>2, SlotsAssumption DEF Init, WithinCap, Taken, SlotsAssumption
<1>5. EveryReservationEnds
  BY <1>1, <1>2 DEF Init, EveryReservationEnds
<1>6. SlotPerDialog /\ WaitingAgrees
  BY <1>1, <1>2 DEF Init, SlotPerDialog, WaitingAgrees
<1>7. NoMissedWakeup /\ WithdrawnIsRefused /\ PromisedIsWithdrawn
  BY DEF Init, NoMissedWakeup, WithdrawnIsRefused, PromisedIsWithdrawn
<1> QED BY <1>3, <1>4, <1>5, <1>6, <1>7 DEF IInv

\* The conjunction is inductive.
LEMMA NextIInv == IInv /\ [Next]_vars => IInv'
<1>1. ASSUME IInv, Next PROVE IInv'
  BY <1>1, TypeOKStep, WithinCapStep, EveryReservationEndsStep, SlotPerDialogStep,
     NoMissedWakeupStep, WaitingAgreesStep, WithdrawnIsRefusedStep DEF IInv
<1>2. ASSUME IInv, UNCHANGED vars PROVE IInv'
  BY <1>2 DEF IInv, vars, counter, legs, TypeOK, WithinCap, Taken, EveryReservationEnds,
       SlotPerDialog, NoMissedWakeup, WaitingAgrees, WithdrawnIsRefused,
       PromisedIsWithdrawn, CanReserve, HasRoom, ReservedKeys, HeldKeys, Inside
<1> QED BY <1>1, <1>2

\* IInv holds of every behaviour of the counter and its callers.
THEOREM SlotsInvariant == Spec => []IInv
<1> QED BY InitIInv, NextIInv, PTL DEF Spec

\* The variables keep their types, for every set of calls and every capacity.
THEOREM SlotsTypeOK == Spec => []TypeOK
<1>1. IInv => TypeOK
  BY DEF IInv
<1> QED BY <1>1, SlotsInvariant, PTL

\* The pool is never oversubscribed: TryAcquire, Reserve and Consume keep slots
\* in use and reserved within AICC_BOT_MAX_CALLS.
THEOREM SlotsWithinCap == Spec => []WithinCap
<1>1. IInv => WithinCap
  BY DEF IInv
<1> QED BY <1>1, SlotsInvariant, PTL

\* Every reservation ends in exactly one of Consumed, Released and Expired.
THEOREM SlotsReservationsEnd == Spec => []EveryReservationEnds
<1>1. IInv => EveryReservationEnds
  BY DEF IInv
<1> QED BY <1>1, SlotsInvariant, PTL

\* Every slot in use belongs to one accepted INVITE, so none leaks.
THEOREM SlotsPerDialog == Spec => []SlotPerDialog
<1>1. IInv => SlotPerDialog
  BY DEF IInv
<1> QED BY <1>1, SlotsInvariant, PTL

\* No parked leg misses the wake-up that would have given it a slot.
THEOREM SlotsNoMissedWakeup == Spec => []NoMissedWakeup
<1>1. IInv => NoMissedWakeup
  BY DEF IInv
<1> QED BY <1>1, SlotsInvariant, PTL

\* waiting counts the legs inside ReserveWait.
THEOREM SlotsWaitingAgrees == Spec => []WaitingAgrees
<1>1. IInv => WaitingAgrees
  BY DEF IInv
<1> QED BY <1>1, SlotsInvariant, PTL

\* A withdrawn key is refused to every INVITE that arrives later.
THEOREM SlotsWithdrawnIsRefused == Spec => []WithdrawnIsRefused
<1>1. IInv => WithdrawnIsRefused
  BY DEF IInv
<1> QED BY <1>1, SlotsInvariant, PTL

\* Only its own timer expires a reservation: an expiry armed before Keep, or
\* for an earlier reservation of the key, does nothing.
THEOREM SlotsKeptIsHeld == Spec => KeptIsHeld
<1>0. Outbound \subseteq Keys
  BY SlotsAssumption DEF SlotsAssumption
<1>1. ASSUME TypeOK, Next PROVE ExpiresItsOwn
  <2>0. /\ reserved \in [Keys -> 0 .. made]
        /\ firing \subseteq Keys \X (1 .. made)
        /\ stats \in [Made : Nat, Consumed : Nat, Released : Nat, Expired : Nat]
    BY <1>1 DEF TypeOK
  <2>1. ASSUME NEW k \in Keys, InviteStep(k) PROVE ExpiresItsOwn
    <3>1. stats'.Expired = stats.Expired
      BY <2>0, <2>1 DEF InviteStep, InviteArrives, Consume, TryAcquire, Free,
                        EndReservation, counter
    <3> QED BY <3>1 DEF ExpiresItsOwn
  <2>2. ASSUME NEW k \in Keys, CounterStep(k) PROVE ExpiresItsOwn
    <3>1. CASE Release(k) \/ Keep(k) \/ TimerFires(k) \/ Withdraw(k) \/ ForgetWithdrawn(k)
      <4>1. stats'.Expired = stats.Expired
        BY <2>0, <3>1 DEF Release, Keep, TimerFires, Withdraw, ForgetWithdrawn,
                          EndReservation, counter
      <4> QED BY <4>1 DEF ExpiresItsOwn
    <3>2. ASSUME NEW p \in firing, p[1] = k, Expire(k, p[2]) PROVE ExpiresItsOwn
      <4>1. p = <<k, p[2]>>
        BY <2>0, <3>2
      <4>2. CASE reserved[k] = p[2]
        <5>1. reserved' = [reserved EXCEPT ![k] = None]
          BY <3>2, <4>2 DEF Expire, EndReservation
        <5> QED BY <2>0, <3>2, <4>1, <4>2, <5>1 DEF ExpiresItsOwn
      <4>3. CASE reserved[k] # p[2]
        <5>1. stats' = stats
          BY <3>2, <4>3 DEF Expire
        <5> QED BY <5>1 DEF ExpiresItsOwn
      <4> QED BY <4>2, <4>3
    <3> QED BY <2>2, <3>1, <3>2 DEF CounterStep, Expired
  <2>3. ASSUME NEW k \in Keys, LegStep(k) PROVE ExpiresItsOwn
    <3>1. ReserveLocked(k) \/ UNCHANGED counter
      BY <2>3 DEF LegStep, ReserveWait, WaitStep, HoldEnds, CustomerGone, Enter, TryAgain,
                  LastTry, Leave, SelectChanged, SelectTimedOut, SelectDone, Unpark
    <3>2. stats'.Expired = stats.Expired
      BY <2>0, <3>1 DEF ReserveLocked, NewReservation, counter
    <3> QED BY <3>2 DEF ExpiresItsOwn
  <2> QED BY <1>0, <1>1, <2>1, <2>2, <2>3 DEF Next
<1>2. TypeOK /\ [Next]_vars => [ExpiresItsOwn]_vars
  BY <1>1
<1> QED BY <1>2, SlotsTypeOK, PTL DEF Spec, KeptIsHeld

=============================================================================
