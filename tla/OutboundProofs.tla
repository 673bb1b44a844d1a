--------------------------- MODULE OutboundProofs ---------------------------
(***************************************************************************)
(* Outbound calling for every set of legs and calls, every number of drops *)
(* and crashes, and whether or not an answer waits for the originate's     *)
(* reply: types (TypeOK), a continuation runs once (ContinuationOnce), no  *)
(* leg is ended under a customer who talks to the bot (TalkingIsNotEnded), *)
(* and a slot kept for a bridge has someone to give it back                *)
(* (KeptIsWatched). The second half is about the legs of one call.         *)
(*                                                                         *)
(* The invariant is one of each leg (LegOk), so a step of one leg has to   *)
(* be followed on that leg alone: of the others it is enough that the step *)
(* leaves them alone (Local, Frame).                                       *)
(***************************************************************************)
EXTENDS Outbound, SequenceTheorems, TLAPS

-----------------------------------------------------------------------------
(* Types, by the groups in which variables change.                         *)

Kinds == {"create", "answer", "bot", "hangup"}

SwitchType == SwitchTypeOK

RequestType ==
    /\ req \in [Legs -> {"idle", "checked", "claimed", "notLive", "cleared", "lined", "sent",
                         "armed", "done"}]
    /\ placing \subseteq Calls

TrackingType ==
    /\ job \in [Legs -> {"none", "expected", "tracked", "held"}]
    /\ kept \in [Legs -> {"none", "ok", "fail"}]
    /\ expiry \in [Legs -> {"none", "live", "idle"}]
    /\ seen \subseteq Legs

PendType == pend \in [Legs -> SUBSET {"armed", "answered", "released", "spent"}]

MemoryType == late \subseteq Legs /\ answered \subseteq Legs /\ reaped \subseteq Legs

LinesType == lines \subseteq Calls

BridgingType ==
    /\ cont \in [Legs -> {"none", "start", "waiting", "go", "sent", "window", "expired"}]
    /\ holds \subseteq Legs /\ backed \subseteq Legs
    /\ slot \in [Calls -> {"none", "reserved", "kept", "taken"}]
    /\ withdrawn \subseteq Calls
    /\ ran \in [Legs -> Nat]

RecoveryType ==
    /\ ready \in BOOLEAN /\ rec \in {"idle", "due", "adopt", "recover"}
    /\ listing \in [Legs -> UpStages \cup {"none"}]
    /\ todo \subseteq Legs /\ known \subseteq Legs

RegistryType == reg \subseteq Legs /\ at \in {NoEvent} \cup [leg : Legs, kind : Kinds]

LedgerType ==
    /\ cdr \in [Calls -> {"none", "failure", "call"}]
    /\ due \subseteq Calls /\ failing \subseteq Legs

SpentType == spent \in [budget : Budgets, drops : Nat, crashes : Nat, errors : Nat]

Typed ==
    /\ SwitchType /\ RequestType /\ TrackingType /\ PendType /\ MemoryType /\ LinesType
    /\ BridgingType /\ RecoveryType /\ RegistryType /\ LedgerType /\ SpentType

-----------------------------------------------------------------------------
(* The inductive invariant.                                                *)

Past == {"answered", "parked", "dialing", "invited", "bridged", "gone"}

\* No listing and no ledger write has failed.
Calm == spent.errors = 0

AtOf(l, k) == at = [leg |-> l, kind |-> k]

Occurs(q, e) == \E i \in 1..Len(q) : q[i] = e

\* Nothing is told of a leg after its hangup.
Sealed(q) == \A i \in 1..Len(q) : q[i] = "hangup" => i = Len(q)

\* What is told of a leg is true of its channel, and there is no channel before
\* the originate.
TellOk(l) ==
    /\ Occurs(events[l], "answer") \/ AtOf(l, "answer") => chan[l] \in Past
    /\ Occurs(events[l], "hangup") \/ AtOf(l, "hangup") => chan[l] = "gone"
    /\ Sealed(events[l])
    /\ AtOf(l, "hangup") => events[l] = <<>>
    /\ req[l] \notin {"sent", "armed", "done"} => chan[l] = "none"
    /\ req[l] \in {"lined", "sent", "armed"} => job[l] = "expected"
    /\ req[l] \in {"sent", "armed"} => chan[l] # "none"
    /\ l \in dying => chan[l] \notin {"none", "queued", "failed"}

\* A continuation that has run leaves nothing armed, and nothing that could arm
\* the leg again: a listing that shows it ringing is older than its answer.
RunOk(l) ==
    /\ ran[l] \in {0, 1}
    /\ req[l] \notin {"armed", "done"} => pend[l] = {} /\ ran[l] = 0
    /\ ran[l] = 0 =>
           /\ cont[l] = "none" /\ l \notin transfers
           /\ chan[l] \notin {"dialing", "invited", "bridged"}
    /\ ran[l] = 1 => pend[l] = {} /\ chan[l] \in Past
    /\ "answered" \in pend[l] => chan[l] \in Past
    /\ listing[l] = "ringing" =>
           ran[l] = 0 /\ "answered" \notin pend[l] /\ ~AtOf(l, "answer")
    /\ listing[l] = "parked" => chan[l] \in Past
    /\ listing[l] # "none" => chan[l] # "none"
    /\ cont[l] \notin {"none", "start"} => l \notin AgentLegs
    /\ cont[l] \in {"start", "waiting", "go"} =>
           l \notin transfers /\ chan[l] \notin {"dialing", "invited", "bridged"}

\* A continuation past its start has its hold, unless its hangup was handled.
HoldOk(l) ==
    cont[l] \in {"waiting", "go", "sent", "window", "expired"} =>
       \/ l \in holds
       \/ chan[l] = "gone" /\ events[l] = <<>> /\ \A k \in Kinds : ~AtOf(l, k)

\* A customer behind a reservation who talks to the bot has consumed it. A leg
\* being ended, by other than recovery, has nothing left that would bridge it:
\* an INVITE that comes for it is refused.
TalkOk(l) ==
    /\ l \in backed =>
           cont[l] \notin {"start", "waiting", "go"} /\ ran[l] = 1 /\ l \notin AgentLegs
    /\ l \in backed /\ chan[l] = "bridged" => slot[CallOf[l]] = "taken"
    /\ l \in dying \ reaped =>
           /\ pend[l] = {} /\ cont[l] \notin {"start", "waiting", "go"}
           /\ req[l] \in {"armed", "done"} /\ listing[l] # "ringing"
           /\ l \in backed => CallOf[l] \in withdrawn
           /\ chan[l] = "ringing" => ~ready /\ rec \in {"idle", "due"}

LegOk(l) == TellOk(l) /\ (Calm => RunOk(l) /\ HoldOk(l) /\ TalkOk(l))

\* The reconciliation runs before events are delivered, and works from a listing
\* of its own.
RecOk ==
    /\ rec # "idle" => link # "up"
    /\ rec \in {"idle", "due"} => \A l \in Legs : listing[l] = "none"

\* The leg gives its call's slot back.
Watches(l) == l \in holds \/ (l \in backed /\ cont[l] \in {"sent", "window", "expired"})

KeptOk(c) == slot[c] = "kept" => \E l \in Legs : CallOf[l] = c /\ Watches(l)

Inv ==
    /\ Typed
    /\ \A l \in Legs : LegOk(l)
    /\ Calm => RecOk /\ \A c \in Calls : KeptOk(c)

-----------------------------------------------------------------------------
(* Lemmas about types.                                                     *)

LEMMA TypedIsTypeOK == Typed => TypeOK
BY DEF Typed, TypeOK, SwitchType, RequestType, TrackingType, PendType, MemoryType, LinesType,
       BridgingType, RecoveryType, RegistryType, LedgerType

LEMMA Stay ==
    /\ SwitchType /\ UNCHANGED switchVars => SwitchType'
    /\ RequestType /\ UNCHANGED request => RequestType'
    /\ TrackingType /\ UNCHANGED tracking => TrackingType'
    /\ PendType /\ UNCHANGED pend => PendType'
    /\ MemoryType /\ UNCHANGED memory => MemoryType'
    /\ LinesType /\ UNCHANGED lines => LinesType'
    /\ BridgingType /\ UNCHANGED bridging => BridgingType'
    /\ RecoveryType /\ UNCHANGED recovery => RecoveryType'
    /\ RegistryType /\ UNCHANGED <<reg, at>> => RegistryType'
    /\ LedgerType /\ UNCHANGED ledger => LedgerType'
    /\ SpentType /\ UNCHANGED spent => SpentType'
<1>1. SwitchType /\ UNCHANGED switchVars => SwitchType'
  BY DEF SwitchType, SwitchTypeOK, switchVars
<1>2. RequestType /\ UNCHANGED request => RequestType' BY DEF RequestType, request
<1>3. TrackingType /\ UNCHANGED tracking => TrackingType' BY DEF TrackingType, tracking
<1>4. PendType /\ UNCHANGED pend => PendType' BY DEF PendType
<1>5. MemoryType /\ UNCHANGED memory => MemoryType' BY DEF MemoryType, memory
<1>6. LinesType /\ UNCHANGED lines => LinesType' BY DEF LinesType
<1>7. BridgingType /\ UNCHANGED bridging => BridgingType' BY DEF BridgingType, bridging
<1>8. RecoveryType /\ UNCHANGED recovery => RecoveryType' BY DEF RecoveryType, recovery
<1>9. RegistryType /\ UNCHANGED <<reg, at>> => RegistryType' BY DEF RegistryType
<1>10. LedgerType /\ UNCHANGED ledger => LedgerType' BY DEF LedgerType, ledger
<1>11. SpentType /\ UNCHANGED spent => SpentType' BY DEF SpentType
<1> QED BY <1>1, <1>2, <1>3, <1>4, <1>5, <1>6, <1>7, <1>8, <1>9, <1>10, <1>11

\* A fault is counted, and a failed listing or write ends the calm.
LEMMA FaultCounted ==
    ASSUME SpentType, NEW f \in {"drops", "crashes", "errors"}, Faults(f)
    PROVE  SpentType' /\ (Calm' => Calm /\ f # "errors")
<1>1. PICK n \in Nat : spent[f] = n BY DEF SpentType
<1>2. spent' = [spent EXCEPT ![f] = n + 1] BY <1>1 DEF Faults
<1>3. CASE f = "drops" BY <1>1, <1>2, <1>3 DEF SpentType, Calm
<1>4. CASE f = "crashes" BY <1>1, <1>2, <1>4 DEF SpentType, Calm
<1>5. CASE f = "errors"
  <2>1. SpentType' /\ spent'.errors = n + 1 BY <1>1, <1>2, <1>5 DEF SpentType
  <2> QED BY <2>1, <1>1 DEF Calm
<1> QED BY <1>3, <1>4, <1>5

LEMMA ForgetType == ASSUME TrackingType, NEW l \in Legs, Forget(l) PROVE TrackingType'
BY DEF TrackingType, Forget

LEMMA ReleaseType ==
    ASSUME PendType, BridgingType, NEW l \in Legs, ReleaseLeg(l),
           UNCHANGED <<holds, backed, slot, withdrawn>>
    PROVE  PendType' /\ BridgingType'
<1>1. PendType' BY DEF PendType, ReleaseLeg, Disarm
<1>2. BridgingType' BY DEF BridgingType, ReleaseLeg, Fire
<1> QED BY <1>1, <1>2

LEMMA SettleType ==
    ASSUME Typed, NEW l \in Legs, NEW r, SettleJob(l, r),
           UNCHANGED <<holds, backed, slot, withdrawn, cdr, due>>
    PROVE  PendType' /\ LinesType' /\ BridgingType' /\ LedgerType' /\ placing' \subseteq Calls
<1>1. PendType' /\ BridgingType'
  <2>1. CASE r = "ok" BY <2>1, ReleaseType DEF SettleJob, Typed
  <2>2. CASE r # "ok"
    BY <2>2 DEF SettleJob, FailPlacement, Disarm, Typed, PendType, BridgingType
  <2> QED BY <2>1, <2>2
<1>2. LinesType' BY DEF SettleJob, FailPlacement, Typed, LinesType
<1>3. LedgerType' BY DEF SettleJob, FailPlacement, Typed, LedgerType
<1>4. placing' \subseteq Calls BY DEF SettleJob, FailPlacement, Typed, RequestType
<1> QED BY <1>1, <1>2, <1>3, <1>4

-----------------------------------------------------------------------------
(* Lemmas about the events told of a leg.                                  *)

LEMMA Queued ==
    ASSUME NEW q \in Seq(Kinds)
    PROVE  /\ \A k, e \in Kinds : Occurs(Append(q, e), k) <=> Occurs(q, k) \/ k = e
           /\ \A e \in Kinds : Append(q, e) \in Seq(Kinds)
           /\ Sealed(q) /\ ~Occurs(q, "hangup") => \A e \in Kinds : Sealed(Append(q, e))
<1>1. ASSUME NEW k \in Kinds, NEW e \in Kinds
      PROVE  Occurs(Append(q, e), k) <=> Occurs(q, k) \/ k = e
  <2>1. /\ Len(Append(q, e)) = Len(q) + 1 /\ Append(q, e)[Len(q) + 1] = e
        /\ \A i \in 1..Len(q) : Append(q, e)[i] = q[i]
    OBVIOUS
  <2> QED BY <2>1 DEF Occurs
<1>2. Sealed(q) /\ ~Occurs(q, "hangup") => \A e \in Kinds : Sealed(Append(q, e))
  BY DEF Occurs, Sealed
<1> QED BY <1>1, <1>2

LEMMA Empty == Sealed(<<>>) /\ \A e \in Kinds : ~Occurs(<<>>, e)
BY DEF Occurs, Sealed

LEMMA Dequeued ==
    ASSUME NEW q \in Seq(Kinds), q # <<>>
    PROVE  /\ Head(q) \in Kinds /\ Tail(q) \in Seq(Kinds)
           /\ \A k \in Kinds : Occurs(q, k) <=> Occurs(Tail(q), k) \/ k = Head(q)
           /\ Sealed(q) => Sealed(Tail(q)) /\ (Head(q) = "hangup" => Tail(q) = <<>>)
<1>1. /\ Head(q) \in Kinds /\ Tail(q) \in Seq(Kinds)
      /\ Len(Tail(q)) = Len(q) - 1 /\ \A i \in 1..Len(Tail(q)) : Tail(q)[i] = q[i + 1]
  OBVIOUS
<1>2. Head(q) = q[1] /\ Len(q) >= 1 OBVIOUS
<1>3. ASSUME NEW k \in Kinds PROVE Occurs(q, k) <=> Occurs(Tail(q), k) \/ k = Head(q)
  <2>1. ASSUME Occurs(q, k), k # Head(q) PROVE Occurs(Tail(q), k)
    <3>1. PICK i \in 1..Len(q) : q[i] = k BY <2>1 DEF Occurs
    <3>2. i - 1 \in 1..Len(Tail(q)) /\ Tail(q)[i - 1] = k BY <3>1, <2>1, <1>1, <1>2
    <3> QED BY <3>2 DEF Occurs
  <2>2. ASSUME Occurs(Tail(q), k) PROVE Occurs(q, k)
    <3>1. PICK i \in 1..Len(Tail(q)) : Tail(q)[i] = k BY <2>2 DEF Occurs
    <3>2. i + 1 \in 1..Len(q) /\ q[i + 1] = k BY <3>1, <1>1
    <3> QED BY <3>2 DEF Occurs
  <2>3. k = Head(q) => Occurs(q, k) BY <1>2 DEF Occurs
  <2> QED BY <2>1, <2>2, <2>3
<1>4. ASSUME Sealed(q) PROVE Sealed(Tail(q)) /\ (Head(q) = "hangup" => Tail(q) = <<>>)
  <2>1. ASSUME NEW i \in 1..Len(Tail(q)), Tail(q)[i] = "hangup" PROVE i = Len(Tail(q))
    <3>1. i + 1 \in 1..Len(q) /\ q[i + 1] = "hangup" BY <1>1, <1>2, <2>1
    <3>2. i + 1 = Len(q) BY <3>1, <1>4 DEF Sealed
    <3> QED BY <3>2, <1>1
  <2>2. ASSUME Head(q) = "hangup" PROVE Tail(q) = <<>>
    <3>1. 1 \in 1..Len(q) /\ q[1] = "hangup" BY <1>2, <2>2
    <3>2. Len(q) = 1 BY <3>1, <1>4 DEF Sealed
    <3>3. Len(Tail(q)) = 0 BY <3>2, <1>1
    <3> QED BY <3>3, <1>1, EmptySeq
  <2> QED BY <2>1, <2>2 DEF Sealed
<1> QED BY <1>1, <1>3, <1>4

\* A refused INVITE: the bot's leg, then the customer's hangup.
LEMMA RefusalQueued ==
    ASSUME NEW q \in Seq(Kinds), Sealed(q), ~Occurs(q, "hangup")
    PROVE  LET r == q \o <<"bot", "hangup">>
           IN  /\ r \in Seq(Kinds) /\ Sealed(r)
               /\ Occurs(r, "answer") <=> Occurs(q, "answer")
<1>1. PICK p \in Seq(Kinds) : p = Append(q, "bot") BY Queued DEF Kinds
<1>2. ~Occurs(p, "hangup") /\ Sealed(p) /\ (Occurs(p, "answer") <=> Occurs(q, "answer"))
  BY <1>1, Queued DEF Kinds
<1>3. /\ Append(p, "hangup") \in Seq(Kinds) /\ Sealed(Append(p, "hangup"))
      /\ Occurs(Append(p, "hangup"), "answer") <=> Occurs(p, "answer")
  BY <1>2, Queued DEF Kinds
<1>4. q \o <<"bot", "hangup">> = Append(p, "hangup") BY <1>1
<1> QED BY <1>2, <1>3, <1>4

-----------------------------------------------------------------------------
(* A step of one leg leaves the others alone.                              *)

Shape ==
    /\ DOMAIN chan = Legs /\ DOMAIN events = Legs /\ DOMAIN req = Legs /\ DOMAIN job = Legs
    /\ DOMAIN ran = Legs /\ DOMAIN pend = Legs /\ DOMAIN cont = Legs /\ DOMAIN listing = Legs
    /\ DOMAIN slot = Calls
    /\ \A l \in Legs :
           CallOf[l] \in Calls /\ events[l] \in Seq(Kinds) /\ ran[l] \in Nat /\ chan[l] \in Stages

LEMMA Shaped == Typed => Shape
BY OutboundAssumption
   DEF Typed, Shape, SwitchType, SwitchTypeOK, RequestType, TrackingType, PendType,
       BridgingType, RecoveryType, Kinds

\* All that LegOk(m) and Watches(m) are about stays, or moves in their favour.
Keeps(m) ==
    /\ chan'[m] = chan[m] /\ events'[m] = events[m] /\ req'[m] = req[m] /\ job'[m] = job[m]
    /\ ran'[m] = ran[m] /\ pend'[m] = pend[m] /\ cont'[m] = cont[m]
    /\ (m \in dying' <=> m \in dying) /\ (m \in transfers' <=> m \in transfers)
    /\ (m \in holds' <=> m \in holds) /\ (m \in backed' <=> m \in backed)
    /\ (m \in reaped' <=> m \in reaped)
    /\ \A k \in Kinds : at' = [leg |-> m, kind |-> k] => at = [leg |-> m, kind |-> k]
    /\ slot[CallOf[m]] = "taken" => slot'[CallOf[m]] = "taken"
    /\ CallOf[m] \in withdrawn => CallOf[m] \in withdrawn'

Local(l) ==
    /\ \A m \in Legs \ {l} : Keeps(m)
    /\ UNCHANGED <<link, ready, rec, listing>>
    /\ Calm' => Calm

\* A kept slot keeps its watcher.
WatchKept(l) ==
    /\ \A c \in Calls : slot'[c] = "kept" => slot[c] = "kept" \/ (CallOf[l] = c /\ Watches(l)')
    /\ Watches(l) => Watches(l)' \/ slot'[CallOf[l]] # "kept"

LEMMA Frame ==
    ASSUME NEW m \in Legs, LegOk(m), Keeps(m), UNCHANGED <<ready, rec, listing>>, Calm' => Calm
    PROVE  LegOk(m)'
<1>1. TellOk(m)' BY DEF LegOk, TellOk, Keeps, AtOf, Kinds
<1>2. Calm' => RunOk(m)' BY DEF LegOk, RunOk, Keeps, AtOf, Kinds
<1>3. Calm' => HoldOk(m)' BY DEF LegOk, HoldOk, Keeps, AtOf
<1>4. Calm' => TalkOk(m)' BY DEF LegOk, TalkOk, Keeps
<1> QED BY <1>1, <1>2, <1>3, <1>4 DEF LegOk

LEMMA LegStep ==
    ASSUME Inv, NEW l \in Legs, Typed', Local(l), LegOk(l)', Calm' => WatchKept(l)
    PROVE  Inv'
<1>1. \A m \in Legs : LegOk(m)' BY Frame DEF Inv, Local
<1>2. ASSUME Calm', NEW c \in Calls, slot'[c] = "kept"
      PROVE  \E m \in Legs : CallOf[m] = c /\ Watches(m)'
  <2>1. CASE CallOf[l] = c /\ Watches(l)' BY <2>1
  <2>2. CASE slot[c] = "kept" /\ ~(CallOf[l] = c /\ Watches(l)')
    <3>1. PICK m \in Legs : CallOf[m] = c /\ Watches(m) BY <1>2, <2>2 DEF Inv, KeptOk, Local
    <3>2. m # l BY <1>2, <2>2, <3>1 DEF WatchKept
    <3>3. Keeps(m) BY <3>2 DEF Local
    <3>4. Watches(m)' BY <3>1, <3>3 DEF Keeps, Watches
    <3> QED BY <3>1, <3>4
  <2> QED BY <1>2, <2>1, <2>2 DEF WatchKept
<1>3. Calm' => RecOk' BY DEF Inv, Local, RecOk
<1>4. Calm' => \A c \in Calls : KeptOk(c)' BY <1>2 DEF KeptOk
<1> QED BY <1>1, <1>3, <1>4 DEF Inv

\* What a result does to a leg's continuation: it may start it, with the answer
\* there; otherwise it leaves it, and arms nothing.
Settled(l) ==
    /\ \A m \in Legs \ {l} : pend'[m] = pend[m] /\ cont'[m] = cont[m] /\ ran'[m] = ran[m]
    /\ \/ /\ "answered" \in pend[l]
          /\ pend'[l] = {} /\ cont'[l] = "start" /\ ran'[l] = ran[l] + 1
       \/ /\ cont'[l] = cont[l] /\ ran'[l] = ran[l]
          /\ pend[l] = {} => pend'[l] = {}
          /\ "answered" \notin pend'[l]

LEMMA Releases == ASSUME Shape, NEW l \in Legs, ReleaseLeg(l) PROVE Settled(l)
BY DEF Shape, ReleaseLeg, Disarm, Fire, Settled

LEMMA Settles == ASSUME Shape, NEW l \in Legs, NEW r, SettleJob(l, r) PROVE Settled(l)
BY Releases DEF Shape, SettleJob, FailPlacement, Disarm, Settled

-----------------------------------------------------------------------------
(* One step per action.                                                    *)

\* Every action keeps the types of what it changes.
LEMMA TypedStep == ASSUME Typed, Next PROVE Typed'
<1> USE OutboundAssumption DEF switchVars, request, tracking, memory, bridging, recovery, ledger
<1>1. ASSUME NEW l \in Legs, CheckPlaced(l) PROVE Typed'
  BY <1>1, Stay DEF Typed, RequestType, CheckPlaced
<1>2. ASSUME NEW l \in Legs, ClaimCall(l) PROVE Typed'
  BY <1>2, Stay DEF Typed, RequestType, ClaimCall
<1>3. ASSUME NEW l \in Legs, AskLive(l) PROVE Typed'
  BY <1>3, Stay DEF Typed, RequestType, AskLive, Answered
<1>4. ASSUME NEW l \in Legs, AskLedger(l) PROVE Typed'
  BY <1>4, Stay DEF Typed, RequestType, AskLedger, Answered
<1>5. ASSUME NEW l \in Legs, NEW swept \in SUBSET lines, TakeLine(l, swept) PROVE Typed'
  BY <1>5, Stay DEF Typed, RequestType, TrackingType, LinesType, TakeLine
<1>6. ASSUME NEW l \in Legs, Originate(l) PROVE Typed'
  <2>1. SwitchType' BY <1>6 DEF Typed, SwitchType, SwitchTypeOK, Stages, Originate
  <2>2. RequestType' /\ LinesType' BY <1>6 DEF Typed, RequestType, LinesType, Originate
  <2>3. TrackingType' BY <1>6, Stay, ForgetType DEF Typed, Originate
  <2> QED BY <1>6, <2>1, <2>2, <2>3, Stay DEF Typed, Originate
<1>7. ASSUME NEW l \in Legs, Arm(l) PROVE Typed'
  BY <1>7, Stay DEF Typed, RequestType, PendType, Arm
<1>8. ASSUME NEW l \in Legs, AttachJob(l) PROVE Typed'
  BY <1>8, Stay, ForgetType, ReleaseType, SettleType
     DEF Typed, RequestType, TrackingType, PendType, LinesType, BridgingType, LedgerType,
         AttachJob
<1>9. ASSUME NEW l \in Legs, HoldUnconfirmed(l) PROVE Typed'
  BY <1>9, Stay, ForgetType, ReleaseType, SettleType
     DEF Typed, RequestType, TrackingType, PendType, LinesType, BridgingType, LedgerType,
         HoldUnconfirmed
<1>10. ASSUME NEW l \in Legs, InviteBot(l) \/ AnswerInvite(l) PROVE Typed'
  <2>1. events \in [Legs -> Seq(Kinds)] /\ chan \in [Legs -> Stages]
    BY DEF Typed, SwitchType, SwitchTypeOK, Kinds
  <2>2. events[l] \o <<"bot", "hangup">> \in Seq(Kinds)
    <3>1. <<"bot", "hangup">> \in Seq(Kinds) BY DEF Kinds
    <3> QED BY <2>1, <3>1
  <2>3. chan' \in [Legs -> Stages]
    BY <1>10, <2>1 DEF InviteBot, AnswerInvite, RefuseInvite, Stages
  <2>4. events' \in [Legs -> Seq(Kinds)]
    <3>1. Append(events[l], "bot") \in Seq(Kinds) BY <2>1, Queued DEF Kinds
    <3>2. \/ UNCHANGED events
          \/ events' = [events EXCEPT ![l] = Append(events[l], "bot")]
          \/ events' = [events EXCEPT ![l] = events[l] \o <<"bot", "hangup">>]
      BY <1>10 DEF InviteBot, AnswerInvite, RefuseInvite, Tell
    <3> QED BY <2>1, <2>2, <3>1, <3>2
  <2>5. SwitchType'
    BY <1>10, <2>3, <2>4
       DEF Typed, SwitchType, SwitchTypeOK, InviteBot, AnswerInvite, RefuseInvite, Kinds
  <2>6. BridgingType'
    BY <1>10 DEF Typed, BridgingType, InviteBot, AnswerInvite, FreeSlot, bridging
  <2> QED BY <1>10, <2>5, <2>6, Stay DEF Typed, InviteBot, AnswerInvite
<1>11. ASSUME NEW l \in Legs, Dispatch(l) PROVE Typed'
  BY <1>11, Stay, Dequeued
     DEF Typed, SwitchType, SwitchTypeOK, Stages, Kinds, LinesType, RegistryType, Kinds,
         NoEvent, LedgerType, Dispatch, Leave
<1>12. ASSUME NEW l \in Legs, NoteChannel(l) PROVE Typed'
  <2>1. SwitchType'
    BY <1>12 DEF Typed, SwitchType, SwitchTypeOK, Stages, Kinds, NoteChannel, Reap, EndLegs
  <2>2. TrackingType' BY <1>12 DEF Typed, TrackingType, NoteChannel, Reap, EndLegs
  <2>3. PendType' BY <1>12 DEF Typed, PendType, NoteChannel, Reap, EndLegs
  <2>4. MemoryType' BY <1>12 DEF Typed, MemoryType, NoteChannel, Reap, EndLegs
  <2>5. RegistryType'
    BY <1>12 DEF Typed, RegistryType, Kinds, NoEvent, NoteChannel, Reap, EndLegs
  <2> QED BY <1>12, <2>1, <2>2, <2>3, <2>4, <2>5, Stay DEF Typed, NoteChannel, Reap, EndLegs
<1>13. ASSUME NEW l \in Legs, HandleAnswer(l) PROVE Typed'
  <2>1. SwitchType'
    BY <1>13
       DEF Typed, SwitchType, SwitchTypeOK, Stages, Kinds, HandleAnswer, Disarm, Fire,
           EndLegs
  <2>2. PendType' BY <1>13 DEF Typed, PendType, HandleAnswer, Disarm, Fire, EndLegs
  <2>3. MemoryType' BY <1>13 DEF Typed, MemoryType, HandleAnswer, Disarm, Fire, EndLegs
  <2>4. BridgingType' BY <1>13 DEF Typed, BridgingType, HandleAnswer, Disarm, Fire, EndLegs
  <2>5. RegistryType'
    BY <1>13 DEF Typed, RegistryType, Kinds, NoEvent, HandleAnswer, Disarm, Fire, EndLegs
  <2> QED
    BY <1>13, <2>1, <2>2, <2>3, <2>4, <2>5, Stay
       DEF Typed, HandleAnswer, Disarm, Fire, EndLegs
<1>14. ASSUME NEW l \in Legs, HandleHangup(l) PROVE Typed'
  BY <1>14, Stay
     DEF Typed, PendType, BridgingType, RegistryType, Kinds, NoEvent, HandleHangup,
         SettleBridge, Disarm, FreeSlot
<1>15. ASSUME NEW l \in Legs, HandleBotLeg(l) PROVE Typed'
  BY <1>15, Stay
     DEF Typed, BridgingType, RegistryType, Kinds, NoEvent, HandleBotLeg, SettleBridge
<1>16. ASSUME NEW l \in Legs, HandleJob(l) PROVE Typed'
  <2>1. SwitchType' BY <1>16 DEF Typed, SwitchType, SwitchTypeOK, HandleJob
  <2>2. result[l] \in {"ok", "fail"}
    BY <1>16 DEF Typed, SwitchType, SwitchTypeOK, HandleJob
  <2>3. CASE job[l] = "expected"
    <3>1. /\ kept' = [kept EXCEPT ![l] = result[l]]
          /\ UNCHANGED <<job, seen, expiry, pend, cont, ran, placing, lines, failing>>
      BY <1>16, <2>3 DEF HandleJob
    <3>2. TrackingType' BY <2>2, <3>1 DEF Typed, TrackingType
    <3> QED BY <1>16, <2>1, <3>1, <3>2, Stay DEF Typed, HandleJob
  <2>4. CASE job[l] \in {"tracked", "held"}
    <3>1. Forget(l) /\ SettleJob(l, result[l]) BY <1>16, <2>4 DEF HandleJob
    <3>2. TrackingType' BY <3>1, ForgetType DEF Typed
    <3>3. PendType' /\ LinesType' /\ BridgingType' /\ LedgerType' /\ placing' \subseteq Calls
      BY <1>16, <3>1, SettleType DEF HandleJob
    <3>4. RequestType' BY <1>16, <3>3 DEF Typed, RequestType, HandleJob
    <3> QED BY <1>16, <2>1, <3>2, <3>3, <3>4, Stay DEF Typed, HandleJob
  <2>5. CASE job[l] = "none"
    <3>1. /\ IF result[l] = "ok" THEN ReleaseLeg(l) ELSE UNCHANGED <<pend, cont, ran>>
          /\ UNCHANGED <<tracking, placing, lines, failing>>
      BY <1>16, <2>5 DEF HandleJob
    <3>2. PendType' /\ BridgingType' BY <1>16, <3>1, ReleaseType, Stay DEF Typed, HandleJob
    <3> QED BY <1>16, <2>1, <3>1, <3>2, Stay DEF Typed, HandleJob
  <2> QED BY <2>3, <2>4, <2>5 DEF Typed, TrackingType
<1>17. ASSUME NEW l \in Legs, WindowEnds(l) PROVE Typed'
  BY <1>17, Stay DEF Typed, PendType, WindowEnds
<1>18. ASSUME NEW l \in Legs, JobExpires(l) PROVE Typed'
  BY <1>18, Stay, ForgetType DEF Typed, RequestType, LinesType, JobExpires
<1>19. ASSUME NEW l \in Legs, UnconfirmedAsk(l) PROVE Typed'
  BY <1>19, Stay DEF Typed, TrackingType, UnconfirmedAsk
<1>20. ASSUME NEW l \in Legs, UnconfirmedExpires(l) PROVE Typed'
  BY <1>20, Stay, ForgetType
     DEF Typed, RequestType, PendType, MemoryType, LinesType, LedgerType,
         UnconfirmedExpires, FailPlacement, Disarm
<1>21. ASSUME NEW l \in Legs, WriteFailure(l) PROVE Typed'
  BY <1>21, Stay, FaultCounted DEF Typed, RequestType, LedgerType, WriteFailure
<1>22. ASSUME NEW l \in Legs, TakeSlot(l) PROVE Typed'
  BY <1>22, Stay DEF Typed, BridgingType, TakeSlot, Goto
<1>23. ASSUME NEW l \in Legs, SlotReserved(l) PROVE Typed'
  BY <1>23, Stay DEF Typed, BridgingType, SlotReserved, Goto, FreeSlot
<1>24. ASSUME NEW l \in Legs, Overflow(l) PROVE Typed'
  BY <1>24, Stay
     DEF Typed, SwitchType, SwitchTypeOK, Stages, Kinds, BridgingType, Overflow, Goto,
         FreeSlot, EndLegs
<1>25. ASSUME NEW l \in Legs, SendBridge(l) PROVE Typed'
  <2>1. SwitchType'
    BY <1>25 DEF Typed, SwitchType, SwitchTypeOK, Stages, Kinds, SendBridge, Goto, FreeSlot
  <2>2. BridgingType' BY <1>25 DEF Typed, BridgingType, SendBridge, Goto, FreeSlot
  <2> QED BY <1>25, <2>1, <2>2, Stay DEF Typed, SendBridge, Goto, FreeSlot
<1>26. ASSUME NEW l \in Legs, BridgeReplied(l) PROVE Typed'
  BY <1>26, Stay DEF Typed, BridgingType, BridgeReplied, Goto, FreeSlot
<1>27. ASSUME NEW l \in Legs, BridgeUnconfirmed(l) PROVE Typed'
  BY <1>27, Stay DEF Typed, BridgingType, BridgeUnconfirmed, Goto
<1>28. ASSUME NEW l \in Legs, BridgeExpires(l) PROVE Typed'
  BY <1>28, Stay DEF Typed, BridgingType, BridgeExpires, Goto
<1>29. ASSUME NEW l \in Legs, BridgeGivenUp(l) PROVE Typed'
  <2>1. SwitchType'
    BY <1>29
       DEF Typed, SwitchType, SwitchTypeOK, Stages, Kinds, BridgeGivenUp, Goto, FreeSlot,
           EndLegs
  <2>2. BridgingType'
    BY <1>29 DEF Typed, BridgingType, BridgeGivenUp, Goto, FreeSlot, EndLegs
  <2> QED BY <1>29, <2>1, <2>2, Stay DEF Typed, BridgeGivenUp, Goto, FreeSlot, EndLegs
<1>30. ASSUME NEW l \in Legs, TransferOnAnswer(l) PROVE Typed'
  BY <1>30, Stay
     DEF Typed, SwitchType, SwitchTypeOK, Stages, Kinds, BridgingType, TransferOnAnswer,
         Goto
<1>31. ASSUME NEW l \in Legs, Recover(l) PROVE Typed'
  <2>1. SwitchType'
    BY <1>31
       DEF Typed, SwitchType, SwitchTypeOK, Stages, Kinds, Recover, RecoverRinging,
           RecoverParked, RecoverBridged, RecoverOther, Reap, EndLegs, Disarm, Fire
  <2>2. PendType'
    BY <1>31
       DEF Typed, PendType, Recover, RecoverRinging, RecoverParked, RecoverBridged,
           RecoverOther, Reap, EndLegs, Disarm, Fire
  <2>3. MemoryType'
    BY <1>31
       DEF Typed, MemoryType, Recover, RecoverRinging, RecoverParked, RecoverBridged,
           RecoverOther, Reap, EndLegs, Disarm, Fire
  <2>4. BridgingType'
    BY <1>31
       DEF Typed, BridgingType, Recover, RecoverRinging, RecoverParked, RecoverBridged,
           RecoverOther, Reap, EndLegs, Disarm, Fire
  <2>5. RecoveryType'
    BY <1>31
       DEF Typed, RecoveryType, UpStages, Recover, RecoverRinging, RecoverParked,
           RecoverBridged, RecoverOther, Reap, EndLegs, Disarm, Fire
  <2> QED
    BY <1>31, <2>1, <2>2, <2>3, <2>4, <2>5, Stay
       DEF Typed, Recover, RecoverRinging, RecoverParked, RecoverBridged, RecoverOther,
           Reap, EndLegs, Disarm, Fire
<1>32. ASSUME NEW l \in Legs, RunOriginate(l), UNCHANGED Application PROVE Typed'
  BY <1>32, Stay, Queued
     DEF Typed, SwitchType, SwitchTypeOK, Stages, Kinds, RunOriginate, Tell, Application
<1>33. ASSUME NEW l \in Legs, RefuseOriginate(l), UNCHANGED Application PROVE Typed'
  BY <1>33, Stay
     DEF Typed, SwitchType, SwitchTypeOK, Stages, Kinds, RefuseOriginate, Report,
         Application
<1>34. ASSUME NEW l \in Legs, Answer(l), UNCHANGED Application PROVE Typed'
  BY <1>34, Stay, Queued
     DEF Typed, SwitchType, SwitchTypeOK, Stages, Kinds, Answer, Tell, Application
<1>35. ASSUME NEW l \in Legs, LetGo(l), UNCHANGED Application PROVE Typed'
  BY <1>35, Stay
     DEF Typed, SwitchType, SwitchTypeOK, Stages, Kinds, LetGo, Report, Application
<1>36. ASSUME NEW l \in Legs, Hangup(l), UNCHANGED Application PROVE Typed'
  BY <1>36, Stay, Queued
     DEF Typed, SwitchType, SwitchTypeOK, Stages, Kinds, Hangup, Tell, Report, Application
<1>37. ASSUME NEW l \in Legs, RunTransfer(l), UNCHANGED Application PROVE Typed'
  BY <1>37, Stay
     DEF Typed, SwitchType, SwitchTypeOK, Stages, Kinds, RunTransfer, Application
<1>38. ASSUME NEW c \in Calls, WriteCDR(c) PROVE Typed'
  BY <1>38, Stay, FaultCounted DEF Typed, LedgerType, WriteCDR
<1>39. ASSUME NEW c \in Calls, SlotLapses(c) PROVE Typed'
  BY <1>39, Stay DEF Typed, BridgingType, SlotLapses
<1>40. ASSUME Connect PROVE Typed'
  BY <1>40, Stay, FaultCounted
     DEF Typed, SwitchType, SwitchTypeOK, Stages, Kinds, RecoveryType, UpStages, Connect
<1>41. ASSUME ListChannels PROVE Typed'
  <2>1. listing' \in [Legs -> UpStages \cup {"none"}] BY <1>41 DEF ListChannels, IsUp
  <2>2. RecoveryType' BY <1>41, <2>1 DEF Typed, RecoveryType, RegistryType, ListChannels
  <2> QED BY <1>41, <2>2, Stay DEF Typed, ListChannels
<1>42. ASSUME AdoptLiveChannels PROVE Typed'
  BY <1>42, Stay
     DEF Typed, LinesType, RecoveryType, UpStages, RegistryType, Kinds, NoEvent, LedgerType,
         AdoptLiveChannels, Listed
<1>43. ASSUME MarkReconciled PROVE Typed'
  BY <1>43, Stay
     DEF Typed, SwitchType, SwitchTypeOK, Stages, Kinds, RecoveryType, UpStages,
         MarkReconciled
<1>44. ASSUME LoseLink PROVE Typed'
  BY <1>44, Stay, FaultCounted
     DEF Typed, SwitchType, SwitchTypeOK, Stages, Kinds, RecoveryType, UpStages, LoseLink,
         LinkDrops
<1>45. ASSUME Crash PROVE Typed'
  <2>1. SwitchType' BY <1>45 DEF Typed, SwitchType, SwitchTypeOK, Stages, Kinds, Crash
  <2>2. RequestType' BY <1>45 DEF Typed, RequestType, Crash
  <2>3. TrackingType' BY <1>45 DEF Typed, TrackingType, Crash
  <2>4. PendType' BY <1>45 DEF Typed, PendType, Crash
  <2>5. MemoryType' BY <1>45 DEF Typed, MemoryType, Crash
  <2>6. LinesType' BY <1>45 DEF Typed, LinesType, Crash
  <2>7. BridgingType' BY <1>45 DEF Typed, BridgingType, Crash
  <2>8. RecoveryType' BY <1>45 DEF Typed, RecoveryType, UpStages, Crash
  <2>9. RegistryType' BY <1>45 DEF Typed, RegistryType, Kinds, NoEvent, Crash
  <2>10. LedgerType' BY <1>45 DEF Typed, LedgerType, Crash
  <2>11. SpentType' BY <1>45, FaultCounted, Stay DEF Typed, Crash
  <2> QED
    BY <1>45, <2>1, <2>2, <2>3, <2>4, <2>5, <2>6, <2>7, <2>8, <2>9, <2>10, <2>11, Stay
       DEF Typed, Crash
<1> QED
  BY <1>1, <1>2, <1>3, <1>4, <1>5, <1>6, <1>7, <1>8, <1>9, <1>10, <1>11, <1>12, <1>13, <1>14, <1>15, <1>16, <1>17, <1>18, <1>19, <1>20, <1>21, <1>22, <1>23, <1>24, <1>25, <1>26, <1>27, <1>28, <1>29, <1>30, <1>31, <1>32, <1>33, <1>34, <1>35, <1>36, <1>37, <1>38, <1>39, <1>40, <1>41, <1>42, <1>43, <1>44, <1>45
     DEF Next, PlaceAI, Dial, Switch, Handle, Continue

\* A request, from the gate to the job it leaves behind.
LEMMA RequestStep ==
    ASSUME Inv, Typed', NEW l \in Legs,
           PlaceAI(l) \/ Dial(l)
    PROVE  Inv'
<1> USE OutboundAssumption DEF Shape, AtOf, Past, Stages, Kinds, NoEvent, IsUp, UpStages
<1> USE DEF switchVars, request, tracking, memory, bridging, recovery, ledger
<1> Typed /\ Shape /\ LegOk(l) /\ (Calm => RecOk) BY Shaped DEF Inv
<1>1. ASSUME CheckPlaced(l) PROVE Inv'
  <2>1. Local(l) BY <1>1 DEF Local, Keeps, Calm, CheckPlaced
  <2>2. LegOk(l)'
    BY <1>1, <2>1 DEF Local, LegOk, TellOk, RunOk, HoldOk, TalkOk, RecOk, CheckPlaced
  <2>3. WatchKept(l) BY <1>1 DEF WatchKept, Watches, CheckPlaced
  <2> QED BY <2>1, <2>2, <2>3, LegStep
<1>2. ASSUME ClaimCall(l) PROVE Inv'
  <2>1. Local(l) BY <1>2 DEF Local, Keeps, Calm, ClaimCall
  <2>2. LegOk(l)'
    BY <1>2, <2>1 DEF Local, LegOk, TellOk, RunOk, HoldOk, TalkOk, RecOk, ClaimCall
  <2>3. WatchKept(l) BY <1>2 DEF WatchKept, Watches, ClaimCall
  <2> QED BY <2>1, <2>2, <2>3, LegStep
<1>3. ASSUME AskLive(l) PROVE Inv'
  <2>1. Local(l) BY <1>3 DEF Local, Keeps, Calm, AskLive, Answered
  <2>2. LegOk(l)'
    BY <1>3, <2>1 DEF Local, LegOk, TellOk, RunOk, HoldOk, TalkOk, RecOk, AskLive, Answered
  <2>3. WatchKept(l) BY <1>3 DEF WatchKept, Watches, AskLive, Answered
  <2> QED BY <2>1, <2>2, <2>3, LegStep
<1>4. ASSUME AskLedger(l) PROVE Inv'
  <2>1. Local(l) BY <1>4 DEF Local, Keeps, Calm, AskLedger, Answered
  <2>2. LegOk(l)'
    BY <1>4, <2>1
       DEF Local, LegOk, TellOk, RunOk, HoldOk, TalkOk, RecOk, AskLedger, Answered
  <2>3. WatchKept(l) BY <1>4 DEF WatchKept, Watches, AskLedger, Answered
  <2> QED BY <2>1, <2>2, <2>3, LegStep
<1>5. ASSUME NEW swept \in SUBSET lines, TakeLine(l, swept) PROVE Inv'
  <2>1. Local(l) BY <1>5 DEF Local, Keeps, Calm, TakeLine
  <2>2. LegOk(l)'
    BY <1>5, <2>1 DEF Local, LegOk, TellOk, RunOk, HoldOk, TalkOk, RecOk, TakeLine
  <2>3. WatchKept(l) BY <1>5 DEF WatchKept, Watches, TakeLine
  <2> QED BY <2>1, <2>2, <2>3, LegStep
<1>6. ASSUME Originate(l) PROVE Inv'
  <2>1. Local(l) BY <1>6 DEF Local, Keeps, Calm, Originate, Forget
  <2>2. chan[l] = "none" /\ l \notin dying BY <1>6 DEF LegOk, TellOk, Originate
  <2>3. TellOk(l)' BY <1>6, <2>2 DEF LegOk, TellOk, Originate, Forget
  <2>4. Calm' => RunOk(l)' /\ HoldOk(l)' /\ TalkOk(l)'
    BY <1>6, <2>1, <2>2 DEF Local, LegOk, RunOk, HoldOk, TalkOk, Originate
  <2>5. WatchKept(l) BY <1>6 DEF WatchKept, Watches, Originate
  <2> QED BY <2>1, <2>3, <2>4, <2>5, LegStep DEF LegOk
<1>7. ASSUME Arm(l) PROVE Inv'
  <2>1. Local(l) BY <1>7 DEF Local, Keeps, Calm, Arm
  <2>2. LegOk(l)' BY <1>7, <2>1 DEF Local, LegOk, TellOk, RunOk, HoldOk, TalkOk, RecOk, Arm
  <2>3. WatchKept(l) BY <1>7 DEF WatchKept, Watches, Arm
  <2> QED BY <2>1, <2>2, <2>3, LegStep
<1>8. ASSUME AttachJob(l) PROVE Inv'
  <2>1. Settled(l) \/ UNCHANGED <<pend, cont, ran>> BY <1>8, Settles DEF AttachJob
  <2>2. /\ req[l] = "armed" /\ req'[l] = "done"
        /\ \A m \in Legs \ {l} : req'[m] = req[m] /\ job'[m] = job[m]
    BY <1>8 DEF AttachJob, Forget
  <2>3. UNCHANGED <<switchVars, reaped, holds, backed, slot, withdrawn, recovery, at, spent>>
    BY <1>8 DEF AttachJob
  <2>4. Local(l) BY <2>1, <2>2, <2>3 DEF Local, Keeps, Calm, Settled
  <2>5. TellOk(l)' BY <2>2, <2>3 DEF LegOk, TellOk
  <2>6. Calm' => RunOk(l)' BY <2>1, <2>2, <2>3, <2>4 DEF Local, LegOk, RunOk, Settled
  <2>7. Calm' => HoldOk(l)' /\ TalkOk(l)'
    BY <2>1, <2>2, <2>3, <2>4 DEF Local, LegOk, RunOk, HoldOk, TalkOk, Settled
  <2>8. Calm' => WatchKept(l)
    BY <2>1, <2>3, <2>4 DEF Local, WatchKept, Watches, LegOk, RunOk, Settled
  <2> QED BY <2>4, <2>5, <2>6, <2>7, <2>8, LegStep DEF LegOk
<1>9. ASSUME HoldUnconfirmed(l) PROVE Inv'
  <2>1. Local(l)
    BY <1>9, Releases, Settles DEF Local, Keeps, Calm, HoldUnconfirmed, Forget, Settled
  <2>2. LegOk(l)'
    BY <1>9, <2>1, Releases, Settles
       DEF Local, LegOk, TellOk, RunOk, HoldOk, TalkOk, RecOk, HoldUnconfirmed, Forget,
           Settled
  <2>3. Calm' => WatchKept(l)
    BY <1>9, <2>1, Releases, Settles
       DEF Local, WatchKept, Watches, LegOk, RunOk, HoldOk, HoldUnconfirmed, Forget, Settled
  <2> QED BY <2>1, <2>2, <2>3, LegStep
<1> QED BY <1>1, <1>2, <1>3, <1>4, <1>5, <1>6, <1>7, <1>8, <1>9 DEF PlaceAI, Dial

\* The switch.
LEMMA SwitchStep ==
    ASSUME Inv, Typed', NEW l \in Legs,
           Switch(l)
    PROVE  Inv'
<1> USE OutboundAssumption DEF Shape, AtOf, Past, Stages, Kinds, NoEvent, IsUp, UpStages
<1> USE DEF switchVars, request, tracking, memory, bridging, recovery, ledger
<1> Typed /\ Shape /\ LegOk(l) /\ (Calm => RecOk) BY Shaped DEF Inv
<1>1. ASSUME RunOriginate(l), UNCHANGED Application PROVE Inv'
  <2>1. Local(l) BY <1>1 DEF Local, Keeps, Calm, RunOriginate, Tell, Application
  <2>2. LegOk(l)'
    BY <1>1, <2>1, Queued
       DEF Local, LegOk, TellOk, RunOk, HoldOk, TalkOk, RecOk, RunOriginate, Tell,
           Application
  <2>3. WatchKept(l) BY <1>1 DEF WatchKept, Watches, RunOriginate, Tell, Application
  <2> QED BY <2>1, <2>2, <2>3, LegStep
<1>2. ASSUME RefuseOriginate(l), UNCHANGED Application PROVE Inv'
  <2>1. Local(l) BY <1>2 DEF Local, Keeps, Calm, RefuseOriginate, Report, Application
  <2>2. LegOk(l)'
    BY <1>2, <2>1
       DEF Local, LegOk, TellOk, RunOk, HoldOk, TalkOk, RecOk, RefuseOriginate, Report,
           Application
  <2>3. WatchKept(l) BY <1>2 DEF WatchKept, Watches, RefuseOriginate, Report, Application
  <2> QED BY <2>1, <2>2, <2>3, LegStep
<1>3. ASSUME Answer(l), UNCHANGED Application PROVE Inv'
  <2>1. Local(l) BY <1>3 DEF Local, Keeps, Calm, Answer, Tell, Application
  <2>2. LegOk(l)'
    BY <1>3, <2>1, Queued
       DEF Local, LegOk, TellOk, RunOk, HoldOk, TalkOk, RecOk, Answer, Tell, Application
  <2>3. WatchKept(l) BY <1>3 DEF WatchKept, Watches, Answer, Tell, Application
  <2> QED BY <2>1, <2>2, <2>3, LegStep
<1>4. ASSUME LetGo(l), UNCHANGED Application PROVE Inv'
  <2>1. Local(l) BY <1>4 DEF Local, Keeps, Calm, LetGo, Report, Application
  <2>2. LegOk(l)'
    BY <1>4, <2>1
       DEF Local, LegOk, TellOk, RunOk, HoldOk, TalkOk, RecOk, LetGo, Report, Application
  <2>3. WatchKept(l) BY <1>4 DEF WatchKept, Watches, LetGo, Report, Application
  <2> QED BY <2>1, <2>2, <2>3, LegStep
<1>5. ASSUME Hangup(l), UNCHANGED Application PROVE Inv'
  <2>1. Local(l) BY <1>5 DEF Local, Keeps, Calm, Hangup, Tell, Report, Application
  <2>2. LegOk(l)'
    BY <1>5, <2>1, Queued
       DEF Local, LegOk, TellOk, RunOk, HoldOk, TalkOk, RecOk, Hangup, Tell, Report,
           Application
  <2>3. WatchKept(l) BY <1>5 DEF WatchKept, Watches, Hangup, Tell, Report, Application
  <2> QED BY <2>1, <2>2, <2>3, LegStep
<1>6. ASSUME RunTransfer(l), UNCHANGED Application PROVE Inv'
  <2>1. Local(l) BY <1>6 DEF Local, Keeps, Calm, RunTransfer, Application
  <2>2. LegOk(l)'
    BY <1>6, <2>1
       DEF Local, LegOk, TellOk, RunOk, HoldOk, TalkOk, RecOk, RunTransfer, Application
  <2>3. WatchKept(l) BY <1>6 DEF WatchKept, Watches, RunTransfer, Application
  <2> QED BY <2>1, <2>2, <2>3, LegStep
<1> QED BY <1>1, <1>2, <1>3, <1>4, <1>5, <1>6 DEF Switch

\* The dispatch loop.
LEMMA HandleStep ==
    ASSUME Inv, Typed', NEW l \in Legs,
           Handle(l)
    PROVE  Inv'
<1> USE OutboundAssumption DEF Shape, AtOf, Past, Stages, Kinds, NoEvent, IsUp, UpStages
<1> USE DEF switchVars, request, tracking, memory, bridging, recovery, ledger
<1> Typed /\ Shape /\ LegOk(l) /\ (Calm => RecOk) BY Shaped DEF Inv
<1>1. ASSUME Dispatch(l) PROVE Inv'
  <2>1. Local(l) BY <1>1 DEF Local, Keeps, Calm, Dispatch, Leave
  <2>2. LegOk(l)'
    BY <1>1, <2>1, Dequeued
       DEF Local, LegOk, TellOk, RunOk, HoldOk, TalkOk, RecOk, Dispatch, Leave
  <2>3. WatchKept(l) BY <1>1 DEF WatchKept, Watches, Dispatch, Leave
  <2> QED BY <2>1, <2>2, <2>3, LegStep
<1>2. ASSUME NoteChannel(l) PROVE Inv'
  <2>1. Local(l) BY <1>2 DEF Local, Keeps, Calm, NoteChannel, Reap, EndLegs
  <2>2. LegOk(l)'
    BY <1>2, <2>1
       DEF Local, LegOk, TellOk, RunOk, HoldOk, TalkOk, RecOk, NoteChannel, Reap, EndLegs
  <2>3. WatchKept(l) BY <1>2 DEF WatchKept, Watches, NoteChannel, Reap, EndLegs
  <2> QED BY <2>1, <2>2, <2>3, LegStep
<1>3. ASSUME HandleAnswer(l) PROVE Inv'
  <2>1. Local(l) BY <1>3 DEF Local, Keeps, Calm, HandleAnswer, Disarm, Fire, EndLegs
  <2>2. LegOk(l)'
    BY <1>3, <2>1
       DEF Local, LegOk, TellOk, RunOk, HoldOk, TalkOk, RecOk, HandleAnswer, Disarm, Fire,
           EndLegs
  <2>3. Calm' => WatchKept(l)
    BY <1>3, <2>1
       DEF Local, WatchKept, Watches, LegOk, RunOk, HoldOk, HandleAnswer, Disarm, Fire,
           EndLegs
  <2> QED BY <2>1, <2>2, <2>3, LegStep
<1>4. ASSUME HandleHangup(l) PROVE Inv'
  <2>1. Local(l)
    BY <1>4 DEF Local, Keeps, Calm, HandleHangup, SettleBridge, Disarm, FreeSlot
  <2>2. LegOk(l)'
    BY <1>4, <2>1
       DEF Local, LegOk, TellOk, RunOk, HoldOk, TalkOk, RecOk, HandleHangup, SettleBridge,
           Disarm, FreeSlot
  <2>3. Calm' => WatchKept(l)
    BY <1>4, <2>1
       DEF Local, WatchKept, Watches, LegOk, RunOk, HoldOk, HandleHangup, SettleBridge,
           Disarm, FreeSlot
  <2> QED BY <2>1, <2>2, <2>3, LegStep
<1>5. ASSUME HandleBotLeg(l) PROVE Inv'
  <2>1. Local(l) BY <1>5 DEF Local, Keeps, Calm, HandleBotLeg, SettleBridge
  <2>2. LegOk(l)'
    BY <1>5, <2>1
       DEF Local, LegOk, TellOk, RunOk, HoldOk, TalkOk, RecOk, HandleBotLeg, SettleBridge
  <2>3. Calm' => WatchKept(l)
    BY <1>5, <2>1
       DEF Local, WatchKept, Watches, LegOk, RunOk, HoldOk, HandleBotLeg, SettleBridge
  <2> QED BY <2>1, <2>2, <2>3, LegStep
<1>6. ASSUME HandleJob(l) PROVE Inv'
  <2>1. Settled(l) \/ UNCHANGED <<pend, cont, ran>>
    <3>1. CASE job[l] = "expected" BY <1>6, <3>1 DEF HandleJob
    <3>2. CASE job[l] \in {"tracked", "held"}
      <4>1. SettleJob(l, result[l]) BY <1>6, <3>2 DEF HandleJob
      <4> QED BY <4>1, Settles
    <3>3. CASE job[l] = "none"
      <4>1. IF result[l] = "ok" THEN ReleaseLeg(l) ELSE UNCHANGED <<pend, cont, ran>>
        BY <1>6, <3>3 DEF HandleJob
      <4> QED BY <4>1, Releases
    <3> QED BY <3>1, <3>2, <3>3 DEF Typed, TrackingType
  <2>2. /\ \A m \in Legs \ {l} : job'[m] = job[m]
        /\ job[l] = "expected" => job'[l] = "expected"
    <3>1. UNCHANGED job \/ (job[l] \in {"tracked", "held"} /\ Forget(l))
      BY <1>6 DEF HandleJob, Typed, TrackingType
    <3> QED BY <3>1 DEF Forget
  <2>3. /\ UNCHANGED <<link, chan, events, dying, transfers, req, reaped, holds, backed, slot>>
        /\ UNCHANGED <<withdrawn, ready, rec, listing, at, spent>>
    BY <1>6 DEF HandleJob
  <2>4. Local(l) BY <2>1, <2>2, <2>3 DEF Local, Keeps, Calm, Settled
  <2>5. TellOk(l)' BY <2>2, <2>3 DEF LegOk, TellOk
  <2>6. Calm' => RunOk(l)' BY <2>1, <2>3, <2>4 DEF Local, LegOk, RunOk, Settled
  <2>7. Calm' => HoldOk(l)' /\ TalkOk(l)'
    BY <2>1, <2>3, <2>4 DEF Local, LegOk, RunOk, HoldOk, TalkOk, Settled
  <2>8. Calm' => WatchKept(l)
    BY <2>1, <2>3, <2>4 DEF Local, WatchKept, Watches, LegOk, RunOk, Settled
  <2> QED BY <2>4, <2>5, <2>6, <2>7, <2>8, LegStep DEF LegOk
<1> QED BY <1>1, <1>2, <1>3, <1>4, <1>5, <1>6 DEF Handle

\* The windows of a placement, and its failure row.
LEMMA WindowStep ==
    ASSUME Inv, Typed', NEW l \in Legs,
           \/ WindowEnds(l) \/ JobExpires(l) \/ UnconfirmedAsk(l) \/ UnconfirmedExpires(l)
           \/ WriteFailure(l)
    PROVE  Inv'
<1> USE OutboundAssumption DEF Shape, AtOf, Past, Stages, Kinds, NoEvent, IsUp, UpStages
<1> USE DEF switchVars, request, tracking, memory, bridging, recovery, ledger
<1> Typed /\ Shape /\ LegOk(l) /\ (Calm => RecOk) BY Shaped DEF Inv
<1>1. ASSUME WindowEnds(l) PROVE Inv'
  <2>1. Local(l) BY <1>1 DEF Local, Keeps, Calm, WindowEnds
  <2>2. LegOk(l)'
    BY <1>1, <2>1 DEF Local, LegOk, TellOk, RunOk, HoldOk, TalkOk, RecOk, WindowEnds
  <2>3. WatchKept(l) BY <1>1 DEF WatchKept, Watches, WindowEnds
  <2> QED BY <2>1, <2>2, <2>3, LegStep
<1>2. ASSUME JobExpires(l) PROVE Inv'
  <2>1. Local(l) BY <1>2 DEF Local, Keeps, Calm, JobExpires, Forget
  <2>2. LegOk(l)'
    BY <1>2, <2>1 DEF Local, LegOk, TellOk, RunOk, HoldOk, TalkOk, RecOk, JobExpires, Forget
  <2>3. WatchKept(l) BY <1>2 DEF WatchKept, Watches, JobExpires, Forget
  <2> QED BY <2>1, <2>2, <2>3, LegStep
<1>3. ASSUME UnconfirmedAsk(l) PROVE Inv'
  <2>1. Local(l) BY <1>3 DEF Local, Keeps, Calm, UnconfirmedAsk
  <2>2. LegOk(l)'
    BY <1>3, <2>1 DEF Local, LegOk, TellOk, RunOk, HoldOk, TalkOk, RecOk, UnconfirmedAsk
  <2>3. WatchKept(l) BY <1>3 DEF WatchKept, Watches, UnconfirmedAsk
  <2> QED BY <2>1, <2>2, <2>3, LegStep
<1>4. ASSUME UnconfirmedExpires(l) PROVE Inv'
  <2>1. Local(l)
    BY <1>4 DEF Local, Keeps, Calm, UnconfirmedExpires, Forget, FailPlacement, Disarm
  <2>2. LegOk(l)'
    BY <1>4, <2>1
       DEF Local, LegOk, TellOk, RunOk, HoldOk, TalkOk, RecOk, UnconfirmedExpires, Forget,
           FailPlacement, Disarm
  <2>3. WatchKept(l)
    BY <1>4 DEF WatchKept, Watches, UnconfirmedExpires, Forget, FailPlacement, Disarm
  <2> QED BY <2>1, <2>2, <2>3, LegStep
<1>5. ASSUME WriteFailure(l) PROVE Inv'
  <2>1. Local(l) BY <1>5, FaultCounted DEF Local, Keeps, Calm, WriteFailure, Typed
  <2>2. LegOk(l)'
    BY <1>5, <2>1
       DEF Local, LegOk, TellOk, RunOk, HoldOk, TalkOk, RecOk, WriteFailure, Typed
  <2>3. WatchKept(l) BY <1>5 DEF WatchKept, Watches, WriteFailure, Typed
  <2> QED BY <2>1, <2>2, <2>3, LegStep
<1> QED BY <1>1, <1>2, <1>3, <1>4, <1>5

\* The continuation, its bridge and the INVITE.
LEMMA ContinueStep ==
    ASSUME Inv, Typed', NEW l \in Legs,
           Continue(l) \/ InviteBot(l) \/ AnswerInvite(l)
    PROVE  Inv'
<1> USE OutboundAssumption DEF Shape, AtOf, Past, Stages, Kinds, NoEvent, IsUp, UpStages
<1> USE DEF switchVars, request, tracking, memory, bridging, recovery, ledger
<1> Typed /\ Shape /\ LegOk(l) /\ (Calm => RecOk) BY Shaped DEF Inv
<1>1. ASSUME TakeSlot(l) PROVE Inv'
  <2>1. Local(l) BY <1>1 DEF Local, Keeps, Calm, TakeSlot, Goto
  <2>2. LegOk(l)'
    BY <1>1, <2>1 DEF Local, LegOk, TellOk, RunOk, HoldOk, TalkOk, RecOk, TakeSlot, Goto
  <2>3. Calm' => WatchKept(l)
    BY <1>1, <2>1 DEF Local, WatchKept, Watches, LegOk, RunOk, HoldOk, TakeSlot, Goto
  <2> QED BY <2>1, <2>2, <2>3, LegStep
<1>2. ASSUME SlotReserved(l) PROVE Inv'
  <2>1. Local(l) BY <1>2 DEF Local, Keeps, Calm, SlotReserved, Goto, FreeSlot
  <2>2. LegOk(l)'
    BY <1>2, <2>1
       DEF Local, LegOk, TellOk, RunOk, HoldOk, TalkOk, RecOk, SlotReserved, Goto, FreeSlot
  <2>3. Calm' => WatchKept(l)
    BY <1>2, <2>1
       DEF Local, WatchKept, Watches, LegOk, RunOk, HoldOk, SlotReserved, Goto, FreeSlot
  <2> QED BY <2>1, <2>2, <2>3, LegStep
<1>3. ASSUME Overflow(l) PROVE Inv'
  <2>1. Local(l) BY <1>3 DEF Local, Keeps, Calm, Overflow, Goto, FreeSlot, EndLegs
  <2>2. LegOk(l)'
    BY <1>3, <2>1
       DEF Local, LegOk, TellOk, RunOk, HoldOk, TalkOk, RecOk, Overflow, Goto, FreeSlot,
           EndLegs
  <2>3. Calm' => WatchKept(l)
    BY <1>3, <2>1
       DEF Local, WatchKept, Watches, LegOk, RunOk, HoldOk, Overflow, Goto, FreeSlot,
           EndLegs
  <2> QED BY <2>1, <2>2, <2>3, LegStep
<1>4. ASSUME SendBridge(l) PROVE Inv'
  <2>1. Local(l) BY <1>4 DEF Local, Keeps, Calm, SendBridge, Goto, FreeSlot
  <2>2. TellOk(l)' /\ (Calm' => RunOk(l)' /\ HoldOk(l)')
    BY <1>4, <2>1 DEF Local, LegOk, TellOk, RunOk, HoldOk, TalkOk, SendBridge, Goto
  <2>3. Calm' => TalkOk(l)'
    <3>1. Calm' => ran[l] = 1 /\ chan[l] # "bridged" /\ l \notin dying \ reaped /\ l \notin AgentLegs
      BY <1>4, <2>1 DEF Local, LegOk, RunOk, TalkOk, SendBridge
    <3> QED BY <1>4, <3>1 DEF TalkOk, SendBridge, Goto
  <2>4. Calm' => WatchKept(l)
    BY <1>4, <2>1 DEF Local, WatchKept, Watches, LegOk, RunOk, HoldOk, TalkOk, SendBridge, Goto, FreeSlot
  <2> QED BY <2>1, <2>2, <2>3, <2>4, LegStep DEF LegOk
<1>5. ASSUME BridgeReplied(l) PROVE Inv'
  <2>1. Local(l) BY <1>5 DEF Local, Keeps, Calm, BridgeReplied, Goto, FreeSlot
  <2>2. LegOk(l)'
    BY <1>5, <2>1
       DEF Local, LegOk, TellOk, RunOk, HoldOk, TalkOk, RecOk, BridgeReplied, Goto, FreeSlot
  <2>3. Calm' => WatchKept(l)
    BY <1>5, <2>1
       DEF Local, WatchKept, Watches, LegOk, RunOk, HoldOk, BridgeReplied, Goto, FreeSlot
  <2> QED BY <2>1, <2>2, <2>3, LegStep
<1>6. ASSUME BridgeUnconfirmed(l) PROVE Inv'
  <2>1. Local(l) BY <1>6 DEF Local, Keeps, Calm, BridgeUnconfirmed, Goto
  <2>2. LegOk(l)'
    BY <1>6, <2>1
       DEF Local, LegOk, TellOk, RunOk, HoldOk, TalkOk, RecOk, BridgeUnconfirmed, Goto
  <2>3. Calm' => WatchKept(l)
    BY <1>6, <2>1
       DEF Local, WatchKept, Watches, LegOk, RunOk, HoldOk, BridgeUnconfirmed, Goto
  <2> QED BY <2>1, <2>2, <2>3, LegStep
<1>7. ASSUME BridgeExpires(l) PROVE Inv'
  <2>1. Local(l) BY <1>7 DEF Local, Keeps, Calm, BridgeExpires, Goto
  <2>2. LegOk(l)'
    BY <1>7, <2>1
       DEF Local, LegOk, TellOk, RunOk, HoldOk, TalkOk, RecOk, BridgeExpires, Goto
  <2>3. Calm' => WatchKept(l)
    BY <1>7, <2>1 DEF Local, WatchKept, Watches, LegOk, RunOk, HoldOk, BridgeExpires, Goto
  <2> QED BY <2>1, <2>2, <2>3, LegStep
<1>8. ASSUME BridgeGivenUp(l) PROVE Inv'
  <2>1. Local(l) BY <1>8 DEF Local, Keeps, Calm, BridgeGivenUp, Goto, FreeSlot, EndLegs
  <2>2. LegOk(l)'
    BY <1>8, <2>1
       DEF Local, LegOk, TellOk, RunOk, HoldOk, TalkOk, RecOk, BridgeGivenUp, Goto,
           FreeSlot, EndLegs
  <2>3. Calm' => WatchKept(l)
    BY <1>8, <2>1
       DEF Local, WatchKept, Watches, LegOk, RunOk, HoldOk, BridgeGivenUp, Goto, FreeSlot,
           EndLegs
  <2> QED BY <2>1, <2>2, <2>3, LegStep
<1>9. ASSUME TransferOnAnswer(l) PROVE Inv'
  <2>1. Local(l) BY <1>9 DEF Local, Keeps, Calm, TransferOnAnswer, Goto
  <2>2. LegOk(l)'
    BY <1>9, <2>1
       DEF Local, LegOk, TellOk, RunOk, HoldOk, TalkOk, RecOk, TransferOnAnswer, Goto
  <2>3. Calm' => WatchKept(l)
    BY <1>9, <2>1
       DEF Local, WatchKept, Watches, LegOk, RunOk, HoldOk, TransferOnAnswer, Goto
  <2> QED BY <2>1, <2>2, <2>3, LegStep
<1>10. ASSUME InviteBot(l) \/ AnswerInvite(l) PROVE Inv'
  <2> USE DEF RefuseInvite
  <2>1. Local(l) BY <1>10 DEF Local, Keeps, Calm, InviteBot, AnswerInvite, FreeSlot, Tell
  <2>2. ~Occurs(events[l], "hangup") /\ ~AtOf(l, "hangup") /\ Sealed(events[l])
    BY <1>10 DEF LegOk, TellOk, InviteBot, AnswerInvite
  <2>3. /\ chan[l] \in {"dialing", "invited"} /\ chan'[l] \in {"invited", "bridged", "gone"}
        /\ Sealed(events'[l]) /\ (Occurs(events'[l], "hangup") => chan'[l] = "gone")
    <3>1. Sealed(Append(events[l], "bot")) /\ ~Occurs(Append(events[l], "bot"), "hangup")
      BY <2>2, Queued
    <3>2. Sealed(events[l] \o <<"bot", "hangup">>) BY <2>2, RefusalQueued
    <3>3. /\ chan[l] \in {"dialing", "invited"}
          /\ \/ events'[l] = events[l] /\ chan'[l] \in {"invited", "bridged", "gone"}
             \/ events'[l] = Append(events[l], "bot") /\ chan'[l] = "bridged"
             \/ events'[l] = events[l] \o <<"bot", "hangup">> /\ chan'[l] = "gone"
      BY <1>10 DEF InviteBot, AnswerInvite, Tell
    <3> QED BY <2>2, <3>1, <3>2, <3>3
  <2>4. TellOk(l)' BY <1>10, <2>2, <2>3 DEF LegOk, TellOk, InviteBot, AnswerInvite
  <2>5. Calm' => RunOk(l)'
    BY <1>10, <2>1, <2>3 DEF Local, LegOk, RunOk, InviteBot, AnswerInvite
  <2>6. Calm' => HoldOk(l)'
    BY <1>10, <2>1, <2>3 DEF Local, LegOk, HoldOk, InviteBot, AnswerInvite
  <2>7. Calm' => TalkOk(l)'
    BY <1>10, <2>1, <2>3 DEF Local, LegOk, TalkOk, InviteBot, AnswerInvite, FreeSlot
  <2>8. WatchKept(l)
    BY <1>10 DEF WatchKept, Watches, InviteBot, AnswerInvite, FreeSlot
  <2> QED BY <2>1, <2>4, <2>5, <2>6, <2>7, <2>8, LegStep DEF LegOk
<1> QED BY <1>1, <1>2, <1>3, <1>4, <1>5, <1>6, <1>7, <1>8, <1>9, <1>10 DEF Continue

\* What a listing decides about a leg.
LEMMA RecoverStep ==
    ASSUME Inv, Typed', NEW l \in Legs,
           Recover(l)
    PROVE  Inv'
<1> USE OutboundAssumption DEF Shape, AtOf, Past, Stages, Kinds, NoEvent, IsUp, UpStages
<1> USE DEF switchVars, request, tracking, memory, bridging, recovery, ledger
<1> Typed /\ Shape /\ LegOk(l) /\ (Calm => RecOk) BY Shaped DEF Inv
<1>1. ASSUME Recover(l) PROVE Inv'
  <2> USE DEF Reap, EndLegs, Disarm, Fire
  <2>1. Local(l)
    BY <1>1 DEF Local, Keeps, Calm, Recover, RecoverRinging, RecoverParked, RecoverBridged,
                RecoverOther
  <2>2. TellOk(l)'
    BY <1>1 DEF LegOk, TellOk, Recover, RecoverRinging, RecoverParked, RecoverBridged, RecoverOther
  <2>3. Calm' => WatchKept(l)
    BY <1>1, <2>1 DEF Local, WatchKept, Watches, LegOk, RunOk, HoldOk, Recover, RecoverRinging, RecoverParked,
        RecoverBridged, RecoverOther
  <2>4. /\ UNCHANGED <<link, chan, events, transfers, req, holds, backed, slot, withdrawn>>
        /\ UNCHANGED <<ready, rec, listing, at>>
    BY <1>1 DEF Recover
  <2>5. ASSUME RecoverRinging(l) PROVE Calm' => RunOk(l)' /\ HoldOk(l)' /\ TalkOk(l)'
    BY <2>1, <2>4, <2>5 DEF Local, LegOk, TellOk, RunOk, HoldOk, TalkOk, RecoverRinging
  <2>6. ASSUME RecoverParked(l) PROVE Calm' => RunOk(l)' /\ HoldOk(l)' /\ TalkOk(l)'
    BY <2>1, <2>4, <2>6 DEF Local, LegOk, TellOk, RunOk, HoldOk, TalkOk, RecoverParked
  <2>7. ASSUME RecoverBridged(l) \/ RecoverOther(l) PROVE Calm' => RunOk(l)' /\ HoldOk(l)' /\ TalkOk(l)'
    BY <2>1, <2>4, <2>7 DEF Local, LegOk, RunOk, HoldOk, TalkOk, RecoverBridged, RecoverOther
  <2> QED BY <1>1, <2>1, <2>2, <2>3, <2>5, <2>6, <2>7, LegStep DEF LegOk, Recover
<1> QED BY <1>1

\* Steps of no leg: a row, or a reservation that lapses.
LEMMA CallStep ==
    ASSUME Inv, Typed', NEW c \in Calls, WriteCDR(c) \/ SlotLapses(c)
    PROVE  Inv'
<1> USE OutboundAssumption DEF switchVars, request, tracking, memory, bridging, recovery
<1> Shape BY Shaped DEF Inv
<1>1. Calm' => Calm BY FaultCounted DEF WriteCDR, SlotLapses, Calm, Inv, Typed
<1>2. /\ UNCHANGED <<switchVars, request, tracking, pend, memory, recovery, at>>
      /\ UNCHANGED <<cont, holds, backed, withdrawn, ran>>
  BY DEF WriteCDR, SlotLapses
<1>3. \A d \in Calls : slot'[d] = slot[d] \/ (slot[d] = "reserved" /\ slot'[d] = "none")
  BY DEF WriteCDR, SlotLapses, Shape
<1>4. \A m \in Legs : Keeps(m) BY <1>2, <1>3 DEF Keeps, Shape
<1>5. \A m \in Legs : LegOk(m)' BY <1>1, <1>2, <1>4, Frame DEF Inv
<1>6. Calm' => RecOk' BY <1>1, <1>2 DEF Inv, RecOk
<1>7. Calm' => \A d \in Calls : KeptOk(d)' BY <1>1, <1>2, <1>3 DEF Inv, KeptOk, Watches
<1> QED BY <1>5, <1>6, <1>7 DEF Inv

\* Connecting, the listing and what is done with it as a whole.
LEMMA RecoveryStep ==
    ASSUME Inv, Typed', Connect \/ ListChannels \/ AdoptLiveChannels \/ MarkReconciled
    PROVE  Inv'
<1> USE DEF switchVars, request, tracking, memory, bridging
<1>1. /\ UNCHANGED <<chan, events, dying, transfers, req, job, pend, reaped, cont, holds>>
      /\ UNCHANGED <<backed, slot, withdrawn, ran, at>>
  BY DEF Connect, ListChannels, AdoptLiveChannels, MarkReconciled
<1>2. Calm' => Calm
  BY FaultCounted DEF Connect, ListChannels, AdoptLiveChannels, MarkReconciled, Calm, Inv, Typed
<1>3. \A m \in Legs : TellOk(m)' BY <1>1 DEF Inv, LegOk, TellOk, AtOf
<1>4. \A m \in Legs : Calm' => HoldOk(m)' BY <1>1, <1>2 DEF Inv, LegOk, HoldOk, AtOf
<1>5. Calm' => \A c \in Calls : KeptOk(c)' BY <1>1, <1>2 DEF Inv, KeptOk, Watches
<1>6. ASSUME Connect, Calm' PROVE RecOk' /\ \A m \in Legs : RunOk(m)' /\ TalkOk(m)'
  <2>1. Calm /\ rec = "idle" /\ rec' = "due" /\ link' = "hook" /\ UNCHANGED <<ready, listing>>
    BY <1>6, <1>2, FaultCounted DEF Connect, Inv, Typed
  <2>2. RecOk' BY <2>1 DEF Inv, RecOk
  <2>3. \A m \in Legs : RunOk(m)' BY <1>1, <2>1 DEF Inv, LegOk, RunOk, AtOf
  <2>4. \A m \in Legs : TalkOk(m)' BY <1>1, <2>1 DEF Inv, LegOk, TalkOk
  <2> QED BY <2>2, <2>3, <2>4
<1>7. ASSUME ListChannels, Calm' PROVE RecOk' /\ \A m \in Legs : RunOk(m)' /\ TalkOk(m)'
  <2>1. /\ Calm /\ rec = "due" /\ rec' = "adopt" /\ UNCHANGED <<link, ready>>
        /\ ready \/ dying = {}
    BY <1>7, <1>2 DEF ListChannels, Inv, Typed, SwitchType, SwitchTypeOK
  <2>2. \A m \in Legs :
            listing'[m] = IF chan[m] \in UpStages THEN chan[m] ELSE "none"
    BY <1>7 DEF ListChannels, IsUp
  <2>3. RecOk' BY <2>1 DEF Inv, RecOk
  <2>4. \A m \in Legs : RunOk(m)'
    BY <1>1, <2>1, <2>2 DEF Inv, LegOk, TellOk, RunOk, AtOf, Past, UpStages
  <2>5. \A m \in Legs : TalkOk(m)'
    BY <1>1, <2>1, <2>2 DEF Inv, LegOk, TalkOk
  <2> QED BY <2>3, <2>4, <2>5
<1>8. ASSUME AdoptLiveChannels, Calm' PROVE RecOk' /\ \A m \in Legs : RunOk(m)' /\ TalkOk(m)'
  <2>1. Calm /\ rec = "adopt" /\ rec' = "recover" /\ UNCHANGED <<link, ready, listing>>
    BY <1>8, <1>2 DEF AdoptLiveChannels
  <2>2. RecOk' BY <2>1 DEF Inv, RecOk
  <2>3. \A m \in Legs : RunOk(m)' BY <1>1, <2>1 DEF Inv, LegOk, RunOk, AtOf
  <2>4. \A m \in Legs : TalkOk(m)' BY <1>1, <2>1 DEF Inv, LegOk, TalkOk
  <2> QED BY <2>2, <2>3, <2>4
<1>9. ASSUME MarkReconciled, Calm' PROVE RecOk' /\ \A m \in Legs : RunOk(m)' /\ TalkOk(m)'
  <2>1. /\ Calm /\ rec = "recover" /\ rec' = "idle"
        /\ \A m \in Legs : listing'[m] = "none"
    BY <1>9, <1>2 DEF MarkReconciled
  <2>2. RecOk' BY <2>1 DEF RecOk
  <2>3. \A m \in Legs : RunOk(m)' BY <1>1, <2>1 DEF Inv, LegOk, RunOk, AtOf
  <2>4. \A m \in Legs : TalkOk(m)' BY <1>1, <2>1 DEF Inv, LegOk, TalkOk
  <2> QED BY <2>2, <2>3, <2>4
<1> QED BY <1>3, <1>4, <1>5, <1>6, <1>7, <1>8, <1>9 DEF Inv, LegOk

\* A drop loses what was told; a crash all but the switch and the ledger.
LEMMA FaultStep == ASSUME Inv, Typed', LoseLink \/ Crash PROVE Inv'
<1>1. CASE LoseLink
  <2> USE <1>1 DEF LoseLink, LinkDrops, request, tracking, memory, bridging
  <2>1. /\ UNCHANGED <<chan, dying, transfers, req, job, pend, reaped, cont, holds>>
        /\ UNCHANGED <<backed, slot, withdrawn, ran, at, ready, listing>>
        /\ \A m \in Legs : events'[m] = <<>>
    OBVIOUS
  <2>2. Calm' => Calm BY FaultCounted DEF Inv, Typed
  <2>3. \A m \in Legs : TellOk(m)' BY <2>1, Empty DEF Inv, LegOk, TellOk, AtOf, Kinds
  <2>4. \A m \in Legs : Calm' => RunOk(m)' BY <2>1, <2>2 DEF Inv, LegOk, RunOk, AtOf
  <2>5. \A m \in Legs : Calm' => HoldOk(m)' BY <2>1, <2>2 DEF Inv, LegOk, HoldOk, AtOf
  <2>6. \A m \in Legs : Calm' => TalkOk(m)' BY <2>1, <2>2 DEF Inv, LegOk, TalkOk
  <2>7. Calm' => RecOk' BY <2>1, <2>2 DEF Inv, RecOk
  <2>8. Calm' => \A c \in Calls : KeptOk(c)' BY <2>1, <2>2 DEF Inv, KeptOk, Watches
  <2> QED BY <2>3, <2>4, <2>5, <2>6, <2>7, <2>8 DEF Inv, LegOk
<1>2. CASE Crash
  <2> USE <1>2 DEF Crash
  <2>1. Calm' => Calm BY FaultCounted DEF Inv, Typed
  <2>2. \A m \in Legs : /\ events'[m] = <<>> /\ pend'[m] = {} /\ cont'[m] = "none"
                        /\ listing'[m] = "none" /\ m \notin backed'
                        /\ req'[m] = IF req[m] = "idle" THEN "idle" ELSE "done"
                        /\ chan'[m] = IF chan[m] = "invited" THEN "dialing" ELSE chan[m]
    OBVIOUS
  <2>3. \A m \in Legs, k \in Kinds : ~AtOf(m, k)' BY DEF AtOf, NoEvent, Kinds
  <2>4. \A m \in Legs : TellOk(m)' BY <2>2, <2>3, Empty DEF Inv, LegOk, TellOk, Kinds
  <2>5. \A m \in Legs : Calm' => RunOk(m)'
    BY <2>1, <2>2 DEF Inv, LegOk, TellOk, RunOk, Past
  <2>6. \A m \in Legs : Calm' => HoldOk(m)' BY <2>2 DEF HoldOk
  <2>7. \A m \in Legs : Calm' => TalkOk(m)' BY <2>1, <2>2 DEF Inv, LegOk, TellOk, RunOk, TalkOk
  <2>8. RecOk' BY <2>2 DEF RecOk
  <2>9. \A c \in Calls : KeptOk(c)' BY DEF KeptOk
  <2> QED BY <2>4, <2>5, <2>6, <2>7, <2>8, <2>9 DEF Inv, LegOk
<1> QED BY <1>1, <1>2

-----------------------------------------------------------------------------
(* The theorems.                                                           *)

LEMMA InitInv == Init => Inv
<1> SUFFICES ASSUME Init PROVE Inv OBVIOUS
<1> USE DEF Init, SwitchInit
<1>1. Typed
  <2>1. SwitchType BY DEF SwitchType, SwitchTypeOK, Stages
  <2>2. RequestType /\ TrackingType /\ PendType /\ MemoryType /\ LinesType
    BY DEF RequestType, TrackingType, PendType, MemoryType, LinesType
  <2>3. BridgingType /\ RecoveryType
    BY DEF BridgingType, RecoveryType
  <2>4. RegistryType /\ LedgerType BY DEF RegistryType, LedgerType
  <2>5. SpentType BY DEF SpentType
  <2> QED BY <2>1, <2>2, <2>3, <2>4, <2>5 DEF Typed
<1>2. \A l \in Legs, k \in Kinds : ~AtOf(l, k) BY DEF AtOf, NoEvent, Kinds
<1>3. \A l \in Legs : TellOk(l) BY <1>2, Empty DEF TellOk, Kinds
<1>4. \A l \in Legs : RunOk(l) BY <1>2 DEF RunOk
<1>5. \A l \in Legs : HoldOk(l) /\ TalkOk(l) BY DEF HoldOk, TalkOk
<1>6. RecOk /\ \A c \in Calls : KeptOk(c) BY DEF RecOk, KeptOk
<1> QED BY <1>1, <1>3, <1>4, <1>5, <1>6 DEF Inv, LegOk

\* The inductive invariant: no step, by whichever of a request, the switch, the
\* dispatch loop, a timer, a continuation, the reconciliation, a drop or a crash,
\* breaks what holds of each leg.
THEOREM Invariance == Spec => []Inv
<1>1. Inv /\ [Next]_vars => Inv'
  <2> SUFFICES ASSUME Inv, [Next]_vars PROVE Inv' OBVIOUS
  <2>1. CASE Next
    <3>1. Typed' BY <2>1, TypedStep DEF Inv
    <3> QED
      BY <2>1, <3>1, RequestStep, SwitchStep, HandleStep, WindowStep, ContinueStep, RecoverStep,
         CallStep, RecoveryStep, FaultStep DEF Next
  <2>2. CASE UNCHANGED vars
    <3> USE <2>2 DEF vars, switchVars, request, tracking, memory, bridging, recovery, ledger
    <3>1. Typed' BY Stay DEF Inv, Typed
    <3>2. Calm' => Calm BY DEF Calm
    <3>3. \A m \in Legs : Keeps(m) BY DEF Keeps
    <3>4. \A m \in Legs : LegOk(m)' BY <3>2, <3>3, Frame DEF Inv
    <3>5. Calm' => RecOk' /\ \A c \in Calls : KeptOk(c)'
      BY <3>2 DEF Inv, RecOk, KeptOk, Watches
    <3> QED BY <3>1, <3>4, <3>5 DEF Inv
  <2> QED BY <2>1, <2>2
<1> QED BY <1>1, InitInv, PTL DEF Spec

\* Every variable of the outbound service keeps its type.
THEOREM TypeCorrect == Spec => []TypeOK
<1>1. Inv => TypeOK BY TypedIsTypeOK DEF Inv
<1> QED BY <1>1, Invariance, PTL

\* A leg's continuation runs once, whichever of the answer, the originate's
\* result and a reconnect's listing starts it: the entry goes with the second of
\* the two facts, and no listing is older than an answer it could arm again.
THEOREM ContinuationRunsOnce == Spec => []ContinuationOnce
<1>1. Inv => ContinuationOnce BY DEF Inv, LegOk, RunOk, ContinuationOnce, Calm
<1> QED BY <1>1, Invariance, PTL

\* No leg is ended under a customer who talks to the bot through a reserved
\* slot, since the window of an unconfirmed bridge and the bot decide by the same
\* slot; and the INVITE that comes for a leg given up on is refused, since giving
\* up withdraws the call first.
THEOREM TalkingIsLeftAlone == Spec => TalkingIsNotEnded
<1> USE DEF switchVars, request, tracking, memory, bridging, recovery, ledger
<1>1. ASSUME Inv, Next, spent.errors = 0, NEW l \in backed \ reaped'
      PROVE  /\ chan[l] = "bridged" /\ l \in dying' => l \in dying
             /\ chan[l] = "dialing" /\ l \in dying => chan'[l] # "invited"
  <2> DEFINE Still == (l \in dying' => l \in dying) /\ (chan[l] = "dialing" => chan'[l] # "invited")
  <2> USE DEF Reap, EndLegs, Disarm, Fire, Goto
  <2>1. /\ Typed /\ Shape /\ l \in Legs /\ RunOk(l) /\ TalkOk(l)
        /\ reaped \subseteq Legs /\ backed \subseteq Legs
    BY <1>1, Shaped DEF Inv, LegOk, Calm, Typed, BridgingType, MemoryType
  <2>2. ASSUME NEW m \in Legs, NoteChannel(m) \/ Recover(m)
        PROVE  Still
    BY <1>1, <2>2
       DEF NoteChannel, Recover, RecoverRinging, RecoverParked, RecoverBridged, RecoverOther
  <2>3. ASSUME NEW m \in Legs, HandleAnswer(m)
        PROVE  Still
    BY <2>1, <2>3 DEF HandleAnswer, TalkOk, RunOk, Past
  <2>4. ASSUME NEW m \in Legs, Overflow(m) PROVE Still
    BY <2>1, <2>4 DEF Overflow, TalkOk
  <2>5. ASSUME NEW m \in Legs, BridgeGivenUp(m), chan[l] = "bridged"
        PROVE  l \in dying' => l \in dying
    BY <2>1, <2>5 DEF BridgeGivenUp, TalkOk
  <2>6. ASSUME NEW m \in Legs, InviteBot(m), chan[l] = "dialing", l \in dying
        PROVE  chan'[l] # "invited"
    <3>1. l \notin reaped /\ CallOf[l] \in withdrawn
      BY <1>1, <2>1, <2>6 DEF InviteBot, TalkOk
    <3> QED BY <2>1, <2>6, <3>1 DEF InviteBot, RefuseInvite, Shape
  <2>7. ASSUME ~\E m \in Legs : NoteChannel(m) \/ Recover(m) \/ HandleAnswer(m)
                                  \/ Overflow(m) \/ BridgeGivenUp(m) \/ InviteBot(m)
        PROVE  Still
    <3>1. ASSUME NEW m \in Legs,
                 PlaceAI(m) \/ Dial(m) \/ Switch(m) \/ AnswerInvite(m)
          PROVE  Still
      <4>1. ASSUME PlaceAI(m) \/ Dial(m) PROVE Still
        BY <2>1, <4>1
           DEF PlaceAI, Dial, CheckPlaced, ClaimCall, AskLive, AskLedger, Answered, TakeLine, Originate,
               Arm, AttachJob, HoldUnconfirmed, Shape
      <4>2. ASSUME Switch(m) PROVE Still
        BY <2>1, <4>2
           DEF Switch, RunOriginate, RefuseOriginate, Answer, LetGo, Hangup, RunTransfer, Shape
      <4>3. ASSUME AnswerInvite(m) PROVE Still
        BY <2>1, <4>3 DEF AnswerInvite, RefuseInvite, Shape
      <4> QED BY <3>1, <4>1, <4>2, <4>3
    <3>2. ASSUME NEW m \in Legs, Handle(m) PROVE Still
      BY <2>7, <3>2 DEF Handle, Dispatch, Leave, HandleHangup, HandleBotLeg, HandleJob
    <3>3. ASSUME NEW m \in Legs,
                 WindowEnds(m) \/ JobExpires(m) \/ UnconfirmedAsk(m)
                 \/ UnconfirmedExpires(m) \/ WriteFailure(m)
          PROVE  Still
      BY <3>3 DEF WindowEnds, JobExpires, UnconfirmedAsk, UnconfirmedExpires, WriteFailure
    <3>4. ASSUME NEW m \in Legs, Continue(m) PROVE Still
      BY <2>7, <3>4 DEF Continue, TakeSlot, SlotReserved, SendBridge, BridgeReplied,
         BridgeUnconfirmed, BridgeExpires, TransferOnAnswer
    <3>5. ASSUME NEW c \in Calls, WriteCDR(c) \/ SlotLapses(c)
          PROVE  Still
      BY <3>5 DEF WriteCDR, SlotLapses
    <3>6. ASSUME Connect \/ ListChannels \/ AdoptLiveChannels \/ MarkReconciled \/ LoseLink
                 \/ Crash
          PROVE  Still
      BY <2>1, <3>6
         DEF Connect, ListChannels, AdoptLiveChannels, MarkReconciled, LoseLink, LinkDrops, Crash
    <3> QED BY <1>1, <2>7, <3>1, <3>2, <3>3, <3>4, <3>5, <3>6 DEF Next
  <2>8. ASSUME NEW m \in Legs, BridgeGivenUp(m) PROVE UNCHANGED chan
    BY <2>8 DEF BridgeGivenUp
  <2>9. ASSUME NEW m \in Legs, InviteBot(m) PROVE UNCHANGED dying
    BY <2>9 DEF InviteBot
  <2> QED BY <2>2, <2>3, <2>4, <2>5, <2>6, <2>7, <2>8, <2>9
<1>2. Inv /\ [Next]_vars =>
      [spent.errors = 0 =>
          \A l \in backed \ reaped' :
             /\ chan[l] = "bridged" /\ l \in dying' => l \in dying
             /\ chan[l] = "dialing" /\ l \in dying => chan'[l] # "invited"]_vars
  BY <1>1
<1> QED BY <1>2, Invariance, PTL DEF TalkingIsNotEnded, Spec

\* A slot kept past its short expiry is never left to nobody: a hold, a command
\* on its way or a window gives it back, over drops and crashes too.
THEOREM KeptSlotIsWatched == Spec => []KeptIsWatched
<1>1. Inv => KeptIsWatched BY DEF Inv, KeptOk, Watches, KeptIsWatched, Calm
<1> QED BY <1>1, Invariance, PTL

-----------------------------------------------------------------------------
(***************************************************************************)
(* Outbound calling, of the legs of one call: a request and its retries    *)
(* never both have a leg on the switch (OneLegPerCall), a line is given    *)
(* back on every path (LinesComeBack) and covers its call                  *)
(* (LinesCoverCalls), no placement vanishes (EndedIsRecorded), one that is *)
(* recorded as failed is ended (FailedIsEnded), and no leg stays parked    *)
(* (ParkedIsAttended). For every set of legs, calls and bounds.            *)
(*                                                                         *)
(* The invariant has four tiers, after what they stand: the first holds    *)
(* always, the second while the link holds (NoDrop), the third while       *)
(* besides no listing and no write fails, over any number of crashes       *)
(* (Sound), the fourth while nothing fails (Steady); what keeps a leg from *)
(* staying parked also needs answers to be told after the reply to the     *)
(* originate (IsPrompt). A step that spends a fault only leaves tiers, and *)
(* never enters one (Milder). Each action has a lemma, with a step for     *)
(* each part of the invariant it can disturb.                              *)
(***************************************************************************)

\* Neither a drop, nor a failed listing, nor a lost write; any crash.
Sound == NoDrop /\ Calm

-----------------------------------------------------------------------------
(* What the invariant says of a leg.                                       *)

\* Another leg of the same call.
Twin(l, m) == m # l /\ CallOf[m] = CallOf[l]

\* The leg's request holds the claim on its call ...
Claimed(l) ==
    \/ req[l] \in {"claimed", "notLive", "cleared", "lined", "sent", "armed"}
    \/ job[l] # "none" \/ l \in failing

\* ... and has heard from the registry and the ledger that nobody placed it.
Cleared(l) ==
    req[l] \in {"cleared", "lined", "sent", "armed"} \/ job[l] # "none" \/ l \in failing

\* The switch has the leg, or has been asked for it.
Out(l) == chan[l] \in {"queued", "ringing", "answered", "parked", "dialing", "invited", "bridged"}
CreateAhead(l) == Occurs(events[l], "create")
HangupAhead(l) == Occurs(events[l], "hangup")

\* The leg's call is on the ledger.
HasRow(l) == cdr[CallOf[l]] # "none"

\* The leg is out, or the registry has it or will hear of it.
Present(l) == Out(l) \/ CreateAhead(l) \/ l \in reg

\* The stages before a channel.
Unmade == {"none", "queued", "failed"}

\* A creation is told before anything else of its leg.
Opening(q) == \A i \in 1..Len(q) : q[i] = "create" => i = 1

(***************************************************************************)
(* Always.                                                                 *)
(***************************************************************************)
\* The request, its tracked originate and its failure row succeed each other.
TrackOk(l) ==
    /\ req[l] \in {"idle", "checked", "claimed", "notLive", "cleared"} =>
           job[l] = "none" /\ l \notin failing
    /\ req[l] \in {"lined", "sent", "armed"} => job[l] = "expected" /\ l \notin failing
    /\ req[l] = "done" => job[l] # "expected"
    /\ job[l] # "none" => l \notin failing
    /\ l \in seen => job[l] # "none"
    /\ kept[l] # "none" => req[l] \in {"sent", "armed"}
    /\ expiry[l] # "none" => job[l] = "held"
    /\ req[l] \notin {"idle", "done"} \/ Claimed(l) => ready

\* What is told of a leg, and the results and notes made of it, come after its
\* channel; a leg that is noted, or has a result, has had its creation told.
ToldOk(l) ==
    /\ job[l] \in {"tracked", "held"} => chan[l] # "none"
    /\ chan[l] \in Unmade =>
           /\ events[l] = <<>> /\ l \notin reg /\ l \notin seen /\ listing[l] = "none"
           /\ \A k \in Kinds : ~AtOf(l, k)
    /\ Opening(events[l])
    /\ link = "down" => events[l] = <<>>
    /\ CreateAhead(l) /\ chan[l] = "gone" => HangupAhead(l)
    /\ l \in seen \/ AtOf(l, "create") \/ kept[l] # "none" => ~CreateAhead(l)
    /\ result[l] = "ok" \/ kept[l] = "ok" =>
           chan[l] \in {"parked", "dialing", "invited", "bridged", "gone"}
    /\ result[l] = "fail" \/ kept[l] = "fail" => chan[l] \in {"gone", "failed"}

\* One request at a time holds the claim on a call.
ClaimOk(l) ==
    Claimed(l) => CallOf[l] \in placing /\ \A m \in Legs : Twin(l, m) => ~Claimed(m)

(***************************************************************************)
(* While the link holds.                                                   *)
(***************************************************************************)
\* The gate is open, or the reconciliation at work, on a link that is up.
LinkOk == (ready \/ rec # "idle" => LinkUp) /\ (rec # "idle" => ~ready)

\* A refused originate leaves a result for whoever tracks it.
FateOk(l) == chan[l] = "failed" /\ job[l] # "none" => result[l] = "fail" \/ kept[l] = "fail"

\* Nothing on its way would take the leg's line back: before it reserves one,
\* once its failure is to be written, or once its creation was told.
Unbacked(l) ==
    \/ req[l] \in {"claimed", "notLive", "cleared"} \/ l \in failing \/ expiry[l] = "live"
    \/ job[l] # "none" /\ chan[l] \notin Unmade /\ ~CreateAhead(l)

LineOk(l) == CallOf[l] \in lines /\ Unbacked(l) => Live(CallOf[l])

\* A line is for a call being placed or on the registry: a claim is not given up
\* under a line but for a live call (LineOk).
LinesOk == \A c \in lines : c \in placing \/ Live(c)

(***************************************************************************)
(* While besides no listing and no write fails, over crashes.              *)
(***************************************************************************)
\* The gate is open once what was up is back in the registry.
SoundLink ==
    /\ ready <=> link = "up"
    /\ rec = "idle" => link # "hook"
    /\ ~ready /\ rec # "recover" => reg = {}

\* Once the gate is open, a leg the switch has is on the registry, or its
\* creation is on its way, or its claim stands, or its row does; the registry
\* has no leg that is gone but those whose hangup is on its way.
SoundLeg(l) ==
    /\ rec = "adopt" /\ Out(l) => listing[l] # "none"
    /\ rec = "recover" /\ Out(l) => l \in reg
    /\ ready /\ Out(l) => l \in reg \/ Claimed(l) \/ HasRow(l)
    /\ ready /\ IsUp(l) => l \in reg \/ CreateAhead(l)
    /\ l \in reg \/ listing[l] # "none" => IsUp(l) \/ HangupAhead(l)
    /\ job[l] # "none" /\ l \in reg => l \in seen \/ AtOf(l, "create")
    /\ expiry[l] = "live" => (l \in reg \/ chan[l] = "gone") /\ ~CreateAhead(l)

\* A request that has asked both registry and ledger is alone with its call.
SoundPair(l) ==
    \A m \in Legs : Twin(l, m) =>
       /\ req[l] = "notLive" /\ Out(m) => HasRow(l)
       /\ Cleared(l) => ~Out(m)
       /\ Out(l) => ~Out(m)

(***************************************************************************)
(* While nothing fails.                                                    *)
(***************************************************************************)
\* A leg that is present is on the registry, claimed, or given up on after its
\* row; one given up on is ended when its creation is handled; one that is not
\* has its line.
SteadyLeg(l) ==
    /\ chan[l] # "none" => ready
    /\ listing[l] = "none" /\ l \notin todo
    /\ Present(l) => l \in reg \/ Claimed(l) \/ (HasRow(l) /\ l \in late)
    /\ l \in failing /\ Present(l) => l \in reg \cup late
    /\ l \in reg => ~CreateAhead(l)
    /\ AtOf(l, "create") => l \in reg
    /\ l \in reaped =>
           ~CreateAhead(l) /\ ~AtOf(l, "create") /\ chan[l] \notin {"none", "queued"}
    /\ l \in late /\ IsUp(l) => CreateAhead(l) \/ AtOf(l, "create")
    /\ /\ req[l] = "lined" \/ Present(l)
       /\ l \notin late \cup reaped /\ chan[l] \notin {"gone", "failed"}
       => CallOf[l] \in lines

\* SoundPair, of legs the registry has or will hear of as well.
SteadyPair(l) ==
    \A m \in Legs : Twin(l, m) =>
       /\ req[l] = "notLive" /\ Present(m) => HasRow(l)
       /\ Cleared(l) => ~Present(m)
       /\ Present(l) => ~Present(m)

\* A leg that is over has its row, or the row or the hangup is on its way.
RowOk(l) ==
    /\ chan[l] = "gone" =>
           \/ HasRow(l) \/ CallOf[l] \in due \/ l \in failing
           \/ HangupAhead(l) /\ (l \in reg \/ CreateAhead(l))
    /\ chan[l] = "failed" => job[l] # "none" \/ l \in failing \/ HasRow(l)
    /\ req[l] \in {"cleared", "lined", "sent", "armed"} \/ job[l] # "none" =>
           cdr[CallOf[l]] # "failure"

\* A leg of a call that failed, or is about to be recorded so, is being ended or
\* will be when it is heard of.
FailOk(l) ==
    Out(l) /\ (cdr[CallOf[l]] = "failure" \/ \E m \in failing : CallOf[m] = CallOf[l])
       => l \in late \cup dying

AnswerAhead(l) == Occurs(events[l], "answer") \/ AtOf(l, "answer")

\* Of the two facts a continuation waits for, each is known, or on its way, or
\* the leg is given up on; once it has run it, or what it asked of the switch, is
\* still at work on a parked leg.
PromptOk(l) ==
    /\ AtOf(l, "answer") => req[l] # "sent"
    /\ "released" \in pend[l] \/ ran[l] = 1 => chan[l] \in {"parked", "dialing", "invited", "bridged",
         "gone"}
    /\ pend[l] # {} => "armed" \in pend[l]
    /\ ~("answered" \in pend[l] /\ "released" \in pend[l])
    /\ ran[l] = 0 /\ l \notin late \cup dying =>
         /\ /\ chan[l] \in {"queued", "ringing", "answered", "parked"}
            /\ req[l] \in {"armed", "done"}
            => pend[l] # {}
         /\ chan[l] \in {"answered", "parked"} => AnswerAhead(l) \/ "answered" \in pend[l]
         /\ chan[l] = "parked" => result[l] = "ok" \/ kept[l] = "ok" \/ "released" \in pend[l]
    /\ ran[l] = 1 /\ chan[l] = "parked" =>
           cont[l] \in {"start", "waiting", "go"} \/ l \in transfers \cup dying

CallInv ==
    /\ \A l \in Legs : TrackOk(l) /\ ToldOk(l) /\ ClaimOk(l)
    /\ NoDrop => LinkOk /\ LinesOk /\ \A l \in Legs : FateOk(l) /\ LineOk(l)
    /\ Sound => SoundLink /\ \A l \in Legs : SoundLeg(l) /\ SoundPair(l)
    /\ Steady => \A l \in Legs : SteadyLeg(l) /\ SteadyPair(l) /\ RowOk(l) /\ FailOk(l)
    /\ Steady /\ IsPrompt => \A l \in Legs : PromptOk(l)

-----------------------------------------------------------------------------
(* Lemmas.                                                                 *)

\* A step leaves the bounds alone or spends a fault, which only leaves tiers.
LEMMA Milder ==
    ASSUME SpentType, UNCHANGED spent \/ \E f \in {"drops", "crashes", "errors"} : Faults(f)
    PROVE  /\ (NoDrop' => NoDrop) /\ (Sound' => Sound) /\ (Steady' => Steady /\ UNCHANGED spent)
           /\ Faults("drops") => ~NoDrop'
           /\ Faults("errors") => ~Calm'
           /\ Faults("crashes") => ~Steady'
<1> USE DEF SpentType, NoDrop, Sound, Steady, Calm
<1>2. ASSUME NEW f \in {"drops", "crashes", "errors"}, Faults(f)
      PROVE /\ (NoDrop' => NoDrop) /\ (Sound' => Sound) /\ ~Steady'
            /\ f = "drops" => ~NoDrop'
            /\ f = "errors" => ~Calm'
  <2>1. PICK n \in Nat : spent[f] = n BY <1>2
  <2>2. spent' = [spent EXCEPT ![f] = n + 1] BY <1>2, <2>1 DEF Faults
  <2>3. CASE f = "drops" BY <2>1, <2>2, <2>3
  <2>4. CASE f = "crashes" BY <2>1, <2>2, <2>4
  <2>5. CASE f = "errors" BY <2>1, <2>2, <2>5
  <2> QED BY <2>3, <2>4, <2>5
<1> QED BY <1>2

LEMMA Bounded ==
    ASSUME Next
    PROVE  UNCHANGED spent \/ \E f \in {"drops", "crashes", "errors"} : Faults(f)
<1>1. ASSUME NEW l \in Legs, PlaceAI(l) \/ Dial(l) PROVE UNCHANGED spent
  BY <1>1 DEF PlaceAI, Dial, CheckPlaced, ClaimCall, AskLive, AskLedger, Answered, TakeLine,
              Originate, Arm, AttachJob, HoldUnconfirmed
<1>2. ASSUME NEW l \in Legs, Switch(l) \/ InviteBot(l) \/ AnswerInvite(l) \/ Handle(l)
      PROVE  UNCHANGED spent
  BY <1>2 DEF Switch, Application, InviteBot, AnswerInvite, Handle, Dispatch, NoteChannel,
              HandleAnswer, HandleHangup, HandleBotLeg, HandleJob
<1>3. ASSUME NEW l \in Legs,
             \/ WindowEnds(l) \/ JobExpires(l) \/ UnconfirmedAsk(l) \/ UnconfirmedExpires(l)
             \/ Recover(l)
      PROVE  UNCHANGED spent
  BY <1>3 DEF WindowEnds, JobExpires, UnconfirmedAsk, UnconfirmedExpires, Recover
<1>4. ASSUME NEW l \in Legs, Continue(l) PROVE UNCHANGED spent
  BY <1>4 DEF Continue, TakeSlot, SlotReserved, Overflow, SendBridge, BridgeReplied,
              BridgeUnconfirmed, BridgeExpires, BridgeGivenUp, TransferOnAnswer
<1>5. ASSUME NEW l \in Legs, WriteFailure(l) PROVE UNCHANGED spent \/ Faults("errors")
  BY <1>5 DEF WriteFailure
<1>6. ASSUME NEW c \in Calls, WriteCDR(c) \/ SlotLapses(c) PROVE UNCHANGED spent \/
        Faults("errors")
  BY <1>6 DEF WriteCDR, SlotLapses
<1>7. ASSUME Connect \/ ListChannels \/ AdoptLiveChannels \/ MarkReconciled
      PROVE  UNCHANGED spent \/ Faults("errors")
  BY <1>7 DEF Connect, ListChannels, AdoptLiveChannels, MarkReconciled
<1>8. ASSUME LoseLink \/ Crash PROVE Faults("drops") \/ Faults("crashes")
  BY <1>8 DEF LoseLink, Crash
<1> QED BY <1>1, <1>2, <1>3, <1>4, <1>5, <1>6, <1>7, <1>8 DEF Next

\* What is queued after a creation, and what is left once it is handed on.
LEMMA Opens ==
    ASSUME NEW q \in Seq(Kinds), Opening(q)
    PROVE  /\ \A e \in Kinds : e # "create" => Opening(Append(q, e))
           /\ q # <<>> => Opening(Tail(q)) /\ ~Occurs(Tail(q), "create")
           /\ Opening(q \o <<"bot", "hangup">>)
           /\ Occurs(q \o <<"bot", "hangup">>, "create") <=> Occurs(q, "create")
           /\ Occurs(q \o <<"bot", "hangup">>, "hangup")
           /\ Occurs(q \o <<"bot", "hangup">>, "answer") <=> Occurs(q, "answer")
<1>1. ASSUME NEW e \in Kinds, e # "create" PROVE Opening(Append(q, e))
  BY <1>1 DEF Opening
<1>2. ASSUME q # <<>> PROVE ~Occurs(Tail(q), "create")
  <2>1. Len(Tail(q)) = Len(q) - 1 /\ \A i \in 1..Len(Tail(q)) : Tail(q)[i] = q[i + 1] BY <1>2
  <2>2. ASSUME NEW i \in 1..Len(Tail(q)), Tail(q)[i] = "create" PROVE FALSE
    <3>1. i + 1 \in 1..Len(q) /\ q[i + 1] = "create" BY <2>1, <2>2
    <3> QED BY <3>1 DEF Opening
  <2> QED BY <2>2 DEF Occurs
<1>3. q # <<>> => Opening(Tail(q)) BY <1>2 DEF Occurs, Opening
<1>4. PICK p \in Seq(Kinds) : p = Append(q, "bot") BY Queued DEF Kinds
<1>5. /\ Opening(p)
      /\ Occurs(p, "create") <=> Occurs(q, "create")
      /\ Occurs(p, "answer") <=> Occurs(q, "answer")
  BY <1>1, <1>4, Queued DEF Kinds
<1>6. Opening(Append(p, "hangup")) BY <1>5 DEF Opening
<1>7. /\ Occurs(Append(p, "hangup"), "create") <=> Occurs(p, "create")
      /\ Occurs(Append(p, "hangup"), "answer") <=> Occurs(p, "answer")
      /\ Occurs(Append(p, "hangup"), "hangup")
  BY <1>5, Queued DEF Kinds
<1>8. q \o <<"bot", "hangup">> = Append(p, "hangup") BY <1>4
<1> QED BY <1>1, <1>2, <1>3, <1>5, <1>6, <1>7, <1>8

LEMMA Opens0 == Opening(<<>>) BY DEF Opening

LEMMA Opens1 ==
    ASSUME NEW q \in Seq(Kinds), q = <<>>
    PROVE  /\ Opening(Append(q, "create"))
           /\ \A k \in Kinds : Occurs(Append(q, "create"), k) <=> k = "create"
<1>1. Opening(Append(q, "create")) BY DEF Opening
<1>2. ASSUME NEW k \in Kinds PROVE Occurs(Append(q, "create"), k) <=> k = "create"
  <2>1. ~Occurs(q, k) BY Empty
  <2>2. Occurs(Append(q, "create"), k) <=> Occurs(q, k) \/ k = "create" BY Queued DEF Kinds
  <2> QED BY <2>1, <2>2
<1> QED BY <1>1, <1>2

\* The event the dispatch loop has handed on is the only one of its kind.
LEMMA Handled ==
    ASSUME NEW l \in Legs, NEW e \in Kinds, at = [leg |-> l, kind |-> e], at' = NoEvent
    PROVE  \A m \in Legs, k \in Kinds : ~AtOf(m, k)' /\ (AtOf(m, k) <=> m = l /\ k = e)
<1> SUFFICES ASSUME NEW m \in Legs, NEW k \in Kinds
             PROVE  ~AtOf(m, k)' /\ (AtOf(m, k) <=> m = l /\ k = e)
  OBVIOUS
<1>1. ~AtOf(m, k)' BY DEF AtOf, NoEvent, Kinds
<1>2. AtOf(m, k) <=> m = l /\ k = e BY DEF AtOf
<1> QED BY <1>1, <1>2

\* The values the steps tell apart ...
Values ==
    /\ reg \subseteq Legs /\ failing \subseteq Legs /\ lines \subseteq Calls
    /\ \A l \in Legs : /\ CallOf[l] \in Calls
                       /\ req[l] \in {"idle", "checked", "claimed", "notLive", "cleared",
                            "lined",
                                     "sent", "armed", "done"}
                       /\ job[l] \in {"none", "expected", "tracked", "held"}
                       /\ result[l] \in {"none", "ok", "fail"}
                       /\ kept[l] \in {"none", "ok", "fail"}
                       /\ expiry[l] \in {"none", "live", "idle"}
    /\ link \in {"down", "hook", "up"} /\ rec \in {"idle", "due", "adopt", "recover"}

\* ... and the domains of the functions they change.
Shape2 ==
    /\ Shape
    /\ DOMAIN result = Legs /\ DOMAIN kept = Legs /\ DOMAIN expiry = Legs /\ DOMAIN cdr = Calls
    /\ \A c \in Calls : cdr[c] \in {"none", "failure", "call"}
    /\ ready \in BOOLEAN

LEMMA Shaped2 == Typed => Shape2 /\ Values
BY Shaped, OutboundAssumption
   DEF Typed, Shape2, Values, SwitchType, SwitchTypeOK, RequestType, TrackingType, LedgerType,
     RegistryType,
   LinesType, RecoveryType

\* What a step starts from: both invariants, and that no tier is entered.
Ground ==
    /\ Shape2 /\ Values /\ (\A m \in Legs : LegOk(m)) /\ CallInv /\ SpentType
    /\ NoDrop' => NoDrop
    /\ Sound' => Sound /\ RecOk /\ ~Faults("errors")
    /\ Steady' => Steady /\ Sound /\ UNCHANGED spent /\ ~Faults("errors")

LEMMA Grounded == ASSUME Inv, CallInv, Next PROVE Ground
<1>1. Typed /\ \A m \in Legs : LegOk(m) BY DEF Inv
<1>2. SpentType /\ (Calm => RecOk) BY <1>1 DEF Typed, Inv
<1> QED BY <1>1, <1>2, Shaped2, Milder, Bounded DEF Ground, Sound, Steady, Calm

USE DEF Ground, Sound, Twin, Claimed, Cleared, Out, CreateAhead, HangupAhead, HasRow, Present,
        Unmade, Values, Stages, Kinds, NoEvent, IsUp, UpStages, Past, LinkUp,
        switchVars, request, tracking, memory, bridging, recovery, ledger
USE DEF CallInv

\* Each part of the invariant depends on a few variables only.
LEMMA Frames ==
    ASSUME Ground
    PROVE  /\ UNCHANGED <<req, job, failing, seen, kept, expiry, ready>>
                => (\A m \in Legs : TrackOk(m)')
           /\ UNCHANGED <<link, chan, events, reg, seen, listing, at, kept, result, job>>
                => (\A m \in Legs : ToldOk(m)')
           /\ UNCHANGED <<req, job, failing, placing>>
                => (\A m \in Legs : ClaimOk(m)')
           /\ UNCHANGED <<ready, rec, link>>
                => (NoDrop' => LinkOk')
           /\ UNCHANGED <<chan, job, result, kept>>
                => (NoDrop' => \A m \in Legs : FateOk(m)')
           /\ UNCHANGED <<lines, placing, reg>>
                => (NoDrop' => LinesOk')
           /\ UNCHANGED <<lines, req, failing, expiry, job, chan, events, reg>>
                => (NoDrop' => \A m \in Legs : LineOk(m)')
           /\ UNCHANGED <<ready, link, rec, reg>>
                => (Sound' => SoundLink')
           /\ UNCHANGED <<rec, chan, listing, reg, ready, req, job, failing, cdr, events, seen,
                          at, expiry>>
                => (Sound' => \A m \in Legs : SoundLeg(m)')
           /\ UNCHANGED <<req, chan, cdr, job, failing>>
                => (Sound' => \A m \in Legs : SoundPair(m)')
           /\ UNCHANGED <<chan, ready, listing, todo, events, reg, req, job, failing, cdr, late,
                          reaped, at, lines>>
                => (Steady' => \A m \in Legs : SteadyLeg(m)')
           /\ UNCHANGED <<req, chan, events, reg, cdr, job, failing>>
                => (Steady' => \A m \in Legs : SteadyPair(m)')
           /\ UNCHANGED <<chan, cdr, due, failing, events, reg, job, req, late>>
                => (Steady' => \A m \in Legs : RowOk(m)')
           /\ UNCHANGED <<chan, cdr, failing, late>> /\ dying \subseteq dying'
                => (Steady' => \A m \in Legs : FailOk(m)')
           /\ UNCHANGED <<at, req, pend, ran, chan, late, dying, events, result, kept, cont,
                          transfers>>
                => (Steady' /\ IsPrompt => \A m \in Legs : PromptOk(m)')
<1>1. UNCHANGED <<req, job, failing, seen, kept, expiry, ready>>
          => (\A m \in Legs : TrackOk(m)')
  BY DEF TrackOk
<1>2. UNCHANGED <<link, chan, events, reg, seen, listing, at, kept, result, job>>
          => (\A m \in Legs : ToldOk(m)')
  BY DEF ToldOk, AtOf
<1>3. UNCHANGED <<req, job, failing, placing>>
          => (\A m \in Legs : ClaimOk(m)')
  BY DEF ClaimOk
<1>4. UNCHANGED <<ready, rec, link>>
          => (NoDrop' => LinkOk')
  BY DEF LinkOk
<1>5. UNCHANGED <<chan, job, result, kept>>
          => (NoDrop' => \A m \in Legs : FateOk(m)')
  BY DEF FateOk
<1>6. UNCHANGED <<lines, placing, reg>>
          => (NoDrop' => LinesOk')
  BY DEF LinesOk, Live
<1>7. UNCHANGED <<lines, req, failing, expiry, job, chan, events, reg>>
          => (NoDrop' => \A m \in Legs : LineOk(m)')
  BY DEF LineOk, Live, Unbacked
<1>8. UNCHANGED <<ready, link, rec, reg>>
          => (Sound' => SoundLink')
  BY DEF SoundLink
<1>9. UNCHANGED <<rec, chan, listing, reg, ready, req, job, failing, cdr, events, seen, at,
                  expiry>>
          => (Sound' => \A m \in Legs : SoundLeg(m)')
  BY DEF SoundLeg, AtOf
<1>10. UNCHANGED <<req, chan, cdr, job, failing>>
          => (Sound' => \A m \in Legs : SoundPair(m)')
  BY DEF SoundPair
<1>11. UNCHANGED <<chan, ready, listing, todo, events, reg, req, job, failing, cdr, late,
                   reaped, at, lines>>
          => (Steady' => \A m \in Legs : SteadyLeg(m)')
  BY DEF SteadyLeg, AtOf
<1>12. UNCHANGED <<req, chan, events, reg, cdr, job, failing>>
          => (Steady' => \A m \in Legs : SteadyPair(m)')
  BY DEF SteadyPair
<1>13. UNCHANGED <<chan, cdr, due, failing, events, reg, job, req, late>>
          => (Steady' => \A m \in Legs : RowOk(m)')
  BY DEF RowOk
<1>14. UNCHANGED <<chan, cdr, failing, late>> /\ dying \subseteq dying'
          => (Steady' => \A m \in Legs : FailOk(m)')
  BY DEF FailOk
<1>15. UNCHANGED <<at, req, pend, ran, chan, late, dying, events, result, kept, cont,
                   transfers>>
          => (Steady' /\ IsPrompt => \A m \in Legs : PromptOk(m)')
  BY DEF PromptOk, AnswerAhead, AtOf
<1> QED BY <1>1, <1>2, <1>3, <1>4, <1>5, <1>6, <1>7, <1>8, <1>9, <1>10, <1>11, <1>12, <1>13,
      <1>14, <1>15
-----------------------------------------------------------------------------
(* What becomes of a tracked originate: shared by the handlers of its       *)
(* reply, its result and its windows.                                      *)

\* The step is about the originate of l only.
Concerned(l) ==
    /\ \A m \in Legs \ {l} :
           /\ req'[m] = req[m] /\ job'[m] = job[m] /\ kept'[m] = kept[m]
           /\ expiry'[m] = expiry[m] /\ (m \in seen' <=> m \in seen) /\ result'[m] = result[m]
    /\ result'[l] \in {result[l], "none"}
    /\ UNCHANGED <<link, chan, events, ready, rec, listing, todo, reg, at, cdr, due, reaped>>
    /\ UNCHANGED <<dying, spent>>

\* The originate of l is no longer tracked.
Over(l) ==
    /\ Concerned(l)
    /\ job'[l] = "none" /\ kept'[l] = "none" /\ expiry'[l] = "none" /\ l \notin seen'
    /\ req'[l] = "done"

LEMMA Kept ==
    ASSUME NEW l \in Legs, Concerned(l)
    PROVE  /\ \A m \in Legs, k \in Kinds : AtOf(m, k)' <=> AtOf(m, k)
           /\ \A d \in Calls : Live(d)' <=> Live(d)
BY DEF Concerned, AtOf, Live

\* The claim is given up: the leg is on the registry, or the switch has it no
\* more, and a line only stays for a live call.
LEMMA ClaimGoes ==
    ASSUME Ground, NEW l \in Legs, Over(l), job[l] # "none", placing' = placing \ {CallOf[l]},
           UNCHANGED <<failing, late>>, lines' = lines \/ lines' = lines \ {CallOf[l]},
           NoDrop' => (CallOf[l] \in lines' => Live(CallOf[l])),
           Sound' => (Out(l) => l \in reg \/ HasRow(l)),
           Steady' => (Present(l) => l \in reg) /\ (chan[l] = "failed" => HasRow(l))
                      /\ (Present(l) => UNCHANGED lines),
           Steady' /\ IsPrompt => \A m \in Legs : PromptOk(m)'
    PROVE  CallInv'
<1>1. Concerned(l) BY DEF Over
<1>2. \A m \in Legs : TrackOk(m)'
  BY <1>1, Kept DEF TrackOk, Concerned, Over
<1>3. \A m \in Legs : ToldOk(m)'
  BY <1>1, Kept DEF ToldOk, Concerned, Over
<1>4. \A m \in Legs : ClaimOk(m)'
  BY <1>1, Kept DEF ClaimOk, TrackOk, Concerned, Over
<1>5. NoDrop' => LinkOk'
  BY <1>1, Kept DEF LinkOk, Concerned, Over
<1>6. NoDrop' => \A m \in Legs : FateOk(m)'
  BY <1>1, Kept DEF FateOk, Concerned, Over
<1>7. NoDrop' => LinesOk'
  BY <1>1, Kept DEF LinesOk, Concerned, Over
<1>8. NoDrop' => \A m \in Legs : LineOk(m)'
  BY <1>1, Kept DEF LineOk, Unbacked, ClaimOk, TrackOk, Concerned, Over
<1>9. Sound' => SoundLink'
  BY <1>1, Kept DEF SoundLink, Concerned, Over
<1>10. Sound' => \A m \in Legs : SoundLeg(m)'
  BY <1>1, Kept DEF SoundLeg, Concerned, Over
<1>11. Sound' => \A m \in Legs : SoundPair(m)'
  BY <1>1, Kept DEF SoundPair, Concerned, Over
<1>12. Steady' => \A m \in Legs : SteadyLeg(m)'
  BY <1>1, Kept DEF SteadyLeg, SteadyPair, ClaimOk, Concerned, Over
<1>13. Steady' => \A m \in Legs : SteadyPair(m)'
  BY <1>1, Kept DEF SteadyPair, Concerned, Over
<1>14. Steady' => \A m \in Legs : RowOk(m)'
  BY <1>1, Kept DEF RowOk, Concerned, Over
<1>15. Steady' => \A m \in Legs : FailOk(m)'
  BY <1>1, Kept DEF FailOk, Concerned, Over
<1> QED BY <1>2, <1>3, <1>4, <1>5, <1>6, <1>7, <1>8, <1>9, <1>10, <1>11, <1>12, <1>13, <1>14,
      <1>15

\* The placement fails: the line goes, and the claim stands for the row; a leg
\* the switch may still make is given up on.
LEMMA ClaimFails ==
    ASSUME Ground, NEW l \in Legs, Over(l), job[l] # "none", UNCHANGED placing,
           lines' = lines \ {CallOf[l]}, failing' = failing \cup {l},
           late' = late \/ late' = late \cup {l},
           Steady' => (Present(l) => l \in late')
                      /\ (l \in late' /\ IsUp(l) => CreateAhead(l) \/ AtOf(l, "create")),
           Steady' /\ IsPrompt => \A m \in Legs : PromptOk(m)'
    PROVE  CallInv'
<1>1. Concerned(l) BY DEF Over
<1>2. \A m \in Legs : TrackOk(m)'
  BY <1>1, Kept DEF TrackOk, Concerned, Over
<1>3. \A m \in Legs : ToldOk(m)'
  BY <1>1, Kept DEF ToldOk, Concerned, Over
<1>4. \A m \in Legs : ClaimOk(m)'
  BY <1>1, Kept DEF ClaimOk, TrackOk, Concerned, Over
<1>5. NoDrop' => LinkOk'
  BY <1>1, Kept DEF LinkOk, Concerned, Over
<1>6. NoDrop' => \A m \in Legs : FateOk(m)'
  BY <1>1, Kept DEF FateOk, Concerned, Over
<1>7. NoDrop' => LinesOk'
  BY <1>1, Kept DEF LinesOk, Concerned, Over
<1>8. NoDrop' => \A m \in Legs : LineOk(m)'
  BY <1>1, Kept DEF LineOk, Unbacked, TrackOk, Concerned, Over
<1>9. Sound' => SoundLink'
  BY <1>1, Kept DEF SoundLink, Concerned, Over
<1>10. Sound' => \A m \in Legs : SoundLeg(m)'
  BY <1>1, Kept DEF SoundLeg, Concerned, Over
<1>11. Sound' => \A m \in Legs : SoundPair(m)'
  BY <1>1, Kept DEF SoundPair, Concerned, Over
<1>12. Steady' => \A m \in Legs : SteadyLeg(m)'
  BY <1>1, Kept DEF SteadyLeg, SteadyPair, ClaimOk, Concerned, Over
<1>13. Steady' => \A m \in Legs : SteadyPair(m)'
  BY <1>1, Kept DEF SteadyPair, Concerned, Over
<1>14. Steady' => \A m \in Legs : RowOk(m)'
  BY <1>1, Kept DEF RowOk, Concerned, Over
<1>15. Steady' => \A m \in Legs : FailOk(m)'
  BY <1>1, Kept DEF FailOk, SteadyPair, Concerned, Over
<1> QED BY <1>2, <1>3, <1>4, <1>5, <1>6, <1>7, <1>8, <1>9, <1>10, <1>11, <1>12, <1>13, <1>14,
      <1>15

\* The originate has returned with no result yet: its job is tracked from here.
LEMMA Attached ==
    ASSUME Ground, NEW l \in Legs, Concerned(l), req[l] \in {"sent", "armed"}, req'[l] = "done",
           job'[l] \in {"tracked", "held"}, kept[l] = "none",
           UNCHANGED <<result, kept, expiry, seen, placing, lines, failing, late>>,
           Steady' /\ IsPrompt => \A m \in Legs : PromptOk(m)'
    PROVE  CallInv'
<1>1. job[l] = "expected" /\ chan[l] # "none" BY DEF TrackOk, LegOk, TellOk
<1>2. \A m \in Legs : TrackOk(m)'
  BY <1>1, Kept DEF TrackOk, Concerned
<1>3. \A m \in Legs : ToldOk(m)'
  BY <1>1, Kept DEF ToldOk, Concerned
<1>4. \A m \in Legs : ClaimOk(m)'
  BY <1>1, Kept DEF ClaimOk, TrackOk, Concerned
<1>5. NoDrop' => LinkOk'
  BY <1>1, Kept DEF LinkOk, Concerned
<1>6. NoDrop' => \A m \in Legs : FateOk(m)'
  BY <1>1, Kept DEF FateOk, Concerned
<1>7. NoDrop' => LinesOk'
  BY <1>1, Kept DEF LinesOk, Concerned
<1>8. NoDrop' => \A m \in Legs : LineOk(m)'
  BY <1>1, Kept DEF LineOk, Unbacked, ClaimOk, TrackOk, Concerned
<1>9. Sound' => SoundLink'
  BY <1>1, Kept DEF SoundLink, Concerned
<1>10. Sound' => \A m \in Legs : SoundLeg(m)'
  BY <1>1, Kept DEF SoundLeg, Concerned
<1>11. Sound' => \A m \in Legs : SoundPair(m)'
  BY <1>1, Kept DEF SoundPair, Concerned
<1>12. Steady' => \A m \in Legs : SteadyLeg(m)'
  BY <1>1, Kept DEF SteadyLeg, SteadyPair, ClaimOk, Concerned
<1>13. Steady' => \A m \in Legs : SteadyPair(m)'
  BY <1>1, Kept DEF SteadyPair, Concerned
<1>14. Steady' => \A m \in Legs : RowOk(m)'
  BY <1>1, Kept DEF RowOk, Concerned
<1>15. Steady' => \A m \in Legs : FailOk(m)'
  BY <1>1, Kept DEF FailOk, Concerned
<1> QED BY <1>2, <1>3, <1>4, <1>5, <1>6, <1>7, <1>8, <1>9, <1>10, <1>11, <1>12, <1>13, <1>14,
      <1>15

\* A result: what it does to the claim, the line and the row.
Concluded(l, r) ==
    \/ /\ r = "ok" \/ l \in seen \/ Live(CallOf[l])
       /\ placing' = placing \ {CallOf[l]} /\ UNCHANGED <<lines, failing>>
    \/ /\ r = "fail" /\ l \notin seen /\ ~Live(CallOf[l])
       /\ UNCHANGED placing
       /\ lines' = lines \ {CallOf[l]} /\ failing' = failing \cup {l}

\* A result, once the creation of the channel was told: an ok is of a leg that
\* is on the registry; a failure is one of the placement if nobody has seen it.
LEMMA ResultApplied ==
    ASSUME Ground, NEW l \in Legs, Over(l), job[l] # "none", UNCHANGED late,
           NEW r \in {"ok", "fail"}, Concluded(l, r), ~CreateAhead(l),
           r = "ok" => chan[l] \in {"parked", "dialing", "invited", "bridged", "gone"},
           r = "fail" => chan[l] \in {"gone", "failed"},
           Steady' /\ IsPrompt => \A m \in Legs : PromptOk(m)'
    PROVE  CallInv'
<1>1. CASE r = "ok" \/ l \in seen \/ Live(CallOf[l])
  <2>1. placing' = placing \ {CallOf[l]} /\ UNCHANGED <<lines, failing>>
    BY <1>1 DEF Concluded
  <2>2. chan[l] \notin Unmade \/ Live(CallOf[l]) BY <1>1 DEF ToldOk
  <2>3. NoDrop' => (CallOf[l] \in lines' => Live(CallOf[l]))
    BY <2>1, <2>2 DEF LineOk, Unbacked
  <2>4. Sound' => (Out(l) => l \in reg) BY DEF SoundLeg, TrackOk
  <2>5. Steady' => (Present(l) => l \in reg) BY DEF SoundLeg, TrackOk
  <2>6. Steady' => chan[l] # "failed"
    <3>1. ASSUME Steady', chan[l] = "failed" PROVE FALSE
      <4>1. Live(CallOf[l]) /\ l \notin reg BY <2>2, <3>1 DEF ToldOk
      <4>2. PICK m \in reg : CallOf[m] = CallOf[l] BY <4>1 DEF Live
      <4>3. m \in Legs /\ Twin(l, m) /\ Present(m) BY <4>1, <4>2
      <4> QED BY <3>1, <4>3 DEF SteadyPair
    <3> QED BY <3>1
  <2> QED BY <2>1, <2>3, <2>4, <2>5, <2>6, ClaimGoes
<1>2. CASE r = "fail" /\ l \notin seen /\ ~Live(CallOf[l])
  <2>1. UNCHANGED placing /\ lines' = lines \ {CallOf[l]} /\ failing' = failing \cup {l}
    BY <1>2 DEF Concluded
  <2>2. ~Present(l) /\ ~IsUp(l) BY <1>2 DEF Live
  <2> QED BY <2>1, <2>2, ClaimFails
<1> QED BY <1>1, <1>2 DEF Concluded

\* What a result does to the continuation: of one that answered and was let go,
\* it starts it; otherwise it is remembered, or nothing is left to wait for.
LEMMA PromptSettled ==
    ASSUME Ground, NEW l \in Legs, NEW r \in {"ok", "fail"}, Over(l), req[l] \in {"armed",
      "done"},
           UNCHANGED <<late, transfers>>,
           r = "ok" => chan[l] \in {"parked", "dialing", "invited", "bridged", "gone"},
           r = "fail" => chan[l] \in {"gone", "failed"},
           \/ r = "ok" /\ ReleaseLeg(l)
           \/ r = "fail" /\ pend' = [pend EXCEPT ![l] = {}] /\ UNCHANGED <<cont, ran>>,
           Steady', IsPrompt
    PROVE  \A m \in Legs : PromptOk(m)'
<1>1. PromptOk(l) /\ RunOk(l) /\ \A m \in Legs : PromptOk(m) BY DEF LegOk
<1>2. \A m \in Legs \ {l} : pend'[m] = pend[m] /\ cont'[m] = cont[m] /\ ran'[m] = ran[m]
  BY DEF ReleaseLeg, Disarm, Fire, Shape2, Shape
<1>3. ASSUME NEW m \in Legs, m # l PROVE PromptOk(m)'
  BY <1>1, <1>2, <1>3, Kept DEF PromptOk, AnswerAhead, Over, Concerned
<1>4. CASE r = "fail"
  <2>1. pend'[l] = {} /\ cont'[l] = cont[l] /\ ran'[l] = ran[l] BY <1>4 DEF Shape2, Shape
  <2> QED BY <1>1, <1>3, <1>4, <2>1, Kept DEF PromptOk, AnswerAhead, Over, Concerned
<1>5. CASE r = "ok" /\ "answered" \in pend[l]
  <2>1. pend'[l] = {} /\ cont'[l] = "start" /\ ran'[l] = 1
    BY <1>1, <1>5 DEF ReleaseLeg, Disarm, Fire, Shape2, Shape, RunOk
  <2>2. PromptOk(l)'
    BY <1>1, <1>5, <2>1, Kept DEF PromptOk, AnswerAhead, Over, Concerned
  <2> QED BY <1>3, <2>2
<1>6. CASE r = "ok" /\ "answered" \notin pend[l]
  <2>1. /\ pend'[l] = IF pend[l] = {} THEN {} ELSE pend[l] \cup {"released"}
        /\ cont'[l] = cont[l] /\ ran'[l] = ran[l]
    BY <1>6 DEF ReleaseLeg, Shape2, Shape
  <2>2. PromptOk(l)'
    BY <1>1, <1>6, <2>1, Kept DEF PromptOk, AnswerAhead, Over, Concerned
  <2> QED BY <1>3, <2>2
<1> QED BY <1>4, <1>5, <1>6

-----------------------------------------------------------------------------
(* A request.                                                              *)

LEMMA CheckPlacedCall ==
    ASSUME Ground, NEW l \in Legs, CheckPlaced(l)
    PROVE  CallInv'
<1>1. /\ \A m \in Legs : ToldOk(m)'
      /\ NoDrop' => LinkOk'
      /\ NoDrop' => \A m \in Legs : FateOk(m)'
      /\ NoDrop' => LinesOk'
      /\ Sound' => SoundLink'
      /\ Steady' => \A m \in Legs : FailOk(m)'
  BY Frames DEF CheckPlaced
<1>2. \A m \in Legs : TrackOk(m)'
  BY DEF TrackOk, CheckPlaced, Shape2, Shape
<1>3. \A m \in Legs : ClaimOk(m)'
  BY DEF ClaimOk, CheckPlaced, Shape2, Shape
<1>4. NoDrop' => \A m \in Legs : LineOk(m)'
  BY DEF LineOk, Unbacked, Live, CheckPlaced, Shape2, Shape
<1>5. Sound' => \A m \in Legs : SoundLeg(m)'
  <2>1. \A m \in Legs : Claimed(m)' <=> Claimed(m) BY DEF CheckPlaced, Shape2, Shape
  <2>2. UNCHANGED <<rec, chan, listing, reg, ready, cdr, events, seen, at, expiry, job>>
    BY DEF CheckPlaced
  <2> QED BY <2>1, <2>2 DEF SoundLeg, AtOf
<1>6. Sound' => \A m \in Legs : SoundPair(m)'
  BY DEF SoundPair, CheckPlaced, Shape2, Shape
<1>7. Steady' => \A m \in Legs : SteadyLeg(m)'
  BY DEF SteadyLeg, CheckPlaced, AtOf, Shape2, Shape
<1>8. Steady' => \A m \in Legs : SteadyPair(m)'
  BY DEF SteadyPair, CheckPlaced, Shape2, Shape
<1>9. Steady' => \A m \in Legs : RowOk(m)'
  BY DEF RowOk, CheckPlaced, Shape2, Shape
<1>10. Steady' /\ IsPrompt => \A m \in Legs : PromptOk(m)'
  BY DEF PromptOk, AnswerAhead, SteadyLeg, RunOk, HoldOk, LegOk, TellOk, LinkOk, ToldOk,
         TrackOk, CheckPlaced, AtOf, Shape2, Shape
<1> QED BY <1>1, <1>2, <1>3, <1>4, <1>5, <1>6, <1>7, <1>8, <1>9, <1>10

LEMMA ClaimCallCall ==
    ASSUME Ground, NEW l \in Legs, ClaimCall(l)
    PROVE  CallInv'
<1>1. /\ \A m \in Legs \ {l} : req'[m] = req[m]
      /\ UNCHANGED <<chan, events, result, job, kept, expiry, pend, cont, ran, listing, seen,
                     late, reaped, dying, transfers, reg, failing, todo, link, ready, rec, at,
                     spent, lines, cdr, due>>
      /\ \A m \in Legs, k \in Kinds : AtOf(m, k)' <=> AtOf(m, k)
      /\ \A d \in Calls : Live(d)' <=> Live(d)
      /\ req[l] = "checked"
      /\ \/ CallOf[l] \notin placing /\ placing' = placing \cup {CallOf[l]} /\
              req'[l] = "claimed"
         \/ CallOf[l] \in placing /\ req'[l] = "done" /\ UNCHANGED placing
  BY DEF ClaimCall, AtOf, Live, Shape2, Shape
<1>2. /\ chan[l] = "none"
      /\ events[l] = <<>>
      /\ ~CreateAhead(l)
      /\ l \notin reg
      /\ \A k \in Kinds : ~AtOf(l, k)
  BY <1>1, Empty DEF LegOk, TellOk, ToldOk
<1>3. /\ \A m \in Legs : ToldOk(m)'
      /\ NoDrop' => LinkOk'
      /\ NoDrop' => \A m \in Legs : FateOk(m)'
      /\ Sound' => SoundLink'
      /\ Steady' => \A m \in Legs : FailOk(m)'
  BY Frames, <1>1, <1>2
<1>4. \A m \in Legs : TrackOk(m)'
  BY <1>1, <1>2 DEF TrackOk
<1>5. \A m \in Legs : ClaimOk(m)'
  BY <1>1, <1>2 DEF ClaimOk
<1>6. NoDrop' => LinesOk'
  BY <1>1, <1>2 DEF LinesOk
<1>7. NoDrop' => \A m \in Legs : LineOk(m)'
  BY <1>1, <1>2 DEF LineOk, Unbacked, ClaimOk, TrackOk, ToldOk, LinkOk, LinesOk
<1>8. Sound' => \A m \in Legs : SoundLeg(m)'
  BY <1>1, <1>2 DEF SoundLeg
<1>9. Sound' => \A m \in Legs : SoundPair(m)'
  BY <1>1, <1>2 DEF SoundPair
<1>10. Steady' => \A m \in Legs : SteadyLeg(m)'
  BY <1>1, <1>2 DEF SteadyLeg
<1>11. Steady' => \A m \in Legs : SteadyPair(m)'
  BY <1>1, <1>2 DEF SteadyPair
<1>12. Steady' => \A m \in Legs : RowOk(m)'
  BY <1>1, <1>2 DEF RowOk
<1>13. Steady' /\ IsPrompt => \A m \in Legs : PromptOk(m)'
  BY <1>1, <1>2 DEF PromptOk, AnswerAhead
<1> QED BY <1>3, <1>4, <1>5, <1>6, <1>7, <1>8, <1>9, <1>10, <1>11, <1>12, <1>13

LEMMA AskLiveCall ==
    ASSUME Ground, NEW l \in Legs, AskLive(l)
    PROVE  CallInv'
<1>1. /\ \A m \in Legs : ToldOk(m)'
      /\ NoDrop' => LinkOk'
      /\ NoDrop' => \A m \in Legs : FateOk(m)'
      /\ Sound' => SoundLink'
      /\ Steady' => \A m \in Legs : FailOk(m)'
  BY Frames DEF AskLive, Answered
<1>2. \A m \in Legs : TrackOk(m)'
  BY DEF TrackOk, AskLive, Answered, Shape2, Shape
<1>3. \A m \in Legs : ClaimOk(m)'
  BY DEF ClaimOk, TrackOk, AskLive, Answered, Shape2, Shape
<1>4. NoDrop' => LinesOk'
  BY DEF LinesOk, Live, AskLive, Answered, Shape2, Shape
<1>5. NoDrop' => \A m \in Legs : LineOk(m)'
  BY DEF LineOk, Unbacked, Live, AskLive, Answered, Shape2, Shape
<1>6. Sound' => \A m \in Legs : SoundLeg(m)'
  BY DEF SoundLeg, SoundLink, SoundPair, LinkOk, ToldOk, TrackOk, ClaimOk, TellOk, LegOk, Live,
         AskLive, Answered, AtOf, Shape2, Shape
<1>7. Sound' => \A m \in Legs : SoundPair(m)'
  BY DEF SoundPair, SoundLeg, SoundLink, ToldOk, TrackOk, ClaimOk, TellOk, LegOk, Live, AskLive,
         Answered, AtOf, Shape2, Shape
<1>8. Steady' => \A m \in Legs : SteadyLeg(m)'
  BY DEF SteadyLeg, SteadyPair, SoundLeg, SoundLink, LinkOk, ToldOk, TrackOk, ClaimOk, TellOk,
         LegOk, Live, AskLive, Answered, AtOf, Shape2, Shape
<1>9. Steady' => \A m \in Legs : SteadyPair(m)'
  BY DEF SteadyPair, SteadyLeg, SoundLink, ToldOk, TrackOk, ClaimOk, TellOk, LegOk, Live,
         AskLive, Answered, AtOf, Shape2, Shape
<1>10. Steady' => \A m \in Legs : RowOk(m)'
  BY DEF RowOk, AskLive, Answered, Shape2, Shape
<1>11. Steady' /\ IsPrompt => \A m \in Legs : PromptOk(m)'
  BY DEF PromptOk, AnswerAhead, SteadyLeg, RunOk, HoldOk, LegOk, TellOk, LinkOk, ToldOk,
         TrackOk, AskLive, Answered, AtOf, Shape2, Shape
<1> QED BY <1>1, <1>2, <1>3, <1>4, <1>5, <1>6, <1>7, <1>8, <1>9, <1>10, <1>11

LEMMA AskLedgerCall ==
    ASSUME Ground, NEW l \in Legs, AskLedger(l)
    PROVE  CallInv'
<1>1. /\ \A m \in Legs \ {l} : req'[m] = req[m]
      /\ UNCHANGED <<chan, events, result, job, kept, expiry, pend, cont, ran, listing, seen,
                     late, reaped, dying, transfers, reg, failing, todo, link, ready, rec, at,
                     spent, lines, cdr, due>>
      /\ \A m \in Legs, k \in Kinds : AtOf(m, k)' <=> AtOf(m, k)
      /\ \A d \in Calls : Live(d)' <=> Live(d)
      /\ req[l] = "notLive"
      /\ \/ HasRow(l) /\ req'[l] = "done" /\ placing' = placing \ {CallOf[l]}
         \/ ~HasRow(l) /\ req'[l] = "cleared" /\ placing' = placing
  BY DEF AskLedger, Answered, AtOf, Live, Shape2, Shape
<1>2. /\ chan[l] = "none"
      /\ events[l] = <<>>
      /\ ~CreateAhead(l)
      /\ l \notin reg
      /\ \A k \in Kinds : ~AtOf(l, k)
  BY <1>1, Empty DEF LegOk, TellOk, ToldOk
<1>3. /\ \A m \in Legs : ToldOk(m)'
      /\ NoDrop' => LinkOk'
      /\ NoDrop' => \A m \in Legs : FateOk(m)'
      /\ Sound' => SoundLink'
      /\ Steady' => \A m \in Legs : FailOk(m)'
  BY Frames, <1>1, <1>2
<1>4. \A m \in Legs : TrackOk(m)'
  BY <1>1, <1>2 DEF TrackOk
<1>5. \A m \in Legs : ClaimOk(m)'
  BY <1>1, <1>2 DEF ClaimOk, TrackOk
<1>6. NoDrop' => LinesOk'
  BY <1>1, <1>2 DEF LinesOk, LineOk, FateOk, Unbacked, ClaimOk, TrackOk, ToldOk
<1>7. NoDrop' => \A m \in Legs : LineOk(m)'
  BY <1>1, <1>2 DEF LineOk, Unbacked
<1>8. Sound' => \A m \in Legs : SoundLeg(m)'
  BY <1>1, <1>2 DEF SoundLeg
<1>9. Sound' => \A m \in Legs : SoundPair(m)'
  BY <1>1, <1>2 DEF SoundPair
<1>10. Steady' => \A m \in Legs : SteadyLeg(m)'
  BY <1>1, <1>2 DEF SteadyLeg
<1>11. Steady' => \A m \in Legs : SteadyPair(m)'
  BY <1>1, <1>2 DEF SteadyPair
<1>12. Steady' => \A m \in Legs : RowOk(m)'
  BY <1>1, <1>2 DEF RowOk
<1>13. Steady' /\ IsPrompt => \A m \in Legs : PromptOk(m)'
  BY <1>1, <1>2 DEF PromptOk, AnswerAhead
<1> QED BY <1>3, <1>4, <1>5, <1>6, <1>7, <1>8, <1>9, <1>10, <1>11, <1>12, <1>13

LEMMA TakeLineCall ==
    ASSUME Ground, NEW l \in Legs, NEW swept \in SUBSET lines, TakeLine(l, swept)
    PROVE  CallInv'
<1>1. /\ \A m \in Legs \ {l} : req'[m] = req[m] /\ job'[m] = job[m]
      /\ UNCHANGED <<chan, events, result, kept, expiry, pend, cont, ran, listing, seen, late,
                     reaped, dying, transfers, reg, failing, todo, link, ready, rec, at, spent,
                     cdr, due>>
      /\ \A m \in Legs, k \in Kinds : AtOf(m, k)' <=> AtOf(m, k)
      /\ \A d \in Calls : Live(d)' <=> Live(d)
      /\ req[l] = "cleared"
      /\ \A d \in swept : ~Live(d) /\ d \notin placing
      /\ \/ /\ req'[l] = "lined" /\ job'[l] = "expected" /\ UNCHANGED placing
            /\ lines' = (lines \ swept) \cup {CallOf[l]}
         \/ /\ req'[l] = "done" /\ job'[l] = job[l] /\ placing' = placing \ {CallOf[l]}
            /\ lines' = lines \ swept
  BY DEF TakeLine, AtOf, Live, Shape2, Shape
<1>2. /\ chan[l] = "none"
      /\ events[l] = <<>>
      /\ ~CreateAhead(l)
      /\ l \notin reg
      /\ \A k \in Kinds : ~AtOf(l, k)
  BY <1>1, Empty DEF LegOk, TellOk, ToldOk
<1>3. /\ NoDrop' => LinkOk'
      /\ Sound' => SoundLink'
      /\ Steady' => \A m \in Legs : FailOk(m)'
  BY Frames, <1>1, <1>2
<1>4. \A m \in Legs : TrackOk(m)'
  BY <1>1, <1>2 DEF TrackOk
<1>5. \A m \in Legs : ToldOk(m)'
  BY <1>1, <1>2 DEF ToldOk
<1>6. \A m \in Legs : ClaimOk(m)'
  BY <1>1, <1>2 DEF ClaimOk, TrackOk
<1>7. NoDrop' => \A m \in Legs : FateOk(m)'
  BY <1>1, <1>2 DEF FateOk
<1>8. NoDrop' => LinesOk'
  BY <1>1, <1>2 DEF LinesOk, LineOk, Unbacked, ClaimOk
<1>9. NoDrop' => \A m \in Legs : LineOk(m)'
  BY <1>1, <1>2 DEF LineOk, Unbacked, ClaimOk, TrackOk
<1>10. Sound' => \A m \in Legs : SoundLeg(m)'
  BY <1>1, <1>2 DEF SoundLeg
<1>11. Sound' => \A m \in Legs : SoundPair(m)'
  BY <1>1, <1>2 DEF SoundPair
<1>12. Steady' => \A m \in Legs : SteadyLeg(m)'
  BY <1>1, <1>2 DEF SteadyLeg, ClaimOk, TrackOk, Live
<1>13. Steady' => \A m \in Legs : SteadyPair(m)'
  BY <1>1, <1>2 DEF SteadyPair
<1>14. Steady' => \A m \in Legs : RowOk(m)'
  BY <1>1, <1>2 DEF RowOk
<1>15. Steady' /\ IsPrompt => \A m \in Legs : PromptOk(m)'
  BY <1>1, <1>2 DEF PromptOk, AnswerAhead
<1> QED BY <1>3, <1>4, <1>5, <1>6, <1>7, <1>8, <1>9, <1>10, <1>11, <1>12, <1>13, <1>14, <1>15

LEMMA OriginateCall ==
    ASSUME Ground, NEW l \in Legs, Originate(l)
    PROVE  CallInv'
<1>1. /\ \A m \in Legs \ {l} : chan'[m] = chan[m] /\ req'[m] = req[m] /\ job'[m] = job[m] /\
           kept'[m] = kept[m] /\ expiry'[m] = expiry[m] /\ (m \in seen' <=> m \in seen)
      /\ UNCHANGED <<events, result, pend, cont, ran, listing, late, reaped, dying, transfers,
                     reg, failing, todo, link, ready, rec, at, spent, cdr, due>>
      /\ \A m \in Legs, k \in Kinds : AtOf(m, k)' <=> AtOf(m, k)
      /\ \A d \in Calls : Live(d)' <=> Live(d)
      /\ req[l] = "lined"
      /\ \/ /\ link # "down" /\ chan'[l] = "queued" /\ req'[l] = "sent" /\ UNCHANGED <<lines,
                                                                                       placing>>
            /\ job'[l] = job[l] /\ kept'[l] = kept[l] /\ expiry'[l] = expiry[l] /\
                 UNCHANGED seen
         \/ /\ link = "down" /\ chan'[l] = chan[l] /\ req'[l] = "done"
            /\ lines' = lines \ {CallOf[l]} /\ placing' = placing \ {CallOf[l]}
            /\ job'[l] = "none" /\ kept'[l] = "none" /\ expiry'[l] = "none" /\ l \notin seen'
  BY DEF Originate, Forget, AtOf, Live, Shape2, Shape
<1>2. /\ chan[l] = "none"
      /\ events[l] = <<>>
      /\ ~CreateAhead(l)
      /\ l \notin reg
      /\ \A k \in Kinds : ~AtOf(l, k)
  BY <1>1, Empty DEF LegOk, TellOk, ToldOk
<1>3. /\ NoDrop' => LinkOk'
      /\ Sound' => SoundLink'
  BY Frames, <1>1, <1>2
<1>4. \A m \in Legs : TrackOk(m)'
  BY <1>1, <1>2 DEF TrackOk
<1>5. \A m \in Legs : ToldOk(m)'
  BY <1>1, <1>2 DEF ToldOk
<1>6. \A m \in Legs : ClaimOk(m)'
  BY <1>1, <1>2 DEF ClaimOk, TrackOk
<1>7. NoDrop' => \A m \in Legs : FateOk(m)'
  BY <1>1, <1>2 DEF FateOk
<1>8. NoDrop' => LinesOk'
  BY <1>1, <1>2 DEF LinesOk
<1>9. NoDrop' => \A m \in Legs : LineOk(m)'
  BY <1>1, <1>2 DEF LineOk, Unbacked
<1>10. Sound' => \A m \in Legs : SoundLeg(m)'
  BY <1>1, <1>2
     DEF SoundLeg, SoundLink, SoundPair, LinkOk, ToldOk, TrackOk, ClaimOk, TellOk, LegOk, Live
<1>11. Sound' => \A m \in Legs : SoundPair(m)'
  BY <1>1, <1>2
     DEF SoundPair, SoundLeg, SoundLink, ToldOk, TrackOk, ClaimOk, TellOk, LegOk, Live
<1>12. Steady' => \A m \in Legs : SteadyLeg(m)'
  BY <1>1, <1>2 DEF SteadyLeg, LinkOk, TrackOk
<1>13. Steady' => \A m \in Legs : SteadyPair(m)'
  BY <1>1, <1>2
     DEF SteadyPair, SteadyLeg, SoundLink, ToldOk, TrackOk, ClaimOk, TellOk, LegOk, Live
<1>14. Steady' => \A m \in Legs : RowOk(m)'
  BY <1>1, <1>2 DEF RowOk
<1>15. Steady' => \A m \in Legs : FailOk(m)'
  BY <1>1, <1>2
     DEF FailOk, RowOk, SteadyLeg, SteadyPair, SoundLeg, SoundLink, LinkOk, ToldOk, TrackOk,
         ClaimOk, TellOk, LegOk
<1>16. Steady' /\ IsPrompt => \A m \in Legs : PromptOk(m)'
  BY <1>1, <1>2 DEF PromptOk, AnswerAhead
<1> QED BY <1>3, <1>4, <1>5, <1>6, <1>7, <1>8, <1>9, <1>10, <1>11, <1>12, <1>13, <1>14, <1>15,
      <1>16

LEMMA ArmCall ==
    ASSUME Ground, NEW l \in Legs, Arm(l)
    PROVE  CallInv'
<1>1. /\ \A m \in Legs \ {l} : req'[m] = req[m] /\ pend'[m] = pend[m]
      /\ UNCHANGED <<chan, events, result, job, kept, expiry, cont, ran, listing, seen, late,
                     reaped, dying, transfers, reg, failing, todo, link, ready, rec, at, spent,
                     placing, lines, cdr, due>>
      /\ \A m \in Legs, k \in Kinds : AtOf(m, k)' <=> AtOf(m, k)
      /\ \A d \in Calls : Live(d)' <=> Live(d)
      /\ req[l] = "sent" /\ req'[l] = "armed" /\ pend'[l] = {"armed"}
  BY DEF Arm, AtOf, Live, Shape2, Shape
<1>2. /\ \A m \in Legs : ToldOk(m)'
      /\ NoDrop' => LinkOk'
      /\ NoDrop' => \A m \in Legs : FateOk(m)'
      /\ NoDrop' => LinesOk'
      /\ Sound' => SoundLink'
      /\ Steady' => \A m \in Legs : FailOk(m)'
  BY Frames, <1>1
<1>3. \A m \in Legs : TrackOk(m)'
  BY <1>1 DEF TrackOk
<1>4. \A m \in Legs : ClaimOk(m)'
  BY <1>1 DEF ClaimOk
<1>5. NoDrop' => \A m \in Legs : LineOk(m)'
  BY <1>1 DEF LineOk, Unbacked
<1>6. Sound' => \A m \in Legs : SoundLeg(m)'
  BY <1>1 DEF SoundLeg
<1>7. Sound' => \A m \in Legs : SoundPair(m)'
  BY <1>1 DEF SoundPair
<1>8. Steady' => \A m \in Legs : SteadyLeg(m)'
  BY <1>1 DEF SteadyLeg
<1>9. Steady' => \A m \in Legs : SteadyPair(m)'
  BY <1>1 DEF SteadyPair
<1>10. Steady' => \A m \in Legs : RowOk(m)'
  BY <1>1 DEF RowOk
<1>11. Steady' /\ IsPrompt => \A m \in Legs : PromptOk(m)'
  BY <1>1 DEF PromptOk, AnswerAhead, RunOk, LegOk
<1> QED BY <1>2, <1>3, <1>4, <1>5, <1>6, <1>7, <1>8, <1>9, <1>10, <1>11

LEMMA AttachJobCall ==
    ASSUME Ground, NEW l \in Legs, AttachJob(l)
    PROVE  CallInv'
<1> USE DEF AttachJob, Forget
<1>1. req[l] = "armed" /\ job[l] = "expected" BY DEF TrackOk
<1>2. CASE kept[l] # "none"
  <2>1. Over(l) /\ UNCHANGED <<result, late, chan, events, transfers, at>>
    BY <1>2 DEF Over, Concerned, Shape2, Shape
  <2>2. Concluded(l, kept[l])
    BY <1>2 DEF Concluded, SettleJob, FailPlacement
  <2>3. ~CreateAhead(l) /\ (kept[l] = "ok" => chan[l] \in {"parked", "dialing", "invited", "bridged",
          "gone"})
        /\ (kept[l] = "fail" => chan[l] \in {"gone", "failed"})
    BY <1>2 DEF ToldOk
  <2>4. \/ kept[l] = "ok" /\ ReleaseLeg(l)
        \/ kept[l] = "fail" /\ pend' = [pend EXCEPT ![l] = {}] /\ UNCHANGED <<cont, ran>>
    BY <1>2 DEF SettleJob, FailPlacement, Disarm
  <2>5. Steady' /\ IsPrompt => \A m \in Legs : PromptOk(m)'
    BY <1>1, <2>1, <2>3, <2>4, PromptSettled
  <2> QED BY <1>1, <1>2, <2>1, <2>2, <2>3, <2>5, ResultApplied
<1>3. CASE kept[l] = "none"
  <2>1. /\ Concerned(l) /\ req'[l] = "done" /\ job'[l] = "tracked"
        /\ UNCHANGED <<result, kept, expiry, seen, placing, lines, failing, late>>
        /\ UNCHANGED <<pend, cont, ran, chan, events, transfers, dying, at>>
    BY <1>3 DEF Concerned, Shape2, Shape
  <2>2. Steady' /\ IsPrompt => \A m \in Legs : PromptOk(m)'
    BY <1>1, <2>1, Kept DEF PromptOk, AnswerAhead, Concerned
  <2> QED BY <1>1, <1>3, <2>1, <2>2, Attached
<1> QED BY <1>2, <1>3

LEMMA HoldUnconfirmedCall ==
    ASSUME Ground, NEW l \in Legs, HoldUnconfirmed(l)
    PROVE  CallInv'
<1> USE DEF HoldUnconfirmed, Forget
<1>1. req[l] = "sent" /\ job[l] = "expected" BY DEF TrackOk
<1>2. CASE kept[l] # "none"
  <2>1. Over(l) /\ UNCHANGED <<late, transfers>> BY <1>2 DEF Over, Concerned, Shape2, Shape
  <2>2. Concluded(l, kept[l]) BY <1>2 DEF Concluded, SettleJob, FailPlacement
  <2>3. /\ ~CreateAhead(l)
        /\ kept[l] = "ok" => chan[l] \in {"parked", "dialing", "invited", "bridged", "gone"}
        /\ kept[l] = "fail" => chan[l] \in {"gone", "failed"}
    BY <1>2 DEF ToldOk
  <2>4. /\ kept[l] = "ok" => pend'[l] = {"armed", "released"}
        /\ kept[l] = "fail" => pend'[l] = {}
        /\ UNCHANGED <<cont, ran>> /\ \A m \in Legs \ {l} : pend'[m] = pend[m]
    BY <1>2 DEF SettleJob, FailPlacement, Disarm, Shape2, Shape
  <2>5. ASSUME Steady', IsPrompt, NEW m \in Legs, m # l PROVE PromptOk(m)'
    BY <2>1, <2>4, <2>5, Kept DEF PromptOk, AnswerAhead, Over, Concerned
  <2>6. ASSUME Steady', IsPrompt PROVE PromptOk(l)'
    <3>1. PromptOk(l) /\ pend[l] = {} /\ ran[l] = 0 BY <1>1, <2>6 DEF LegOk, RunOk
    <3> QED BY <1>1, <1>2, <2>1, <2>3, <2>4, <3>1, Kept DEF PromptOk, AnswerAhead, Over,
          Concerned
  <2> QED BY <1>1, <1>2, <2>1, <2>2, <2>3, <2>5, <2>6, ResultApplied
<1>3. CASE kept[l] = "none"
  <2>1. /\ Concerned(l) /\ req'[l] = "done" /\ job'[l] = "held" /\ pend'[l] = {"armed"}
        /\ \A m \in Legs \ {l} : pend'[m] = pend[m]
        /\ UNCHANGED <<result, kept, expiry, seen, placing, lines, failing, late>>
        /\ UNCHANGED <<cont, ran, transfers>>
    BY <1>3 DEF Concerned, Shape2, Shape
  <2>2. ASSUME Steady', IsPrompt, NEW m \in Legs, m # l PROVE PromptOk(m)'
    BY <2>1, <2>2, Kept DEF PromptOk, AnswerAhead, Concerned
  <2>3. ASSUME Steady', IsPrompt PROVE PromptOk(l)'
    <3>1. PromptOk(l) /\ pend[l] = {} /\ ran[l] = 0 BY <1>1, <2>3 DEF LegOk, RunOk
    <3> QED BY <1>1, <1>3, <2>1, <3>1, Kept DEF PromptOk, AnswerAhead, Concerned
  <2> QED BY <1>1, <1>3, <2>1, <2>2, <2>3, Attached
<1> QED BY <1>2, <1>3

-----------------------------------------------------------------------------
(* The INVITE, and the dispatch loop.                                      *)

LEMMA InviteBotCall ==
    ASSUME Ground, NEW l \in Legs, InviteBot(l) \/ AnswerInvite(l)
    PROVE  CallInv'
<1>1. /\ \A m \in Legs \ {l} : chan'[m] = chan[m] /\ events'[m] = events[m]
      /\ UNCHANGED <<result, req, job, kept, expiry, pend, cont, ran, listing, seen, late,
                     reaped, dying, transfers, reg, failing, todo, link, ready, rec, at, spent,
                     placing, lines, cdr, due>>
      /\ \A m \in Legs, k \in Kinds : AtOf(m, k)' <=> AtOf(m, k)
      /\ \A d \in Calls : Live(d)' <=> Live(d)
      /\ chan[l] \in {"dialing", "invited"} /\ chan'[l] \in {"invited", "bridged", "gone"}
      /\ \/ link = "down" /\ events'[l] = events[l]
         \/ chan'[l] = "invited" /\ events'[l] = events[l]
         \/ link # "down" /\ chan'[l] = "bridged" /\ events'[l] = Append(events[l], "bot")
         \/ link # "down" /\ chan'[l] = "gone" /\ events'[l] = events[l] \o <<"bot", "hangup">>
  BY DEF InviteBot, AnswerInvite, RefuseInvite, Tell, AtOf, Live, Shape2, Shape
<1>2. /\ Opening(events'[l]) /\ (CreateAhead(l)' <=> CreateAhead(l))
      /\ HangupAhead(l) => HangupAhead(l)'
      /\ Occurs(events[l], "answer") => Occurs(events'[l], "answer")
      /\ link # "down" /\ chan'[l] = "gone" => HangupAhead(l)'
  <2> DEFINE q == events[l]
  <2>1. q \in Seq(Kinds) /\ Opening(q) BY DEF ToldOk, Shape2, Shape
  <2>2. CASE events'[l] = q BY <1>1, <2>1, <2>2
  <2>3. CASE events'[l] = Append(q, "bot") /\ chan'[l] = "bridged" BY <2>1, <2>3, Queued, Opens
  <2>4. CASE events'[l] = q \o <<"bot", "hangup">> BY <2>1, <2>4, Queued, Opens
  <2> QED BY <1>1, <2>2, <2>3, <2>4
<1>3. /\ \A m \in Legs : TrackOk(m)'
      /\ \A m \in Legs : ClaimOk(m)'
      /\ NoDrop' => LinkOk'
      /\ NoDrop' => LinesOk'
      /\ Sound' => SoundLink'
  BY Frames, <1>1, <1>2
<1>4. \A m \in Legs : ToldOk(m)'
  BY <1>1, <1>2, Empty DEF ToldOk
<1>5. NoDrop' => \A m \in Legs : FateOk(m)'
  BY <1>1, <1>2 DEF FateOk
<1>6. NoDrop' => \A m \in Legs : LineOk(m)'
  BY <1>1, <1>2 DEF LineOk, Unbacked
<1>7. Sound' => \A m \in Legs : SoundLeg(m)'
  BY <1>1, <1>2 DEF SoundLeg, LinkOk, SoundLink, RecOk
<1>8. Sound' => \A m \in Legs : SoundPair(m)'
  BY <1>1, <1>2 DEF SoundPair
<1>9. Steady' => \A m \in Legs : SteadyLeg(m)'
  BY <1>1, <1>2 DEF SteadyLeg
<1>10. Steady' => \A m \in Legs : SteadyPair(m)'
  BY <1>1, <1>2 DEF SteadyPair
<1>11. Steady' => \A m \in Legs : RowOk(m)'
  BY <1>1, <1>2 DEF RowOk, SteadyLeg, SoundLeg, SoundLink
<1>12. Steady' => \A m \in Legs : FailOk(m)'
  BY <1>1, <1>2 DEF FailOk
<1>13. Steady' /\ IsPrompt => \A m \in Legs : PromptOk(m)'
  BY <1>1, <1>2 DEF PromptOk, AnswerAhead
<1> QED BY <1>3, <1>4, <1>5, <1>6, <1>7, <1>8, <1>9, <1>10, <1>11, <1>12, <1>13

LEMMA DispatchCall ==
    ASSUME Ground, NEW l \in Legs, Dispatch(l)
    PROVE  CallInv'
<1>1. /\ \A m \in Legs \ {l} : events'[m] = events[m] /\ (m \in reg' <=> m \in reg)
      /\ UNCHANGED <<chan, result, req, job, kept, expiry, pend, cont, ran, listing, seen, late,
                     reaped, dying, transfers, failing, todo, link, ready, rec, spent, placing,
                     cdr>>
      /\ link = "up" /\ \A m \in Legs, k \in Kinds : ~AtOf(m, k)
      /\ events[l] # <<>> /\ events'[l] = Tail(events[l])
      /\ at' = [leg |-> l, kind |-> Head(events[l])]
      /\ \/ Head(events[l]) = "create" /\ reg' = reg \cup {l} /\ UNCHANGED <<due, lines>>
         \/ Head(events[l]) = "hangup" /\ reg' = reg \ {l} /\ Leave({l})
         \/ Head(events[l]) \notin {"create", "hangup"} /\ UNCHANGED <<reg, due, lines>>
      /\ IsPrompt /\ Head(events[l]) = "answer" => req[l] # "sent"
  <2>1. \A m \in Legs \ {l} : events'[m] = events[m] /\ (m \in reg' <=> m \in reg)
    BY DEF Dispatch, Leave, AtOf, Live, Shape2, Shape
  <2>2. UNCHANGED <<chan, result, req, job, kept, expiry, pend, cont, ran, listing, seen, late,
                    reaped, dying, transfers, failing, todo, link, ready, rec, spent, placing,
                    cdr>>
    BY DEF Dispatch, Leave, AtOf, Live, Shape2, Shape
  <2>3. link = "up" /\ \A m \in Legs, k \in Kinds : ~AtOf(m, k)
    BY DEF Dispatch, Leave, AtOf, Live, Shape2, Shape
  <2>4. events[l] # <<>> /\ events'[l] = Tail(events[l])
    BY DEF Dispatch, Leave, AtOf, Live, Shape2, Shape
  <2>5. at' = [leg |-> l, kind |-> Head(events[l])]
    BY DEF Dispatch, Leave, AtOf, Live, Shape2, Shape
  <2>6. \/ Head(events[l]) = "create" /\ reg' = reg \cup {l} /\ UNCHANGED <<due, lines>>
        \/ Head(events[l]) = "hangup" /\ reg' = reg \ {l} /\ Leave({l})
        \/ Head(events[l]) \notin {"create", "hangup"} /\ UNCHANGED <<reg, due, lines>>
    BY DEF Dispatch, Leave, AtOf, Live, Shape2, Shape
  <2>7. IsPrompt /\ Head(events[l]) = "answer" => req[l] # "sent"
    BY DEF Dispatch, Leave, AtOf, Live, Shape2, Shape
  <2> QED BY <2>1, <2>2, <2>3, <2>4, <2>5, <2>6, <2>7
<1>2. PICK e \in Kinds :
             /\ Head(events[l]) = e
             /\ \A k \in Kinds : Occurs(events[l], k) <=> Occurs(events'[l], k) \/ k = e
             /\ Opening(events'[l]) /\ ~CreateAhead(l)'
             /\ e = "hangup" => events'[l] = <<>> /\ ~CreateAhead(l) /\ chan[l] = "gone"
  <2>1. events[l] \in Seq(Kinds) /\ Opening(events[l]) /\ Sealed(events[l])
    BY DEF Shape2, Shape, ToldOk, LegOk, TellOk
  <2>2. Occurs(events[l], "hangup") => chan[l] = "gone" BY DEF LegOk, TellOk
  <2> QED BY <1>1, <2>1, <2>2, Dequeued, Opens, Empty
<1>3. chan[l] \notin Unmade /\ \A m \in Legs, k \in Kinds : AtOf(m, k)' <=> m = l /\ k = e
  BY <1>1, <1>2 DEF ToldOk, AtOf
<1>4. /\ \A d \in Calls : Live(d) /\ ~Live(d)' => d \in due' /\ d \notin lines' /\
           d = CallOf[l] /\ l \in reg
      /\ \A d \in Calls : ~Live(d) \/ Live(d)' => (d \in lines' <=> d \in lines)
      /\ due \subseteq due' /\ lines' \subseteq lines
      /\ \A d \in Calls : Live(d)' => Live(d) \/ (d = CallOf[l] /\ e = "create")
      /\ l \in reg' <=> e = "create" \/ (l \in reg /\ e # "hangup")
  <2>1. CASE e = "create" BY <1>1, <1>2, <2>1 DEF Live
  <2>2. CASE e = "hangup" BY <1>1, <1>2, <2>2 DEF Live, Leave
  <2>3. CASE e \notin {"create", "hangup"} BY <1>1, <1>2, <2>3 DEF Live
  <2> QED BY <2>1, <2>2, <2>3
<1>5. /\ \A m \in Legs : TrackOk(m)'
      /\ \A m \in Legs : ClaimOk(m)'
      /\ NoDrop' => LinkOk'
      /\ NoDrop' => \A m \in Legs : FateOk(m)'
      /\ Sound' => \A m \in Legs : SoundPair(m)'
      /\ Steady' => \A m \in Legs : FailOk(m)'
  BY Frames, <1>1, <1>2, <1>3, <1>4
<1>6. \A m \in Legs : ToldOk(m)'
  BY <1>1, <1>2, <1>3, <1>4 DEF ToldOk
<1>7. NoDrop' => LinesOk'
  BY <1>1, <1>2, <1>3, <1>4 DEF LinesOk
<1>8. NoDrop' => \A m \in Legs : LineOk(m)'
  BY <1>1, <1>2, <1>3, <1>4 DEF LineOk, Unbacked, Live
<1>9. Sound' => SoundLink'
  BY <1>1, <1>2, <1>3, <1>4 DEF SoundLink
<1>10. Sound' => \A m \in Legs : SoundLeg(m)'
  <2>1. ASSUME Sound', NEW m \in Legs, m # l PROVE SoundLeg(m)'
    BY <2>1, <1>1, <1>2, <1>3, <1>4 DEF SoundLeg
  <2>2. ASSUME Sound' PROVE SoundLeg(l)'
    <3>1. SoundLeg(l) /\ rec = "idle" /\ listing[l] = "none" BY <2>2, <1>1 DEF RecOk
    <3>2. CASE e = "create"
      <4>1. chan[l] = "gone" \/ IsUp(l) BY <1>1, <1>2, <1>3, <1>4 DEF Shape2, Shape
      <4>2. IsUp(l) \/ HangupAhead(l) BY <1>1, <1>2, <1>3, <1>4, <3>2, <4>1 DEF ToldOk
      <4> QED BY <3>1, <3>2, <4>2, <1>1, <1>2, <1>3, <1>4 DEF SoundLeg
    <3>3. CASE e = "hangup" BY <3>1, <3>3, <1>1, <1>2, <1>3, <1>4 DEF SoundLeg
    <3>4. CASE e \notin {"create", "hangup"} BY <3>1, <3>4, <1>1, <1>2, <1>3, <1>4 DEF SoundLeg
    <3> QED BY <3>2, <3>3, <3>4
  <2> QED BY <2>1, <2>2
<1>11. Steady' => \A m \in Legs : SteadyLeg(m)'
  BY <1>1, <1>2, <1>3, <1>4 DEF SteadyLeg, SteadyPair, Live
<1>12. Steady' => \A m \in Legs : SteadyPair(m)'
  BY <1>1, <1>2, <1>3, <1>4 DEF SteadyPair
<1>13. Steady' => \A m \in Legs : RowOk(m)'
  BY <1>1, <1>2, <1>3, <1>4 DEF RowOk, SteadyPair, Live
<1>14. Steady' /\ IsPrompt => \A m \in Legs : PromptOk(m)'
  BY <1>1, <1>2, <1>3, <1>4 DEF PromptOk, AnswerAhead
<1> QED BY <1>5, <1>6, <1>7, <1>8, <1>9, <1>10, <1>11, <1>12, <1>13, <1>14

LEMMA NoteChannelCall ==
    ASSUME Ground, NEW l \in Legs, NoteChannel(l)
    PROVE  CallInv'
<1>1. /\ \A m \in Legs \ {l} : pend'[m] = pend[m] /\ (m \in seen' <=> m \in seen) /\
           (m \in late' <=> m \in late) /\ (m \in reaped' <=> m \in reaped) /\
             (m \in dying' <=> m \in dying)
      /\ UNCHANGED <<chan, events, result, req, job, kept, expiry, cont, ran, listing,
                     transfers, reg, failing, todo, link, ready, rec, spent, placing, lines,
                     cdr, due>>
      /\ \A m \in Legs, k \in Kinds : ~AtOf(m, k)' /\ (AtOf(m, k) <=> m = l /\ k = "create")
      /\ IF job[l] # "none" THEN l \in seen' /\ pend'[l] \in {pend[l],
           pend[l] \ {"spent"}} ELSE UNCHANGED <<seen, pend>>
      /\ l \notin late' /\ (l \in reaped' <=> l \in reaped \/ l \in late)
      /\ dying \subseteq dying'
      /\ l \in late /\ IsUp(l) /\ link # "down" => l \in dying' \/ l \in reaped
  <2>1. \A m \in Legs \ {l} : pend'[m] = pend[m] /\ (m \in seen' <=> m \in seen) /\
          (m \in late' <=> m \in late) /\ (m \in reaped' <=> m \in reaped) /\
            (m \in dying' <=> m \in dying)
    BY DEF NoteChannel, Reap, EndLegs, Live, Shape2, Shape
  <2>2. UNCHANGED <<chan, events, result, req, job, kept, expiry, cont, ran, listing, transfers,
                    reg, failing, todo, link, ready, rec, spent, placing, lines, cdr, due>>
    BY DEF NoteChannel, Reap, EndLegs, Live, Shape2, Shape
  <2>3. \A m \in Legs, k \in Kinds : ~AtOf(m, k)' /\ (AtOf(m, k) <=> m = l /\ k = "create")
    BY Handled DEF NoteChannel, Reap, EndLegs
  <2>4. IF job[l] # "none" THEN l \in seen' /\ pend'[l] \in {pend[l],
          pend[l] \ {"spent"}} ELSE UNCHANGED <<seen, pend>>
    BY DEF NoteChannel, Reap, EndLegs, Live, Shape2, Shape
  <2>5. l \notin late' /\ (l \in reaped' <=> l \in reaped \/ l \in late)
    BY DEF NoteChannel, Reap, EndLegs, Live, Shape2, Shape
  <2>6. dying \subseteq dying'
    BY DEF NoteChannel, Reap, EndLegs, Live, Shape2, Shape
  <2>7. l \in late /\ IsUp(l) /\ link # "down" => l \in dying' \/ l \in reaped
    BY DEF NoteChannel, Reap, EndLegs, Live, Shape2, Shape
  <2> QED BY <2>1, <2>2, <2>3, <2>4, <2>5, <2>6, <2>7
<1>2. /\ \A m \in Legs : ClaimOk(m)'
      /\ NoDrop' => LinkOk'
      /\ NoDrop' => \A m \in Legs : FateOk(m)'
      /\ NoDrop' => LinesOk'
      /\ NoDrop' => \A m \in Legs : LineOk(m)'
      /\ Sound' => SoundLink'
      /\ Sound' => \A m \in Legs : SoundPair(m)'
      /\ Steady' => \A m \in Legs : SteadyPair(m)'
  BY Frames, <1>1
<1>3. \A m \in Legs : TrackOk(m)'
  BY <1>1 DEF TrackOk
<1>4. \A m \in Legs : ToldOk(m)'
  BY <1>1 DEF ToldOk
<1>5. Sound' => \A m \in Legs : SoundLeg(m)'
  BY <1>1 DEF SoundLeg
<1>6. Steady' => \A m \in Legs : SteadyLeg(m)'
  BY <1>1 DEF SteadyLeg, TrackOk, ToldOk
<1>7. Steady' => \A m \in Legs : RowOk(m)'
  BY <1>1 DEF RowOk
<1>8. Steady' => \A m \in Legs : FailOk(m)'
  BY <1>1
     DEF FailOk, RowOk, SteadyLeg, SteadyPair, SoundLeg, SoundLink, LinkOk, ToldOk, TrackOk,
         ClaimOk, TellOk, LegOk
<1>9. Steady' /\ IsPrompt => \A m \in Legs : PromptOk(m)'
  BY <1>1
     DEF PromptOk, AnswerAhead, SteadyLeg, RunOk, HoldOk, LegOk, TellOk, LinkOk, ToldOk, TrackOk
<1> QED BY <1>2, <1>3, <1>4, <1>5, <1>6, <1>7, <1>8, <1>9

LEMMA HandleAnswerCall ==
    ASSUME Ground, NEW l \in Legs, HandleAnswer(l)
    PROVE  CallInv'
<1>1. /\ \A m \in Legs \ {l} : pend'[m] = pend[m] /\ cont'[m] = cont[m] /\ ran'[m] = ran[m] /\
           (m \in dying' <=> m \in dying)
      /\ UNCHANGED <<chan, events, result, req, job, kept, expiry, listing, seen, late, reaped,
                     transfers, reg, failing, todo, link, ready, rec, spent, placing, lines,
                     cdr, due>>
      /\ \A m \in Legs, k \in Kinds : ~AtOf(m, k)' /\ (AtOf(m, k) <=> m = l /\ k = "answer")
      /\ dying \subseteq dying'
      /\ \/ /\ pend[l] = {} \/ "answered" \in pend[l]
            /\ pend'[l] = pend[l] /\ cont'[l] = cont[l] /\ ran'[l] = ran[l]
         \/ /\ pend[l] # {} /\ "spent" \in pend[l]
            /\ pend'[l] = {} /\ cont'[l] = cont[l] /\ ran'[l] = ran[l]
            /\ IsUp(l) /\ link # "down" => l \in dying'
         \/ /\ pend[l] # {} /\ "released" \in pend[l]
            /\ pend'[l] = {} /\ cont'[l] = "start" /\ ran'[l] = ran[l] + 1
         \/ /\ pend[l] # {} /\ "released" \notin pend[l]
            /\ pend'[l] = pend[l] \cup {"answered"} /\ cont'[l] = cont[l] /\ ran'[l] = ran[l]
  <2>1. \A m \in Legs \ {l} : pend'[m] = pend[m] /\ cont'[m] = cont[m] /\ ran'[m] = ran[m] /\
          (m \in dying' <=> m \in dying)
    BY DEF HandleAnswer, Disarm, Fire, EndLegs, Live, Shape2, Shape
  <2>2. UNCHANGED <<chan, events, result, req, job, kept, expiry, listing, seen, late, reaped,
                    transfers, reg, failing, todo, link, ready, rec, spent, placing, lines, cdr,
                    due>>
    BY DEF HandleAnswer, Disarm, Fire, EndLegs, Live, Shape2, Shape
  <2>3. \A m \in Legs, k \in Kinds : ~AtOf(m, k)' /\ (AtOf(m, k) <=> m = l /\ k = "answer")
    BY Handled DEF HandleAnswer, Disarm, Fire, EndLegs
  <2>4. dying \subseteq dying'
    BY DEF HandleAnswer, Disarm, Fire, EndLegs, Live, Shape2, Shape
  <2>5. \/ /\ pend[l] = {} \/ "answered" \in pend[l]
           /\ pend'[l] = pend[l] /\ cont'[l] = cont[l] /\ ran'[l] = ran[l]
        \/ /\ pend[l] # {} /\ "spent" \in pend[l]
           /\ pend'[l] = {} /\ cont'[l] = cont[l] /\ ran'[l] = ran[l]
           /\ IsUp(l) /\ link # "down" => l \in dying'
        \/ /\ pend[l] # {} /\ "released" \in pend[l]
           /\ pend'[l] = {} /\ cont'[l] = "start" /\ ran'[l] = ran[l] + 1
        \/ /\ pend[l] # {} /\ "released" \notin pend[l]
           /\ pend'[l] = pend[l] \cup {"answered"} /\ cont'[l] = cont[l] /\ ran'[l] = ran[l]
    BY DEF HandleAnswer, Disarm, Fire, EndLegs, Live, Shape2, Shape
  <2> QED BY <2>1, <2>2, <2>3, <2>4, <2>5
<1>2. /\ \A m \in Legs : TrackOk(m)'
      /\ \A m \in Legs : ClaimOk(m)'
      /\ NoDrop' => LinkOk'
      /\ NoDrop' => \A m \in Legs : FateOk(m)'
      /\ NoDrop' => LinesOk'
      /\ NoDrop' => \A m \in Legs : LineOk(m)'
      /\ Sound' => SoundLink'
      /\ Sound' => \A m \in Legs : SoundPair(m)'
      /\ Steady' => \A m \in Legs : SteadyPair(m)'
      /\ Steady' => \A m \in Legs : RowOk(m)'
      /\ Steady' => \A m \in Legs : FailOk(m)'
  BY Frames, <1>1
<1>3. \A m \in Legs : ToldOk(m)'
  BY <1>1 DEF ToldOk
<1>4. Sound' => \A m \in Legs : SoundLeg(m)'
  BY <1>1 DEF SoundLeg
<1>5. Steady' => \A m \in Legs : SteadyLeg(m)'
  BY <1>1 DEF SteadyLeg
<1>6. Steady' /\ IsPrompt => \A m \in Legs : PromptOk(m)'
  BY <1>1
     DEF PromptOk, AnswerAhead, SteadyLeg, RunOk, HoldOk, LegOk, TellOk, LinkOk, ToldOk, TrackOk
<1> QED BY <1>2, <1>3, <1>4, <1>5, <1>6

LEMMA HandleHangupCall ==
    ASSUME Ground, NEW l \in Legs, HandleHangup(l)
    PROVE  CallInv'
<1>1. /\ \A m \in Legs \ {l} : pend'[m] = pend[m] /\ cont'[m] = cont[m]
      /\ UNCHANGED <<chan, events, result, req, job, kept, expiry, ran, listing, seen, late,
                     reaped, dying, transfers, reg, failing, todo, link, ready, rec, spent,
                     placing, lines, cdr, due>>
      /\ \A m \in Legs, k \in Kinds : ~AtOf(m, k)' /\ (AtOf(m, k) <=> m = l /\ k = "hangup")
      /\ pend'[l] = {} /\ cont'[l] = IF cont[l] = "window" THEN "none" ELSE cont[l]
  BY Handled DEF HandleHangup, SettleBridge, Disarm, FreeSlot, Live, Shape2, Shape
<1>2. /\ \A m \in Legs : TrackOk(m)'
      /\ \A m \in Legs : ClaimOk(m)'
      /\ NoDrop' => LinkOk'
      /\ NoDrop' => \A m \in Legs : FateOk(m)'
      /\ NoDrop' => LinesOk'
      /\ NoDrop' => \A m \in Legs : LineOk(m)'
      /\ Sound' => SoundLink'
      /\ Sound' => \A m \in Legs : SoundPair(m)'
      /\ Steady' => \A m \in Legs : SteadyPair(m)'
      /\ Steady' => \A m \in Legs : RowOk(m)'
      /\ Steady' => \A m \in Legs : FailOk(m)'
  BY Frames, <1>1
<1>3. \A m \in Legs : ToldOk(m)'
  BY <1>1 DEF ToldOk
<1>4. Sound' => \A m \in Legs : SoundLeg(m)'
  BY <1>1 DEF SoundLeg
<1>5. Steady' => \A m \in Legs : SteadyLeg(m)'
  BY <1>1 DEF SteadyLeg
<1>6. Steady' /\ IsPrompt => \A m \in Legs : PromptOk(m)'
  BY <1>1
     DEF PromptOk, AnswerAhead, SteadyLeg, RunOk, HoldOk, LegOk, TellOk, LinkOk, ToldOk, TrackOk
<1> QED BY <1>2, <1>3, <1>4, <1>5, <1>6

LEMMA HandleBotLegCall ==
    ASSUME Ground, NEW l \in Legs, HandleBotLeg(l)
    PROVE  CallInv'
<1>1. /\ \A m \in Legs \ {l} : cont'[m] = cont[m]
      /\ UNCHANGED <<chan, events, result, req, job, kept, expiry, pend, ran, listing, seen,
                     late, reaped, dying, transfers, reg, failing, todo, link, ready, rec,
                     spent, placing, lines, cdr, due>>
      /\ \A m \in Legs, k \in Kinds : ~AtOf(m, k)' /\ (AtOf(m, k) <=> m = l /\ k = "bot")
      /\ cont'[l] = IF cont[l] = "window" THEN "none" ELSE cont[l]
  BY Handled DEF HandleBotLeg, SettleBridge, Live, Shape2, Shape
<1>2. /\ \A m \in Legs : TrackOk(m)'
      /\ \A m \in Legs : ClaimOk(m)'
      /\ NoDrop' => LinkOk'
      /\ NoDrop' => \A m \in Legs : FateOk(m)'
      /\ NoDrop' => LinesOk'
      /\ NoDrop' => \A m \in Legs : LineOk(m)'
      /\ Sound' => SoundLink'
      /\ Sound' => \A m \in Legs : SoundPair(m)'
      /\ Steady' => \A m \in Legs : SteadyPair(m)'
      /\ Steady' => \A m \in Legs : RowOk(m)'
      /\ Steady' => \A m \in Legs : FailOk(m)'
  BY Frames, <1>1
<1>3. \A m \in Legs : ToldOk(m)'
  BY <1>1 DEF ToldOk
<1>4. Sound' => \A m \in Legs : SoundLeg(m)'
  BY <1>1 DEF SoundLeg
<1>5. Steady' => \A m \in Legs : SteadyLeg(m)'
  BY <1>1 DEF SteadyLeg
<1>6. Steady' /\ IsPrompt => \A m \in Legs : PromptOk(m)'
  BY <1>1 DEF PromptOk, AnswerAhead
<1> QED BY <1>2, <1>3, <1>4, <1>5, <1>6

LEMMA HandleJobCall ==
    ASSUME Ground, NEW l \in Legs, HandleJob(l)
    PROVE  CallInv'
<1>1. /\ link = "up" /\ result[l] \in {"ok", "fail"} /\ ~CreateAhead(l)
      /\ result[l] = "ok" => chan[l] \in {"parked", "dialing", "invited", "bridged", "gone"}
      /\ result[l] = "fail" => chan[l] \in {"gone", "failed"}
  BY DEF HandleJob, ToldOk, Occurs, Shape2, Shape
<1>2. /\ result'[l] = "none" /\ \A m \in Legs \ {l} : result'[m] = result[m]
      /\ UNCHANGED <<link, chan, events, ready, rec, listing, todo, reg, at, cdr, due, reaped>>
      /\ UNCHANGED <<dying, spent, req, late, transfers>>
  BY DEF HandleJob, Shape2, Shape
<1>3. CASE job[l] = "expected"
  <2>1. /\ kept'[l] = result[l] /\ \A m \in Legs \ {l} : kept'[m] = kept[m]
        /\ UNCHANGED <<job, seen, expiry, pend, cont, ran, placing, lines, failing>>
    BY <1>3 DEF HandleJob, Shape2, Shape
  <2>2. /\ req[l] \in {"lined", "sent", "armed"} /\ chan[l] # "none"
        /\ req[l] \in {"sent", "armed"}
    BY <1>1, <1>3 DEF TrackOk, LegOk, TellOk
  <2>3. /\ \A m \in Legs, k \in Kinds : AtOf(m, k)' <=> AtOf(m, k) BY <1>2 DEF AtOf
  <2>4. \A m \in Legs : TrackOk(m)' BY <1>2, <2>1, <2>2 DEF TrackOk
  <2>5. \A m \in Legs : ToldOk(m)' BY <1>1, <1>2, <2>1, <2>3 DEF ToldOk
  <2>6. NoDrop' => \A m \in Legs : FateOk(m)' BY <1>1, <1>2, <2>1 DEF FateOk
  <2>7. Steady' /\ IsPrompt => \A m \in Legs : PromptOk(m)'
    BY <1>1, <1>2, <2>1, <2>3 DEF PromptOk, AnswerAhead
  <2>8. /\ \A m \in Legs : ClaimOk(m)'
        /\ NoDrop' => LinkOk' /\ LinesOk' /\ \A m \in Legs : LineOk(m)'
        /\ Sound' => SoundLink' /\ \A m \in Legs : SoundLeg(m)' /\ SoundPair(m)'
        /\ Steady' => \A m \in Legs : SteadyLeg(m)' /\ SteadyPair(m)' /\ RowOk(m)' /\ FailOk(m)'
    BY <1>2, <2>1, Frames
  <2> QED BY <2>4, <2>5, <2>6, <2>7, <2>8
<1>4. CASE job[l] \in {"tracked", "held"}
  <2>1. req[l] = "done" BY <1>4 DEF TrackOk
  <2>2. Forget(l) /\ SettleJob(l, result[l]) BY <1>4 DEF HandleJob
  <2>3. Over(l) BY <1>2, <2>1, <2>2 DEF Over, Concerned, Forget, Shape2, Shape
  <2>4. Concluded(l, result[l]) BY <1>1, <2>2 DEF Concluded, SettleJob, FailPlacement
  <2>5. \/ result[l] = "ok" /\ ReleaseLeg(l)
        \/ result[l] = "fail" /\ pend' = [pend EXCEPT ![l] = {}] /\ UNCHANGED <<cont, ran>>
    BY <1>1, <2>2 DEF SettleJob, FailPlacement, Disarm
  <2>6. Steady' /\ IsPrompt => \A m \in Legs : PromptOk(m)'
    BY <1>1, <1>2, <2>1, <2>3, <2>5, PromptSettled
  <2> QED BY <1>1, <1>2, <1>4, <2>3, <2>4, <2>6, ResultApplied
<1>5. CASE job[l] = "none"
  <2>1. /\ \/ result[l] = "ok" /\ ReleaseLeg(l)
           \/ result[l] = "fail" /\ UNCHANGED <<pend, cont, ran>>
        /\ UNCHANGED <<job, seen, kept, expiry, placing, lines, failing>>
    BY <1>1, <1>5 DEF HandleJob
  <2>2. \A m \in Legs, k \in Kinds : AtOf(m, k)' <=> AtOf(m, k) BY <1>2 DEF AtOf
  <2>3. \A m \in Legs : ToldOk(m)' BY <1>1, <1>2, <2>1, <2>2 DEF ToldOk
  <2>4. NoDrop' => \A m \in Legs : FateOk(m)' BY <1>1, <1>2, <1>5, <2>1 DEF FateOk
  <2>5. ASSUME Steady', IsPrompt PROVE \A m \in Legs : PromptOk(m)'
    <3>1. CASE req[l] \in {"armed", "done"} /\ result[l] = "ok"
      <4>1. Over(l) BY <1>2, <1>5, <2>1, <3>1 DEF Over, Concerned, TrackOk
      <4> QED BY <1>1, <1>2, <2>1, <2>5, <3>1, <4>1, PromptSettled
    <3>2. CASE result[l] = "fail"
      BY <1>1, <1>2, <2>1, <2>2, <2>5, <3>2 DEF PromptOk, AnswerAhead
    <3>3. req[l] \in {"armed", "done"} BY <1>1, <1>5 DEF TrackOk, LegOk, TellOk
    <3> QED BY <1>1, <3>1, <3>2, <3>3
  <2>6. /\ \A m \in Legs : TrackOk(m)' /\ ClaimOk(m)'
        /\ NoDrop' => LinkOk' /\ LinesOk' /\ \A m \in Legs : LineOk(m)'
        /\ Sound' => SoundLink' /\ \A m \in Legs : SoundLeg(m)' /\ SoundPair(m)'
        /\ Steady' => \A m \in Legs : SteadyLeg(m)' /\ SteadyPair(m)' /\ RowOk(m)' /\ FailOk(m)'
    BY <1>2, <2>1, Frames
  <2> QED BY <2>3, <2>4, <2>5, <2>6
<1> QED BY <1>3, <1>4, <1>5

-----------------------------------------------------------------------------
(* The windows, and the failure row.                                       *)

LEMMA WindowEndsCall ==
    ASSUME Ground, NEW l \in Legs, WindowEnds(l)
    PROVE  CallInv'
<1>1. /\ \A m \in Legs : TrackOk(m)'
      /\ \A m \in Legs : ToldOk(m)'
      /\ \A m \in Legs : ClaimOk(m)'
      /\ NoDrop' => LinkOk'
      /\ NoDrop' => \A m \in Legs : FateOk(m)'
      /\ NoDrop' => LinesOk'
      /\ NoDrop' => \A m \in Legs : LineOk(m)'
      /\ Sound' => SoundLink'
      /\ Sound' => \A m \in Legs : SoundLeg(m)'
      /\ Sound' => \A m \in Legs : SoundPair(m)'
      /\ Steady' => \A m \in Legs : SteadyLeg(m)'
      /\ Steady' => \A m \in Legs : SteadyPair(m)'
      /\ Steady' => \A m \in Legs : RowOk(m)'
      /\ Steady' => \A m \in Legs : FailOk(m)'
  BY Frames DEF WindowEnds
<1>2. Steady' /\ IsPrompt => \A m \in Legs : PromptOk(m)'
  BY DEF PromptOk, AnswerAhead, WindowEnds, AtOf, Shape2, Shape
<1> QED BY <1>1, <1>2

LEMMA JobExpiresCall ==
    ASSUME Ground, NEW l \in Legs, JobExpires(l)
    PROVE  CallInv'
<1> USE DEF JobExpires, Forget, IsHandled
<1>1. /\ job[l] = "tracked" /\ req[l] = "done" /\ events[l] = <<>> /\ result[l] = "none"
      /\ chan[l] \notin {"none", "queued", "ringing"} /\ kept[l] = "none" /\ ~CreateAhead(l)
  BY Empty DEF TrackOk, ToldOk
<1>2. Over(l) /\ UNCHANGED <<failing, late, result, pend, cont, ran, transfers>>
  BY <1>1 DEF Over, Concerned, Shape2, Shape
<1>3. placing' = placing \ {CallOf[l]} OBVIOUS
<1>4. /\ HasRow(l) \/ Live(CallOf[l]) => UNCHANGED lines
      /\ ~HasRow(l) /\ ~Live(CallOf[l]) => lines' = lines \ {CallOf[l]}
  OBVIOUS
<1>5. NoDrop' => (CallOf[l] \in lines' => Live(CallOf[l]))
  BY <1>1, <1>4 DEF LineOk, Unbacked, FateOk
<1>6. Sound' => (Out(l) => l \in reg) BY <1>1 DEF SoundLeg, TrackOk
<1>7. Steady' => (Present(l) => l \in reg) /\ chan[l] # "failed" BY <1>1, <1>6 DEF FateOk,
        SoundLeg, TrackOk
<1>8. Steady' => (Present(l) => UNCHANGED lines) BY <1>4, <1>7 DEF Live
<1>9. Steady' /\ IsPrompt => \A m \in Legs : PromptOk(m)'
  BY <1>1, <1>2, Kept DEF PromptOk, AnswerAhead, Over, Concerned
<1> QED BY <1>1, <1>2, <1>3, <1>4, <1>5, <1>6, <1>7, <1>8, <1>9, ClaimGoes

LEMMA UnconfirmedAskCall ==
    ASSUME Ground, NEW l \in Legs, UnconfirmedAsk(l)
    PROVE  CallInv'
<1>1. /\ \A m \in Legs \ {l} : expiry'[m] = expiry[m]
      /\ UNCHANGED <<chan, events, result, req, job, kept, pend, cont, ran, listing, seen, late,
                     reaped, dying, transfers, reg, failing, todo, link, ready, rec, at, spent,
                     placing, lines, cdr, due>>
      /\ \A m \in Legs, k \in Kinds : AtOf(m, k)' <=> AtOf(m, k)
      /\ \A d \in Calls : Live(d)' <=> Live(d)
      /\ job[l] = "held" /\ expiry[l] = "none" /\ expiry'[l] \in {"live", "idle"}
      /\ expiry'[l] = "live" => l \notin seen /\ Live(CallOf[l])
      /\ \A m \in Legs \ {l} : CallOf[m] = CallOf[l] => events[m] = <<>>
  BY DEF UnconfirmedAsk, IsHandled, AtOf, Live, Shape2, Shape
<1>2. /\ \A m \in Legs : ToldOk(m)'
      /\ \A m \in Legs : ClaimOk(m)'
      /\ NoDrop' => LinkOk'
      /\ NoDrop' => \A m \in Legs : FateOk(m)'
      /\ NoDrop' => LinesOk'
      /\ Sound' => SoundLink'
      /\ Sound' => \A m \in Legs : SoundPair(m)'
      /\ Steady' => \A m \in Legs : SteadyLeg(m)'
      /\ Steady' => \A m \in Legs : SteadyPair(m)'
      /\ Steady' => \A m \in Legs : RowOk(m)'
      /\ Steady' => \A m \in Legs : FailOk(m)'
      /\ Steady' /\ IsPrompt => \A m \in Legs : PromptOk(m)'
  BY Frames, <1>1
<1>3. \A m \in Legs : TrackOk(m)'
  BY <1>1 DEF TrackOk
<1>4. NoDrop' => \A m \in Legs : LineOk(m)'
  BY <1>1 DEF LineOk, Unbacked
<1>5. Sound' => \A m \in Legs : SoundLeg(m)'
  BY <1>1, Empty DEF SoundLeg, SoundPair, ToldOk, Live
<1> QED BY <1>2, <1>3, <1>4, <1>5

LEMMA UnconfirmedExpiresCall ==
    ASSUME Ground, NEW l \in Legs, UnconfirmedExpires(l)
    PROVE  CallInv'
<1> USE DEF UnconfirmedExpires, Forget
<1>1. job[l] = "held" /\ req[l] = "done" /\ kept[l] = "none" /\ expiry[l] # "none"
  BY DEF TrackOk
<1>2. Over(l) /\ UNCHANGED <<result, cont, ran, transfers>>
  BY <1>1 DEF Over, Concerned, Shape2, Shape
<1>3. CASE l \in seen \/ expiry[l] = "live"
  <2>1. /\ placing' = placing \ {CallOf[l]} /\ UNCHANGED <<failing, late, lines>>
        /\ pend'[l] = pend[l] \/ pend'[l] = pend[l] \ {"spent"}
        /\ \A m \in Legs \ {l} : pend'[m] = pend[m]
    BY <1>3 DEF Shape2, Shape
  <2>2. l \in seen => chan[l] \notin Unmade /\ ~CreateAhead(l) BY DEF ToldOk
  <2>3. NoDrop' => (CallOf[l] \in lines' => Live(CallOf[l]))
    BY <1>1, <1>3, <2>1, <2>2 DEF LineOk, Unbacked
  <2>4. Sound' => ~CreateAhead(l) /\ (Out(l) => l \in reg) /\ chan[l] # "failed"
    BY <1>1, <1>3, <2>2 DEF SoundLeg, TrackOk, ToldOk
  <2>5. Steady' => (Present(l) => l \in reg) /\ chan[l] # "failed"
    BY <1>1, <1>3, <2>2 DEF SoundLeg, TrackOk, ToldOk
  <2>6. ASSUME Steady', IsPrompt, NEW m \in Legs, m # l PROVE PromptOk(m)'
    BY <1>2, <2>1, <2>6, Kept DEF PromptOk, AnswerAhead, Over, Concerned
  <2>7. ASSUME Steady', IsPrompt PROVE PromptOk(l)'
    BY <1>1, <1>2, <2>1, <2>7, Kept DEF PromptOk, AnswerAhead, Over, Concerned
  <2> QED BY <1>1, <1>2, <2>1, <2>3, <2>4, <2>5, <2>6, <2>7, ClaimGoes
<1>4. CASE l \notin seen /\ expiry[l] # "live"
  <2>1. /\ UNCHANGED placing /\ lines' = lines \ {CallOf[l]} /\ failing' = failing \cup {l}
        /\ late' = late \cup {l} /\ pend'[l] = {} /\ \A m \in Legs \ {l} : pend'[m] = pend[m]
    BY <1>4 DEF FailPlacement, Disarm, Shape2, Shape
  <2>2. Steady' => (IsUp(l) => CreateAhead(l) \/ AtOf(l, "create"))
    BY <1>1, <1>4 DEF SoundLeg, TrackOk
  <2>3. ASSUME Steady', IsPrompt, NEW m \in Legs, m # l PROVE PromptOk(m)'
    BY <1>2, <2>1, <2>3, Kept DEF PromptOk, AnswerAhead, Over, Concerned
  <2>4. ASSUME Steady', IsPrompt PROVE PromptOk(l)'
    BY <1>1, <1>2, <2>1, <2>4, Kept DEF PromptOk, AnswerAhead, Over, Concerned
  <2> QED BY <1>1, <1>2, <2>1, <2>2, <2>3, <2>4, ClaimFails
<1> QED BY <1>3, <1>4

LEMMA WriteFailureCall ==
    ASSUME Ground, NEW l \in Legs, WriteFailure(l)
    PROVE  CallInv'
<1>1. /\ \A m \in Legs \ {l} : (m \in failing' <=> m \in failing)
      /\ UNCHANGED <<chan, events, result, req, job, kept, expiry, pend, cont, ran, listing,
                     seen, late, reaped, dying, transfers, reg, todo, link, ready, rec, at,
                     lines, due>>
      /\ \A m \in Legs, k \in Kinds : AtOf(m, k)' <=> AtOf(m, k)
      /\ \A d \in Calls : Live(d)' <=> Live(d)
      /\ l \in failing /\ failing' = failing \ {l} /\ placing' = placing \ {CallOf[l]}
      /\ \/ Faults("errors") /\ UNCHANGED cdr
         \/ /\ \A d \in Calls : d # CallOf[l] => cdr'[d] = cdr[d]
            /\ cdr'[CallOf[l]] = IF cdr[CallOf[l]] = "none" THEN "failure" ELSE cdr[CallOf[l]]
  BY DEF WriteFailure, AtOf, Live, Shape2, Shape
<1>2. /\ \A m \in Legs : ToldOk(m)'
      /\ NoDrop' => LinkOk'
      /\ NoDrop' => \A m \in Legs : FateOk(m)'
      /\ Sound' => SoundLink'
      /\ Steady' /\ IsPrompt => \A m \in Legs : PromptOk(m)'
  BY Frames, <1>1
<1>3. \A m \in Legs : TrackOk(m)'
  BY <1>1 DEF TrackOk
<1>4. \A m \in Legs : ClaimOk(m)'
  BY <1>1 DEF ClaimOk, TrackOk
<1>5. NoDrop' => LinesOk'
  BY <1>1 DEF LinesOk, LineOk, FateOk, Unbacked, ClaimOk, TrackOk, ToldOk
<1>6. NoDrop' => \A m \in Legs : LineOk(m)'
  BY <1>1 DEF LineOk, Unbacked
<1>7. Sound' => \A m \in Legs : SoundLeg(m)'
  BY <1>1 DEF SoundLeg
<1>8. Sound' => \A m \in Legs : SoundPair(m)'
  BY <1>1 DEF SoundPair
<1>9. Steady' => \A m \in Legs : SteadyLeg(m)'
  BY <1>1 DEF SteadyLeg
<1>10. Steady' => \A m \in Legs : SteadyPair(m)'
  BY <1>1 DEF SteadyPair
<1>11. Steady' => \A m \in Legs : RowOk(m)'
  BY <1>1 DEF RowOk, TrackOk, ClaimOk
<1>12. Steady' => \A m \in Legs : FailOk(m)'
  BY <1>1 DEF FailOk
<1> QED BY <1>2, <1>3, <1>4, <1>5, <1>6, <1>7, <1>8, <1>9, <1>10, <1>11, <1>12

-----------------------------------------------------------------------------
(* The continuation.                                                       *)

LEMMA TakeSlotCall ==
    ASSUME Ground, NEW l \in Legs, TakeSlot(l)
    PROVE  CallInv'
<1>1. /\ \A m \in Legs : TrackOk(m)'
      /\ \A m \in Legs : ToldOk(m)'
      /\ \A m \in Legs : ClaimOk(m)'
      /\ NoDrop' => LinkOk'
      /\ NoDrop' => \A m \in Legs : FateOk(m)'
      /\ NoDrop' => LinesOk'
      /\ NoDrop' => \A m \in Legs : LineOk(m)'
      /\ Sound' => SoundLink'
      /\ Sound' => \A m \in Legs : SoundLeg(m)'
      /\ Sound' => \A m \in Legs : SoundPair(m)'
      /\ Steady' => \A m \in Legs : SteadyLeg(m)'
      /\ Steady' => \A m \in Legs : SteadyPair(m)'
      /\ Steady' => \A m \in Legs : RowOk(m)'
      /\ Steady' => \A m \in Legs : FailOk(m)'
  BY Frames DEF TakeSlot, Goto
<1>2. Steady' /\ IsPrompt => \A m \in Legs : PromptOk(m)'
  BY DEF PromptOk, AnswerAhead, TakeSlot, Goto, AtOf, Shape2, Shape
<1> QED BY <1>1, <1>2

LEMMA SlotReservedCall ==
    ASSUME Ground, NEW l \in Legs, SlotReserved(l)
    PROVE  CallInv'
<1>1. /\ \A m \in Legs \ {l} : cont'[m] = cont[m]
      /\ UNCHANGED <<chan, events, result, req, job, kept, expiry, pend, ran, listing, seen,
                     late, reaped, dying, transfers, reg, failing, todo, link, ready, rec, at,
                     spent, placing, lines, cdr, due>>
      /\ \A m \in Legs, k \in Kinds : AtOf(m, k)' <=> AtOf(m, k)
      /\ cont[l] = "waiting"
      /\ cont'[l] = "go" \/ (l \notin holds /\ cont'[l] = "none")
  BY DEF SlotReserved, Goto, FreeSlot, AtOf, Live, Shape2, Shape
<1>2. /\ \A m \in Legs : TrackOk(m)'
      /\ \A m \in Legs : ToldOk(m)'
      /\ \A m \in Legs : ClaimOk(m)'
      /\ NoDrop' => LinkOk'
      /\ NoDrop' => \A m \in Legs : FateOk(m)'
      /\ NoDrop' => LinesOk'
      /\ NoDrop' => \A m \in Legs : LineOk(m)'
      /\ Sound' => SoundLink'
      /\ Sound' => \A m \in Legs : SoundLeg(m)'
      /\ Sound' => \A m \in Legs : SoundPair(m)'
      /\ Steady' => \A m \in Legs : SteadyLeg(m)'
      /\ Steady' => \A m \in Legs : SteadyPair(m)'
      /\ Steady' => \A m \in Legs : RowOk(m)'
      /\ Steady' => \A m \in Legs : FailOk(m)'
  BY Frames, <1>1
<1>3. Steady' /\ IsPrompt => \A m \in Legs : PromptOk(m)'
  BY <1>1
     DEF PromptOk, AnswerAhead, SteadyLeg, RunOk, HoldOk, LegOk, TellOk, LinkOk, ToldOk, TrackOk
<1> QED BY <1>2, <1>3

LEMMA OverflowCall ==
    ASSUME Ground, NEW l \in Legs, Overflow(l)
    PROVE  CallInv'
<1>1. /\ \A m \in Legs \ {l} : cont'[m] = cont[m] /\ (m \in dying' <=> m \in dying)
      /\ UNCHANGED <<chan, events, result, req, job, kept, expiry, pend, ran, listing, seen,
                     late, reaped, transfers, reg, failing, todo, link, ready, rec, at, spent,
                     placing, lines, cdr, due>>
      /\ \A m \in Legs, k \in Kinds : AtOf(m, k)' <=> AtOf(m, k)
      /\ cont[l] = "waiting" /\ cont'[l] = "none"
      /\ dying' = IF link # "down" /\ IsUp(l) THEN dying \cup {l} ELSE dying
  BY DEF Overflow, Goto, FreeSlot, EndLegs, AtOf, Live, Shape2, Shape
<1>2. /\ \A m \in Legs : TrackOk(m)'
      /\ \A m \in Legs : ToldOk(m)'
      /\ \A m \in Legs : ClaimOk(m)'
      /\ NoDrop' => LinkOk'
      /\ NoDrop' => \A m \in Legs : FateOk(m)'
      /\ NoDrop' => LinesOk'
      /\ NoDrop' => \A m \in Legs : LineOk(m)'
      /\ Sound' => SoundLink'
      /\ Sound' => \A m \in Legs : SoundLeg(m)'
      /\ Sound' => \A m \in Legs : SoundPair(m)'
      /\ Steady' => \A m \in Legs : SteadyLeg(m)'
      /\ Steady' => \A m \in Legs : SteadyPair(m)'
      /\ Steady' => \A m \in Legs : RowOk(m)'
      /\ Steady' => \A m \in Legs : FailOk(m)'
  BY Frames, <1>1
<1>3. Steady' /\ IsPrompt => \A m \in Legs : PromptOk(m)'
  BY <1>1
     DEF PromptOk, AnswerAhead, SteadyLeg, RunOk, HoldOk, LegOk, TellOk, LinkOk, ToldOk, TrackOk
<1> QED BY <1>2, <1>3

LEMMA SendBridgeCall ==
    ASSUME Ground, NEW l \in Legs, SendBridge(l)
    PROVE  CallInv'
<1>1. /\ \A m \in Legs \ {l} : cont'[m] = cont[m] /\ (m \in transfers' <=> m \in transfers)
      /\ UNCHANGED <<chan, events, result, req, job, kept, expiry, pend, ran, listing, seen,
                     late, reaped, dying, reg, failing, todo, link, ready, rec, at, spent,
                     placing, lines, cdr, due>>
      /\ \A m \in Legs, k \in Kinds : AtOf(m, k)' <=> AtOf(m, k)
      /\ cont[l] = "go"
      /\ \/ link # "down" /\ transfers' = transfers \cup {l} /\ cont'[l] = "sent"
         \/ link = "down" /\ transfers' = transfers /\ cont'[l] = "none"
  BY DEF SendBridge, Goto, FreeSlot, AtOf, Live, Shape2, Shape
<1>2. /\ \A m \in Legs : TrackOk(m)'
      /\ \A m \in Legs : ToldOk(m)'
      /\ \A m \in Legs : ClaimOk(m)'
      /\ NoDrop' => LinkOk'
      /\ NoDrop' => \A m \in Legs : FateOk(m)'
      /\ NoDrop' => LinesOk'
      /\ NoDrop' => \A m \in Legs : LineOk(m)'
      /\ Sound' => SoundLink'
      /\ Sound' => \A m \in Legs : SoundLeg(m)'
      /\ Sound' => \A m \in Legs : SoundPair(m)'
      /\ Steady' => \A m \in Legs : SteadyLeg(m)'
      /\ Steady' => \A m \in Legs : SteadyPair(m)'
      /\ Steady' => \A m \in Legs : RowOk(m)'
      /\ Steady' => \A m \in Legs : FailOk(m)'
  BY Frames, <1>1
<1>3. Steady' /\ IsPrompt => \A m \in Legs : PromptOk(m)'
  BY <1>1
     DEF PromptOk, AnswerAhead, SteadyLeg, RunOk, HoldOk, LegOk, TellOk, LinkOk, ToldOk, TrackOk
<1> QED BY <1>2, <1>3

LEMMA BridgeRepliedCall ==
    ASSUME Ground, NEW l \in Legs, BridgeReplied(l)
    PROVE  CallInv'
<1>1. /\ \A m \in Legs : TrackOk(m)'
      /\ \A m \in Legs : ToldOk(m)'
      /\ \A m \in Legs : ClaimOk(m)'
      /\ NoDrop' => LinkOk'
      /\ NoDrop' => \A m \in Legs : FateOk(m)'
      /\ NoDrop' => LinesOk'
      /\ NoDrop' => \A m \in Legs : LineOk(m)'
      /\ Sound' => SoundLink'
      /\ Sound' => \A m \in Legs : SoundLeg(m)'
      /\ Sound' => \A m \in Legs : SoundPair(m)'
      /\ Steady' => \A m \in Legs : SteadyLeg(m)'
      /\ Steady' => \A m \in Legs : SteadyPair(m)'
      /\ Steady' => \A m \in Legs : RowOk(m)'
      /\ Steady' => \A m \in Legs : FailOk(m)'
  BY Frames DEF BridgeReplied, Goto, FreeSlot
<1>2. Steady' /\ IsPrompt => \A m \in Legs : PromptOk(m)'
  BY DEF PromptOk, AnswerAhead, BridgeReplied, Goto, FreeSlot, AtOf, Shape2, Shape
<1> QED BY <1>1, <1>2

LEMMA BridgeUnconfirmedCall ==
    ASSUME Ground, NEW l \in Legs, BridgeUnconfirmed(l)
    PROVE  CallInv'
<1>1. /\ \A m \in Legs : TrackOk(m)'
      /\ \A m \in Legs : ToldOk(m)'
      /\ \A m \in Legs : ClaimOk(m)'
      /\ NoDrop' => LinkOk'
      /\ NoDrop' => \A m \in Legs : FateOk(m)'
      /\ NoDrop' => LinesOk'
      /\ NoDrop' => \A m \in Legs : LineOk(m)'
      /\ Sound' => SoundLink'
      /\ Sound' => \A m \in Legs : SoundLeg(m)'
      /\ Sound' => \A m \in Legs : SoundPair(m)'
      /\ Steady' => \A m \in Legs : SteadyLeg(m)'
      /\ Steady' => \A m \in Legs : SteadyPair(m)'
      /\ Steady' => \A m \in Legs : RowOk(m)'
      /\ Steady' => \A m \in Legs : FailOk(m)'
  BY Frames DEF BridgeUnconfirmed, Goto
<1>2. Steady' /\ IsPrompt => \A m \in Legs : PromptOk(m)'
  BY DEF PromptOk, AnswerAhead, BridgeUnconfirmed, Goto, AtOf, Shape2, Shape
<1> QED BY <1>1, <1>2

LEMMA BridgeExpiresCall ==
    ASSUME Ground, NEW l \in Legs, BridgeExpires(l)
    PROVE  CallInv'
<1>1. /\ \A m \in Legs : TrackOk(m)'
      /\ \A m \in Legs : ToldOk(m)'
      /\ \A m \in Legs : ClaimOk(m)'
      /\ NoDrop' => LinkOk'
      /\ NoDrop' => \A m \in Legs : FateOk(m)'
      /\ NoDrop' => LinesOk'
      /\ NoDrop' => \A m \in Legs : LineOk(m)'
      /\ Sound' => SoundLink'
      /\ Sound' => \A m \in Legs : SoundLeg(m)'
      /\ Sound' => \A m \in Legs : SoundPair(m)'
      /\ Steady' => \A m \in Legs : SteadyLeg(m)'
      /\ Steady' => \A m \in Legs : SteadyPair(m)'
      /\ Steady' => \A m \in Legs : RowOk(m)'
      /\ Steady' => \A m \in Legs : FailOk(m)'
  BY Frames DEF BridgeExpires, Goto
<1>2. Steady' /\ IsPrompt => \A m \in Legs : PromptOk(m)'
  BY DEF PromptOk, AnswerAhead, BridgeExpires, Goto, AtOf, Shape2, Shape
<1> QED BY <1>1, <1>2

LEMMA BridgeGivenUpCall ==
    ASSUME Ground, NEW l \in Legs, BridgeGivenUp(l)
    PROVE  CallInv'
<1>1. /\ \A m \in Legs : TrackOk(m)'
      /\ \A m \in Legs : ToldOk(m)'
      /\ \A m \in Legs : ClaimOk(m)'
      /\ NoDrop' => LinkOk'
      /\ NoDrop' => \A m \in Legs : FateOk(m)'
      /\ NoDrop' => LinesOk'
      /\ NoDrop' => \A m \in Legs : LineOk(m)'
      /\ Sound' => SoundLink'
      /\ Sound' => \A m \in Legs : SoundLeg(m)'
      /\ Sound' => \A m \in Legs : SoundPair(m)'
      /\ Steady' => \A m \in Legs : SteadyLeg(m)'
      /\ Steady' => \A m \in Legs : SteadyPair(m)'
      /\ Steady' => \A m \in Legs : RowOk(m)'
  BY Frames DEF BridgeGivenUp, Goto, FreeSlot, EndLegs
<1>2. Steady' => \A m \in Legs : FailOk(m)'
  BY DEF FailOk, BridgeGivenUp, Goto, FreeSlot, EndLegs, Shape2, Shape
<1>3. Steady' /\ IsPrompt => \A m \in Legs : PromptOk(m)'
  BY DEF PromptOk, AnswerAhead, BridgeGivenUp, Goto, FreeSlot, EndLegs, AtOf, Shape2, Shape
<1> QED BY <1>1, <1>2, <1>3

LEMMA TransferOnAnswerCall ==
    ASSUME Ground, NEW l \in Legs, TransferOnAnswer(l)
    PROVE  CallInv'
<1>1. /\ \A m \in Legs \ {l} : cont'[m] = cont[m] /\ (m \in transfers' <=> m \in transfers)
      /\ UNCHANGED <<chan, events, result, req, job, kept, expiry, pend, ran, listing, seen,
                     late, reaped, dying, reg, failing, todo, link, ready, rec, at, spent,
                     placing, lines, cdr, due>>
      /\ \A m \in Legs, k \in Kinds : AtOf(m, k)' <=> AtOf(m, k)
      /\ cont[l] = "start" /\ cont'[l] = "none"
      /\ transfers' = IF link # "down" THEN transfers \cup {l} ELSE transfers
  BY DEF TransferOnAnswer, Goto, AtOf, Live, Shape2, Shape
<1>2. /\ \A m \in Legs : TrackOk(m)'
      /\ \A m \in Legs : ToldOk(m)'
      /\ \A m \in Legs : ClaimOk(m)'
      /\ NoDrop' => LinkOk'
      /\ NoDrop' => \A m \in Legs : FateOk(m)'
      /\ NoDrop' => LinesOk'
      /\ NoDrop' => \A m \in Legs : LineOk(m)'
      /\ Sound' => SoundLink'
      /\ Sound' => \A m \in Legs : SoundLeg(m)'
      /\ Sound' => \A m \in Legs : SoundPair(m)'
      /\ Steady' => \A m \in Legs : SteadyLeg(m)'
      /\ Steady' => \A m \in Legs : SteadyPair(m)'
      /\ Steady' => \A m \in Legs : RowOk(m)'
      /\ Steady' => \A m \in Legs : FailOk(m)'
  BY Frames, <1>1
<1>3. Steady' /\ IsPrompt => \A m \in Legs : PromptOk(m)'
  BY <1>1
     DEF PromptOk, AnswerAhead, SteadyLeg, RunOk, HoldOk, LegOk, TellOk, LinkOk, ToldOk, TrackOk
<1> QED BY <1>2, <1>3

-----------------------------------------------------------------------------
(* Recovery, of one leg.                                                   *)

LEMMA RecoverCall ==
    ASSUME Ground, NEW l \in Legs, Recover(l)
    PROVE  CallInv'
<1>1. /\ \A m \in Legs : TrackOk(m)'
      /\ \A m \in Legs : ToldOk(m)'
      /\ \A m \in Legs : ClaimOk(m)'
      /\ NoDrop' => LinkOk'
      /\ NoDrop' => \A m \in Legs : FateOk(m)'
      /\ NoDrop' => LinesOk'
      /\ NoDrop' => \A m \in Legs : LineOk(m)'
      /\ Sound' => SoundLink'
      /\ Sound' => \A m \in Legs : SoundLeg(m)'
      /\ Sound' => \A m \in Legs : SoundPair(m)'
      /\ Steady' => \A m \in Legs : SteadyPair(m)'
  BY Frames
     DEF Recover, RecoverRinging, RecoverParked, RecoverBridged, RecoverOther, Reap, EndLegs,
         Disarm, Fire
<1>2. Steady' => \A m \in Legs : SteadyLeg(m)'
  BY DEF SteadyLeg, Recover, RecoverRinging, RecoverParked, RecoverBridged, RecoverOther, Reap,
         EndLegs, Disarm, Fire, AtOf, Shape2, Shape
<1>3. Steady' => \A m \in Legs : RowOk(m)'
  BY DEF RowOk, Recover, RecoverRinging, RecoverParked, RecoverBridged, RecoverOther, Reap,
         EndLegs, Disarm, Fire, Shape2, Shape
<1>4. Steady' => \A m \in Legs : FailOk(m)'
  BY DEF FailOk, RowOk, SteadyLeg, SteadyPair, SoundLeg, SoundLink, LinkOk, ToldOk, TrackOk,
         ClaimOk, TellOk, LegOk, Recover, RecoverRinging, RecoverParked, RecoverBridged,
         RecoverOther, Reap, EndLegs, Disarm, Fire, AtOf, Shape2, Shape
<1>5. Steady' /\ IsPrompt => \A m \in Legs : PromptOk(m)'
  BY DEF PromptOk, AnswerAhead, SteadyLeg, RunOk, HoldOk, LegOk, TellOk, LinkOk, ToldOk,
         TrackOk, Recover, RecoverRinging, RecoverParked, RecoverBridged, RecoverOther, Reap,
         EndLegs, Disarm, Fire, AtOf, Shape2, Shape
<1> QED BY <1>1, <1>2, <1>3, <1>4, <1>5

-----------------------------------------------------------------------------
(* The switch.                                                             *)

LEMMA RunOriginateCall ==
    ASSUME Ground, NEW l \in Legs, RunOriginate(l), UNCHANGED Application
    PROVE  CallInv'
<1>1. /\ \A m \in Legs \ {l} : chan'[m] = chan[m] /\ events'[m] = events[m]
      /\ UNCHANGED <<result, req, job, kept, expiry, pend, cont, ran, listing, seen, late,
                     reaped, dying, transfers, reg, failing, todo, link, ready, rec, at, spent,
                     placing, lines, cdr, due>>
      /\ \A m \in Legs, k \in Kinds : AtOf(m, k)' <=> AtOf(m, k)
      /\ \A d \in Calls : Live(d)' <=> Live(d)
      /\ chan[l] = "queued" /\ chan'[l] = "ringing"
      /\ events'[l] = IF link # "down" THEN Append(events[l], "create") ELSE events[l]
  BY DEF RunOriginate, Tell, Application, AtOf, Live, Shape2, Shape
<1>2. /\ events[l] = <<>> /\ Opening(events'[l])
      /\ link # "down" => CreateAhead(l)' /\ ~HangupAhead(l)' /\ ~Occurs(events'[l], "answer")
      /\ link = "down" => events'[l] = <<>> /\ ~CreateAhead(l)'
  <2>1. events[l] = <<>> /\ events[l] \in Seq(Kinds) BY <1>1 DEF ToldOk, Shape2, Shape
  <2>2. CASE link = "down" BY <1>1, <2>1, <2>2, Empty, Opens0
  <2>3. CASE link # "down" BY <1>1, <2>1, <2>3, Opens1
  <2> QED BY <2>1, <2>2, <2>3
<1>3. /\ \A m \in Legs : TrackOk(m)'
      /\ \A m \in Legs : ClaimOk(m)'
      /\ NoDrop' => LinkOk'
      /\ NoDrop' => LinesOk'
      /\ Sound' => SoundLink'
  BY Frames, <1>1, <1>2
<1>4. \A m \in Legs : ToldOk(m)'
  BY <1>1, <1>2, Empty DEF ToldOk
<1>5. NoDrop' => \A m \in Legs : FateOk(m)'
  BY <1>1, <1>2 DEF FateOk
<1>6. NoDrop' => \A m \in Legs : LineOk(m)'
  BY <1>1, <1>2 DEF LineOk, Unbacked, ClaimOk, TrackOk, ToldOk, LinkOk, LinesOk
<1>7. Sound' => \A m \in Legs : SoundLeg(m)'
  BY <1>1, <1>2
     DEF SoundLeg, SoundLink, SoundPair, LinkOk, ToldOk, TrackOk, ClaimOk, TellOk, LegOk, Live
<1>8. Sound' => \A m \in Legs : SoundPair(m)'
  BY <1>1, <1>2 DEF SoundPair
<1>9. Steady' => \A m \in Legs : SteadyLeg(m)'
  BY <1>1, <1>2
     DEF SteadyLeg, SteadyPair, SoundLeg, SoundLink, LinkOk, ToldOk, TrackOk, ClaimOk, TellOk,
         LegOk, Live
<1>10. Steady' => \A m \in Legs : SteadyPair(m)'
  BY <1>1, <1>2 DEF SteadyPair
<1>11. Steady' => \A m \in Legs : RowOk(m)'
  BY <1>1, <1>2 DEF RowOk
<1>12. Steady' => \A m \in Legs : FailOk(m)'
  BY <1>1, <1>2 DEF FailOk
<1>13. Steady' /\ IsPrompt => \A m \in Legs : PromptOk(m)'
  BY <1>1, <1>2 DEF PromptOk, AnswerAhead
<1> QED BY <1>3, <1>4, <1>5, <1>6, <1>7, <1>8, <1>9, <1>10, <1>11, <1>12, <1>13

LEMMA RefuseOriginateCall ==
    ASSUME Ground, NEW l \in Legs, RefuseOriginate(l), UNCHANGED Application
    PROVE  CallInv'
<1>1. /\ \A m \in Legs : TrackOk(m)'
      /\ \A m \in Legs : ClaimOk(m)'
      /\ NoDrop' => LinkOk'
      /\ NoDrop' => LinesOk'
      /\ Sound' => SoundLink'
  BY Frames DEF RefuseOriginate, Report, Application
<1>2. \A m \in Legs : ToldOk(m)'
  BY DEF ToldOk, RefuseOriginate, Report, Application, AtOf, Shape2, Shape
<1>3. NoDrop' => \A m \in Legs : FateOk(m)'
  BY DEF FateOk, TrackOk, ToldOk, LinkOk, LegOk, TellOk, RefuseOriginate, Report, Application,
         AtOf, Shape2, Shape
<1>4. NoDrop' => \A m \in Legs : LineOk(m)'
  BY DEF LineOk, Unbacked, Live, RefuseOriginate, Report, Application, Shape2, Shape
<1>5. Sound' => \A m \in Legs : SoundLeg(m)'
  BY DEF SoundLeg, RefuseOriginate, Report, Application, AtOf, Shape2, Shape
<1>6. Sound' => \A m \in Legs : SoundPair(m)'
  BY DEF SoundPair, RefuseOriginate, Report, Application, Shape2, Shape
<1>7. Steady' => \A m \in Legs : SteadyLeg(m)'
  BY DEF SteadyLeg, RefuseOriginate, Report, Application, AtOf, Shape2, Shape
<1>8. Steady' => \A m \in Legs : SteadyPair(m)'
  BY DEF SteadyPair, RefuseOriginate, Report, Application, Shape2, Shape
<1>9. Steady' => \A m \in Legs : RowOk(m)'
  BY DEF RowOk, SteadyLeg, SteadyPair, SoundLeg, SoundLink, LinkOk, FateOk, ToldOk, TrackOk,
         ClaimOk, TellOk, LegOk, Live, RefuseOriginate, Report, Application, AtOf, Shape2, Shape
<1>10. Steady' => \A m \in Legs : FailOk(m)'
  BY DEF FailOk, RefuseOriginate, Report, Application, Shape2, Shape
<1>11. Steady' /\ IsPrompt => \A m \in Legs : PromptOk(m)'
  BY DEF PromptOk, AnswerAhead, RefuseOriginate, Report, Application, AtOf, Shape2, Shape
<1> QED BY <1>1, <1>2, <1>3, <1>4, <1>5, <1>6, <1>7, <1>8, <1>9, <1>10, <1>11

LEMMA AnswerCall ==
    ASSUME Ground, NEW l \in Legs, Answer(l), UNCHANGED Application
    PROVE  CallInv'
<1>1. /\ \A m \in Legs \ {l} : chan'[m] = chan[m] /\ events'[m] = events[m]
      /\ UNCHANGED <<result, req, job, kept, expiry, pend, cont, ran, listing, seen, late,
                     reaped, dying, transfers, reg, failing, todo, link, ready, rec, at, spent,
                     placing, lines, cdr, due>>
      /\ \A m \in Legs, k \in Kinds : AtOf(m, k)' <=> AtOf(m, k)
      /\ \A d \in Calls : Live(d)' <=> Live(d)
      /\ chan[l] = "ringing" /\ chan'[l] = "answered"
      /\ events'[l] = IF link # "down" THEN Append(events[l], "answer") ELSE events[l]
  BY DEF Answer, Tell, Application, AtOf, Live, Shape2, Shape
<1>2. /\ Opening(events'[l]) /\ (CreateAhead(l)' <=> CreateAhead(l))
      /\ HangupAhead(l) => HangupAhead(l)'
      /\ Occurs(events[l], "answer") => Occurs(events'[l], "answer")
      /\ link # "down" => Occurs(events'[l], "answer")

  BY <1>1, Queued, Opens DEF ToldOk, Shape2, Shape
<1>3. /\ \A m \in Legs : TrackOk(m)'
      /\ \A m \in Legs : ClaimOk(m)'
      /\ NoDrop' => LinkOk'
      /\ NoDrop' => LinesOk'
      /\ Sound' => SoundLink'
  BY Frames, <1>1, <1>2
<1>4. \A m \in Legs : ToldOk(m)'
  BY <1>1, <1>2, Empty DEF ToldOk
<1>5. NoDrop' => \A m \in Legs : FateOk(m)'
  BY <1>1, <1>2 DEF FateOk
<1>6. NoDrop' => \A m \in Legs : LineOk(m)'
  BY <1>1, <1>2 DEF LineOk, Unbacked
<1>7. Sound' => \A m \in Legs : SoundLeg(m)'
  BY <1>1, <1>2 DEF SoundLeg
<1>8. Sound' => \A m \in Legs : SoundPair(m)'
  BY <1>1, <1>2 DEF SoundPair
<1>9. Steady' => \A m \in Legs : SteadyLeg(m)'
  BY <1>1, <1>2 DEF SteadyLeg
<1>10. Steady' => \A m \in Legs : SteadyPair(m)'
  BY <1>1, <1>2 DEF SteadyPair
<1>11. Steady' => \A m \in Legs : RowOk(m)'
  BY <1>1, <1>2 DEF RowOk
<1>12. Steady' => \A m \in Legs : FailOk(m)'
  BY <1>1, <1>2 DEF FailOk
<1>13. Steady' /\ IsPrompt => \A m \in Legs : PromptOk(m)'
  BY <1>1, <1>2
     DEF PromptOk, AnswerAhead, SteadyLeg, RunOk, HoldOk, LegOk, TellOk, LinkOk, ToldOk, TrackOk
<1> QED BY <1>3, <1>4, <1>5, <1>6, <1>7, <1>8, <1>9, <1>10, <1>11, <1>12, <1>13

LEMMA LetGoCall ==
    ASSUME Ground, NEW l \in Legs, LetGo(l), UNCHANGED Application
    PROVE  CallInv'
<1>1. /\ \A m \in Legs \ {l} : chan'[m] = chan[m] /\ result'[m] = result[m]
      /\ UNCHANGED <<events, req, job, kept, expiry, pend, cont, ran, listing, seen, late,
                     reaped, dying, transfers, reg, failing, todo, link, ready, rec, at, spent,
                     placing, lines, cdr, due>>
      /\ \A m \in Legs, k \in Kinds : AtOf(m, k)' <=> AtOf(m, k)
      /\ \A d \in Calls : Live(d)' <=> Live(d)
      /\ chan[l] = "answered" /\ chan'[l] = "parked"
      /\ result'[l] = IF link # "down" THEN "ok" ELSE result[l]
  BY DEF LetGo, Report, Application, AtOf, Live, Shape2, Shape
<1>2. /\ \A m \in Legs : TrackOk(m)'
      /\ \A m \in Legs : ClaimOk(m)'
      /\ NoDrop' => LinkOk'
      /\ NoDrop' => LinesOk'
      /\ Sound' => SoundLink'
  BY Frames, <1>1
<1>3. \A m \in Legs : ToldOk(m)'
  BY <1>1 DEF ToldOk
<1>4. NoDrop' => \A m \in Legs : FateOk(m)'
  BY <1>1 DEF FateOk
<1>5. NoDrop' => \A m \in Legs : LineOk(m)'
  BY <1>1 DEF LineOk, Unbacked
<1>6. Sound' => \A m \in Legs : SoundLeg(m)'
  BY <1>1 DEF SoundLeg
<1>7. Sound' => \A m \in Legs : SoundPair(m)'
  BY <1>1 DEF SoundPair
<1>8. Steady' => \A m \in Legs : SteadyLeg(m)'
  BY <1>1 DEF SteadyLeg
<1>9. Steady' => \A m \in Legs : SteadyPair(m)'
  BY <1>1 DEF SteadyPair
<1>10. Steady' => \A m \in Legs : RowOk(m)'
  BY <1>1 DEF RowOk
<1>11. Steady' => \A m \in Legs : FailOk(m)'
  BY <1>1 DEF FailOk
<1>12. Steady' /\ IsPrompt => \A m \in Legs : PromptOk(m)'
  BY <1>1
     DEF PromptOk, AnswerAhead, SteadyLeg, RunOk, HoldOk, LegOk, TellOk, LinkOk, ToldOk, TrackOk
<1> QED BY <1>2, <1>3, <1>4, <1>5, <1>6, <1>7, <1>8, <1>9, <1>10, <1>11, <1>12

LEMMA HangupCall ==
    ASSUME Ground, NEW l \in Legs, Hangup(l), UNCHANGED Application
    PROVE  CallInv'
<1>1. /\ \A m \in Legs \ {l} : chan'[m] = chan[m] /\ events'[m] = events[m] /\
           result'[m] = result[m] /\ (m \in dying' <=> m \in dying)
      /\ UNCHANGED <<req, job, kept, expiry, pend, cont, ran, listing, seen, late, reaped,
                     transfers, reg, failing, todo, link, ready, rec, at, spent, placing, lines,
                     cdr, due>>
      /\ \A m \in Legs, k \in Kinds : AtOf(m, k)' <=> AtOf(m, k)
      /\ \A d \in Calls : Live(d)' <=> Live(d)
      /\ IsUp(l) /\ chan'[l] = "gone"
      /\ events'[l] = IF link # "down" THEN Append(events[l], "hangup") ELSE events[l]
      /\ result'[l] = IF link # "down" /\ chan[l] \in {"ringing",
           "answered"} THEN "fail" ELSE result[l]
  BY DEF Hangup, Tell, Report, IsOriginating, Application, AtOf, Live, Shape2, Shape
<1>2. /\ Opening(events'[l]) /\ (CreateAhead(l)' <=> CreateAhead(l))
      /\ HangupAhead(l) => HangupAhead(l)'
      /\ Occurs(events[l], "answer") => Occurs(events'[l], "answer")
      /\ link # "down" => HangupAhead(l)'

  BY <1>1, Queued, Opens DEF ToldOk, Shape2, Shape
<1>3. /\ \A m \in Legs : TrackOk(m)'
      /\ \A m \in Legs : ClaimOk(m)'
      /\ NoDrop' => LinkOk'
      /\ NoDrop' => LinesOk'
      /\ Sound' => SoundLink'
  BY Frames, <1>1, <1>2
<1>4. \A m \in Legs : ToldOk(m)'
  BY <1>1, <1>2, Empty DEF ToldOk
<1>5. NoDrop' => \A m \in Legs : FateOk(m)'
  BY <1>1, <1>2 DEF FateOk
<1>6. NoDrop' => \A m \in Legs : LineOk(m)'
  BY <1>1, <1>2 DEF LineOk, Unbacked
<1>7. Sound' => \A m \in Legs : SoundLeg(m)'
  BY <1>1, <1>2 DEF SoundLeg, LinkOk, SoundLink, RecOk
<1>8. Sound' => \A m \in Legs : SoundPair(m)'
  BY <1>1, <1>2 DEF SoundPair
<1>9. Steady' => \A m \in Legs : SteadyLeg(m)'
  BY <1>1, <1>2 DEF SteadyLeg
<1>10. Steady' => \A m \in Legs : SteadyPair(m)'
  BY <1>1, <1>2 DEF SteadyPair
<1>11. Steady' => \A m \in Legs : RowOk(m)'
  BY <1>1, <1>2 DEF RowOk, SteadyLeg, SoundLeg, SoundLink
<1>12. Steady' => \A m \in Legs : FailOk(m)'
  BY <1>1, <1>2 DEF FailOk
<1>13. Steady' /\ IsPrompt => \A m \in Legs : PromptOk(m)'
  BY <1>1, <1>2 DEF PromptOk, AnswerAhead
<1> QED BY <1>3, <1>4, <1>5, <1>6, <1>7, <1>8, <1>9, <1>10, <1>11, <1>12, <1>13

LEMMA RunTransferCall ==
    ASSUME Ground, NEW l \in Legs, RunTransfer(l), UNCHANGED Application
    PROVE  CallInv'
<1>1. /\ \A m \in Legs : TrackOk(m)'
      /\ \A m \in Legs : ClaimOk(m)'
      /\ NoDrop' => LinkOk'
      /\ NoDrop' => LinesOk'
      /\ Sound' => SoundLink'
  BY Frames DEF RunTransfer, Application
<1>2. \A m \in Legs : ToldOk(m)'
  BY DEF ToldOk, RunTransfer, Application, AtOf, Shape2, Shape
<1>3. NoDrop' => \A m \in Legs : FateOk(m)'
  BY DEF FateOk, RunTransfer, Application, Shape2, Shape
<1>4. NoDrop' => \A m \in Legs : LineOk(m)'
  BY DEF LineOk, Unbacked, Live, RunTransfer, Application, Shape2, Shape
<1>5. Sound' => \A m \in Legs : SoundLeg(m)'
  BY DEF SoundLeg, RunTransfer, Application, AtOf, Shape2, Shape
<1>6. Sound' => \A m \in Legs : SoundPair(m)'
  BY DEF SoundPair, RunTransfer, Application, Shape2, Shape
<1>7. Steady' => \A m \in Legs : SteadyLeg(m)'
  BY DEF SteadyLeg, RunTransfer, Application, AtOf, Shape2, Shape
<1>8. Steady' => \A m \in Legs : SteadyPair(m)'
  BY DEF SteadyPair, RunTransfer, Application, Shape2, Shape
<1>9. Steady' => \A m \in Legs : RowOk(m)'
  BY DEF RowOk, RunTransfer, Application, Shape2, Shape
<1>10. Steady' => \A m \in Legs : FailOk(m)'
  BY DEF FailOk, RunTransfer, Application, Shape2, Shape
<1>11. Steady' /\ IsPrompt => \A m \in Legs : PromptOk(m)'
  BY DEF PromptOk, AnswerAhead, RunTransfer, Application, AtOf, Shape2, Shape
<1> QED BY <1>1, <1>2, <1>3, <1>4, <1>5, <1>6, <1>7, <1>8, <1>9, <1>10, <1>11

-----------------------------------------------------------------------------
(* The ledger and the slots.                                               *)

LEMMA WriteCDRCall ==
    ASSUME Ground, NEW c \in Calls, WriteCDR(c)
    PROVE  CallInv'
<1>1. /\ \A m \in Legs : TrackOk(m)'
      /\ \A m \in Legs : ToldOk(m)'
      /\ \A m \in Legs : ClaimOk(m)'
      /\ NoDrop' => LinkOk'
      /\ NoDrop' => \A m \in Legs : FateOk(m)'
      /\ NoDrop' => LinesOk'
      /\ NoDrop' => \A m \in Legs : LineOk(m)'
      /\ Sound' => SoundLink'
      /\ Steady' /\ IsPrompt => \A m \in Legs : PromptOk(m)'
  BY Frames DEF WriteCDR
<1>2. Sound' => \A m \in Legs : SoundLeg(m)'
  BY DEF SoundLeg, WriteCDR, AtOf, Shape2, Shape
<1>3. Sound' => \A m \in Legs : SoundPair(m)'
  BY DEF SoundPair, WriteCDR, Shape2, Shape
<1>4. Steady' => \A m \in Legs : SteadyLeg(m)'
  BY DEF SteadyLeg, WriteCDR, AtOf, Shape2, Shape
<1>5. Steady' => \A m \in Legs : SteadyPair(m)'
  BY DEF SteadyPair, WriteCDR, Shape2, Shape
<1>6. Steady' => \A m \in Legs : RowOk(m)'
  BY DEF RowOk, WriteCDR, Shape2, Shape
<1>7. Steady' => \A m \in Legs : FailOk(m)'
  BY DEF FailOk, WriteCDR, Shape2, Shape
<1> QED BY <1>1, <1>2, <1>3, <1>4, <1>5, <1>6, <1>7

LEMMA SlotLapsesCall ==
    ASSUME Ground, NEW c \in Calls, SlotLapses(c)
    PROVE  CallInv'
<1>1. /\ \A m \in Legs : TrackOk(m)'
      /\ \A m \in Legs : ToldOk(m)'
      /\ \A m \in Legs : ClaimOk(m)'
      /\ NoDrop' => LinkOk'
      /\ NoDrop' => \A m \in Legs : FateOk(m)'
      /\ NoDrop' => LinesOk'
      /\ NoDrop' => \A m \in Legs : LineOk(m)'
      /\ Sound' => SoundLink'
      /\ Sound' => \A m \in Legs : SoundLeg(m)'
      /\ Sound' => \A m \in Legs : SoundPair(m)'
      /\ Steady' => \A m \in Legs : SteadyLeg(m)'
      /\ Steady' => \A m \in Legs : SteadyPair(m)'
      /\ Steady' => \A m \in Legs : RowOk(m)'
      /\ Steady' => \A m \in Legs : FailOk(m)'
      /\ Steady' /\ IsPrompt => \A m \in Legs : PromptOk(m)'
  BY Frames DEF SlotLapses
<1> QED BY <1>1

-----------------------------------------------------------------------------
(* The reconciliation.                                                     *)

LEMMA ConnectCall ==
    ASSUME Ground, Connect
    PROVE  CallInv'
<1>1. /\ \A m \in Legs : TrackOk(m)'
      /\ \A m \in Legs : ClaimOk(m)'
      /\ NoDrop' => \A m \in Legs : FateOk(m)'
      /\ NoDrop' => LinesOk'
      /\ NoDrop' => \A m \in Legs : LineOk(m)'
      /\ Sound' => \A m \in Legs : SoundPair(m)'
      /\ Steady' => \A m \in Legs : SteadyLeg(m)'
      /\ Steady' => \A m \in Legs : SteadyPair(m)'
      /\ Steady' => \A m \in Legs : RowOk(m)'
      /\ Steady' => \A m \in Legs : FailOk(m)'
      /\ Steady' /\ IsPrompt => \A m \in Legs : PromptOk(m)'
  BY Frames DEF Connect
<1>2. \A m \in Legs : ToldOk(m)'
  BY DEF ToldOk, Connect, AtOf, Shape2, Shape
<1>3. NoDrop' => LinkOk'
  BY DEF LinkOk, Connect, Shape2, Shape
<1>4. Sound' => SoundLink'
  BY DEF SoundLink, Connect, Shape2, Shape
<1>5. Sound' => \A m \in Legs : SoundLeg(m)'
  BY DEF SoundLeg, Connect, AtOf, Shape2, Shape
<1> QED BY <1>1, <1>2, <1>3, <1>4, <1>5

LEMMA ListChannelsCall ==
    ASSUME Ground, ListChannels
    PROVE  CallInv'
<1>1. /\ \A m \in Legs : TrackOk(m)'
      /\ \A m \in Legs : ClaimOk(m)'
      /\ NoDrop' => \A m \in Legs : FateOk(m)'
      /\ NoDrop' => LinesOk'
      /\ NoDrop' => \A m \in Legs : LineOk(m)'
      /\ Sound' => \A m \in Legs : SoundPair(m)'
      /\ Steady' => \A m \in Legs : SteadyPair(m)'
      /\ Steady' => \A m \in Legs : RowOk(m)'
      /\ Steady' => \A m \in Legs : FailOk(m)'
      /\ Steady' /\ IsPrompt => \A m \in Legs : PromptOk(m)'
  BY Frames DEF ListChannels, IsUp
<1>2. \A m \in Legs : ToldOk(m)'
  BY DEF ToldOk, ListChannels, IsUp, AtOf, Shape2, Shape
<1>3. NoDrop' => LinkOk'
  BY DEF LinkOk, ListChannels, IsUp, Shape2, Shape
<1>4. Sound' => SoundLink'
  BY DEF SoundLink, ListChannels, IsUp, Shape2, Shape
<1>5. Sound' => \A m \in Legs : SoundLeg(m)'
  BY DEF SoundLeg, SoundLink, SoundPair, LinkOk, ToldOk, TrackOk, ClaimOk, TellOk, LegOk, Live,
         ListChannels, IsUp, AtOf, Shape2, Shape
<1>6. Steady' => \A m \in Legs : SteadyLeg(m)'
  BY DEF SteadyLeg, SteadyPair, SoundLeg, SoundLink, LinkOk, ToldOk, TrackOk, ClaimOk, TellOk,
         LegOk, Live, ListChannels, IsUp, AtOf, Shape2, Shape
<1> QED BY <1>1, <1>2, <1>3, <1>4, <1>5, <1>6

LEMMA AdoptLiveChannelsCall ==
    ASSUME Ground, AdoptLiveChannels
    PROVE  CallInv'
<1>1. /\ \A m \in Legs : TrackOk(m)'
      /\ \A m \in Legs : ClaimOk(m)'
      /\ NoDrop' => \A m \in Legs : FateOk(m)'
      /\ Sound' => \A m \in Legs : SoundPair(m)'
      /\ Steady' => \A m \in Legs : FailOk(m)'
      /\ Steady' /\ IsPrompt => \A m \in Legs : PromptOk(m)'
  BY Frames DEF AdoptLiveChannels, Listed
<1>2. \A m \in Legs : ToldOk(m)'
  BY DEF ToldOk, AdoptLiveChannels, Listed, AtOf, Shape2, Shape
<1>3. NoDrop' => LinkOk'
  BY DEF LinkOk, AdoptLiveChannels, Listed, Shape2, Shape
<1>4. NoDrop' => LinesOk'
  BY DEF LinesOk, Live, AdoptLiveChannels, Listed, Shape2, Shape
<1>5. NoDrop' => \A m \in Legs : LineOk(m)'
  <2>1. ASSUME NEW m \in Legs, NoDrop', CallOf[m] \in lines', Unbacked(m)' PROVE Live(CallOf[m])'
    <3>1. Unbacked(m) /\ NoDrop
      BY <2>1 DEF Unbacked, AdoptLiveChannels, Shape2, Shape
    <3>2. CASE CallOf[m] \in lines
      <4>1. Live(CallOf[m]) BY <2>1, <3>1, <3>2 DEF LineOk
      <4> QED BY <2>1, <4>1 DEF Live, AdoptLiveChannels, Listed, Shape2, Shape
    <3>3. CASE CallOf[m] \notin lines
      BY <2>1, <3>3 DEF Live, AdoptLiveChannels, Listed, Shape2, Shape
    <3> QED BY <3>2, <3>3
  <2> QED BY <2>1 DEF LineOk
<1>6. Sound' => SoundLink'
  BY DEF SoundLink, AdoptLiveChannels, Listed, Shape2, Shape
<1>7. Sound' => \A m \in Legs : SoundLeg(m)'
  BY DEF SoundLeg, SoundLink, SoundPair, LinkOk, ToldOk, TrackOk, ClaimOk, TellOk, LegOk, Live,
         AdoptLiveChannels, Listed, AtOf, Shape2, Shape
<1>8. Steady' => \A m \in Legs : SteadyLeg(m)'
  BY DEF SteadyLeg, SteadyPair, SoundLeg, SoundLink, LinkOk, ToldOk, TrackOk, ClaimOk, TellOk,
         LegOk, Live, AdoptLiveChannels, Listed, AtOf, Shape2, Shape
<1>9. Steady' => \A m \in Legs : SteadyPair(m)'
  BY DEF SteadyPair, SteadyLeg, SoundLink, ToldOk, TrackOk, ClaimOk, TellOk, LegOk, Live,
         AdoptLiveChannels, Listed, AtOf, Shape2, Shape
<1>10. Steady' => \A m \in Legs : RowOk(m)'
  BY DEF RowOk, SteadyLeg, SteadyPair, SoundLeg, SoundLink, LinkOk, FateOk, ToldOk, TrackOk,
         ClaimOk, TellOk, LegOk, Live, AdoptLiveChannels, Listed, AtOf, Shape2, Shape
<1> QED BY <1>1, <1>2, <1>3, <1>4, <1>5, <1>6, <1>7, <1>8, <1>9, <1>10

LEMMA MarkReconciledCall ==
    ASSUME Ground, MarkReconciled
    PROVE  CallInv'
<1>1. /\ \A m \in Legs : ClaimOk(m)'
      /\ NoDrop' => \A m \in Legs : FateOk(m)'
      /\ NoDrop' => LinesOk'
      /\ NoDrop' => \A m \in Legs : LineOk(m)'
      /\ Sound' => \A m \in Legs : SoundPair(m)'
      /\ Steady' => \A m \in Legs : SteadyPair(m)'
      /\ Steady' => \A m \in Legs : RowOk(m)'
      /\ Steady' => \A m \in Legs : FailOk(m)'
      /\ Steady' /\ IsPrompt => \A m \in Legs : PromptOk(m)'
  BY Frames DEF MarkReconciled
<1>2. \A m \in Legs : TrackOk(m)'
  BY DEF TrackOk, MarkReconciled, Shape2, Shape
<1>3. \A m \in Legs : ToldOk(m)'
  BY DEF ToldOk, MarkReconciled, AtOf, Shape2, Shape
<1>4. NoDrop' => LinkOk'
  BY DEF LinkOk, MarkReconciled, Shape2, Shape
<1>5. Sound' => SoundLink'
  BY DEF SoundLink, LinkOk, MarkReconciled, AtOf, Shape2, Shape
<1>6. Sound' => \A m \in Legs : SoundLeg(m)'
  BY DEF SoundLeg, MarkReconciled, AtOf, Shape2, Shape
<1>7. Steady' => \A m \in Legs : SteadyLeg(m)'
  BY DEF SteadyLeg, MarkReconciled, AtOf, Shape2, Shape
<1> QED BY <1>1, <1>2, <1>3, <1>4, <1>5, <1>6, <1>7

-----------------------------------------------------------------------------
(* Drops and crashes.                                                      *)

LEMMA LoseLinkCall ==
    ASSUME Ground, LoseLink
    PROVE  CallInv'
<1>1. ~NoDrop' /\ ~Sound' /\ ~Steady' BY Milder DEF LoseLink, Steady
<1>2. /\ \A m \in Legs : TrackOk(m)'
      /\ \A m \in Legs : ClaimOk(m)'
  BY Frames DEF LoseLink, LinkDrops
<1>3. \A m \in Legs : ToldOk(m)'
  BY Empty, Opens0 DEF ToldOk, LoseLink, LinkDrops, AtOf, Shape2, Shape
<1> QED BY <1>1, <1>2, <1>3

LEMMA CrashCall ==
    ASSUME Ground, Crash
    PROVE  CallInv'
<1>1. /\ ~Steady'
      /\ \A m \in Legs : chan'[m] = IF chan[m] = "invited" THEN "dialing" ELSE chan[m]
  BY Milder DEF Crash
<1>2. \A m \in Legs : TrackOk(m)'
  BY <1>1 DEF TrackOk, Crash, Shape2, Shape
<1>3. \A m \in Legs : ToldOk(m)'
  BY <1>1, Empty, Opens0 DEF ToldOk, Crash, AtOf, Shape2, Shape
<1>4. \A m \in Legs : ClaimOk(m)'
  BY <1>1 DEF ClaimOk, Crash, Shape2, Shape
<1>5. NoDrop' => LinkOk'
  BY <1>1 DEF LinkOk, Crash, Shape2, Shape
<1>6. NoDrop' => \A m \in Legs : FateOk(m)'
  BY <1>1 DEF FateOk, Crash, Shape2, Shape
<1>7. NoDrop' => LinesOk'
  BY <1>1 DEF LinesOk, Live, Crash, Shape2, Shape
<1>8. NoDrop' => \A m \in Legs : LineOk(m)'
  BY <1>1, Empty, Opens0 DEF LineOk, Unbacked, Live, Crash, Shape2, Shape
<1>9. Sound' => SoundLink'
  BY <1>1 DEF SoundLink, Crash, Shape2, Shape
<1>10. Sound' => \A m \in Legs : SoundLeg(m)'
  BY <1>1, Empty, Opens0 DEF SoundLeg, Crash, AtOf, Shape2, Shape
<1>11. Sound' => \A m \in Legs : SoundPair(m)'
  BY <1>1 DEF SoundPair, Crash, Shape2, Shape
<1> QED BY <1>1, <1>2, <1>3, <1>4, <1>5, <1>6, <1>7, <1>8, <1>9, <1>10, <1>11

-----------------------------------------------------------------------------
HIDE DEF Ground, Sound, CallInv, Values, switchVars, request, tracking, memory, bridging,
         recovery, ledger, Claimed, Cleared, Present

LEMMA InitCall == Init => CallInv
<1> SUFFICES ASSUME Init PROVE CallInv OBVIOUS
<1> USE DEF Init, SwitchInit
<1>1. \A l \in Legs, k \in Kinds : ~AtOf(l, k) BY DEF AtOf
<1>2. \A l \in Legs : ~Claimed(l) /\ ~Cleared(l) /\ ~Present(l)
  BY Empty DEF Claimed, Cleared, Present
<1>3. \A l \in Legs : TrackOk(l) /\ ClaimOk(l) BY <1>2 DEF TrackOk, ClaimOk
<1>4. \A l \in Legs : ToldOk(l) BY <1>1, Empty, Opens0 DEF ToldOk
<1>5. LinkOk /\ LinesOk BY DEF LinkOk, LinesOk
<1>6. \A l \in Legs : FateOk(l) /\ LineOk(l) BY DEF FateOk, LineOk
<1>7. SoundLink BY DEF SoundLink
<1>8. \A l \in Legs : SoundLeg(l) /\ SoundPair(l) BY <1>1, <1>2 DEF SoundLeg, SoundPair
<1>9. \A l \in Legs : SteadyLeg(l) /\ SteadyPair(l) BY <1>1, <1>2 DEF SteadyLeg, SteadyPair
<1>10. \A l \in Legs : RowOk(l) /\ FailOk(l) BY DEF RowOk, FailOk
<1>11. \A l \in Legs : PromptOk(l) BY <1>1 DEF PromptOk
<1> QED BY <1>3, <1>4, <1>5, <1>6, <1>7, <1>8, <1>9, <1>10, <1>11 DEF CallInv

\* No step breaks what holds of the calls.
LEMMA CallsStep == ASSUME Inv, CallInv, Next PROVE CallInv'
<1>1. Ground BY Grounded
<1>2. ASSUME NEW l \in Legs, PlaceAI(l) \/ Dial(l) PROVE CallInv'
  BY <1>1, <1>2, CheckPlacedCall, ClaimCallCall, AskLiveCall, AskLedgerCall, TakeLineCall,
     OriginateCall, ArmCall, AttachJobCall, HoldUnconfirmedCall DEF PlaceAI, Dial
<1>3. ASSUME NEW l \in Legs, Switch(l) PROVE CallInv'
  BY <1>1, <1>3, RunOriginateCall, RefuseOriginateCall, AnswerCall, LetGoCall, HangupCall,
     RunTransferCall DEF Switch
<1>4. ASSUME NEW l \in Legs, InviteBot(l) \/ AnswerInvite(l) \/ Handle(l) PROVE CallInv'
  BY <1>1, <1>4, InviteBotCall, DispatchCall, NoteChannelCall, HandleAnswerCall,
     HandleHangupCall, HandleBotLegCall, HandleJobCall DEF Handle
<1>5. ASSUME NEW l \in Legs,
             \/ WindowEnds(l) \/ JobExpires(l) \/ UnconfirmedAsk(l) \/ UnconfirmedExpires(l)
             \/ WriteFailure(l) \/ Recover(l)
      PROVE  CallInv'
  BY <1>1, <1>5, WindowEndsCall, JobExpiresCall, UnconfirmedAskCall, UnconfirmedExpiresCall,
     WriteFailureCall, RecoverCall
<1>6. ASSUME NEW l \in Legs, Continue(l) PROVE CallInv'
  BY <1>1, <1>6, TakeSlotCall, SlotReservedCall, OverflowCall, SendBridgeCall,
     BridgeRepliedCall, BridgeUnconfirmedCall, BridgeExpiresCall, BridgeGivenUpCall,
     TransferOnAnswerCall DEF Continue
<1>7. ASSUME NEW c \in Calls, WriteCDR(c) \/ SlotLapses(c) PROVE CallInv'
  BY <1>1, <1>7, WriteCDRCall, SlotLapsesCall
<1>8. ASSUME Connect \/ ListChannels \/ AdoptLiveChannels \/ MarkReconciled PROVE CallInv'
  BY <1>1, <1>8, ConnectCall, ListChannelsCall, AdoptLiveChannelsCall, MarkReconciledCall
<1>9. ASSUME LoseLink \/ Crash PROVE CallInv'
  BY <1>1, <1>9, LoseLinkCall, CrashCall
<1> QED BY <1>2, <1>3, <1>4, <1>5, <1>6, <1>7, <1>8, <1>9 DEF Next

LEMMA CallStutter == ASSUME CallInv, UNCHANGED vars PROVE CallInv'
<1> USE DEF vars, switchVars, request, tracking, memory, bridging, recovery, ledger, CallInv,
            Claimed, Cleared, Present, Sound
<1>1. (NoDrop' <=> NoDrop) /\ (Steady' <=> Steady) /\ (Sound' <=> Sound)
  BY DEF NoDrop, Steady, Calm
<1>2. \A l \in Legs : TrackOk(l)' /\ ClaimOk(l)' BY DEF TrackOk, ClaimOk
<1>3. \A l \in Legs : ToldOk(l)' BY DEF ToldOk, AtOf
<1>4. NoDrop' => LinkOk' /\ LinesOk' /\ \A l \in Legs : FateOk(l)' /\ LineOk(l)'
  BY <1>1 DEF LinkOk, LinesOk, FateOk, LineOk, Unbacked, Live
<1>5. Sound' => SoundLink' /\ \A l \in Legs : SoundLeg(l)' /\ SoundPair(l)'
  BY <1>1 DEF SoundLink, SoundLeg, SoundPair, AtOf
<1>6. Steady' => \A l \in Legs : SteadyLeg(l)' /\ SteadyPair(l)'
  BY <1>1 DEF SteadyLeg, SteadyPair, AtOf
<1>7. Steady' => \A l \in Legs : RowOk(l)' /\ FailOk(l)'
  BY <1>1 DEF RowOk, FailOk
<1>8. Steady' /\ IsPrompt => \A l \in Legs : PromptOk(l)'
  BY <1>1 DEF PromptOk, AnswerAhead, AtOf
<1> QED BY <1>2, <1>3, <1>4, <1>5, <1>6, <1>7, <1>8

\* The inductive invariant of calls: together with the one of legs no step
\* breaks it.
THEOREM CallInvariance == Spec => [](Inv /\ CallInv)
<1>1. Inv /\ CallInv /\ [Next]_vars => CallInv' BY CallsStep, CallStutter
<1> QED BY <1>1, InitCall, Invariance, PTL DEF Spec

\* Idempotent placement: a request and its retry never both have a leg on the
\* switch, over lost, late and raced replies and over restarts.
THEOREM PlacementIsIdempotent == Spec => []OneLegPerCall
<1>1. CallInv => OneLegPerCall
  BY DEF CallInv, Sound, Calm, SoundPair, OneLegPerCall
<1> QED BY <1>1, CallInvariance, PTL

\* While the link holds a line is reserved only for a call being placed or on
\* the registry: what is taken is given back on every path, without the sweep.
THEOREM NoLineIsLost == Spec => []LinesComeBack
<1>1. CallInv => LinesComeBack BY DEF CallInv, LinesOk, LinesComeBack
<1> QED BY <1>1, CallInvariance, PTL

\* A placement recorded as failed does not go on ringing.
THEOREM FailedPlacementIsEnded == Spec => []FailedIsEnded
<1>1. CallInv => FailedIsEnded BY DEF CallInv, FailOk, FailedIsEnded
<1> QED BY <1>1, CallInvariance, PTL

\* No placement vanishes: once its leg is gone there is a row, or one on its way.
THEOREM NoPlacementVanishes == Spec => []EndedIsRecorded
<1>1. Inv /\ CallInv => EndedIsRecorded
  <2> SUFFICES ASSUME Inv, CallInv, Steady, NEW l \in Legs, chan[l] \in {"gone", "failed"},
        IsQuiet(l)
               PROVE  job[l] # "none" \/ l \in failing \/ CallOf[l] \in due \/ HasRow(l)
    BY DEF EndedIsRecorded
  <2>1. RowOk(l) BY DEF CallInv
  <2>2. ~HangupAhead(l) BY Empty DEF IsQuiet, IsHandled
  <2> QED BY <2>1, <2>2 DEF RowOk
<1> QED BY <1>1, CallInvariance, PTL

\* While nothing fails, the cap on a number's lines counts every call that is up.
THEOREM LinesCoverSteadyCalls == Spec => [](Steady => LinesCoverCalls)
<1>1. Inv /\ CallInv /\ Steady => LinesCoverCalls
  <2> SUFFICES ASSUME Inv, CallInv, Steady,
                      NEW l \in reg \ (AgentLegs \cup late \cup reaped), IsUp(l)
               PROVE  CallOf[l] \in lines
    BY DEF LinesCoverCalls
  <2>1. l \in Legs /\ SteadyLeg(l) BY DEF CallInv, Inv, Typed, RegistryType
  <2> QED BY <2>1 DEF SteadyLeg, Present
<1> QED BY <1>1, CallInvariance, PTL

\* Never leave an answered leg parked: with an answer told only after the reply
\* to its originate, a leg that is parked once everything told of it is handled
\* has a continuation at work, a transfer on its way, or is being ended.
THEOREM NoLegIsLeftParked == Spec => [](IsPrompt => ParkedIsAttended)
<1>1. Inv /\ CallInv => (IsPrompt => ParkedIsAttended)
  <2> SUFFICES ASSUME Inv, CallInv, IsPrompt, Steady, NEW l \in Legs, chan[l] = "parked",
        IsQuiet(l)
               PROVE  cont[l] # "none" \/ l \in transfers \cup dying
    BY DEF ParkedIsAttended, IsAttended
  <2>1. PromptOk(l) /\ SteadyLeg(l) /\ TrackOk(l) BY DEF CallInv
  <2>2. ~CreateAhead(l) /\ ~AnswerAhead(l) /\ ~AtOf(l, "create") /\ result[l] = "none"
    BY Empty DEF IsQuiet, IsHandled, AtOf, AnswerAhead
  <2>3. kept[l] = "none" BY <2>1 DEF TrackOk, IsQuiet
  <2>4. ran[l] = 0 \/ ran[l] = 1
    BY DEF Inv, LegOk, RunOk, Steady, Calm, Typed, BridgingType
  <2>5. l \notin late BY <2>1, <2>2 DEF SteadyLeg
  <2> QED BY <2>1, <2>2, <2>3, <2>4, <2>5 DEF PromptOk
<1> QED BY <1>1, CallInvariance, PTL
=============================================================================
