---------------------------- MODULE CallsProofs -----------------------------
(***************************************************************************)
(* What is promised of the line holds for every plan of legs, every number *)
(* of drops and crashes, and whatever else the coordinator is handling.    *)
(* What is promised of rows and ended legs holds for plans that are        *)
(* Conversations, across drops and crashes too.                            *)
(*                                                                         *)
(* The line. LineAgrees speaks of moments when nothing is on its way. The  *)
(* invariant says what is on its way in between (LineInv): while the link  *)
(* is up, the last queue event on the stream about a caller, or else the   *)
(* line as it stands, says whether the queue holds them. The rest of the   *)
(* proof is that everything a handler does besides leaves the line alone,  *)
(* and that the replay after a reconnect tells no caller of the queue      *)
(* gone.                                                                   *)
(*                                                                         *)
(* Rows. RowsInv says where a leg can be: the stream is in the order the   *)
(* switch acted (Ordered), channels and parties agree for every call that  *)
(* runs (Registered), and each leg that has ended is released, is about to *)
(* be, or is in a row (Accounted). A leg is then in one running call at    *)
(* most and leaves it for one row, and a call that is absorbed writes      *)
(* none.                                                                   *)
(***************************************************************************)
EXTENDS Calls, FiniteSetTheorems, SequenceTheorems, WellFoundedInduction, TLAPS

(***************************************************************************)
(* Types of the state, of events and of calls.                             *)
(***************************************************************************)
Kinds == {"create", "answer", "join", "left", "bridge", "unbridge", "hangup"}
Events == [kind : Kinds, chan : Channels, other : Channels \cup {NoOne}, id : Ids \cup {NoOne}]
PartyMaps == UNION {[D -> Parties] : D \in SUBSET Channels}
CallRecords == [minted : BOOLEAN, stopped : BOOLEAN, ended : BOOLEAN, party : PartyMaps,
                claims : SUBSET [chan : Channels, move : Moves], mailbox : Seq(Events),
                known : BOOLEAN]
MoveRecords == [stage : {"none", "sent", "unconfirmed", "done"}, chan : Channels \cup {NoOne},
                call : CallIds \cup {NoOne}]

\* The states a handler works on that show the line v and the work w.
States(v, w) == [call : [CallIds -> CallRecords], at : [Channels -> CallIds \cup {NoOne}],
                 waiting : {v}, onCall : [Agents -> BOOLEAN], afterWork : {w}]

TypedSwitch ==
    /\ scenario \in Scenarios
    /\ link \in {"up", "down"}
    /\ chan \in [Channels -> {"none", "ringing", "answered", "gone"}]
    /\ peer \in [Channels -> Channels \cup {NoOne}]
    /\ named \subseteq Legs /\ queued \subseteq Up
    /\ pending \subseteq {t \in Moves : move[t].chan \in Channels}
    /\ feed \in Seq(Events)

TypedCalls ==
    /\ call \in [CallIds -> CallRecords]
    /\ at \in [Channels -> CallIds \cup {NoOne}]
    /\ waiting \subseteq Channels
    /\ onCall \in [Agents -> BOOLEAN]
    /\ move \in [Moves -> MoveRecords]

\* The faults so far, of which the rows lost are any.
SpentInv ==
    spent \in [drops : Nat, crashes : Nat, blinds : Nat, missed : SUBSET {"legs", "line", "ends"},
              lost : {spent.lost}]

\* A bridge names both its legs, and what is created is a leg of the plan.
IsSound(ev) == /\ ev.kind = "bridge" => ev.other \in Channels
               /\ ev.kind = "create" => ev.chan \in Legs

FeedInv == \A i \in 1..Len(feed) : IsSound(feed[i])

-----------------------------------------------------------------------------
(***************************************************************************)
(* The line.                                                               *)
(***************************************************************************)
IsJoin(ev, c) == ev.kind = "join" /\ ev.chan = c
IsLeave(ev, c) == ev.kind \in {"left", "hangup"} /\ ev.chan = c

\* The stream f makes a line that shows c, or does not (w), one that does.
SaysWaiting(f, w, c) ==
    \/ c \in w /\ \A i \in 1..Len(f) : ~IsLeave(f[i], c)
    \/ \E i \in 1..Len(f) : IsJoin(f[i], c) /\ \A j \in (i + 1)..Len(f) : ~IsLeave(f[j], c)

SaysAway(f, w, c) ==
    \/ c \notin w /\ \A i \in 1..Len(f) : ~IsJoin(f[i], c)
    \/ \E i \in 1..Len(f) : IsLeave(f[i], c) /\ \A j \in (i + 1)..Len(f) : ~IsJoin(f[j], c)

\* The link is up, and the queue was read when it came up.
IsLineRead == link = "up" /\ "line" \notin spent.missed

LineInv ==
    IsLineRead => \A c \in Channels : IF c \in queued THEN SaysWaiting(feed, waiting, c)
                                      ELSE SaysAway(feed, waiting, c)

Inv == TypedSwitch /\ TypedCalls /\ FeedInv /\ LineInv

-----------------------------------------------------------------------------
(***************************************************************************)
(* Sequences.                                                              *)
(***************************************************************************)
\* A set of naturals has a least element: what the inductions below rest on.
LEMMA Least ==
    ASSUME NEW T, T \subseteq Nat, T # {} PROVE \E x \in T : \A y \in T : x <= y
<1>1. IsWellFoundedOn(OpToRel(<,Nat), Nat) BY NatLessThanWellFounded
<1>2. PICK x \in T : \A y \in T : ~(<<y, x>> \in OpToRel(<,Nat)) BY <1>1, WFMin
<1>3. ASSUME NEW y \in T PROVE x <= y
  <2>1. <<y, x>> \notin OpToRel(<,Nat) BY <1>2, <1>3
  <2>2. y \in Nat /\ x \in Nat BY <1>3
  <2>3. y < x => <<y, x>> \in OpToRel(<,Nat) BY <2>2 DEF OpToRel
  <2>4. ~(y < x) BY <2>1, <2>3
  <2> QED BY <2>2, <2>4
<1> QED BY <1>3

\* The h[i] are what the first i of n sequences make, one after the other.
Lengthens(h, q, n) == h[1] = q[1] /\ \A i \in 2..n : h[i] = h[i - 1] \o q[i]

\* FlattenSeq is defined: it concatenates one sequence after the other.
LEMMA FlattenIs ==
    ASSUME NEW S, NEW n \in Nat, n # 0, NEW q \in [1..n -> Seq(S)]
    PROVE  \E h \in [1..n -> Seq(S)] : Lengthens(h, q, n) /\ FlattenSeq(q) = h[n]
<1> DEFINE E(f, i) == IF i = 1 THEN q[i] ELSE f[i - 1] \o q[i]
           Ex(m) == \E f \in [1..m -> Seq(S)] : \A i \in 1..m : f[i] = E(f, i)
<1>0. q \in Seq(Seq(S)) /\ Len(q) = n
  OBVIOUS
<1>1. Ex(0)
  <2> DEFINE g == [i \in 1..0 |-> <<>>]
  <2>1. g \in [1..0 -> Seq(S)] /\ \A i \in 1..0 : g[i] = E(g, i) OBVIOUS
  <2> QED BY <2>1
<1>2. ASSUME NEW m \in Nat, m < n, Ex(m) PROVE Ex(m + 1)
  <2>1. PICK f \in [1..m -> Seq(S)] : \A i \in 1..m : f[i] = E(f, i) BY <1>2
  <2> DEFINE g == [i \in 1..(m + 1) |-> IF i = m + 1 THEN E(f, i) ELSE f[i]]
  <2>2. q[m + 1] \in Seq(S) BY <1>2
  <2>3. E(f, m + 1) \in Seq(S)
    <3>1. CASE m = 0 BY <2>2, <3>1
    <3>2. CASE m # 0
      <4>1. m \in 1..m /\ f[m] \in Seq(S) /\ (m + 1) - 1 = m BY <3>2, <2>1
      <4> QED BY <4>1, <2>2, <3>2
    <3> QED BY <3>1, <3>2
  <2>4. g \in [1..(m + 1) -> Seq(S)] BY <2>3, <2>1
  <2>5. ASSUME NEW i \in 1..(m + 1) PROVE g[i] = E(g, i)
    <3>1. CASE i = m + 1
      <4>1. g[i] = E(f, i) BY <3>1
      <4>2. CASE m = 0 BY <4>1, <4>2, <3>1
      <4>3. CASE m # 0
        <5>1. i - 1 \in 1..m /\ i - 1 \in 1..(m + 1) /\ i - 1 # m + 1 /\ i # 1 BY <3>1, <4>3
        <5>2. g[i - 1] = f[i - 1] BY <5>1
        <5> QED BY <4>1, <5>1, <5>2
      <4> QED BY <4>2, <4>3
    <3>2. CASE i # m + 1
      <4>0. i \in 1..m BY <3>2
      <4>a. g[i] = f[i] BY <3>2
      <4>1. i \in 1..m /\ g[i] = f[i] /\ f[i] = E(f, i) BY <4>0, <4>a, <2>1
      <4>2. CASE i = 1 BY <4>1, <4>2
      <4>3. CASE i # 1
        <5>1. i - 1 \in 1..m /\ i - 1 \in 1..(m + 1) /\ i - 1 # m + 1 BY <4>1, <4>3
        <5>2. g[i - 1] = f[i - 1] BY <5>1
        <5> QED BY <4>1, <4>3, <5>2
      <4> QED BY <4>2, <4>3
    <3> QED BY <3>1, <3>2
  <2> QED BY <2>4, <2>5
<1> HIDE DEF Ex
<1>3. Ex(n)
  <2> DEFINE T == {m \in 0..n : ~Ex(m)}
  <2>1. T = {}
    <3>1. SUFFICES ASSUME T # {} PROVE FALSE OBVIOUS
    <3>2. T \subseteq Nat OBVIOUS
    <3>3. PICK x \in T : \A y \in T : x <= y BY <3>1, <3>2, Least
    <3>4. x # 0 BY <1>1, <3>3
    <3>5. x - 1 \in Nat /\ x - 1 < n /\ x - 1 \notin T /\ x - 1 \in 0..n BY <3>3, <3>4
    <3>6. Ex(x - 1) BY <3>5
    <3>7. Ex((x - 1) + 1) BY <1>2, <3>5, <3>6
    <3>8. (x - 1) + 1 = x BY <3>3
    <3> QED BY <3>3, <3>7, <3>8
  <2> QED BY <2>1
<1> DEFINE h == CHOOSE f : f = [i \in 1..n |-> E(f, i)]
<1>4. \E f : f = [i \in 1..n |-> E(f, i)]
  <2>1. PICK f \in [1..n -> Seq(S)] : \A i \in 1..n : f[i] = E(f, i) BY <1>3 DEF Ex
  <2>2. f = [i \in 1..n |-> E(f, i)] BY <2>1
  <2> QED BY <2>2
<1>5. h = [i \in 1..n |-> E(h, i)] BY <1>4, Zenon
<1>6. FlattenSeq(q) = h[n] BY <1>0 DEF FlattenSeq
<1> HIDE DEF h
<1> DEFINE T == {m \in 1..n : h[m] \notin Seq(S)}
<1>7. ASSUME T # {} PROVE FALSE
  <2>1. T \subseteq Nat OBVIOUS
  <2>2. PICK x \in T : \A y \in T : x <= y BY <1>7, <2>1, Least
  <2>3. h[x] = E(h, x) /\ q[x] \in Seq(S) BY <1>5
  <2>4. x # 1 BY <2>3
  <2>5. x - 1 \in 1..n /\ x - 1 \notin T BY <2>2, <2>4
  <2>6. h[x - 1] \in Seq(S) BY <2>5
  <2>7. h[x] = h[x - 1] \o q[x] BY <2>3, <2>4
  <2>8. h[x] \in Seq(S) BY <2>3, <2>6, <2>7
  <2> QED BY <2>8
<1>8. h \in [1..n -> Seq(S)] BY <1>5, <1>7
<1>9. h[1] = q[1]
  <2>1. 1 \in 1..n OBVIOUS
  <2> QED BY <1>5, <2>1
<1>10. ASSUME NEW i \in 2..n PROVE h[i] = h[i - 1] \o q[i]
  <2>1. i \in 1..n /\ i # 1 OBVIOUS
  <2> QED BY <1>5, <2>1
<1> QED BY <1>6, <1>8, <1>9, <1>10 DEF Lengthens

LEMMA FlattenType ==
    ASSUME NEW S, NEW n \in Nat, NEW q \in [1..n -> Seq(S)]
    PROVE  FlattenSeq(q) \in Seq(S)
<1>1. CASE n = 0
  <2>1. q = <<>> /\ Len(q) = 0 BY <1>1
  <2> QED BY <2>1 DEF FlattenSeq
<1>2. CASE n # 0
  <2>1. PICK h \in [1..n -> Seq(S)] : Lengthens(h, q, n) /\ FlattenSeq(q) = h[n]
    BY <1>2, FlattenIs
  <2>2. n \in 1..n BY <1>2
  <2> QED BY <2>1, <2>2
<1> QED BY <1>1, <1>2

\* SetToSeq lists the members of a finite set, each once.
LEMMA SetToSeqType ==
    ASSUME NEW S, IsFiniteSet(S)
    PROVE  /\ SetToSeq(S) \in [1..Cardinality(S) -> S] /\ Cardinality(S) \in Nat
           /\ \A i, j \in 1..Cardinality(S) : SetToSeq(S)[i] = SetToSeq(S)[j] => i = j
           /\ \A x \in S : \E i \in 1..Cardinality(S) : SetToSeq(S)[i] = x
<1> DEFINE n == Cardinality(S)
           f == SetToSeq(S)
<1>1. n \in Nat /\ ExistsBijection(1..n, S) BY FS_CardinalityType
<1>2. \E g \in [1..n -> S] : IsInjective(g)
  BY <1>1 DEF ExistsBijection, Bijection, Injection, IsInjective
<1>3. f \in [1..n -> S] /\ IsInjective(f) BY <1>2 DEF SetToSeq
<1> HIDE DEF n, f
<1>4. \A i, j \in 1..n : f[i] = f[j] => i = j BY <1>3 DEF IsInjective
<1>5. f \in Injection(1..n, S) BY <1>3, <1>4 DEF Injection, IsInjective
<1>6. Cardinality(1..n) = n BY <1>1, FS_Interval
<1>7. f \in Surjection(1..n, S) BY <1>5, <1>6, FS_Injection DEF n
<1>8. \A x \in S : \E i \in 1..n : f[i] = x BY <1>7 DEF Surjection
<1> QED BY <1>1, <1>3, <1>4, <1>8 DEF n, f

-----------------------------------------------------------------------------
(***************************************************************************)
(* What the handlers' operators make of a state.                           *)
(***************************************************************************)
\* The legs of a call, however they were put together.
LEMMA PartyMapOf ==
    ASSUME NEW D, D \subseteq Channels, NEW f \in [D -> Parties]
    PROVE  f \in PartyMaps
BY DEF PartyMaps

LEMMA PartyMapIs ==
    ASSUME NEW f \in PartyMaps
    PROVE  DOMAIN f \subseteq Channels /\ f \in [DOMAIN f -> Parties]
<1>1. PICK D \in SUBSET Channels : f \in [D -> Parties] BY DEF PartyMaps
<1> QED BY <1>1

LEMMA NoParty == <<>> \in PartyMaps
<1>1. <<>> \in [{} -> Parties] OBVIOUS
<1> QED BY <1>1, PartyMapOf

LEMMA NoCallType == NoCall \in CallRecords
<1>1. <<>> \in Seq(Events) OBVIOUS
<1> QED BY <1>1, NoParty DEF NoCall, CallRecords

LEMMA WithType ==
    ASSUME NEW f \in PartyMaps, NEW c \in Channels, NEW p \in Parties
    PROVE  With(f, c, p) \in PartyMaps
<1>1. DOMAIN f \subseteq Channels /\ f \in [DOMAIN f -> Parties] BY PartyMapIs
<1>2. With(f, c, p) \in [DOMAIN f \cup {c} -> Parties] BY <1>1 DEF With
<1> QED BY <1>1, <1>2, PartyMapOf

LEMMA UnionType ==
    ASSUME NEW f \in PartyMaps, NEW g \in PartyMaps
    PROVE  Union(f, g) \in PartyMaps
<1>1. /\ DOMAIN f \subseteq Channels /\ f \in [DOMAIN f -> Parties]
      /\ DOMAIN g \subseteq Channels /\ g \in [DOMAIN g -> Parties]
  BY PartyMapIs
<1>2. Union(f, g) \in [DOMAIN f \cup DOMAIN g -> Parties] BY <1>1 DEF Union
<1>3. DOMAIN f \cup DOMAIN g \subseteq Channels BY <1>1
<1> QED BY <1>2, <1>3, PartyMapOf

LEMMA NewPartyType == ASSUME NEW f PROVE NewParty(f) \in Parties
BY DEF NewParty, Parties, PartyStates

LEMMA EstablishType == ASSUME NEW p \in Parties PROVE Establish(p) \in Parties
BY DEF Establish, Parties, PartyStates

LEMMA MovedType ==
    ASSUME NEW f \in PartyMaps, NEW ev PROVE Moved(f, ev) \in PartyMaps
<1>1. DOMAIN f \subseteq Channels /\ f \in [DOMAIN f -> Parties] BY PartyMapIs
<1>2. ASSUME NEW c \in DOMAIN f PROVE Moved(f, ev)[c] \in Parties
  <2>1. f[c] \in Parties BY <1>1
  <2>2. Establish(f[c]) \in Parties BY <2>1, EstablishType
  <2>3. [f[c] EXCEPT !.answered = TRUE] \in Parties BY <2>1 DEF Parties
  <2>4. [f[c] EXCEPT !.state = "RELEASED"] \in Parties BY <2>1 DEF Parties, PartyStates
  <2> QED BY <2>1, <2>2, <2>3, <2>4 DEF Moved
<1>3. Moved(f, ev) \in [DOMAIN f -> Parties] BY <1>2 DEF Moved
<1> QED BY <1>1, <1>3, PartyMapOf

\* One call of a state changes.
LEMMA CallChanges ==
    ASSUME NEW v, NEW w, NEW s \in States(v, w), NEW k \in CallIds, NEW r \in CallRecords
    PROVE  [s EXCEPT !.call[k] = r] \in States(v, w)
BY DEF States

LEMMA CreateCallType ==
    ASSUME NEW v, NEW w, NEW s \in States(v, w), NEW k \in CallIds, NEW minted \in BOOLEAN
    PROVE  CreateCall(s, k, minted) \in States(v, w)
<1>1. [NoCall EXCEPT !.known = TRUE, !.stopped = FALSE, !.ended = FALSE, !.minted = minted]
          \in CallRecords
  BY NoCallType DEF CallRecords
<1> QED BY <1>1, CallChanges DEF CreateCall

LEMMA BindChannelType ==
    ASSUME NEW v, NEW w, NEW s \in States(v, w), NEW c \in Channels, NEW k \in CallIds
    PROVE  BindChannel(s, c, k) \in States(v, w)
BY DEF BindChannel, States

LEMMA SetOnCallType ==
    ASSUME NEW v, NEW w, NEW s \in States(v, w), NEW a, NEW b \in BOOLEAN
    PROVE  SetOnCall(s, a, b) \in States(v, w)
BY DEF SetOnCall, States

LEMMA AddPartyType ==
    ASSUME NEW v, NEW w, NEW s \in States(v, w), NEW k \in CallIds, NEW c \in Channels, NEW late
    PROVE  AddParty(s, k, c, late) \in States(v, w)
<1> DEFINE p == s.call[k].party
           t == [s EXCEPT !.call[k].party = With(@, c, NewParty(@))]
<1>1. s.call[k] \in CallRecords /\ p \in PartyMaps BY DEF States, CallRecords
<1>2. With(p, c, NewParty(p)) \in PartyMaps BY <1>1, WithType, NewPartyType
<1>3. [s.call[k] EXCEPT !.party = With(p, c, NewParty(p))] \in CallRecords
  BY <1>1, <1>2 DEF CallRecords
<1>4. t = [s EXCEPT !.call[k] = [s.call[k] EXCEPT !.party = With(p, c, NewParty(p))]]
  BY <1>1 DEF States, CallRecords
<1>5. t \in States(v, w) BY <1>3, <1>4, CallChanges
<1>6. SetOnCall(t, AgentOf(c), TRUE) \in States(v, w) BY <1>5, SetOnCallType
<1> QED BY <1>6 DEF AddParty

LEMMA PlanType ==
    ASSUME scenario \in Scenarios, NEW c \in Legs
    PROVE  /\ Leg(c) \in LegKinds
           /\ ParentOf(c) \in Channels \cup {NoOne}
           /\ Leg(c).id \in Ids \cup {NoOne}
<1>1. IsLegPlan(scenario.leg) BY CallsAssumption
<1>2. c \in Channels /\ scenario.leg[c] # NoOne BY DEF Legs, Leg
<1>3. Leg(c) \in LegKinds BY <1>1, <1>2 DEF IsLegPlan, Leg
<1> QED BY <1>3 DEF LegKinds, ParentOf

LEMMA AdoptType ==
    ASSUME scenario \in Scenarios, NEW v, NEW w, NEW s \in States(v, w),
           NEW ev \in Events, ev.chan \in Legs, NEW late
    PROVE  Adopt(s, ev, late) \in States(v, w)
<1> DEFINE k == AdoptInto(s, ev)
           one == CreateCall(s, k, ev.id # NoOne)
           two == BindChannel(one, ev.chan, k)
<1>1. ev.chan \in Channels /\ ev.id \in Ids \cup {NoOne} BY DEF Events
<1>2. k \in CallIds
  <2> DEFINE parent == ParentOf(ev.chan)
  <2>1. s.at \in [Channels -> CallIds \cup {NoOne}] BY DEF States
  <2>2. CASE ev.id # NoOne BY <1>1, <2>2 DEF AdoptInto, CallIds
  <2>3. CASE ev.id = NoOne
    <3>1. AdoptInto(s, ev) = IF parent # NoOne /\ s.at[parent] # NoOne THEN s.at[parent] ELSE ev.chan
      BY <2>3 DEF AdoptInto
    <3>2. parent \in Channels \cup {NoOne} BY PlanType
    <3>3. CASE parent # NoOne /\ s.at[parent] # NoOne BY <3>1, <3>2, <3>3, <2>1
    <3>4. CASE ~(parent # NoOne /\ s.at[parent] # NoOne) BY <3>1, <3>4, <1>1 DEF CallIds
    <3> QED BY <3>3, <3>4
  <2> QED BY <2>2, <2>3
<1> HIDE DEF k
<1>3. one \in States(v, w) BY <1>2, CreateCallType
<1>4. two \in States(v, w) BY <1>1, <1>2, <1>3, BindChannelType
<1>5. AddParty(two, k, ev.chan, late) \in States(v, w) BY <1>1, <1>2, <1>4, AddPartyType
<1> QED BY <1>5 DEF Adopt, k

\* Two calls of a state change, and where the channels are bound.
Absorbing(s, keep, absorb, party, claims, bound) ==
    [s EXCEPT !.call[keep].party = party, !.call[keep].claims = claims,
              !.call[absorb].stopped = TRUE, !.at = bound]

LEMMA AbsorbingType ==
    ASSUME NEW v, NEW w, NEW s \in States(v, w), NEW keep \in CallIds, NEW absorb \in CallIds,
           NEW party \in PartyMaps, NEW claims \in SUBSET [chan : Channels, move : Moves],
           NEW bound \in [Channels -> CallIds \cup {NoOne}]
    PROVE  Absorbing(s, keep, absorb, party, claims, bound) \in States(v, w)
<1> DEFINE e1 == [s EXCEPT !.call[keep].party = party]
           e2 == [e1 EXCEPT !.call[keep].claims = claims]
           e3 == [e2 EXCEPT !.call[absorb].stopped = TRUE]
<1>1. e1 \in States(v, w)
  <2>1. s.call[keep] \in CallRecords BY DEF States
  <2>2. [s.call[keep] EXCEPT !.party = party] \in CallRecords BY <2>1 DEF CallRecords
  <2>3. e1 = [s EXCEPT !.call[keep] = [s.call[keep] EXCEPT !.party = party]] OBVIOUS
  <2> QED BY <2>2, <2>3, CallChanges
<1>2. e2 \in States(v, w)
  <2> HIDE DEF e1
  <2>1. e1.call[keep] \in CallRecords BY <1>1 DEF States
  <2>2. [e1.call[keep] EXCEPT !.claims = claims] \in CallRecords BY <2>1 DEF CallRecords
  <2>3. e2 = [e1 EXCEPT !.call[keep] = [e1.call[keep] EXCEPT !.claims = claims]] OBVIOUS
  <2> QED BY <1>1, <2>2, <2>3, CallChanges
<1>3. e3 \in States(v, w)
  <2> HIDE DEF e1, e2
  <2>1. e2.call[absorb] \in CallRecords BY <1>2 DEF States
  <2>2. [e2.call[absorb] EXCEPT !.stopped = TRUE] \in CallRecords BY <2>1 DEF CallRecords
  <2>3. e3 = [e2 EXCEPT !.call[absorb] = [e2.call[absorb] EXCEPT !.stopped = TRUE]] OBVIOUS
  <2> QED BY <1>2, <2>2, <2>3, CallChanges
<1>4. [e3 EXCEPT !.at = bound] \in States(v, w)
  <2> HIDE DEF e3
  <2> QED BY <1>3 DEF States
<1> QED BY <1>4 DEF Absorbing

LEMMA MergeType ==
    ASSUME NEW v, NEW w, NEW s \in States(v, w), NEW keep \in CallIds, NEW absorb \in CallIds,
           NEW late
    PROVE  Merge(s, keep, absorb, late) \in States(v, w)
<1> DEFINE gone == s.call[absorb]
           moved == IF Runs(s, absorb, late) THEN gone.party ELSE <<>>
           held == Claimed(s.call[keep].claims)
           party == Union(s.call[keep].party, moved)
           claims == s.call[keep].claims \cup {x \in gone.claims : x.chan \notin held}
           bound == [c \in Channels |-> IF c \in DOMAIN moved THEN keep ELSE s.at[c]]
<1>1. s.call[keep] \in CallRecords /\ gone \in CallRecords BY DEF States
<1>2. moved \in PartyMaps BY <1>1, NoParty DEF CallRecords
<1>3. party \in PartyMaps BY <1>1, <1>2, UnionType DEF CallRecords
<1>4. claims \in SUBSET [chan : Channels, move : Moves] BY <1>1 DEF CallRecords
<1>5. bound \in [Channels -> CallIds \cup {NoOne}] BY DEF States
<1>6. CASE ~Runs(s, keep, late) BY <1>6 DEF Merge
<1>7. CASE Runs(s, keep, late)
  <2>1. Merge(s, keep, absorb, late)
            = Absorbing(s, keep, absorb, party, claims, bound)
    BY <1>7 DEF Merge, Absorbing
  <2> HIDE DEF party, claims, bound
  <2> QED BY <2>1, <1>3, <1>4, <1>5, AbsorbingType
<1> QED BY <1>6, <1>7

LEMMA JoinType ==
    ASSUME NEW v, NEW w, NEW s \in States(v, w), NEW ev \in Events, ev.other \in Channels, NEW late
    PROVE  Join(s, ev, late) \in States(v, w)
<1> DEFINE k == s.at[ev.chan]
           o == s.at[ev.other]
           absorbed == Absorbed(s, k, o, late)
<1>1. k \in CallIds \cup {NoOne} /\ o \in CallIds \cup {NoOne} BY DEF States, Events
<1>2. absorbed \in {k, o} BY DEF Absorbed
<1>3. CASE k = NoOne \/ o = NoOne \/ k = o BY <1>3 DEF Join
<1>4. CASE ~(k = NoOne \/ o = NoOne \/ k = o)
  <2>1. k \in CallIds /\ o \in CallIds BY <1>1, <1>4
  <2>2. Join(s, ev, late) = Merge(s, IF absorbed = k THEN o ELSE k, absorbed, late)
    BY <1>4 DEF Join
  <2>3. absorbed \in CallIds /\ (IF absorbed = k THEN o ELSE k) \in CallIds BY <1>2, <2>1
  <2> QED BY <2>2, <2>3, MergeType
<1> QED BY <1>3, <1>4

LEMMA ReidentifyType ==
    ASSUME NEW v, NEW w, NEW s \in States(v, w), NEW ev \in Events, NEW late
    PROVE  Reidentify(s, ev, late) \in States(v, w)
<1> DEFINE bound == s.at[ev.chan]
           made == CreateCall(s, ev.id, TRUE)
<1>1. bound \in CallIds \cup {NoOne} /\ ev.id \in Ids \cup {NoOne} BY DEF States, Events
<1>2. CASE ev.id = NoOne \/ bound \in {NoOne, ev.id} \/ IsMintedID(s, bound, late)
  BY <1>2 DEF Reidentify
<1>3. CASE ~(ev.id = NoOne \/ bound \in {NoOne, ev.id} \/ IsMintedID(s, bound, late))
  <2>1. bound \in CallIds /\ ev.id \in CallIds BY <1>1, <1>3 DEF CallIds
  <2>2. made \in States(v, w) BY <2>1, CreateCallType
  <2>3. Merge(made, ev.id, bound, late) \in States(v, w) BY <2>1, <2>2, MergeType
  <2> QED BY <2>3, <1>3 DEF Reidentify
<1> QED BY <1>2, <1>3

\* The line after an event.
LineAfter(ev, v) ==
    CASE ev.kind = "join" -> v \cup {ev.chan}
      [] ev.kind \in {"left", "hangup"} -> v \ {ev.chan}
      [] OTHER -> v

LEMMA TrackQueueType ==
    ASSUME NEW v, NEW w, NEW s \in States(v, w), NEW ev
    PROVE  TrackQueue(s, ev) \in States(LineAfter(ev, v), w)
<1>1. s.waiting = v BY DEF States
<1>2. CASE ev.kind = "join" BY <1>1, <1>2 DEF TrackQueue, LineAfter, States
<1>3. CASE ev.kind \in {"left", "hangup"}
  <2>1. ev.kind # "join" BY <1>3
  <2>2. TrackQueue(s, ev) = [s EXCEPT !.waiting = v \ {ev.chan}]
    BY <1>1, <1>3, <2>1 DEF TrackQueue
  <2>3. LineAfter(ev, v) = v \ {ev.chan} BY <1>3, <2>1 DEF LineAfter
  <2> QED BY <2>2, <2>3 DEF States
<1>4. CASE ev.kind \notin {"join", "left", "hangup"}
  <2>1. TrackQueue(s, ev) = s /\ LineAfter(ev, v) = v BY <1>4 DEF TrackQueue, LineAfter
  <2> QED BY <2>1
<1> QED BY <1>2, <1>3, <1>4

LEMMA DispatchType ==
    ASSUME NEW v, NEW w, NEW s \in States(v, w), NEW ev \in Events
    PROVE  Dispatch(s, ev) \in States(v, w)
<1> DEFINE k == s.at[ev.chan]
           box == Append(s.call[k].mailbox, ev)
<1>1. k \in CallIds \cup {NoOne} BY DEF States, Events
<1>2. CASE k = NoOne \/ s.call[k].stopped BY <1>2 DEF Dispatch
<1>3. CASE ~(k = NoOne \/ s.call[k].stopped)
  <2>1. k \in CallIds BY <1>1, <1>3
  <2>2. s.call[k] \in CallRecords BY <2>1 DEF States
  <2>3. box \in Seq(Events) BY <2>2 DEF CallRecords
  <2>4. [s.call[k] EXCEPT !.mailbox = box] \in CallRecords BY <2>2, <2>3 DEF CallRecords
  <2>5. Dispatch(s, ev) = [s EXCEPT !.call[k] = [s.call[k] EXCEPT !.mailbox = box]]
    BY <1>3, <2>2 DEF Dispatch, States, CallRecords
  <2> HIDE DEF k, box
  <2> QED BY <2>1, <2>4, <2>5, CallChanges
<1> QED BY <1>2, <1>3

LEMMA LegIsOverType ==
    ASSUME NEW v, NEW w, NEW s \in States(v, w), NEW before, NEW ev
    PROVE  \E x : LegIsOver(s, before, ev) \in States(v, x)
<1> DEFINE k == before.at[ev.chan]
           a == AgentOf(ev.chan)
           off == SetOnCall(s, a, FALSE)
           more == w \cup {[agent |-> a, call |-> k]}
<1>1. off \in States(v, w) BY SetOnCallType
<1>2. CASE before.call[k].party[ev.chan].answered
  <2>1. off.afterWork = w BY <1>1 DEF States
  <2>2. LegIsOver(s, before, ev) = [off EXCEPT !.afterWork = more]
    BY <1>2, <2>1 DEF LegIsOver
  <2>3. [off EXCEPT !.afterWork = more] \in States(v, more) BY <1>1 DEF States
  <2> QED BY <2>2, <2>3
<1>3. CASE ~before.call[k].party[ev.chan].answered
  <2>1. LegIsOver(s, before, ev) = off BY <1>3 DEF LegIsOver
  <2> QED BY <2>1, <1>1
<1> QED BY <1>2, <1>3

\* What handling an event does to the line, whatever it does besides.
LEMMA HandleType ==
    ASSUME scenario \in Scenarios, State \in States(waiting, afterWork),
           NEW ev \in Events, IsSound(ev), NEW late
    PROVE  \E x : HandleResult(ev, late) \in States(LineAfter(ev, waiting), x)
<1> DEFINE first == CASE ev.kind = "create" -> Adopt(State, ev, late)
                      [] ev.kind = "bridge" -> Join(State, ev, late)
                      [] OTHER -> State
           named1 == Reidentify(first, ev, late)
           told == TrackQueue(named1, ev)
           v == LineAfter(ev, waiting)
<1>1. first \in States(waiting, afterWork)
  <2>1. CASE ev.kind = "create"
    <3>1. Adopt(State, ev, late) \in States(waiting, afterWork)
      BY <2>1, AdoptType DEF IsSound
    <3> QED BY <2>1, <3>1
  <2>2. CASE ev.kind = "bridge"
    <3>1. Join(State, ev, late) \in States(waiting, afterWork) BY <2>2, JoinType DEF IsSound
    <3>2. first = Join(State, ev, late) BY <2>2
    <3> QED BY <3>1, <3>2
  <2>3. CASE ev.kind \notin {"create", "bridge"}
    <3>1. first = State BY <2>3
    <3> QED BY <3>1
  <2> QED BY <2>1, <2>2, <2>3
<1> HIDE DEF first
<1>2. named1 \in States(waiting, afterWork) BY <1>1, ReidentifyType
<1> HIDE DEF named1
<1>3. told \in States(v, afterWork) BY <1>2, TrackQueueType
<1> HIDE DEF v
<1>4. HandleResult(ev, late) = IF AgentLegEnded(told, ev, late)
                               THEN LegIsOver(Dispatch(told, ev), told, ev) ELSE Dispatch(told, ev)
  BY DEF HandleResult, first, named1
<1> HIDE DEF told
<1>5. Dispatch(told, ev) \in States(v, afterWork) BY <1>3, DispatchType
<1>6. \E x : LegIsOver(Dispatch(told, ev), told, ev) \in States(v, x) BY <1>5, LegIsOverType
<1> QED BY <1>4, <1>5, <1>6 DEF v

-----------------------------------------------------------------------------
(***************************************************************************)
(* The stream and the line: what adding to its end and taking its head do. *)
(***************************************************************************)
LastJoins(e, c) ==
    \E i \in 1..Len(e) : IsJoin(e[i], c) /\ \A j \in (i + 1)..Len(e) : ~IsLeave(e[j], c)

LastLeaves(e, c) ==
    \E i \in 1..Len(e) : IsLeave(e[i], c) /\ \A j \in (i + 1)..Len(e) : ~IsJoin(e[j], c)

LEMMA Concat ==
    ASSUME NEW f \in Seq(Events), NEW e \in Seq(Events)
    PROVE  /\ f \o e \in Seq(Events) /\ Len(f \o e) = Len(f) + Len(e)
           /\ \A i \in 1..Len(f) : (f \o e)[i] = f[i]
           /\ \A i \in 1..Len(e) : Len(f) + i \in 1..Len(f \o e) /\ (f \o e)[Len(f) + i] = e[i]
           /\ \A i \in 1..Len(f \o e) : i \in 1..Len(f) \/ i - Len(f) \in 1..Len(e)
           /\ \A i \in 1..Len(f \o e) :
                  i \notin 1..Len(f) => (f \o e)[i] = e[i - Len(f)]
OBVIOUS

LEMMA WaitingStays ==
    ASSUME NEW f \in Seq(Events), NEW e \in Seq(Events), NEW w, NEW c, SaysWaiting(f, w, c),
           \A i \in 1..Len(e) : ~IsLeave(e[i], c)
    PROVE  SaysWaiting(f \o e, w, c)
<1> DEFINE g == f \o e
<1>1. /\ Len(g) = Len(f) + Len(e) /\ Len(f) \in Nat /\ Len(e) \in Nat
      /\ \A i \in 1..Len(f) : g[i] = f[i]
      /\ \A i \in 1..Len(g) : i \notin 1..Len(f) => i - Len(f) \in 1..Len(e) /\ g[i] = e[i - Len(f)]
  BY Concat
<1> HIDE DEF g
<1>2. CASE c \in w /\ \A i \in 1..Len(f) : ~IsLeave(f[i], c)
  <2>1. ASSUME NEW i \in 1..Len(g) PROVE ~IsLeave(g[i], c) BY <1>1, <1>2
  <2> QED BY <2>1, <1>2 DEF SaysWaiting, g
<1>3. ASSUME NEW i \in 1..Len(f), IsJoin(f[i], c),
             \A j \in (i + 1)..Len(f) : ~IsLeave(f[j], c)
      PROVE  SaysWaiting(g, w, c)
  <2>1. i \in 1..Len(g) /\ IsJoin(g[i], c) BY <1>1, <1>3
  <2>2. ASSUME NEW j \in (i + 1)..Len(g) PROVE ~IsLeave(g[j], c)
    <3>1. j \in 1..Len(g) BY <1>1
    <3>2. CASE j \in 1..Len(f) BY <1>1, <1>3, <3>2
    <3>3. CASE j \notin 1..Len(f) BY <1>1, <3>1, <3>3
    <3> QED BY <3>2, <3>3
  <2> QED BY <2>1, <2>2 DEF SaysWaiting
<1> QED BY <1>2, <1>3 DEF SaysWaiting, g

LEMMA AwayStays ==
    ASSUME NEW f \in Seq(Events), NEW e \in Seq(Events), NEW w, NEW c, SaysAway(f, w, c),
           \A i \in 1..Len(e) : ~IsJoin(e[i], c)
    PROVE  SaysAway(f \o e, w, c)
<1> DEFINE g == f \o e
<1>1. /\ Len(g) = Len(f) + Len(e) /\ Len(f) \in Nat /\ Len(e) \in Nat
      /\ \A i \in 1..Len(f) : g[i] = f[i]
      /\ \A i \in 1..Len(g) : i \notin 1..Len(f) => i - Len(f) \in 1..Len(e) /\ g[i] = e[i - Len(f)]
  BY Concat
<1> HIDE DEF g
<1>2. CASE c \notin w /\ \A i \in 1..Len(f) : ~IsJoin(f[i], c)
  <2>1. ASSUME NEW i \in 1..Len(g) PROVE ~IsJoin(g[i], c) BY <1>1, <1>2
  <2> QED BY <2>1, <1>2 DEF SaysAway, g
<1>3. ASSUME NEW i \in 1..Len(f), IsLeave(f[i], c),
             \A j \in (i + 1)..Len(f) : ~IsJoin(f[j], c)
      PROVE  SaysAway(g, w, c)
  <2>1. i \in 1..Len(g) /\ IsLeave(g[i], c) BY <1>1, <1>3
  <2>2. ASSUME NEW j \in (i + 1)..Len(g) PROVE ~IsJoin(g[j], c)
    <3>1. j \in 1..Len(g) BY <1>1
    <3>2. CASE j \in 1..Len(f) BY <1>1, <1>3, <3>2
    <3>3. CASE j \notin 1..Len(f) BY <1>1, <3>1, <3>3
    <3> QED BY <3>2, <3>3
  <2> QED BY <2>1, <2>2 DEF SaysAway
<1> QED BY <1>2, <1>3 DEF SaysAway, g

LEMMA LastDecides ==
    ASSUME NEW f \in Seq(Events), NEW e \in Seq(Events), NEW w, NEW c
    PROVE  /\ LastJoins(e, c) => SaysWaiting(f \o e, w, c)
           /\ LastLeaves(e, c) => SaysAway(f \o e, w, c)
<1> DEFINE g == f \o e
<1>1. /\ Len(g) = Len(f) + Len(e) /\ Len(f) \in Nat /\ Len(e) \in Nat
      /\ \A i \in 1..Len(e) : Len(f) + i \in 1..Len(g) /\ g[Len(f) + i] = e[i]
      /\ \A i \in 1..Len(g) : i \notin 1..Len(f) => i - Len(f) \in 1..Len(e) /\ g[i] = e[i - Len(f)]
  BY Concat
<1> HIDE DEF g
<1>2. ASSUME NEW i \in 1..Len(e), NEW j \in (Len(f) + i + 1)..Len(g)
      PROVE  j - Len(f) \in (i + 1)..Len(e) /\ g[j] = e[j - Len(f)]
  <2>1. j \in 1..Len(g) /\ j \notin 1..Len(f) BY <1>1
  <2> QED BY <1>1, <2>1
<1>3. ASSUME NEW i \in 1..Len(e), IsJoin(e[i], c), \A j \in (i + 1)..Len(e) : ~IsLeave(e[j], c)
      PROVE  SaysWaiting(g, w, c)
  <2>1. Len(f) + i \in 1..Len(g) /\ IsJoin(g[Len(f) + i], c) BY <1>1, <1>3
  <2>2. \A j \in (Len(f) + i + 1)..Len(g) : ~IsLeave(g[j], c) BY <1>2, <1>3
  <2> QED BY <2>1, <2>2 DEF SaysWaiting
<1>4. ASSUME NEW i \in 1..Len(e), IsLeave(e[i], c), \A j \in (i + 1)..Len(e) : ~IsJoin(e[j], c)
      PROVE  SaysAway(g, w, c)
  <2>1. Len(f) + i \in 1..Len(g) /\ IsLeave(g[Len(f) + i], c) BY <1>1, <1>4
  <2>2. \A j \in (Len(f) + i + 1)..Len(g) : ~IsJoin(g[j], c) BY <1>2, <1>4
  <2> QED BY <2>1, <2>2 DEF SaysAway
<1> QED BY <1>3, <1>4 DEF LastJoins, LastLeaves, g

\* Handling the head of the stream keeps what the stream says.
LEMMA HeadHandled ==
    ASSUME NEW f \in Seq(Events), f # <<>>, NEW w, NEW c
    PROVE  /\ SaysWaiting(f, w, c) => SaysWaiting(Tail(f), LineAfter(Head(f), w), c)
           /\ SaysAway(f, w, c) => SaysAway(Tail(f), LineAfter(Head(f), w), c)
<1> DEFINE g == Tail(f)
           x == LineAfter(f[1], w)
<1>1. /\ Head(f) = f[1] /\ Len(f) \in Nat \ {0} /\ Len(g) = Len(f) - 1
      /\ \A i \in 1..Len(g) : g[i] = f[i + 1] /\ i + 1 \in 1..Len(f)
      /\ \A i \in 1..Len(f) : i # 1 => i - 1 \in 1..Len(g) /\ g[i - 1] = f[i]
  OBVIOUS
<1> HIDE DEF g
<1>2. /\ IsJoin(f[1], c) => c \in x
      /\ IsLeave(f[1], c) => c \notin x
      /\ ~IsLeave(f[1], c) /\ c \in w => c \in x
      /\ ~IsJoin(f[1], c) /\ c \notin w => c \notin x
  BY DEF LineAfter, IsJoin, IsLeave
<1> HIDE DEF x
<1>3. ASSUME SaysWaiting(f, w, c) PROVE SaysWaiting(g, x, c)
  <2>1. CASE c \in w /\ \A i \in 1..Len(f) : ~IsLeave(f[i], c)
    <3>1. c \in x BY <1>1, <1>2, <2>1
    <3>2. \A i \in 1..Len(g) : ~IsLeave(g[i], c) BY <1>1, <2>1
    <3> QED BY <3>1, <3>2 DEF SaysWaiting
  <2>2. ASSUME NEW i \in 1..Len(f), IsJoin(f[i], c),
               \A j \in (i + 1)..Len(f) : ~IsLeave(f[j], c)
        PROVE  SaysWaiting(g, x, c)
    <3>1. ASSUME NEW j \in 1..Len(g), j >= i PROVE ~IsLeave(g[j], c)
      <4>1. j + 1 \in (i + 1)..Len(f) BY <1>1, <3>1
      <4> QED BY <1>1, <2>2, <4>1
    <3>2. CASE i = 1
      <4>1. c \in x BY <1>2, <2>2, <3>2
      <4> QED BY <4>1, <3>1, <3>2 DEF SaysWaiting
    <3>3. CASE i # 1
      <4>1. i - 1 \in 1..Len(g) /\ IsJoin(g[i - 1], c) BY <1>1, <2>2, <3>3
      <4>2. \A j \in ((i - 1) + 1)..Len(g) : ~IsLeave(g[j], c) BY <3>1, <3>3, <1>1
      <4> QED BY <4>1, <4>2 DEF SaysWaiting
    <3> QED BY <3>2, <3>3
  <2> QED BY <1>3, <2>1, <2>2 DEF SaysWaiting
<1>4. ASSUME SaysAway(f, w, c) PROVE SaysAway(g, x, c)
  <2>1. CASE c \notin w /\ \A i \in 1..Len(f) : ~IsJoin(f[i], c)
    <3>1. c \notin x BY <1>1, <1>2, <2>1
    <3>2. \A i \in 1..Len(g) : ~IsJoin(g[i], c) BY <1>1, <2>1
    <3> QED BY <3>1, <3>2 DEF SaysAway
  <2>2. ASSUME NEW i \in 1..Len(f), IsLeave(f[i], c),
               \A j \in (i + 1)..Len(f) : ~IsJoin(f[j], c)
        PROVE  SaysAway(g, x, c)
    <3>1. ASSUME NEW j \in 1..Len(g), j >= i PROVE ~IsJoin(g[j], c)
      <4>1. j + 1 \in (i + 1)..Len(f) BY <1>1, <3>1
      <4> QED BY <1>1, <2>2, <4>1
    <3>2. CASE i = 1
      <4>1. c \notin x BY <1>2, <2>2, <3>2
      <4> QED BY <4>1, <3>1, <3>2 DEF SaysAway
    <3>3. CASE i # 1
      <4>1. i - 1 \in 1..Len(g) /\ IsLeave(g[i - 1], c) BY <1>1, <2>2, <3>3
      <4>2. \A j \in ((i - 1) + 1)..Len(g) : ~IsJoin(g[j], c) BY <3>1, <3>3, <1>1
      <4> QED BY <4>1, <4>2 DEF SaysAway
    <3> QED BY <3>2, <3>3
  <2> QED BY <1>4, <2>1, <2>2 DEF SaysAway
<1> QED BY <1>1, <1>3, <1>4 DEF g, x

-----------------------------------------------------------------------------
(***************************************************************************)
(* What the switch does.                                                   *)
(***************************************************************************)
\* What a step of the switch leaves alone.
SwitchOnly == scenario' = scenario /\ spent' = spent /\ link' = link /\ UNCHANGED appVars

LEMMA EventType ==
    ASSUME TypedSwitch, NEW kind \in Kinds, NEW c \in Channels, NEW o \in Channels \cup {NoOne}
    PROVE  /\ Event(kind, c, o) \in Events
           /\ Event(kind, c, o).kind = kind /\ Event(kind, c, o).chan = c
           /\ Event(kind, c, o).other = o
<1>1. c \in named => Leg(c).id \in Ids \cup {NoOne} BY PlanType DEF TypedSwitch
<1> QED BY <1>1 DEF Event, Events

LEMMA ToldType ==
    ASSUME TypedSwitch, FeedInv, NEW e \in Seq(Events), Tell(e), scenario' = scenario,
           \A i \in 1..Len(e) : IsSound(e[i])
    PROVE  feed' \in Seq(Events) /\ FeedInv'
<1>1. feed \in Seq(Events) BY DEF TypedSwitch
<1>2. Legs' = Legs BY DEF Legs, Leg
<1>3. \A ev : IsSound(ev)' <=> IsSound(ev) BY <1>2 DEF IsSound
<1>4. CASE link = "up"
  <2> DEFINE g == feed \o e
  <2>1. feed' = g BY <1>4 DEF Tell
  <2>2. /\ g \in Seq(Events)
        /\ \A i \in 1..Len(feed) : g[i] = feed[i]
        /\ \A i \in 1..Len(g) : i \in 1..Len(feed) \/ i - Len(feed) \in 1..Len(e)
        /\ \A i \in 1..Len(g) : i \notin 1..Len(feed) => g[i] = e[i - Len(feed)]
    BY <1>1, Concat
  <2> HIDE DEF g
  <2>3. ASSUME NEW i \in 1..Len(g) PROVE IsSound(g[i])
    <3>1. CASE i \in 1..Len(feed) BY <2>2, <3>1 DEF FeedInv
    <3>2. CASE i \notin 1..Len(feed) BY <2>2, <3>2
    <3> QED BY <3>1, <3>2
  <2>4. \A i \in 1..Len(feed') : IsSound(feed'[i]) BY <2>1, <2>3
  <2>5. FeedInv' BY <2>4, <1>2 DEF FeedInv, IsSound
  <2> QED BY <2>1, <2>2, <2>5
<1>5. CASE link # "up"
  <2>1. feed' = feed BY <1>5 DEF Tell
  <2>2. FeedInv' BY <2>1, <1>2 DEF FeedInv, IsSound
  <2> QED BY <1>1, <2>1, <2>2
<1> QED BY <1>4, <1>5

\* The line a step tells of is the queue it leaves.
LEMMA ToldLine ==
    ASSUME TypedSwitch, LineInv, NEW e \in Seq(Events), Tell(e), SwitchOnly,
           \A c \in Channels :
               \/ c \in queued' /\ c \in queued /\ \A i \in 1..Len(e) : ~IsLeave(e[i], c)
               \/ c \in queued' /\ LastJoins(e, c)
               \/ c \notin queued' /\ c \notin queued /\ \A i \in 1..Len(e) : ~IsJoin(e[i], c)
               \/ c \notin queued' /\ LastLeaves(e, c)
    PROVE  LineInv'
<1>1. CASE ~IsLineRead BY <1>1 DEF LineInv, SwitchOnly, IsLineRead
<1>2. CASE IsLineRead
  <2>1. feed' = feed \o e /\ waiting' = waiting /\ feed \in Seq(Events)
    BY <1>2 DEF Tell, SwitchOnly, appVars, TypedSwitch, IsLineRead
  <2>2. ASSUME NEW c \in Channels
        PROVE  IF c \in queued' THEN SaysWaiting(feed \o e, waiting, c)
               ELSE SaysAway(feed \o e, waiting, c)
    <3>1. c \in queued => SaysWaiting(feed, waiting, c) BY <1>2 DEF LineInv
    <3>2. c \notin queued => SaysAway(feed, waiting, c) BY <1>2 DEF LineInv
    <3>3. CASE c \in queued' /\ c \in queued /\ \A i \in 1..Len(e) : ~IsLeave(e[i], c)
      BY <2>1, <3>1, <3>3, WaitingStays
    <3>4. CASE c \in queued' /\ LastJoins(e, c) BY <2>1, <3>4, LastDecides
    <3>5. CASE c \notin queued' /\ c \notin queued /\ \A i \in 1..Len(e) : ~IsJoin(e[i], c)
      BY <2>1, <3>2, <3>5, AwayStays
    <3>6. CASE c \notin queued' /\ LastLeaves(e, c) BY <2>1, <3>6, LastDecides
    <3> QED BY <3>3, <3>4, <3>5, <3>6
  <2>3. \A c \in Channels : IF c \in queued' THEN SaysWaiting(feed', waiting', c)
                            ELSE SaysAway(feed', waiting', c)
    BY <2>1, <2>2
  <2> QED BY <2>3 DEF LineInv, SaysWaiting, SaysAway, IsJoin, IsLeave
<1> QED BY <1>1, <1>2

\* One event that is none of the queue's.
LEMMA ToldOne ==
    ASSUME TypedSwitch, FeedInv, LineInv, NEW ev \in Events, IsSound(ev),
           ev.kind \notin {"join", "left", "hangup"}, Tell(<<ev>>), SwitchOnly, queued' = queued
    PROVE  feed' \in Seq(Events) /\ FeedInv' /\ LineInv'
<1> DEFINE e == <<ev>>
<1>1. e \in Seq(Events) /\ Len(e) = 1 /\ e[1] = ev OBVIOUS
<1> HIDE DEF e
<1>2. Tell(e) BY DEF e
<1>3. \A i \in 1..Len(e) : e[i] = ev BY <1>1
<1>4. \A c : ~IsJoin(ev, c) /\ ~IsLeave(ev, c) BY DEF IsJoin, IsLeave
<1>5. feed' \in Seq(Events) /\ FeedInv' BY <1>1, <1>2, <1>3, ToldType DEF SwitchOnly
<1>6. LineInv' BY <1>1, <1>2, <1>3, <1>4, ToldLine
<1> QED BY <1>5, <1>6

LEMMA CallsKept == ASSUME TypedCalls, UNCHANGED appVars PROVE TypedCalls'
BY DEF TypedCalls, appVars

LEMMA CreateStep ==
    ASSUME Inv, NEW c \in Legs, ChannelCreate(c) PROVE Inv'
<1> DEFINE ev == [Event("create", c, NoOne) EXCEPT
                      !.id = IF Leg(c).stamped THEN Leg(c).id ELSE NoOne]
<1>1. TypedSwitch /\ FeedInv /\ LineInv /\ TypedCalls /\ c \in Channels BY DEF Inv, Legs
<1>2. SwitchOnly /\ queued' = queued /\ Tell(<<ev>>) BY DEF ChannelCreate, SwitchOnly
<1>3. ev \in Events /\ IsSound(ev) /\ ev.kind = "create"
  <2>1. Event("create", c, NoOne) \in Events /\ Event("create", c, NoOne).kind = "create"
        /\ Event("create", c, NoOne).chan = c
    BY <1>1, EventType DEF Kinds
  <2>2. Leg(c).id \in Ids \cup {NoOne} BY <1>1, PlanType DEF TypedSwitch
  <2> QED BY <2>1, <2>2 DEF Events, IsSound
<1> HIDE DEF ev
<1>4. feed' \in Seq(Events) /\ FeedInv' /\ LineInv' BY <1>1, <1>2, <1>3, ToldOne
<1>5. TypedSwitch'
  <2>1. Legs' = Legs BY <1>2 DEF SwitchOnly, Legs, Leg
  <2>2. chan' \in [Channels -> {"none", "ringing", "answered", "gone"}]
        /\ chan' = [chan EXCEPT ![c] = "ringing"] /\ chan[c] = "none"
    BY <1>1 DEF TypedSwitch, ChannelCreate
  <2>3. queued' \subseteq Up' BY <1>1, <1>2, <2>1, <2>2 DEF Up, TypedSwitch, Legs
  <2>4. named' \subseteq Legs' BY <1>1, <2>1 DEF TypedSwitch, ChannelCreate
  <2>5. pending' = pending /\ move' = move /\ peer' = peer /\ link' = link /\ scenario' = scenario
    BY DEF ChannelCreate, appVars
  <2> QED BY <1>1, <1>4, <2>2, <2>3, <2>4, <2>5 DEF TypedSwitch
<1>6. TypedCalls' BY <1>1, <1>2, CallsKept DEF SwitchOnly
<1> QED BY <1>4, <1>5, <1>6 DEF Inv

LEMMA NamesStep ==
    ASSUME Inv, NEW c \in Legs, DialplanNames(c) PROVE Inv'
<1>1. /\ TypedSwitch /\ FeedInv /\ LineInv /\ TypedCalls
      /\ Legs' = Legs /\ Up' = Up /\ UNCHANGED appVars
      /\ named' = named \cup {c}
      /\ UNCHANGED <<scenario, spent, link, chan, peer, queued, feed, pending>>
  BY DEF Inv, DialplanNames, Legs, Leg, Up
<1>2. TypedCalls' BY <1>1, CallsKept
<1>3. TypedSwitch' BY <1>1 DEF TypedSwitch, appVars
<1>4. FeedInv' BY <1>1 DEF FeedInv, IsSound
<1>5. LineInv' BY <1>1 DEF LineInv, IsLineRead, SaysWaiting, SaysAway, IsJoin, IsLeave, appVars
<1> QED BY <1>2, <1>3, <1>4, <1>5 DEF Inv

LEMMA AnswerStep ==
    ASSUME Inv, NEW c \in Legs, ChannelAnswer(c) PROVE Inv'
<1> DEFINE ev == Event("answer", c, NoOne)
<1>1. TypedSwitch /\ FeedInv /\ LineInv /\ TypedCalls /\ c \in Channels BY DEF Inv, Legs
<1>2. SwitchOnly /\ queued' = queued /\ Tell(<<ev>>) BY DEF ChannelAnswer, SwitchOnly
<1>3. ev \in Events /\ IsSound(ev) /\ ev.kind = "answer"
  BY <1>1, EventType DEF Kinds, IsSound
<1> HIDE DEF ev
<1>4. feed' \in Seq(Events) /\ FeedInv' /\ LineInv' BY <1>1, <1>2, <1>3, ToldOne
<1>5. TypedSwitch'
  <2>1. Legs' = Legs BY <1>2 DEF SwitchOnly, Legs, Leg
  <2>2. chan' \in [Channels -> {"none", "ringing", "answered", "gone"}]
        /\ chan' = [chan EXCEPT ![c] = "answered"]
    BY <1>1 DEF TypedSwitch, ChannelAnswer
  <2>3. queued' \subseteq Up' BY <1>1, <1>2, <2>1, <2>2 DEF Up, TypedSwitch, Legs
  <2>4. named' \subseteq Legs' BY <1>1, <2>1 DEF TypedSwitch, ChannelAnswer
  <2>5. pending' = pending /\ move' = move /\ peer' = peer /\ link' = link /\ scenario' = scenario
    BY DEF ChannelAnswer, appVars
  <2> QED BY <1>1, <1>4, <2>2, <2>3, <2>4, <2>5 DEF TypedSwitch
<1>6. TypedCalls' BY <1>1, <1>2, CallsKept DEF SwitchOnly
<1> QED BY <1>4, <1>5, <1>6 DEF Inv

LEMMA QueueJoinStep ==
    ASSUME Inv, NEW c \in Legs, QueueJoin(c) PROVE Inv'
<1> DEFINE ev == Event("join", c, NoOne)
           e == <<ev>>
<1>1. TypedSwitch /\ FeedInv /\ LineInv /\ TypedCalls /\ c \in Channels BY DEF Inv, Legs
<1>2. SwitchOnly /\ Tell(e) /\ queued' = queued \cup {c} BY DEF QueueJoin, SwitchOnly
<1>3. ev \in Events /\ IsSound(ev) /\ ev.kind = "join" /\ ev.chan = c
  BY <1>1, EventType DEF Kinds, IsSound
<1> HIDE DEF ev
<1>4. e \in Seq(Events) /\ Len(e) = 1 /\ e[1] = ev BY <1>3
<1> HIDE DEF e
<1>5. feed' \in Seq(Events) /\ FeedInv' BY <1>1, <1>2, <1>3, <1>4, ToldType DEF SwitchOnly
<1>6. LastJoins(e, c) BY <1>3, <1>4 DEF LastJoins, IsJoin
<1>7. ASSUME NEW d \in Channels, d # c
      PROVE  \A i \in 1..Len(e) : ~IsJoin(e[i], d) /\ ~IsLeave(e[i], d)
  BY <1>3, <1>4, <1>7 DEF IsJoin, IsLeave
<1>8. LineInv' BY <1>1, <1>2, <1>4, <1>6, <1>7, ToldLine
<1>9. TypedSwitch'
  <2>1. Legs' = Legs /\ chan' = chan /\ chan[c] = "answered"
    BY <1>2 DEF SwitchOnly, Legs, Leg, QueueJoin
  <2>2. queued' \subseteq Up' BY <1>1, <1>2, <2>1 DEF Up, TypedSwitch
  <2>3. named' = named /\ pending' = pending /\ move' = move /\ peer' = peer /\ link' = link
        /\ scenario' = scenario
    BY DEF QueueJoin, appVars
  <2> QED BY <1>1, <1>5, <2>1, <2>2, <2>3 DEF TypedSwitch
<1>10. TypedCalls' BY <1>1, <1>2, CallsKept DEF SwitchOnly
<1> QED BY <1>5, <1>8, <1>9, <1>10 DEF Inv

LEMMA BridgeStep ==
    ASSUME Inv, NEW c \in Legs, NEW d \in Legs, Bridge(c, d) PROVE Inv'
<1> DEFINE b == Event("bridge", c, d)
           l == Event("left", c, NoOne)
           e == <<b>> \o (IF c \in queued THEN <<l>> ELSE <<>>)
<1>1. TypedSwitch /\ FeedInv /\ LineInv /\ TypedCalls /\ c \in Channels /\ d \in Channels
  BY DEF Inv, Legs
<1>2. SwitchOnly /\ Tell(e) /\ queued' = queued \ {c} BY DEF Bridge, SwitchOnly
<1>3. /\ b \in Events /\ IsSound(b) /\ b.kind = "bridge"
      /\ l \in Events /\ IsSound(l) /\ l.kind = "left" /\ l.chan = c
  BY <1>1, EventType DEF Kinds, IsSound
<1> HIDE DEF b, l
<1>4. /\ e \in Seq(Events)
      /\ c \in queued => Len(e) = 2 /\ e[1] = b /\ e[2] = l
      /\ c \notin queued => Len(e) = 1 /\ e[1] = b
  BY <1>3
<1> HIDE DEF e
<1>5. \A i \in 1..Len(e) : e[i] = b \/ (e[i] = l /\ c \in queued) BY <1>4
<1>6. feed' \in Seq(Events) /\ FeedInv' BY <1>1, <1>2, <1>3, <1>4, <1>5, ToldType DEF SwitchOnly
<1>7. c \in queued => LastLeaves(e, c)
  <2>1. SUFFICES ASSUME c \in queued PROVE LastLeaves(e, c) OBVIOUS
  <2>2. Len(e) = 2 /\ e[2] = l BY <2>1, <1>4
  <2>3. 2 \in 1..Len(e) /\ \A j \in (2 + 1)..Len(e) : FALSE BY <2>2
  <2>4. IsLeave(e[2], c) BY <2>2, <1>3 DEF IsLeave
  <2> QED BY <2>3, <2>4 DEF LastLeaves
<1>8. \A x \in Channels, i \in 1..Len(e) : ~IsJoin(e[i], x) /\ (x # c => ~IsLeave(e[i], x))
  BY <1>3, <1>5 DEF IsJoin, IsLeave
<1>9. LineInv' BY <1>1, <1>2, <1>4, <1>7, <1>8, ToldLine
<1>10. TypedSwitch'
  <2>1. Legs' = Legs /\ Up' = Up BY <1>2 DEF SwitchOnly, Legs, Leg, Bridge, Up
  <2>2. /\ named' = named /\ pending' = pending /\ move' = move /\ link' = link
        /\ chan' = chan /\ scenario' = scenario
        /\ peer' = [peer EXCEPT ![c] = d, ![d] = c]
    BY DEF Bridge, appVars
  <2>3. peer' \in [Channels -> Channels \cup {NoOne}] BY <1>1, <2>2 DEF TypedSwitch
  <2> QED BY <1>1, <1>2, <1>6, <2>1, <2>2, <2>3 DEF TypedSwitch
<1>11. TypedCalls' BY <1>1, <1>2, CallsKept DEF SwitchOnly
<1> QED BY <1>6, <1>9, <1>10, <1>11 DEF Inv

LEMMA UnbridgedType ==
    ASSUME TypedSwitch, NEW c \in Channels
    PROVE  /\ Unbridged(c) \in Seq(Events)
           /\ Apart(c) \in [Channels -> Channels \cup {NoOne}]
           /\ \/ Unbridged(c) = <<>>
              \/ /\ Unbridged(c) = <<Event("unbridge", c, peer[c])>>
                 /\ Event("unbridge", c, peer[c]) \in Events
                 /\ Event("unbridge", c, peer[c]).kind = "unbridge"
<1>1. peer[c] \in Channels \cup {NoOne} BY DEF TypedSwitch
<1>2. /\ Event("unbridge", c, peer[c]) \in Events
      /\ Event("unbridge", c, peer[c]).kind = "unbridge"
  BY <1>1, EventType DEF Kinds
<1>3. Apart(c) \in [Channels -> Channels \cup {NoOne}] BY DEF Apart, TypedSwitch
<1>4. CASE peer[c] = NoOne
  <2>1. Unbridged(c) = <<>> BY <1>4 DEF Unbridged
  <2> QED BY <2>1, <1>3
<1>5. CASE peer[c] # NoOne
  <2>1. Unbridged(c) = <<Event("unbridge", c, peer[c])>> BY <1>5 DEF Unbridged
  <2>2. Unbridged(c) \in Seq(Events) BY <1>2, <2>1
  <2> QED BY <2>1, <2>2, <1>2, <1>3
<1> QED BY <1>4, <1>5

LEMMA HangupStep ==
    ASSUME Inv, NEW c \in Legs, Hangup(c) PROVE Inv'
<1> DEFINE h == Event("hangup", c, NoOne)
           u == Event("unbridge", c, peer[c])
           e == Unbridged(c) \o <<h>>
<1>1. TypedSwitch /\ FeedInv /\ LineInv /\ TypedCalls /\ c \in Channels BY DEF Inv, Legs
<1>2. SwitchOnly /\ Tell(e) /\ queued' = queued \ {c} /\ peer' = Apart(c)
  BY DEF Hangup, SwitchOnly
<1>3. h \in Events /\ IsSound(h) /\ h.kind = "hangup" /\ h.chan = c
  BY <1>1, EventType DEF Kinds, IsSound
<1>4. /\ Unbridged(c) \in Seq(Events)
      /\ Apart(c) \in [Channels -> Channels \cup {NoOne}]
      /\ Unbridged(c) = <<>> \/ (Unbridged(c) = <<u>> /\ u \in Events /\ u.kind = "unbridge")
  BY <1>1, UnbridgedType
<1> HIDE DEF h, u
<1>5. /\ e \in Seq(Events) /\ Len(e) \in {1, 2} /\ e[Len(e)] = h
      /\ Len(e) = 2 => e[1] = u /\ u.kind = "unbridge"
  <2>1. CASE Unbridged(c) = <<>>
    <3>1. e = <<h>> BY <1>3, <2>1
    <3> HIDE DEF e
    <3>2. Len(e) = 1 /\ e[1] = h BY <3>1
    <3>3. e \in Seq(Events) BY <1>3, <3>1
    <3> QED BY <3>2, <3>3
  <2>2. CASE Unbridged(c) = <<u>> /\ u \in Events /\ u.kind = "unbridge"
    <3>1. e = <<u>> \o <<h>> BY <2>2
    <3>2. Len(e) = 2 /\ e[1] = u /\ e[2] = h BY <1>3, <2>2, <3>1
    <3>3. e \in Seq(Events) BY <1>3, <1>4, Concat
    <3> QED BY <2>2, <3>2, <3>3
  <2> QED BY <1>4, <2>1, <2>2
<1> HIDE DEF e
<1>6. \A i \in 1..Len(e) : e[i] = h \/ (e[i] = u /\ u.kind = "unbridge") BY <1>5
<1>7. feed' \in Seq(Events) /\ FeedInv'
  <2>1. \A i \in 1..Len(e) : IsSound(e[i]) BY <1>3, <1>6 DEF IsSound
  <2> QED BY <2>1, <1>1, <1>2, <1>5, ToldType DEF SwitchOnly
<1>8. LastLeaves(e, c)
  <2>1. Len(e) \in 1..Len(e) /\ \A j \in (Len(e) + 1)..Len(e) : FALSE BY <1>5
  <2>2. IsLeave(e[Len(e)], c) BY <1>3, <1>5 DEF IsLeave
  <2> QED BY <2>1, <2>2 DEF LastLeaves
<1>9. \A x \in Channels, i \in 1..Len(e) : ~IsJoin(e[i], x) /\ (x # c => ~IsLeave(e[i], x))
  BY <1>3, <1>6 DEF IsJoin, IsLeave
<1>10. LineInv' BY <1>1, <1>2, <1>5, <1>8, <1>9, ToldLine
<1>11. TypedSwitch'
  <2>1. Legs' = Legs BY <1>2 DEF SwitchOnly, Legs, Leg
  <2>2. /\ named' = named /\ pending' = pending /\ move' = move /\ link' = link
        /\ chan' = [chan EXCEPT ![c] = "gone"] /\ scenario' = scenario
    BY DEF Hangup, appVars
  <2>3. chan' \in [Channels -> {"none", "ringing", "answered", "gone"}]
    BY <1>1, <2>2 DEF TypedSwitch
  <2>4. queued' \subseteq Up' BY <1>1, <1>2, <2>1, <2>2 DEF TypedSwitch, Up, Legs
  <2> QED BY <1>1, <1>2, <1>4, <1>7, <2>1, <2>2, <2>3, <2>4 DEF TypedSwitch
<1>12. TypedCalls' BY <1>1, <1>2, CallsKept DEF SwitchOnly
<1> QED BY <1>7, <1>10, <1>11, <1>12 DEF Inv

LEMMA RunTransferStep ==
    ASSUME Inv, NEW t \in Moves, RunTransfer(t) PROVE Inv'
<1> DEFINE c == move[t].chan
           u == Event("unbridge", c, peer[c])
           e == Unbridged(c)
<1>1. TypedSwitch /\ FeedInv /\ LineInv /\ TypedCalls BY DEF Inv
<1>2. /\ SwitchOnly /\ Tell(e) /\ queued' = queued /\ peer' = Apart(c)
      /\ pending' = pending \ {t} /\ t \in pending
  BY DEF RunTransfer, SwitchOnly
<1>3. c \in Channels BY <1>1, <1>2 DEF TypedSwitch
<1> HIDE DEF c
<1>4. /\ e \in Seq(Events)
      /\ Apart(c) \in [Channels -> Channels \cup {NoOne}]
      /\ e = <<>> \/ (e = <<u>> /\ u \in Events /\ u.kind = "unbridge")
  BY <1>1, <1>3, UnbridgedType
<1> HIDE DEF u, e
<1>5. \A i \in 1..Len(e) : e[i].kind = "unbridge" BY <1>4
<1>6. feed' \in Seq(Events) /\ FeedInv'
  <2>1. \A i \in 1..Len(e) : IsSound(e[i]) BY <1>5 DEF IsSound
  <2> QED BY <2>1, <1>1, <1>2, <1>4, ToldType DEF SwitchOnly
<1>7. \A x \in Channels, i \in 1..Len(e) : ~IsJoin(e[i], x) /\ ~IsLeave(e[i], x)
  BY <1>5 DEF IsJoin, IsLeave
<1>8. LineInv' BY <1>1, <1>2, <1>4, <1>7, ToldLine
<1>9. TypedSwitch'
  <2>1. Legs' = Legs /\ Up' = Up BY <1>2 DEF SwitchOnly, Legs, Leg, RunTransfer, Up
  <2>2. named' = named /\ move' = move /\ link' = link /\ chan' = chan /\ scenario' = scenario
    BY DEF RunTransfer, appVars
  <2> QED BY <1>1, <1>2, <1>4, <1>6, <2>1, <2>2 DEF TypedSwitch
<1>10. TypedCalls' BY <1>1, <1>2, CallsKept DEF SwitchOnly
<1> QED BY <1>6, <1>8, <1>9, <1>10 DEF Inv

-----------------------------------------------------------------------------
(***************************************************************************)
(* What the application does.                                              *)
(***************************************************************************)
LEMMA HandleStep ==
    ASSUME Inv, Handle PROVE Inv'
<1> DEFINE ev == Head(feed)
<1>1. TypedSwitch /\ FeedInv /\ LineInv /\ TypedCalls BY DEF Inv
<1>2. /\ feed \in Seq(Events) /\ feed # <<>> /\ feed' = Tail(feed)
      /\ UNCHANGED <<scenario, spent, link, chan, named, peer, queued, pending, move>>
  BY <1>1 DEF Handle, TypedSwitch
<1>3. ev \in Events /\ IsSound(ev)
  <2>1. ev = feed[1] /\ 1 \in 1..Len(feed) /\ feed[1] \in Events BY <1>2
  <2> QED BY <2>1, <1>1 DEF FeedInv
<1>4. PICK late \in BOOLEAN : LET s == HandleResult(ev, late) IN
          /\ call' = s.call /\ at' = s.at /\ waiting' = s.waiting
          /\ onCall' = s.onCall /\ afterWork' = s.afterWork
  BY DEF Handle
<1> DEFINE s == HandleResult(ev, late)
           v == LineAfter(ev, waiting)
<1>5. State \in States(waiting, afterWork) BY <1>1 DEF State, States, TypedCalls
<1>6. PICK x : s \in States(v, x) BY <1>1, <1>3, <1>5, HandleType DEF TypedSwitch
<1>7. call' = s.call /\ at' = s.at /\ waiting' = s.waiting /\ onCall' = s.onCall BY <1>4
<1> HIDE DEF s, ev
<1>8. /\ call' \in [CallIds -> CallRecords] /\ at' \in [Channels -> CallIds \cup {NoOne}]
      /\ waiting' = v /\ onCall' \in [Agents -> BOOLEAN]
  BY <1>6, <1>7 DEF States
<1>9. v \subseteq Channels BY <1>1, <1>3 DEF LineAfter, TypedCalls, Events
<1>10. TypedCalls' BY <1>1, <1>2, <1>8, <1>9 DEF TypedCalls
<1>11. Legs' = Legs /\ Up' = Up BY <1>2 DEF Legs, Leg, Up
<1>12. feed' \in Seq(Events) /\ FeedInv'
  <2> DEFINE g == Tail(feed)
  <2>1. g \in Seq(Events) /\ \A i \in 1..Len(g) : g[i] = feed[i + 1] /\ i + 1 \in 1..Len(feed)
    BY <1>2
  <2> HIDE DEF g
  <2>2. \A i \in 1..Len(g) : IsSound(g[i]) BY <2>1, <1>1 DEF FeedInv
  <2>3. feed' = g BY <1>2 DEF g
  <2>4. FeedInv' BY <2>2, <2>3, <1>11 DEF FeedInv, IsSound
  <2> QED BY <2>1, <2>3, <2>4
<1>13. TypedSwitch' BY <1>1, <1>2, <1>11, <1>12 DEF TypedSwitch
<1>14. LineInv'
  <2>1. SUFFICES ASSUME IsLineRead, NEW c \in Channels
                 PROVE  IF c \in queued THEN SaysWaiting(feed', v, c) ELSE SaysAway(feed', v, c)
    BY <1>2, <1>8 DEF LineInv, IsLineRead, SaysWaiting, SaysAway, IsJoin, IsLeave
  <2>2. IF c \in queued THEN SaysWaiting(feed, waiting, c) ELSE SaysAway(feed, waiting, c)
    BY <1>1, <2>1 DEF LineInv
  <2>3. /\ SaysWaiting(feed, waiting, c) => SaysWaiting(Tail(feed), v, c)
        /\ SaysAway(feed, waiting, c) => SaysAway(Tail(feed), v, c)
    BY <1>2, HeadHandled DEF ev
  <2> QED BY <1>2, <2>2, <2>3
<1> QED BY <1>10, <1>12, <1>13, <1>14 DEF Inv

\* A step that changes calls, their channels and transfers, and no more.
LEMMA CallsOnly ==
    ASSUME Inv, UNCHANGED <<scenario, link, chan, named, peer, queued, feed, waiting, onCall>>,
           spent'.missed = spent.missed, call' \in [CallIds -> CallRecords], at' \in [Channels -> CallIds \cup {NoOne}],
           move' \in [Moves -> MoveRecords],
           pending' \subseteq {t \in Moves : move'[t].chan \in Channels}
    PROVE  Inv'
<1>1. Legs' = Legs /\ Up' = Up BY DEF Legs, Leg, Up
<1>2. TypedSwitch' BY <1>1 DEF Inv, TypedSwitch
<1>3. TypedCalls' BY DEF Inv, TypedCalls
<1>4. FeedInv' BY <1>1 DEF Inv, FeedInv, IsSound
<1>5. LineInv'
  <2>1. IsLineRead' = IsLineRead BY DEF IsLineRead
  <2>2. LineInv BY DEF Inv
  <2> QED BY <2>1, <2>2 DEF LineInv, SaysWaiting, SaysAway, IsJoin, IsLeave
<1> QED BY <1>2, <1>3, <1>4, <1>5 DEF Inv

LEMMA ApplyStep ==
    ASSUME Inv, NEW k \in CallIds, ApplySwitchEvent(k) PROVE Inv'
<1> DEFINE a == call[k]
           ev == Head(a.mailbox)
           party == IF ev.chan \in DOMAIN a.party THEN Moved(a.party, ev) ELSE a.party
           over == Finishes(a, ev)
           r == [a EXCEPT !.mailbox = Tail(@), !.claims = Settled(@, ev), !.party = party,
                          !.ended = @ \/ over, !.stopped = @ \/ over]
<1>1. a \in CallRecords BY DEF Inv, TypedCalls
<1>2. call' = [call EXCEPT ![k] = r] BY DEF ApplySwitchEvent
<1>3. a.mailbox # <<>> BY DEF ApplySwitchEvent
<1>4. UNCHANGED <<scenario, spent, link, chan, named, peer, queued, feed, waiting, onCall, at, move,
                  pending>>
  BY DEF ApplySwitchEvent, switchVars
<1>5. party \in PartyMaps BY <1>1, MovedType DEF CallRecords
<1>6. Tail(a.mailbox) \in Seq(Events) BY <1>1, <1>3 DEF CallRecords
<1>7. Settled(a.claims, ev) \in SUBSET [chan : Channels, move : Moves]
  BY <1>1 DEF CallRecords, Settled
<1>8. over \in BOOLEAN BY DEF Finishes
<1> HIDE DEF over, party, ev, a
<1>9. r \in CallRecords BY <1>1, <1>5, <1>6, <1>7, <1>8 DEF CallRecords
<1>10. call' \in [CallIds -> CallRecords] BY <1>2, <1>9 DEF Inv, TypedCalls
<1> QED BY <1>4, <1>10, CallsOnly DEF Inv, TypedCalls, TypedSwitch

LEMMA UnregisterStep ==
    ASSUME Inv, NEW k \in CallIds, Unregister(k) PROVE Inv'
<1>1. UNCHANGED <<scenario, spent, link, chan, named, peer, queued, feed, waiting, onCall, move,
                  pending>>
  BY DEF Unregister, switchVars
<1>2. call' \in [CallIds -> CallRecords] /\ at' \in [Channels -> CallIds \cup {NoOne}]
  BY NoCallType DEF Unregister, Inv, TypedCalls
<1> QED BY <1>1, <1>2, CallsOnly DEF Inv, TypedCalls, TypedSwitch

LEMMA SendStep ==
    ASSUME Inv, NEW t \in Moves, NEW k \in CallIds, NEW a \in Agents, SendTransfer(t, k, a)
    PROVE  Inv'
<1>1. UNCHANGED <<scenario, spent, link, chan, named, peer, queued, feed, waiting, onCall, at>>
  BY DEF SendTransfer
<1>2. call[k] \in CallRecords /\ move \in [Moves -> MoveRecords] BY DEF Inv, TypedCalls
<1>3. PICK c \in SurvivingLeg(k, a) :
          /\ call' = [call EXCEPT ![k].claims = @ \cup {[chan |-> c, move |-> t]}]
          /\ move' = [move EXCEPT ![t] = [stage |-> "sent", chan |-> c, call |-> k]]
  BY DEF SendTransfer
<1>4. c \in Channels
  <2>1. c \in DOMAIN call[k].party BY DEF SurvivingLeg
  <2>2. call[k].party \in PartyMaps BY <1>2 DEF CallRecords
  <2> QED BY <2>1, <2>2, PartyMapIs
<1>5. call' \in [CallIds -> CallRecords]
  <2> DEFINE claims == call[k].claims \cup {[chan |-> c, move |-> t]}
  <2>1. claims \in SUBSET [chan : Channels, move : Moves] BY <1>2, <1>4 DEF CallRecords
  <2>2. call' = [call EXCEPT ![k] = [call[k] EXCEPT !.claims = claims]] BY <1>3
  <2> HIDE DEF claims
  <2>3. [call[k] EXCEPT !.claims = claims] \in CallRecords BY <1>2, <2>1 DEF CallRecords
  <2> QED BY <2>2, <2>3 DEF Inv, TypedCalls
<1>6. move' \in [Moves -> MoveRecords] BY <1>2, <1>3, <1>4 DEF MoveRecords
<1>7. pending' \subseteq {u \in Moves : move'[u].chan \in Channels}
  <2>1. pending' = pending \cup {t} BY DEF SendTransfer
  <2>2. move'[t].chan \in Channels BY <1>2, <1>3, <1>4
  <2>3. ASSUME NEW u \in pending PROVE u \in Moves /\ move'[u].chan \in Channels
    <3>1. u \in Moves /\ move[u].chan \in Channels BY DEF Inv, TypedSwitch
    <3>2. CASE u = t BY <2>2, <3>2
    <3>3. CASE u # t
      <4>1. move'[u] = move[u] BY <1>2, <1>3, <3>1, <3>3
      <4> QED BY <3>1, <4>1
    <3> QED BY <3>1, <3>2, <3>3
  <2> QED BY <2>1, <2>2, <2>3
<1> QED BY <1>1, <1>5, <1>6, <1>7, CallsOnly DEF Inv, TypedCalls

\* Claims are only given up.
LEMMA FewerClaims ==
    ASSUME Inv, NEW k \in CallIds, NEW t
    PROVE  [call EXCEPT ![k].claims = {x \in @ : x.move # t}] \in [CallIds -> CallRecords]
<1> DEFINE claims == {x \in call[k].claims : x.move # t}
<1>1. call \in [CallIds -> CallRecords] /\ call[k] \in CallRecords BY DEF Inv, TypedCalls
<1>2. claims \in SUBSET [chan : Channels, move : Moves] BY <1>1 DEF CallRecords
<1> HIDE DEF claims
<1>3. [call[k] EXCEPT !.claims = claims] \in CallRecords BY <1>1, <1>2 DEF CallRecords
<1>4. [call EXCEPT ![k] = [call[k] EXCEPT !.claims = claims]] \in [CallIds -> CallRecords]
  BY <1>1, <1>3
<1> QED BY <1>4 DEF claims

LEMMA ReturnsStep ==
    ASSUME Inv, NEW t \in Moves, NEW replied \in BOOLEAN, TransferReturns(t, replied) PROVE Inv'
<1> DEFINE k == move[t].call
<1>1. UNCHANGED <<scenario, spent, link, chan, named, peer, queued, feed, waiting, onCall, at,
                  pending>>
  BY DEF TransferReturns, switchVars
<1>2. move \in [Moves -> MoveRecords] /\ call \in [CallIds -> CallRecords] BY DEF Inv, TypedCalls
<1>3. move' = [move EXCEPT ![t].stage = IF replied THEN "done" ELSE "unconfirmed"]
  BY DEF TransferReturns
<1>4. move' \in [Moves -> MoveRecords] BY <1>2, <1>3 DEF MoveRecords
<1>5. pending' \subseteq {u \in Moves : move'[u].chan \in Channels}
  <2>1. \A u \in Moves : move'[u].chan = move[u].chan BY <1>2, <1>3 DEF MoveRecords
  <2> QED BY <1>1, <2>1 DEF Inv, TypedSwitch
<1>6. call' \in [CallIds -> CallRecords]
  <2>1. CASE call' = call BY <1>2, <2>1
  <2>2. CASE call' # call
    <3>1. call' = [call EXCEPT ![k].claims = {x \in @ : x.move # t}]
      BY <2>2 DEF TransferReturns
    <3>2. CASE k \in CallIds BY <3>1, <3>2, FewerClaims
    <3>3. CASE k \notin CallIds
      <4>1. call' = call BY <1>2, <3>1, <3>3
      <4> QED BY <4>1, <2>2
    <3> QED BY <3>2, <3>3
  <2> QED BY <2>1, <2>2
<1> QED BY <1>1, <1>4, <1>5, <1>6, CallsOnly DEF Inv, TypedCalls

LEMMA LapsesStep ==
    ASSUME Inv, NEW t \in Moves, ClaimLapses(t) PROVE Inv'
<1>1. UNCHANGED <<scenario, spent, link, chan, named, peer, queued, feed, waiting, onCall, at, move,
                  pending>>
  BY DEF ClaimLapses, switchVars
<1>2. PICK k \in CallIds : call' = [call EXCEPT ![k].claims = {x \in @ : x.move # t}]
  BY DEF ClaimLapses
<1>3. call' \in [CallIds -> CallRecords] BY <1>2, FewerClaims
<1> QED BY <1>1, <1>3, CallsOnly DEF Inv, TypedCalls, TypedSwitch

LEMMA WriteRowStep ==
    ASSUME Inv, NEW r, WriteRow(r) PROVE Inv'
<1>1. UNCHANGED <<scenario, spent, link, chan, named, peer, queued, feed, waiting, onCall, at, move,
                  pending, call>>
  BY DEF WriteRow, switchVars
<1> QED BY <1>1, CallsOnly DEF Inv, TypedCalls, TypedSwitch

LEMMA LoseRowStep ==
    ASSUME Inv, SpentInv, NEW r, LoseRow(r) PROVE Inv'
<1>1. UNCHANGED <<scenario, link, chan, named, peer, queued, feed, waiting, onCall, at, move,
                  pending, call>>
  BY DEF LoseRow, switchVars
<1>2. spent'.missed = spent.missed BY DEF LoseRow, SpentInv
<1> QED BY <1>1, <1>2, CallsOnly DEF Inv, TypedCalls, TypedSwitch

-----------------------------------------------------------------------------
(***************************************************************************)
(* The link and the process.                                               *)
(***************************************************************************)
LEMMA DropStep ==
    ASSUME Inv, LinkDrops PROVE Inv'
<1>1. /\ TypedSwitch /\ FeedInv /\ TypedCalls
      /\ Legs' = Legs /\ Up' = Up /\ UNCHANGED appVars
      /\ link' = "down" /\ pending' \subseteq pending
      /\ UNCHANGED <<scenario, chan, named, peer, queued, feed>>
  BY DEF Inv, LinkDrops, Legs, Leg, Up
<1>2. TypedCalls' BY <1>1, CallsKept
<1>3. TypedSwitch' BY <1>1 DEF TypedSwitch, appVars
<1>4. FeedInv' BY <1>1 DEF FeedInv, IsSound
<1>5. LineInv' BY <1>1 DEF LineInv, IsLineRead
<1> QED BY <1>2, <1>3, <1>4, <1>5 DEF Inv

LEMMA CrashStep ==
    ASSUME Inv, Crash PROVE Inv'
<1>1. /\ TypedSwitch /\ TypedCalls
      /\ Legs' = Legs /\ Up' = Up
      /\ link' = "down" /\ feed' = <<>> /\ waiting' = {}
      /\ UNCHANGED <<scenario, chan, named, peer, queued, pending>>
  BY DEF Inv, Crash, Legs, Leg, Up
<1>2. /\ call' \in [CallIds -> CallRecords] /\ at' \in [Channels -> CallIds \cup {NoOne}]
      /\ onCall' \in [Agents -> BOOLEAN]
  BY NoCallType DEF Crash
<1>3. /\ move' \in [Moves -> MoveRecords]
      /\ \A t \in Moves : move'[t].chan = move[t].chan
  <2>1. move \in [Moves -> MoveRecords] BY <1>1 DEF TypedCalls
  <2>2. ASSUME NEW t \in Moves
        PROVE  move'[t] \in MoveRecords /\ move'[t].chan = move[t].chan
    <3>1. move[t] \in MoveRecords BY <2>1
    <3>2. move'[t] = IF move[t].stage = "none" THEN move[t] ELSE [move[t] EXCEPT !.stage = "done"]
      BY DEF Crash
    <3> QED BY <3>1, <3>2 DEF MoveRecords
  <2> QED BY <2>2 DEF Crash
<1>4. TypedCalls' BY <1>1, <1>2, <1>3 DEF TypedCalls
<1>5. TypedSwitch' BY <1>1, <1>3 DEF TypedSwitch
<1>6. FeedInv' BY <1>1 DEF FeedInv
<1>7. LineInv' BY <1>1 DEF LineInv, IsLineRead
<1> QED BY <1>4, <1>5, <1>6, <1>7 DEF Inv

\* What a replay may hold: the creations and answers of legs that are up and not
\* owned, bridges of legs that are up, and the ends of owned legs that are not.
Replayable(owned) ==
    {ev \in Events :
        /\ IsSound(ev)
        /\ ev.kind \in {"create", "answer", "bridge", "hangup"}
        /\ ev.kind \in {"create", "answer"} => owned[ev.chan] = NoOne
        /\ IF ev.kind = "hangup" THEN owned[ev.chan] # NoOne /\ ev.chan \notin Up /\ ev.id = NoOne
           ELSE ev.chan \in Up /\ ev.id \in {NoOne, Leg(ev.chan).id}
        /\ ev.kind = "bridge" => ev.other = peer[ev.chan] /\ ev.other \in Up}

LEMMA BornType ==
    ASSUME TypedSwitch, NEW owned, NEW c \in Up, owned[c] = NoOne
    PROVE  <<Event("create", c, NoOne)>>
               \o (IF chan[c] = "answered" THEN <<Event("answer", c, NoOne)>> ELSE <<>>)
           \in Seq(Replayable(owned))
<1> DEFINE x == Event("create", c, NoOne)
           y == Event("answer", c, NoOne)
<1>1. c \in Legs /\ c \in Channels BY DEF Up, Legs
<1>2. x \in Events /\ x.kind = "create" /\ x.chan = c BY <1>1, EventType DEF Kinds
<1>3. y \in Events /\ y.kind = "answer" /\ y.chan = c BY <1>1, EventType DEF Kinds
<1>a. x.id \in {NoOne, Leg(c).id} /\ y.id \in {NoOne, Leg(c).id} BY DEF Event
<1>4. x \in Replayable(owned) /\ y \in Replayable(owned)
  BY <1>1, <1>2, <1>3, <1>a DEF Replayable, IsSound
<1> HIDE DEF x, y
<1>5. <<x>> \in Seq(Replayable(owned)) /\ <<y>> \in Seq(Replayable(owned)) /\ <<>> \in Seq(Replayable(owned)) BY <1>4
<1>6. (IF chan[c] = "answered" THEN <<y>> ELSE <<>>) \in Seq(Replayable(owned)) BY <1>5
<1>7. \A p, q \in Seq(Replayable(owned)) : p \o q \in Seq(Replayable(owned)) OBVIOUS
<1>8. <<x>> \o (IF chan[c] = "answered" THEN <<y>> ELSE <<>>) \in Seq(Replayable(owned))
  BY <1>5, <1>6, <1>7
<1> QED BY <1>8 DEF x, y

LEMMA LegsReplayed ==
    ASSUME TypedSwitch, NEW ours, ours \subseteq Up, NEW owned
    PROVE  ReplayedLegs(ours, owned) \in Seq(Replayable(owned))
<1> DEFINE A == {c \in ours : owned[c] = NoOne}
           B == {c \in ours : /\ owned[c] = NoOne /\ peer[c] \in ours
                              /\ owned[peer[c]] # NoOne \/ Leg(peer[c]).from = c}
           fresh == SetToSeq(A)
           pairs == SetToSeq(B)
           born(c) == <<Event("create", c, NoOne)>>
                      \o (IF chan[c] = "answered" THEN <<Event("answer", c, NoOne)>> ELSE <<>>)
           births == [i \in 1..Len(fresh) |-> born(fresh[i])]
           bridges == [i \in 1..Len(pairs) |-> Event("bridge", pairs[i], peer[pairs[i]])]
<1>1. Up \subseteq Channels /\ IsFiniteSet(Channels) BY CallsAssumption DEF Up, Legs
<1>2. IsFiniteSet(A) /\ IsFiniteSet(B)
  <2>1. A \subseteq Channels /\ B \subseteq Channels BY <1>1
  <2> QED BY <1>1, <2>1, FS_Subset
<1>3. /\ \A c \in A : c \in Up /\ owned[c] = NoOne
      /\ \A c \in B : c \in Up /\ peer[c] \in Up /\ peer[c] \in Channels
  BY <1>1
<1> HIDE DEF A, B
<1>4. PICK n \in Nat : fresh \in [1..n -> A] BY <1>2, SetToSeqType
<1>5. PICK m \in Nat : pairs \in [1..m -> B] BY <1>2, SetToSeqType
<1> HIDE DEF fresh, pairs
<1>6. Len(fresh) = n /\ Len(pairs) = m BY <1>4, <1>5
<1>7. births \in [1..n -> Seq(Replayable(owned))]
  <2>1. ASSUME NEW i \in 1..n PROVE born(fresh[i]) \in Seq(Replayable(owned))
    <3>1. fresh[i] \in Up /\ owned[fresh[i]] = NoOne BY <1>3, <1>4
    <3> QED BY <3>1, BornType
  <2> HIDE DEF born
  <2> QED BY <1>6, <2>1
<1> HIDE DEF births
<1>8. FlattenSeq(births) \in Seq(Replayable(owned)) BY <1>7, FlattenType
<1>9. bridges \in Seq(Replayable(owned))
  <2>1. ASSUME NEW i \in 1..m PROVE Event("bridge", pairs[i], peer[pairs[i]]) \in Replayable(owned)
    <3> DEFINE c == pairs[i]
    <3>1. c \in Up /\ c \in Channels /\ peer[c] \in Channels /\ peer[c] \in Up
      BY <1>1, <1>3, <1>5
    <3> HIDE DEF c
    <3>2. /\ Event("bridge", c, peer[c]) \in Events
          /\ Event("bridge", c, peer[c]).kind = "bridge"
          /\ Event("bridge", c, peer[c]).chan = c
          /\ Event("bridge", c, peer[c]).other = peer[c]
      BY <3>1, EventType DEF Kinds
    <3>a. Event("bridge", c, peer[c]).id \in {NoOne, Leg(c).id} BY DEF Event
    <3>3. Event("bridge", c, peer[c]) \in Replayable(owned)
      BY <3>1, <3>2, <3>a DEF Replayable, IsSound
    <3> QED BY <3>3 DEF c
  <2> QED BY <1>6, <2>1
<1> HIDE DEF bridges
<1>10. ReplayedLegs(ours, owned) = FlattenSeq(births) \o bridges
  BY DEF ReplayedLegs, births, bridges, fresh, pairs, A, B
<1> QED BY <1>8, <1>9, <1>10

LEMMA EndsReplayed ==
    ASSUME NEW owned PROVE ReplayedEnds(owned) \in Seq(Replayable(owned))
<1> DEFINE S == {c \in Channels : owned[c] # NoOne /\ c \notin Up}
           vanished == SetToSeq(S)
           gone(c) == [kind |-> "hangup", chan |-> c, other |-> NoOne, id |-> NoOne]
<1>1. IsFiniteSet(S)
  <2>1. S \subseteq Channels OBVIOUS
  <2> QED BY <2>1, FS_Subset, CallsAssumption
<1>2. \A c \in S : c \in Channels /\ c \notin Up /\ owned[c] # NoOne OBVIOUS
<1> HIDE DEF S
<1>3. PICK n \in Nat : vanished \in [1..n -> S] BY <1>1, SetToSeqType
<1>4. ReplayedEnds(owned) = [i \in 1..Len(vanished) |-> gone(vanished[i])]
  BY DEF ReplayedEnds, S
<1> HIDE DEF vanished
<1>5. Len(vanished) = n BY <1>3
<1>6. ASSUME NEW i \in 1..n PROVE gone(vanished[i]) \in Replayable(owned)
  <2>1. vanished[i] \in Channels /\ vanished[i] \notin Up /\ owned[vanished[i]] # NoOne BY <1>2, <1>3
  <2> QED BY <2>1 DEF Replayable, IsSound, Events, Kinds
<1> HIDE DEF gone
<1> QED BY <1>4, <1>5, <1>6

\* A replay that starts from what the queue was read to hold, or from nothing.
LEMMA Replayed ==
    ASSUME Inv, NEW owned, NEW f \in Seq(Replayable(owned)), feed' = f, link' = "up",
           UNCHANGED <<scenario, chan, named, peer, queued, pending, onCall, move>>,
           call' \in [CallIds -> CallRecords], at' \in [Channels -> CallIds \cup {NoOne}],
           waiting' = queued \/ (waiting' = waiting /\ "line" \in spent'.missed)
    PROVE  Inv'
<1>1. TypedSwitch /\ TypedCalls /\ Legs' = Legs /\ Up' = Up BY DEF Inv, Legs, Leg, Up
<1>2. waiting' \subseteq Channels BY <1>1 DEF TypedSwitch, TypedCalls, Up, Legs
<1>3. TypedCalls' BY <1>1, <1>2 DEF TypedCalls
<1>4. \A i \in 1..Len(f) : f[i] \in Replayable(owned) OBVIOUS
<1>5. f \in Seq(Events)
  <2>1. Replayable(owned) \subseteq Events BY DEF Replayable
  <2> QED BY <2>1
<1>6. FeedInv' BY <1>1, <1>4 DEF FeedInv, IsSound, Replayable
<1>7. TypedSwitch' BY <1>1, <1>5 DEF TypedSwitch
<1>8. LineInv'
  <2>1. ASSUME NEW c \in Channels
        PROVE  IF c \in queued THEN SaysWaiting(f, queued, c) ELSE SaysAway(f, queued, c)
    <3>1. \A i \in 1..Len(f) : ~IsJoin(f[i], c) BY <1>4 DEF Replayable, IsJoin
    <3>2. c \in queued => \A i \in 1..Len(f) : ~IsLeave(f[i], c)
      BY <1>1, <1>4 DEF Replayable, IsLeave, TypedSwitch
    <3> QED BY <3>1, <3>2 DEF SaysWaiting, SaysAway
  <2>2. CASE waiting' = queued
    BY <2>1, <2>2 DEF LineInv, SaysWaiting, SaysAway, IsJoin, IsLeave
  <2>3. CASE "line" \in spent'.missed BY <2>3 DEF LineInv, IsLineRead
  <2> QED BY <2>2, <2>3
<1> QED BY <1>3, <1>6, <1>7, <1>8 DEF Inv

LEMMA AdoptQueuedType ==
    ASSUME Inv
    PROVE  /\ AdoptQueued.call \in [CallIds -> CallRecords]
           /\ AdoptQueued.at \in [Channels -> CallIds \cup {NoOne}]
<1>1. TypedSwitch /\ TypedCalls BY DEF Inv
<1>2. queued \subseteq Legs /\ queued \subseteq Channels BY <1>1 DEF TypedSwitch, Up, Legs
<1>3. \A c \in queued : Leg(c).id \in Ids \cup {NoOne}
  BY <1>1, <1>2, PlanType DEF TypedSwitch
<1>4. AdoptQueued.at \in [Channels -> CallIds \cup {NoOne}]
  BY <1>1, <1>3 DEF AdoptQueued, CallIds, TypedCalls
<1>5. AdoptQueued.call \in [CallIds -> CallRecords]
  <2> DEFINE mine == {c \in queued : at[c] = NoOne /\ ~IsKnown(Leg(c).id)}
             fresh(k) == {c \in mine : Leg(c).id = k}
             legs(k) == [c \in fresh(k) |-> [state |-> "DIALING", answered |-> TRUE]]
             made(k) == [NoCall EXCEPT !.known = TRUE, !.stopped = FALSE, !.ended = FALSE,
                                       !.minted = TRUE, !.party = legs(k)]
  <2>1. AdoptQueued.call = [k \in CallIds |-> IF fresh(k) = {} THEN call[k] ELSE made(k)]
    BY DEF AdoptQueued
  <2>2. ASSUME NEW k \in CallIds PROVE made(k) \in CallRecords
    <3>1. fresh(k) \subseteq Channels BY <1>2
    <3>2. legs(k) \in [fresh(k) -> Parties] BY DEF Parties, PartyStates
    <3> HIDE DEF fresh, legs
    <3>3. legs(k) \in PartyMaps BY <3>1, <3>2, PartyMapOf
    <3> QED BY <3>3, NoCallType DEF CallRecords
  <2> HIDE DEF made, fresh
  <2> QED BY <1>1, <2>1, <2>2 DEF TypedCalls
<1> QED BY <1>4, <1>5

LEMMA ReconnectStep ==
    ASSUME Inv, Reconnect PROVE Inv'
<1> DEFINE owned == AdoptQueued.at
           ours == {c \in Up : c \in named \/ ParentOf(c) # NoOne}
<1>1. TypedSwitch BY DEF Inv
<1>2. ReplayedLegs(ours, owned) \in Seq(Replayable(owned)) BY <1>1, LegsReplayed
<1>3. ReplayedEnds(owned) \in Seq(Replayable(owned)) BY EndsReplayed
<1>4. Replay(owned) = ReplayedLegs(ours, owned) \o ReplayedEnds(owned) BY DEF Replay
<1>5. /\ feed' = Replay(owned) /\ link' = "up" /\ waiting' = queued
      /\ call' = AdoptQueued.call /\ at' = AdoptQueued.at
      /\ UNCHANGED <<scenario, chan, named, peer, queued, pending, onCall, move>>
  BY DEF Reconnect
<1>6. call' \in [CallIds -> CallRecords] /\ at' \in [Channels -> CallIds \cup {NoOne}]
  BY <1>5, AdoptQueuedType
<1> HIDE DEF owned, ours
<1>7. Replay(owned) \in Seq(Replayable(owned)) BY <1>2, <1>3, <1>4
<1> QED BY <1>5, <1>6, <1>7, Replayed

LEMMA ReconnectBlindStep ==
    ASSUME Inv, SpentInv, NEW unread, NEW isLineRead \in BOOLEAN, NEW isComplete \in BOOLEAN,
           ReconnectBlind(unread, isLineRead, isComplete)
    PROVE  Inv'
<1> DEFINE adopted == IF isLineRead THEN AdoptQueued ELSE [call |-> call, at |-> at]
           owned == adopted.at
           ours == {c \in Up : c \in named \/ ParentOf(c) # NoOne} \ unread
           ends == IF isComplete THEN ReplayedEnds(owned) ELSE <<>>
           f == ReplayedLegs(ours, owned) \o ends
<1>1. TypedSwitch /\ TypedCalls BY DEF Inv
<1>2. ReplayedLegs(ours, owned) \in Seq(Replayable(owned)) BY <1>1, LegsReplayed
<1>3. ReplayedEnds(owned) \in Seq(Replayable(owned)) BY EndsReplayed
<1>4. /\ feed' = f /\ link' = "up" /\ waiting' = (IF isLineRead THEN queued ELSE waiting)
      /\ call' = adopted.call /\ at' = adopted.at
      /\ UNCHANGED <<scenario, chan, named, peer, queued, pending, onCall, move>>
  BY DEF ReconnectBlind
<1>5. call' \in [CallIds -> CallRecords] /\ at' \in [Channels -> CallIds \cup {NoOne}]
  BY <1>1, <1>4, AdoptQueuedType DEF TypedCalls
<1>6. ~isLineRead => "line" \in spent'.missed BY DEF ReconnectBlind, SpentInv
<1> HIDE DEF owned, ours
<1>7. ends \in Seq(Replayable(owned)) BY <1>3
<1> HIDE DEF ends
<1>8. f \in Seq(Replayable(owned)) BY <1>2, <1>7
<1> HIDE DEF f
<1>9. waiting' = queued \/ (waiting' = waiting /\ "line" \in spent'.missed) BY <1>4, <1>6
<1> QED BY <1>4, <1>5, <1>8, <1>9, Replayed

-----------------------------------------------------------------------------
(***************************************************************************)
(* The theorems.                                                           *)
(***************************************************************************)
LEMMA Initially == Init => Inv
<1> SUFFICES ASSUME Init PROVE Inv OBVIOUS
<1>1. TypedSwitch BY DEF Init, TypedSwitch
<1>2. TypedCalls
  <2>1. move \in [Moves -> MoveRecords] BY DEF Init, MoveRecords
  <2> QED BY <2>1, NoCallType DEF Init, TypedCalls
<1>3. FeedInv BY DEF Init, FeedInv
<1>4. LineInv BY DEF Init, LineInv, IsLineRead, SaysWaiting, SaysAway
<1> QED BY <1>1, <1>2, <1>3, <1>4 DEF Inv

\* What a step does to the faults counted.
Faults ==
    \/ spent' = spent
    \/ \E n \in Nat : spent' = [spent EXCEPT !.drops = n]
    \/ \E n \in Nat : spent' = [spent EXCEPT !.crashes = n]
    \/ \E r : spent' = [spent EXCEPT !.lost = r]
    \/ spent' = [spent EXCEPT !.missed = {}]
    \/ \E n \in Nat, m \in SUBSET {"legs", "line", "ends"} :
           n > 0 /\ spent' = [spent EXCEPT !.blinds = n, !.missed = m]

LEMMA FaultsOf ==
    ASSUME SpentInv, [Next]_vars PROVE Faults
<1>1. spent.drops \in Nat /\ spent.crashes \in Nat /\ spent.blinds \in Nat BY DEF SpentInv
<1>2. ASSUME NEW c \in Legs,
             \/ ChannelCreate(c) \/ DialplanNames(c) \/ ChannelAnswer(c)
             \/ QueueJoin(c) \/ Hangup(c) \/ (\E d \in Legs : Bridge(c, d))
      PROVE  spent' = spent
  BY <1>2 DEF ChannelCreate, DialplanNames, ChannelAnswer, QueueJoin, Hangup, Bridge
<1>3. ASSUME NEW t \in Moves,
             \/ RunTransfer(t) \/ ClaimLapses(t)
             \/ (\E replied \in BOOLEAN : TransferReturns(t, replied))
             \/ (\E k \in CallIds, a \in Agents : SendTransfer(t, k, a))
      PROVE  spent' = spent
  BY <1>3 DEF RunTransfer, ClaimLapses, TransferReturns, SendTransfer
<1>4. ASSUME \/ Handle \/ \E k \in CallIds : ApplySwitchEvent(k) \/ Unregister(k)
             \/ \E r \in toWrite : WriteRow(r)
             \/ UNCHANGED vars
      PROVE  spent' = spent
  BY <1>4 DEF Handle, ApplySwitchEvent, Unregister, WriteRow, vars
<1>5. ASSUME NEW r \in toWrite, LoseRow(r) PROVE Faults BY <1>5 DEF LoseRow, Faults
<1>6. CASE LinkDrops
  <2>1. spent' = [spent EXCEPT !.drops = spent.drops + 1] /\ spent.drops + 1 \in Nat
    BY <1>1, <1>6 DEF LinkDrops
  <2> QED BY <2>1 DEF Faults
<1>7. CASE Crash
  <2>1. spent' = [spent EXCEPT !.crashes = spent.crashes + 1] /\ spent.crashes + 1 \in Nat
    BY <1>1, <1>7 DEF Crash
  <2> QED BY <2>1 DEF Faults
<1>8. CASE Reconnect BY <1>8 DEF Reconnect, Faults
<1>9. ASSUME NEW unread \in SUBSET Up, NEW isLineRead \in BOOLEAN, NEW isComplete \in BOOLEAN,
             ReconnectBlind(unread, isLineRead, isComplete)
      PROVE  Faults
  <2> DEFINE missed == {m \in {"legs", "line", "ends"} :
                            \/ m = "legs" /\ unread # {}
                            \/ m = "line" /\ ~isLineRead
                            \/ m = "ends" /\ ~isComplete}
  <2>1. spent' = [spent EXCEPT !.blinds = @ + 1, !.missed = missed]
    BY <1>9, Zenon DEF ReconnectBlind
  <2>2. missed \in SUBSET {"legs", "line", "ends"} OBVIOUS
  <2> HIDE DEF missed
  <2>3. spent.blinds + 1 \in Nat /\ spent.blinds + 1 > 0 BY <1>1
  <2> QED BY <2>1, <2>2, <2>3 DEF Faults
<1> QED BY <1>2, <1>3, <1>4, <1>5, <1>6, <1>7, <1>8, <1>9 DEF Next, Faults

LEMMA FaultsKept == Spec => []SpentInv
<1>1. Init => SpentInv BY DEF Init, SpentInv
<1>2. SpentInv /\ [Next]_vars => SpentInv'
  <2> SUFFICES ASSUME SpentInv, [Next]_vars PROVE SpentInv' OBVIOUS
  <2>1. Faults BY FaultsOf
  <2> QED BY <2>1 DEF Faults, SpentInv
<1> QED BY <1>1, <1>2, PTL DEF Spec

\* What is on its way to the line, and the types, hold in every state: one case
\* per action of the switch, the coordinator, a call's actor and the link.
THEOREM Invariance == Spec => []Inv
<1>1. Inv /\ SpentInv /\ [Next]_vars => Inv'
  <2> SUFFICES ASSUME Inv, SpentInv, [Next]_vars PROVE Inv' OBVIOUS
  <2>1. ASSUME NEW c \in Legs,
               \/ ChannelCreate(c) \/ DialplanNames(c) \/ ChannelAnswer(c)
               \/ QueueJoin(c) \/ Hangup(c) \/ (\E d \in Legs : Bridge(c, d))
        PROVE  Inv'
    BY <2>1, CreateStep, NamesStep, AnswerStep, QueueJoinStep, HangupStep, BridgeStep
  <2>2. ASSUME NEW t \in Moves,
               \/ RunTransfer(t) \/ ClaimLapses(t)
               \/ (\E replied \in BOOLEAN : TransferReturns(t, replied))
               \/ (\E k \in CallIds, a \in Agents : SendTransfer(t, k, a))
        PROVE  Inv'
    BY <2>2, RunTransferStep, LapsesStep, ReturnsStep, SendStep
  <2>3. CASE Handle BY <2>3, HandleStep
  <2>4. ASSUME NEW k \in CallIds, ApplySwitchEvent(k) \/ Unregister(k) PROVE Inv'
    BY <2>4, ApplyStep, UnregisterStep
  <2>5. ASSUME NEW r \in toWrite, WriteRow(r) \/ LoseRow(r) PROVE Inv'
    BY <2>5, WriteRowStep, LoseRowStep
  <2>6. CASE LinkDrops BY <2>6, DropStep
  <2>7. CASE Crash BY <2>7, CrashStep
  <2>8. CASE Reconnect BY <2>8, ReconnectStep
  <2>10. ASSUME NEW unread \in SUBSET Up, NEW isLineRead \in BOOLEAN, NEW isComplete \in BOOLEAN,
                ReconnectBlind(unread, isLineRead, isComplete)
         PROVE  Inv'
    BY <2>10, ReconnectBlindStep
  <2>9. CASE UNCHANGED vars
    <3>1. UNCHANGED <<scenario, spent, link, chan, named, peer, queued, feed, waiting, onCall, at, move,
                      pending, call>>
      BY <2>9 DEF vars, switchVars, appVars
    <3> QED BY <3>1, CallsOnly DEF Inv, TypedCalls, TypedSwitch
  <2> QED BY <2>1, <2>2, <2>3, <2>4, <2>5, <2>6, <2>7, <2>8, <2>9, <2>10 DEF Next
<1> QED BY <1>1, Initially, FaultsKept, PTL DEF Spec

\* Every variable keeps its type: a call's legs and the transfers that claim
\* them are channels of the switch, whatever is merged, replayed or lost.
THEOREM TypeCorrect == Spec => []TypeOK
<1>1. Inv => TypeOK
  <2> SUFFICES ASSUME Inv PROVE TypeOK OBVIOUS
  <2>1. TypedSwitch /\ TypedCalls BY DEF Inv
  <2>2. named \cup queued \cup waiting \subseteq Channels
    BY <2>1 DEF TypedSwitch, TypedCalls, Up, Legs
  <2>3. ASSUME NEW k \in CallIds
        PROVE  /\ DOMAIN call[k].party \subseteq Channels
               /\ \A c \in DOMAIN call[k].party : call[k].party[c] \in Parties
               /\ Claimed(call[k].claims) \subseteq Channels
    <3>1. call[k].party \in PartyMaps
          /\ call[k].claims \in SUBSET [chan : Channels, move : Moves]
      BY <2>1 DEF TypedCalls, CallRecords
    <3>2. Claimed(call[k].claims) \subseteq Channels BY <3>1 DEF Claimed
    <3> QED BY <3>1, <3>2, PartyMapIs
  <2> QED BY <2>1, <2>2, <2>3 DEF TypeOK, TypedSwitch, TypedCalls
<1> QED BY <1>1, Invariance, PTL

\* When everything the switch said has been applied, the line shows the callers
\* the queue holds and nobody else, after any number of drops, replays, crashes
\* and listings in part, if the queue was read the last time (trackQueue, ReconcileWaiting, AdoptLiveChannels).
THEOREM LineIsTheQueue == Spec => []LineAgrees
<1>1. Inv => LineAgrees
  <2> SUFFICES ASSUME Inv, Quiet, "line" \notin spent.missed PROVE waiting = queued
    BY DEF LineAgrees
  <2>1. IsLineRead /\ feed = <<>> BY DEF Quiet, Idle, IsLineRead
  <2>2. 1..Len(feed) = {} BY <2>1
  <2>3. \A c \in Channels : c \in queued <=> c \in waiting
    BY <2>1, <2>2 DEF Inv, LineInv, SaysWaiting, SaysAway
  <2>4. queued \subseteq Channels /\ waiting \subseteq Channels
    BY DEF Inv, TypedSwitch, TypedCalls, Up, Legs
  <2> QED BY <2>3, <2>4
<1> QED BY <1>1, Invariance, PTL

-----------------------------------------------------------------------------
(***************************************************************************)
(* Conversations: the plans the rest is about. A raised leg raises none,   *)
(* carries its caller's id or none, and none when it points back.          *)
(***************************************************************************)
\* The leg a conversation began with.
RootOf(c) == IF Leg(c).from = NoOne THEN c ELSE Leg(c).from

\* The call k is, or may become, the call of c's conversation.
IsKin(c, k) == IF k \in Ids THEN Leg(RootOf(c)).id = k ELSE RootOf(c) = RootOf(k)

LEMMA PlanFacts ==
    ASSUME Conversations, scenario \in Scenarios, NEW c \in Legs
    PROVE  /\ c \in Channels
           /\ Leg(c).from \in Channels \cup {NoOne}
           /\ Leg(c).from # NoOne => Leg(c).from \in Legs /\ Leg(Leg(c).from).from = NoOne
           /\ Leg(c).id # NoOne => Leg(RootOf(c)).id = Leg(c).id /\ Leg(c).id \in Ids
           /\ ParentOf(c) # NoOne => ParentOf(c) = Leg(c).from /\ Leg(c).id = NoOne
           /\ Leg(c).queues => Leg(c).id \in Ids
<1>1. IsLegPlan(scenario.leg) /\ IsConversation(scenario.leg)
  BY CallsAssumption DEF Conversations
<1>2. c \in {d \in Channels : scenario.leg[d] # NoOne} BY DEF Legs, Leg
<1>3. Leg(c) \in LegKinds BY PlanType
<1>4. Leg(c).from \in Channels \cup {NoOne} /\ Leg(c).id \in Ids \cup {NoOne}
  BY <1>3 DEF LegKinds
<1>5. /\ Leg(c).from # NoOne => /\ scenario.leg[Leg(c).from] # NoOne
                                /\ Leg(Leg(c).from).from = NoOne
                                /\ Leg(c).id \in {NoOne, Leg(Leg(c).from).id}
      /\ Leg(c).points => Leg(c).id = NoOne
      /\ Leg(c).queues => Leg(c).id # NoOne
  BY <1>1, <1>2 DEF IsLegPlan, IsConversation, Leg
<1>6. Leg(c).from # NoOne => Leg(c).from \in Legs BY <1>4, <1>5 DEF Legs, Leg
<1> QED BY <1>2, <1>4, <1>5, <1>6 DEF RootOf, ParentOf

LEMMA KinFollows ==
    ASSUME Conversations, scenario \in Scenarios, NEW c \in Legs, NEW p \in Legs,
           Leg(c).from = p \/ Leg(p).from = c
    PROVE  RootOf(c) = RootOf(p) /\ \A k : IsKin(p, k) => IsKin(c, k)
<1>1. NoOne \notin Channels BY CallsAssumption
<1>2. RootOf(c) = RootOf(p) BY <1>1, PlanFacts DEF RootOf
<1> QED BY <1>2 DEF IsKin

-----------------------------------------------------------------------------
(***************************************************************************)
(* Streams.                                                                *)
(***************************************************************************)
Says(q, kind, c) == \E i \in 1..Len(q) : q[i].kind = kind /\ q[i].chan = c

\* What may follow the end of c.
Repeats(ev, c) == /\ ev.chan = c => ev.kind = "hangup" /\ ev.id = NoOne
                  /\ ev.kind = "bridge" => ev.other # c

\* The end of c has been handled: the stream may only repeat it.
IsDone(q, c) == chan[c] = "gone" /\ \A i \in 1..Len(q) : Repeats(q[i], c)

LEMMA TailIs ==
    ASSUME NEW q \in Seq(Events), q # <<>>
    PROVE  /\ Head(q) = q[1] /\ Head(q) \in Events /\ 1 \in 1..Len(q)
           /\ Tail(q) \in Seq(Events)
           /\ \A i \in 1..Len(Tail(q)) : Tail(q)[i] = q[i + 1] /\ i + 1 \in 1..Len(q)
           /\ \A i \in 1..Len(q) : i # 1 => i - 1 \in 1..Len(Tail(q)) /\ Tail(q)[i - 1] = q[i]
OBVIOUS

LEMMA SaysTail ==
    ASSUME NEW q \in Seq(Events), q # <<>>, NEW kind, NEW c
    PROVE  Says(q, kind, c) <=> \/ Head(q).kind = kind /\ Head(q).chan = c
                                \/ Says(Tail(q), kind, c)
BY TailIs DEF Says

LEMMA SaysConcat ==
    ASSUME NEW f \in Seq(Events), NEW e \in Seq(Events), NEW kind, NEW c
    PROVE  Says(f \o e, kind, c) <=> Says(f, kind, c) \/ Says(e, kind, c)
<1> DEFINE g == f \o e
<1>1. /\ Len(g) = Len(f) + Len(e) /\ Len(f) \in Nat /\ Len(e) \in Nat
      /\ \A i \in 1..Len(f) : g[i] = f[i]
      /\ \A i \in 1..Len(e) : g[Len(f) + i] = e[i]
      /\ \A i \in 1..Len(g) : i \in 1..Len(f) \/ i - Len(f) \in 1..Len(e)
      /\ \A i \in 1..Len(g) : i \notin 1..Len(f) => g[i] = e[i - Len(f)]
  BY Concat
<1> HIDE DEF g
<1>2. ASSUME Says(f, kind, c) PROVE Says(g, kind, c)
  <2>1. PICK i \in 1..Len(f) : f[i].kind = kind /\ f[i].chan = c BY <1>2 DEF Says
  <2>2. i \in 1..Len(g) /\ g[i] = f[i] BY <1>1
  <2> QED BY <2>1, <2>2 DEF Says
<1>3. ASSUME Says(e, kind, c) PROVE Says(g, kind, c)
  <2>1. PICK i \in 1..Len(e) : e[i].kind = kind /\ e[i].chan = c BY <1>3 DEF Says
  <2>2. Len(f) + i \in 1..Len(g) /\ g[Len(f) + i] = e[i] BY <1>1
  <2> QED BY <2>1, <2>2 DEF Says
<1>4. ASSUME Says(g, kind, c) PROVE Says(f, kind, c) \/ Says(e, kind, c)
  <2>1. PICK i \in 1..Len(g) : g[i].kind = kind /\ g[i].chan = c BY <1>4 DEF Says
  <2>2. CASE i \in 1..Len(f)
    <3>1. g[i] = f[i] BY <1>1, <2>2
    <3> QED BY <2>1, <2>2, <3>1 DEF Says
  <2>3. CASE i \notin 1..Len(f)
    <3>1. i - Len(f) \in 1..Len(e) /\ g[i] = e[i - Len(f)] BY <1>1, <2>3
    <3> QED BY <2>1, <3>1 DEF Says
  <2> QED BY <2>2, <2>3
<1> QED BY <1>2, <1>3, <1>4 DEF g

LEMMA SaysNothing == ASSUME NEW kind, NEW c PROVE ~Says(<<>>, kind, c)
BY DEF Says

LEMMA DoneTail ==
    ASSUME NEW q \in Seq(Events), q # <<>>, NEW c, IsDone(q, c)
    PROVE  IsDone(Tail(q), c) /\ Repeats(Head(q), c)
BY TailIs DEF IsDone

-----------------------------------------------------------------------------
(***************************************************************************)
(* The registry: the calls cl it holds and the calls b its channels are    *)
(* bound to, with the stream q still to be handled.                        *)
(***************************************************************************)
IsRunning(cl, k) == cl[k].known /\ ~cl[k].stopped
WasAbsorbed(cl, k) == cl[k].known /\ cl[k].stopped /\ ~cl[k].ended
Has(cl, k, c) == c \in DOMAIN cl[k].party

\* What a call's flags mean: only an unminted call is absorbed, by an event its
\* mailbox was empty for, and no channel is left on it.
Flags(cl, b) ==
    \A k \in CallIds :
        /\ ~cl[k].known => cl[k] = NoCall
        /\ cl[k].ended => cl[k].stopped
        /\ cl[k].known => (cl[k].minted <=> k \in Ids)
        /\ WasAbsorbed(cl, k) => cl[k].mailbox = <<>> /\ k \notin Ids /\ \A c \in Channels : b[c] # k

\* A channel is bound to a call of its conversation, and the channels of a
\* running call are its legs.
Bindings(cl, b) ==
    /\ \A c \in Channels : b[c] # NoOne => c \in Legs /\ cl[b[c]].known /\ IsKin(c, b[c])
    /\ \A k \in CallIds : IsRunning(cl, k) => \A c \in Channels : b[c] = k <=> Has(cl, k, c)
    /\ \A k \in Channels : IsRunning(cl, k) => Has(cl, k, k)

\* A channel bound to an unnamed call that ended has no more to say, or was
\* raised for one that has not.
Strays(cl, b, q) ==
    \A c \in Channels : b[c] # NoOne /\ b[c] \notin Ids /\ cl[b[c]].ended =>
        \/ IsDone(q, c)
        \/ Leg(c).from # NoOne /\ Leg(c).id = NoOne /\ IsDone(q, Leg(c).from)

\* The end of a leg is posted or applied only once it has been handled.
Ends(cl, q) ==
    \A k \in CallIds, c \in Channels :
        /\ cl[k].known /\ Says(cl[k].mailbox, "hangup", c) => IsDone(q, c)
        /\ Has(cl, k, c) /\ cl[k].party[c].state = "RELEASED" => IsDone(q, c)

IsNew(cl, b, c) == b[c] = NoOne /\ ~cl[c].known /\ \A k \in CallIds : ~Has(cl, k, c)

\* A leg not made, or whose creation is still to be handled, is nowhere.
Births(cl, b, q) ==
    \A c \in Channels : chan[c] = "none" \/ Says(q, "create", c) => IsNew(cl, b, c)

\* The end of a leg may go unsaid: the link is down, or the listing when it came
\* up was not whole.
IsDeaf == link = "down" \/ "ends" \in spent.missed

\* The end of a live leg of a running call is on its way, if it ended.
IsComing(cl, k, c, q) ==
    chan[c] # "gone" \/ Says(cl[k].mailbox, "hangup", c) \/ Says(q, "hangup", c) \/ IsDeaf

Deaths(cl, q) ==
    \A k \in CallIds, c \in Channels :
        IsRunning(cl, k) /\ Has(cl, k, c) /\ cl[k].party[c].state # "RELEASED" =>
            IsComing(cl, k, c, q)

\* The legs of a row have ended and are on no running call.
Recorded(cl, q) ==
    \A r \in rows \cup toWrite : \A c \in r.legs :
        c \in Channels /\ IsDone(q, c) /\ \A k \in CallIds : IsRunning(cl, k) => ~Has(cl, k, c)

Registered(cl, b) == Flags(cl, b) /\ Bindings(cl, b)
Accounted(cl, b, q) ==
    Strays(cl, b, q) /\ Ends(cl, q) /\ Births(cl, b, q) /\ Deaths(cl, q) /\ Recorded(cl, q)

-----------------------------------------------------------------------------
(***************************************************************************)
(* Merging two calls.                                                      *)
(***************************************************************************)
\* Who may absorb whom: a call that runs or ended, and a running call of the
\* same conversation nothing is posted to.
MayAbsorb(s, keep, absorb, late) ==
    /\ keep \in CallIds /\ absorb \in CallIds /\ keep # absorb
    /\ s.call[keep].known /\ ~WasAbsorbed(s.call, keep)
    /\ keep \notin Ids => IsRunning(s.call, keep)
    /\ s.call[absorb].known /\ ~WasAbsorbed(s.call, absorb)
    /\ IsRunning(s.call, absorb) => absorb \notin Ids /\ s.call[absorb].mailbox = <<>>
    /\ late => IsRunning(s.call, absorb)
    /\ IsRunning(s.call, absorb) => \A c \in Channels : s.at[c] = absorb => IsKin(c, keep)

LEMMA MergeEffect ==
    ASSUME NEW v, NEW w, NEW s \in States(v, w), NEW keep \in CallIds, NEW absorb \in CallIds,
           keep # absorb, NEW late, Runs(s, keep, late),
           NEW t, t = Merge(s, keep, absorb, late),
           NEW moved, moved = (IF Runs(s, absorb, late) THEN s.call[absorb].party ELSE <<>>)
    PROVE  /\ t.at = [c \in Channels |-> IF c \in DOMAIN moved THEN keep ELSE s.at[c]]
           /\ \A k \in CallIds : k # keep /\ k # absorb => t.call[k] = s.call[k]
           /\ t.call[keep].known = s.call[keep].known
           /\ t.call[keep].stopped = s.call[keep].stopped
           /\ t.call[keep].ended = s.call[keep].ended
           /\ t.call[keep].minted = s.call[keep].minted
           /\ t.call[keep].mailbox = s.call[keep].mailbox
           /\ t.call[keep].party = Union(s.call[keep].party, moved)
           /\ t.call[absorb].known = s.call[absorb].known
           /\ t.call[absorb].stopped
           /\ t.call[absorb].ended = s.call[absorb].ended
           /\ t.call[absorb].minted = s.call[absorb].minted
           /\ t.call[absorb].mailbox = s.call[absorb].mailbox
           /\ t.call[absorb].party = s.call[absorb].party
<1> DEFINE held == Claimed(s.call[keep].claims)
           party == Union(s.call[keep].party, moved)
           claims == s.call[keep].claims \cup {x \in s.call[absorb].claims : x.chan \notin held}
           bound == [c \in Channels |-> IF c \in DOMAIN moved THEN keep ELSE s.at[c]]
<1>1. t = Absorbing(s, keep, absorb, party, claims, bound) BY DEF Merge, Absorbing
<1>2. s.call \in [CallIds -> CallRecords] BY DEF States
<1> HIDE DEF party, claims, bound
<1>3. /\ t.at = bound
      /\ \A k \in CallIds : k # keep /\ k # absorb => t.call[k] = s.call[k]
      /\ t.call[keep] = [s.call[keep] EXCEPT !.party = party, !.claims = claims]
      /\ t.call[absorb] = [s.call[absorb] EXCEPT !.stopped = TRUE]
  <2> DEFINE e1 == [s EXCEPT !.call[keep].party = party]
             e2 == [e1 EXCEPT !.call[keep].claims = claims]
             e3 == [e2 EXCEPT !.call[absorb].stopped = TRUE]
  <2>1. t = [e3 EXCEPT !.at = bound] BY <1>1 DEF Absorbing
  <2>2. e1.call = [s.call EXCEPT ![keep] = [s.call[keep] EXCEPT !.party = party]]
        /\ DOMAIN e1 = DOMAIN s
    BY DEF States
  <2>3. e2.call = [e1.call EXCEPT ![keep] = [e1.call[keep] EXCEPT !.claims = claims]]
        /\ DOMAIN e2 = DOMAIN s
    <3> HIDE DEF e1
    <3> QED BY <2>2 DEF States
  <2>4. e3.call = [e2.call EXCEPT ![absorb] = [e2.call[absorb] EXCEPT !.stopped = TRUE]]
        /\ DOMAIN e3 = DOMAIN s
    <3> HIDE DEF e1, e2
    <3> QED BY <2>3 DEF States
  <2>5. t.call = e3.call /\ t.at = bound
    <3> HIDE DEF e3
    <3> QED BY <2>1, <2>4 DEF States
  <2> HIDE DEF e1, e2, e3
  <2>6. DOMAIN s.call = CallIds /\ DOMAIN e1.call = CallIds /\ DOMAIN e2.call = CallIds
    BY <1>2, <2>2, <2>3
  <2>7. t.call[keep] = [e1.call[keep] EXCEPT !.claims = claims] BY <2>3, <2>4, <2>5, <2>6
  <2>8. e1.call[keep] = [s.call[keep] EXCEPT !.party = party] BY <2>2, <2>6
  <2>9. s.call[keep] \in CallRecords BY <1>2
  <2>10. t.call[keep] = [s.call[keep] EXCEPT !.party = party, !.claims = claims]
    BY <2>7, <2>8, <2>9 DEF CallRecords
  <2>11. t.call[absorb] = [s.call[absorb] EXCEPT !.stopped = TRUE]
    <3>1. e1.call[absorb] = s.call[absorb] BY <2>2, <2>6
    <3>2. e2.call[absorb] = s.call[absorb] BY <2>3, <2>6, <3>1
    <3> QED BY <2>4, <2>5, <2>6, <3>2
  <2>12. \A k \in CallIds : k # keep /\ k # absorb => t.call[k] = s.call[k]
    BY <2>2, <2>3, <2>4, <2>5, <2>6
  <2> QED BY <2>5, <2>10, <2>11, <2>12
<1>4. s.call[keep] \in CallRecords /\ s.call[absorb] \in CallRecords BY <1>2
<1> QED BY <1>3, <1>4 DEF party, bound, CallRecords

\* A merge of a conversation's calls keeps the registry in order.
LEMMA MergeRegistered ==
    ASSUME NEW v, NEW w, NEW s \in States(v, w), NEW keep, NEW absorb, NEW late,
           MayAbsorb(s, keep, absorb, late), Registered(s.call, s.at)
    PROVE  LET t == Merge(s, keep, absorb, late) IN Registered(t.call, t.at)
<1> DEFINE t == Merge(s, keep, absorb, late)
           moved == IF Runs(s, absorb, late) THEN s.call[absorb].party ELSE <<>>
<1> SUFFICES Registered(t.call, t.at) OBVIOUS
<1>1. keep \in CallIds /\ absorb \in CallIds /\ keep # absorb BY DEF MayAbsorb
<1>2. CASE ~Runs(s, keep, late)
  <2>1. t = s BY <1>2 DEF Merge
  <2> QED BY <2>1
<1>3. CASE Runs(s, keep, late)
  <2>1. /\ t.at = [c \in Channels |-> IF c \in DOMAIN moved THEN keep ELSE s.at[c]]
        /\ \A k \in CallIds : k # keep /\ k # absorb => t.call[k] = s.call[k]
        /\ t.call[keep].known = s.call[keep].known
        /\ t.call[keep].stopped = s.call[keep].stopped
        /\ t.call[keep].ended = s.call[keep].ended
        /\ t.call[keep].minted = s.call[keep].minted
        /\ t.call[keep].mailbox = s.call[keep].mailbox
        /\ t.call[keep].party = Union(s.call[keep].party, moved)
        /\ t.call[absorb].known = s.call[absorb].known
        /\ t.call[absorb].stopped
        /\ t.call[absorb].ended = s.call[absorb].ended
        /\ t.call[absorb].minted = s.call[absorb].minted
        /\ t.call[absorb].mailbox = s.call[absorb].mailbox
    BY <1>1, <1>3, MergeEffect
  <2>2. \/ IsRunning(s.call, absorb) /\ DOMAIN moved = DOMAIN s.call[absorb].party
        \/ ~IsRunning(s.call, absorb) /\ DOMAIN moved = {}
    BY DEF MayAbsorb, IsRunning, Runs
  <2>3. \A c \in Channels : c \in DOMAIN moved <=> IsRunning(s.call, absorb) /\ s.at[c] = absorb
    BY <1>1, <2>2 DEF Registered, Bindings, Has
  <2>4. /\ s.call[keep].known /\ s.call[absorb].known /\ ~WasAbsorbed(s.call, keep)
        /\ ~WasAbsorbed(s.call, absorb)
        /\ IsRunning(s.call, absorb) => absorb \notin Ids /\ s.call[absorb].mailbox = <<>>
        /\ IsRunning(s.call, absorb) => \A c \in Channels : s.at[c] = absorb => IsKin(c, keep)
    BY DEF MayAbsorb
  <2>5. DOMAIN Union(s.call[keep].party, moved) = DOMAIN s.call[keep].party \cup DOMAIN moved
    BY DEF Union
  <2>6. absorb # NoOne /\ keep # NoOne BY <1>1, CallsAssumption DEF CallIds
  <2> HIDE DEF t, moved
  <2>7. \A c \in Channels : t.at[c] = IF c \in DOMAIN moved THEN keep ELSE s.at[c] BY <2>1
  <2>8. Flags(t.call, t.at)
    <3>1. ASSUME NEW k \in CallIds
          PROVE  /\ ~t.call[k].known => t.call[k] = NoCall
                 /\ t.call[k].ended => t.call[k].stopped
                 /\ t.call[k].known => (t.call[k].minted <=> k \in Ids)
                 /\ WasAbsorbed(t.call, k) => /\ t.call[k].mailbox = <<>> /\ k \notin Ids
                                              /\ \A c \in Channels : t.at[c] # k
      <4>0. /\ ~s.call[k].known => s.call[k] = NoCall
            /\ s.call[k].ended => s.call[k].stopped
            /\ s.call[k].known => (s.call[k].minted <=> k \in Ids)
            /\ WasAbsorbed(s.call, k) => /\ s.call[k].mailbox = <<>> /\ k \notin Ids
                                         /\ \A c \in Channels : s.at[c] # k
        BY DEF Registered, Flags
      <4>1. CASE k = keep
        BY <2>1, <2>4, <4>0, <4>1 DEF WasAbsorbed
      <4>2. CASE k = absorb
        <5>1. ASSUME WasAbsorbed(t.call, k)
              PROVE  IsRunning(s.call, absorb) /\ \A c \in Channels : t.at[c] # absorb
          <6>1. IsRunning(s.call, absorb)
            BY <2>1, <2>4, <4>2, <5>1 DEF WasAbsorbed, IsRunning
          <6> QED BY <1>1, <2>3, <2>7, <6>1
        <5> QED BY <2>1, <2>4, <4>0, <4>2, <5>1
      <4>3. CASE k # keep /\ k # absorb
        BY <2>1, <2>7, <4>0, <4>3 DEF WasAbsorbed
      <4> QED BY <4>1, <4>2, <4>3
    <3> QED BY <3>1 DEF Flags
  <2>9. \A c \in Channels : t.at[c] # NoOne => c \in Legs /\ t.call[t.at[c]].known /\ IsKin(c, t.at[c])
    <3>1. SUFFICES ASSUME NEW c \in Channels, t.at[c] # NoOne
                   PROVE  c \in Legs /\ t.call[t.at[c]].known /\ IsKin(c, t.at[c])
      OBVIOUS
    <3>0. s.at[c] # NoOne => c \in Legs /\ s.call[s.at[c]].known /\ IsKin(c, s.at[c])
      BY DEF Registered, Bindings
    <3>2. CASE c \in DOMAIN moved BY <2>1, <2>3, <2>4, <2>6, <2>7, <3>0, <3>2
    <3>3. CASE c \notin DOMAIN moved
      <4>1. t.at[c] = s.at[c] /\ s.at[c] \in CallIds BY <2>7, <3>1, <3>3 DEF States
      <4>2. t.call[s.at[c]].known = s.call[s.at[c]].known BY <2>1, <4>1
      <4> QED BY <3>0, <3>1, <4>1, <4>2
    <3> QED BY <3>2, <3>3
  <2>10. ASSUME NEW k \in CallIds, IsRunning(t.call, k)
         PROVE  /\ \A c \in Channels : t.at[c] = k <=> Has(t.call, k, c)
                /\ k \in Channels => Has(t.call, k, k)
    <3>1. k # absorb BY <2>1, <2>10 DEF IsRunning
    <3>2. IsRunning(s.call, k)
      <4>1. CASE k = keep BY <2>1, <2>10, <4>1 DEF IsRunning
      <4>2. CASE k # keep BY <2>1, <2>10, <3>1, <4>2 DEF IsRunning
      <4> QED BY <4>1, <4>2
    <3>3. /\ \A c \in Channels : s.at[c] = k <=> Has(s.call, k, c)
          /\ k \in Channels => Has(s.call, k, k)
      BY <3>2 DEF Registered, Bindings
    <3>4. CASE k = keep BY <1>1, <2>1, <2>3, <2>5, <2>7, <3>3, <3>4 DEF Has
    <3>5. CASE k # keep BY <2>1, <2>3, <2>7, <3>1, <3>3, <3>5 DEF Has
    <3> QED BY <3>4, <3>5
  <2> QED BY <2>8, <2>9, <2>10 DEF Registered, Bindings, CallIds
<1> QED BY <1>2, <1>3

\* It loses no leg and doubles none.
LEMMA MergeAccounted ==
    ASSUME NEW v, NEW w, NEW s \in States(v, w), NEW keep, NEW absorb, NEW late, NEW q,
           MayAbsorb(s, keep, absorb, late), Registered(s.call, s.at),
           Accounted(s.call, s.at, q)
    PROVE  LET t == Merge(s, keep, absorb, late) IN Accounted(t.call, t.at, q)
<1> DEFINE t == Merge(s, keep, absorb, late)
           moved == IF Runs(s, absorb, late) THEN s.call[absorb].party ELSE <<>>
<1> SUFFICES Accounted(t.call, t.at, q) OBVIOUS
<1>1. keep \in CallIds /\ absorb \in CallIds /\ keep # absorb BY DEF MayAbsorb
<1>2. CASE ~Runs(s, keep, late)
  <2>1. t = s BY <1>2 DEF Merge
  <2> QED BY <2>1
<1>3. CASE Runs(s, keep, late)
  <2>1. /\ t.at = [c \in Channels |-> IF c \in DOMAIN moved THEN keep ELSE s.at[c]]
        /\ \A k \in CallIds : k # keep /\ k # absorb => t.call[k] = s.call[k]
        /\ t.call[keep].known = s.call[keep].known
        /\ t.call[keep].stopped = s.call[keep].stopped
        /\ t.call[keep].ended = s.call[keep].ended
        /\ t.call[keep].mailbox = s.call[keep].mailbox
        /\ t.call[keep].party = Union(s.call[keep].party, moved)
        /\ t.call[absorb].known = s.call[absorb].known
        /\ t.call[absorb].stopped
        /\ t.call[absorb].ended = s.call[absorb].ended
        /\ t.call[absorb].mailbox = s.call[absorb].mailbox
        /\ t.call[absorb].party = s.call[absorb].party
    BY <1>1, <1>3, MergeEffect
  <2>2. \A k \in CallIds : /\ t.call[k].known = s.call[k].known
                           /\ t.call[k].ended = s.call[k].ended
                           /\ t.call[k].mailbox = s.call[k].mailbox
    <3> HIDE DEF t
    <3> QED BY <2>1
  <2>3. t.call[keep].stopped = s.call[keep].stopped BY <2>1
  <2>4. \/ IsRunning(s.call, absorb) /\ moved = s.call[absorb].party
        \/ ~IsRunning(s.call, absorb) /\ DOMAIN moved = {}
    BY DEF MayAbsorb, IsRunning, Runs
  <2>5. /\ DOMAIN t.call[keep].party = DOMAIN s.call[keep].party \cup DOMAIN moved
        /\ \A c \in DOMAIN s.call[keep].party : t.call[keep].party[c] = s.call[keep].party[c]
        /\ \A c \in DOMAIN moved : c \notin DOMAIN s.call[keep].party => t.call[keep].party[c] = moved[c]
    BY <2>1 DEF Union
  <2>6. /\ keep \notin Ids => IsRunning(s.call, keep)
        /\ IsRunning(s.call, absorb) => s.call[absorb].mailbox = <<>>
    BY DEF MayAbsorb
  <2> HIDE DEF t, moved
  <2>7. \A c \in Channels : t.at[c] = IF c \in DOMAIN moved THEN keep ELSE s.at[c] BY <2>1
  <2>8. ASSUME NEW k \in CallIds, IsRunning(t.call, k) PROVE k # absorb /\ IsRunning(s.call, k)
    <3>1. k # absorb BY <2>1, <2>8 DEF IsRunning
    <3>2. CASE k = keep BY <2>1, <2>8, <3>2 DEF IsRunning
    <3>3. CASE k # keep BY <2>1, <2>8, <3>1, <3>3 DEF IsRunning
    <3> QED BY <3>1, <3>2, <3>3
  \* Where a leg of a call was before the merge.
  <2>9. ASSUME NEW k \in CallIds, NEW c, Has(t.call, k, c)
        PROVE  \/ Has(s.call, k, c) /\ t.call[k].party[c] = s.call[k].party[c]
               \/ /\ k = keep /\ IsRunning(s.call, absorb) /\ Has(s.call, absorb, c)
                  /\ t.call[k].party[c] = s.call[absorb].party[c]
    <3>1. CASE k = keep BY <2>4, <2>5, <2>9, <3>1 DEF Has
    <3>2. CASE k # keep BY <2>1, <2>9, <3>2 DEF Has
    <3> QED BY <3>1, <3>2
  <2>10. Strays(t.call, t.at, q)
    <3> SUFFICES ASSUME NEW c \in Channels, t.at[c] # NoOne, t.at[c] \notin Ids,
                        t.call[t.at[c]].ended
                 PROVE  \/ IsDone(q, c)
                        \/ Leg(c).from # NoOne /\ Leg(c).id = NoOne /\ IsDone(q, Leg(c).from)
      BY DEF Strays
    <3>1. CASE c \in DOMAIN moved
      <4>1. keep \notin Ids /\ s.call[keep].ended BY <1>1, <2>2, <2>7, <3>1
      <4>2. s.call[keep].stopped BY <1>1, <4>1 DEF Registered, Flags
      <4> QED BY <2>6, <4>1, <4>2 DEF IsRunning
    <3>2. CASE c \notin DOMAIN moved
      <4>1. t.at[c] = s.at[c] /\ s.at[c] \in CallIds BY <2>7, <3>2 DEF States
      <4>2. s.call[s.at[c]].ended BY <2>2, <4>1
      <4> QED BY <4>1, <4>2 DEF Accounted, Strays
    <3> QED BY <3>1, <3>2
  <2>11. Ends(t.call, q)
    <3> SUFFICES ASSUME NEW k \in CallIds, NEW c \in Channels
                 PROVE  /\ t.call[k].known /\ Says(t.call[k].mailbox, "hangup", c) => IsDone(q, c)
                        /\ Has(t.call, k, c) /\ t.call[k].party[c].state = "RELEASED" => IsDone(q, c)
      BY DEF Ends
    <3>1. Ends(s.call, q) BY DEF Accounted
    <3>2. t.call[k].known /\ Says(t.call[k].mailbox, "hangup", c) => IsDone(q, c)
      BY <2>2, <3>1 DEF Ends
    <3>3. Has(t.call, k, c) /\ t.call[k].party[c].state = "RELEASED" => IsDone(q, c)
      BY <1>1, <2>9, <3>1 DEF Ends
    <3> QED BY <3>2, <3>3
  <2>12. Births(t.call, t.at, q)
    <3> SUFFICES ASSUME NEW c \in Channels, IsNew(s.call, s.at, c) PROVE IsNew(t.call, t.at, c)
      BY DEF Births, Accounted
    <3>1. c \in CallIds BY DEF CallIds
    <3>2. \A k \in CallIds : ~Has(t.call, k, c) BY <1>1, <2>9 DEF IsNew
    <3>3. c \notin DOMAIN moved BY <1>1, <2>4 DEF IsNew, Has
    <3> QED BY <2>2, <2>7, <3>1, <3>2, <3>3 DEF IsNew
  <2>13. Deaths(t.call, q)
    <3> SUFFICES ASSUME NEW k \in CallIds, NEW c \in Channels, IsRunning(t.call, k),
                        Has(t.call, k, c), t.call[k].party[c].state # "RELEASED"
                 PROVE  IsComing(t.call, k, c, q)
      BY DEF Deaths
    <3>1. Deaths(s.call, q) BY DEF Accounted
    <3>2. CASE Has(s.call, k, c) /\ t.call[k].party[c] = s.call[k].party[c]
      <4>1. IsComing(s.call, k, c, q) BY <2>8, <3>1, <3>2 DEF Deaths
      <4> QED BY <2>2, <4>1 DEF IsComing
    <3>3. CASE /\ k = keep /\ IsRunning(s.call, absorb) /\ Has(s.call, absorb, c)
               /\ t.call[k].party[c] = s.call[absorb].party[c]
      <4>1. IsComing(s.call, absorb, c, q) BY <1>1, <3>1, <3>3 DEF Deaths
      <4>2. ~Says(s.call[absorb].mailbox, "hangup", c) BY <2>6, <3>3, SaysNothing
      <4> QED BY <4>1, <4>2 DEF IsComing
    <3> QED BY <2>9, <3>2, <3>3
  <2>14. Recorded(t.call, q)
    <3> SUFFICES ASSUME NEW r \in rows \cup toWrite, NEW c \in r.legs
                 PROVE  /\ c \in Channels /\ IsDone(q, c)
                        /\ \A k \in CallIds : IsRunning(t.call, k) => ~Has(t.call, k, c)
      BY DEF Recorded
    <3>1. /\ c \in Channels /\ IsDone(q, c)
          /\ \A k \in CallIds : IsRunning(s.call, k) => ~Has(s.call, k, c)
      BY DEF Accounted, Recorded
    <3> QED BY <1>1, <2>8, <2>9, <3>1
  <2> QED BY <2>10, <2>11, <2>12, <2>13, <2>14 DEF Accounted
<1> QED BY <1>2, <1>3

-----------------------------------------------------------------------------
(***************************************************************************)
(* The order of the stream.                                                *)
(***************************************************************************)
\* What an event says is so: its leg was made, the id is the leg's, a bridge is
\* of a leg and one raised for it, and a leg whose end is told is gone.
IsTrue(ev) ==
    /\ ev.chan \in Legs /\ chan[ev.chan] # "none"
    /\ ev.id \in {NoOne, Leg(ev.chan).id}
    /\ ev.kind = "bridge" => /\ ev.other \in Legs
                             /\ Leg(ev.other).from = ev.chan \/ Leg(ev.chan).from = ev.other
    /\ ev.kind = "hangup" => chan[ev.chan] = "gone"

InOrder(x, y) == /\ x.kind = "hangup" => Repeats(y, x.chan)
                 /\ x.kind = "create" /\ y.kind = "create" => x.chan # y.chan

Ordered(q) ==
    /\ \A i \in 1..Len(q) : IsTrue(q[i])
    /\ \A i, j \in 1..Len(q) : i < j => InOrder(q[i], q[j])
    /\ \A c \in Channels : Says(q, "create", c) /\ chan[c] = "gone" =>
           link = "down" \/ Says(q, "hangup", c)

\* A registry in order, with everything accounted for.
Sound(s, q) == Registered(s.call, s.at) /\ Accounted(s.call, s.at, q)

\* A handler that asks the call k waits for what was posted to it before.
IsWaited(s, k) == k = NoOne \/ s.call[k].stopped \/ s.call[k].mailbox = <<>>

LEMMA BoundCalls ==
    ASSUME NEW v, NEW w, NEW s \in States(v, w), Registered(s.call, s.at), NEW c \in Channels,
           s.at[c] # NoOne
    PROVE  /\ s.at[c] \in CallIds /\ s.call[s.at[c]].known /\ ~WasAbsorbed(s.call, s.at[c])
           /\ c \in Legs /\ IsKin(c, s.at[c])
           /\ s.call[s.at[c]].minted <=> s.at[c] \in Ids
           /\ s.call[s.at[c]].stopped <=> s.call[s.at[c]].ended
<1>1. s.at[c] \in CallIds BY DEF States
<1>2. s.call[s.at[c]].known /\ c \in Legs /\ IsKin(c, s.at[c]) BY DEF Registered, Bindings
<1>3. ~WasAbsorbed(s.call, s.at[c]) BY <1>1 DEF Registered, Flags
<1>4. s.call[s.at[c]].minted <=> s.at[c] \in Ids BY <1>1, <1>2 DEF Registered, Flags
<1>5. s.call[s.at[c]].ended => s.call[s.at[c]].stopped BY <1>1 DEF Registered, Flags
<1> QED BY <1>1, <1>2, <1>3, <1>4, <1>5 DEF WasAbsorbed

\* A bridge finds both its legs on calls that run, or on one the dialplan named.
LEMMA BridgedCalls ==
    ASSUME Conversations, scenario \in Scenarios,
           NEW v, NEW w, NEW s \in States(v, w), NEW q \in Seq(Events), q # <<>>, Sound(s, q),
           NEW ev, ev = Head(q), IsTrue(ev), ev.kind = "bridge",
           NEW c \in {ev.chan, ev.other}, s.at[c] # NoOne, s.call[s.at[c]].ended
    PROVE  s.at[c] \in Ids
<1>1. ev.chan \in Legs /\ ev.other \in Legs BY DEF IsTrue
<1>2. c \in Channels BY <1>1, PlanFacts
<1>3. SUFFICES ASSUME s.at[c] \notin Ids PROVE FALSE OBVIOUS
<1>4. \A d : IsDone(q, d) => Repeats(ev, d) BY DoneTail
<1>5. \A d \in {ev.chan, ev.other} : ~IsDone(q, d) BY <1>4 DEF Repeats
<1>6. \/ IsDone(q, c)
      \/ Leg(c).from # NoOne /\ Leg(c).id = NoOne /\ IsDone(q, Leg(c).from)
  BY <1>2, <1>3 DEF Sound, Accounted, Strays
<1>7. Leg(c).from # NoOne /\ Leg(c).from \notin {ev.chan, ev.other} BY <1>5, <1>6
<1>8. NoOne \notin Channels BY CallsAssumption
<1>9. Leg(ev.other).from = ev.chan \/ Leg(ev.chan).from = ev.other BY DEF IsTrue
<1> QED BY <1>1, <1>7, <1>8, <1>9, PlanFacts

LEMMA JoinKeeps ==
    ASSUME Conversations, scenario \in Scenarios,
           NEW v, NEW w, NEW s \in States(v, w), NEW q \in Seq(Events), q # <<>>, Sound(s, q),
           NEW ev, ev = Head(q), IsTrue(ev), ev.kind = "bridge", NEW late,
           IsWaited(s, s.at[ev.chan]), IsWaited(s, s.at[ev.other])
    PROVE  LET t == Join(s, ev, late) IN
           Sound(t, q) /\ IsWaited(t, t.at[ev.chan])
<1> DEFINE t == Join(s, ev, late)
           k == s.at[ev.chan]
           o == s.at[ev.other]
           absorb == Absorbed(s, k, o, late)
           keep == IF absorb = k THEN o ELSE k
<1> SUFFICES Sound(t, q) /\ IsWaited(t, t.at[ev.chan]) OBVIOUS
<1>1. CASE k = NoOne \/ o = NoOne \/ k = o
  <2>1. t = s BY <1>1 DEF Join
  <2> QED BY <2>1
<1>2. CASE ~(k = NoOne \/ o = NoOne \/ k = o)
  <2>1. t = Merge(s, keep, absorb, late) BY <1>2 DEF Join
  <2>2. ev.chan \in Legs /\ ev.other \in Legs /\ ev.chan \in Channels /\ ev.other \in Channels
    BY PlanFacts DEF IsTrue
  <2>3. /\ k \in CallIds /\ s.call[k].known /\ ~WasAbsorbed(s.call, k) /\ IsKin(ev.chan, k)
        /\ s.call[k].minted <=> k \in Ids
        /\ s.call[k].stopped <=> s.call[k].ended
    BY <1>2, <2>2, BoundCalls DEF Sound
  <2>4. /\ o \in CallIds /\ s.call[o].known /\ ~WasAbsorbed(s.call, o) /\ IsKin(ev.other, o)
        /\ s.call[o].minted <=> o \in Ids
        /\ s.call[o].stopped <=> s.call[o].ended
    BY <1>2, <2>2, BoundCalls DEF Sound
  <2>5. (s.call[k].ended => k \in Ids) /\ (s.call[o].ended => o \in Ids)
    BY <1>2, BridgedCalls
  <2>6. RootOf(ev.chan) = RootOf(ev.other)
    BY <2>2, KinFollows DEF IsTrue
  <2>7. ~(k \in Ids /\ o \in Ids) BY <1>2, <2>3, <2>4, <2>6 DEF IsKin
  <2>8. absorb \in {k, o} /\ keep \in {k, o} /\ keep # absorb BY <1>2 DEF Absorbed
  <2>9. IsRunning(s.call, absorb) => absorb \notin Ids
    <3>1. CASE absorb = k
      <4> SUFFICES ASSUME IsRunning(s.call, k), k \in Ids PROVE FALSE BY <3>1
      <4>1. IsMintedID(s, k, late) BY <2>3 DEF IsMintedID, Runs, IsRunning
      <4>2. ~IsMintedID(s, o, late) BY <2>4, <2>7 DEF IsMintedID
      <4>3. absorb = o BY <4>1, <4>2 DEF Absorbed
      <4> QED BY <1>2, <3>1, <4>3
    <3>2. CASE absorb = o
      <4> SUFFICES ASSUME IsRunning(s.call, o), o \in Ids PROVE FALSE BY <3>2
      <4>1. IsMintedID(s, o, late) BY <2>4 DEF IsMintedID, Runs, IsRunning
      <4>2. ~IsMintedID(s, k, late) BY <2>3, <2>7 DEF IsMintedID
      <4>3. absorb = k BY <4>1, <4>2 DEF Absorbed
      <4> QED BY <1>2, <3>2, <4>3
    <3> QED BY <2>8, <3>1, <3>2
  <2>10. late => IsRunning(s.call, absorb)
    <3> SUFFICES ASSUME late, ~IsRunning(s.call, absorb) PROVE FALSE OBVIOUS
    <3>1. CASE absorb = k
      <4>1. k \in Ids BY <2>3, <2>5, <3>1 DEF IsRunning
      <4>2. IsMintedID(s, k, late) BY <2>3, <4>1 DEF IsMintedID, Runs
      <4>3. ~IsMintedID(s, o, late) BY <2>4, <2>7, <4>1 DEF IsMintedID
      <4>4. absorb = o BY <4>2, <4>3 DEF Absorbed
      <4> QED BY <1>2, <3>1, <4>4
    <3>2. CASE absorb = o
      <4>1. o \in Ids BY <2>4, <2>5, <3>2 DEF IsRunning
      <4>2. IsMintedID(s, o, late) BY <2>4, <4>1 DEF IsMintedID, Runs
      <4>3. ~IsMintedID(s, k, late) BY <2>3, <2>7, <4>1 DEF IsMintedID
      <4>4. absorb = k BY <4>2, <4>3 DEF Absorbed
      <4> QED BY <1>2, <3>2, <4>4
    <3> QED BY <2>8, <3>1, <3>2
  <2>11. ASSUME IsRunning(s.call, absorb), NEW c \in Channels, s.at[c] = absorb
         PROVE  IsKin(c, keep)
    <3>1. absorb \notin Ids BY <2>9, <2>11
    <3>2. absorb # NoOne BY <1>2, <2>8
    <3>3. IsKin(c, absorb) BY <2>11, <3>2, BoundCalls DEF Sound
    <3>4. RootOf(c) = RootOf(absorb) BY <3>1, <3>3 DEF IsKin
    <3>5. RootOf(absorb) = RootOf(ev.chan) BY <2>3, <2>4, <2>6, <2>8, <3>1 DEF IsKin
    <3>6. IsKin(ev.chan, keep) BY <2>3, <2>4, <2>6, <2>8 DEF IsKin
    <3> QED BY <3>4, <3>5, <3>6 DEF IsKin
  <2> HIDE DEF absorb, keep
  <2>12. keep \notin Ids => IsRunning(s.call, keep) BY <2>3, <2>4, <2>5, <2>8 DEF IsRunning
  <2>13. IsRunning(s.call, absorb) => s.call[absorb].mailbox = <<>>
    BY <1>2, <2>8 DEF IsRunning, IsWaited
  <2>14. MayAbsorb(s, keep, absorb, late)
    BY <2>3, <2>4, <2>8, <2>9, <2>10, <2>11, <2>12, <2>13 DEF MayAbsorb
  <2>15. Sound(t, q) BY <2>1, <2>14, MergeRegistered, MergeAccounted DEF Sound
  <2>16. IsWaited(t, t.at[ev.chan])
    <3>1. CASE ~Runs(s, keep, late)
      <4>1. t = s BY <2>1, <3>1 DEF Merge
      <4> QED BY <4>1
    <3>2. CASE Runs(s, keep, late)
      <4> DEFINE moved == IF Runs(s, absorb, late) THEN s.call[absorb].party ELSE <<>>
      <4>1. keep \in CallIds /\ absorb \in CallIds BY <2>3, <2>4, <2>8
      <4>2. moved = (IF Runs(s, absorb, late) THEN s.call[absorb].party ELSE <<>>) OBVIOUS
      <4> HIDE DEF t, moved, k, o
      <4>3. /\ t.at = [c \in Channels |-> IF c \in DOMAIN moved THEN keep ELSE s.at[c]]
            /\ t.call[keep].stopped = s.call[keep].stopped
            /\ t.call[keep].mailbox = s.call[keep].mailbox
            /\ t.call[absorb].stopped
        BY <2>1, <2>8, <3>2, <4>1, <4>2, MergeEffect
      <4>4. t.at[ev.chan] = keep \/ t.at[ev.chan] = k BY <2>2, <4>3 DEF k
      <4>5. IsWaited(s, keep) BY <2>8 DEF k, o
      <4>6. IsWaited(t, keep) BY <4>3, <4>5 DEF IsWaited
      <4>7. k = absorb \/ k = keep BY <1>2, <2>8
      <4>8. IsWaited(t, absorb) BY <4>3 DEF IsWaited
      <4> QED BY <4>4, <4>6, <4>7, <4>8
    <3> QED BY <3>1, <3>2
  <2> QED BY <2>15, <2>16
<1> QED BY <1>1, <1>2

\* What a call is when it is made: running, without legs and without events.
IsMade(r) == /\ r.known /\ ~r.stopped /\ ~r.ended
             /\ DOMAIN r.party = {} /\ Len(r.mailbox) = 0

\* The state with a call for the id k.
CallFor(s, k) == CreateCall(s, k, TRUE)

LEMMA CreateEffect ==
    ASSUME NEW v, NEW w, NEW s \in States(v, w), NEW k \in CallIds, ~s.call[k].known
    PROVE  LET t == CallFor(s, k) IN
           /\ t.at = s.at
           /\ \A j \in CallIds : j # k => t.call[j] = s.call[j]
           /\ IsMade(t.call[k]) /\ t.call[k].minted
<1> DEFINE t == CallFor(s, k)
           r == [NoCall EXCEPT !.known = TRUE, !.stopped = FALSE, !.ended = FALSE, !.minted = TRUE]
<1> SUFFICES /\ t.at = s.at
             /\ \A j \in CallIds : j # k => t.call[j] = s.call[j]
             /\ IsMade(t.call[k]) /\ t.call[k].minted
  OBVIOUS
<1>1. t = [s EXCEPT !.call[k] = r] BY DEF CreateCall, CallFor
<1>2. s.call \in [CallIds -> CallRecords] BY DEF States
<1>3. IsMade(r) /\ r.minted BY DEF NoCall, IsMade
<1> HIDE DEF r, t
<1>4. t.at = s.at /\ t.call = [s.call EXCEPT ![k] = r] BY <1>1 DEF States
<1> QED BY <1>2, <1>3, <1>4

\* A call made for an id has no leg yet.
LEMMA CreateKeeps ==
    ASSUME Conversations, NEW v, NEW w, NEW s \in States(v, w), NEW q, Sound(s, q), NEW k \in Ids
    PROVE  LET t == CallFor(s, k) IN
           /\ Sound(t, q) /\ t.call[k].known /\ t.at = s.at
           /\ \A j \in CallIds : j # k => t.call[j] = s.call[j]
<1> DEFINE t == CallFor(s, k)
<1> SUFFICES /\ Sound(t, q) /\ t.call[k].known /\ t.at = s.at
             /\ \A j \in CallIds : j # k => t.call[j] = s.call[j]
  OBVIOUS
<1>1. k \in CallIds /\ k \notin Channels /\ k # NoOne
  BY CallsAssumption DEF CallIds, Conversations
<1>2. CASE s.call[k].known
  <2>1. t = s BY <1>2 DEF CreateCall, CallFor
  <2> QED BY <1>2, <2>1
<1>3. CASE ~s.call[k].known
  <2>1. /\ t.at = s.at
        /\ \A j \in CallIds : j # k => t.call[j] = s.call[j]
        /\ IsMade(t.call[k]) /\ t.call[k].minted
    BY <1>1, <1>3, CreateEffect
  <2> HIDE DEF t
  <2>a. /\ t.call[k].known /\ ~t.call[k].stopped /\ ~t.call[k].ended
        /\ DOMAIN t.call[k].party = {} /\ Len(t.call[k].mailbox) = 0
    BY <2>1 DEF IsMade
  <2>2. \A c \in Channels : s.at[c] # k BY <1>1, <1>3 DEF Sound, Registered, Bindings
  <2>3. \A c \in Channels : s.at[c] # NoOne => s.at[c] \in CallIds BY DEF States
  <2>4. \A c : ~Has(t.call, k, c) BY <2>a DEF Has
  <2>5. \A c : ~Says(t.call[k].mailbox, "hangup", c) BY <2>a DEF Says
  <2>6. Flags(t.call, t.at)
    <3> SUFFICES ASSUME NEW j \in CallIds
                 PROVE  /\ ~t.call[j].known => t.call[j] = NoCall
                        /\ t.call[j].ended => t.call[j].stopped
                        /\ t.call[j].known => (t.call[j].minted <=> j \in Ids)
                        /\ WasAbsorbed(t.call, j) => /\ t.call[j].mailbox = <<>> /\ j \notin Ids
                                                     /\ \A c \in Channels : t.at[c] # j
      BY DEF Flags
    <3>1. CASE j = k BY <2>1, <2>a, <3>1 DEF WasAbsorbed
    <3>2. CASE j # k BY <2>1, <3>2 DEF Sound, Registered, Flags, WasAbsorbed
    <3> QED BY <3>1, <3>2
  <2>7. Bindings(t.call, t.at)
    <3>1. \A c \in Channels : t.at[c] # NoOne => c \in Legs /\ t.call[t.at[c]].known /\ IsKin(c, t.at[c])
      BY <2>1, <2>2, <2>3, <2>a DEF Sound, Registered, Bindings
    <3>2. ASSUME NEW j \in CallIds, IsRunning(t.call, j)
          PROVE  \A c \in Channels : t.at[c] = j <=> Has(t.call, j, c)
      <4>1. CASE j = k BY <2>1, <2>2, <2>4, <4>1
      <4>2. CASE j # k BY <2>1, <3>2, <4>2 DEF Sound, Registered, Bindings, IsRunning, Has
      <4> QED BY <4>1, <4>2
    <3>3. ASSUME NEW j \in Channels, IsRunning(t.call, j) PROVE Has(t.call, j, j)
      <4>1. j \in CallIds /\ j # k BY <1>1 DEF CallIds
      <4> QED BY <2>1, <3>3, <4>1 DEF Sound, Registered, Bindings, IsRunning, Has
    <3> QED BY <3>1, <3>2, <3>3 DEF Bindings
  <2>8. Strays(t.call, t.at, q) BY <2>1, <2>2, <2>3, <2>a DEF Sound, Accounted, Strays
  <2>9. Ends(t.call, q)
    <3> SUFFICES ASSUME NEW j \in CallIds, NEW c \in Channels
                 PROVE  /\ t.call[j].known /\ Says(t.call[j].mailbox, "hangup", c) => IsDone(q, c)
                        /\ Has(t.call, j, c) /\ t.call[j].party[c].state = "RELEASED" => IsDone(q, c)
      BY DEF Ends
    <3>1. CASE j = k BY <2>4, <2>5, <3>1
    <3>2. CASE j # k BY <2>1, <3>2 DEF Sound, Accounted, Ends, Has
    <3> QED BY <3>1, <3>2
  <2>10. Births(t.call, t.at, q)
    <3> SUFFICES ASSUME NEW c \in Channels, IsNew(s.call, s.at, c) PROVE IsNew(t.call, t.at, c)
      BY DEF Births, Sound, Accounted
    <3>1. c # k /\ c \in CallIds BY <1>1 DEF CallIds
    <3> QED BY <2>1, <2>4, <3>1 DEF IsNew, Has
  <2>11. Deaths(t.call, q) BY <2>1, <2>4 DEF Sound, Accounted, Deaths, IsComing, IsRunning, Has
  <2>12. Recorded(t.call, q) BY <2>1, <2>4 DEF Sound, Accounted, Recorded, IsRunning, Has
  <2> QED BY <2>1, <2>a, <2>6, <2>7, <2>8, <2>9, <2>10, <2>11, <2>12 DEF Sound, Registered, Accounted
<1> QED BY <1>2, <1>3

\* A call that gives its legs up to the one its event names runs, and nothing is
\* posted to it.
LEMMA Reidentified ==
    ASSUME Conversations, scenario \in Scenarios,
           NEW v, NEW w, NEW s \in States(v, w), NEW q \in Seq(Events), q # <<>>, Sound(s, q),
           NEW ev, ev = Head(q), IsTrue(ev), NEW late, IsWaited(s, s.at[ev.chan]),
           NEW bound, bound = s.at[ev.chan],
           ev.id # NoOne, bound \notin {NoOne, ev.id}, ~IsMintedID(s, bound, late)
    PROVE  /\ Reidentify(s, ev, late) = Merge(CallFor(s, ev.id), ev.id, bound, late)
           /\ ev.chan \in Legs /\ ev.chan \in Channels /\ ev.id = Leg(ev.chan).id /\ ev.id \in Ids
           /\ Leg(RootOf(ev.chan)).id = ev.id
           /\ bound \in CallIds /\ bound \notin Ids /\ RootOf(ev.chan) = RootOf(bound)
           /\ IsRunning(s.call, bound) /\ s.call[bound].mailbox = <<>>
           /\ ~WasAbsorbed(s.call, bound)
<1>1. Reidentify(s, ev, late) = Merge(CallFor(s, ev.id), ev.id, bound, late)
  BY DEF Reidentify, CallFor
<1>2. /\ ev.chan \in Legs /\ ev.chan \in Channels /\ ev.id = Leg(ev.chan).id /\ ev.id \in Ids
      /\ Leg(RootOf(ev.chan)).id = ev.id
  BY PlanFacts DEF IsTrue
<1>3. /\ bound \in CallIds /\ s.call[bound].known /\ ~WasAbsorbed(s.call, bound)
      /\ IsKin(ev.chan, bound)
      /\ s.call[bound].stopped <=> s.call[bound].ended
  BY <1>2, BoundCalls DEF Sound
<1>4. bound \notin Ids /\ RootOf(ev.chan) = RootOf(bound) BY <1>2, <1>3 DEF IsKin
<1>5. ~s.call[bound].ended
  <2> SUFFICES ASSUME s.call[bound].ended PROVE FALSE OBVIOUS
  <2>1. IsDone(q, ev.chan) \/ Leg(ev.chan).id = NoOne
    BY <1>2, <1>4 DEF Sound, Accounted, Strays
  <2>2. IsDone(q, ev.chan) => Repeats(ev, ev.chan) BY DoneTail
  <2> QED BY <1>2, <2>1, <2>2 DEF Repeats
<1>6. IsRunning(s.call, bound) /\ s.call[bound].mailbox = <<>>
  BY <1>3, <1>5 DEF IsRunning, IsWaited
<1> QED BY <1>1, <1>2, <1>3, <1>4, <1>6

LEMMA ReidentifyKeeps ==
    ASSUME Conversations, scenario \in Scenarios,
           NEW v, NEW w, NEW s \in States(v, w), NEW q \in Seq(Events), q # <<>>, Sound(s, q),
           NEW ev, ev = Head(q), IsTrue(ev), NEW late, IsWaited(s, s.at[ev.chan])
    PROVE  Sound(Reidentify(s, ev, late), q)
<1> DEFINE bound == s.at[ev.chan]
           made == CallFor(s, ev.id)
<1>1. CASE ev.id = NoOne \/ bound \in {NoOne, ev.id} \/ IsMintedID(s, bound, late)
  <2>1. Reidentify(s, ev, late) = s BY <1>1 DEF Reidentify
  <2> QED BY <2>1
<1>2. CASE ~(ev.id = NoOne \/ bound \in {NoOne, ev.id} \/ IsMintedID(s, bound, late))
  <2>1. /\ Reidentify(s, ev, late) = Merge(made, ev.id, bound, late)
        /\ ev.id \in Ids /\ Leg(RootOf(ev.chan)).id = ev.id
        /\ bound \in CallIds /\ bound \notin Ids /\ RootOf(ev.chan) = RootOf(bound)
        /\ IsRunning(s.call, bound) /\ s.call[bound].mailbox = <<>>
        /\ ~WasAbsorbed(s.call, bound)
    BY <1>2, Reidentified
  <2>2. made \in States(v, w) /\ ev.id \in CallIds BY <2>1, CreateCallType DEF CallIds, CallFor
  <2>3. Sound(made, q) /\ made.call[ev.id].known /\ made.at = s.at BY <2>1, CreateKeeps
  <2>4. made.call[bound] = s.call[bound] BY <1>2, <2>1, CreateKeeps
  <2> HIDE DEF made
  <2>5. ASSUME NEW c \in Channels, made.at[c] = bound PROVE IsKin(c, ev.id)
    <3>1. IsKin(c, bound) BY <1>2, <2>3, <2>5, BoundCalls DEF Sound
    <3> QED BY <2>1, <3>1 DEF IsKin
  <2>6. ~WasAbsorbed(made.call, ev.id) BY <2>1, <2>2, <2>3 DEF Sound, Registered, Flags
  <2>7. MayAbsorb(made, ev.id, bound, late)
    BY <1>2, <2>1, <2>2, <2>3, <2>4, <2>5, <2>6
    DEF MayAbsorb, IsRunning, WasAbsorbed
  <2> QED BY <2>1, <2>2, <2>3, <2>7, MergeRegistered, MergeAccounted DEF Sound
<1> QED BY <1>1, <1>2

-----------------------------------------------------------------------------
(***************************************************************************)
(* Adopting a leg.                                                         *)
(***************************************************************************)
\* The call r with the leg c added to it, and otherwise as it was (p).
Adds(r, p, c) ==
    /\ r.known = p.known /\ r.stopped = p.stopped /\ r.ended = p.ended
    /\ r.minted = p.minted /\ r.mailbox = p.mailbox
    /\ DOMAIN r.party = DOMAIN p.party \cup {c}
    /\ \A d \in DOMAIN p.party : r.party[d] = p.party[d]
    /\ r.party[c].state # "RELEASED"

LEMMA AddEffect ==
    ASSUME NEW v, NEW w, NEW s \in States(v, w), NEW k \in CallIds, NEW c \in Channels, NEW late,
           c \notin DOMAIN s.call[k].party, NEW t, t = AddParty(s, k, c, late)
    PROVE  /\ t.at = s.at
           /\ \A j \in CallIds : j # k => t.call[j] = s.call[j]
           /\ IF Runs(s, k, late) THEN Adds(t.call[k], s.call[k], c) ELSE t.call[k] = s.call[k]
<1> DEFINE p == s.call[k].party
           r == [s.call[k] EXCEPT !.party = With(p, c, NewParty(p))]
           u == [s EXCEPT !.call[k] = r]
<1>1. CASE ~Runs(s, k, late)
  <2>1. t = s BY <1>1 DEF AddParty
  <2> QED BY <1>1, <2>1
<1>2. CASE Runs(s, k, late)
  <2>1. s.call[k] \in CallRecords /\ s.call \in [CallIds -> CallRecords] BY DEF States
  <2>2. t = SetOnCall([s EXCEPT !.call[k].party = With(@, c, NewParty(@))], AgentOf(c), TRUE)
    BY <1>2 DEF AddParty
  <2>3. [s EXCEPT !.call[k].party = With(@, c, NewParty(@))] = u
    BY <2>1 DEF States, CallRecords
  <2>4. Adds(r, s.call[k], c)
    <3>1. /\ r.known = s.call[k].known /\ r.stopped = s.call[k].stopped
          /\ r.ended = s.call[k].ended /\ r.minted = s.call[k].minted
          /\ r.mailbox = s.call[k].mailbox /\ r.party = With(p, c, NewParty(p))
      BY <2>1 DEF CallRecords
    <3>2. NewParty(p).state # "RELEASED" BY DEF NewParty
    <3> QED BY <3>1, <3>2 DEF Adds, With
  <2> HIDE DEF r
  <2>5. u.at = s.at /\ u.call = [s.call EXCEPT ![k] = r]
    BY DEF States
  <2>6. t = SetOnCall(u, AgentOf(c), TRUE) BY <2>2, <2>3
  <2>7. t.at = u.at /\ t.call = u.call BY <2>6 DEF SetOnCall, States
  <2> QED BY <1>2, <2>1, <2>4, <2>5, <2>7
<1> QED BY <1>1, <1>2

LEMMA AdoptEffect ==
    ASSUME NEW v, NEW w, NEW s \in States(v, w), NEW ev, NEW c \in Channels, c = ev.chan,
           NEW k \in CallIds, k = AdoptInto(s, ev), s.at[c] = NoOne, NEW late,
           \A j \in CallIds : c \notin DOMAIN s.call[j].party,
           NEW t, t = Adopt(s, ev, late)
    PROVE  /\ t.at = [s.at EXCEPT ![c] = k]
           /\ \A j \in CallIds : j # k => t.call[j] = s.call[j]
           /\ ~s.call[k].known => /\ IsRunning(t.call, k) /\ ~t.call[k].ended
                                  /\ t.call[k].minted <=> ev.id # NoOne
                                  /\ Len(t.call[k].mailbox) = 0
                                  /\ DOMAIN t.call[k].party = {c}
                                  /\ t.call[k].party[c].state # "RELEASED"
           /\ s.call[k].known => IF Runs(s, k, late) THEN Adds(t.call[k], s.call[k], c)
                                 ELSE t.call[k] = s.call[k]
<1> DEFINE one == CreateCall(s, k, ev.id # NoOne)
           two == BindChannel(one, c, k)
<1>1. t = AddParty(two, k, c, late) BY DEF Adopt
<1>2. one \in States(v, w) BY CreateCallType
<1>3. two \in States(v, w) BY <1>2, BindChannelType
<1>4. /\ one.at = s.at
      /\ \A j \in CallIds : j # k => one.call[j] = s.call[j]
      /\ s.call[k].known => one.call[k] = s.call[k]
      /\ ~s.call[k].known => /\ IsMade(one.call[k])
                             /\ one.call[k].minted <=> ev.id # NoOne
  <2>1. CASE s.call[k].known
    <3>1. one = s BY <2>1 DEF CreateCall
    <3> QED BY <2>1, <3>1
  <2>2. CASE ~s.call[k].known
    <3> DEFINE r == [NoCall EXCEPT !.known = TRUE, !.stopped = FALSE, !.ended = FALSE,
                                   !.minted = (ev.id # NoOne)]
    <3>1. one = [s EXCEPT !.call[k] = r] BY <2>2 DEF CreateCall
    <3>a. IsMade(r) BY DEF NoCall, IsMade
    <3>b. r.minted = (ev.id # NoOne) BY DEF NoCall
    <3> HIDE DEF r, one
    <3>2. r.minted <=> ev.id # NoOne BY <3>b
    <3>3. one.at = s.at /\ one.call = [s.call EXCEPT ![k] = r] BY <3>1 DEF States
    <3>4. s.call \in [CallIds -> CallRecords] BY DEF States
    <3> QED BY <2>2, <3>a, <3>2, <3>3, <3>4
  <2> QED BY <2>1, <2>2
<1> HIDE DEF one
<1>5. two.call = one.call /\ two.at = [s.at EXCEPT ![c] = k]
  BY <1>2, <1>4 DEF BindChannel, States
<1> HIDE DEF two
<1>6. c \notin DOMAIN two.call[k].party BY <1>4, <1>5 DEF IsMade
<1>7. /\ t.at = two.at
      /\ \A j \in CallIds : j # k => t.call[j] = two.call[j]
      /\ IF Runs(two, k, late) THEN Adds(t.call[k], two.call[k], c)
         ELSE t.call[k] = two.call[k]
  BY <1>1, <1>3, <1>6, AddEffect
<1>8. ASSUME s.call[k].known
      PROVE  IF Runs(s, k, late) THEN Adds(t.call[k], s.call[k], c) ELSE t.call[k] = s.call[k]
  <2>1. two.call[k] = s.call[k] BY <1>4, <1>5, <1>8
  <2> QED BY <1>7, <2>1 DEF Runs
<1>9. ASSUME ~s.call[k].known
      PROVE  /\ IsRunning(t.call, k) /\ ~t.call[k].ended
             /\ t.call[k].minted <=> ev.id # NoOne
             /\ Len(t.call[k].mailbox) = 0
             /\ DOMAIN t.call[k].party = {c}
             /\ t.call[k].party[c].state # "RELEASED"
  <2>1. IsMade(two.call[k]) /\ (two.call[k].minted <=> ev.id # NoOne) BY <1>4, <1>5, <1>9
  <2>2. Runs(two, k, late) BY <2>1 DEF Runs, IsMade
  <2>3. Adds(t.call[k], two.call[k], c) BY <1>7, <2>2
  <2> QED BY <2>1, <2>3 DEF Adds, IsMade, IsRunning
<1> QED BY <1>4, <1>5, <1>7, <1>8, <1>9

\* The call a leg is adopted into is new, or one of its conversation.
LEMMA AdoptsInto ==
    ASSUME Conversations, scenario \in Scenarios,
           NEW v, NEW w, NEW s \in States(v, w), NEW q \in Seq(Events), q # <<>>, Sound(s, q),
           NEW ev, ev = Head(q), IsTrue(ev), ev.kind = "create", NEW late
    PROVE  LET k == AdoptInto(s, ev) IN
           /\ k \in CallIds /\ IsKin(ev.chan, k) /\ ~WasAbsorbed(s.call, k)
           /\ ~s.call[k].known => (k \in Ids <=> ev.id # NoOne) /\ (k \in Channels => k = ev.chan)
           /\ k \notin Ids /\ s.call[k].ended /\ s.call[k].known =>
                  /\ Leg(ev.chan).from # NoOne /\ Leg(ev.chan).id = NoOne
                  /\ IsDone(q, Leg(ev.chan).from)
<1> DEFINE c == ev.chan
           p == ParentOf(c)
           k == AdoptInto(s, ev)
<1>1. c \in Legs /\ c \in Channels /\ NoOne \notin Channels \cup Ids
  BY PlanFacts, CallsAssumption DEF IsTrue
<1>2. IsNew(s.call, s.at, c)
  <2>1. Says(q, "create", c) BY SaysTail
  <2> QED BY <1>1, <2>1 DEF Sound, Accounted, Births
<1>3. CASE ev.id # NoOne
  <2>1. k = ev.id BY <1>3 DEF AdoptInto
  <2>2. k \in Ids /\ IsKin(c, k) BY <1>1, <1>3, <2>1, PlanFacts DEF IsTrue, IsKin
  <2>3. k \in CallIds /\ k \notin Channels BY <2>2 DEF CallIds, Conversations
  <2>4. ~WasAbsorbed(s.call, k) BY <2>2, <2>3 DEF Sound, Registered, Flags
  <2> QED BY <1>3, <2>2, <2>3, <2>4
<1>4. CASE ev.id = NoOne /\ p # NoOne /\ s.at[p] # NoOne
  <2>1. k = s.at[p] BY <1>4 DEF AdoptInto
  <2>2. /\ p \in Legs /\ p \in Channels /\ Leg(c).from = p /\ Leg(c).id = NoOne
        /\ Leg(p).from = NoOne
    BY <1>1, <1>4, PlanFacts
  <2>3. k \in CallIds /\ s.call[k].known /\ ~WasAbsorbed(s.call, k) /\ IsKin(p, k)
    BY <1>4, <2>1, <2>2, BoundCalls DEF Sound
  <2>4. IsKin(c, k) BY <1>1, <2>2, <2>3, KinFollows
  <2>5. k \notin Ids /\ s.call[k].ended => IsDone(q, p)
    BY <1>4, <2>1, <2>2 DEF Sound, Accounted, Strays
  <2> QED BY <1>4, <2>2, <2>3, <2>4, <2>5
<1>5. CASE ev.id = NoOne /\ ~(p # NoOne /\ s.at[p] # NoOne)
  <2>1. k = c BY <1>5 DEF AdoptInto
  <2>2. k \in CallIds /\ k \notin Ids BY <1>1, <2>1 DEF CallIds, Conversations
  <2>3. ~s.call[k].known BY <1>2, <2>1 DEF IsNew
  <2>4. IsKin(c, k) BY <2>1, <2>2 DEF IsKin
  <2> QED BY <1>5, <2>1, <2>2, <2>3, <2>4 DEF WasAbsorbed
<1> QED BY <1>3, <1>4, <1>5

LEMMA AdoptRegistered ==
    ASSUME Conversations, scenario \in Scenarios,
           NEW v, NEW w, NEW s \in States(v, w), NEW q \in Seq(Events), q # <<>>, Sound(s, q),
           NEW ev, ev = Head(q), IsTrue(ev), ev.kind = "create", NEW late
    PROVE  LET t == Adopt(s, ev, late) IN Registered(t.call, t.at)
<1> DEFINE c == ev.chan
           k == AdoptInto(s, ev)
           t == Adopt(s, ev, late)
<1> SUFFICES Registered(t.call, t.at) OBVIOUS
<1>1. c \in Legs /\ c \in Channels /\ c \in CallIds /\ NoOne \notin CallIds
  BY PlanFacts, CallsAssumption DEF IsTrue, CallIds
<1>2. s.at[c] = NoOne /\ ~s.call[c].known /\ \A j \in CallIds : c \notin DOMAIN s.call[j].party
  <2>1. Says(q, "create", c) BY SaysTail
  <2> QED BY <1>1, <2>1 DEF Sound, Accounted, Births, IsNew, Has
<1>3. /\ k \in CallIds /\ IsKin(c, k) /\ ~WasAbsorbed(s.call, k)
      /\ ~s.call[k].known => (k \in Ids <=> ev.id # NoOne) /\ (k \in Channels => k = c)
  BY AdoptsInto
<1> HIDE DEF c, k, t
<1>4. /\ t.at = [s.at EXCEPT ![c] = k]
      /\ \A j \in CallIds : j # k => t.call[j] = s.call[j]
      /\ ~s.call[k].known => /\ IsRunning(t.call, k) /\ ~t.call[k].ended
                             /\ t.call[k].minted <=> ev.id # NoOne
                             /\ DOMAIN t.call[k].party = {c}
      /\ s.call[k].known => IF Runs(s, k, late) THEN Adds(t.call[k], s.call[k], c)
                            ELSE t.call[k] = s.call[k]
  BY <1>1, <1>2, <1>3, AdoptEffect DEF c, k, t
<1>5. \A d \in Channels : t.at[d] = IF d = c THEN k ELSE s.at[d] BY <1>4 DEF States
<1>6. \A d \in Channels : s.at[d] # NoOne => s.at[d] \in CallIds /\ s.call[s.at[d]].known
  BY DEF States, Sound, Registered, Bindings
<1>7. ASSUME s.call[k].known
      PROVE  /\ t.call[k].known /\ t.call[k].stopped = s.call[k].stopped
             /\ t.call[k].ended = s.call[k].ended /\ t.call[k].minted = s.call[k].minted
  BY <1>4, <1>7 DEF Adds
<1>8. t.call[k].known BY <1>4, <1>7 DEF IsRunning
<1>9. Flags(t.call, t.at)
  <2> SUFFICES ASSUME NEW j \in CallIds
               PROVE  /\ ~t.call[j].known => t.call[j] = NoCall
                      /\ t.call[j].ended => t.call[j].stopped
                      /\ t.call[j].known => (t.call[j].minted <=> j \in Ids)
                      /\ WasAbsorbed(t.call, j) => /\ t.call[j].mailbox = <<>> /\ j \notin Ids
                                                   /\ \A d \in Channels : t.at[d] # j
    BY DEF Flags
  <2>0. /\ ~s.call[j].known => s.call[j] = NoCall
        /\ s.call[j].ended => s.call[j].stopped
        /\ s.call[j].known => (s.call[j].minted <=> j \in Ids)
        /\ WasAbsorbed(s.call, j) => /\ s.call[j].mailbox = <<>> /\ j \notin Ids
                                     /\ \A d \in Channels : s.at[d] # j
    BY DEF Sound, Registered, Flags
  <2>1. CASE j # k BY <1>4, <1>5, <2>0, <2>1 DEF WasAbsorbed
  <2>2. CASE j = k /\ s.call[k].known BY <1>3, <1>7, <2>0, <2>2 DEF WasAbsorbed
  <2>3. CASE j = k /\ ~s.call[k].known BY <1>3, <1>4, <2>3 DEF WasAbsorbed, IsRunning
  <2> QED BY <2>1, <2>2, <2>3
<1>10. Bindings(t.call, t.at)
  <2>1. ASSUME NEW d \in Channels, t.at[d] # NoOne
        PROVE  d \in Legs /\ t.call[t.at[d]].known /\ IsKin(d, t.at[d])
    <3>1. CASE d = c BY <1>1, <1>3, <1>5, <1>8, <3>1
    <3>2. CASE d # c
      <4>1. t.at[d] = s.at[d] /\ s.at[d] \in CallIds /\ s.call[s.at[d]].known
        BY <1>5, <1>6, <2>1, <3>2
      <4>2. t.call[s.at[d]].known BY <1>4, <1>8, <4>1
      <4> QED BY <2>1, <4>1, <4>2 DEF Sound, Registered, Bindings
    <3> QED BY <3>1, <3>2
  <2>2. ASSUME NEW j \in CallIds, IsRunning(t.call, j)
        PROVE  /\ \A d \in Channels : t.at[d] = j <=> Has(t.call, j, d)
               /\ j \in Channels => Has(t.call, j, j)
    <3>1. CASE j # k
      <4>1. IsRunning(s.call, j) /\ t.call[j] = s.call[j] BY <1>4, <2>2, <3>1 DEF IsRunning
      <4>2. /\ \A d \in Channels : s.at[d] = j <=> Has(s.call, j, d)
            /\ j \in Channels => Has(s.call, j, j)
        BY <4>1 DEF Sound, Registered, Bindings
      <4> QED BY <1>1, <1>2, <1>5, <3>1, <4>1, <4>2 DEF Has
    <3>2. CASE j = k /\ s.call[k].known
      <4>1. IsRunning(s.call, k) /\ Runs(s, k, late) BY <1>7, <2>2, <3>2 DEF IsRunning, Runs
      <4>2. /\ \A d \in Channels : s.at[d] = j <=> Has(s.call, j, d)
            /\ j \in Channels => Has(s.call, j, j)
        BY <3>2, <4>1 DEF Sound, Registered, Bindings
      <4>3. DOMAIN t.call[k].party = DOMAIN s.call[k].party \cup {c}
        BY <1>4, <3>2, <4>1 DEF Adds
      <4> QED BY <1>5, <3>2, <4>2, <4>3 DEF Has
    <3>3. CASE j = k /\ ~s.call[k].known
      <4>1. DOMAIN t.call[k].party = {c} BY <1>4, <3>3
      <4>2. \A d \in Channels : s.at[d] # k BY <1>1, <1>3, <1>6, <3>3
      <4> QED BY <1>3, <1>5, <3>3, <4>1, <4>2 DEF Has
    <3> QED BY <3>1, <3>2, <3>3
  <2> QED BY <2>1, <2>2 DEF Bindings, CallIds
<1> QED BY <1>9, <1>10 DEF Registered

LEMMA AdoptAccounted ==
    ASSUME Conversations, scenario \in Scenarios,
           NEW v, NEW w, NEW s \in States(v, w), NEW q \in Seq(Events), q # <<>>, Sound(s, q),
           Ordered(q), NEW ev, ev = Head(q), ev.kind = "create", NEW late
    PROVE  LET t == Adopt(s, ev, late) IN Accounted(t.call, t.at, Tail(q))
<1> DEFINE c == ev.chan
           k == AdoptInto(s, ev)
           t == Adopt(s, ev, late)
           f == Tail(q)
<1> SUFFICES Accounted(t.call, t.at, f) OBVIOUS
<1>0. IsTrue(ev) BY TailIs DEF Ordered
<1>1. c \in Legs /\ c \in Channels /\ c \in CallIds /\ NoOne \notin CallIds /\ chan[c] # "none"
  BY <1>0, PlanFacts, CallsAssumption DEF IsTrue, CallIds
<1>2. s.at[c] = NoOne /\ ~s.call[c].known /\ \A j \in CallIds : c \notin DOMAIN s.call[j].party
  <2>1. Says(q, "create", c) BY SaysTail
  <2> QED BY <1>1, <2>1 DEF Sound, Accounted, Births, IsNew, Has
<1>3. /\ k \in CallIds
      /\ ~s.call[k].known => (k \in Ids <=> ev.id # NoOne) /\ (k \in Channels => k = c)
      /\ k \notin Ids /\ s.call[k].ended /\ s.call[k].known =>
             Leg(c).from # NoOne /\ Leg(c).id = NoOne /\ IsDone(q, Leg(c).from)
  BY <1>0, AdoptsInto
<1>a. \A d : IsDone(q, d) => IsDone(f, d) /\ d # c
  <2>1. \A d : IsDone(q, d) => IsDone(f, d) /\ Repeats(ev, d) BY DoneTail
  <2> QED BY <2>1 DEF Repeats
<1>b. \A d : Says(q, "hangup", d) => Says(f, "hangup", d) BY SaysTail
<1>c. \A d : Says(f, "create", d) => Says(q, "create", d) /\ d # c
  <2> SUFFICES ASSUME NEW d, Says(f, "create", d) PROVE Says(q, "create", d) /\ d # c OBVIOUS
  <2>1. Says(q, "create", d) BY SaysTail
  <2>2. PICK i \in 1..Len(f) : f[i].kind = "create" /\ f[i].chan = d BY DEF Says
  <2>3. f[i] = q[i + 1] /\ i + 1 \in 1..Len(q) /\ 1 \in 1..Len(q) /\ q[1] = ev /\ 1 < i + 1
    BY TailIs
  <2>4. InOrder(q[1], q[i + 1]) BY <2>3 DEF Ordered
  <2> QED BY <2>1, <2>2, <2>3, <2>4 DEF InOrder
<1>d. chan[c] = "gone" => link = "down" \/ Says(f, "hangup", c)
  <2>1. Says(q, "create", c) BY SaysTail
  <2> QED BY <1>1, <1>b, <2>1 DEF Ordered
<1> HIDE DEF c, k, t, f
<1>4. /\ t.at = [s.at EXCEPT ![c] = k]
      /\ \A j \in CallIds : j # k => t.call[j] = s.call[j]
      /\ ~s.call[k].known => /\ IsRunning(t.call, k) /\ ~t.call[k].ended
                             /\ Len(t.call[k].mailbox) = 0
                             /\ DOMAIN t.call[k].party = {c}
                             /\ t.call[k].party[c].state # "RELEASED"
      /\ s.call[k].known => IF Runs(s, k, late) THEN Adds(t.call[k], s.call[k], c)
                            ELSE t.call[k] = s.call[k]
  BY <1>1, <1>2, <1>3, AdoptEffect DEF c, k, t
<1>5. \A d \in Channels : t.at[d] = IF d = c THEN k ELSE s.at[d] BY <1>4 DEF States
<1>6. \A d \in Channels : s.at[d] # NoOne => s.at[d] \in CallIds /\ s.call[s.at[d]].known
  BY DEF States, Sound, Registered, Bindings
<1>7. ASSUME s.call[k].known
      PROVE  /\ t.call[k].known /\ t.call[k].stopped = s.call[k].stopped
             /\ t.call[k].ended = s.call[k].ended /\ t.call[k].mailbox = s.call[k].mailbox
  BY <1>4, <1>7 DEF Adds

\* A leg of a call was there before, or is the one adopted.
<1>8. ASSUME NEW j \in CallIds, NEW d, Has(t.call, j, d)
      PROVE  \/ Has(s.call, j, d) /\ s.call[j].known /\ t.call[j].party[d] = s.call[j].party[d]
             \/ d = c /\ t.call[j].party[d].state # "RELEASED"
  <2>1. ~s.call[j].known => s.call[j] = NoCall BY DEF Sound, Registered, Flags
  <2>2. Has(s.call, j, d) => s.call[j].known BY <2>1 DEF Has, NoCall
  <2>3. CASE j # k BY <1>4, <1>8, <2>2, <2>3 DEF Has
  <2>4. CASE j = k /\ s.call[k].known BY <1>4, <1>8, <2>4, Zenon DEF Has, Adds
  <2>5. CASE j = k /\ ~s.call[k].known BY <1>4, <1>8, <2>5 DEF Has
  <2> QED BY <2>3, <2>4, <2>5
<1>9. ASSUME NEW j \in CallIds, IsRunning(t.call, j)
      PROVE  \/ IsRunning(s.call, j) /\ t.call[j].mailbox = s.call[j].mailbox
             \/ ~s.call[j].known
  <2>1. CASE j # k BY <1>4, <1>9, <2>1 DEF IsRunning
  <2>2. CASE j = k BY <1>7, <1>9, <2>2 DEF IsRunning
  <2> QED BY <2>1, <2>2
<1>10. Strays(t.call, t.at, f)
  <2> SUFFICES ASSUME NEW d \in Channels, t.at[d] # NoOne, t.at[d] \notin Ids,
                      t.call[t.at[d]].ended
               PROVE  \/ IsDone(f, d)
                      \/ Leg(d).from # NoOne /\ Leg(d).id = NoOne /\ IsDone(f, Leg(d).from)
    BY DEF Strays
  <2>1. CASE d = c
    <3>1. t.at[d] = k BY <1>5, <2>1
    <3>2. s.call[k].known /\ s.call[k].ended BY <1>4, <1>7, <3>1
    <3> QED BY <1>3, <1>a, <2>1, <3>1, <3>2
  <2>2. CASE d # c
    <3>1. t.at[d] = s.at[d] /\ s.at[d] \in CallIds /\ s.call[s.at[d]].known BY <1>5, <1>6, <2>2
    <3>2. s.call[s.at[d]].ended BY <1>4, <1>7, <3>1
    <3> QED BY <1>a, <3>1, <3>2 DEF Sound, Accounted, Strays
  <2> QED BY <2>1, <2>2
<1>11. Ends(t.call, f)
  <2> SUFFICES ASSUME NEW j \in CallIds, NEW d \in Channels
               PROVE  /\ t.call[j].known /\ Says(t.call[j].mailbox, "hangup", d) => IsDone(f, d)
                      /\ Has(t.call, j, d) /\ t.call[j].party[d].state = "RELEASED" => IsDone(f, d)
    BY DEF Ends
  <2>0. Ends(s.call, q) BY DEF Sound, Accounted
  <2>1. ASSUME Says(t.call[j].mailbox, "hangup", d), t.call[j].known PROVE IsDone(f, d)
    <3>1. s.call[j].known /\ t.call[j].mailbox = s.call[j].mailbox
      <4>1. CASE j # k BY <1>4, <2>1, <4>1
      <4>2. CASE j = k /\ s.call[k].known BY <1>7, <4>2
      <4>3. CASE j = k /\ ~s.call[k].known BY <1>4, <2>1, <4>3 DEF Says
      <4> QED BY <4>1, <4>2, <4>3
    <3> QED BY <1>a, <2>0, <2>1, <3>1 DEF Ends
  <2>2. ASSUME Has(t.call, j, d), t.call[j].party[d].state = "RELEASED" PROVE IsDone(f, d)
    BY <1>8, <1>a, <2>0, <2>2 DEF Ends
  <2> QED BY <2>1, <2>2
<1>12. Births(t.call, t.at, f)
  <2> SUFFICES ASSUME NEW d \in Channels, chan[d] = "none" \/ Says(f, "create", d)
               PROVE  IsNew(t.call, t.at, d)
    BY DEF Births
  <2>1. d # c BY <1>1, <1>c
  <2>2. IsNew(s.call, s.at, d) BY <1>c DEF Sound, Accounted, Births
  <2>3. d \in CallIds BY DEF CallIds
  <2>4. ~t.call[d].known
    <3>1. CASE d # k BY <1>4, <2>2, <2>3, <3>1 DEF IsNew
    <3>2. CASE d = k BY <1>3, <2>1, <2>2, <3>2 DEF IsNew
    <3> QED BY <3>1, <3>2
  <2> QED BY <1>5, <1>8, <2>1, <2>2, <2>4 DEF IsNew
<1>13. Deaths(t.call, f)
  <2> SUFFICES ASSUME NEW j \in CallIds, NEW d \in Channels, IsRunning(t.call, j),
                      Has(t.call, j, d), t.call[j].party[d].state # "RELEASED"
               PROVE  IsComing(t.call, j, d, f)
    BY DEF Deaths
  <2>1. CASE d = c BY <1>d, <2>1 DEF IsComing, IsDeaf
  <2>2. CASE d # c
    <3>1. Has(s.call, j, d) /\ s.call[j].known /\ t.call[j].party[d] = s.call[j].party[d]
      BY <1>8, <2>2
    <3>2. IsRunning(s.call, j) /\ t.call[j].mailbox = s.call[j].mailbox BY <1>9, <3>1
    <3>3. IsComing(s.call, j, d, q) BY <3>1, <3>2 DEF Sound, Accounted, Deaths
    <3> QED BY <1>b, <3>2, <3>3 DEF IsComing
  <2> QED BY <2>1, <2>2
<1>14. Recorded(t.call, f)
  <2> SUFFICES ASSUME NEW r \in rows \cup toWrite, NEW d \in r.legs
               PROVE  /\ d \in Channels /\ IsDone(f, d)
                      /\ \A j \in CallIds : IsRunning(t.call, j) => ~Has(t.call, j, d)
    BY DEF Recorded
  <2>1. /\ d \in Channels /\ IsDone(q, d)
        /\ \A j \in CallIds : IsRunning(s.call, j) => ~Has(s.call, j, d)
    BY DEF Sound, Accounted, Recorded
  <2>2. IsDone(f, d) /\ d # c BY <1>a, <2>1
  <2>3. ASSUME NEW j \in CallIds, IsRunning(t.call, j), Has(t.call, j, d) PROVE FALSE
    BY <1>8, <1>9, <2>1, <2>2, <2>3
  <2> QED BY <2>1, <2>2, <2>3
<1> QED BY <1>10, <1>11, <1>12, <1>13, <1>14 DEF Accounted

-----------------------------------------------------------------------------
(***************************************************************************)
(* Posting an event to the call its channel is bound to.                   *)
(***************************************************************************)
LEMMA DispatchEffect ==
    ASSUME NEW v, NEW w, NEW s \in States(v, w), NEW ev \in Events, NEW t, t = Dispatch(s, ev)
    PROVE  /\ t.at = s.at
           /\ \A j \in CallIds : /\ t.call[j].known = s.call[j].known
                                 /\ t.call[j].stopped = s.call[j].stopped
                                 /\ t.call[j].ended = s.call[j].ended
                                 /\ t.call[j].minted = s.call[j].minted
                                 /\ t.call[j].party = s.call[j].party
                                 /\ t.call[j].mailbox =
                                       IF j = s.at[ev.chan] /\ ~s.call[j].stopped
                                       THEN Append(s.call[j].mailbox, ev) ELSE s.call[j].mailbox
                                 /\ j # s.at[ev.chan] => t.call[j] = s.call[j]
                                 /\ s.call[j].stopped => t.call[j] = s.call[j]
<1> DEFINE k == s.at[ev.chan]
           box == Append(s.call[k].mailbox, ev)
           r == [s.call[k] EXCEPT !.mailbox = box]
<1>1. k \in CallIds \cup {NoOne} /\ NoOne \notin CallIds BY CallsAssumption DEF States, Events, CallIds
<1>2. CASE k = NoOne \/ s.call[k].stopped
  <2>1. t = s BY <1>2 DEF Dispatch
  <2> QED BY <1>1, <1>2, <2>1
<1>3. CASE ~(k = NoOne \/ s.call[k].stopped)
  <2>1. k \in CallIds BY <1>1, <1>3
  <2>2. s.call[k] \in CallRecords /\ s.call \in [CallIds -> CallRecords] BY <2>1 DEF States
  <2>3. t = [s EXCEPT !.call[k] = r]
    BY <1>3, <2>2 DEF Dispatch, States, CallRecords
  <2>4. /\ r.known = s.call[k].known /\ r.stopped = s.call[k].stopped
        /\ r.ended = s.call[k].ended /\ r.minted = s.call[k].minted
        /\ r.party = s.call[k].party /\ r.mailbox = box
    BY <2>2 DEF CallRecords
  <2> HIDE DEF r, box, k
  <2>5. t.at = s.at /\ t.call = [s.call EXCEPT ![k] = r] BY <2>3 DEF States
  <2>6. t.call[k] = r /\ \A j \in CallIds : j # k => t.call[j] = s.call[j] BY <2>1, <2>2, <2>5
  <2>7. \A j \in CallIds : j # s.at[ev.chan] <=> j # k BY DEF k
  <2> QED BY <1>3, <2>4, <2>5, <2>6, <2>7, Zenon DEF box, k
<1> QED BY <1>2, <1>3

LEMMA SaysAppend ==
    ASSUME NEW m \in Seq(Events), NEW ev \in Events, NEW kind, NEW c
    PROVE  Says(Append(m, ev), kind, c) <=> Says(m, kind, c) \/ (ev.kind = kind /\ ev.chan = c)
<1> DEFINE g == Append(m, ev)
<1>1. /\ Len(g) = Len(m) + 1 /\ Len(m) \in Nat /\ g[Len(m) + 1] = ev
      /\ \A i \in 1..Len(m) : g[i] = m[i]
  OBVIOUS
<1> HIDE DEF g
<1>2. 1..Len(g) = 1..Len(m) \cup {Len(m) + 1} BY <1>1
<1> QED BY <1>1, <1>2 DEF Says, g

\* With the head of the stream posted, everything is accounted for by the rest.
LEMMA DispatchKeeps ==
    ASSUME NEW v, NEW w, NEW s \in States(v, w), NEW q \in Seq(Events), q # <<>>,
           Registered(s.call, s.at), NEW f, f = Tail(q), NEW ev, ev = Head(q),
           Strays(s.call, s.at, f), Ends(s.call, f), Births(s.call, s.at, f),
           Recorded(s.call, f), Deaths(s.call, q), ev.kind = "hangup" => IsDone(f, ev.chan)
    PROVE  Sound(Dispatch(s, ev), f)
<1> DEFINE t == Dispatch(s, ev)
           k == s.at[ev.chan]
<1>0. ev \in Events BY TailIs
<1>1. /\ t.at = s.at
      /\ \A j \in CallIds : /\ t.call[j].known = s.call[j].known
                            /\ t.call[j].stopped = s.call[j].stopped
                            /\ t.call[j].ended = s.call[j].ended
                            /\ t.call[j].minted = s.call[j].minted
                            /\ t.call[j].party = s.call[j].party
                            /\ t.call[j].mailbox =
                                  IF j = k /\ ~s.call[j].stopped
                                  THEN Append(s.call[j].mailbox, ev) ELSE s.call[j].mailbox
                            /\ j # k => t.call[j] = s.call[j]
                            /\ s.call[j].stopped => t.call[j] = s.call[j]
  BY <1>0, DispatchEffect
<1>2. \A j \in CallIds : s.call[j].mailbox \in Seq(Events) BY DEF States, CallRecords
<1>3. \A c \in Channels : s.at[c] # NoOne => s.at[c] \in CallIds BY DEF States
<1> HIDE DEF t
<1>4. \A j \in CallIds : \A c : Has(t.call, j, c) <=> Has(s.call, j, c) BY <1>1 DEF Has
<1>5. \A j \in CallIds : IsRunning(t.call, j) <=> IsRunning(s.call, j) BY <1>1 DEF IsRunning
<1>6. \A j \in CallIds : \A c : Says(t.call[j].mailbox, "hangup", c) <=>
          \/ Says(s.call[j].mailbox, "hangup", c)
          \/ j = k /\ ~s.call[j].stopped /\ ev.kind = "hangup" /\ ev.chan = c
  BY <1>0, <1>1, <1>2, SaysAppend
<1>7. Flags(t.call, t.at)
  <2> SUFFICES ASSUME NEW j \in CallIds
               PROVE  /\ ~t.call[j].known => t.call[j] = NoCall
                      /\ t.call[j].ended => t.call[j].stopped
                      /\ t.call[j].known => (t.call[j].minted <=> j \in Ids)
                      /\ WasAbsorbed(t.call, j) => /\ t.call[j].mailbox = <<>> /\ j \notin Ids
                                                   /\ \A c \in Channels : t.at[c] # j
    BY DEF Flags
  <2>0. /\ ~s.call[j].known => s.call[j] = NoCall
        /\ s.call[j].ended => s.call[j].stopped
        /\ s.call[j].known => (s.call[j].minted <=> j \in Ids)
        /\ WasAbsorbed(s.call, j) => /\ s.call[j].mailbox = <<>> /\ j \notin Ids
                                     /\ \A c \in Channels : s.at[c] # j
    BY DEF Registered, Flags
  <2>1. ~s.call[j].known => s.call[j].stopped BY <2>0 DEF NoCall
  <2> QED BY <1>1, <2>0, <2>1 DEF WasAbsorbed
<1>8. Bindings(t.call, t.at)
  <2>1. \A c \in Channels : t.at[c] # NoOne => c \in Legs /\ t.call[t.at[c]].known /\ IsKin(c, t.at[c])
    BY <1>1, <1>3 DEF Registered, Bindings
  <2>2. \A j \in CallIds : IsRunning(t.call, j) => \A c \in Channels : t.at[c] = j <=> Has(t.call, j, c)
    BY <1>1, <1>4, <1>5 DEF Registered, Bindings
  <2>3. \A j \in Channels : IsRunning(t.call, j) => Has(t.call, j, j)
    BY <1>4, <1>5 DEF Registered, Bindings, CallIds
  <2> QED BY <2>1, <2>2, <2>3 DEF Bindings
<1>9. Strays(t.call, t.at, f) BY <1>1, <1>3 DEF Strays
<1>10. Ends(t.call, f)
  <2> SUFFICES ASSUME NEW j \in CallIds, NEW c \in Channels
               PROVE  /\ t.call[j].known /\ Says(t.call[j].mailbox, "hangup", c) => IsDone(f, c)
                      /\ Has(t.call, j, c) /\ t.call[j].party[c].state = "RELEASED" => IsDone(f, c)
    BY DEF Ends
  <2>1. /\ s.call[j].known /\ Says(s.call[j].mailbox, "hangup", c) => IsDone(f, c)
        /\ Has(s.call, j, c) /\ s.call[j].party[c].state = "RELEASED" => IsDone(f, c)
    BY DEF Ends
  <2>2. t.call[j].known = s.call[j].known /\ t.call[j].party = s.call[j].party BY <1>1
  <2>3. Has(t.call, j, c) <=> Has(s.call, j, c) BY <1>4
  <2>4. Says(t.call[j].mailbox, "hangup", c) => Says(s.call[j].mailbox, "hangup", c) \/ IsDone(f, c)
    BY <1>6
  <2> QED BY <2>1, <2>2, <2>3, <2>4
<1>11. Births(t.call, t.at, f)
  <2>1. \A c \in Channels : c \in CallIds BY DEF CallIds
  <2> QED BY <1>1, <1>4, <2>1 DEF Births, IsNew
<1>12. Deaths(t.call, f)
  <2> SUFFICES ASSUME NEW j \in CallIds, NEW c \in Channels, IsRunning(t.call, j),
                      Has(t.call, j, c), t.call[j].party[c].state # "RELEASED"
               PROVE  IsComing(t.call, j, c, f)
    BY DEF Deaths
  <2>1. IsRunning(s.call, j) /\ Has(s.call, j, c) /\ s.call[j].party[c].state # "RELEASED"
    BY <1>1, <1>4, <1>5
  <2>2. IsComing(s.call, j, c, q) BY <2>1 DEF Deaths
  <2>3. CASE ev.kind = "hangup" /\ ev.chan = c
    <3>1. k = j BY <2>1, <2>3 DEF Registered, Bindings
    <3>2. Says(t.call[j].mailbox, "hangup", c) BY <1>6, <2>1, <2>3, <3>1 DEF IsRunning
    <3> QED BY <3>2 DEF IsComing
  <2>4. CASE ~(ev.kind = "hangup" /\ ev.chan = c)
    <3>1. Says(q, "hangup", c) => Says(f, "hangup", c) BY <2>4, SaysTail
    <3>2. Says(s.call[j].mailbox, "hangup", c) => Says(t.call[j].mailbox, "hangup", c) BY <1>6
    <3> QED BY <2>2, <3>1, <3>2 DEF IsComing
  <2> QED BY <2>3, <2>4
<1>13. Recorded(t.call, f) BY <1>4, <1>5 DEF Recorded
<1> QED BY <1>7, <1>8, <1>9, <1>10, <1>11, <1>12, <1>13 DEF Sound, Registered, Accounted, t

-----------------------------------------------------------------------------
(***************************************************************************)
(* Handling an event.                                                      *)
(***************************************************************************)
\* A stream that loses its head keeps its order.
LEMMA OrderedTail ==
    ASSUME NEW q \in Seq(Events), q # <<>>, Ordered(q)
    PROVE  /\ IsTrue(Head(q)) /\ Ordered(Tail(q))
           /\ Head(q).kind = "hangup" => IsDone(Tail(q), Head(q).chan)
<1> DEFINE f == Tail(q)
           ev == Head(q)
<1>1. /\ ev = q[1] /\ 1 \in 1..Len(q) /\ Len(q) \in Nat
      /\ \A i \in 1..Len(f) : f[i] = q[i + 1] /\ i + 1 \in 1..Len(q) /\ i \in Int
  BY TailIs
<1> HIDE DEF f, ev
<1>2. IsTrue(ev) BY <1>1 DEF Ordered
<1>3. \A i \in 1..Len(f) : IsTrue(f[i]) /\ InOrder(ev, f[i])
  <2>1. \A i \in 1..Len(f) : 1 < i + 1 BY <1>1
  <2> QED BY <1>1, <2>1 DEF Ordered
<1>4. \A i, j \in 1..Len(f) : i < j => InOrder(f[i], f[j])
  <2> SUFFICES ASSUME NEW i \in 1..Len(f), NEW j \in 1..Len(f), i < j PROVE InOrder(f[i], f[j])
    OBVIOUS
  <2>1. i + 1 < j + 1 BY <1>1
  <2> QED BY <1>1, <2>1 DEF Ordered
<1>5. ASSUME NEW c \in Channels, Says(f, "create", c), chan[c] = "gone"
      PROVE  link = "down" \/ Says(f, "hangup", c)
  <2>1. Says(q, "create", c) BY <1>5, SaysTail DEF f
  <2>2. link = "down" \/ Says(q, "hangup", c) BY <1>5, <2>1 DEF Ordered
  <2>3. ~(ev.kind = "hangup" /\ ev.chan = c)
    <3> SUFFICES ASSUME ev.kind = "hangup", ev.chan = c PROVE FALSE OBVIOUS
    <3>1. PICK i \in 1..Len(f) : f[i].kind = "create" /\ f[i].chan = c BY <1>5 DEF Says
    <3> QED BY <1>3, <3>1 DEF InOrder, Repeats
  <2> QED BY <2>2, <2>3, SaysTail DEF f, ev
<1>6. ev.kind = "hangup" => IsDone(f, ev.chan) BY <1>2, <1>3 DEF IsDone, InOrder, IsTrue
<1> QED BY <1>2, <1>3, <1>4, <1>5, <1>6 DEF Ordered, f, ev

\* Everything is accounted for whether the head is counted or has been handled.
LEMMA HeadCounted ==
    ASSUME NEW q \in Seq(Events), q # <<>>, NEW cl, NEW b
    PROVE  /\ Accounted(cl, b, q) => /\ Strays(cl, b, Tail(q)) /\ Ends(cl, Tail(q))
                                     /\ Births(cl, b, Tail(q)) /\ Recorded(cl, Tail(q))
                                     /\ Deaths(cl, q)
           /\ Deaths(cl, Tail(q)) => Deaths(cl, q)
<1>1. \A c : IsDone(q, c) => IsDone(Tail(q), c) BY DoneTail
<1>2. \A kind, c : Says(Tail(q), kind, c) => Says(q, kind, c) BY SaysTail
<1>3. ASSUME Accounted(cl, b, q)
      PROVE  /\ Strays(cl, b, Tail(q)) /\ Ends(cl, Tail(q))
             /\ Births(cl, b, Tail(q)) /\ Recorded(cl, Tail(q)) /\ Deaths(cl, q)
  <2>1. Strays(cl, b, Tail(q)) BY <1>1, <1>3 DEF Accounted, Strays
  <2>2. Ends(cl, Tail(q)) BY <1>1, <1>3 DEF Accounted, Ends
  <2>3. Births(cl, b, Tail(q)) BY <1>2, <1>3 DEF Accounted, Births
  <2>4. Recorded(cl, Tail(q)) BY <1>1, <1>3 DEF Accounted, Recorded
  <2> QED BY <1>3, <2>1, <2>2, <2>3, <2>4 DEF Accounted
<1>4. Deaths(cl, Tail(q)) => Deaths(cl, q) BY <1>2 DEF Deaths, IsComing
<1> QED BY <1>3, <1>4

LEMMA HandleKeeps ==
    ASSUME Conversations, scenario \in Scenarios, State \in States(waiting, afterWork),
           NEW q \in Seq(Events), q # <<>>, Ordered(q), Sound(State, q),
           NEW ev, ev = Head(q), NEW late,
           \A k \in Awaited(ev) : call[k].stopped \/ call[k].mailbox = <<>>
    PROVE  Sound(HandleResult(ev, late), Tail(q))
<1> DEFINE first == CASE ev.kind = "create" -> Adopt(State, ev, late)
                      [] ev.kind = "bridge" -> Join(State, ev, late)
                      [] OTHER -> State
           next == Reidentify(first, ev, late)
           told == TrackQueue(next, ev)
           f == Tail(q)
<1>0. ev \in Events /\ IsTrue(ev) /\ (ev.kind = "hangup" => IsDone(f, ev.chan))
  BY OrderedTail, TailIs
<1>1. ev.chan \in Legs /\ ev.chan \in Channels /\ ev.chan # NoOne
  BY <1>0, PlanFacts, CallsAssumption DEF IsTrue
<1>2. State.call = call /\ State.at = at BY DEF State
<1>3. ev.kind # "create" /\ ev.id # NoOne /\ at[ev.chan] # ev.id => IsWaited(State, at[ev.chan])
  <2> SUFFICES ASSUME ev.kind # "create", ev.id # NoOne, at[ev.chan] # ev.id, at[ev.chan] # NoOne
               PROVE  at[ev.chan] \in Awaited(ev)
    BY <1>2 DEF IsWaited
  <2> QED BY DEF Awaited

\* What is posted to the call the event finds, once it has been named.
<1>4. /\ next \in States(waiting, afterWork) /\ Registered(next.call, next.at)
      /\ Strays(next.call, next.at, f) /\ Ends(next.call, f) /\ Births(next.call, next.at, f)
      /\ Recorded(next.call, f) /\ Deaths(next.call, q)
  <2>1. CASE ev.kind = "create"
    <3>1. first = Adopt(State, ev, late) BY <2>1
    <3>2. first \in States(waiting, afterWork) BY <1>0, <1>1, <2>1, <3>1, AdoptType
    <3>3. Registered(first.call, first.at) /\ Accounted(first.call, first.at, f)
      BY <1>0, <2>1, <3>1, AdoptRegistered, AdoptAccounted
    <3>4. next = first
      <4>1. State.at[ev.chan] = NoOne
        <5>1. Says(q, "create", ev.chan) BY <2>1, SaysTail
        <5> QED BY <1>1, <5>1 DEF Sound, Accounted, Births, IsNew
      <4>2. \A j \in CallIds : ev.chan \notin DOMAIN State.call[j].party
        <5>1. Says(q, "create", ev.chan) BY <2>1, SaysTail
        <5> QED BY <1>1, <5>1 DEF Sound, Accounted, Births, IsNew, Has
      <4>3. AdoptInto(State, ev) \in CallIds BY <1>0, <2>1, AdoptsInto
      <4>4. first.at = [State.at EXCEPT ![ev.chan] = AdoptInto(State, ev)]
        BY <1>1, <3>1, <4>1, <4>2, <4>3, AdoptEffect
      <4>5. first.at[ev.chan] = AdoptInto(State, ev) BY <1>1, <4>4 DEF States
      <4>6. ev.id # NoOne => first.at[ev.chan] = ev.id BY <4>5 DEF AdoptInto
      <4> HIDE DEF first
      <4> QED BY <4>6 DEF Reidentify
    <3> HIDE DEF first, next
    <3>5. Deaths(next.call, q) BY <3>3, <3>4, HeadCounted DEF Accounted
    <3> QED BY <3>2, <3>3, <3>4, <3>5 DEF Accounted
  <2>2. CASE ev.kind # "create"
    <3>1. /\ first \in States(waiting, afterWork) /\ Sound(first, q)
          /\ ev.id # NoOne /\ first.at[ev.chan] # ev.id => IsWaited(first, first.at[ev.chan])
      <4>1. CASE ev.kind = "bridge"
        <5>1. first = Join(State, ev, late) BY <2>2, <4>1
        <5>2. ev.other \in Channels BY <1>0, <4>1, PlanFacts DEF IsTrue
        <5>3. first \in States(waiting, afterWork) BY <1>0, <5>1, <5>2, JoinType
        <5>4. IsWaited(State, State.at[ev.chan]) /\ IsWaited(State, State.at[ev.other])
          <6>1. {at[ev.chan], at[ev.other]} \ {NoOne} \subseteq Awaited(ev)
            BY <4>1 DEF Awaited
          <6> QED BY <1>2, <6>1 DEF IsWaited
        <5>5. Sound(first, q) /\ IsWaited(first, first.at[ev.chan])
          BY <1>0, <4>1, <5>1, <5>4, JoinKeeps
        <5> HIDE DEF first
        <5> QED BY <5>3, <5>5
      <4>2. CASE ev.kind # "bridge"
        <5>1. first = State BY <2>2, <4>2
        <5> HIDE DEF first
        <5> QED BY <1>2, <1>3, <2>2, <5>1
      <4> QED BY <4>1, <4>2
    <3> HIDE DEF first
    <3>2. next \in States(waiting, afterWork) BY <1>0, <3>1, ReidentifyType
    <3>3. Sound(next, q)
      <4>1. CASE ev.id = NoOne \/ first.at[ev.chan] = ev.id
        <5>1. next = first BY <4>1 DEF Reidentify
        <5> QED BY <3>1, <5>1
      <4>2. CASE ~(ev.id = NoOne \/ first.at[ev.chan] = ev.id)
        BY <1>0, <3>1, <4>2, ReidentifyKeeps
      <4> QED BY <4>1, <4>2
    <3> HIDE DEF next
    <3> QED BY <3>2, <3>3, HeadCounted DEF Sound
  <2> QED BY <2>1, <2>2
<1> HIDE DEF first, next
<1>5. told.call = next.call /\ told.at = next.at BY <1>4 DEF TrackQueue, States
<1>6. told \in States(LineAfter(ev, waiting), afterWork) BY <1>4, TrackQueueType
<1>7. HandleResult(ev, late) = IF AgentLegEnded(told, ev, late)
                               THEN LegIsOver(Dispatch(told, ev), told, ev) ELSE Dispatch(told, ev)
  BY DEF HandleResult, first, next
<1> HIDE DEF told
<1>8. Sound(Dispatch(told, ev), f) BY <1>0, <1>4, <1>5, <1>6, DispatchKeeps
<1>9. Dispatch(told, ev) \in States(LineAfter(ev, waiting), afterWork) BY <1>0, <1>6, DispatchType
<1>10. LET over == LegIsOver(Dispatch(told, ev), told, ev) IN
       over.call = Dispatch(told, ev).call /\ over.at = Dispatch(told, ev).at
  BY <1>9 DEF LegIsOver, SetOnCall, States
<1> QED BY <1>7, <1>8, <1>10 DEF Sound

-----------------------------------------------------------------------------
(***************************************************************************)
(* The invariant, and what the switch does to it.                          *)
(***************************************************************************)
\* Bridged legs are up, and one was raised for the other.
Bridges ==
    \A c \in Channels : peer[c] # NoOne =>
        c \in Up /\ peer[c] \in Up /\ (Leg(c).from = peer[c] \/ Leg(peer[c]).from = c)

RowsInv ==
    /\ Ordered(feed) /\ Bridges
    /\ Registered(call, at) /\ Accounted(call, at, feed)
    /\ OneRowPerLeg

\* What an event says will be so.
TrueThen(ev) ==
    /\ ev.chan \in Legs /\ chan'[ev.chan] # "none"
    /\ ev.id \in {NoOne, Leg(ev.chan).id}
    /\ ev.kind = "bridge" => /\ ev.other \in Legs
                             /\ Leg(ev.other).from = ev.chan \/ Leg(ev.chan).from = ev.other
    /\ ev.kind = "hangup" => chan'[ev.chan] = "gone"

\* The registry and the rows do not change; the switch says e and goes on from
\* there: what is gone stays gone, what is made is made once, and whoever goes is
\* told to have gone.
Speaks(e) ==
    /\ e \in Seq(Events) /\ Tell(e) /\ SwitchOnly /\ rows' = rows
    /\ \A c \in Channels : /\ chan[c] = "gone" => chan'[c] = "gone"
                           /\ chan'[c] = "none" => chan[c] = "none"
                           /\ chan'[c] = "gone" => chan[c] = "gone" \/ Says(e, "hangup", c)
    /\ \A i \in 1..Len(e) : /\ TrueThen(e[i])
                            /\ chan[e[i].chan] # "gone"
                            /\ e[i].kind = "bridge" => chan[e[i].other] # "gone"
                            /\ e[i].kind = "create" => chan[e[i].chan] = "none"
    /\ \A i, j \in 1..Len(e) : i < j => InOrder(e[i], e[j])

\* A bridge of c and d.
IsBridgeOf(ev, c, d) ==
    ev.kind = "bridge" /\ ((ev.chan = c /\ ev.other = d) \/ (ev.chan = d /\ ev.other = c))

\* A creation the switch may report: its leg may be raised, its agent's phone is
\* on no other leg, and a leg that is stamped shows its id.
IsRaised(ev) ==
    /\ CanBeRaised(ev.chan)
    /\ \A d \in Up : AgentOf(d) = NoOne \/ AgentOf(d) # AgentOf(ev.chan)
    /\ Leg(ev.chan).stamped => ev.id = Leg(ev.chan).id

\* The name of c is said.
Names(e, c) == \E i \in 1..Len(e) : e[i].chan = c /\ e[i].id # NoOne

\* And says all there is to say of what it does: the creation of each leg alone,
\* the end of one last, each new bridge, and the name of each caller who joins
\* and of each leg with a name that answers.
Utters(e) ==
    /\ Speaks(e)
    /\ \A i, j \in 1..Len(e) : i < j => e[i].kind # "hangup" /\ e[j].kind # "create"
    /\ \A i \in 1..Len(e) : /\ e[i].kind = "bridge" => chan[e[i].other] # "none"
                            /\ e[i].kind = "create" => IsRaised(e[i])
    /\ \A c \in Channels :
           /\ chan[c] = "none" => chan'[c] = "none" \/ Says(e, "create", c)
           /\ peer'[c] # NoOne => \/ peer'[c] = peer[c]
                                 \/ \E i \in 1..Len(e) : IsBridgeOf(e[i], c, peer'[c])
    /\ \A c \in queued' : c \in queued \/ Names(e, c)
    /\ \A c \in Channels : chan'[c] = "answered" /\ Leg(c).id # NoOne =>
                             chan[c] = "answered" \/ Names(e, c)

LEMMA SamePlan ==
    ASSUME scenario' = scenario
    PROVE  /\ Legs' = Legs /\ \A c : Leg(c)' = Leg(c)
           /\ \A c, k : IsKin(c, k)' <=> IsKin(c, k)
           /\ Registered(call, at)' <=> Registered(call', at')
<1>1. Legs' = Legs /\ \A c : Leg(c)' = Leg(c) BY DEF Legs, Leg
<1>2. \A c, k : IsKin(c, k)' <=> IsKin(c, k) BY <1>1 DEF IsKin, RootOf
<1>3. Registered(call, at)' <=> Registered(call', at')
  BY <1>1, <1>2 DEF Registered, Flags, Bindings, WasAbsorbed, IsRunning, Has
<1> QED BY <1>1, <1>2, <1>3

\* A stream is in order in the next state.
LEMMA OrderedThen ==
    ASSUME scenario' = scenario, NEW q, feed' = q,
           \A i \in 1..Len(q) : TrueThen(q[i]),
           \A i, j \in 1..Len(q) : i < j => InOrder(q[i], q[j]),
           \A c \in Channels : Says(q, "create", c) /\ chan'[c] = "gone" =>
               link' = "down" \/ Says(q, "hangup", c)
    PROVE  Ordered(feed)'
<1>1. Legs' = Legs /\ \A c : Leg(c)' = Leg(c) BY SamePlan
<1>2. \A i \in 1..Len(feed') : IsTrue(feed[i])' BY <1>1 DEF IsTrue, TrueThen
<1>3. \A i, j \in 1..Len(feed') : i < j => InOrder(feed[i], feed[j])' BY DEF InOrder, Repeats
<1>4. \A c \in Channels : Says(feed, "create", c)' /\ chan'[c] = "gone" =>
          link' = "down" \/ Says(feed, "hangup", c)'
  BY DEF Says
<1> QED BY <1>2, <1>3, <1>4 DEF Ordered

LEMMA SpokenOrder ==
    ASSUME TypedSwitch, RowsInv, NEW e, Speaks(e) PROVE Ordered(feed)'
<1>1. feed \in Seq(Events) /\ e \in Seq(Events) /\ link \in {"up", "down"} /\ link' = link
      /\ scenario' = scenario
  BY DEF TypedSwitch, Speaks, SwitchOnly
<1>3. ASSUME NEW i \in 1..Len(feed) PROVE feed[i].chan \in Channels
  <2>1. feed[i] \in Events BY <1>1
  <2> QED BY <2>1 DEF Events
<1>4. ASSUME NEW i \in 1..Len(feed) PROVE TrueThen(feed[i])
  <2>1. IsTrue(feed[i]) BY DEF RowsInv, Ordered
  <2>2. /\ chan[feed[i].chan] # "none" => chan'[feed[i].chan] # "none"
        /\ chan[feed[i].chan] = "gone" => chan'[feed[i].chan] = "gone"
    BY <1>3 DEF Speaks
  <2> QED BY <2>1, <2>2 DEF IsTrue, TrueThen
<1>5. CASE link # "up"
  <2>1. feed' = feed /\ link = "down" BY <1>1, <1>5 DEF Speaks, Tell
  <2>2. \A i, j \in 1..Len(feed) : i < j => InOrder(feed[i], feed[j]) BY DEF RowsInv, Ordered
  <2> QED BY <1>1, <1>4, <2>1, <2>2, OrderedThen
<1>6. CASE link = "up"
  <2> DEFINE g == feed \o e
  <2>1. feed' = g BY <1>6 DEF Speaks, Tell
  <2>2. /\ g \in Seq(Events) /\ Len(feed) \in Nat /\ Len(g) \in Nat
        /\ \A i \in 1..Len(feed) : g[i] = feed[i]
        /\ \A i \in 1..Len(g) : i \in 1..Len(feed) \/ i - Len(feed) \in 1..Len(e)
        /\ \A i \in 1..Len(g) : i \notin 1..Len(feed) => g[i] = e[i - Len(feed)]
    BY <1>1, Concat
  <2>3. \A kind, c : Says(g, kind, c) <=> Says(feed, kind, c) \/ Says(e, kind, c)
    BY <1>1, SaysConcat
  <2> HIDE DEF g
  <2>4. ASSUME NEW i \in 1..Len(g) PROVE TrueThen(g[i])
    <3>2. CASE i \in 1..Len(feed) BY <1>4, <2>2, <3>2
    <3>3. CASE i \notin 1..Len(feed)
      <4>1. g[i] = e[i - Len(feed)] /\ i - Len(feed) \in 1..Len(e) BY <2>2, <3>3
      <4> QED BY <4>1 DEF Speaks
    <3> QED BY <3>2, <3>3
  <2>5. ASSUME NEW i \in 1..Len(g), NEW j \in 1..Len(g), i < j PROVE InOrder(g[i], g[j])
    <3>1. CASE j \in 1..Len(feed)
      <4>1. i \in 1..Len(feed) BY <2>2, <2>5, <3>1
      <4> QED BY <2>2, <2>5, <3>1, <4>1 DEF RowsInv, Ordered
    <3>2. CASE i \notin 1..Len(feed)
      <4>1. j \notin 1..Len(feed) BY <2>2, <2>5, <3>2
      <4>2. /\ g[i] = e[i - Len(feed)] /\ i - Len(feed) \in 1..Len(e)
            /\ g[j] = e[j - Len(feed)] /\ j - Len(feed) \in 1..Len(e)
        BY <2>2, <3>2, <4>1
      <4>3. i - Len(feed) < j - Len(feed) BY <2>2, <2>5
      <4> QED BY <4>2, <4>3 DEF Speaks
    <3>3. CASE i \in 1..Len(feed) /\ j \notin 1..Len(feed)
      <4>1. g[i] = feed[i] /\ g[j] = e[j - Len(feed)] /\ j - Len(feed) \in 1..Len(e)
        BY <2>2, <3>3
      <4>2. IsTrue(feed[i]) BY <3>3 DEF RowsInv, Ordered
      <4>3. /\ chan[g[j].chan] # "gone"
            /\ g[j].kind = "bridge" => chan[g[j].other] # "gone"
            /\ g[j].kind = "create" => chan[g[j].chan] = "none"
        BY <4>1 DEF Speaks
      <4> QED BY <4>1, <4>2, <4>3 DEF IsTrue, InOrder, Repeats
    <3> QED BY <3>1, <3>2, <3>3
  <2>6. ASSUME NEW c \in Channels, Says(g, "create", c), chan'[c] = "gone"
        PROVE  Says(g, "hangup", c)
    <3>2. CASE chan[c] # "gone" BY <2>3, <2>6, <3>2 DEF Speaks
    <3>3. CASE chan[c] = "gone"
      <4>1. ~Says(e, "create", c) BY <3>3 DEF Says, Speaks
      <4>2. Says(feed, "create", c) BY <2>3, <2>6, <4>1
      <4> QED BY <1>6, <2>3, <3>3, <4>2 DEF RowsInv, Ordered
    <3> QED BY <3>2, <3>3
  <2> QED BY <1>1, <2>1, <2>4, <2>5, <2>6, OrderedThen
<1> QED BY <1>1, <1>5, <1>6

LEMMA SpokenSaid ==
    ASSUME TypedSwitch, NEW e, Speaks(e), NEW c
    PROVE  /\ \A kind : Says(feed', kind, c) => Says(feed, kind, c) \/ Says(e, kind, c)
           /\ \A kind : Says(feed, kind, c) => Says(feed', kind, c)
           /\ \A kind : Says(e, kind, c) => Says(feed', kind, c) \/ link = "down"
           /\ c \in Channels /\ IsDone(feed, c) => IsDone(feed, c)'
<1>1. feed \in Seq(Events) /\ e \in Seq(Events) /\ link \in {"up", "down"}
  BY DEF TypedSwitch, Speaks
<1>2. CASE link # "up"
  <2>1. feed' = feed /\ link = "down" BY <1>1, <1>2 DEF Speaks, Tell
  <2>2. c \in Channels /\ IsDone(feed, c) => IsDone(feed, c)'
    BY <2>1 DEF IsDone, Speaks, Repeats
  <2> QED BY <2>1, <2>2
<1>3. CASE link = "up"
  <2> DEFINE g == feed \o e
  <2>1. feed' = g BY <1>3 DEF Speaks, Tell
  <2>2. \A kind : Says(g, kind, c) <=> Says(feed, kind, c) \/ Says(e, kind, c)
    BY <1>1, SaysConcat
  <2>3. ASSUME c \in Channels, IsDone(feed, c) PROVE IsDone(feed, c)'
    <3>1. /\ \A i \in 1..Len(feed) : g[i] = feed[i]
          /\ \A i \in 1..Len(g) : i \in 1..Len(feed) \/ i - Len(feed) \in 1..Len(e)
          /\ \A i \in 1..Len(g) : i \notin 1..Len(feed) => g[i] = e[i - Len(feed)]
      BY <1>1, Concat
    <3> HIDE DEF g
    <3>2. chan[c] = "gone" /\ chan'[c] = "gone" BY <2>3 DEF IsDone, Speaks
    <3>3. ASSUME NEW i \in 1..Len(g) PROVE Repeats(g[i], c)
      <4>1. CASE i \in 1..Len(feed) BY <2>3, <3>1, <4>1 DEF IsDone
      <4>2. CASE i \notin 1..Len(feed)
        <5>1. g[i] = e[i - Len(feed)] /\ i - Len(feed) \in 1..Len(e) BY <3>1, <4>2
        <5> QED BY <3>2, <5>1 DEF Speaks, Repeats
      <4> QED BY <4>1, <4>2
    <3> QED BY <2>1, <3>2, <3>3 DEF IsDone, Repeats
  <2> QED BY <2>1, <2>2, <2>3
<1> QED BY <1>2, <1>3

\* What the switch says leaves everything accounted for.
LEMMA SpokenAccounted ==
    ASSUME TypedSwitch, RowsInv, NEW e, Speaks(e)
    PROVE  Registered(call, at)' /\ Accounted(call, at, feed)' /\ OneRowPerLeg'
<1>1. /\ scenario' = scenario /\ link' = link /\ rows' = rows /\ toWrite' = toWrite
      /\ call' = call /\ at' = at
  BY DEF Speaks, SwitchOnly, appVars
<1>2. Legs' = Legs /\ \A c : Leg(c)' = Leg(c) BY <1>1, SamePlan
<1>3. Registered(call, at)' BY <1>1, SamePlan DEF RowsInv
<1>4. OneRowPerLeg' BY <1>1 DEF RowsInv, OneRowPerLeg
<1>5. ASSUME NEW c \in Channels, IsDone(feed, c)
      PROVE  chan'[c] = "gone" /\ \A i \in 1..Len(feed') : Repeats(feed'[i], c)
  BY <1>5, SpokenSaid DEF IsDone, Repeats
<1>6. NoOne \notin Channels BY CallsAssumption
<1>7. Strays(call, at, feed)'
  <2>1. ASSUME NEW c \in Channels, at[c] # NoOne, at[c] \notin Ids, call[at[c]].ended
        PROVE  \/ chan'[c] = "gone" /\ \A i \in 1..Len(feed') : Repeats(feed'[i], c)
               \/ /\ Leg(c).from # NoOne /\ Leg(c).id = NoOne
                  /\ chan'[Leg(c).from] = "gone"
                  /\ \A i \in 1..Len(feed') : Repeats(feed'[i], Leg(c).from)
    <3>1. \/ IsDone(feed, c)
          \/ Leg(c).from # NoOne /\ Leg(c).id = NoOne /\ IsDone(feed, Leg(c).from)
      BY <2>1 DEF RowsInv, Accounted, Strays
    <3>2. c \in Legs BY <2>1 DEF RowsInv, Registered, Bindings
    <3>3. Leg(c).from # NoOne => Leg(c).from \in Channels
      BY <3>2, PlanType DEF LegKinds, TypedSwitch
    <3> QED BY <1>5, <3>1, <3>3
  <2> QED BY <1>1, <1>2, <2>1 DEF Strays, IsDone, Repeats
<1>8. Ends(call, feed)'
  <2>1. ASSUME NEW k \in CallIds, NEW c \in Channels,
               \/ call[k].known /\ Says(call[k].mailbox, "hangup", c)
               \/ Has(call, k, c) /\ call[k].party[c].state = "RELEASED"
        PROVE  chan'[c] = "gone" /\ \A i \in 1..Len(feed') : Repeats(feed'[i], c)
    BY <1>5, <2>1 DEF RowsInv, Accounted, Ends
  <2> QED BY <1>1, <2>1 DEF Ends, IsDone, Repeats, Says, Has
<1>9. Births(call, at, feed)'
  <2>1. ASSUME NEW c \in Channels, chan'[c] = "none" \/ Says(feed', "create", c)
        PROVE  IsNew(call, at, c)
    <3>1. chan[c] = "none" \/ Says(feed, "create", c)
      <4>1. CASE chan'[c] = "none" BY <4>1 DEF Speaks
      <4>2. CASE Says(feed', "create", c)
        <5>1. Says(feed, "create", c) \/ Says(e, "create", c) BY <4>2, SpokenSaid
        <5>2. Says(e, "create", c) => chan[c] = "none" BY DEF Says, Speaks
        <5> QED BY <5>1, <5>2
      <4> QED BY <2>1, <4>1, <4>2
    <3> QED BY <3>1 DEF RowsInv, Accounted, Births
  <2> QED BY <1>1, <2>1 DEF Births, IsNew, Has, Says
<1>10. Deaths(call, feed)'
  <2>1. ASSUME NEW k \in CallIds, NEW c \in Channels, IsRunning(call, k), Has(call, k, c),
               call[k].party[c].state # "RELEASED"
        PROVE  \/ chan'[c] # "gone" \/ Says(call[k].mailbox, "hangup", c)
               \/ Says(feed', "hangup", c) \/ IsDeaf'
    <3>1. IsComing(call, k, c, feed) BY <2>1 DEF RowsInv, Accounted, Deaths
    <3>2. chan'[c] = "gone" => chan[c] = "gone" \/ Says(e, "hangup", c) BY DEF Speaks
    <3>3. /\ Says(feed, "hangup", c) => Says(feed', "hangup", c)
          /\ Says(e, "hangup", c) => Says(feed', "hangup", c) \/ link = "down"
      BY SpokenSaid
    <3>4. spent' = spent /\ link' = link BY DEF Speaks, SwitchOnly
    <3> QED BY <3>1, <3>2, <3>3, <3>4 DEF IsComing, IsDeaf
  <2> QED BY <1>1, <2>1 DEF Deaths, IsComing, IsRunning, Has, Says
<1>11. Recorded(call, feed)'
  <2>1. ASSUME NEW r \in rows \cup toWrite, NEW c \in r.legs
        PROVE  /\ c \in Channels
               /\ chan'[c] = "gone" /\ \A i \in 1..Len(feed') : Repeats(feed'[i], c)
               /\ \A k \in CallIds : IsRunning(call, k) => ~Has(call, k, c)
    <3>1. c \in Channels /\ IsDone(feed, c) /\ \A k \in CallIds : IsRunning(call, k) => ~Has(call, k, c)
      BY DEF RowsInv, Accounted, Recorded
    <3> QED BY <1>5, <3>1
  <2> QED BY <1>1, <2>1 DEF Recorded, IsDone, Repeats, IsRunning, Has
<1> QED BY <1>3, <1>4, <1>7, <1>8, <1>9, <1>10, <1>11 DEF Accounted

-----------------------------------------------------------------------------
(***************************************************************************)
(* The steps of the switch.                                                *)
(***************************************************************************)
\* Bridges that only come apart, between legs that stay up.
LEMMA BridgesKept ==
    ASSUME Bridges, scenario' = scenario,
           \A c \in Channels : peer'[c] # NoOne =>
               peer'[c] = peer[c] /\ (c \in Up => c \in Up') /\ (peer[c] \in Up => peer[c] \in Up')
    PROVE  Bridges'
<1>1. Legs' = Legs /\ \A c : Leg(c)' = Leg(c) BY SamePlan
<1>2. ASSUME NEW c \in Channels, peer'[c] # NoOne
      PROVE  c \in Up' /\ peer'[c] \in Up' /\ (Leg(c).from = peer'[c] \/ Leg(peer'[c]).from = c)
  BY <1>2 DEF Bridges
<1> QED BY <1>1, <1>2 DEF Bridges, Leg

LEMMA SpokenStep ==
    ASSUME TypedSwitch, RowsInv, NEW e, Speaks(e), Bridges' PROVE RowsInv'
BY SpokenOrder, SpokenAccounted DEF RowsInv

\* An event about a leg carries its id or none.
LEMMA EventIs ==
    ASSUME TypedSwitch, NEW kind \in Kinds, NEW c \in Channels, NEW o \in Channels \cup {NoOne}
    PROVE  /\ Event(kind, c, o) \in Events
           /\ Event(kind, c, o).kind = kind /\ Event(kind, c, o).chan = c
           /\ Event(kind, c, o).other = o
           /\ Event(kind, c, o).id \in {NoOne, Leg(c).id}
<1>1. Event(kind, c, o).id \in {NoOne, Leg(c).id} BY DEF Event
<1> QED BY <1>1, EventType

\* The switch says one thing, about a leg that is not gone.
LEMMA SaysOne ==
    ASSUME NEW ev \in Events, Tell(<<ev>>), SwitchOnly, rows' = rows,
           ev.kind # "bridge", ev.kind # "hangup", chan[ev.chan] # "gone",
           ev.kind = "create" => chan[ev.chan] = "none", TrueThen(ev),
           \A c \in Channels : /\ chan[c] = "gone" <=> chan'[c] = "gone"
                               /\ chan'[c] = "none" => chan[c] = "none"
    PROVE  Speaks(<<ev>>)
<1> DEFINE e == <<ev>>
<1>1. e \in Seq(Events) /\ Len(e) = 1 /\ \A i \in 1..Len(e) : e[i] = ev OBVIOUS
<1>2. Tell(e) OBVIOUS
<1> HIDE DEF e
<1>3. \A i, j \in 1..Len(e) : ~(i < j) BY <1>1
<1>4. Speaks(e) BY <1>1, <1>2, <1>3 DEF Speaks
<1> QED BY <1>4 DEF e

LEMMA UttersOne ==
    ASSUME NEW ev, Speaks(<<ev>>), ev.kind # "bridge",
           ev.kind = "create" => IsRaised(ev), peer' = peer,
           \A c \in Channels : chan[c] = "none" =>
               chan'[c] = "none" \/ (ev.kind = "create" /\ c = ev.chan),
           \A c \in queued' : c \in queued \/ (ev.chan = c /\ ev.id # NoOne),
           \A c \in Channels : chan'[c] = "answered" /\ Leg(c).id # NoOne =>
               chan[c] = "answered" \/ (ev.chan = c /\ ev.id # NoOne)
    PROVE  Utters(<<ev>>)
<1> DEFINE e == <<ev>>
<1>1. Len(e) = 1 /\ 1 \in 1..Len(e) /\ e[1] = ev /\ \A i \in 1..Len(e) : i = 1 OBVIOUS
<1>2. Speaks(e) OBVIOUS
<1> HIDE DEF e
<1>3. \A i, j \in 1..Len(e) : ~(i < j) BY <1>1
<1>4. \A i \in 1..Len(e) : e[i] = ev BY <1>1
<1>5. ev.kind = "create" => Says(e, "create", ev.chan) BY <1>1 DEF Says
<1>6. \A c : ev.chan = c /\ ev.id # NoOne => Names(e, c) BY <1>1 DEF Names
<1>7. Utters(e) BY <1>1, <1>2, <1>3, <1>4, <1>5, <1>6 DEF Utters
<1> QED BY <1>7 DEF e

LEMMA CreateRows ==
    ASSUME Inv, RowsInv, NEW c \in Legs, ChannelCreate(c) PROVE RowsInv' /\ \E e : Utters(e)
<1> DEFINE new == Event("create", c, NoOne)
           id == IF Leg(c).stamped THEN Leg(c).id ELSE NoOne
           ev == [new EXCEPT !.id = id]
<1>1. TypedSwitch /\ c \in Channels BY DEF Inv, Legs
<1>2. /\ SwitchOnly /\ Tell(<<ev>>) /\ rows' = rows /\ chan[c] = "none"
      /\ chan' = [chan EXCEPT ![c] = "ringing"] /\ peer' = peer /\ scenario' = scenario
      /\ queued' = queued /\ CanBeRaised(c)
      /\ \A d \in Up : AgentOf(d) = NoOne \/ AgentOf(d) # AgentOf(c)
  BY DEF ChannelCreate, SwitchOnly, appVars
<1>3. new \in Events /\ new.kind = "create" /\ new.chan = c BY <1>1, EventIs DEF Kinds
<1>4. /\ id \in Ids \cup {NoOne} /\ id \in {NoOne, Leg(c).id}
      /\ Leg(c).stamped => id = Leg(c).id
  BY <1>1, PlanType DEF TypedSwitch, LegKinds
<1> HIDE DEF new, id
<1>5. ev \in Events /\ ev.kind = "create" /\ ev.chan = c /\ ev.id = id
  BY <1>3, <1>4 DEF Events
<1> HIDE DEF ev
<1>6. /\ chan'[c] = "ringing"
      /\ \A d \in Channels : /\ chan[d] = "gone" <=> chan'[d] = "gone"
                             /\ chan'[d] = "none" => chan[d] = "none"
                             /\ d # c => chan'[d] = chan[d]
  BY <1>1, <1>2 DEF TypedSwitch
<1>7. TrueThen(ev) BY <1>4, <1>5, <1>6 DEF TrueThen
<1>8. Speaks(<<ev>>) BY <1>1, <1>2, <1>5, <1>6, <1>7, SaysOne
<1>9. Bridges'
  <2>1. Legs' = Legs BY <1>2, SamePlan
  <2>2. \A d : d \in Up => d \in Up' BY <1>2, <1>6, <2>1 DEF Up, Legs
  <2> QED BY <1>2, <2>2, BridgesKept DEF RowsInv
<1>10. Utters(<<ev>>)
  <2>1. IsRaised(ev) BY <1>2, <1>4, <1>5 DEF IsRaised
  <2>2. \A d \in Channels : chan[d] = "none" => chan'[d] = "none" \/ d = c BY <1>6
  <2>3. \A d \in Channels : chan'[d] = "answered" => chan[d] = "answered" BY <1>6
  <2> QED BY <1>2, <1>5, <1>8, <2>1, <2>2, <2>3, UttersOne
<1> QED BY <1>1, <1>8, <1>9, <1>10, SpokenStep

LEMMA NamesRows ==
    ASSUME Inv, RowsInv, NEW c \in Legs, DialplanNames(c) PROVE RowsInv' /\ \E e : Utters(e)
<1> DEFINE e == <<>>
<1>1. /\ TypedSwitch /\ feed \in Seq(Events)
      /\ SwitchOnly /\ feed' = feed /\ rows' = rows /\ chan' = chan /\ peer' = peer
      /\ scenario' = scenario /\ queued' = queued
  BY DEF Inv, TypedSwitch, DialplanNames, SwitchOnly, appVars
<1>2. e \in Seq(Events) /\ Len(e) = 0 /\ feed \o e = feed BY <1>1
<1> HIDE DEF e
<1>3. Tell(e) BY <1>1, <1>2 DEF Tell
<1>4. Speaks(e) BY <1>1, <1>2, <1>3 DEF Speaks
<1>5. Up' = Up BY <1>1, SamePlan DEF Up
<1>6. Bridges' BY <1>1, <1>5, BridgesKept DEF RowsInv
<1>7. Utters(e) BY <1>1, <1>2, <1>4 DEF Utters
<1> QED BY <1>1, <1>4, <1>6, <1>7, SpokenStep

LEMMA AnswerRows ==
    ASSUME Inv, RowsInv, NEW c \in Legs, ChannelAnswer(c) PROVE RowsInv' /\ \E e : Utters(e)
<1> DEFINE ev == Event("answer", c, NoOne)
<1>1. TypedSwitch /\ c \in Channels BY DEF Inv, Legs
<1>2. /\ SwitchOnly /\ Tell(<<ev>>) /\ rows' = rows /\ chan[c] = "ringing"
      /\ chan' = [chan EXCEPT ![c] = "answered"] /\ peer' = peer /\ scenario' = scenario
      /\ queued' = queued
  BY DEF ChannelAnswer, SwitchOnly, appVars
<1>3. ev \in Events /\ ev.kind = "answer" /\ ev.chan = c /\ ev.id \in {NoOne, Leg(c).id}
  BY <1>1, EventIs DEF Kinds
<1>9. Leg(c).id # NoOne => ev.id # NoOne BY DEF ChannelAnswer, Event
<1> HIDE DEF ev
<1>4. /\ chan'[c] = "answered"
      /\ \A d \in Channels : /\ chan[d] = "gone" <=> chan'[d] = "gone"
                             /\ chan'[d] = "none" => chan[d] = "none"
                             /\ d # c => chan'[d] = chan[d]
  BY <1>1, <1>2 DEF TypedSwitch
<1>5. TrueThen(ev) BY <1>3, <1>4 DEF TrueThen
<1>6. Speaks(<<ev>>) BY <1>1, <1>2, <1>3, <1>4, <1>5, SaysOne
<1>7. Bridges'
  <2>1. Legs' = Legs BY <1>2, SamePlan
  <2>2. \A d : d \in Up => d \in Up' BY <1>2, <1>4, <2>1 DEF Up, Legs
  <2> QED BY <1>2, <2>2, BridgesKept DEF RowsInv
<1>8. Utters(<<ev>>)
  <2>1. \A d \in Channels : chan[d] = "none" => chan'[d] = "none" BY <1>2, <1>4
  <2>2. \A d \in Channels : chan'[d] = "answered" /\ Leg(d).id # NoOne =>
            chan[d] = "answered" \/ (ev.chan = d /\ ev.id # NoOne)
    BY <1>3, <1>4, <1>9
  <2> QED BY <1>2, <1>3, <1>6, <2>1, <2>2, UttersOne
<1> QED BY <1>1, <1>6, <1>7, <1>8, SpokenStep

LEMMA QueueJoinRows ==
    ASSUME Inv, RowsInv, NEW c \in Legs, QueueJoin(c) PROVE RowsInv' /\ \E e : Utters(e)
<1> DEFINE ev == Event("join", c, NoOne)
<1>1. TypedSwitch /\ c \in Channels BY DEF Inv, Legs
<1>2. /\ SwitchOnly /\ Tell(<<ev>>) /\ rows' = rows /\ chan[c] = "answered"
      /\ chan' = chan /\ peer' = peer /\ scenario' = scenario
      /\ queued' = queued \cup {c} /\ c \in named /\ Leg(c).queues
  BY DEF QueueJoin, SwitchOnly, appVars
<1>3. ev \in Events /\ ev.kind = "join" /\ ev.chan = c /\ ev.id \in {NoOne, Leg(c).id}
  BY <1>1, EventIs DEF Kinds
<1>8. ev.id # NoOne
  <2>1. ev.id = Leg(c).id BY <1>2 DEF Event
  <2>2. IsLegPlan(scenario.leg) BY <1>1, CallsAssumption DEF TypedSwitch
  <2> QED BY <1>1, <1>2, <2>1, <2>2 DEF IsLegPlan, Leg, Legs
<1> HIDE DEF ev
<1>4. TrueThen(ev) BY <1>2, <1>3 DEF TrueThen
<1>5. Speaks(<<ev>>) BY <1>1, <1>2, <1>3, <1>4, SaysOne
<1>6. Up' = Up BY <1>2, SamePlan DEF Up
<1>7. Bridges' BY <1>2, <1>6, BridgesKept DEF RowsInv
<1>9. Utters(<<ev>>) BY <1>2, <1>3, <1>5, <1>8, UttersOne
<1> QED BY <1>1, <1>5, <1>7, <1>9, SpokenStep

LEMMA BridgeRows ==
    ASSUME Inv, RowsInv, NEW c \in Legs, NEW d \in Legs, Bridge(c, d)
    PROVE  RowsInv' /\ \E e : Utters(e)
<1> DEFINE b == Event("bridge", c, d)
           l == Event("left", c, NoOne)
           e == <<b>> \o (IF c \in queued THEN <<l>> ELSE <<>>)
<1>1. TypedSwitch /\ c \in Channels /\ d \in Channels BY DEF Inv, Legs
<1>2. /\ SwitchOnly /\ Tell(e) /\ rows' = rows /\ chan[c] = "answered" /\ chan[d] = "answered"
      /\ chan' = chan /\ peer' = [peer EXCEPT ![c] = d, ![d] = c] /\ scenario' = scenario
      /\ Leg(d).from = c /\ queued' \subseteq queued
  BY DEF Bridge, SwitchOnly, appVars
<1>3. /\ b \in Events /\ b.kind = "bridge" /\ b.chan = c /\ b.other = d
      /\ b.id \in {NoOne, Leg(c).id}
  BY <1>1, EventIs DEF Kinds
<1>4. l \in Events /\ l.kind = "left" /\ l.chan = c /\ l.id \in {NoOne, Leg(c).id}
  BY <1>1, EventIs DEF Kinds
<1> HIDE DEF b, l
<1>5. e \in Seq(Events) /\ 1 \in 1..Len(e) /\ e[1] = b /\ \A i \in 1..Len(e) : e[i] = b \/ e[i] = l
  <2>1. /\ e \in Seq(Events)
        /\ c \in queued => Len(e) = 2 /\ e[1] = b /\ e[2] = l
        /\ c \notin queued => Len(e) = 1 /\ e[1] = b
    BY <1>3, <1>4
  <2> HIDE DEF e
  <2> QED BY <2>1
<1> HIDE DEF e
<1>6. TrueThen(b) /\ TrueThen(l) BY <1>2, <1>3, <1>4 DEF TrueThen
<1>7. Speaks(e)
  <2>1. ASSUME NEW i \in 1..Len(e)
        PROVE  /\ TrueThen(e[i]) /\ chan[e[i].chan] # "gone"
               /\ e[i].kind = "bridge" => chan[e[i].other] # "gone"
               /\ e[i].kind \notin {"create", "hangup"}
    BY <1>2, <1>3, <1>4, <1>5, <1>6
  <2>2. ASSUME NEW i \in 1..Len(e), NEW j \in 1..Len(e) PROVE InOrder(e[i], e[j])
    BY <2>1 DEF InOrder
  <2> QED BY <1>2, <1>5, <2>1, <2>2 DEF Speaks
<1>8. Bridges'
  <2>1. Up' = Up /\ Legs' = Legs /\ \A x : Leg(x)' = Leg(x) BY <1>2, SamePlan DEF Up
  <2>2. c \in Up /\ d \in Up BY <1>2 DEF Up
  <2>3. peer \in [Channels -> Channels \cup {NoOne}] BY <1>1 DEF TypedSwitch
  <2>4. ASSUME NEW x \in Channels, peer'[x] # NoOne
        PROVE  x \in Up /\ peer'[x] \in Up /\ (Leg(x).from = peer'[x] \/ Leg(peer'[x]).from = x)
    <3>1. CASE x = d BY <1>1, <1>2, <2>2, <2>3, <3>1
    <3>2. CASE x # d /\ x = c BY <1>1, <1>2, <2>2, <2>3, <3>2
    <3>3. CASE x # d /\ x # c
      <4>1. peer'[x] = peer[x] BY <1>2, <2>3, <3>3
      <4> QED BY <2>4, <4>1 DEF RowsInv, Bridges
    <3> QED BY <3>1, <3>2, <3>3
  <2> QED BY <1>2, <2>1, <2>4 DEF Bridges, Leg
<1>9. Utters(e)
  <2>1. peer \in [Channels -> Channels \cup {NoOne}] BY <1>1 DEF TypedSwitch
  <2>2. ASSUME NEW x \in Channels, peer'[x] # peer[x]
        PROVE  IsBridgeOf(b, x, peer'[x])
    <3>1. x = d \/ x = c BY <1>2, <2>1, <2>2
    <3>2. x = d => peer'[x] = c BY <1>1, <1>2, <2>1
    <3>3. x # d /\ x = c => peer'[x] = d BY <1>1, <1>2, <2>1
    <3> QED BY <1>3, <3>1, <3>2, <3>3 DEF IsBridgeOf
  <2>3. ASSUME NEW x \in Channels, peer'[x] # NoOne
        PROVE  peer'[x] = peer[x] \/ \E i \in 1..Len(e) : IsBridgeOf(e[i], x, peer'[x])
    BY <1>5, <2>2
  <2>4. ASSUME NEW i \in 1..Len(e)
        PROVE  /\ e[i].kind = "bridge" => chan[e[i].other] # "none"
               /\ e[i].kind \notin {"create", "hangup"}
    BY <1>2, <1>3, <1>4, <1>5
  <2> QED BY <1>2, <1>7, <2>3, <2>4 DEF Utters
<1> QED BY <1>1, <1>7, <1>8, <1>9, SpokenStep

\* What is said as a leg leaves its bridge.
LEMMA UnbridgedIs ==
    ASSUME TypedSwitch, Bridges, NEW c \in Channels
    PROVE  /\ Unbridged(c) \in Seq(Events)
           /\ \A i \in 1..Len(Unbridged(c)) :
                  LET u == Unbridged(c)[i] IN
                  /\ u.kind = "unbridge" /\ u.chan = c /\ c \in Up /\ u.id \in {NoOne, Leg(c).id}
           /\ \A d \in Channels : Apart(c)[d] # NoOne =>
                  Apart(c)[d] = peer[d] /\ d # c /\ peer[d] # c
<1> DEFINE u == Event("unbridge", c, peer[c])
<1>1. peer[c] \in Channels \cup {NoOne} BY DEF TypedSwitch
<1>2. u \in Events /\ u.kind = "unbridge" /\ u.chan = c /\ u.id \in {NoOne, Leg(c).id}
  BY <1>1, EventIs DEF Kinds
<1>3. \A d \in Channels : Apart(c)[d] # NoOne =>
          Apart(c)[d] = peer[d] /\ d # c /\ peer[d] # c
  BY DEF Apart
<1> HIDE DEF u
<1>4. CASE peer[c] = NoOne
  <2>1. Unbridged(c) = <<>> BY <1>4 DEF Unbridged
  <2> QED BY <1>3, <2>1
<1>5. CASE peer[c] # NoOne
  <2>1. Unbridged(c) = <<u>> BY <1>5 DEF Unbridged, u
  <2>2. c \in Up BY <1>5 DEF Bridges
  <2>3. Unbridged(c) \in Seq(Events) /\ \A i \in 1..Len(Unbridged(c)) : Unbridged(c)[i] = u
    BY <1>2, <2>1
  <2> QED BY <1>2, <1>3, <2>2, <2>3
<1> QED BY <1>4, <1>5

LEMMA HangupRows ==
    ASSUME Inv, RowsInv, NEW c \in Legs, Hangup(c) PROVE RowsInv' /\ \E e : Utters(e)
<1> DEFINE h == Event("hangup", c, NoOne)
           u == Unbridged(c)
           e == u \o <<h>>
<1>1. TypedSwitch /\ Bridges /\ c \in Channels BY DEF Inv, RowsInv, Legs
<1>2. /\ SwitchOnly /\ Tell(e) /\ rows' = rows /\ c \in Up
      /\ chan' = [chan EXCEPT ![c] = "gone"] /\ peer' = Apart(c) /\ scenario' = scenario
      /\ queued' \subseteq queued
  BY DEF Hangup, SwitchOnly, appVars
<1>3. h \in Events /\ h.kind = "hangup" /\ h.chan = c /\ h.id \in {NoOne, Leg(c).id}
  BY <1>1, EventIs DEF Kinds
<1>4. /\ u \in Seq(Events)
      /\ \A i \in 1..Len(u) : /\ u[i].kind = "unbridge" /\ u[i].chan = c
                              /\ u[i].id \in {NoOne, Leg(c).id}
      /\ \A d \in Channels : Apart(c)[d] # NoOne =>
             Apart(c)[d] = peer[d] /\ d # c /\ peer[d] # c
  BY <1>1, UnbridgedIs
<1> HIDE DEF h, u
<1>5. /\ chan'[c] = "gone" /\ chan[c] # "gone" /\ chan[c] # "none"
      /\ \A d \in Channels : d # c => chan'[d] = chan[d]
  BY <1>1, <1>2 DEF TypedSwitch, Up
<1>6. /\ e \in Seq(Events) /\ Len(e) = Len(u) + 1 /\ e[Len(e)] = h /\ Len(e) \in 1..Len(e)
      /\ \A i \in 1..Len(e) : i # Len(e) => i \in 1..Len(u) /\ e[i] = u[i]
  BY <1>3, <1>4
<1> HIDE DEF e
<1>7. Speaks(e)
  <2>1. ASSUME NEW i \in 1..Len(e)
        PROVE  /\ TrueThen(e[i]) /\ e[i].chan = c
               /\ e[i].kind \in {"unbridge", "hangup"}
               /\ i # Len(e) => e[i].kind = "unbridge"
    BY <1>3, <1>4, <1>5, <1>6 DEF TrueThen
  <2>2. ASSUME NEW i \in 1..Len(e), NEW j \in 1..Len(e), i < j PROVE InOrder(e[i], e[j])
    <3>1. i # Len(e) BY <1>4, <1>6, <2>2
    <3> QED BY <2>1, <3>1 DEF InOrder
  <2>3. Says(e, "hangup", c) BY <1>3, <1>6 DEF Says
  <2> QED BY <1>2, <1>5, <1>6, <2>1, <2>2, <2>3 DEF Speaks
<1>8. Bridges'
  <2>1. Legs' = Legs BY <1>2, SamePlan
  <2>2. \A d : d # c /\ d \in Up => d \in Up' BY <1>5, <2>1 DEF Up, Legs
  <2> QED BY <1>1, <1>2, <1>4, <2>2, BridgesKept
<1>9. Utters(e)
  <2>1. ASSUME NEW i \in 1..Len(e)
        PROVE  e[i].kind \in {"unbridge", "hangup"} /\ (i # Len(e) => e[i].kind = "unbridge")
    BY <1>3, <1>4, <1>6
  <2>2. ASSUME NEW i \in 1..Len(e), NEW j \in 1..Len(e), i < j PROVE i # Len(e)
    BY <1>4, <1>6, <2>2
  <2>3. \A d \in Channels : peer'[d] # NoOne => peer'[d] = peer[d] BY <1>2, <1>4
  <2>4. \A d \in Channels : /\ chan[d] = "none" => chan'[d] = "none"
                            /\ chan'[d] = "answered" => chan[d] = "answered"
    BY <1>5
  <2>5. \A i \in 1..Len(e) : e[i].kind # "bridge" /\ e[i].kind # "create" BY <2>1
  <2>6. \A i, j \in 1..Len(e) : i < j => e[i].kind # "hangup" /\ e[j].kind # "create"
    BY <2>1, <2>2
  <2>7. \A x \in queued' : x \in queued \/ Names(e, x) BY <1>2
  <2>8. \A x \in Channels :
           /\ chan[x] = "none" => chan'[x] = "none" \/ Says(e, "create", x)
           /\ peer'[x] # NoOne => \/ peer'[x] = peer[x]
                                 \/ \E i \in 1..Len(e) : IsBridgeOf(e[i], x, peer'[x])
    BY <2>3, <2>4
  <2>9. \A x \in Channels : chan'[x] = "answered" /\ Leg(x).id # NoOne =>
                               chan[x] = "answered" \/ Names(e, x)
    BY <2>4
  <2>10. \A i \in 1..Len(e) : /\ e[i].kind = "bridge" => chan[e[i].other] # "none"
                              /\ e[i].kind = "create" => IsRaised(e[i])
    BY <2>5
  <2> QED BY <1>7, <2>6, <2>7, <2>8, <2>9, <2>10, Zenon DEF Utters
<1> QED BY <1>1, <1>7, <1>8, <1>9, SpokenStep

LEMMA RunTransferRows ==
    ASSUME Inv, RowsInv, NEW t \in Moves, RunTransfer(t) PROVE RowsInv' /\ \E e : Utters(e)
<1> DEFINE c == move[t].chan
           e == Unbridged(c)
<1>1. TypedSwitch /\ Bridges /\ t \in pending BY DEF Inv, RowsInv, RunTransfer
<1>2. /\ SwitchOnly /\ Tell(e) /\ rows' = rows
      /\ chan' = chan /\ peer' = Apart(c) /\ scenario' = scenario /\ queued' = queued
  BY DEF RunTransfer, SwitchOnly, appVars
<1>3. c \in Channels BY <1>1 DEF TypedSwitch
<1> HIDE DEF c
<1>4. /\ e \in Seq(Events)
      /\ \A i \in 1..Len(e) : /\ e[i].kind = "unbridge" /\ e[i].chan = c /\ c \in Up
                              /\ e[i].id \in {NoOne, Leg(c).id}
      /\ \A d \in Channels : Apart(c)[d] # NoOne =>
             Apart(c)[d] = peer[d] /\ d # c /\ peer[d] # c
  BY <1>1, <1>3, UnbridgedIs
<1> HIDE DEF e
<1>5. Speaks(e)
  <2>1. ASSUME NEW i \in 1..Len(e)
        PROVE  TrueThen(e[i]) /\ chan[e[i].chan] # "gone" /\ e[i].kind = "unbridge"
    BY <1>2, <1>4 DEF TrueThen, Up
  <2>2. ASSUME NEW i \in 1..Len(e), NEW j \in 1..Len(e) PROVE InOrder(e[i], e[j])
    BY <2>1 DEF InOrder
  <2> QED BY <1>2, <1>4, <2>1, <2>2 DEF Speaks
<1>6. Up' = Up BY <1>2, SamePlan DEF Up
<1>7. Bridges' BY <1>1, <1>2, <1>4, <1>6, BridgesKept
<1>8. Utters(e)
  <2>1. \A i \in 1..Len(e) : e[i].kind = "unbridge" BY <1>4
  <2>2. \A d \in Channels : peer'[d] # NoOne => peer'[d] = peer[d] BY <1>2, <1>4
  <2> QED BY <1>2, <1>5, <2>1, <2>2 DEF Utters
<1> QED BY <1>1, <1>5, <1>7, <1>8, SpokenStep

-----------------------------------------------------------------------------
(***************************************************************************)
(* The steps of the application.                                           *)
(***************************************************************************)
\* The switch stands still: what is said of the next state can be said of the
\* registry and the stream it has.
LEMMA SameSwitch ==
    ASSUME scenario' = scenario, chan' = chan, peer' = peer,
           link' = "down" \/ (link' = link /\ spent'.missed = spent.missed)
    PROVE  /\ Bridges => Bridges'
           /\ Ordered(feed') => Ordered(feed)'
           /\ Registered(call', at') => Registered(call, at)'
           /\ Strays(call', at', feed') => Strays(call, at, feed)'
           /\ Ends(call', feed') => Ends(call, feed)'
           /\ Births(call', at', feed') => Births(call, at, feed)'
           /\ Deaths(call', feed') => Deaths(call, feed)'
           /\ (rows \cup toWrite)' \subseteq rows \cup toWrite /\ Recorded(call', feed') =>
                  Recorded(call, feed)'
<1>1. Legs' = Legs /\ \A c : Leg(c)' = Leg(c) BY SamePlan
<1>2. Bridges => Bridges' BY BridgesKept, <1>1 DEF Up
<1>3. Ordered(feed') => Ordered(feed)'
  BY <1>1 DEF Ordered, IsTrue, InOrder, Repeats, Says
<1>4. Registered(call', at') => Registered(call, at)' BY SamePlan
<1>5. Strays(call', at', feed') => Strays(call, at, feed)'
  BY <1>1 DEF Strays, IsDone, Repeats
<1>6. Ends(call', feed') => Ends(call, feed)' BY DEF Ends, IsDone, Repeats, Says, Has
<1>7. Births(call', at', feed') => Births(call, at, feed)' BY DEF Births, IsNew, Has, Says
<1>8. Deaths(call', feed') => Deaths(call, feed)'
  <2>1. IsDeaf => IsDeaf' BY DEF IsDeaf
  <2> QED BY <2>1 DEF Deaths, IsComing, IsRunning, Has, Says
<1>9. (rows \cup toWrite)' \subseteq rows \cup toWrite /\ Recorded(call', feed') => Recorded(call, feed)'
  BY DEF Recorded, IsDone, Repeats, IsRunning, Has
<1> QED BY <1>2, <1>3, <1>4, <1>5, <1>6, <1>7, <1>8, <1>9

\* A step of the registry that writes nothing.
LEMMA RegistryStep ==
    ASSUME RowsInv, scenario' = scenario, chan' = chan, peer' = peer,
           link' = "down" \/ (link' = link /\ spent'.missed = spent.missed),
           (rows \cup toWrite)' \subseteq rows \cup toWrite,
           Ordered(feed'), Registered(call', at'), Accounted(call', at', feed')
    PROVE  RowsInv'
<1>1. OneRowPerLeg'
  <2>1. OneRowPerLeg BY DEF RowsInv
  <2> QED BY <2>1 DEF OneRowPerLeg
<1> QED BY <1>1, SameSwitch DEF RowsInv, Accounted

LEMMA HandleRows ==
    ASSUME Conversations, Inv, RowsInv, Handle PROVE RowsInv'
<1> DEFINE ev == Head(feed)
<1>1. /\ scenario \in Scenarios /\ feed \in Seq(Events) /\ feed # <<>> /\ feed' = Tail(feed)
      /\ UNCHANGED <<scenario, spent, link, chan, peer, toWrite, rows>>
      /\ \A k \in Awaited(ev) : call[k].stopped \/ call[k].mailbox = <<>>
  BY DEF Inv, TypedSwitch, Handle
<1>2. PICK late \in BOOLEAN : LET s == HandleResult(ev, late) IN
          /\ call' = s.call /\ at' = s.at /\ waiting' = s.waiting
          /\ onCall' = s.onCall /\ afterWork' = s.afterWork
  BY DEF Handle
<1> DEFINE s == HandleResult(ev, late)
<1>3. State \in States(waiting, afterWork) BY DEF Inv, State, States, TypedCalls
<1>4. Sound(State, feed) BY DEF RowsInv, Sound, State
<1>5. Ordered(feed) BY DEF RowsInv
<1>6. Sound(s, Tail(feed)) BY <1>1, <1>3, <1>4, <1>5, HandleKeeps
<1>7. call' = s.call /\ at' = s.at BY <1>2
<1> HIDE DEF s, ev
<1>8. Registered(call', at') /\ Accounted(call', at', feed') BY <1>1, <1>6, <1>7 DEF Sound
<1>9. Ordered(feed') BY <1>1, <1>5, OrderedTail
<1> QED BY <1>1, <1>8, <1>9, RegistryStep

\* A step that changes no more of the calls than the transfers that claim them.
LEMMA ClaimsRows ==
    ASSUME Inv, RowsInv, call' \in [CallIds -> CallRecords],
           \A k \in CallIds : /\ call'[k].known = call[k].known
                              /\ call'[k].stopped = call[k].stopped
                              /\ call'[k].ended = call[k].ended
                              /\ call'[k].minted = call[k].minted
                              /\ call'[k].mailbox = call[k].mailbox
                              /\ call'[k].party = call[k].party
                              /\ ~call[k].known => call'[k] = call[k],
           UNCHANGED <<scenario, spent, link, chan, peer, feed, at, toWrite, rows>>
    PROVE  RowsInv'
<1>1. Registered(call', at')
  <2>1. Registered(call, at) BY DEF RowsInv
  <2>2. at \in [Channels -> CallIds \cup {NoOne}] /\ Channels \subseteq CallIds
    BY DEF Inv, TypedCalls, CallIds
  <2>3. Flags(call', at') BY <2>1 DEF Registered, Flags, WasAbsorbed
  <2>4. Bindings(call', at') BY <2>1, <2>2 DEF Registered, Bindings, IsRunning, Has
  <2> QED BY <2>3, <2>4 DEF Registered
<1>2. Accounted(call, at, feed) BY DEF RowsInv
<1>3. at \in [Channels -> CallIds \cup {NoOne}] /\ Channels \subseteq CallIds
  BY DEF Inv, TypedCalls, CallIds
<1>4. Strays(call', at', feed') BY <1>2, <1>3 DEF Accounted, Strays
<1>5. Ends(call', feed') BY <1>2 DEF Accounted, Ends, Has
<1>6. Births(call', at', feed') BY <1>2, <1>3 DEF Accounted, Births, IsNew, Has
<1>7. Deaths(call', feed') BY <1>2 DEF Accounted, Deaths, IsComing, IsRunning, Has
<1>8. Recorded(call', feed') BY <1>2 DEF Accounted, Recorded, IsRunning, Has
<1>9. Ordered(feed') BY DEF RowsInv
<1> QED BY <1>1, <1>4, <1>5, <1>6, <1>7, <1>8, <1>9, RegistryStep DEF Accounted

LEMMA ClaimsOf ==
    ASSUME Inv, RowsInv, NEW k \in CallIds, call[k].known, NEW claims,
           claims \subseteq [chan : Channels, move : Moves],
           call' = [call EXCEPT ![k] = [call[k] EXCEPT !.claims = claims]],
           UNCHANGED <<scenario, spent, link, chan, peer, feed, at, toWrite, rows>>
    PROVE  RowsInv'
<1>1. call \in [CallIds -> CallRecords] /\ call[k] \in CallRecords BY DEF Inv, TypedCalls
<1> DEFINE a == [call[k] EXCEPT !.claims = claims]
<1>2. /\ a \in CallRecords /\ a.known = call[k].known /\ a.stopped = call[k].stopped
      /\ a.ended = call[k].ended /\ a.minted = call[k].minted /\ a.mailbox = call[k].mailbox
      /\ a.party = call[k].party
  BY <1>1 DEF CallRecords
<1> HIDE DEF a
<1>3. call' = [call EXCEPT ![k] = a] BY DEF a
<1>4. call' \in [CallIds -> CallRecords] BY <1>1, <1>2, <1>3
<1>5. ASSUME NEW j \in CallIds
      PROVE  /\ call'[j].known = call[j].known
             /\ call'[j].stopped = call[j].stopped
             /\ call'[j].ended = call[j].ended
             /\ call'[j].minted = call[j].minted
             /\ call'[j].mailbox = call[j].mailbox
             /\ call'[j].party = call[j].party
             /\ ~call[j].known => call'[j] = call[j]
  <2>1. CASE j = k
    <3>1. call'[j] = a BY <1>1, <1>3, <2>1
    <3> QED BY <1>2, <2>1, <3>1
  <2>2. CASE j # k
    <3>1. call'[j] = call[j] BY <1>1, <1>3, <2>2
    <3> QED BY <3>1
  <2> QED BY <2>1, <2>2
<1> QED BY <1>4, <1>5, ClaimsRows

LEMMA SendRows ==
    ASSUME Inv, RowsInv, NEW t \in Moves, NEW k \in CallIds, NEW a \in Agents,
           SendTransfer(t, k, a)
    PROVE  RowsInv'
<1>1. /\ UNCHANGED <<scenario, spent, link, chan, peer, feed, at, toWrite, rows>> /\ call[k].known
  BY DEF SendTransfer, IsKnown
<1>2. call[k] \in CallRecords BY DEF Inv, TypedCalls
<1>3. PICK c \in SurvivingLeg(k, a) :
          call' = [call EXCEPT ![k].claims = @ \cup {[chan |-> c, move |-> t]}]
  BY DEF SendTransfer
<1> DEFINE claims == call[k].claims \cup {[chan |-> c, move |-> t]}
<1>4. c \in Channels
  <2>1. c \in DOMAIN call[k].party BY DEF SurvivingLeg
  <2>2. call[k].party \in PartyMaps BY <1>2 DEF CallRecords
  <2> QED BY <2>1, <2>2, PartyMapIs
<1>5. claims \subseteq [chan : Channels, move : Moves] BY <1>2, <1>4 DEF CallRecords
<1>6. call' = [call EXCEPT ![k] = [call[k] EXCEPT !.claims = claims]] BY <1>3
<1> HIDE DEF claims
<1> QED BY <1>1, <1>5, <1>6, ClaimsOf

LEMMA ReturnsRows ==
    ASSUME Inv, RowsInv, NEW t \in Moves, NEW replied \in BOOLEAN, TransferReturns(t, replied)
    PROVE  RowsInv'
<1> DEFINE k == move[t].call
           claims == {x \in call[k].claims : x.move # t}
<1>1. UNCHANGED <<scenario, spent, link, chan, peer, feed, at, toWrite, rows>>
  BY DEF TransferReturns, switchVars
<1>2. CASE replied /\ IsKnown(k) /\ ~call[k].stopped
  <2>1. call' = [call EXCEPT ![k].claims = {x \in @ : x.move # t}]
    BY <1>2 DEF TransferReturns
  <2>2. call' = [call EXCEPT ![k] = [call[k] EXCEPT !.claims = claims]] BY <2>1
  <2>3. call[k].known BY <1>2 DEF IsKnown
  <2>4. CASE k \in CallIds
    <3>1. call[k] \in CallRecords BY <2>4 DEF Inv, TypedCalls
    <3>2. claims \subseteq [chan : Channels, move : Moves] BY <3>1 DEF CallRecords
    <3> HIDE DEF k, claims
    <3> QED BY <1>1, <2>2, <2>3, <2>4, <3>2, ClaimsOf
  <2>5. CASE k \notin CallIds
    <3>1. call' = call BY <2>2, <2>5 DEF Inv, TypedCalls
    <3> QED BY <1>1, <3>1, ClaimsRows DEF Inv, TypedCalls
  <2> QED BY <2>4, <2>5
<1>3. CASE ~(replied /\ IsKnown(k) /\ ~call[k].stopped)
  <2>1. call' = call BY <1>3 DEF TransferReturns
  <2> QED BY <1>1, <2>1, ClaimsRows DEF Inv, TypedCalls
<1> QED BY <1>2, <1>3

LEMMA LapsesRows ==
    ASSUME Inv, RowsInv, NEW t \in Moves, ClaimLapses(t) PROVE RowsInv'
<1>1. UNCHANGED <<scenario, spent, link, chan, peer, feed, at, toWrite, rows>>
  BY DEF ClaimLapses, switchVars
<1>2. PICK k \in CallIds :
          /\ \E x \in call[k].claims : x.move = t
          /\ call' = [call EXCEPT ![k].claims = {x \in @ : x.move # t}]
  BY DEF ClaimLapses
<1> DEFINE claims == {x \in call[k].claims : x.move # t}
<1>3. call' = [call EXCEPT ![k] = [call[k] EXCEPT !.claims = claims]] BY <1>2
<1>4. call[k] \in CallRecords BY DEF Inv, TypedCalls
<1>5. claims \subseteq [chan : Channels, move : Moves] BY <1>4 DEF CallRecords
<1>6. call[k].known
  <2>1. ~call[k].known => call[k] = NoCall BY DEF RowsInv, Registered, Flags
  <2> QED BY <1>2, <2>1 DEF NoCall
<1> HIDE DEF claims
<1> QED BY <1>1, <1>3, <1>5, <1>6, ClaimsOf

LEMMA WriteRows ==
    ASSUME Inv, RowsInv, NEW r \in toWrite, WriteRow(r) PROVE RowsInv'
<1>1. /\ UNCHANGED <<scenario, spent, link, chan, peer, feed, at, call>>
      /\ rows' = rows \cup {r} /\ toWrite' = toWrite \ {r}
  BY DEF WriteRow, switchVars
<1>2. (rows \cup toWrite)' = rows \cup toWrite BY <1>1
<1> QED BY <1>1, <1>2, RegistryStep DEF RowsInv

LEMMA LoseRows ==
    ASSUME Inv, SpentInv, RowsInv, NEW r \in toWrite, LoseRow(r) PROVE RowsInv'
<1>1. /\ UNCHANGED <<scenario, link, chan, peer, feed, at, call, rows>>
      /\ toWrite' = toWrite \ {r}
  BY DEF LoseRow, switchVars
<1>2. spent'.missed = spent.missed BY DEF LoseRow, SpentInv
<1>3. (rows \cup toWrite)' \subseteq rows \cup toWrite BY <1>1
<1> QED BY <1>1, <1>2, <1>3, RegistryStep DEF RowsInv

\* A call that ended leaves the registry, and nothing is said of it any more.
LEMMA UnregisterRows ==
    ASSUME Inv, RowsInv, NEW k \in CallIds, Unregister(k) PROVE RowsInv'
<1>1. /\ UNCHANGED <<scenario, spent, link, chan, peer, feed, toWrite, rows>>
      /\ call[k].known /\ call[k].stopped
  BY DEF Unregister, switchVars, IsKnown
<1>2. call \in [CallIds -> CallRecords] /\ at \in [Channels -> CallIds \cup {NoOne}]
      /\ Channels \subseteq CallIds /\ NoOne \notin CallIds
  BY CallsAssumption DEF Inv, TypedCalls, CallIds
<1>3. /\ call'[k] = NoCall /\ \A j \in CallIds : j # k => call'[j] = call[j]
      /\ \A c \in Channels : at'[c] = IF at[c] = k THEN NoOne ELSE at[c]
  BY <1>2 DEF Unregister
<1>4. /\ NoCall.known = FALSE /\ NoCall.stopped /\ NoCall.ended /\ DOMAIN NoCall.party = {}
  BY DEF NoCall
<1>5. \A j \in CallIds : IsRunning(call', j) <=> IsRunning(call, j)
  BY <1>1, <1>3, <1>4 DEF IsRunning
<1>6. \A j \in CallIds : WasAbsorbed(call', j) => j # k /\ WasAbsorbed(call, j)
  BY <1>1, <1>3, <1>4 DEF WasAbsorbed
<1>7. \A j \in CallIds, c \in Channels : Has(call', j, c) => j # k /\ Has(call, j, c)
  BY <1>3, <1>4 DEF Has
<1>8. Registered(call, at) /\ Accounted(call, at, feed) /\ Ordered(feed) BY DEF RowsInv
<1>9. Flags(call', at')
  <2>1. ASSUME NEW j \in CallIds
        PROVE  /\ ~call'[j].known => call'[j] = NoCall
               /\ call'[j].ended => call'[j].stopped
               /\ call'[j].known => (call'[j].minted <=> j \in Ids)
               /\ WasAbsorbed(call', j) => call'[j].mailbox = <<>> /\ j \notin Ids
                                           /\ \A c \in Channels : at'[c] # j
    <3>1. CASE j = k BY <1>3, <1>4, <1>6, <3>1
    <3>2. CASE j # k
      <4>1. call'[j] = call[j] BY <1>3, <3>2
      <4>2. /\ ~call[j].known => call[j] = NoCall
            /\ call[j].ended => call[j].stopped
            /\ call[j].known => (call[j].minted <=> j \in Ids)
            /\ WasAbsorbed(call, j) => call[j].mailbox = <<>> /\ j \notin Ids
                                        /\ \A c \in Channels : at[c] # j
        BY <1>8 DEF Registered, Flags
      <4>3. \A c \in Channels : at[c] # j => at'[c] # j BY <1>2, <1>3
      <4> QED BY <1>6, <4>1, <4>2, <4>3
    <3> QED BY <3>1, <3>2
  <2> QED BY <2>1 DEF Flags
<1>10. Bindings(call', at')
  <2>1. ASSUME NEW c \in Channels, at'[c] # NoOne
        PROVE  c \in Legs /\ call'[at'[c]].known /\ IsKin(c, at'[c])
    <3>1. at'[c] = at[c] /\ at[c] # k /\ at[c] # NoOne BY <1>3, <2>1
    <3>2. call'[at[c]] = call[at[c]] BY <1>2, <1>3, <3>1
    <3> QED BY <1>8, <3>1, <3>2 DEF Registered, Bindings
  <2>2. ASSUME NEW j \in CallIds, IsRunning(call', j)
        PROVE  j # k /\ IsRunning(call, j) /\ call'[j] = call[j]
    BY <1>1, <1>3, <1>5, <2>2 DEF IsRunning
  <2>3. ASSUME NEW j \in CallIds, IsRunning(call', j), NEW c \in Channels
        PROVE  at'[c] = j <=> Has(call', j, c)
    <3>1. j # k /\ IsRunning(call, j) /\ call'[j] = call[j] BY <2>2, <2>3
    <3>2. at[c] = j <=> Has(call, j, c) BY <1>8, <3>1 DEF Registered, Bindings
    <3> QED BY <1>2, <1>3, <3>1, <3>2 DEF Has
  <2>4. ASSUME NEW j \in Channels, IsRunning(call', j) PROVE Has(call', j, j)
    <3>1. IsRunning(call, j) /\ call'[j] = call[j] BY <1>2, <2>2, <2>4
    <3> QED BY <1>8, <3>1 DEF Registered, Bindings, Has
  <2> QED BY <2>1, <2>3, <2>4 DEF Bindings
<1>11. Strays(call', at', feed')
  <2>1. ASSUME NEW c \in Channels, at'[c] # NoOne, at'[c] \notin Ids, call'[at'[c]].ended
        PROVE  at[c] # NoOne /\ at[c] \notin Ids /\ call[at[c]].ended
    <3>1. at'[c] = at[c] /\ at[c] # k /\ at[c] # NoOne BY <1>3, <2>1
    <3>2. call'[at[c]] = call[at[c]] BY <1>2, <1>3, <3>1
    <3> QED BY <2>1, <3>1, <3>2
  <2> QED BY <1>1, <1>8, <2>1 DEF Accounted, Strays
<1>12. Ends(call', feed')
  <2>1. ASSUME NEW j \in CallIds, NEW c \in Channels
        PROVE  /\ call'[j].known /\ Says(call'[j].mailbox, "hangup", c) => IsDone(feed, c)
               /\ Has(call', j, c) /\ call'[j].party[c].state = "RELEASED" => IsDone(feed, c)
    <3>1. CASE j = k BY <1>3, <1>4, <1>7, <3>1
    <3>2. CASE j # k
      <4>1. call'[j] = call[j] BY <1>3, <3>2
      <4> QED BY <1>7, <1>8, <4>1 DEF Accounted, Ends
    <3> QED BY <3>1, <3>2
  <2> QED BY <1>1, <2>1 DEF Ends
<1>13. Births(call', at', feed')
  <2>1. ASSUME NEW c \in Channels, IsNew(call, at, c) PROVE IsNew(call', at', c)
    <3>1. c \in CallIds BY <1>2
    <3>2. ~call'[c].known BY <1>3, <1>4, <2>1, <3>1 DEF IsNew
    <3> QED BY <1>3, <1>7, <2>1, <3>2 DEF IsNew
  <2> QED BY <1>1, <1>8, <2>1 DEF Accounted, Births
<1>14. Deaths(call', feed')
  <2>1. ASSUME NEW j \in CallIds, NEW c \in Channels, IsRunning(call', j), Has(call', j, c),
               call'[j].party[c].state # "RELEASED"
        PROVE  IsComing(call', j, c, feed)
    <3>1. IsRunning(call, j) /\ call'[j] = call[j] BY <1>3, <1>5, <1>7, <2>1
    <3> QED BY <1>8, <2>1, <3>1 DEF Accounted, Deaths, IsComing, Has
  <2> QED BY <1>1, <2>1 DEF Deaths
<1>15. Recorded(call', feed') BY <1>1, <1>5, <1>7, <1>8 DEF Accounted, Recorded
<1> QED BY <1>1, <1>8, <1>9, <1>10, <1>11, <1>12, <1>13, <1>14, <1>15, RegistryStep
        DEF Registered, Accounted

\* An event makes a leg end only if it is the leg's end, and then it does.
LEMMA MovedEnds ==
    ASSUME NEW f \in PartyMaps, NEW ev, NEW c \in DOMAIN f
    PROVE  /\ DOMAIN Moved(f, ev) = DOMAIN f
           /\ Moved(f, ev)[c].state = "RELEASED" <=>
                  f[c].state = "RELEASED" \/ (ev.kind = "hangup" /\ ev.chan = c)
<1>1. f[c] \in Parties BY PartyMapIs
<1>2. DOMAIN Moved(f, ev) = DOMAIN f BY DEF Moved
<1>3. CASE ev.kind = "answer" /\ c = ev.chan BY <1>1, <1>3 DEF Moved, Parties
<1>4. CASE ev.kind = "bridge" /\ c \in {ev.chan, ev.other}
  <2>1. Moved(f, ev)[c] = Establish(f[c]) BY <1>4 DEF Moved
  <2> QED BY <1>1, <1>2, <1>4, <2>1 DEF Establish, Parties
<1>5. CASE ev.kind = "hangup" /\ c = ev.chan BY <1>1, <1>5 DEF Moved, Parties
<1>6. CASE /\ ~(ev.kind = "answer" /\ c = ev.chan)
           /\ ~(ev.kind = "bridge" /\ c \in {ev.chan, ev.other})
           /\ ~(ev.kind = "hangup" /\ c = ev.chan)
  BY <1>6 DEF Moved
<1> QED BY <1>2, <1>3, <1>4, <1>5, <1>6

\* What a call's actor makes of the event at the head of its mailbox.
LEMMA ApplyEffect ==
    ASSUME Inv, RowsInv, NEW k \in CallIds, ApplySwitchEvent(k),
           NEW ev, ev = Head(call[k].mailbox), NEW over, over = Finishes(call[k], ev)
    PROVE  /\ call[k].known /\ call[k].mailbox \in Seq(Events) /\ call[k].mailbox # <<>>
           /\ ~WasAbsorbed(call, k)
           /\ call[k].party \in PartyMaps /\ DOMAIN call[k].party \subseteq Channels
           /\ \A j \in CallIds : j # k => call'[j] = call[j]
           /\ call'[k].known /\ call'[k].minted = call[k].minted
           /\ call'[k].ended <=> call[k].ended \/ over
           /\ call'[k].stopped <=> call[k].stopped \/ over
           /\ call'[k].mailbox = Tail(call[k].mailbox)
           /\ DOMAIN call'[k].party = DOMAIN call[k].party
           /\ \A c \in DOMAIN call[k].party :
                  call'[k].party[c].state = "RELEASED" <=>
                      call[k].party[c].state = "RELEASED" \/ (ev.kind = "hangup" /\ ev.chan = c)
           /\ over => ~call[k].ended /\ \A c \in DOMAIN call[k].party :
                          call'[k].party[c].state = "RELEASED"
           /\ toWrite' = IF over THEN toWrite \cup {[call |-> k, legs |-> DOMAIN call[k].party]}
                         ELSE toWrite
<1> DEFINE a == call[k]
           mine == ev.chan \in DOMAIN a.party
           party == IF mine THEN Moved(a.party, ev) ELSE a.party
           claims == Settled(a.claims, ev)
           box == Tail(a.mailbox)
           r == [a EXCEPT !.mailbox = box, !.claims = claims, !.party = party,
                          !.ended = @ \/ over, !.stopped = @ \/ over]
<1>1. call \in [CallIds -> CallRecords] /\ a \in CallRecords BY DEF Inv, TypedCalls
<1>2. call' = [call EXCEPT ![k] = r] /\ a.known /\ a.mailbox # <<>>
  BY DEF ApplySwitchEvent, IsKnown
<1>3. toWrite' = IF over THEN toWrite \cup {[call |-> k, legs |-> DOMAIN a.party]} ELSE toWrite
  BY DEF ApplySwitchEvent
<1>4. over \in BOOLEAN BY DEF Finishes
<1>5. a.party \in PartyMaps /\ a.mailbox \in Seq(Events) BY <1>1 DEF CallRecords
<1>6. DOMAIN a.party \subseteq Channels BY <1>5, PartyMapIs
<1>7. DOMAIN party = DOMAIN a.party BY DEF Moved
<1>8. \A c \in DOMAIN a.party : party[c].state = "RELEASED" <=>
          a.party[c].state = "RELEASED" \/ (ev.kind = "hangup" /\ ev.chan = c)
  BY <1>5, MovedEnds
<1>9. over => ~a.ended /\ \A c \in DOMAIN a.party : party[c].state = "RELEASED"
  BY DEF Finishes, IsActive
<1>10. ~WasAbsorbed(call, k) BY <1>2 DEF RowsInv, Registered, Flags
<1> HIDE DEF party, claims, box, a
<1>11. /\ r.known = a.known /\ r.minted = a.minted /\ r.mailbox = box /\ r.party = party
       /\ r.ended = (a.ended \/ over) /\ r.stopped = (a.stopped \/ over)
  BY <1>1, <1>4 DEF CallRecords
<1>12. call'[k] = r /\ \A j \in CallIds : j # k => call'[j] = call[j] BY <1>1, <1>2
<1> HIDE DEF r
<1>13. call'[k].ended <=> a.ended \/ over BY <1>11, <1>12
<1>14. call'[k].stopped <=> a.stopped \/ over BY <1>11, <1>12
<1> QED BY <1>2, <1>3, <1>5, <1>6, <1>7, <1>8, <1>9, <1>10, <1>11, <1>12, <1>13, <1>14, Zenon
        DEF a, box

LEMMA ApplyRows ==
    ASSUME Inv, RowsInv, NEW k \in CallIds, ApplySwitchEvent(k) PROVE RowsInv'
<1> DEFINE ev == Head(call[k].mailbox)
           over == Finishes(call[k], ev)
           new == [call |-> k, legs |-> DOMAIN call[k].party]
<1>1. UNCHANGED <<scenario, spent, link, chan, peer, feed, at, rows>>
  BY DEF ApplySwitchEvent, switchVars
<1>2. /\ call[k].known /\ call[k].mailbox \in Seq(Events) /\ call[k].mailbox # <<>>
      /\ ~WasAbsorbed(call, k)
      /\ DOMAIN call[k].party \subseteq Channels
      /\ \A j \in CallIds : j # k => call'[j] = call[j]
      /\ call'[k].known /\ call'[k].minted = call[k].minted
      /\ call'[k].ended <=> call[k].ended \/ over
      /\ call'[k].stopped <=> call[k].stopped \/ over
      /\ call'[k].mailbox = Tail(call[k].mailbox)
      /\ DOMAIN call'[k].party = DOMAIN call[k].party
      /\ \A c \in DOMAIN call[k].party :
             call'[k].party[c].state = "RELEASED" <=>
                 call[k].party[c].state = "RELEASED" \/ (ev.kind = "hangup" /\ ev.chan = c)
      /\ over => ~call[k].ended /\ \A c \in DOMAIN call[k].party :
                     call'[k].party[c].state = "RELEASED"
      /\ toWrite' = IF over THEN toWrite \cup {new} ELSE toWrite
  BY ApplyEffect
<1>3. at \in [Channels -> CallIds \cup {NoOne}] /\ Channels \subseteq CallIds /\ NoOne \notin CallIds
  BY CallsAssumption DEF Inv, TypedCalls, CallIds
<1> HIDE DEF over
<1>4. Registered(call, at) /\ Accounted(call, at, feed) /\ Ordered(feed) /\ Bridges /\ OneRowPerLeg
  BY DEF RowsInv
<1>5. \A c : Says(call[k].mailbox, "hangup", c) <=>
          \/ ev.kind = "hangup" /\ ev.chan = c
          \/ Says(Tail(call[k].mailbox), "hangup", c)
  BY <1>2, SaysTail
<1> HIDE DEF ev
<1>6. \A j \in CallIds : \A c : Has(call', j, c) <=> Has(call, j, c) BY <1>2 DEF Has
<1>7. /\ \A j \in CallIds : IsRunning(call', j) => IsRunning(call, j)
      /\ over => IsRunning(call, k) /\ ~IsRunning(call', k)
  BY <1>2 DEF IsRunning, WasAbsorbed
<1>8. ASSUME NEW c \in Channels, Has(call, k, c), call'[k].party[c].state = "RELEASED"
      PROVE  IsDone(feed, c)
  <2>1. c \in DOMAIN call[k].party BY <1>8 DEF Has
  <2>2. \/ call[k].party[c].state = "RELEASED"
        \/ Says(call[k].mailbox, "hangup", c)
    BY <1>2, <1>5, <1>8, <2>1
  <2> QED BY <1>2, <1>4, <1>8, <2>2 DEF Accounted, Ends
<1>9. ASSUME over, NEW c \in DOMAIN call[k].party
      PROVE  c \in Channels /\ IsDone(feed, c) /\ at[c] = k
             /\ \A j \in CallIds : j # k => ~(IsRunning(call, j) /\ Has(call, j, c))
  <2>1. c \in Channels /\ Has(call, k, c) /\ IsRunning(call, k) BY <1>2, <1>7, <1>9 DEF Has
  <2>2. at[c] = k BY <1>4, <2>1 DEF Registered, Bindings
  <2>3. IsDone(feed, c) BY <1>2, <1>8, <1>9, <2>1
  <2>4. \A j \in CallIds : j # k => ~(IsRunning(call, j) /\ Has(call, j, c))
    BY <1>4, <2>1, <2>2 DEF Registered, Bindings
  <2> QED BY <2>1, <2>2, <2>3, <2>4
<1>10. Registered(call', at')
  <2>1. Flags(call', at)
    <3>1. ASSUME NEW j \in CallIds
          PROVE  /\ ~call'[j].known => call'[j] = NoCall
                 /\ call'[j].ended => call'[j].stopped
                 /\ call'[j].known => (call'[j].minted <=> j \in Ids)
                 /\ WasAbsorbed(call', j) => call'[j].mailbox = <<>> /\ j \notin Ids
                                             /\ \A c \in Channels : at[c] # j
      <4>1. /\ ~call[j].known => call[j] = NoCall
            /\ call[j].ended => call[j].stopped
            /\ call[j].known => (call[j].minted <=> j \in Ids)
            /\ WasAbsorbed(call, j) => call[j].mailbox = <<>> /\ j \notin Ids
                                        /\ \A c \in Channels : at[c] # j
        BY <1>4 DEF Registered, Flags
      <4>2. CASE j = k BY <1>2, <4>1, <4>2 DEF WasAbsorbed
      <4>3. CASE j # k BY <1>2, <4>1, <4>3 DEF WasAbsorbed
      <4> QED BY <4>2, <4>3
    <3> QED BY <3>1 DEF Flags
  <2>2. Bindings(call', at)
    <3>1. \A j \in CallIds : call'[j].known <=> call[j].known BY <1>2
    <3> QED BY <1>3, <1>4, <1>6, <1>7, <3>1 DEF Registered, Bindings
  <2> QED BY <1>1, <2>1, <2>2 DEF Registered
<1>11. Strays(call', at', feed')
  <2>1. ASSUME NEW c \in Channels, at[c] # NoOne, at[c] \notin Ids, call'[at[c]].ended
        PROVE  \/ IsDone(feed, c)
               \/ Leg(c).from # NoOne /\ Leg(c).id = NoOne /\ IsDone(feed, Leg(c).from)
    <3>1. CASE call[at[c]].ended BY <1>4, <2>1, <3>1 DEF Accounted, Strays
    <3>2. CASE ~call[at[c]].ended
      <4>1. at[c] = k /\ over BY <1>2, <1>3, <2>1, <3>2
      <4>2. Has(call, k, c) BY <1>4, <1>7, <4>1 DEF Registered, Bindings
      <4> QED BY <1>9, <4>1, <4>2 DEF Has
    <3> QED BY <3>1, <3>2
  <2> QED BY <1>1, <2>1 DEF Strays
<1>12. Ends(call', feed')
  <2>1. ASSUME NEW j \in CallIds, NEW c \in Channels
        PROVE  /\ call'[j].known /\ Says(call'[j].mailbox, "hangup", c) => IsDone(feed, c)
               /\ Has(call', j, c) /\ call'[j].party[c].state = "RELEASED" => IsDone(feed, c)
    <3>1. CASE j = k BY <1>2, <1>4, <1>5, <1>6, <1>8, <3>1 DEF Accounted, Ends
    <3>2. CASE j # k
      <4>1. call'[j] = call[j] BY <1>2, <3>2
      <4> QED BY <1>4, <1>6, <4>1 DEF Accounted, Ends
    <3> QED BY <3>1, <3>2
  <2> QED BY <1>1, <2>1 DEF Ends
<1>13. Births(call', at', feed')
  <2>1. \A j \in CallIds : call'[j].known <=> call[j].known BY <1>2
  <2> QED BY <1>1, <1>3, <1>4, <1>6, <2>1 DEF Accounted, Births, IsNew
<1>14. Deaths(call', feed')
  <2>1. ASSUME NEW j \in CallIds, NEW c \in Channels, IsRunning(call', j), Has(call', j, c),
               call'[j].party[c].state # "RELEASED"
        PROVE  IsComing(call', j, c, feed)
    <3>1. IsRunning(call, j) /\ Has(call, j, c) BY <1>6, <1>7, <2>1
    <3>2. CASE j = k
      <4>1. c \in DOMAIN call[k].party BY <3>1, <3>2 DEF Has
      <4>2. call[k].party[c].state # "RELEASED" /\ ~(ev.kind = "hangup" /\ ev.chan = c)
        BY <1>2, <2>1, <3>2, <4>1
      <4>3. IsComing(call, k, c, feed) BY <1>4, <3>1, <3>2, <4>2 DEF Accounted, Deaths
      <4> QED BY <1>2, <1>5, <3>2, <4>2, <4>3 DEF IsComing
    <3>3. CASE j # k
      <4>1. call'[j] = call[j] BY <1>2, <3>3
      <4> QED BY <1>4, <2>1, <3>1, <4>1 DEF Accounted, Deaths, IsComing
    <3> QED BY <3>2, <3>3
  <2> QED BY <1>1, <2>1 DEF Deaths
<1>15. ASSUME NEW r \in rows \cup toWrite, NEW c \in r.legs
       PROVE  c \in Channels /\ IsDone(feed, c) /\ \A j \in CallIds : IsRunning(call, j) => ~Has(call, j, c)
  BY <1>4 DEF Accounted, Recorded
<1>16. Recorded(call, feed)'
  <2>1. ASSUME NEW r \in (rows \cup toWrite)', NEW c \in r.legs
        PROVE  c \in Channels /\ IsDone(feed, c)
               /\ \A j \in CallIds : IsRunning(call', j) => ~Has(call', j, c)
    <3>1. CASE r \in rows \cup toWrite BY <1>6, <1>7, <1>15, <3>1
    <3>2. CASE r \notin rows \cup toWrite
      <4>1. over /\ r = new BY <1>1, <1>2, <2>1, <3>2
      <4>2. c \in DOMAIN call[k].party BY <4>1
      <4> QED BY <1>6, <1>7, <1>9, <4>1, <4>2
    <3> QED BY <3>1, <3>2
  <2> QED BY <1>1, <2>1 DEF Recorded, IsDone, Repeats, IsRunning, Has
<1>17. OneRowPerLeg'
  <2>1. ASSUME over, NEW r \in rows \cup toWrite PROVE r.legs \cap new.legs = {}
    <3>1. ASSUME NEW c \in r.legs, c \in new.legs PROVE FALSE
      <4>1. Has(call, k, c) /\ IsRunning(call, k) BY <1>7, <2>1, <3>1 DEF Has
      <4> QED BY <1>15, <4>1
    <3> QED BY <3>1
  <2> HIDE DEF new
  <2> QED BY <1>1, <1>2, <1>4, <2>1 DEF OneRowPerLeg
<1>18. Registered(call, at)' BY <1>1, <1>10, SameSwitch
<1>19. Bridges' /\ Ordered(feed)' BY <1>1, <1>4, SameSwitch
<1>20. Accounted(call, at, feed)'
  BY <1>1, <1>11, <1>12, <1>13, <1>14, <1>16, SameSwitch DEF Accounted
<1> QED BY <1>17, <1>18, <1>19, <1>20 DEF RowsInv

-----------------------------------------------------------------------------
(***************************************************************************)
(* The link, the process and the replay.                                   *)
(***************************************************************************)
LEMMA DropRows ==
    ASSUME Inv, RowsInv, LinkDrops PROVE RowsInv'
<1>1. /\ UNCHANGED <<scenario, chan, peer, feed, at, call, toWrite, rows>> /\ link' = "down"
  BY DEF LinkDrops, appVars
<1> QED BY <1>1, RegistryStep DEF RowsInv

LEMMA CrashRows ==
    ASSUME Inv, RowsInv, Crash PROVE RowsInv'
<1>1. /\ UNCHANGED <<scenario, chan, peer, rows>> /\ link' = "down" /\ toWrite' = {}
      /\ \A k \in CallIds : call'[k] = NoCall
      /\ \A c \in Channels : at'[c] = NoOne
      /\ feed' = <<>> /\ 1..Len(feed') = {}
  BY DEF Crash
<1>2. /\ NoCall.known = FALSE /\ NoCall.stopped /\ NoCall.ended /\ DOMAIN NoCall.party = {}
  BY DEF NoCall
<1>3. \A k \in CallIds : /\ ~IsRunning(call', k) /\ ~WasAbsorbed(call', k)
                         /\ \A c : ~Has(call', k, c)
  BY <1>1, <1>2 DEF IsRunning, WasAbsorbed, Has
<1>4. Channels \subseteq CallIds BY DEF CallIds
<1>5. Registered(call', at')
  BY <1>1, <1>2, <1>3, <1>4 DEF Registered, Flags, Bindings
<1>6. Strays(call', at', feed') BY <1>1 DEF Strays
<1>7. Ends(call', feed') BY <1>1, <1>2, <1>3 DEF Ends
<1>8. Births(call', at', feed') BY <1>1, <1>2, <1>3, <1>4 DEF Births, IsNew
<1>9. Deaths(call', feed') BY <1>3 DEF Deaths
<1>10. Ordered(feed') BY <1>1 DEF Ordered, Says
<1>11. Recorded(call, feed)'
  <2>1. ASSUME NEW r \in rows, NEW c \in r.legs PROVE c \in Channels /\ chan[c] = "gone"
    BY DEF RowsInv, Accounted, Recorded, IsDone
  <2> QED BY <1>1, <1>3, <2>1 DEF Recorded, IsDone, IsRunning, Has
<1>12. OneRowPerLeg' BY <1>1 DEF RowsInv, OneRowPerLeg
<1>13. Bridges' /\ Ordered(feed)' /\ Registered(call, at)'
  BY <1>1, <1>5, <1>10, SameSwitch DEF RowsInv
<1>14. Strays(call, at, feed)' /\ Ends(call, feed)' /\ Births(call, at, feed)' /\ Deaths(call, feed)'
  BY <1>1, <1>6, <1>7, <1>8, <1>9, SameSwitch
<1> QED BY <1>11, <1>12, <1>13, <1>14 DEF RowsInv, Accounted

\* No leg is made twice.
MadeOnce(q) ==
    \A i, j \in 1..Len(q) : i < j /\ q[i].kind = "create" /\ q[j].kind = "create" =>
        q[i].chan # q[j].chan

LEMMA OnceConcat ==
    ASSUME NEW f \in Seq(Events), NEW e \in Seq(Events), MadeOnce(f), MadeOnce(e),
           \A c : ~(Says(f, "create", c) /\ Says(e, "create", c))
    PROVE  MadeOnce(f \o e)
<1> DEFINE g == f \o e
<1>1. /\ Len(f) \in Nat /\ Len(g) \in Nat /\ Len(e) \in Nat
      /\ \A i \in 1..Len(f) : g[i] = f[i]
      /\ \A i \in 1..Len(g) : i \in 1..Len(f) \/ i - Len(f) \in 1..Len(e)
      /\ \A i \in 1..Len(g) : i \notin 1..Len(f) => g[i] = e[i - Len(f)]
  BY Concat
<1> HIDE DEF g
<1>2. ASSUME NEW i \in 1..Len(g), NEW j \in 1..Len(g), i < j,
             g[i].kind = "create", g[j].kind = "create"
      PROVE  g[i].chan # g[j].chan
  <2>1. CASE j \in 1..Len(f)
    <3>1. i \in 1..Len(f) BY <1>1, <1>2, <2>1
    <3> QED BY <1>1, <1>2, <2>1, <3>1 DEF MadeOnce
  <2>2. CASE i \notin 1..Len(f)
    <3>1. j \notin 1..Len(f) BY <1>1, <1>2, <2>2
    <3>2. /\ g[i] = e[i - Len(f)] /\ i - Len(f) \in 1..Len(e)
          /\ g[j] = e[j - Len(f)] /\ j - Len(f) \in 1..Len(e)
      BY <1>1, <2>2, <3>1
    <3>3. i - Len(f) < j - Len(f) BY <1>1, <1>2
    <3> QED BY <1>2, <3>2, <3>3 DEF MadeOnce
  <2>3. CASE i \in 1..Len(f) /\ j \notin 1..Len(f)
    <3>1. g[i] = f[i] /\ g[j] = e[j - Len(f)] /\ j - Len(f) \in 1..Len(e) BY <1>1, <2>3
    <3>2. Says(f, "create", g[i].chan) /\ Says(e, "create", g[j].chan)
      BY <1>2, <2>3, <3>1 DEF Says
    <3> QED BY <3>2
  <2> QED BY <2>1, <2>2, <2>3
<1> QED BY <1>2 DEF MadeOnce, g

\* Sequences that each make their own legs once make them once together.
LEMMA FlattenOnce ==
    ASSUME NEW n \in Nat, NEW q \in [1..n -> Seq(Events)],
           \A i \in 1..n : MadeOnce(q[i]),
           \A i, j \in 1..n : \A c : Says(q[i], "create", c) /\ Says(q[j], "create", c) => i = j
    PROVE  MadeOnce(FlattenSeq(q))
<1>1. CASE n = 0
  <2>1. q = <<>> /\ Len(q) = 0 BY <1>1
  <2>2. FlattenSeq(q) = q BY <2>1 DEF FlattenSeq
  <2> QED BY <2>1, <2>2 DEF MadeOnce
<1>2. CASE n # 0
  <2>1. PICK h \in [1..n -> Seq(Events)] : Lengthens(h, q, n) /\ FlattenSeq(q) = h[n]
    BY <1>2, FlattenIs
  <2> DEFINE P(m) == MadeOnce(h[m]) /\ \A c : Says(h[m], "create", c) =>
                         \E i \in 1..m : Says(q[i], "create", c)
             T == {m \in 1..n : ~P(m)}
  <2> HIDE DEF P
  <2>2. ASSUME T # {} PROVE FALSE
    <3>1. T \subseteq Nat OBVIOUS
    <3>2. PICK x \in T : \A y \in T : x <= y BY <2>2, <3>1, Least
    <3>3. CASE x = 1
      <4>1. h[1] = q[1] /\ 1 \in 1..n /\ 1 \in 1..1 BY <1>2, <2>1 DEF Lengthens
      <4>2. P(1) BY <4>1 DEF P
      <4> QED BY <3>2, <3>3, <4>2
    <3>4. CASE x # 1
      <4>1. x \in 2..n /\ x - 1 \in 1..n /\ x - 1 \notin T BY <3>2, <3>4
      <4>2. h[x] = h[x - 1] \o q[x] /\ h[x - 1] \in Seq(Events) /\ q[x] \in Seq(Events)
        BY <2>1, <4>1 DEF Lengthens
      <4>3. P(x - 1) BY <4>1
      <4>4. \A c : ~(Says(h[x - 1], "create", c) /\ Says(q[x], "create", c))
        <5>1. ASSUME NEW c, Says(h[x - 1], "create", c), Says(q[x], "create", c) PROVE FALSE
          <6>1. PICK i \in 1..(x - 1) : Says(q[i], "create", c) BY <4>3, <5>1 DEF P
          <6>2. i \in 1..n /\ x \in 1..n /\ i # x BY <4>1
          <6> QED BY <5>1, <6>1, <6>2
        <5> QED BY <5>1
      <4>5. MadeOnce(q[x]) BY <4>1
      <4>6. MadeOnce(h[x]) BY <4>2, <4>3, <4>4, <4>5, OnceConcat DEF P
      <4>7. ASSUME NEW c, Says(h[x], "create", c) PROVE \E i \in 1..x : Says(q[i], "create", c)
        <5>1. Says(h[x - 1], "create", c) \/ Says(q[x], "create", c)
          BY <4>2, <4>7, SaysConcat
        <5>2. x \in 1..x /\ \A i \in 1..(x - 1) : i \in 1..x BY <4>1
        <5> QED BY <4>3, <5>1, <5>2 DEF P
      <4>8. P(x) BY <4>6, <4>7 DEF P
      <4> QED BY <3>2, <4>8
    <3> QED BY <3>3, <3>4
  <2>3. T = {} BY <2>2
  <2>4. n \in 1..n BY <1>2
  <2>5. P(n) BY <2>3, <2>4
  <2> QED BY <2>1, <2>5 DEF P
<1> QED BY <1>1, <1>2

\* The replay makes no leg twice.
LEMMA LegsOnce ==
    ASSUME TypedSwitch, NEW ours, ours \subseteq Up, NEW owned
    PROVE  MadeOnce(ReplayedLegs(ours, owned))
<1> DEFINE A == {c \in ours : owned[c] = NoOne}
           B == {c \in ours : /\ owned[c] = NoOne /\ peer[c] \in ours
                              /\ owned[peer[c]] # NoOne \/ Leg(peer[c]).from = c}
           fresh == SetToSeq(A)
           pairs == SetToSeq(B)
           born(c) == <<Event("create", c, NoOne)>>
                      \o (IF chan[c] = "answered" THEN <<Event("answer", c, NoOne)>> ELSE <<>>)
           births == [i \in 1..Len(fresh) |-> born(fresh[i])]
           bridges == [i \in 1..Len(pairs) |-> Event("bridge", pairs[i], peer[pairs[i]])]
<1>1. Up \subseteq Channels /\ IsFiniteSet(Channels) BY CallsAssumption DEF Up, Legs
<1>2. IsFiniteSet(A) /\ IsFiniteSet(B)
  <2>1. A \subseteq Channels /\ B \subseteq Channels BY <1>1
  <2> QED BY <1>1, <2>1, FS_Subset
<1>3. A \subseteq Channels /\ \A c \in B : c \in Channels /\ peer[c] \in Channels BY <1>1
<1> HIDE DEF A, B
<1>4. PICK n \in Nat : fresh \in [1..n -> A] /\ \A i, j \in 1..n : fresh[i] = fresh[j] => i = j
  BY <1>2, SetToSeqType
<1>5. PICK m \in Nat : pairs \in [1..m -> B] BY <1>2, SetToSeqType
<1> HIDE DEF fresh, pairs
<1>6. Len(fresh) = n /\ Len(pairs) = m BY <1>4, <1>5
<1>7. ASSUME NEW c \in Channels
      PROVE  /\ born(c) \in Seq(Events) /\ MadeOnce(born(c))
             /\ \A d : Says(born(c), "create", d) => d = c
  <2> DEFINE x == Event("create", c, NoOne)
             y == Event("answer", c, NoOne)
             z == IF chan[c] = "answered" THEN <<y>> ELSE <<>>
             b == <<x>> \o z
  <2>1. x \in Events /\ x.chan = c /\ y \in Events /\ y.kind = "answer"
    BY EventType DEF Kinds
  <2> HIDE DEF x, y
  <2>2. /\ b \in Seq(Events) /\ Len(b) \in {1, 2} /\ b[1] = x
        /\ Len(b) = 2 => b[2] = y
    <3>1. /\ b \in Seq(Events)
          /\ chan[c] = "answered" => Len(b) = 2 /\ b[1] = x /\ b[2] = y
          /\ chan[c] # "answered" => Len(b) = 1 /\ b[1] = x
      BY <2>1
    <3> HIDE DEF b
    <3> QED BY <3>1
  <2> HIDE DEF b
  <2>3. \A i \in 1..Len(b) : b[i].kind = "create" => i = 1 /\ b[i].chan = c
    BY <2>1, <2>2
  <2>4. MadeOnce(b) BY <2>3 DEF MadeOnce
  <2>5. \A d : Says(b, "create", d) => d = c BY <2>3 DEF Says
  <2> QED BY <2>2, <2>4, <2>5 DEF b, x, y
<1> HIDE DEF born
<1>8. births \in [1..n -> Seq(Events)] /\ \A i \in 1..n : births[i] = born(fresh[i])
  BY <1>3, <1>4, <1>6, <1>7
<1> HIDE DEF births
<1>9. \A i \in 1..n : MadeOnce(births[i]) BY <1>3, <1>4, <1>7, <1>8
<1>10. ASSUME NEW i \in 1..n, NEW j \in 1..n, NEW c,
              Says(births[i], "create", c), Says(births[j], "create", c)
       PROVE  i = j
  <2>1. fresh[i] \in Channels /\ fresh[j] \in Channels BY <1>3, <1>4
  <2>2. fresh[i] = c /\ fresh[j] = c BY <1>7, <1>8, <1>10, <2>1
  <2> QED BY <1>4, <2>2
<1>11. MadeOnce(FlattenSeq(births)) /\ FlattenSeq(births) \in Seq(Events)
  BY <1>8, <1>9, <1>10, FlattenOnce, FlattenType
<1>12. bridges \in Seq(Events) /\ \A i \in 1..Len(bridges) : bridges[i].kind = "bridge"
  <2>1. ASSUME NEW i \in 1..m
        PROVE  /\ Event("bridge", pairs[i], peer[pairs[i]]) \in Events
               /\ Event("bridge", pairs[i], peer[pairs[i]]).kind = "bridge"
    <3>1. pairs[i] \in Channels /\ peer[pairs[i]] \in Channels BY <1>3, <1>5
    <3> QED BY <3>1, EventType DEF Kinds
  <2> QED BY <1>6, <2>1
<1> HIDE DEF bridges
<1>13. MadeOnce(bridges) /\ \A c : ~Says(bridges, "create", c) BY <1>12 DEF MadeOnce, Says
<1>14. ReplayedLegs(ours, owned) = FlattenSeq(births) \o bridges
  BY DEF ReplayedLegs, births, born, bridges, fresh, pairs, A, B
<1> QED BY <1>11, <1>12, <1>13, <1>14, OnceConcat

\* The replay tells the end of every owned leg that is not up.
LEMMA EndsTold ==
    ASSUME NEW owned, NEW c \in Channels, owned[c] # NoOne, c \notin Up
    PROVE  Says(ReplayedEnds(owned), "hangup", c)
<1> DEFINE S == {d \in Channels : owned[d] # NoOne /\ d \notin Up}
           vanished == SetToSeq(S)
           gone(d) == [kind |-> "hangup", chan |-> d, other |-> NoOne, id |-> NoOne]
           e == [i \in 1..Len(vanished) |-> gone(vanished[i])]
<1>1. IsFiniteSet(S) /\ c \in S
  <2>1. S \subseteq Channels OBVIOUS
  <2> QED BY <2>1, FS_Subset, CallsAssumption
<1> HIDE DEF S
<1>2. PICK n \in Nat : vanished \in [1..n -> S] /\ \A x \in S : \E i \in 1..n : vanished[i] = x
  BY <1>1, SetToSeqType
<1>3. ReplayedEnds(owned) = e BY DEF ReplayedEnds, S
<1> HIDE DEF vanished
<1>4. Len(vanished) = n BY <1>2
<1>5. PICK i \in 1..n : vanished[i] = c BY <1>1, <1>2
<1>6. e[i] = gone(c) /\ i \in 1..Len(e) BY <1>4, <1>5
<1>7. gone(c).kind = "hangup" /\ gone(c).chan = c OBVIOUS
<1> HIDE DEF e, gone
<1> QED BY <1>3, <1>6, <1>7 DEF Says

\* What is on the stream after a reconnect.
\* A replay of legs that are up, and of the ends of the others or of none.
LEMMA ReplayIs ==
    ASSUME TypedSwitch, NEW owned, NEW ours, ours \subseteq Up, NEW q, NEW isWhole \in BOOLEAN,
           q = ReplayedLegs(ours, owned) \o (IF isWhole THEN ReplayedEnds(owned) ELSE <<>>)
    PROVE  /\ q \in Seq(Events) /\ \A i \in 1..Len(q) : q[i] \in Replayable(owned)
           /\ MadeOnce(q)
           /\ isWhole => \A c \in Channels :
                             owned[c] # NoOne /\ c \notin Up => Says(q, "hangup", c)
<1> DEFINE l == ReplayedLegs(ours, owned)
           e == IF isWhole THEN ReplayedEnds(owned) ELSE <<>>
<1>1. l \in Seq(Replayable(owned)) /\ e \in Seq(Replayable(owned)) /\ MadeOnce(l)
  <2>1. ReplayedEnds(owned) \in Seq(Replayable(owned)) BY EndsReplayed
  <2>2. e \in Seq(Replayable(owned)) BY <2>1
  <2> QED BY <2>2, LegsReplayed, LegsOnce
<1>2. q = l \o e OBVIOUS
<1>3. isWhole => \A c \in Channels : owned[c] # NoOne /\ c \notin Up => Says(e, "hangup", c)
  BY EndsTold
<1>4. \A i \in 1..Len(e) : e[i].kind = "hangup"
  <2>1. \A i \in 1..Len(ReplayedEnds(owned)) : ReplayedEnds(owned)[i].kind = "hangup"
    BY DEF ReplayedEnds
  <2>2. CASE isWhole BY <2>1, <2>2
  <2>3. CASE ~isWhole BY <2>3
  <2> QED BY <2>2, <2>3
<1> HIDE DEF l, e
<1>5. Replayable(owned) \subseteq Events BY DEF Replayable
<1>6. l \in Seq(Events) /\ e \in Seq(Events) BY <1>1, <1>5
<1>7. \A i \in 1..Len(q) : q[i] \in Replayable(owned)
  <2>1. l \o e \in Seq(Replayable(owned)) BY <1>1
  <2>2. q \in Seq(Replayable(owned)) BY <1>2, <2>1, Zenon
  <2> QED BY <2>2
<1>8. MadeOnce(e) /\ \A c : ~Says(e, "create", c) BY <1>4 DEF MadeOnce, Says
<1>9. MadeOnce(q) BY <1>1, <1>2, <1>6, <1>8, OnceConcat
<1>10. isWhole => \A c \in Channels : owned[c] # NoOne /\ c \notin Up => Says(q, "hangup", c)
  <2>1. \A c : Says(e, "hangup", c) => Says(l \o e, "hangup", c) BY <1>6, SaysConcat
  <2> QED BY <1>2, <1>3, <2>1, Zenon
<1>11. q \in Seq(Events)
  <2>1. l \o e \in Seq(Events) BY <1>6
  <2> QED BY <1>2, <2>1, Zenon
<1> QED BY <1>7, <1>9, <1>10, <1>11

\* Only a leg whose dialplan queues it waits.
QueuersWait == \A c \in queued : Leg(c).queues

\* The registry takes the queued callers mine, each into a call of its own.
Takes(cl, b, mine) ==
    /\ \A c \in mine : /\ at[c] = NoOne /\ b[c] = Leg(c).id
                       /\ Leg(c).id \in Ids /\ ~call[Leg(c).id].known
    /\ \A c \in Channels : c \notin mine => b[c] = at[c]
    /\ \A k \in CallIds : (\A c \in mine : Leg(c).id # k) => cl[k] = call[k]
    /\ \A k \in CallIds : (\E c \in mine : Leg(c).id = k) =>
           /\ cl[k].known /\ ~cl[k].stopped /\ ~cl[k].ended /\ cl[k].minted
           /\ cl[k].mailbox = <<>>
           /\ \A c : Has(cl, k, c) <=> c \in mine /\ Leg(c).id = k
           /\ \A c \in mine : Leg(c).id = k => cl[k].party[c].state = "DIALING"

\* What the reconciliation of the queue makes of the registry.
LEMMA AdoptQueuedIs ==
    ASSUME Conversations, Inv, RowsInv, QueuersWait, NEW cl, NEW b,
           cl = AdoptQueued.call, b = AdoptQueued.at
    PROVE  \E mine \in SUBSET Up : Takes(cl, b, mine)
<1> DEFINE mine == {c \in queued : at[c] = NoOne /\ ~IsKnown(Leg(c).id)}
           fresh(k) == {c \in mine : Leg(c).id = k}
           legs(k) == [c \in fresh(k) |-> [state |-> "DIALING", answered |-> TRUE]]
           made(k) == [NoCall EXCEPT !.known = TRUE, !.stopped = FALSE, !.ended = FALSE,
                                     !.minted = TRUE, !.party = legs(k)]
<1>1. /\ cl = [k \in CallIds |-> IF fresh(k) = {} THEN call[k] ELSE made(k)]
      /\ b = [c \in Channels |-> IF c \in mine THEN Leg(c).id ELSE at[c]]
  BY DEF AdoptQueued
<1>2. mine \subseteq Up /\ Up \subseteq Channels /\ queued \subseteq Legs
  BY DEF Inv, TypedSwitch, Up, Legs
<1>3. \A c \in queued : Leg(c).id \in Ids
  BY <1>2, PlanFacts DEF QueuersWait, Inv, TypedSwitch
<1>4. ASSUME NEW c \in mine
      PROVE  at[c] = NoOne /\ b[c] = Leg(c).id /\ Leg(c).id \in Ids /\ ~call[Leg(c).id].known
  BY <1>1, <1>2, <1>3, Zenon DEF IsKnown
<1>5. \A c \in Channels : c \notin mine => b[c] = at[c] BY <1>1
<1>6. ASSUME NEW k \in CallIds, \A c \in mine : Leg(c).id # k PROVE cl[k] = call[k]
  <2>1. fresh(k) = {} BY <1>6
  <2> QED BY <1>1, <2>1
<1>7. ASSUME NEW k \in CallIds, \E c \in mine : Leg(c).id = k
      PROVE  /\ cl[k].known /\ ~cl[k].stopped /\ ~cl[k].ended /\ cl[k].minted
             /\ cl[k].mailbox = <<>>
             /\ \A c : Has(cl, k, c) <=> c \in mine /\ Leg(c).id = k
             /\ \A c \in mine : Leg(c).id = k => cl[k].party[c].state = "DIALING"
  <2>1. fresh(k) # {} BY <1>7
  <2>2. cl[k] = made(k) BY <1>1, <2>1
  <2>3. /\ DOMAIN legs(k) = fresh(k)
        /\ \A c \in fresh(k) : legs(k)[c].state = "DIALING"
    OBVIOUS
  <2>4. \A c : c \in fresh(k) <=> c \in mine /\ Leg(c).id = k OBVIOUS
  <2> HIDE DEF legs, fresh, mine
  <2>5. /\ made(k).known /\ ~made(k).stopped /\ ~made(k).ended /\ made(k).minted
        /\ made(k).mailbox = <<>> /\ made(k).party = legs(k)
    BY DEF NoCall
  <2> HIDE DEF made
  <2> QED BY <2>2, <2>3, <2>4, <2>5 DEF Has
<1> HIDE DEF mine
<1>8. mine \in SUBSET Up BY <1>2
<1>9. Takes(cl, b, mine) BY <1>4, <1>5, <1>6, <1>7 DEF Takes
<1> QED BY <1>8, <1>9

LEMMA ReplayRows ==
    ASSUME Conversations, Inv, RowsInv, CanReconnect, NEW cl, NEW b, NEW q, NEW mine \in SUBSET Up,
           Takes(cl, b, mine), q \in Seq(Events), \A i \in 1..Len(q) : q[i] \in Replayable(b),
           MadeOnce(q), UNCHANGED <<scenario, chan, peer, toWrite, rows>>, link' = "up",
           call' = cl, at' = b, feed' = q,
           \/ \A c \in Channels : b[c] # NoOne /\ c \notin Up => Says(q, "hangup", c)
           \/ IsDeaf'
    PROVE  RowsInv'
<1>1. /\ UNCHANGED <<scenario, chan, peer, toWrite, rows>> /\ link' = "up"
      /\ call' = cl /\ at' = b /\ feed' = q
      /\ feed = <<>> /\ \A k \in CallIds : call[k].mailbox = <<>>
      /\ \A k \in CallIds : call[k].known => ~call[k].stopped
  BY DEF CanReconnect, Idle, IsKnown
<1>2. /\ TypedSwitch /\ scenario \in Scenarios /\ at \in [Channels -> CallIds \cup {NoOne}]
      /\ NoOne \notin CallIds /\ Up \subseteq Legs /\ Legs \subseteq Channels
      /\ Channels \subseteq CallIds /\ Ids \subseteq CallIds /\ Channels \cap Ids = {}
  BY CallsAssumption DEF Inv, TypedSwitch, TypedCalls, CallIds, Up, Legs, Conversations
<1>3. /\ \A c \in mine : /\ at[c] = NoOne /\ b[c] = Leg(c).id
                         /\ Leg(c).id \in Ids /\ ~call[Leg(c).id].known
      /\ \A c \in Channels : c \notin mine => b[c] = at[c]
      /\ \A k \in CallIds : (\A c \in mine : Leg(c).id # k) => cl[k] = call[k]
      /\ \A k \in CallIds : (\E c \in mine : Leg(c).id = k) =>
             /\ cl[k].known /\ ~cl[k].stopped /\ ~cl[k].ended /\ cl[k].minted
             /\ cl[k].mailbox = <<>>
             /\ \A c : Has(cl, k, c) <=> c \in mine /\ Leg(c).id = k
             /\ \A c \in mine : Leg(c).id = k => cl[k].party[c].state = "DIALING"
  BY DEF Takes
<1>4. /\ q \in Seq(Events) /\ \A i \in 1..Len(q) : q[i] \in Replayable(b)
      /\ MadeOnce(q)
  OBVIOUS
<1>5. Registered(call, at) /\ Accounted(call, at, feed) /\ Bridges /\ OneRowPerLeg BY DEF RowsInv
<1>6. ASSUME NEW k \in CallIds
      PROVE  \/ (\E c \in mine : Leg(c).id = k) /\ k \in Ids /\ ~call[k].known
             \/ (\A c \in mine : Leg(c).id # k) /\ cl[k] = call[k]
  BY <1>3
<1>7. ASSUME NEW k \in CallIds, call[k].known
      PROVE  /\ IsRunning(call, k) /\ ~call[k].ended /\ cl[k] = call[k]
             /\ \A c \in Channels : at[c] = k <=> Has(call, k, c)
  <2>1. IsRunning(call, k) /\ ~call[k].ended BY <1>1, <1>5, <1>7 DEF IsRunning, Registered, Flags
  <2> QED BY <1>5, <1>6, <1>7, <2>1 DEF Registered, Bindings
<1>8. \A k \in CallIds, c \in Channels : Has(call, k, c) => call[k].known
  <2>1. \A k \in CallIds : ~call[k].known => call[k] = NoCall BY <1>5 DEF Registered, Flags
  <2> QED BY <2>1 DEF Has, NoCall
<1>9. ASSUME NEW c \in Channels, b[c] # NoOne
      PROVE  \/ c \in mine /\ c \in Up
             \/ c \notin mine /\ b[c] = at[c] /\ call[at[c]].known /\ c \in Legs /\ chan[c] # "none"
  <2>1. CASE c \in mine BY <2>1
  <2>2. CASE c \notin mine
    <3>1. b[c] = at[c] BY <1>3, <2>2
    <3>2. call[at[c]].known /\ c \in Legs BY <1>5, <1>9, <3>1 DEF Registered, Bindings
    <3>3. chan[c] # "none" BY <1>5, <1>9, <3>1 DEF Accounted, Births, IsNew
    <3> QED BY <2>2, <3>1, <3>2, <3>3
  <2> QED BY <2>1, <2>2
<1>10. ASSUME NEW i \in 1..Len(q)
       PROVE  /\ IsTrue(q[i])
              /\ q[i].kind # "hangup" => q[i].chan \in Up
              /\ q[i].kind = "hangup" => q[i].id = NoOne
              /\ q[i].kind = "bridge" => q[i].other \in Up
              /\ q[i].kind = "create" => b[q[i].chan] = NoOne
  <2> DEFINE ev == q[i]
  <2>1. ev \in Replayable(b) BY <1>4
  <2> HIDE DEF ev
  <2>2. ev \in Events /\ ev.chan \in Channels BY <2>1 DEF Replayable, Events
  <2>3. CASE ev.kind = "hangup"
    <3>1. b[ev.chan] # NoOne /\ ev.chan \notin Up /\ ev.id = NoOne BY <2>1, <2>3 DEF Replayable
    <3>2. ev.chan \in Legs /\ chan[ev.chan] # "none" BY <1>9, <2>2, <3>1
    <3>3. chan[ev.chan] = "gone" BY <1>2, <2>2, <3>1, <3>2 DEF TypedSwitch, Up
    <3> QED BY <2>3, <3>1, <3>2, <3>3 DEF IsTrue, ev
  <2>4. CASE ev.kind # "hangup"
    <3>1. /\ ev.chan \in Up /\ ev.id \in {NoOne, Leg(ev.chan).id}
          /\ ev.kind = "bridge" => ev.other = peer[ev.chan] /\ ev.other \in Up
          /\ ev.kind = "create" => b[ev.chan] = NoOne
      BY <2>1, <2>4 DEF Replayable
    <3>2. ev.chan \in Legs /\ chan[ev.chan] # "none" BY <3>1 DEF Up
    <3>3. ev.kind = "bridge" => Leg(ev.other).from = ev.chan \/ Leg(ev.chan).from = ev.other
      <4>1. SUFFICES ASSUME ev.kind = "bridge"
                     PROVE  Leg(ev.other).from = ev.chan \/ Leg(ev.chan).from = ev.other
        OBVIOUS
      <4>2. peer[ev.chan] # NoOne BY <1>2, <3>1, <4>1
      <4> QED BY <1>5, <2>2, <3>1, <4>1, <4>2 DEF Bridges
    <3> QED BY <1>2, <2>4, <3>1, <3>2, <3>3 DEF IsTrue, ev
  <2> QED BY <2>3, <2>4
<1>11. \A c \in Channels : chan[c] = "gone" => c \notin Up BY DEF Up
<1>12. ASSUME NEW c \in Channels, chan[c] = "gone" PROVE IsDone(q, c)
  <2>1. ASSUME NEW i \in 1..Len(q) PROVE Repeats(q[i], c)
    BY <1>10, <1>11, <1>12 DEF Repeats
  <2> QED BY <1>12, <2>1 DEF IsDone
<1>13. ASSUME NEW c \in Channels, IsDone(feed, c) PROVE chan[c] = "gone" /\ IsDone(q, c)
  BY <1>12, <1>13 DEF IsDone
<1>14. Ordered(feed)'
  <2>1. \A i \in 1..Len(q) : TrueThen(q[i]) BY <1>1, <1>10 DEF IsTrue, TrueThen
  <2>2. ASSUME NEW i \in 1..Len(q), NEW j \in 1..Len(q), i < j PROVE InOrder(q[i], q[j])
    <3>1. q[i].kind = "hangup" => Repeats(q[j], q[i].chan)
      <4>1. SUFFICES ASSUME q[i].kind = "hangup" PROVE Repeats(q[j], q[i].chan) OBVIOUS
      <4>2. q[i].chan \in Legs /\ chan[q[i].chan] = "gone" BY <1>10, <4>1 DEF IsTrue
      <4>3. IsDone(q, q[i].chan) BY <1>2, <1>12, <4>2
      <4> QED BY <4>3 DEF IsDone
    <3> QED BY <1>4, <2>2, <3>1 DEF InOrder, MadeOnce
  <2>3. ASSUME NEW c \in Channels, Says(q, "create", c), chan'[c] = "gone" PROVE FALSE
    <3>1. PICK i \in 1..Len(q) : q[i].kind = "create" /\ q[i].chan = c BY <2>3 DEF Says
    <3> QED BY <1>1, <1>10, <1>11, <2>3, <3>1
  <2> QED BY <1>1, <2>1, <2>2, <2>3, OrderedThen
<1>15. Flags(cl, b)
  <2>1. ASSUME NEW k \in CallIds
        PROVE  /\ ~cl[k].known => cl[k] = NoCall
               /\ cl[k].ended => cl[k].stopped
               /\ cl[k].known => (cl[k].minted <=> k \in Ids)
               /\ ~WasAbsorbed(cl, k)
    <3>1. CASE (\E c \in mine : Leg(c).id = k) /\ k \in Ids BY <1>3, <3>1 DEF WasAbsorbed
    <3>2. CASE cl[k] = call[k]
      <4>1. /\ ~call[k].known => call[k] = NoCall
            /\ call[k].ended => call[k].stopped
            /\ call[k].known => (call[k].minted <=> k \in Ids)
        BY <1>5 DEF Registered, Flags
      <4> QED BY <1>1, <3>2, <4>1 DEF WasAbsorbed
    <3> QED BY <1>6, <3>1, <3>2
  <2> QED BY <2>1 DEF Flags
<1>16. \A k \in CallIds : cl[k].known => IsRunning(cl, k) /\ ~cl[k].ended
  BY <1>3, <1>6, <1>7 DEF IsRunning
<1>17. ASSUME NEW k \in CallIds, cl[k].known, NEW c \in Channels PROVE b[c] = k <=> Has(cl, k, c)
  <2>1. CASE (\E d \in mine : Leg(d).id = k) /\ ~call[k].known
    <3>1. Has(cl, k, c) <=> c \in mine /\ Leg(c).id = k BY <1>3, <2>1
    <3>2. c \notin mine => b[c] # k BY <1>2, <1>9, <2>1
    <3> QED BY <1>3, <3>1, <3>2
  <2>2. CASE (\A d \in mine : Leg(d).id # k) /\ cl[k] = call[k]
    <3>1. at[c] = k <=> Has(call, k, c) BY <1>7, <1>17, <2>2
    <3>2. c \in mine => b[c] # k /\ at[c] # k BY <1>2, <1>3, <2>2
    <3> QED BY <1>3, <2>2, <3>1, <3>2 DEF Has
  <2> QED BY <1>6, <2>1, <2>2
<1>18. Bindings(cl, b)
  <2>1. ASSUME NEW c \in Channels, b[c] # NoOne
        PROVE  c \in Legs /\ cl[b[c]].known /\ IsKin(c, b[c])
    <3>1. CASE c \in mine
      <4>1. b[c] = Leg(c).id /\ Leg(c).id \in Ids /\ c \in Legs BY <1>2, <1>3, <3>1
      <4>2. cl[Leg(c).id].known BY <1>2, <1>3, <3>1, <4>1
      <4>3. Leg(RootOf(c)).id = Leg(c).id
        <5>1. Leg(c).id # NoOne BY <1>2, <4>1
        <5> QED BY <1>2, <4>1, <5>1, PlanFacts
      <4> QED BY <4>1, <4>2, <4>3 DEF IsKin
    <3>2. CASE c \notin mine
      <4>1. b[c] = at[c] /\ call[at[c]].known /\ c \in Legs BY <1>9, <2>1, <3>2
      <4>2. at[c] \in CallIds BY <1>2, <2>1, <4>1
      <4>3. cl[at[c]] = call[at[c]] BY <1>7, <4>1, <4>2
      <4>4. IsKin(c, at[c]) BY <1>5, <2>1, <4>1 DEF Registered, Bindings
      <4> QED BY <4>1, <4>3, <4>4
    <3> QED BY <3>1, <3>2
  <2>2. ASSUME NEW k \in Channels, IsRunning(cl, k) PROVE Has(cl, k, k)
    <3>1. k \in CallIds /\ k \notin Ids BY <1>2
    <3>2. cl[k] = call[k] BY <1>6, <3>1
    <3>3. IsRunning(call, k) BY <2>2, <3>2 DEF IsRunning
    <3> QED BY <1>5, <3>2, <3>3 DEF Registered, Bindings, Has
  <2>3. ASSUME NEW k \in CallIds, IsRunning(cl, k)
        PROVE  \A c \in Channels : b[c] = k <=> Has(cl, k, c)
    BY <1>17, <2>3 DEF IsRunning
  <2> QED BY <2>1, <2>2, <2>3 DEF Bindings
<1>19. Registered(call, at)' BY <1>1, <1>15, <1>18, SamePlan DEF Registered
<1>20. Strays(call, at, feed)'
  <2>1. ASSUME NEW c \in Channels, b[c] # NoOne, cl[b[c]].ended PROVE FALSE
    <3>1. cl[b[c]].known BY <1>18, <2>1 DEF Bindings
    <3>2. b[c] \in CallIds
      <4>1. CASE c \in mine BY <1>2, <1>3, <4>1
      <4>2. CASE c \notin mine BY <1>2, <1>3, <2>1, <4>2
      <4> QED BY <4>1, <4>2
    <3> QED BY <1>16, <2>1, <3>1, <3>2
  <2> QED BY <1>1, <2>1 DEF Strays
<1>21. \A k \in CallIds : cl[k].mailbox = <<>> BY <1>1, <1>3, <1>6
<1>22. Ends(call, feed)'
  <2>1. ASSUME NEW k \in CallIds, NEW c \in Channels, Has(cl, k, c),
               cl[k].party[c].state = "RELEASED"
        PROVE  IsDone(q, c)
    <3>1. CASE \E d \in mine : Leg(d).id = k BY <1>3, <2>1, <3>1
    <3>2. CASE cl[k] = call[k]
      <4>1. Has(call, k, c) /\ call[k].party[c].state = "RELEASED" BY <2>1, <3>2 DEF Has
      <4>2. IsDone(feed, c) BY <1>5, <4>1 DEF Accounted, Ends
      <4> QED BY <1>13, <4>2
    <3> QED BY <1>6, <3>1, <3>2
  <2>2. \A k \in CallIds, c \in Channels : ~Says(cl[k].mailbox, "hangup", c)
    BY <1>21, SaysNothing
  <2> QED BY <1>1, <2>1, <2>2 DEF Ends, IsDone, Repeats, Says, Has
<1>23. Births(call, at, feed)'
  <2>1. ASSUME NEW c \in Channels, at[c] = NoOne, b[c] = NoOne
        PROVE  IsNew(cl, b, c)
    <3>1. c \in CallIds /\ c \notin Ids BY <1>2
    <3>2. c \notin mine BY <1>2, <1>3, <2>1
    <3>3. ASSUME NEW k \in CallIds, Has(cl, k, c) PROVE FALSE
      <4>1. CASE \E d \in mine : Leg(d).id = k BY <1>3, <3>2, <3>3, <4>1
      <4>2. CASE cl[k] = call[k]
        <5>1. Has(call, k, c) BY <3>3, <4>2 DEF Has
        <5>2. call[k].known BY <1>8, <5>1
        <5>3. at[c] = k BY <1>7, <5>1, <5>2
        <5> QED BY <1>2, <2>1, <5>3
      <4> QED BY <1>6, <4>1, <4>2
    <3>4. ~cl[c].known
      <4>1. cl[c] = call[c] BY <1>6, <3>1
      <4>2. ASSUME call[c].known PROVE FALSE
        <5>1. IsRunning(call, c) BY <1>7, <3>1, <4>2
        <5>2. Has(call, c, c) BY <1>5, <5>1 DEF Registered, Bindings
        <5>3. at[c] = c BY <1>7, <3>1, <4>2, <5>2
        <5> QED BY <1>2, <2>1, <3>1, <5>3
      <4> QED BY <4>1, <4>2
    <3> QED BY <2>1, <3>3, <3>4 DEF IsNew
  <2>2. ASSUME NEW c \in Channels, chan[c] = "none" \/ Says(q, "create", c)
        PROVE  at[c] = NoOne /\ b[c] = NoOne
    <3>1. CASE chan[c] = "none"
      <4>1. at[c] = NoOne BY <1>5, <3>1 DEF Accounted, Births, IsNew
      <4>2. c \notin mine BY <3>1 DEF Up
      <4> QED BY <1>3, <4>1, <4>2
    <3>2. CASE Says(q, "create", c)
      <4>1. PICK i \in 1..Len(q) : q[i].kind = "create" /\ q[i].chan = c BY <3>2 DEF Says
      <4>2. b[c] = NoOne BY <1>10, <4>1
      <4> QED BY <1>3, <4>2
    <3> QED BY <2>2, <3>1, <3>2
  <2> QED BY <1>1, <2>1, <2>2 DEF Births, IsNew, Has, Says
<1>24. Deaths(call, feed)'
  <2>1. ASSUME NEW k \in CallIds, NEW c \in Channels, IsRunning(cl, k), Has(cl, k, c),
               chan[c] = "gone"
        PROVE  Says(q, "hangup", c) \/ IsDeaf'
    <3>1. b[c] = k BY <1>17, <2>1 DEF IsRunning
    <3>2. b[c] # NoOne /\ c \notin Up BY <1>2, <1>11, <2>1, <3>1
    <3> QED BY <3>2
  <2> QED BY <1>1, <2>1 DEF Deaths, IsComing, IsRunning, Has, Says
<1>25. Recorded(call, feed)'
  <2>1. ASSUME NEW r \in rows \cup toWrite, NEW c \in r.legs
        PROVE  c \in Channels /\ IsDone(q, c) /\ \A k \in CallIds : IsRunning(cl, k) => ~Has(cl, k, c)
    <3>1. c \in Channels /\ IsDone(feed, c) /\ \A k \in CallIds : IsRunning(call, k) => ~Has(call, k, c)
      BY <1>5 DEF Accounted, Recorded
    <3>2. IsDone(q, c) /\ c \notin Up BY <1>11, <1>13, <3>1
    <3>3. ASSUME NEW k \in CallIds, IsRunning(cl, k), Has(cl, k, c) PROVE FALSE
      <4>1. CASE \E d \in mine : Leg(d).id = k BY <1>3, <3>2, <3>3, <4>1
      <4>2. CASE cl[k] = call[k] BY <3>1, <3>3, <4>2 DEF IsRunning, Has
      <4> QED BY <1>6, <4>1, <4>2
    <3> QED BY <3>1, <3>2, <3>3
  <2> QED BY <1>1, <2>1 DEF Recorded, IsDone, Repeats, IsRunning, Has
<1>26. Bridges'
  <2>1. Up' = Up BY <1>1, SamePlan DEF Up
  <2> QED BY <1>1, <1>5, <2>1, BridgesKept
<1>27. OneRowPerLeg' BY <1>1, <1>5 DEF OneRowPerLeg
<1> QED BY <1>14, <1>19, <1>20, <1>22, <1>23, <1>24, <1>25, <1>26, <1>27 DEF RowsInv, Accounted

LEMMA ReconnectRows ==
    ASSUME Conversations, Inv, RowsInv, QueuersWait, Reconnect PROVE RowsInv'
<1> DEFINE cl == AdoptQueued.call
           b == AdoptQueued.at
           ours == {c \in Up : c \in named \/ ParentOf(c) # NoOne}
           q == ReplayedLegs(ours, b) \o (IF TRUE THEN ReplayedEnds(b) ELSE <<>>)
<1>1. /\ UNCHANGED <<scenario, chan, peer, toWrite, rows>> /\ link' = "up"
      /\ call' = cl /\ at' = b /\ feed' = Replay(b) /\ CanReconnect
  BY DEF Reconnect
<1>2. Replay(b) = q BY DEF Replay
<1>3. TypedSwitch /\ ours \subseteq Up BY DEF Inv
<1>4. PICK mine \in SUBSET Up : Takes(cl, b, mine) BY AdoptQueuedIs
<1> HIDE DEF cl, b, ours
<1>5. /\ q \in Seq(Events) /\ \A i \in 1..Len(q) : q[i] \in Replayable(b)
      /\ MadeOnce(q)
      /\ TRUE => \A c \in Channels : b[c] # NoOne /\ c \notin Up => Says(q, "hangup", c)
  BY <1>3, ReplayIs
<1> HIDE DEF q
<1> QED BY <1>1, <1>2, <1>4, <1>5, ReplayRows

LEMMA ReconnectBlindRows ==
    ASSUME Conversations, Inv, SpentInv, RowsInv, QueuersWait, NEW unread,
           NEW isLineRead \in BOOLEAN, NEW isComplete \in BOOLEAN,
           ReconnectBlind(unread, isLineRead, isComplete)
    PROVE  RowsInv'
<1> DEFINE adopted == IF isLineRead THEN AdoptQueued ELSE [call |-> call, at |-> at]
           cl == adopted.call
           b == adopted.at
           ours == {c \in Up : c \in named \/ ParentOf(c) # NoOne} \ unread
           q == ReplayedLegs(ours, b) \o (IF isComplete THEN ReplayedEnds(b) ELSE <<>>)
<1>1. /\ UNCHANGED <<scenario, chan, peer, toWrite, rows>> /\ link' = "up"
      /\ call' = cl /\ at' = b /\ feed' = q /\ CanReconnect
  BY DEF ReconnectBlind
<1>2. ~isComplete => IsDeaf'
  <2>1. ~isComplete => "ends" \in spent'.missed BY DEF ReconnectBlind, SpentInv
  <2> QED BY <2>1 DEF IsDeaf
<1>3. TypedSwitch /\ ours \subseteq Up BY DEF Inv
<1>4. \E mine \in SUBSET Up : Takes(cl, b, mine)
  <2>1. CASE isLineRead
    <3>1. cl = AdoptQueued.call /\ b = AdoptQueued.at BY <2>1
    <3> HIDE DEF cl, b
    <3> QED BY <3>1, AdoptQueuedIs
  <2>2. CASE ~isLineRead
    <3>1. cl = call /\ b = at BY <2>2
    <3> HIDE DEF cl, b
    <3>2. Takes(cl, b, {}) BY <3>1 DEF Takes
    <3> QED BY <3>2
  <2> QED BY <2>1, <2>2
<1>5. PICK mine \in SUBSET Up : Takes(cl, b, mine) BY <1>4
<1> HIDE DEF cl, b, ours
<1>6. /\ q \in Seq(Events) /\ \A i \in 1..Len(q) : q[i] \in Replayable(b)
      /\ MadeOnce(q)
      /\ isComplete => \A c \in Channels : b[c] # NoOne /\ c \notin Up => Says(q, "hangup", c)
  BY <1>3, ReplayIs
<1> HIDE DEF q
<1> QED BY <1>1, <1>2, <1>5, <1>6, ReplayRows

-----------------------------------------------------------------------------
(***************************************************************************)
(* The theorems about calls and rows.                                      *)
(***************************************************************************)
LEMMA QueuersStep ==
    ASSUME QueuersWait, scenario' = scenario, \A c \in queued' : c \in queued \/ Leg(c).queues
    PROVE  QueuersWait'
BY DEF QueuersWait, Leg

LEMMA QueuersKept ==
    ASSUME QueuersWait, Next PROVE QueuersWait'
<1>1. ASSUME NEW c \in Legs,
             \/ ChannelCreate(c) \/ DialplanNames(c) \/ ChannelAnswer(c)
             \/ QueueJoin(c) \/ Hangup(c) \/ (\E d \in Legs : Bridge(c, d))
      PROVE  QueuersWait'
  <2>1. scenario' = scenario /\ \A d \in queued' : d \in queued \/ Leg(d).queues
    BY <1>1 DEF ChannelCreate, DialplanNames, ChannelAnswer, QueueJoin, Hangup, Bridge
  <2> QED BY <2>1, QueuersStep
<1>2. ASSUME NEW t \in Moves,
             \/ RunTransfer(t) \/ ClaimLapses(t)
             \/ (\E replied \in BOOLEAN : TransferReturns(t, replied))
             \/ (\E k \in CallIds, a \in Agents : SendTransfer(t, k, a))
      PROVE  QueuersWait'
  <2>1. scenario' = scenario /\ queued' = queued
    BY <1>2 DEF RunTransfer, ClaimLapses, TransferReturns, SendTransfer, switchVars
  <2> QED BY <2>1, QueuersStep
<1>3. ASSUME NEW k \in CallIds, ApplySwitchEvent(k) \/ Unregister(k) PROVE QueuersWait'
  <2>1. scenario' = scenario /\ queued' = queued
    BY <1>3 DEF ApplySwitchEvent, Unregister, switchVars
  <2> QED BY <2>1, QueuersStep
<1>4. ASSUME NEW r \in toWrite, WriteRow(r) \/ LoseRow(r) PROVE QueuersWait'
  <2>1. scenario' = scenario /\ queued' = queued BY <1>4 DEF WriteRow, LoseRow, switchVars
  <2> QED BY <2>1, QueuersStep
<1>6. ASSUME NEW unread \in SUBSET Up, NEW isLineRead \in BOOLEAN, NEW isComplete \in BOOLEAN,
             ReconnectBlind(unread, isLineRead, isComplete)
      PROVE  QueuersWait'
  <2>1. scenario' = scenario /\ queued' = queued BY <1>6 DEF ReconnectBlind
  <2> QED BY <2>1, QueuersStep
<1>5. ASSUME Handle \/ LinkDrops \/ Crash \/ Reconnect PROVE QueuersWait'
  <2>1. scenario' = scenario /\ queued' = queued
    BY <1>5 DEF Handle, LinkDrops, Crash, Reconnect
  <2> QED BY <2>1, QueuersStep
<1> QED BY <1>1, <1>2, <1>3, <1>4, <1>5, <1>6 DEF Next

LEMMA RowsInitially == ASSUME Init PROVE RowsInv /\ QueuersWait
<1>1. /\ NoCall.known = FALSE /\ NoCall.stopped /\ NoCall.ended /\ DOMAIN NoCall.party = {}
  BY DEF NoCall
<1>2. /\ \A k \in CallIds : call[k] = NoCall
      /\ \A c \in Channels : at[c] = NoOne /\ peer[c] = NoOne /\ chan[c] = "none"
      /\ 1..Len(feed) = {} /\ rows = {} /\ toWrite = {} /\ queued = {}
      /\ Channels \subseteq CallIds
  BY DEF Init, CallIds
<1>3. \A k \in CallIds : /\ ~IsRunning(call, k) /\ ~WasAbsorbed(call, k)
                         /\ \A c : ~Has(call, k, c)
  BY <1>1, <1>2 DEF IsRunning, WasAbsorbed, Has
<1>4. Registered(call, at) BY <1>1, <1>2, <1>3 DEF Registered, Flags, Bindings
<1>5. Accounted(call, at, feed)
  BY <1>1, <1>2, <1>3 DEF Accounted, Strays, Ends, Births, IsNew, Deaths, Recorded
<1>6. Ordered(feed) /\ Bridges BY <1>2 DEF Ordered, Says, Bridges
<1>7. OneRowPerLeg /\ QueuersWait BY <1>2 DEF OneRowPerLeg, QueuersWait
<1> QED BY <1>4, <1>5, <1>6, <1>7 DEF RowsInv

\* In conversations, what the registry holds is accounted for in every state: one
\* case per action, as above.
THEOREM RowsInvariance == ASSUME Conversations PROVE Spec => []RowsInv
<1> DEFINE All == Inv /\ RowsInv /\ QueuersWait
<1>1. Init => All BY Initially, RowsInitially
<1>2. All /\ SpentInv /\ Inv' /\ [Next]_vars => All'
  <2> SUFFICES ASSUME Inv, SpentInv, RowsInv, QueuersWait, [Next]_vars
               PROVE  RowsInv' /\ QueuersWait'
    OBVIOUS
  <2>1. ASSUME NEW c \in Legs,
               \/ ChannelCreate(c) \/ DialplanNames(c) \/ ChannelAnswer(c)
               \/ QueueJoin(c) \/ Hangup(c) \/ (\E d \in Legs : Bridge(c, d))
        PROVE  RowsInv'
    BY <2>1, CreateRows, NamesRows, AnswerRows, QueueJoinRows, HangupRows, BridgeRows
  <2>2. ASSUME NEW t \in Moves,
               \/ RunTransfer(t) \/ ClaimLapses(t)
               \/ (\E replied \in BOOLEAN : TransferReturns(t, replied))
               \/ (\E k \in CallIds, a \in Agents : SendTransfer(t, k, a))
        PROVE  RowsInv'
    BY <2>2, RunTransferRows, LapsesRows, ReturnsRows, SendRows
  <2>3. ASSUME Handle PROVE RowsInv' BY <2>3, HandleRows
  <2>4. ASSUME NEW k \in CallIds, ApplySwitchEvent(k) \/ Unregister(k) PROVE RowsInv'
    BY <2>4, ApplyRows, UnregisterRows
  <2>5. ASSUME NEW r \in toWrite, WriteRow(r) \/ LoseRow(r) PROVE RowsInv'
    BY <2>5, WriteRows, LoseRows
  <2>6. ASSUME LinkDrops PROVE RowsInv' BY <2>6, DropRows
  <2>7. ASSUME Crash PROVE RowsInv' BY <2>7, CrashRows
  <2>8. ASSUME Reconnect PROVE RowsInv' BY <2>8, ReconnectRows
  <2>11. ASSUME NEW unread \in SUBSET Up, NEW isLineRead \in BOOLEAN, NEW isComplete \in BOOLEAN,
                ReconnectBlind(unread, isLineRead, isComplete)
         PROVE  RowsInv'
    BY <2>11, ReconnectBlindRows
  <2>9. CASE UNCHANGED vars
    <3>1. UNCHANGED <<scenario, spent, link, chan, peer, feed, at, call, rows, toWrite, queued>>
      BY <2>9 DEF vars, switchVars, appVars
    <3>2. RowsInv' BY <3>1, RegistryStep DEF RowsInv
    <3> QED BY <3>1, <3>2, QueuersStep
  <2>10. CASE Next
    <3>1. RowsInv' BY <2>1, <2>2, <2>3, <2>4, <2>5, <2>6, <2>7, <2>8, <2>10, <2>11 DEF Next
    <3> QED BY <2>10, <3>1, QueuersKept
  <2> QED BY <2>9, <2>10
<1>3. Spec => []Inv BY Invariance
<1> QED BY <1>1, <1>2, <1>3, FaultsKept, PTL DEF Spec

\* In conversations, a leg is recorded in one call only and a call once, whatever
\* was merged, replayed, read in part or lost on the way (merge, Call.Finish).
THEOREM OneRow == ASSUME Conversations PROVE Spec => []OneRowPerLeg
<1>1. RowsInv => OneRowPerLeg BY DEF RowsInv
<1> QED BY <1>1, RowsInvariance, PTL

\* In conversations, once everything said has been applied no call holds a leg
\* that has ended, also when its end fell into a drop of the link, if the last
\* listing was whole (closeVanished, agentLegEnded, merge).
THEOREM GhostsAreNone == ASSUME Conversations PROVE Spec => []NoGhosts
<1>1. Inv /\ RowsInv => NoGhosts
  <2> SUFFICES ASSUME Inv, RowsInv, Quiet, "ends" \notin spent.missed, NEW k \in CallIds, IsKnown(k),
                      NEW c \in DOMAIN call[k].party, IsActive(call[k].party[c])
               PROVE  c \in Up
    BY DEF NoGhosts
  <2>1. /\ link = "up" /\ feed = <<>> /\ call[k].mailbox = <<>> /\ IsRunning(call, k)
        /\ call[k].party[c].state # "RELEASED" /\ Has(call, k, c)
    BY DEF Quiet, Idle, IsKnown, IsRunning, IsActive, Has
  <2>2. c \in Channels
    <3>1. call[k].party \in PartyMaps BY DEF Inv, TypedCalls, CallRecords
    <3> QED BY <3>1, PartyMapIs
  <2>3. at[c] = k /\ k # NoOne BY <2>1, <2>2, CallsAssumption DEF RowsInv, Registered, Bindings, CallIds
  <2>4. c \in Legs BY <2>2, <2>3 DEF RowsInv, Registered, Bindings
  <2>5. chan[c] # "none" BY <2>2, <2>3 DEF RowsInv, Accounted, Births, IsNew
  <2>6. chan[c] # "gone"
    <3>1. IsComing(call, k, c, feed) BY <2>1, <2>2 DEF RowsInv, Accounted, Deaths
    <3>2. ~Says(feed, "hangup", c) /\ ~Says(call[k].mailbox, "hangup", c) BY <2>1, SaysNothing
    <3> QED BY <2>1, <3>1, <3>2 DEF IsComing, IsDeaf
  <2> QED BY <2>2, <2>4, <2>5, <2>6 DEF Up, Inv, TypedSwitch
<1> QED BY <1>1, Invariance, RowsInvariance, PTL
=============================================================================
