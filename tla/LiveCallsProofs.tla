-------------------------- MODULE LiveCallsProofs ---------------------------
(***************************************************************************)
(* Live legs and the work they leave, on top of what CallsProofs says of   *)
(* rows. What is promised of live legs holds for plans that are            *)
(* Conversations and MintedOnce, until the first drop or crash; of         *)
(* after-call work, for plans that are KeptTogether besides.               *)
(*                                                                         *)
(* Live legs. While nothing was missed the stream also tells everything    *)
(* (Story), so a leg whose creation was handled and whose end was not is   *)
(* on a running call (Tended). The step that could break it is a merge     *)
(* into a call about to end: Named and Minted say that the call of an id   *)
(* is only made by the leg that carries it. PhoneInv orders an agent's     *)
(* legs, and TalkInv follows each bridge from the stream to the call it is *)
(* posted to.                                                              *)
(*                                                                         *)
(* After-call work. WorkInv adds when the call a leg ends on can no longer *)
(* be absorbed (IsFinal): it has the name, or nothing will be said of its  *)
(* legs, or its conversation has no other call to be joined to. The plans  *)
(* are KeptTogether, so that an unnamed call an agent's leg ended on is    *)
(* one of these.                                                           *)
(***************************************************************************)
EXTENDS CallsProofs

-----------------------------------------------------------------------------
(***************************************************************************)
(* The stream while the link has never dropped: everything the switch did  *)
(* is told once, in the order it was done.                                 *)
(***************************************************************************)
\* The end of the leg has been handled; it was made, and it has not.
IsOver(q, c) == chan[c] = "gone" /\ ~Says(q, "hangup", c)
IsCurrent(q, c) == chan[c] # "none" /\ ~IsOver(q, c)

Mentions(ev, c) == ev.chan = c \/ (ev.kind = "bridge" /\ ev.other = c)
IsEnd(ev, c) == ev.kind = "hangup" /\ ev.chan = c

\* A leg is made before anything is said of it or raised for it, and nothing is
\* said of it after its end.
Follows(x, y) == /\ y.kind = "create" => ~Mentions(x, y.chan) /\ Leg(x.chan).from # y.chan
                 /\ x.kind = "hangup" => ~Mentions(y, x.chan)

\* A leg without an id raises another before its own end.
RaisesAlive(q, i) ==
    LET f == Leg(q[i].chan).from IN
    q[i].kind = "create" /\ f # NoOne /\ Leg(f).id = NoOne =>
        IsCurrent(q, f) /\ \A j \in 1..Len(q) : j < i => ~IsEnd(q[j], f)

Raised == \A c \in Legs : chan[c] # "none" /\ Leg(c).from # NoOne => chan[Leg(c).from] # "none"

Story(q) ==
    /\ \A i \in 1..Len(q) : RaisesAlive(q, i) /\ (q[i].kind = "bridge" => chan[q[i].other] # "none")
    /\ \A i, j \in 1..Len(q) : i < j => Follows(q[i], q[j])
    /\ \A c \in Channels : IsOver(q, c) => \A i \in 1..Len(q) : ~Mentions(q[i], c)

LEMMA HeadOf ==
    ASSUME Conversations, scenario \in Scenarios, NEW q \in Seq(Events), q # <<>>,
           Ordered(q), Story(q), NEW ev, ev = Head(q)
    PROVE  /\ ev \in Events /\ IsTrue(ev) /\ ev.chan \in Legs
           /\ IsCurrent(q, ev.chan)
           /\ ev.kind = "bridge" => IsCurrent(q, ev.other) /\ ~Says(q, "create", ev.other)
           /\ ev.kind # "create" => ~Says(q, "create", ev.chan)
           /\ Leg(ev.chan).from # NoOne => ~Says(q, "create", Leg(ev.chan).from)
<1>1. /\ ev = q[1] /\ ev \in Events /\ 1 \in 1..Len(q) /\ Len(q) \in Nat
      /\ \A i \in 1..Len(q) : i = 1 \/ 1 < i
  BY TailIs
<1>2. IsTrue(ev) BY <1>1 DEF Ordered
<1>3. ev.chan \in Legs /\ ev.chan \in Channels BY <1>2, PlanFacts DEF IsTrue
<1>4. ASSUME NEW c \in Channels, Mentions(ev, c), chan[c] # "none" PROVE IsCurrent(q, c)
  BY <1>1, <1>4 DEF Story, IsCurrent, IsOver
<1>5. IsCurrent(q, ev.chan) BY <1>2, <1>3, <1>4 DEF IsTrue, Mentions
<1>6. ASSUME NEW c, Says(q, "create", c)
      PROVE  \/ ev.kind = "create" /\ ev.chan = c
             \/ ~Mentions(ev, c) /\ Leg(ev.chan).from # c
  <2>1. PICK i \in 1..Len(q) : q[i].kind = "create" /\ q[i].chan = c BY <1>6 DEF Says
  <2>2. CASE i = 1 BY <1>1, <2>1, <2>2
  <2>3. CASE 1 < i
    <3>1. Follows(ev, q[i]) BY <1>1, <2>3 DEF Story
    <3> QED BY <2>1, <3>1 DEF Follows
  <2> QED BY <1>1, <2>2, <2>3
<1>7. ev.kind = "bridge" => IsCurrent(q, ev.other) /\ ~Says(q, "create", ev.other)
  <2> SUFFICES ASSUME ev.kind = "bridge" PROVE IsCurrent(q, ev.other) /\ ~Says(q, "create", ev.other)
    OBVIOUS
  <2>1. ev.other \in Channels BY <1>2, PlanFacts DEF IsTrue
  <2>2. chan[ev.other] # "none" BY <1>1 DEF Story
  <2>3. Mentions(ev, ev.other) BY DEF Mentions
  <2> QED BY <1>4, <1>6, <2>1, <2>2, <2>3
<1>8. ev.kind # "create" => ~Says(q, "create", ev.chan) BY <1>6 DEF Mentions
<1>9. Leg(ev.chan).from # NoOne => ~Says(q, "create", Leg(ev.chan).from)
  <2>1. Leg(ev.chan).from # NoOne => Leg(ev.chan).from # ev.chan BY <1>3, PlanFacts
  <2> QED BY <1>6, <2>1
<1> QED BY <1>1, <1>2, <1>3, <1>5, <1>7, <1>8, <1>9

LEMMA StoryTail ==
    ASSUME Conversations, scenario \in Scenarios, NEW q \in Seq(Events), q # <<>>,
           Ordered(q), Story(q), NEW ev, ev = Head(q)
    PROVE  /\ \A c : IsCurrent(Tail(q), c) <=> IsCurrent(q, c) /\ ~IsEnd(ev, c)
           /\ \A c : Says(Tail(q), "create", c) <=>
                         Says(q, "create", c) /\ ~(ev.kind = "create" /\ ev.chan = c)
           /\ \A c : IsOver(Tail(q), c) <=> IsOver(q, c) \/ IsEnd(ev, c)
           /\ ev.kind = "hangup" => ~Says(Tail(q), "hangup", ev.chan)
           /\ Story(Tail(q))
<1> DEFINE r == Tail(q)
<1>1. /\ ev = q[1] /\ r \in Seq(Events) /\ 1 \in 1..Len(q) /\ Len(q) \in Nat /\ Len(r) \in Nat
      /\ \A i \in 1..Len(r) : r[i] = q[i + 1] /\ i + 1 \in 1..Len(q) /\ 1 < i + 1
  BY TailIs
<1>2. \A kind, c : Says(q, kind, c) <=> (ev.kind = kind /\ ev.chan = c) \/ Says(r, kind, c)
  BY SaysTail
<1>3. IsTrue(ev) BY <1>1 DEF Ordered
<1> HIDE DEF r
<1>4. ASSUME NEW i \in 1..Len(r) PROVE Follows(ev, r[i])
  BY <1>1 DEF Story
<1>5. ev.kind = "hangup" => ~Says(r, "hangup", ev.chan)
  BY <1>4 DEF Says, Follows, Mentions
<1>6. ev.kind = "create" => ~Says(r, "create", ev.chan)
  BY <1>4 DEF Says, Follows, Mentions
<1>7. ASSUME NEW c
      PROVE  /\ IsOver(r, c) <=> IsOver(q, c) \/ IsEnd(ev, c)
             /\ IsCurrent(r, c) <=> IsCurrent(q, c) /\ ~IsEnd(ev, c)
  <2>1. IsEnd(ev, c) => ~Says(r, "hangup", c) /\ chan[c] = "gone" BY <1>3, <1>5 DEF IsEnd, IsTrue
  <2>2. Says(q, "hangup", c) <=> IsEnd(ev, c) \/ Says(r, "hangup", c) BY <1>2 DEF IsEnd
  <2> QED BY <2>1, <2>2 DEF IsCurrent, IsOver
<1>8. ASSUME NEW i \in 1..Len(r) PROVE RaisesAlive(r, i)
  <2> DEFINE f == Leg(r[i].chan).from
  <2> SUFFICES ASSUME r[i].kind = "create", f # NoOne, Leg(f).id = NoOne
               PROVE  IsCurrent(r, f) /\ \A j \in 1..Len(r) : j < i => ~IsEnd(r[j], f)
    BY DEF RaisesAlive
  <2>1. RaisesAlive(q, i + 1) BY <1>1 DEF Story
  <2>2. IsCurrent(q, f) /\ \A j \in 1..Len(q) : j < i + 1 => ~IsEnd(q[j], f)
    BY <1>1, <2>1 DEF RaisesAlive
  <2>3. ~IsEnd(ev, f) BY <1>1, <2>2
  <2>4. ASSUME NEW j \in 1..Len(r), j < i PROVE ~IsEnd(r[j], f)
    <3>1. r[j] = q[j + 1] /\ j + 1 \in 1..Len(q) /\ j + 1 < i + 1 BY <1>1, <2>4
    <3> QED BY <2>2, <3>1
  <2> QED BY <1>7, <2>2, <2>3, <2>4
<1>9. \A i \in 1..Len(r) : r[i].kind = "bridge" => chan[r[i].other] # "none" BY <1>1 DEF Story
<1>10. ASSUME NEW i \in 1..Len(r), NEW j \in 1..Len(r), i < j PROVE Follows(r[i], r[j])
  <2>1. i + 1 < j + 1 BY <1>1, <1>10
  <2> QED BY <1>1, <2>1 DEF Story
<1>11. ASSUME NEW c \in Channels, IsOver(r, c), NEW i \in 1..Len(r) PROVE ~Mentions(r[i], c)
  <2>1. CASE IsEnd(ev, c) BY <1>4, <2>1 DEF Follows, IsEnd
  <2>2. CASE ~IsEnd(ev, c)
    <3>1. IsOver(q, c) BY <1>2, <1>11, <2>2 DEF IsEnd, IsOver
    <3> QED BY <1>1, <1>11, <3>1 DEF Story
  <2> QED BY <2>1, <2>2
<1>12. Story(r) BY <1>8, <1>9, <1>10, <1>11 DEF Story
<1> QED BY <1>2, <1>5, <1>6, <1>7, <1>12 DEF r

-----------------------------------------------------------------------------
(***************************************************************************)
(* The registry while the link has never dropped.                          *)
(***************************************************************************)
\* A leg that is current, its creation handled, and whose caller is current too
\* if the dialplan names that one.
IsTended(q, c) ==
    /\ IsCurrent(q, c) /\ ~Says(q, "create", c)
    /\ Leg(c).from = NoOne \/ Leg(Leg(c).from).id = NoOne \/ IsCurrent(q, Leg(c).from)

\* A leg the dialplan mints an id for.
IsMinter(f) == f \in Legs /\ Leg(f).from = NoOne /\ Leg(f).id # NoOne

\* The end of a leg is told once.
EndsOnce(cl, q) ==
    \A k \in CallIds, c \in Channels :
        /\ cl[k].known /\ Says(cl[k].mailbox, "hangup", c) => ~Says(q, "hangup", c)
        /\ Has(cl, k, c) /\ cl[k].party[c].state = "RELEASED" => ~Says(q, "hangup", c)

Tended(cl, b, q) == \A c \in Legs : IsTended(q, c) => b[c] # NoOne /\ IsRunning(cl, b[c])

\* The call of an id is made when its leg is moved to it.
Minted(cl, b, q) ==
    \A f : IsMinter(f) /\ cl[Leg(f).id].known => b[f] = Leg(f).id \/ IsOver(q, f)

\* The leg is on the call of its id, or will be once an event that carries the
\* id, or its end, has been handled.
HasName(b, q, f) == IsOver(q, f) \/ b[f] \in Ids
IsNaming(ev, f) == ev.chan = f /\ (ev.id # NoOne \/ ev.kind = "hangup")
IsNamedBefore(q, i, f) == \E j \in 1..Len(q) : j < i /\ IsNaming(q[j], f)

\* A leg that has answered or is queued, and one others were raised for, is named:
\* the dialplan sets the id before it answers.
Named(b, q) ==
    /\ \A f : IsMinter(f) /\ (f \in queued \/ chan[f] = "answered") =>
           HasName(b, q, f) \/ IsNamedBefore(q, Len(q) + 1, f)
    /\ \A i \in 1..Len(q) : LET f == Leg(q[i].chan).from IN
           q[i].kind = "create" /\ IsMinter(f) => HasName(b, q, f) \/ IsNamedBefore(q, i, f)
    /\ \A c \in Legs : LET f == Leg(c).from IN
           chan[c] # "none" /\ ~Says(q, "create", c) /\ IsMinter(f) => HasName(b, q, f)

Standing(cl, b, q) == EndsOnce(cl, q) /\ Tended(cl, b, q) /\ Named(b, q)
Following(cl, b, q) == Standing(cl, b, q) /\ Minted(cl, b, q)

LEMMA MinterFacts ==
    ASSUME Conversations, scenario \in Scenarios, NEW f, IsMinter(f)
    PROVE  /\ f \in Legs /\ f \in Channels /\ Leg(f).id \in Ids /\ Leg(f).id \in CallIds
           /\ RootOf(f) = f /\ \A k \in Ids : IsKin(f, k) => k = Leg(f).id
           /\ \A q : IsCurrent(q, f) /\ ~Says(q, "create", f) => IsTended(q, f)
<1>1. f \in Legs /\ f \in Channels /\ Leg(f).id \in Ids BY PlanFacts DEF IsMinter
<1>2. RootOf(f) = f BY DEF IsMinter, RootOf
<1> QED BY <1>1, <1>2 DEF CallIds, IsKin, IsMinter, IsTended

LEMMA NameFacts ==
    ASSUME MintedOnce, scenario \in Scenarios
    PROVE  \A f, g : IsMinter(f) /\ IsMinter(g) /\ Leg(f).id = Leg(g).id => f = g
<1>1. IsMintedOnce(scenario.leg) BY DEF MintedOnce
<1> QED BY <1>1 DEF IsMintedOnce, IsMinter, Legs, Leg

\* A leg whose caller has an id has a caller who mints it.
LEMMA MinterOf ==
    ASSUME Conversations, scenario \in Scenarios, NEW c \in Legs, Leg(c).id # NoOne
    PROVE  IsMinter(RootOf(c)) /\ Leg(RootOf(c)).id = Leg(c).id
<1>1. CASE Leg(c).from = NoOne BY <1>1 DEF RootOf, IsMinter
<1>2. CASE Leg(c).from # NoOne
  <2>1. RootOf(c) = Leg(c).from /\ Leg(c).from \in Legs /\ Leg(Leg(c).from).from = NoOne
    BY <1>2, PlanFacts DEF RootOf
  <2>2. Leg(RootOf(c)).id = Leg(c).id BY PlanFacts
  <2> QED BY <2>1, <2>2 DEF IsMinter
<1> QED BY <1>1, <1>2

\* A named leg that is current runs on the call of its id.
LEMMA NamedRuns ==
    ASSUME Conversations, scenario \in Scenarios, NEW cl, NEW b, NEW q,
           Bindings(cl, b), Tended(cl, b, q), NEW f, IsMinter(f), HasName(b, q, f),
           IsCurrent(q, f)
    PROVE  /\ b[f] = Leg(f).id /\ cl[Leg(f).id].known
           /\ ~Says(q, "create", f) => IsRunning(cl, Leg(f).id)
<1>1. f \in Legs /\ f \in Channels /\ b[f] \in Ids BY MinterFacts DEF HasName, IsCurrent
<1>2. b[f] # NoOne BY <1>1, CallsAssumption
<1>3. cl[b[f]].known /\ IsKin(f, b[f]) BY <1>1, <1>2 DEF Bindings
<1>4. b[f] = Leg(f).id BY <1>1, <1>3, MinterFacts
<1> QED BY <1>1, <1>3, <1>4, MinterFacts DEF Tended

-----------------------------------------------------------------------------
(***************************************************************************)
(* The legs of a call that is absorbed.                                    *)
(***************************************************************************)
TakesOver(s, t, q, keep, absorb) ==
    /\ keep \in CallIds /\ absorb \in CallIds /\ absorb \notin Ids /\ keep # absorb
    /\ IsRunning(s.call, absorb) /\ Len(s.call[absorb].mailbox) = 0 /\ s.call[keep].known
    /\ IsRunning(s.call, keep) \/ \A c \in Legs : s.at[c] = absorb => ~IsTended(q, c)
    /\ \A c \in Channels : t.at[c] = IF s.at[c] = absorb THEN keep ELSE s.at[c]
    /\ \A k \in CallIds : /\ t.call[k].known = s.call[k].known
                          /\ t.call[k].mailbox = s.call[k].mailbox
                          /\ t.call[k].ended = s.call[k].ended
                          /\ k # absorb => t.call[k].stopped = s.call[k].stopped
                          /\ k # keep => t.call[k].party = s.call[k].party
    /\ t.call[keep].party = Union(s.call[keep].party, s.call[absorb].party)

LEMMA TakesOverFollows ==
    ASSUME Conversations, scenario \in Scenarios, NEW v, NEW w, NEW s \in States(v, w), NEW q,
           Registered(s.call, s.at), Standing(s.call, s.at, q), NEW t, NEW keep, NEW absorb,
           TakesOver(s, t, q, keep, absorb)
    PROVE  /\ Standing(t.call, t.at, q)
           /\ \A f : IsMinter(f) => (s.at[f] \in Ids => t.at[f] = s.at[f])
           /\ Minted(s.call, s.at, q) => Minted(t.call, t.at, q)
<1>0. s.at \in [Channels -> CallIds \cup {NoOne}] /\ NoOne \notin CallIds
  BY CallsAssumption DEF States, CallIds
<1>1. EndsOnce(t.call, q)
  <2> SUFFICES ASSUME NEW k \in CallIds, NEW c \in Channels
               PROVE  /\ t.call[k].known /\ Says(t.call[k].mailbox, "hangup", c) => ~Says(q, "hangup", c)
                      /\ Has(t.call, k, c) /\ t.call[k].party[c].state = "RELEASED" => ~Says(q, "hangup", c)
    BY DEF EndsOnce
  <2>0. \A j \in CallIds : /\ s.call[j].known /\ Says(s.call[j].mailbox, "hangup", c) => ~Says(q, "hangup", c)
                           /\ c \in DOMAIN s.call[j].party /\ s.call[j].party[c].state = "RELEASED" => ~Says(q, "hangup", c)
    BY DEF Standing, EndsOnce, Has
  <2>1. t.call[k].known /\ Says(t.call[k].mailbox, "hangup", c) => ~Says(q, "hangup", c)
    BY <2>0 DEF TakesOver
  <2>2. CASE k # keep BY <2>0, <2>1, <2>2 DEF TakesOver, Has
  <2>3. CASE k = keep
    <3>1. t.call[k].party = Union(s.call[keep].party, s.call[absorb].party) BY <2>3 DEF TakesOver
    <3>2. c \in DOMAIN t.call[k].party =>
             \/ c \in DOMAIN s.call[keep].party /\ t.call[k].party[c] = s.call[keep].party[c]
             \/ c \in DOMAIN s.call[absorb].party /\ t.call[k].party[c] = s.call[absorb].party[c]
      BY <3>1 DEF Union
    <3>3. keep \in CallIds /\ absorb \in CallIds BY DEF TakesOver
    <3> QED BY <2>0, <2>1, <3>2, <3>3 DEF Has
  <2> QED BY <2>2, <2>3
<1>2. Tended(t.call, t.at, q)
  <2> SUFFICES ASSUME NEW c \in Legs, IsTended(q, c) PROVE t.at[c] # NoOne /\ IsRunning(t.call, t.at[c])
    BY DEF Tended
  <2>1. s.at[c] # NoOne /\ IsRunning(s.call, s.at[c]) BY DEF Standing, Tended
  <2>2. c \in Channels BY DEF Legs
  <2>3. s.at[c] \in CallIds BY <1>0, <2>1, <2>2
  <2>4. CASE s.at[c] = absorb
    <3>1. IsRunning(s.call, keep) /\ t.at[c] = keep /\ keep \in CallIds /\ keep # absorb
      BY <2>2, <2>4 DEF TakesOver
    <3> QED BY <1>0, <3>1 DEF TakesOver, IsRunning
  <2>5. CASE s.at[c] # absorb BY <2>1, <2>2, <2>3, <2>5 DEF TakesOver, IsRunning
  <2> QED BY <2>4, <2>5
<1>3. \A f : IsMinter(f) => (s.at[f] \in Ids => t.at[f] = s.at[f])
  BY MinterFacts DEF TakesOver
<1>4. Minted(s.call, s.at, q) => Minted(t.call, t.at, q)
  <2> SUFFICES ASSUME Minted(s.call, s.at, q), NEW f, IsMinter(f), t.call[Leg(f).id].known
               PROVE  t.at[f] = Leg(f).id \/ IsOver(q, f)
    BY DEF Minted
  <2>1. s.call[Leg(f).id].known BY MinterFacts DEF TakesOver
  <2> QED BY <1>3, <2>1, MinterFacts DEF Minted
<1>5. \A f : IsMinter(f) /\ HasName(s.at, q, f) => HasName(t.at, q, f) BY <1>3 DEF HasName
<1>6. Named(t.at, q)
  <2>1. Named(s.at, q) BY DEF Standing
  <2> QED BY <1>5, <2>1 DEF Named
<1> QED BY <1>1, <1>2, <1>3, <1>4, <1>6 DEF Standing

LEMMA MergeTakesOver ==
    ASSUME NEW v, NEW w, NEW s \in States(v, w), NEW q, Registered(s.call, s.at),
           NEW keep \in CallIds, NEW absorb \in CallIds, keep # absorb, absorb \notin Ids,
           NEW late, Runs(s, keep, late), IsRunning(s.call, absorb),
           Len(s.call[absorb].mailbox) = 0,
           IsRunning(s.call, keep) \/ \A c \in Legs : s.at[c] = absorb => ~IsTended(q, c),
           NEW t, t = Merge(s, keep, absorb, late)
    PROVE  TakesOver(s, t, q, keep, absorb)
<1> DEFINE moved == IF Runs(s, absorb, late) THEN s.call[absorb].party ELSE <<>>
<1>1. moved = (IF Runs(s, absorb, late) THEN s.call[absorb].party ELSE <<>>) OBVIOUS
<1>2. moved = s.call[absorb].party BY DEF Runs, IsRunning
<1> HIDE DEF moved
<1>3. /\ t.at = [c \in Channels |-> IF c \in DOMAIN moved THEN keep ELSE s.at[c]]
      /\ \A k \in CallIds : k # keep /\ k # absorb => t.call[k] = s.call[k]
      /\ t.call[keep].known = s.call[keep].known
      /\ t.call[keep].stopped = s.call[keep].stopped
      /\ t.call[keep].ended = s.call[keep].ended
      /\ t.call[keep].mailbox = s.call[keep].mailbox
      /\ t.call[keep].party = Union(s.call[keep].party, moved)
      /\ t.call[absorb].known = s.call[absorb].known
      /\ t.call[absorb].ended = s.call[absorb].ended
      /\ t.call[absorb].mailbox = s.call[absorb].mailbox
      /\ t.call[absorb].party = s.call[absorb].party
  BY <1>1, MergeEffect
<1>4. \A c \in Channels : c \in DOMAIN moved <=> s.at[c] = absorb
  BY <1>2 DEF Registered, Bindings, Has
<1>5. s.call[keep].known BY DEF Runs
<1>6. \A c \in Channels : t.at[c] = IF s.at[c] = absorb THEN keep ELSE s.at[c] BY <1>3, <1>4
<1>7. ASSUME NEW k \in CallIds
      PROVE  /\ t.call[k].known = s.call[k].known
             /\ t.call[k].mailbox = s.call[k].mailbox
             /\ t.call[k].ended = s.call[k].ended
             /\ k # absorb => t.call[k].stopped = s.call[k].stopped
             /\ k # keep => t.call[k].party = s.call[k].party
  BY <1>3
<1>8. t.call[keep].party = Union(s.call[keep].party, s.call[absorb].party) BY <1>2, <1>3
<1> QED BY <1>5, <1>6, <1>7, <1>8 DEF TakesOver

\* The legs of a bridge are tended.
LEMMA BridgeTended ==
    ASSUME Conversations, scenario \in Scenarios, NEW q \in Seq(Events), q # <<>>,
           Ordered(q), Story(q), NEW ev, ev = Head(q), ev.kind = "bridge"
    PROVE  /\ ev.chan \in Legs /\ ev.other \in Legs
           /\ IsTended(q, ev.chan) /\ IsTended(q, ev.other)
<1>1. /\ IsTrue(ev) /\ IsCurrent(q, ev.chan) /\ ~Says(q, "create", ev.chan)
      /\ IsCurrent(q, ev.other) /\ ~Says(q, "create", ev.other)
  BY HeadOf
<1>2. ev.chan \in Legs /\ ev.other \in Legs
      /\ (Leg(ev.other).from = ev.chan \/ Leg(ev.chan).from = ev.other)
  BY <1>1 DEF IsTrue
<1>3. NoOne \notin Channels BY CallsAssumption
<1>4. \A c \in Legs : c \in Channels /\ (Leg(c).from # NoOne => Leg(Leg(c).from).from = NoOne)
  BY PlanFacts
<1> QED BY <1>1, <1>2, <1>3, <1>4 DEF IsTended

LEMMA JoinIs ==
    ASSUME Conversations, scenario \in Scenarios,
           NEW v, NEW w, NEW s \in States(v, w), NEW q \in Seq(Events), q # <<>>,
           Registered(s.call, s.at), Ordered(q), Story(q), Following(s.call, s.at, q),
           NEW ev, ev = Head(q), ev.kind = "bridge", NEW late,
           IsWaited(s, s.at[ev.chan]), IsWaited(s, s.at[ev.other]),
           NEW t, t = Join(s, ev, late)
    PROVE  /\ t.at[ev.chan] = t.at[ev.other]
           /\ \/ t = s
              \/ \E keep, absorb \in {s.at[ev.chan], s.at[ev.other]} : TakesOver(s, t, q, keep, absorb)
<1> DEFINE k == s.at[ev.chan]
           o == s.at[ev.other]
           absorb == Absorbed(s, k, o, late)
           keep == IF absorb = k THEN o ELSE k
<1>1. /\ ev.chan \in Legs /\ ev.other \in Legs /\ ev.chan \in Channels /\ ev.other \in Channels
      /\ IsTended(q, ev.chan) /\ IsTended(q, ev.other)
  BY BridgeTended, PlanFacts
<1>2. /\ k # NoOne /\ IsRunning(s.call, k) /\ IsKin(ev.chan, k) /\ k \in CallIds
      /\ o # NoOne /\ IsRunning(s.call, o) /\ IsKin(ev.other, o) /\ o \in CallIds
      /\ s.call[k].minted <=> k \in Ids
      /\ s.call[o].minted <=> o \in Ids
  BY <1>1, BoundCalls DEF Following, Standing, Tended
<1>3. CASE k = o
  <2>1. t = s BY <1>3 DEF Join
  <2> QED BY <1>3, <2>1
<1>4. CASE k # o
  <2>1. t = Merge(s, keep, absorb, late) BY <1>2, <1>4 DEF Join
  <2>2. RootOf(ev.chan) = RootOf(ev.other)
    <3>1. IsTrue(ev) BY OrderedTail
    <3> QED BY <1>1, <3>1, KinFollows DEF IsTrue
  <2>3. ~(k \in Ids /\ o \in Ids) BY <1>2, <1>4, <2>2 DEF IsKin
  <2>4. /\ IsMintedID(s, k, late) <=> k \in Ids
        /\ IsMintedID(s, o, late) <=> o \in Ids
    BY <1>2 DEF IsMintedID, Runs, IsRunning
  <2>5. absorb \in {k, o} /\ keep \in {k, o} /\ keep # absorb /\ absorb \notin Ids
    BY <1>4, <2>3, <2>4 DEF Absorbed
  <2> HIDE DEF absorb, keep
  <2>6. Len(s.call[absorb].mailbox) = 0
    BY <1>2, <2>5 DEF IsWaited, IsRunning
  <2>7. Runs(s, keep, late) BY <1>2, <2>5 DEF Runs, IsRunning
  <2>8. /\ IsRunning(s.call, keep) /\ IsRunning(s.call, absorb)
        /\ keep \in CallIds /\ absorb \in CallIds
    BY <1>2, <2>5
  <2>9. TakesOver(s, t, q, keep, absorb)
    BY <2>1, <2>5, <2>6, <2>7, <2>8, MergeTakesOver
  <2>10. t.at[ev.chan] = keep /\ t.at[ev.other] = keep BY <1>1, <1>4, <2>5, <2>9 DEF TakesOver
  <2> QED BY <2>5, <2>9, <2>10
<1> QED BY <1>3, <1>4

-----------------------------------------------------------------------------
(***************************************************************************)
(* Naming a call.                                                          *)
(***************************************************************************)
LEMMA CallForStands ==
    ASSUME Conversations, NEW v, NEW w, NEW s \in States(v, w), NEW q, Sound(s, q),
           Standing(s.call, s.at, q), NEW k \in Ids, NEW u, u = CallFor(s, k)
    PROVE  /\ Standing(u.call, u.at, q) /\ u.at = s.at /\ u.call[k].known
           /\ \A j \in CallIds : j # k => u.call[j] = s.call[j]
           /\ s.call[k].known => u = s
           /\ ~s.call[k].known => IsRunning(u.call, k)
           /\ \A j \in CallIds : IsRunning(s.call, j) => u.call[j] = s.call[j]
<1>1. k \in CallIds BY DEF CallIds
<1>2. CASE s.call[k].known
  <2>1. u = s BY <1>2 DEF CreateCall, CallFor
  <2> QED BY <1>2, <2>1
<1>3. CASE ~s.call[k].known
  <2>1. /\ u.at = s.at
        /\ \A j \in CallIds : j # k => u.call[j] = s.call[j]
        /\ IsMade(u.call[k])
    BY <1>1, <1>3, CreateEffect
  <2>2. /\ u.call[k].known /\ IsRunning(u.call, k)
        /\ \A c : ~Has(u.call, k, c) /\ ~Says(u.call[k].mailbox, "hangup", c)
    BY <2>1 DEF IsMade, IsRunning, Has, Says
  <2>3. EndsOnce(u.call, q)
    <3> SUFFICES ASSUME NEW j \in CallIds, NEW c \in Channels
                 PROVE  /\ u.call[j].known /\ Says(u.call[j].mailbox, "hangup", c) => ~Says(q, "hangup", c)
                        /\ Has(u.call, j, c) /\ u.call[j].party[c].state = "RELEASED" => ~Says(q, "hangup", c)
      BY DEF EndsOnce
    <3>1. CASE j = k BY <2>2, <3>1
    <3>2. CASE j # k BY <2>1, <3>2 DEF Standing, EndsOnce, Has
    <3> QED BY <3>1, <3>2
  <2>4. Tended(u.call, u.at, q)
    <3> SUFFICES ASSUME NEW c \in Legs, IsTended(q, c) PROVE u.at[c] # NoOne /\ IsRunning(u.call, u.at[c])
      BY DEF Tended
    <3>1. s.at[c] # NoOne /\ IsRunning(s.call, s.at[c]) BY DEF Standing, Tended
    <3>2. s.at[c] \in CallIds BY <3>1 DEF Legs, States
    <3>3. s.at[c] # k BY <1>3, <3>1 DEF IsRunning
    <3> QED BY <2>1, <3>1, <3>2, <3>3 DEF IsRunning
  <2>5. Named(u.at, q) BY <2>1 DEF Standing
  <2>6. \A j \in CallIds : IsRunning(s.call, j) => u.call[j] = s.call[j]
    BY <1>3, <2>1 DEF IsRunning
  <2> QED BY <1>3, <2>1, <2>2, <2>3, <2>4, <2>5, <2>6 DEF Standing
<1> QED BY <1>2, <1>3

\* A call is made for an event's id, if it is not known, and takes over the legs
\* of the call the event finds; or nothing changes.
Renames(s, t, q, ev) ==
    LET u == CallFor(s, ev.id) IN
    /\ ev.id # NoOne /\ s.at[ev.chan] # NoOne /\ TakesOver(u, t, q, ev.id, s.at[ev.chan])

LEMMA ReidentifyIs ==
    ASSUME Conversations, MintedOnce, scenario \in Scenarios,
           NEW v, NEW w, NEW s \in States(v, w), NEW q \in Seq(Events), q # <<>>,
           Sound(s, q), Ordered(q), Story(q), Following(s.call, s.at, q),
           NEW ev, ev = Head(q), ev.kind # "create", NEW late,
           ev.id # NoOne /\ s.at[ev.chan] # ev.id => IsWaited(s, s.at[ev.chan]),
           NEW t, t = Reidentify(s, ev, late)
    PROVE  /\ Renames(s, t, q, ev) \/ t = s
           /\ \A f : IsMinter(f) /\ ev.chan = f /\ ev.id # NoOne => t.at[f] \in Ids
<1> DEFINE bound == s.at[ev.chan]
           u == CallFor(s, ev.id)
<1>1. /\ IsTrue(ev) /\ ev \in Events /\ ev.chan \in Legs /\ IsCurrent(q, ev.chan)
      /\ ~Says(q, "create", ev.chan)
  BY HeadOf
<1>2. ev.chan \in Channels /\ NoOne \notin CallIds /\ NoOne \notin Ids
  BY <1>1, PlanFacts, CallsAssumption DEF CallIds
<1>3. ASSUME IsMinter(ev.chan) PROVE bound # NoOne
  BY <1>1, <1>3, MinterFacts DEF Following, Standing, Tended
<1>4. CASE ev.id = NoOne \/ bound \in {NoOne, ev.id} \/ IsMintedID(s, bound, late)
  <2>1. t = s BY <1>4 DEF Reidentify
  <2>2. ASSUME IsMinter(ev.chan), ev.id # NoOne PROVE bound \in Ids
    <3>1. bound # NoOne BY <1>3, <2>2
    <3>2. s.call[bound].minted <=> bound \in Ids BY <1>2, <3>1, BoundCalls DEF Sound
    <3>3. ev.id \in Ids BY <1>1, <2>2 DEF Events
    <3> QED BY <1>4, <2>2, <3>1, <3>2, <3>3 DEF IsMintedID
  <2> QED BY <2>1, <2>2
<1>5. CASE ~(ev.id = NoOne \/ bound \in {NoOne, ev.id} \/ IsMintedID(s, bound, late))
  <2>1. /\ t = Merge(u, ev.id, bound, late)
        /\ ev.id = Leg(ev.chan).id /\ ev.id \in Ids
        /\ Leg(RootOf(ev.chan)).id = ev.id
        /\ bound \in CallIds /\ bound \notin Ids /\ RootOf(ev.chan) = RootOf(bound)
        /\ IsRunning(s.call, bound) /\ s.call[bound].mailbox = <<>>
    BY <1>1, <1>5, Reidentified
  <2>2. u \in States(v, w) /\ ev.id \in CallIds BY <2>1, CreateCallType DEF CallIds, CallFor
  <2>3. Sound(u, q) BY <2>1, CreateKeeps
  <2>4. /\ u.at = s.at /\ u.call[ev.id].known /\ (s.call[ev.id].known => u = s)
        /\ (~s.call[ev.id].known => IsRunning(u.call, ev.id))
        /\ u.call[bound] = s.call[bound]
    BY <2>1, CallForStands DEF Following
  <2> HIDE DEF u
  <2> DEFINE f == RootOf(ev.chan)
  <2>5. IsMinter(f) /\ Leg(f).id = ev.id BY <1>1, <1>5, <2>1, MinterOf
  <2> HIDE DEF f
  <2>6. s.call[ev.id].known /\ IsCurrent(q, f) => s.at[f] = ev.id /\ IsRunning(s.call, ev.id)
    <3> SUFFICES ASSUME s.call[ev.id].known, IsCurrent(q, f) PROVE s.at[f] = ev.id /\ IsRunning(s.call, ev.id)
      OBVIOUS
    <3>1. s.at[f] = ev.id BY <2>5 DEF Following, Minted, IsCurrent
    <3>2. f \in Channels /\ f \in Legs BY <2>5, MinterFacts
    <3>3. ~Says(q, "create", f)
      BY <1>5, <3>1, <3>2 DEF Sound, Accounted, Births, IsNew
    <3>4. IsTended(q, f) BY <2>5, <3>3, MinterFacts
    <3> QED BY <3>1, <3>2, <3>4 DEF Following, Standing, Tended
  <2>7. IsRunning(u.call, ev.id) \/ \A c \in Legs : u.at[c] = bound => ~IsTended(q, c)
    <3> SUFFICES ASSUME ~IsRunning(u.call, ev.id), NEW c \in Legs, s.at[c] = bound, IsTended(q, c)
                 PROVE  FALSE
      BY <2>4
    <3>1. s.call[ev.id].known /\ ~IsRunning(s.call, ev.id) BY <2>4
    <3>2. ~IsCurrent(q, f) BY <2>6, <3>1
    <3>3. c \in Channels /\ IsKin(c, bound) BY <1>5, BoundCalls DEF Sound, Legs
    <3>4. RootOf(c) = f BY <2>1, <3>3 DEF IsKin, f
    <3>5. CASE Leg(c).from = NoOne BY <3>2, <3>4, <3>5 DEF RootOf, IsTended
    <3>6. CASE Leg(c).from # NoOne BY <1>5, <2>5, <3>2, <3>4, <3>6 DEF RootOf, IsTended
    <3> QED BY <3>5, <3>6
  <2>8. IsRunning(u.call, bound) /\ Len(u.call[bound].mailbox) = 0
    BY <2>1, <2>4 DEF IsRunning
  <2>9. CASE Runs(u, ev.id, late)
    <3>1. bound # ev.id /\ Registered(u.call, u.at) BY <1>5, <2>3 DEF Sound
    <3> HIDE DEF bound
    <3>2. TakesOver(u, t, q, ev.id, bound)
      BY <2>1, <2>2, <2>7, <2>8, <2>9, <3>1, MergeTakesOver
    <3>3. t.at[ev.chan] = ev.id BY <1>2, <2>4, <3>2 DEF TakesOver, bound
    <3> QED BY <1>5, <2>1, <3>2, <3>3 DEF Renames, bound, u
  <2>10. CASE ~Runs(u, ev.id, late)
    <3>1. t = u BY <2>1, <2>10 DEF Merge
    <3>2. ~IsRunning(u.call, ev.id) BY <2>10 DEF Runs, IsRunning
    <3>3. s.call[ev.id].known /\ t = s BY <2>4, <3>1, <3>2
    <3>4. ~IsCurrent(q, f) BY <2>4, <2>6, <3>2, <3>3
    <3>5. ~IsMinter(ev.chan)
      <4> SUFFICES ASSUME IsMinter(ev.chan) PROVE FALSE OBVIOUS
      <4>1. f = ev.chan BY MinterFacts DEF f
      <4> QED BY <1>1, <3>4, <4>1
    <3> QED BY <3>3, <3>5
  <2> QED BY <2>9, <2>10
<1> QED BY <1>4, <1>5

LEMMA RenamesFollow ==
    ASSUME Conversations, MintedOnce, scenario \in Scenarios,
           NEW v, NEW w, NEW s \in States(v, w), NEW q \in Seq(Events), q # <<>>,
           Sound(s, q), Ordered(q), Story(q), Following(s.call, s.at, q),
           NEW ev, ev = Head(q), ev.kind # "create", NEW t, Renames(s, t, q, ev)
    PROVE  /\ Following(t.call, t.at, q)
           /\ \A f : IsMinter(f) => (s.at[f] \in Ids => t.at[f] = s.at[f])
<1> DEFINE u == CallFor(s, ev.id)
<1>1. /\ ev \in Events /\ IsTrue(ev) /\ ev.chan \in Legs /\ ev.chan \in Channels
      /\ ~Says(q, "create", ev.chan) /\ chan[ev.chan] # "none"
  BY HeadOf, PlanFacts DEF IsCurrent
<1>2. ev.id # NoOne /\ ev.id \in Ids /\ ev.id = Leg(ev.chan).id BY <1>1 DEF Events, Renames, IsTrue
<1>3. u \in States(v, w) BY <1>2, CreateCallType DEF CallIds, CallFor
<1>4. Registered(u.call, u.at) BY <1>2, CreateKeeps DEF Sound
<1>5. /\ Standing(u.call, u.at, q) /\ u.at = s.at
      /\ \A j \in CallIds : j # ev.id => u.call[j] = s.call[j]
      /\ s.call[ev.id].known => u = s
  BY <1>2, CallForStands DEF Following
<1>6. TakesOver(u, t, q, ev.id, s.at[ev.chan]) BY DEF Renames
<1> HIDE DEF u
<1>7. Standing(t.call, t.at, q) /\ \A f : IsMinter(f) => (s.at[f] \in Ids => t.at[f] = s.at[f])
  <2>1. Standing(t.call, t.at, q) /\ \A f : IsMinter(f) => (u.at[f] \in Ids => t.at[f] = u.at[f])
    <3>1. Standing(u.call, u.at, q) BY <1>5
    <3> QED BY <1>3, <1>4, <1>6, <3>1, TakesOverFollows, SMTT(30)
  <2> QED BY <1>5, <2>1
<1>8. ASSUME NEW f, IsMinter(f), t.call[Leg(f).id].known
      PROVE  t.at[f] = Leg(f).id \/ IsOver(q, f)
  <2>0. Leg(f).id \in Ids /\ Leg(f).id \in CallIds /\ f \in Channels BY <1>8, MinterFacts
  <2>1. u.call[Leg(f).id].known BY <1>6, <1>8, <2>0 DEF TakesOver
  <2>2. CASE s.call[Leg(f).id].known
    <3>1. s.at[f] = Leg(f).id \/ IsOver(q, f) BY <1>8, <2>2 DEF Following, Minted
    <3> QED BY <1>7, <1>8, <2>0, <3>1
  <2>3. CASE ~s.call[Leg(f).id].known
    <3>1. Leg(f).id = ev.id BY <1>5, <2>0, <2>1, <2>3
    <3>2. f = RootOf(ev.chan) BY <1>1, <1>2, <1>8, <3>1, MinterOf, NameFacts
    <3>3. CASE ev.chan = f BY <1>5, <1>6, <2>0, <3>1, <3>3 DEF TakesOver
    <3>4. CASE ev.chan # f
      <4>1. Leg(ev.chan).from = f BY <3>2, <3>4 DEF RootOf
      <4>2. HasName(s.at, q, f) BY <1>1, <1>8, <4>1 DEF Following, Standing, Named
      <4>3. ASSUME s.at[f] \in Ids PROVE t.at[f] = Leg(f).id
        <5>1. s.at[f] # NoOne BY <4>3, CallsAssumption
        <5>2. IsKin(f, s.at[f]) BY <2>0, <5>1, BoundCalls DEF Sound
        <5> QED BY <1>7, <1>8, <4>3, <5>2, MinterFacts
      <4> QED BY <4>2, <4>3 DEF HasName
    <3> QED BY <3>3, <3>4
  <2> QED BY <2>2, <2>3
<1>9. Minted(t.call, t.at, q) BY <1>8 DEF Minted
<1> QED BY <1>7, <1>9 DEF Following

-----------------------------------------------------------------------------
(***************************************************************************)
(* The head of the stream is handled.                                      *)
(***************************************************************************)
LEMMA NamedTail ==
    ASSUME NEW q \in Seq(Events), q # <<>>, NEW ev, ev = Head(q), NEW f
    PROVE  /\ IsNamedBefore(q, Len(q) + 1, f) =>
                  IsNaming(ev, f) \/ IsNamedBefore(Tail(q), Len(Tail(q)) + 1, f)
           /\ \A i \in 1..Len(Tail(q)) : IsNamedBefore(q, i + 1, f) =>
                  IsNaming(ev, f) \/ IsNamedBefore(Tail(q), i, f)
<1> DEFINE r == Tail(q)
<1>1. /\ ev = q[1] /\ Len(r) \in Nat /\ Len(q) = Len(r) + 1
      /\ \A j \in 1..Len(q) : j # 1 => j - 1 \in 1..Len(r) /\ r[j - 1] = q[j]
  BY TailIs
<1> HIDE DEF r
<1>2. ASSUME NEW i \in Nat, IsNamedBefore(q, i + 1, f) PROVE IsNaming(ev, f) \/ IsNamedBefore(r, i, f)
  <2>1. PICK j \in 1..Len(q) : j < i + 1 /\ IsNaming(q[j], f) BY <1>2 DEF IsNamedBefore
  <2>2. CASE j = 1 BY <1>1, <2>1, <2>2
  <2>3. CASE j # 1
    <3>1. j - 1 \in 1..Len(r) /\ r[j - 1] = q[j] /\ j - 1 < i BY <1>1, <2>1, <2>3
    <3> QED BY <2>1, <3>1 DEF IsNamedBefore
  <2> QED BY <2>2, <2>3
<1>3. \A i \in 1..Len(r) : i \in Nat BY <1>1
<1>4. Len(q) \in Nat /\ Len(r) + 1 \in Nat BY <1>1
<1>5. IsNamedBefore(q, Len(q) + 1, f) => IsNaming(ev, f) \/ IsNamedBefore(r, Len(r) + 1, f)
  BY <1>1, <1>2, <1>4
<1> QED BY <1>2, <1>3, <1>5 DEF r

\* What is named stays named when the head has been handled.
LEMMA NamesHandled ==
    ASSUME Conversations, scenario \in Scenarios, NEW q \in Seq(Events), q # <<>>,
           Ordered(q), Story(q), NEW ev, ev = Head(q), NEW b, Named(b, q), NEW d,
           \A f : IsMinter(f) => (b[f] \in Ids => d[f] \in Ids),
           \A f : IsMinter(f) /\ ev.chan = f /\ ev.id # NoOne => d[f] \in Ids
    PROVE  Named(d, Tail(q))
<1> DEFINE r == Tail(q)
<1>1. /\ \A c : Says(r, "create", c) <=> Says(q, "create", c) /\ ~(ev.kind = "create" /\ ev.chan = c)
      /\ \A c : IsOver(r, c) <=> IsOver(q, c) \/ IsEnd(ev, c)
  BY StoryTail
<1>2. \A f : IsMinter(f) /\ (HasName(b, q, f) \/ IsNaming(ev, f)) => HasName(d, r, f)
  BY <1>1 DEF HasName, IsNaming, IsEnd
<1>3. /\ ev = q[1] /\ 1 \in 1..Len(q)
      /\ \A i \in 1..Len(r) : r[i] = q[i + 1] /\ i + 1 \in 1..Len(q)
  BY TailIs
<1>4. \A f : IsNamedBefore(q, Len(q) + 1, f) => IsNaming(ev, f) \/ IsNamedBefore(r, Len(r) + 1, f)
  BY NamedTail
<1>5. \A f : \A i \in 1..Len(r) : IsNamedBefore(q, i + 1, f) => IsNaming(ev, f) \/ IsNamedBefore(r, i, f)
  BY NamedTail
<1> HIDE DEF r
<1>6. ASSUME NEW f, IsMinter(f), f \in queued \/ chan[f] = "answered"
      PROVE  HasName(d, r, f) \/ IsNamedBefore(r, Len(r) + 1, f)
  <2>1. HasName(b, q, f) \/ IsNamedBefore(q, Len(q) + 1, f) BY <1>6 DEF Named
  <2> QED BY <1>2, <1>4, <1>6, <2>1
<1>7. ASSUME NEW i \in 1..Len(r), r[i].kind = "create", NEW f, f = Leg(r[i].chan).from, IsMinter(f)
      PROVE  HasName(d, r, f) \/ IsNamedBefore(r, i, f)
  <2>1. HasName(b, q, f) \/ IsNamedBefore(q, i + 1, f) BY <1>3, <1>7 DEF Named
  <2> QED BY <1>2, <1>5, <1>7, <2>1
<1>8. ASSUME NEW c \in Legs, NEW f, f = Leg(c).from, chan[c] # "none", ~Says(r, "create", c), IsMinter(f)
      PROVE  HasName(d, r, f)
  <2>1. CASE Says(q, "create", c)
    <3>1. ev.kind = "create" /\ ev.chan = c BY <1>1, <1>8, <2>1
    <3>2. HasName(b, q, f) \/ IsNamedBefore(q, 1, f) BY <1>3, <1>8, <3>1 DEF Named
    <3>3. ~IsNamedBefore(q, 1, f) BY DEF IsNamedBefore
    <3> QED BY <1>2, <1>8, <3>2, <3>3
  <2>2. CASE ~Says(q, "create", c)
    <3>1. HasName(b, q, f) BY <1>8, <2>2 DEF Named
    <3> QED BY <1>2, <1>8, <3>1
  <2> QED BY <2>1, <2>2
<1>9. Named(d, r) BY <1>6, <1>7, <1>8 DEF Named
<1> QED BY <1>9 DEF r

\* What is tended once the head has been handled was tended before, unless it is
\* the leg the head creates.
LEMMA TendedBefore ==
    ASSUME Conversations, scenario \in Scenarios, NEW q \in Seq(Events), q # <<>>,
           Ordered(q), Story(q), NEW ev, ev = Head(q), NEW c \in Legs, IsTended(Tail(q), c)
    PROVE  /\ ~(ev.kind = "create" /\ ev.chan = c) => IsTended(q, c)
           /\ IsCurrent(q, c) /\ ~IsEnd(ev, c)
           /\ Leg(c).from = NoOne \/ Leg(Leg(c).from).id = NoOne \/ IsCurrent(q, Leg(c).from)
BY StoryTail DEF IsTended

\* A leg whose creation finds it tended is created into a call that runs, or is new.
LEMMA AdoptedRuns ==
    ASSUME Conversations, MintedOnce, scenario \in Scenarios,
           NEW v, NEW w, NEW s \in States(v, w), NEW q \in Seq(Events), q # <<>>,
           Sound(s, q), Ordered(q), Story(q), Following(s.call, s.at, q),
           NEW ev, ev = Head(q), ev.kind = "create", IsTended(Tail(q), ev.chan),
           NEW k, k = AdoptInto(s, ev), s.call[k].known
    PROVE  IsRunning(s.call, k)
<1> DEFINE c == ev.chan
           f == Leg(c).from
           p == ParentOf(c)
<1>1. /\ ev \in Events /\ IsTrue(ev) /\ c \in Legs /\ c \in Channels /\ IsCurrent(q, c)
      /\ f # NoOne => /\ ~Says(q, "create", f) /\ f \in Legs /\ f \in Channels
                      /\ Leg(f).from = NoOne
  BY HeadOf, PlanFacts
<1>2. IsNew(s.call, s.at, c)
  <2>1. Says(q, "create", c) BY SaysTail
  <2> QED BY <1>1, <2>1 DEF Sound, Accounted, Births
<1>3. f = NoOne \/ Leg(f).id = NoOne \/ IsCurrent(q, f) BY <1>1, TendedBefore
<1>4. CASE ev.id # NoOne
  <2>1. k = ev.id /\ ev.id = Leg(c).id BY <1>1, <1>4 DEF AdoptInto, IsTrue
  <2>2. IsMinter(RootOf(c)) /\ Leg(RootOf(c)).id = k BY <1>1, <1>4, <2>1, MinterOf
  <2>3. f # NoOne
    <3> SUFFICES ASSUME f = NoOne PROVE FALSE OBVIOUS
    <3>1. RootOf(c) = c BY DEF RootOf
    <3>2. s.at[c] = k \/ IsOver(q, c) BY <2>2, <3>1 DEF Following, Minted
    <3> QED BY <1>1, <1>2, <1>4, <2>1, <3>2 DEF IsNew, IsCurrent
  <2>4. RootOf(c) = f BY <2>3 DEF RootOf
  <2>5. HasName(s.at, q, f)
    <3>1. HasName(s.at, q, f) \/ IsNamedBefore(q, 1, f)
      BY <2>2, <2>4, TailIs DEF Following, Standing, Named
    <3> QED BY <3>1 DEF IsNamedBefore
  <2>6. IsCurrent(q, f) BY <1>3, <1>4, <2>1, <2>2, <2>3, <2>4
  <2> HIDE DEF f
  <2> QED BY <1>1, <2>2, <2>3, <2>4, <2>5, <2>6, NamedRuns
        DEF Following, Standing, Sound, Registered
<1>5. CASE ev.id = NoOne /\ p # NoOne /\ s.at[p] # NoOne
  <2>1. k = s.at[p] /\ p = f /\ f # NoOne BY <1>1, <1>5, PlanFacts DEF AdoptInto
  <2>2. IsCurrent(q, f)
    <3>1. CASE Leg(f).id = NoOne
      <4>1. RaisesAlive(q, 1) /\ q[1] = ev BY TailIs DEF Story
      <4> QED BY <2>1, <3>1, <4>1 DEF RaisesAlive
    <3>2. CASE Leg(f).id # NoOne BY <1>3, <2>1, <3>2
    <3> QED BY <3>1, <3>2
  <2>3. IsTended(q, f) BY <1>1, <2>1, <2>2 DEF IsTended
  <2> QED BY <1>1, <2>1, <2>3 DEF Following, Standing, Tended
<1>6. CASE ev.id = NoOne /\ ~(p # NoOne /\ s.at[p] # NoOne)
  <2>1. k = c BY <1>6 DEF AdoptInto
  <2> QED BY <1>2, <2>1 DEF IsNew
<1> QED BY <1>4, <1>5, <1>6

LEMMA AdoptFollows ==
    ASSUME Conversations, MintedOnce, scenario \in Scenarios,
           NEW v, NEW w, NEW s \in States(v, w), NEW q \in Seq(Events), q # <<>>,
           Sound(s, q), Ordered(q), Story(q), Following(s.call, s.at, q),
           NEW ev, ev = Head(q), ev.kind = "create", NEW late, NEW t, t = Adopt(s, ev, late)
    PROVE  Following(t.call, t.at, Tail(q))
<1> DEFINE c == ev.chan
           k == AdoptInto(s, ev)
           r == Tail(q)
<1>1. /\ IsTrue(ev) /\ ev \in Events /\ c \in Legs /\ c \in Channels /\ NoOne \notin CallIds
      /\ IsCurrent(q, c)
  BY HeadOf, PlanFacts, CallsAssumption DEF CallIds
<1>2. s.at[c] = NoOne /\ ~s.call[c].known /\ \A j \in CallIds : c \notin DOMAIN s.call[j].party
  <2>1. Says(q, "create", c) BY SaysTail
  <2> QED BY <1>1, <2>1 DEF Sound, Accounted, Births, IsNew, Has
<1>3. k \in CallIds /\ IsKin(c, k) /\ (~s.call[k].known => (k \in Ids <=> ev.id # NoOne))
  BY <1>1, AdoptsInto
<1>a. ev.id # NoOne => k = ev.id BY DEF AdoptInto
<1>b. IsTended(r, c) /\ s.call[k].known => IsRunning(s.call, k) BY AdoptedRuns
<1>c. /\ \A kind, d : Says(r, kind, d) => Says(q, kind, d)
      /\ \A d : IsOver(q, d) => IsOver(r, d)
  BY SaysTail, StoryTail
<1>d. \A d \in Legs : IsTended(r, d) /\ d # c => IsTended(q, d) BY TendedBefore
<1> HIDE DEF c, k
<1>4. /\ t.at = [s.at EXCEPT ![c] = k]
      /\ \A j \in CallIds : j # k => t.call[j] = s.call[j]
      /\ ~s.call[k].known => /\ IsRunning(t.call, k)
                             /\ Len(t.call[k].mailbox) = 0
                             /\ DOMAIN t.call[k].party = {c}
                             /\ t.call[k].party[c].state # "RELEASED"
      /\ s.call[k].known => IF Runs(s, k, late) THEN Adds(t.call[k], s.call[k], c)
                            ELSE t.call[k] = s.call[k]
  BY <1>1, <1>2, <1>3, AdoptEffect DEF c, k
<1>5. \A d \in Channels : t.at[d] = IF d = c THEN k ELSE s.at[d] BY <1>4 DEF States
<1>6. \A d \in Channels : s.at[d] # NoOne => s.at[d] \in CallIds /\ s.call[s.at[d]].known
  BY DEF States, Sound, Registered, Bindings
<1>7. ASSUME NEW j \in CallIds
      PROVE  /\ t.call[j].known <=> s.call[j].known \/ j = k
             /\ IsRunning(s.call, j) => IsRunning(t.call, j)
             /\ s.call[j].known => t.call[j].mailbox = s.call[j].mailbox
  <2>1. CASE j # k BY <1>4, <2>1 DEF IsRunning
  <2>2. CASE j = k BY <1>4, <2>2 DEF IsRunning, Adds
  <2> QED BY <2>1, <2>2
<1>8. EndsOnce(t.call, r)
  <2> SUFFICES ASSUME NEW j \in CallIds, NEW d \in Channels
               PROVE  /\ t.call[j].known /\ Says(t.call[j].mailbox, "hangup", d) => ~Says(r, "hangup", d)
                      /\ Has(t.call, j, d) /\ t.call[j].party[d].state = "RELEASED" => ~Says(r, "hangup", d)
    BY DEF EndsOnce
  <2>0. /\ s.call[j].known /\ Says(s.call[j].mailbox, "hangup", d) => ~Says(r, "hangup", d)
        /\ d \in DOMAIN s.call[j].party /\ s.call[j].party[d].state = "RELEASED" => ~Says(r, "hangup", d)
    BY <1>c DEF Following, Standing, EndsOnce, Has
  <2>1. CASE j # k BY <1>4, <2>0, <2>1 DEF Has
  <2>2. CASE j = k /\ ~s.call[k].known
    <3>1. ~Says(t.call[j].mailbox, "hangup", d) BY <1>4, <2>2 DEF Says
    <3> QED BY <1>4, <2>2, <3>1 DEF Has
  <2>3. CASE j = k /\ s.call[k].known
    <3>1. t.call[j].mailbox = s.call[j].mailbox BY <1>7, <2>3
    <3>2. Has(t.call, j, d) /\ t.call[j].party[d].state = "RELEASED" =>
              d \in DOMAIN s.call[j].party /\ s.call[j].party[d].state = "RELEASED"
      <4>1. CASE Runs(s, k, late)
        <5>1. Adds(t.call[j], s.call[j], c) BY <1>4, <2>3, <4>1
        <5> QED BY <5>1 DEF Adds, Has
      <4>2. CASE ~Runs(s, k, late)
        <5>1. t.call[j] = s.call[j] BY <1>4, <2>3, <4>2
        <5> QED BY <5>1 DEF Has
      <4> QED BY <4>1, <4>2
    <3> QED BY <2>0, <2>3, <3>1, <3>2
  <2> QED BY <2>1, <2>2, <2>3
<1>9. Tended(t.call, t.at, r)
  <2> SUFFICES ASSUME NEW d \in Legs, IsTended(r, d) PROVE t.at[d] # NoOne /\ IsRunning(t.call, t.at[d])
    BY DEF Tended
  <2>0. d \in Channels BY DEF Legs
  <2>1. CASE d = c
    <3>1. s.call[k].known => IsRunning(s.call, k) BY <1>b, <2>1
    <3>2. IsRunning(t.call, k) BY <1>3, <1>4, <1>7, <3>1
    <3> QED BY <1>1, <1>3, <1>5, <2>0, <2>1, <3>2
  <2>2. CASE d # c
    <3>1. s.at[d] # NoOne /\ IsRunning(s.call, s.at[d]) BY <1>d, <2>2 DEF Following, Standing, Tended
    <3> QED BY <1>5, <1>6, <1>7, <2>0, <2>2, <3>1
  <2> QED BY <2>1, <2>2
<1>10. Named(t.at, r)
  <2>1. \A f : IsMinter(f) => (s.at[f] \in Ids => t.at[f] \in Ids)
    <3>1. NoOne \notin Ids BY CallsAssumption
    <3> QED BY <1>2, <1>5, <3>1, MinterFacts
  <2>2. \A f : IsMinter(f) /\ ev.chan = f /\ ev.id # NoOne => t.at[f] \in Ids
    BY <1>1, <1>5, <1>a DEF c, Events
  <2>3. Named(s.at, q) BY DEF Following, Standing
  <2> QED BY <2>1, <2>2, <2>3, NamesHandled
<1>11. Minted(t.call, t.at, r)
  <2> SUFFICES ASSUME NEW f, IsMinter(f), t.call[Leg(f).id].known
               PROVE  t.at[f] = Leg(f).id \/ IsOver(r, f)
    BY DEF Minted
  <2>0. Leg(f).id \in Ids /\ Leg(f).id \in CallIds /\ f \in Channels BY MinterFacts
  <2>1. CASE s.call[Leg(f).id].known
    <3>1. s.at[f] = Leg(f).id \/ IsOver(q, f) BY <2>1 DEF Following, Minted
    <3>2. f = c => IsOver(q, f) BY <1>1, <1>2, <2>0, <3>1
    <3> QED BY <1>5, <1>c, <2>0, <3>1, <3>2
  <2>2. CASE ~s.call[Leg(f).id].known
    <3>1. Leg(f).id = k /\ ~s.call[k].known /\ ev.id # NoOne BY <1>3, <1>7, <2>0, <2>2
    <3>2. ev.id = Leg(c).id /\ k = ev.id BY <1>1, <1>a, <3>1 DEF IsTrue, c
    <3>3. f = RootOf(c) BY <1>1, <3>1, <3>2, MinterOf, NameFacts
    <3>4. CASE f = c BY <1>5, <2>0, <3>1, <3>4
    <3>5. CASE f # c
      <4>1. f = Leg(c).from BY <3>3, <3>5 DEF RootOf
      <4>2. HasName(s.at, q, f) \/ IsNamedBefore(q, 1, f)
        BY <4>1, TailIs, SMTT(30) DEF Following, Standing, Named, c
      <4>3. ~IsNamedBefore(q, 1, f) BY DEF IsNamedBefore
      <4>4. s.at[f] \notin Ids
        <5> SUFFICES ASSUME s.at[f] \in Ids PROVE FALSE OBVIOUS
        <5>1. s.at[f] # NoOne BY CallsAssumption
        <5>2. IsKin(f, s.at[f]) /\ s.call[s.at[f]].known BY <2>0, <5>1, BoundCalls DEF Sound
        <5> QED BY <2>2, <5>2, MinterFacts
      <4> QED BY <1>c, <4>2, <4>3, <4>4 DEF HasName
    <3> QED BY <3>4, <3>5
  <2> QED BY <2>1, <2>2
<1> QED BY <1>8, <1>9, <1>10, <1>11 DEF Following, Standing, r

LEMMA TailFollows ==
    ASSUME Conversations, scenario \in Scenarios, NEW q \in Seq(Events), q # <<>>,
           Ordered(q), Story(q), NEW ev, ev = Head(q), ev.kind # "create", NEW cl, NEW b,
           Following(cl, b, q), \A f : IsMinter(f) /\ ev.chan = f /\ ev.id # NoOne => b[f] \in Ids
    PROVE  Following(cl, b, Tail(q))
<1>1. /\ \A kind, c : Says(Tail(q), kind, c) => Says(q, kind, c)
      /\ \A c : IsOver(q, c) => IsOver(Tail(q), c)
  BY SaysTail, StoryTail
<1>2. EndsOnce(cl, Tail(q)) BY <1>1 DEF Following, Standing, EndsOnce
<1>3. Tended(cl, b, Tail(q)) BY TendedBefore DEF Following, Standing, Tended
<1>4. Minted(cl, b, Tail(q)) BY <1>1 DEF Following, Minted
<1>5. Named(b, Tail(q))
  <2>1. Named(b, q) BY DEF Following, Standing
  <2> QED BY <2>1, NamesHandled
<1> QED BY <1>2, <1>3, <1>4, <1>5 DEF Following, Standing

LEMMA DispatchFollows ==
    ASSUME NEW v, NEW w, NEW s \in States(v, w), NEW ev \in Events, NEW r,
           Following(s.call, s.at, r), ev.kind = "hangup" => ~Says(r, "hangup", ev.chan),
           NEW t, t = Dispatch(s, ev), scenario \in Scenarios, Conversations
    PROVE  Following(t.call, t.at, r)
<1>1. /\ t.at = s.at
      /\ \A j \in CallIds : /\ t.call[j].known = s.call[j].known
                            /\ t.call[j].stopped = s.call[j].stopped
                            /\ t.call[j].party = s.call[j].party
                            /\ t.call[j].mailbox =
                                  IF j = s.at[ev.chan] /\ ~s.call[j].stopped
                                  THEN Append(s.call[j].mailbox, ev) ELSE s.call[j].mailbox
  BY DispatchEffect
<1>2. \A j \in CallIds : s.call[j].mailbox \in Seq(Events) BY DEF States, CallRecords
<1>3. EndsOnce(t.call, r)
  <2> SUFFICES ASSUME NEW j \in CallIds, NEW c \in Channels
               PROVE  /\ t.call[j].known /\ Says(t.call[j].mailbox, "hangup", c) => ~Says(r, "hangup", c)
                      /\ Has(t.call, j, c) /\ t.call[j].party[c].state = "RELEASED" => ~Says(r, "hangup", c)
    BY DEF EndsOnce
  <2>1. /\ s.call[j].known /\ Says(s.call[j].mailbox, "hangup", c) => ~Says(r, "hangup", c)
        /\ Has(s.call, j, c) /\ s.call[j].party[c].state = "RELEASED" => ~Says(r, "hangup", c)
    BY DEF Following, Standing, EndsOnce
  <2>2. Says(t.call[j].mailbox, "hangup", c) =>
            Says(s.call[j].mailbox, "hangup", c) \/ (ev.kind = "hangup" /\ ev.chan = c)
    BY <1>1, <1>2, SaysAppend
  <2> QED BY <1>1, <2>1, <2>2 DEF Has
<1>4. Tended(t.call, t.at, r)
  <2>1. \A c \in Legs : s.at[c] # NoOne => s.at[c] \in CallIds BY DEF States, Legs
  <2> QED BY <1>1, <2>1 DEF Following, Standing, Tended, IsRunning
<1>5. Minted(t.call, t.at, r) BY <1>1, MinterFacts DEF Following, Minted
<1> QED BY <1>1, <1>3, <1>4, <1>5 DEF Following, Standing

\* The registry as the event's handler first changes it, and once the call has
\* the name the event gives it.
First(ev, late) == CASE ev.kind = "create" -> Adopt(State, ev, late)
                     [] ev.kind = "bridge" -> Join(State, ev, late)
                     [] OTHER -> State
Found(ev, late) == Reidentify(First(ev, late), ev, late)

\* The legs of a call move to another, or none does.
MayTakeOver(s, t, q, ev) ==
    \/ t = s
    \/ \E keep, absorb \in {s.at[ev.chan], s.at[ev.other]} : TakesOver(s, t, q, keep, absorb)

LEMMA FirstIs ==
    ASSUME Conversations, MintedOnce, scenario \in Scenarios, State \in States(waiting, afterWork),
           NEW q \in Seq(Events), q # <<>>, Ordered(q), Story(q), Sound(State, q),
           Following(call, at, q), NEW ev, ev = Head(q), NEW late, ev.kind # "create",
           \A k \in Awaited(ev) : call[k].stopped \/ call[k].mailbox = <<>>,
           NEW m, m = First(ev, late)
    PROVE  /\ m \in States(waiting, afterWork) /\ Sound(m, q) /\ Following(m.call, m.at, q)
           /\ MayTakeOver(State, m, q, ev)
           /\ ev.kind = "bridge" => m.at[ev.chan] = m.at[ev.other]
           /\ ev.id # NoOne /\ m.at[ev.chan] # ev.id => IsWaited(m, m.at[ev.chan])
<1>1. ev \in Events /\ IsTrue(ev) BY HeadOf
<1>2. State.call = call /\ State.at = at BY DEF State
<1>3. CASE ev.kind = "bridge"
  <2>1. m = Join(State, ev, late) BY <1>3 DEF First
  <2>2. ev.other \in Channels BY <1>1, <1>3, PlanFacts DEF IsTrue
  <2>3. m \in States(waiting, afterWork) BY <1>1, <2>1, <2>2, JoinType
  <2>4. IsWaited(State, State.at[ev.chan]) /\ IsWaited(State, State.at[ev.other])
    <3>1. {at[ev.chan], at[ev.other]} \ {NoOne} \subseteq Awaited(ev) BY <1>3 DEF Awaited
    <3> QED BY <1>2, <3>1 DEF IsWaited
  <2>5. Sound(m, q) /\ IsWaited(m, m.at[ev.chan]) BY <1>1, <1>3, <2>1, <2>4, JoinKeeps
  <2>6. m.at[ev.chan] = m.at[ev.other] /\ MayTakeOver(State, m, q, ev)
    <3>1. Registered(State.call, State.at) /\ Following(State.call, State.at, q) BY <1>2 DEF Sound
    <3> QED BY <1>3, <2>1, <2>4, <3>1, JoinIs DEF MayTakeOver
  <2>7. Following(m.call, m.at, q)
    <3>1. CASE m = State BY <1>2, <3>1
    <3>2. ASSUME NEW keep, NEW absorb, TakesOver(State, m, q, keep, absorb)
          PROVE  Following(m.call, m.at, q)
      <4>1. Registered(State.call, State.at) /\ Standing(State.call, State.at, q)
            /\ Minted(State.call, State.at, q)
        BY <1>2 DEF Sound, Following
      <4> QED BY <3>2, <4>1, TakesOverFollows DEF Following
    <3> QED BY <2>6, <3>1, <3>2 DEF MayTakeOver
  <2> QED BY <2>3, <2>5, <2>6, <2>7
<1>4. CASE ev.kind # "bridge"
  <2>1. m = State BY <1>4 DEF First
  <2>2. ev.id # NoOne /\ at[ev.chan] # ev.id => IsWaited(State, at[ev.chan])
    <3> SUFFICES ASSUME ev.id # NoOne, at[ev.chan] # ev.id, at[ev.chan] # NoOne
                 PROVE  at[ev.chan] \in Awaited(ev)
      BY <1>2 DEF IsWaited
    <3> QED BY DEF Awaited
  <2> QED BY <1>2, <1>4, <2>1, <2>2 DEF MayTakeOver
<1> QED BY <1>3, <1>4

LEMMA FoundIs ==
    ASSUME Conversations, MintedOnce, scenario \in Scenarios, State \in States(waiting, afterWork),
           NEW q \in Seq(Events), q # <<>>, Ordered(q), Story(q), Sound(State, q),
           Following(call, at, q), NEW ev, ev = Head(q), NEW late,
           \A k \in Awaited(ev) : call[k].stopped \/ call[k].mailbox = <<>>,
           NEW m, m = First(ev, late), NEW t, t = Found(ev, late)
    PROVE  /\ t \in States(waiting, afterWork) /\ Registered(t.call, t.at)
           /\ Following(t.call, t.at, Tail(q))
           /\ ev.kind = "create" => t = m
           /\ ev.kind # "create" => (Renames(m, t, q, ev) \/ t = m) /\ Following(t.call, t.at, q)
<1>1. ev \in Events /\ IsTrue(ev) /\ ev.chan \in Legs /\ ev.chan \in Channels BY HeadOf, PlanFacts
<1>2. State.call = call /\ State.at = at BY DEF State
<1>3. CASE ev.kind = "create"
  <2>1. m = Adopt(State, ev, late) BY <1>3 DEF First
  <2>2. m \in States(waiting, afterWork) BY <1>1, <2>1, AdoptType
  <2>3. Registered(m.call, m.at) BY <1>1, <1>3, <2>1, AdoptRegistered
  <2>4. Following(m.call, m.at, Tail(q)) BY <1>2, <1>3, <2>1, AdoptFollows
  <2>5. t = m
    <3>1. State.at[ev.chan] = NoOne /\ \A j \in CallIds : ev.chan \notin DOMAIN State.call[j].party
      <4>1. Says(q, "create", ev.chan) BY <1>3, SaysTail
      <4> QED BY <1>1, <4>1 DEF Sound, Accounted, Births, IsNew, Has
    <3>2. AdoptInto(State, ev) \in CallIds BY <1>1, <1>3, AdoptsInto
    <3>3. m.at = [State.at EXCEPT ![ev.chan] = AdoptInto(State, ev)]
      BY <1>1, <2>1, <3>1, <3>2, AdoptEffect
    <3>4. m.at[ev.chan] = AdoptInto(State, ev) BY <1>1, <3>3 DEF States
    <3>5. ev.id # NoOne => m.at[ev.chan] = ev.id BY <3>4 DEF AdoptInto
    <3> QED BY <3>5 DEF Found, Reidentify
  <2> QED BY <1>3, <2>2, <2>3, <2>4, <2>5
<1>4. CASE ev.kind # "create"
  <2>1. /\ m \in States(waiting, afterWork) /\ Sound(m, q) /\ Following(m.call, m.at, q)
        /\ ev.id # NoOne /\ m.at[ev.chan] # ev.id => IsWaited(m, m.at[ev.chan])
    BY <1>4, FirstIs
  <2>2. t = Reidentify(m, ev, late) BY DEF Found
  <2>3. t \in States(waiting, afterWork) BY <1>1, <2>1, <2>2, ReidentifyType
  <2>4. Registered(t.call, t.at)
    <3>1. CASE ev.id = NoOne \/ m.at[ev.chan] = ev.id
      <4>1. t = m BY <2>2, <3>1 DEF Reidentify
      <4> QED BY <2>1, <4>1 DEF Sound
    <3>2. CASE ~(ev.id = NoOne \/ m.at[ev.chan] = ev.id)
      BY <1>1, <2>1, <2>2, <3>2, ReidentifyKeeps DEF Sound
    <3> QED BY <3>1, <3>2
  <2>5. /\ Renames(m, t, q, ev) \/ t = m
        /\ \A f : IsMinter(f) /\ ev.chan = f /\ ev.id # NoOne => t.at[f] \in Ids
    BY <1>4, <2>1, <2>2, ReidentifyIs
  <2>6. Following(t.call, t.at, q)
    <3>1. CASE t = m BY <2>1, <3>1
    <3>2. CASE Renames(m, t, q, ev) BY <1>4, <2>1, <3>2, RenamesFollow
    <3> QED BY <2>5, <3>1, <3>2
  <2>7. Following(t.call, t.at, Tail(q)) BY <1>4, <2>5, <2>6, TailFollows
  <2> QED BY <1>4, <2>3, <2>4, <2>5, <2>6, <2>7
<1> QED BY <1>3, <1>4

\* The event is posted to the call its channel is bound to, if that one runs.
Posts(t, n, ev) ==
    /\ t.at = n.at
    /\ \A j \in CallIds : /\ t.call[j].known = n.call[j].known
                          /\ t.call[j].stopped = n.call[j].stopped
                          /\ t.call[j].ended = n.call[j].ended
                          /\ t.call[j].party = n.call[j].party
                          /\ t.call[j].mailbox =
                                IF j = n.at[ev.chan] /\ ~n.call[j].stopped
                                THEN Append(n.call[j].mailbox, ev) ELSE n.call[j].mailbox

PhoneAfter(t, n, ev, late) ==
    t.onCall = IF AgentLegEnded(n, ev, late)
               THEN [n.onCall EXCEPT ![AgentOf(ev.chan)] = FALSE] ELSE n.onCall
WorkAfter(t, n, ev, late) ==
    t.afterWork = IF /\ AgentLegEnded(n, ev, late)
                     /\ n.call[n.at[ev.chan]].party[ev.chan].answered
                  THEN n.afterWork \cup {[agent |-> AgentOf(ev.chan), call |-> n.at[ev.chan]]}
                  ELSE n.afterWork

\* What the handler leaves: the event posted to the call it found, and an agent
\* off the phone if it ended that agent's leg.
LEMMA ResultIs ==
    ASSUME NEW ev \in Events, NEW late, NEW n, n = Found(ev, late),
           n \in States(waiting, afterWork), NEW t, t = HandleResult(ev, late)
    PROVE  /\ Posts(t, n, ev)
           /\ PhoneAfter(t, n, ev, late) /\ WorkAfter(t, n, ev, late)
<1> DEFINE told == TrackQueue(n, ev)
           d == Dispatch(told, ev)
           over == LegIsOver(d, told, ev)
           k == n.at[ev.chan]
<1>1. /\ told.call = n.call /\ told.at = n.at /\ told.onCall = n.onCall
      /\ told.afterWork = n.afterWork
  BY DEF TrackQueue, States
<1>2. told \in States(LineAfter(ev, waiting), afterWork) BY TrackQueueType
<1>3. t = IF AgentLegEnded(told, ev, late) THEN over ELSE d
  BY DEF HandleResult, Found, First
<1> HIDE DEF told
<1>4. d \in States(LineAfter(ev, waiting), afterWork) BY <1>2, DispatchType
<1>5. Posts(d, n, ev)
  <2>1. Posts(d, told, ev) BY <1>2, DispatchEffect DEF Posts
  <2> QED BY <1>1, <2>1 DEF Posts
<1>6. d.onCall = told.onCall /\ d.afterWork = told.afterWork BY <1>2 DEF Dispatch, States
<1>7. AgentLegEnded(told, ev, late) <=> AgentLegEnded(n, ev, late)
  BY <1>1 DEF AgentLegEnded, Runs
<1> HIDE DEF d, over
<1>8. CASE ~AgentLegEnded(n, ev, late) BY <1>1, <1>3, <1>5, <1>6, <1>7, <1>8 DEF PhoneAfter, WorkAfter
<1>9. CASE AgentLegEnded(n, ev, late)
  <2> DEFINE a == AgentOf(ev.chan)
             off == [d EXCEPT !.onCall[a] = FALSE]
             work == d.afterWork \cup {[agent |-> a, call |-> k]}
  <2>1. a # NoOne BY <1>9 DEF AgentLegEnded
  <2>2. SetOnCall(d, a, FALSE) = off BY <2>1 DEF SetOnCall
  <2>3. /\ off.call = d.call /\ off.at = d.at /\ off.afterWork = d.afterWork
        /\ off.onCall = [d.onCall EXCEPT ![a] = FALSE]
        /\ DOMAIN off = DOMAIN d
    BY <1>4 DEF States
  <2>4. t = IF n.call[k].party[ev.chan].answered
            THEN [off EXCEPT !.afterWork = @ \cup {[agent |-> a, call |-> k]}] ELSE off
    BY <1>1, <1>3, <1>7, <1>9, <2>2 DEF LegIsOver, over
  <2> HIDE DEF off, a
  <2>5. CASE n.call[k].party[ev.chan].answered
    <3>1. t = [off EXCEPT !.afterWork = work] BY <2>3, <2>4, <2>5
    <3>2. "afterWork" \in DOMAIN off BY <1>4, <2>3 DEF States
    <3> HIDE DEF work
    <3>3. t.call = off.call /\ t.at = off.at /\ t.onCall = off.onCall /\ t.afterWork = work
      BY <1>4, <2>3, <3>1 DEF States
    <3> QED BY <1>1, <1>5, <1>6, <1>9, <2>3, <2>5, <3>3 DEF a, work, Posts, PhoneAfter, WorkAfter
  <2>6. CASE ~n.call[k].party[ev.chan].answered
    <3>1. t = off BY <2>4, <2>6
    <3> QED BY <1>1, <1>5, <1>6, <1>9, <2>3, <2>6, <3>1 DEF a, Posts, PhoneAfter, WorkAfter
  <2> QED BY <2>5, <2>6
<1> QED BY <1>8, <1>9

LEMMA HandleFollows ==
    ASSUME Conversations, MintedOnce, scenario \in Scenarios, State \in States(waiting, afterWork),
           NEW q \in Seq(Events), q # <<>>, Ordered(q), Story(q), Sound(State, q),
           Following(call, at, q), NEW ev, ev = Head(q), NEW late,
           \A k \in Awaited(ev) : call[k].stopped \/ call[k].mailbox = <<>>,
           NEW t, t = HandleResult(ev, late)
    PROVE  Following(t.call, t.at, Tail(q))
<1> DEFINE n == Found(ev, late)
           r == Tail(q)
           d == Dispatch(n, ev)
<1>1. n \in States(waiting, afterWork) /\ Following(n.call, n.at, r)
  BY FoundIs
<1>2. ev \in Events /\ (ev.kind = "hangup" => ~Says(r, "hangup", ev.chan)) BY HeadOf, StoryTail
<1>0. n = Found(ev, late) OBVIOUS
<1> HIDE DEF n, r
<1>3. Following(d.call, d.at, r) BY <1>1, <1>2, DispatchFollows
<1>4. Posts(t, n, ev) BY <1>0, <1>1, <1>2, ResultIs
<1>5. Posts(d, n, ev) BY <1>1, <1>2, DispatchEffect DEF Posts
<1> HIDE DEF d
<1>6. t.at = d.at /\ \A j \in CallIds : /\ t.call[j].known = d.call[j].known
                                        /\ t.call[j].stopped = d.call[j].stopped
                                        /\ t.call[j].party = d.call[j].party
                                        /\ t.call[j].mailbox = d.call[j].mailbox
  BY <1>4, <1>5 DEF Posts
<1>7. EndsOnce(t.call, r) BY <1>3, <1>6 DEF Following, Standing, EndsOnce, Has
<1>8. Tended(t.call, t.at, r)
  <2>1. \A c \in Legs : n.at[c] # NoOne => n.at[c] \in CallIds BY <1>1 DEF States, Legs
  <2> QED BY <1>3, <1>5, <1>6, <2>1 DEF Posts, Following, Standing, Tended, IsRunning
<1>9. Minted(t.call, t.at, r) BY <1>3, <1>6, MinterFacts DEF Following, Minted
<1> QED BY <1>3, <1>6, <1>7, <1>8, <1>9 DEF Following, Standing, r

-----------------------------------------------------------------------------
(***************************************************************************)
(* The invariant while nothing has been missed.                            *)
(***************************************************************************)
Unbroken == spent.drops = 0 /\ spent.crashes = 0

FollowInv ==
    Unbroken => /\ link = "up" /\ spent.missed = {}
                /\ Raised /\ Story(feed) /\ Following(call, at, feed)

\* Nothing was missed in the step.
SameFaults == /\ spent'.drops = spent.drops /\ spent'.crashes = spent.crashes
              /\ spent'.missed = spent.missed

LEMMA SameStory ==
    ASSUME scenario' = scenario, chan' = chan, queued' = queued
    PROVE  /\ Raised => Raised'
           /\ Story(feed') => Story(feed)'
           /\ Following(call', at', feed') => Following(call, at, feed)'
           /\ \A c : IsTended(feed, c)' <=> IsTended(feed', c)
           /\ \A c : IsCurrent(feed, c)' <=> IsCurrent(feed', c)
<1>1. Legs' = Legs /\ \A c : Leg(c)' = Leg(c) BY SamePlan
<1>2. \A kind, c : Says(feed, kind, c)' <=> Says(feed', kind, c) BY DEF Says
<1>3. \A c : /\ IsOver(feed, c)' <=> IsOver(feed', c)
             /\ IsCurrent(feed, c)' <=> IsCurrent(feed', c)
  BY <1>2 DEF IsOver, IsCurrent
<1>4. \A c : IsTended(feed, c)' <=> IsTended(feed', c) BY <1>1, <1>2, <1>3 DEF IsTended
<1>5. \A f : IsMinter(f)' <=> IsMinter(f) BY <1>1 DEF IsMinter
<1>6. Raised => Raised' BY <1>1 DEF Raised
<1>7. Story(feed') => Story(feed)'
  <2> SUFFICES ASSUME Story(feed') PROVE Story(feed)' OBVIOUS
  <2>1. \A i \in 1..Len(feed') : RaisesAlive(feed, i)'
    BY <1>1, <1>3 DEF Story, RaisesAlive, IsEnd
  <2>2. \A i \in 1..Len(feed') : feed'[i].kind = "bridge" => chan'[feed'[i].other] # "none"
    BY DEF Story
  <2>3. \A i, j \in 1..Len(feed') : i < j => Follows(feed[i], feed[j])'
    BY <1>1 DEF Story, Follows, Mentions
  <2>4. \A c \in Channels : IsOver(feed, c)' => \A i \in 1..Len(feed') : ~Mentions(feed[i], c)'
    BY <1>3 DEF Story, Mentions
  <2> QED BY <2>1, <2>2, <2>3, <2>4 DEF Story
<1>8. Following(call', at', feed') => Following(call, at, feed)'
  <2> SUFFICES ASSUME Following(call', at', feed') PROVE Following(call, at, feed)' OBVIOUS
  <2>1. EndsOnce(call, feed)' BY DEF Following, Standing, EndsOnce, Says, Has
  <2>2. Tended(call, at, feed)' BY <1>1, <1>4 DEF Following, Standing, Tended, IsRunning
  <2>3. Minted(call, at, feed)' BY <1>1, <1>3, <1>5 DEF Following, Minted
  <2>4. Named(at, feed)'
    <3>1. \A f : HasName(at, feed, f)' <=> HasName(at', feed', f) BY <1>3 DEF HasName
    <3>2. \A i, f : IsNamedBefore(feed, i, f)' <=> IsNamedBefore(feed', i, f)
      BY DEF IsNamedBefore, IsNaming
    <3>3. \A f : IsNamedBefore(feed, Len(feed) + 1, f)' <=> IsNamedBefore(feed', Len(feed') + 1, f)
      BY DEF IsNamedBefore, IsNaming
    <3>4. Named(at', feed') BY DEF Following, Standing
    <3> QED BY <1>1, <1>2, <1>5, <3>1, <3>2, <3>3, <3>4 DEF Named
  <2> QED BY <2>1, <2>2, <2>3, <2>4 DEF Following, Standing
<1> QED BY <1>3, <1>4, <1>6, <1>7, <1>8

\* A step of the registry and its calls.
LEMMA FollowsOn ==
    ASSUME FollowInv, SameFaults, UNCHANGED <<scenario, link, chan, queued>>,
           Unbroken => Story(feed') /\ Following(call', at', feed')
    PROVE  FollowInv'
<1>1. (Unbroken' <=> Unbroken) /\ spent'.missed = spent.missed BY DEF Unbroken, SameFaults
<1> QED BY <1>1, SameStory DEF FollowInv

\* What is assumed of a step in a state that follows the switch.
Steady == /\ Conversations /\ MintedOnce /\ Inv /\ RowsInv /\ FollowInv

LEMMA SteadyFacts ==
    ASSUME Steady
    PROVE  /\ scenario \in Scenarios /\ feed \in Seq(Events)
           /\ call \in [CallIds -> CallRecords] /\ at \in [Channels -> CallIds \cup {NoOne}]
           /\ Channels \subseteq CallIds /\ NoOne \notin CallIds
           /\ State \in States(waiting, afterWork) /\ State.call = call /\ State.at = at
           /\ Registered(call, at) /\ Accounted(call, at, feed) /\ Ordered(feed)
           /\ Sound(State, feed)
BY CallsAssumption DEF Steady, Inv, TypedSwitch, TypedCalls, RowsInv, Sound, State, States, CallIds

LEMMA HandleSteady ==
    ASSUME Steady, Handle PROVE FollowInv'
<1> DEFINE ev == Head(feed)
<1>1. /\ feed # <<>> /\ feed' = Tail(feed)
      /\ UNCHANGED <<scenario, spent, link, chan, queued>>
      /\ \A k \in Awaited(ev) : call[k].stopped \/ call[k].mailbox = <<>>
  BY DEF Handle
<1>2. PICK late \in BOOLEAN : call' = HandleResult(ev, late).call /\ at' = HandleResult(ev, late).at
  BY DEF Handle
<1>3. ASSUME Unbroken PROVE Story(feed') /\ Following(call', at', feed')
  <2>1. Story(feed) /\ Following(call, at, feed) BY <1>3 DEF Steady, FollowInv
  <2>2. Story(feed') BY <1>1, <2>1, SteadyFacts, StoryTail DEF Steady
  <2> DEFINE t == HandleResult(ev, late)
  <2>3. Following(t.call, t.at, Tail(feed))
    BY <1>1, <2>1, SteadyFacts, HandleFollows DEF Steady
  <2> HIDE DEF t
  <2>4. call' = t.call /\ at' = t.at BY <1>2 DEF t
  <2> QED BY <1>1, <2>2, <2>3, <2>4
<1> QED BY <1>1, <1>3, FollowsOn DEF Steady, SameFaults

LEMMA ClaimsSteady ==
    ASSUME Steady, SameFaults, UNCHANGED <<scenario, link, chan, queued, feed, at>>,
           \A k \in CallIds : /\ call'[k].known = call[k].known
                              /\ call'[k].stopped = call[k].stopped
                              /\ call'[k].mailbox = call[k].mailbox
                              /\ call'[k].party = call[k].party
    PROVE  FollowInv'
<1>1. ASSUME Unbroken PROVE Story(feed') /\ Following(call', at', feed')
  <2>1. Story(feed) /\ Following(call, at, feed) BY <1>1 DEF Steady, FollowInv
  <2>2. EndsOnce(call', feed') BY <2>1 DEF Following, Standing, EndsOnce, Has
  <2>3. Tended(call', at', feed')
    <3>1. \A c \in Legs : at[c] # NoOne => at[c] \in CallIds BY SteadyFacts DEF Legs
    <3> QED BY <2>1, <3>1 DEF Following, Standing, Tended, IsRunning
  <2>4. Minted(call', at', feed')
    <3>1. \A f : IsMinter(f) => Leg(f).id \in CallIds BY SteadyFacts, MinterFacts DEF Steady
    <3> QED BY <2>1, <3>1 DEF Following, Minted
  <2> QED BY <2>1, <2>2, <2>3, <2>4 DEF Following, Standing
<1> QED BY <1>1, FollowsOn DEF Steady

\* A leg that is tended is not on a call that has stopped, or is about to.
LEMMA UnregisterSteady ==
    ASSUME Steady, NEW k \in CallIds, Unregister(k) PROVE FollowInv'
<1>1. /\ UNCHANGED <<scenario, spent, link, chan, queued, feed>>
      /\ call[k].known /\ call[k].stopped
  BY DEF Unregister, switchVars, IsKnown
<1>2. /\ call'[k] = NoCall /\ \A j \in CallIds : j # k => call'[j] = call[j]
      /\ \A c \in Channels : at'[c] = IF at[c] = k THEN NoOne ELSE at[c]
  BY SteadyFacts DEF Unregister
<1>3. NoCall.known = FALSE /\ DOMAIN NoCall.party = {} BY DEF NoCall
<1>4. ASSUME Unbroken PROVE Story(feed') /\ Following(call', at', feed')
  <2>1. Story(feed) /\ Following(call, at, feed) BY <1>4 DEF Steady, FollowInv
  <2>2. ASSUME NEW j \in CallIds, NEW c \in Channels
        PROVE  /\ call'[j].known /\ Says(call'[j].mailbox, "hangup", c) => ~Says(feed, "hangup", c)
               /\ Has(call', j, c) /\ call'[j].party[c].state = "RELEASED" => ~Says(feed, "hangup", c)
    <3>1. CASE j = k BY <1>2, <1>3, <3>1 DEF Has
    <3>2. CASE j # k
      <4>1. call'[j] = call[j] BY <1>2, <3>2
      <4> QED BY <2>1, <4>1 DEF Following, Standing, EndsOnce, Has
    <3> QED BY <3>1, <3>2
  <2>3. EndsOnce(call', feed') BY <1>1, <2>2 DEF EndsOnce
  <2>4. ASSUME NEW c \in Legs, IsTended(feed, c)
        PROVE  /\ at[c] # k /\ at'[c] = at[c] /\ at'[c] # NoOne /\ IsRunning(call', at'[c])
    <3>1. at[c] # NoOne /\ IsRunning(call, at[c]) BY <2>1, <2>4 DEF Following, Standing, Tended
    <3>2. c \in Channels /\ at[c] \in CallIds BY <3>1, SteadyFacts DEF Legs
    <3>3. at[c] # k BY <1>1, <3>1 DEF IsRunning
    <3> QED BY <1>2, <3>1, <3>2, <3>3 DEF IsRunning
  <2>5. Tended(call', at', feed') BY <1>1, <2>4 DEF Tended
  <2>6. ASSUME NEW f, IsMinter(f), call'[Leg(f).id].known
        PROVE  at'[f] = Leg(f).id \/ IsOver(feed, f)
    <3>1. f \in Channels /\ Leg(f).id \in CallIds BY <2>6, SteadyFacts, MinterFacts DEF Steady
    <3>2. Leg(f).id # k /\ call[Leg(f).id].known BY <1>2, <1>3, <2>6, <3>1
    <3>3. at[f] = Leg(f).id \/ IsOver(feed, f) BY <2>1, <2>6, <3>2 DEF Following, Minted
    <3> QED BY <1>2, <3>1, <3>2, <3>3
  <2>7. Minted(call', at', feed') BY <1>1, <2>6 DEF Minted
  <2>8. ASSUME NEW f, IsMinter(f), HasName(at, feed, f), chan[f] # "none" PROVE HasName(at', feed, f)
    <3> SUFFICES ASSUME at[f] \in Ids, ~IsOver(feed, f) PROVE at'[f] \in Ids BY <2>8 DEF HasName
    <3>1. f \in Legs /\ f \in Channels BY <2>8, SteadyFacts, MinterFacts DEF Steady
    <3>2. at[f] # NoOne BY CallsAssumption
    <3>3. ~Says(feed, "create", f) BY <3>1, <3>2, SteadyFacts DEF Accounted, Births, IsNew
    <3>4. IsTended(feed, f) BY <2>8, <3>3, SteadyFacts, MinterFacts DEF Steady, IsCurrent
    <3> QED BY <2>4, <3>1, <3>4
  <2>9. Named(at', feed)
    <3>1. Named(at, feed) BY <2>1 DEF Following, Standing
    <3>2. \A f : IsMinter(f) /\ HasName(at, feed, f) => HasName(at', feed, f)
      <4> SUFFICES ASSUME NEW f, IsMinter(f), HasName(at, feed, f) PROVE HasName(at', feed, f) OBVIOUS
      <4>1. CASE chan[f] # "none" BY <2>8, <4>1
      <4>2. CASE chan[f] = "none"
        <5>1. f \in Channels BY SteadyFacts, MinterFacts DEF Steady
        <5>2. at[f] = NoOne BY <4>2, <5>1, SteadyFacts DEF Accounted, Births, IsNew
        <5> QED BY <4>2, <5>2, CallsAssumption DEF HasName, IsOver
      <4> QED BY <4>1, <4>2
    <3> QED BY <3>1, <3>2 DEF Named
  <2> QED BY <1>1, <2>1, <2>3, <2>5, <2>7, <2>9 DEF Following, Standing
<1> QED BY <1>1, <1>4, FollowsOn DEF Steady, SameFaults

LEMMA ApplySteady ==
    ASSUME Steady, NEW k \in CallIds, ApplySwitchEvent(k) PROVE FollowInv'
<1> DEFINE ev == Head(call[k].mailbox)
           over == Finishes(call[k], ev)
<1>1. UNCHANGED <<scenario, spent, link, chan, queued, feed, at>>
  BY DEF ApplySwitchEvent, switchVars
<1>2. /\ call[k].known /\ call[k].mailbox \in Seq(Events) /\ call[k].mailbox # <<>>
      /\ \A j \in CallIds : j # k => call'[j] = call[j]
      /\ call'[k].known
      /\ call'[k].stopped <=> call[k].stopped \/ over
      /\ call'[k].mailbox = Tail(call[k].mailbox)
      /\ DOMAIN call'[k].party = DOMAIN call[k].party
      /\ \A c \in DOMAIN call[k].party :
             call'[k].party[c].state = "RELEASED" <=>
                 call[k].party[c].state = "RELEASED" \/ (ev.kind = "hangup" /\ ev.chan = c)
      /\ over => \A c \in DOMAIN call[k].party : call'[k].party[c].state = "RELEASED"
  BY ApplyEffect DEF Steady
<1> HIDE DEF over
<1>3. \A c : Says(call[k].mailbox, "hangup", c) <=>
          \/ ev.kind = "hangup" /\ ev.chan = c
          \/ Says(Tail(call[k].mailbox), "hangup", c)
  BY <1>2, SaysTail
<1> HIDE DEF ev
<1>4. ASSUME Unbroken PROVE Story(feed') /\ Following(call', at', feed')
  <2>1. Story(feed) /\ Following(call, at, feed) BY <1>4 DEF Steady, FollowInv
  <2>2. ASSUME NEW j \in CallIds, NEW c \in Channels
        PROVE  /\ call'[j].known /\ Says(call'[j].mailbox, "hangup", c) => ~Says(feed, "hangup", c)
               /\ Has(call', j, c) /\ call'[j].party[c].state = "RELEASED" =>
                      ~Says(feed, "hangup", c) /\ IsDone(feed, c)
    <3>0. /\ call[j].known /\ Says(call[j].mailbox, "hangup", c) =>
                 ~Says(feed, "hangup", c) /\ IsDone(feed, c)
          /\ Has(call, j, c) /\ call[j].party[c].state = "RELEASED" =>
                 ~Says(feed, "hangup", c) /\ IsDone(feed, c)
      BY <2>1, SteadyFacts DEF Following, Standing, EndsOnce, Accounted, Ends
    <3>1. CASE j = k
      <4>1. Says(call'[j].mailbox, "hangup", c) => Says(call[j].mailbox, "hangup", c)
        BY <1>2, <1>3, <3>1
      <4>2. Has(call', j, c) /\ call'[j].party[c].state = "RELEASED" =>
                \/ Has(call, j, c) /\ call[j].party[c].state = "RELEASED"
                \/ Says(call[j].mailbox, "hangup", c)
        BY <1>2, <1>3, <3>1 DEF Has
      <4> QED BY <1>2, <3>0, <3>1, <4>1, <4>2
    <3>2. CASE j # k
      <4>1. call'[j] = call[j] BY <1>2, <3>2
      <4> QED BY <3>0, <4>1 DEF Has
    <3> QED BY <3>1, <3>2
  <2>3. EndsOnce(call', feed') BY <1>1, <2>2 DEF EndsOnce
  <2>4. ASSUME NEW c \in Legs, IsTended(feed, c) PROVE at[c] # NoOne /\ IsRunning(call', at[c])
    <3>1. at[c] # NoOne /\ IsRunning(call, at[c]) BY <2>1, <2>4 DEF Following, Standing, Tended
    <3>2. c \in Channels /\ at[c] \in CallIds BY <3>1, SteadyFacts DEF Legs
    <3>3. CASE at[c] # k BY <1>2, <3>1, <3>2, <3>3 DEF IsRunning
    <3>4. CASE at[c] = k
      <4>1. Has(call, k, c) BY <3>1, <3>2, <3>4, SteadyFacts DEF Registered, Bindings
      <4>2. ASSUME over PROVE FALSE
        <5>1. Has(call', k, c) /\ call'[k].party[c].state = "RELEASED" BY <1>2, <4>1, <4>2 DEF Has
        <5>2. ~Says(feed, "hangup", c) /\ IsDone(feed, c) BY <2>2, <3>2, <5>1
        <5> QED BY <2>4, <5>2 DEF IsTended, IsCurrent, IsOver, IsDone
      <4> QED BY <1>2, <3>1, <3>4, <4>2 DEF IsRunning
    <3> QED BY <3>3, <3>4
  <2>5. Tended(call', at', feed') BY <1>1, <2>4 DEF Tended
  <2>6. Minted(call', at', feed')
    <3>1. \A f : IsMinter(f) => Leg(f).id \in CallIds BY SteadyFacts, MinterFacts DEF Steady
    <3> QED BY <1>1, <1>2, <2>1, <3>1 DEF Following, Minted
  <2> QED BY <1>1, <2>1, <2>3, <2>5, <2>6 DEF Following, Standing
<1> QED BY <1>1, <1>4, FollowsOn DEF Steady, SameFaults

-----------------------------------------------------------------------------
(***************************************************************************)
(* The switch says more.                                                   *)
(***************************************************************************)
LEMMA UttersFacts ==
    ASSUME Steady, Unbroken, NEW e, Utters(e)
    PROVE  /\ scenario' = scenario /\ link' = link /\ link = "up" /\ call' = call /\ at' = at
           /\ onCall' = onCall
           /\ e \in Seq(Events) /\ Len(feed) \in Nat /\ Len(e) \in Nat /\ Len(feed') \in Nat
           /\ Len(feed') = Len(feed) + Len(e)
           /\ \A i \in 1..Len(feed) : feed'[i] = feed[i] /\ i \in 1..Len(feed')
           /\ \A i \in 1..Len(e) : feed'[Len(feed) + i] = e[i] /\ Len(feed) + i \in 1..Len(feed')
           /\ \A i \in 1..Len(feed') : i \notin 1..Len(feed) =>
                  i - Len(feed) \in 1..Len(e) /\ feed'[i] = e[i - Len(feed)]
           /\ \A kind, c : Says(feed', kind, c) <=> Says(feed, kind, c) \/ Says(e, kind, c)
<1>1. /\ scenario' = scenario /\ link' = link /\ call' = call /\ at' = at /\ onCall' = onCall
      /\ Tell(e) /\ e \in Seq(Events)
  BY DEF Utters, Speaks, SwitchOnly, appVars
<1>2. link = "up" BY DEF Steady, FollowInv
<1>3. feed' = feed \o e BY <1>1, <1>2 DEF Tell
<1>4. feed \in Seq(Events) BY SteadyFacts
<1>5. \A kind, c : Says(feed', kind, c) <=> Says(feed, kind, c) \/ Says(e, kind, c)
  BY <1>1, <1>3, <1>4, SaysConcat
<1>6. /\ Len(feed) \in Nat /\ Len(e) \in Nat /\ Len(feed') = Len(feed) + Len(e)
      /\ \A i \in 1..Len(feed) : feed'[i] = feed[i]
      /\ \A i \in 1..Len(e) : feed'[Len(feed) + i] = e[i]
      /\ \A i \in 1..Len(feed') : i \in 1..Len(feed) \/ i - Len(feed) \in 1..Len(e)
      /\ \A i \in 1..Len(feed') : i \notin 1..Len(feed) => feed'[i] = e[i - Len(feed)]
  BY <1>1, <1>3, <1>4, Concat
<1> QED BY <1>1, <1>2, <1>5, <1>6

LEMMA UttersCurrent ==
    ASSUME Steady, Unbroken, NEW e, Utters(e), NEW c \in Channels
    PROVE  /\ IsOver(feed, c)' <=> IsOver(feed, c)
           /\ IsCurrent(feed, c) => IsCurrent(feed, c)'
           /\ IsCurrent(feed, c)' /\ chan[c] # "none" => IsCurrent(feed, c)
           /\ chan'[c] # "none" /\ chan[c] = "none" => Says(e, "create", c)
           /\ chan[c] # "none" => chan'[c] # "none"
           /\ chan[c] = "gone" => \A i \in 1..Len(e) : ~Mentions(e[i], c)
<1>1. \A kind, d : Says(feed', kind, d) <=> Says(feed, kind, d) \/ Says(e, kind, d) BY UttersFacts
<1>2. /\ chan[c] = "gone" => chan'[c] = "gone"
      /\ chan'[c] = "none" => chan[c] = "none"
      /\ chan'[c] = "gone" => chan[c] = "gone" \/ Says(e, "hangup", c)
      /\ chan[c] = "none" => chan'[c] = "none" \/ Says(e, "create", c)
  BY DEF Utters, Speaks
<1>3. chan[c] = "gone" => \A i \in 1..Len(e) : ~Mentions(e[i], c)
  BY DEF Utters, Speaks, Mentions
<1>4. chan[c] = "gone" => ~Says(e, "hangup", c) BY <1>3 DEF Says, Mentions
<1>5. IsOver(feed, c)' <=> chan'[c] = "gone" /\ ~Says(feed', "hangup", c) BY DEF IsOver, Says
<1>6. IsOver(feed, c)' <=> IsOver(feed, c) BY <1>1, <1>2, <1>4, <1>5 DEF IsOver
<1>7. IsCurrent(feed, c)' <=> chan'[c] # "none" /\ ~IsOver(feed, c)' BY DEF IsCurrent
<1> QED BY <1>2, <1>3, <1>6, <1>7 DEF IsCurrent

LEMMA UttersStory ==
    ASSUME Steady, Unbroken, NEW e, Utters(e) PROVE Raised' /\ Story(feed)'
<1>1. /\ scenario \in Scenarios /\ Conversations /\ Raised /\ Story(feed) /\ Ordered(feed)
      /\ feed \in Seq(Events) /\ NoOne \notin Channels /\ NoOne \notin Ids
  BY SteadyFacts, CallsAssumption DEF Steady, FollowInv
<1>2. scenario' = scenario BY UttersFacts
<1>3. Legs' = Legs /\ \A c : Leg(c)' = Leg(c) BY <1>2, SamePlan
<1>4. \A c \in Legs : c \in Channels /\ (Leg(c).from # NoOne => Leg(c).from \in Channels)
  BY <1>1, PlanFacts
<1>5. ASSUME NEW i \in 1..Len(e), e[i].kind = "create"
      PROVE  /\ e[i].chan \in Legs /\ e[i].chan \in Channels /\ chan[e[i].chan] = "none"
             /\ Leg(e[i].chan).from # NoOne =>
                    /\ chan[Leg(e[i].chan).from] # "none"
                    /\ Leg(Leg(e[i].chan).from).id = NoOne => chan[Leg(e[i].chan).from] = "answered"
  <2>1. e[i].chan \in Legs /\ chan[e[i].chan] = "none" /\ IsRaised(e[i])
    BY <1>5 DEF Utters, Speaks, TrueThen
  <2>2. e[i].chan \in Channels BY <1>4, <2>1
  <2>3. \A f \in queued : chan[f] # "none" BY DEF Steady, Inv, TypedSwitch, Up
  <2> DEFINE f == Leg(e[i].chan).from
  <2>4. f # NoOne => \/ Leg(f).queues /\ (f \in queued \/ chan[f] = "gone")
                     \/ chan[f] = "answered"
    BY <2>1 DEF IsRaised, CanBeRaised, IsDelivery
  <2>5. f # NoOne => f \in Legs /\ (Leg(f).queues => Leg(f).id \in Ids) BY <1>1, <2>1, PlanFacts
  <2> QED BY <1>1, <2>1, <2>2, <2>3, <2>4, <2>5
<1>6. Raised'
  <2> SUFFICES ASSUME NEW c \in Legs, chan'[c] # "none", Leg(c).from # NoOne
               PROVE  chan'[Leg(c).from] # "none"
    BY <1>3 DEF Raised
  <2>1. CASE chan[c] # "none"
    <3>1. chan[Leg(c).from] # "none" BY <1>1, <2>1 DEF Raised
    <3> QED BY <1>4, <3>1, UttersCurrent
  <2>2. CASE chan[c] = "none"
    <3>1. Says(e, "create", c) BY <1>4, <2>2, UttersCurrent
    <3>2. PICK i \in 1..Len(e) : e[i].kind = "create" /\ e[i].chan = c BY <3>1 DEF Says
    <3>3. chan[Leg(c).from] # "none" BY <1>5, <3>2
    <3> QED BY <1>4, <3>3, UttersCurrent
  <2> QED BY <2>1, <2>2
<1>7. ASSUME NEW i \in 1..Len(feed)
      PROVE  /\ feed[i].chan \in Legs /\ feed[i].chan \in Channels /\ chan[feed[i].chan] # "none"
             /\ feed[i].kind = "hangup" => chan[feed[i].chan] = "gone"
             /\ feed[i].kind = "bridge" => feed[i].other \in Channels /\ chan[feed[i].other] # "none"
  <2>1. IsTrue(feed[i]) BY <1>1 DEF Ordered
  <2> QED BY <1>1, <1>4, <2>1 DEF IsTrue, Story
<1>8. ASSUME NEW i \in 1..Len(feed') PROVE RaisesAlive(feed, i)'
  <2> SUFFICES ASSUME NEW f, f = Leg(feed'[i].chan).from, feed'[i].kind = "create", f # NoOne,
                      Leg(f).id = NoOne
               PROVE  IsCurrent(feed, f)' /\ \A j \in 1..Len(feed') : j < i => ~IsEnd(feed'[j], f)
    BY <1>3 DEF RaisesAlive, IsEnd
  <2>1. CASE i \in 1..Len(feed)
    <3>1. feed'[i] = feed[i] BY <2>1, UttersFacts
    <3>2. RaisesAlive(feed, i) BY <1>1, <2>1 DEF Story
    <3>3. IsCurrent(feed, f) /\ \A j \in 1..Len(feed) : j < i => ~IsEnd(feed[j], f)
      BY <3>1, <3>2 DEF RaisesAlive
    <3>4. f \in Channels BY <1>4, <1>7, <2>1, <3>1
    <3>5. \A j \in 1..Len(feed') : j < i => j \in 1..Len(feed) /\ feed'[j] = feed[j]
      BY <2>1, UttersFacts
    <3> QED BY <3>3, <3>4, <3>5, UttersCurrent
  <2>2. CASE i \notin 1..Len(feed)
    <3>1. i - Len(feed) \in 1..Len(e) /\ feed'[i] = e[i - Len(feed)] BY <2>2, UttersFacts
    <3>2. f \in Channels /\ chan[f] = "answered" BY <1>4, <1>5, <3>1
    <3>3. IsCurrent(feed, f)' BY <3>2, UttersCurrent DEF IsCurrent, IsOver
    <3>4. ASSUME NEW j \in 1..Len(feed'), j < i, IsEnd(feed'[j], f) PROVE FALSE
      <4>1. CASE j \in 1..Len(feed)
        <5>1. feed'[j] = feed[j] BY <4>1, UttersFacts
        <5> QED BY <1>7, <3>2, <3>4, <4>1, <5>1 DEF IsEnd
      <4>2. CASE j \notin 1..Len(feed)
        <5>1. j - Len(feed) \in 1..Len(e) /\ Len(feed) \in Nat BY <4>2, UttersFacts
        <5>2. j - Len(feed) < i - Len(feed) BY <3>4, <5>1
        <5> QED BY <3>1, <5>1, <5>2 DEF Utters
      <4> QED BY <4>1, <4>2
    <3> QED BY <3>3, <3>4
  <2> QED BY <2>1, <2>2
<1>9. ASSUME NEW i \in 1..Len(feed'), feed'[i].kind = "bridge" PROVE chan'[feed'[i].other] # "none"
  <2>1. CASE i \in 1..Len(feed)
    <3>1. feed'[i] = feed[i] BY <2>1, UttersFacts
    <3> QED BY <1>7, <1>9, <2>1, <3>1, UttersCurrent
  <2>2. CASE i \notin 1..Len(feed)
    <3>1. i - Len(feed) \in 1..Len(e) /\ feed'[i] = e[i - Len(feed)] BY <2>2, UttersFacts
    <3>2. chan[feed'[i].other] # "none" /\ feed'[i].other \in Legs
      BY <1>9, <3>1 DEF Utters, Speaks, TrueThen
    <3> QED BY <1>4, <3>2, UttersCurrent
  <2> QED BY <2>1, <2>2
<1>10. ASSUME NEW i \in 1..Len(feed'), NEW j \in 1..Len(feed'), i < j PROVE Follows(feed[i], feed[j])'
  <2> DEFINE x == feed'[i]
             y == feed'[j]
  <2> SUFFICES Follows(x, y) BY <1>3 DEF Follows, Mentions
  <2>1. CASE j \in 1..Len(feed)
    <3>1. i \in 1..Len(feed) BY <1>10, <2>1, UttersFacts
    <3>2. x = feed[i] /\ y = feed[j] BY <2>1, <3>1, UttersFacts
    <3>3. Follows(feed[i], feed[j]) BY <1>1, <1>10, <2>1, <3>1 DEF Story
    <3> QED BY <3>2, <3>3
  <2>2. CASE i \notin 1..Len(feed)
    <3>1. j \notin 1..Len(feed) /\ Len(feed) \in Nat BY <1>10, <2>2, UttersFacts
    <3>2. /\ x = e[i - Len(feed)] /\ i - Len(feed) \in 1..Len(e)
          /\ y = e[j - Len(feed)] /\ j - Len(feed) \in 1..Len(e)
      BY <2>2, <3>1, UttersFacts
    <3>3. i - Len(feed) < j - Len(feed) BY <1>10, <3>1
    <3>4. x.kind # "hangup" /\ y.kind # "create" BY <3>2, <3>3 DEF Utters
    <3> QED BY <3>4 DEF Follows
  <2>3. CASE i \in 1..Len(feed) /\ j \notin 1..Len(feed)
    <3>1. x = feed[i] /\ y = e[j - Len(feed)] /\ j - Len(feed) \in 1..Len(e)
      BY <2>3, UttersFacts
    <3>2. /\ x.chan \in Legs /\ x.chan \in Channels /\ chan[x.chan] # "none"
          /\ x.kind = "hangup" => chan[x.chan] = "gone"
          /\ x.kind = "bridge" => chan[x.other] # "none"
      BY <1>7, <2>3, <3>1
    <3>3. y.kind = "create" => chan[y.chan] = "none" /\ y.chan \in Channels BY <1>5, <3>1
    <3>4. Leg(x.chan).from # NoOne => chan[Leg(x.chan).from] # "none" BY <1>1, <3>2 DEF Raised
    <3>5. x.kind = "hangup" => ~Mentions(y, x.chan) BY <3>1, <3>2, UttersCurrent
    <3> QED BY <1>1, <3>2, <3>3, <3>4, <3>5 DEF Follows, Mentions
  <2> QED BY <2>1, <2>2, <2>3
<1>11. ASSUME NEW c \in Channels, IsOver(feed, c)', NEW i \in 1..Len(feed') PROVE ~Mentions(feed[i], c)'
  <2>1. IsOver(feed, c) BY <1>11, UttersCurrent
  <2>2. CASE i \in 1..Len(feed)
    <3>1. feed'[i] = feed[i] BY <2>2, UttersFacts
    <3> QED BY <1>1, <2>1, <2>2, <3>1 DEF Story, Mentions
  <2>3. CASE i \notin 1..Len(feed)
    <3>1. i - Len(feed) \in 1..Len(e) /\ feed'[i] = e[i - Len(feed)] BY <2>3, UttersFacts
    <3>2. ~Mentions(e[i - Len(feed)], c) BY <2>1, <3>1, UttersCurrent DEF IsOver
    <3> QED BY <3>1, <3>2 DEF Mentions
  <2> QED BY <2>2, <2>3
<1>12. Story(feed)' BY <1>8, <1>9, <1>10, <1>11 DEF Story
<1> QED BY <1>6, <1>12

\* Nothing the switch says leaves another leg tended.
LEMMA UttersTended ==
    ASSUME Steady, Unbroken, NEW e, Utters(e), NEW c \in Legs, IsTended(feed, c)'
    PROVE  IsTended(feed, c)
<1>1. scenario \in Scenarios /\ Conversations /\ Raised BY SteadyFacts DEF Steady, FollowInv
<1>2. Legs' = Legs /\ \A d : Leg(d)' = Leg(d) BY UttersFacts, SamePlan
<1>3. c \in Channels /\ (Leg(c).from # NoOne => Leg(c).from \in Channels) BY <1>1, PlanFacts
<1>4. \A kind, d : Says(feed', kind, d) <=> Says(feed, kind, d) \/ Says(e, kind, d) BY UttersFacts
<1>5. /\ IsCurrent(feed, c)' /\ ~Says(feed', "create", c)
      /\ Leg(c).from = NoOne \/ Leg(Leg(c).from).id = NoOne \/ IsCurrent(feed, Leg(c).from)'
  BY <1>2 DEF IsTended, Says
<1>6. chan[c] # "none"
  <2>1. chan'[c] # "none" BY <1>5 DEF IsCurrent
  <2> QED BY <1>3, <1>4, <1>5, <2>1, UttersCurrent
<1>7. IsCurrent(feed, c) /\ ~Says(feed, "create", c) BY <1>3, <1>4, <1>5, <1>6, UttersCurrent
<1>8. ASSUME Leg(c).from # NoOne, IsCurrent(feed, Leg(c).from)' PROVE IsCurrent(feed, Leg(c).from)
  <2>1. Leg(c).from \in Channels /\ chan[Leg(c).from] # "none" BY <1>1, <1>3, <1>6, <1>8 DEF Raised
  <2>2. \A f \in Channels : IsCurrent(feed, f)' /\ chan[f] # "none" => IsCurrent(feed, f)
    BY UttersCurrent
  <2>3. Leg(c).from' = Leg(c).from BY <1>2
  <2> QED BY <1>8, <2>1, <2>2, <2>3
<1> QED BY <1>5, <1>7, <1>8 DEF IsTended

LEMMA UttersFollowing ==
    ASSUME Steady, Unbroken, NEW e, Utters(e) PROVE Following(call, at, feed)'
<1>1. /\ scenario \in Scenarios /\ Conversations /\ MintedOnce
      /\ Following(call, at, feed) /\ Accounted(call, at, feed)
      /\ feed \in Seq(Events) /\ NoOne \notin Channels /\ NoOne \notin Ids
  BY SteadyFacts, CallsAssumption DEF Steady, FollowInv
<1>2. scenario' = scenario /\ call' = call /\ at' = at BY UttersFacts
<1>3. Legs' = Legs /\ \A c : Leg(c)' = Leg(c) BY <1>2, SamePlan
<1>4. \A c \in Legs : c \in Channels /\ (Leg(c).from # NoOne => Leg(c).from \in Channels)
  BY <1>1, PlanFacts
<1>5. \A kind, c : Says(feed', kind, c) <=> Says(feed, kind, c) \/ Says(e, kind, c) BY UttersFacts
<1>6. \A f : IsMinter(f)' <=> IsMinter(f) BY <1>3 DEF IsMinter
<1>7. \A f : IsMinter(f) => f \in Legs /\ f \in Channels BY <1>1, MinterFacts
<1>8. EndsOnce(call, feed)'
  <2>1. ASSUME NEW k \in CallIds, NEW c \in Channels,
               \/ call[k].known /\ Says(call[k].mailbox, "hangup", c)
               \/ Has(call, k, c) /\ call[k].party[c].state = "RELEASED"
        PROVE  ~Says(feed', "hangup", c)
    <3>1. ~Says(feed, "hangup", c) BY <1>1, <2>1 DEF Following, Standing, EndsOnce
    <3>2. chan[c] = "gone" BY <1>1, <2>1 DEF Accounted, Ends, IsDone
    <3>3. ~Says(e, "hangup", c) BY <3>2, UttersCurrent DEF Says, Mentions
    <3> QED BY <1>5, <3>1, <3>3
  <2> QED BY <1>2, <2>1 DEF EndsOnce, Says, Has
<1>9. Tended(call, at, feed)'
  <2> SUFFICES ASSUME NEW c \in Legs, IsTended(feed, c)' PROVE at[c] # NoOne /\ IsRunning(call, at[c])
    BY <1>2, <1>3 DEF Tended, IsRunning
  <2>1. IsTended(feed, c) BY UttersTended
  <2> QED BY <1>1, <2>1 DEF Following, Standing, Tended
<1>10. \A f : IsMinter(f) => (IsOver(feed, f)' <=> IsOver(feed, f)) BY <1>7, UttersCurrent
<1>11. Minted(call, at, feed)' BY <1>1, <1>2, <1>3, <1>6, <1>10 DEF Following, Minted
<1>12. \A f : IsMinter(f) => (HasName(at, feed, f)' <=> HasName(at, feed, f))
  BY <1>2, <1>10 DEF HasName
<1>13. ASSUME NEW f, NEW i \in Nat, NEW n \in Nat, i <= n, IsNamedBefore(feed, i, f)
       PROVE  IsNamedBefore(feed', n, f)
  <2>1. PICK j \in 1..Len(feed) : j < i /\ IsNaming(feed[j], f) BY <1>13 DEF IsNamedBefore
  <2>2. feed'[j] = feed[j] /\ j \in 1..Len(feed') /\ j \in Nat /\ Len(feed) \in Nat BY UttersFacts
  <2>3. j < n BY <1>13, <2>1, <2>2
  <2> QED BY <2>1, <2>2, <2>3 DEF IsNamedBefore
<1>14. ASSUME NEW f, NEW i \in 1..Len(e), IsNaming(e[i], f) PROVE IsNamedBefore(feed', Len(feed') + 1, f)
  <2>1. /\ feed'[Len(feed) + i] = e[i] /\ Len(feed) + i \in 1..Len(feed')
        /\ Len(feed') \in Nat /\ Len(feed) \in Nat
    BY UttersFacts
  <2>2. Len(feed) + i < Len(feed') + 1 BY <2>1
  <2> QED BY <1>14, <2>1, <2>2 DEF IsNamedBefore
<1>15. Named(at, feed) /\ Len(feed) \in Nat /\ Len(feed') \in Nat /\ Len(feed) <= Len(feed')
  BY <1>1, UttersFacts DEF Following, Standing
<1>16. ASSUME NEW f, IsMinter(f), f \in queued' \/ chan'[f] = "answered"
       PROVE  HasName(at, feed, f) \/ IsNamedBefore(feed', Len(feed') + 1, f)
  <2>1. CASE f \in queued \/ chan[f] = "answered"
    <3>1. HasName(at, feed, f) \/ IsNamedBefore(feed, Len(feed) + 1, f) BY <1>15, <1>16, <2>1 DEF Named
    <3>2. Len(feed) + 1 \in Nat /\ Len(feed') + 1 \in Nat /\ Len(feed) + 1 <= Len(feed') + 1 BY <1>15
    <3> QED BY <1>13, <3>1, <3>2
  <2>2. CASE ~(f \in queued \/ chan[f] = "answered")
    <3>1. Leg(f).id # NoOne /\ f \in Channels BY <1>7, <1>16 DEF IsMinter
    <3>2. Names(e, f) BY <1>16, <2>2, <3>1 DEF Utters
    <3>3. PICK i \in 1..Len(e) : e[i].chan = f /\ e[i].id # NoOne BY <3>2 DEF Names
    <3> QED BY <1>14, <3>3 DEF IsNaming
  <2> QED BY <2>1, <2>2
<1>17. ASSUME NEW i \in 1..Len(feed'), NEW f, f = Leg(feed'[i].chan).from, feed'[i].kind = "create",
              IsMinter(f)
       PROVE  HasName(at, feed, f) \/ IsNamedBefore(feed', i, f)
  <2>0. i \in Nat BY <1>15
  <2>1. CASE i \in 1..Len(feed)
    <3>1. feed'[i] = feed[i] BY <2>1, UttersFacts
    <3>2. HasName(at, feed, f) \/ IsNamedBefore(feed, i, f) BY <1>15, <1>17, <2>1, <3>1 DEF Named
    <3> QED BY <1>13, <2>0, <3>2
  <2>2. CASE i \notin 1..Len(feed)
    <3>1. i - Len(feed) \in 1..Len(e) /\ feed'[i] = e[i - Len(feed)] BY <2>2, UttersFacts
    <3>2. Len(feed) + 1 \in Nat /\ Len(feed) + 1 <= i BY <1>15, <2>0, <2>2
    <3> DEFINE c == feed'[i].chan
    <3>3. c \in Legs /\ CanBeRaised(c) BY <1>17, <3>1 DEF Utters, Speaks, TrueThen, IsRaised
    <3>5. f # NoOne BY <1>1, <1>7, <1>17
    <3>6. f \in queued \/ chan[f] = "gone" \/ chan[f] = "answered"
      BY <1>17, <3>3, <3>5 DEF CanBeRaised
    <3>7. CASE f \in queued \/ chan[f] = "answered"
      <4>1. HasName(at, feed, f) \/ IsNamedBefore(feed, Len(feed) + 1, f) BY <1>15, <1>17, <3>7 DEF Named
      <4> QED BY <1>13, <2>0, <3>2, <4>1
    <3>8. CASE chan[f] = "gone"
      <4>1. CASE IsOver(feed, f) BY <4>1 DEF HasName
      <4>2. CASE ~IsOver(feed, f)
        <5>1. Says(feed, "hangup", f) BY <3>8, <4>2 DEF IsOver
        <5>2. PICK j \in 1..Len(feed) : feed[j].kind = "hangup" /\ feed[j].chan = f BY <5>1 DEF Says
        <5>3. j < Len(feed) + 1 BY <1>15
        <5>4. IsNamedBefore(feed, Len(feed) + 1, f) BY <5>2, <5>3 DEF IsNamedBefore, IsNaming
        <5> QED BY <1>13, <2>0, <3>2, <5>4
      <4> QED BY <4>1, <4>2
    <3> QED BY <3>6, <3>7, <3>8
  <2> QED BY <2>1, <2>2
<1>18. ASSUME NEW c \in Legs, NEW f, f = Leg(c).from, chan'[c] # "none", ~Says(feed', "create", c),
              IsMinter(f)
       PROVE  HasName(at, feed, f)
  <2>1. c \in Channels BY <1>4
  <2>2. chan[c] # "none" /\ ~Says(feed, "create", c) BY <1>5, <1>18, <2>1, UttersCurrent
  <2> QED BY <1>15, <1>18, <2>2 DEF Named
<1>19. Named(at, feed)'
  <2>1. \A f : /\ IsNamedBefore(feed, Len(feed) + 1, f)' <=> IsNamedBefore(feed', Len(feed') + 1, f)
               /\ \A i : IsNamedBefore(feed, i, f)' <=> IsNamedBefore(feed', i, f)
    BY DEF IsNamedBefore, IsNaming
  <2>2. \A c : Says(feed, "create", c)' <=> Says(feed', "create", c) BY DEF Says
  <2> QED BY <1>3, <1>6, <1>12, <1>16, <1>17, <1>18, <2>1, <2>2 DEF Named
<1> QED BY <1>8, <1>9, <1>11, <1>19 DEF Following, Standing

\* A step of the switch.
LEMMA UttersSteady ==
    ASSUME Steady, spent' = spent, NEW e, Utters(e) PROVE FollowInv'
<1>1. Unbroken' <=> Unbroken BY DEF Unbroken
<1>2. ASSUME Unbroken PROVE link' = "up" /\ Raised' /\ Story(feed)' /\ Following(call, at, feed)'
  BY <1>2, UttersFacts, UttersStory, UttersFollowing
<1> QED BY <1>1, <1>2 DEF FollowInv, Steady

-----------------------------------------------------------------------------
(***************************************************************************)
(* The phone of an agent.                                                  *)
(***************************************************************************)
\* A leg of an agent is made after the end of the one before.
IsApart(q, i, d) ==
    \/ \E j \in 1..Len(q) : j < i /\ IsEnd(q[j], d)
    \/ \E j \in 1..Len(q) : i < j /\ q[j].kind = "create" /\ q[j].chan = d

SharesPhone(c, d) == c # d /\ AgentOf(c) # NoOne /\ AgentOf(d) = AgentOf(c)

KeptApart(q) ==
    /\ \A i \in 1..Len(q) : q[i].kind = "create" =>
           \A d \in Legs : SharesPhone(q[i].chan, d) /\ IsCurrent(q, d) => IsApart(q, i, d)
    /\ \A c, d \in Legs : SharesPhone(c, d) /\ IsCurrent(q, c) /\ IsCurrent(q, d) =>
                              Says(q, "create", c) \/ Says(q, "create", d)

\* An agent whose leg is tended shows as on a call.
OnPhone(o, q) == \A c \in Legs : IsTended(q, c) /\ AgentOf(c) # NoOne => o[AgentOf(c)]

PhoneInv == Unbroken => KeptApart(feed) /\ OnPhone(onCall, feed)

LEMMA ApartTail ==
    ASSUME Conversations, scenario \in Scenarios, NEW q \in Seq(Events), q # <<>>,
           Ordered(q), Story(q), KeptApart(q)
    PROVE  KeptApart(Tail(q))
<1> DEFINE r == Tail(q)
           ev == Head(q)
<1>1. /\ ev = q[1] /\ 1 \in 1..Len(q) /\ Len(q) \in Nat
      /\ \A i \in 1..Len(r) : r[i] = q[i + 1] /\ i + 1 \in 1..Len(q) /\ i \in Nat
      /\ \A i \in 1..Len(q) : i # 1 => i - 1 \in 1..Len(r) /\ r[i - 1] = q[i]
  BY TailIs
<1>2. /\ \A c : IsCurrent(r, c) <=> IsCurrent(q, c) /\ ~IsEnd(ev, c)
      /\ \A c : Says(r, "create", c) <=> Says(q, "create", c) /\ ~(ev.kind = "create" /\ ev.chan = c)
  BY StoryTail
<1> HIDE DEF r, ev
<1>3. ASSUME NEW i \in 1..Len(r), r[i].kind = "create", NEW d \in Legs, SharesPhone(r[i].chan, d),
             IsCurrent(r, d)
      PROVE  IsApart(r, i, d)
  <2>1. IsApart(q, i + 1, d) BY <1>1, <1>2, <1>3 DEF KeptApart
  <2>2. ASSUME NEW j \in 1..Len(q), j < i + 1, IsEnd(q[j], d) PROVE IsApart(r, i, d)
    <3>1. j # 1 BY <1>1, <1>2, <1>3, <2>2
    <3>2. j - 1 \in 1..Len(r) /\ r[j - 1] = q[j] /\ j - 1 < i BY <1>1, <2>2, <3>1
    <3> QED BY <2>2, <3>2 DEF IsApart
  <2>3. ASSUME NEW j \in 1..Len(q), i + 1 < j, q[j].kind = "create", q[j].chan = d
        PROVE  IsApart(r, i, d)
    <3>1. j # 1 BY <1>1, <2>3
    <3>2. j - 1 \in 1..Len(r) /\ r[j - 1] = q[j] /\ i < j - 1 BY <1>1, <2>3, <3>1
    <3> QED BY <2>3, <3>2 DEF IsApart
  <2> QED BY <2>1, <2>2, <2>3 DEF IsApart
<1>4. ASSUME NEW c \in Legs, NEW d \in Legs, SharesPhone(c, d), ~Says(r, "create", d),
             ev.kind = "create", ev.chan = c, IsCurrent(q, d)
      PROVE  FALSE
  <2>1. IsApart(q, 1, d) BY <1>1, <1>4 DEF KeptApart
  <2>2. PICK j \in 1..Len(q) : 1 < j /\ q[j].kind = "create" /\ q[j].chan = d
    BY <1>1, <2>1 DEF IsApart
  <2>3. j - 1 \in 1..Len(r) /\ r[j - 1] = q[j] BY <1>1, <2>2
  <2> QED BY <1>4, <2>2, <2>3 DEF Says
<1>5. ASSUME NEW c \in Legs, NEW d \in Legs, SharesPhone(c, d), ~Says(r, "create", c),
             ~Says(r, "create", d), IsCurrent(r, c), IsCurrent(r, d)
      PROVE  FALSE
  <2>1. SharesPhone(d, c) BY <1>5 DEF SharesPhone
  <2>2. IsCurrent(q, c) /\ IsCurrent(q, d) BY <1>2, <1>5
  <2>3. CASE Says(q, "create", c)
    <3>1. ev.kind = "create" /\ ev.chan = c BY <1>2, <1>5, <2>3
    <3> QED BY <1>4, <1>5, <2>2, <3>1
  <2>4. CASE Says(q, "create", d)
    <3>1. ev.kind = "create" /\ ev.chan = d BY <1>2, <1>5, <2>4
    <3> QED BY <1>4, <1>5, <2>1, <2>2, <3>1
  <2>5. CASE ~Says(q, "create", c) /\ ~Says(q, "create", d) BY <1>5, <2>2, <2>5 DEF KeptApart
  <2> QED BY <2>3, <2>4, <2>5
<1>6. KeptApart(r) BY <1>3, <1>5 DEF KeptApart
<1> QED BY <1>6 DEF r

LEMMA UttersPhone ==
    ASSUME Steady, PhoneInv, spent' = spent, NEW e, Utters(e) PROVE PhoneInv'
<1>1. Unbroken' <=> Unbroken BY DEF Unbroken
<1> SUFFICES ASSUME Unbroken PROVE KeptApart(feed)' /\ OnPhone(onCall, feed)'
  BY <1>1 DEF PhoneInv
<1>2. /\ scenario \in Scenarios /\ Conversations /\ KeptApart(feed) /\ OnPhone(onCall, feed)
      /\ scenario' = scenario /\ onCall' = onCall /\ Len(feed) \in Nat
  BY SteadyFacts, UttersFacts DEF Steady, PhoneInv
<1>3. Legs' = Legs /\ \A c : Leg(c)' = Leg(c) BY <1>2, SamePlan
<1>4. \A c \in Legs : c \in Channels BY DEF Legs
<1>5. \A kind, d : Says(feed', kind, d) <=> Says(feed, kind, d) \/ Says(e, kind, d) BY UttersFacts
<1>6. \A c, d : SharesPhone(c, d)' <=> SharesPhone(c, d) BY <1>3 DEF SharesPhone, AgentOf
<1>7. OnPhone(onCall, feed)' BY <1>2, <1>3, UttersTended DEF OnPhone, AgentOf
<1>8. ASSUME NEW i \in 1..Len(feed'), feed'[i].kind = "create", NEW d \in Legs,
             SharesPhone(feed'[i].chan, d), IsCurrent(feed, d)'
      PROVE  IsApart(feed', i, d)
  <2>1. CASE chan[d] = "none"
    <3>1. Says(e, "create", d) BY <1>4, <1>8, <2>1, UttersCurrent DEF IsCurrent
    <3>2. PICK j \in 1..Len(e) : e[j].kind = "create" /\ e[j].chan = d BY <3>1 DEF Says
    <3>3. feed'[Len(feed) + j] = e[j] /\ Len(feed) + j \in 1..Len(feed') BY UttersFacts
    <3>4. CASE i \in 1..Len(feed)
      <4>1. i < Len(feed) + j BY <1>2, <3>4
      <4> QED BY <3>2, <3>3, <4>1 DEF IsApart
    <3>5. CASE i \notin 1..Len(feed)
      <4>1. i - Len(feed) \in 1..Len(e) /\ feed'[i] = e[i - Len(feed)] BY <3>5, UttersFacts
      <4>2. i - Len(feed) # j BY <1>8, <3>2, <4>1 DEF SharesPhone
      <4>3. i - Len(feed) < j \/ j < i - Len(feed) BY <4>1, <4>2
      <4> QED BY <1>8, <3>2, <4>1, <4>3 DEF Utters
    <3> QED BY <3>4, <3>5
  <2>2. CASE chan[d] # "none"
    <3>1. IsCurrent(feed, d) BY <1>4, <1>8, <2>2, UttersCurrent
    <3>2. CASE i \in 1..Len(feed)
      <4>1. feed'[i] = feed[i] BY <3>2, UttersFacts
      <4>2. IsApart(feed, i, d) BY <1>2, <1>8, <3>1, <3>2, <4>1 DEF KeptApart
      <4>3. \A j \in 1..Len(feed) : feed'[j] = feed[j] /\ j \in 1..Len(feed') BY UttersFacts
      <4> QED BY <4>2, <4>3 DEF IsApart
    <3>3. CASE i \notin 1..Len(feed)
      <4>1. i - Len(feed) \in 1..Len(e) /\ feed'[i] = e[i - Len(feed)] BY <3>3, UttersFacts
      <4>2. IsRaised(feed'[i]) BY <1>8, <4>1 DEF Utters
      <4>3. d \notin Up BY <1>8, <4>2 DEF IsRaised, SharesPhone
      <4>4. chan[d] = "gone" BY <1>4, <2>2, <4>3 DEF Up, Steady, Inv, TypedSwitch
      <4>5. Says(feed, "hangup", d) BY <3>1, <4>4 DEF IsCurrent, IsOver
      <4>6. PICK j \in 1..Len(feed) : feed[j].kind = "hangup" /\ feed[j].chan = d BY <4>5 DEF Says
      <4>7. feed'[j] = feed[j] /\ j \in 1..Len(feed') BY UttersFacts
      <4>8. j < i BY <1>2, <3>3
      <4> QED BY <4>6, <4>7, <4>8 DEF IsApart, IsEnd
    <3> QED BY <3>2, <3>3
  <2> QED BY <2>1, <2>2
<1>9. ASSUME NEW c \in Legs, NEW d \in Legs, SharesPhone(c, d), ~Says(feed', "create", c),
             ~Says(feed', "create", d), IsCurrent(feed, c)', IsCurrent(feed, d)'
      PROVE  FALSE
  <2>1. \A b \in {c, d} : chan[b] # "none" BY <1>4, <1>5, <1>9, UttersCurrent DEF IsCurrent
  <2>2. IsCurrent(feed, c) /\ IsCurrent(feed, d) BY <1>4, <1>9, <2>1, UttersCurrent
  <2> QED BY <1>2, <1>5, <1>9, <2>2 DEF KeptApart
<1>10. KeptApart(feed)'
  <2>1. \A i, d : IsApart(feed, i, d)' <=> IsApart(feed', i, d) BY DEF IsApart, IsEnd
  <2>2. \A c : Says(feed, "create", c)' <=> Says(feed', "create", c) BY DEF Says
  <2>3. \A i \in 1..Len(feed') : \A d : SharesPhone(feed[i].chan, d)' <=> SharesPhone(feed'[i].chan, d)
    BY <1>3 DEF SharesPhone, AgentOf
  <2>4. \A i \in 1..Len(feed') : feed'[i].kind = "create" =>
            \A d \in Legs : SharesPhone(feed[i].chan, d)' /\ IsCurrent(feed, d)' => IsApart(feed, i, d)'
    BY <1>8, <2>1, <2>3
  <2>5. \A c, d \in Legs : SharesPhone(c, d)' /\ IsCurrent(feed, c)' /\ IsCurrent(feed, d)' =>
                               Says(feed, "create", c)' \/ Says(feed, "create", d)'
    BY <1>6, <1>9, <2>2
  <2> QED BY <1>3, <2>4, <2>5 DEF KeptApart
<1> QED BY <1>7, <1>10

LEMMA MergeOnCall ==
    ASSUME NEW v, NEW w, NEW s \in States(v, w), NEW keep, NEW absorb, NEW late,
           NEW t, t = Merge(s, keep, absorb, late)
    PROVE  t.onCall = s.onCall
BY DEF Merge, States

\* Only a creation and an end change who is on the phone.
LEMMA FoundOnCall ==
    ASSUME State \in States(waiting, afterWork), NEW ev \in Events, ev.kind # "create",
           ev.kind = "bridge" => ev.other \in Channels, NEW late, NEW t, t = Found(ev, late)
    PROVE  t.onCall = onCall
<1> DEFINE m == First(ev, late)
           u == CreateCall(m, ev.id, TRUE)
<1>1. t = Reidentify(m, ev, late) /\ State.onCall = onCall BY DEF Found, State
<1>2. m.onCall = onCall /\ m \in States(waiting, afterWork)
  <2>1. CASE ev.kind = "bridge"
    <3>1. m = Join(State, ev, late) BY <2>1 DEF First
    <3> HIDE DEF m
    <3>2. m \in States(waiting, afterWork) BY <2>1, <3>1, JoinType
    <3> QED BY <1>1, <3>1, <3>2, MergeOnCall DEF Join
  <2>2. CASE ev.kind # "bridge"
    <3>1. m = State BY <2>2 DEF First
    <3> QED BY <1>1, <3>1
  <2> QED BY <2>1, <2>2
<1> HIDE DEF m
<1>3. CASE t = m BY <1>2, <1>3
<1>4. CASE ev.id # NoOne /\ t = Merge(u, ev.id, m.at[ev.chan], late)
  <2>1. ev.id \in CallIds BY <1>4 DEF Events, CallIds
  <2>2. u \in States(waiting, afterWork) BY <1>2, <2>1, CreateCallType
  <2>3. u.onCall = m.onCall BY <1>2 DEF CreateCall, States
  <2> HIDE DEF u
  <2> QED BY <1>2, <1>4, <2>2, <2>3, MergeOnCall
<1> QED BY <1>1, <1>3, <1>4 DEF Reidentify

LEMMA AdoptOnCall ==
    ASSUME NEW v, NEW w, NEW s \in States(v, w), NEW ev, NEW c \in Channels, c = ev.chan,
           AgentOf(c) \in Agents \cup {NoOne},
           NEW k \in CallIds, k = AdoptInto(s, ev), s.at[c] = NoOne, NEW late,
           \A j \in CallIds : c \notin DOMAIN s.call[j].party,
           NEW t, t = Adopt(s, ev, late)
    PROVE  /\ \A a \in Agents : s.onCall[a] => t.onCall[a]
           /\ (s.call[k].known => IsRunning(s.call, k)) /\ AgentOf(c) # NoOne => t.onCall[AgentOf(c)]
<1> DEFINE one == CreateCall(s, k, ev.id # NoOne)
           two == BindChannel(one, c, k)
           r == [two EXCEPT !.call[k].party = With(@, c, NewParty(@))]
<1>1. t = AddParty(two, k, c, late) BY DEF Adopt
<1>2. one \in States(v, w) BY CreateCallType
<1>3. two \in States(v, w) BY <1>2, BindChannelType
<1>4. /\ s.call[k].known => one.call[k] = s.call[k]
      /\ ~s.call[k].known => IsMade(one.call[k])
      /\ one.onCall = s.onCall
  <2>1. CASE s.call[k].known
    <3>1. one = s BY <2>1 DEF CreateCall
    <3> QED BY <2>1, <3>1
  <2>2. CASE ~s.call[k].known
    <3> DEFINE new == [NoCall EXCEPT !.known = TRUE, !.stopped = FALSE, !.ended = FALSE,
                                     !.minted = (ev.id # NoOne)]
    <3>1. one = [s EXCEPT !.call[k] = new] BY <2>2 DEF CreateCall
    <3>2. IsMade(new) BY DEF NoCall, IsMade
    <3> HIDE DEF new, one
    <3>3. one.call = [s.call EXCEPT ![k] = new] /\ one.onCall = s.onCall BY <3>1 DEF States
    <3>4. s.call \in [CallIds -> CallRecords] BY DEF States
    <3> QED BY <2>2, <3>2, <3>3, <3>4
  <2> QED BY <2>1, <2>2
<1> HIDE DEF one
<1>5. two.call = one.call /\ two.onCall = s.onCall BY <1>2, <1>4 DEF BindChannel, States
<1>6. c \notin DOMAIN two.call[k].party BY <1>4, <1>5 DEF IsMade
<1>7. (s.call[k].known => IsRunning(s.call, k)) => Runs(two, k, late)
  BY <1>4, <1>5 DEF IsMade, IsRunning, Runs
<1> HIDE DEF two
<1>8. t = IF Runs(two, k, late) THEN SetOnCall(r, AgentOf(c), TRUE) ELSE two
  BY <1>1, <1>6 DEF AddParty
<1>9. r.onCall = s.onCall /\ "onCall" \in DOMAIN r /\ s.onCall \in [Agents -> BOOLEAN]
  BY <1>3, <1>5 DEF States
<1> HIDE DEF r
<1>10. CASE ~Runs(two, k, late) BY <1>5, <1>7, <1>8, <1>10
<1>11. CASE Runs(two, k, late) /\ AgentOf(c) = NoOne
  <2>1. t = r BY <1>8, <1>11 DEF SetOnCall
  <2> QED BY <1>9, <1>11, <2>1
<1>12. CASE Runs(two, k, late) /\ AgentOf(c) # NoOne
  <2> DEFINE a == AgentOf(c)
  <2>1. t = [r EXCEPT !.onCall[a] = TRUE] BY <1>8, <1>12 DEF SetOnCall
  <2>2. a \in Agents BY <1>12
  <2> HIDE DEF a
  <2>3. t.onCall = [s.onCall EXCEPT ![a] = TRUE] BY <1>9, <2>1
  <2>4. t.onCall[a] = TRUE /\ \A b \in Agents : b # a => t.onCall[b] = s.onCall[b]
    BY <1>9, <2>2, <2>3
  <2> QED BY <2>4 DEF a
<1> QED BY <1>10, <1>11, <1>12

LEMMA SamePhone ==
    ASSUME scenario' = scenario, chan' = chan
    PROVE  /\ KeptApart(feed') => KeptApart(feed)'
           /\ OnPhone(onCall', feed') => OnPhone(onCall, feed)'
<1>1. Legs' = Legs /\ \A c : Leg(c)' = Leg(c) BY SamePlan
<1>2. \A kind, c : Says(feed, kind, c)' <=> Says(feed', kind, c) BY DEF Says
<1>3. \A c : IsCurrent(feed, c)' <=> IsCurrent(feed', c) BY <1>2 DEF IsOver, IsCurrent
<1>4. \A c : IsTended(feed, c)' <=> IsTended(feed', c) BY <1>1, <1>2, <1>3 DEF IsTended
<1>5. OnPhone(onCall', feed') => OnPhone(onCall, feed)' BY <1>1, <1>4 DEF OnPhone, AgentOf
<1>6. \A i, d : IsApart(feed, i, d)' <=> IsApart(feed', i, d) BY DEF IsApart, IsEnd
<1>7. \A c, d : SharesPhone(c, d)' <=> SharesPhone(c, d) BY <1>1 DEF SharesPhone, AgentOf
<1>8. \A i \in 1..Len(feed') : \A d : SharesPhone(feed[i].chan, d)' <=> SharesPhone(feed'[i].chan, d)
  BY <1>1 DEF SharesPhone, AgentOf
<1>9. KeptApart(feed') => KeptApart(feed)'
  <2> SUFFICES ASSUME KeptApart(feed') PROVE KeptApart(feed)' OBVIOUS
  <2>1. \A i \in 1..Len(feed') : feed'[i].kind = "create" =>
            \A d \in Legs : SharesPhone(feed[i].chan, d)' /\ IsCurrent(feed, d)' => IsApart(feed, i, d)'
    BY <1>3, <1>6, <1>8 DEF KeptApart
  <2>2. \A c, d \in Legs : SharesPhone(c, d)' /\ IsCurrent(feed, c)' /\ IsCurrent(feed, d)' =>
                               Says(feed, "create", c)' \/ Says(feed, "create", d)'
    BY <1>2, <1>3, <1>7 DEF KeptApart
  <2> QED BY <1>1, <2>1, <2>2 DEF KeptApart
<1> QED BY <1>5, <1>9

LEMMA PhoneKept ==
    ASSUME PhoneInv, SameFaults, UNCHANGED <<scenario, chan, feed, onCall>> PROVE PhoneInv'
<1>1. Unbroken' <=> Unbroken BY DEF Unbroken, SameFaults
<1> QED BY <1>1, SamePhone DEF PhoneInv

LEMMA HandlePhone ==
    ASSUME Steady, PhoneInv, Handle PROVE PhoneInv'
<1> DEFINE ev == Head(feed)
<1>1. /\ feed # <<>> /\ feed' = Tail(feed) /\ UNCHANGED <<scenario, spent, chan>>
      /\ \A k \in Awaited(ev) : call[k].stopped \/ call[k].mailbox = <<>>
  BY DEF Handle
<1>2. PICK late \in BOOLEAN : onCall' = HandleResult(ev, late).onCall BY DEF Handle
<1>3. Unbroken' <=> Unbroken BY <1>1 DEF Unbroken
<1> SUFFICES ASSUME Unbroken PROVE KeptApart(feed') /\ OnPhone(onCall', feed')
  BY <1>1, <1>3, SamePhone DEF PhoneInv
<1>4. /\ Conversations /\ MintedOnce /\ scenario \in Scenarios /\ feed \in Seq(Events)
      /\ Story(feed) /\ Ordered(feed) /\ Following(call, at, feed) /\ Sound(State, feed)
      /\ State \in States(waiting, afterWork) /\ State.call = call /\ State.at = at
      /\ KeptApart(feed) /\ OnPhone(onCall, feed)
  BY SteadyFacts DEF Steady, FollowInv, PhoneInv
<1>5. KeptApart(feed') BY <1>1, <1>4, ApartTail
<1> DEFINE n == Found(ev, late)
           t == HandleResult(ev, late)
<1>6. /\ ev \in Events /\ IsTrue(ev) /\ ev.chan \in Legs /\ ev.chan \in Channels
      /\ IsCurrent(feed, ev.chan) /\ (ev.kind # "create" => ~Says(feed, "create", ev.chan))
      /\ ev.kind = "bridge" => ev.other \in Channels
  BY <1>1, <1>4, HeadOf, PlanFacts DEF IsTrue
<1>7. n \in States(waiting, afterWork) BY <1>1, <1>4, FoundIs
<1>8. t.onCall = IF AgentLegEnded(n, ev, late)
                 THEN [n.onCall EXCEPT ![AgentOf(ev.chan)] = FALSE] ELSE n.onCall
  <2>1. n = Found(ev, late) /\ t = HandleResult(ev, late) OBVIOUS
  <2> HIDE DEF n, t, ev
  <2>2. PhoneAfter(t, n, ev, late) BY <1>6, <1>7, <2>1, ResultIs
  <2> QED BY <2>2 DEF PhoneAfter
<1>9. \A c \in Legs : AgentOf(c) \in Agents \cup {NoOne}
  <2>1. \A c \in Legs : Leg(c) \in LegKinds BY <1>4, PlanType
  <2> QED BY <2>1 DEF AgentOf, LegKinds
<1>10. ASSUME NEW c \in Legs, IsTended(Tail(feed), c), AgentOf(c) # NoOne
       PROVE  n.onCall[AgentOf(c)]
  <2>1. CASE ev.kind = "create"
    <3>1. n = First(ev, late) BY <1>1, <1>4, <2>1, FoundIs
    <3>2. n = Adopt(State, ev, late) BY <2>1, <3>1 DEF First
    <3>3. State.at[ev.chan] = NoOne /\ \A j \in CallIds : ev.chan \notin DOMAIN State.call[j].party
      <4>1. Says(feed, "create", ev.chan) BY <1>1, <1>4, <2>1, SaysTail
      <4> QED BY <1>4, <1>6, <4>1 DEF Sound, Accounted, Births, IsNew, Has
    <3> DEFINE k == AdoptInto(State, ev)
    <3>4. k \in CallIds BY <1>1, <1>4, <1>6, <2>1, AdoptsInto
    <3>5. IsTended(Tail(feed), ev.chan) /\ State.call[k].known => IsRunning(State.call, k)
      <4>1. Following(State.call, State.at, feed) BY <1>4
      <4> QED BY <1>1, <1>4, <2>1, <4>1, AdoptedRuns
    <3>a. k = AdoptInto(State, ev) /\ State.onCall = onCall BY DEF State
    <3> HIDE DEF n, k, ev
    <3>6. /\ \A a \in Agents : State.onCall[a] => n.onCall[a]
          /\ (State.call[k].known => IsRunning(State.call, k)) /\ AgentOf(ev.chan) # NoOne =>
                 n.onCall[AgentOf(ev.chan)]
      BY <1>4, <1>6, <1>9, <3>2, <3>3, <3>4, <3>a, AdoptOnCall
    <3>7. CASE c = ev.chan BY <1>10, <3>5, <3>6, <3>7
    <3>8. CASE c # ev.chan
      <4>1. IsTended(feed, c) BY <1>1, <1>4, <1>10, <3>8, TendedBefore DEF ev
      <4>2. onCall[AgentOf(c)] BY <1>4, <1>10, <4>1 DEF OnPhone
      <4> QED BY <1>9, <1>10, <3>6, <3>a, <4>2
    <3> QED BY <3>7, <3>8
  <2>2. CASE ev.kind # "create"
    <3>1. n.onCall = onCall BY <1>4, <1>6, <2>2, FoundOnCall
    <3>2. IsTended(feed, c) BY <1>1, <1>4, <1>10, <2>2, TendedBefore
    <3> QED BY <1>4, <1>10, <3>1, <3>2 DEF OnPhone
  <2> QED BY <2>1, <2>2
<1>11. ASSUME NEW c \in Legs, IsTended(Tail(feed), c), AgentOf(c) # NoOne, AgentLegEnded(n, ev, late)
       PROVE  AgentOf(c) # AgentOf(ev.chan)
  <2>1. ev.kind = "hangup" BY <1>11 DEF AgentLegEnded
  <2>2. IsTended(feed, c) /\ c # ev.chan BY <1>1, <1>4, <1>11, <2>1, TendedBefore DEF IsEnd
  <2>3. ~SharesPhone(c, ev.chan) BY <1>4, <1>6, <2>1, <2>2 DEF KeptApart, IsTended
  <2> QED BY <1>11, <2>2, <2>3 DEF SharesPhone
<1>12. OnPhone(t.onCall, Tail(feed))
  <2> SUFFICES ASSUME NEW c \in Legs, IsTended(Tail(feed), c), AgentOf(c) # NoOne
               PROVE  t.onCall[AgentOf(c)]
    BY DEF OnPhone
  <2>1. n.onCall[AgentOf(c)] BY <1>10
  <2>2. n.onCall \in [Agents -> BOOLEAN] /\ AgentOf(c) \in Agents BY <1>7, <1>9 DEF States
  <2> HIDE DEF n, t
  <2>3. CASE AgentLegEnded(n, ev, late)
    <3>1. AgentOf(c) # AgentOf(ev.chan) BY <1>11, <2>3
    <3> QED BY <1>8, <2>1, <2>2, <2>3, <3>1
  <2>4. CASE ~AgentLegEnded(n, ev, late) BY <1>8, <2>1, <2>4
  <2> QED BY <2>3, <2>4
<1>13. OnPhone(onCall', feed') BY <1>1, <1>2, <1>12
<1> QED BY <1>5, <1>13

-----------------------------------------------------------------------------
(***************************************************************************)
(* Bridged legs.                                                           *)
(***************************************************************************)
TellsBridge(q, c, d) == \E i \in 1..Len(q) : IsBridgeOf(q[i], c, d)

IsTalking(r, c) == r.party[c].state = "TALKING"

\* Both legs are on one call, and talk on it or will once it has run what was
\* posted to it.
Talk(cl, b, c, d) ==
    /\ b[c] # NoOne /\ b[d] = b[c]
    /\ TellsBridge(cl[b[c]].mailbox, c, d) \/ (IsTalking(cl[b[c]], c) /\ IsTalking(cl[b[c]], d))

Talking(cl, b, q) ==
    \A c \in Channels : peer[c] # NoOne => TellsBridge(q, c, peer[c]) \/ Talk(cl, b, c, peer[c])

TalkInv == Unbroken => Talking(call, at, feed)

\* Bridged legs whose bridge has been handled are tended.
LEMMA TalkersTended ==
    ASSUME Steady, NEW c \in Channels, NEW d, d = peer[c], d # NoOne, Talk(call, at, c, d)
    PROVE  /\ c \in Legs /\ d \in Legs /\ d \in Channels /\ chan[c] # "gone" /\ chan[d] # "gone"
           /\ IsTended(feed, c) /\ IsTended(feed, d)
<1>1. Bridges /\ scenario \in Scenarios /\ Conversations BY SteadyFacts DEF Steady, RowsInv
<1>2. c \in Up /\ d \in Up /\ (Leg(c).from = d \/ Leg(d).from = c) BY <1>1 DEF Bridges
<1>3. /\ c \in Legs /\ d \in Legs /\ d \in Channels /\ NoOne \notin Channels
      /\ IsCurrent(feed, c) /\ IsCurrent(feed, d) /\ chan[c] # "gone" /\ chan[d] # "gone"
  BY <1>2, CallsAssumption DEF Up, Legs, IsCurrent, IsOver
<1>4. ~Says(feed, "create", c) /\ ~Says(feed, "create", d)
  BY <1>3, SteadyFacts DEF Talk, Accounted, Births, IsNew
<1>5. \A b \in {c, d} : Leg(b).from # NoOne => Leg(Leg(b).from).from = NoOne BY <1>1, <1>3, PlanFacts
<1> QED BY <1>2, <1>3, <1>4, <1>5 DEF IsTended

\* A merge moves two legs that talk together.
LEMMA TalkTakenOver ==
    ASSUME NEW v, NEW w, NEW s \in States(v, w), NEW q, Registered(s.call, s.at),
           Tended(s.call, s.at, q), NEW t, NEW keep, NEW absorb, TakesOver(s, t, q, keep, absorb),
           NEW c \in Legs, NEW d \in Legs, IsTended(q, c), Talk(s.call, s.at, c, d)
    PROVE  Talk(t.call, t.at, c, d)
<1>0. c \in Channels /\ d \in Channels /\ s.at \in [Channels -> CallIds \cup {NoOne}] /\ NoOne \notin CallIds
  BY CallsAssumption DEF States, CallIds, Legs
<1> DEFINE k == s.at[c]
<1>1. k # NoOne /\ k \in CallIds /\ s.at[d] = k /\ IsRunning(s.call, k)
  BY <1>0 DEF Talk, Tended
<1>2. /\ keep \in CallIds /\ absorb \in CallIds /\ keep # absorb
      /\ \A b \in Channels : t.at[b] = IF s.at[b] = absorb THEN keep ELSE s.at[b]
      /\ t.call[k].mailbox = s.call[k].mailbox
      /\ k # keep => t.call[k].party = s.call[k].party
      /\ t.call[keep].party = Union(s.call[keep].party, s.call[absorb].party)
  BY <1>1 DEF TakesOver
<1>3. \A j \in CallIds : IsRunning(s.call, j) => \A b \in Channels : s.at[b] = j <=> b \in DOMAIN s.call[j].party
  BY DEF Registered, Bindings, Has
<1>4. CASE k = absorb
  <2>1. t.at[c] = keep /\ t.at[d] = keep /\ keep # NoOne BY <1>0, <1>1, <1>2, <1>4
  <2>2. IsRunning(s.call, keep) /\ Len(s.call[absorb].mailbox) = 0 BY <1>4 DEF TakesOver
  <2>3. /\ c \in DOMAIN s.call[absorb].party /\ d \in DOMAIN s.call[absorb].party
        /\ c \notin DOMAIN s.call[keep].party /\ d \notin DOMAIN s.call[keep].party
    BY <1>0, <1>1, <1>2, <1>3, <1>4, <2>2
  <2>4. ~TellsBridge(s.call[absorb].mailbox, c, d) BY <2>2 DEF TellsBridge
  <2>5. IsTalking(s.call[absorb], c) /\ IsTalking(s.call[absorb], d) BY <1>4, <2>4 DEF Talk
  <2>6. /\ t.call[keep].party[c] = s.call[absorb].party[c]
        /\ t.call[keep].party[d] = s.call[absorb].party[d]
    BY <1>2, <2>3 DEF Union
  <2> QED BY <2>1, <2>5, <2>6 DEF Talk, IsTalking
<1>5. CASE k # absorb
  <2>1. t.at[c] = k /\ t.at[d] = k BY <1>0, <1>1, <1>2, <1>5
  <2>2. c \in DOMAIN s.call[k].party /\ d \in DOMAIN s.call[k].party BY <1>0, <1>1, <1>3
  <2>3. t.call[k].party[c] = s.call[k].party[c] /\ t.call[k].party[d] = s.call[k].party[d]
    <3>1. CASE k = keep BY <1>2, <2>2, <3>1 DEF Union
    <3>2. CASE k # keep BY <1>2, <3>2
    <3> QED BY <3>1, <3>2
  <2> QED BY <1>1, <1>2, <2>1, <2>3 DEF Talk, IsTalking
<1> QED BY <1>4, <1>5

LEMMA TellsBridgeTail ==
    ASSUME NEW q \in Seq(Events), q # <<>>, NEW c, NEW d, TellsBridge(q, c, d)
    PROVE  IsBridgeOf(Head(q), c, d) \/ TellsBridge(Tail(q), c, d)
<1>1. PICK i \in 1..Len(q) : IsBridgeOf(q[i], c, d) BY DEF TellsBridge
<1>2. CASE i = 1 BY <1>1, <1>2, TailIs
<1>3. CASE i # 1
  <2>1. i - 1 \in 1..Len(Tail(q)) /\ Tail(q)[i - 1] = q[i] BY <1>3, TailIs
  <2> QED BY <1>1, <2>1 DEF TellsBridge
<1> QED BY <1>2, <1>3

LEMMA TellsBridgeMore ==
    ASSUME NEW q \in Seq(Events), NEW ev \in Events, NEW c, NEW d
    PROVE  /\ TellsBridge(q, c, d) => TellsBridge(Append(q, ev), c, d)
           /\ IsBridgeOf(ev, c, d) => TellsBridge(Append(q, ev), c, d)
<1> DEFINE r == Append(q, ev)
<1>1. /\ Len(q) \in Nat /\ Len(r) = Len(q) + 1 /\ r[Len(q) + 1] = ev
      /\ \A i \in 1..Len(q) : r[i] = q[i]
  OBVIOUS
<1> HIDE DEF r
<1>2. \A i \in 1..Len(q) : i \in 1..Len(r) BY <1>1
<1>3. Len(q) + 1 \in 1..Len(r) BY <1>1
<1>4. TellsBridge(q, c, d) => TellsBridge(r, c, d) BY <1>1, <1>2 DEF TellsBridge
<1>5. IsBridgeOf(ev, c, d) => TellsBridge(r, c, d) BY <1>1, <1>3 DEF TellsBridge
<1> QED BY <1>4, <1>5 DEF r

LEMMA UttersTalk ==
    ASSUME Steady, TalkInv, spent' = spent, NEW e, Utters(e) PROVE TalkInv'
<1>1. Unbroken' <=> Unbroken BY DEF Unbroken
<1> SUFFICES ASSUME Unbroken, NEW c \in Channels, peer'[c] # NoOne
             PROVE  TellsBridge(feed', c, peer'[c]) \/ Talk(call', at', c, peer'[c])
  BY <1>1 DEF TalkInv, Talking, TellsBridge, IsBridgeOf, Talk, IsTalking
<1>2. call' = call /\ at' = at BY UttersFacts
<1>3. CASE peer'[c] = peer[c]
  <2>1. TellsBridge(feed, c, peer[c]) \/ Talk(call, at, c, peer[c]) BY <1>3 DEF TalkInv, Talking
  <2>2. \A i \in 1..Len(feed) : feed'[i] = feed[i] /\ i \in 1..Len(feed') BY UttersFacts
  <2> QED BY <1>2, <1>3, <2>1, <2>2 DEF TellsBridge
<1>4. CASE \E i \in 1..Len(e) : IsBridgeOf(e[i], c, peer'[c])
  <2>1. \A i \in 1..Len(e) : feed'[Len(feed) + i] = e[i] /\ Len(feed) + i \in 1..Len(feed')
    BY UttersFacts
  <2> QED BY <1>4, <2>1 DEF TellsBridge
<1> QED BY <1>3, <1>4 DEF Utters

LEMMA SameTalk ==
    ASSUME peer' = peer, SameFaults, Unbroken => Talking(call', at', feed') PROVE TalkInv'
<1>1. Unbroken' <=> Unbroken BY DEF Unbroken, SameFaults
<1> QED BY <1>1 DEF TalkInv, Talking, TellsBridge, IsBridgeOf, Talk, IsTalking

\* Two legs that talk, through the creation of another.
LEMMA TalkAdopted ==
    ASSUME NEW v, NEW w, NEW s \in States(v, w), NEW ev, NEW e \in Channels, e = ev.chan,
           NEW k \in CallIds, k = AdoptInto(s, ev), s.at[e] = NoOne, NEW late,
           \A j \in CallIds : e \notin DOMAIN s.call[j].party,
           NEW t, t = Adopt(s, ev, late), Registered(s.call, s.at),
           NEW c \in Channels, NEW d \in Channels, IsRunning(s.call, s.at[c]),
           Talk(s.call, s.at, c, d)
    PROVE  Talk(t.call, t.at, c, d)
<1>1. /\ t.at = [s.at EXCEPT ![e] = k]
      /\ \A j \in CallIds : j # k => t.call[j] = s.call[j]
      /\ s.call[k].known => IF Runs(s, k, late) THEN Adds(t.call[k], s.call[k], e)
                            ELSE t.call[k] = s.call[k]
  BY AdoptEffect
<1>2. /\ s.at \in [Channels -> CallIds \cup {NoOne}] /\ s.at[c] # NoOne /\ s.at[d] = s.at[c]
      /\ s.at[c] \in CallIds /\ s.call[s.at[c]].known
  BY DEF States, Talk, IsRunning
<1>3. t.at[c] = s.at[c] /\ t.at[d] = s.at[c] BY <1>1, <1>2
<1>4. c \in DOMAIN s.call[s.at[c]].party /\ d \in DOMAIN s.call[s.at[c]].party
  BY <1>2 DEF Registered, Bindings, Has
<1>5. /\ t.call[s.at[c]].mailbox = s.call[s.at[c]].mailbox
      /\ \A b \in DOMAIN s.call[s.at[c]].party :
             t.call[s.at[c]].party[b] = s.call[s.at[c]].party[b]
  <2>1. CASE s.at[c] # k BY <1>1, <1>2, <2>1
  <2>2. CASE s.at[c] = k /\ Runs(s, k, late)
    <3>1. Adds(t.call[k], s.call[k], e) BY <1>1, <1>2, <2>2
    <3> QED BY <2>2, <3>1 DEF Adds
  <2>3. CASE s.at[c] = k /\ ~Runs(s, k, late) BY <1>1, <1>2, <2>3
  <2> QED BY <2>1, <2>2, <2>3
<1> QED BY <1>2, <1>3, <1>4, <1>5 DEF Talk, IsTalking

LEMMA TalkPosted ==
    ASSUME NEW v, NEW w, NEW n \in States(v, w), NEW ev \in Events, NEW t, Posts(t, n, ev),
           NEW c \in Channels, NEW d \in Channels
    PROVE  /\ Talk(n.call, n.at, c, d) => Talk(t.call, t.at, c, d)
           /\ /\ IsBridgeOf(ev, c, d) /\ n.at[c] = n.at[d] /\ n.at[c] # NoOne
              /\ ~n.call[n.at[c]].stopped
              => Talk(t.call, t.at, c, d)
<1>1. n.at[c] # NoOne => n.at[c] \in CallIds /\ n.call[n.at[c]].mailbox \in Seq(Events)
  BY DEF States, CallRecords
<1>2. ASSUME n.at[c] # NoOne
      PROVE  /\ TellsBridge(n.call[n.at[c]].mailbox, c, d) => TellsBridge(t.call[n.at[c]].mailbox, c, d)
             /\ n.at[c] = n.at[ev.chan] /\ ~n.call[n.at[c]].stopped /\ IsBridgeOf(ev, c, d) =>
                    TellsBridge(t.call[n.at[c]].mailbox, c, d)
             /\ t.call[n.at[c]].party = n.call[n.at[c]].party
  <2>1. /\ t.call[n.at[c]].party = n.call[n.at[c]].party
        /\ t.call[n.at[c]].mailbox = IF n.at[c] = n.at[ev.chan] /\ ~n.call[n.at[c]].stopped
                                     THEN Append(n.call[n.at[c]].mailbox, ev)
                                     ELSE n.call[n.at[c]].mailbox
    BY <1>1, <1>2 DEF Posts
  <2> QED BY <1>1, <1>2, <2>1, TellsBridgeMore
<1>3. t.at = n.at BY DEF Posts
<1>4. Talk(n.call, n.at, c, d) => Talk(t.call, t.at, c, d) BY <1>2, <1>3 DEF Talk, IsTalking
<1>5. ASSUME IsBridgeOf(ev, c, d), n.at[c] = n.at[d], n.at[c] # NoOne, ~n.call[n.at[c]].stopped
      PROVE  Talk(t.call, t.at, c, d)
  <2>1. n.at[ev.chan] = n.at[c] BY <1>5 DEF IsBridgeOf
  <2> QED BY <1>2, <1>3, <1>5, <2>1 DEF Talk
<1> QED BY <1>4, <1>5

LEMMA HandleTalk ==
    ASSUME Steady, TalkInv, Handle PROVE TalkInv'
<1> DEFINE ev == Head(feed)
<1>1. /\ feed # <<>> /\ feed' = Tail(feed) /\ UNCHANGED <<scenario, spent, chan, peer>>
      /\ \A k \in Awaited(ev) : call[k].stopped \/ call[k].mailbox = <<>>
  BY DEF Handle
<1>2. PICK late \in BOOLEAN : call' = HandleResult(ev, late).call /\ at' = HandleResult(ev, late).at
  BY DEF Handle
<1> SUFFICES ASSUME Unbroken, NEW c \in Channels, peer[c] # NoOne
             PROVE  TellsBridge(feed', c, peer[c]) \/ Talk(call', at', c, peer[c])
  BY <1>1, SameTalk DEF Talking, SameFaults
<1>4. /\ Conversations /\ MintedOnce /\ scenario \in Scenarios /\ feed \in Seq(Events)
      /\ Story(feed) /\ Ordered(feed) /\ Following(call, at, feed) /\ Sound(State, feed)
      /\ State \in States(waiting, afterWork) /\ State.call = call /\ State.at = at
      /\ Talking(call, at, feed)
  BY SteadyFacts DEF Steady, FollowInv, TalkInv
<1> DEFINE d == peer[c]
           m == First(ev, late)
           n == Found(ev, late)
           t == HandleResult(ev, late)
<1>5. /\ ev \in Events /\ IsTrue(ev) /\ ev.chan \in Legs /\ ev.chan \in Channels
      /\ ev.kind = "bridge" => ev.other \in Channels
  BY <1>1, <1>4, HeadOf, PlanFacts DEF IsTrue
<1>6. /\ n \in States(waiting, afterWork)
      /\ ev.kind = "create" => n = m
      /\ ev.kind # "create" => (Renames(m, n, feed, ev) \/ n = m) /\ Following(n.call, n.at, feed)
  BY <1>1, <1>4, FoundIs
<1>7. ev.kind # "create" =>
          /\ m \in States(waiting, afterWork) /\ Sound(m, feed) /\ Following(m.call, m.at, feed)
          /\ MayTakeOver(State, m, feed, ev)
          /\ ev.kind = "bridge" => m.at[ev.chan] = m.at[ev.other]
  BY <1>1, <1>4, FirstIs
<1>8. Posts(t, n, ev)
  <2>1. n = Found(ev, late) /\ t = HandleResult(ev, late) OBVIOUS
  <2> HIDE DEF n, t, ev
  <2> QED BY <1>5, <1>6, <2>1, ResultIs
<1>9. d \in Channels /\ c \in Legs /\ d \in Legs
  BY SteadyFacts DEF Steady, RowsInv, Bridges, Up, Legs
<1>10. CASE TellsBridge(feed, c, d) /\ ~IsBridgeOf(ev, c, d)
  BY <1>1, <1>4, <1>10, TellsBridgeTail
<1>11. CASE IsBridgeOf(ev, c, d)
  <2>1. ev.kind = "bridge" BY <1>11 DEF IsBridgeOf
  <2>2. n.at[ev.chan] = n.at[ev.other]
    <3>1. CASE n = m BY <1>7, <2>1, <3>1
    <3>2. CASE Renames(m, n, feed, ev)
      <4>1. TakesOver(CallFor(m, ev.id), n, feed, ev.id, m.at[ev.chan]) BY <3>2 DEF Renames
      <4>2. CallFor(m, ev.id).at = m.at
        <5>1. ev.id \in Ids BY <1>5, <3>2 DEF Renames, Events
        <5> QED BY <1>4, <1>7, <2>1, <5>1, CallForStands DEF Following
      <4>3. m.at[ev.chan] = m.at[ev.other] BY <1>7, <2>1
      <4> HIDE DEF m, n, ev
      <4> QED BY <1>5, <2>1, <4>1, <4>2, <4>3 DEF TakesOver
    <3> QED BY <1>6, <2>1, <3>1, <3>2
  <2>3. IsTended(feed, ev.chan) BY <1>1, <1>4, <2>1, BridgeTended
  <2>4. n.at[ev.chan] # NoOne /\ ~n.call[n.at[ev.chan]].stopped
    BY <1>5, <1>6, <2>1, <2>3 DEF Following, Standing, Tended, IsRunning
  <2> HIDE DEF n, t, ev
  <2>5. n.at[c] = n.at[d] /\ n.at[c] # NoOne /\ ~n.call[n.at[c]].stopped
    BY <1>11, <2>2, <2>4 DEF IsBridgeOf
  <2>6. Talk(t.call, t.at, c, d) BY <1>5, <1>6, <1>8, <1>9, <1>11, <2>5, TalkPosted
  <2> QED BY <1>2, <2>6 DEF t
<1>12. CASE Talk(call, at, c, d)
  <2>1. IsTended(feed, c) BY <1>12, TalkersTended
  <2>2. IsRunning(call, at[c]) BY <1>4, <1>9, <2>1 DEF Following, Standing, Tended
  <2>3. Talk(m.call, m.at, c, d)
    <3>1. CASE ev.kind = "create"
      <4>1. m = Adopt(State, ev, late) BY <3>1 DEF First
      <4>2. at[ev.chan] = NoOne /\ \A j \in CallIds : ev.chan \notin DOMAIN call[j].party
        <5>1. Says(feed, "create", ev.chan) BY <1>1, <1>4, <3>1, SaysTail
        <5> QED BY <1>4, <1>5, <5>1 DEF Sound, Accounted, Births, IsNew, Has
      <4> DEFINE k == AdoptInto(State, ev)
      <4>3. k \in CallIds BY <1>1, <1>4, <1>5, <3>1, AdoptsInto
      <4>4. k = AdoptInto(State, ev) OBVIOUS
      <4>5. Talk(State.call, State.at, c, d) /\ Registered(State.call, State.at)
        BY <1>4, <1>12 DEF Sound
      <4> HIDE DEF m, k, ev
      <4> QED BY <1>4, <1>5, <1>9, <2>2, <4>1, <4>2, <4>3, <4>4, <4>5, TalkAdopted
    <3>2. CASE ev.kind # "create"
      <4>1. MayTakeOver(State, m, feed, ev) BY <1>7, <3>2
      <4>2. Talk(State.call, State.at, c, d) /\ Registered(State.call, State.at)
            /\ Tended(State.call, State.at, feed)
        BY <1>4, <1>12 DEF Sound, Following, Standing
      <4> HIDE DEF m, ev
      <4>3. ASSUME NEW keep, NEW absorb, TakesOver(State, m, feed, keep, absorb)
            PROVE  Talk(m.call, m.at, c, d)
        BY <1>4, <1>9, <2>1, <4>2, <4>3, TalkTakenOver
      <4> QED BY <4>1, <4>2, <4>3 DEF MayTakeOver
    <3> QED BY <3>1, <3>2
  <2>4. Talk(n.call, n.at, c, d)
    <3>1. CASE n = m BY <2>3, <3>1
    <3>2. CASE Renames(m, n, feed, ev) /\ ev.kind # "create"
      <4> DEFINE u == CallFor(m, ev.id)
      <4>1. TakesOver(u, n, feed, ev.id, m.at[ev.chan]) /\ ev.id \in Ids
        BY <1>5, <3>2 DEF Renames, Events
      <4>2. /\ u.at = m.at /\ Standing(u.call, u.at, feed)
            /\ \A j \in CallIds : IsRunning(m.call, j) => u.call[j] = m.call[j]
        BY <1>4, <1>7, <3>2, <4>1, CallForStands DEF Following
      <4>3. u \in States(waiting, afterWork) /\ Registered(u.call, u.at)
        BY <1>4, <1>7, <3>2, <4>1, CreateCallType, CreateKeeps DEF CallIds, CallFor, Sound
      <4>4. IsRunning(m.call, m.at[c]) /\ m.at[c] \in CallIds
        <5>1. m.at[c] # NoOne /\ IsRunning(m.call, m.at[c])
          BY <1>7, <1>9, <2>1, <3>2 DEF Following, Standing, Tended
        <5> QED BY <1>7, <3>2, <5>1 DEF States
      <4> HIDE DEF u, m, n, ev
      <4>5. u.call[m.at[c]] = m.call[m.at[c]] BY <4>2, <4>4
      <4>6. Talk(u.call, u.at, c, d) BY <2>3, <4>2, <4>5 DEF Talk
      <4>7. Tended(u.call, u.at, feed) BY <4>2 DEF Standing
      <4> QED BY <1>9, <2>1, <4>1, <4>3, <4>6, <4>7, TalkTakenOver
    <3> QED BY <1>6, <3>1, <3>2
  <2> HIDE DEF n, t, ev
  <2>5. Talk(t.call, t.at, c, d) BY <1>5, <1>6, <1>8, <1>9, <2>4, TalkPosted
  <2> QED BY <1>2, <2>5 DEF t
<1> QED BY <1>4, <1>10, <1>11, <1>12 DEF Talking

LEMMA MovedTalks ==
    ASSUME NEW f \in PartyMaps, NEW ev, NEW c \in DOMAIN f
    PROVE  /\ f[c].state = "TALKING" /\ ~IsEnd(ev, c) => Moved(f, ev)[c].state = "TALKING"
           /\ ev.kind = "bridge" /\ c \in {ev.chan, ev.other} /\ f[c].state # "RELEASED" =>
                  Moved(f, ev)[c].state = "TALKING"
<1>1. f[c] \in Parties BY PartyMapIs
<1>2. CASE ev.kind = "answer" /\ c = ev.chan BY <1>1, <1>2 DEF Moved, Parties, IsEnd
<1>3. CASE ev.kind = "bridge" /\ c \in {ev.chan, ev.other}
  <2>1. Moved(f, ev)[c] = Establish(f[c]) BY <1>3 DEF Moved
  <2> QED BY <1>1, <1>3, <2>1 DEF Establish, Parties, PartyStates, IsEnd
<1>4. CASE ev.kind = "hangup" /\ c = ev.chan BY <1>4 DEF IsEnd
<1>5. CASE /\ ~(ev.kind = "answer" /\ c = ev.chan)
           /\ ~(ev.kind = "bridge" /\ c \in {ev.chan, ev.other})
           /\ ~(ev.kind = "hangup" /\ c = ev.chan)
  BY <1>5 DEF Moved
<1> QED BY <1>2, <1>3, <1>4, <1>5

LEMMA ApplyParty ==
    ASSUME Inv, NEW k \in CallIds, ApplySwitchEvent(k), NEW ev, ev = Head(call[k].mailbox)
    PROVE  call'[k].party = IF ev.chan \in DOMAIN call[k].party THEN Moved(call[k].party, ev)
                            ELSE call[k].party
<1> DEFINE a == call[k]
           party == IF ev.chan \in DOMAIN a.party THEN Moved(a.party, ev) ELSE a.party
           claims == Settled(a.claims, ev)
           over == Finishes(a, ev)
           r == [a EXCEPT !.mailbox = Tail(@), !.claims = claims, !.party = party,
                          !.ended = @ \/ over, !.stopped = @ \/ over]
<1>1. call \in [CallIds -> CallRecords] /\ a \in CallRecords BY DEF Inv, TypedCalls
<1>2. call' = [call EXCEPT ![k] = r] BY DEF ApplySwitchEvent
<1> HIDE DEF party, claims, over
<1>3. r.party = party BY <1>1 DEF CallRecords
<1> HIDE DEF r
<1>4. call'[k] = r BY <1>1, <1>2
<1> QED BY <1>3, <1>4 DEF party

LEMMA ApplyTalk ==
    ASSUME Steady, TalkInv, NEW k \in CallIds, ApplySwitchEvent(k) PROVE TalkInv'
<1> DEFINE ev == Head(call[k].mailbox)
<1>1. UNCHANGED <<spent, peer, feed, at>> BY DEF ApplySwitchEvent, switchVars
<1> SUFFICES ASSUME Unbroken, NEW c \in Channels, peer[c] # NoOne
             PROVE  TellsBridge(feed, c, peer[c]) \/ Talk(call', at, c, peer[c])
  BY <1>1, SameTalk DEF Talking, SameFaults
<1> DEFINE d == peer[c]
<1>2. /\ call[k].known /\ call[k].mailbox \in Seq(Events) /\ call[k].mailbox # <<>>
      /\ call[k].party \in PartyMaps
      /\ \A j \in CallIds : j # k => call'[j] = call[j]
      /\ call'[k].mailbox = Tail(call[k].mailbox)
  BY ApplyEffect DEF Steady
<1>3. call'[k].party = IF ev.chan \in DOMAIN call[k].party THEN Moved(call[k].party, ev)
                       ELSE call[k].party
  BY ApplyParty DEF Steady
<1>4. Following(call, at, feed) /\ Registered(call, at) /\ Accounted(call, at, feed)
  BY SteadyFacts DEF Steady, FollowInv
<1>5. CASE TellsBridge(feed, c, d) BY <1>5
<1>6. CASE Talk(call, at, c, d)
  <2>1. /\ c \in Legs /\ d \in Legs /\ d \in Channels /\ IsTended(feed, c) /\ IsTended(feed, d)
        /\ chan[c] # "gone" /\ chan[d] # "gone"
    BY <1>6, TalkersTended
  <2>2. at[c] # NoOne /\ at[d] = at[c] /\ IsRunning(call, at[c]) /\ at[c] \in CallIds
    <3>1. at[c] # NoOne /\ at[d] = at[c] /\ IsRunning(call, at[c])
      BY <1>4, <1>6, <2>1 DEF Following, Standing, Tended, Talk
    <3> QED BY <3>1, SteadyFacts
  <2>3. CASE at[c] # k
    <3>1. call'[at[c]] = call[at[c]] BY <1>2, <2>2, <2>3
    <3> QED BY <1>6, <3>1 DEF Talk
  <2>4. CASE at[c] = k
    <3>1. c \in DOMAIN call[k].party /\ d \in DOMAIN call[k].party
      BY <1>4, <2>1, <2>2, <2>4 DEF Registered, Bindings, Has
    <3>2. \A b \in {c, d} : call[k].party[b].state # "RELEASED" /\ ~IsEnd(ev, b)
      <4> SUFFICES ASSUME NEW b \in {c, d} PROVE call[k].party[b].state # "RELEASED" /\ ~IsEnd(ev, b)
        OBVIOUS
      <4>1. ~IsDone(feed, b) BY <2>1 DEF IsDone
      <4>2. call[k].party[b].state # "RELEASED" BY <1>4, <2>1, <3>1, <4>1 DEF Accounted, Ends, Has
      <4>3. ~Says(call[k].mailbox, "hangup", b) BY <1>2, <1>4, <2>1, <4>1 DEF Accounted, Ends
      <4>4. ~IsEnd(ev, b) BY <1>2, <4>3, SaysTail DEF IsEnd
      <4> QED BY <4>2, <4>4
    <3>3. ASSUME NEW b \in {c, d}, IsTalking(call[k], b) PROVE IsTalking(call'[k], b)
      <4>1. Moved(call[k].party, ev)[b].state = "TALKING"
        BY <1>2, <3>1, <3>2, <3>3, MovedTalks DEF IsTalking
      <4> QED BY <1>3, <3>3, <4>1 DEF IsTalking
    <3>4. ASSUME NEW b \in {c, d}, IsBridgeOf(ev, c, d) PROVE IsTalking(call'[k], b)
      <4>1. ev.kind = "bridge" /\ b \in {ev.chan, ev.other} /\ ev.chan \in DOMAIN call[k].party
        BY <3>1, <3>4 DEF IsBridgeOf
      <4>2. Moved(call[k].party, ev)[b].state = "TALKING"
        BY <1>2, <3>1, <3>2, <4>1, MovedTalks
      <4> QED BY <1>3, <4>1, <4>2 DEF IsTalking
    <3>5. CASE TellsBridge(call[k].mailbox, c, d)
      <4>1. IsBridgeOf(ev, c, d) \/ TellsBridge(call'[k].mailbox, c, d)
        BY <1>2, <3>5, TellsBridgeTail
      <4> QED BY <2>2, <2>4, <3>4, <4>1 DEF Talk
    <3>6. CASE IsTalking(call[k], c) /\ IsTalking(call[k], d)
      BY <2>2, <2>4, <3>3, <3>6 DEF Talk
    <3> QED BY <1>6, <2>4, <3>5, <3>6 DEF Talk
  <2> QED BY <2>3, <2>4
<1> QED BY <1>5, <1>6 DEF TalkInv, Talking

LEMMA UnregisterTalk ==
    ASSUME Steady, TalkInv, NEW k \in CallIds, Unregister(k) PROVE TalkInv'
<1>1. UNCHANGED <<spent, peer, feed>> /\ call[k].stopped BY DEF Unregister, switchVars
<1>2. /\ \A j \in CallIds : j # k => call'[j] = call[j]
      /\ \A c \in Channels : at'[c] = IF at[c] = k THEN NoOne ELSE at[c]
  BY SteadyFacts DEF Unregister
<1> SUFFICES ASSUME Unbroken, NEW c \in Channels, peer[c] # NoOne
             PROVE  TellsBridge(feed, c, peer[c]) \/ Talk(call', at', c, peer[c])
  BY <1>1, SameTalk DEF Talking, SameFaults
<1> DEFINE d == peer[c]
<1>3. Following(call, at, feed) BY DEF Steady, FollowInv
<1>4. CASE TellsBridge(feed, c, d) BY <1>4
<1>5. CASE Talk(call, at, c, d)
  <2>1. c \in Legs /\ d \in Channels /\ IsTended(feed, c) BY <1>5, TalkersTended
  <2>2. at[c] # NoOne /\ at[d] = at[c] /\ IsRunning(call, at[c])
    BY <1>3, <1>5, <2>1 DEF Following, Standing, Tended, Talk
  <2>3. at[c] # k /\ at[c] \in CallIds BY <1>1, <2>2, SteadyFacts DEF IsRunning
  <2>4. at'[c] = at[c] /\ at'[d] = at[c] /\ call'[at[c]] = call[at[c]] BY <1>2, <2>1, <2>2, <2>3
  <2> QED BY <1>5, <2>2, <2>4 DEF Talk
<1> QED BY <1>4, <1>5 DEF TalkInv, Talking

LEMMA ClaimsTalk ==
    ASSUME Steady, TalkInv, SameFaults, UNCHANGED <<peer, feed, at>>,
           \A k \in CallIds : call'[k].mailbox = call[k].mailbox /\ call'[k].party = call[k].party
    PROVE  TalkInv'
<1> SUFFICES ASSUME Unbroken, NEW c \in Channels, peer[c] # NoOne
             PROVE  TellsBridge(feed, c, peer[c]) \/ Talk(call', at, c, peer[c])
  BY SameTalk DEF Talking
<1>1. at[c] # NoOne => at[c] \in CallIds BY SteadyFacts
<1>2. TellsBridge(feed, c, peer[c]) \/ Talk(call, at, c, peer[c]) BY DEF TalkInv, Talking
<1> QED BY <1>1, <1>2 DEF Talk, IsTalking

-----------------------------------------------------------------------------
(***************************************************************************)
(* The theorems about a link that never dropped.                           *)
(***************************************************************************)
FollowAll == FollowInv /\ PhoneInv /\ TalkInv

\* A step of a transfer's request touches the claims of its call and no more.
LEMMA ClaimsOnly ==
    ASSUME Inv, NEW k, NEW claims, call' = [call EXCEPT ![k] = [call[k] EXCEPT !.claims = claims]]
    PROVE  \A j \in CallIds : /\ call'[j].known = call[j].known
                              /\ call'[j].stopped = call[j].stopped
                              /\ call'[j].ended = call[j].ended
                              /\ call'[j].mailbox = call[j].mailbox
                              /\ call'[j].party = call[j].party
<1> SUFFICES ASSUME NEW j \in CallIds
             PROVE  /\ call'[j].known = call[j].known
                    /\ call'[j].stopped = call[j].stopped
                    /\ call'[j].ended = call[j].ended
                    /\ call'[j].mailbox = call[j].mailbox
                    /\ call'[j].party = call[j].party
  OBVIOUS
<1>1. call \in [CallIds -> CallRecords] /\ call[j] \in CallRecords BY DEF Inv, TypedCalls
<1>2. CASE j = k
  <2> DEFINE a == [call[j] EXCEPT !.claims = claims]
  <2>1. a.known = call[j].known /\ a.stopped = call[j].stopped /\ a.ended = call[j].ended
        /\ a.mailbox = call[j].mailbox /\ a.party = call[j].party
    BY <1>1 DEF CallRecords
  <2>2. call'[j] = a BY <1>1, <1>2
  <2> HIDE DEF a
  <2> QED BY <2>1, <2>2
<1>3. CASE j # k
  <2>1. call'[j] = call[j] BY <1>1, <1>3
  <2> QED BY <2>1
<1> QED BY <1>2, <1>3

LEMMA TransferClaims ==
    ASSUME Inv, NEW t \in Moves,
           \/ ClaimLapses(t) \/ (\E replied \in BOOLEAN : TransferReturns(t, replied))
           \/ (\E k \in CallIds, a \in Agents : SendTransfer(t, k, a))
    PROVE  \A k \in CallIds : /\ call'[k].known = call[k].known
                              /\ call'[k].stopped = call[k].stopped
                              /\ call'[k].ended = call[k].ended
                              /\ call'[k].mailbox = call[k].mailbox
                              /\ call'[k].party = call[k].party
<1>1. call' = call \/ \E k, claims : call' = [call EXCEPT ![k] = [call[k] EXCEPT !.claims = claims]]
  <2>1. CASE ClaimLapses(t)
    <3>1. PICK k \in CallIds : call' = [call EXCEPT ![k].claims = {x \in @ : x.move # t}]
      BY <2>1 DEF ClaimLapses
    <3>2. call' = [call EXCEPT ![k] = [call[k] EXCEPT !.claims = {x \in call[k].claims : x.move # t}]]
      BY <3>1
    <3> QED BY <3>2
  <2>2. ASSUME NEW replied \in BOOLEAN, TransferReturns(t, replied)
        PROVE  call' = call
               \/ \E k, claims : call' = [call EXCEPT ![k] = [call[k] EXCEPT !.claims = claims]]
    <3> DEFINE k == move[t].call
    <3>1. \/ call' = call \/ call' = [call EXCEPT ![k].claims = {x \in @ : x.move # t}]
      BY <2>2 DEF TransferReturns
    <3>2. call' = [call EXCEPT ![k].claims = {x \in @ : x.move # t}] =>
          call' = [call EXCEPT ![k] = [call[k] EXCEPT !.claims = {x \in call[k].claims : x.move # t}]]
      OBVIOUS
    <3> QED BY <3>1, <3>2
  <2>3. ASSUME NEW k \in CallIds, NEW a \in Agents, SendTransfer(t, k, a)
        PROVE  \E claims : call' = [call EXCEPT ![k] = [call[k] EXCEPT !.claims = claims]]
    <3>1. PICK c \in SurvivingLeg(k, a) :
              call' = [call EXCEPT ![k].claims = @ \cup {[chan |-> c, move |-> t]}]
      BY <2>3 DEF SendTransfer
    <3>2. call' = [call EXCEPT ![k] =
                      [call[k] EXCEPT !.claims = call[k].claims \cup {[chan |-> c, move |-> t]}]]
      BY <3>1
    <3> QED BY <3>2
  <2> QED BY <2>1, <2>2, <2>3
<1> QED BY <1>1, ClaimsOnly

LEMMA ClaimsFollow ==
    ASSUME Steady, FollowAll, SameFaults,
           UNCHANGED <<scenario, link, chan, queued, peer, feed, at, onCall>>,
           \A k \in CallIds : /\ call'[k].known = call[k].known
                              /\ call'[k].stopped = call[k].stopped
                              /\ call'[k].mailbox = call[k].mailbox
                              /\ call'[k].party = call[k].party
    PROVE  FollowAll'
<1>1. FollowInv' BY ClaimsSteady
<1>2. PhoneInv' BY PhoneKept DEF FollowAll
<1>3. TalkInv' BY ClaimsTalk DEF FollowAll
<1> QED BY <1>1, <1>2, <1>3 DEF FollowAll

LEMMA TransferFollow ==
    ASSUME Steady, FollowAll, NEW t \in Moves,
           \/ ClaimLapses(t) \/ (\E replied \in BOOLEAN : TransferReturns(t, replied))
           \/ (\E k \in CallIds, a \in Agents : SendTransfer(t, k, a))
    PROVE  FollowAll'
<1>1. UNCHANGED <<scenario, spent, link, chan, queued, peer, feed, at, onCall>>
  BY DEF ClaimLapses, TransferReturns, SendTransfer, switchVars
<1>2. \A k \in CallIds : /\ call'[k].known = call[k].known
                         /\ call'[k].stopped = call[k].stopped
                         /\ call'[k].ended = call[k].ended
                         /\ call'[k].mailbox = call[k].mailbox
                         /\ call'[k].party = call[k].party
  BY TransferClaims DEF Steady
<1> QED BY <1>1, <1>2, ClaimsFollow DEF SameFaults

\* The switch did something and told it.
LEMMA SpeechFollows ==
    ASSUME Steady, FollowAll,
           \/ \E c \in Legs : \/ ChannelCreate(c) \/ DialplanNames(c) \/ ChannelAnswer(c)
                              \/ QueueJoin(c) \/ Hangup(c) \/ (\E d \in Legs : Bridge(c, d))
           \/ \E t \in Moves : RunTransfer(t)
    PROVE  FollowAll'
<1>1. spent' = spent
  BY DEF ChannelCreate, DialplanNames, ChannelAnswer, QueueJoin, Hangup, Bridge, RunTransfer
<1>2. Inv /\ RowsInv BY DEF Steady
<1>3. PICK e : Utters(e)
  BY <1>2, CreateRows, NamesRows, AnswerRows, QueueJoinRows, HangupRows, BridgeRows,
     RunTransferRows
<1>4. FollowInv' BY <1>1, <1>3, UttersSteady
<1>5. PhoneInv' BY <1>1, <1>3, UttersPhone DEF FollowAll
<1>6. TalkInv' BY <1>1, <1>3, UttersTalk DEF FollowAll
<1> QED BY <1>1, <1>4, <1>5, <1>6 DEF FollowAll

LEMMA FollowInitially == ASSUME Init PROVE FollowAll
<1>1. NoCall.known = FALSE /\ DOMAIN NoCall.party = {} BY DEF NoCall
<1>2. /\ \A k \in CallIds : ~call[k].known /\ \A c : ~Has(call, k, c)
      /\ \A c \in Channels : at[c] = NoOne /\ peer[c] = NoOne /\ chan[c] = "none"
      /\ 1..Len(feed) = {} /\ queued = {} /\ link = "up"
      /\ spent.missed = {}
  BY <1>1 DEF Init, Has
<1>3. \A c \in Legs : c \in Channels /\ chan[c] = "none" BY <1>2 DEF Legs
<1>4. Raised BY <1>3 DEF Raised
<1>5. Story(feed) BY <1>2 DEF Story, IsOver
<1>6. \A c \in Legs : ~IsCurrent(feed, c) BY <1>3 DEF IsCurrent
<1>7. Standing(call, at, feed)
  <2>1. EndsOnce(call, feed) BY <1>2 DEF EndsOnce
  <2>2. Tended(call, at, feed) BY <1>6 DEF Tended, IsTended
  <2>3. Named(at, feed) BY <1>2, <1>3 DEF Named, IsMinter
  <2> QED BY <2>1, <2>2, <2>3 DEF Standing
<1>8. Minted(call, at, feed)
  <2>1. scenario \in Scenarios BY DEF Init
  <2>2. ASSUME NEW f, IsMinter(f) PROVE Leg(f).id \in CallIds
    <3>1. IsLegPlan(scenario.leg) BY <2>1, CallsAssumption
    <3>2. scenario.leg[f] \in LegKinds BY <2>2, <3>1 DEF IsMinter, Legs, Leg, IsLegPlan
    <3> QED BY <2>2, <3>2 DEF IsMinter, Leg, LegKinds, CallIds
  <2> QED BY <1>2, <2>2 DEF Minted
<1>9. KeptApart(feed) /\ OnPhone(onCall, feed)
  BY <1>2, <1>6 DEF KeptApart, OnPhone, IsTended
<1>10. Talking(call, at, feed) BY <1>2 DEF Talking
<1> QED BY <1>2, <1>4, <1>5, <1>7, <1>8, <1>9, <1>10 DEF FollowAll, FollowInv, PhoneInv, TalkInv, Following

\* A drop or a crash says nothing of an unbroken link, and the link comes up again
\* only after it went down.
LEMMA Breaks ==
    ASSUME SpentInv, LinkDrops \/ Crash PROVE ~Unbroken'
<1>1. spent' = [spent EXCEPT !.drops = @ + 1] \/ spent' = [spent EXCEPT !.crashes = @ + 1]
  BY DEF LinkDrops, Crash
<1> QED BY <1>1 DEF SpentInv, Unbroken

LEMMA Returns ==
    ASSUME SpentInv, FollowInv,
           Reconnect \/ \E unread \in SUBSET Up, isLineRead, isComplete \in BOOLEAN :
                            ReconnectBlind(unread, isLineRead, isComplete)
    PROVE  ~Unbroken'
<1>1. link = "down" /\ \/ spent' = [spent EXCEPT !.missed = {}]
                       \/ \E m : spent' = [spent EXCEPT !.blinds = @ + 1, !.missed = m]
  BY DEF Reconnect, ReconnectBlind, CanReconnect
<1>2. spent'.drops = spent.drops /\ spent'.crashes = spent.crashes BY <1>1 DEF SpentInv
<1>3. ~Unbroken BY <1>1 DEF FollowInv
<1> QED BY <1>2, <1>3 DEF Unbroken

\* A row that is refused is not something missed.
LEMMA Loses ==
    ASSUME SpentInv, NEW r \in toWrite, LoseRow(r)
    PROVE  /\ SameFaults /\ spent'.lost = spent.lost \cup {r}
           /\ UNCHANGED <<scenario, link, chan, queued, peer, feed, at, onCall, call, afterWork, rows>>
<1>1. /\ spent' = [spent EXCEPT !.lost = @ \cup {r}]
      /\ UNCHANGED <<scenario, link, chan, queued, peer, feed, at, onCall, call, afterWork, rows>>
  BY DEF LoseRow, switchVars
<1> QED BY <1>1 DEF SpentInv, SameFaults

\* In conversations minted once, the registry follows the switch until the
\* link first drops or the process first dies: one case per action.
THEOREM FollowInvariance == ASSUME Conversations, MintedOnce PROVE Spec => []FollowAll
<1>1. Init => FollowAll BY FollowInitially
<1>2. Inv /\ RowsInv /\ SpentInv /\ FollowAll /\ [Next]_vars => FollowAll'
  <2> SUFFICES ASSUME Inv, RowsInv, SpentInv, FollowAll, [Next]_vars PROVE FollowAll'
    OBVIOUS
  <2>1. Steady BY DEF Steady, FollowAll
  <2>2. ASSUME NEW c \in Legs,
               \/ ChannelCreate(c) \/ DialplanNames(c) \/ ChannelAnswer(c)
               \/ QueueJoin(c) \/ Hangup(c) \/ (\E d \in Legs : Bridge(c, d))
        PROVE  FollowAll'
    BY <2>1, <2>2, SpeechFollows
  <2>3. ASSUME NEW t \in Moves, RunTransfer(t) PROVE FollowAll'
    BY <2>1, <2>3, SpeechFollows
  <2>4. ASSUME NEW t \in Moves,
               \/ ClaimLapses(t) \/ (\E replied \in BOOLEAN : TransferReturns(t, replied))
               \/ (\E k \in CallIds, a \in Agents : SendTransfer(t, k, a))
        PROVE  FollowAll'
    BY <2>1, <2>4, TransferFollow
  <2>5. ASSUME Handle PROVE FollowAll'
    <3>1. FollowInv' BY <2>1, <2>5, HandleSteady
    <3>2. PhoneInv' BY <2>1, <2>5, HandlePhone DEF FollowAll
    <3>3. TalkInv' BY <2>1, <2>5, HandleTalk DEF FollowAll
    <3> QED BY <3>1, <3>2, <3>3 DEF FollowAll
  <2>6. ASSUME NEW k \in CallIds, ApplySwitchEvent(k) \/ Unregister(k) PROVE FollowAll'
    <3>1. FollowInv' BY <2>1, <2>6, ApplySteady, UnregisterSteady
    <3>2. UNCHANGED <<scenario, spent, chan, feed, onCall>>
      BY <2>6 DEF ApplySwitchEvent, Unregister, switchVars
    <3>3. PhoneInv' BY <3>2, PhoneKept DEF FollowAll, SameFaults
    <3>4. TalkInv' BY <2>1, <2>6, ApplyTalk, UnregisterTalk DEF FollowAll
    <3> QED BY <3>1, <3>2, <3>3, <3>4 DEF FollowAll
  <2>7. ASSUME NEW r \in toWrite, WriteRow(r) PROVE FollowAll'
    <3>1. UNCHANGED <<scenario, spent, link, chan, queued, peer, feed, at, onCall, call>>
      BY <2>7 DEF WriteRow, switchVars
    <3> QED BY <2>1, <3>1, ClaimsFollow DEF SameFaults
  <2>8. ASSUME NEW r \in toWrite, LoseRow(r) PROVE FollowAll'
    <3>1. /\ SameFaults
          /\ UNCHANGED <<scenario, link, chan, queued, peer, feed, at, onCall, call>>
      BY <2>8, Loses
    <3> QED BY <2>1, <3>1, ClaimsFollow
  <2>10. ASSUME \/ LinkDrops \/ Crash \/ Reconnect
                \/ \E unread \in SUBSET Up, isLineRead, isComplete \in BOOLEAN :
                       ReconnectBlind(unread, isLineRead, isComplete)
         PROVE  FollowAll'
    <3>1. ~Unbroken' BY <2>10, Breaks, Returns DEF FollowAll
    <3> QED BY <3>1 DEF FollowAll, FollowInv, PhoneInv, TalkInv
  <2>9. CASE UNCHANGED vars
    <3>1. UNCHANGED <<scenario, spent, link, chan, queued, peer, feed, at, onCall, call>>
      BY <2>9 DEF vars, switchVars, appVars
    <3> QED BY <2>1, <3>1, ClaimsFollow DEF SameFaults
  <2> QED BY <2>2, <2>3, <2>4, <2>5, <2>6, <2>7, <2>8, <2>9, <2>10 DEF Next
<1>3. Spec => []Inv /\ []RowsInv /\ []SpentInv BY Invariance, RowsInvariance, FaultsKept, PTL
<1> QED BY <1>1, <1>2, <1>3, PTL DEF Spec

\* In conversations minted once, until the link first drops or the process
\* first dies: once everything said has been applied, each live leg is a live
\* party of the call its channel is bound to, and its agent shows as on a call
\* (Coordinator.Handle, merge, addParty, agentLegEnded).
THEOREM RegistryFollows ==
    ASSUME Conversations, MintedOnce
    PROVE  Spec => [](spent.drops = 0 /\ spent.crashes = 0 => RegistryAgrees)
<1>1. Inv /\ RowsInv /\ FollowAll => (spent.drops = 0 /\ spent.crashes = 0 => RegistryAgrees)
  <2> SUFFICES ASSUME Inv, RowsInv, FollowAll, Unbroken, Quiet, NEW c \in Up, ~IsOrphan(c)
               PROVE  /\ at[c] # NoOne /\ IsOn(c, at[c])
                      /\ AgentOf(c) # NoOne => onCall[AgentOf(c)]
    BY DEF RegistryAgrees, Unbroken
  <2>1. /\ Raised /\ Following(call, at, feed) /\ OnPhone(onCall, feed)
        /\ Registered(call, at) /\ Accounted(call, at, feed)
    BY DEF FollowAll, FollowInv, PhoneInv, RowsInv
  <2>2. feed = <<>> /\ c \in Legs /\ c \in Channels /\ chan[c] # "none" /\ chan[c] # "gone"
    BY DEF Quiet, Idle, Up, Legs
  <2>3. IsTended(feed, c)
    <3>1. IsCurrent(feed, c) /\ ~Says(feed, "create", c) BY <2>2, SaysNothing DEF IsCurrent, IsOver
    <3>2. Leg(c).from # NoOne => IsCurrent(feed, Leg(c).from)
      BY <2>1, <2>2 DEF Raised, IsOrphan, IsCurrent, IsOver
    <3> QED BY <3>1, <3>2 DEF IsTended
  <2>4. at[c] # NoOne /\ IsRunning(call, at[c]) BY <2>1, <2>2, <2>3 DEF Following, Standing, Tended
  <2>5. at[c] \in CallIds BY <2>2, <2>4 DEF Inv, TypedCalls
  <2>6. Has(call, at[c], c) BY <2>1, <2>2, <2>4, <2>5 DEF Registered, Bindings
  <2>7. call[at[c]].party[c].state # "RELEASED"
    BY <2>1, <2>2, <2>5, <2>6 DEF Accounted, Ends, IsDone
  <2>8. IsOn(c, at[c]) BY <2>4, <2>6, <2>7 DEF IsOn, IsKnown, IsRunning, Has, IsActive
  <2>9. AgentOf(c) # NoOne => onCall[AgentOf(c)] BY <2>1, <2>2, <2>3 DEF OnPhone
  <2> QED BY <2>4, <2>8, <2>9
<1> QED BY <1>1, Invariance, RowsInvariance, FollowInvariance, PTL

\* In conversations minted once, until the process first dies: two bridged legs
\* are talking on one call once every event about them has been applied, whichever
\* order their creations, names and bridges came in (join, merge, reidentify).
THEOREM TalkersMeet ==
    ASSUME Conversations, MintedOnce
    PROVE  Spec => [](spent.crashes = 0 => TalkIsOneCall)
<1>1. Inv /\ RowsInv /\ FollowAll => (spent.crashes = 0 => TalkIsOneCall)
  <2> SUFFICES ASSUME Inv, RowsInv, FollowAll, Unbroken, Quiet, NEW c \in Up, peer[c] # NoOne
               PROVE  /\ at[peer[c]] = at[c] /\ IsOn(c, at[c])
                      /\ call[at[c]].party[c].state = "TALKING"
                      /\ \A d \in {c, peer[c]} : Leg(d).id # NoOne => at[c] = Leg(d).id
    BY DEF TalkIsOneCall, Unbroken
  <2>1. Steady BY DEF Steady, FollowAll
  <2>2. /\ Following(call, at, feed) /\ Talking(call, at, feed) /\ Registered(call, at)
    BY DEF FollowAll, FollowInv, TalkInv, RowsInv
  <2>3. feed = <<>> /\ c \in Channels /\ \A k \in CallIds : call[k].mailbox = <<>>
    BY DEF Quiet, Idle, Up, Legs
  <2>4. \A d : ~TellsBridge(<<>>, c, d) BY DEF TellsBridge
  <2>5. Talk(call, at, c, peer[c]) BY <2>2, <2>3, <2>4 DEF Talking
  <2>6. at[c] # NoOne /\ at[peer[c]] = at[c] /\ at[c] \in CallIds
    BY <2>1, <2>3, <2>5, SteadyFacts DEF Talk
  <2>7. call[at[c]].party[c].state = "TALKING" BY <2>3, <2>4, <2>5, <2>6 DEF Talk, IsTalking
  <2>8. IsTended(feed, c) /\ c \in Legs BY <2>1, <2>3, <2>5, TalkersTended
  <2>9. IsRunning(call, at[c]) BY <2>2, <2>8 DEF Following, Standing, Tended
  <2>10. Has(call, at[c], c) BY <2>2, <2>3, <2>6, <2>9 DEF Registered, Bindings
  <2>11. IsOn(c, at[c]) BY <2>7, <2>9, <2>10 DEF IsOn, IsKnown, IsRunning, Has, IsActive
  <2>12. ASSUME NEW d, d = c \/ d = peer[c], Leg(d).id # NoOne PROVE at[c] = Leg(d).id
    <3>1. /\ c \in Up /\ peer[c] \in Up /\ (Leg(c).from = peer[c] \/ Leg(peer[c]).from = c)
          /\ scenario \in Scenarios /\ Conversations /\ NoOne \notin Channels
      BY <2>1, <2>3, SteadyFacts, CallsAssumption DEF Steady, RowsInv, Bridges
    <3>2. c \in Legs /\ peer[c] \in Legs /\ d \in Legs BY <2>12, <3>1 DEF Up
    <3> DEFINE r == RootOf(d)
    <3>3. IsMinter(r) /\ Leg(r).id = Leg(d).id BY <2>12, <3>1, <3>2, MinterOf
    <3>4. PICK x \in {c, peer[c]} : Leg(x).from = r /\ (r = c \/ r = peer[c])
      <4>1. CASE Leg(d).from = NoOne
        <5>1. r = d BY <4>1 DEF RootOf
        <5> QED BY <2>12, <3>1, <3>2, <4>1, <5>1, CallsAssumption DEF Legs
      <4>2. CASE Leg(d).from # NoOne
        <5>1. r = Leg(d).from /\ Leg(r).from = NoOne BY <3>3, <4>2 DEF RootOf, IsMinter
        <5>2. \A b \in {c, peer[c]} : Leg(b).from # NoOne => Leg(Leg(b).from).from = NoOne
          BY <3>1, <3>2, PlanFacts
        <5>3. c # NoOne /\ peer[c] # NoOne BY <2>3, <3>1
        <5>4. r = c \/ r = peer[c] BY <2>12, <3>1, <4>2, <5>1, <5>2, <5>3
        <5> QED BY <2>12, <5>1, <5>4
      <4> QED BY <4>1, <4>2
    <3> HIDE DEF r
    <3>5. IsCurrent(feed, r) /\ x \in Legs /\ chan[x] # "none" /\ ~Says(feed, "create", x)
      BY <2>3, <3>1, <3>2, <3>4, SaysNothing DEF Up, IsCurrent, IsOver
    <3>6. HasName(at, feed, r) BY <2>2, <3>3, <3>4, <3>5 DEF Following, Standing, Named
    <3>7. at[r] = Leg(r).id
      BY <2>2, <3>1, <3>3, <3>5, <3>6, NamedRuns DEF Registered, Following, Standing
    <3> QED BY <2>6, <3>3, <3>4, <3>7
  <2> QED BY <2>6, <2>7, <2>11, <2>12
<1> QED BY <1>1, Invariance, RowsInvariance, FollowInvariance, PTL

-----------------------------------------------------------------------------
(***************************************************************************)
(* After-call work: the call it is for is not absorbed before its row is   *)
(* written.                                                                *)
(***************************************************************************)
HasRow(rs, k) == \E r \in rs : r.call = k

\* A call that ended has its row.
Written(cl, rs) == \A k \in CallIds : cl[k].known /\ cl[k].ended => HasRow(rs, k)

\* A call that runs has a leg that has not ended.
Lives(cl) ==
    \A k \in CallIds : IsRunning(cl, k) =>
        \E c \in Channels : Has(cl, k, c) /\ cl[k].party[c].state # "RELEASED"

\* Every leg raised for r carries the pointer back.
AllPoint(r) == \A c \in Legs : Leg(c).from = r => Leg(c).points

\* An unnamed call of a conversation that has a name is of one leg; where every
\* leg points back, all are on the call of the first.
Lone(cl) ==
    \A k \in Channels : IsRunning(cl, k) =>
        /\ Leg(RootOf(k)).id # NoOne => \A c \in Channels : Has(cl, k, c) => c = k
        /\ Leg(RootOf(k)).id = NoOne /\ AllPoint(RootOf(k)) => k = RootOf(k)

\* The call will not be absorbed: it has the name, or no leg a bridge could be
\* said of, or no other call of its conversation can be.
IsFinal(cl, q, k) ==
    \/ k \in Ids
    \/ \A c \in Channels : Has(cl, k, c) => IsOver(q, c)
    \/ /\ Leg(RootOf(k)).id = NoOne
       /\ AllPoint(RootOf(k)) \/ \A c \in Legs : RootOf(c) = RootOf(k) => Has(cl, k, c)

IsKept(cl, q, k) == k \in CallIds /\ IsRunning(cl, k) /\ IsFinal(cl, q, k)
Worked(cl, q, ws, rs) == \A w \in ws : HasRow(rs, w.call) \/ IsKept(cl, q, w.call)

WorkInv ==
    Unbroken => /\ Written(call, Booked) /\ Lives(call) /\ Lone(call)
                /\ Worked(call, feed, afterWork, Booked)

\* The mailbox of a running call whose legs are all over holds the end of one.
LEMMA OverIsPosted ==
    ASSUME NEW cl, NEW b, NEW q, Accounted(cl, b, q), Lives(cl), ~IsDeaf,
           NEW k \in CallIds, IsRunning(cl, k), \A c \in Channels : Has(cl, k, c) => IsOver(q, c)
    PROVE  \E c \in Channels : Says(cl[k].mailbox, "hangup", c)
<1>1. PICK c \in Channels : Has(cl, k, c) /\ cl[k].party[c].state # "RELEASED" BY DEF Lives
<1>2. IsComing(cl, k, c, q) BY <1>1 DEF Accounted, Deaths
<1> QED BY <1>1, <1>2 DEF IsComing, IsOver

LEMMA OverIsNotWaited ==
    ASSUME NEW cl, NEW b, NEW q, Accounted(cl, b, q), Lives(cl), ~IsDeaf,
           NEW k \in CallIds, IsRunning(cl, k), cl[k].mailbox = <<>>
    PROVE  \E c \in Channels : Has(cl, k, c) /\ ~IsOver(q, c)
BY OverIsPosted, SaysNothing

\* A call takes over the legs of another.
LEMMA TakenOverLives ==
    ASSUME NEW s, NEW t, NEW q, NEW keep, NEW absorb, TakesOver(s, t, q, keep, absorb),
           \A k \in CallIds : IsRunning(s.call, k) =>
               \/ \E c \in Channels : Has(s.call, k, c) /\ s.call[k].party[c].state # "RELEASED"
               \/ k = keep /\ DOMAIN s.call[k].party = {}
    PROVE  Lives(t.call)
<1> SUFFICES ASSUME NEW k \in CallIds, IsRunning(t.call, k)
             PROVE  \E c \in Channels : Has(t.call, k, c) /\ t.call[k].party[c].state # "RELEASED"
  BY DEF Lives
<1>1. IsRunning(s.call, k) BY DEF TakesOver, IsRunning
<1>2. CASE k # keep
  <2>1. t.call[k].party = s.call[k].party BY <1>2 DEF TakesOver
  <2> QED BY <1>1, <1>2, <2>1 DEF Has
<1>3. CASE k = keep
  <2>1. t.call[k].party = Union(s.call[k].party, s.call[absorb].party) BY <1>3 DEF TakesOver
  <2>2. /\ DOMAIN t.call[k].party = DOMAIN s.call[k].party \cup DOMAIN s.call[absorb].party
        /\ \A c \in DOMAIN s.call[k].party : t.call[k].party[c] = s.call[k].party[c]
        /\ \A c \in DOMAIN s.call[absorb].party :
               c \in DOMAIN s.call[k].party \/ t.call[k].party[c] = s.call[absorb].party[c]
    BY <2>1 DEF Union
  <2>3. absorb \in CallIds /\ IsRunning(s.call, absorb) /\ absorb # keep BY DEF TakesOver
  <2>4. CASE DOMAIN s.call[k].party = {}
    <3>1. PICK c \in Channels : Has(s.call, absorb, c) /\ s.call[absorb].party[c].state # "RELEASED"
      BY <2>3
    <3> QED BY <2>2, <2>4, <3>1 DEF Has
  <2>5. CASE DOMAIN s.call[k].party # {} BY <1>1, <2>2, <2>5 DEF Has
  <2> QED BY <2>4, <2>5
<1> QED BY <1>2, <1>3

LEMMA TakenOverLone ==
    ASSUME Conversations, NEW s, NEW t, NEW q, NEW keep, NEW absorb,
           TakesOver(s, t, q, keep, absorb), Lone(s.call),
           keep \in Ids \/ Leg(RootOf(keep)).id = NoOne
    PROVE  Lone(t.call)
<1> SUFFICES ASSUME NEW k \in Channels, IsRunning(t.call, k)
             PROVE  /\ Leg(RootOf(k)).id # NoOne => \A c \in Channels : Has(t.call, k, c) => c = k
                    /\ Leg(RootOf(k)).id = NoOne /\ AllPoint(RootOf(k)) => k = RootOf(k)
  BY DEF Lone
<1>1. k \in CallIds /\ k \notin Ids BY DEF CallIds, Conversations
<1>2. IsRunning(s.call, k) BY <1>1 DEF TakesOver, IsRunning
<1>3. CASE k # keep
  <2>1. t.call[k].party = s.call[k].party BY <1>1, <1>3 DEF TakesOver
  <2> QED BY <1>2, <2>1 DEF Lone, Has
<1>4. CASE k = keep BY <1>1, <1>2, <1>4 DEF Lone
<1> QED BY <1>3, <1>4

LEMMA TakenOverWritten ==
    ASSUME NEW s, NEW t, NEW q, NEW keep, NEW absorb, TakesOver(s, t, q, keep, absorb),
           NEW rs, Written(s.call, rs)
    PROVE  Written(t.call, rs)
BY DEF TakesOver, Written

LEMMA TakenOverKept ==
    ASSUME NEW s, NEW t, NEW q, NEW keep, NEW absorb, TakesOver(s, t, q, keep, absorb),
           keep \in Ids \/ \E c \in Channels : Has(s.call, keep, c) /\ ~IsOver(q, c),
           ~IsFinal(s.call, q, absorb), NEW k, IsKept(s.call, q, k)
    PROVE  IsKept(t.call, q, k)
<1>1. k \in CallIds /\ k # absorb /\ IsRunning(s.call, k) /\ IsFinal(s.call, q, k) BY DEF IsKept
<1>2. IsRunning(t.call, k) BY <1>1 DEF TakesOver, IsRunning
<1>3. \A c : Has(s.call, k, c) => Has(t.call, k, c)
  BY <1>1 DEF TakesOver, Has, Union
<1>4. (\A c \in Channels : Has(s.call, k, c) => IsOver(q, c)) =>
          k \in Ids \/ \A c \in Channels : Has(t.call, k, c) => IsOver(q, c)
  <2>1. CASE k = keep BY <2>1
  <2>2. CASE k # keep BY <1>1, <2>2 DEF TakesOver, Has
  <2> QED BY <2>1, <2>2
<1>5. IsFinal(t.call, q, k) BY <1>1, <1>3, <1>4 DEF IsFinal
<1> QED BY <1>1, <1>2, <1>5 DEF IsKept

\* Of two calls a bridge joins, the one that gives way was not settled.
LEMMA BridgedIsOpen ==
    ASSUME Conversations, scenario \in Scenarios, NEW v, NEW w, NEW s \in States(v, w), NEW q,
           Registered(s.call, s.at), Lone(s.call), NEW x \in Legs, NEW y \in Legs,
           RootOf(x) = RootOf(y), IsCurrent(q, x), IsCurrent(q, y),
           NEW keep, keep = s.at[x], NEW absorb, absorb = s.at[y],
           keep # NoOne, absorb # NoOne, IsRunning(s.call, keep), IsRunning(s.call, absorb),
           keep # absorb, absorb \notin Ids
    PROVE  /\ ~IsFinal(s.call, q, absorb)
           /\ \E c \in Channels : Has(s.call, keep, c) /\ ~IsOver(q, c)
<1>1. /\ x \in Channels /\ y \in Channels /\ keep \in CallIds /\ absorb \in CallIds
      /\ absorb \in Channels /\ ~IsOver(q, x) /\ ~IsOver(q, y)
  BY PlanFacts DEF States, CallIds, IsCurrent
<1>2. /\ Has(s.call, keep, x) /\ Has(s.call, absorb, y) /\ ~Has(s.call, absorb, x)
      /\ IsKin(x, keep) /\ IsKin(y, absorb)
  BY <1>1 DEF Registered, Bindings
<1>3. RootOf(y) = RootOf(absorb) BY <1>2 DEF IsKin
<1>4. ASSUME Leg(RootOf(absorb)).id = NoOne, AllPoint(RootOf(absorb)) PROVE FALSE
  <2>1. keep \notin Ids
    <3>1. NoOne \notin Ids BY CallsAssumption
    <3> QED BY <1>2, <1>3, <1>4, <3>1 DEF IsKin
  <2>2. keep \in Channels /\ RootOf(keep) = RootOf(absorb) BY <1>1, <1>2, <1>3, <2>1 DEF CallIds, IsKin
  <2>3. keep = RootOf(keep) /\ absorb = RootOf(absorb) BY <1>1, <1>4, <2>2 DEF Lone
  <2> QED BY <2>2, <2>3
<1>5. ~IsFinal(s.call, q, absorb) BY <1>1, <1>2, <1>3, <1>4 DEF IsFinal
<1> QED BY <1>1, <1>2, <1>5

\* In a conversation with a name, the call that stays has it.
LEMMA BridgedIsNamed ==
    ASSUME Conversations, scenario \in Scenarios, NEW q \in Seq(Events), q # <<>>, NEW b,
           Ordered(q), Story(q), Named(b, q), NEW ev, ev = Head(q), ev.kind = "bridge",
           Leg(RootOf(ev.chan)).id # NoOne
    PROVE  b[ev.chan] \in Ids \/ b[ev.other] \in Ids
<1>1. /\ IsTrue(ev) /\ ev.chan \in Legs /\ IsCurrent(q, ev.chan) /\ IsCurrent(q, ev.other)
      /\ ~Says(q, "create", ev.chan) /\ ~Says(q, "create", ev.other)
  BY HeadOf
<1>2. /\ ev.other \in Legs /\ (Leg(ev.other).from = ev.chan \/ Leg(ev.chan).from = ev.other)
  BY <1>1 DEF IsTrue
<1>3. PICK r \in {ev.chan, ev.other}, d \in {ev.chan, ev.other} : Leg(d).from = r BY <1>2
<1>4. /\ r \in Legs /\ d \in Legs /\ r \in Channels /\ r # NoOne /\ Leg(r).from = NoOne
  BY <1>1, <1>2, <1>3, PlanFacts, CallsAssumption
<1>5. RootOf(ev.chan) = r /\ IsMinter(r)
  <2>1. RootOf(d) = r /\ RootOf(r) = r BY <1>3, <1>4 DEF RootOf
  <2>2. RootOf(ev.chan) = r BY <1>1, <1>2, <2>1, KinFollows, <1>3
  <2> QED BY <1>4, <2>2 DEF IsMinter
<1>6. HasName(b, q, r) BY <1>1, <1>3, <1>4, <1>5 DEF Named, IsCurrent
<1> QED BY <1>1, <1>3, <1>6 DEF HasName, IsCurrent
Working(cl, rs) == Written(cl, rs) /\ Lives(cl) /\ Lone(cl)

LEMMA JoinedWork ==
    ASSUME Conversations, scenario \in Scenarios, NEW v, NEW w, NEW s \in States(v, w),
           NEW q \in Seq(Events), q # <<>>, Ordered(q), Story(q), Registered(s.call, s.at),
           Following(s.call, s.at, q), NEW ev, ev = Head(q), ev.kind = "bridge",
           NEW t, NEW keep, keep = s.at[ev.chan] \/ keep = s.at[ev.other],
           NEW absorb, absorb = s.at[ev.chan] \/ absorb = s.at[ev.other],
           TakesOver(s, t, q, keep, absorb),
           NEW rs, Working(s.call, rs)
    PROVE  Working(t.call, rs) /\ \A k : IsKept(s.call, q, k) => IsKept(t.call, q, k)
<1>1. /\ IsTrue(ev) /\ IsCurrent(q, ev.chan) /\ IsCurrent(q, ev.other) BY HeadOf
<1>2. /\ ev.chan \in Legs /\ ev.other \in Legs /\ ev.chan \in Channels /\ ev.other \in Channels
      /\ IsTended(q, ev.chan) /\ IsTended(q, ev.other)
  BY BridgeTended, PlanFacts
<1>3. RootOf(ev.chan) = RootOf(ev.other) BY <1>1, <1>2, KinFollows DEF IsTrue
<1>4. /\ s.at[ev.chan] # NoOne /\ IsRunning(s.call, s.at[ev.chan]) /\ IsKin(ev.chan, s.at[ev.chan])
      /\ s.at[ev.other] # NoOne /\ IsRunning(s.call, s.at[ev.other]) /\ IsKin(ev.other, s.at[ev.other])
  BY <1>2 DEF Following, Standing, Tended, Registered, Bindings
<1>5. keep # absorb /\ absorb \notin Ids BY DEF TakesOver
<1>6. PICK x \in {ev.chan, ev.other}, y \in {ev.chan, ev.other} : keep = s.at[x] /\ absorb = s.at[y]
  OBVIOUS
<1>7. Lone(s.call) /\ Written(s.call, rs) /\ Lives(s.call) BY DEF Working
<1>8. /\ ~IsFinal(s.call, q, absorb)
      /\ \E c \in Channels : Has(s.call, keep, c) /\ ~IsOver(q, c)
  <2>1. x \in Legs /\ y \in Legs /\ RootOf(x) = RootOf(y) /\ IsCurrent(q, x) /\ IsCurrent(q, y)
    BY <1>1, <1>2, <1>3
  <2> QED BY <1>4, <1>5, <1>6, <1>7, <2>1, BridgedIsOpen
<1>9. keep \in Ids \/ Leg(RootOf(keep)).id = NoOne
  <2> SUFFICES ASSUME keep \notin Ids, Leg(RootOf(keep)).id # NoOne PROVE FALSE OBVIOUS
  <2>1. RootOf(ev.chan) = RootOf(keep) BY <1>3, <1>4, <1>6 DEF IsKin
  <2>2. s.at[ev.chan] \in Ids \/ s.at[ev.other] \in Ids
    BY <2>1, BridgedIsNamed DEF Following, Standing
  <2> QED BY <1>5, <1>6, <2>2
<1>10. Working(t.call, rs)
  <2>1. Lives(t.call) BY <1>7, TakenOverLives DEF Lives
  <2> QED BY <1>7, <1>9, <2>1, TakenOverLone, TakenOverWritten DEF Working
<1> QED BY <1>8, <1>10, TakenOverKept

LEMMA MayJoinWork ==
    ASSUME Conversations, scenario \in Scenarios, NEW v, NEW w, NEW s \in States(v, w),
           NEW q \in Seq(Events), q # <<>>, Ordered(q), Story(q), Registered(s.call, s.at),
           Following(s.call, s.at, q), NEW ev, ev = Head(q), ev.kind = "bridge",
           NEW t, MayTakeOver(s, t, q, ev), NEW rs, Working(s.call, rs)
    PROVE  Working(t.call, rs) /\ \A k : IsKept(s.call, q, k) => IsKept(t.call, q, k)
<1>1. CASE t = s BY <1>1
<1>2. CASE t # s
  <2>1. PICK keep \in {s.at[ev.chan], s.at[ev.other]}, absorb \in {s.at[ev.chan], s.at[ev.other]} :
            TakesOver(s, t, q, keep, absorb)
    BY <1>2 DEF MayTakeOver
  <2> QED BY <2>1, JoinedWork
<1> QED BY <1>1, <1>2

LEMMA RenamedWork ==
    ASSUME Conversations, scenario \in Scenarios, NEW v, NEW w, NEW s \in States(v, w),
           NEW q \in Seq(Events), q # <<>>, Ordered(q), Story(q), Sound(s, q),
           Following(s.call, s.at, q), NEW ev, ev = Head(q), NEW t, Renames(s, t, q, ev),
           NEW rs, Working(s.call, rs)
    PROVE  Working(t.call, rs) /\ \A k : IsKept(s.call, q, k) => IsKept(t.call, q, k)
<1> DEFINE u == CallFor(s, ev.id)
           c == ev.chan
           absorb == s.at[c]
<1>1. /\ IsTrue(ev) /\ ev \in Events /\ c \in Legs /\ c \in Channels /\ IsCurrent(q, c)
  BY HeadOf, PlanFacts
<1>2. /\ ev.id # NoOne /\ absorb # NoOne /\ TakesOver(u, t, q, ev.id, absorb) BY DEF Renames
<1>3. ev.id \in Ids /\ ev.id \in CallIds /\ ev.id \notin Channels
  BY <1>1, <1>2 DEF Events, CallIds, Conversations
<1>4. /\ u.at = s.at /\ \A j \in CallIds : j # ev.id => u.call[j] = s.call[j]
      /\ s.call[ev.id].known => u = s
      /\ \A j \in CallIds : IsRunning(s.call, j) => u.call[j] = s.call[j]
  BY <1>3, CallForStands DEF Following
<1>5. ~s.call[ev.id].known => IsMade(u.call[ev.id]) BY <1>3, CreateEffect
<1>0. u = CallFor(s, ev.id) OBVIOUS
<1> HIDE DEF u
<1>6. absorb \in CallIds /\ absorb \notin Ids /\ IsRunning(u.call, absorb) BY <1>2 DEF TakesOver
<1>7. IsRunning(s.call, absorb) BY <1>3, <1>4, <1>6 DEF IsRunning
<1>8. Has(s.call, absorb, c) /\ IsKin(c, absorb) BY <1>1, <1>2, <1>6, <1>7 DEF Sound, Registered, Bindings
<1>9. Leg(RootOf(absorb)).id # NoOne
  <2>1. RootOf(c) = RootOf(absorb) BY <1>6, <1>8 DEF IsKin
  <2>2. ev.id = Leg(c).id BY <1>1, <1>2 DEF IsTrue
  <2> QED BY <1>1, <1>2, <2>1, <2>2, PlanFacts
<1>10. ~IsFinal(u.call, q, absorb)
  <2>1. u.call[absorb] = s.call[absorb] BY <1>4, <1>6, <1>7
  <2> QED BY <1>1, <1>6, <1>8, <1>9, <2>1, Zenon DEF IsFinal, Has, IsCurrent
<1>11. Written(u.call, rs) /\ Lone(u.call)
  <2>1. \A k \in Channels : u.call[k] = s.call[k] BY <1>3, <1>4 DEF CallIds
  <2>2. Lone(u.call) BY <2>1 DEF Working, Lone, IsRunning, Has
  <2>3. Written(u.call, rs) BY <1>4, <1>5 DEF Working, Written, IsMade
  <2> QED BY <2>2, <2>3
<1>12. \A k \in CallIds : IsRunning(u.call, k) =>
           \/ \E d \in Channels : Has(u.call, k, d) /\ u.call[k].party[d].state # "RELEASED"
           \/ k = ev.id /\ DOMAIN u.call[k].party = {}
  <2> SUFFICES ASSUME NEW k \in CallIds, IsRunning(u.call, k), ~(k = ev.id /\ ~s.call[k].known)
               PROVE  \E d \in Channels : Has(u.call, k, d) /\ u.call[k].party[d].state # "RELEASED"
    BY <1>5 DEF IsMade
  <2>1. u.call[k] = s.call[k] BY <1>4
  <2> QED BY <2>1 DEF Working, Lives, IsRunning, Has
<1>13. Working(t.call, rs)
  BY <1>2, <1>3, <1>11, <1>12, TakenOverLives, TakenOverLone, TakenOverWritten DEF Working
<1>14. ASSUME NEW k, IsKept(s.call, q, k) PROVE IsKept(t.call, q, k)
  <2>1. k \in CallIds /\ u.call[k] = s.call[k] BY <1>4, <1>14 DEF IsKept
  <2>2. IsKept(u.call, q, k) BY <1>14, <2>1 DEF IsKept, IsRunning, IsFinal, Has
  <2> QED BY <1>2, <1>3, <1>10, <2>2, TakenOverKept
<1> QED BY <1>13, <1>14

\* What the work of an agent depends on in the calls.
LEMMA SameLegsWork ==
    ASSUME NEW a, NEW b, NEW rs, Working(a, rs), NEW q,
           \A j \in CallIds : /\ b[j].known = a[j].known
                              /\ b[j].stopped = a[j].stopped
                              /\ b[j].ended = a[j].ended
                              /\ b[j].party = a[j].party
    PROVE  Working(b, rs) /\ \A k : IsKept(a, q, k) => IsKept(b, q, k)
<1>1. Channels \subseteq CallIds BY DEF CallIds
<1>2. Written(b, rs) BY DEF Working, Written
<1>3. Lives(b) BY DEF Working, Lives, IsRunning, Has
<1>4. Lone(b) BY <1>1 DEF Working, Lone, IsRunning, Has
<1>5. \A k : IsKept(a, q, k) => IsKept(b, q, k) BY DEF IsKept, IsRunning, IsFinal, Has
<1> QED BY <1>2, <1>3, <1>4, <1>5 DEF Working

LEMMA PostedWork ==
    ASSUME NEW n, NEW t, NEW ev, Posts(t, n, ev), NEW rs, Working(n.call, rs), NEW q
    PROVE  Working(t.call, rs) /\ \A k : IsKept(n.call, q, k) => IsKept(t.call, q, k)
<1>1. \A j \in CallIds : /\ t.call[j].known = n.call[j].known
                         /\ t.call[j].stopped = n.call[j].stopped
                         /\ t.call[j].ended = n.call[j].ended
                         /\ t.call[j].party = n.call[j].party
  BY DEF Posts
<1> QED BY <1>1, SameLegsWork

LEMMA TailKept ==
    ASSUME Conversations, scenario \in Scenarios, NEW q \in Seq(Events), q # <<>>,
           Ordered(q), Story(q), NEW cl, NEW k, IsKept(cl, q, k)
    PROVE  IsKept(cl, Tail(q), k)
<1>1. \A c : IsOver(q, c) => IsOver(Tail(q), c) BY StoryTail
<1> QED BY <1>1 DEF IsKept, IsFinal

\* A leg is created into the call of an id, into that of the leg it points to, or
\* into one of its own.
LEMMA AdoptsWhere ==
    ASSUME Conversations, scenario \in Scenarios, NEW v, NEW w, NEW s \in States(v, w),
           NEW q \in Seq(Events), q # <<>>, Sound(s, q), Ordered(q), Story(q),
           Following(s.call, s.at, q), NEW ev, ev = Head(q), ev.kind = "create",
           NEW c, c = ev.chan, NEW k, k = AdoptInto(s, ev)
    PROVE  \/ k \in Ids
           \/ /\ ParentOf(c) = Leg(c).from /\ Leg(c).from # NoOne /\ k = s.at[Leg(c).from]
              /\ k # NoOne
           \/ /\ k = c /\ ~s.call[k].known
              /\ Leg(RootOf(c)).id = NoOne /\ AllPoint(RootOf(c)) => RootOf(c) = c
<1> DEFINE f == Leg(c).from
           p == ParentOf(c)
<1>1. /\ ev \in Events /\ IsTrue(ev) /\ c \in Legs /\ c \in Channels
      /\ f # NoOne => /\ ~Says(q, "create", f) /\ f \in Legs /\ f \in Channels
                      /\ Leg(f).from = NoOne
      /\ p # NoOne => p = f
  BY HeadOf, PlanFacts
<1>2. IsNew(s.call, s.at, c)
  <2>1. Says(q, "create", c) BY SaysTail
  <2> QED BY <1>1, <2>1 DEF Sound, Accounted, Births
<1>3. CASE ev.id # NoOne BY <1>1, <1>3 DEF AdoptInto, Events
<1>4. CASE ev.id = NoOne /\ p # NoOne /\ s.at[p] # NoOne BY <1>1, <1>4 DEF AdoptInto
<1>5. CASE ev.id = NoOne /\ ~(p # NoOne /\ s.at[p] # NoOne)
  <2>1. k = c /\ ~s.call[k].known BY <1>2, <1>5 DEF AdoptInto, IsNew
  <2>2. ASSUME f # NoOne, Leg(f).id = NoOne, AllPoint(f) PROVE FALSE
    <3>1. Leg(c).points /\ p = f BY <1>1, <2>2 DEF AllPoint, ParentOf
    <3>2. RaisesAlive(q, 1) /\ q[1] = ev BY TailIs DEF Story
    <3>3. IsCurrent(q, f) BY <2>2, <3>2 DEF RaisesAlive
    <3>4. IsTended(q, f) BY <1>1, <2>2, <3>3 DEF IsTended
    <3>5. s.at[f] # NoOne BY <1>1, <2>2, <3>4 DEF Following, Standing, Tended
    <3> QED BY <1>5, <2>2, <3>1, <3>5
  <2> QED BY <2>1, <2>2 DEF RootOf
<1> QED BY <1>3, <1>4, <1>5

\* The call a leg points to, if it runs unnamed, holds one that is not over; and
\* its conversation has no name.
LEMMA PointsToLive ==
    ASSUME Conversations, scenario \in Scenarios, NEW v, NEW w, NEW s \in States(v, w),
           NEW q \in Seq(Events), q # <<>>, Sound(s, q), Ordered(q), Story(q), ~IsDeaf,
           Following(s.call, s.at, q), Lives(s.call), Lone(s.call),
           NEW ev, ev = Head(q), ev.kind = "create", NEW f, f = Leg(ev.chan).from, f # NoOne,
           NEW k, k = s.at[f], k # NoOne, k \notin Ids, IsRunning(s.call, k), IsWaited(s, k)
    PROVE  /\ \E d \in Channels : Has(s.call, k, d) /\ ~IsOver(q, d)
           /\ Leg(RootOf(k)).id = NoOne
<1>1. /\ ev.chan \in Legs /\ f \in Legs /\ f \in Channels /\ Leg(f).from = NoOne
  BY HeadOf, PlanFacts
<1>2. k \in CallIds /\ k \in Channels BY <1>1 DEF States, CallIds
<1>3. s.call[k].mailbox = <<>> BY DEF IsWaited, IsRunning
<1>4. \E d \in Channels : Has(s.call, k, d) /\ ~IsOver(q, d)
  BY <1>2, <1>3, OverIsNotWaited DEF Sound
<1>5. ASSUME Leg(RootOf(k)).id # NoOne PROVE FALSE
  <2>1. Has(s.call, k, f) /\ IsKin(f, k) BY <1>1, <1>2 DEF Sound, Registered, Bindings
  <2>2. RootOf(k) = f BY <1>1, <2>1 DEF IsKin, RootOf
  <2>3. IsMinter(f) BY <1>1, <1>5, <2>2 DEF IsMinter
  <2>4. HasName(s.at, q, f)
    <3>1. HasName(s.at, q, f) \/ IsNamedBefore(q, 1, f)
      BY <2>3, TailIs DEF Following, Standing, Named
    <3> QED BY <3>1 DEF IsNamedBefore
  <2>5. IsOver(q, f) BY <2>4 DEF HasName
  <2>6. \A d \in Channels : Has(s.call, k, d) => d = f BY <1>1, <1>2, <1>5, <2>1 DEF Lone
  <2> QED BY <1>4, <2>5, <2>6
<1> QED BY <1>4, <1>5

IsAdopted(s, t, c, k, late) ==
    /\ \A j \in CallIds : j # k => t.call[j] = s.call[j]
    /\ ~s.call[k].known => /\ ~t.call[k].ended /\ DOMAIN t.call[k].party = {c}
                           /\ t.call[k].party[c].state # "RELEASED"
    /\ s.call[k].known => IF Runs(s, k, late) THEN Adds(t.call[k], s.call[k], c)
                          ELSE t.call[k] = s.call[k]

LEMMA AdoptIs ==
    ASSUME NEW v, NEW w, NEW s \in States(v, w), NEW ev, NEW c \in Channels, c = ev.chan,
           NEW k \in CallIds, k = AdoptInto(s, ev), s.at[c] = NoOne, NEW late,
           \A j \in CallIds : c \notin DOMAIN s.call[j].party,
           NEW t, t = Adopt(s, ev, late)
    PROVE  IsAdopted(s, t, c, k, late)
<1>1. /\ t.at = [s.at EXCEPT ![c] = k]
      /\ \A j \in CallIds : j # k => t.call[j] = s.call[j]
      /\ ~s.call[k].known => /\ IsRunning(t.call, k) /\ ~t.call[k].ended
                             /\ t.call[k].minted <=> ev.id # NoOne
                             /\ Len(t.call[k].mailbox) = 0
                             /\ DOMAIN t.call[k].party = {c}
                             /\ t.call[k].party[c].state # "RELEASED"
      /\ s.call[k].known => IF Runs(s, k, late) THEN Adds(t.call[k], s.call[k], c)
                            ELSE t.call[k] = s.call[k]
  BY AdoptEffect
<1> QED BY <1>1 DEF IsAdopted

LEMMA AdoptedWork ==
    ASSUME Conversations, scenario \in Scenarios, NEW v, NEW w, NEW s \in States(v, w),
           NEW q \in Seq(Events), q # <<>>, Sound(s, q), Ordered(q), Story(q), ~IsDeaf,
           Following(s.call, s.at, q), NEW ev, ev = Head(q), ev.kind = "create",
           ParentOf(ev.chan) # NoOne => IsWaited(s, s.at[ParentOf(ev.chan)]),
           NEW late, NEW t, t = Adopt(s, ev, late), NEW rs, Working(s.call, rs),
           NEW c, c = ev.chan, NEW k, k = AdoptInto(s, ev)
    PROVE  Working(t.call, rs) /\ \A j : IsKept(s.call, q, j) => IsKept(t.call, q, j)
<1>1. ev \in Events /\ IsTrue(ev) /\ c \in Legs /\ c \in Channels BY HeadOf, PlanFacts
<1>2. s.at[c] = NoOne /\ \A j \in CallIds : c \notin DOMAIN s.call[j].party
  <2>1. Says(q, "create", c) BY SaysTail
  <2> QED BY <1>1, <2>1 DEF Sound, Accounted, Births, IsNew, Has
<1>3. k \in CallIds BY <1>1, AdoptsInto
<1>4. /\ \A j \in CallIds : j # k => t.call[j] = s.call[j]
      /\ ~s.call[k].known => /\ ~t.call[k].ended /\ DOMAIN t.call[k].party = {c}
                             /\ t.call[k].party[c].state # "RELEASED"
      /\ s.call[k].known => t.call[k] = s.call[k] \/ Adds(t.call[k], s.call[k], c)
  <2>1. /\ \A j \in CallIds : j # k => t.call[j] = s.call[j]
        /\ ~s.call[k].known => /\ ~t.call[k].ended /\ DOMAIN t.call[k].party = {c}
                               /\ t.call[k].party[c].state # "RELEASED"
        /\ s.call[k].known => IF Runs(s, k, late) THEN Adds(t.call[k], s.call[k], c)
                              ELSE t.call[k] = s.call[k]
    BY <1>1, <1>2, <1>3, AdoptIs DEF IsAdopted
  <2> QED BY <2>1
<1>5. \/ k \in Ids
      \/ ParentOf(c) = Leg(c).from /\ Leg(c).from # NoOne /\ k = s.at[Leg(c).from] /\ k # NoOne
      \/ /\ k = c /\ ~s.call[k].known
         /\ Leg(RootOf(c)).id = NoOne /\ AllPoint(RootOf(c)) => RootOf(c) = c
  BY AdoptsWhere
<1>6. Written(s.call, rs) /\ Lives(s.call) /\ Lone(s.call) BY DEF Working
<1>7. ASSUME k \notin Ids, IsRunning(s.call, k)
      PROVE  /\ \E d \in Channels : Has(s.call, k, d) /\ ~IsOver(q, d)
             /\ Leg(RootOf(k)).id = NoOne
  BY <1>5, <1>6, <1>7, PointsToLive DEF IsRunning
<1>8. Written(t.call, rs)
  <2> SUFFICES ASSUME NEW j \in CallIds, t.call[j].known, t.call[j].ended PROVE HasRow(rs, j)
    BY DEF Written
  <2>1. s.call[j].known /\ s.call[j].ended BY <1>4 DEF Adds
  <2> QED BY <1>6, <2>1 DEF Written
<1>9. Lives(t.call)
  <2> SUFFICES ASSUME NEW j \in CallIds, IsRunning(t.call, j)
               PROVE  \E d \in Channels : Has(t.call, j, d) /\ t.call[j].party[d].state # "RELEASED"
    BY DEF Lives
  <2>1. CASE j # k
    <3>1. t.call[j] = s.call[j] BY <1>4, <2>1
    <3> QED BY <1>6, <3>1 DEF Lives, IsRunning, Has
  <2>2. CASE j = k /\ ~s.call[k].known BY <1>1, <1>4, <2>2 DEF Has
  <2>3. CASE j = k /\ s.call[k].known
    <3>1. /\ IsRunning(s.call, k)
          /\ \A d \in DOMAIN s.call[k].party : d \in DOMAIN t.call[k].party
                                               /\ t.call[k].party[d] = s.call[k].party[d]
      BY <1>4, <2>3, Zenon DEF Adds, IsRunning
    <3>2. PICK d \in Channels : Has(s.call, k, d) /\ s.call[k].party[d].state # "RELEASED"
      BY <1>3, <1>6, <3>1 DEF Lives
    <3> QED BY <2>3, <3>1, <3>2 DEF Has
  <2> QED BY <2>1, <2>2, <2>3
<1>10. Lone(t.call)
  <2> SUFFICES ASSUME NEW j \in Channels, IsRunning(t.call, j)
               PROVE  /\ Leg(RootOf(j)).id # NoOne => \A d \in Channels : Has(t.call, j, d) => d = j
                      /\ Leg(RootOf(j)).id = NoOne /\ AllPoint(RootOf(j)) => j = RootOf(j)
    BY DEF Lone
  <2>0. j \in CallIds /\ j \notin Ids BY DEF CallIds, Conversations
  <2>1. CASE j # k
    <3>1. t.call[j] = s.call[j] BY <1>4, <2>0, <2>1
    <3> QED BY <1>6, <3>1 DEF Lone, IsRunning, Has
  <2>2. CASE j = k /\ ~s.call[k].known
    <3>1. k = c /\ (Leg(RootOf(c)).id = NoOne /\ AllPoint(RootOf(c)) => RootOf(c) = c)
      <4>1. ASSUME k = s.at[Leg(c).from], Leg(c).from # NoOne, k # NoOne PROVE FALSE
        <5>1. Leg(c).from \in Channels BY <1>1, <4>1, PlanFacts
        <5> QED BY <2>2, <4>1, <5>1 DEF Sound, Registered, Bindings
      <4> QED BY <1>5, <2>0, <2>2, <4>1
    <3> QED BY <1>4, <2>2, <3>1 DEF Has
  <2>3. CASE j = k /\ s.call[k].known
    <3>1. IsRunning(s.call, k) BY <1>4, <2>3 DEF Adds, IsRunning
    <3>2. Leg(RootOf(k)).id = NoOne BY <1>7, <2>0, <2>3, <3>1
    <3> QED BY <1>6, <2>3, <3>1, <3>2 DEF Lone
  <2> QED BY <2>1, <2>2, <2>3
<1>11. ASSUME NEW j, IsKept(s.call, q, j) PROVE IsKept(t.call, q, j)
  <2>0. j \in CallIds /\ IsRunning(s.call, j) /\ IsFinal(s.call, q, j) BY <1>11 DEF IsKept
  <2>1. CASE j # k
    <3>1. t.call[j] = s.call[j] BY <1>4, <2>0, <2>1
    <3> QED BY <1>11, <3>1 DEF IsKept, IsRunning, IsFinal, Has
  <2>2. CASE j = k
    <3>1. IsRunning(t.call, j) /\ \A d : Has(s.call, j, d) => Has(t.call, j, d)
      BY <1>4, <2>0, <2>2 DEF Adds, IsRunning, Has
    <3>2. k \in Ids \/ \E d \in Channels : Has(s.call, k, d) /\ ~IsOver(q, d)
      BY <1>7, <2>0, <2>2
    <3>3. IsFinal(t.call, q, j) BY <2>0, <2>2, <3>1, <3>2 DEF IsFinal
    <3> QED BY <2>0, <3>1, <3>3 DEF IsKept
  <2> QED BY <2>1, <2>2
<1> QED BY <1>8, <1>9, <1>10, <1>11 DEF Working

LEMMA OneRaised ==
    ASSUME KeptTogether, scenario \in Scenarios, NEW c \in Legs, NEW d \in Legs,
           Leg(c).from # NoOne, Leg(d).from = Leg(c).from, Leg(Leg(c).from).id = NoOne
    PROVE  Leg(c).points \/ c = d
<1>1. IsKeptTogether(scenario.leg) BY DEF KeptTogether
<1>2. c \in {e \in Channels : scenario.leg[e] # NoOne} /\ d \in {e \in Channels : scenario.leg[e] # NoOne}
  BY DEF Legs, Leg
<1> QED BY <1>1, <1>2 DEF IsKeptTogether, Leg

\* The call an agent's leg ends on has its row or is settled.
LEMMA EndedWork ==
    ASSUME Conversations, KeptTogether, scenario \in Scenarios, NEW v, NEW w,
           NEW n \in States(v, w), NEW q \in Seq(Events), q # <<>>, Ordered(q), Story(q),
           Registered(n.call, n.at), NEW rs, Written(n.call, rs), Lone(n.call),
           NEW ev, ev = Head(q), NEW late, AgentLegEnded(n, ev, late),
           NEW k, k = n.at[ev.chan]
    PROVE  HasRow(rs, k) \/ IsKept(n.call, Tail(q), k)
<1> DEFINE c == ev.chan
           r == RootOf(k)
<1>1. /\ ev.kind = "hangup" /\ k # NoOne /\ c \in Legs /\ c \in Channels
  BY HeadOf, PlanFacts DEF AgentLegEnded
<1>2. /\ k \in CallIds /\ n.call[k].known /\ IsKin(c, k)
      /\ n.call[k].stopped <=> n.call[k].ended
  BY <1>1, BoundCalls
<1>3. CASE n.call[k].stopped BY <1>2, <1>3 DEF Written
<1>4. CASE ~n.call[k].stopped /\ k \in Ids BY <1>2, <1>4 DEF IsKept, IsRunning, IsFinal
<1>5. CASE ~n.call[k].stopped /\ k \notin Ids
  <2>1. k \in Channels /\ IsRunning(n.call, k) /\ RootOf(c) = r
    BY <1>2, <1>5 DEF CallIds, IsRunning, IsKin
  <2>2. /\ \A x \in Channels : n.at[x] = k <=> Has(n.call, k, x)
        /\ \A x \in Channels : Has(n.call, k, x) => x \in Legs /\ RootOf(x) = r
    <3>1. \A x \in Channels : n.at[x] = k <=> Has(n.call, k, x)
      BY <1>2, <2>1 DEF Registered, Bindings
    <3>2. \A x \in Channels : n.at[x] = k => x \in Legs /\ IsKin(x, k)
      BY <1>1 DEF Registered, Bindings
    <3> QED BY <1>5, <3>1, <3>2 DEF IsKin
  <2>3. IsOver(Tail(q), c) BY <1>1, StoryTail DEF IsEnd
  <2>4. Has(n.call, k, c) BY <1>1, <2>2
  <2>5. ASSUME \A x \in Channels : Has(n.call, k, x) => x = c PROVE IsFinal(n.call, Tail(q), k)
    BY <2>3, <2>5 DEF IsFinal
  <2>6. CASE Leg(r).id # NoOne
    <3>1. \A x \in Channels : Has(n.call, k, x) => x = k BY <2>1, <2>6 DEF Lone
    <3> QED BY <1>1, <1>2, <2>1, <2>4, <2>5, <3>1 DEF IsKept
  <2>7. CASE Leg(r).id = NoOne /\ AllPoint(r) BY <1>2, <2>1, <2>7 DEF IsKept, IsFinal
  <2>8. CASE Leg(r).id = NoOne /\ ~AllPoint(r)
    <3>1. PICK e \in Legs : Leg(e).from = r /\ ~Leg(e).points BY <2>8 DEF AllPoint
    <3>2. r \in Legs /\ r # NoOne /\ r \in Channels
      <4>1. r = c \/ (Leg(c).from # NoOne /\ r = Leg(c).from) BY <2>1 DEF RootOf
      <4> QED BY <1>1, <4>1, PlanFacts, CallsAssumption
    <3>3. \A x \in Legs : RootOf(x) = r => x = r \/ x = e
      BY <2>8, <3>1, <3>2, OneRaised DEF RootOf
    <3>4. CASE Has(n.call, k, r) /\ Has(n.call, k, e)
      <4>1. \A x \in Legs : RootOf(x) = RootOf(k) => Has(n.call, k, x) BY <3>3, <3>4
      <4> QED BY <1>2, <2>1, <2>8, <4>1 DEF IsKept, IsFinal
    <3>5. CASE ~(Has(n.call, k, r) /\ Has(n.call, k, e))
      <4>1. \A x \in Channels : Has(n.call, k, x) => x = c BY <1>1, <2>2, <2>4, <3>3, <3>5
      <4> QED BY <1>2, <2>1, <2>5, <4>1 DEF IsKept
    <3> QED BY <3>4, <3>5
  <2> QED BY <2>6, <2>7, <2>8
<1> QED BY <1>3, <1>4, <1>5

\* What is said of the next state can be said of the plan as it is.
LEMMA SameWork ==
    ASSUME WorkInv, scenario' = scenario, SameFaults,
           NEW q, \A c \in Channels : IsOver(feed, c)' <=> IsOver(q, c),
           Unbroken => /\ Working(call', Booked')
                       /\ Worked(call', q, afterWork', Booked')
    PROVE  WorkInv'
<1> SUFFICES ASSUME Unbroken
             PROVE  /\ Written(call, Booked)' /\ Lives(call)' /\ Lone(call)'
                    /\ Worked(call, feed, afterWork, Booked)'
  BY DEF WorkInv, Unbroken, SameFaults
<1>1. /\ Legs' = Legs /\ \A c : Leg(c)' = Leg(c) BY SamePlan
<1>2. \A c : RootOf(c)' = RootOf(c) BY <1>1 DEF RootOf
<1>3. \A c : AllPoint(c)' <=> AllPoint(c) BY <1>1 DEF AllPoint
<1>4. Written(call, Booked)' BY DEF Working, Written, HasRow
<1>5. Lives(call)' BY DEF Working, Lives, IsRunning, Has
<1>6. Lone(call)'
  <2>1. Lone(call') BY DEF Working
  <2>2. \A k \in Channels : IsRunning(call', k) =>
            /\ Leg(RootOf(k))'.id # NoOne => \A c \in Channels : Has(call', k, c) => c = k
            /\ Leg(RootOf(k))'.id = NoOne /\ AllPoint(RootOf(k))' => k = RootOf(k)'
    BY <1>1, <1>2, <1>3, <2>1 DEF Lone
  <2> QED BY <2>2 DEF Lone, IsRunning, Has
<1>7. \A k : IsKept(call', q, k) => IsKept(call, feed, k)'
  <2> SUFFICES ASSUME NEW k, IsKept(call', q, k) PROVE IsKept(call, feed, k)' OBVIOUS
  <2>1. IsRunning(call', k) <=> IsRunning(call, k)' BY DEF IsRunning
  <2>2. \A c : Has(call', k, c) <=> Has(call, k, c)' BY DEF Has
  <2>3. IsFinal(call', q, k) => IsFinal(call, feed, k)'
    BY <1>1, <1>2, <1>3, <2>2 DEF IsFinal
  <2> QED BY <2>1, <2>3 DEF IsKept
<1>8. Worked(call, feed, afterWork, Booked)' BY <1>7 DEF Worked, HasRow
<1> QED BY <1>4, <1>5, <1>6, <1>8

\* What a handler leaves of the calls: those that run have legs, and work is for a
\* call that has its row or is settled.
LEMMA HandledWork ==
    ASSUME Steady, KeptTogether, WorkInv, Unbroken, feed # <<>>, NEW ev, ev = Head(feed),
           NEW late, \A k \in Awaited(ev) : call[k].stopped \/ call[k].mailbox = <<>>,
           NEW m, m = First(ev, late), NEW n, n = Found(ev, late),
           NEW t, t = HandleResult(ev, late), NEW rs, rs = Booked
    PROVE  Working(t.call, rs) /\ Worked(t.call, Tail(feed), t.afterWork, rs)
<1>1. /\ Conversations /\ MintedOnce /\ scenario \in Scenarios /\ feed \in Seq(Events)
      /\ Story(feed) /\ Ordered(feed) /\ Following(call, at, feed) /\ Sound(State, feed)
      /\ State \in States(waiting, afterWork) /\ State.call = call /\ State.at = at
      /\ ~IsDeaf
  BY SteadyFacts DEF Steady, FollowInv, IsDeaf
<1>2. /\ Working(call, rs) /\ Worked(call, feed, afterWork, rs) BY DEF WorkInv, Working
<1>3. /\ ev \in Events /\ IsTrue(ev) /\ ev.chan \in Legs /\ ev.chan \in Channels
  BY <1>1, HeadOf, PlanFacts
<1>4. /\ n \in States(waiting, afterWork) /\ Registered(n.call, n.at)
      /\ ev.kind = "create" => n = m
      /\ ev.kind # "create" => (Renames(m, n, feed, ev) \/ n = m) /\ Following(n.call, n.at, feed)
  BY <1>1, FoundIs
<1>5. ev.kind # "create" =>
          /\ m \in States(waiting, afterWork) /\ Sound(m, feed) /\ Following(m.call, m.at, feed)
          /\ MayTakeOver(State, m, feed, ev)
  BY <1>1, FirstIs
<1>6. Posts(t, n, ev) /\ PhoneAfter(t, n, ev, late) /\ WorkAfter(t, n, ev, late)
  BY <1>3, <1>4, ResultIs
<1>7. Working(m.call, rs) /\ \A k : IsKept(call, feed, k) => IsKept(m.call, feed, k)
  <2>1. CASE ev.kind = "create"
    <3>1. m = Adopt(State, ev, late) BY <2>1 DEF First
    <3>2. ParentOf(ev.chan) # NoOne => IsWaited(State, State.at[ParentOf(ev.chan)])
      <4>1. ParentOf(ev.chan) # NoOne => {at[ParentOf(ev.chan)]} \ {NoOne} \subseteq Awaited(ev)
        BY <2>1 DEF Awaited
      <4> QED BY <1>1, <4>1 DEF IsWaited
    <3>3. Working(State.call, rs) /\ Following(State.call, State.at, feed) BY <1>1, <1>2
    <3>4. Working(m.call, rs) /\ \A k : IsKept(State.call, feed, k) => IsKept(m.call, feed, k)
      BY <1>1, <2>1, <3>1, <3>2, <3>3, AdoptedWork, Zenon
    <3> QED BY <1>1, <3>4
  <2>2. CASE ev.kind = "bridge"
    <3>1. MayTakeOver(State, m, feed, ev) BY <1>5, <2>2
    <3>2. /\ Working(State.call, rs) /\ Following(State.call, State.at, feed)
          /\ Registered(State.call, State.at)
      BY <1>1, <1>2 DEF Sound
    <3>3. Working(m.call, rs) /\ \A k : IsKept(State.call, feed, k) => IsKept(m.call, feed, k)
      BY <1>1, <2>2, <3>1, <3>2, MayJoinWork
    <3> QED BY <1>1, <3>3
  <2>3. CASE ev.kind # "create" /\ ev.kind # "bridge"
    <3>1. m = State BY <2>3 DEF First
    <3> QED BY <1>1, <1>2, <3>1
  <2> QED BY <2>1, <2>2, <2>3
<1>8. Working(n.call, rs) /\ \A k : IsKept(m.call, feed, k) => IsKept(n.call, feed, k)
  <2>1. CASE n = m BY <1>7, <2>1
  <2>2. CASE n # m
    <3>1. /\ ev.kind # "create" /\ Renames(m, n, feed, ev) BY <1>4, <2>2
    <3> QED BY <1>1, <1>5, <1>7, <3>1, RenamedWork
  <2> QED BY <2>1, <2>2
<1>9. Working(t.call, rs) /\ \A k : IsKept(n.call, Tail(feed), k) => IsKept(t.call, Tail(feed), k)
  BY <1>6, <1>8, PostedWork
<1>10. \A k : IsKept(call, feed, k) => IsKept(n.call, Tail(feed), k)
  BY <1>1, <1>7, <1>8, TailKept
<1>11. ASSUME AgentLegEnded(n, ev, late), NEW k, k = n.at[ev.chan]
       PROVE  HasRow(rs, k) \/ IsKept(n.call, Tail(feed), k)
  BY <1>1, <1>4, <1>8, <1>11, EndedWork DEF Working
<1>12. n.afterWork = afterWork BY <1>4 DEF States
<1>13. ASSUME NEW x \in t.afterWork PROVE HasRow(rs, x.call) \/ IsKept(t.call, Tail(feed), x.call)
  <2>1. CASE x \in afterWork
    <3>1. HasRow(rs, x.call) \/ IsKept(call, feed, x.call) BY <1>2, <2>1 DEF Worked
    <3> QED BY <1>9, <1>10, <3>1
  <2>2. CASE x \notin afterWork
    <3>1. /\ AgentLegEnded(n, ev, late)
          /\ x \in {[agent |-> AgentOf(ev.chan), call |-> n.at[ev.chan]]}
      BY <1>6, <1>12, <1>13, <2>2 DEF WorkAfter
    <3>2. x.call = n.at[ev.chan] BY <3>1
    <3> QED BY <1>9, <1>11, <3>1, <3>2
  <2> QED BY <2>1, <2>2
<1> QED BY <1>9, <1>13 DEF Worked

LEMMA HandleWork ==
    ASSUME Steady, KeptTogether, WorkInv, Handle PROVE WorkInv'
<1> DEFINE ev == Head(feed)
           rs == Booked
<1>1. /\ feed # <<>> /\ feed' = Tail(feed) /\ UNCHANGED <<scenario, spent, chan, queued, rows, toWrite>>
      /\ \A k \in Awaited(ev) : call[k].stopped \/ call[k].mailbox = <<>>
  BY DEF Handle
<1>2. PICK late \in BOOLEAN : /\ call' = HandleResult(ev, late).call
                              /\ afterWork' = HandleResult(ev, late).afterWork
  BY DEF Handle
<1>3. ASSUME Unbroken PROVE Working(call', rs) /\ Worked(call', feed', afterWork', rs)
  <2> DEFINE t == HandleResult(ev, late)
  <2>1. Working(t.call, rs) /\ Worked(t.call, Tail(feed), t.afterWork, rs)
    BY <1>1, <1>3, HandledWork
  <2> HIDE DEF t, rs
  <2>2. call' = t.call /\ afterWork' = t.afterWork BY <1>2 DEF t
  <2> QED BY <1>1, <2>1, <2>2
<1>4. \A c \in Channels : IsOver(feed, c)' <=> IsOver(feed', c) BY <1>1 DEF IsOver, Says
<1>5. Booked' = rs BY <1>1 DEF Booked
<1>6. SameFaults BY <1>1 DEF SameFaults
<1> QED BY <1>1, <1>3, <1>4, <1>5, <1>6, SameWork

LEMMA ApplyWork ==
    ASSUME Steady, WorkInv, NEW k \in CallIds, ApplySwitchEvent(k) PROVE WorkInv'
<1> DEFINE ev == Head(call[k].mailbox)
           over == Finishes(call[k], ev)
           rs == Booked
<1>1. UNCHANGED <<scenario, spent, chan, feed, afterWork, rows>>
  BY DEF ApplySwitchEvent, switchVars
<1>2. /\ call[k].known /\ call[k].party \in PartyMaps /\ DOMAIN call[k].party \subseteq Channels
      /\ \A j \in CallIds : j # k => call'[j] = call[j]
      /\ call'[k].known
      /\ call'[k].ended <=> call[k].ended \/ over
      /\ call'[k].stopped <=> call[k].stopped \/ over
      /\ DOMAIN call'[k].party = DOMAIN call[k].party
      /\ \A c \in DOMAIN call[k].party :
             call'[k].party[c].state = "RELEASED" <=>
                 call[k].party[c].state = "RELEASED" \/ (ev.kind = "hangup" /\ ev.chan = c)
      /\ toWrite' = IF over THEN toWrite \cup {[call |-> k, legs |-> DOMAIN call[k].party]}
                    ELSE toWrite
  BY ApplyEffect DEF Steady
<1>3. /\ rs \subseteq Booked'
      /\ over => HasRow(Booked', k)
  <2>1. rs \subseteq Booked' BY <1>1, <1>2 DEF Booked
  <2>2. ASSUME over PROVE HasRow(Booked', k)
    <3> DEFINE r == [call |-> k, legs |-> DOMAIN call[k].party]
    <3>1. r \in toWrite' /\ r.call = k BY <1>2, <2>2
    <3> HIDE DEF r
    <3>2. r \in Booked' BY <3>1 DEF Booked
    <3> QED BY <3>1, <3>2 DEF HasRow
  <2> QED BY <2>1, <2>2
<1>4. \A j : HasRow(rs, j) => HasRow(Booked', j) BY <1>3 DEF HasRow
<1>5. \A j \in CallIds : /\ IsRunning(call', j) <=> IsRunning(call, j) /\ ~(j = k /\ over)
                         /\ \A c : Has(call', j, c) <=> Has(call, j, c)
  BY <1>2 DEF IsRunning, Has
<1>6. ASSUME Unbroken
      PROVE  Working(call', Booked') /\ Worked(call', feed, afterWork', Booked')
  <2>1. /\ Written(call, rs) /\ Lives(call) /\ Lone(call) /\ Worked(call, feed, afterWork, rs)
    BY <1>6 DEF WorkInv
  <2>2. Written(call', Booked')
    <3> SUFFICES ASSUME NEW j \in CallIds, call'[j].known, call'[j].ended
                 PROVE  HasRow(Booked', j)
      BY DEF Written
    <3>1. CASE j # k
      <4>1. call'[j] = call[j] BY <1>2, <3>1
      <4> QED BY <1>4, <2>1, <4>1 DEF Written
    <3>2. CASE j = k BY <1>2, <1>3, <1>4, <2>1, <3>2 DEF Written
    <3> QED BY <3>1, <3>2
  <2>3. Lives(call')
    <3> SUFFICES ASSUME NEW j \in CallIds, IsRunning(call', j)
                 PROVE  \E c \in Channels : Has(call', j, c) /\ call'[j].party[c].state # "RELEASED"
      BY DEF Lives
    <3>1. PICK c \in Channels : Has(call, j, c) /\ call[j].party[c].state # "RELEASED"
      BY <1>5, <2>1 DEF Lives
    <3>2. CASE j # k
      <4>1. call'[j] = call[j] BY <1>2, <3>2
      <4> QED BY <3>1, <4>1 DEF Has
    <3>3. CASE j = k /\ ~(ev.kind = "hangup" /\ ev.chan = c) BY <1>2, <3>1, <3>3 DEF Has
    <3>4. CASE j = k /\ ev.kind = "hangup" /\ ev.chan = c
      <4>1. ~over /\ ~call[k].ended
        BY <1>5, <3>4, SteadyFacts DEF Registered, Flags, IsRunning
      <4>2. PICK d \in DOMAIN call[k].party : IsActive(Moved(call[k].party, ev)[d])
        BY <3>1, <3>4, <4>1 DEF Finishes, Has
      <4>3. Moved(call[k].party, ev)[d].state # "RELEASED" BY <4>2 DEF IsActive
      <4>4. call'[k].party[d].state # "RELEASED" BY <1>2, <4>3, MovedEnds
      <4> QED BY <1>2, <3>4, <4>4 DEF Has
    <3> QED BY <3>2, <3>3, <3>4
  <2>4. Lone(call') BY <1>5, <2>1 DEF Lone, CallIds
  <2>5. \A j : IsKept(call, feed, j) => IsKept(call', feed, j) \/ HasRow(Booked', j)
    BY <1>3, <1>5 DEF IsKept, IsFinal
  <2>6. Worked(call', feed, afterWork', Booked') BY <1>1, <1>4, <2>1, <2>5 DEF Worked
  <2> QED BY <2>2, <2>3, <2>4, <2>6 DEF Working
<1>7. \A c \in Channels : IsOver(feed, c)' <=> IsOver(feed, c) BY <1>1 DEF IsOver, Says
<1>8. SameFaults BY <1>1 DEF SameFaults
<1> QED BY <1>1, <1>6, <1>7, <1>8, SameWork

LEMMA UnregisterWork ==
    ASSUME Steady, WorkInv, NEW k \in CallIds, Unregister(k) PROVE WorkInv'
<1> DEFINE rs == Booked
<1>1. /\ UNCHANGED <<scenario, spent, chan, feed, afterWork, toWrite, rows>>
      /\ call[k].known /\ call[k].stopped
  BY DEF Unregister, switchVars, IsKnown
<1>2. call'[k] = NoCall /\ \A j \in CallIds : j # k => call'[j] = call[j]
  BY SteadyFacts DEF Unregister
<1>3. \A j \in CallIds : /\ IsRunning(call', j) => IsRunning(call, j) /\ call'[j] = call[j]
                         /\ IsRunning(call, j) => call'[j] = call[j]
                         /\ call'[j].known => call'[j] = call[j]
  <2>1. NoCall.known = FALSE BY DEF NoCall
  <2> QED BY <1>1, <1>2, <2>1 DEF IsRunning
<1>4. ASSUME Unbroken PROVE Working(call', rs) /\ Worked(call', feed, afterWork', rs)
  <2>1. /\ Written(call, rs) /\ Lives(call) /\ Lone(call) /\ Worked(call, feed, afterWork, rs)
    BY <1>4 DEF WorkInv
  <2>2. Written(call', rs) BY <1>3, <2>1 DEF Written
  <2>3. Lives(call') BY <1>3, <2>1 DEF Lives, Has
  <2>4. Lone(call') BY <1>3, <2>1 DEF Lone, CallIds, Has
  <2>5. \A j : IsKept(call, feed, j) => IsKept(call', feed, j)
    BY <1>3 DEF IsKept, IsFinal, Has, IsRunning
  <2>6. Worked(call', feed, afterWork', rs) BY <1>1, <2>1, <2>5 DEF Worked
  <2> QED BY <2>2, <2>3, <2>4, <2>6 DEF Working
<1>5. \A c \in Channels : IsOver(feed, c)' <=> IsOver(feed, c) BY <1>1 DEF IsOver, Says
<1>6. Booked' = rs BY <1>1 DEF Booked
<1>7. SameFaults BY <1>1 DEF SameFaults
<1> QED BY <1>1, <1>4, <1>5, <1>6, <1>7, SameWork

\* Nobody's leg and nobody's work changes.
LEMMA ClaimsWork ==
    ASSUME Steady, WorkInv, SameFaults, UNCHANGED <<scenario, afterWork>>,
           Booked' = Booked,
           Unbroken => \A c \in Channels : IsOver(feed, c)' <=> IsOver(feed, c),
           \A j \in CallIds : /\ call'[j].known = call[j].known
                              /\ call'[j].stopped = call[j].stopped
                              /\ call'[j].ended = call[j].ended
                              /\ call'[j].party = call[j].party
    PROVE  WorkInv'
<1> DEFINE rs == Booked
<1>1. CASE ~Unbroken BY <1>1 DEF Unbroken, WorkInv, SameFaults
<1>2. CASE Unbroken
  <2>1. Working(call, rs) /\ Worked(call, feed, afterWork, rs) BY <1>2 DEF WorkInv, Working
  <2> HIDE DEF rs
  <2>2. Working(call', rs) /\ \A k : IsKept(call, feed, k) => IsKept(call', feed, k)
    BY <2>1, SameLegsWork
  <2>3. Worked(call', feed, afterWork', rs) BY <2>1, <2>2 DEF Worked
  <2>4. Booked' = rs BY DEF rs
  <2> QED BY <1>2, <2>2, <2>3, <2>4, SameWork
<1> QED BY <1>1, <1>2

-----------------------------------------------------------------------------

LEMMA SpeechWork ==
    ASSUME Steady, WorkInv,
           \/ \E c \in Legs : \/ ChannelCreate(c) \/ DialplanNames(c) \/ ChannelAnswer(c)
                              \/ QueueJoin(c) \/ Hangup(c) \/ (\E d \in Legs : Bridge(c, d))
           \/ \E t \in Moves : RunTransfer(t)
    PROVE  WorkInv'
<1>1. spent' = spent
  BY DEF ChannelCreate, DialplanNames, ChannelAnswer, QueueJoin, Hangup, Bridge, RunTransfer
<1>2. Inv /\ RowsInv BY DEF Steady
<1>3. PICK e : Utters(e)
  BY <1>2, CreateRows, NamesRows, AnswerRows, QueueJoinRows, HangupRows, BridgeRows,
     RunTransferRows
<1>4. UNCHANGED <<scenario, call, afterWork, toWrite, rows>>
  BY <1>3 DEF Utters, Speaks, SwitchOnly, appVars
<1>5. Unbroken => \A c \in Channels : IsOver(feed, c)' <=> IsOver(feed, c)
  BY <1>3, UttersCurrent
<1>6. SameFaults /\ Booked' = Booked BY <1>1, <1>4 DEF SameFaults, Booked
<1> QED BY <1>4, <1>5, <1>6, ClaimsWork

LEMMA WorkInitially == ASSUME Init PROVE WorkInv
<1>1. NoCall.known = FALSE BY DEF NoCall
<1>2. \A k \in CallIds : ~call[k].known BY <1>1 DEF Init
<1>3. Channels \subseteq CallIds BY DEF CallIds
<1>4. Written(call, Booked) BY <1>2 DEF Written
<1>5. Lives(call) BY <1>2 DEF Lives, IsRunning
<1>6. Lone(call) BY <1>2, <1>3 DEF Lone, IsRunning
<1>7. Worked(call, feed, afterWork, Booked) BY DEF Init, Worked
<1> QED BY <1>4, <1>5, <1>6, <1>7 DEF WorkInv

\* In conversations minted once and kept together, every call that ended has its
\* row and every call that runs a live leg, and work is for a call with its row or
\* one that will not be absorbed: one case per action.
THEOREM WorkInvariance ==
    ASSUME Conversations, MintedOnce, KeptTogether PROVE Spec => []WorkInv
<1>1. Init => WorkInv BY WorkInitially
<1>2. Inv /\ RowsInv /\ SpentInv /\ FollowAll /\ WorkInv /\ [Next]_vars => WorkInv'
  <2> SUFFICES ASSUME Inv, RowsInv, SpentInv, FollowAll, WorkInv, [Next]_vars PROVE WorkInv'
    OBVIOUS
  <2>1. Steady BY DEF Steady, FollowAll
  <2>2. ASSUME NEW c \in Legs,
               \/ ChannelCreate(c) \/ DialplanNames(c) \/ ChannelAnswer(c)
               \/ QueueJoin(c) \/ Hangup(c) \/ (\E d \in Legs : Bridge(c, d))
        PROVE  WorkInv'
    BY <2>1, <2>2, SpeechWork
  <2>3. ASSUME NEW t \in Moves, RunTransfer(t) PROVE WorkInv'
    BY <2>1, <2>3, SpeechWork
  <2>4. ASSUME NEW t \in Moves,
               \/ ClaimLapses(t) \/ (\E replied \in BOOLEAN : TransferReturns(t, replied))
               \/ (\E k \in CallIds, a \in Agents : SendTransfer(t, k, a))
        PROVE  WorkInv'
    <3>1. UNCHANGED <<scenario, spent, chan, feed, afterWork, toWrite, rows>>
      BY <2>4 DEF ClaimLapses, TransferReturns, SendTransfer, switchVars
    <3>2. \A c \in Channels : IsOver(feed, c)' <=> IsOver(feed, c) BY <3>1 DEF IsOver, Says
    <3>3. \A j \in CallIds : /\ call'[j].known = call[j].known
                             /\ call'[j].stopped = call[j].stopped
                             /\ call'[j].ended = call[j].ended
                             /\ call'[j].mailbox = call[j].mailbox
                             /\ call'[j].party = call[j].party
      BY <2>4, TransferClaims
    <3>4. SameFaults /\ Booked' = Booked BY <3>1 DEF SameFaults, Booked
    <3> QED BY <2>1, <3>1, <3>2, <3>3, <3>4, ClaimsWork
  <2>5. ASSUME Handle PROVE WorkInv' BY <2>1, <2>5, HandleWork
  <2>6. ASSUME NEW k \in CallIds, ApplySwitchEvent(k) \/ Unregister(k) PROVE WorkInv'
    BY <2>1, <2>6, ApplyWork, UnregisterWork
  <2>7. ASSUME NEW r \in toWrite, WriteRow(r) \/ LoseRow(r) PROVE WorkInv'
    <3>1. SameFaults /\ UNCHANGED <<scenario, chan, feed, call, afterWork>> /\ Booked' = Booked
      <4>1. CASE WriteRow(r) BY <2>7, <4>1 DEF WriteRow, switchVars, SameFaults, Booked
      <4>2. CASE LoseRow(r)
        <5>1. toWrite' = toWrite \ {r} BY <4>2 DEF LoseRow
        <5> QED BY <2>7, <4>2, <5>1, Loses DEF Booked
      <4> QED BY <2>7, <4>1, <4>2
    <3>2. \A c \in Channels : IsOver(feed, c)' <=> IsOver(feed, c) BY <3>1 DEF IsOver, Says
    <3> QED BY <2>1, <3>1, <3>2, ClaimsWork
  <2>8. ASSUME LinkDrops \/ Crash PROVE WorkInv'
    <3>1. ~Unbroken' BY <2>8, Breaks
    <3> QED BY <3>1 DEF WorkInv
  <2>9. ASSUME Reconnect \/ \E unread \in SUBSET Up, isLineRead, isComplete \in BOOLEAN :
                                ReconnectBlind(unread, isLineRead, isComplete)
        PROVE  WorkInv'
    <3>1. ~Unbroken' BY <2>9, Returns DEF FollowAll
    <3> QED BY <3>1 DEF WorkInv
  <2>10. CASE UNCHANGED vars
    <3>1. UNCHANGED <<scenario, spent, chan, feed, call, afterWork, toWrite, rows>>
      BY <2>10 DEF vars, switchVars, appVars
    <3>2. \A c \in Channels : IsOver(feed, c)' <=> IsOver(feed, c) BY <3>1 DEF IsOver, Says
    <3>3. SameFaults /\ Booked' = Booked BY <3>1 DEF SameFaults, Booked
    <3> QED BY <2>1, <3>1, <3>2, <3>3, ClaimsWork
  <2> QED BY <2>2, <2>3, <2>4, <2>5, <2>6, <2>7, <2>8, <2>9, <2>10 DEF Next
<1> QED BY <1>1, <1>2, Invariance, RowsInvariance, FaultsKept, FollowInvariance, PTL DEF Spec

\* In conversations minted once and kept together, until the link first drops or
\* the process first dies: after-call work is for a call that is live or has its
\* row, so the id read off the leg that ended is not that of a call another absorbs
\* (agentLegEnded, merge).
THEOREM WorkHasItsRow ==
    ASSUME Conversations, MintedOnce, KeptTogether PROVE Spec => []WorkIsForARow
<1>1. SpentInv /\ WorkInv => WorkIsForARow
  <2> SUFFICES ASSUME SpentInv, WorkInv, spent.drops + spent.crashes = 0, NEW w \in afterWork
               PROVE  IsKnown(w.call) \/ \E r \in Booked : r.call = w.call
    BY DEF WorkIsForARow
  <2>1. Unbroken BY DEF SpentInv, Unbroken
  <2>2. HasRow(Booked, w.call) \/ IsKept(call, feed, w.call)
    BY <2>1 DEF WorkInv, Worked
  <2> QED BY <2>2 DEF HasRow, IsKept, IsRunning, IsKnown
<1> QED BY <1>1, FaultsKept, WorkInvariance, PTL
=============================================================================
