------------------------- MODULE ContactLifeProofs -------------------------
(***************************************************************************)
(* The budgets of a contact are kept for every retry policy, every set of  *)
(* call endings and any number of revised records.                         *)
(*                                                                         *)
(* The bound on dials is not inductive. A revision can move an attempt     *)
(* from one budget to another, or out of both, and only the latest attempt *)
(* is settled anew, so a contact may be ACTIVE with a budget overdrawn.    *)
(* What holds is a bound on each pair of classes: every revision adds at   *)
(* most one to it, and a contact that is not ACTIVE is at most one above.  *)
(***************************************************************************)
EXTENDS ContactLife, FiniteSetTheorems, SequenceTheorems, TLAPS

\* How many attempts were charged to a class.
Size(class) == Cardinality(Charged(class))

\* The calls the second budget allows: it is asked after the call is charged.
SystemBound == IF Policy.maxSystemRetries = 0 THEN 0 ELSE Policy.maxSystemRetries - 1

\* One call more than an ACTIVE contact can have behind it.
Slack == IF status = "ACTIVE" THEN 0 ELSE 1

\* Every attempt is of one class, and no class but the three.
ClassesAddUp == Len(history) = Size("REACHED") + Size("SYSTEM") + Size("NONE")

\* The bounds as statements about numbers: r, s and n attempts of the three
\* classes, v revisions, and slack d. The last line leaves an ACTIVE contact a
\* dial within DialBound.
Within(r, s, n, v, d) ==
    /\ s + n <= SystemBound + v + d
    /\ r + n <= Policy.maxAttempts - 1 + v + d
    /\ n <= v + d
    /\ r + s + n + 1 <= DialBound + v + d

ClassesBounded == Within(Size("REACHED"), Size("SYSTEM"), Size("NONE"), revisions, Slack)

IInv ==
    /\ TypeOK
    /\ CountedOnce
    /\ PickedUpIsSettled
    /\ ClassesAddUp
    /\ ClassesBounded

Classes == {"REACHED", "SYSTEM", "NONE"}

-----------------------------------------------------------------------------
(* The rules.                                                              *)

\* Every outcome belongs to one of the three budget classes.
LEMMA ClassOfIsAClass ==
    ASSUME NEW o
    PROVE  ClassOf(o) \in Classes
BY DEF ClassOf, Classes

\* Classify returns an outcome, and never anything but an answered one for a
\* call the customer picked up, whatever cause the switch gave.
LEMMA Classifies ==
    ASSUME NEW e \in CallEnds
    PROVE  /\ Classify(e) \in Outcomes
           /\ e.isAnswered => Classify(e) \in AnsweredOutcomes
<1> DEFINE mapped == CauseOutcomes[e.hangupCause]
<1>1. e.hangupCause \in DOMAIN CauseOutcomes => mapped \in Outcomes
  BY DEF CauseOutcomes, Outcomes, ReachedOutcomes, AnsweredOutcomes, SystemOutcomes
<1>2. ClassifyAnswered(e) \in AnsweredOutcomes
  BY DEF ClassifyAnswered, AnsweredOutcomes
<1>3. AnsweredOutcomes \cup {"OVERFLOW", "ORIGINATE_FAILED", "TRANSIENT"} \subseteq Outcomes
  BY DEF Outcomes, ReachedOutcomes, AnsweredOutcomes, SystemOutcomes
<1>4. "OVERFLOW" \in AnsweredOutcomes
  BY DEF AnsweredOutcomes
<1>5. CASE e.hangupCause = "OVERFLOW"
  <2>1. Classify(e) = "OVERFLOW"
    BY <1>5 DEF Classify
  <2> QED BY <2>1, <1>3, <1>4
<1>6. CASE e.hangupCause # "OVERFLOW" /\ e.isAnswered
  <2>1. Classify(e) = ClassifyAnswered(e)
    BY <1>6 DEF Classify
  <2> QED BY <2>1, <1>2, <1>3
<1>7. CASE e.hangupCause # "OVERFLOW" /\ ~e.isAnswered
  <2>1. \/ Classify(e) \in {"ORIGINATE_FAILED", "TRANSIENT"}
        \/ e.hangupCause \in DOMAIN CauseOutcomes /\ Classify(e) = mapped
    <3> HIDE DEF mapped
    <3>1. CASE e.isPlacementFailure
      BY <1>7, <3>1 DEF Classify, mapped
    <3>2. CASE ~e.isPlacementFailure
      BY <1>7, <3>2 DEF Classify, mapped
    <3> QED BY <3>1, <3>2
  <2> QED BY <2>1, <1>1, <1>3, <1>7
<1> QED BY <1>5, <1>6, <1>7

\* Charging and handing back keep the counters natural numbers.
LEMMA AddRemoveType ==
    ASSUME NEW c \in Counters, NEW o
    PROVE  Add(c, o) \in Counters /\ Remove(c, o) \in Counters
<1>1. Add(c, o) \in Counters
  BY DEF Add, Counters
<1>2. Remove(c, o) \in Counters
  BY DEF Remove, AtLeastZero, Counters
<1> QED BY <1>1, <1>2

\* Settle gives a status; ACTIVE only without a lead, for a call nobody picked
\* up, and while the budget it was charged to has something left.
LEMMA Settles ==
    ASSUME NEW c, NEW o, NEW lead
    PROVE  /\ Settle(Policy, c, o, lead) \in ContactStatuses
           /\ Settle(Policy, c, o, lead) = "ACTIVE" =>
                /\ lead = NoLead
                /\ o \notin AnsweredOutcomes
                /\ HasBudget(Policy, c, o)
BY DEF Settle, ContactStatuses, IsAnsweredOutcome

-----------------------------------------------------------------------------
(* What a dial and a revision do to the sizes of the classes.              *)

One(b) == IF b THEN 1 ELSE 0

\* The attempts of a class are finitely many.
LEMMA SizeIsNat ==
    ASSUME TypeOK, NEW class
    PROVE  /\ Charged(class) \in SUBSET (1..Len(history))
           /\ IsFiniteSet(Charged(class))
           /\ Size(class) \in Nat
<1>1. Len(history) \in Nat
  BY LenProperties DEF TypeOK
<1>2. IsFiniteSet(1..Len(history))
  BY <1>1, FS_Interval
<1>3. Charged(class) \subseteq 1..Len(history)
  BY DEF Charged
<1>4. IsFiniteSet(Charged(class))
  BY <1>2, <1>3, FS_Subset
<1> QED BY <1>3, <1>4, FS_CardinalityType DEF Size

\* A dial adds one attempt, to the class of its outcome.
LEMMA DialCounts ==
    ASSUME TypeOK, NEW e \in Ends, NEW lead \in Leads, Dial(e, lead), NEW class
    PROVE  Size(class)' = Size(class) + One(class = ClassOf(Classify(e)))
<1> DEFINE a == [outcome |-> Classify(e), isAnswered |-> e.isAnswered, lead |-> lead]
           n == Len(history)
<1>1. n \in Nat /\ history \in Seq(Attempt)
  BY DEF TypeOK
<1>2. /\ history' = Append(history, a)
      /\ a.outcome = Classify(e)
  BY DEF Dial
<1>3. /\ Len(history') = n + 1
      /\ \A i \in 1..n : history'[i] = history[i]
      /\ history'[n + 1] = a
  BY <1>1, <1>2
<1>4. /\ IsFiniteSet(Charged(class))
      /\ Size(class) \in Nat
      /\ n + 1 \notin Charged(class)
  BY SizeIsNat, <1>1 DEF Charged
<1>5. CASE class = ClassOf(Classify(e))
  <2>1. Charged(class)' = Charged(class) \cup {n + 1}
    <3> HIDE DEF a
    <3> QED BY <1>1, <1>2, <1>3, <1>5 DEF Charged
  <2>2. Cardinality(Charged(class) \cup {n + 1}) = Cardinality(Charged(class)) + 1
    BY <1>4, FS_AddElement
  <2> QED BY <2>1, <2>2, <1>5 DEF Size, One
<1>6. CASE class # ClassOf(Classify(e))
  <2>1. Charged(class)' = Charged(class)
    <3> HIDE DEF a
    <3> QED BY <1>1, <1>2, <1>3, <1>6 DEF Charged
  <2> QED BY <2>1, <1>4, <1>6 DEF Size, One
<1> QED BY <1>5, <1>6

\* A revision takes the attempt out of the class of its old outcome, which has
\* at least that one, and puts it into the class of the new one.
LEMMA ReviseCounts ==
    ASSUME TypeOK, NEW i \in 1..Len(history), NEW e \in Ends, Revise(i, e), NEW class
    PROVE  /\ Size(class)' = Size(class) - One(class = ClassOf(history[i].outcome))
                                         + One(class = ClassOf(Classify(e)))
           /\ class = ClassOf(history[i].outcome) => Size(class) >= 1
<1> DEFINE old == ClassOf(history[i].outcome)
           new == ClassOf(Classify(e))
           S   == Charged(class)
<1>1. /\ history \in Seq(Attempt)
      /\ Len(history') = Len(history)
      /\ history'[i].outcome = Classify(e)
      /\ \A j \in 1..Len(history) : j # i => history'[j] = history[j]
  BY DEF TypeOK, Revise, Attempt
<1>2. /\ IsFiniteSet(S) /\ Cardinality(S) \in Nat
      /\ Size(class) = Cardinality(S) /\ Size(class)' = Cardinality(S')
  BY SizeIsNat DEF Size
<1>3. /\ class = old <=> i \in S
      /\ class = new <=> i \in S'
      /\ \A j : j # i => (j \in S <=> j \in S')
  <2> HIDE DEF old, new
  <2> QED BY <1>1 DEF Charged, old, new
<1> HIDE DEF old, new, S
<1>4. CASE i \in S /\ i \in S'
  <2>1. S' = S
    BY <1>3, <1>4
  <2>2. Cardinality(S) >= 1
    BY <1>2, <1>4, FS_EmptySet
  <2> QED BY <2>1, <2>2, <1>2, <1>3, <1>4 DEF One, old, new
<1>5. CASE i \in S /\ i \notin S'
  <2>1. S' = S \ {i}
    BY <1>3, <1>5
  <2>2. Cardinality(S \ {i}) = Cardinality(S) - 1
    BY <1>2, <1>5, FS_RemoveElement
  <2>3. Cardinality(S) >= 1
    BY <1>2, <1>5, FS_EmptySet
  <2> QED BY <2>1, <2>2, <2>3, <1>2, <1>3, <1>5 DEF One, old, new
<1>6. CASE i \notin S /\ i \in S'
  <2>1. S' = S \cup {i}
    BY <1>3, <1>6
  <2>2. Cardinality(S \cup {i}) = Cardinality(S) + 1
    BY <1>2, <1>6, FS_AddElement
  <2> QED BY <2>1, <2>2, <1>2, <1>3, <1>6 DEF One, old, new
<1>7. CASE i \notin S /\ i \notin S'
  <2>1. S' = S
    BY <1>3, <1>7
  <2> QED BY <2>1, <1>2, <1>3, <1>7 DEF One, old, new
<1> QED BY <1>4, <1>5, <1>6, <1>7

-----------------------------------------------------------------------------
(* The steps.                                                              *)

\* Types are kept.
LEMMA TypeOKStep ==
    ASSUME TypeOK, Next
    PROVE  TypeOK'
<1>1. ASSUME NEW e \in Ends, NEW lead \in Leads, Dial(e, lead)
      PROVE  TypeOK'
  <2>1. e \in CallEnds /\ Classify(e) \in Outcomes /\ e.isAnswered \in BOOLEAN
    BY Classifies, EndsAssumption DEF EndsAssumption, CallEnds
  <2>2. counters' \in Counters
    BY <1>1, AddRemoveType DEF TypeOK, Dial
  <2>3. history' \in Seq(Attempt)
    BY <1>1, <2>1 DEF TypeOK, Dial, Attempt
  <2>4. status' \in ContactStatuses
    BY <1>1, Settles DEF Dial
  <2> QED BY <1>1, <2>2, <2>3, <2>4 DEF TypeOK, Dial
<1>2. ASSUME NEW i \in 1..Len(history), NEW e \in Ends, Revise(i, e)
      PROVE  TypeOK'
  <2>1. e \in CallEnds /\ Classify(e) \in Outcomes /\ e.isAnswered \in BOOLEAN
    BY Classifies, EndsAssumption DEF EndsAssumption, CallEnds
  <2>2. counters' \in Counters
    BY <1>2, AddRemoveType DEF TypeOK, Revise
  <2>3. history' \in Seq(Attempt)
    <3> DEFINE a == [history[i] EXCEPT !.outcome = Classify(e), !.isAnswered = e.isAnswered]
    <3>0. history[i] \in Attempt
      BY DEF TypeOK
    <3>1. a \in Attempt
      <4> DEFINE d == e.isAnswered
                 o == Classify(e)
      <4> HIDE DEF d, o
      <4>1. d \in BOOLEAN /\ o \in Outcomes
        BY <2>1 DEF d, o
      <4> QED BY <3>0, <4>1 DEF Attempt, d, o
    <3>2. history' = [history EXCEPT ![i] = a]
      BY <1>2 DEF TypeOK, Revise, Attempt
    <3> HIDE DEF a
    <3> QED BY <3>1, <3>2 DEF TypeOK
  <2>4. status' \in ContactStatuses
    BY <1>2, Settles DEF Revise, TypeOK
  <2>5. revisions' \in 0..MaxRevisions
    BY <1>2, EndsAssumption DEF Revise, TypeOK, EndsAssumption
  <2> QED BY <2>2, <2>3, <2>4, <2>5 DEF TypeOK
<1> QED BY <1>1, <1>2 DEF Next

\* Each attempt stays counted once: what a revision hands back had been
\* charged, so the floor of Remove is never met.
LEMMA CountedOnceStep ==
    ASSUME TypeOK, CountedOnce, Next
    PROVE  CountedOnce'
<1>0. /\ counters \in Counters
      /\ counters.attempts = Size("REACHED") /\ counters.systemFailures = Size("SYSTEM")
      /\ Size("REACHED") \in Nat /\ Size("SYSTEM") \in Nat
  BY SizeIsNat DEF CountedOnce, Size, TypeOK
<1>1. SUFFICES /\ counters'.attempts = Size("REACHED")'
               /\ counters'.systemFailures = Size("SYSTEM")'
  BY DEF CountedOnce, Size
<1>2. ASSUME NEW e \in Ends, NEW lead \in Leads, Dial(e, lead)
      PROVE  /\ counters'.attempts = Size("REACHED")'
             /\ counters'.systemFailures = Size("SYSTEM")'
  <2> DEFINE o == Classify(e)
  <2>1. /\ Size("REACHED")' = Size("REACHED") + One("REACHED" = ClassOf(o))
        /\ Size("SYSTEM")' = Size("SYSTEM") + One("SYSTEM" = ClassOf(o))
    BY <1>2, DialCounts
  <2>2. counters' = Add(counters, o)
    BY <1>2 DEF Dial
  <2> HIDE DEF o
  <2> QED BY <1>0, <2>1, <2>2 DEF Add, One, Counters
<1>3. ASSUME NEW i \in 1..Len(history), NEW e \in Ends, Revise(i, e)
      PROVE  /\ counters'.attempts = Size("REACHED")'
             /\ counters'.systemFailures = Size("SYSTEM")'
  <2> DEFINE o == Classify(e)
             p == history[i].outcome
             m == Remove(counters, p)
  <2>1. /\ Size("REACHED")' = Size("REACHED") - One("REACHED" = ClassOf(p))
                                              + One("REACHED" = ClassOf(o))
        /\ Size("SYSTEM")' = Size("SYSTEM") - One("SYSTEM" = ClassOf(p))
                                            + One("SYSTEM" = ClassOf(o))
        /\ "REACHED" = ClassOf(p) => Size("REACHED") >= 1
        /\ "SYSTEM" = ClassOf(p) => Size("SYSTEM") >= 1
    BY <1>3, ReviseCounts
  <2>2. counters' = Add(m, o)
    BY <1>3 DEF Revise
  <2> HIDE DEF o, p
  <2>3. /\ m \in Counters
        /\ m.attempts = Size("REACHED") - One("REACHED" = ClassOf(p))
        /\ m.systemFailures = Size("SYSTEM") - One("SYSTEM" = ClassOf(p))
    BY <1>0, <2>1 DEF Remove, AtLeastZero, One, Counters
  <2> HIDE DEF m
  <2> QED BY <1>0, <2>1, <2>2, <2>3 DEF Add, One, Counters
<1> QED BY <1>2, <1>3 DEF Next

\* A picked-up call, or a lead, leaves the contact settled.
LEMMA PickedUpIsSettledStep ==
    ASSUME TypeOK, PickedUpIsSettled, Next
    PROVE  PickedUpIsSettled'
<1>1. ASSUME NEW e \in Ends, NEW lead \in Leads, Dial(e, lead)
      PROVE  PickedUpIsSettled'
  <2>1. /\ Len(history') = Len(history) + 1
        /\ history'[Len(history')].isAnswered = e.isAnswered
        /\ history'[Len(history')].lead = lead
    BY <1>1 DEF Dial, TypeOK
  <2>2. e.isAnswered => Classify(e) \in AnsweredOutcomes
    BY Classifies, EndsAssumption DEF EndsAssumption
  <2>3. status' = Settle(Policy, Add(counters, Classify(e)), Classify(e), lead)
    BY <1>1 DEF Dial
  <2>4. Settle(Policy, Add(counters, Classify(e)), Classify(e), lead) = "ACTIVE"
            => lead = NoLead /\ Classify(e) \notin AnsweredOutcomes
    BY Settles
  <2> QED BY <2>1, <2>2, <2>3, <2>4 DEF PickedUpIsSettled
<1>2. ASSUME NEW i \in 1..Len(history), NEW e \in Ends, Revise(i, e)
      PROVE  PickedUpIsSettled'
  <2> DEFINE n == Len(history)
  <2>1. /\ n \in Nat /\ history # <<>> /\ Len(history') = n
        /\ history'[n].lead = history[n].lead
    BY <1>2 DEF Revise, TypeOK, Attempt
  <2>2. CASE i = n /\ status # "DNC"
    <3>1. history'[n].isAnswered = e.isAnswered
      BY <1>2, <2>1, <2>2 DEF Revise, TypeOK, Attempt
    <3>2. e.isAnswered => Classify(e) \in AnsweredOutcomes
      BY Classifies, EndsAssumption DEF EndsAssumption
    <3>3. status' = "ACTIVE" => history[n].lead = NoLead /\ Classify(e) \notin AnsweredOutcomes
      BY <1>2, <2>2, Settles DEF Revise
    <3> QED BY <2>1, <3>1, <3>2, <3>3 DEF PickedUpIsSettled
  <2>3. CASE i # n
    <3>1. history'[n] = history[n] /\ status' = status
      BY <1>2, <2>1, <2>3 DEF Revise, TypeOK, Attempt
    <3> QED BY <2>1, <3>1 DEF PickedUpIsSettled
  <2>4. CASE status = "DNC"
    BY <1>2, <2>4 DEF Revise, PickedUpIsSettled
  <2> QED BY <2>2, <2>3, <2>4
<1> QED BY <1>1, <1>2 DEF Next

\* An outcome that leaves the contact ACTIVE was charged to a budget with
\* something left.
HasRoom(class, r, s) ==
    \/ class = "REACHED" /\ r < Policy.maxAttempts
    \/ class = "SYSTEM" /\ s <= SystemBound

\* The two budgets as numbers, and the bound on dials they add up to.
LEMMA BudgetBounds ==
    /\ Policy.maxAttempts \in Nat \ {0} /\ SystemBound \in Nat
    /\ DialBound = Policy.maxAttempts + SystemBound
BY PolicyAssumption DEF PolicyAssumption, SystemBound, DialBound

\* The arithmetic of a dial: from ACTIVE, one class grows by one.
LEMMA DialKeepsWithin ==
    ASSUME NEW r \in Nat, NEW s \in Nat, NEW n \in Nat, NEW v \in Nat,
           NEW class \in Classes, NEW d \in {0, 1},
           Within(r, s, n, v, 0),
           d = 0 => HasRoom(class, r + One("REACHED" = class), s + One("SYSTEM" = class))
    PROVE  Within(r + One("REACHED" = class), s + One("SYSTEM" = class),
                  n + One("NONE" = class), v, d)
<1>1. /\ Policy.maxAttempts \in Nat \ {0} /\ SystemBound \in Nat
      /\ DialBound = Policy.maxAttempts + SystemBound
  BY BudgetBounds
<1> QED BY <1>1 DEF Within, HasRoom, One, Classes

\* The arithmetic of a revision, in two halves. Handing a charge back breaks
\* no bound.
LEMMA HandBackKeepsWithin ==
    ASSUME NEW r \in Nat, NEW s \in Nat, NEW n \in Nat, NEW v \in Nat, NEW d \in {0, 1},
           Within(r, s, n, v, d),
           NEW r1 \in 0..r, NEW s1 \in 0..s, NEW n1 \in 0..n
    PROVE  Within(r1, s1, n1, v, d)
<1>1. /\ Policy.maxAttempts \in Nat \ {0} /\ SystemBound \in Nat
      /\ DialBound = Policy.maxAttempts + SystemBound
  BY BudgetBounds
<1> QED BY <1>1 DEF Within

\* Charging the revised outcome is paid for by the revision. A contact that
\* was ACTIVE may stay so whatever the revision says (it is of an older
\* attempt); one that was not becomes ACTIVE only with budget left.
LEMMA RechargeKeepsWithin ==
    ASSUME NEW r \in Nat, NEW s \in Nat, NEW n \in Nat, NEW v \in Nat,
           NEW class \in Classes, NEW c \in {0, 1}, NEW d \in {0, 1},
           Within(r, s, n, v, c),
           d < c => HasRoom(class, r + One("REACHED" = class), s + One("SYSTEM" = class))
    PROVE  Within(r + One("REACHED" = class), s + One("SYSTEM" = class),
                  n + One("NONE" = class), v + 1, d)
<1>1. /\ Policy.maxAttempts \in Nat \ {0} /\ SystemBound \in Nat
      /\ DialBound = Policy.maxAttempts + SystemBound
  BY BudgetBounds
<1>2. CASE d >= c
  BY <1>1, <1>2 DEF Within, One, Classes
<1>3. CASE d < c
  <2>1. d = 0 /\ c = 1
    BY <1>3
  <2> QED BY <1>1, <1>3, <2>1 DEF Within, HasRoom, One, Classes
<1> QED BY <1>2, <1>3

\* What a settlement that leaves the contact ACTIVE says of the budgets.
LEMMA ActiveHasRoom ==
    ASSUME NEW c \in Counters, NEW o, NEW lead, Settle(Policy, c, o, lead) = "ACTIVE"
    PROVE  HasRoom(ClassOf(o), c.attempts, c.systemFailures)
<1>1. HasBudget(Policy, c, o)
  BY Settles
<1>2. Policy.maxSystemRetries \in Nat
  BY PolicyAssumption DEF PolicyAssumption
<1>3. ClassOf(o) \in Classes
  BY ClassOfIsAClass
<1> QED BY <1>1, <1>2, <1>3 DEF HasBudget, HasRoom, SystemBound, Classes, Counters

\* The sizes of the classes add up and stay within their bounds.
LEMMA BoundsStep ==
    ASSUME TypeOK, CountedOnce', TypeOK', ClassesAddUp, ClassesBounded, Next
    PROVE  ClassesAddUp' /\ ClassesBounded'
<1> DEFINE r == Size("REACHED")
           s == Size("SYSTEM")
           n == Size("NONE")
<1>0. /\ r \in Nat /\ s \in Nat /\ n \in Nat
      /\ Len(history) = r + s + n
      /\ Within(r, s, n, revisions, Slack)
  BY SizeIsNat DEF ClassesAddUp, ClassesBounded
<1>1. /\ r' \in Nat /\ s' \in Nat /\ n' \in Nat
      /\ counters' \in Counters
      /\ r' = counters'.attempts /\ s' = counters'.systemFailures
  <2>1. \A class : Charged(class)' \in SUBSET (1..Len(history'))
    BY DEF Charged
  <2>2. Len(history') \in Nat /\ IsFiniteSet(1..Len(history'))
    BY FS_Interval DEF TypeOK
  <2>3. \A class : Cardinality(Charged(class)') \in Nat
    BY <2>1, <2>2, FS_Subset, FS_CardinalityType
  <2>4. r' \in Nat /\ s' \in Nat /\ n' \in Nat
    BY <2>3 DEF Size
  <2> QED BY <2>4 DEF CountedOnce, Size, TypeOK
<1>2. revisions \in Nat /\ Slack \in {0, 1} /\ Slack' \in {0, 1}
  BY EndsAssumption DEF TypeOK, Slack, EndsAssumption
<1>3. SUFFICES /\ Len(history') = r' + s' + n'
               /\ Within(r', s', n', revisions', Slack')
  BY DEF ClassesAddUp, ClassesBounded, Within, SystemBound, DialBound
<1>4. ASSUME NEW e \in Ends, NEW lead \in Leads, Dial(e, lead)
      PROVE  /\ Len(history') = r' + s' + n'
             /\ Within(r', s', n', revisions', Slack')
  <2> DEFINE new == ClassOf(Classify(e))
  <2>1. /\ r' = r + One("REACHED" = new)
        /\ s' = s + One("SYSTEM" = new)
        /\ n' = n + One("NONE" = new)
    BY <1>4, DialCounts
  <2>2. new \in Classes
    BY ClassOfIsAClass
  <2>3. /\ Len(history') = Len(history) + 1
        /\ revisions' = revisions
        /\ Slack = 0
        /\ status' = Settle(Policy, counters', Classify(e), lead)
    BY <1>4 DEF Dial, Slack, TypeOK
  <2>4. Slack' = 0 => HasRoom(new, r', s')
    <3>1. Slack' = 0 => status' = "ACTIVE"
      BY DEF Slack
    <3> QED BY <3>1, <2>3, <1>1, ActiveHasRoom
  <2> HIDE DEF new, r, s, n
  <2>5. Within(r', s', n', revisions, Slack')
    BY <1>0, <1>1, <1>2, <2>1, <2>2, <2>3, <2>4, DialKeepsWithin
  <2>6. One("REACHED" = new) + One("SYSTEM" = new) + One("NONE" = new) = 1
    BY <2>2 DEF One, Classes
  <2>7. Len(history') = r' + s' + n'
    BY <1>0, <2>1, <2>3, <2>6 DEF One
  <2> QED BY <2>3, <2>5, <2>7
<1>5. ASSUME NEW i \in 1..Len(history), NEW e \in Ends, Revise(i, e)
      PROVE  /\ Len(history') = r' + s' + n'
             /\ Within(r', s', n', revisions', Slack')
  <2> DEFINE old == ClassOf(history[i].outcome)
             new == ClassOf(Classify(e))
  <2>1. /\ r' = r - One("REACHED" = old) + One("REACHED" = new)
        /\ s' = s - One("SYSTEM" = old) + One("SYSTEM" = new)
        /\ n' = n - One("NONE" = old) + One("NONE" = new)
    BY <1>5, ReviseCounts
  <2>2. /\ "REACHED" = old => r >= 1
        /\ "SYSTEM" = old => s >= 1
        /\ "NONE" = old => n >= 1
    BY <1>5, ReviseCounts
  <2>3. old \in Classes /\ new \in Classes
    BY ClassOfIsAClass
  <2>4. /\ Len(history') = Len(history)
        /\ revisions' = revisions + 1
        /\ status' = status
             \/ status' = Settle(Policy, counters', Classify(e), history[i].lead)
    BY <1>5 DEF Revise, TypeOK
  <2>5. Slack' < Slack => HasRoom(new, r', s')
    <3>1. Slack' < Slack => status' = "ACTIVE" /\ status # "ACTIVE"
      BY DEF Slack
    <3> QED BY <3>1, <2>4, <1>1, ActiveHasRoom
  <2> HIDE DEF old, new, r, s, n
  <2>6. Within(r', s', n', revisions + 1, Slack')
    <3> DEFINE r1 == r - One("REACHED" = old)
               s1 == s - One("SYSTEM" = old)
               n1 == n - One("NONE" = old)
    <3>1. r1 \in 0..r /\ s1 \in 0..s /\ n1 \in 0..n
      BY <1>0, <2>2 DEF One
    <3>2. /\ r' = r1 + One("REACHED" = new)
          /\ s' = s1 + One("SYSTEM" = new)
          /\ n' = n1 + One("NONE" = new)
      BY <2>1
    <3> HIDE DEF r1, s1, n1
    <3>3. Within(r1, s1, n1, revisions, Slack)
      BY <1>0, <1>2, <3>1, HandBackKeepsWithin
    <3>4. r1 \in Nat /\ s1 \in Nat /\ n1 \in Nat
      BY <1>0, <3>1
    <3> QED BY <1>2, <2>3, <2>5, <3>2, <3>3, <3>4, RechargeKeepsWithin
  <2>7. /\ One("REACHED" = new) + One("SYSTEM" = new) + One("NONE" = new) = 1
        /\ One("REACHED" = old) + One("SYSTEM" = old) + One("NONE" = old) = 1
    BY <2>3 DEF One, Classes
  <2>8. Len(history') = r' + s' + n'
    BY <1>0, <2>1, <2>4, <2>7 DEF One
  <2> QED BY <2>4, <2>6, <2>8
<1> QED BY <1>4, <1>5 DEF Next

-----------------------------------------------------------------------------
(* The invariant, and what follows from it.                                *)

\* A contact starts ACTIVE with nothing charged and all of its budget left.
LEMMA InitIInv == Init => IInv
<1> SUFFICES ASSUME Init
             PROVE  IInv
  OBVIOUS
<1>1. /\ Policy.maxAttempts \in Nat \ {0} /\ SystemBound \in Nat
      /\ DialBound = Policy.maxAttempts + SystemBound
  BY BudgetBounds
<1>2. Len(history) = 0
  BY DEF Init
<1>3. \A class : Size(class) = 0
  <2>1. \A class : Charged(class) = {}
    BY <1>2 DEF Charged
  <2> QED BY <2>1, FS_EmptySet DEF Size
<1>4. TypeOK
  BY EndsAssumption DEF Init, TypeOK, EndsAssumption, ContactStatuses, Counters, NoneSpent
<1>5. CountedOnce
  BY <1>3 DEF Init, CountedOnce, Size, NoneSpent
<1>6. PickedUpIsSettled
  BY DEF Init, PickedUpIsSettled
<1>7. ClassesAddUp
  BY <1>2, <1>3 DEF ClassesAddUp
<1>8. ClassesBounded
  BY <1>1, <1>3 DEF Init, ClassesBounded, Within, Slack
<1> QED BY <1>4, <1>5, <1>6, <1>7, <1>8 DEF IInv

\* Every dial, every revised record and every stutter keep the invariant.
LEMMA NextIInv == IInv /\ [Next]_vars => IInv'
<1> SUFFICES ASSUME IInv, [Next]_vars
             PROVE  IInv'
  OBVIOUS
<1>1. CASE Next
  <2>1. TypeOK'
    BY <1>1, TypeOKStep DEF IInv
  <2>2. CountedOnce'
    BY <1>1, CountedOnceStep DEF IInv
  <2>3. PickedUpIsSettled'
    BY <1>1, PickedUpIsSettledStep DEF IInv
  <2>4. ClassesAddUp' /\ ClassesBounded'
    BY <1>1, <2>1, <2>2, BoundsStep DEF IInv
  <2> QED BY <2>1, <2>2, <2>3, <2>4 DEF IInv
<1>2. CASE UNCHANGED vars
  BY <1>2 DEF vars, IInv, TypeOK, CountedOnce, PickedUpIsSettled, ClassesAddUp,
              ClassesBounded, Within, Slack, Size, Charged, SystemBound, DialBound
<1> QED BY <1>1, <1>2

\* The inductive invariant of a contact's life: what attemptFinisher.apply
\* keeps true through every dial and every revised record.
THEOREM ContactInvariant == Spec => []IInv
BY InitIInv, NextIInv, PTL DEF Spec

\* The status is one of the stored ones, the two counters never go below
\* zero, and the history holds only classified attempts.
THEOREM ContactTypeOK == Spec => []TypeOK
<1>1. IInv => TypeOK
  BY DEF IInv
<1> QED BY <1>1, ContactInvariant, PTL

\* "A call is counted once however many revisions it goes through": after any
\* dials and revisions the two counters are the recount of the attempts.
THEOREM ContactCountedOnce == Spec => []CountedOnce
<1>1. IInv => CountedOnce
  BY DEF IInv
<1> QED BY <1>1, ContactInvariant, PTL

\* A contact whose latest call was picked up, or recorded a lead, is never
\* dialled again, whatever cause the records carry.
THEOREM ContactPickedUpIsSettled == Spec => []PickedUpIsSettled
<1>1. IInv => PickedUpIsSettled
  BY DEF IInv
<1> QED BY <1>1, ContactInvariant, PTL

\* A contact is dialled at most as often as its two budgets allow, and once
\* more for each revised record, under every retry policy.
THEOREM ContactDialsBounded == Spec => []DialsBounded
<1>1. IInv => DialsBounded
  <2> SUFFICES ASSUME IInv
               PROVE  DialsBounded
    OBVIOUS
  <2>1. /\ Size("REACHED") \in Nat /\ Size("SYSTEM") \in Nat /\ Size("NONE") \in Nat
    BY SizeIsNat DEF IInv
  <2>2. /\ Len(history) = Size("REACHED") + Size("SYSTEM") + Size("NONE")
        /\ Size("REACHED") + Size("SYSTEM") + Size("NONE") + 1
             <= DialBound + revisions + Slack
    BY DEF IInv, ClassesAddUp, ClassesBounded, Within
  <2>3. Slack \in {0, 1} /\ revisions \in Nat /\ DialBound \in Nat
    BY PolicyAssumption, EndsAssumption
    DEF IInv, TypeOK, Slack, DialBound, PolicyAssumption, EndsAssumption
  <2> QED BY <2>1, <2>2, <2>3 DEF DialsBounded
<1> QED BY <1>1, ContactInvariant, PTL
=============================================================================
