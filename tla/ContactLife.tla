---------------------------- MODULE ContactLife ----------------------------
(***************************************************************************)
(* One contact of a campaign, dialled until the rules settle it. Every     *)
(* dial ends in a CDR (any combination of facts a CDR can carry), possibly *)
(* with a lead the bot recorded; a fuller CDR may later replace the facts  *)
(* of any attempt, the latest or an older one. This is the finish routine  *)
(* (attemptFinisher.apply) seen from the one contact it charges.           *)
(***************************************************************************)
EXTENDS CampaignRules, FiniteSets

CONSTANTS
    Policy,       \* the campaign's retry policy
    Ends,         \* the call endings considered, a subset of CallEnds
    Leads,        \* the leads considered, "" for none
    MaxRevisions  \* bound: how many fuller CDRs arrive

ASSUME PolicyAssumption ==
    /\ Policy.maxAttempts \in Nat \ {0}
    /\ Policy.maxSystemRetries \in Nat
    /\ Policy.retryOutcomes \subseteq RetryableOutcomes

ASSUME EndsAssumption ==
    /\ Ends \subseteq CallEnds
    /\ Leads \subseteq LeadIntents \cup {NoLead}
    /\ MaxRevisions \in Nat

VARIABLES
    status,    \* campaign_contacts.status
    counters,  \* campaign_contacts.attempts and .system_failures
    history,   \* the contact's attempts, oldest first
    revisions  \* how many fuller CDRs have been applied

vars == <<status, counters, history, revisions>>

Attempt == [outcome : Outcomes, isAnswered : BOOLEAN, lead : Leads]

Init ==
    /\ status = "ACTIVE"
    /\ counters = NoneSpent
    /\ history = <<>>
    /\ revisions = 0

\* A dial and its ending: the attempt is charged to its budget and the
\* contact settled.
Dial(e, lead) ==
    LET o == Classify(e)
        c == Add(counters, o)
    IN  /\ status = "ACTIVE"
        /\ counters' = c
        /\ status' = Settle(Policy, c, o, lead)
        /\ history' = Append(history, [outcome |-> o, isAnswered |-> e.isAnswered, lead |-> lead])
        /\ UNCHANGED revisions

\* A fuller CDR of attempt i: the old cost is handed back and the new one
\* charged. Only the latest attempt decides the contact's fate, and a contact
\* on the do-not-call list stays there.
Revise(i, e) ==
    LET o == Classify(e)
        c == Add(Remove(counters, history[i].outcome), o)
    IN  /\ o # history[i].outcome
        /\ revisions < MaxRevisions
        /\ revisions' = revisions + 1
        /\ counters' = c
        /\ history' = [history EXCEPT ![i].outcome = o, ![i].isAnswered = e.isAnswered]
        /\ status' = IF i = Len(history) /\ status # "DNC"
                     THEN Settle(Policy, c, o, history[i].lead)
                     ELSE status

Next ==
    \/ \E e \in Ends, lead \in Leads : Dial(e, lead)
    \/ \E i \in 1..Len(history), e \in Ends : Revise(i, e)

Spec == Init /\ [][Next]_vars

-----------------------------------------------------------------------------
(***************************************************************************)
(* Properties.                                                             *)
(***************************************************************************)
TypeOK ==
    /\ status \in ContactStatuses
    /\ counters \in Counters
    /\ history \in Seq(Attempt)
    /\ revisions \in 0..MaxRevisions

\* The attempts of a budget class.
Charged(class) == {i \in 1..Len(history) : ClassOf(history[i].outcome) = class}

\* "A call is counted once however many revisions it goes through": the two
\* counters are what recounting the attempts' present outcomes gives.
CountedOnce ==
    /\ counters.attempts = Cardinality(Charged("REACHED"))
    /\ counters.systemFailures = Cardinality(Charged("SYSTEM"))

\* A contact whose latest call was picked up, or recorded a lead, is never
\* waiting for another dial, whatever cause the call's CDR carries.
PickedUpIsSettled ==
    LET last == history[Len(history)]
    IN  history # <<>> /\ (last.isAnswered \/ last.lead # NoLead) => status # "ACTIVE"

\* The longest list of attempts the two budgets allow.
DialBound ==
    Policy.maxAttempts + (IF Policy.maxSystemRetries = 0 THEN 0 ELSE Policy.maxSystemRetries - 1)

\* The two budgets together bound how often one contact is dialled: a number
\* that always fails is not retried for ever. Each fuller CDR can hand back at
\* most one charge, so it can allow at most one more dial.
DialsBounded == Len(history) <= DialBound + revisions
=============================================================================
