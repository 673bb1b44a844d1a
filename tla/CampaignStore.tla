--------------------------- MODULE CampaignStore ---------------------------
(***************************************************************************)
(* The campaign tables of the database and the transactions on them        *)
(* (internal/store: campaignattempts.go, dialerstore.go, campaignstore.go  *)
(* and their SQL). A transaction is one operator that says what it does to *)
(* the tables; the module that runs it makes it a step of its own. The     *)
(* rows survive a crash of the application.                                *)
(***************************************************************************)
EXTENDS CampaignRules, FiniteSets

CONSTANTS
    Campaigns,   \* campaigns.id
    Contacts,    \* campaign_contacts.id
    Numbers,     \* canonical E.164 numbers
    CampaignOf,  \* the campaign of a contact
    NumberOf,    \* the number of a contact
    Policy,      \* the retry policy, the same for every campaign
    MaxCalls     \* bound: attempts ever written, calls are numbered in order

ASSUME StoreAssumption ==
    /\ CampaignOf \in [Contacts -> Campaigns]
    /\ NumberOf \in [Contacts -> Numbers]
    /\ MaxCalls \in Nat
    /\ Policy.maxAttempts \in Nat \ {0}
    /\ Policy.maxSystemRetries \in Nat

VARIABLES
    campaign,  \* campaigns: status and pause_reason
    contact,   \* campaign_contacts: status, next_attempt_at, the two counters
    att,       \* campaign_attempts, by call id: state, contact, outcome, lead
    nAtt,      \* how many attempts have been written
    dnc,       \* dnc_numbers
    ledger,    \* cdrs, by call id: the outcome the row classifies to
    log,       \* finished attempts, oldest first (ORDER BY finished_at)
    aged       \* attempts that started before the frequency window

tables == <<campaign, contact, att, nAtt, dnc, ledger, log, aged>>

Calls == 1..MaxCalls

CampaignStatuses == {"DRAFT", "RUNNING", "PAUSED", "COMPLETED", "CANCELLED"}

PauseReasons ==
    {"MANUAL", "TRUNK_FAILURE", "PROVIDER_FAILURE", "OUTBOUND_NOT_CONFIGURED", "NONE"}

\* next_attempt_at against the clock: no due time, a time not yet come, due.
DueTimes == {"NULL", "LATER", "DUE"}

NoContact == "no contact"
NoOutcome == "no outcome"
NoCDR     == "no cdr"

NoAttempt == [state |-> "NONE", contact |-> NoContact, outcome |-> NoOutcome, lead |-> NoLead]

NotImported == [status |-> "ABSENT", next |-> "NULL", counters |-> NoneSpent]

StoreTypeOK ==
    /\ campaign \in [Campaigns -> [status : CampaignStatuses, reason : PauseReasons]]
    /\ contact \in [Contacts -> [ status   : ContactStatuses \cup {"ABSENT"},
                                  next     : DueTimes,
                                  counters : Counters ]]
    /\ att \in [Calls -> [ state   : {"NONE", "DIALING", "FINISHED"},
                           contact : Contacts \cup {NoContact},
                           outcome : Outcomes \cup {NoOutcome},
                           lead    : LeadIntents \cup {NoLead} ]]
    /\ nAtt \in 0..MaxCalls
    /\ dnc \subseteq Numbers
    /\ ledger \in [Calls -> Outcomes \cup {NoCDR}]
    /\ log \in Seq(Calls)
    /\ aged \subseteq Calls

\* The contacts of preloaded were imported, and the campaigns of started were
\* started, before the behaviour begins.
StoreInit(preloaded, started) ==
    /\ campaign = [c \in Campaigns |->
                      [status |-> IF c \in started THEN "RUNNING" ELSE "DRAFT", reason |-> "NONE"]]
    /\ contact = [x \in Contacts |->
                     IF x \in preloaded
                     THEN [NotImported EXCEPT !.status = "ACTIVE",
                              !.next = IF CampaignOf[x] \in started THEN "DUE" ELSE "NULL"]
                     ELSE NotImported]
    /\ att = [k \in Calls |-> NoAttempt]
    /\ nAtt = 0
    /\ dnc = {}
    /\ ledger = [k \in Calls |-> NoCDR]
    /\ log = <<>>
    /\ aged = {}

-----------------------------------------------------------------------------
(***************************************************************************)
(* Reads.                                                                  *)
(***************************************************************************)
IsRunning(c) == campaign[c].status = "RUNNING"

IsDialing(k) == att[k].state = "DIALING"

IsFinished(k) == att[k].state = "FINISHED"

\* The calls of a written attempt.
Written == {k \in Calls : att[k].state # "NONE"}

AttemptsOf(x) == {k \in Written : att[k].contact = x}

CampaignOfCall(k) == CampaignOf[att[k].contact]

NumberOfCall(k) == NumberOf[att[k].contact]

IsNumberDialing(n) == \E k \in Calls : IsDialing(k) /\ NumberOfCall(k) = n

\* Another campaign reached the contact's number within the frequency window.
IsHeldByFrequency(x) ==
    \E k \in Calls : /\ IsFinished(k)
                     /\ IsTouched(att[k].outcome)
                     /\ NumberOfCall(k) = NumberOf[x]
                     /\ CampaignOfCall(k) # CampaignOf[x]
                     /\ k \notin aged

\* What DueCampaignContacts and HeldByFrequency have in common: ACTIVE, due,
\* not on the do-not-call list and with no attempt in flight for the number.
IsDialable(x) ==
    /\ contact[x].status = "ACTIVE"
    /\ contact[x].next = "DUE"
    /\ NumberOf[x] \notin dnc
    /\ ~IsNumberDialing(NumberOf[x])

HeldByFrequency(c) == {x \in Contacts : CampaignOf[x] = c /\ IsDialable(x) /\ IsHeldByFrequency(x)}

Due(c) == {x \in Contacts : CampaignOf[x] = c /\ IsDialable(x) /\ ~IsHeldByFrequency(x)}

\* Contacts of running campaigns that wait for a dial to a listed number.
DNCContacts ==
    {x \in Contacts : /\ IsRunning(CampaignOf[x])
                      /\ contact[x].status = "ACTIVE"
                      /\ contact[x].next # "NULL"
                      /\ NumberOf[x] \in dnc}

Dialing == {k \in Calls : IsDialing(k)}

\* A campaign's outcomes in lg from position from on, newest first, each as
\* the attempt table at has it.
OutcomesSince(c, from, lg, at) ==
    LET mine == SelectSeq(SubSeq(lg, from + 1, Len(lg)),
                          LAMBDA k : CampaignOf[at[k].contact] = c)
    IN  [i \in 1..Len(mine) |-> at[mine[Len(mine) + 1 - i]].outcome]

-----------------------------------------------------------------------------
(***************************************************************************)
(* The write-ahead transaction and its undoing.                            *)
(***************************************************************************)
\* The contact is still ACTIVE, and the partial unique index on the numbers in
\* flight admits the row.
CanBegin(x) == contact[x].status = "ACTIVE" /\ ~IsNumberDialing(NumberOf[x])

\* Mutant of Begin: no unique index; the claim on the contact alone decides.
BeginMutant(x) ==
    /\ contact[x].status = "ACTIVE"
    /\ nAtt < MaxCalls
    /\ nAtt' = nAtt + 1
    /\ att' = [att EXCEPT ![nAtt + 1] = [NoAttempt EXCEPT !.state = "DIALING", !.contact = x]]
    /\ contact' = [contact EXCEPT ![x].next = "NULL"]
    /\ UNCHANGED <<campaign, dnc, ledger, log, aged>>

Begin(x) ==
    /\ CanBegin(x)
    /\ nAtt < MaxCalls
    /\ nAtt' = nAtt + 1
    /\ att' = [att EXCEPT ![nAtt + 1] = [NoAttempt EXCEPT !.state = "DIALING", !.contact = x]]
    /\ contact' = [contact EXCEPT ![x].next = "NULL"]
    /\ UNCHANGED <<campaign, dnc, ledger, log, aged>>

\* Void deletes the row that Begin has just written; the contact is due again
\* unless it has become DNC meanwhile.
Void(k) ==
    LET x == att[k].contact
    IN  /\ IsDialing(k)
        /\ k = nAtt
        /\ nAtt' = nAtt - 1
        /\ att' = [att EXCEPT ![k] = NoAttempt]
        /\ contact' = IF contact[x].status = "ACTIVE" /\ contact[x].next = "NULL"
                      THEN [contact EXCEPT ![x].next = "DUE"]
                      ELSE contact
        /\ UNCHANGED <<dnc, ledger, log, aged>>

-----------------------------------------------------------------------------
(***************************************************************************)
(* The finish routine.                                                     *)
(***************************************************************************)
IsLatest(k) == \A j \in AttemptsOf(att[k].contact) : j <= k

\* A revision that changes nothing writes nothing and announces nothing; it may
\* repeat the outcome and still bring another cause or talk time (isMore).
IsSameRevision(k, o, isMore) == IsFinished(k) /\ att[k].outcome = o /\ ~isMore

\* Mutant of ContactAfter: a contact marked DNC while its call was in flight is
\* settled like any other.
ContactAfterMutant(k, o) ==
    LET x    == att[k].contact
        back == IF IsFinished(k) THEN Remove(contact[x].counters, att[k].outcome)
                                 ELSE contact[x].counters
        cnt  == Add(back, o)
        st   == Settle(Policy, cnt, o, att[k].lead)
    IN  IF IsLatest(k)
        THEN [status |-> st, next |-> IF st = "ACTIVE" THEN "LATER" ELSE "NULL", counters |-> cnt]
        ELSE [contact[x] EXCEPT !.counters = cnt]

\* Mutant of ContactAfter: a revision is charged on top of what it revises.
ContactAfterRecharged(k, o) ==
    LET x   == att[k].contact
        cnt == Add(contact[x].counters, o)
        st  == IF contact[x].status = "DNC" THEN "DNC" ELSE Settle(Policy, cnt, o, att[k].lead)
    IN  IF IsLatest(k)
        THEN [status |-> st, next |-> IF st = "ACTIVE" THEN "LATER" ELSE "NULL", counters |-> cnt]
        ELSE [contact[x] EXCEPT !.counters = cnt]

\* Mutant of ContactAfter: a contact to be retried is given no time.
ContactAfterUntimed(k, o) ==
    LET x   == att[k].contact
        cnt == Add(contact[x].counters, o)
        st  == IF contact[x].status = "DNC" THEN "DNC" ELSE Settle(Policy, cnt, o, att[k].lead)
    IN  [status |-> st, next |-> "NULL", counters |-> cnt]

\* The contact's row after attempt k ended with o: the old cost of a revised
\* attempt is handed back first, and only the latest attempt of a contact not
\* yet DNC decides its fate.
ContactAfter(k, o) ==
    LET x    == att[k].contact
        back == IF IsFinished(k) THEN Remove(contact[x].counters, att[k].outcome)
                                 ELSE contact[x].counters
        cnt  == Add(back, o)
        st   == IF contact[x].status = "DNC" THEN "DNC"
                ELSE Settle(Policy, cnt, o, att[k].lead)
    IN  IF IsLatest(k)
        THEN [status |-> st, next |-> IF st = "ACTIVE" THEN "LATER" ELSE "NULL", counters |-> cnt]
        ELSE [contact[x] EXCEPT !.counters = cnt]

\* apply, on the locked attempt k. The caller's transaction says what happens
\* to the campaign and to the ledger.
Apply(k, o, isMore) ==
    /\ IF IsSameRevision(k, o, isMore)
       THEN UNCHANGED <<att, contact, dnc, log>>
       ELSE /\ att' = [att EXCEPT ![k].state = "FINISHED", ![k].outcome = o]
            /\ contact' = [contact EXCEPT ![att[k].contact] = ContactAfter(k, o)]
            /\ dnc' = IF att[k].lead = "DO_NOT_CALL" THEN dnc \cup {NumberOfCall(k)} ELSE dnc
            /\ log' = IF IsFinished(k) THEN log ELSE Append(log, k)
    /\ UNCHANGED <<nAtt, aged>>

\* What OnAttemptFinished announces once that transaction has committed.
Announced(k, o, isMore) ==
    IF IsSameRevision(k, o, isMore) THEN {}
    ELSE {[type |-> "finished", call |-> k, outcome |-> o, isRevision |-> IsFinished(k)]}

\* Mutant of Finish: an attempt the CDR has already finished is overwritten.
FinishMutant(k, o) ==
    /\ Apply(k, o, FALSE)
    /\ UNCHANGED ledger

\* Finish: an ending without a CDR. An attempt no longer DIALING is left alone.
Finish(k, o) ==
    /\ IF IsDialing(k) THEN Apply(k, o, FALSE)
                       ELSE UNCHANGED <<att, contact, dnc, log, nAtt, aged>>
    /\ UNCHANGED ledger

AnnouncedByFinish(k, o) == IF IsDialing(k) THEN Announced(k, o, FALSE) ELSE {}

\* InsertCDR: the row and the attempt it ends, in one transaction.
InsertCDR(k, o, isMore) ==
    /\ ledger' = [ledger EXCEPT ![k] = o]
    /\ Apply(k, o, isMore)
    /\ UNCHANGED campaign

-----------------------------------------------------------------------------
(***************************************************************************)
(* Single-statement updates.                                               *)
(***************************************************************************)
\* Defer, of the contacts D: a contact already waiting for a later time, or
\* claimed meanwhile, is left alone.
DeferredContacts(D) ==
    [x \in Contacts |->
        IF x \in D /\ contact[x].status = "ACTIVE" /\ contact[x].next = "DUE"
        THEN [contact[x] EXCEPT !.next = "LATER"]
        ELSE contact[x]]

\* MarkDialingContactsDNC: a listed number whose call is in flight is not hung
\* up; its contact becomes DNC at once, so that no retry follows.
MarkedDialingDNC ==
    [x \in Contacts |->
        IF /\ contact[x].status = "ACTIVE" /\ contact[x].next = "NULL"
           /\ NumberOf[x] \in dnc
           /\ \E k \in AttemptsOf(x) : IsDialing(k)
        THEN [contact[x] EXCEPT !.status = "DNC"]
        ELSE contact[x]]

\* StartCampaign and ArmCampaignContacts.
Start(c) ==
    /\ campaign[c].status = "DRAFT"
    /\ campaign' = [campaign EXCEPT ![c].status = "RUNNING"]
    /\ contact' = [x \in Contacts |->
                      IF /\ CampaignOf[x] = c
                         /\ contact[x].status = "ACTIVE" /\ contact[x].next = "NULL"
                      THEN [contact[x] EXCEPT !.next = "DUE"]
                      ELSE contact[x]]
    /\ UNCHANGED <<att, nAtt, dnc, ledger, log, aged>>

\* A conditional update of the campaign's row, from one of the statuses From.
Move(c, From, to, why) ==
    /\ campaign[c].status \in From
    /\ campaign' = [campaign EXCEPT ![c] = [status |-> to, reason |-> why]]
    /\ UNCHANGED <<contact, att, nAtt, dnc, ledger, log, aged>>

\* The campaign's rows after PauseFor, and whether it paused anything.
PausedFor(c, why) == [campaign EXCEPT ![c] = [status |-> "PAUSED", reason |-> why]]

\* CompleteCampaign's condition: the campaign runs, has contacts, and none is
\* ACTIVE.
IsExhausted(c) ==
    /\ IsRunning(c)
    /\ \E x \in Contacts : CampaignOf[x] = c /\ contact[x].status # "ABSENT"
    /\ \A x \in Contacts : CampaignOf[x] = c => contact[x].status # "ACTIVE"

\* Import, under a share lock on the campaign: refused when it is over; due at
\* once unless it has not started.
Import(x) ==
    /\ contact[x].status = "ABSENT"
    /\ campaign[CampaignOf[x]].status \in {"DRAFT", "RUNNING", "PAUSED"}
    /\ contact' = [contact EXCEPT ![x].status = "ACTIVE",
                                  ![x].next = IF campaign[CampaignOf[x]].status = "DRAFT"
                                              THEN "NULL" ELSE "DUE"]
    /\ UNCHANGED <<campaign, att, nAtt, dnc, ledger, log, aged>>

\* SetLead: only an attempt still in flight can be written to.
SetLead(k, lead) ==
    /\ IsDialing(k)
    /\ att' = [att EXCEPT ![k].lead = lead]
    /\ UNCHANGED <<campaign, contact, nAtt, dnc, ledger, log, aged>>
=============================================================================
