------------------------ MODULE CampaignDialerProofs ------------------------
(***************************************************************************)
(* What the campaign dialer promises holds for every set of campaigns,     *)
(* contacts and numbers, every retry policy, every limit and every number  *)
(* of attempts, crashes and failures of the store.                         *)
(*                                                                         *)
(* The argument. Whatever a step is called, what it does to the rows is    *)
(* one of a few Moves: nothing, a new attempt, a call placed, a call that  *)
(* goes on or ends, a record written, a finish, a lead, a crash. NextMoves *)
(* says so once; the parts about the rows (BasicInv, HistoryInv, the       *)
(* counters) are then proved kind by kind. The parts about the actor (its  *)
(* call at hand, its lists, its pass) are proved action by action. IInv    *)
(* conjoins them all, and every theorem at the end is one of its parts.    *)
(***************************************************************************)
EXTENDS CampaignDialer, FiniteSetTheorems, TLAPS

(***************************************************************************)
(* The strengthening, part by part.                                        *)
(***************************************************************************)
\* The attempts are the first nAtt calls. A call without an attempt has left no
\* trace anywhere, and an attempt in flight has no outcome.
RowsInv ==
    \A k \in Calls :
        /\ k <= nAtt <=> att[k].state # "NONE"
        /\ att[k].state = "NONE" =>
              att[k] = NoAttempt /\ call[k] = "none" /\ writes[k] = 0 /\ ledger[k] = NoCDR
        /\ att[k].state # "NONE" => att[k].contact \in Contacts
        /\ IsDialing(k) => att[k].outcome = NoOutcome

\* A call whose originate ran in time.
IsTimely(k) == call[k] \in {"placing", "ringing", "talking"}

\* A CDR is written of a call that has ended.
WritesInv == \A k \in Calls : writes[k] > 0 => call[k] \in {"missed", "taken", "over"}

\* The unique index: one attempt in flight per number.
OneDialPerNumber ==
    \A j, k \in Calls : IsDialing(j) /\ IsDialing(k) /\ NumberOfCall(j) = NumberOfCall(k) => j = k

\* The call the actor is working on.
CurInv ==
    /\ pc \in {"place", "skip"} => /\ cur = nAtt /\ cur \in Calls
                                   /\ IsDialing(cur) /\ call[cur] = "none"
    /\ pc = "place" => cur \in flights
    /\ pc = "skip" => cur \notin flights
    /\ pc \in {"unknown", "recoverUnknown"} => cur \in Written /\ ~IsTimely(cur)

\* The actor's lists: flights and what a restart has yet to look at are
\* attempts, disjoint; a finished attempt is announced only when it is.
ListsInv ==
    /\ flights \subseteq Written /\ todo \subseteq Written /\ flights \cap todo = {}
    /\ pc \notin {"recover", "recoverUnknown"} => todo = {}
    /\ pc \in {"down", "start"} => flights = {}
    /\ \A m \in inbox : m.type = "finished" => IsFinished(m.call)

\* Once a restart has listed its attempts, every attempt in flight is a flight,
\* still on the list, or the one at hand; unless the store has failed.
WatchInv ==
    spent.errors = 0 /\ pc \notin {"down", "start"} =>
        \A k \in Calls : IsDialing(k) => \/ k \in flights \cup todo
                                         \/ pc \in {"skip", "recoverUnknown"} /\ k = cur

\* A pass admits only to campaigns that have started and are not complete, and
\* attempts exist only for contacts and campaigns that are.
PassInv ==
    /\ \A c \in pass.open : campaign[c].status \notin {"DRAFT", "COMPLETED"}
    /\ pc = "admit" => turn \in Campaigns /\ campaign[turn].status \notin {"DRAFT", "COMPLETED"}
    /\ \A k \in Written : /\ contact[att[k].contact].status # "ABSENT"
                          /\ campaign[CampaignOfCall(k)].status # "DRAFT"

\* An attempt is open while its outcome may still change. That of a late call may
\* change long after it was settled, when nothing waits for it any more.
IsOpen(k) == IsDialing(k) \/ (writes[k] > 0 /\ ~IsLate(k))

IsListed(x) == NumberOf[x] \in dnc

IsConclusive(k) == att[k].lead # NoLead \/ (att[k].outcome \in AnsweredOutcomes /\ ~IsLate(k))

\* An open attempt is its contact's latest, and the contact is not due; except
\* that a listed contact may be skipped while the record of its last call is
\* still being written.
OpenAt(k) ==
    LET x == att[k].contact
    IN  /\ IsDialing(k) => IsLatest(k) /\ contact[x].next = "NULL"
        /\ IsOpen(k) => IsListed(x) \/ (IsLatest(k) /\ contact[x].next # "DUE")

OpenInv == \A k \in Written : OpenAt(k)

\* Once a contact is called again, what its earlier calls came to is settled.
SettledInv ==
    \A j, k \in Written :
        att[j].contact = att[k].contact /\ call[k] # "none" /\ j < k => ~IsOpen(j)

\* A contact that picked up or left a lead has no later attempt and is not
\* ACTIVE once that call is over, unless its number is listed.
ConclusiveAt(k) ==
    LET x == att[k].contact
    IN  IsConclusive(k) => \/ IsListed(x)
                           \/ IsLatest(k) /\ (IsFinished(k) => contact[x].status # "ACTIVE")

ConclusiveInv == \A k \in Written : ConclusiveAt(k)

\* What was ready when the batch was read has no open attempt, unless it is
\* listed. (The record of a late call may end its contact even then.)
IsClear(x) == \A k \in AttemptsOf(x) : ~IsOpen(k)

ReadyInv ==
    \A c \in Campaigns : \A x \in pass.ready[c] : CampaignOf[x] = c /\ (IsListed(x) \/ IsClear(x))

-----------------------------------------------------------------------------
(***************************************************************************)
(* What the rules and the transactions do to a row.                        *)
(***************************************************************************)
ContactRows == [ status   : ContactStatuses \cup {"ABSENT"},
                 next     : DueTimes,
                 counters : Counters ]

AttemptRows == [ state   : {"NONE", "DIALING", "FINISHED"},
                 contact : Contacts \cup {NoContact},
                 outcome : Outcomes \cup {NoOutcome},
                 lead    : LeadIntents \cup {NoLead} ]

\* The tables' types, with the rows named.
LEMMA StoreTypes ==
    StoreTypeOK <=>
        /\ campaign \in [Campaigns -> [status : CampaignStatuses, reason : PauseReasons]]
        /\ contact \in [Contacts -> ContactRows]
        /\ att \in [Calls -> AttemptRows]
        /\ nAtt \in 0..MaxCalls
        /\ dnc \subseteq Numbers
        /\ ledger \in [Calls -> Outcomes \cup {NoCDR}]
        /\ log \in Seq(Calls)
        /\ aged \subseteq Calls
BY DEF StoreTypeOK, ContactRows, AttemptRows

\* Add and Remove keep the counters natural numbers.
LEMMA Spending ==
    ASSUME NEW c \in Counters, NEW o
    PROVE  Add(c, o) \in Counters /\ Remove(c, o) \in Counters
<1>1. c.attempts \in Nat /\ c.systemFailures \in Nat
  BY DEF Counters
<1>2. /\ [c EXCEPT !.attempts = @ + 1] \in Counters
      /\ [c EXCEPT !.systemFailures = @ + 1] \in Counters
  BY <1>1 DEF Counters
<1>3. \A n \in Nat : AtLeastZero(n - 1) \in Nat
  BY DEF AtLeastZero
<1>4. /\ [c EXCEPT !.attempts = AtLeastZero(@ - 1)] \in Counters
      /\ [c EXCEPT !.systemFailures = AtLeastZero(@ - 1)] \in Counters
  BY <1>1, <1>3 DEF Counters
<1>5. Add(c, o) \in Counters
  BY <1>2 DEF Add, ClassOf
<1>6. Remove(c, o) \in Counters
  BY <1>4 DEF Remove, ClassOf
<1> QED BY <1>5, <1>6

\* Settle gives a contact one of its statuses, and never the one that is dialled
\* again once the customer picked up or left a lead.
LEMMA Settles ==
    ASSUME NEW p, NEW c, NEW o, NEW lead
    PROVE  /\ Settle(p, c, o, lead) \in ContactStatuses
           /\ lead # NoLead \/ o \in AnsweredOutcomes => Settle(p, c, o, lead) # "ACTIVE"
<1>1. CASE lead # NoLead
  BY <1>1 DEF Settle, ContactStatuses
<1>2. CASE lead = NoLead /\ o \in AnsweredOutcomes
  BY <1>2 DEF Settle, ContactStatuses, IsAnsweredOutcome, AnsweredOutcomes, NoLead
<1>3. CASE lead = NoLead /\ o \notin AnsweredOutcomes
  <2>1. Settle(p, c, o, lead) \in {"INVALID_NUMBER", "DNC", "ACTIVE", "EXHAUSTED"}
    BY <1>3 DEF Settle, IsAnsweredOutcome, NoLead
  <2> QED BY <1>3, <2>1 DEF ContactStatuses
<1> QED BY <1>1, <1>2, <1>3

\* The row ContactAfter makes: what the latest attempt decides, what an earlier
\* one leaves alone, and that DNC stays.
LEMMA AfterIs ==
    ASSUME StoreTypeOK, NEW k \in Calls, att[k].contact \in Contacts, NEW o
    PROVE  LET x == att[k].contact
               c == ContactAfter(k, o)
           IN  /\ c \in ContactRows
               /\ contact[x].status = "DNC" => c.status = "DNC"
               /\ contact[x].status # "ABSENT" => c.status # "ABSENT"
               /\ ~IsLatest(k) => c.status = contact[x].status /\ c.next = contact[x].next
               /\ IsLatest(k) => /\ c.next # "DUE"
                                 /\ c.status # "ACTIVE" => c.next = "NULL"
                                 /\ att[k].lead # NoLead \/ o \in AnsweredOutcomes =>
                                        c.status # "ACTIVE"
<1> DEFINE x == att[k].contact
           back == IF IsFinished(k) THEN Remove(contact[x].counters, att[k].outcome)
                                    ELSE contact[x].counters
           cnt == Add(back, o)
           st == IF contact[x].status = "DNC" THEN "DNC"
                 ELSE Settle(Policy, cnt, o, att[k].lead)
           c == ContactAfter(k, o)
<1>1. contact[x] \in ContactRows
  BY StoreTypes
<1>2. contact[x].counters \in Counters
  BY <1>1 DEF ContactRows
<1>3. Remove(contact[x].counters, att[k].outcome) \in Counters
  BY <1>2, Spending
<1>4. back \in Counters
  BY <1>2, <1>3
<1>5. cnt \in Counters
  BY <1>4, Spending
<1>6. /\ st \in ContactStatuses
      /\ att[k].lead # NoLead \/ o \in AnsweredOutcomes => st # "ACTIVE"
  BY Settles DEF ContactStatuses
<1> HIDE DEF st, cnt, back
<1>7. c = IF IsLatest(k)
          THEN [status |-> st, next |-> IF st = "ACTIVE" THEN "LATER" ELSE "NULL", counters |-> cnt]
          ELSE [contact[x] EXCEPT !.counters = cnt]
  BY DEF ContactAfter, st, cnt, back
<1>8. contact[x].status = "DNC" => st = "DNC"
  BY DEF st
<1>9. CASE IsLatest(k)
  <2>1. c = [status |-> st, next |-> IF st = "ACTIVE" THEN "LATER" ELSE "NULL", counters |-> cnt]
    BY <1>7, <1>9
  <2>2. c.status = st /\ c.next = (IF st = "ACTIVE" THEN "LATER" ELSE "NULL")
    BY <2>1
  <2>3. c \in ContactRows
    BY <1>5, <1>6, <2>1 DEF ContactRows, DueTimes
  <2> HIDE DEF c
  <2>4. st # "ABSENT"
    BY <1>6 DEF ContactStatuses
  <2> QED BY <1>6, <1>8, <1>9, <2>2, <2>3, <2>4 DEF c
<1>10. CASE ~IsLatest(k)
  <2>1. c = [contact[x] EXCEPT !.counters = cnt]
    BY <1>7, <1>10
  <2>2. c \in ContactRows /\ c.status = contact[x].status /\ c.next = contact[x].next
    BY <1>1, <1>5, <2>1 DEF ContactRows
  <2> HIDE DEF c
  <2> QED BY <1>10, <2>2 DEF c
<1> QED BY <1>9, <1>10

\* Begin, row by row.
LEMMA BeginEffect ==
    ASSUME StoreTypeOK, NEW x \in Contacts, Begin(x)
    PROVE  /\ nAtt + 1 \in Calls /\ nAtt' = nAtt + 1
           /\ att'[nAtt + 1] = [NoAttempt EXCEPT !.state = "DIALING", !.contact = x]
           /\ att'[nAtt + 1].state = "DIALING" /\ att'[nAtt + 1].contact = x
           /\ att'[nAtt + 1].outcome = NoOutcome /\ att'[nAtt + 1].lead = NoLead
           /\ \A j \in Calls : j # nAtt + 1 => att'[j] = att[j]
           /\ att' \in [Calls -> AttemptRows]
           /\ \A y \in Contacts : y # x => contact'[y] = contact[y]
           /\ contact'[x] = [contact[x] EXCEPT !.next = "NULL"]
           /\ contact'[x].next = "NULL" /\ contact'[x].status = contact[x].status
           /\ contact'[x].counters = contact[x].counters
           /\ contact' \in [Contacts -> ContactRows]
<1>0. MaxCalls \in Nat /\ nAtt \in 0..MaxCalls /\ nAtt < MaxCalls
  BY StoreAssumption DEF Begin, StoreTypeOK, StoreAssumption
<1>1. nAtt + 1 \in Calls /\ nAtt' = nAtt + 1
  BY <1>0 DEF Begin, Calls
<1> DEFINE n == nAtt + 1
           row == [NoAttempt EXCEPT !.state = "DIALING", !.contact = x]
<1>a. /\ NoAttempt \in AttemptRows
      /\ NoAttempt.outcome = NoOutcome /\ NoAttempt.lead = NoLead
  BY DEF NoAttempt, AttemptRows
<1>2. /\ row \in AttemptRows /\ row.state = "DIALING" /\ row.contact = x
      /\ row.outcome = NoAttempt.outcome /\ row.lead = NoAttempt.lead
  BY <1>a DEF AttemptRows
<1>3. /\ row \in AttemptRows /\ row.state = "DIALING" /\ row.contact = x
      /\ row.outcome = NoOutcome /\ row.lead = NoLead
  BY <1>a, <1>2
<1>4. att \in [Calls -> AttemptRows] /\ contact \in [Contacts -> ContactRows]
  BY StoreTypes
<1>5. att' = [att EXCEPT ![n] = row]
  BY DEF Begin
<1> HIDE DEF n, row
<1>6. att' \in [Calls -> AttemptRows] /\ att'[n] = row /\ \A j \in Calls : j # n => att'[j] = att[j]
  BY <1>1, <1>3, <1>4, <1>5 DEF n
<1>7. contact' = [contact EXCEPT ![x] = [contact[x] EXCEPT !.next = "NULL"]]
  BY DEF Begin
<1>8. [contact[x] EXCEPT !.next = "NULL"] \in ContactRows
  BY <1>4 DEF ContactRows, DueTimes
<1>9. /\ \A y \in Contacts : y # x => contact'[y] = contact[y]
      /\ contact'[x] = [contact[x] EXCEPT !.next = "NULL"]
      /\ contact' \in [Contacts -> ContactRows]
  BY <1>4, <1>7, <1>8
<1>10. contact[x] \in ContactRows
  BY <1>4
<1>11. /\ contact'[x].next = "NULL" /\ contact'[x].status = contact[x].status
       /\ contact'[x].counters = contact[x].counters
  BY <1>9, <1>10 DEF ContactRows
<1>12. /\ att'[n].state = "DIALING" /\ att'[n].contact = x
       /\ att'[n].outcome = NoOutcome /\ att'[n].lead = NoLead
  BY <1>3, <1>6
<1> QED BY <1>1, <1>6, <1>9, <1>11, <1>12 DEF n, row

\* Void, row by row.
LEMMA VoidEffect ==
    ASSUME StoreTypeOK, NEW k \in Calls, Void(k), att[k].contact \in Contacts
    PROVE  /\ k = nAtt /\ nAtt' = nAtt - 1 /\ nAtt' \in 0..MaxCalls /\ IsDialing(k)
           /\ att'[k] = NoAttempt
           /\ \A j \in Calls : j # k => att'[j] = att[j]
           /\ att' \in [Calls -> AttemptRows]
           /\ \A y \in Contacts :
                 /\ y # att[k].contact => contact'[y] = contact[y]
                 /\ contact'[y].status = contact[y].status
                 /\ contact'[y].counters = contact[y].counters
                 /\ contact'[y].next \in {contact[y].next, "DUE"}
           /\ contact' \in [Contacts -> ContactRows]
<1> DEFINE x == att[k].contact
<1>0. MaxCalls \in Nat /\ nAtt \in 0..MaxCalls /\ k \in 1..MaxCalls
  BY StoreAssumption DEF Calls, StoreTypeOK, StoreAssumption
<1>1. k = nAtt /\ nAtt' = nAtt - 1 /\ nAtt' \in 0..MaxCalls /\ IsDialing(k)
  BY <1>0 DEF Void
<1>2. att \in [Calls -> AttemptRows] /\ contact \in [Contacts -> ContactRows]
  BY StoreTypes
<1>3. NoAttempt \in AttemptRows
  BY DEF NoAttempt, AttemptRows
<1>4. att' = [att EXCEPT ![k] = NoAttempt]
  BY DEF Void
<1>5. /\ att'[k] = NoAttempt /\ att' \in [Calls -> AttemptRows]
      /\ \A j \in Calls : j # k => att'[j] = att[j]
  BY <1>2, <1>3, <1>4
<1>6. contact' = IF contact[x].status = "ACTIVE" /\ contact[x].next = "NULL"
                 THEN [contact EXCEPT ![x] = [contact[x] EXCEPT !.next = "DUE"]]
                 ELSE contact
  BY DEF Void
<1>7. contact[x] \in ContactRows
  BY <1>2
<1> DEFINE row == [contact[x] EXCEPT !.next = "DUE"]
<1>8. /\ row \in ContactRows /\ row.status = contact[x].status
      /\ row.counters = contact[x].counters /\ row.next = "DUE"
  BY <1>7 DEF ContactRows, DueTimes
<1> HIDE DEF row
<1>9. contact' = contact \/ contact' = [contact EXCEPT ![x] = row]
  BY <1>6 DEF row
<1>10. /\ contact' \in [Contacts -> ContactRows]
       /\ \A y \in Contacts :
                 /\ y # x => contact'[y] = contact[y]
                 /\ contact'[y].status = contact[y].status
                 /\ contact'[y].counters = contact[y].counters
                 /\ contact'[y].next \in {contact[y].next, "DUE"}
  <2>1. CASE contact' = contact
    BY <1>2, <2>1
  <2>2. CASE contact' = [contact EXCEPT ![x] = row]
    BY <1>2, <1>8, <2>2
  <2> QED BY <1>9, <2>1, <2>2
<1> QED BY <1>1, <1>5, <1>10

\* apply, row by row.
LEMMA ApplyEffect ==
    ASSUME StoreTypeOK, NEW k \in Calls, att[k].contact \in Contacts,
           NEW o \in Outcomes, NEW isMore \in BOOLEAN, Apply(k, o, isMore)
    PROVE  /\ nAtt' = nAtt
           /\ att' \in [Calls -> AttemptRows]
           /\ \A j \in Calls : att'[j].contact = att[j].contact /\ att'[j].lead = att[j].lead
           /\ \A j \in Calls : j # k => att'[j] = att[j]
           /\ att'[k].state = "FINISHED" /\ att'[k].outcome = o
           /\ contact' \in [Contacts -> ContactRows]
           /\ \A y \in Contacts : y # att[k].contact => contact'[y] = contact[y]
           /\ \/ contact'[att[k].contact] = ContactAfter(k, o)
              \/ contact' = contact /\ att' = att /\ IsFinished(k) /\ att[k].outcome = o
           /\ dnc \subseteq dnc' /\ dnc' \subseteq Numbers
           /\ log' \in Seq(Calls)
<1> DEFINE x == att[k].contact
<1>1. att \in [Calls -> AttemptRows] /\ contact \in [Contacts -> ContactRows]
  BY StoreTypes
<1>2. CASE IsSameRevision(k, o, isMore)
  <2>1. UNCHANGED <<att, contact, dnc, log, nAtt>>
    BY <1>2 DEF Apply
  <2>2. IsFinished(k) /\ att[k].outcome = o
    BY <1>2 DEF IsSameRevision
  <2> QED BY <1>1, <2>1, <2>2 DEF IsFinished, StoreTypeOK
<1>3. CASE ~IsSameRevision(k, o, isMore)
  <2>1. /\ att' = [att EXCEPT ![k] = [att[k] EXCEPT !.state = "FINISHED", !.outcome = o]]
        /\ contact' = [contact EXCEPT ![x] = ContactAfter(k, o)]
        /\ dnc' = IF att[k].lead = "DO_NOT_CALL" THEN dnc \cup {NumberOfCall(k)} ELSE dnc
        /\ log' = IF IsFinished(k) THEN log ELSE Append(log, k)
        /\ nAtt' = nAtt
    BY <1>3 DEF Apply
  <2> DEFINE row == [att[k] EXCEPT !.state = "FINISHED", !.outcome = o]
  <2>2. att[k] \in AttemptRows
    BY <1>1
  <2>3. /\ row \in AttemptRows /\ row.state = "FINISHED" /\ row.outcome = o
        /\ row.contact = att[k].contact /\ row.lead = att[k].lead
    BY <2>2 DEF AttemptRows
  <2> HIDE DEF row
  <2>4. att' = [att EXCEPT ![k] = row]
    BY <2>1 DEF row
  <2>5. /\ att' \in [Calls -> AttemptRows] /\ att'[k] = row
        /\ \A j \in Calls : j # k => att'[j] = att[j]
    BY <1>1, <2>3, <2>4
  <2>6. \A j \in Calls : att'[j].contact = att[j].contact /\ att'[j].lead = att[j].lead
    BY <2>3, <2>5
  <2>7. ContactAfter(k, o) \in ContactRows
    BY AfterIs
  <2>8. /\ contact' \in [Contacts -> ContactRows] /\ contact'[x] = ContactAfter(k, o)
        /\ \A y \in Contacts : y # x => contact'[y] = contact[y]
    BY <1>1, <2>1, <2>7
  <2>9. NumberOfCall(k) \in Numbers
    BY StoreAssumption DEF NumberOfCall, StoreAssumption
  <2>10. dnc \subseteq dnc' /\ dnc' \subseteq Numbers
    BY <2>1, <2>9 DEF StoreTypeOK
  <2>11. log' \in Seq(Calls)
    BY <2>1 DEF StoreTypeOK
  <2> QED BY <2>1, <2>3, <2>5, <2>6, <2>8, <2>10, <2>11
<1> QED BY <1>2, <1>3

\* SetLead, row by row.
LEMMA LeadEffect ==
    ASSUME StoreTypeOK, NEW k \in Calls, NEW lead \in LeadIntents, SetLead(k, lead)
    PROVE  /\ IsDialing(k) /\ nAtt' = nAtt
           /\ att' \in [Calls -> AttemptRows]
           /\ \A j \in Calls : j # k => att'[j] = att[j]
           /\ att'[k].state = att[k].state /\ att'[k].contact = att[k].contact
           /\ att'[k].outcome = att[k].outcome /\ att'[k].lead = lead
<1>1. att \in [Calls -> AttemptRows]
  BY StoreTypes
<1>2. att' = [att EXCEPT ![k] = [att[k] EXCEPT !.lead = lead]]
  BY DEF SetLead
<1> DEFINE row == [att[k] EXCEPT !.lead = lead]
<1>3. /\ row \in AttemptRows /\ row.state = att[k].state /\ row.contact = att[k].contact
      /\ row.outcome = att[k].outcome /\ row.lead = lead
  BY <1>1 DEF AttemptRows
<1> HIDE DEF row
<1>4. att' = [att EXCEPT ![k] = row]
  BY <1>2 DEF row
<1>5. att' \in [Calls -> AttemptRows] /\ att'[k] = row /\ \A j \in Calls : j # k => att'[j] = att[j]
  BY <1>1, <1>3, <1>4
<1>6. IsDialing(k) /\ nAtt' = nAtt
  BY DEF SetLead
<1> QED BY <1>3, <1>5, <1>6

-----------------------------------------------------------------------------
(***************************************************************************)
(* The steps, as the tables and the calls see them.                        *)
(***************************************************************************)
SpentOK == spent \in [scenario : Scenarios, crashes : Nat, errors : Nat, voids : Nat]

\* What happens to a contact whose attempts are left alone.
ContactMoves(y) ==
    /\ contact'[y].counters = contact[y].counters
    /\ \/ contact'[y] = contact[y]
       \/ /\ campaign[CampaignOf[y]].status = "DRAFT"
          /\ contact'[y].status = contact[y].status
       \/ contact[y].status = "ABSENT"
       \/ /\ contact'[y].status = "DNC" /\ contact'[y].next = contact[y].next
          /\ IsListed(y) /\ contact[y].status # "ABSENT"
       \/ /\ contact[y].next = "DUE" /\ contact'[y].next = "LATER"
          /\ contact'[y].status = contact[y].status
       \/ /\ contact[y].next = "LATER" /\ \A k \in AttemptsOf(y) : writes[k] = 0 \/ IsLate(k)
          /\ contact'[y].status = contact[y].status

Quiet ==
    /\ UNCHANGED <<att, nAtt, dnc, ledger, call, writes>>
    /\ \A y \in Contacts : ContactMoves(y)
    /\ contact' \in [Contacts -> ContactRows]

Lists ==
    /\ dnc \subseteq dnc' /\ dnc' \subseteq Numbers
    /\ UNCHANGED <<contact, att, nAtt, ledger, call, writes>>

Begins(x) ==
    /\ Begin(x)
    /\ IsListed(x) \/ IsClear(x)
    /\ campaign[CampaignOf[x]].status \notin {"DRAFT", "COMPLETED"}
    /\ UNCHANGED <<call, writes>>

Voids(k) == Void(k) /\ call[k] = "none" /\ UNCHANGED <<call, writes>>

Finishes(k, o) ==
    /\ IsDialing(k) /\ ~IsTimely(k)
    /\ Apply(k, o, FALSE)
    /\ UNCHANGED <<ledger, call, writes>>

Places(k) ==
    /\ k = nAtt /\ IsDialing(k) /\ call[k] = "none" /\ NumberOfCall(k) \notin dnc
    /\ call' = [call EXCEPT ![k] = "placing"]
    /\ UNCHANGED <<contact, att, nAtt, dnc, ledger, writes>>

Progresses(k, s) ==
    /\ IsTimely(k)
    /\ call' = [call EXCEPT ![k] = s]
    /\ UNCHANGED <<contact, att, nAtt, dnc, ledger, writes>>

HangsUp(k, s, n) ==
    /\ IsTimely(k)
    /\ call' = [call EXCEPT ![k] = s]
    /\ writes' = [writes EXCEPT ![k] = n]
    /\ UNCHANGED <<contact, att, nAtt, dnc, ledger>>

Fails(k, o, s) ==
    /\ call[k] = "placing"
    /\ call' = [call EXCEPT ![k] = s]
    /\ InsertCDR(k, o, FALSE)
    /\ UNCHANGED writes

Records(k, o, isMore) ==
    /\ writes[k] > 0
    /\ writes' = [writes EXCEPT ![k] = @ - 1]
    /\ InsertCDR(k, o, isMore)
    /\ UNCHANGED call

Loses(k) ==
    /\ writes[k] > 0
    /\ writes' = [writes EXCEPT ![k] = @ - 1]
    /\ UNCHANGED <<contact, att, nAtt, dnc, ledger, call>>

ComesLate(k) ==
    /\ call[k] = "adrift"
    /\ call' = [call EXCEPT ![k] = "late"]
    /\ UNCHANGED <<contact, att, nAtt, dnc, ledger, writes>>

EndsLate(k, n) ==
    /\ call[k] = "late"
    /\ call' = [call EXCEPT ![k] = "over"]
    /\ writes' = [writes EXCEPT ![k] = n]
    /\ UNCHANGED <<contact, att, nAtt, dnc, ledger>>

Leads(k, lead) ==
    /\ call[k] \in {"talking", "late"}
    /\ SetLead(k, lead)
    /\ UNCHANGED <<call, writes>>

Crashes ==
    /\ writes' = [k \in Calls |-> 0]
    /\ call' = [k \in Calls |-> IF call[k] = "placing" THEN "adrift" ELSE call[k]]
    /\ UNCHANGED <<contact, att, nAtt, dnc, ledger>>

Moves ==
    \/ Quiet
    \/ Lists
    \/ \E x \in Contacts : Begins(x)
    \/ \E k \in Calls : Voids(k)
    \/ \E k \in Calls, o \in Outcomes : Finishes(k, o)
    \/ \E k \in Calls : Places(k)
    \/ \E k \in Calls, s \in {"ringing", "talking", "missed", "adrift"} : Progresses(k, s)
    \/ \E k \in Calls, s \in {"missed", "taken"}, n \in 0..2 : HangsUp(k, s, n)
    \/ \E k \in Calls, o \in Outcomes, s \in {"missed", "adrift"} : Fails(k, o, s)
    \/ \E k \in Calls : ComesLate(k)
    \/ \E k \in Calls, n \in 0..2 : EndsLate(k, n)
    \/ \E k \in Calls, o \in Outcomes, isMore \in BOOLEAN : Records(k, o, isMore)
    \/ \E k \in Calls : Loses(k)
    \/ \E k \in Calls, lead \in LeadIntents : Leads(k, lead)
    \/ Crashes

\* The bounds of a behaviour are one of the scenarios.
LEMMA Bounds ==
    ASSUME SpentOK
    PROVE  /\ Bound.importable \subseteq Contacts /\ Bound.stoppable \subseteq Campaigns
           /\ Bound.listable \subseteq Numbers /\ Bound.leads \subseteq LeadIntents
           /\ Observed \subseteq Outcomes
           /\ Bound.writers \in {1, 2} /\ Bound.crashes \in Nat /\ Bound.errors \in Nat
           /\ Bound.voids \in Nat
<1>1. spent.scenario \in Scenarios
  BY DEF SpentOK
<1> QED BY <1>1, DialerAssumption DEF DialerAssumption, Bound, Observed

\* An attempt that is finished without a CDR is a dialling one without a call,
\* or nothing happens.
LEMMA FinishMoves ==
    ASSUME StoreTypeOK, NEW k \in Calls, ~IsTimely(k), NEW o \in Outcomes, Finish(k, o),
           UNCHANGED <<call, writes>>
    PROVE  Moves
<1>1. CASE IsDialing(k)
  <2>1. Finishes(k, o)
    BY <1>1 DEF Finish, Finishes
  <2> QED BY <2>1 DEF Moves
<1>2. CASE ~IsDialing(k)
  <2>1. Quiet
    BY <1>2, StoreTypes DEF Finish, Quiet, ContactMoves
  <2> QED BY <2>1 DEF Moves
<1> QED BY <1>1, <1>2

\* Every step of the system is one of them.
LEMMA NextMoves ==
    ASSUME TypeOK, SpentOK, RowsInv, CurInv, ListsInv, PassInv, ReadyInv, Next
    PROVE  Moves
<1> DEFINE same == UNCHANGED <<contact, att, nAtt, dnc, ledger, call, writes>>
<1>0. StoreTypeOK
  BY DEF TypeOK
<1>s. same => Moves
  BY <1>0, StoreTypes DEF Moves, Quiet, ContactMoves
<1>cr. contact \in [Contacts -> ContactRows]
  BY <1>0, StoreTypes
<1> HIDE DEF same
<1>1. ASSUME NEW c \in Campaigns, StartCampaign(c) PROVE Moves
  <2>1. contact' = [x \in Contacts |->
                      IF /\ CampaignOf[x] = c
                         /\ contact[x].status = "ACTIVE" /\ contact[x].next = "NULL"
                      THEN [contact[x] EXCEPT !.next = "DUE"]
                      ELSE contact[x]]
    BY <1>1 DEF StartCampaign, Start
  <2>2. campaign[c].status = "DRAFT" /\ UNCHANGED <<att, nAtt, dnc, ledger, call, writes>>
    BY <1>1 DEF StartCampaign, Start
  <2>3. \A x \in Contacts : /\ [contact[x] EXCEPT !.next = "DUE"] \in ContactRows
                            /\ [contact[x] EXCEPT !.next = "DUE"].status = contact[x].status
                            /\ [contact[x] EXCEPT !.next = "DUE"].counters = contact[x].counters
    BY <1>cr DEF ContactRows, DueTimes
  <2>4. contact' \in [Contacts -> ContactRows]
    BY <1>cr, <2>1, <2>3
  <2>5. ASSUME NEW y \in Contacts PROVE ContactMoves(y)
    <3>1. CASE contact'[y] = contact[y]
      BY <3>1 DEF ContactMoves
    <3>2. CASE contact'[y] # contact[y]
      <4>1. CampaignOf[y] = c /\ contact'[y] = [contact[y] EXCEPT !.next = "DUE"]
        BY <2>1, <3>2
      <4> QED BY <2>2, <2>3, <4>1 DEF ContactMoves
    <3> QED BY <3>1, <3>2
  <2> QED BY <2>2, <2>4, <2>5 DEF Moves, Quiet
<1>2. ASSUME NEW c \in Campaigns, ResumeCampaign(c) \/ PauseCampaign(c) \/ CancelCampaign(c)
      PROVE  Moves
  BY <1>2, <1>s DEF same, ResumeCampaign, PauseCampaign, CancelCampaign, Move, actor
<1>3. ASSUME NEW x \in Contacts, ImportContact(x) PROVE Moves
  <2> DEFINE when == IF campaign[CampaignOf[x]].status = "DRAFT" THEN "NULL" ELSE "DUE"
             row == [contact[x] EXCEPT !.status = "ACTIVE", !.next = when]
  <2>1. /\ contact' = [contact EXCEPT ![x] = row] /\ contact[x].status = "ABSENT"
        /\ UNCHANGED <<att, nAtt, dnc, ledger, call, writes>>
    BY <1>3 DEF ImportContact, Import, actor
  <2>2. when \in DueTimes
    BY DEF DueTimes
  <2> HIDE DEF when
  <2>3. row \in ContactRows /\ row.counters = contact[x].counters
    BY <1>cr, <2>2 DEF ContactRows, ContactStatuses
  <2> HIDE DEF row
  <2>4. contact' \in [Contacts -> ContactRows]
    BY <1>cr, <2>1, <2>3
  <2>5. \A y \in Contacts : ContactMoves(y)
    BY <1>cr, <2>1, <2>3 DEF ContactMoves
  <2> QED BY <2>1, <2>4, <2>5 DEF Moves, Quiet
<1>4. ASSUME NEW n \in Numbers, ListNumber(n) PROVE Moves
  <2>1. Lists
    BY <1>0, <1>4 DEF ListNumber, Lists, StoreTypeOK
  <2> QED BY <2>1 DEF Moves
<1>5. ASSUME NEW m \in inbox, HandleFinished(m) \/ HandleAnswered(m) \/ HandleListed(m)
      PROVE  Moves
  BY <1>5, <1>s DEF same, HandleFinished, HandleAnswered, HandleListed, tables
<1>6. ASSUME RecoverAttempts \/ Recovered \/ SkipDone \/ LimitBlocks \/ EndPass \/ Restart
      PROVE  Moves
  BY <1>6, <1>s DEF same, RecoverAttempts, Recovered, SkipDone, LimitBlocks, EndPass, Restart,
                    tables
<1>7. ASSUME NEW k \in Calls, ~IsTimely(k), NEW next, Reconcile(k, next), UNCHANGED <<call, writes>>
      PROVE  Moves
  <2>1. CASE UNCHANGED tables
    BY <1>7, <2>1, <1>s DEF same, tables
  <2>2. CASE ledger[k] # NoCDR /\ Finish(k, ledger[k])
    <3>1. ledger[k] \in Outcomes
      BY <1>0, <2>2 DEF StoreTypeOK
    <3> QED BY <1>0, <1>7, <2>2, <3>1, FinishMoves
  <2> QED BY <1>7, <2>1, <2>2 DEF Reconcile
<1>8. ASSUME NEW k \in todo, RecoverAttempt(k) PROVE Moves
  <2>1. k \in Calls /\ UNCHANGED <<call, writes>>
    BY <1>8 DEF TypeOK, RecoverAttempt
  <2>2. CASE UNCHANGED tables
    BY <2>1, <2>2, <1>s DEF same, tables
  <2>3. CASE ~IsLive(k) /\ Reconcile(k, "recoverUnknown")
    <3>1. ~IsTimely(k)
      BY <2>3 DEF IsLive, IsTimely
    <3> QED BY <1>7, <2>1, <2>3, <3>1
  <2> QED BY <1>8, <2>2, <2>3 DEF RecoverAttempt
<1>9. ASSUME FinishUnknown PROVE Moves
  <2>1. cur \in Calls /\ ~IsTimely(cur) /\ UNCHANGED <<call, writes>>
    BY <1>9 DEF FinishUnknown, CurInv, Written
  <2>2. CASE UNCHANGED tables
    BY <2>1, <2>2, <1>s DEF same, tables
  <2>3. CASE Finish(cur, "UNKNOWN")
    <3>1. "UNKNOWN" \in Outcomes
      BY DEF Outcomes, ReachedOutcomes
    <3> QED BY <1>0, <2>1, <2>3, <3>1, FinishMoves
  <2> QED BY <1>9, <2>2, <2>3 DEF FinishUnknown
<1>10. ASSUME NEW k \in Calls, CheckBackstop(k) PROVE Moves
  <2>1. ~IsTimely(k) /\ UNCHANGED <<call, writes>>
    BY <1>10 DEF CheckBackstop, IsLive, IsTimely
  <2>2. CASE UNCHANGED tables
    BY <2>1, <2>2, <1>s DEF same, tables
  <2>3. CASE Reconcile(k, "unknown")
    BY <1>7, <2>1, <2>3
  <2> QED BY <1>10, <2>2, <2>3 DEF CheckBackstop
<1>11. ASSUME BeginPass PROVE Moves
  <2>1. UNCHANGED <<att, nAtt, dnc, ledger, call, writes>>
    BY <1>11 DEF BeginPass
  <2>2. CASE contact' = contact
    BY <2>1, <2>2, <1>s DEF same
  <2>3. CASE contact' = MarkedDialingDNC
    <3>1. \A x \in Contacts : /\ [contact[x] EXCEPT !.status = "DNC"] \in ContactRows
                              /\ [contact[x] EXCEPT !.status = "DNC"].status = "DNC"
                              /\ [contact[x] EXCEPT !.status = "DNC"].next = contact[x].next
                              /\ [contact[x] EXCEPT !.status = "DNC"].counters = contact[x].counters
      BY <1>cr DEF ContactRows, ContactStatuses
    <3>2. \A y \in Contacts :
             \/ contact'[y] = contact[y]
             \/ /\ contact'[y] = [contact[y] EXCEPT !.status = "DNC"]
                /\ IsListed(y) /\ contact[y].status = "ACTIVE"
      BY <2>3 DEF MarkedDialingDNC, IsListed
    <3>3. contact' \in [Contacts -> ContactRows]
      BY <1>cr, <2>3, <3>1 DEF MarkedDialingDNC
    <3>4. ASSUME NEW y \in Contacts PROVE ContactMoves(y)
      <4>1. CASE contact'[y] = contact[y]
        BY <4>1 DEF ContactMoves
      <4>2. CASE /\ contact'[y] = [contact[y] EXCEPT !.status = "DNC"]
                 /\ IsListed(y) /\ contact[y].status = "ACTIVE"
        BY <3>1, <4>2 DEF ContactMoves
      <4> QED BY <3>2, <4>1, <4>2
    <3> QED BY <2>1, <3>3, <3>4 DEF Moves, Quiet
  <2> QED BY <1>11, <2>2, <2>3 DEF BeginPass
<1>12. ASSUME NEW x \in Contacts, SkipBegin(x) PROVE Moves
  <2>1. x \in DNCContacts /\ Begin(x) /\ UNCHANGED <<call, writes>>
    BY <1>12 DEF SkipBegin, Skippable
  <2>2. IsListed(x) /\ campaign[CampaignOf[x]].status = "RUNNING"
    BY <2>1 DEF DNCContacts, IsListed, IsRunning
  <2>3. Begins(x)
    BY <2>1, <2>2 DEF Begins
  <2> QED BY <2>3 DEF Moves
<1>13. ASSUME SkipFinish PROVE Moves
  <2>1. cur \in Calls /\ ~IsTimely(cur) /\ UNCHANGED <<call, writes>>
    BY <1>13 DEF SkipFinish, CurInv, IsTimely
  <2>2. CASE UNCHANGED tables
    BY <2>1, <2>2, <1>s DEF same, tables
  <2>3. CASE Finish(cur, "DNC_SKIPPED")
    <3>1. "DNC_SKIPPED" \in Outcomes
      BY DEF Outcomes
    <3> QED BY <1>0, <2>1, <2>3, <3>1, FinishMoves
  <2> QED BY <1>13, <2>2, <2>3 DEF SkipFinish
<1>14. ASSUME NEW c \in Campaigns, NEW inWindow \in SUBSET Due(c), PickCampaign(c, inWindow)
       PROVE  Moves
  <2> DEFINE D == HeldByFrequency(c) \cup (Due(c) \ inWindow)
  <2>1. UNCHANGED <<att, nAtt, dnc, ledger, call, writes>>
    BY <1>14 DEF PickCampaign
  <2>2. CASE contact' = contact
    BY <2>1, <2>2, <1>s DEF same
  <2>3. CASE contact' = DeferredContacts(D)
    <3>1. \A x \in Contacts : /\ [contact[x] EXCEPT !.next = "LATER"] \in ContactRows
                              /\ [contact[x] EXCEPT !.next = "LATER"].status = contact[x].status
                              /\ [contact[x] EXCEPT !.next = "LATER"].next = "LATER"
                              /\ [contact[x] EXCEPT !.next = "LATER"].counters = contact[x].counters
      BY <1>cr DEF ContactRows, DueTimes
    <3> HIDE DEF D
    <3>2. \A y \in Contacts :
             \/ contact'[y] = contact[y]
             \/ contact'[y] = [contact[y] EXCEPT !.next = "LATER"] /\ contact[y].next = "DUE"
      BY <2>3 DEF DeferredContacts
    <3>3. contact' \in [Contacts -> ContactRows]
      BY <1>cr, <2>3, <3>1 DEF DeferredContacts
    <3>4. ASSUME NEW y \in Contacts PROVE ContactMoves(y)
      <4>1. CASE contact'[y] = contact[y]
        BY <4>1 DEF ContactMoves
      <4>2. CASE contact'[y] = [contact[y] EXCEPT !.next = "LATER"] /\ contact[y].next = "DUE"
        BY <3>1, <4>2 DEF ContactMoves
      <4> QED BY <3>2, <4>1, <4>2
    <3> QED BY <2>1, <3>3, <3>4 DEF Moves, Quiet
  <2> QED BY <1>14, <2>2, <2>3 DEF PickCampaign
<1>15. ASSUME NEW x \in Contacts, Admit(x) PROVE Moves
  <2>1. pc = "admit" /\ x \in pass.ready[turn] /\ UNCHANGED <<call, writes>>
    BY <1>15 DEF Admit
  <2>2. turn \in Campaigns /\ campaign[turn].status \notin {"DRAFT", "COMPLETED"}
    BY <2>1 DEF PassInv
  <2>3. CampaignOf[x] = turn /\ (IsListed(x) \/ IsClear(x))
    BY <2>1, <2>2 DEF ReadyInv
  <2>4. CASE Begin(x)
    <3>1. Begins(x)
      BY <2>1, <2>2, <2>3, <2>4 DEF Begins
    <3> QED BY <3>1 DEF Moves
  <2>5. CASE UNCHANGED tables
    BY <2>1, <2>5, <1>s DEF same, tables
  <2> QED BY <1>15, <2>4, <2>5 DEF Admit
<1>16. ASSUME pc = "place" PROVE cur = nAtt /\ cur \in Calls /\ IsDialing(cur) /\ call[cur] = "none"
  BY <1>16 DEF CurInv
<1>17. ASSUME PlaceSent PROVE Moves
  <2>1. pc = "place"
    BY <1>17 DEF PlaceSent, Placed
  <2>2. Places(cur)
    BY <1>16, <1>17, <2>1 DEF PlaceSent, Places, tables
  <2> QED BY <1>16, <2>1, <2>2 DEF Moves
<1>18. ASSUME PlaceVoid \/ PlaceNoEndpoint PROVE Moves
  <2>1. pc = "place" /\ UNCHANGED <<call, writes>>
    BY <1>18 DEF PlaceVoid, PlaceNoEndpoint, Placed
  <2>2. CASE Void(cur)
    <3>1. Voids(cur)
      BY <1>16, <2>1, <2>2 DEF Voids
    <3> QED BY <1>16, <2>1, <3>1 DEF Moves
  <2>3. CASE UNCHANGED <<contact, att, nAtt, dnc, ledger>>
    BY <2>1, <2>3, <1>s DEF same
  <2> QED BY <1>18, <2>2, <2>3 DEF PlaceVoid, PlaceNoEndpoint, tables
<1>19. ASSUME NEW o \in {"DNC_SKIPPED"} \cup (Observed \cap {"INVALID_NUMBER", "ORIGINATE_FAILED"}),
              PlaceRefused(o)
       PROVE  Moves
  <2>1. pc = "place" /\ UNCHANGED <<call, writes>>
    BY <1>19 DEF PlaceRefused, Placed
  <2>2. CASE Finish(cur, o)
    <3>1. o \in Outcomes
      BY DEF Outcomes, SystemOutcomes
    <3>2. ~IsTimely(cur)
      BY <1>16, <2>1 DEF IsTimely
    <3> QED BY <1>0, <1>16, <2>1, <2>2, <3>1, <3>2, FinishMoves
  <2>3. CASE UNCHANGED tables
    BY <2>1, <2>3, <1>s DEF same, tables
  <2> QED BY <1>19, <2>2, <2>3 DEF PlaceRefused
<1>20. ASSUME NEW k \in Calls, ChannelUp(k) \/ Answer(k) PROVE Moves
  <2>0. call \in [Calls -> CallStates] /\ UNCHANGED <<contact, att, nAtt, dnc, ledger, writes>>
    BY <1>20 DEF TypeOK, ChannelUp, Answer, tables
  <2>1. CASE call[k] \in {"placing", "ringing"}
    <3>1. call' = [call EXCEPT ![k] = "ringing"] \/ call' = [call EXCEPT ![k] = "talking"]
      BY <1>20, <2>1 DEF ChannelUp, Answer
    <3>2. Progresses(k, "ringing") \/ Progresses(k, "talking")
      BY <2>0, <2>1, <3>1 DEF Progresses, IsTimely
    <3> QED BY <3>2 DEF Moves
  <2>2. CASE call[k] = "adrift"
    <3>1. ComesLate(k)
      BY <1>20, <2>0, <2>2 DEF ChannelUp, Answer, ComesLate
    <3> QED BY <3>1 DEF Moves
  <2>3. CASE call[k] = "late"
    <3>1. call' = [call EXCEPT ![k] = call[k]]
      BY <1>20, <2>3 DEF ChannelUp, Answer
    <3>2. call' = call
      BY <2>0, <3>1
    <3> QED BY <2>0, <3>2, <1>s DEF same
  <2> QED BY <1>20, <2>1, <2>2, <2>3 DEF ChannelUp, Answer
<1>21. ASSUME NEW k \in Calls, PlacementFails(k) PROVE Moves
  <2>1. call[k] = "placing" /\ call' = [call EXCEPT ![k] = "missed"] /\ UNCHANGED writes
    BY <1>21 DEF PlacementFails
  <2>2. CASE \E o \in RefusedOutcomes : InsertCDR(k, o, FALSE)
    <3>1. PICK o \in RefusedOutcomes : InsertCDR(k, o, FALSE)
      BY <2>2
    <3>2. o \in Outcomes
      BY <3>1, Bounds DEF RefusedOutcomes
    <3>3. Fails(k, o, "missed")
      BY <2>1, <3>1 DEF Fails
    <3> QED BY <3>2, <3>3 DEF Moves
  <2>3. CASE UNCHANGED tables
    <3>1. Progresses(k, "missed")
      BY <2>1, <2>3 DEF Progresses, IsTimely, tables
    <3> QED BY <3>1 DEF Moves
  <2> QED BY <1>21, <2>2, <2>3 DEF PlacementFails
<1>29. ASSUME NEW k \in Calls, PlacementExpires(k) PROVE Moves
  <2>1. call[k] = "placing" /\ call' = [call EXCEPT ![k] = "adrift"] /\ UNCHANGED writes
    BY <1>29 DEF PlacementExpires
  <2>2. CASE \E o \in Observed \cap {"ORIGINATE_FAILED"} : InsertCDR(k, o, FALSE)
    <3>1. PICK o \in Observed \cap {"ORIGINATE_FAILED"} : InsertCDR(k, o, FALSE)
      BY <2>2
    <3>2. o \in Outcomes
      BY <3>1, Bounds
    <3>3. Fails(k, o, "adrift")
      BY <2>1, <3>1 DEF Fails
    <3> QED BY <3>2, <3>3 DEF Moves
  <2>3. CASE UNCHANGED tables
    <3>1. Progresses(k, "adrift")
      BY <2>1, <2>3 DEF Progresses, IsTimely, tables
    <3> QED BY <3>1 DEF Moves
  <2> QED BY <1>29, <2>2, <2>3 DEF PlacementExpires
<1>22. ASSUME NEW k \in Calls, Hangup(k) PROVE Moves
  <2>1. PICK n \in (IF call[k] = "ringing" THEN {1} ELSE 1..Bound.writers) :
            writes' = [writes EXCEPT ![k] = IF IsUp THEN n ELSE 0]
    BY <1>22 DEF Hangup
  <2>2. (IF IsUp THEN n ELSE 0) \in 0..2
    BY <2>1, Bounds
  <2>3. PICK w \in 0..2 : writes' = [writes EXCEPT ![k] = w]
    BY <2>1, <2>2
  <2>4. CASE call[k] \in {"ringing", "talking"}
    <3>1. call' = [call EXCEPT ![k] = "missed"] \/ call' = [call EXCEPT ![k] = "taken"]
      BY <1>22, <2>4 DEF Hangup
    <3>2. HangsUp(k, "missed", w) \/ HangsUp(k, "taken", w)
      BY <1>22, <2>3, <2>4, <3>1 DEF Hangup, HangsUp, IsTimely, tables
    <3> QED BY <3>2 DEF Moves
  <2>5. CASE call[k] = "late"
    <3>1. call' = [call EXCEPT ![k] = "over"]
      BY <1>22, <2>5 DEF Hangup
    <3>2. EndsLate(k, w)
      BY <1>22, <2>3, <2>5, <3>1 DEF Hangup, EndsLate, tables
    <3> QED BY <3>2 DEF Moves
  <2> QED BY <1>22, <2>4, <2>5 DEF Hangup
<1>23. ASSUME NEW k \in Calls, WriteCDR(k) PROVE Moves
  <2>1. writes[k] > 0 /\ writes' = [writes EXCEPT ![k] = @ - 1] /\ UNCHANGED call
    BY <1>23 DEF WriteCDR
  <2>2. CASE \E o \in EndedOutcomes(k), isMore \in BOOLEAN : InsertCDR(k, o, isMore)
    <3>1. PICK o \in EndedOutcomes(k), isMore \in BOOLEAN : InsertCDR(k, o, isMore)
      BY <2>2
    <3>2. o \in Outcomes
      BY <3>1, Bounds DEF EndedOutcomes, TakenOutcomes, MissedOutcomes
    <3>3. Records(k, o, isMore)
      BY <2>1, <3>1 DEF Records
    <3> QED BY <3>2, <3>3 DEF Moves
  <2>3. CASE UNCHANGED tables
    <3>1. Loses(k)
      BY <2>1, <2>3 DEF Loses, tables
    <3> QED BY <3>1 DEF Moves
  <2> QED BY <1>23, <2>2, <2>3 DEF WriteCDR
<1>24. ASSUME NEW k \in Calls, LoseCDR(k) PROVE Moves
  <2>1. Loses(k)
    BY <1>24 DEF LoseCDR, Loses, tables
  <2> QED BY <2>1 DEF Moves
<1>25. ASSUME NEW k \in Calls, NEW lead \in Bound.leads, RecordLead(k, lead) PROVE Moves
  <2>1. Leads(k, lead) /\ lead \in LeadIntents
    BY <1>25, Bounds DEF RecordLead, Leads
  <2> QED BY <2>1 DEF Moves
<1>26. ASSUME NEW x \in Contacts, ComesDue(x) PROVE Moves
  <2> DEFINE row == [contact[x] EXCEPT !.next = "DUE"]
  <2>1. /\ contact' = [contact EXCEPT ![x] = row] /\ contact[x].next = "LATER"
        /\ \A k \in AttemptsOf(x) : writes[k] = 0 \/ IsLate(k)
        /\ UNCHANGED <<att, nAtt, dnc, ledger, call, writes>>
    BY <1>26 DEF ComesDue
  <2>2. row \in ContactRows /\ row.status = contact[x].status
        /\ row.counters = contact[x].counters
    BY <1>cr DEF ContactRows, DueTimes
  <2> HIDE DEF row
  <2>3. contact' \in [Contacts -> ContactRows]
    BY <1>cr, <2>1, <2>2
  <2>4. \A y \in Contacts : ContactMoves(y)
    BY <1>cr, <2>1, <2>2 DEF ContactMoves
  <2> QED BY <2>1, <2>3, <2>4 DEF Moves, Quiet
<1>27. ASSUME NEW k \in Calls, TouchAges(k) PROVE Moves
  BY <1>27, <1>s DEF same, TouchAges
<1>28. ASSUME Crash PROVE Moves
  <2>1. Crashes
    BY <1>28 DEF Crash, Crashes, tables
  <2> QED BY <2>1 DEF Moves
<1> QED BY <1>1, <1>2, <1>3, <1>4, <1>5, <1>6, <1>8, <1>9, <1>10, <1>11, <1>12, <1>13, <1>14,
           <1>15, <1>17, <1>18, <1>19, <1>20, <1>21, <1>22, <1>23, <1>24, <1>25, <1>26, <1>27,
           <1>28, <1>29
        DEF Next, Commands, HandleMessage, PassStep, CallStep

-----------------------------------------------------------------------------
(***************************************************************************)
(* Attempts, calls and the ledger.                                         *)
(***************************************************************************)
BasicInv == RowsInv /\ WritesInv /\ LiveIsDialing /\ LedgerAgrees /\ OneDialPerNumber

WorldTypes ==
    /\ StoreTypeOK
    /\ call \in [Calls -> CallStates]
    /\ writes \in [Calls -> 0..2]

\* An attempt that is in flight, live or still being recorded is a written one,
\* of a contact.
LEMMA Tracked ==
    ASSUME WorldTypes, BasicInv, NEW k \in Calls, IsDialing(k) \/ IsTimely(k) \/ writes[k] > 0
    PROVE  k \in Written /\ att[k].contact \in Contacts
<1>1. att[k].state # "NONE"
  BY DEF BasicInv, RowsInv, IsTimely, IsDialing
<1> QED BY <1>1 DEF BasicInv, RowsInv, Written

\* InsertCDR is apply, and a row of the ledger.
LEMMA CDREffect ==
    ASSUME StoreTypeOK, NEW k \in Calls, NEW o \in Outcomes, NEW isMore, InsertCDR(k, o, isMore)
    PROVE  /\ Apply(k, o, isMore) /\ UNCHANGED campaign
           /\ ledger'[k] = o /\ \A j \in Calls : j # k => ledger'[j] = ledger[j]
           /\ ledger' \in [Calls -> Outcomes \cup {NoCDR}]
BY StoreTypes DEF InsertCDR

\* The basic invariants are kept: Begin takes the next free call, Void the last
\* one, only what is in flight without a call is finished without a CDR, and a
\* CDR and its attempt are written in one transaction.
LEMMA BasicStep ==
    ASSUME WorldTypes, BasicInv, Moves
    PROVE  BasicInv'
<1>0. StoreTypeOK
  BY DEF WorldTypes
<1>t. /\ att \in [Calls -> AttemptRows] /\ nAtt \in 0..MaxCalls
      /\ ledger \in [Calls -> Outcomes \cup {NoCDR}]
      /\ call \in [Calls -> CallStates] /\ writes \in [Calls -> 0..2]
  BY StoreTypes DEF WorldTypes
<1>c. Calls = 1..MaxCalls /\ MaxCalls \in Nat
  BY StoreAssumption DEF Calls, StoreAssumption
<1>i. RowsInv /\ WritesInv /\ LiveIsDialing /\ LedgerAgrees /\ OneDialPerNumber
  BY DEF BasicInv
<1>n. NoCDR \notin Outcomes /\ NoOutcome \notin Outcomes
  BY DEF NoCDR, NoOutcome, Outcomes, ReachedOutcomes, AnsweredOutcomes, SystemOutcomes

<1>1. ASSUME UNCHANGED <<att, nAtt, ledger, call, writes>> PROVE BasicInv'
  BY <1>1, <1>i DEF BasicInv, RowsInv, WritesInv, LiveIsDialing, LedgerAgrees, OneDialPerNumber,
                    IsDialing, IsTimely, IsFinished, NumberOfCall, IsLive, IsLate
<1>2. ASSUME NEW x \in Contacts, Begins(x) PROVE BasicInv'
  <2>1. /\ nAtt + 1 \in Calls /\ nAtt' = nAtt + 1
        /\ att'[nAtt + 1].state = "DIALING" /\ att'[nAtt + 1].contact = x
        /\ att'[nAtt + 1].outcome = NoOutcome
        /\ \A j \in Calls : j # nAtt + 1 => att'[j] = att[j]
    BY <1>0, <1>2, BeginEffect DEF Begins
  <2>2. UNCHANGED <<ledger, call, writes>>
    BY <1>2 DEF Begins, Begin
  <2>3. \A k \in Calls : IsDialing(k) => NumberOfCall(k) # NumberOf[x]
    BY <1>2 DEF Begins, Begin, CanBegin, IsNumberDialing
  <2>4. ledger[nAtt + 1] = NoCDR
    BY <1>i, <1>t, <1>c, <2>1 DEF RowsInv
  <2>5. RowsInv'
    BY <1>i, <1>t, <1>c, <1>n, <2>1, <2>2, <2>3, <2>4 DEF RowsInv, IsDialing
  <2>6. WritesInv'
    BY <1>i, <1>t, <1>c, <1>n, <2>1, <2>2, <2>3, <2>4 DEF WritesInv
  <2>7. LiveIsDialing'
    BY <1>i, <1>t, <1>c, <1>n, <2>1, <2>2, <2>3, <2>4
       DEF LiveIsDialing, IsTimely, IsDialing, IsLive, IsLate
  <2>8. LedgerAgrees'
    BY <1>i, <1>t, <1>c, <1>n, <2>1, <2>2, <2>3, <2>4 DEF LedgerAgrees, IsFinished
  <2>9. OneDialPerNumber'
    BY <1>i, <1>t, <1>c, <1>n, <2>1, <2>2, <2>3, <2>4 DEF OneDialPerNumber, IsDialing, NumberOfCall
  <2> QED BY <2>5, <2>6, <2>7, <2>8, <2>9 DEF BasicInv
<1>3. ASSUME NEW k \in Calls, Voids(k) PROVE BasicInv'
  <2>1. k \in Written /\ att[k].contact \in Contacts
    BY <1>3, Tracked DEF Voids, Void
  <2>2. /\ k = nAtt /\ nAtt' = nAtt - 1 /\ IsDialing(k) /\ att'[k] = NoAttempt
        /\ \A j \in Calls : j # k => att'[j] = att[j]
    BY <1>0, <1>3, <2>1, VoidEffect DEF Voids
  <2>3. call[k] = "none" /\ UNCHANGED <<ledger, call, writes>>
    BY <1>3 DEF Voids, Void
  <2>4. writes[k] = 0 /\ ledger[k] = NoCDR
    BY <1>i, <1>t, <2>2, <2>3 DEF WritesInv, LedgerAgrees, IsDialing, IsFinished
  <2>5. NoAttempt.state = "NONE"
    BY DEF NoAttempt
  <2>6. RowsInv'
    BY <1>i, <1>t, <1>c, <1>n, <2>1, <2>2, <2>3, <2>4, <2>5 DEF RowsInv, IsDialing
  <2>7. WritesInv'
    BY <1>i, <1>t, <1>c, <1>n, <2>1, <2>2, <2>3, <2>4, <2>5 DEF WritesInv
  <2>8. LiveIsDialing'
    BY <1>i, <1>t, <1>c, <1>n, <2>1, <2>2, <2>3, <2>4, <2>5
       DEF LiveIsDialing, IsTimely, IsDialing, IsLive, IsLate
  <2>9. LedgerAgrees'
    BY <1>i, <1>t, <1>c, <1>n, <2>1, <2>2, <2>3, <2>4, <2>5 DEF LedgerAgrees, IsFinished
  <2>10. OneDialPerNumber'
    BY <1>i, <1>t, <1>c, <1>n, <2>1, <2>2, <2>3, <2>4, <2>5
      DEF OneDialPerNumber, IsDialing, NumberOfCall
  <2> QED BY <2>6, <2>7, <2>8, <2>9, <2>10 DEF BasicInv
<1>4. ASSUME NEW k \in Calls, NEW o \in Outcomes, Finishes(k, o) PROVE BasicInv'
  <2>1. k \in Written /\ att[k].contact \in Contacts
    BY <1>4, Tracked DEF Finishes
  <2>2. /\ nAtt' = nAtt
        /\ \A j \in Calls : att'[j].contact = att[j].contact
        /\ \A j \in Calls : j # k => att'[j] = att[j]
        /\ att'[k].state = "FINISHED" /\ att'[k].outcome = o
    BY <1>0, <1>4, <2>1, ApplyEffect DEF Finishes
  <2>3. att[k].state = "DIALING" /\ ~IsTimely(k) /\ UNCHANGED <<ledger, call, writes>>
    BY <1>4 DEF Finishes, IsDialing
  <2>4. RowsInv'
    BY <1>i, <1>t, <1>c, <1>n, <2>1, <2>2, <2>3 DEF RowsInv, IsDialing
  <2>5. WritesInv'
    BY <1>i, <1>t, <1>c, <1>n, <2>1, <2>2, <2>3 DEF WritesInv
  <2>6. LiveIsDialing'
    BY <1>i, <1>t, <1>c, <1>n, <2>1, <2>2, <2>3
       DEF LiveIsDialing, IsTimely, IsDialing, IsLive, IsLate
  <2>7. LedgerAgrees'
    BY <1>i, <1>t, <1>c, <1>n, <2>1, <2>2, <2>3 DEF LedgerAgrees, IsFinished
  <2>8. OneDialPerNumber'
    BY <1>i, <1>t, <1>c, <1>n, <2>1, <2>2, <2>3 DEF OneDialPerNumber, IsDialing, NumberOfCall
  <2> QED BY <2>4, <2>5, <2>6, <2>7, <2>8 DEF BasicInv
<1>5. ASSUME NEW k \in Calls, Places(k) PROVE BasicInv'
  <2>1. att[k].state = "DIALING" /\ call[k] = "none" /\ UNCHANGED <<att, nAtt, ledger, writes>>
    BY <1>5 DEF Places, IsDialing
  <2>2. call'[k] = "placing" /\ \A j \in Calls : j # k => call'[j] = call[j]
    BY <1>t, <1>5 DEF Places
  <2>3. RowsInv'
    BY <1>i, <1>t, <1>c, <1>n, <2>1, <2>2 DEF RowsInv, IsDialing
  <2>4. WritesInv'
    BY <1>i, <1>t, <1>c, <1>n, <2>1, <2>2 DEF WritesInv
  <2>5. LiveIsDialing'
    BY <1>i, <1>t, <1>c, <1>n, <2>1, <2>2 DEF LiveIsDialing, IsTimely, IsDialing, IsLive, IsLate
  <2>6. LedgerAgrees'
    BY <1>i, <1>t, <1>c, <1>n, <2>1, <2>2 DEF LedgerAgrees, IsFinished
  <2>7. OneDialPerNumber'
    BY <1>i, <1>t, <1>c, <1>n, <2>1, <2>2 DEF OneDialPerNumber, IsDialing, NumberOfCall
  <2> QED BY <2>3, <2>4, <2>5, <2>6, <2>7 DEF BasicInv
<1>6. ASSUME NEW k \in Calls, NEW s \in {"ringing", "talking", "missed", "adrift"}, Progresses(k, s)
      PROVE  BasicInv'
  <2>1. att[k].state = "DIALING" /\ IsTimely(k) /\ UNCHANGED <<att, nAtt, ledger, writes>>
    BY <1>6, <1>i DEF Progresses, LiveIsDialing, IsDialing, IsTimely, IsLive, IsLate
  <2>2. call'[k] = s /\ \A j \in Calls : j # k => call'[j] = call[j]
    BY <1>t, <1>6 DEF Progresses
  <2>3. call[k] \notin {"missed", "taken", "over"}
    BY <2>1 DEF IsTimely
  <2>4. RowsInv'
    BY <1>i, <1>t, <1>c, <1>n, <2>1, <2>2, <2>3 DEF RowsInv, IsDialing
  <2>5. WritesInv'
    BY <1>i, <1>t, <1>c, <1>n, <2>1, <2>2, <2>3 DEF WritesInv
  <2>6. LiveIsDialing'
    BY <1>i, <1>t, <1>c, <1>n, <2>1, <2>2, <2>3
       DEF LiveIsDialing, IsTimely, IsDialing, IsLive, IsLate
  <2>7. LedgerAgrees'
    BY <1>i, <1>t, <1>c, <1>n, <2>1, <2>2, <2>3 DEF LedgerAgrees, IsFinished
  <2>8. OneDialPerNumber'
    BY <1>i, <1>t, <1>c, <1>n, <2>1, <2>2, <2>3 DEF OneDialPerNumber, IsDialing, NumberOfCall
  <2> QED BY <2>4, <2>5, <2>6, <2>7, <2>8 DEF BasicInv
<1>7. ASSUME NEW k \in Calls, NEW s \in {"missed", "taken"}, NEW n \in 0..2, HangsUp(k, s, n)
      PROVE  BasicInv'
  <2>1. att[k].state = "DIALING" /\ UNCHANGED <<att, nAtt, ledger>>
    BY <1>7, <1>i DEF HangsUp, LiveIsDialing, IsDialing, IsTimely, IsLive, IsLate
  <2>2. call'[k] = s /\ \A j \in Calls : j # k => call'[j] = call[j]
    BY <1>t, <1>7 DEF HangsUp
  <2>3. \A j \in Calls : j # k => writes'[j] = writes[j]
    BY <1>t, <1>7 DEF HangsUp
  <2>4. RowsInv'
    BY <1>i, <1>t, <1>c, <1>n, <2>1, <2>2, <2>3 DEF RowsInv, IsDialing
  <2>5. WritesInv'
    BY <1>i, <1>t, <1>c, <1>n, <2>1, <2>2, <2>3 DEF WritesInv
  <2>6. LiveIsDialing'
    BY <1>i, <1>t, <1>c, <1>n, <2>1, <2>2, <2>3
       DEF LiveIsDialing, IsTimely, IsDialing, IsLive, IsLate
  <2>7. LedgerAgrees'
    BY <1>i, <1>t, <1>c, <1>n, <2>1, <2>2, <2>3 DEF LedgerAgrees, IsFinished
  <2>8. OneDialPerNumber'
    BY <1>i, <1>t, <1>c, <1>n, <2>1, <2>2, <2>3 DEF OneDialPerNumber, IsDialing, NumberOfCall
  <2> QED BY <2>4, <2>5, <2>6, <2>7, <2>8 DEF BasicInv
<1>8. ASSUME NEW k \in Calls, NEW o \in Outcomes, NEW s \in {"missed", "adrift"}, Fails(k, o, s)
      PROVE  BasicInv'
  <2>1. k \in Written /\ att[k].contact \in Contacts
    BY <1>8, Tracked DEF Fails, IsTimely
  <2>2. Apply(k, o, FALSE) /\ ledger'[k] = o /\ \A j \in Calls : j # k => ledger'[j] = ledger[j]
    BY <1>0, <1>8, CDREffect DEF Fails
  <2>3. /\ nAtt' = nAtt
        /\ \A j \in Calls : att'[j].contact = att[j].contact
        /\ \A j \in Calls : j # k => att'[j] = att[j]
        /\ att'[k].state = "FINISHED" /\ att'[k].outcome = o
    BY <1>0, <2>1, <2>2, ApplyEffect
  <2>4. /\ call'[k] = s /\ \A j \in Calls : j # k => call'[j] = call[j]
        /\ call[k] = "placing" /\ UNCHANGED writes
    BY <1>t, <1>8 DEF Fails
  <2>5. att[k].state # "NONE"
    BY <2>1 DEF Written
  <2>6. RowsInv'
    BY <1>i, <1>t, <1>c, <1>n, <2>1, <2>2, <2>3, <2>4, <2>5 DEF RowsInv, IsDialing
  <2>7. WritesInv'
    BY <1>i, <1>t, <1>c, <1>n, <2>1, <2>2, <2>3, <2>4, <2>5 DEF WritesInv
  <2>8. LiveIsDialing'
    BY <1>i, <1>t, <1>c, <1>n, <2>1, <2>2, <2>3, <2>4, <2>5
       DEF LiveIsDialing, IsTimely, IsDialing, IsLive, IsLate
  <2>9. LedgerAgrees'
    BY <1>i, <1>t, <1>c, <1>n, <2>1, <2>2, <2>3, <2>4, <2>5 DEF LedgerAgrees, IsFinished
  <2>10. OneDialPerNumber'
    BY <1>i, <1>t, <1>c, <1>n, <2>1, <2>2, <2>3, <2>4, <2>5
      DEF OneDialPerNumber, IsDialing, NumberOfCall
  <2> QED BY <2>6, <2>7, <2>8, <2>9, <2>10 DEF BasicInv
<1>9. ASSUME NEW k \in Calls, NEW o \in Outcomes, NEW isMore \in BOOLEAN, Records(k, o, isMore)
      PROVE  BasicInv'
  <2>1. k \in Written /\ att[k].contact \in Contacts
    BY <1>9, Tracked DEF Records
  <2>2. Apply(k, o, isMore) /\ ledger'[k] = o /\ \A j \in Calls : j # k => ledger'[j] = ledger[j]
    BY <1>0, <1>9, CDREffect DEF Records
  <2>3. /\ nAtt' = nAtt
        /\ \A j \in Calls : att'[j].contact = att[j].contact
        /\ \A j \in Calls : j # k => att'[j] = att[j]
        /\ att'[k].state = "FINISHED" /\ att'[k].outcome = o
    BY <1>0, <2>1, <2>2, ApplyEffect
  <2>4. /\ writes[k] > 0 /\ writes'[k] = writes[k] - 1
        /\ \A j \in Calls : j # k => writes'[j] = writes[j]
        /\ UNCHANGED call
    BY <1>t, <1>9 DEF Records
  <2>5. att[k].state # "NONE"
    BY <2>1 DEF Written
  <2>6. call[k] \in {"missed", "taken", "over"}
    BY <1>i, <2>4 DEF WritesInv
  <2>7. RowsInv'
    BY <1>i, <1>t, <1>c, <1>n, <2>1, <2>2, <2>3, <2>4, <2>5, <2>6 DEF RowsInv, IsDialing
  <2>8. WritesInv'
    BY <1>i, <1>t, <1>c, <1>n, <2>1, <2>2, <2>3, <2>4, <2>5, <2>6 DEF WritesInv
  <2>9. LiveIsDialing'
    BY <1>i, <1>t, <1>c, <1>n, <2>1, <2>2, <2>3, <2>4, <2>5, <2>6
      DEF LiveIsDialing, IsTimely, IsDialing, IsLive, IsLate
  <2>10. LedgerAgrees'
    BY <1>i, <1>t, <1>c, <1>n, <2>1, <2>2, <2>3, <2>4, <2>5, <2>6 DEF LedgerAgrees, IsFinished
  <2>11. OneDialPerNumber'
    BY <1>i, <1>t, <1>c, <1>n, <2>1, <2>2, <2>3, <2>4, <2>5, <2>6
      DEF OneDialPerNumber, IsDialing, NumberOfCall
  <2> QED BY <2>7, <2>8, <2>9, <2>10, <2>11 DEF BasicInv
<1>10. ASSUME NEW k \in Calls, Loses(k) PROVE BasicInv'
  <2>1. att[k].state # "NONE"
    BY <1>10, Tracked DEF Loses, Written
  <2>2. UNCHANGED <<att, nAtt, ledger, call>>
    BY <1>10 DEF Loses
  <2>3. /\ writes[k] > 0 /\ writes'[k] = writes[k] - 1
        /\ \A j \in Calls : j # k => writes'[j] = writes[j]
    BY <1>t, <1>10 DEF Loses
  <2>4. RowsInv'
    BY <1>i, <1>t, <1>c, <1>n, <2>1, <2>2, <2>3 DEF RowsInv, IsDialing
  <2>5. WritesInv'
    BY <1>i, <1>t, <1>c, <1>n, <2>1, <2>2, <2>3 DEF WritesInv
  <2>6. LiveIsDialing'
    BY <1>i, <1>t, <1>c, <1>n, <2>1, <2>2, <2>3
       DEF LiveIsDialing, IsTimely, IsDialing, IsLive, IsLate
  <2>7. LedgerAgrees'
    BY <1>i, <1>t, <1>c, <1>n, <2>1, <2>2, <2>3 DEF LedgerAgrees, IsFinished
  <2>8. OneDialPerNumber'
    BY <1>i, <1>t, <1>c, <1>n, <2>1, <2>2, <2>3 DEF OneDialPerNumber, IsDialing, NumberOfCall
  <2> QED BY <2>4, <2>5, <2>6, <2>7, <2>8 DEF BasicInv
<1>11. ASSUME NEW k \in Calls, NEW lead \in LeadIntents, Leads(k, lead) PROVE BasicInv'
  <2>1. UNCHANGED <<nAtt, ledger, call, writes>>
    BY <1>11 DEF Leads, SetLead
  <2>2. /\ \A j \in Calls : j # k => att'[j] = att[j]
        /\ att'[k].state = att[k].state /\ att'[k].contact = att[k].contact
        /\ att'[k].outcome = att[k].outcome /\ att[k].state = "DIALING"
    BY <1>0, <1>11, LeadEffect DEF Leads, IsDialing
  <2>3. RowsInv'
    BY <1>i, <1>t, <1>c, <1>n, <2>1, <2>2 DEF RowsInv, IsDialing
  <2>4. WritesInv'
    BY <1>i, <1>t, <1>c, <1>n, <2>1, <2>2 DEF WritesInv
  <2>5. LiveIsDialing'
    BY <1>i, <1>t, <1>c, <1>n, <2>1, <2>2 DEF LiveIsDialing, IsTimely, IsDialing, IsLive, IsLate
  <2>6. LedgerAgrees'
    BY <1>i, <1>t, <1>c, <1>n, <2>1, <2>2 DEF LedgerAgrees, IsFinished
  <2>7. OneDialPerNumber'
    BY <1>i, <1>t, <1>c, <1>n, <2>1, <2>2 DEF OneDialPerNumber, IsDialing, NumberOfCall
  <2> QED BY <2>3, <2>4, <2>5, <2>6, <2>7 DEF BasicInv
<1>12. ASSUME Crashes PROVE BasicInv'
  <2>1. UNCHANGED <<att, nAtt, ledger>>
    BY <1>12 DEF Crashes
  <2>2. \A j \in Calls : /\ writes'[j] = 0
                         /\ call'[j] = IF call[j] = "placing" THEN "adrift" ELSE call[j]
    BY <1>12 DEF Crashes
  <2>3. RowsInv'
    BY <1>i, <1>t, <1>c, <1>n, <2>1, <2>2 DEF RowsInv, IsDialing
  <2>4. WritesInv'
    BY <1>i, <1>t, <1>c, <1>n, <2>1, <2>2 DEF WritesInv
  <2>5. LiveIsDialing'
    BY <1>i, <1>t, <1>c, <1>n, <2>1, <2>2 DEF LiveIsDialing, IsTimely, IsDialing, IsLive, IsLate
  <2>6. LedgerAgrees'
    BY <1>i, <1>t, <1>c, <1>n, <2>1, <2>2 DEF LedgerAgrees, IsFinished
  <2>7. OneDialPerNumber'
    BY <1>i, <1>t, <1>c, <1>n, <2>1, <2>2 DEF OneDialPerNumber, IsDialing, NumberOfCall
  <2> QED BY <2>3, <2>4, <2>5, <2>6, <2>7 DEF BasicInv
<1>13. ASSUME NEW k \in Calls, ComesLate(k) PROVE BasicInv'
  <2>1. call[k] = "adrift" /\ UNCHANGED <<att, nAtt, ledger, writes>>
    BY <1>13 DEF ComesLate
  <2>2. call'[k] = "late" /\ \A j \in Calls : j # k => call'[j] = call[j]
    BY <1>t, <1>13 DEF ComesLate
  <2>3. RowsInv'
    BY <1>i, <1>t, <1>c, <1>n, <2>1, <2>2 DEF RowsInv, IsDialing
  <2>4. WritesInv'
    BY <1>i, <1>t, <1>c, <1>n, <2>1, <2>2 DEF WritesInv
  <2>5. LiveIsDialing'
    BY <1>i, <1>t, <1>c, <1>n, <2>1, <2>2 DEF LiveIsDialing, IsDialing, IsLive, IsLate
  <2>6. LedgerAgrees'
    BY <1>i, <1>t, <1>c, <1>n, <2>1, <2>2 DEF LedgerAgrees, IsFinished
  <2>7. OneDialPerNumber'
    BY <1>i, <1>t, <1>c, <1>n, <2>1, <2>2 DEF OneDialPerNumber, IsDialing, NumberOfCall
  <2> QED BY <2>3, <2>4, <2>5, <2>6, <2>7 DEF BasicInv
<1>14. ASSUME NEW k \in Calls, NEW n \in 0..2, EndsLate(k, n) PROVE BasicInv'
  <2>1. call[k] = "late" /\ UNCHANGED <<att, nAtt, ledger>>
    BY <1>14 DEF EndsLate
  <2>2. call'[k] = "over" /\ \A j \in Calls : j # k => call'[j] = call[j]
    BY <1>t, <1>14 DEF EndsLate
  <2>3. \A j \in Calls : j # k => writes'[j] = writes[j]
    BY <1>t, <1>14 DEF EndsLate
  <2>4. RowsInv'
    BY <1>i, <1>t, <1>c, <1>n, <2>1, <2>2, <2>3 DEF RowsInv, IsDialing
  <2>5. WritesInv'
    BY <1>i, <1>t, <1>c, <1>n, <2>1, <2>2, <2>3 DEF WritesInv
  <2>6. LiveIsDialing'
    BY <1>i, <1>t, <1>c, <1>n, <2>1, <2>2, <2>3 DEF LiveIsDialing, IsDialing, IsLive, IsLate
  <2>7. LedgerAgrees'
    BY <1>i, <1>t, <1>c, <1>n, <2>1, <2>2, <2>3 DEF LedgerAgrees, IsFinished
  <2>8. OneDialPerNumber'
    BY <1>i, <1>t, <1>c, <1>n, <2>1, <2>2, <2>3 DEF OneDialPerNumber, IsDialing, NumberOfCall
  <2> QED BY <2>4, <2>5, <2>6, <2>7, <2>8 DEF BasicInv
<1> QED BY <1>1, <1>2, <1>3, <1>4, <1>5, <1>6, <1>7, <1>8, <1>9, <1>10, <1>11, <1>12, <1>13, <1>14
        DEF Moves, Quiet, Lists

-----------------------------------------------------------------------------
(***************************************************************************)
(* What the history of a contact allows.                                   *)
(***************************************************************************)
\* Attempts exist only for imported contacts of started campaigns.
StartedInv ==
    \A k \in Written : /\ contact[att[k].contact].status # "ABSENT"
                       /\ campaign[CampaignOfCall(k)].status # "DRAFT"

HistoryInv == OpenInv /\ SettledInv /\ ConclusiveInv /\ NotCalledAgain

\* The history invariants are kept. A contact that is due has no open attempt, so
\* Admit begins one only where everything before is settled; a revision reaches
\* only an open attempt, which is the latest and so decides what becomes of the
\* contact; a listed contact is never called.
LEMMA HistoryStep ==
    ASSUME WorldTypes, BasicInv, HistoryInv, StartedInv, Moves
    PROVE  HistoryInv'
<1>0. StoreTypeOK
  BY DEF WorldTypes
<1>t. /\ att \in [Calls -> AttemptRows] /\ nAtt \in 0..MaxCalls
      /\ contact \in [Contacts -> ContactRows]
      /\ call \in [Calls -> CallStates] /\ writes \in [Calls -> 0..2]
  BY StoreTypes DEF WorldTypes
<1>c. Calls = 1..MaxCalls /\ MaxCalls \in Nat
  BY StoreAssumption DEF Calls, StoreAssumption
<1>r. \A k \in Calls : /\ att[k].state # "NONE" => k <= nAtt /\ att[k].contact \in Contacts
                       /\ k <= nAtt => att[k].state # "NONE"
                       /\ att[k].state = "NONE" => call[k] = "none" /\ writes[k] = 0
                       /\ att[k].state = "DIALING" => att[k].outcome = NoOutcome
                       /\ IsTimely(k) => att[k].state = "DIALING"
                       /\ att[k].state \in {"NONE", "DIALING", "FINISHED"}
  BY <1>t DEF BasicInv, RowsInv, LiveIsDialing, IsDialing, AttemptRows, IsTimely, IsLive, IsLate
<1>i. OpenInv /\ SettledInv /\ ConclusiveInv /\ NotCalledAgain /\ StartedInv
  BY DEF HistoryInv
<1>n. NoOutcome \notin AnsweredOutcomes
  BY DEF NoOutcome, AnsweredOutcomes

<1>1. ASSUME Quiet PROVE HistoryInv'
  <2>1. UNCHANGED <<att, nAtt, dnc, call, writes>>
    BY <1>1 DEF Quiet
  <2>2. \A k \in Calls : att[k].state # "NONE" =>
           /\ contact[att[k].contact].status # "ABSENT"
           /\ campaign[CampaignOf[att[k].contact]].status # "DRAFT"
    BY <1>i DEF StartedInv, Written, CampaignOfCall
  <2>3. \A y \in Contacts : ContactMoves(y)
    BY <1>1 DEF Quiet
  <2>4. OpenInv'
    <3>1. SUFFICES ASSUME NEW j \in Calls, att[j].state # "NONE" PROVE OpenAt(j)'
      BY <2>1 DEF OpenInv, Written
    <3> DEFINE x == att[j].contact
    <3>2. /\ OpenAt(j) /\ x \in Contacts /\ contact[x].status # "ABSENT"
          /\ campaign[CampaignOf[x]].status # "DRAFT" /\ ContactMoves(x)
      BY <1>i, <1>r, <2>2, <2>3, <3>1 DEF OpenInv, Written
    <3>3. /\ IsDialing(j)' <=> IsDialing(j)
          /\ IsOpen(j)' <=> IsOpen(j)
          /\ IsListed(x)' <=> IsListed(x)
          /\ IsLatest(j)' <=> IsLatest(j)
      BY <2>1 DEF IsDialing, IsOpen, IsListed, IsLatest, AttemptsOf, Written, IsLate
    <3>4. IsOpen(j) /\ ~IsDialing(j) => ~(\A k \in AttemptsOf(x) : writes[k] = 0 \/ IsLate(k))
      BY <1>t, <3>1 DEF IsOpen, AttemptsOf, Written
    <3>5. /\ IsDialing(j) => contact'[x].next = "NULL"
          /\ IsOpen(j) => IsListed(x) \/ contact'[x].next # "DUE"
      BY <3>2, <3>4 DEF ContactMoves, OpenAt, IsOpen
    <3> QED BY <2>1, <3>2, <3>3, <3>5 DEF OpenAt
  <2>5. SettledInv'
    BY <1>i, <1>t, <1>c, <1>r, <1>n, <2>1, <2>2, <2>3
    DEF SettledInv, IsOpen, IsDialing, Written, AttemptsOf, IsLate
  <2>6. ConclusiveInv'
    BY <1>i, <1>t, <1>c, <1>r, <1>n, <2>1, <2>2, <2>3
    DEF ConclusiveInv, ConclusiveAt, IsConclusive, IsLatest, IsListed, IsFinished, Written,
        AttemptsOf, ContactMoves, IsLate
  <2>7. NotCalledAgain'
    BY <1>i, <1>t, <1>c, <1>r, <1>n, <2>1, <2>2, <2>3
    DEF NotCalledAgain, Written, AttemptsOf, IsLate
  <2> QED BY <2>4, <2>5, <2>6, <2>7 DEF HistoryInv
<1>2. ASSUME Lists PROVE HistoryInv'
  <2>1. dnc \subseteq dnc' /\ UNCHANGED <<contact, att, nAtt, call, writes>>
    BY <1>2 DEF Lists
  <2>2. OpenInv'
    BY <1>i, <1>t, <1>c, <1>r, <1>n, <2>1
    DEF OpenInv, OpenAt, IsOpen, IsDialing, IsLatest, IsListed, Written, AttemptsOf, IsLate
  <2>3. SettledInv'
    BY <1>i, <1>t, <1>c, <1>r, <1>n, <2>1
    DEF SettledInv, IsOpen, IsDialing, Written, AttemptsOf, IsLate
  <2>4. ConclusiveInv'
    BY <1>i, <1>t, <1>c, <1>r, <1>n, <2>1
    DEF ConclusiveInv, ConclusiveAt, IsConclusive, IsLatest, IsListed, IsFinished, Written,
        AttemptsOf, IsLate
  <2>5. NotCalledAgain'
    BY <1>i, <1>t, <1>c, <1>r, <1>n, <2>1
    DEF NotCalledAgain, Written, AttemptsOf, IsLate
  <2> QED BY <2>2, <2>3, <2>4, <2>5 DEF HistoryInv
<1>3. ASSUME NEW x \in Contacts, Begins(x) PROVE HistoryInv'
  <2>1. /\ nAtt + 1 \in Calls /\ nAtt' = nAtt + 1
        /\ att'[nAtt + 1].state = "DIALING" /\ att'[nAtt + 1].contact = x
        /\ att'[nAtt + 1].outcome = NoOutcome /\ att'[nAtt + 1].lead = NoLead
        /\ \A j \in Calls : j # nAtt + 1 => att'[j] = att[j]
        /\ \A y \in Contacts : y # x => contact'[y] = contact[y]
        /\ contact'[x].next = "NULL" /\ contact'[x].status = contact[x].status
    BY <1>0, <1>3, BeginEffect DEF Begins
  <2>2. UNCHANGED <<dnc, call, writes>> /\ call[nAtt + 1] = "none"
    BY <1>3, <1>r, <1>t, <1>c, <2>1 DEF Begins, Begin
  <2>3. \A k \in Calls : att[k].state = "DIALING" => att[k].contact # x
    BY <1>3 DEF Begins, Begin, CanBegin, IsNumberDialing, IsDialing, NumberOfCall
  <2>4. contact[x].status = "ACTIVE" /\ (IsListed(x) \/ IsClear(x))
    BY <1>3 DEF Begins, Begin, CanBegin
  <2>l. ASSUME NEW j \in Calls, j = nAtt + 1 PROVE IsLatest(j)'
    <3>1. \A i \in Calls : att'[i].state # "NONE" => i <= j
      BY <1>r, <1>t, <1>c, <2>1, <2>l
    <3> QED BY <3>1 DEF IsLatest, AttemptsOf, Written
  <2>5. OpenInv'
    <3>1. SUFFICES ASSUME NEW j \in Calls, att'[j].state # "NONE" PROVE OpenAt(j)'
      BY DEF OpenInv, Written
    <3>2. CASE j = nAtt + 1
      <4>1. IsLatest(j)'
        BY <2>l, <3>2
      <4> QED BY <2>1, <3>2, <4>1 DEF OpenAt
    <3>3. CASE j # nAtt + 1
      <4>1. att'[j] = att[j] /\ att[j].state # "NONE" /\ att[j].contact \in Contacts /\ OpenAt(j)
        BY <1>i, <1>r, <2>1, <3>1, <3>3 DEF OpenInv, Written
      <4>2. (IsDialing(j)' <=> IsDialing(j)) /\ (IsOpen(j)' <=> IsOpen(j))
            /\ (IsListed(att[j].contact)' <=> IsListed(att[j].contact))
        BY <2>2, <4>1 DEF IsDialing, IsOpen, IsListed, IsLate
      <4>3. CASE att[j].contact = x
        <5>1. IsListed(x) \/ ~IsOpen(j)
          BY <2>4, <4>1, <4>3 DEF IsClear, AttemptsOf, Written
        <5> QED BY <2>3, <4>1, <4>2, <4>3, <5>1 DEF OpenAt, IsDialing
      <4>4. CASE att[j].contact # x
        <5>1. IsLatest(j) => IsLatest(j)'
          BY <2>1, <4>1, <4>4 DEF IsLatest, AttemptsOf, Written
        <5>2. contact'[att[j].contact] = contact[att[j].contact]
          BY <2>1, <4>1, <4>4
        <5> QED BY <4>1, <4>2, <5>1, <5>2 DEF OpenAt
      <4> QED BY <4>3, <4>4
    <3> QED BY <3>2, <3>3
  <2>6. SettledInv'
    BY <1>i, <1>t, <1>c, <1>r, <1>n, <2>1, <2>2, <2>3, <2>4
    DEF SettledInv, IsOpen, IsDialing, Written, AttemptsOf, IsLate
  <2>7. ConclusiveInv'
    <3>1. SUFFICES ASSUME NEW j \in Calls, att'[j].state # "NONE" PROVE ConclusiveAt(j)'
      BY DEF ConclusiveInv, Written
    <3>2. CASE j = nAtt + 1
      <4>1. IsLatest(j)' /\ ~IsFinished(j)'
        BY <2>1, <2>l, <3>2 DEF IsFinished
      <4> QED BY <4>1 DEF ConclusiveAt
    <3>3. CASE j # nAtt + 1
      <4>1. /\ att'[j] = att[j] /\ att[j].state # "NONE" /\ att[j].contact \in Contacts
            /\ ConclusiveAt(j)
        BY <1>i, <1>r, <2>1, <3>1, <3>3 DEF ConclusiveInv, Written
      <4>2. (IsConclusive(j)' <=> IsConclusive(j)) /\ (IsFinished(j)' <=> IsFinished(j))
            /\ (IsListed(att[j].contact)' <=> IsListed(att[j].contact))
        BY <2>2, <4>1 DEF IsConclusive, IsFinished, IsListed, IsLate
      <4>3. CASE att[j].contact = x
        <5>1. IsFinished(j)
          BY <2>3, <4>1, <4>3, <1>t DEF IsFinished, AttemptRows
        <5> QED BY <2>4, <4>1, <4>2, <4>3, <5>1 DEF ConclusiveAt, IsListed
      <4>4. CASE att[j].contact # x
        <5>1. IsLatest(j) => IsLatest(j)'
          BY <2>1, <4>1, <4>4 DEF IsLatest, AttemptsOf, Written
        <5>2. contact'[att[j].contact] = contact[att[j].contact]
          BY <2>1, <4>1, <4>4
        <5> QED BY <4>1, <4>2, <5>1, <5>2 DEF ConclusiveAt
      <4> QED BY <4>3, <4>4
    <3> QED BY <3>2, <3>3
  <2>8. NotCalledAgain'
    BY <1>i, <1>t, <1>c, <1>r, <1>n, <2>1, <2>2, <2>3, <2>4
    DEF NotCalledAgain, Written, AttemptsOf, IsLate
  <2> QED BY <2>5, <2>6, <2>7, <2>8 DEF HistoryInv
<1>4. ASSUME NEW k \in Calls, Voids(k) PROVE HistoryInv'
  <2>1. k \in Written /\ att[k].contact \in Contacts
    BY <1>4, Tracked DEF Voids, Void
  <2>2. /\ k = nAtt /\ IsDialing(k) /\ att'[k] = NoAttempt
        /\ \A j \in Calls : j # k => att'[j] = att[j]
        /\ \A y \in Contacts : /\ y # att[k].contact => contact'[y] = contact[y]
                               /\ contact'[y].status = contact[y].status
    BY <1>0, <1>4, <2>1, VoidEffect DEF Voids
  <2>3. UNCHANGED <<dnc, call, writes>>
    BY <1>4 DEF Voids, Void
  <2>4. NoAttempt.state = "NONE"
    BY DEF NoAttempt
  <2>5. OpenInv'
    <3>1. SUFFICES ASSUME NEW j \in Calls, att'[j].state # "NONE" PROVE OpenAt(j)'
      BY DEF OpenInv, Written
    <3>2. /\ j # k /\ att'[j] = att[j] /\ att[j].state # "NONE" /\ att[j].contact \in Contacts
          /\ OpenAt(j) /\ j < k
      BY <1>i, <1>r, <1>t, <1>c, <2>2, <2>4, <3>1 DEF OpenInv, Written
    <3>3. (IsDialing(j)' <=> IsDialing(j)) /\ (IsOpen(j)' <=> IsOpen(j))
          /\ (IsListed(att[j].contact)' <=> IsListed(att[j].contact))
      BY <2>3, <3>2 DEF IsDialing, IsOpen, IsListed, IsLate
    <3>4. IsLatest(j) => IsLatest(j)'
      BY <2>2, <2>4, <3>2 DEF IsLatest, AttemptsOf, Written
    <3>5. CASE att[j].contact = att[k].contact
      <4>1. ~IsLatest(j)
        BY <1>c, <2>1, <3>2, <3>5 DEF IsLatest, AttemptsOf, Written
      <4> QED BY <3>2, <3>3, <4>1 DEF OpenAt
    <3>6. CASE att[j].contact # att[k].contact
      <4>1. contact'[att[j].contact] = contact[att[j].contact]
        BY <2>2, <3>2, <3>6
      <4> QED BY <3>2, <3>3, <3>4, <4>1 DEF OpenAt
    <3> QED BY <3>5, <3>6
  <2>6. SettledInv'
    <3>1. \A j \in Written' : j \in Written /\ j \in Calls /\ j # k /\ att'[j] = att[j]
      BY <2>2, <2>4 DEF Written
    <3>2. \A j \in Written' : IsOpen(j)' <=> IsOpen(j)
      BY <2>3, <3>1 DEF IsOpen, IsDialing, IsLate
    <3> QED BY <1>i, <2>3, <3>1, <3>2 DEF SettledInv
  <2>7. ConclusiveInv'
    <3>1. SUFFICES ASSUME NEW j \in Calls, att'[j].state # "NONE" PROVE ConclusiveAt(j)'
      BY DEF ConclusiveInv, Written
    <3>2. /\ j # k /\ att'[j] = att[j] /\ att[j].state # "NONE" /\ att[j].contact \in Contacts
          /\ ConclusiveAt(j)
      BY <1>i, <1>r, <2>2, <2>4, <3>1 DEF ConclusiveInv, Written
    <3>3. (IsConclusive(j)' <=> IsConclusive(j)) /\ (IsFinished(j)' <=> IsFinished(j))
          /\ (IsListed(att[j].contact)' <=> IsListed(att[j].contact))
      BY <2>3, <3>2 DEF IsConclusive, IsFinished, IsListed, IsLate
    <3>4. IsLatest(j) => IsLatest(j)'
      BY <2>2, <2>4, <3>2 DEF IsLatest, AttemptsOf, Written
    <3>5. contact'[att[j].contact].status = contact[att[j].contact].status
      BY <2>2, <3>2
    <3> QED BY <3>2, <3>3, <3>4, <3>5 DEF ConclusiveAt
  <2>8. NotCalledAgain'
    <3>1. \A y \in Contacts : AttemptsOf(y)' \subseteq AttemptsOf(y) \ {k}
      BY <2>2, <2>4 DEF AttemptsOf, Written
    <3>2. \A y \in Contacts : \A j \in AttemptsOf(y)' : j \in Calls /\ att'[j] = att[j]
      BY <2>2, <2>4, <3>1 DEF AttemptsOf, Written
    <3> QED BY <1>i, <2>3, <3>1, <3>2 DEF NotCalledAgain, IsLate
  <2> QED BY <2>5, <2>6, <2>7, <2>8 DEF HistoryInv
<1>5. ASSUME NEW k \in Calls, NEW o \in Outcomes, Finishes(k, o) PROVE HistoryInv'
  <2>1. k \in Written /\ att[k].contact \in Contacts
    BY <1>5, Tracked DEF Finishes
  <2>2. Apply(k, o, FALSE)
    BY <1>5 DEF Finishes
  <2>3. /\ \A j \in Calls : att'[j].contact = att[j].contact /\ att'[j].lead = att[j].lead
        /\ \A j \in Calls : j # k => att'[j] = att[j]
        /\ att'[k].state = "FINISHED" /\ att'[k].outcome = o
        /\ \A y \in Contacts : y # att[k].contact => contact'[y] = contact[y]
        /\ \/ contact'[att[k].contact] = ContactAfter(k, o)
           \/ contact' = contact /\ IsFinished(k) /\ att[k].outcome = o
        /\ dnc \subseteq dnc'
    BY <1>0, <2>1, <2>2, ApplyEffect
  <2>4. att[k].state = "DIALING" /\ UNCHANGED <<call, writes>>
    BY <1>5 DEF Finishes, IsDialing
  <2>5. /\ \A y \in Contacts : y # att[k].contact => contact'[y] = contact[y]
        /\ \/ /\ contact'[att[k].contact] = contact[att[k].contact]
              /\ att[k].state = "FINISHED" /\ att[k].outcome = o
           \/ /\ IsLatest(k)
              /\ contact'[att[k].contact].next # "DUE"
              /\ att[k].lead # NoLead \/ o \in AnsweredOutcomes =>
                    contact'[att[k].contact].status # "ACTIVE"
           \/ /\ ~IsLatest(k)
              /\ contact'[att[k].contact].status = contact[att[k].contact].status
              /\ contact'[att[k].contact].next = contact[att[k].contact].next
    BY <1>0, <2>1, <2>3, AfterIs DEF IsFinished
  <2>6. \A j \in Calls :
           att[j].state # "NONE" /\ att[j].contact = att[k].contact /\ call[j] # "none" => j <= k
    BY <1>i, <1>c, <2>1, <2>4 DEF SettledInv, IsOpen, IsDialing, Written, IsLate
  <2>7. /\ NumberOf[att[k].contact] \in dnc \/ IsLatest(k)
        /\ att[k].state = "DIALING" => IsLatest(k)
    BY <1>i, <2>1, <2>4 DEF OpenInv, OpenAt, IsOpen, IsDialing, IsListed, IsLate
  <2>8. \A j \in Calls : att'[j].state # "NONE" <=> att[j].state # "NONE"
    BY <2>1, <2>3 DEF Written
  <2>9. \A j \in Calls : IsLatest(j)' <=> IsLatest(j)
    BY <2>3, <2>8 DEF IsLatest, AttemptsOf, Written
  <2>10. OpenInv'
    <3>1. SUFFICES ASSUME NEW j \in Calls, att'[j].state # "NONE" PROVE OpenAt(j)'
      BY DEF OpenInv, Written
    <3>2. /\ att[j].state # "NONE" /\ att[j].contact \in Contacts /\ OpenAt(j)
          /\ att'[j].contact = att[j].contact /\ (IsLatest(j)' <=> IsLatest(j))
          /\ IsListed(att[j].contact) => IsListed(att[j].contact)'
          /\ writes'[j] > 0 => writes[j] > 0
      BY <1>i, <1>r, <2>3, <2>4, <2>8, <2>9, <3>1 DEF OpenInv, Written, IsListed
    <3>3. CASE j = k
      <4>1. ~IsDialing(j)'
        BY <2>3, <3>3 DEF IsDialing
      <4>2. IsLatest(j) /\ contact'[att[j].contact].next # "DUE"
        BY <2>4, <2>5, <2>7, <3>3
      <4> QED BY <3>2, <4>1, <4>2 DEF OpenAt
    <3>4. CASE j # k
      <4>1. /\ IsDialing(j)' => IsDialing(j)
            /\ IsOpen(j)' => IsOpen(j)
        BY <2>3, <2>4, <3>2, <3>4 DEF IsDialing, IsOpen, IsLate
      <4>2. IsLatest(j) => contact'[att[j].contact].next = contact[att[j].contact].next
        <5>1. CASE att[j].contact # att[k].contact
          BY <2>5, <3>2, <5>1
        <5>2. CASE att[j].contact = att[k].contact /\ IsLatest(j)
          <6>1. ~IsLatest(k)
            BY <1>c, <2>1, <3>2, <3>4, <5>2 DEF IsLatest, AttemptsOf, Written
          <6> QED BY <2>5, <5>2, <6>1
        <5> QED BY <5>1, <5>2
      <4> QED BY <3>2, <4>1, <4>2 DEF OpenAt
    <3> QED BY <3>3, <3>4
  <2>11. SettledInv'
    BY <1>i, <1>t, <1>c, <1>r, <1>n, <2>1, <2>2, <2>3, <2>4, <2>5, <2>6, <2>7, <2>8, <2>9
    DEF SettledInv, IsOpen, IsDialing, Written, IsLate
  <2>12. ConclusiveInv'
    <3>1. SUFFICES ASSUME NEW j \in Calls, att'[j].state # "NONE" PROVE ConclusiveAt(j)'
      BY DEF ConclusiveInv, Written
    <3>2. /\ att[j].state # "NONE" /\ att[j].contact \in Contacts /\ ConclusiveAt(j)
          /\ att'[j].contact = att[j].contact /\ (IsLatest(j)' <=> IsLatest(j))
          /\ IsListed(att[j].contact) => IsListed(att[j].contact)'
      BY <1>i, <1>r, <2>3, <2>8, <2>9, <3>1 DEF ConclusiveInv, Written, IsListed
    <3>3. CASE j = k
      <4>1. IsConclusive(k)' => att[k].lead # NoLead \/ o \in AnsweredOutcomes
        BY <2>3 DEF IsConclusive
      <4>2. IsConclusive(k)' => \/ IsListed(att[k].contact)
                                \/ IsLatest(k) /\ contact'[att[k].contact].status # "ACTIVE"
        <5>1. SUFFICES ASSUME IsConclusive(k)', ~IsListed(att[k].contact)
                       PROVE  IsLatest(k) /\ contact'[att[k].contact].status # "ACTIVE"
          OBVIOUS
        <5>2. IsLatest(k)
          BY <2>7, <5>1 DEF IsListed
        <5>3. CASE /\ contact'[att[k].contact] = contact[att[k].contact]
                   /\ att[k].state = "FINISHED" /\ att[k].outcome = o
          BY <2>4, <3>2, <3>3, <4>1, <5>1, <5>2, <5>3
             DEF ConclusiveAt, IsConclusive, IsFinished, IsLate
        <5> QED BY <2>5, <4>1, <5>1, <5>2, <5>3
      <4> QED BY <3>2, <3>3, <4>2 DEF ConclusiveAt
    <3>4. CASE j # k
      <4>1. (IsConclusive(j)' <=> IsConclusive(j)) /\ (IsFinished(j)' <=> IsFinished(j))
        BY <2>3, <2>4, <3>2, <3>4 DEF IsConclusive, IsFinished, IsLate
      <4>2. IsLatest(j) => contact'[att[j].contact].status = contact[att[j].contact].status
        <5>1. CASE att[j].contact # att[k].contact
          BY <2>5, <3>2, <5>1
        <5>2. CASE att[j].contact = att[k].contact /\ IsLatest(j)
          <6>1. ~IsLatest(k)
            BY <1>c, <2>1, <3>2, <3>4, <5>2 DEF IsLatest, AttemptsOf, Written
          <6> QED BY <2>5, <5>2, <6>1
        <5> QED BY <5>1, <5>2
      <4> QED BY <3>2, <4>1, <4>2 DEF ConclusiveAt
    <3> QED BY <3>3, <3>4
  <2>13. NotCalledAgain'
    BY <1>i, <1>t, <1>c, <1>r, <1>n, <2>1, <2>2, <2>3, <2>4, <2>5, <2>6, <2>7, <2>8, <2>9
    DEF NotCalledAgain, Written, AttemptsOf, IsLate
  <2> QED BY <2>10, <2>11, <2>12, <2>13 DEF HistoryInv
<1>6. ASSUME NEW k \in Calls, NEW o \in Outcomes, NEW s \in {"missed", "adrift"}, Fails(k, o, s)
      PROVE  HistoryInv'
  <2>1. k \in Written /\ att[k].contact \in Contacts
    BY <1>6, Tracked DEF Fails, IsTimely
  <2>2. Apply(k, o, FALSE)
    BY <1>6 DEF Fails, InsertCDR
  <2>3. /\ \A j \in Calls : att'[j].contact = att[j].contact /\ att'[j].lead = att[j].lead
        /\ \A j \in Calls : j # k => att'[j] = att[j]
        /\ att'[k].state = "FINISHED" /\ att'[k].outcome = o
        /\ \A y \in Contacts : y # att[k].contact => contact'[y] = contact[y]
        /\ \/ contact'[att[k].contact] = ContactAfter(k, o)
           \/ contact' = contact /\ IsFinished(k) /\ att[k].outcome = o
        /\ dnc \subseteq dnc'
    BY <1>0, <2>1, <2>2, ApplyEffect
  <2>4. /\ att[k].state = "DIALING" /\ call[k] # "none" /\ UNCHANGED writes
        /\ \A j \in Calls : j # k => call'[j] = call[j]
    BY <1>6, <1>r, <1>t DEF Fails, IsTimely
  <2>5. /\ \A y \in Contacts : y # att[k].contact => contact'[y] = contact[y]
        /\ \/ /\ contact'[att[k].contact] = contact[att[k].contact]
              /\ att[k].state = "FINISHED" /\ att[k].outcome = o
           \/ /\ IsLatest(k)
              /\ contact'[att[k].contact].next # "DUE"
              /\ att[k].lead # NoLead \/ o \in AnsweredOutcomes =>
                    contact'[att[k].contact].status # "ACTIVE"
           \/ /\ ~IsLatest(k)
              /\ contact'[att[k].contact].status = contact[att[k].contact].status
              /\ contact'[att[k].contact].next = contact[att[k].contact].next
    BY <1>0, <2>1, <2>3, AfterIs DEF IsFinished
  <2>6. \A j \in Calls :
           att[j].state # "NONE" /\ att[j].contact = att[k].contact /\ call[j] # "none" => j <= k
    BY <1>i, <1>c, <2>1, <2>4 DEF SettledInv, IsOpen, IsDialing, Written, IsLate
  <2>7. /\ NumberOf[att[k].contact] \in dnc \/ IsLatest(k)
        /\ att[k].state = "DIALING" => IsLatest(k)
    BY <1>i, <2>1, <2>4 DEF OpenInv, OpenAt, IsOpen, IsDialing, IsListed, IsLate
  <2>8. \A j \in Calls : att'[j].state # "NONE" <=> att[j].state # "NONE"
    BY <2>1, <2>3 DEF Written
  <2>9. \A j \in Calls : IsLatest(j)' <=> IsLatest(j)
    BY <2>3, <2>8 DEF IsLatest, AttemptsOf, Written
  <2>10. OpenInv'
    <3>1. SUFFICES ASSUME NEW j \in Calls, att'[j].state # "NONE" PROVE OpenAt(j)'
      BY DEF OpenInv, Written
    <3>2. /\ att[j].state # "NONE" /\ att[j].contact \in Contacts /\ OpenAt(j)
          /\ att'[j].contact = att[j].contact /\ (IsLatest(j)' <=> IsLatest(j))
          /\ IsListed(att[j].contact) => IsListed(att[j].contact)'
          /\ writes'[j] > 0 => writes[j] > 0
      BY <1>i, <1>r, <2>3, <2>4, <2>8, <2>9, <3>1 DEF OpenInv, Written, IsListed
    <3>3. CASE j = k
      <4>1. ~IsDialing(j)'
        BY <2>3, <3>3 DEF IsDialing
      <4>2. IsLatest(j) /\ contact'[att[j].contact].next # "DUE"
        BY <2>4, <2>5, <2>7, <3>3
      <4> QED BY <3>2, <4>1, <4>2 DEF OpenAt
    <3>4. CASE j # k
      <4>1. /\ IsDialing(j)' => IsDialing(j)
            /\ IsOpen(j)' => IsOpen(j)
        BY <2>3, <2>4, <3>2, <3>4 DEF IsDialing, IsOpen, IsLate
      <4>2. IsLatest(j) => contact'[att[j].contact].next = contact[att[j].contact].next
        <5>1. CASE att[j].contact # att[k].contact
          BY <2>5, <3>2, <5>1
        <5>2. CASE att[j].contact = att[k].contact /\ IsLatest(j)
          <6>1. ~IsLatest(k)
            BY <1>c, <2>1, <3>2, <3>4, <5>2 DEF IsLatest, AttemptsOf, Written
          <6> QED BY <2>5, <5>2, <6>1
        <5> QED BY <5>1, <5>2
      <4> QED BY <3>2, <4>1, <4>2 DEF OpenAt
    <3> QED BY <3>3, <3>4
  <2>11. SettledInv'
    BY <1>i, <1>t, <1>c, <1>r, <1>n, <2>1, <2>2, <2>3, <2>4, <2>5, <2>6, <2>7, <2>8, <2>9
    DEF SettledInv, IsOpen, IsDialing, Written, IsLate
  <2>12. ConclusiveInv'
    <3>1. SUFFICES ASSUME NEW j \in Calls, att'[j].state # "NONE" PROVE ConclusiveAt(j)'
      BY DEF ConclusiveInv, Written
    <3>2. /\ att[j].state # "NONE" /\ att[j].contact \in Contacts /\ ConclusiveAt(j)
          /\ att'[j].contact = att[j].contact /\ (IsLatest(j)' <=> IsLatest(j))
          /\ IsListed(att[j].contact) => IsListed(att[j].contact)'
      BY <1>i, <1>r, <2>3, <2>8, <2>9, <3>1 DEF ConclusiveInv, Written, IsListed
    <3>3. CASE j = k
      <4>1. IsConclusive(k)' => att[k].lead # NoLead \/ o \in AnsweredOutcomes
        BY <2>3 DEF IsConclusive
      <4>2. IsConclusive(k)' => \/ IsListed(att[k].contact)
                                \/ IsLatest(k) /\ contact'[att[k].contact].status # "ACTIVE"
        <5>1. SUFFICES ASSUME IsConclusive(k)', ~IsListed(att[k].contact)
                       PROVE  IsLatest(k) /\ contact'[att[k].contact].status # "ACTIVE"
          OBVIOUS
        <5>2. IsLatest(k)
          BY <2>7, <5>1 DEF IsListed
        <5>3. CASE /\ contact'[att[k].contact] = contact[att[k].contact]
                   /\ att[k].state = "FINISHED" /\ att[k].outcome = o
          BY <2>4, <3>2, <3>3, <4>1, <5>1, <5>2, <5>3
             DEF ConclusiveAt, IsConclusive, IsFinished, IsLate
        <5> QED BY <2>5, <4>1, <5>1, <5>2, <5>3
      <4> QED BY <3>2, <3>3, <4>2 DEF ConclusiveAt
    <3>4. CASE j # k
      <4>1. (IsConclusive(j)' <=> IsConclusive(j)) /\ (IsFinished(j)' <=> IsFinished(j))
        BY <2>3, <2>4, <3>2, <3>4 DEF IsConclusive, IsFinished, IsLate
      <4>2. IsLatest(j) => contact'[att[j].contact].status = contact[att[j].contact].status
        <5>1. CASE att[j].contact # att[k].contact
          BY <2>5, <3>2, <5>1
        <5>2. CASE att[j].contact = att[k].contact /\ IsLatest(j)
          <6>1. ~IsLatest(k)
            BY <1>c, <2>1, <3>2, <3>4, <5>2 DEF IsLatest, AttemptsOf, Written
          <6> QED BY <2>5, <5>2, <6>1
        <5> QED BY <5>1, <5>2
      <4> QED BY <3>2, <4>1, <4>2 DEF ConclusiveAt
    <3> QED BY <3>3, <3>4
  <2>13. NotCalledAgain'
    BY <1>i, <1>t, <1>c, <1>r, <1>n, <2>1, <2>2, <2>3, <2>4, <2>5, <2>6, <2>7, <2>8, <2>9
    DEF NotCalledAgain, Written, AttemptsOf, IsLate
  <2> QED BY <2>10, <2>11, <2>12, <2>13 DEF HistoryInv
<1>7. ASSUME NEW k \in Calls, NEW o \in Outcomes, NEW isMore \in BOOLEAN, Records(k, o, isMore)
      PROVE  HistoryInv'
  <2>1. k \in Written /\ att[k].contact \in Contacts
    BY <1>7, Tracked DEF Records
  <2>2. Apply(k, o, isMore)
    BY <1>7 DEF Records, InsertCDR
  <2>3. /\ \A j \in Calls : att'[j].contact = att[j].contact /\ att'[j].lead = att[j].lead
        /\ \A j \in Calls : j # k => att'[j] = att[j]
        /\ att'[k].state = "FINISHED" /\ att'[k].outcome = o
        /\ \A y \in Contacts : y # att[k].contact => contact'[y] = contact[y]
        /\ \/ contact'[att[k].contact] = ContactAfter(k, o)
           \/ contact' = contact /\ IsFinished(k) /\ att[k].outcome = o
        /\ dnc \subseteq dnc'
    BY <1>0, <2>1, <2>2, ApplyEffect
  <2>4. /\ writes[k] > 0 /\ UNCHANGED call
        /\ \A j \in Calls : writes'[j] > 0 => writes[j] > 0
    BY <1>7, <1>t DEF Records
  <2>5. /\ \A y \in Contacts : y # att[k].contact => contact'[y] = contact[y]
        /\ \/ /\ contact'[att[k].contact] = contact[att[k].contact]
              /\ att[k].state = "FINISHED" /\ att[k].outcome = o
           \/ /\ IsLatest(k)
              /\ contact'[att[k].contact].next # "DUE"
              /\ att[k].lead # NoLead \/ o \in AnsweredOutcomes =>
                    contact'[att[k].contact].status # "ACTIVE"
           \/ /\ ~IsLatest(k)
              /\ contact'[att[k].contact].status = contact[att[k].contact].status
              /\ contact'[att[k].contact].next = contact[att[k].contact].next
    BY <1>0, <2>1, <2>3, AfterIs DEF IsFinished
  <2>6. ASSUME ~IsLate(k) \/ att[k].lead # NoLead
        PROVE  \A j \in Calls : att[j].state # "NONE" /\ att[j].contact = att[k].contact
                                   /\ call[j] # "none" => j <= k
    <3>1. CASE ~IsLate(k)
      <4>1. IsOpen(k)
        BY <2>4, <3>1 DEF IsOpen
      <4>2. \A j \in Calls : att[j].state # "NONE" => j \in Written
        BY DEF Written
      <4> QED BY <1>i, <1>c, <2>1, <4>1, <4>2 DEF SettledInv
    <3>2. CASE att[k].lead # NoLead
      <4>1. \A j \in Calls : att[j].state # "NONE" /\ att[j].contact = att[k].contact =>
               j \in AttemptsOf(att[k].contact)
        BY DEF AttemptsOf, Written
      <4>2. k \in AttemptsOf(att[k].contact)
        BY <2>1 DEF AttemptsOf
      <4> QED BY <1>i, <2>1, <3>2, <4>1, <4>2 DEF NotCalledAgain
    <3> QED BY <2>6, <3>1, <3>2
  <2>7. ~IsLate(k) \/ att[k].lead # NoLead => IsListed(att[k].contact) \/ IsLatest(k)
    BY <1>i, <2>1, <2>4
      DEF OpenInv, OpenAt, IsOpen, ConclusiveInv, ConclusiveAt, IsConclusive
  <2>8. \A j \in Calls : att'[j].state # "NONE" <=> att[j].state # "NONE"
    BY <2>1, <2>3 DEF Written
  <2>9. \A j \in Calls : IsLatest(j)' <=> IsLatest(j)
    BY <2>3, <2>8 DEF IsLatest, AttemptsOf, Written
  <2>10. OpenInv'
    <3>1. SUFFICES ASSUME NEW j \in Calls, att'[j].state # "NONE" PROVE OpenAt(j)'
      BY DEF OpenInv, Written
    <3>2. /\ att[j].state # "NONE" /\ att[j].contact \in Contacts /\ OpenAt(j)
          /\ att'[j].contact = att[j].contact /\ (IsLatest(j)' <=> IsLatest(j))
          /\ IsListed(att[j].contact) => IsListed(att[j].contact)'
          /\ writes'[j] > 0 => writes[j] > 0
      BY <1>i, <1>r, <2>3, <2>4, <2>8, <2>9, <3>1 DEF OpenInv, Written, IsListed
    <3>3. CASE j = k
      <4>1. ~IsDialing(j)' /\ (IsOpen(j)' => IsOpen(j) /\ ~IsLate(k))
        BY <2>3, <2>4, <3>2, <3>3 DEF IsDialing, IsOpen, IsLate
      <4>2. IsOpen(j)' => \/ IsListed(att[j].contact)
                          \/ IsLatest(j) /\ contact'[att[j].contact].next # "DUE"
        BY <2>5, <2>7, <3>2, <3>3, <4>1 DEF OpenAt
      <4> QED BY <3>2, <4>1, <4>2 DEF OpenAt
    <3>4. CASE j # k
      <4>1. /\ IsDialing(j)' => IsDialing(j)
            /\ IsOpen(j)' => IsOpen(j)
        BY <2>3, <2>4, <3>2, <3>4 DEF IsDialing, IsOpen, IsLate
      <4>2. IsLatest(j) => contact'[att[j].contact].next = contact[att[j].contact].next
        <5>1. CASE att[j].contact # att[k].contact
          BY <2>5, <3>2, <5>1
        <5>2. CASE att[j].contact = att[k].contact /\ IsLatest(j)
          <6>1. ~IsLatest(k)
            BY <1>c, <2>1, <3>2, <3>4, <5>2 DEF IsLatest, AttemptsOf, Written
          <6> QED BY <2>5, <5>2, <6>1
        <5> QED BY <5>1, <5>2
      <4> QED BY <3>2, <4>1, <4>2 DEF OpenAt
    <3> QED BY <3>3, <3>4
  <2>11. SettledInv'
    BY <1>i, <1>t, <1>c, <1>r, <1>n, <2>1, <2>2, <2>3, <2>4, <2>5, <2>6, <2>7, <2>8, <2>9
    DEF SettledInv, IsOpen, IsDialing, Written, IsLate
  <2>12. ConclusiveInv'
    <3>1. SUFFICES ASSUME NEW j \in Calls, att'[j].state # "NONE" PROVE ConclusiveAt(j)'
      BY DEF ConclusiveInv, Written
    <3>2. /\ att[j].state # "NONE" /\ att[j].contact \in Contacts /\ ConclusiveAt(j)
          /\ att'[j].contact = att[j].contact /\ (IsLatest(j)' <=> IsLatest(j))
          /\ IsListed(att[j].contact) => IsListed(att[j].contact)'
      BY <1>i, <1>r, <2>3, <2>8, <2>9, <3>1 DEF ConclusiveInv, Written, IsListed
    <3>3. CASE j = k
      <4>1. IsConclusive(k)' => att[k].lead # NoLead \/ (o \in AnsweredOutcomes /\ ~IsLate(k))
        BY <2>3, <2>4 DEF IsConclusive, IsLate
      <4>2. IsConclusive(k)' => \/ IsListed(att[k].contact)
                                \/ IsLatest(k) /\ contact'[att[k].contact].status # "ACTIVE"
        <5>1. SUFFICES ASSUME IsConclusive(k)', ~IsListed(att[k].contact)
                       PROVE  IsLatest(k) /\ contact'[att[k].contact].status # "ACTIVE"
          OBVIOUS
        <5>2. IsLatest(k)
          BY <2>7, <4>1, <5>1
        <5>3. CASE /\ contact'[att[k].contact] = contact[att[k].contact]
                   /\ att[k].state = "FINISHED" /\ att[k].outcome = o
          BY <3>2, <3>3, <4>1, <5>1, <5>2, <5>3 DEF ConclusiveAt, IsConclusive, IsFinished
        <5> QED BY <2>5, <4>1, <5>1, <5>2, <5>3
      <4> QED BY <3>2, <3>3, <4>2 DEF ConclusiveAt
    <3>4. CASE j # k
      <4>1. (IsConclusive(j)' <=> IsConclusive(j)) /\ (IsFinished(j)' <=> IsFinished(j))
        BY <2>3, <2>4, <3>2, <3>4 DEF IsConclusive, IsFinished, IsLate
      <4>2. IsLatest(j) => contact'[att[j].contact].status = contact[att[j].contact].status
        <5>1. CASE att[j].contact # att[k].contact
          BY <2>5, <3>2, <5>1
        <5>2. CASE att[j].contact = att[k].contact /\ IsLatest(j)
          <6>1. ~IsLatest(k)
            BY <1>c, <2>1, <3>2, <3>4, <5>2 DEF IsLatest, AttemptsOf, Written
          <6> QED BY <2>5, <5>2, <6>1
        <5> QED BY <5>1, <5>2
      <4> QED BY <3>2, <4>1, <4>2 DEF ConclusiveAt
    <3> QED BY <3>3, <3>4
  <2>13. NotCalledAgain'
    BY <1>i, <1>t, <1>c, <1>r, <1>n, <2>1, <2>2, <2>3, <2>4, <2>5, <2>6, <2>7, <2>8, <2>9
    DEF NotCalledAgain, Written, AttemptsOf, IsLate
  <2> QED BY <2>10, <2>11, <2>12, <2>13 DEF HistoryInv
<1>8. ASSUME NEW k \in Calls, Places(k) PROVE HistoryInv'
  <2>1. /\ k = nAtt /\ att[k].state = "DIALING" /\ NumberOf[att[k].contact] \notin dnc
        /\ UNCHANGED <<contact, att, nAtt, dnc, writes>>
    BY <1>8 DEF Places, IsDialing, NumberOfCall
  <2>2. \A j \in Calls : j # k => call'[j] = call[j]
    BY <1>t, <1>8 DEF Places
  <2>3. \A j \in Calls : att[j].state # "NONE" /\ att[j].contact = att[k].contact /\ j < k =>
           /\ ~IsOpen(j)
           /\ ~IsConclusive(j)
    BY <1>i, <1>c, <2>1
      DEF OpenInv, OpenAt, IsListed, ConclusiveInv, ConclusiveAt, IsLatest, AttemptsOf, Written
  <2>4. \A j \in Calls : att[j].state # "NONE" => j <= k
    BY <1>r, <2>1
  <2>5. OpenInv'
    BY <1>i, <1>t, <1>c, <1>r, <1>n, <2>1, <2>2, <2>3, <2>4
    DEF OpenInv, OpenAt, IsOpen, IsDialing, IsLatest, IsListed, Written, AttemptsOf, IsLate
  <2>6. SettledInv'
    BY <1>i, <1>t, <1>c, <1>r, <1>n, <2>1, <2>2, <2>3, <2>4
    DEF SettledInv, IsOpen, IsDialing, Written, AttemptsOf, IsLate
  <2>7. ConclusiveInv'
    BY <1>i, <1>t, <1>c, <1>r, <1>n, <2>1, <2>2, <2>3, <2>4
    DEF ConclusiveInv, ConclusiveAt, IsConclusive, IsLatest, IsListed, IsFinished, Written,
        AttemptsOf, IsLate
  <2>8. NotCalledAgain'
    BY <1>i, <1>t, <1>c, <1>r, <1>n, <2>1, <2>2, <2>3, <2>4
    DEF NotCalledAgain, Written, AttemptsOf, IsConclusive, IsLate
  <2> QED BY <2>5, <2>6, <2>7, <2>8 DEF HistoryInv
<1>9. ASSUME NEW k \in Calls, NEW s \in {"ringing", "talking", "missed", "adrift"}, Progresses(k, s)
      PROVE  HistoryInv'
  <2>1. /\ call[k] # "none" /\ ~IsLate(k) /\ att[k].state = "DIALING" /\ att[k].outcome = NoOutcome
        /\ UNCHANGED <<contact, att, nAtt, dnc, writes>>
    BY <1>9, <1>r DEF Progresses, IsTimely, IsLate
  <2>2. \A j \in Calls : j # k => call'[j] = call[j]
    BY <1>t, <1>9 DEF Progresses
  <2>3. OpenInv'
    BY <1>i, <1>t, <1>c, <1>r, <1>n, <2>1, <2>2
    DEF OpenInv, OpenAt, IsOpen, IsDialing, IsLatest, IsListed, Written, AttemptsOf, IsLate
  <2>4. SettledInv'
    BY <1>i, <1>t, <1>c, <1>r, <1>n, <2>1, <2>2
    DEF SettledInv, IsOpen, IsDialing, Written, AttemptsOf, IsLate
  <2>5. ConclusiveInv'
    BY <1>i, <1>t, <1>c, <1>r, <1>n, <2>1, <2>2
    DEF ConclusiveInv, ConclusiveAt, IsConclusive, IsLatest, IsListed, IsFinished, Written,
        AttemptsOf, IsLate
  <2>6. NotCalledAgain'
    BY <1>i, <1>t, <1>c, <1>r, <1>n, <2>1, <2>2
    DEF NotCalledAgain, Written, AttemptsOf, IsLate
  <2> QED BY <2>3, <2>4, <2>5, <2>6 DEF HistoryInv
<1>10. ASSUME NEW k \in Calls, NEW s \in {"missed", "taken"}, NEW n \in 0..2, HangsUp(k, s, n)
       PROVE  HistoryInv'
  <2>1. /\ att[k].state = "DIALING" /\ call[k] # "none"
        /\ UNCHANGED <<contact, att, nAtt, dnc>>
    BY <1>10, <1>r DEF HangsUp, IsTimely
  <2>2. \A j \in Calls : j # k => call'[j] = call[j] /\ writes'[j] = writes[j]
    BY <1>t, <1>10 DEF HangsUp
  <2>3. /\ NumberOf[att[k].contact] \in dnc \/ IsLatest(k)
        /\ contact[att[k].contact].next # "DUE"
    BY <1>i, <2>1 DEF OpenInv, OpenAt, IsOpen, IsDialing, IsListed, Written, IsLate
  <2>4. \A j \in Calls : IsLatest(j)' <=> IsLatest(j)
    BY <2>1 DEF IsLatest, AttemptsOf, Written
  <2>5. OpenInv'
    BY <1>i, <1>t, <1>c, <1>r, <1>n, <2>1, <2>2, <2>3, <2>4
    DEF OpenInv, OpenAt, IsOpen, IsDialing, IsListed, Written, IsLate
  <2>6. SettledInv'
    BY <1>i, <1>t, <1>c, <1>r, <1>n, <2>1, <2>2, <2>3, <2>4
    DEF SettledInv, IsOpen, IsDialing, Written, IsLate
  <2>7. ConclusiveInv'
    BY <1>i, <1>t, <1>c, <1>r, <1>n, <2>1, <2>2, <2>3, <2>4
    DEF ConclusiveInv, ConclusiveAt, IsConclusive, IsListed, IsFinished, Written, IsLate
  <2>8. NotCalledAgain'
    BY <1>i, <1>t, <1>c, <1>r, <1>n, <2>1, <2>2, <2>3, <2>4
    DEF NotCalledAgain, Written, AttemptsOf, IsConclusive, IsLate
  <2> QED BY <2>5, <2>6, <2>7, <2>8 DEF HistoryInv
<1>11. ASSUME NEW k \in Calls, Loses(k) PROVE HistoryInv'
  <2>1. UNCHANGED <<contact, att, nAtt, dnc, call>>
    BY <1>11 DEF Loses
  <2>2. \A j \in Calls : writes'[j] > 0 => writes[j] > 0
    BY <1>t, <1>11 DEF Loses
  <2>3. OpenInv'
    BY <1>i, <1>t, <1>c, <1>r, <1>n, <2>1, <2>2
    DEF OpenInv, OpenAt, IsOpen, IsDialing, IsLatest, IsListed, Written, AttemptsOf, IsLate
  <2>4. SettledInv'
    BY <1>i, <1>t, <1>c, <1>r, <1>n, <2>1, <2>2
    DEF SettledInv, IsOpen, IsDialing, Written, AttemptsOf, IsLate
  <2>5. ConclusiveInv'
    BY <1>i, <1>t, <1>c, <1>r, <1>n, <2>1, <2>2
    DEF ConclusiveInv, ConclusiveAt, IsConclusive, IsLatest, IsListed, IsFinished, Written,
        AttemptsOf, IsLate
  <2>6. NotCalledAgain'
    BY <1>i, <1>t, <1>c, <1>r, <1>n, <2>1, <2>2
    DEF NotCalledAgain, Written, AttemptsOf, IsLate
  <2> QED BY <2>3, <2>4, <2>5, <2>6 DEF HistoryInv
<1>12. ASSUME NEW k \in Calls, NEW lead \in LeadIntents, Leads(k, lead) PROVE HistoryInv'
  <2>1. UNCHANGED <<contact, nAtt, dnc, call, writes>> /\ att[k].state = "DIALING"
    BY <1>12 DEF Leads, SetLead, IsDialing
  <2>2. /\ \A j \in Calls : j # k => att'[j] = att[j]
        /\ att'[k].state = att[k].state /\ att'[k].contact = att[k].contact
        /\ att'[k].outcome = att[k].outcome
    BY <1>0, <1>12, LeadEffect DEF Leads
  <2>3. IsLatest(k)
    BY <1>i, <2>1 DEF OpenInv, OpenAt, IsDialing, Written
  <2>4. \A j \in Calls : /\ att'[j].contact = att[j].contact /\ att'[j].state = att[j].state
                         /\ IsLatest(j)' <=> IsLatest(j)
    BY <2>1, <2>2 DEF IsLatest, AttemptsOf, Written
  <2>5. \A j \in Calls : att[j].state # "NONE" /\ att[j].contact = att[k].contact => j <= k
    BY <2>3 DEF IsLatest, AttemptsOf, Written
  <2>o. \A j \in Calls : (IsOpen(j)' <=> IsOpen(j)) /\ (IsDialing(j)' <=> IsDialing(j))
    BY <2>1, <2>4 DEF IsOpen, IsDialing, IsLate
  <2>6. OpenInv'
    BY <1>i, <2>1, <2>4, <2>o DEF OpenInv, OpenAt, IsListed, Written
  <2>7. SettledInv'
    BY <1>i, <2>1, <2>4, <2>o DEF SettledInv, Written
  <2>8. ConclusiveInv'
    BY <1>i, <1>t, <1>c, <1>r, <1>n, <2>1, <2>2, <2>3, <2>4, <2>5
    DEF ConclusiveInv, ConclusiveAt, IsConclusive, IsListed, IsFinished, Written, IsLate
  <2>9. NotCalledAgain'
    BY <1>i, <1>t, <1>c, <1>r, <1>n, <2>1, <2>2, <2>3, <2>4, <2>5
    DEF NotCalledAgain, Written, AttemptsOf, IsConclusive, IsLate
  <2> QED BY <2>6, <2>7, <2>8, <2>9 DEF HistoryInv
<1>13. ASSUME Crashes PROVE HistoryInv'
  <2>1. UNCHANGED <<contact, att, nAtt, dnc>>
    BY <1>13 DEF Crashes
  <2>2. \A j \in Calls : /\ writes'[j] = 0 /\ (IsLate(j) => IsLate(j)')
                         /\ call'[j] # "none" => call[j] # "none"
    BY <1>13 DEF Crashes, IsLate
  <2>3. OpenInv'
    BY <1>i, <1>t, <1>c, <1>r, <1>n, <2>1, <2>2
    DEF OpenInv, OpenAt, IsOpen, IsDialing, IsLatest, IsListed, Written, AttemptsOf, IsLate
  <2>4. SettledInv'
    BY <1>i, <1>t, <1>c, <1>r, <1>n, <2>1, <2>2
    DEF SettledInv, IsOpen, IsDialing, Written, AttemptsOf, IsLate
  <2>5. ConclusiveInv'
    BY <1>i, <1>t, <1>c, <1>r, <1>n, <2>1, <2>2
    DEF ConclusiveInv, ConclusiveAt, IsConclusive, IsLatest, IsListed, IsFinished, Written,
        AttemptsOf, IsLate
  <2>6. NotCalledAgain'
    BY <1>i, <1>t, <1>c, <1>r, <1>n, <2>1, <2>2
    DEF NotCalledAgain, Written, AttemptsOf, IsLate
  <2> QED BY <2>3, <2>4, <2>5, <2>6 DEF HistoryInv
<1>14. ASSUME NEW k \in Calls, ComesLate(k) \/ \E n \in 0..2 : EndsLate(k, n) PROVE HistoryInv'
  <2>1. /\ call[k] # "none" /\ IsLate(k) /\ IsLate(k)' /\ UNCHANGED <<contact, att, nAtt, dnc>>
        /\ \A j \in Calls : j # k => call'[j] = call[j] /\ writes'[j] = writes[j]
    BY <1>t, <1>14 DEF ComesLate, EndsLate, IsLate
  <2>2. \A j \in Calls : IsLatest(j)' <=> IsLatest(j)
    BY <2>1 DEF IsLatest, AttemptsOf, Written
  <2>3. \A j \in Calls : /\ IsOpen(j)' <=> IsOpen(j)
                         /\ IsConclusive(j)' <=> IsConclusive(j)
    BY <2>1 DEF IsOpen, IsConclusive, IsDialing, IsLate
  <2>4. OpenInv'
    BY <1>i, <2>1, <2>2, <2>3 DEF OpenInv, OpenAt, IsDialing, IsListed, Written
  <2>5. SettledInv'
    BY <1>i, <2>1, <2>3 DEF SettledInv, Written
  <2>6. ConclusiveInv'
    BY <1>i, <2>1, <2>2, <2>3 DEF ConclusiveInv, ConclusiveAt, IsListed, IsFinished, Written
  <2>7. NotCalledAgain'
    BY <1>i, <2>1 DEF NotCalledAgain, Written, AttemptsOf, IsLate
  <2> QED BY <2>4, <2>5, <2>6, <2>7 DEF HistoryInv
<1> QED BY <1>1, <1>2, <1>3, <1>4, <1>5, <1>6, <1>7, <1>8, <1>9, <1>10, <1>11, <1>12, <1>13, <1>14
        DEF Moves

-----------------------------------------------------------------------------
(***************************************************************************)
(* What a contact has been charged.                                        *)
(***************************************************************************)
\* Adding a call to a set of calls, or taking one out, moves its size by one.
LEMMA OneCall ==
    ASSUME NEW S \in SUBSET Calls, NEW k \in Calls
    PROVE  /\ Cardinality(S) \in Nat
           /\ k \notin S => Cardinality(S \cup {k}) = Cardinality(S) + 1
           /\ k \in S => /\ Cardinality(S \ {k}) = Cardinality(S) - 1
                         /\ Cardinality(S) > 0
<1>0. IsFiniteSet(Calls)
  BY StoreAssumption, FS_Interval DEF StoreAssumption, Calls
<1>1. IsFiniteSet(S)
  BY <1>0, FS_Subset
<1>2. Cardinality(S) \in Nat
  BY <1>1, FS_CardinalityType
<1>3. ASSUME k \notin S PROVE Cardinality(S \cup {k}) = Cardinality(S) + 1
  BY <1>1, <1>3, FS_AddElement
<1>4. ASSUME k \in S PROVE /\ Cardinality(S \ {k}) = Cardinality(S) - 1
                           /\ Cardinality(S) > 0
  <2>1. Cardinality(S \ {k}) = Cardinality(S) - 1
    BY <1>1, <1>4, FS_RemoveElement
  <2>2. IsFiniteSet(S \ {k})
    BY <1>1, FS_Subset
  <2>3. Cardinality(S \ {k}) \in Nat
    BY <2>2, FS_CardinalityType
  <2> QED BY <1>2, <2>1, <2>3
<1> QED BY <1>2, <1>3, <1>4

\* The attempts that spent a contact's budget of the class.
Charged(x, class) ==
    {k \in Calls : /\ att[k].state # "NONE" /\ att[k].contact = x
                   /\ att[k].state = "FINISHED" /\ ClassOf(att[k].outcome) = class}

ChargedOnce(x) ==
    /\ contact[x].counters.attempts = Cardinality(Charged(x, "REACHED"))
    /\ contact[x].counters.systemFailures = Cardinality(Charged(x, "SYSTEM"))

\* CountedOnce, contact by contact.
LEMMA CountedIs ==
    CountedOnce <=> \A x \in Contacts : ChargedOnce(x)
<1>1. \A x \in Contacts, class \in {"REACHED", "SYSTEM"} :
         {k \in AttemptsOf(x) : IsFinished(k) /\ ClassOf(att[k].outcome) = class}
            = Charged(x, class)
  BY DEF AttemptsOf, Written, IsFinished, Charged
<1> QED BY <1>1 DEF CountedOnce, ChargedOnce

\* The counters ContactAfter leaves are what was spent before, less the old cost
\* of the attempt, and the new one.
LEMMA AfterCounts ==
    ASSUME StoreTypeOK, NEW k \in Calls, att[k].contact \in Contacts, NEW o
    PROVE  ContactAfter(k, o).counters =
              Add(IF IsFinished(k) THEN Remove(contact[att[k].contact].counters, att[k].outcome)
                                   ELSE contact[att[k].contact].counters, o)
<1> DEFINE x == att[k].contact
           back == IF IsFinished(k) THEN Remove(contact[x].counters, att[k].outcome)
                                    ELSE contact[x].counters
           cnt == Add(back, o)
           st == IF contact[x].status = "DNC" THEN "DNC"
                 ELSE Settle(Policy, cnt, o, att[k].lead)
<1>1. contact[x] \in ContactRows
  BY StoreTypes
<1> HIDE DEF st, cnt, back
<1>2. ContactAfter(k, o) =
          IF IsLatest(k)
          THEN [status |-> st, next |-> IF st = "ACTIVE" THEN "LATER" ELSE "NULL", counters |-> cnt]
          ELSE [contact[x] EXCEPT !.counters = cnt]
  BY DEF ContactAfter, st, cnt, back
<1>3. [contact[x] EXCEPT !.counters = cnt].counters = cnt
  BY <1>1 DEF ContactRows
<1>4. ContactAfter(k, o).counters = cnt
  BY <1>2, <1>3
<1> QED BY <1>4 DEF cnt, back

\* A charge moves one counter by one.
LEMMA Charges ==
    ASSUME NEW c \in Counters, NEW o
    PROVE  /\ Add(c, o).attempts = IF ClassOf(o) = "REACHED" THEN c.attempts + 1 ELSE c.attempts
           /\ Add(c, o).systemFailures =
                 IF ClassOf(o) = "SYSTEM" THEN c.systemFailures + 1 ELSE c.systemFailures
           /\ Remove(c, o).attempts =
                 IF ClassOf(o) = "REACHED" THEN AtLeastZero(c.attempts - 1) ELSE c.attempts
           /\ Remove(c, o).systemFailures =
                 IF ClassOf(o) = "SYSTEM" THEN AtLeastZero(c.systemFailures - 1)
                 ELSE c.systemFailures
<1>1. c.attempts \in Nat /\ c.systemFailures \in Nat
  BY DEF Counters
<1>2. \A n : /\ [c EXCEPT !.attempts = n].attempts = n
             /\ [c EXCEPT !.attempts = n].systemFailures = c.systemFailures
             /\ [c EXCEPT !.systemFailures = n].systemFailures = n
             /\ [c EXCEPT !.systemFailures = n].attempts = c.attempts
  BY DEF Counters
<1>3. CASE ClassOf(o) = "REACHED"
  <2>1. /\ Add(c, o) = [c EXCEPT !.attempts = c.attempts + 1]
        /\ Remove(c, o) = [c EXCEPT !.attempts = AtLeastZero(c.attempts - 1)]
    BY <1>3 DEF Add, Remove
  <2> QED BY <1>2, <1>3, <2>1
<1>4. CASE ClassOf(o) = "SYSTEM"
  <2>1. /\ Add(c, o) = [c EXCEPT !.systemFailures = c.systemFailures + 1]
        /\ Remove(c, o) = [c EXCEPT !.systemFailures = AtLeastZero(c.systemFailures - 1)]
    BY <1>4 DEF Add, Remove
  <2> QED BY <1>2, <1>4, <2>1
<1>5. CASE ClassOf(o) \notin {"REACHED", "SYSTEM"}
  <2>1. Add(c, o) = c /\ Remove(c, o) = c
    BY <1>5 DEF Add, Remove
  <2> QED BY <1>5, <2>1
<1> QED BY <1>3, <1>4, <1>5

\* An attempt that ends is charged once to its contact, and its old cost is
\* handed back.
LEMMA CountedApply ==
    ASSUME StoreTypeOK, CountedOnce, NEW k \in Calls, att[k].contact \in Contacts,
           att[k].state # "NONE", NEW o \in Outcomes, NEW isMore \in BOOLEAN, Apply(k, o, isMore)
    PROVE  \A y \in Contacts : ChargedOnce(y)'
<1> DEFINE x == att[k].contact
<1>1. /\ \A j \in Calls : att'[j].contact = att[j].contact
      /\ \A j \in Calls : j # k => att'[j] = att[j]
      /\ att'[k].state = "FINISHED" /\ att'[k].outcome = o
      /\ \A y \in Contacts : y # x => contact'[y] = contact[y]
      /\ \/ contact'[x] = ContactAfter(k, o)
         \/ contact' = contact /\ att' = att
  BY ApplyEffect
<1>2. \A y \in Contacts : ChargedOnce(y)
  BY CountedIs
<1>3. ASSUME NEW y \in Contacts, y # x PROVE ChargedOnce(y)'
  <2>1. Charged(y, "REACHED")' = Charged(y, "REACHED") /\ Charged(y, "SYSTEM")' = Charged(y, "SYSTEM")
    BY <1>1, <1>3 DEF Charged
  <2> QED BY <1>1, <1>2, <1>3, <2>1 DEF ChargedOnce
<1>4. CASE contact' = contact /\ att' = att
  BY <1>2, <1>4 DEF ChargedOnce, Charged
<1>5. CASE contact'[x] = ContactAfter(k, o)
  <2> DEFINE cn == contact[x].counters
             back == IF IsFinished(k) THEN Remove(cn, att[k].outcome) ELSE cn
             R == Charged(x, "REACHED")
             S == Charged(x, "SYSTEM")
  <2>1. cn \in Counters
    BY StoreTypes DEF ContactRows
  <2>2. back \in Counters
    BY <2>1, Spending
  <2>3. /\ cn.attempts = Cardinality(R) /\ cn.systemFailures = Cardinality(S)
        /\ R \in SUBSET Calls /\ S \in SUBSET Calls
    BY <1>2 DEF ChargedOnce, Charged
  <2>4. /\ k \in R <=> IsFinished(k) /\ ClassOf(att[k].outcome) = "REACHED"
        /\ k \in S <=> IsFinished(k) /\ ClassOf(att[k].outcome) = "SYSTEM"
    BY DEF Charged, IsFinished
  <2>5. /\ Charged(x, "REACHED")' = IF ClassOf(o) = "REACHED" THEN (R \ {k}) \cup {k} ELSE R \ {k}
        /\ Charged(x, "SYSTEM")' = IF ClassOf(o) = "SYSTEM" THEN (S \ {k}) \cup {k} ELSE S \ {k}
    BY <1>1 DEF Charged
  <2>6. contact'[x].counters = Add(back, o)
    BY <1>5, AfterCounts
  <2> HIDE DEF R, S, cn
  <2>7. back.attempts = Cardinality(R \ {k}) /\ back.systemFailures = Cardinality(S \ {k})
    <3>1. CASE ~IsFinished(k)
      <4>1. R \ {k} = R /\ S \ {k} = S
        BY <2>4, <3>1
      <4> QED BY <2>3, <3>1, <4>1
    <3>2. CASE IsFinished(k)
      <4>1. back = Remove(cn, att[k].outcome)
        BY <3>2
      <4>2. /\ k \in R => Cardinality(R \ {k}) = Cardinality(R) - 1 /\ Cardinality(R) > 0
            /\ k \in S => Cardinality(S \ {k}) = Cardinality(S) - 1 /\ Cardinality(S) > 0
            /\ Cardinality(R) \in Nat /\ Cardinality(S) \in Nat
        BY <2>3, OneCall
      <4>3. (k \notin R => R \ {k} = R) /\ (k \notin S => S \ {k} = S)
        OBVIOUS
      <4> HIDE DEF back
      <4>4. /\ back.attempts = IF k \in R THEN AtLeastZero(Cardinality(R) - 1) ELSE Cardinality(R)
            /\ back.systemFailures =
                  IF k \in S THEN AtLeastZero(Cardinality(S) - 1) ELSE Cardinality(S)
        BY <2>1, <2>3, <2>4, <3>2, <4>1, Charges
      <4>5. \A n \in Nat : n > 0 => AtLeastZero(n - 1) = n - 1
        BY DEF AtLeastZero
      <4>6. back.attempts = Cardinality(R \ {k})
        BY <4>2, <4>3, <4>4, <4>5
      <4>7. back.systemFailures = Cardinality(S \ {k})
        BY <4>2, <4>3, <4>4, <4>5
      <4> QED BY <4>6, <4>7
    <3> QED BY <3>1, <3>2
  <2> HIDE DEF back
  <2>8. /\ Cardinality((R \ {k}) \cup {k}) = Cardinality(R \ {k}) + 1
        /\ Cardinality((S \ {k}) \cup {k}) = Cardinality(S \ {k}) + 1
    <3>1. R \ {k} \in SUBSET Calls /\ S \ {k} \in SUBSET Calls
      BY <2>3
    <3> QED BY <3>1, OneCall
  <2>9. /\ Add(back, o).attempts = Cardinality(Charged(x, "REACHED")')
        /\ Add(back, o).systemFailures = Cardinality(Charged(x, "SYSTEM")')
    BY <2>2, <2>5, <2>7, <2>8, Charges
  <2>10. ChargedOnce(x)'
    BY <1>1, <2>6, <2>9 DEF ChargedOnce
  <2> QED BY <1>1, <1>3, <2>10
<1> QED BY <1>1, <1>4, <1>5

\* A call is counted once, however many revisions it goes through.
LEMMA CountedStep ==
    ASSUME WorldTypes, BasicInv, CountedOnce, Moves
    PROVE  \A y \in Contacts : ChargedOnce(y)'
<1>0. StoreTypeOK
  BY DEF WorldTypes
<1>c. \A y \in Contacts : ChargedOnce(y)
  BY CountedIs
<1>s. ASSUME \A j \in Calls : \/ att'[j].state = att[j].state /\ att'[j].contact = att[j].contact
                                 /\ att'[j].outcome = att[j].outcome
                              \/ att'[j].state # "FINISHED" /\ att[j].state # "FINISHED",
             \A y \in Contacts : contact'[y].counters = contact[y].counters
      PROVE  \A y \in Contacts : ChargedOnce(y)'
  <2>1. \A y \in Contacts, class \in {"REACHED", "SYSTEM"} :
           Charged(y, class)' = Charged(y, class)
    BY <1>s DEF Charged
  <2> QED BY <1>c, <1>s, <2>1 DEF ChargedOnce
<1>1. CASE Quiet
  BY <1>s, <1>1 DEF Quiet, ContactMoves
<1>2. ASSUME UNCHANGED <<att, contact>> PROVE \A y \in Contacts : ChargedOnce(y)'
  BY <1>s, <1>2
<1>3. ASSUME NEW x \in Contacts, Begins(x) PROVE \A y \in Contacts : ChargedOnce(y)'
  <2>1. /\ att'[nAtt + 1].state = "DIALING" /\ nAtt + 1 \in Calls
        /\ \A j \in Calls : j # nAtt + 1 => att'[j] = att[j]
        /\ \A y \in Contacts : y # x => contact'[y] = contact[y]
        /\ contact'[x].counters = contact[x].counters
    BY <1>0, <1>3, BeginEffect DEF Begins
  <2>2. att[nAtt + 1].state = "NONE"
    BY <2>1, <1>0, StoreAssumption DEF BasicInv, RowsInv, StoreTypeOK, StoreAssumption
  <2> QED BY <1>s, <2>1, <2>2
<1>4. ASSUME NEW k \in Calls, Voids(k) PROVE \A y \in Contacts : ChargedOnce(y)'
  <2>1. att[k].contact \in Contacts
    BY <1>4, Tracked DEF Voids, Void
  <2>2. /\ IsDialing(k) /\ att'[k] = NoAttempt
        /\ \A j \in Calls : j # k => att'[j] = att[j]
        /\ \A y \in Contacts : contact'[y].counters = contact[y].counters
    BY <1>0, <1>4, <2>1, VoidEffect DEF Voids
  <2>3. att[k].state # "FINISHED" /\ att'[k].state # "FINISHED"
    BY <2>2 DEF IsDialing, NoAttempt
  <2> QED BY <1>s, <2>2, <2>3
<1>5. ASSUME NEW k \in Calls, NEW o \in Outcomes, NEW isMore \in BOOLEAN, Apply(k, o, isMore),
             IsDialing(k) \/ IsTimely(k) \/ writes[k] > 0
      PROVE  \A y \in Contacts : ChargedOnce(y)'
  <2>1. att[k].contact \in Contacts /\ att[k].state # "NONE"
    BY <1>5, Tracked DEF Written
  <2> QED BY <1>0, <1>5, <2>1, CountedApply
<1>6. ASSUME NEW k \in Calls, NEW o \in Outcomes,
             \/ Finishes(k, o)
             \/ \E s \in {"missed", "adrift"} : Fails(k, o, s)
             \/ \E isMore \in BOOLEAN : Records(k, o, isMore)
      PROVE  \A y \in Contacts : ChargedOnce(y)'
  BY <1>5, <1>6 DEF Finishes, Fails, Records, InsertCDR, IsTimely
<1>7. ASSUME NEW k \in Calls, NEW lead \in LeadIntents, Leads(k, lead)
      PROVE  \A y \in Contacts : ChargedOnce(y)'
  <2>1. /\ \A j \in Calls : j # k => att'[j] = att[j]
        /\ att'[k].state = att[k].state /\ att'[k].contact = att[k].contact
        /\ att'[k].outcome = att[k].outcome
    BY <1>0, <1>7, LeadEffect DEF Leads
  <2>2. contact' = contact
    BY <1>7 DEF Leads, SetLead
  <2> QED BY <1>s, <2>1, <2>2
<1> QED BY <1>1, <1>2, <1>3, <1>4, <1>6, <1>7
        DEF Moves, Lists, Places, Progresses, HangsUp, ComesLate, EndsLate, Loses, Crashes

\* A contact on the do-not-call list stays there: ContactAfter looks before it
\* settles, and nothing else takes a contact off it.
LEMMA DNCStep ==
    ASSUME WorldTypes, BasicInv, Moves
    PROVE  \A y \in Contacts : contact[y].status = "DNC" => contact'[y].status = "DNC"
<1> DEFINE G == \A y \in Contacts : contact[y].status = "DNC" => contact'[y].status = "DNC"
<1>0. StoreTypeOK
  BY DEF WorldTypes
<1>1. CASE Quiet
  BY <1>1 DEF Quiet, ContactMoves
<1>2. ASSUME UNCHANGED contact PROVE G
  BY <1>2
<1>3. ASSUME NEW x \in Contacts, Begins(x) PROVE G
  BY <1>0, <1>3, BeginEffect DEF Begins
<1>4. ASSUME NEW k \in Calls, Voids(k) PROVE G
  <2>1. att[k].contact \in Contacts
    BY <1>4, Tracked DEF Voids, Void
  <2> QED BY <1>0, <1>4, <2>1, VoidEffect DEF Voids
<1>5. ASSUME NEW k \in Calls, NEW o \in Outcomes, NEW isMore \in BOOLEAN, Apply(k, o, isMore),
             IsDialing(k) \/ IsTimely(k) \/ writes[k] > 0
      PROVE  G
  <2>1. att[k].contact \in Contacts
    BY <1>5, Tracked
  <2>2. /\ \A y \in Contacts : y # att[k].contact => contact'[y] = contact[y]
        /\ contact'[att[k].contact] = ContactAfter(k, o) \/ contact' = contact
    BY <1>0, <1>5, <2>1, ApplyEffect
  <2>3. contact[att[k].contact].status = "DNC" => ContactAfter(k, o).status = "DNC"
    BY <1>0, <2>1, AfterIs
  <2> QED BY <2>1, <2>2, <2>3
<1>6. ASSUME NEW k \in Calls, NEW o \in Outcomes,
             \/ Finishes(k, o)
             \/ \E s \in {"missed", "adrift"} : Fails(k, o, s)
             \/ \E isMore \in BOOLEAN : Records(k, o, isMore)
      PROVE  G
  BY <1>5, <1>6 DEF Finishes, Fails, Records, InsertCDR, IsTimely
<1>7. ASSUME NEW k \in Calls, NEW lead \in LeadIntents, Leads(k, lead)
      PROVE  G
  BY <1>7 DEF Leads, SetLead
<1> QED BY <1>1, <1>2, <1>3, <1>4, <1>6, <1>7
        DEF Moves, Lists, Places, Progresses, HangsUp, ComesLate, EndsLate, Loses, Crashes

-----------------------------------------------------------------------------
(***************************************************************************)
(* The actor's lists.                                                      *)
(***************************************************************************)
\* How the rows flow: finished attempts stay finished; attempts come and go only
\* at the end, one at a time, and the others keep their contact.
LEMMA Flow ==
    ASSUME WorldTypes, BasicInv, Moves
    PROVE  /\ \A k \in Calls : IsFinished(k) => IsFinished(k)'
           /\ nAtt' = nAtt => /\ Written' = Written
                              /\ \A k \in Calls : /\ att'[k].contact = att[k].contact
                                                  /\ IsDialing(k)' => IsDialing(k)
           /\ nAtt' = nAtt + 1 => /\ nAtt + 1 \in Calls /\ nAtt + 1 \notin Written
                                  /\ Written' = Written \cup {nAtt + 1}
                                  /\ \A k \in Calls : k # nAtt + 1 => att'[k] = att[k]
           /\ nAtt' = nAtt - 1 => /\ Written' = Written \ {nAtt}
                                  /\ \A k \in Calls : k # nAtt => att'[k] = att[k]
<1> DEFINE G == /\ \A k \in Calls : IsFinished(k) => IsFinished(k)'
                /\ nAtt' = nAtt => /\ Written' = Written
                                   /\ \A k \in Calls : /\ att'[k].contact = att[k].contact
                                                       /\ IsDialing(k)' => IsDialing(k)
                /\ nAtt' = nAtt + 1 => /\ nAtt + 1 \in Calls /\ nAtt + 1 \notin Written
                                       /\ Written' = Written \cup {nAtt + 1}
                                       /\ \A k \in Calls : k # nAtt + 1 => att'[k] = att[k]
                /\ nAtt' = nAtt - 1 => /\ Written' = Written \ {nAtt}
                                       /\ \A k \in Calls : k # nAtt => att'[k] = att[k]
<1>0. StoreTypeOK
  BY DEF WorldTypes
<1>n. nAtt \in Nat /\ nAtt \in 0..MaxCalls /\ MaxCalls \in Nat
  BY <1>0, StoreAssumption DEF StoreTypeOK, StoreAssumption
<1>1. ASSUME nAtt' = nAtt, \A k \in Calls : /\ att'[k].contact = att[k].contact
                                            /\ att'[k].state = att[k].state
      PROVE  G
  <2>1. Written' = Written
    BY <1>1 DEF Written
  <2> QED BY <1>1, <1>n, <2>1 DEF IsDialing, IsFinished
<1>2. ASSUME UNCHANGED <<att, nAtt>> PROVE G
  BY <1>1, <1>2
<1>3. ASSUME NEW x \in Contacts, Begins(x) PROVE G
  <2>1. /\ nAtt + 1 \in Calls /\ nAtt' = nAtt + 1 /\ att'[nAtt + 1].state = "DIALING"
        /\ \A j \in Calls : j # nAtt + 1 => att'[j] = att[j]
    BY <1>0, <1>3, BeginEffect DEF Begins
  <2>2. att[nAtt + 1].state = "NONE"
    BY <2>1, <1>n DEF BasicInv, RowsInv
  <2>3. Written' = Written \cup {nAtt + 1} /\ nAtt + 1 \notin Written
    BY <2>1, <2>2 DEF Written
  <2>4. \A k \in Calls : IsFinished(k) => IsFinished(k)'
    BY <2>1, <2>2 DEF IsFinished
  <2> QED BY <1>n, <2>1, <2>3, <2>4
<1>4. ASSUME NEW k \in Calls, Voids(k) PROVE G
  <2>1. att[k].contact \in Contacts
    BY <1>4, Tracked DEF Voids, Void
  <2>2. /\ k = nAtt /\ nAtt' = nAtt - 1 /\ IsDialing(k) /\ att'[k] = NoAttempt
        /\ \A j \in Calls : j # k => att'[j] = att[j]
    BY <1>0, <1>4, <2>1, VoidEffect DEF Voids
  <2>3. Written' = Written \ {nAtt}
    BY <2>2 DEF Written, NoAttempt
  <2>4. \A j \in Calls : IsFinished(j) => IsFinished(j)'
    BY <2>2 DEF IsFinished, IsDialing
  <2> QED BY <1>n, <2>2, <2>3, <2>4
<1>5. ASSUME NEW k \in Calls, NEW o \in Outcomes, NEW isMore \in BOOLEAN, Apply(k, o, isMore),
             IsDialing(k) \/ IsTimely(k) \/ writes[k] > 0
      PROVE  G
  <2>1. att[k].contact \in Contacts /\ att[k].state # "NONE"
    BY <1>5, Tracked DEF Written
  <2>2. /\ nAtt' = nAtt
        /\ \A j \in Calls : att'[j].contact = att[j].contact
        /\ \A j \in Calls : j # k => att'[j] = att[j]
        /\ att'[k].state = "FINISHED"
    BY <1>0, <1>5, <2>1, ApplyEffect
  <2>3. Written' = Written
    BY <2>1, <2>2 DEF Written
  <2>4. \A j \in Calls : (IsFinished(j) => IsFinished(j)') /\ (IsDialing(j)' => IsDialing(j))
    BY <2>2 DEF IsFinished, IsDialing
  <2> QED BY <1>n, <2>2, <2>3, <2>4
<1>6. ASSUME NEW k \in Calls, NEW o \in Outcomes,
             \/ Finishes(k, o)
             \/ \E s \in {"missed", "adrift"} : Fails(k, o, s)
             \/ \E isMore \in BOOLEAN : Records(k, o, isMore)
      PROVE  G
  <2> HIDE DEF G
  <2> QED BY <1>5, <1>6 DEF Finishes, Fails, Records, InsertCDR, IsTimely
<1>7. ASSUME NEW k \in Calls, NEW lead \in LeadIntents, Leads(k, lead)
      PROVE  G
  <2>1. /\ \A j \in Calls : j # k => att'[j] = att[j]
        /\ att'[k].state = att[k].state /\ att'[k].contact = att[k].contact
        /\ nAtt' = nAtt
    BY <1>0, <1>7, LeadEffect DEF Leads
  <2> QED BY <1>1, <2>1
<1> HIDE DEF G
<1> QED BY <1>2, <1>3, <1>4, <1>6, <1>7
        DEF Moves, Quiet, Lists, Places, Progresses, HangsUp, ComesLate, EndsLate, Loses, Crashes, G

\* An announcement is a message about the attempt that ended.
LEMMA Announces ==
    ASSUME NEW k \in Calls, NEW o \in Outcomes, NEW isMore
    PROVE  \A m \in Announced(k, o, isMore) : m \in Messages /\ m.call = k /\ m.type = "finished"
<1>1. PICK b \in BOOLEAN : b = IsFinished(k)
  BY DEF IsFinished
<1> DEFINE r == [type |-> "finished", call |-> k, outcome |-> o, isRevision |-> b]
<1>2. r \in Messages /\ r.call = k /\ r.type = "finished"
  BY DEF Messages
<1>3. Announced(k, o, isMore) \subseteq {r}
  BY <1>1 DEF Announced
<1> QED BY <1>2, <1>3

\* Finish leaves its attempt no longer in flight, and announces only what it did.
LEMMA FinishEnds ==
    ASSUME StoreTypeOK, NEW k \in Calls, att[k].contact \in Contacts,
           NEW o \in Outcomes, Finish(k, o)
    PROVE  /\ ~IsDialing(k)' /\ nAtt' = nAtt
           /\ \A j \in Calls : j # k => att'[j] = att[j]
           /\ \A m \in AnnouncedByFinish(k, o) : m \in Messages /\ m.call = k /\ IsFinished(k)'
<1>1. CASE IsDialing(k)
  <2>1. Apply(k, o, FALSE)
    BY <1>1 DEF Finish
  <2>2. nAtt' = nAtt /\ att'[k].state = "FINISHED" /\ \A j \in Calls : j # k => att'[j] = att[j]
    BY <2>1, ApplyEffect
  <2>3. \A m \in Announced(k, o, FALSE) : m \in Messages /\ m.call = k
    BY Announces
  <2> QED BY <2>2, <2>3 DEF AnnouncedByFinish, IsDialing, IsFinished
<1>2. CASE ~IsDialing(k)
  BY <1>2 DEF Finish, AnnouncedByFinish, IsDialing
<1> QED BY <1>1, <1>2

\* A CDR announces only what it finished.
LEMMA CDRAnnounces ==
    ASSUME StoreTypeOK, NEW k \in Calls, att[k].contact \in Contacts,
           NEW o \in Outcomes, NEW isMore \in BOOLEAN, InsertCDR(k, o, isMore)
    PROVE  \A m \in Announced(k, o, isMore) : m \in Messages /\ m.call = k /\ IsFinished(k)'
<1>1. att'[k].state = "FINISHED"
  BY CDREffect, ApplyEffect
<1>2. \A m \in Announced(k, o, isMore) : m \in Messages /\ m.call = k
  BY Announces
<1> QED BY <1>1, <1>2 DEF IsFinished

\* What the steps outside the actor, the commands and the messages that touch no
\* flight mean to it: its lists and the number of attempts stay, an attempt not
\* yet placed stays in flight, nothing becomes live, and what is posted is true.
Outside ==
    /\ UNCHANGED <<pc, cur, todo, flights, nAtt>>
    /\ \A j \in Calls : call[j] = "none" => call'[j] = "none" /\ (IsDialing(j) => IsDialing(j)')
    /\ \A j \in Calls : IsTimely(j)' => IsTimely(j)
    /\ \A m \in inbox' : m \in inbox \/ (m \in Messages /\ (m.type = "finished" => IsFinished(m.call)'))
    /\ spent'.errors = 0 => spent.errors = 0

\* The commands of the operators, the import, the clock and the messages that
\* touch no flight are such steps.
LEMMA OutsideCommands ==
    ASSUME TypeOK, SpentOK,
           \/ \E c \in Campaigns : \/ StartCampaign(c) \/ PauseCampaign(c)
                                   \/ ResumeCampaign(c) \/ CancelCampaign(c)
           \/ \E x \in Contacts : ImportContact(x) \/ ComesDue(x)
           \/ \E n \in Numbers : ListNumber(n)
           \/ \E m \in inbox : HandleAnswered(m) \/ HandleListed(m)
           \/ \E k \in Calls : TouchAges(k)
    PROVE  Outside
<1>1. ASSUME UNCHANGED <<pc, cur, todo, flights, nAtt, att, call, spent>>,
             \A m \in inbox' : m \in inbox \/ m = [type |-> "dnc"]
      PROVE  Outside
  <2>1. \A m : m = [type |-> "dnc"] => m \in Messages /\ m.type # "finished"
    BY DEF Messages
  <2> QED BY <1>1, <2>1 DEF Outside, IsDialing, IsTimely
<1>2. ASSUME NEW c \in Campaigns, \/ StartCampaign(c) \/ PauseCampaign(c)
                                  \/ ResumeCampaign(c) \/ CancelCampaign(c)
      PROVE  Outside
  <2>1. UNCHANGED <<pc, cur, todo, flights, nAtt, att, call, spent, inbox>>
    BY <1>2 DEF StartCampaign, PauseCampaign, ResumeCampaign, CancelCampaign, Start, Move, actor
  <2> QED BY <1>1, <2>1
<1>3. ASSUME NEW x \in Contacts, ImportContact(x) \/ ComesDue(x) PROVE Outside
  <2>1. UNCHANGED <<pc, cur, todo, flights, nAtt, att, call, spent, inbox>>
    BY <1>3 DEF ImportContact, ComesDue, Import, actor
  <2> QED BY <1>1, <2>1
<1>4. ASSUME NEW n \in Numbers, ListNumber(n) PROVE Outside
  BY <1>1, <1>4 DEF ListNumber
<1>5. ASSUME NEW m \in inbox, HandleAnswered(m) \/ HandleListed(m) PROVE Outside
  <2>1. UNCHANGED <<pc, cur, todo, flights, nAtt, att, call, spent>> /\ inbox' = inbox \ {m}
    BY <1>5 DEF HandleAnswered, HandleListed, tables
  <2> QED BY <1>1, <2>1
<1>6. ASSUME NEW k \in Calls, TouchAges(k) PROVE Outside
  <2>1. UNCHANGED <<pc, cur, todo, flights, nAtt, att, call, spent, inbox>>
    BY <1>6 DEF TouchAges, actor
  <2> QED BY <1>1, <2>1
<1> QED BY <1>2, <1>3, <1>4, <1>5, <1>6

\* A failed store call shows in the count of errors.
LEMMA ErrorsShow ==
    ASSUME SpentOK, StoreFails
    PROVE  spent'.errors # 0 /\ SpentOK'
BY DEF SpentOK, StoreFails

\* So are the steps of the switch and of the writers of its records.
LEMMA OutsideCalls ==
    ASSUME TypeOK, SpentOK, BasicInv, NEW k \in Calls, CallStep(k)
    PROVE  Outside
<1>0. StoreTypeOK /\ WorldTypes
  BY DEF TypeOK, WorldTypes
<1>t. call \in [Calls -> CallStates]
  BY DEF TypeOK
<1>1. ASSUME UNCHANGED <<pc, cur, todo, flights, nAtt, att>>, call[k] # "none",
             \/ UNCHANGED call
             \/ \E s : /\ s \notin {"placing", "none"} /\ call' = [call EXCEPT ![k] = s]
                       /\ IsTimely(k) \/ s \in {"late", "over"},
             \A m \in inbox' : m \in inbox \/ m = [type |-> "answered", call |-> k],
             spent'.errors = 0 => spent.errors = 0
      PROVE  Outside
  <2>1. \A m : m = [type |-> "answered", call |-> k] => m \in Messages /\ m.type # "finished"
    BY DEF Messages
  <2>2. \A j \in Calls : (call[j] = "none" => call'[j] = "none") /\ (IsTimely(j)' => IsTimely(j))
    BY <1>1, <1>t DEF IsTimely
  <2>3. \A j \in Calls : IsDialing(j) => IsDialing(j)'
    BY <1>1 DEF IsDialing
  <2> QED BY <1>1, <2>1, <2>2, <2>3 DEF Outside
<1>2. CASE ChannelUp(k)
  <2>1. /\ UNCHANGED <<pc, cur, todo, flights, nAtt, att, inbox, spent>> /\ call[k] # "none"
        /\ \/ call[k] = "placing" /\ call' = [call EXCEPT ![k] = "ringing"]
           \/ call' = [call EXCEPT ![k] = "late"]
    BY <1>2 DEF ChannelUp, actor, tables
  <2> QED BY <1>1, <2>1 DEF IsTimely
<1>3. CASE Answer(k)
  <2>1. /\ UNCHANGED <<pc, cur, todo, flights, nAtt, att, spent>> /\ call[k] # "none"
        /\ \/ call[k] = "ringing" /\ call' = [call EXCEPT ![k] = "talking"]
           \/ call' = [call EXCEPT ![k] = "late"]
    BY <1>3 DEF Answer, actorButInbox, tables
  <2>2. \A m \in inbox' : m \in inbox \/ m = [type |-> "answered", call |-> k]
    BY <1>3 DEF Answer, Post
  <2> QED BY <1>1, <2>1, <2>2 DEF IsTimely
<1>4. CASE Hangup(k)
  <2>1. /\ UNCHANGED <<pc, cur, todo, flights, nAtt, att, inbox, spent>> /\ call[k] # "none"
        /\ \/ call[k] = "ringing" /\ call' = [call EXCEPT ![k] = "missed"]
           \/ call[k] = "talking" /\ call' = [call EXCEPT ![k] = "taken"]
           \/ call' = [call EXCEPT ![k] = "over"]
    BY <1>4 DEF Hangup, actor, tables
  <2> QED BY <1>1, <2>1 DEF IsTimely
<1>5. ASSUME NEW lead \in Bound.leads, RecordLead(k, lead) PROVE Outside
  <2>0. lead \in LeadIntents
    BY <1>5, Bounds
  <2>1. UNCHANGED <<pc, cur, todo, flights, nAtt, inbox, call, spent>> /\ SetLead(k, lead)
    BY <1>5 DEF RecordLead, SetLead, actor
  <2>2. \A j \in Calls : att'[j].state = att[j].state
    BY <1>0, <2>0, <2>1, LeadEffect
  <2> QED BY <2>1, <2>2 DEF Outside, IsDialing, IsTimely
<1>6. CASE LoseCDR(k)
  <2>1. UNCHANGED <<pc, cur, todo, flights, nAtt, att, call, inbox>> /\ writes[k] > 0 /\ StoreFails
    BY <1>6 DEF LoseCDR, actor, tables
  <2>2. call[k] # "none"
    BY <2>1 DEF BasicInv, WritesInv
  <2> QED BY <1>1, <2>1, <2>2, ErrorsShow
<1>7. ASSUME UNCHANGED <<pc, cur, todo, flights>>, call[k] # "none",
             \/ UNCHANGED call
             \/ call' = [call EXCEPT ![k] = "missed"]
             \/ call' = [call EXCEPT ![k] = "adrift"],
             NEW o \in Outcomes, NEW isMore \in BOOLEAN, InsertCDR(k, o, isMore),
             Post(Announced(k, o, isMore)), att[k].contact \in Contacts,
             UNCHANGED spent
      PROVE  Outside
  <2>1. Apply(k, o, isMore)
    BY <1>7 DEF InsertCDR
  <2>2. nAtt' = nAtt /\ \A j \in Calls : j # k => att'[j] = att[j]
    BY <1>0, <1>7, <2>1, ApplyEffect
  <2>3. \A m \in Announced(k, o, isMore) : m \in Messages /\ m.call = k /\ IsFinished(k)'
    BY <1>0, <1>7, CDRAnnounces
  <2>4. \A m \in inbox' : m \in inbox \/ (m \in Messages /\ IsFinished(m.call)')
    BY <1>7, <2>3 DEF Post
  <2>5. \A j \in Calls : (call[j] = "none" => call'[j] = "none") /\ (IsTimely(j)' => IsTimely(j))
    BY <1>7, <1>t DEF IsTimely
  <2>6. \A j \in Calls : call[j] = "none" /\ IsDialing(j) => IsDialing(j)'
    BY <1>7, <2>2 DEF IsDialing
  <2> QED BY <1>7, <2>2, <2>4, <2>5, <2>6 DEF Outside
<1>8. CASE PlacementFails(k)
  <2>1. /\ UNCHANGED <<pc, cur, todo, flights>> /\ call[k] = "placing"
        /\ call' = [call EXCEPT ![k] = "missed"]
    BY <1>8 DEF PlacementFails, actorButInbox
  <2>2. CASE (\E o \in RefusedOutcomes : InsertCDR(k, o, FALSE) /\ Post(Announced(k, o, FALSE)))
             /\ UNCHANGED spent
    <3>1. PICK o \in RefusedOutcomes : InsertCDR(k, o, FALSE) /\ Post(Announced(k, o, FALSE))
      BY <2>2
    <3>2. o \in Outcomes
      BY <3>1, Bounds DEF RefusedOutcomes
    <3>3. att[k].contact \in Contacts
      BY <1>0, <2>1, Tracked DEF IsTimely
    <3> QED BY <1>7, <2>1, <2>2, <3>1, <3>2, <3>3
  <2>3. CASE UNCHANGED <<tables, inbox>> /\ (StoreFails \/ UNCHANGED spent)
    <3>1. UNCHANGED <<nAtt, att>> /\ (spent'.errors = 0 => spent.errors = 0)
      BY <2>3, ErrorsShow DEF tables
    <3> QED BY <1>1, <2>1, <2>3, <3>1 DEF IsTimely
  <2> QED BY <1>8, <2>2, <2>3 DEF PlacementFails
<1>9. CASE WriteCDR(k)
  <2>1. UNCHANGED <<pc, cur, todo, flights, call, spent>> /\ writes[k] > 0
    BY <1>9 DEF WriteCDR, actorButInbox
  <2>2. call[k] # "none" /\ att[k].contact \in Contacts
    BY <1>0, <2>1, Tracked DEF BasicInv, WritesInv
  <2>3. CASE \E o \in EndedOutcomes(k), isMore \in BOOLEAN :
                InsertCDR(k, o, isMore) /\ Post(Announced(k, o, isMore))
    <3>1. PICK o \in EndedOutcomes(k), isMore \in BOOLEAN :
               InsertCDR(k, o, isMore) /\ Post(Announced(k, o, isMore))
      BY <2>3
    <3>2. o \in Outcomes
      BY <3>1, Bounds DEF EndedOutcomes, TakenOutcomes, MissedOutcomes
    <3> QED BY <1>7, <2>1, <2>2, <3>1, <3>2
  <2>4. CASE UNCHANGED <<tables, inbox>>
    <3>1. UNCHANGED <<nAtt, att>>
      BY <2>4 DEF tables
    <3> QED BY <1>1, <2>1, <2>2, <2>4, <3>1
  <2> QED BY <1>9, <2>3, <2>4 DEF WriteCDR
<1>10. CASE PlacementExpires(k)
  <2>1. /\ UNCHANGED <<pc, cur, todo, flights, spent>> /\ call[k] = "placing"
        /\ call' = [call EXCEPT ![k] = "adrift"]
    BY <1>10 DEF PlacementExpires, actorButInbox
  <2>2. CASE \E o \in Observed \cap {"ORIGINATE_FAILED"} :
                InsertCDR(k, o, FALSE) /\ Post(Announced(k, o, FALSE))
    <3>1. PICK o \in Observed \cap {"ORIGINATE_FAILED"} :
               InsertCDR(k, o, FALSE) /\ Post(Announced(k, o, FALSE))
      BY <2>2
    <3>2. o \in Outcomes
      BY <3>1, Bounds
    <3>3. att[k].contact \in Contacts
      BY <1>0, <2>1, Tracked DEF IsTimely
    <3> QED BY <1>7, <2>1, <2>2, <3>1, <3>2, <3>3
  <2>3. CASE UNCHANGED <<tables, inbox>>
    <3>1. UNCHANGED <<nAtt, att>>
      BY <2>3 DEF tables
    <3> QED BY <1>1, <2>1, <2>3, <3>1 DEF IsTimely
  <2> QED BY <1>10, <2>2, <2>3 DEF PlacementExpires
<1> QED BY <1>2, <1>3, <1>4, <1>5, <1>6, <1>8, <1>9, <1>10 DEF CallStep

\* The actor's own invariants are kept by every step.
LEMMA ActorStep ==
    ASSUME TypeOK, SpentOK, BasicInv, CurInv, ListsInv, WatchInv, PassInv, ReadyInv, Next
    PROVE  CurInv' /\ ListsInv' /\ WatchInv'
<1> DEFINE G == CurInv' /\ ListsInv' /\ WatchInv'
<1>0. StoreTypeOK /\ WorldTypes
  BY DEF TypeOK, WorldTypes
<1>m. Moves
  BY NextMoves DEF BasicInv
<1>t. /\ call \in [Calls -> CallStates] /\ todo \subseteq Calls /\ flights \subseteq Calls
      /\ nAtt \in Nat
  BY <1>0, StoreAssumption DEF TypeOK, StoreTypeOK, StoreAssumption
<1>f. /\ \A k \in Calls : IsFinished(k) => IsFinished(k)'
      /\ nAtt' = nAtt => /\ Written' = Written
                         /\ \A k \in Calls : IsDialing(k)' => IsDialing(k)
  BY <1>0, <1>m, Flow
<1>w. \A k \in Written : k \in Calls /\ att[k].contact \in Contacts
  BY DEF BasicInv, RowsInv, Written
<1>b. \A m \in inbox : m.type = "finished" => m.call \in Calls /\ IsFinished(m.call)
  BY DEF TypeOK, ListsInv, Messages
<1>st. ASSUME UNCHANGED <<att, nAtt, call>>, \A m \in inbox' : m \in inbox
       PROVE  /\ Written' = Written /\ \A k \in Calls : IsDialing(k)' <=> IsDialing(k)
              /\ \A k \in Calls : IsTimely(k)' <=> IsTimely(k)
              /\ \A m \in inbox' : m.type = "finished" => IsFinished(m.call)'
  BY <1>st, <1>f, <1>b DEF IsDialing, IsTimely

<1>1. ASSUME Outside PROVE G
  <2>1. /\ UNCHANGED <<pc, cur, todo, flights, nAtt>> /\ Written' = Written
        /\ \A k \in Calls : IsDialing(k)' => IsDialing(k)
        /\ \A j \in Calls : call[j] = "none" => call'[j] = "none" /\ (IsDialing(j) => IsDialing(j)')
        /\ \A j \in Calls : IsTimely(j)' => IsTimely(j)
        /\ spent'.errors = 0 => spent.errors = 0
    BY <1>1, <1>f DEF Outside
  <2>2. CurInv'
    BY <1>w, <2>1 DEF CurInv, IsDialing, IsTimely
  <2>3. \A m \in inbox' : m.type = "finished" => IsFinished(m.call)'
    BY <1>1, <1>b, <1>f DEF Outside
  <2>4. ListsInv'
    BY <2>1, <2>3 DEF ListsInv
  <2>5. WatchInv'
    BY <2>1 DEF WatchInv
  <2> QED BY <2>2, <2>4, <2>5
<1>2. ASSUME NEW m \in inbox, HandleFinished(m) PROVE G
  <2>1. /\ UNCHANGED <<pc, cur, todo, att, nAtt, call, spent>> /\ flights' = flights \ {m.call}
        /\ inbox' = inbox \ {m} /\ m.type = "finished" /\ pc \in {"start", "wait"}
    BY <1>2 DEF HandleFinished, Drop, IsBetweenPasses
  <2>2. /\ Written' = Written /\ \A k \in Calls : IsDialing(k)' <=> IsDialing(k)
        /\ \A k \in Calls : IsTimely(k)' <=> IsTimely(k)
        /\ \A n \in inbox' : n.type = "finished" => IsFinished(n.call)'
    BY <1>st, <2>1
  <2>3. ~IsDialing(m.call)
    BY <1>2, <1>b, <2>1 DEF IsDialing, IsFinished
  <2>4. CurInv'
    BY <1>t, <1>w, <2>1, <2>2, <2>3 DEF CurInv, IsDialing, IsTimely
  <2>5. ListsInv'
    BY <1>t, <1>w, <2>1, <2>2, <2>3 DEF ListsInv
  <2>6. WatchInv'
    BY <1>t, <1>w, <2>1, <2>2, <2>3 DEF WatchInv
  <2> QED BY <2>4, <2>5, <2>6
<1>3. ASSUME RecoverAttempts PROVE G
  <2>1. /\ UNCHANGED <<cur, att, nAtt, call, flights, inbox>> /\ pc = "start" /\ pc' = "recover"
    BY <1>3 DEF RecoverAttempts, tables
  <2>2. /\ Written' = Written /\ \A k \in Calls : IsDialing(k)' <=> IsDialing(k)
        /\ \A k \in Calls : IsTimely(k)' <=> IsTimely(k)
        /\ \A m \in inbox' : m.type = "finished" => IsFinished(m.call)'
    BY <1>st, <2>1
  <2>3. flights = {}
    BY <2>1 DEF ListsInv
  <2>4. \/ todo' = Dialing
        \/ todo' = {} /\ spent'.errors # 0
    BY <1>3, ErrorsShow DEF RecoverAttempts
  <2>5. Dialing \subseteq Written /\ \A k \in Calls : IsDialing(k) => k \in Dialing
    BY DEF Dialing, Written, IsDialing
  <2>6. CurInv'
    BY <1>t, <1>w, <2>1, <2>2, <2>3, <2>4, <2>5 DEF CurInv, IsDialing, IsTimely
  <2>7. ListsInv'
    BY <1>t, <1>w, <2>1, <2>2, <2>3, <2>4, <2>5 DEF ListsInv
  <2>8. WatchInv'
    BY <1>t, <1>w, <2>1, <2>2, <2>3, <2>4, <2>5 DEF WatchInv
  <2> QED BY <2>6, <2>7, <2>8
<1>4. ASSUME Recovered PROVE G
  <2>1. /\ UNCHANGED <<cur, att, nAtt, call, flights, inbox, todo, spent>>
        /\ pc = "recover" /\ pc' = "wait" /\ todo = {}
    BY <1>4 DEF Recovered, tables
  <2>2. /\ Written' = Written /\ \A k \in Calls : IsDialing(k)' <=> IsDialing(k)
        /\ \A k \in Calls : IsTimely(k)' <=> IsTimely(k)
        /\ \A m \in inbox' : m.type = "finished" => IsFinished(m.call)'
    BY <1>st, <2>1
  <2>3. CurInv'
    BY <1>t, <1>w, <2>1, <2>2 DEF CurInv, IsDialing, IsTimely
  <2>4. ListsInv'
    BY <1>t, <1>w, <2>1, <2>2 DEF ListsInv
  <2>5. WatchInv'
    BY <1>t, <1>w, <2>1, <2>2 DEF WatchInv
  <2> QED BY <2>3, <2>4, <2>5
<1>5. ASSUME NEW k \in Written, ledger[k] # NoCDR, Finish(k, ledger[k]),
             inbox' = inbox \cup AnnouncedByFinish(k, ledger[k])
      PROVE  /\ nAtt' = nAtt /\ Written' = Written /\ ~IsDialing(k)'
             /\ \A j \in Calls : IsDialing(j)' => IsDialing(j)
             /\ \A m \in inbox' : m.type = "finished" => IsFinished(m.call)'
  <2>1. ledger[k] \in Outcomes
    BY <1>0, <1>5, <1>w DEF StoreTypeOK
  <2>2. /\ ~IsDialing(k)' /\ nAtt' = nAtt
        /\ \A m \in AnnouncedByFinish(k, ledger[k]) : m.call = k /\ IsFinished(k)'
    BY <1>0, <1>5, <1>w, <2>1, FinishEnds
  <2> QED BY <1>5, <1>f, <1>b, <2>2
<1>6. ASSUME NEW k \in Written, NEW o \in Outcomes, Finish(k, o),
             inbox' = inbox \cup AnnouncedByFinish(k, o)
      PROVE  /\ nAtt' = nAtt /\ Written' = Written /\ ~IsDialing(k)'
             /\ \A j \in Calls : IsDialing(j)' => IsDialing(j)
             /\ \A m \in inbox' : m.type = "finished" => IsFinished(m.call)'
  <2>1. /\ ~IsDialing(k)' /\ nAtt' = nAtt
        /\ \A m \in AnnouncedByFinish(k, o) : m.call = k /\ IsFinished(k)'
    BY <1>0, <1>6, <1>w, FinishEnds
  <2> QED BY <1>6, <1>f, <1>b, <2>1
<1>7a. ASSUME NEW k \in todo, RecoverAttempt(k), IsLive(k) PROVE G
  <2>1. /\ UNCHANGED <<att, nAtt, call, inbox, spent, pc, cur>> /\ pc = "recover"
        /\ todo' = todo \ {k} /\ flights' = flights \cup {k}
    BY <1>7a DEF RecoverAttempt, Fly, tables
  <2>2. /\ Written' = Written /\ \A j \in Calls : IsDialing(j)' <=> IsDialing(j)
        /\ \A j \in Calls : IsTimely(j)' <=> IsTimely(j)
        /\ \A m \in inbox' : m.type = "finished" => IsFinished(m.call)'
    BY <1>st, <2>1
  <2>3. CurInv'
    BY <1>t, <1>w, <2>1, <2>2 DEF CurInv, IsDialing, IsTimely
  <2>4. ListsInv'
    BY <1>t, <1>w, <2>1, <2>2 DEF ListsInv
  <2>5. WatchInv'
    BY <1>t, <1>w, <2>1, <2>2 DEF WatchInv
  <2> QED BY <2>3, <2>4, <2>5
<1>7b. ASSUME NEW k \in todo, RecoverAttempt(k), ~IsLive(k), StoreFails,
             UNCHANGED <<tables, flights, answered, count, inbox, pc, cur>> PROVE G
  <2>1. /\ UNCHANGED <<att, nAtt, call, inbox, pc, cur, flights>> /\ pc = "recover"
        /\ todo' = todo \ {k} /\ spent'.errors # 0
    BY <1>7b, ErrorsShow DEF RecoverAttempt, tables
  <2>2. /\ Written' = Written /\ \A j \in Calls : IsDialing(j)' <=> IsDialing(j)
        /\ \A j \in Calls : IsTimely(j)' <=> IsTimely(j)
        /\ \A m \in inbox' : m.type = "finished" => IsFinished(m.call)'
    BY <1>st, <2>1
  <2>3. CurInv'
    BY <1>t, <1>w, <2>1, <2>2 DEF CurInv, IsDialing, IsTimely
  <2>4. ListsInv'
    BY <1>t, <1>w, <2>1, <2>2 DEF ListsInv
  <2>5. WatchInv'
    BY <1>t, <1>w, <2>1, <2>2 DEF WatchInv
  <2> QED BY <2>3, <2>4, <2>5
<1>7c. ASSUME NEW k \in todo, RecoverAttempt(k), ~IsLive(k), UNCHANGED spent,
             ledger[k] # NoCDR, Finish(k, ledger[k]),
             inbox' = inbox \cup AnnouncedByFinish(k, ledger[k]), Drop(k), UNCHANGED <<pc, cur>>
      PROVE  G
  <2>1. /\ UNCHANGED <<call, pc, cur, spent>> /\ pc = "recover"
        /\ todo' = todo \ {k} /\ flights' = flights \ {k} /\ k \in Written
    BY <1>7c DEF RecoverAttempt, Drop, ListsInv
  <2>2. /\ nAtt' = nAtt /\ Written' = Written /\ ~IsDialing(k)'
        /\ \A j \in Calls : IsDialing(j)' => IsDialing(j)
        /\ \A m \in inbox' : m.type = "finished" => IsFinished(m.call)'
    BY <1>5, <1>7c, <2>1
  <2>3. CurInv'
    BY <1>t, <1>w, <2>1, <2>2 DEF CurInv, IsDialing, IsTimely
  <2>4. ListsInv'
    BY <1>t, <1>w, <2>1, <2>2 DEF ListsInv
  <2>5. WatchInv'
    BY <1>t, <1>w, <2>1, <2>2 DEF WatchInv
  <2> QED BY <2>3, <2>4, <2>5
<1>7d. ASSUME NEW k \in todo, RecoverAttempt(k), ~IsLive(k), UNCHANGED spent,
             pc' = "recoverUnknown", cur' = k, UNCHANGED <<tables, inbox, flights, answered, count>>
      PROVE  G
  <2>1. /\ UNCHANGED <<att, nAtt, call, inbox, spent, flights>> /\ pc = "recover"
        /\ pc' = "recoverUnknown" /\ cur' = k
        /\ todo' = todo \ {k} /\ k \in Written /\ ~IsTimely(k)
    BY <1>7d DEF RecoverAttempt, tables, ListsInv, IsLive, IsTimely
  <2>2. /\ Written' = Written /\ \A j \in Calls : IsDialing(j)' <=> IsDialing(j)
        /\ \A j \in Calls : IsTimely(j)' <=> IsTimely(j)
        /\ \A m \in inbox' : m.type = "finished" => IsFinished(m.call)'
    BY <1>st, <2>1
  <2>3. CurInv'
    BY <1>t, <1>w, <2>1, <2>2 DEF CurInv, IsDialing, IsTimely
  <2>4. ListsInv'
    BY <1>t, <1>w, <2>1, <2>2 DEF ListsInv
  <2>5. WatchInv'
    BY <1>t, <1>w, <2>1, <2>2 DEF WatchInv
  <2> QED BY <2>3, <2>4, <2>5
<1>7. ASSUME NEW k \in todo, RecoverAttempt(k) PROVE G
  <2> HIDE DEF G
  <2> QED BY <1>7, <1>7a, <1>7b, <1>7c, <1>7d DEF RecoverAttempt, Reconcile
<1>8a. ASSUME FinishUnknown, Finish(cur, "UNKNOWN"), UNCHANGED spent, Drop(cur),
             inbox' = inbox \cup AnnouncedByFinish(cur, "UNKNOWN") PROVE G
  <2>1. /\ UNCHANGED <<call, todo, spent>> /\ pc \in {"unknown", "recoverUnknown"}
        /\ pc' = (IF pc = "unknown" THEN "wait" ELSE "recover")
        /\ flights' = flights \ {cur} /\ cur \in Written /\ cur \in Calls
    BY <1>8a, <1>w DEF FinishUnknown, Drop, CurInv
  <2>2. "UNKNOWN" \in Outcomes
    BY DEF Outcomes, ReachedOutcomes
  <2>3. /\ nAtt' = nAtt /\ Written' = Written
        /\ \A j \in Calls : IsDialing(j)' => IsDialing(j)
        /\ \A m \in inbox' : m.type = "finished" => IsFinished(m.call)'
    BY <1>6, <1>8a, <2>1, <2>2
  <2>4. \A j \in Calls : j # cur \/ ~(IsDialing(j)')
    BY <1>6, <1>8a, <2>1, <2>2, <1>0, <1>w, FinishEnds DEF IsDialing
  <2>5. CurInv'
    BY <1>t, <1>w, <2>1, <2>2, <2>3, <2>4 DEF CurInv, IsDialing, IsTimely
  <2>6. ListsInv'
    BY <1>t, <1>w, <2>1, <2>2, <2>3, <2>4 DEF ListsInv
  <2>7. WatchInv'
    BY <1>t, <1>w, <2>1, <2>2, <2>3, <2>4 DEF WatchInv
  <2> QED BY <2>5, <2>6, <2>7
<1>8b. ASSUME FinishUnknown, StoreFails, UNCHANGED <<tables, inbox, flights, answered, count>>
       PROVE  G
  <2>1. /\ UNCHANGED <<att, nAtt, call, todo, inbox, flights>> /\ pc \in {"unknown", "recoverUnknown"}
        /\ pc' = (IF pc = "unknown" THEN "wait" ELSE "recover") /\ spent'.errors # 0
    BY <1>8b, ErrorsShow DEF FinishUnknown, tables
  <2>2. /\ Written' = Written /\ \A k \in Calls : IsDialing(k)' <=> IsDialing(k)
        /\ \A k \in Calls : IsTimely(k)' <=> IsTimely(k)
        /\ \A m \in inbox' : m.type = "finished" => IsFinished(m.call)'
    BY <1>st, <2>1
  <2>3. CurInv'
    BY <1>t, <1>w, <2>1, <2>2 DEF CurInv, IsDialing, IsTimely
  <2>4. ListsInv'
    BY <1>t, <1>w, <2>1, <2>2 DEF ListsInv
  <2>5. WatchInv'
    BY <1>t, <1>w, <2>1, <2>2 DEF WatchInv
  <2> QED BY <2>3, <2>4, <2>5
<1>8. ASSUME FinishUnknown PROVE G
  <2> HIDE DEF G
  <2> QED BY <1>8, <1>8a, <1>8b DEF FinishUnknown
<1>9a. ASSUME NEW k \in flights, CheckBackstop(k), StoreFails,
             UNCHANGED <<tables, flights, answered, count, inbox, pc, cur>> PROVE G
  <2>1. /\ UNCHANGED <<att, nAtt, call, inbox, pc, cur, flights, todo>> /\ pc = "wait"
        /\ spent'.errors # 0
    BY <1>9a, ErrorsShow DEF CheckBackstop, tables
  <2>2. /\ Written' = Written /\ \A j \in Calls : IsDialing(j)' <=> IsDialing(j)
        /\ \A j \in Calls : IsTimely(j)' <=> IsTimely(j)
        /\ \A m \in inbox' : m.type = "finished" => IsFinished(m.call)'
    BY <1>st, <2>1
  <2>3. CurInv'
    BY <1>t, <1>w, <2>1, <2>2 DEF CurInv, IsDialing, IsTimely
  <2>4. ListsInv'
    BY <1>t, <1>w, <2>1, <2>2 DEF ListsInv
  <2>5. WatchInv'
    BY <1>t, <1>w, <2>1, <2>2 DEF WatchInv
  <2> QED BY <2>3, <2>4, <2>5
<1>9b. ASSUME NEW k \in flights, CheckBackstop(k), UNCHANGED spent,
             ledger[k] # NoCDR, Finish(k, ledger[k]),
             inbox' = inbox \cup AnnouncedByFinish(k, ledger[k]), Drop(k), UNCHANGED <<pc, cur>>
      PROVE  G
  <2>1. /\ UNCHANGED <<call, pc, cur, spent, todo>> /\ pc = "wait"
        /\ flights' = flights \ {k} /\ k \in Written
    BY <1>9b DEF CheckBackstop, Drop, ListsInv
  <2>2. /\ nAtt' = nAtt /\ Written' = Written /\ ~IsDialing(k)'
        /\ \A j \in Calls : IsDialing(j)' => IsDialing(j)
        /\ \A m \in inbox' : m.type = "finished" => IsFinished(m.call)'
    BY <1>5, <1>9b, <2>1
  <2>3. CurInv'
    BY <1>t, <1>w, <2>1, <2>2 DEF CurInv, IsDialing, IsTimely
  <2>4. ListsInv'
    BY <1>t, <1>w, <2>1, <2>2 DEF ListsInv
  <2>5. WatchInv'
    BY <1>t, <1>w, <2>1, <2>2 DEF WatchInv
  <2> QED BY <2>3, <2>4, <2>5
<1>9c. ASSUME NEW k \in flights, CheckBackstop(k), UNCHANGED spent,
             pc' = "unknown", cur' = k, UNCHANGED <<tables, inbox, flights, answered, count>>
      PROVE  G
  <2>1. /\ UNCHANGED <<att, nAtt, call, inbox, spent, flights, todo>> /\ pc = "wait"
        /\ pc' = "unknown" /\ cur' = k /\ k \in Written /\ ~IsTimely(k)
    BY <1>9c DEF CheckBackstop, tables, ListsInv, IsLive, IsTimely
  <2>2. /\ Written' = Written /\ \A j \in Calls : IsDialing(j)' <=> IsDialing(j)
        /\ \A j \in Calls : IsTimely(j)' <=> IsTimely(j)
        /\ \A m \in inbox' : m.type = "finished" => IsFinished(m.call)'
    BY <1>st, <2>1
  <2>3. CurInv'
    BY <1>t, <1>w, <2>1, <2>2 DEF CurInv, IsDialing, IsTimely
  <2>4. ListsInv'
    BY <1>t, <1>w, <2>1, <2>2 DEF ListsInv
  <2>5. WatchInv'
    BY <1>t, <1>w, <2>1, <2>2 DEF WatchInv
  <2> QED BY <2>3, <2>4, <2>5
<1>9. ASSUME NEW k \in Calls, CheckBackstop(k) PROVE G
  <2> HIDE DEF G
  <2>1. k \in flights
    BY <1>9 DEF CheckBackstop
  <2> QED BY <1>9, <1>9a, <1>9b, <1>9c, <2>1 DEF CheckBackstop, Reconcile
<1>10. ASSUME \/ BeginPass \/ SkipDone \/ LimitBlocks \/ EndPass
              \/ \E c \in Campaigns : \E inWindow \in SUBSET Due(c) : PickCampaign(c, inWindow)
       PROVE  G
  <2>1. /\ UNCHANGED <<cur, att, nAtt, call, flights, inbox, todo, spent>>
        /\ pc \in {"wait", "dnc", "pick", "admit"} /\ pc' \in {"wait", "dnc", "pick", "admit"}
    BY <1>10 DEF BeginPass, SkipDone, LimitBlocks, EndPass, PickCampaign, tables
  <2>2. /\ Written' = Written /\ \A k \in Calls : IsDialing(k)' <=> IsDialing(k)
        /\ \A k \in Calls : IsTimely(k)' <=> IsTimely(k)
        /\ \A m \in inbox' : m.type = "finished" => IsFinished(m.call)'
    BY <1>st, <2>1
  <2>3. CurInv'
    BY <1>t, <1>w, <2>1, <2>2 DEF CurInv, IsDialing, IsTimely
  <2>4. ListsInv'
    BY <1>t, <1>w, <2>1, <2>2 DEF ListsInv
  <2>5. WatchInv'
    BY <1>t, <1>w, <2>1, <2>2 DEF WatchInv
  <2> QED BY <2>3, <2>4, <2>5
<1>11. ASSUME NEW x \in Contacts, SkipBegin(x) PROVE G
  <2>1. /\ UNCHANGED <<call, flights, inbox, todo, spent>> /\ pc = "dnc" /\ pc' = "skip"
        /\ cur' = nAtt + 1 /\ Begin(x)
    BY <1>11 DEF SkipBegin
  <2>2. /\ nAtt' = nAtt + 1 /\ nAtt + 1 \in Calls /\ Written' = Written \cup {nAtt + 1}
        /\ nAtt + 1 \notin Written
        /\ att'[nAtt + 1].state = "DIALING"
        /\ \A j \in Calls : j # nAtt + 1 => att'[j] = att[j]
    BY <1>0, <1>m, <2>1, BeginEffect, Flow
  <2>3. call[nAtt + 1] = "none"
    BY <2>2 DEF BasicInv, RowsInv, Written
  <2>4. \A j \in Calls : IsDialing(j)' => IsDialing(j) \/ j = nAtt + 1
    BY <2>2 DEF IsDialing
  <2>5. \A m \in inbox' : m.type = "finished" => IsFinished(m.call)'
    BY <1>b, <1>f, <2>1
  <2>6. \A j \in Calls : call'[j] = call[j]
    BY <2>1
  <2>f. flights \subseteq Written
    BY DEF ListsInv
  <2>7. CurInv'
    BY <1>t, <1>w, <2>1, <2>2, <2>3, <2>4, <2>5, <2>6, <2>f DEF CurInv, IsDialing, IsTimely
  <2>8. ListsInv'
    BY <1>t, <1>w, <2>1, <2>2, <2>3, <2>4, <2>5, <2>6 DEF ListsInv
  <2>9. WatchInv'
    BY <1>t, <1>w, <2>1, <2>2, <2>3, <2>4, <2>5, <2>6 DEF WatchInv
  <2> QED BY <2>7, <2>8, <2>9
<1>12a. ASSUME SkipFinish, Finish(cur, "DNC_SKIPPED"), UNCHANGED spent,
             inbox' = inbox \cup AnnouncedByFinish(cur, "DNC_SKIPPED") PROVE G
  <2>1. /\ UNCHANGED <<call, todo, spent, flights>> /\ pc = "skip" /\ pc' = "dnc"
        /\ cur \in Written /\ cur \in Calls
    BY <1>12a DEF SkipFinish, CurInv, Written, IsDialing
  <2>2. "DNC_SKIPPED" \in Outcomes
    BY DEF Outcomes
  <2>3. /\ nAtt' = nAtt /\ Written' = Written
        /\ \A j \in Calls : IsDialing(j)' => IsDialing(j)
        /\ \A m \in inbox' : m.type = "finished" => IsFinished(m.call)'
    BY <1>6, <1>12a, <2>1, <2>2
  <2>4. \A j \in Calls : j # cur \/ ~(IsDialing(j)')
    BY <1>12a, <2>1, <2>2, <1>0, <1>w, FinishEnds DEF IsDialing
  <2>5. CurInv'
    BY <1>t, <1>w, <2>1, <2>2, <2>3, <2>4 DEF CurInv, IsDialing, IsTimely
  <2>6. ListsInv'
    BY <1>t, <1>w, <2>1, <2>2, <2>3, <2>4 DEF ListsInv
  <2>7. WatchInv'
    BY <1>t, <1>w, <2>1, <2>2, <2>3, <2>4 DEF WatchInv
  <2> QED BY <2>5, <2>6, <2>7
<1>12b. ASSUME SkipFinish, StoreFails, UNCHANGED <<tables, inbox>> PROVE G
  <2>1. /\ UNCHANGED <<att, nAtt, call, todo, inbox, flights>> /\ pc = "skip" /\ pc' = "dnc"
        /\ spent'.errors # 0
    BY <1>12b, ErrorsShow DEF SkipFinish, tables
  <2>2. /\ Written' = Written /\ \A k \in Calls : IsDialing(k)' <=> IsDialing(k)
        /\ \A k \in Calls : IsTimely(k)' <=> IsTimely(k)
        /\ \A m \in inbox' : m.type = "finished" => IsFinished(m.call)'
    BY <1>st, <2>1
  <2>3. CurInv'
    BY <1>t, <1>w, <2>1, <2>2 DEF CurInv, IsDialing, IsTimely
  <2>4. ListsInv'
    BY <1>t, <1>w, <2>1, <2>2 DEF ListsInv
  <2>5. WatchInv'
    BY <1>t, <1>w, <2>1, <2>2 DEF WatchInv
  <2> QED BY <2>3, <2>4, <2>5
<1>12. ASSUME SkipFinish PROVE G
  <2> HIDE DEF G
  <2> QED BY <1>12, <1>12a, <1>12b DEF SkipFinish
<1>13a. ASSUME NEW x \in Contacts, Admit(x), Begin(x), Fly(nAtt + 1, turn), cur' = nAtt + 1, pc' = "place"
        PROVE  G
  <2>1. /\ UNCHANGED <<call, inbox, todo, spent>> /\ pc = "admit" /\ flights' = flights \cup {nAtt + 1}
    BY <1>13a DEF Admit, Fly
  <2>2. /\ nAtt' = nAtt + 1 /\ nAtt + 1 \in Calls /\ Written' = Written \cup {nAtt + 1}
        /\ nAtt + 1 \notin Written
        /\ att'[nAtt + 1].state = "DIALING"
        /\ \A j \in Calls : j # nAtt + 1 => att'[j] = att[j]
    BY <1>0, <1>m, <1>13a, BeginEffect, Flow
  <2>3. call[nAtt + 1] = "none" /\ cur' = nAtt + 1 /\ pc' = "place"
    BY <1>13a, <2>2 DEF BasicInv, RowsInv, Written
  <2>4. \A j \in Calls : IsDialing(j)' => IsDialing(j) \/ j = nAtt + 1
    BY <2>2 DEF IsDialing
  <2>5. \A m \in inbox' : m.type = "finished" => IsFinished(m.call)'
    BY <1>b, <1>f, <2>1
  <2>6. \A j \in Calls : call'[j] = call[j]
    BY <2>1
  <2>7. CurInv'
    BY <1>t, <1>w, <2>1, <2>2, <2>3, <2>4, <2>5, <2>6 DEF CurInv, IsDialing, IsTimely
  <2>8. ListsInv'
    BY <1>t, <1>w, <2>1, <2>2, <2>3, <2>4, <2>5, <2>6 DEF ListsInv
  <2>9. WatchInv'
    BY <1>t, <1>w, <2>1, <2>2, <2>3, <2>4, <2>5, <2>6 DEF WatchInv
  <2> QED BY <2>7, <2>8, <2>9
<1>13b. ASSUME NEW x \in Contacts, Admit(x), pc' = "pick",
             UNCHANGED <<tables, flights, answered, count, cur>> PROVE G
  <2>1. /\ UNCHANGED <<att, nAtt, call, inbox, todo, spent, flights, cur>> /\ pc = "admit" /\ pc' = "pick"
    BY <1>13b DEF Admit, tables
  <2>2. /\ Written' = Written /\ \A k \in Calls : IsDialing(k)' <=> IsDialing(k)
        /\ \A k \in Calls : IsTimely(k)' <=> IsTimely(k)
        /\ \A m \in inbox' : m.type = "finished" => IsFinished(m.call)'
    BY <1>st, <2>1
  <2>3. CurInv'
    BY <1>t, <1>w, <2>1, <2>2 DEF CurInv, IsDialing, IsTimely
  <2>4. ListsInv'
    BY <1>t, <1>w, <2>1, <2>2 DEF ListsInv
  <2>5. WatchInv'
    BY <1>t, <1>w, <2>1, <2>2 DEF WatchInv
  <2> QED BY <2>3, <2>4, <2>5
<1>13. ASSUME NEW x \in Contacts, Admit(x) PROVE G
  <2> HIDE DEF G
  <2> QED BY <1>13, <1>13a, <1>13b DEF Admit
<1>pl. ASSUME pc = "place" PROVE cur = nAtt /\ cur \in Calls /\ IsDialing(cur) /\ cur \in Written
  BY <1>pl DEF CurInv, Written, IsDialing
<1>14. ASSUME PlaceSent PROVE G
  <2>1. /\ UNCHANGED <<att, nAtt, inbox, todo, spent, flights>> /\ pc = "place" /\ pc' = "pick"
    BY <1>14 DEF PlaceSent, Placed, tables
  <2>2. /\ Written' = Written /\ \A k \in Calls : IsDialing(k)' <=> IsDialing(k)
        /\ \A m \in inbox' : m.type = "finished" => IsFinished(m.call)'
    BY <1>f, <1>b, <2>1 DEF IsDialing
  <2>3. CurInv'
    BY <1>t, <1>w, <2>1, <2>2 DEF CurInv, IsDialing, IsTimely
  <2>4. ListsInv'
    BY <1>t, <1>w, <2>1, <2>2 DEF ListsInv
  <2>5. WatchInv'
    BY <1>t, <1>w, <2>1, <2>2 DEF WatchInv
  <2> QED BY <2>3, <2>4, <2>5
<1>15a. ASSUME pc = "place", Placed, Void(cur), Drop(cur), UNCHANGED <<todo, inbox, call>>,
             spent'.errors = 0 => spent.errors = 0 PROVE G
  <2>1. /\ pc = "place" /\ pc' = "pick" /\ flights' = flights \ {cur} /\ UNCHANGED <<todo, inbox>>
        /\ (spent'.errors = 0 => spent.errors = 0)
    BY <1>15a DEF Placed, Drop
  <2>2. /\ nAtt' = nAtt - 1 /\ att'[nAtt] = NoAttempt /\ cur = nAtt
        /\ \A j \in Calls : j # nAtt => att'[j] = att[j]
    BY <1>0, <1>15a, <1>pl, <1>w, VoidEffect
  <2>3. Written' = Written \ {nAtt}
    BY <1>0, <1>m, <2>2, Flow
  <2>4. \A j \in Calls : IsDialing(j)' => IsDialing(j) /\ j # nAtt
    BY <2>2 DEF IsDialing, NoAttempt
  <2>5. \A m \in inbox' : m.type = "finished" => IsFinished(m.call)'
    BY <1>b, <1>f, <2>1
  <2>6. flights \subseteq Written /\ todo = {}
    BY <2>1 DEF ListsInv
  <2>7. CurInv'
    BY <1>t, <1>w, <2>1, <2>2, <2>3, <2>4, <2>5, <2>6 DEF CurInv, IsDialing, IsTimely
  <2>8. ListsInv'
    BY <1>t, <1>w, <2>1, <2>2, <2>3, <2>4, <2>5, <2>6 DEF ListsInv
  <2>9. WatchInv'
    BY <1>t, <1>w, <2>1, <2>2, <2>3, <2>4, <2>5, <2>6 DEF WatchInv
  <2> QED BY <2>7, <2>8, <2>9
<1>15b. ASSUME Placed, UNCHANGED <<att, nAtt, todo, inbox, call, flights>>, spent'.errors # 0
        PROVE  G
  <2>1. /\ pc = "place" /\ pc' = "pick" /\ UNCHANGED <<att, nAtt, call, todo, inbox, flights>>
        /\ spent'.errors # 0
    BY <1>15b DEF Placed
  <2>2. /\ Written' = Written /\ \A k \in Calls : IsDialing(k)' <=> IsDialing(k)
        /\ \A k \in Calls : IsTimely(k)' <=> IsTimely(k)
        /\ \A m \in inbox' : m.type = "finished" => IsFinished(m.call)'
    BY <1>st, <2>1
  <2>3. CurInv'
    BY <1>t, <1>w, <2>1, <2>2 DEF CurInv, IsDialing, IsTimely
  <2>4. ListsInv'
    BY <1>t, <1>w, <2>1, <2>2 DEF ListsInv
  <2>5. WatchInv'
    BY <1>t, <1>w, <2>1, <2>2 DEF WatchInv
  <2> QED BY <2>3, <2>4, <2>5
<1>15. ASSUME PlaceVoid \/ PlaceNoEndpoint PROVE G
  <2> HIDE DEF G
  <2>1. pc = "place" /\ Placed /\ UNCHANGED <<todo, inbox, call>>
    BY <1>15 DEF PlaceVoid, PlaceNoEndpoint, Placed
  <2>2. spent.voids < Bound.voids /\ spent' = [spent EXCEPT !.voids = @ + 1] =>
           spent'.errors = spent.errors
    BY DEF SpentOK
  <2>3. StoreFails => spent'.errors # 0
    BY ErrorsShow
  <2>4. \/ Void(cur) /\ Drop(cur) /\ (spent'.errors = 0 => spent.errors = 0)
        \/ UNCHANGED <<att, nAtt, flights>> /\ spent'.errors # 0
    BY <1>15, <2>2, <2>3 DEF PlaceVoid, PlaceNoEndpoint, tables
  <2> QED BY <1>15a, <1>15b, <2>1, <2>4
<1>16a. ASSUME NEW o \in Outcomes, pc = "place", PlaceRefused(o), Finish(cur, o), Drop(cur), UNCHANGED spent,
             inbox' = inbox \cup AnnouncedByFinish(cur, o) PROVE G
  <2>1. /\ pc = "place" /\ pc' = "pick" /\ flights' = flights \ {cur} /\ UNCHANGED <<todo, call, spent>>
        /\ cur \in Written /\ cur \in Calls
    BY <1>16a, <1>pl DEF PlaceRefused, Placed, Drop
  <2>2. /\ nAtt' = nAtt /\ Written' = Written
        /\ \A j \in Calls : IsDialing(j)' => IsDialing(j)
        /\ \A m \in inbox' : m.type = "finished" => IsFinished(m.call)'
    BY <1>6, <1>16a, <2>1
  <2>3. \A j \in Calls : j # cur \/ ~(IsDialing(j)')
    BY <1>16a, <2>1, <1>0, <1>w, FinishEnds DEF IsDialing
  <2>4. CurInv'
    BY <1>t, <1>w, <2>1, <2>2, <2>3 DEF CurInv, IsDialing, IsTimely
  <2>5. ListsInv'
    BY <1>t, <1>w, <2>1, <2>2, <2>3 DEF ListsInv
  <2>6. WatchInv'
    BY <1>t, <1>w, <2>1, <2>2, <2>3 DEF WatchInv
  <2> QED BY <2>4, <2>5, <2>6
<1>16. ASSUME NEW o \in {"DNC_SKIPPED"} \cup (Observed \cap {"INVALID_NUMBER", "ORIGINATE_FAILED"}),
              PlaceRefused(o)
       PROVE  G
  <2> HIDE DEF G
  <2>1. o \in Outcomes
    BY DEF Outcomes, SystemOutcomes
  <2>2. pc = "place" /\ Placed /\ UNCHANGED <<todo, call>>
    BY <1>16 DEF PlaceRefused, Placed
  <2>3. CASE StoreFails /\ UNCHANGED <<tables, inbox, flights, answered, count, halted>>
    BY <1>15b, <2>2, <2>3, ErrorsShow DEF tables
  <2> QED BY <1>16, <1>16a, <2>1, <2>2, <2>3 DEF PlaceRefused
<1>17. ASSUME Crash PROVE G
  <2>1. /\ UNCHANGED <<att, nAtt>> /\ pc' = "down" /\ todo' = {} /\ flights' = {} /\ inbox' = {}
    BY <1>17 DEF Crash, tables
  <2>2. Written' = Written /\ \A k \in Calls : IsDialing(k)' <=> IsDialing(k)
    BY <2>1 DEF Written, IsDialing
  <2>3. CurInv'
    BY <2>1 DEF CurInv
  <2>4. ListsInv'
    BY <1>t, <1>w, <2>1, <2>2 DEF ListsInv
  <2>5. WatchInv'
    BY <1>t, <1>w, <2>1, <2>2 DEF WatchInv
  <2> QED BY <2>3, <2>4, <2>5
<1>18. ASSUME Restart PROVE G
  <2>1. /\ UNCHANGED <<att, nAtt, call, todo, flights, inbox>> /\ pc = "down" /\ pc' = "start"
    BY <1>18 DEF Restart, tables
  <2>2. /\ Written' = Written /\ \A k \in Calls : IsDialing(k)' <=> IsDialing(k)
        /\ \A k \in Calls : IsTimely(k)' <=> IsTimely(k)
        /\ \A m \in inbox' : m.type = "finished" => IsFinished(m.call)'
    BY <1>st, <2>1
  <2>3. CurInv'
    BY <1>t, <1>w, <2>1, <2>2 DEF CurInv, IsDialing, IsTimely
  <2>4. ListsInv'
    BY <1>t, <1>w, <2>1, <2>2 DEF ListsInv
  <2>5. WatchInv'
    BY <1>t, <1>w, <2>1, <2>2 DEF WatchInv
  <2> QED BY <2>3, <2>4, <2>5
<1>19. ASSUME NEW k \in Calls, CallStep(k) PROVE G
  <2> HIDE DEF G
  <2> QED BY <1>1, <1>19, OutsideCalls
<1>20. ASSUME \/ Commands \/ (\E m \in inbox : HandleAnswered(m) \/ HandleListed(m))
              \/ (\E k \in Calls : TouchAges(k)) \/ (\E x \in Contacts : ComesDue(x))
       PROVE  G
  <2> HIDE DEF G
  <2>1. Outside
    BY <1>20, OutsideCommands DEF Commands
  <2> QED BY <1>1, <2>1
<1> HIDE DEF G
<1>21. G
  BY <1>2, <1>3, <1>4, <1>7, <1>8, <1>9, <1>10, <1>11, <1>12, <1>13, <1>14, <1>15, <1>16, <1>17,
     <1>18, <1>19, <1>20
  DEF Next, HandleMessage, PassStep
<1> QED BY <1>21 DEF G

-----------------------------------------------------------------------------
(***************************************************************************)
(* The counters of the flights.                                            *)
(***************************************************************************)
Tallies == [inflight : [Campaigns -> Nat], ringing : Nat, talking : Nat]

InFlight(c) == {k \in flights : CampaignOfCall(k) = c}

CountInv ==
    /\ flights \subseteq Calls /\ answered \subseteq flights
    /\ count \in Tallies
    /\ CountersAgree

\* Fly counts one more call, as ringing.
LEMMA FlyCounts ==
    ASSUME CountInv, NEW k \in Calls, k \notin flights, NEW c \in Campaigns, Fly(k, c),
           CampaignOfCall(k)' = c,
           \A j \in flights : CampaignOfCall(j)' = CampaignOfCall(j)
    PROVE  CountInv'
<1>1. /\ flights' = flights \cup {k} /\ answered' = answered
      /\ count' = [count EXCEPT !.inflight[c] = @ + 1, !.ringing = @ + 1]
  BY DEF Fly
<1>2. /\ count \in Tallies /\ flights \subseteq Calls /\ answered \subseteq flights
      /\ \A d \in Campaigns : count.inflight[d] = Cardinality(InFlight(d))
      /\ count.talking = Cardinality(answered) /\ count.ringing = Cardinality(flights \ answered)
  BY DEF CountInv, CountersAgree, InFlight
<1> DEFINE z == count.inflight[c] + 1
           r == count.ringing + 1
<1>n. z \in Nat /\ r \in Nat
  BY <1>2 DEF Tallies
<1>e. count' = [count EXCEPT !.inflight[c] = z, !.ringing = r]
  BY <1>1
<1>zr. z = count.inflight[c] + 1 /\ r = count.ringing + 1
  OBVIOUS
<1> HIDE DEF z, r
<1>f. /\ count' \in Tallies /\ count'.talking = count.talking /\ count'.ringing = r
      /\ \A d \in Campaigns : count'.inflight[d] = IF d = c THEN z ELSE count.inflight[d]
  BY <1>2, <1>n, <1>e DEF Tallies
<1>3. /\ count' \in Tallies /\ count'.talking = count.talking /\ count'.ringing = count.ringing + 1
      /\ \A d \in Campaigns :
            count'.inflight[d] = IF d = c THEN count.inflight[d] + 1 ELSE count.inflight[d]
  BY <1>f, <1>zr
<1>4. \A d \in Campaigns :
         InFlight(d)' = IF d = c THEN InFlight(d) \cup {k} ELSE InFlight(d)
  BY <1>1 DEF InFlight
<1>5. \A d \in Campaigns : InFlight(d) \in SUBSET Calls /\ k \notin InFlight(d)
  BY <1>2 DEF InFlight
<1>6. \A d \in Campaigns : Cardinality(InFlight(d) \cup {k}) = Cardinality(InFlight(d)) + 1
  BY <1>5, OneCall
<1>7. \A d \in Campaigns : count'.inflight[d] = Cardinality(InFlight(d)')
  BY <1>2, <1>3, <1>4, <1>6
<1>8. flights' \ answered' = (flights \ answered) \cup {k}
  BY <1>1, <1>2
<1>9. Cardinality((flights \ answered) \cup {k}) = Cardinality(flights \ answered) + 1
  BY <1>2, OneCall
<1>10. count'.ringing = Cardinality(flights' \ answered') /\ count'.talking = Cardinality(answered')
  BY <1>1, <1>2, <1>3, <1>8, <1>9
<1>11. CountersAgree'
  BY <1>7, <1>10 DEF CountersAgree, InFlight
<1>12. flights' \subseteq Calls /\ answered' \subseteq flights'
  BY <1>1, <1>2
<1> QED BY <1>3, <1>11, <1>12 DEF CountInv

\* Drop returns what one flight took, once.
LEMMA DropCounts ==
    ASSUME CountInv, NEW k \in Calls, CampaignOfCall(k) \in Campaigns, Drop(k),
           \A j \in flights \ {k} : CampaignOfCall(j)' = CampaignOfCall(j)
    PROVE  CountInv'
<1>1. flights' = flights \ {k} /\ answered' = answered \ {k}
  BY DEF Drop
<1>2. /\ count \in Tallies /\ flights \subseteq Calls /\ answered \subseteq flights
      /\ \A d \in Campaigns : count.inflight[d] = Cardinality(InFlight(d))
      /\ count.talking = Cardinality(answered) /\ count.ringing = Cardinality(flights \ answered)
  BY DEF CountInv, CountersAgree, InFlight
<1>3. flights' \subseteq Calls /\ answered' \subseteq flights'
  BY <1>1, <1>2
<1> DEFINE c == CampaignOfCall(k)
<1>4. CASE k \notin flights
  <2>1. flights' = flights /\ answered' = answered /\ count' = count
    BY <1>1, <1>2, <1>4 DEF Drop
  <2>2. \A d \in Campaigns : InFlight(d)' = InFlight(d)
    BY <1>4, <2>1 DEF InFlight
  <2>3. CountersAgree'
    BY <1>2, <2>1, <2>2 DEF CountersAgree, InFlight
  <2> QED BY <1>2, <1>3, <2>1, <2>3 DEF CountInv
<1>5. CASE k \in flights
  <2>1. count' = [count EXCEPT !.inflight[c] = AtLeastZero(@ - 1),
                               !.ringing = IF k \in answered THEN @ ELSE @ - 1,
                               !.talking = IF k \in answered THEN @ - 1 ELSE @]
    BY <1>5 DEF Drop
  <2>2. \A d \in Campaigns : InFlight(d)' = IF d = c THEN InFlight(d) \ {k} ELSE InFlight(d)
    BY <1>1 DEF InFlight
  <2>3. \A d \in Campaigns : InFlight(d) \in SUBSET Calls
    BY <1>2 DEF InFlight
  <2>4. k \in InFlight(c)
    BY <1>5 DEF InFlight
  <2>5. /\ Cardinality(InFlight(c) \ {k}) = Cardinality(InFlight(c)) - 1
        /\ Cardinality(InFlight(c)) > 0 /\ Cardinality(InFlight(c)) \in Nat
    BY <2>3, <2>4, OneCall
  <2>6. \A n \in Nat : n > 0 => AtLeastZero(n - 1) = n - 1 /\ n - 1 \in Nat
    BY DEF AtLeastZero
  <2>7. AtLeastZero(count.inflight[c] - 1) = Cardinality(InFlight(c) \ {k})
        /\ AtLeastZero(count.inflight[c] - 1) \in Nat
    BY <1>2, <2>5, <2>6
  <2>8. /\ k \in answered =>
              /\ Cardinality(answered \ {k}) = Cardinality(answered) - 1
              /\ Cardinality(answered) > 0
        /\ k \notin answered =>
              /\ Cardinality((flights \ answered) \ {k}) = Cardinality(flights \ answered) - 1
              /\ Cardinality(flights \ answered) > 0
    <3>1. answered \in SUBSET Calls /\ flights \ answered \in SUBSET Calls
      BY <1>2
    <3>2. k \notin answered => k \in flights \ answered
      BY <1>5
    <3> QED BY <3>1, <3>2, OneCall
  <2>9. /\ k \in answered => answered' = answered \ {k} /\ flights' \ answered' = flights \ answered
        /\ k \notin answered => answered' = answered
                                /\ flights' \ answered' = (flights \ answered) \ {k}
    BY <1>1, <1>2
  <2> DEFINE z == AtLeastZero(count.inflight[c] - 1)
             r == IF k \in answered THEN count.ringing ELSE count.ringing - 1
             t == IF k \in answered THEN count.talking - 1 ELSE count.talking
  <2>10. r \in Nat /\ t \in Nat /\ z \in Nat
    BY <1>2, <2>7, <2>8 DEF Tallies
  <2>11. r = Cardinality(flights' \ answered') /\ t = Cardinality(answered')
    BY <1>2, <2>8, <2>9
  <2>z. z = Cardinality(InFlight(c) \ {k})
    BY <2>7
  <2>12. count' = [count EXCEPT !.inflight[c] = z, !.ringing = r, !.talking = t]
    BY <2>1
  <2> HIDE DEF r, t, z
  <2>13. /\ count' \in Tallies /\ count'.ringing = r /\ count'.talking = t
         /\ \A d \in Campaigns : count'.inflight[d] = IF d = c THEN z ELSE count.inflight[d]
    BY <1>2, <2>10, <2>12 DEF Tallies
  <2>14. \A d \in Campaigns : count'.inflight[d] = Cardinality(InFlight(d)')
    BY <1>2, <2>2, <2>z, <2>13
  <2>15. CountersAgree'
    BY <2>11, <2>13, <2>14 DEF CountersAgree, InFlight
  <2> QED BY <1>3, <2>13, <2>15 DEF CountInv
<1> QED BY <1>4, <1>5

\* The counters stay true to the flights.
LEMMA CountStep ==
    ASSUME TypeOK, SpentOK, BasicInv, CurInv, ListsInv, PassInv, ReadyInv, CountInv, Next
    PROVE  CountInv'
<1>0. StoreTypeOK /\ WorldTypes
  BY DEF TypeOK, WorldTypes
<1>m. Moves
  BY NextMoves DEF BasicInv
<1>n. nAtt \in Nat
  BY <1>0, StoreAssumption DEF StoreTypeOK, StoreAssumption
<1>w. \A k \in Written : k \in Calls /\ att[k].contact \in Contacts
  BY DEF BasicInv, RowsInv, Written
<1>c. \A k \in Written : k \in Calls /\ CampaignOfCall(k) \in Campaigns
  BY <1>w, StoreAssumption DEF StoreAssumption, CampaignOfCall
<1>fl. flights \subseteq Written /\ todo \subseteq Written /\ flights \cap todo = {}
  BY DEF ListsInv
<1>k. nAtt' = nAtt => \A k \in Calls : CampaignOfCall(k)' = CampaignOfCall(k)
  BY <1>0, <1>m, Flow DEF CampaignOfCall
<1>s. ASSUME nAtt' = nAtt, UNCHANGED <<flights, answered, count>> PROVE CountInv'
  <2>1. \A c \in Campaigns : InFlight(c)' = InFlight(c)
    BY <1>s, <1>k, <1>w, <1>fl DEF InFlight
  <2> QED BY <1>s, <2>1 DEF CountInv, CountersAgree, InFlight
<1>d. ASSUME NEW k \in Written, nAtt' = nAtt, Drop(k) PROVE CountInv'
  <2>1. \A j \in flights \ {k} : CampaignOfCall(j)' = CampaignOfCall(j)
    BY <1>d, <1>k, <1>w, <1>fl
  <2> QED BY <1>c, <1>d, <2>1, DropCounts
<1>a. ASSUME NEW k \in Written, NEW o \in Outcomes, Finish(k, o), Drop(k) PROVE CountInv'
  <2>1. nAtt' = nAtt
    BY <1>0, <1>w, <1>a, FinishEnds
  <2> QED BY <1>d, <1>a, <2>1
<1>r. ASSUME NEW k \in Written, NEW next, Reconcile(k, next) PROVE CountInv'
  <2>1. CASE ledger[k] # NoCDR /\ Finish(k, ledger[k]) /\ Drop(k)
    <3>1. ledger[k] \in Outcomes
      BY <1>0, <1>w, <2>1 DEF StoreTypeOK
    <3> QED BY <1>a, <2>1, <3>1
  <2>2. CASE UNCHANGED <<tables, flights, answered, count>>
    BY <1>s, <2>2 DEF tables
  <2> QED BY <1>r, <2>1, <2>2 DEF Reconcile
<1>1. ASSUME \/ \E c \in Campaigns : \/ StartCampaign(c) \/ PauseCampaign(c)
                                     \/ ResumeCampaign(c) \/ CancelCampaign(c)
             \/ \E x \in Contacts : ImportContact(x) \/ ComesDue(x)
             \/ \E n \in Numbers : ListNumber(n)
             \/ \E m \in inbox : HandleListed(m)
             \/ \E k \in Calls : TouchAges(k)
      PROVE  CountInv'
  <2>1. nAtt' = nAtt /\ UNCHANGED <<flights, answered, count>>
    BY <1>1 DEF StartCampaign, PauseCampaign, ResumeCampaign, CancelCampaign, Start, Move,
                ImportContact, Import, ComesDue, ListNumber, HandleListed, TouchAges, actor, tables
  <2> QED BY <1>s, <2>1
<1>2. ASSUME NEW m \in inbox, HandleFinished(m) PROVE CountInv'
  <2>1. nAtt' = nAtt /\ Drop(m.call) /\ m.type = "finished"
    BY <1>2 DEF HandleFinished
  <2>2. m.call \in Calls /\ IsFinished(m.call)
    BY <1>2, <2>1 DEF TypeOK, ListsInv, Messages
  <2>3. PICK k \in Written : k = m.call
    BY <2>2 DEF Written, IsFinished
  <2> QED BY <1>d, <2>1, <2>3
<1>3. ASSUME NEW m \in inbox, HandleAnswered(m) PROVE CountInv'
  <2>0. nAtt' = nAtt /\ flights' = flights
    BY <1>3 DEF HandleAnswered, tables
  <2>1. CASE m.call \notin flights \ answered
    <3>1. UNCHANGED <<answered, count>>
      BY <1>3, <2>1 DEF HandleAnswered
    <3> QED BY <1>s, <2>0, <3>1
  <2>2. CASE m.call \in flights \ answered
    <3>1. PICK k \in Calls : k = m.call
      BY <2>2 DEF CountInv
    <3>2. /\ k \in flights \ answered /\ answered' = answered \cup {k}
          /\ count' = [count EXCEPT !.ringing = @ - 1, !.talking = @ + 1]
      BY <1>3, <2>2, <3>1 DEF HandleAnswered
    <3>3. /\ count \in Tallies /\ flights \subseteq Calls /\ answered \subseteq flights
          /\ \A d \in Campaigns : count.inflight[d] = Cardinality(InFlight(d))
          /\ count.talking = Cardinality(answered)
          /\ count.ringing = Cardinality(flights \ answered)
      BY DEF CountInv, CountersAgree, InFlight
    <3>4. /\ Cardinality(answered \cup {k}) = Cardinality(answered) + 1
          /\ Cardinality((flights \ answered) \ {k}) = Cardinality(flights \ answered) - 1
          /\ Cardinality(flights \ answered) > 0
      <4>1. answered \in SUBSET Calls /\ flights \ answered \in SUBSET Calls
        BY <3>3
      <4> QED BY <3>2, <4>1, OneCall
    <3>5. flights' \ answered' = (flights \ answered) \ {k}
      BY <2>0, <3>2
    <3>6. /\ count' \in Tallies /\ count'.inflight = count.inflight
          /\ count'.ringing = count.ringing - 1 /\ count'.talking = count.talking + 1
      <4> DEFINE r == count.ringing - 1
                 t == count.talking + 1
      <4>1. r \in Nat /\ t \in Nat
        BY <3>3, <3>4 DEF Tallies
      <4>2. count' = [count EXCEPT !.ringing = r, !.talking = t]
        BY <3>2
      <4>3. r = count.ringing - 1 /\ t = count.talking + 1
        OBVIOUS
      <4> HIDE DEF r, t
      <4>4. /\ count' \in Tallies /\ count'.inflight = count.inflight
            /\ count'.ringing = r /\ count'.talking = t
        BY <3>3, <4>1, <4>2 DEF Tallies
      <4> QED BY <4>3, <4>4
    <3>7. \A c \in Campaigns : InFlight(c)' = InFlight(c)
      BY <1>k, <1>w, <1>fl, <2>0 DEF InFlight
    <3>8. CountersAgree'
      BY <3>2, <3>3, <3>4, <3>5, <3>6, <3>7 DEF CountersAgree, InFlight
    <3> QED BY <2>0, <3>2, <3>3, <3>6, <3>8 DEF CountInv
  <2> QED BY <2>1, <2>2
<1>4. ASSUME NEW k \in todo, RecoverAttempt(k) PROVE CountInv'
  <2>0. k \in Written
    BY <1>4, <1>fl
  <2>1. CASE IsLive(k) /\ Fly(k, CampaignOfCall(k)) /\ UNCHANGED tables
    <3>1. nAtt' = nAtt
      BY <2>1 DEF tables
    <3>2. PICK c \in Campaigns : c = CampaignOfCall(k)
      BY <1>c, <2>0
    <3>3. Fly(k, c) /\ CampaignOfCall(k)' = c /\ k \notin flights /\ k \in Calls
      BY <1>k, <1>w, <1>4, <1>fl, <2>0, <2>1, <3>1, <3>2
    <3>4. \A j \in flights : CampaignOfCall(j)' = CampaignOfCall(j)
      BY <1>k, <1>w, <1>fl, <3>1
    <3> QED BY <3>3, <3>4, FlyCounts
  <2>2. CASE Reconcile(k, "recoverUnknown")
    BY <1>r, <2>0, <2>2
  <2>3. CASE UNCHANGED <<tables, flights, answered, count>>
    BY <1>s, <2>3 DEF tables
  <2> QED BY <1>4, <2>1, <2>2, <2>3 DEF RecoverAttempt
<1>5. ASSUME FinishUnknown PROVE CountInv'
  <2>1. PICK k \in Written : k = cur
    BY <1>5 DEF FinishUnknown, CurInv
  <2>2. CASE Finish(cur, "UNKNOWN") /\ Drop(cur)
    <3>1. "UNKNOWN" \in Outcomes
      BY DEF Outcomes, ReachedOutcomes
    <3> QED BY <1>a, <2>1, <2>2, <3>1
  <2>3. CASE UNCHANGED <<tables, flights, answered, count>>
    BY <1>s, <2>3 DEF tables
  <2> QED BY <1>5, <2>2, <2>3 DEF FinishUnknown
<1>6. ASSUME NEW k \in Calls, CheckBackstop(k) PROVE CountInv'
  <2>0. k \in Written
    BY <1>6, <1>fl DEF CheckBackstop
  <2>2. CASE Reconcile(k, "unknown")
    BY <1>r, <2>0, <2>2
  <2>3. CASE UNCHANGED <<tables, flights, answered, count>>
    BY <1>s, <2>3 DEF tables
  <2> QED BY <1>6, <2>2, <2>3 DEF CheckBackstop
<1>7. ASSUME \/ RecoverAttempts \/ Recovered \/ BeginPass \/ SkipDone \/ LimitBlocks \/ PlaceSent
             \/ EndPass \/ Restart
             \/ \E c \in Campaigns : \E inWindow \in SUBSET Due(c) : PickCampaign(c, inWindow)
      PROVE  CountInv'
  <2>1. nAtt' = nAtt /\ UNCHANGED <<flights, answered, count>>
    BY <1>7 DEF RecoverAttempts, Recovered, BeginPass, SkipDone, LimitBlocks, PlaceSent, EndPass,
                Restart, PickCampaign, tables
  <2> QED BY <1>s, <2>1
<1>8. ASSUME NEW x \in Contacts, Begin(x)
      PROVE  \E n \in Calls : /\ n = nAtt + 1 /\ n \notin flights
                              /\ CampaignOfCall(n)' = CampaignOf[x]
                              /\ \A j \in flights : CampaignOfCall(j)' = CampaignOfCall(j)
  <2>1. /\ nAtt + 1 \in Calls /\ nAtt' = nAtt + 1
        /\ att'[nAtt + 1].contact = x
        /\ \A j \in Calls : j # nAtt + 1 => att'[j] = att[j]
    BY <1>0, <1>8, BeginEffect
  <2>2. nAtt + 1 \notin flights
    BY <1>0, <1>m, <1>fl, <2>1, Flow
  <2>3. PICK n \in Calls : n = nAtt + 1
    BY <2>1
  <2>4. CampaignOfCall(n)' = CampaignOf[x]
    BY <2>1, <2>3 DEF CampaignOfCall
  <2>5. \A j \in flights : CampaignOfCall(j)' = CampaignOfCall(j)
    BY <1>w, <1>fl, <2>1, <2>2 DEF CampaignOfCall
  <2> QED BY <2>2, <2>3, <2>4, <2>5
<1>9. ASSUME NEW x \in Contacts, SkipBegin(x) PROVE CountInv'
  <2>1. Begin(x) /\ UNCHANGED <<flights, answered, count>>
    BY <1>9 DEF SkipBegin
  <2>2. \A j \in flights : CampaignOfCall(j)' = CampaignOfCall(j)
    BY <1>8, <2>1
  <2>3. \A c \in Campaigns : InFlight(c)' = InFlight(c)
    BY <2>1, <2>2 DEF InFlight
  <2> QED BY <2>1, <2>3 DEF CountInv, CountersAgree, InFlight
<1>10. ASSUME SkipFinish PROVE CountInv'
  <2>1. PICK k \in Written : k = cur
    BY <1>10 DEF SkipFinish, CurInv, Written, IsDialing
  <2>2. UNCHANGED <<flights, answered, count>>
    BY <1>10 DEF SkipFinish
  <2>3. nAtt' = nAtt
    BY <1>10 DEF SkipFinish, Finish, Apply, tables
  <2> QED BY <1>s, <2>2, <2>3
<1>11. ASSUME NEW x \in Contacts, Admit(x) PROVE CountInv'
  <2>0. turn \in Campaigns /\ CampaignOf[x] = turn
    BY <1>11 DEF Admit, PassInv, ReadyInv
  <2>1. CASE Begin(x) /\ Fly(nAtt + 1, turn)
    <3>1. PICK n \in Calls : /\ n = nAtt + 1 /\ n \notin flights
                             /\ CampaignOfCall(n)' = CampaignOf[x]
                             /\ \A j \in flights : CampaignOfCall(j)' = CampaignOfCall(j)
      BY <1>8, <2>1
    <3>2. PICK c \in Campaigns : c = turn
      BY <2>0
    <3>3. Fly(n, c) /\ CampaignOfCall(n)' = c
      BY <2>0, <2>1, <3>1, <3>2
    <3> QED BY <3>1, <3>3, FlyCounts
  <2>2. CASE UNCHANGED <<tables, flights, answered, count>>
    BY <1>s, <2>2 DEF tables
  <2> QED BY <1>11, <2>1, <2>2 DEF Admit
<1>12. ASSUME PlaceVoid \/ PlaceNoEndpoint PROVE CountInv'
  <2>0. pc = "place"
    BY <1>12 DEF PlaceVoid, PlaceNoEndpoint, Placed
  <2>1. PICK k \in Written : k = cur
    BY <2>0 DEF CurInv, Written, IsDialing
  <2>2. CASE Void(cur) /\ Drop(cur)
    <3>1. \A j \in Calls : j # k => att'[j] = att[j]
      BY <1>0, <1>w, <2>1, <2>2, VoidEffect
    <3>2. \A j \in flights \ {k} : CampaignOfCall(j)' = CampaignOfCall(j)
      BY <1>w, <1>fl, <3>1 DEF CampaignOfCall
    <3> QED BY <1>c, <2>1, <2>2, <3>2, DropCounts
  <2>3. CASE nAtt' = nAtt /\ UNCHANGED <<flights, answered, count>>
    BY <1>s, <2>3
  <2> QED BY <1>12, <2>2, <2>3 DEF PlaceVoid, PlaceNoEndpoint, tables
<1>13. ASSUME NEW o \in {"DNC_SKIPPED"} \cup (Observed \cap {"INVALID_NUMBER", "ORIGINATE_FAILED"}),
              PlaceRefused(o)
       PROVE  CountInv'
  <2>0. pc = "place" /\ o \in Outcomes
    BY <1>13 DEF PlaceRefused, Placed, Outcomes, SystemOutcomes
  <2>1. PICK k \in Written : k = cur
    BY <2>0 DEF CurInv, Written, IsDialing
  <2>2. CASE Finish(cur, o) /\ Drop(cur)
    BY <1>a, <2>0, <2>1, <2>2
  <2>3. CASE UNCHANGED <<tables, flights, answered, count>>
    BY <1>s, <2>3 DEF tables
  <2> QED BY <1>13, <2>2, <2>3 DEF PlaceRefused
<1>14. ASSUME NEW k \in Calls, CallStep(k) PROVE CountInv'
  <2>1. UNCHANGED <<flights, answered, count>>
    BY <1>14 DEF CallStep, ChannelUp, PlacementFails, PlacementExpires, Answer, Hangup, WriteCDR,
                 LoseCDR, RecordLead,
                 actor, actorButInbox
  <2>2. nAtt' = nAtt
    BY <1>14, <1>0, OutsideCalls DEF Outside
  <2> QED BY <1>s, <2>1, <2>2
<1>15. ASSUME Crash PROVE CountInv'
  <2>1. flights' = {} /\ answered' = {} /\ count' = NothingInFlight
    BY <1>15 DEF Crash
  <2>2. /\ NothingInFlight \in Tallies /\ NothingInFlight.ringing = 0 /\ NothingInFlight.talking = 0
        /\ \A c \in Campaigns : NothingInFlight.inflight[c] = 0
    BY DEF NothingInFlight, Tallies
  <2>3. Cardinality({}) = 0
    BY FS_EmptySet
  <2>4. \A c \in Campaigns : InFlight(c)' = {}
    BY <2>1 DEF InFlight
  <2>5. flights' \ answered' = {}
    BY <2>1
  <2>6. CountersAgree'
    BY <2>1, <2>2, <2>3, <2>4, <2>5 DEF CountersAgree, InFlight
  <2> QED BY <2>1, <2>2, <2>6 DEF CountInv
<1> QED BY <1>1, <1>2, <1>3, <1>4, <1>5, <1>6, <1>7, <1>9, <1>10, <1>11, <1>12, <1>13, <1>14, <1>15
        DEF Next, Commands, HandleMessage, PassStep

-----------------------------------------------------------------------------
(***************************************************************************)
(* Campaigns, the pass and what it has found ready.                        *)
(***************************************************************************)
CampaignRows == [status : CampaignStatuses, reason : PauseReasons]

\* What a step does to the campaigns: nothing, one of them moves to a status that
\* is neither DRAFT nor COMPLETED, or the pass ends.
CampaignMoves ==
    \/ UNCHANGED campaign
    \/ \E c \in Campaigns : \E row \in CampaignRows :
          row.status \notin {"DRAFT", "COMPLETED"} /\ campaign' = [campaign EXCEPT ![c] = row]
    \/ EndPass

\* The reason a breaker gives is one a campaign can be paused for.
LEMMA Judged ==
    ASSUME NEW c, NEW o, NEW lg, NEW at
    PROVE  BreakerReason(c, o, lg, at) \in PauseReasons
BY DEF BreakerReason, PauseReasons

\* Judging the breakers pauses the campaign or does nothing.
LEMMA JudgeEffect ==
    ASSUME TypeOK, NEW c \in Campaigns, NEW o, NEW lg, NEW at, JudgeBreakers(c, o, lg, at)
    PROVE  CampaignMoves /\ halted' \subseteq Campaigns
<1> DEFINE reason == BreakerReason(c, o, lg, at)
<1>1. reason \in PauseReasons
  BY Judged
<1> HIDE DEF reason
<1>2. CASE campaign' = PausedFor(c, reason) /\ halted' = halted \cup {c}
  <2>1. [status |-> "PAUSED", reason |-> reason] \in CampaignRows
    BY <1>1 DEF CampaignRows, CampaignStatuses
  <2> QED BY <1>2, <2>1 DEF PausedFor, CampaignMoves, TypeOK
<1>3. CASE UNCHANGED <<campaign, halted>>
  BY <1>3 DEF CampaignMoves, TypeOK
<1> QED BY <1>2, <1>3 DEF JudgeBreakers, reason

\* Every step treats the campaigns so.
LEMMA CampaignStep ==
    ASSUME TypeOK, BasicInv, CurInv, ListsInv, Next
    PROVE  CampaignMoves /\ halted' \subseteq Campaigns
<1> DEFINE G == CampaignMoves /\ halted' \subseteq Campaigns
<1>w. \A k \in Written : k \in Calls /\ CampaignOfCall(k) \in Campaigns
  BY StoreAssumption DEF BasicInv, RowsInv, Written, StoreAssumption, CampaignOfCall
<1>s. ASSUME UNCHANGED <<campaign, halted>> PROVE G
  BY <1>s DEF CampaignMoves, TypeOK
<1>v. ASSUME NEW c \in Campaigns, NEW to \in {"RUNNING", "PAUSED", "CANCELLED"},
             NEW why \in PauseReasons,
             campaign' = [campaign EXCEPT ![c] = [status |-> to, reason |-> why]],
             halted' \subseteq Campaigns
      PROVE  G
  <2>1. [status |-> to, reason |-> why] \in CampaignRows
    BY DEF CampaignRows, CampaignStatuses
  <2> QED BY <1>v, <2>1 DEF CampaignMoves
<1>1. ASSUME NEW c \in Campaigns, StartCampaign(c) PROVE G
  <2>1. /\ campaign' = [campaign EXCEPT ![c].status = "RUNNING"] /\ halted' = halted \ {c}
    BY <1>1 DEF StartCampaign, Start, Began
  <2>2. campaign[c] \in CampaignRows
    BY DEF TypeOK, StoreTypeOK, CampaignRows
  <2> DEFINE row == [campaign[c] EXCEPT !.status = "RUNNING"]
  <2>3. row \in CampaignRows /\ row.status = "RUNNING"
    BY <2>2 DEF CampaignRows, CampaignStatuses
  <2>4. campaign' = [campaign EXCEPT ![c] = row]
    BY <2>1
  <2> HIDE DEF row
  <2> QED BY <2>1, <2>3, <2>4 DEF CampaignMoves, TypeOK
<1>2. ASSUME NEW c \in Campaigns, ResumeCampaign(c) \/ PauseCampaign(c) \/ CancelCampaign(c)
      PROVE  G
  <2>1. /\ \E to \in {"RUNNING", "PAUSED", "CANCELLED"} : \E why \in PauseReasons :
              campaign' = [campaign EXCEPT ![c] = [status |-> to, reason |-> why]]
        /\ halted' \subseteq Campaigns
    BY <1>2 DEF ResumeCampaign, PauseCampaign, CancelCampaign, Move, Began, PauseReasons, TypeOK,
                actor
  <2> QED BY <1>v, <2>1
<1>3. ASSUME NEW m \in inbox, HandleFinished(m) PROVE G
  <2>1. m.call \in Calls /\ IsFinished(m.call)
    BY <1>3 DEF HandleFinished, TypeOK, ListsInv, Messages
  <2>2. CampaignOfCall(m.call) \in Campaigns
    BY <1>w, <2>1 DEF Written, IsFinished
  <2>3. UNCHANGED <<campaign, halted>> \/ JudgeBreakers(CampaignOfCall(m.call), m.outcome, log, att)
    BY <1>3 DEF HandleFinished
  <2> QED BY <1>s, <2>2, <2>3, JudgeEffect
<1>4. ASSUME PlaceNoEndpoint PROVE G
  <2>1. CampaignOfCall(cur) \in Campaigns
    BY <1>4, <1>w DEF PlaceNoEndpoint, Placed, CurInv, Written, IsDialing
  <2>2. PICK c \in Campaigns : c = CampaignOfCall(cur)
    BY <2>1
  <2>3. \/ UNCHANGED <<campaign, halted>>
        \/ campaign' = PausedFor(c, "OUTBOUND_NOT_CONFIGURED") /\ halted' = halted \cup {c}
    BY <1>4, <2>2 DEF PlaceNoEndpoint
  <2>4. "OUTBOUND_NOT_CONFIGURED" \in PauseReasons
    BY DEF PauseReasons
  <2> QED BY <1>s, <1>v, <2>3, <2>4 DEF PausedFor, TypeOK
<1>5. ASSUME NEW o, PlaceRefused(o) PROVE G
  <2>1. CampaignOfCall(cur) \in Campaigns
    BY <1>5, <1>w DEF PlaceRefused, Placed, CurInv, Written, IsDialing
  <2>2. UNCHANGED <<campaign, halted>> \/ JudgeBreakers(CampaignOfCall(cur), o, log', att')
    BY <1>5 DEF PlaceRefused, tables
  <2> QED BY <1>s, <2>1, <2>2, JudgeEffect
<1>6. ASSUME EndPass PROVE G
  BY <1>6 DEF EndPass, CampaignMoves, TypeOK
<1>7. ASSUME Crash PROVE G
  BY <1>7 DEF Crash, CampaignMoves, tables
<1>8. ASSUME \/ RecoverAttempts \/ Recovered \/ FinishUnknown \/ BeginPass \/ SkipFinish \/ SkipDone
             \/ LimitBlocks \/ PlaceSent \/ PlaceVoid \/ Restart
             \/ \E x \in Contacts : SkipBegin(x) \/ Admit(x) \/ ImportContact(x) \/ ComesDue(x)
             \/ \E c \in Campaigns : \E inWindow \in SUBSET Due(c) : PickCampaign(c, inWindow)
             \/ \E n \in Numbers : ListNumber(n)
             \/ \E m \in inbox : HandleAnswered(m) \/ HandleListed(m)
             \/ \E k \in todo : RecoverAttempt(k)
             \/ \E k \in Calls : CheckBackstop(k) \/ TouchAges(k)
      PROVE  G
  <2>1. UNCHANGED <<campaign, halted>>
    BY <1>8 DEF RecoverAttempts, Recovered, FinishUnknown, BeginPass, SkipFinish, SkipDone,
                LimitBlocks, PlaceSent, PlaceVoid, Restart, SkipBegin, Admit, Begin, ImportContact,
                Import, ComesDue, PickCampaign, ListNumber, HandleAnswered, HandleListed,
                RecoverAttempt, Reconcile, CheckBackstop, TouchAges, actor, tables
  <2> QED BY <1>s, <2>1
<1>9. ASSUME NEW k \in Calls, CallStep(k) PROVE G
  <2>1. UNCHANGED <<campaign, halted>>
    BY <1>9 DEF CallStep, ChannelUp, PlacementFails, PlacementExpires, Answer, Hangup, WriteCDR,
                 LoseCDR, RecordLead,
                InsertCDR, SetLead, actor, actorButInbox, tables
  <2> QED BY <1>s, <2>1
<1> HIDE DEF G
<1>10. ASSUME Commands PROVE G
  BY <1>1, <1>2, <1>8, <1>10 DEF Commands
<1>11. ASSUME HandleMessage PROVE G
  BY <1>3, <1>8, <1>11 DEF HandleMessage
<1>12. ASSUME PassStep PROVE G
  BY <1>4, <1>5, <1>6, <1>8, <1>12 DEF PassStep
<1>13. G
  BY <1>7, <1>8, <1>9, <1>10, <1>11, <1>12 DEF Next
<1> QED BY <1>13 DEF G

\* What that means for a campaign: it never goes back to DRAFT, and only the end
\* of a pass completes it.
LEMMA CampaignFlow ==
    ASSUME TypeOK, CampaignMoves
    PROVE  /\ campaign' \in [Campaigns -> CampaignRows]
           /\ \A c \in Campaigns : campaign[c].status # "DRAFT" => campaign'[c].status # "DRAFT"
           /\ \A c \in Campaigns : campaign'[c].status = "COMPLETED" =>
                 campaign[c].status = "COMPLETED" \/ (EndPass /\ Complete(c))
<1>t. campaign \in [Campaigns -> CampaignRows]
  BY DEF TypeOK, StoreTypeOK, CampaignRows
<1>1. CASE UNCHANGED campaign
  BY <1>t, <1>1
<1>2. ASSUME NEW c \in Campaigns, NEW row \in CampaignRows,
             row.status \notin {"DRAFT", "COMPLETED"}, campaign' = [campaign EXCEPT ![c] = row]
      PROVE  /\ campaign' \in [Campaigns -> CampaignRows]
             /\ \A d \in Campaigns : campaign[d].status # "DRAFT" => campaign'[d].status # "DRAFT"
             /\ \A d \in Campaigns : campaign'[d].status = "COMPLETED" =>
                   campaign[d].status = "COMPLETED"
  BY <1>t, <1>2
<1>3. CASE EndPass
  <2> DEFINE done == [status |-> "COMPLETED", reason |-> "NONE"]
  <2>1. campaign' = [c \in Campaigns |-> IF Complete(c) THEN done ELSE campaign[c]]
    BY <1>3 DEF EndPass
  <2>2. done \in CampaignRows /\ done.status = "COMPLETED"
    BY DEF CampaignRows, CampaignStatuses, PauseReasons
  <2> HIDE DEF done
  <2> QED BY <1>t, <1>3, <2>1, <2>2
<1> QED BY <1>1, <1>2, <1>3 DEF CampaignMoves

\* No contact is ever removed.
LEMMA PresentStep ==
    ASSUME WorldTypes, BasicInv, Moves
    PROVE  \A y \in Contacts : contact[y].status # "ABSENT" => contact'[y].status # "ABSENT"
<1> DEFINE G == \A y \in Contacts : contact[y].status # "ABSENT" => contact'[y].status # "ABSENT"
<1>0. StoreTypeOK
  BY DEF WorldTypes
<1>1. CASE Quiet
  BY <1>1 DEF Quiet, ContactMoves
<1>2. ASSUME UNCHANGED contact PROVE G
  BY <1>2
<1>3. ASSUME NEW x \in Contacts, Begins(x) PROVE G
  BY <1>0, <1>3, BeginEffect DEF Begins
<1>4. ASSUME NEW k \in Calls, Voids(k) PROVE G
  <2>1. att[k].contact \in Contacts
    BY <1>4, Tracked DEF Voids, Void
  <2> QED BY <1>0, <1>4, <2>1, VoidEffect DEF Voids
<1>5. ASSUME NEW k \in Calls, NEW o \in Outcomes, NEW isMore \in BOOLEAN, Apply(k, o, isMore),
             IsDialing(k) \/ IsTimely(k) \/ writes[k] > 0
      PROVE  G
  <2>1. att[k].contact \in Contacts
    BY <1>5, Tracked
  <2>2. /\ \A y \in Contacts : y # att[k].contact => contact'[y] = contact[y]
        /\ contact'[att[k].contact] = ContactAfter(k, o) \/ contact' = contact
    BY <1>0, <1>5, <2>1, ApplyEffect
  <2>3. contact[att[k].contact].status # "ABSENT" => ContactAfter(k, o).status # "ABSENT"
    BY <1>0, <2>1, AfterIs
  <2> QED BY <2>1, <2>2, <2>3
<1>6. ASSUME NEW k \in Calls, NEW o \in Outcomes,
             \/ Finishes(k, o)
             \/ \E s \in {"missed", "adrift"} : Fails(k, o, s)
             \/ \E isMore \in BOOLEAN : Records(k, o, isMore)
      PROVE  G
  BY <1>5, <1>6 DEF Finishes, Fails, Records, InsertCDR, IsTimely
<1>7. ASSUME NEW k \in Calls, NEW lead \in LeadIntents, Leads(k, lead)
      PROVE  G
  BY <1>7 DEF Leads, SetLead
<1> QED BY <1>1, <1>2, <1>3, <1>4, <1>6, <1>7
        DEF Moves, Lists, Places, Progresses, HangsUp, ComesLate, EndsLate, Loses, Crashes

\* An attempt written by this step is one that Begin wrote, of a contact that is
\* ACTIVE in a campaign that runs; every other one was there before.
LEMMA NewAttempt ==
    ASSUME WorldTypes, BasicInv, Moves, NEW k \in Calls, k \in Written'
    PROVE  \/ /\ k \in Written /\ att'[k].contact = att[k].contact
              /\ IsDialing(k)' => IsDialing(k)
           \/ \E x \in Contacts : /\ att'[k].contact = x /\ contact'[x].status = "ACTIVE"
                                  /\ campaign' = campaign
                                  /\ campaign[CampaignOf[x]].status \notin {"DRAFT", "COMPLETED"}
<1> DEFINE G == \/ /\ k \in Written /\ att'[k].contact = att[k].contact
                   /\ IsDialing(k)' => IsDialing(k)
                \/ \E x \in Contacts :
                      /\ att'[k].contact = x /\ contact'[x].status = "ACTIVE"
                      /\ campaign' = campaign
                      /\ campaign[CampaignOf[x]].status \notin {"DRAFT", "COMPLETED"}
<1>0. StoreTypeOK
  BY DEF WorldTypes
<1>1. ASSUME nAtt' = nAtt PROVE G
  BY <1>1, Flow
<1>2. ASSUME NEW x \in Contacts, Begins(x) PROVE G
  <2>1. /\ nAtt' = nAtt + 1 /\ att'[nAtt + 1].contact = x
        /\ \A j \in Calls : j # nAtt + 1 => att'[j] = att[j]
        /\ contact'[x].status = contact[x].status
    BY <1>0, <1>2, BeginEffect DEF Begins
  <2>2. /\ contact[x].status = "ACTIVE" /\ campaign' = campaign
        /\ campaign[CampaignOf[x]].status \notin {"DRAFT", "COMPLETED"}
    BY <1>2 DEF Begins, Begin, CanBegin
  <2>3. CASE k = nAtt + 1
    BY <2>1, <2>2, <2>3
  <2>4. CASE k # nAtt + 1
    BY <2>1, <2>4 DEF Written, IsDialing
  <2> QED BY <2>3, <2>4
<1>3. ASSUME NEW j \in Calls, Voids(j) PROVE G
  <2>1. att[j].contact \in Contacts
    BY <1>3, Tracked DEF Voids, Void
  <2>2. att'[j] = NoAttempt /\ \A i \in Calls : i # j => att'[i] = att[i]
    BY <1>0, <1>3, <2>1, VoidEffect DEF Voids
  <2>3. k # j
    BY <2>2 DEF Written, NoAttempt
  <2> QED BY <2>2, <2>3 DEF Written, IsDialing
<1> HIDE DEF G
<1>4. G
  BY <1>1, <1>2, <1>3 DEF Moves, Quiet, Lists, Finishes, Places, Progresses, HangsUp, Fails,
                          Records, ComesLate, EndsLate, Loses, Leads, Crashes, Apply, InsertCDR, SetLead
<1> QED BY <1>4 DEF G

PassRows == [ live : SUBSET Campaigns, open : SUBSET Campaigns, stopped : SUBSET Campaigns,
              ready : [Campaigns -> SUBSET Contacts] ]

\* What a step does to the pass: campaigns are only closed to it until the next
\* one begins, and a turn is given only to an open campaign.
PassMoves ==
    \/ /\ pass'.open \subseteq pass.open
       /\ pc' = "admit" => \/ pc = "admit" /\ turn' = turn
                           \/ turn' \in pass.open /\ campaign' = campaign
       /\ pc' = "admit" => ~EndPass
       /\ EndPass => pass'.open = {}
    \/ BeginPass

\* Between passes no campaign is open and no batch is held.
LEMMA NoPassIs ==
    /\ NoPass \in PassRows /\ NoPass.open = {} /\ NoPass.live = {}
    /\ \A c \in Campaigns : NoPass.ready[c] = {}
BY DEF NoPass, PassRows

\* Every step treats the pass so.
LEMMA PassStepIs ==
    ASSUME TypeOK, BasicInv, CurInv, PassInv, Next
    PROVE  /\ PassMoves /\ pass' \in PassRows /\ turn' \in Campaigns \cup {NoCampaign}
<1> DEFINE G == PassMoves /\ pass' \in PassRows /\ turn' \in Campaigns \cup {NoCampaign}
<1>t. pass \in PassRows /\ turn \in Campaigns \cup {NoCampaign}
  BY DEF TypeOK, PassRows
<1>s. ASSUME UNCHANGED <<pass, turn>>, pc' = "admit" => pc = "admit", ~EndPass PROVE G
  BY <1>s, <1>t DEF PassMoves
<1>1. ASSUME BeginPass PROVE G
  <2> DEFINE live == {c \in Campaigns : IsRunning(c)} \ halted
  <2>1. pass' = [NoPass EXCEPT !.live = live, !.open = live] /\ turn' = turn
    BY <1>1 DEF BeginPass
  <2>2. live \in SUBSET Campaigns
    OBVIOUS
  <2> HIDE DEF live
  <2>3. pass' \in PassRows
    BY <2>1, <2>2, NoPassIs DEF PassRows
  <2> QED BY <1>1, <1>t, <2>1, <2>3 DEF PassMoves
<1>2. ASSUME NEW c \in Campaigns, NEW inWindow \in SUBSET Due(c), PickCampaign(c, inWindow)
      PROVE  G
  <2> DEFINE ready == IF pass.ready[c] = {} THEN inWindow ELSE pass.ready[c]
             open == IF ready = {} THEN pass.open \ {c} ELSE pass.open
  <2>1. ready \in SUBSET Contacts
    BY <1>t DEF PassRows, Due
  <2>2. open \in SUBSET Campaigns /\ open \subseteq pass.open
    BY <1>t DEF PassRows
  <2>3. pass' = [pass EXCEPT !.ready[c] = ready, !.open = open]
    BY <1>2 DEF PickCampaign
  <2>4. /\ c \in pass.open /\ campaign' = campaign
        /\ pc' = "admit" => turn' = c
        /\ turn' \in {NoCampaign, c}
    BY <1>2 DEF PickCampaign, Eligible
  <2>5. pc' # "wait"
    BY <1>2 DEF PickCampaign
  <2> HIDE DEF ready, open
  <2>6. pass' \in PassRows /\ pass'.open = open
    BY <1>t, <2>1, <2>2, <2>3 DEF PassRows
  <2>7. ~EndPass
    BY <2>5 DEF EndPass
  <2> QED BY <2>2, <2>4, <2>6, <2>7 DEF PassMoves
<1>3. ASSUME LimitBlocks PROVE G
  <2> DEFINE open == pass.open \ {turn}
  <2>1. pass' = [pass EXCEPT !.open = open] /\ turn' = NoCampaign /\ pc' = "pick"
    BY <1>3 DEF LimitBlocks
  <2>2. open \in SUBSET Campaigns /\ open \subseteq pass.open
    BY <1>t DEF PassRows
  <2> HIDE DEF open
  <2>3. pass' \in PassRows /\ pass'.open = open
    BY <1>t, <2>1, <2>2 DEF PassRows
  <2>4. ~EndPass
    BY <2>1 DEF EndPass
  <2> QED BY <2>1, <2>2, <2>3, <2>4 DEF PassMoves
<1>4. ASSUME NEW x \in Contacts, Admit(x) PROVE G
  <2>0. turn \in Campaigns
    BY <1>4 DEF Admit, PassInv
  <2> DEFINE rest == pass.ready[turn] \ {x}
  <2>1. pass' = [pass EXCEPT !.ready[turn] = rest] /\ turn' = NoCampaign /\ pc' \in {"place", "pick"}
    BY <1>4 DEF Admit
  <2>2. rest \in SUBSET Contacts
    BY <1>t, <2>0 DEF PassRows
  <2> HIDE DEF rest
  <2>3. pass' \in PassRows /\ pass'.open = pass.open
    BY <1>t, <2>0, <2>1, <2>2 DEF PassRows
  <2>4. ~EndPass
    BY <2>1 DEF EndPass
  <2> QED BY <2>1, <2>3, <2>4 DEF PassMoves
<1>5. ASSUME PlaceNoEndpoint PROVE G
  <2>0. PICK c \in Campaigns : c = CampaignOfCall(cur)
    BY <1>5, StoreAssumption DEF PlaceNoEndpoint, Placed, CurInv, BasicInv, RowsInv, IsDialing,
       StoreAssumption, CampaignOfCall
  <2> DEFINE stopped == pass.stopped \cup {c}
  <2>1. pass' = [pass EXCEPT !.stopped = stopped] /\ turn' = turn /\ pc' = "pick"
    BY <1>5, <2>0 DEF PlaceNoEndpoint, Placed
  <2>2. stopped \in SUBSET Campaigns
    BY <1>t DEF PassRows
  <2> HIDE DEF stopped
  <2>3. pass' \in PassRows /\ pass'.open = pass.open
    BY <1>t, <2>1, <2>2 DEF PassRows
  <2>4. ~EndPass
    BY <2>1 DEF EndPass
  <2> QED BY <1>t, <2>1, <2>3, <2>4 DEF PassMoves
<1>6. ASSUME EndPass PROVE G
  <2>1. pass' = NoPass /\ turn' = turn /\ pc' = "wait"
    BY <1>6 DEF EndPass
  <2> QED BY <1>t, <2>1, NoPassIs DEF PassMoves
<1>7. ASSUME Crash PROVE G
  <2>1. pass' = NoPass /\ turn' = NoCampaign /\ pc' = "down"
    BY <1>7 DEF Crash
  <2> QED BY <1>t, <2>1, NoPassIs DEF PassMoves
<1>8. ASSUME \/ RecoverAttempts \/ Recovered \/ FinishUnknown \/ SkipFinish \/ SkipDone
             \/ PlaceSent \/ PlaceVoid \/ Restart
             \/ \E x \in Contacts : SkipBegin(x)
             \/ \E o : PlaceRefused(o)
             \/ \E k \in todo : RecoverAttempt(k)
             \/ \E k \in Calls : CheckBackstop(k)
      PROVE  G
  <2>1. /\ UNCHANGED <<pass, turn>>
        /\ pc' # "admit" /\ (pc = "pick" => pc' # "wait")
    BY <1>8 DEF RecoverAttempts, Recovered, FinishUnknown, SkipFinish, SkipDone, PlaceSent,
                PlaceVoid, PlaceRefused, Restart, SkipBegin, RecoverAttempt, Reconcile,
                CheckBackstop, Placed
  <2>2. ~EndPass
    BY <2>1 DEF EndPass
  <2> QED BY <1>s, <2>1, <2>2
<1>9. ASSUME UNCHANGED <<pass, turn, pc>> PROVE G
  <2>1. ~EndPass
    BY <1>9 DEF EndPass
  <2> QED BY <1>s, <1>9, <2>1
<1>10. ASSUME Commands PROVE G
  <2>1. UNCHANGED <<pass, turn, pc>>
    BY <1>10 DEF Commands, StartCampaign, ResumeCampaign, PauseCampaign, CancelCampaign,
                 ImportContact, ListNumber, actor
  <2> QED BY <1>9, <2>1
<1>11. ASSUME HandleMessage PROVE G
  <2>1. UNCHANGED <<pass, turn, pc>>
    BY <1>11 DEF HandleMessage, HandleFinished, HandleAnswered, HandleListed
  <2> QED BY <1>9, <2>1
<1>12. ASSUME NEW k \in Calls, CallStep(k) \/ TouchAges(k) PROVE G
  <2>1. UNCHANGED <<pass, turn, pc>>
    BY <1>12 DEF CallStep, ChannelUp, PlacementFails, PlacementExpires, Answer, Hangup, WriteCDR,
                 LoseCDR, RecordLead,
                 TouchAges, actor, actorButInbox
  <2> QED BY <1>9, <2>1
<1>13. ASSUME NEW x \in Contacts, ComesDue(x) PROVE G
  <2>1. UNCHANGED <<pass, turn, pc>>
    BY <1>13 DEF ComesDue, actor
  <2> QED BY <1>9, <2>1
<1> HIDE DEF G
<1>14. ASSUME PassStep PROVE G
  BY <1>1, <1>2, <1>3, <1>4, <1>5, <1>6, <1>8, <1>14 DEF PassStep
<1>15. G
  BY <1>7, <1>8, <1>10, <1>11, <1>12, <1>13, <1>14 DEF Next
<1> QED BY <1>15 DEF G

\* The pass goes on admitting only to campaigns that have started and are not
\* complete: only its end completes one, and that closes all of them.
LEMMA PassKept ==
    ASSUME TypeOK, SpentOK, BasicInv, CurInv, ListsInv, PassInv, ReadyInv, Next
    PROVE  PassInv'
<1>0. WorldTypes
  BY DEF TypeOK, WorldTypes
<1>m. Moves
  BY NextMoves DEF BasicInv
<1>p. PassMoves /\ pass \in PassRows /\ pass' \in PassRows
  BY PassStepIs DEF TypeOK, PassRows
<1>c. /\ \A c \in Campaigns : campaign[c].status # "DRAFT" => campaign'[c].status # "DRAFT"
      /\ \A c \in Campaigns : campaign'[c].status = "COMPLETED" =>
            campaign[c].status = "COMPLETED" \/ (EndPass /\ Complete(c))
  BY CampaignStep, CampaignFlow
<1>i. /\ \A c \in pass.open : campaign[c].status \notin {"DRAFT", "COMPLETED"}
      /\ pc = "admit" => turn \in Campaigns /\ campaign[turn].status \notin {"DRAFT", "COMPLETED"}
  BY DEF PassInv
<1>o. pass.open \subseteq Campaigns /\ pass'.open \subseteq Campaigns
  BY <1>p DEF PassRows
<1> DEFINE G == /\ \A c \in pass'.open : campaign'[c].status \notin {"DRAFT", "COMPLETED"}
                /\ pc' = "admit" => /\ turn' \in Campaigns
                                    /\ campaign'[turn'].status \notin {"DRAFT", "COMPLETED"}
<1>1. ASSUME BeginPass PROVE G
  <2> DEFINE live == {c \in Campaigns : IsRunning(c)} \ halted
  <2>1. pass' = [NoPass EXCEPT !.live = live, !.open = live] /\ campaign' = campaign
        /\ pc' # "admit"
    BY <1>1 DEF BeginPass
  <2>2. pass'.open = live
    BY <2>1, NoPassIs DEF PassRows
  <2>3. \A c \in live : campaign[c].status \notin {"DRAFT", "COMPLETED"}
    BY DEF IsRunning
  <2> QED BY <2>1, <2>2, <2>3
<1>2. ASSUME ~BeginPass PROVE G
  <2>1. /\ pass'.open \subseteq pass.open
        /\ pc' = "admit" => \/ pc = "admit" /\ turn' = turn
                            \/ turn' \in pass.open /\ campaign' = campaign
        /\ pc' = "admit" => ~EndPass
        /\ EndPass => pass'.open = {}
    BY <1>2, <1>p DEF PassMoves
  <2> QED BY <1>c, <1>i, <1>o, <2>1
<1>3. ASSUME NEW k \in Written'
     
  PROVE   contact'[att'[k].contact].status # "ABSENT" /\ campaign'[CampaignOfCall(k)'].status # "DRAFT"
  <2>0. k \in Calls
    BY <1>3 DEF Written
  <2>1. CASE k \in Written /\ att'[k].contact = att[k].contact
    <3>1. att[k].contact \in Contacts /\ CampaignOfCall(k) \in Campaigns
      BY <2>1, StoreAssumption DEF BasicInv, RowsInv, Written, StoreAssumption, CampaignOfCall
    <3>2. CampaignOfCall(k)' = CampaignOfCall(k)
      BY <2>1 DEF CampaignOfCall
    <3>3. contact[att[k].contact].status # "ABSENT" /\ campaign[CampaignOfCall(k)].status # "DRAFT"
      BY <2>1 DEF PassInv
    <3>4. contact'[att[k].contact].status # "ABSENT"
      BY <1>0, <1>m, <3>1, <3>3, PresentStep
    <3> QED BY <1>c, <2>1, <3>1, <3>2, <3>3, <3>4
  <2>2. CASE \E x \in Contacts :
                /\ att'[k].contact = x /\ contact'[x].status = "ACTIVE"
                /\ campaign' = campaign
                /\ campaign[CampaignOf[x]].status \notin {"DRAFT", "COMPLETED"}
    BY <2>2 DEF CampaignOfCall
  <2> QED BY <1>0, <1>m, <1>3, <2>0, <2>1, <2>2, NewAttempt
<1>4. G
  BY <1>1, <1>2
<1> QED BY <1>3, <1>4 DEF PassInv

\* The batch has no open attempt, or its number has been listed.
Ready(x) == IsListed(x) \/ IsClear(x)

ReadyRows == \A c \in Campaigns : \A x \in pass.ready[c] : CampaignOf[x] = c /\ Ready(x)

\* The same invariant, with the condition on a contact named.
LEMMA ReadyIs == ReadyInv <=> ReadyRows
BY DEF ReadyInv, ReadyRows, Ready

\* Only Begin opens an attempt of a contact: numbers stay listed, and an attempt
\* that has been closed stays closed.
LEMMA StillReady ==
    ASSUME WorldTypes, BasicInv, Moves, NEW x \in Contacts, Ready(x)
    PROVE  Ready(x)' \/ Begins(x)
<1>0. StoreTypeOK
  BY DEF WorldTypes
<1>t. att \in [Calls -> AttemptRows] /\ call \in [Calls -> CallStates] /\ writes \in [Calls -> 0..2]
  BY StoreTypes DEF WorldTypes
<1>d. dnc \subseteq dnc'
  <2>1. ASSUME NEW k \in Calls, NEW o \in Outcomes, NEW isMore \in BOOLEAN, Apply(k, o, isMore)
        PROVE  dnc \subseteq dnc'
    BY <2>1 DEF Apply
  <2> QED BY <2>1 DEF Moves, Quiet, Lists, Begins, Begin, Voids, Void, Finishes, Places, Progresses,
             HangsUp, Fails, Records, InsertCDR, ComesLate, EndsLate, Loses, Leads, SetLead, Crashes
<1> DEFINE G == \A k \in AttemptsOf(x)' : k \in AttemptsOf(x) /\ (IsOpen(k)' => IsOpen(k))
<1>g. ASSUME \A k \in Calls :
                /\ att'[k].contact = att[k].contact
                /\ att'[k].state # "NONE" => att[k].state # "NONE"
                /\ att'[k].state = "DIALING" => att[k].state = "DIALING"
                /\ writes'[k] > 0 /\ ~IsLate(k)' => (writes[k] > 0 /\ ~IsLate(k)) \/ IsDialing(k)
      PROVE  G
  BY <1>g DEF AttemptsOf, Written, IsOpen, IsDialing
<1>1. ASSUME UNCHANGED <<att, call, writes>> PROVE G
  BY <1>g, <1>1 DEF IsLate
<1>2. ASSUME NEW y \in Contacts, Begins(y), y # x PROVE G
  <2>1. /\ att'[nAtt + 1].contact = y
        /\ \A j \in Calls : j # nAtt + 1 => att'[j] = att[j]
    BY <1>0, <1>2, BeginEffect DEF Begins
  <2>2. UNCHANGED <<call, writes>>
    BY <1>2 DEF Begins
  <2> QED BY <1>2, <2>1, <2>2 DEF AttemptsOf, Written, IsOpen, IsDialing, IsLate
<1>3. ASSUME NEW k \in Calls, Voids(k) PROVE G
  <2>1. att[k].contact \in Contacts
    BY <1>3, Tracked DEF Voids, Void
  <2>2. att'[k] = NoAttempt /\ \A j \in Calls : j # k => att'[j] = att[j]
    BY <1>0, <1>3, <2>1, VoidEffect DEF Voids
  <2>3. UNCHANGED <<call, writes>> /\ NoAttempt.state = "NONE"
    BY <1>3 DEF Voids, NoAttempt
  <2> QED BY <2>2, <2>3 DEF AttemptsOf, Written, IsOpen, IsDialing, IsLate
<1>4. ASSUME NEW k \in Calls, NEW o \in Outcomes, NEW isMore \in BOOLEAN, Apply(k, o, isMore),
             IsDialing(k) \/ IsTimely(k) \/ writes[k] > 0,
             \A j \in Calls : writes'[j] > 0 => writes[j] > 0,
             UNCHANGED call \/ (call[k] = "placing" /\ \A j \in Calls : j # k => call'[j] = call[j])
      PROVE  G
  <2>1. att[k].contact \in Contacts /\ att[k].state # "NONE"
    BY <1>4, Tracked DEF Written
  <2>2. /\ \A j \in Calls : att'[j].contact = att[j].contact
        /\ \A j \in Calls : j # k => att'[j] = att[j]
        /\ att'[k].state = "FINISHED"
    BY <1>0, <1>4, <2>1, ApplyEffect
  <2>3. \A j \in Calls : writes'[j] > 0 /\ ~IsLate(j)' => writes[j] > 0 /\ ~IsLate(j)
    BY <1>4 DEF IsLate
  <2> HIDE DEF G
  <2> QED BY <1>g, <2>1, <2>2, <2>3
<1>5. ASSUME NEW k \in Calls, NEW o \in Outcomes,
             \/ Finishes(k, o)
             \/ \E s \in {"missed", "adrift"} : Fails(k, o, s)
             \/ \E isMore \in BOOLEAN : Records(k, o, isMore)
      PROVE  G
  <2> HIDE DEF G
  <2>1. CASE Finishes(k, o)
    BY <1>4, <2>1 DEF Finishes
  <2>2. ASSUME NEW s \in {"missed", "adrift"}, Fails(k, o, s) PROVE G
    <3>1. /\ call[k] = "placing" /\ Apply(k, o, FALSE) /\ UNCHANGED writes
          /\ \A j \in Calls : j # k => call'[j] = call[j]
      BY <1>t, <2>2 DEF Fails, InsertCDR
    <3> QED BY <1>4, <3>1 DEF IsTimely
  <2>3. ASSUME NEW isMore \in BOOLEAN, Records(k, o, isMore) PROVE G
    <3>1. /\ writes[k] > 0 /\ Apply(k, o, isMore) /\ UNCHANGED call
          /\ \A j \in Calls : writes'[j] > 0 => writes[j] > 0
      BY <1>t, <2>3 DEF Records, InsertCDR
    <3> QED BY <1>4, <3>1
  <2> QED BY <1>5, <2>1, <2>2, <2>3
<1>6. ASSUME NEW k \in Calls,
             \/ Places(k)
             \/ \E s \in {"ringing", "talking", "missed", "adrift"} : Progresses(k, s)
             \/ \E s \in {"missed", "taken"}, n \in 0..2 : HangsUp(k, s, n)
             \/ ComesLate(k)
             \/ \E n \in 0..2 : EndsLate(k, n)
      PROVE  G
  <2>1. /\ UNCHANGED att
        /\ \A j \in Calls : j # k => call'[j] = call[j] /\ writes'[j] = writes[j]
    BY <1>t, <1>6 DEF Places, Progresses, HangsUp, ComesLate, EndsLate
  <2>2. writes'[k] > 0 /\ ~IsLate(k)' => (writes[k] > 0 /\ ~IsLate(k)) \/ IsDialing(k)
    <3>1. CASE IsDialing(k)
      BY <3>1
    <3>2. CASE ~IsDialing(k)
      <4>1. ~IsTimely(k)
        BY <3>2 DEF BasicInv, LiveIsDialing, IsTimely, IsLive, IsLate
      <4>2. IsLate(k)'
        BY <1>t, <1>6, <3>2, <4>1
          DEF Places, Progresses, HangsUp, ComesLate, EndsLate, IsLate
      <4> QED BY <4>2
    <3> QED BY <3>1, <3>2
  <2>3. \A j \in Calls : writes'[j] > 0 /\ ~IsLate(j)' => (writes[j] > 0 /\ ~IsLate(j)) \/ IsDialing(j)
    BY <2>1, <2>2 DEF IsLate
  <2> HIDE DEF G
  <2> QED BY <1>g, <2>1, <2>3
<1>7. ASSUME NEW k \in Calls, Loses(k) PROVE G
  <2>1. UNCHANGED <<att, call>> /\ \A j \in Calls : writes'[j] > 0 => writes[j] > 0
    BY <1>t, <1>7 DEF Loses
  <2> HIDE DEF G
  <2> QED BY <1>g, <2>1 DEF IsLate
<1>8. ASSUME NEW k \in Calls, NEW lead \in LeadIntents, Leads(k, lead) PROVE G
  <2>1. \A j \in Calls : att'[j].state = att[j].state /\ att'[j].contact = att[j].contact
    BY <1>0, <1>8, LeadEffect DEF Leads
  <2>2. UNCHANGED <<call, writes>>
    BY <1>8 DEF Leads
  <2> HIDE DEF G
  <2> QED BY <1>g, <2>1, <2>2 DEF IsLate
<1>9. ASSUME Crashes PROVE G
  <2>1. UNCHANGED att /\ \A j \in Calls : writes'[j] = 0
    BY <1>9 DEF Crashes
  <2> HIDE DEF G
  <2> QED BY <1>g, <2>1
<1> HIDE DEF G
<1>10. G \/ Begins(x)
  BY <1>1, <1>2, <1>3, <1>5, <1>6, <1>7, <1>8, <1>9 DEF Moves, Quiet, Lists
<1>11. CASE IsListed(x)
  BY <1>d, <1>11 DEF Ready, IsListed
<1>12. CASE IsClear(x)
  BY <1>10, <1>12 DEF Ready, IsClear, G
<1> QED BY <1>11, <1>12 DEF Ready

\* What was found ready stays ready: only the actor begins an attempt, and takes
\* the contact it claims off the batch. A contact that is due has no open attempt
\* unless it is listed, so a new batch is ready.
LEMMA ReadyStep ==
    ASSUME TypeOK, SpentOK, BasicInv, OpenInv, CurInv, ListsInv, PassInv, ReadyInv, Next
    PROVE  ReadyInv'
<1>0. StoreTypeOK /\ WorldTypes
  BY DEF TypeOK, WorldTypes
<1>m. Moves
  BY NextMoves DEF BasicInv
<1>r. /\ \A c \in Campaigns : \A x \in pass.ready[c] : CampaignOf[x] = c /\ Ready(x)
  BY ReadyIs DEF ReadyRows
<1>t. pass \in PassRows /\ \A c \in Campaigns : pass.ready[c] \subseteq Contacts
  BY DEF TypeOK, PassRows
<1>c. contact \in [Contacts -> ContactRows]
  BY <1>0, StoreTypes
<1>b. nAtt \in Nat /\ nAtt # nAtt + 1 /\ nAtt - 1 # nAtt + 1 /\ nAtt - 1 # nAtt
  BY <1>0, StoreAssumption DEF StoreTypeOK, StoreAssumption
<1>e. \A x \in Contacts : Begin(x) \/ Begins(x) => nAtt' = nAtt + 1
  BY DEF Begin, Begins
<1>n. ASSUME pass' = NoPass \/ BeginPass PROVE ReadyRows'
  <2>1. \A c \in Campaigns : pass'.ready[c] = {}
    <3>1. CASE pass' = NoPass
      BY <3>1, NoPassIs
    <3>2. CASE BeginPass
      <4> DEFINE live == {c \in Campaigns : IsRunning(c)} \ halted
      <4>1. pass' = [NoPass EXCEPT !.live = live, !.open = live]
        BY <3>2 DEF BeginPass
      <4> HIDE DEF live
      <4>2. pass'.ready = NoPass.ready
        BY <4>1, NoPassIs DEF PassRows
      <4> QED BY <4>2, NoPassIs
    <3> QED BY <1>n, <3>1, <3>2
  <2> QED BY <2>1 DEF ReadyRows
<1>k. ASSUME \A c \in Campaigns : pass'.ready[c] \subseteq pass.ready[c],
             \A c \in Campaigns : \A x \in pass'.ready[c] : ~Begins(x) \/ IsListed(x)
      PROVE  ReadyRows'
  <2>d. ASSUME NEW x \in Contacts, Begins(x), IsListed(x) PROVE Ready(x)'
    BY <2>d DEF Begins, Begin, Ready, IsListed
  <2>1. ASSUME NEW c \in Campaigns, NEW x \in pass'.ready[c] PROVE CampaignOf[x] = c /\ Ready(x)'
    <3>1. x \in Contacts /\ CampaignOf[x] = c /\ Ready(x)
      BY <1>k, <1>r, <1>t, <2>1
    <3>2. Ready(x)' \/ Begins(x)
      BY <1>0, <1>m, <3>1, StillReady
    <3> QED BY <1>k, <2>1, <2>d, <3>1, <3>2
  <2> QED BY <2>1 DEF ReadyRows
<1>a. ASSUME UNCHANGED <<pass, nAtt>> PROVE ReadyRows'
  <2>1. \A x \in Contacts : ~Begins(x)
    BY <1>a, <1>b, <1>e
  <2>2. \A c \in Campaigns : \A x \in pass'.ready[c] : ~Begins(x)
    BY <1>a, <1>t, <2>1
  <2> QED BY <1>a, <1>k, <2>2
<1>f. ASSUME NEW k \in Written, NEW o \in Outcomes, Finish(k, o), UNCHANGED pass PROVE ReadyRows'
  <2>0. k \in Calls /\ att[k].contact \in Contacts
    BY <1>f DEF Written, BasicInv, RowsInv
  <2>1. nAtt' = nAtt
    BY <1>0, <1>f, <2>0, FinishEnds
  <2> QED BY <1>a, <1>f, <2>1
<1>g. ASSUME NEW k \in Written, NEW next, Reconcile(k, next), UNCHANGED pass PROVE ReadyRows'
  <2>1. CASE ledger[k] # NoCDR /\ Finish(k, ledger[k])
    <3>1. ledger[k] \in Outcomes
      BY <1>0, <2>1 DEF StoreTypeOK, Written
    <3> QED BY <1>f, <1>g, <2>1, <3>1
  <2>2. CASE UNCHANGED tables
    BY <1>a, <1>g, <2>2 DEF tables
  <2> QED BY <1>g, <2>1, <2>2 DEF Reconcile
<1>l. todo \subseteq Written /\ flights \subseteq Written
  BY DEF ListsInv
<1>1. ASSUME NEW c \in Campaigns, StartCampaign(c) PROVE ReadyRows'
  <2>1. UNCHANGED <<pass, nAtt>>
    BY <1>1 DEF StartCampaign, Start
  <2> QED BY <1>a, <2>1
<1>2. ASSUME NEW y \in Contacts, ImportContact(y) \/ ComesDue(y) PROVE ReadyRows'
  <2>1. UNCHANGED <<pass, nAtt>>
    BY <1>2 DEF ImportContact, Import, ComesDue, actor
  <2> QED BY <1>a, <2>1
<1>3. ASSUME \/ \E c \in Campaigns : \/ PauseCampaign(c) \/ ResumeCampaign(c) \/ CancelCampaign(c)
             \/ \E n \in Numbers : ListNumber(n)
             \/ HandleMessage
             \/ \E k \in Calls : TouchAges(k)
             \/ RecoverAttempts \/ Recovered \/ SkipDone \/ PlaceSent \/ Restart
      PROVE  ReadyRows'
  <2>1. UNCHANGED <<pass, contact, nAtt>>
    BY <1>3 DEF PauseCampaign, ResumeCampaign, CancelCampaign, Move, ListNumber, HandleMessage,
                HandleFinished, HandleAnswered, HandleListed, TouchAges, RecoverAttempts, Recovered,
                SkipDone, PlaceSent, Restart, actor, tables
  <2> QED BY <1>a, <2>1
<1>4. ASSUME NEW k \in todo, RecoverAttempt(k) PROVE ReadyRows'
  <2>1. UNCHANGED pass /\ (Reconcile(k, "recoverUnknown") \/ UNCHANGED tables) /\ k \in Written
    BY <1>4, <1>l DEF RecoverAttempt
  <2> QED BY <1>a, <1>g, <2>1 DEF tables
<1>5. ASSUME NEW k \in Calls, CheckBackstop(k) PROVE ReadyRows'
  <2>1. UNCHANGED pass /\ (Reconcile(k, "unknown") \/ UNCHANGED tables) /\ k \in Written
    BY <1>5, <1>l DEF CheckBackstop
  <2> QED BY <1>a, <1>g, <2>1 DEF tables
<1>6. ASSUME FinishUnknown \/ SkipFinish \/ \E o \in Outcomes : PlaceRefused(o) PROVE ReadyRows'
  <2>1. PICK k \in Written : k = cur
    BY <1>6 DEF FinishUnknown, SkipFinish, PlaceRefused, Placed, CurInv, Written, IsDialing
  <2>2. UNCHANGED pass /\ ((\E o \in Outcomes : Finish(cur, o)) \/ UNCHANGED tables)
    BY <1>6 DEF FinishUnknown, SkipFinish, PlaceRefused, Outcomes, ReachedOutcomes
  <2> QED BY <1>a, <1>f, <2>1, <2>2 DEF tables
<1>7. ASSUME NEW x \in Contacts, SkipBegin(x) PROVE ReadyRows'
  <2>1. UNCHANGED pass /\ IsListed(x) /\ Begin(x)
    BY <1>7 DEF SkipBegin, Skippable, DNCContacts, IsListed
  <2>2. \A y \in Contacts : Begins(y) => y = x
    <3>1. ASSUME NEW y \in Contacts, Begins(y) PROVE y = x
      <4>1. att'[nAtt + 1].contact = y /\ att'[nAtt + 1].contact = x
        BY <1>0, <2>1, <3>1, BeginEffect DEF Begins
      <4> QED BY <4>1
    <3> QED BY <3>1
  <2>3. \A c \in Campaigns : \A y \in pass'.ready[c] : ~Begins(y) \/ IsListed(y)
    BY <1>t, <2>1, <2>2
  <2> QED BY <1>k, <2>1, <2>3
<1>8. ASSUME NEW x \in Contacts, Admit(x) PROVE ReadyRows'
  <2>0. turn \in Campaigns /\ x \in pass.ready[turn] /\ CampaignOf[x] = turn
    BY <1>8, <1>r DEF Admit, PassInv
  <2> DEFINE rest == pass.ready[turn] \ {x}
  <2>1. pass' = [pass EXCEPT !.ready[turn] = rest]
    BY <1>8 DEF Admit
  <2>2. \A c \in Campaigns : pass'.ready[c] = IF c = turn THEN rest ELSE pass.ready[c]
    <3> HIDE DEF rest
    <3> QED BY <1>t, <2>0, <2>1 DEF PassRows
  <2>3. \A c \in Campaigns : pass'.ready[c] \subseteq pass.ready[c] /\ x \notin pass'.ready[c]
    BY <1>r, <2>0, <2>2
  <2>4. CASE Begin(x)
    <3>1. \A y \in Contacts : Begins(y) => y = x
      <4>1. ASSUME NEW y \in Contacts, Begins(y) PROVE y = x
        <5>1. att'[nAtt + 1].contact = y /\ att'[nAtt + 1].contact = x
          BY <1>0, <2>4, <4>1, BeginEffect DEF Begins
        <5> QED BY <5>1
      <4> QED BY <4>1
    <3>2. \A c \in Campaigns : \A y \in pass'.ready[c] : ~Begins(y)
      BY <1>t, <2>3, <3>1
    <3> QED BY <1>k, <2>3, <3>2
  <2>5. CASE UNCHANGED tables
    <3>1. \A y \in Contacts : ~Begins(y)
      BY <1>b, <1>e, <2>5 DEF tables
    <3>2. \A c \in Campaigns : \A y \in pass'.ready[c] : ~Begins(y)
      BY <1>t, <2>3, <3>1
    <3> QED BY <1>k, <2>3, <3>2
  <2> QED BY <1>8, <2>4, <2>5 DEF Admit
<1>9. ASSUME LimitBlocks PROVE ReadyRows'
  <2>1. pass' = [pass EXCEPT !.open = @ \ {turn}] /\ nAtt' = nAtt
    BY <1>9 DEF LimitBlocks, tables
  <2>2. pass'.ready = pass.ready
    BY <1>t, <2>1 DEF PassRows
  <2>3. \A y \in Contacts : ~Begins(y)
    BY <1>b, <1>e, <2>1
  <2>4. \A c \in Campaigns : \A y \in pass'.ready[c] : ~Begins(y)
    BY <1>t, <2>2, <2>3
  <2> QED BY <1>k, <2>2, <2>4
<1>10. ASSUME PlaceVoid \/ PlaceNoEndpoint PROVE ReadyRows'
  <2>0. PICK k \in Written : k = cur /\ k \in Calls /\ att[k].contact \in Contacts
    BY <1>10 DEF PlaceVoid, PlaceNoEndpoint, Placed, CurInv, Written, IsDialing, BasicInv, RowsInv
  <2>1. pass' = pass \/ \E c : pass' = [pass EXCEPT !.stopped = @ \cup {c}]
    BY <1>10 DEF PlaceVoid, PlaceNoEndpoint
  <2>2. pass'.ready = pass.ready
    BY <1>t, <2>1 DEF PassRows
  <2>3. Void(cur) \/ nAtt' = nAtt
    BY <1>10 DEF PlaceVoid, PlaceNoEndpoint, tables
  <2>4. nAtt' = nAtt - 1 \/ nAtt' = nAtt
    BY <1>0, <2>0, <2>3, VoidEffect
  <2>5. \A y \in Contacts : ~Begins(y)
    BY <1>b, <1>e, <2>4
  <2>6. \A c \in Campaigns : \A y \in pass'.ready[c] : ~Begins(y)
    BY <1>t, <2>2, <2>5
  <2> QED BY <1>k, <2>2, <2>6
<1>11. ASSUME NEW k \in Calls, CallStep(k) PROVE ReadyRows'
  <2>1. nAtt' = nAtt
    BY <1>11, OutsideCalls DEF Outside
  <2>2. UNCHANGED pass
    BY <1>11 DEF CallStep, ChannelUp, PlacementFails, PlacementExpires, Answer, Hangup, WriteCDR,
                 LoseCDR, RecordLead, actor, actorButInbox
  <2> QED BY <1>a, <2>1, <2>2
<1>12. ASSUME NEW c \in Campaigns, NEW inWindow \in SUBSET Due(c), PickCampaign(c, inWindow)
       PROVE  ReadyRows'
  <2> DEFINE ready == IF pass.ready[c] = {} THEN inWindow ELSE pass.ready[c]
             open == IF ready = {} THEN pass.open \ {c} ELSE pass.open
  <2>1. /\ pass' = [pass EXCEPT !.ready[c] = ready, !.open = open]
        /\ UNCHANGED <<att, dnc, call, writes>>
    BY <1>12 DEF PickCampaign
  <2>2. \A d \in Campaigns : pass'.ready[d] = IF d = c THEN ready ELSE pass.ready[d]
    <3> HIDE DEF ready, open
    <3> QED BY <1>t, <2>1 DEF PassRows
  <2>3. \A x \in Contacts : Ready(x) => Ready(x)'
    BY <2>1 DEF Ready, IsListed, IsClear, AttemptsOf, Written, IsOpen, IsDialing, IsLate
  <2>4. ASSUME NEW x \in inWindow PROVE x \in Contacts /\ CampaignOf[x] = c /\ Ready(x)
    <3>1. x \in Contacts /\ CampaignOf[x] = c /\ contact[x].next = "DUE"
      BY <1>12, <2>4 DEF Due, HeldByFrequency, IsDialable
    <3>2. \A k \in AttemptsOf(x) : k \in Written /\ att[k].contact = x /\ OpenAt(k)
      BY DEF OpenInv, AttemptsOf
    <3> QED BY <3>1, <3>2 DEF Ready, IsClear, OpenAt
  <2>5. \A d \in Campaigns : \A x \in pass'.ready[d] : x \in Contacts /\ CampaignOf[x] = d /\ Ready(x)
    BY <1>r, <1>t, <2>2, <2>4
  <2> QED BY <2>3, <2>5 DEF ReadyRows
<1>13. ASSUME EndPass \/ Crash PROVE ReadyRows'
  BY <1>n, <1>13 DEF EndPass, Crash
<1>14. ASSUME PassStep PROVE ReadyRows'
  <2>1. {"DNC_SKIPPED"} \cup (Observed \cap {"INVALID_NUMBER", "ORIGINATE_FAILED"}) \subseteq Outcomes
    BY DEF Outcomes, SystemOutcomes
  <2> QED BY <1>n, <1>3, <1>4, <1>6, <1>7, <1>8, <1>9, <1>10, <1>12, <1>13, <1>14, <2>1 DEF PassStep
<1>15. ReadyRows'
  BY <1>1, <1>2, <1>3, <1>5, <1>11, <1>13, <1>14 DEF Next, Commands
<1> QED BY <1>15 DEF ReadyInv, ReadyRows, Ready

-----------------------------------------------------------------------------
(***************************************************************************)
(* Types.                                                                  *)
(***************************************************************************)
\* The tables and the calls keep their types.
LEMMA RowsTyped ==
    ASSUME WorldTypes, BasicInv, Moves
    PROVE  /\ contact' \in [Contacts -> ContactRows] /\ att' \in [Calls -> AttemptRows]
           /\ nAtt' \in 0..MaxCalls /\ dnc' \subseteq Numbers
           /\ ledger' \in [Calls -> Outcomes \cup {NoCDR}]
           /\ call' \in [Calls -> CallStates] /\ writes' \in [Calls -> 0..2]
<1> DEFINE G == /\ contact' \in [Contacts -> ContactRows] /\ att' \in [Calls -> AttemptRows]
                /\ nAtt' \in 0..MaxCalls /\ dnc' \subseteq Numbers
                /\ ledger' \in [Calls -> Outcomes \cup {NoCDR}]
                /\ call' \in [Calls -> CallStates] /\ writes' \in [Calls -> 0..2]
<1>0. StoreTypeOK
  BY DEF WorldTypes
<1>t. /\ contact \in [Contacts -> ContactRows] /\ att \in [Calls -> AttemptRows]
      /\ nAtt \in 0..MaxCalls /\ dnc \subseteq Numbers
      /\ ledger \in [Calls -> Outcomes \cup {NoCDR}]
      /\ call \in [Calls -> CallStates] /\ writes \in [Calls -> 0..2]
  BY StoreTypes DEF WorldTypes
<1>c. MaxCalls \in Nat /\ Calls = 1..MaxCalls
  BY StoreAssumption DEF StoreAssumption, Calls
<1>s. \A k \in Calls, s \in CallStates : [call EXCEPT ![k] = s] \in [Calls -> CallStates]
  BY <1>t
<1>w. \A k \in Calls, n \in 0..2 : [writes EXCEPT ![k] = n] \in [Calls -> 0..2]
  BY <1>t
<1>d. \A k \in Calls : writes[k] > 0 => [writes EXCEPT ![k] = @ - 1] \in [Calls -> 0..2]
  <2>1. ASSUME NEW k \in Calls, writes[k] > 0 PROVE [writes EXCEPT ![k] = @ - 1] \in [Calls -> 0..2]
    <3>1. writes[k] - 1 \in 0..2
      BY <1>t, <2>1
    <3> QED BY <1>w, <3>1
  <2> QED BY <2>1
<1>1. ASSUME Quiet \/ Lists PROVE G
  BY <1>1, <1>t DEF Quiet, Lists
<1>2. ASSUME NEW x \in Contacts, Begins(x) PROVE G
  <2>1. /\ nAtt + 1 \in Calls /\ nAtt' = nAtt + 1
        /\ att' \in [Calls -> AttemptRows] /\ contact' \in [Contacts -> ContactRows]
    BY <1>0, <1>2, BeginEffect DEF Begins
  <2>2. UNCHANGED <<dnc, ledger, call, writes>>
    BY <1>2 DEF Begins, Begin
  <2>3. nAtt' \in 0..MaxCalls
    BY <1>c, <1>t, <2>1
  <2> QED BY <1>t, <2>1, <2>2, <2>3
<1>3. ASSUME NEW k \in Calls, Voids(k) PROVE G
  <2>1. att[k].contact \in Contacts
    BY <1>3, Tracked DEF Voids, Void
  <2>2. /\ nAtt' \in 0..MaxCalls
        /\ att' \in [Calls -> AttemptRows] /\ contact' \in [Contacts -> ContactRows]
    BY <1>0, <1>3, <2>1, VoidEffect DEF Voids
  <2>3. UNCHANGED <<dnc, ledger, call, writes>>
    BY <1>3 DEF Voids, Void
  <2> QED BY <1>t, <2>2, <2>3
<1>4. ASSUME NEW k \in Calls, NEW o \in Outcomes, NEW isMore \in BOOLEAN, Apply(k, o, isMore),
             IsDialing(k) \/ IsTimely(k) \/ writes[k] > 0
      PROVE  /\ contact' \in [Contacts -> ContactRows] /\ att' \in [Calls -> AttemptRows]
             /\ nAtt' \in 0..MaxCalls /\ dnc' \subseteq Numbers
  <2>1. att[k].contact \in Contacts
    BY <1>4, Tracked
  <2> QED BY <1>0, <1>4, <1>t, <2>1, ApplyEffect
<1>5. ASSUME NEW k \in Calls, NEW o \in Outcomes, Finishes(k, o) PROVE G
  BY <1>4, <1>5, <1>t DEF Finishes
<1>6. ASSUME NEW k \in Calls, NEW o \in Outcomes, NEW s \in {"missed", "adrift"}, Fails(k, o, s)
      PROVE  G
  <2>1. Apply(k, o, FALSE) /\ ledger' \in [Calls -> Outcomes \cup {NoCDR}]
    BY <1>0, <1>6, CDREffect DEF Fails
  <2>2. call' \in [Calls -> CallStates] /\ writes' = writes
    BY <1>6, <1>s DEF Fails, CallStates
  <2>3. IsTimely(k)
    BY <1>6 DEF Fails, IsTimely
  <2> QED BY <1>4, <1>t, <2>1, <2>2, <2>3
<1>7. ASSUME NEW k \in Calls, NEW o \in Outcomes, NEW isMore \in BOOLEAN, Records(k, o, isMore)
      PROVE  G
  <2>1. Apply(k, o, isMore) /\ ledger' \in [Calls -> Outcomes \cup {NoCDR}]
    BY <1>0, <1>7, CDREffect DEF Records
  <2>2. writes[k] > 0 /\ call' = call /\ writes' = [writes EXCEPT ![k] = @ - 1]
    BY <1>7 DEF Records
  <2> QED BY <1>4, <1>d, <1>t, <2>1, <2>2
<1>8. ASSUME NEW k \in Calls, NEW s \in {"ringing", "talking", "missed", "adrift"}, Progresses(k, s)
      PROVE  G
  BY <1>8, <1>s, <1>t DEF Progresses, CallStates
<1>9. ASSUME NEW k \in Calls, NEW s \in {"missed", "taken"}, NEW n \in 0..2, HangsUp(k, s, n)
      PROVE  G
  BY <1>9, <1>s, <1>w, <1>t DEF HangsUp, CallStates
<1>10. ASSUME NEW k \in Calls, Places(k) PROVE G
  BY <1>10, <1>s, <1>t DEF Places, CallStates
<1>11. ASSUME NEW k \in Calls, Loses(k) PROVE G
  BY <1>11, <1>d, <1>t DEF Loses
<1>12. ASSUME NEW k \in Calls, NEW lead \in LeadIntents, Leads(k, lead) PROVE G
  <2>1. att' \in [Calls -> AttemptRows] /\ nAtt' = nAtt
    BY <1>0, <1>12, LeadEffect DEF Leads
  <2> QED BY <1>12, <1>t, <2>1 DEF Leads, SetLead
<1>13. ASSUME Crashes PROVE G
  <2>1. writes' \in [Calls -> 0..2] /\ call' \in [Calls -> CallStates]
    BY <1>13, <1>t DEF Crashes, CallStates
  <2> QED BY <1>13, <1>t, <2>1 DEF Crashes
<1>15. ASSUME NEW k \in Calls, ComesLate(k) \/ \E n \in 0..2 : EndsLate(k, n) PROVE G
  <2>1. "late" \in CallStates /\ "over" \in CallStates
    BY DEF CallStates
  <2> QED BY <1>15, <1>s, <1>w, <1>t, <2>1 DEF ComesLate, EndsLate
<1> HIDE DEF G
<1>14. G
  BY <1>1, <1>2, <1>3, <1>5, <1>6, <1>7, <1>8, <1>9, <1>10, <1>11, <1>12, <1>13, <1>15 DEF Moves
<1> QED BY <1>14 DEF G

Points == {"down", "start", "recover", "recoverUnknown", "wait", "unknown", "dnc", "skip",
           "pick", "admit", "place"}

\* The rest of the actor's memory and the two tables that only grow.
LocalTypes ==
    /\ pc \in Points /\ cur \in 0..MaxCalls
    /\ dncDirty \in BOOLEAN
    /\ since \in [Campaigns -> Nat] /\ begunAt \in [Campaigns -> Nat]
    /\ inbox \subseteq Messages
    /\ log \in Seq(Calls) /\ aged \subseteq Calls

SpentMoves ==
    \/ UNCHANGED spent \/ StoreFails
    \/ spent.voids < Bound.voids /\ spent' = [spent EXCEPT !.voids = @ + 1]
    \/ spent.crashes < Bound.crashes /\ spent' = [spent EXCEPT !.crashes = @ + 1]

\* What may fail is counted against the scenario.
LEMMA SpentStep ==
    ASSUME TypeOK, SpentOK, SpentMoves
    PROVE  /\ SpentOK' /\ (spent'.errors = 0 => spent.errors = 0)
           /\ (/\ spent.crashes <= Bound.crashes /\ spent.errors <= Bound.errors
               /\ spent.voids <= Bound.voids)'
<1>1. /\ spent.scenario \in Scenarios /\ spent.crashes \in Nat /\ spent.errors \in Nat
      /\ spent.voids \in Nat
  BY DEF SpentOK
<1>2. Bound.crashes \in Nat /\ Bound.errors \in Nat /\ Bound.voids \in Nat
  BY Bounds
<1>3. /\ spent.crashes <= Bound.crashes /\ spent.errors <= Bound.errors /\ spent.voids <= Bound.voids
  BY DEF TypeOK
<1>4. CASE UNCHANGED spent
  BY <1>3, <1>4 DEF SpentOK, Bound
<1>5. CASE StoreFails
  <2> DEFINE n == spent.errors + 1
  <2>1. n \in Nat /\ n <= Bound.errors /\ n # 0
    BY <1>1, <1>2, <1>5 DEF StoreFails
  <2>2. spent' = [spent EXCEPT !.errors = n]
    BY <1>5 DEF StoreFails
  <2> HIDE DEF n
  <2>3. /\ SpentOK' /\ spent'.errors = n /\ spent'.scenario = spent.scenario
        /\ spent'.crashes = spent.crashes /\ spent'.voids = spent.voids
    BY <2>1, <2>2 DEF SpentOK
  <2> QED BY <1>3, <2>1, <2>3 DEF Bound
<1>6. CASE spent.voids < Bound.voids /\ spent' = [spent EXCEPT !.voids = @ + 1]
  <2> DEFINE n == spent.voids + 1
  <2>1. n \in Nat /\ n <= Bound.voids
    BY <1>1, <1>2, <1>6
  <2>2. spent' = [spent EXCEPT !.voids = n]
    BY <1>6
  <2> HIDE DEF n
  <2>3. /\ SpentOK' /\ spent'.voids = n /\ spent'.scenario = spent.scenario
        /\ spent'.crashes = spent.crashes /\ spent'.errors = spent.errors
    BY <2>1, <2>2 DEF SpentOK
  <2> QED BY <1>3, <2>1, <2>3 DEF Bound
<1>7. CASE spent.crashes < Bound.crashes /\ spent' = [spent EXCEPT !.crashes = @ + 1]
  <2> DEFINE n == spent.crashes + 1
  <2>1. n \in Nat /\ n <= Bound.crashes
    BY <1>1, <1>2, <1>7
  <2>2. spent' = [spent EXCEPT !.crashes = n]
    BY <1>7
  <2> HIDE DEF n
  <2>3. /\ SpentOK' /\ spent'.crashes = n /\ spent'.scenario = spent.scenario
        /\ spent'.voids = spent.voids /\ spent'.errors = spent.errors
    BY <2>1, <2>2 DEF SpentOK
  <2> QED BY <1>3, <2>1, <2>3 DEF Bound
<1> QED BY <1>4, <1>5, <1>6, <1>7 DEF SpentMoves

\* The rest of the memory keeps its types.
LEMMA LocalStep ==
    ASSUME TypeOK, SpentOK, BasicInv, CurInv, ListsInv, Next
    PROVE  LocalTypes' /\ SpentMoves
<1> DEFINE G == LocalTypes' /\ SpentMoves
<1>0. StoreTypeOK /\ WorldTypes
  BY DEF TypeOK, WorldTypes
<1>i. LocalTypes
  BY DEF TypeOK, StoreTypeOK, LocalTypes, Points
<1>c. MaxCalls \in Nat /\ Calls = 1..MaxCalls /\ 0 \in 0..MaxCalls /\ \A k \in Calls : k \in 0..MaxCalls
  BY StoreAssumption DEF StoreAssumption, Calls
<1>w. \A k \in Written : k \in Calls /\ att[k].contact \in Contacts
  BY DEF BasicInv, RowsInv, Written
<1>l. Len(log) \in Nat
  BY <1>i DEF LocalTypes
<1>a. ASSUME NEW k \in Calls, log' = log \/ log' = Append(log, k) PROVE log' \in Seq(Calls)
  <2>1. log \in Seq(Calls)
    BY <1>i DEF LocalTypes
  <2> QED BY <1>a, <2>1
<1>s. ASSUME UNCHANGED <<dncDirty, since, begunAt, log, aged>>, pc' \in Points, cur' \in 0..MaxCalls,
             inbox' \subseteq Messages, SpentMoves
      PROVE  G
  BY <1>s, <1>i DEF LocalTypes
<1>f. ASSUME NEW k \in Written, NEW o \in Outcomes, Finish(k, o),
             inbox' = inbox \cup AnnouncedByFinish(k, o)
      PROVE  log' \in Seq(Calls) /\ aged' = aged /\ inbox' \subseteq Messages
  <2>0. k \in Calls /\ att[k].contact \in Contacts
    BY <1>w
  <2>1. \A m \in AnnouncedByFinish(k, o) : m \in Messages
    BY <1>0, <1>f, <2>0, FinishEnds
  <2>2. log' = log \/ log' = Append(log, k)
    BY <1>f DEF Finish, Apply
  <2>3. aged' = aged
    BY <1>f DEF Finish, Apply
  <2>4. log' \in Seq(Calls)
    BY <1>a, <2>0, <2>2
  <2> QED BY <1>f, <1>i, <2>1, <2>3, <2>4 DEF LocalTypes
<1>r. ASSUME NEW k \in Written, NEW next \in Points, Reconcile(k, next)
      PROVE  /\ log' \in Seq(Calls) /\ aged' = aged /\ inbox' \subseteq Messages
             /\ pc' \in Points /\ cur' \in 0..MaxCalls
  <2>1. CASE ledger[k] # NoCDR /\ Finish(k, ledger[k]) /\ UNCHANGED <<pc, cur>>
             /\ inbox' = inbox \cup AnnouncedByFinish(k, ledger[k])
    <3>1. ledger[k] \in Outcomes
      BY <1>0, <1>w, <2>1 DEF StoreTypeOK
    <3> QED BY <1>f, <1>i, <2>1, <3>1 DEF LocalTypes
  <2>2. CASE pc' = next /\ cur' = k /\ UNCHANGED <<tables, inbox>>
    BY <1>c, <1>i, <1>w, <2>2 DEF LocalTypes, tables
  <2> QED BY <1>r, <2>1, <2>2 DEF Reconcile
<1>1. ASSUME NEW c \in Campaigns, StartCampaign(c) \/ ResumeCampaign(c) PROVE G
  <2>1. /\ Began(c) /\ UNCHANGED <<pc, cur, inbox, log, aged, spent>>
    BY <1>1 DEF StartCampaign, ResumeCampaign, Start, Move
  <2>2. since' \in [Campaigns -> Nat] /\ begunAt' \in [Campaigns -> Nat] /\ dncDirty' \in BOOLEAN
    BY <1>i, <1>l, <2>1 DEF Began, LocalTypes
  <2> QED BY <1>i, <2>1, <2>2 DEF LocalTypes, SpentMoves
<1>2. ASSUME \/ \E c \in Campaigns : PauseCampaign(c) \/ CancelCampaign(c)
             \/ \E x \in Contacts : ImportContact(x) \/ ComesDue(x)
             \/ \E m \in inbox : HandleFinished(m) \/ HandleAnswered(m)
             \/ \E k \in Calls : ChannelUp(k) \/ Hangup(k) \/ \E lead \in Bound.leads : RecordLead(k, lead)
      PROVE  G
  <2>1. /\ UNCHANGED <<dncDirty, since, begunAt, log, aged, pc, cur, spent>>
        /\ inbox' \subseteq inbox
    BY <1>2
      DEF PauseCampaign, CancelCampaign, Move, ImportContact, Import, ComesDue, HandleFinished,
                HandleAnswered, ChannelUp, Hangup, RecordLead, SetLead, actor, tables
  <2> QED BY <1>s, <1>i, <2>1 DEF LocalTypes, SpentMoves
<1>3. ASSUME NEW n \in Numbers, ListNumber(n) PROVE G
  <2>1. UNCHANGED <<dncDirty, since, begunAt, log, aged, pc, cur, spent>>
        /\ inbox' = inbox \cup {[type |-> "dnc"]}
    BY <1>3 DEF ListNumber
  <2>2. [type |-> "dnc"] \in Messages
    BY DEF Messages
  <2> QED BY <1>s, <1>i, <2>1, <2>2 DEF LocalTypes, SpentMoves
<1>4. ASSUME NEW m \in inbox, HandleListed(m) PROVE G
  <2>1. UNCHANGED <<since, begunAt, log, aged, pc, cur, spent>>
        /\ dncDirty' = TRUE /\ inbox' \subseteq inbox
    BY <1>4 DEF HandleListed, tables
  <2> QED BY <1>i, <2>1 DEF LocalTypes, SpentMoves
<1>5. ASSUME NEW k \in Calls, TouchAges(k) PROVE G
  <2>1. UNCHANGED <<dncDirty, since, begunAt, log, inbox, pc, cur, spent>>
        /\ aged' = aged \cup {k}
    BY <1>5 DEF TouchAges, actor
  <2> QED BY <1>i, <2>1 DEF LocalTypes, SpentMoves
<1>6. ASSUME NEW k \in todo, RecoverAttempt(k) PROVE G
  <2>0. k \in Written /\ "recoverUnknown" \in Points
    BY <1>6 DEF ListsInv, Points
  <2>1. UNCHANGED <<dncDirty, since, begunAt>> /\ SpentMoves
    BY <1>6 DEF RecoverAttempt, SpentMoves
  <2>2. CASE Reconcile(k, "recoverUnknown")
    BY <1>i, <1>r, <2>0, <2>1, <2>2 DEF LocalTypes
  <2>3. CASE UNCHANGED <<tables, inbox, pc, cur>>
    BY <1>s, <1>i, <2>1, <2>3 DEF LocalTypes, tables
  <2> QED BY <1>6, <2>2, <2>3 DEF RecoverAttempt
<1>7. ASSUME NEW k \in Calls, CheckBackstop(k) PROVE G
  <2>0. k \in Written /\ "unknown" \in Points
    BY <1>7 DEF ListsInv, Points, CheckBackstop
  <2>1. UNCHANGED <<dncDirty, since, begunAt>> /\ SpentMoves
    BY <1>7 DEF CheckBackstop, SpentMoves
  <2>2. CASE Reconcile(k, "unknown")
    BY <1>i, <1>r, <2>0, <2>1, <2>2 DEF LocalTypes
  <2>3. CASE UNCHANGED <<tables, inbox, pc, cur>>
    BY <1>s, <1>i, <2>1, <2>3 DEF LocalTypes, tables
  <2> QED BY <1>7, <2>2, <2>3 DEF CheckBackstop
<1>8. ASSUME FinishUnknown \/ SkipFinish \/ \E o \in Outcomes : PlaceRefused(o) PROVE G
  <2>1. PICK k \in Written : k = cur
    BY <1>8 DEF FinishUnknown, SkipFinish, PlaceRefused, Placed, CurInv, Written, IsDialing
  <2>2. /\ UNCHANGED <<dncDirty, since, begunAt>> /\ SpentMoves /\ cur' = 0 /\ pc' \in Points
        /\ \/ \E o \in Outcomes : /\ Finish(cur, o)
                                  /\ inbox' = inbox \cup AnnouncedByFinish(cur, o)
           \/ UNCHANGED <<tables, inbox>>
    BY <1>8
      DEF FinishUnknown, SkipFinish, PlaceRefused, Placed, Outcomes, ReachedOutcomes, SpentMoves,
                Points
  <2>3. CASE \E o \in Outcomes : /\ Finish(cur, o)
                                 /\ inbox' = inbox \cup AnnouncedByFinish(cur, o)
    BY <1>c, <1>f, <1>i, <2>1, <2>2, <2>3 DEF LocalTypes
  <2>4. CASE UNCHANGED <<tables, inbox>>
    BY <1>c, <1>s, <1>i, <2>2, <2>4 DEF LocalTypes, tables
  <2> QED BY <2>2, <2>3, <2>4
<1>9. ASSUME \/ RecoverAttempts \/ Recovered \/ SkipDone \/ LimitBlocks \/ EndPass \/ Restart
             \/ PlaceSent \/ PlaceVoid \/ PlaceNoEndpoint
             \/ \E c \in Campaigns : \E inWindow \in SUBSET Due(c) : PickCampaign(c, inWindow)
      PROVE  G
  <2>1. /\ UNCHANGED <<dncDirty, since, begunAt, log, aged, inbox>> /\ SpentMoves
        /\ pc' \in Points /\ (cur' = cur \/ cur' = 0)
    BY <1>9 DEF RecoverAttempts, Recovered, SkipDone, LimitBlocks, EndPass, Restart, PlaceSent,
                PlaceVoid, PlaceNoEndpoint, Placed, PickCampaign, Void, Points, SpentMoves, tables
  <2> QED BY <1>c, <1>s, <1>i, <2>1 DEF LocalTypes
<1>10. ASSUME BeginPass PROVE G
  <2>1. /\ UNCHANGED <<since, begunAt, log, aged, inbox, cur, spent>>
        /\ dncDirty' = FALSE /\ pc' \in Points
    BY <1>10 DEF BeginPass, Points
  <2> QED BY <1>i, <2>1 DEF LocalTypes, SpentMoves
<1>11. ASSUME NEW x \in Contacts, SkipBegin(x) \/ Admit(x) PROVE G
  <2>1. /\ UNCHANGED <<dncDirty, since, begunAt, log, aged, inbox, spent>>
        /\ pc' \in Points /\ (cur' = cur \/ (cur' = nAtt + 1 /\ Begin(x)))
    BY <1>11 DEF SkipBegin, Admit, Begin, Points, tables
  <2>2. cur' \in 0..MaxCalls
    <3>1. Begin(x) => nAtt + 1 \in Calls
      BY <1>0, BeginEffect
    <3> QED BY <1>c, <1>i, <2>1, <3>1 DEF LocalTypes
  <2> QED BY <1>s, <1>i, <2>1, <2>2 DEF LocalTypes, SpentMoves
<1>12. ASSUME Crash PROVE G
  <2>1. /\ UNCHANGED <<begunAt, log, aged>> /\ SpentMoves /\ dncDirty' = TRUE /\ pc' = "down"
        /\ cur' = 0 /\ inbox' = {} /\ since' = [c \in Campaigns |-> 0]
    BY <1>12 DEF Crash, SpentMoves, tables
  <2> QED BY <1>c, <1>i, <2>1 DEF LocalTypes, Points
<1>13. ASSUME NEW k \in Calls, \/ PlacementFails(k) \/ PlacementExpires(k)
                                \/ Answer(k) \/ WriteCDR(k) \/ LoseCDR(k)
       PROVE  G
  <2>0. Outside
    BY <1>13, OutsideCalls DEF CallStep
  <2>1. /\ UNCHANGED <<dncDirty, since, begunAt, pc, cur>>
    BY <1>13 DEF PlacementFails, PlacementExpires, Answer, WriteCDR, LoseCDR, actor, actorButInbox
  <2>2. SpentMoves
    BY <1>13 DEF PlacementFails, PlacementExpires, Answer, WriteCDR, LoseCDR, SpentMoves
  <2>3. inbox' \subseteq Messages
    BY <1>i, <2>0 DEF Outside, LocalTypes
  <2>4. aged' = aged /\ (log' = log \/ log' = Append(log, k))
    BY <1>13
       DEF PlacementFails, PlacementExpires, Answer, WriteCDR, LoseCDR, InsertCDR, Apply, tables
  <2>5. log' \in Seq(Calls)
    BY <1>a, <2>4
  <2> QED BY <1>i, <2>1, <2>2, <2>3, <2>4, <2>5 DEF LocalTypes
<1> HIDE DEF G
<1>14. ASSUME PassStep PROVE G
  <2>1. {"DNC_SKIPPED"} \cup (Observed \cap {"INVALID_NUMBER", "ORIGINATE_FAILED"}) \subseteq Outcomes
    BY DEF Outcomes, SystemOutcomes
  <2> QED BY <1>6, <1>8, <1>9, <1>10, <1>11, <1>14, <2>1 DEF PassStep
<1>15. ASSUME NEW k \in Calls, CallStep(k) PROVE G
  BY <1>2, <1>13, <1>15 DEF CallStep
<1>16. G
  BY <1>1, <1>2, <1>3, <1>4, <1>5, <1>7, <1>9, <1>12, <1>14, <1>15 DEF Next, Commands, HandleMessage
<1> QED BY <1>16 DEF G

\* Type correctness is kept.
LEMMA TypeStep ==
    ASSUME TypeOK, SpentOK, BasicInv, CurInv, ListsInv, WatchInv, PassInv, ReadyInv, CountInv, Next
    PROVE  TypeOK' /\ SpentOK'
<1>0. WorldTypes
  BY DEF TypeOK, WorldTypes
<1>m. Moves
  BY NextMoves DEF BasicInv
<1>1. /\ contact' \in [Contacts -> ContactRows] /\ att' \in [Calls -> AttemptRows]
      /\ nAtt' \in 0..MaxCalls /\ dnc' \subseteq Numbers
      /\ ledger' \in [Calls -> Outcomes \cup {NoCDR}]
      /\ call' \in [Calls -> CallStates] /\ writes' \in [Calls -> 0..2]
  BY <1>0, <1>m, RowsTyped
<1>2. LocalTypes' /\ SpentMoves
  BY LocalStep
<1>3. /\ SpentOK'
      /\ (/\ spent.crashes <= Bound.crashes /\ spent.errors <= Bound.errors
          /\ spent.voids <= Bound.voids)'
  BY <1>2, SpentStep
<1>4. campaign' \in [Campaigns -> CampaignRows] /\ halted' \subseteq Campaigns
  BY CampaignStep, CampaignFlow
<1>5. pass' \in PassRows /\ turn' \in Campaigns \cup {NoCampaign}
  BY PassStepIs
<1>6. flights' \subseteq Calls /\ answered' \subseteq flights' /\ count' \in Tallies
  BY CountStep DEF CountInv
<1>7. todo' \subseteq Calls
  BY ActorStep DEF ListsInv, Written
<1>8. StoreTypeOK'
  BY <1>1, <1>2, <1>4 DEF StoreTypeOK, ContactRows, AttemptRows, CampaignRows, LocalTypes
<1> QED BY <1>1, <1>2, <1>3, <1>4, <1>5, <1>6, <1>7, <1>8
        DEF TypeOK, LocalTypes, Points, PassRows, Tallies

-----------------------------------------------------------------------------
(***************************************************************************)
(* Completion.                                                             *)
(***************************************************************************)
\* A campaign is completed when the actor counts no flight of it. The counters
\* agree with the flights, every attempt in flight is one of them, and nothing is
\* begun for a completed campaign.
LEMMA QuietStep ==
    ASSUME TypeOK, SpentOK, BasicInv, CurInv, ListsInv, WatchInv, PassInv, ReadyInv, CountInv,
           CompletedIsQuiet, Next
    PROVE  CompletedIsQuiet'
<1>0. WorldTypes
  BY DEF TypeOK, WorldTypes
<1>m. Moves
  BY NextMoves DEF BasicInv
<1>b. LiveIsDialing'
  BY <1>0, <1>m, BasicStep DEF BasicInv
<1> SUFFICES ASSUME spent'.errors = 0, NEW k \in Written', IsDialing(k)',
                    campaign'[CampaignOfCall(k)'].status = "COMPLETED"
             PROVE  FALSE
  <2>1. \A k \in Written' : k \in Calls
    BY DEF Written
  <2> QED BY <1>b, <2>1 DEF CompletedIsQuiet, LiveIsDialing, IsLive, IsLate
<1>1. k \in Calls
  BY DEF Written
<1>2. spent.errors = 0
  BY LocalStep, SpentStep
<1>3. CASE \E x \in Contacts : /\ att'[k].contact = x /\ campaign' = campaign
                               /\ campaign[CampaignOf[x]].status \notin {"DRAFT", "COMPLETED"}
  BY <1>3 DEF CampaignOfCall
<1>4. CASE k \in Written /\ att'[k].contact = att[k].contact /\ IsDialing(k)
  <2>1. PICK c \in Campaigns : c = CampaignOfCall(k)
    BY <1>4, StoreAssumption DEF BasicInv, RowsInv, Written, StoreAssumption, CampaignOfCall
  <2>2. campaign'[c].status = "COMPLETED"
    BY <1>4, <2>1 DEF CampaignOfCall
  <2>3. campaign[c].status # "COMPLETED"
    BY <1>2, <1>4, <2>1 DEF CompletedIsQuiet
  <2>4. EndPass /\ Complete(c)
    BY <2>2, <2>3, CampaignStep, CampaignFlow
  <2>5. pc = "pick" /\ count.inflight[c] = 0
    BY <2>4 DEF EndPass, Complete
  <2>6. k \in flights
    BY <1>1, <1>2, <1>4, <2>5 DEF WatchInv, ListsInv
  <2>7. k \in InFlight(c) /\ InFlight(c) \in SUBSET Calls
    BY <2>1, <2>6 DEF InFlight, CountInv
  <2>8. Cardinality(InFlight(c)) > 0
    BY <1>1, <2>7, OneCall
  <2>9. count.inflight[c] = Cardinality(InFlight(c))
    BY DEF CountInv, CountersAgree, InFlight
  <2> QED BY <2>5, <2>8, <2>9
<1> QED BY <1>0, <1>1, <1>3, <1>4, <1>m, NewAttempt

-----------------------------------------------------------------------------
(***************************************************************************)
(* The theorems.                                                           *)
(***************************************************************************)
\* The inductive invariant: types, what the tables say of attempts and calls, of
\* the past of a contact, the actor's own lists, and its counters.
IInv ==
    /\ TypeOK /\ SpentOK
    /\ BasicInv /\ HistoryInv /\ CountedOnce
    /\ CurInv /\ ListsInv /\ WatchInv
    /\ PassInv /\ ReadyInv
    /\ CountInv /\ CompletedIsQuiet

\* It holds of the tables as the migrations leave them and of an actor just made.
LEMMA InitInv ==
    ASSUME Init
    PROVE  IInv
<1>c. MaxCalls \in Nat /\ Calls = 1..MaxCalls
  BY StoreAssumption DEF StoreAssumption, Calls
<1>1. PICK b \in Scenarios : /\ spent = [scenario |-> b, crashes |-> 0, errors |-> 0, voids |-> 0]
                             /\ StoreInit(b.preloaded, b.started)
  BY DEF Init
<1>2. b.crashes \in Nat /\ b.errors \in Nat /\ b.voids \in Nat
  BY DialerAssumption DEF DialerAssumption
<1>3. SpentOK /\ spent.crashes <= Bound.crashes /\ spent.errors <= Bound.errors
      /\ spent.voids <= Bound.voids
  BY <1>1, <1>2 DEF SpentOK, Bound
<1>4. /\ \A k \in Calls : att[k] = NoAttempt /\ ledger[k] = NoCDR
      /\ nAtt = 0 /\ log = <<>> /\ aged = {} /\ dnc = {}
      /\ att = [k \in Calls |-> NoAttempt] /\ ledger = [k \in Calls |-> NoCDR]
  BY <1>1 DEF StoreInit
<1>5. campaign \in [Campaigns -> CampaignRows]
  <2>1. \A s \in {"DRAFT", "RUNNING"} : [status |-> s, reason |-> "NONE"] \in CampaignRows
    BY DEF CampaignRows, CampaignStatuses, PauseReasons
  <2> QED BY <1>1, <2>1 DEF StoreInit
<1>6. /\ contact \in [Contacts -> ContactRows]
      /\ \A x \in Contacts : contact[x].counters = NoneSpent
  <2>1. NoneSpent \in Counters
    BY DEF NoneSpent, Counters
  <2>2. NotImported \in ContactRows /\ NotImported.counters = NoneSpent
    BY <2>1 DEF NotImported, ContactRows, DueTimes
  <2> DEFINE next(x) == IF CampaignOf[x] \in b.started THEN "DUE" ELSE "NULL"
             in(x) == [NotImported EXCEPT !.status = "ACTIVE", !.next = next(x)]
  <2>3. ASSUME NEW x \in Contacts PROVE in(x) \in ContactRows /\ in(x).counters = NoneSpent
    <3>1. next(x) \in DueTimes
      BY DEF DueTimes
    <3> HIDE DEF next
    <3> QED BY <2>2, <3>1 DEF ContactRows, ContactStatuses
  <2>4. contact = [x \in Contacts |-> IF x \in b.preloaded THEN in(x) ELSE NotImported]
    BY <1>1 DEF StoreInit
  <2> HIDE DEF in, next
  <2> QED BY <2>2, <2>3, <2>4
<1>7. StoreTypeOK
  <2>1. NoAttempt \in AttemptRows
    BY DEF NoAttempt, AttemptRows
  <2>2. nAtt \in 0..MaxCalls
    BY <1>c, <1>4
  <2>3. log \in Seq(Calls)
    BY <1>4
  <2> QED BY <1>4, <1>5, <1>6, <2>1, <2>2, <2>3, StoreTypes DEF CampaignRows
<1>8. /\ pc = "start" /\ cur = 0 /\ turn = NoCampaign /\ todo = {} /\ dncDirty = TRUE
      /\ flights = {} /\ answered = {} /\ count = NothingInFlight /\ halted = {}
      /\ since = [c \in Campaigns |-> 0] /\ pass = NoPass /\ inbox = {}
      /\ call = [k \in Calls |-> "none"] /\ writes = [k \in Calls |-> 0]
      /\ begunAt = [c \in Campaigns |-> 0]
  BY DEF Init
<1>9. count \in Tallies /\ pass \in PassRows /\ cur \in 0..MaxCalls
  BY <1>c, <1>8, NoPassIs DEF NothingInFlight, Tallies
<1>10. TypeOK
  <2>1. call \in [Calls -> CallStates] /\ writes \in [Calls -> 0..2]
    BY <1>8 DEF CallStates
  <2>2. since \in [Campaigns -> Nat] /\ begunAt \in [Campaigns -> Nat]
    BY <1>8
  <2> QED BY <1>3, <1>7, <1>8, <1>9, <2>1, <2>2 DEF TypeOK, Tallies, PassRows
<1>11. \A k \in Calls : att[k].state = "NONE" /\ call[k] = "none" /\ writes[k] = 0
  BY <1>4, <1>8 DEF NoAttempt
<1>12. Written = {}
  BY <1>11 DEF Written
<1>13. \A k \in Calls : ~IsDialing(k) /\ ~IsTimely(k)
  BY <1>11 DEF IsDialing, IsTimely
<1>14. RowsInv
  BY <1>c, <1>4, <1>11, <1>13 DEF RowsInv
<1>15. WritesInv /\ LiveIsDialing /\ LedgerAgrees /\ OneDialPerNumber
  BY <1>4, <1>11, <1>13 DEF WritesInv, LiveIsDialing, LedgerAgrees, OneDialPerNumber, IsLive, IsLate
<1>16. HistoryInv
  BY <1>12 DEF HistoryInv, OpenInv, SettledInv, ConclusiveInv, NotCalledAgain, AttemptsOf, IsLate
<1>17. CountedOnce
  <2>1. \A x \in Contacts, class \in {"REACHED", "SYSTEM"} : Charged(x, class) = {}
    BY <1>11 DEF Charged
  <2>2. Cardinality({}) = 0
    BY FS_EmptySet
  <2>3. NoneSpent.attempts = 0 /\ NoneSpent.systemFailures = 0
    BY DEF NoneSpent
  <2>4. \A x \in Contacts : ChargedOnce(x)
    BY <1>6, <2>1, <2>2, <2>3 DEF ChargedOnce
  <2> QED BY <2>4, CountedIs
<1>18. CurInv /\ ListsInv /\ WatchInv
  BY <1>8, <1>12 DEF CurInv, ListsInv, WatchInv
<1>19. PassInv /\ ReadyInv
  BY <1>8, <1>12, NoPassIs DEF PassInv, ReadyInv
<1>20. CountInv
  <2>1. Cardinality({}) = 0
    BY FS_EmptySet
  <2>2. \A c \in Campaigns : {k \in flights : CampaignOfCall(k) = c} = {}
    BY <1>8
  <2>3. /\ \A c \in Campaigns : count.inflight[c] = 0
        /\ count.talking = 0 /\ count.ringing = 0
    BY <1>8 DEF NothingInFlight
  <2>4. CountersAgree
    BY <1>8, <2>1, <2>2, <2>3 DEF CountersAgree
  <2> QED BY <1>8, <1>9, <2>4 DEF CountInv
<1>21. CompletedIsQuiet
  BY <1>12 DEF CompletedIsQuiet
<1> QED BY <1>3, <1>10, <1>14, <1>15, <1>16, <1>17, <1>18, <1>19, <1>20, <1>21 DEF IInv, BasicInv

\* Every step keeps it.
LEMMA NextInv ==
    ASSUME IInv, Next
    PROVE  IInv'
<1>i. /\ TypeOK /\ SpentOK /\ BasicInv /\ HistoryInv /\ CountedOnce /\ CurInv /\ ListsInv
      /\ WatchInv /\ PassInv /\ ReadyInv /\ CountInv /\ CompletedIsQuiet
  BY DEF IInv
<1>0. WorldTypes /\ StartedInv /\ OpenInv
  BY <1>i DEF TypeOK, WorldTypes, PassInv, StartedInv, HistoryInv
<1>m. Moves
  BY <1>i, NextMoves DEF BasicInv
<1>1. TypeOK' /\ SpentOK'
  BY <1>i, TypeStep
<1>2. BasicInv'
  BY <1>i, <1>0, <1>m, BasicStep
<1>3. HistoryInv'
  BY <1>i, <1>0, <1>m, HistoryStep
<1>4. CountedOnce'
  <2>1. \A y \in Contacts : ChargedOnce(y)'
    BY <1>i, <1>0, <1>m, CountedStep
  <2>2. \A x \in Contacts, class \in {"REACHED", "SYSTEM"} :
           {k \in AttemptsOf(x) : IsFinished(k) /\ ClassOf(att[k].outcome) = class}'
              = Charged(x, class)'
    BY DEF AttemptsOf, Written, IsFinished, Charged
  <2> QED BY <2>1, <2>2 DEF CountedOnce, ChargedOnce
<1>5. CurInv' /\ ListsInv' /\ WatchInv'
  BY <1>i, ActorStep
<1>6. PassInv'
  BY <1>i, PassKept
<1>7. ReadyInv'
  BY <1>i, <1>0, ReadyStep
<1>8. CountInv'
  BY <1>i, CountStep
<1>9. CompletedIsQuiet'
  BY <1>i, QuietStep
<1> QED BY <1>1, <1>2, <1>3, <1>4, <1>5, <1>6, <1>7, <1>8, <1>9 DEF IInv

\* The dialer keeps its inductive invariant, in every behaviour.
THEOREM Invariance == Spec => []IInv
<1>1. Init => IInv
  BY InitInv
<1>2. ASSUME IInv, [Next]_vars PROVE IInv'
  <2>1. CASE Next
    BY <1>2, <2>1, NextInv
  <2>2. CASE UNCHANGED vars
    <3>1. UNCHANGED <<campaign, contact, att, nAtt, dnc, ledger, log, aged>>
      BY <2>2 DEF vars, tables
    <3>2. UNCHANGED <<pc, cur, turn, todo, dncDirty, flights, answered, count, halted, since, pass,
                      inbox>>
      BY <2>2 DEF vars, actor
    <3>3. UNCHANGED <<call, writes, spent, begunAt>>
      BY <2>2 DEF vars
    <3>4. (TypeOK /\ SpentOK)'
      BY <1>2, <3>1, <3>2, <3>3 DEF IInv, TypeOK, StoreTypeOK, SpentOK, Bound
    <3>5. BasicInv'
      BY <1>2, <3>1, <3>3 DEF IInv, BasicInv, RowsInv, WritesInv, LiveIsDialing, LedgerAgrees,
         OneDialPerNumber, IsDialing, IsTimely, IsFinished, NumberOfCall, IsLive, IsLate
    <3>6. HistoryInv'
      BY <1>2, <3>1, <3>3 DEF IInv, HistoryInv, OpenInv, OpenAt, SettledInv, ConclusiveInv,
         ConclusiveAt, NotCalledAgain, IsOpen, IsListed, IsConclusive, IsLatest, IsDialing,
         IsFinished, AttemptsOf, Written, IsLate
    <3>7. CountedOnce'
      BY <1>2, <3>1 DEF IInv, CountedOnce, AttemptsOf, Written, IsFinished
    <3>8. (CurInv /\ ListsInv /\ WatchInv)'
      BY <1>2, <3>1, <3>2, <3>3 DEF IInv, CurInv, ListsInv, WatchInv, Written, IsDialing, IsTimely,
         IsFinished
    <3>9. (PassInv /\ ReadyInv)'
      BY <1>2, <3>1, <3>2, <3>3 DEF IInv, PassInv, ReadyInv, Written, CampaignOfCall, IsListed,
         IsClear, AttemptsOf, IsOpen, IsDialing, IsLate
    <3>10. CountInv'
      BY <1>2, <3>1, <3>2 DEF IInv, CountInv, CountersAgree, CampaignOfCall
    <3>11. CompletedIsQuiet'
      BY <1>2, <3>1, <3>3 DEF IInv, CompletedIsQuiet, Written, CampaignOfCall, IsDialing, IsLive,
         IsLate
    <3> QED BY <3>4, <3>5, <3>6, <3>7, <3>8, <3>9, <3>10, <3>11 DEF IInv
  <2> QED BY <1>2, <2>1, <2>2
<1> QED BY <1>1, <1>2, PTL DEF Spec

\* Type correctness, with the tables, the actor's memory and the bounds.
THEOREM TypeCorrect == Spec => []TypeOK
<1>1. IInv => TypeOK
  BY DEF IInv
<1> QED BY <1>1, Invariance, PTL

\* Nothing settles an attempt under a call the switch still carries, but for a
\* call whose originate the switch ran after it had been given up.
THEOREM LiveStaysDialing == Spec => []LiveIsDialing
<1>1. IInv => LiveIsDialing
  BY DEF IInv, BasicInv
<1> QED BY <1>1, Invariance, PTL

\* No number is called twice at once, late calls apart: a live call that ran in
\* time has an attempt in flight, and the unique index admits one of those per
\* number.
THEOREM NumberCalledOnce == Spec => []OneCallPerNumber
<1>1. IInv => OneCallPerNumber
  BY DEF IInv, BasicInv, LiveIsDialing, OneDialPerNumber, OneCallPerNumber, IsLive, IsLate
<1> QED BY <1>1, Invariance, PTL

\* An attempt with a CDR is finished, with the outcome of that CDR.
THEOREM LedgerIsFollowed == Spec => []LedgerAgrees
<1>1. IInv => LedgerAgrees
  BY DEF IInv, BasicInv
<1> QED BY <1>1, Invariance, PTL

\* After a reconciled restart nothing is in flight that the actor does not watch.
THEOREM InFlightIsWatched == Spec => []DialingIsWatched
<1>1. IInv => DialingIsWatched
  <2> SUFFICES ASSUME IInv PROVE DialingIsWatched
    OBVIOUS
  <2>1. WatchInv /\ ListsInv
    BY DEF IInv
  <2> QED BY <2>1 DEF WatchInv, ListsInv, DialingIsWatched
<1> QED BY <1>1, Invariance, PTL

\* The counters the limits are judged by are those of the flights.
THEOREM CountersAreTrue == Spec => []CountersAgree
<1>1. IInv => CountersAgree
  BY DEF IInv, CountInv
<1> QED BY <1>1, Invariance, PTL

\* A call is charged to its contact once, however often its CDR is revised.
THEOREM ChargedExactlyOnce == Spec => []CountedOnce
<1>1. IInv => CountedOnce
  BY DEF IInv
<1> QED BY <1>1, Invariance, PTL

\* A contact recorded as having picked up, or that left a lead, is not called
\* again: its attempt was the latest when that was recorded, and the record ended
\* the contact. (What a crash kept from being recorded is not known to anyone.)
THEOREM NeverCalledAgain == Spec => []NotCalledAgain
<1>1. IInv => NotCalledAgain
  BY DEF IInv, HistoryInv
<1> QED BY <1>1, Invariance, PTL

\* A completed campaign has nothing in flight, and no call in the switch but a
\* late one.
THEOREM CompletedStaysQuiet == Spec => []CompletedIsQuiet
<1>1. IInv => CompletedIsQuiet
  BY DEF IInv
<1> QED BY <1>1, Invariance, PTL

\* A contact on the do-not-call list stays on it, whatever step is taken.
THEOREM DNCStays == Spec => DNCIsFinal
<1> DEFINE Stays == \A x \in Contacts : contact[x].status = "DNC" => contact'[x].status = "DNC"
<1>1. ASSUME IInv, [Next]_vars PROVE Stays
  <2>1. CASE Next
    <3>1. WorldTypes /\ BasicInv
      BY <1>1 DEF IInv, TypeOK, WorldTypes
    <3>2. Moves
      BY <1>1, <2>1, NextMoves DEF IInv, BasicInv
    <3> QED BY <3>1, <3>2, DNCStep
  <2>2. CASE UNCHANGED vars
    BY <2>2 DEF vars, tables
  <2> QED BY <1>1, <2>1, <2>2
<1>2. IInv /\ [Next]_vars => [Stays]_vars
  BY <1>1
<1>3. Spec => [][Stays]_vars
  <2> HIDE DEF Stays
  <2> QED BY <1>2, Invariance, PTL DEF Spec
<1> QED BY <1>3 DEF DNCIsFinal
=============================================================================
