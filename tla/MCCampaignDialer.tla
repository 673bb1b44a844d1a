-------------------------- MODULE MCCampaignDialer --------------------------
(***************************************************************************)
(* Small instances of CampaignDialer for TLC. A contact is named by its    *)
(* campaign and its number.                                                *)
(***************************************************************************)
EXTENDS CampaignDialer

MCOneCampaign == {"A"}
MCTwoCampaigns == {"A", "B"}

MCCampaignOf == [x \in Contacts |-> x[1]]
MCNumberOf == [x \in Contacts |-> x[2]]

\* One contact; two of one campaign; one number in two campaigns, of which the
\* second has another contact as well.
MCOneContact == {<<"A", "n1">>}
MCTwoContacts == {<<"A", "n1">>, <<"A", "n2">>}
MCSharedNumber == {<<"A", "n1">>, <<"B", "n1">>}
MCSharedAndOther == {<<"A", "n1">>, <<"B", "n1">>, <<"B", "n2">>}

MCPolicy ==
    [ maxAttempts |-> 2, maxSystemRetries |-> 1,
      retryOutcomes |-> {"NO_ANSWER", "BUSY", "UNKNOWN", "TRANSIENT", "ORIGINATE_FAILED"} ]

\* A single dial of a customer, and one repeat when no customer was reached.
MCOneTry == [MCPolicy EXCEPT !.maxAttempts = 1, !.maxSystemRetries = 2]

Plain ==
    [preloaded |-> {}, importable |-> Contacts, started |-> {}, blocks |-> FALSE, stoppable |-> {},
     listable |-> {}, leads |-> {}, observed |-> {"ANSWERED", "NO_ANSWER"}, writers |-> 2,
     crashes |-> 0, errors |-> 0, voids |-> 0, lates |-> {}]

Preloaded(X) == [Plain EXCEPT !.preloaded = X, !.importable = {}, !.writers = 1]

\* The application starts with campaigns that were running when it stopped.
Running(X) == [Preloaded(X) EXCEPT !.started = Campaigns]

\* Two contacts across a crash, one of them listed; one contact with a crash, a
\* failed store call, a placement given back and every command; and one whose
\* originates may run late, also after a crash.
MCFaults ==
    { [Plain EXCEPT !.listable = {"n1"}, !.leads = {"HIGH"}, !.crashes = 1],
      [Plain EXCEPT !.importable = MCOneContact, !.blocks = TRUE, !.stoppable = {"A"},
                    !.listable = {"n1"}, !.crashes = 1, !.errors = 1, !.voids = 1,
                    !.observed = @ \cup {"ORIGINATE_FAILED"}],
      [Preloaded(MCOneContact) EXCEPT !.leads = {"HIGH"}, !.crashes = 1, !.lates = MCOneContact,
                    !.observed = @ \cup {"ORIGINATE_FAILED"}] }

\* Two campaigns that share a number: both take their contacts while they run;
\* one's list is older than the other's call; one's originates may run late. And
\* one campaign that loses its trunk over a pause and a resume, or its bots.
MCSharing ==
    { [Plain EXCEPT !.importable = MCSharedNumber, !.observed = @ \cup {"ORIGINATE_FAILED"}],
      [Preloaded(MCSharedAndOther) EXCEPT !.voids = 1],
      [Preloaded(MCSharedNumber) EXCEPT !.lates = MCOneContact,
                    !.observed = @ \cup {"ORIGINATE_FAILED"}],
      [Preloaded({<<"B", "n1">>}) EXCEPT !.stoppable = {"B"},
                    !.observed = @ \cup {"ORIGINATE_FAILED"}],
      [Preloaded({<<"B", "n1">>, <<"B", "n2">>}) EXCEPT !.observed = @ \cup {"BOT_FAILED"}] }

\* One contact that is listed, across a crash; one that is called again; and two
\* campaigns that share the number that is listed.
MCLive ==
    { [Running(MCOneContact) EXCEPT !.listable = {"n1"}, !.crashes = 1],
      [Running(MCOneContact) EXCEPT !.observed = @ \cup {"TRANSIENT"}],
      [Running(MCSharedNumber) EXCEPT !.listable = {"n1"}] }

MCListed == {[Plain EXCEPT !.leads = {"DO_NOT_CALL"}]}
=============================================================================
