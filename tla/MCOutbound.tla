----------------------------- MODULE MCOutbound -----------------------------
(***************************************************************************)
(* Outbound on small instances: l1 and l2 are a request and its retry, l3  *)
(* another call from the same number, a1 a click-to-dial.                  *)
(***************************************************************************)
EXTENDS Outbound, TLC

CONSTANTS l1, l2, l3, a1, c1, c2, c3

MCCallOf == l1 :> c1 @@ l2 :> c1 @@ l3 :> c2 @@ a1 :> c3

Budget(legs, drops, crashes, errors) ==
    [legs |-> legs, drops |-> drops, crashes |-> crashes, errors |-> errors]

\* A retry over a crash; a call over two drops and a crash, and over a failed
\* listing; a click-to-dial over one of each; two calls for one line.
AllBudgets ==
    {Budget({l1, l2}, 0, 1, 0), Budget({l1}, 2, 1, 0), Budget({l1}, 1, 0, 1),
     Budget({a1}, 1, 1, 1), Budget({l1, l3}, 0, 0, 0)}

OneDrop == {Budget({l1}, 1, 0, 0)}
=============================================================================
