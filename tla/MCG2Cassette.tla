---------------------------- MODULE MCG2Cassette ----------------------------
(***************************************************************************)
(* A matter that is free, where the actors give any command in any order   *)
(* (MCG2Kernel), or one driven by a cassette with up to MaxTapeEdits       *)
(* attempts left out or added (AttemptCassette).                           *)
(*                                                                         *)
(* The four artifacts are the two e-mails with the declared conflict, one  *)
(* more that can be produced, by an author of his own, and one that        *)
(* cannot; the amounts are those of the workflow, scaled down.             *)
(***************************************************************************)
EXTENDS MCG2Kernel, AttemptCassette

VARIABLE driver    \* "actors" or "cassette"

MCArm ==
    [traditional |-> [lawyer |-> 2, paralegal |-> 1, reduction |-> 2, recovered |-> 1]]

MCFactClaims ==
    [a \in Artifact |->
        CASE a = "E-MGREMAIL-004" -> {<<"decision_status", "final_on_day_38">>}
          [] a = "E-HREMAIL-005"  -> {<<"decision_status", "not_final_by_day_40">>}
          [] a = "E-PAYROLL-006"  -> {<<"attendance_issue", "mixed_and_partly_unverified">>}
          [] OTHER                -> {}]

MCDeclared ==
    {[fact |-> "decision_status", artifacts |-> {"E-MGREMAIL-004", "E-HREMAIL-005"}]}

MCAuthorOf ==
    [a \in Artifact |->
        CASE a = "E-MGREMAIL-004" -> "manager_witness"
          [] a = "E-PAYROLL-006"  -> "billing_specialist"
          [] OTHER                -> "hr_witness"]

BoundedMatter == driver = "actors" => BilledOrDocketed

MCInit ==
    /\ driver \in {"actors", "cassette"}
    /\ TapeInit

MCNext ==
    /\ UNCHANGED driver
    /\ \/ driver = "actors" /\ Next /\ UNCHANGED tapeVars
       \/ driver = "cassette" /\ TapeNext
       \/ driver = "cassette" /\ Over /\ UNCHANGED <<vars, tapeVars>>

MCSpec == MCInit /\ [][MCNext]_<<driver, vars, tapeVars>>

=============================================================================
