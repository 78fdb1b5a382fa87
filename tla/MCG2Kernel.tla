----------------------------- MODULE MCG2Kernel -----------------------------
(***************************************************************************)
(* G2Kernel with one responsive and one irrelevant artifact, two filed     *)
(* days, and amounts small enough that a reduction, an appeal and two part *)
(* payments all fit.  Deadlines and billing share no state but the tokens  *)
(* that open the matter, so the run takes a matter with deadlines or with  *)
(* billing and leaves the product of the two out.                          *)
(***************************************************************************)
EXTENDS G2Kernel

BilledOrDocketed == finance = EmptyLedger \/ deadlines.proposal = NoDay

=============================================================================
