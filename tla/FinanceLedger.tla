--------------------------- MODULE FinanceLedger ---------------------------
(***************************************************************************)
(* FinanceLedger (g2.py): the running balances of a matter.  A call whose  *)
(* guard fails raises GateError and changes nothing.  Amounts are Decimals *)
(* with two places, here naturals.                                         *)
(***************************************************************************)
EXTENDS Integers

CONSTANTS
    Amount,     \* the amounts a command may name
    MaxWork,    \* bound: the work recorded on a matter
    MaxPaid     \* bound: what is recovered by appeals, and what is paid (an
                \* audit after either makes room for more)

ASSUME LedgerAssumption ==
    Amount \subseteq Nat /\ MaxWork \in Nat /\ MaxPaid \in Nat

VARIABLE finance    \* the fields of FinanceLedger; write_off is never assigned

LedgerField == {"work", "wip", "submitted", "approved", "reduced", "recovered",
                "receivable", "cash"}

EmptyLedger ==
    [work |-> 0, wip |-> 0, submitted |-> 0, approved |-> 0, reduced |-> 0,
     recovered |-> 0, receivable |-> 0, cash |-> 0]

LedgerInit == finance = EmptyLedger

Record(amount) ==
    /\ amount > 0
    /\ finance.work + amount <= MaxWork
    /\ finance' = [finance EXCEPT !.work = @ + amount, !.wip = @ + amount]

(* Fault: the invoiced time stays work in progress. *)
SubmitKeepsWip ==
    /\ finance.wip > 0
    /\ finance.submitted + finance.wip <= MaxWork
    /\ finance' = [finance EXCEPT !.submitted = @ + finance.wip]

Submit ==
    /\ finance.wip > 0
    /\ finance' = [finance EXCEPT !.wip = 0, !.submitted = @ + finance.wip]

(* The receivable is set anew, whatever has been paid before. *)
Audit(reduction) ==
    /\ reduction <= finance.submitted
    /\ finance' = [finance EXCEPT !.reduced = reduction,
                                  !.approved = finance.submitted - reduction,
                                  !.receivable = finance.submitted - reduction]

Appeal(amount) ==
    /\ amount > 0
    /\ amount <= finance.reduced
    /\ finance.recovered + amount <= MaxPaid
    /\ finance' = [finance EXCEPT !.reduced = @ - amount, !.approved = @ + amount,
                                  !.recovered = @ + amount, !.receivable = @ + amount]

ApplyPayment(cash) ==
    /\ cash <= finance.receivable
    /\ finance.cash + cash <= MaxPaid
    /\ finance' = [finance EXCEPT !.cash = @ + cash, !.receivable = @ - cash]

(* invariant_errors() is empty. *)
Reconciled ==
    /\ finance.work = finance.wip + finance.submitted
    /\ finance.submitted = finance.approved + finance.reduced
    /\ finance.approved = finance.receivable + finance.cash

-----------------------------------------------------------------------------
(* What holds of the ledger after any sequence of calls, also when the     *)
(* reconciliation does not: no time is lost between work in progress and   *)
(* invoices, the carrier never approves and reduces more than was          *)
(* invoiced, and what it approved is paid or still owed.  (Where audit()   *)
(* forgets a payment the sum exceeds the approved amount: Reconciled       *)
(* fails, and the matter cannot be closed.)                                *)
LedgerSound ==
    /\ finance.work = finance.wip + finance.submitted
    /\ finance.approved + finance.reduced <= finance.submitted
    /\ finance.approved <= finance.receivable + finance.cash
    /\ finance.receivable \in 0..finance.approved
    /\ finance.reduced >= 0

=============================================================================
