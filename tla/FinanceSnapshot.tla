--------------------------- MODULE FinanceSnapshot ---------------------------
(***************************************************************************)
(* SQLiteFinanceJournal.snapshot() while the workers of FinanceJournal     *)
(* post: three SELECTs of an autocommit connection, each a read of the     *)
(* file as it is at that moment.                                           *)
(***************************************************************************)
EXTENDS FinanceJournal

CONSTANT NoRead     \* no snapshot has been started

VARIABLE snap       \* the rows snapshot() has read so far

snapVars == <<vars, snap>>

SnapInit == Init /\ snap = NoRead

(* The reader's own constructor has run, so the metadata hold a head. *)
ReadHead ==
    /\ snap = NoRead
    /\ db.head # NoHead
    /\ snap' = [read |-> "head", head |-> db.head, txs |-> << >>,
                entries |-> NoEntries]

ReadTransactions ==
    /\ snap # NoRead
    /\ snap.read = "head"
    /\ snap' = [snap EXCEPT !.read = "txs", !.txs = db.txs]

Complete == snap # NoRead /\ snap.read = "entries"

ReadEntries ==
    /\ snap # NoRead
    /\ snap.read = "txs"
    /\ snap' = [snap EXCEPT !.read = "entries", !.entries = db.entries]

ReturnSnapshot == Complete /\ snap' = NoRead

SnapNext ==
    \/ Next /\ UNCHANGED snap
    \/ /\ ReadHead \/ ReadTransactions \/ ReadEntries \/ ReturnSnapshot
       /\ UNCHANGED vars

SnapSpec == SnapInit /\ [][SnapNext]_snapVars

-----------------------------------------------------------------------------
(* A snapshot of a sound journal reports at most that its head is old, and *)
(* exactly when a transaction was committed between its first two reads.   *)
(* The entries it adds its balances from are all of the first n            *)
(* transactions, never a part of one, although n is larger, perhaps, than  *)
(* the number of transactions the snapshot counts.                         *)
OnlyHeadLags ==
    Complete =>
        /\ InvariantErrors(snap) \subseteq {"finance_head_mismatch"}
        /\ InvariantErrors(snap) = {} <=> snap.head = HeadOf(snap.txs)
        /\ \E n \in Len(snap.txs)..Len(db.txs) :
              snap.entries =
                  [i \in 1..MaxSeq |-> IF i <= n THEN db.entries[i] ELSE << >>]

=============================================================================
