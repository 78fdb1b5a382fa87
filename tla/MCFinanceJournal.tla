-------------------------- MODULE MCFinanceJournal --------------------------
(***************************************************************************)
(* FinanceJournal with a hash that tells the lifecycle and its rivals      *)
(* apart by sequence number, transaction, key and amount.  A behaviour is  *)
(* of two workers, or of a worker and a reader, which is enough because    *)
(* the write lock lets only one change the file at a time.                 *)
(***************************************************************************)
EXTENDS FinanceSnapshot

VARIABLE reading    \* whether this behaviour has a reader

MCTxHash(n, p) == <<n, p.id, p.key, p.entries[1].debit>>

MCGenesis == << >>

Present(w) == reading => w = CHOOSE v \in Worker : TRUE

MCInit == SnapInit /\ reading \in BOOLEAN

MCNext ==
    /\ UNCHANGED reading
    /\ \/ ~reading /\ Next /\ UNCHANGED snap
       \/ reading /\ SnapNext /\ \A w \in Worker : Present(w) \/ pc'[w] = pc[w]

MCSpec ==
    /\ MCInit /\ [][MCNext]_<<snapVars, reading>>
    /\ \A w \in Worker : WF_vars(Present(w) /\ Progress(w))

=============================================================================
