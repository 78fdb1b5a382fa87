--------------------------- MODULE FinanceJournal ---------------------------
(***************************************************************************)
(* SQLiteFinanceJournal (finance_journal.py): processes that post the      *)
(* billing lifecycle to one SQLite file.                                   *)
(* Each statement of post() between two fault points is a step.            *)
(*                                                                         *)
(* The callers are those of the tests and of the recovery fixture: they    *)
(* post the stages in order, try again what raised and, in a new process,  *)
(* begin again with the first stage.                                       *)
(***************************************************************************)
EXTENDS Integers, Sequences, Functions, SQLite

CONSTANTS
    Genesis,        \* FINANCE_GENESIS_HASH
    TxHash(_, _),   \* digest of the transaction payload: sequence, proposal
                    \* (the payload's parent is the proposal's parent)
    MaxFaults,      \* bound: exceptions, deaths and deliveries of a rival
    NoHead,         \* finance_metadata has no head_hash row yet
    NoHash,         \* the empty transaction_hash of a rejection
    NoCall,         \* a worker is not inside post()
    NoAnswer        \* a worker has no decision in hand

ASSUME MaxFaultsAssumption == MaxFaults \in Nat

VARIABLES
    pc,         \* pc[w]: how far worker w is
    call,       \* call[w]: the locals of w's post(): proposal, sequence, hash
    answer,     \* answer[w]: the decision w's last post() returned
    next,       \* next[w]: the stage of the lifecycle w posts next
    faults      \* how much of MaxFaults is used up

vars == <<db, work, writer, pc, call, answer, next, faults>>

-----------------------------------------------------------------------------
(* build_finance_lifecycle(): the stages, each on top of the hash the one  *)
(* before it will have.                                                    *)

Entry(account, debit, credit) ==
    [account |-> account, debit |-> debit, credit |-> credit]

Transfer(from, to, cents) == <<Entry(to, cents, 0), Entry(from, 0, cents)>>

StageNames == <<"invoice", "reduction", "appeal", "payment", "write_off">>

StageEntries ==
    <<Transfer("fee_revenue", "accounts_receivable", 100000),
      Transfer("accounts_receivable", "billing_write_off", 20000),
      Transfer("billing_write_off", "accounts_receivable", 10000),
      Transfer("accounts_receivable", "cash", 85000),
      Transfer("accounts_receivable", "billing_write_off", 5000)>>

Stages == DOMAIN StageNames

TxProposal(id, key, stage, parent, entries) ==
    [id |-> id, key |-> key, stage |-> stage, parent |-> parent,
     entries |-> entries]

Lifecycle[n \in Stages] ==
    TxProposal(<<"FIN-TX", n>>, <<"finance-lifecycle", n>>, StageNames[n],
               IF n = 1 THEN Genesis ELSE TxHash(n - 1, Lifecycle[n - 1]),
               StageEntries[n])

(* A digest is never the head that is missing. *)
ASSUME HeadAssumption ==
    NoHead \notin {Genesis} \cup {TxHash(n, Lifecycle[n]) : n \in Stages}

(* What must never get in once the invoice has been posted: the key of the *)
(* invoice with another amount; its transaction_id under another key; an   *)
(* unbalanced transaction.                                                 *)
Rival ==
    LET posted == TxHash(1, Lifecycle[1])
    IN  {TxProposal(<<"FIN-TX", 1>>, <<"finance-lifecycle", 1>>, "invoice",
                    Genesis, Transfer("fee_revenue", "accounts_receivable", 90000)),
         TxProposal(<<"FIN-TX", 1>>, <<"other", 1>>, "reduction", posted,
                    Transfer("accounts_receivable", "billing_write_off", 20000)),
         TxProposal(<<"FIN-TX", 6>>, <<"other", 2>>, "payment", posted,
                    <<Entry("cash", 85000, 0), Entry("accounts_receivable", 0, 8500)>>)}

-----------------------------------------------------------------------------
Total(f, n) == LET s[i \in 0..n] == IF i = 0 THEN 0 ELSE s[i - 1] + f[i]
               IN  s[n]

Sum(rows, column) == Total([i \in DOMAIN rows |-> rows[i][column]], Len(rows))

Balanced(entries) ==
    Sum(entries, "debit") > 0 /\ Sum(entries, "debit") = Sum(entries, "credit")

(* _validate: the checks a proposal of this kind can fail. *)
Valid(p) ==
    /\ Balanced(p.entries)
    /\ \A i \in DOMAIN p.entries :
          (p.entries[i].debit = 0) # (p.entries[i].credit = 0)

(* The tables.  The entry rows are those of each sequence number, in the   *)
(* order of their ordinals.  MaxSeq bounds the sequence numbers: every     *)
(* transaction has its own key, and the callers have MaxSeq keys in all.   *)
MaxSeq == 7

NoEntries == [n \in 1..MaxSeq |-> << >>]

EmptyTables == [head |-> NoHead, txs |-> << >>, entries |-> NoEntries]

HeadOf(txs) == IF txs = << >> THEN Genesis ELSE txs[Len(txs)].hash

(* Debits less credits, by account. *)
Accounts == {"accounts_receivable", "fee_revenue", "billing_write_off", "cash"}

Net(rows, account) ==
    Total([i \in DOMAIN rows |->
              IF rows[i].account = account THEN rows[i].debit - rows[i].credit ELSE 0],
          Len(rows))

Balances(entries) ==
    [a \in Accounts |-> Total([n \in 1..MaxSeq |-> Net(entries[n], a)], MaxSeq)]

GlobalSum(entries, column) ==
    Total([n \in 1..MaxSeq |-> Sum(entries[n], column)], MaxSeq)

-----------------------------------------------------------------------------
Holding == {"began", "transaction", "entries", "head"}

Init ==
    /\ db = EmptyTables
    /\ work = EmptyTables
    /\ writer = NoWorker
    /\ pc = [w \in Worker |-> "new"]
    /\ call = [w \in Worker |-> NoCall]
    /\ answer = [w \in Worker |-> NoAnswer]
    /\ next = [w \in Worker |-> 1]
    /\ faults = 0

Goto(w, label) == pc' = [pc EXCEPT ![w] = label]

Leave(w) ==
    /\ Goto(w, "idle")
    /\ call' = [call EXCEPT ![w] = NoCall]

Misfortune ==
    /\ faults < MaxFaults
    /\ faults' = faults + 1

(* The constructor: CREATE TABLE IF NOT EXISTS, INSERT OR IGNORE. *)
Initialize(w) ==
    /\ pc[w] = "new"
    /\ writer = NoWorker
    /\ db' = IF db.head = NoHead THEN [db EXCEPT !.head = Genesis] ELSE db
    /\ work' = db'
    /\ Goto(w, "idle")
    /\ UNCHANGED <<writer, call, answer, next, faults>>

(* post() up to the wait for the write lock. *)
Enter(w, p) ==
    /\ pc[w] = "idle"
    /\ Valid(p)
    /\ call' = [call EXCEPT ![w] = [prop |-> p, seq |-> 0, hash |-> NoHash]]
    /\ answer' = [answer EXCEPT ![w] = NoAnswer]
    /\ Goto(w, "wait")
    /\ UNCHANGED <<db, work, writer, next>>

StartPost(w) ==
    /\ next[w] \in Stages
    /\ Enter(w, Lifecycle[next[w]])
    /\ UNCHANGED faults

StartRival(w, p) ==
    /\ next[w] > 1
    /\ Misfortune
    /\ Enter(w, p)

BeginImmediate(w) ==
    /\ pc[w] = "wait"
    /\ Begin(w)
    /\ Goto(w, "began")
    /\ UNCHANGED <<db, work, call, answer, next, faults>>

(* The decision, and what the caller goes on with. *)
Return(w, disposition, seq, hash, head) ==
    LET p == call[w].prop
    IN  /\ answer' = [answer EXCEPT ![w] =
               [prop |-> p, disposition |-> disposition, seq |-> seq,
                hash |-> hash, head |-> head]]
        /\ next' = IF next[w] \in Stages /\ p = Lifecycle[next[w]]
                      /\ disposition \in {"accepted", "duplicate_replay"}
                     THEN [next EXCEPT ![w] = @ + 1] ELSE next
        /\ UNCHANGED faults

(* The rows that bind the key of p. *)
Existing(p) == {i \in DOMAIN work.txs : work.txs[i].prop.key = p.key}

ReplayDuplicate(w) ==
    /\ pc[w] = "began"
    /\ \E i \in Existing(call[w].prop) :
          /\ work.txs[i].prop = call[w].prop
          /\ Return(w, "duplicate_replay", work.txs[i].seq, work.txs[i].hash,
                    work.head)
    /\ Rollback(w)
    /\ Leave(w)

RejectConflict(w) ==
    /\ pc[w] = "began"
    /\ \E i \in Existing(call[w].prop) : work.txs[i].prop # call[w].prop
    /\ Return(w, "rejected_idempotency_conflict", 0, NoHash, work.head)
    /\ Rollback(w)
    /\ Leave(w)

(* Fault: the parent is compared before the key is looked up. *)
RejectStaleFirst(w) ==
    /\ pc[w] = "began"
    /\ call[w].prop.parent # work.head
    /\ Return(w, "rejected_stale_parent", 0, NoHash, work.head)
    /\ Rollback(w)
    /\ Leave(w)

RejectStale(w) ==
    /\ pc[w] = "began"
    /\ Existing(call[w].prop) = {}
    /\ call[w].prop.parent # work.head
    /\ Return(w, "rejected_stale_parent", 0, NoHash, work.head)
    /\ Rollback(w)
    /\ Leave(w)

NextSequence == Len(work.txs) + 1

(* The key is new and the parent is the head. *)
Fresh(p) == Existing(p) = {} /\ p.parent = work.head

IdUsed(p) == \E i \in DOMAIN work.txs : work.txs[i].prop.id = p.id

(* Fault: transaction_id is not UNIQUE. *)
InsertAnyTransaction(w) ==
    LET p == call[w].prop
        h == TxHash(NextSequence, p)
    IN  /\ pc[w] = "began"
        /\ Fresh(p)
        /\ work' = [work EXCEPT !.txs = Append(@,
               [seq |-> NextSequence, prop |-> p, parent |-> work.head, hash |-> h])]
        /\ call' = [call EXCEPT ![w] = [prop |-> p, seq |-> NextSequence, hash |-> h]]
        /\ Goto(w, "transaction")
        /\ UNCHANGED <<db, writer, answer, next, faults>>

InsertTransaction(w) ==
    LET p == call[w].prop
        h == TxHash(NextSequence, p)
    IN  /\ pc[w] = "began"
        /\ Fresh(p)
        /\ ~IdUsed(p)
        /\ work' = [work EXCEPT !.txs = Append(@,
               [seq |-> NextSequence, prop |-> p, parent |-> work.head, hash |-> h])]
        /\ call' = [call EXCEPT ![w] = [prop |-> p, seq |-> NextSequence, hash |-> h]]
        /\ Goto(w, "transaction")
        /\ UNCHANGED <<db, writer, answer, next, faults>>

(* transaction_id is UNIQUE: the INSERT raises sqlite3.IntegrityError. *)
IntegrityError(w) ==
    /\ pc[w] = "began"
    /\ Fresh(call[w].prop)
    /\ IdUsed(call[w].prop)
    /\ Rollback(w)
    /\ Leave(w)
    /\ UNCHANGED <<answer, next, faults>>

(* Fault: the transaction row is committed on its own. *)
InsertEntriesAfterCommit(w) ==
    /\ pc[w] = "transaction"
    /\ db' = work
    /\ work' = [work EXCEPT !.entries[call[w].seq] = call[w].prop.entries]
    /\ Goto(w, "entries")
    /\ UNCHANGED <<writer, call, answer, next, faults>>

InsertEntries(w) ==
    /\ pc[w] = "transaction"
    /\ work' = [work EXCEPT !.entries[call[w].seq] = call[w].prop.entries]
    /\ Goto(w, "entries")
    /\ UNCHANGED <<db, writer, call, answer, next, faults>>

UpdateHead(w) ==
    /\ pc[w] = "entries"
    /\ work' = [work EXCEPT !.head = call[w].hash]
    /\ Goto(w, "head")
    /\ UNCHANGED <<db, writer, call, answer, next, faults>>

CommitTransaction(w) ==
    /\ pc[w] = "head"
    /\ Commit(w)
    /\ Goto(w, "committed")
    /\ UNCHANGED <<call, answer, next, faults>>

ReturnAccepted(w) ==
    /\ pc[w] = "committed"
    /\ Return(w, "accepted", call[w].seq, call[w].hash, call[w].hash)
    /\ Leave(w)
    /\ UNCHANGED <<db, work, writer>>

-----------------------------------------------------------------------------
(* Failures. *)

BusyTimeout(w) ==
    /\ pc[w] = "wait"
    /\ writer # NoWorker
    /\ Misfortune
    /\ Leave(w)
    /\ UNCHANGED <<db, work, writer, answer, next>>

(* Fault: the exception handler keeps what was staged so far. *)
RaisePublishes(w) ==
    /\ pc[w] \in Holding
    /\ Misfortune
    /\ RollbackPublishes(w)
    /\ Leave(w)
    /\ UNCHANGED <<answer, next>>

Raise(w) ==
    /\ pc[w] \in Holding
    /\ Misfortune
    /\ Rollback(w)
    /\ Leave(w)
    /\ UNCHANGED <<answer, next>>

RaiseCommitted(w) ==
    /\ pc[w] = "committed"
    /\ Misfortune
    /\ Leave(w)
    /\ UNCHANGED <<db, work, writer, answer, next>>

(* The process dies; its successor starts the lifecycle from the invoice. *)
Crash(w) ==
    /\ pc[w] # "new"
    /\ Misfortune
    /\ IF writer = w THEN Rollback(w) ELSE UNCHANGED <<db, work, writer>>
    /\ Goto(w, "new")
    /\ call' = [call EXCEPT ![w] = NoCall]
    /\ answer' = [answer EXCEPT ![w] = NoAnswer]
    /\ next' = [next EXCEPT ![w] = 1]

-----------------------------------------------------------------------------
Decide(w) ==
    \/ ReplayDuplicate(w)
    \/ RejectConflict(w)
    \/ RejectStale(w)
    \/ IntegrityError(w)
    \/ InsertTransaction(w)

(* What a worker does when nothing goes wrong. *)
Progress(w) ==
    \/ Initialize(w)
    \/ StartPost(w)
    \/ BeginImmediate(w)
    \/ Decide(w)
    \/ InsertEntries(w)
    \/ UpdateHead(w)
    \/ CommitTransaction(w)
    \/ ReturnAccepted(w)

Fail(w) ==
    \/ BusyTimeout(w)
    \/ Raise(w)
    \/ RaiseCommitted(w)
    \/ Crash(w)

Next ==
    \/ \E w \in Worker : Progress(w) \/ Fail(w)
    \/ \E w \in Worker, p \in Rival : StartRival(w, p)

Spec == Init /\ [][Next]_vars

(* The caller posts the stages in a loop; the statements of a call follow  *)
(* each other, and the lock is free again once its holder returns.         *)
FairSpec == Spec /\ \A w \in Worker : WF_vars(Progress(w))

-----------------------------------------------------------------------------
(* The checks of snapshot() on the rows it read. *)

Unless(holds, code) == IF holds THEN {} ELSE {code}

Sound(t, i) ==
    LET x == t.txs[i]
        mine == t.entries[i]
    IN  UNION {Unless(x.seq = i, "finance_sequence_gap"),
               Unless(x.parent = HeadOf(SubSeq(t.txs, 1, i - 1)),
                      "finance_parent_break"),
               Unless(/\ x.parent = x.prop.parent
                      /\ x.hash = TxHash(i, x.prop)
                      /\ mine = x.prop.entries, "finance_hash_mismatch"),
               Unless(Balanced(mine), "finance_unbalanced")}

InvariantErrors(t) ==
    (UNION {Sound(t, i) : i \in DOMAIN t.txs})
        \cup Unless(t.head = HeadOf(t.txs), "finance_head_mismatch")
        \cup Unless(GlobalSum(t.entries, "debit") = GlobalSum(t.entries, "credit"),
                    "finance_global_imbalance")

-----------------------------------------------------------------------------
(* Properties. *)

(* Whatever raised or died, and wherever, the file passes every check of   *)
(* snapshot(): a transaction, its entries and the head come together.      *)
JournalConsistent ==
    IF db.head = NoHead THEN db = EmptyTables ELSE InvariantErrors(db) = {}

(* The books never show anything but the first stages of the lifecycle,    *)
(* each posted once, so that the client never owes less than nothing and   *)
(* the complete cycle leaves the amounts of the recovery decision (e6):    *)
(* receivables 0, cash $850, revenue $1,000, write-off $150.               *)
BooksFollowLifecycle ==
    LET b == Balances(db.entries)
    IN  /\ \A i \in DOMAIN db.txs : db.txs[i].prop = Lifecycle[i]
        /\ b["accounts_receivable"] >= 0
        /\ Len(db.txs) = 5 =>
              b = [accounts_receivable |-> 0, cash |-> 85000,
                   fee_revenue |-> -100000, billing_write_off |-> 15000]

(* A worker that posts the stages in order is never turned down, however   *)
(* far another worker, or its own predecessor, has already gone.           *)
OrderedPostsSucceed ==
    \A w \in Worker : answer[w] # NoAnswer =>
        (answer[w].prop \in Range(Lifecycle) <=>
            answer[w].disposition \in {"accepted", "duplicate_replay"})

(* However the workers interleave, die and retry, the lifecycle is posted  *)
(* to its end.                                                             *)
LifecycleCompletes == <>[](Len(db.txs) = Len(StageNames))

=============================================================================
