----------------------------- MODULE CommitStore -----------------------------
(***************************************************************************)
(* SQLiteCommitAdapter (sqlite_commit_adapter.py): worker processes that   *)
(* share one SQLite file.  Each statement of commit() between two fault    *)
(* points is a step; a worker may raise or die between any two of them.    *)
(***************************************************************************)
EXTENDS CommitBase, SQLite

CONSTANTS
    NoAnswer,   \* a worker has no decision in hand
    NoCall,     \* a worker is not inside commit()
    NoHead,     \* metadata has no head_hash row yet
    NoHash      \* the empty event_hash of a rejection

ASSUME NoHashAssumption == NoHead \notin Hash /\ NoHash \notin Hash

VARIABLES
    pc,       \* pc[w]: how far worker w is
    call,     \* call[w]: the locals of w's commit(): proposal,
              \* next_sequence, event_hash; NoCall outside it
    answer    \* answer[w]: the decision w's last call returned

vars == <<db, work, writer, pc, call, answer>>

-----------------------------------------------------------------------------
(* The rows of the tables.  outbox_id is determined by event_hash. *)

CommandRow == [key : Key, prop : Proposal, seq : 1..MaxEvents, hash : Hash]

OutboxRow == [seq : 1..MaxEvents, hash : Hash,
              status : {"pending", "acknowledged"}, attempts : 0..1]

Tables == [head : Hash \cup {NoHead}, events : Seq(EventRow),
           commands : Seq(CommandRow), outbox : Seq(OutboxRow)]

EmptyTables ==
    [head |-> NoHead, events |-> << >>, commands |-> << >>, outbox |-> << >>]

Disposition == {"accepted", "duplicate_replay",
                "rejected_idempotency_conflict", "rejected_stale_parent"}

Decision == [prop : Proposal, disposition : Disposition, seq : 0..MaxEvents,
             hash : Hash \cup {NoHash}, head : Hash]

Call == [prop : Proposal, seq : 0..MaxEvents, hash : Hash \cup {NoHash}]

ASSUME NoRecordAssumption == NoAnswer \notin Decision /\ NoCall \notin Call

(* A worker inside the transaction of commit() or acknowledge_outbox(). *)
Holding == {"began", "event", "command", "outbox", "head", "acknowledging"}

PC == {"new", "idle", "wait", "committed"} \cup Holding

Init ==
    /\ db = EmptyTables
    /\ work = EmptyTables
    /\ writer = NoWorker
    /\ pc = [w \in Worker |-> "new"]
    /\ call = [w \in Worker |-> NoCall]
    /\ answer = [w \in Worker |-> NoAnswer]

-----------------------------------------------------------------------------
(* The calls of a worker. *)

Goto(w, label) == pc' = [pc EXCEPT ![w] = label]

(* The call of w is over, by a return or by an exception. *)
Leave(w) ==
    /\ Goto(w, "idle")
    /\ call' = [call EXCEPT ![w] = NoCall]

-----------------------------------------------------------------------------
(* The constructor.  CREATE TABLE IF NOT EXISTS and INSERT OR IGNORE leave *)
(* what another worker has already put there; each runs in a transaction   *)
(* of its own.                                                             *)

(* Fault: INSERT OR REPLACE. *)
ReseedHead(d) == [d EXCEPT !.head = Genesis]

SeedHead(d) == IF d.head = NoHead THEN [d EXCEPT !.head = Genesis] ELSE d

Initialize(w) ==
    /\ pc[w] = "new"
    /\ writer = NoWorker
    /\ db' = SeedHead(db)
    /\ work' = db'
    /\ Goto(w, "idle")
    /\ UNCHANGED <<writer, call, answer>>

-----------------------------------------------------------------------------
(* commit(). *)

StartCommit(w, p) ==
    /\ pc[w] = "idle"
    /\ call' = [call EXCEPT ![w] = [prop |-> p, seq |-> 0, hash |-> NoHash]]
    /\ answer' = [answer EXCEPT ![w] = NoAnswer]
    /\ Goto(w, "wait")
    /\ UNCHANGED <<db, work, writer>>

BeginImmediate(w) ==
    /\ pc[w] = "wait"
    /\ Begin(w)
    /\ Goto(w, "began")
    /\ UNCHANGED <<db, work, call, answer>>

(* Fault: looked up by proposal_hash instead of idempotency_key. *)
ExistingProposal(p) == {i \in 1..Len(work.commands) : work.commands[i].prop = p}

(* The rows of the commands table that bind the key of p. *)
Existing(p) == {i \in 1..Len(work.commands) : work.commands[i].key = p.key}

Return(w, d) == answer' = [answer EXCEPT ![w] = d]

(* Roll back and return a decision that changes nothing. *)
Decline(w, disposition, seq, hash) ==
    /\ Rollback(w)
    /\ Return(w, [prop |-> call[w].prop, disposition |-> disposition,
                  seq |-> seq, hash |-> hash, head |-> work.head])
    /\ Leave(w)

(* Fault: the stored proposal is not compared with the one delivered. *)
ReplayAnyDuplicate(w) ==
    /\ pc[w] = "began"
    /\ \E i \in Existing(call[w].prop) :
          Decline(w, "duplicate_replay",
                  work.commands[i].seq, work.commands[i].hash)

ReplayDuplicate(w) ==
    /\ pc[w] = "began"
    /\ \E i \in Existing(call[w].prop) :
          /\ work.commands[i].prop = call[w].prop
          /\ Decline(w, "duplicate_replay",
                     work.commands[i].seq, work.commands[i].hash)

RejectConflict(w) ==
    /\ pc[w] = "began"
    /\ \E i \in Existing(call[w].prop) : work.commands[i].prop # call[w].prop
    /\ Decline(w, "rejected_idempotency_conflict", 0, NoHash)

RejectStale(w) ==
    /\ pc[w] = "began"
    /\ Existing(call[w].prop) = {}
    /\ call[w].prop.parent # work.head
    /\ Decline(w, "rejected_stale_parent", 0, NoHash)

(* SELECT COALESCE(MAX(event_sequence),0)+1: the sequence numbers of the   *)
(* table are 1..Len (StoreConsistent).                                     *)
NextSequence == Len(work.events) + 1

(* Fault: the parent the proposal expects is not compared with the head. *)
InsertStaleEvent(w) ==
    LET p == call[w].prop
        h == EventHash(NextSequence, p)
    IN  /\ pc[w] = "began"
        /\ Existing(p) = {}
        /\ NextSequence <= MaxEvents
        /\ work' = [work EXCEPT !.events = Append(@,
                       [seq |-> NextSequence, parent |-> work.head,
                        hash |-> h, prop |-> p])]
        /\ call' = [call EXCEPT ![w] = [prop |-> p, seq |-> NextSequence,
                                        hash |-> h]]
        /\ Goto(w, "event")
        /\ UNCHANGED <<db, writer, answer>>

InsertEvent(w) ==
    LET p == call[w].prop
        h == EventHash(NextSequence, p)
    IN  /\ pc[w] = "began"
        /\ Existing(p) = {}
        /\ p.parent = work.head
        /\ NextSequence <= MaxEvents
        /\ work' = [work EXCEPT !.events = Append(@,
                       [seq |-> NextSequence, parent |-> work.head,
                        hash |-> h, prop |-> p])]
        /\ call' = [call EXCEPT ![w] = [prop |-> p, seq |-> NextSequence,
                                        hash |-> h]]
        /\ Goto(w, "event")
        /\ UNCHANGED <<db, writer, answer>>

(* Fault: the command is bound to the old head_hash. *)
InsertCommandOnHead(w) ==
    LET c == call[w]
    IN  /\ pc[w] = "event"
        /\ work' = [work EXCEPT !.commands = Append(@,
                       [key |-> c.prop.key, prop |-> c.prop,
                        seq |-> c.seq, hash |-> work.head])]
        /\ Goto(w, "command")
        /\ UNCHANGED <<db, writer, call, answer>>

InsertCommand(w) ==
    LET c == call[w]
    IN  /\ pc[w] = "event"
        /\ work' = [work EXCEPT !.commands = Append(@,
                       [key |-> c.prop.key, prop |-> c.prop,
                        seq |-> c.seq, hash |-> c.hash])]
        /\ Goto(w, "command")
        /\ UNCHANGED <<db, writer, call, answer>>

InsertOutbox(w) ==
    /\ pc[w] = "command"
    /\ work' = [work EXCEPT !.outbox = Append(@,
                   [seq |-> call[w].seq, hash |-> call[w].hash,
                    status |-> "pending", attempts |-> 0])]
    /\ Goto(w, "outbox")
    /\ UNCHANGED <<db, writer, call, answer>>

UpdateHead(w) ==
    /\ pc[w] = "outbox"
    /\ work' = [work EXCEPT !.head = call[w].hash]
    /\ Goto(w, "head")
    /\ UNCHANGED <<db, writer, call, answer>>

CommitTransaction(w) ==
    /\ pc[w] = "head"
    /\ Commit(w)
    /\ Goto(w, "committed")
    /\ UNCHANGED <<call, answer>>

ReturnAccepted(w) ==
    /\ pc[w] = "committed"
    /\ Return(w, [prop |-> call[w].prop, disposition |-> "accepted",
                  seq |-> call[w].seq, hash |-> call[w].hash,
                  head |-> call[w].hash])
    /\ Leave(w)
    /\ UNCHANGED <<db, work, writer>>

-----------------------------------------------------------------------------
(* acknowledge_outbox(). *)

MarkAcknowledged(row) ==
    [seq |-> row.seq, hash |-> row.hash,
     status |-> "acknowledged", attempts |-> row.attempts + 1]

(* Fault: the UPDATE does not depend on the status read. *)
BeginReacknowledge(w, n) ==
    /\ pc[w] = "idle"
    /\ n \in 1..Len(db.outbox)
    /\ Begin(w)
    /\ work' = [work EXCEPT !.outbox[n] = MarkAcknowledged(@)]
    /\ Goto(w, "acknowledging")
    /\ UNCHANGED <<db, call, answer>>

BeginAcknowledge(w, n) ==
    /\ pc[w] = "idle"
    /\ n \in 1..Len(db.outbox)
    /\ Begin(w)
    /\ work' = IF work.outbox[n].status = "pending"
                 THEN [work EXCEPT !.outbox[n] = MarkAcknowledged(@)]
                 ELSE work
    /\ Goto(w, "acknowledging")
    /\ UNCHANGED <<db, call, answer>>

CommitAcknowledge(w) ==
    /\ pc[w] = "acknowledging"
    /\ Commit(w)
    /\ Goto(w, "idle")
    /\ UNCHANGED <<call, answer>>

-----------------------------------------------------------------------------
(* Failures. *)

(* BEGIN IMMEDIATE raises when another holder outlasts busy_timeout. *)
BusyTimeout(w) ==
    /\ pc[w] = "wait"
    /\ writer # NoWorker
    /\ Leave(w)
    /\ UNCHANGED <<db, work, writer, answer>>

(* An exception (a fault hook, an SQLite error) inside the transaction. *)
Raise(w) ==
    /\ pc[w] \in Holding
    /\ Rollback(w)
    /\ Leave(w)
    /\ UNCHANGED answer

(* The same after the commit: there is nothing left to roll back. *)
RaiseCommitted(w) ==
    /\ pc[w] = "committed"
    /\ Leave(w)
    /\ UNCHANGED <<db, work, writer, answer>>

(* os._exit, kill or power loss: SQLite's hot journal undoes an open       *)
(* transaction, and what the process knew is gone.                         *)
Crash(w) ==
    /\ pc[w] # "new"
    /\ IF writer = w THEN Rollback(w) ELSE UNCHANGED <<db, work, writer>>
    /\ Goto(w, "new")
    /\ call' = [call EXCEPT ![w] = NoCall]
    /\ answer' = [answer EXCEPT ![w] = NoAnswer]

-----------------------------------------------------------------------------
Decide(w) ==
    ReplayDuplicate(w) \/ RejectConflict(w) \/ RejectStale(w) \/ InsertEvent(w)

(* What the code of a call does by itself once it is made. *)
Progress(w) ==
    \/ BeginImmediate(w)
    \/ Decide(w)
    \/ InsertCommand(w)
    \/ InsertOutbox(w)
    \/ UpdateHead(w)
    \/ CommitTransaction(w)
    \/ ReturnAccepted(w)
    \/ CommitAcknowledge(w)
    \/ BusyTimeout(w)

Next ==
    \E w \in Worker :
        \/ Initialize(w)
        \/ \E p \in Proposal : StartCommit(w, p)
        \/ \E n \in 1..MaxEvents : BeginAcknowledge(w, n)
        \/ Progress(w)
        \/ Raise(w)
        \/ RaiseCommitted(w)
        \/ Crash(w)

Spec == Init /\ [][Next]_vars

(* A running call goes on: the interpreter does not stop between two       *)
(* statements, and the wait for the lock ends in the lock or in an error.  *)
FairSpec == Spec /\ \A w \in Worker : WF_vars(Progress(w))

-----------------------------------------------------------------------------
(* The checks snapshot() makes on the rows it read. *)

SequencesRun(t) == \A i \in 1..Len(t.events) : t.events[i].seq = i

ParentsChain(t) ==
    \A i \in 1..Len(t.events) :
        t.events[i].parent = HeadOf(SubSeq(t.events, 1, i - 1))

HashesMatch(t) ==
    \A i \in 1..Len(t.events) : LET e == t.events[i] IN
        e.hash = EventHash(e.seq, e.prop) /\ e.parent = e.prop.parent

Bound(rows, events) ==
    \A i \in 1..Len(rows) : \E j \in 1..Len(events) :
        rows[i].seq = events[j].seq /\ rows[i].hash = events[j].hash

Unless(holds, code) == IF holds THEN {} ELSE {code}

InvariantErrors(t) ==
    UNION {Unless(SequencesRun(t), "sequence_gap"),
           Unless(ParentsChain(t), "parent_break"),
           Unless(HashesMatch(t), "event_hash_mismatch"),
           Unless(t.head = HeadOf(t.events), "head_hash_mismatch"),
           Unless(Len(t.commands) = Len(t.events), "command_event_count_mismatch"),
           Unless(Len(t.outbox) = Len(t.events), "outbox_event_count_mismatch"),
           Unless(Bound(t.commands, t.events), "command_event_binding_mismatch"),
           Unless(Bound(t.outbox, t.events), "outbox_event_binding_mismatch")}

-----------------------------------------------------------------------------
(* Properties. *)

(* Every variable holds what the adapter can put there; a command is bound *)
(* in the file at most MaxEvents times and an outbox item is attempted at  *)
(* most once (acknowledge_outbox increments only pending rows).            *)
TypeOK ==
    /\ db \in Tables
    /\ work \in Tables
    /\ writer \in Worker \cup {NoWorker}
    /\ pc \in [Worker -> PC]
    /\ call \in [Worker -> Call \cup {NoCall}]
    /\ answer \in [Worker -> Decision \cup {NoAnswer}]

(* Whatever raised or died, and wherever, the committed file passes every  *)
(* check of snapshot(): event, command, outbox row and head of a proposal  *)
(* are there together or not at all.                                       *)
StoreConsistent ==
    IF db.head = NoHead THEN db = EmptyTables ELSE InvariantErrors(db) = {}

(* The UNIQUE and PRIMARY KEY constraints of the schema never fire: no     *)
(* retry and no race binds one idempotency key to two events.              *)
AtMostOncePerKey ==
    \A i, j \in 1..Len(db.events) :
        db.events[i].prop.key = db.events[j].prop.key => i = j

(* What a caller was told stays true for as long as it may remember it: an *)
(* accepted or replayed event is in the file at its sequence number, and a *)
(* proposal turned down for its key never gets in by a later retry.        *)
AnswersLast ==
    \A w \in Worker : LET a == answer[w] IN
        a # NoAnswer =>
        CASE a.disposition \in {"accepted", "duplicate_replay"} ->
                /\ a.seq \in 1..Len(db.events)
                /\ db.events[a.seq].prop = a.prop
                /\ db.events[a.seq].hash = a.hash
          [] a.disposition = "rejected_idempotency_conflict" ->
                \A i \in 1..Len(db.events) : db.events[i].prop # a.prop
          [] OTHER -> TRUE

(* Every call of commit() or acknowledge_outbox() comes back, by a         *)
(* decision, an exception or the death of its process, and with it goes    *)
(* the write lock.                                                         *)
CallsReturn ==
    \A w \in Worker :
        pc[w] \notin {"new", "idle"} ~> pc[w] \in {"new", "idle"} /\ writer # w

(* The store implements the log it promises.                               *)
Log == INSTANCE CommitLog WITH
    log   <- db.events,
    acked <- {n \in 1..Len(db.outbox) : db.outbox[n].status = "acknowledged"}

ImplementsLog == Log!Spec

=============================================================================
