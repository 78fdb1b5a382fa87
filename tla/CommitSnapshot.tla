--------------------------- MODULE CommitSnapshot ---------------------------
(***************************************************************************)
(* SQLiteCommitAdapter.snapshot() next to the workers of CommitStore.  The *)
(* connection is in autocommit mode, so each SELECT reads the file as it   *)
(* is at that moment: a worker may commit between two of them.             *)
(***************************************************************************)
EXTENDS CommitStore

CONSTANT Reader

VARIABLE
    snap      \* snap[r]: the tables read so far by reader r; "read" names
              \* the last SELECT

snapVars == <<vars, snap>>

NothingRead == [read |-> "none", head |-> NoHead, events |-> << >>,
                commands |-> << >>, outbox |-> << >>]

SnapInit == Init /\ snap = [r \in Reader |-> NothingRead]

Read(r, last, next) ==
    /\ snap[r].read = last
    /\ snap' = [snap EXCEPT ![r] = next]
    /\ UNCHANGED vars

(* The reader's own constructor has run, so metadata holds a head. *)
ReadHead(r) ==
    /\ db.head # NoHead
    /\ Read(r, "none", [NothingRead EXCEPT !.read = "head", !.head = db.head])

ReadEvents(r) ==
    Read(r, "head", [snap[r] EXCEPT !.read = "events", !.events = db.events])

ReadCommands(r) ==
    Read(r, "events",
         [snap[r] EXCEPT !.read = "commands", !.commands = db.commands])

ReadOutbox(r) ==
    Read(r, "commands", [snap[r] EXCEPT !.read = "outbox", !.outbox = db.outbox])

(* The snapshot has been handed to the caller, who takes another one. *)
Return1(r) == Read(r, "outbox", NothingRead)

SnapNext ==
    \/ Next /\ UNCHANGED snap
    \/ \E r \in Reader :
          \/ ReadHead(r)
          \/ ReadEvents(r)
          \/ ReadCommands(r)
          \/ ReadOutbox(r)
          \/ Return1(r)

SnapSpec == SnapInit /\ [][SnapNext]_snapVars

-----------------------------------------------------------------------------
Complete(s) == s.read = "outbox"

(* How many events had been accepted when the head was read. *)
HeadCount(s) ==
    CHOOSE n \in 0..Len(db.events) : HeadOf(SubSeq(db.events, 1, n)) = s.head

(* A snapshot may lag behind itself but is never ahead, by the order of    *)
(* its SELECTs: it shows no event without its command, and no command      *)
(* without its outbox row.  The errors it reports tell exactly whether a   *)
(* worker committed an event while it was taken, and the chain of events,  *)
(* read by one SELECT, is never reported broken.                           *)
ErrorsMeanTorn ==
    \A r \in Reader : LET s == snap[r] IN
        Complete(s) =>
        /\ HeadCount(s) <= Len(s.events)
        /\ Bound(s.events, s.commands)
        /\ Bound(s.commands, s.outbox)
        /\ InvariantErrors(s) = {} <=> HeadCount(s) = Len(s.outbox)
        /\ InvariantErrors(s) \cap
               {"sequence_gap", "parent_break", "event_hash_mismatch"} = {}

(* commit_protocol_validator.py reports CPV-004:store_invariants_failed    *)
(* for a snapshot that lists errors; here the store is sound throughout.   *)
ErrorsMeanCorrupt ==
    \A r \in Reader :
        Complete(snap[r]) /\ InvariantErrors(snap[r]) # {} =>
            InvariantErrors(db) # {}

=============================================================================
