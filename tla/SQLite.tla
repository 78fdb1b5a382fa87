------------------------------- MODULE SQLite -------------------------------
(***************************************************************************)
(* SQLite as the adapters of the repository use it: one file per store,    *)
(* journal_mode=DELETE, synchronous=FULL, autocommit connections that      *)
(* write between BEGIN IMMEDIATE and commit or rollback.                   *)
(*                                                                         *)
(* BEGIN IMMEDIATE takes the only write lock.  Its holder works on a       *)
(* private copy, which commit publishes in one step and which rollback,    *)
(* close and the death of the process (by the hot journal) discard.        *)
(***************************************************************************)

CONSTANTS
    Worker,     \* processes that hold an adapter
    NoWorker    \* nobody holds the write lock

ASSUME WorkerAssumption == NoWorker \notin Worker

VARIABLES
    db,       \* the committed tables
    work,     \* the tables as the holder of the write lock sees them
    writer    \* the holder of the write lock, or NoWorker

Begin(w) ==
    /\ writer = NoWorker
    /\ writer' = w

Commit(w) ==
    /\ writer = w
    /\ db' = work
    /\ writer' = NoWorker
    /\ UNCHANGED work

(* Fault: the connection is not closed and keeps its lock. *)
RollbackKeepsLock(w) ==
    /\ writer = w
    /\ work' = db
    /\ UNCHANGED <<db, writer>>

(* Fault: what was staged so far stays in the file. *)
RollbackPublishes(w) ==
    /\ writer = w
    /\ db' = work
    /\ writer' = NoWorker
    /\ UNCHANGED work

Rollback(w) ==
    /\ writer = w
    /\ work' = db
    /\ writer' = NoWorker
    /\ UNCHANGED db

=============================================================================
