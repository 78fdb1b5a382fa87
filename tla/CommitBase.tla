----------------------------- MODULE CommitBase -----------------------------
(***************************************************************************)
(* The data of the Design C commit protocol (commit_protocol.py): commit   *)
(* proposals and the hashes that chain the accepted events.                *)
(*                                                                         *)
(* A SHA-256 digest is abstracted by a constant operator that is           *)
(* injective.  A proposal stands for its own proposal_hash: two proposals  *)
(* are equal exactly when their digests are.                               *)
(***************************************************************************)
EXTENDS Integers, Sequences, FiniteSets

CONSTANTS
    Proposal,          \* the commit proposals: records with at least the
                       \* fields key (idempotency_key) and parent
                       \* (expected_parent_hash)
    Key,               \* the idempotency keys
    Hash,              \* the values of digest()
    Genesis,           \* GENESIS_HEAD_HASH
    EventHash(_, _),   \* digest of the event payload: sequence, proposal (the
                       \* payload's parent is the proposal's parent, and its
                       \* other fields are copied from the proposal)
    MaxEvents          \* bound: events the store may hold

ASSUME ProposalAssumption ==
    \A p \in Proposal : p.key \in Key /\ p.parent \in Hash

ASSUME MaxEventsAssumption == MaxEvents \in Nat \ {0}

(* Collision freedom of digest() on event payloads. *)
ASSUME HashAssumption ==
    /\ Genesis \in Hash
    /\ \A n \in 1..MaxEvents, p \in Proposal :
          EventHash(n, p) \in Hash \ {Genesis}
    /\ \A m, n \in 1..MaxEvents, p, q \in Proposal :
          EventHash(m, p) = EventHash(n, q) => m = n /\ p = q

(* A row of the events table; the remaining columns are fields of prop. *)
EventRow == [seq : 1..MaxEvents, parent : Hash, hash : Hash, prop : Proposal]

(* What the head of a chain of events is: the hash of the last one. *)
HeadOf(events) ==
    IF events = << >> THEN Genesis ELSE events[Len(events)].hash

=============================================================================
