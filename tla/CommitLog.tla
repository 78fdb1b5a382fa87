------------------------------ MODULE CommitLog ------------------------------
(***************************************************************************)
(* What the commit store promises its callers, without transactions,       *)
(* locks, tables or crashes: a log to which a proposal is appended in one  *)
(* indivisible step, at most once per idempotency key and only on top of   *)
(* the head it names; outbox items that are acknowledged once; and answers *)
(* that tell the truth about the log.                                      *)
(***************************************************************************)
EXTENDS CommitBase

CONSTANTS Worker, NoAnswer

VARIABLES
    log,      \* the sequence of accepted events
    acked,    \* the sequence numbers whose outbox item is acknowledged
    answer    \* answer[w]: the last decision returned to worker w

logVars == <<log, acked, answer>>

Init ==
    /\ log = << >>
    /\ acked = {}
    /\ answer = [w \in Worker |-> NoAnswer]

KeyUsed(k) == \E i \in 1..Len(log) : log[i].prop.key = k

Committed(p) == \E i \in 1..Len(log) : log[i].prop = p

(* One event, complete, on top of the head the proposal expected. *)
Append1(p) ==
    /\ ~KeyUsed(p.key)
    /\ p.parent = HeadOf(log)
    /\ log' = Append(log, [seq    |-> Len(log) + 1,
                           parent |-> HeadOf(log),
                           hash   |-> EventHash(Len(log) + 1, p),
                           prop   |-> p])
    /\ UNCHANGED <<acked, answer>>

Acknowledge(n) ==
    /\ n \in 1..Len(log) \ acked
    /\ acked' = acked \cup {n}
    /\ UNCHANGED <<log, answer>>

(* A decision that reports an event names one that is in the log; a        *)
(* rejection is given only while its reason holds.                         *)
Truthful(a) ==
    CASE a.disposition \in {"accepted", "duplicate_replay"} ->
            /\ a.seq \in 1..Len(log)
            /\ log[a.seq].prop = a.prop
            /\ log[a.seq].hash = a.hash
      [] a.disposition = "rejected_idempotency_conflict" ->
            KeyUsed(a.prop.key) /\ ~Committed(a.prop) /\ a.head = HeadOf(log)
      [] a.disposition = "rejected_stale_parent" ->
            ~KeyUsed(a.prop.key) /\ a.prop.parent # a.head /\ a.head = HeadOf(log)
      [] OTHER -> FALSE

Reply(w) ==
    /\ answer'[w] # NoAnswer
    /\ Truthful(answer'[w])
    /\ answer' = [answer EXCEPT ![w] = answer'[w]]
    /\ UNCHANGED <<log, acked>>

(* The worker's process is replaced: what it was told is forgotten. *)
Forget(w) ==
    /\ answer' = [answer EXCEPT ![w] = NoAnswer]
    /\ UNCHANGED <<log, acked>>

Next ==
    \/ \E p \in Proposal : Append1(p)
    \/ \E n \in 1..MaxEvents : Acknowledge(n)
    \/ \E w \in Worker : Reply(w) \/ Forget(w)

Spec == Init /\ [][Next]_logVars

=============================================================================
