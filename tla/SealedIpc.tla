----------------------------- MODULE SealedIpc -----------------------------
(***************************************************************************)
(* SealedIpcAuthorizer.authorize over an AppendOnlyReplayLedger            *)
(* (sealed_ipc_protocol.py). The ledger locks each of its methods, but     *)
(* authorize calls them one after the other, so calls of several threads   *)
(* interleave between them: a step is one method of the ledger with the    *)
(* local work before it. Hashes are injective: an entry names its request, *)
(* and the chain of entry hashes is the order of the entries. A call whose *)
(* arguments have the wrong type is denied without an entry and changes    *)
(* nothing.                                                                *)
(***************************************************************************)
EXTENDS Integers, Sequences

CONSTANTS
    Caller,      \* the threads that call authorize
    Capability,  \* what issue_capability made: [principal, issued, expires, nonce, key]
    Request,     \* the requests that are delivered: [capability, commitment, form]
    Principal,   \* the principals that callers are authenticated as
    Tick,        \* the ticks at which calls are made
    Result,      \* result commitments
    None,
    MaxEntries   \* bound: the entries of the ledger

(* What became of a request since build_request: "built" is untouched;     *)
(* "altered" differs from what build_request makes of its capability, or   *)
(* comes with a malformed result; build_request raises on "malformed" and  *)
(* "mislabelled", and the latter also names another operation or matter    *)
(* than its capability.                                                    *)
Form == {"built", "altered", "malformed", "mislabelled"}

Receipt == [result : Result, duplicate : BOOLEAN]

ASSUME RequestAssumption ==
    /\ Capability \subseteq [principal : STRING, issued : Nat, expires : Nat,
                             nonce : STRING, key : STRING]
    /\ \A cap \in Capability : cap.issued < cap.expires
    /\ \A r \in Request : r.capability \in Capability /\ r.form \in Form
    /\ Tick \subseteq Nat /\ MaxEntries \in Nat

ASSUME NoneAssumption == None \notin [request : Request, receipt : Receipt]

VARIABLES
    entries,      \* the ledger: [request, disposition, code]
    nonces,       \* its _nonce_hashes
    idempotency,  \* its _idempotency: for a key, [request, receipt]
    calls,        \* calls[c]: where the call of thread c is
    answers       \* ghost: for each entry, the receipt its call returned and the
                  \* length of the ledger when that call first looked at it

vars == <<entries, nonces, idempotency, calls, answers>>

Key == {cap.key : cap \in Capability}

Idle == [step |-> "idle"]

Init ==
    /\ entries = << >>
    /\ nonces = {}
    /\ idempotency = [k \in Key |-> None]
    /\ calls = [c \in Caller |-> Idle]
    /\ answers = << >>

Timely(cap, tick) == cap.issued <= tick /\ tick < cap.expires

(* The denial that the checks before the ledger lead to. A request that    *)
(* build_request refuses skips the first check only: its INVALID_REQUEST   *)
(* gives way to a later denial, and "" here means that the ledger is asked.*)
LocalDenial(r, p, tick) ==
    CASE r.form = "altered" -> "INVALID_REQUEST"
      [] r.form # "altered" /\ r.capability.principal # p -> "IDENTITY_MISMATCH"
      [] r.form = "mislabelled" /\ r.capability.principal = p -> "AUTHORITY_MISMATCH"
      [] r.form \in {"built", "malformed"} /\ r.capability.principal = p ->
            IF Timely(r.capability, tick) THEN "" ELSE "EXPIRED"

(* Fault: only an accepted request uses up its nonce. *)
AppendSparing(r, code, receipt) ==
    /\ entries' = Append(entries, [request |-> r, code |-> code,
           disposition |-> IF code = "" THEN "ACCEPTED" ELSE "DENIED"])
    /\ nonces' = IF code = "" THEN nonces \cup {r.capability.nonce} ELSE nonces
    /\ idempotency' = IF code # "" THEN idempotency ELSE
           [idempotency EXCEPT ![r.capability.key] = [request |-> r, receipt |-> receipt]]

(* AppendOnlyReplayLedger.append; authorize accepts exactly when it has no *)
(* denial code.                                                            *)
AppendEntry(r, code, receipt) ==
    /\ entries' = Append(entries, [request |-> r, code |-> code,
           disposition |-> IF code = "" THEN "ACCEPTED" ELSE "DENIED"])
    /\ nonces' = nonces \cup {r.capability.nonce}
    /\ idempotency' = IF code # "" THEN idempotency ELSE
           [idempotency EXCEPT ![r.capability.key] = [request |-> r, receipt |-> receipt]]

Return(c, receipt, since) ==
    /\ Len(entries) < MaxEntries
    /\ answers' = Append(answers, [receipt |-> receipt, since |-> since])
    /\ calls' = [calls EXCEPT ![c] = Idle]

DenyUnasked(c) ==
    /\ calls[c] = Idle
    /\ \E r \in Request, p \in Principal, tick \in Tick :
          /\ LocalDenial(r, p, tick) # ""
          /\ AppendEntry(r, LocalDenial(r, p, tick), None)
    /\ Return(c, None, Len(entries))

(* Fault: the nonce is asked for before the key. *)
AfterNonce(prior, r) ==
    IF r.capability.nonce \in nonces THEN "replayed"
    ELSE IF prior = None THEN "nonce" ELSE "repeat"

(* Where a call goes with the prior success of its key. *)
After(prior, r) ==
    CASE prior = None -> "nonce"
      [] prior # None /\ prior.request = r -> "repeat"
      [] prior # None /\ prior.request # r -> "replayed"

PriorSuccess(c) ==
    /\ calls[c] = Idle
    /\ \E r \in Request, p \in Principal, tick \in Tick, result \in Result :
          LET prior == idempotency[r.capability.key] IN
          /\ LocalDenial(r, p, tick) = ""
          /\ calls' = [calls EXCEPT ![c] =
                [step |-> After(prior, r), request |-> r, result |-> result,
                 receipt |-> IF prior = None THEN None ELSE prior.receipt,
                 since |-> Len(entries)]]
    /\ UNCHANGED <<entries, nonces, idempotency, answers>>

At(c, step) == calls[c] # Idle /\ calls[c].step = step

HasNonce(c) ==
    LET r == calls[c].request IN
    /\ At(c, "nonce")
    /\ calls' = [calls EXCEPT ![c].step =
          IF r.capability.nonce \in nonces THEN "replayed"
          ELSE IF r.form = "built" THEN "accept" ELSE "invalid"]
    /\ UNCHANGED <<entries, nonces, idempotency, answers>>

Deny(c) ==
    /\ \/ At(c, "replayed") /\ AppendEntry(calls[c].request, "REPLAYED", None)
       \/ At(c, "invalid") /\ AppendEntry(calls[c].request, "INVALID_REQUEST", None)
    /\ Return(c, None, calls[c].since)

Marked(receipt) == [receipt EXCEPT !.duplicate = TRUE]

(* Fault: the result of this call goes into the old receipt. *)
RepeatAnew(c) ==
    LET receipt == [calls[c].receipt EXCEPT !.result = calls[c].result] IN
    /\ At(c, "repeat")
    /\ AppendEntry(calls[c].request, "", receipt)
    /\ Return(c, Marked(receipt), calls[c].since)

(* The prior receipt is recorded again; the caller gets a marked copy. *)
Repeat(c) ==
    /\ At(c, "repeat")
    /\ AppendEntry(calls[c].request, "", calls[c].receipt)
    /\ Return(c, Marked(calls[c].receipt), calls[c].since)

Accept(c) ==
    LET receipt == [result |-> calls[c].result, duplicate |-> FALSE] IN
    /\ At(c, "accept")
    /\ AppendEntry(calls[c].request, "", receipt)
    /\ Return(c, receipt, calls[c].since)

Next ==
    \E c \in Caller :
        \/ DenyUnasked(c) \/ PriorSuccess(c) \/ HasNonce(c)
        \/ Deny(c) \/ Repeat(c) \/ Accept(c)

Spec == Init /\ [][Next]_vars

-----------------------------------------------------------------------------

NonceAt(i) == entries[i].request.capability.nonce
KeyAt(i) == entries[i].request.capability.key
Accepted(i) == entries[i].disposition = "ACCEPTED"
Fresh(i) == Accepted(i) /\ ~answers[i].receipt.duplicate

(* A nonce and a key buy one new receipt: when a call ends with one, no    *)
(* entry made before the call began had its nonce, even if it was a        *)
(* denial, and none had its key accepted. Two new receipts for one key or  *)
(* one nonce are possible only to calls that overlapped, because authorize *)
(* asks and appends under separate locks.                                  *)
FreshMeansNew ==
    \A i \in 1..Len(entries) : Fresh(i) =>
        \A j \in 1..answers[i].since :
            /\ NonceAt(j) # NonceAt(i)
            /\ KeyAt(j) = KeyAt(i) => ~Accepted(j)

(* A repeated request is answered with a receipt that was given for it     *)
(* before (test_capability_request_success_and_exact_duplicate_are_valid), *)
(* whatever result is offered this time and whatever ran in between.       *)
DuplicateRepeats ==
    \A i \in 1..Len(entries) : Accepted(i) /\ ~Fresh(i) =>
        \E j \in 1..(i - 1) :
            /\ Fresh(j)
            /\ entries[j].request = entries[i].request
            /\ answers[j].receipt.result = answers[i].receipt.result

(* A caller that lost its answer can ask again: a request that was         *)
(* accepted before is not refused as REPLAYED, unless an overlapping call  *)
(* let another request take its key since. This needs the key to be looked *)
(* up before the nonce, which the first delivery has used.                 *)
RetryIsAnswered ==
    \A i \in 1..Len(entries) : entries[i].code = "REPLAYED" =>
        \A j \in 1..answers[i].since :
            Accepted(j) /\ entries[j].request = entries[i].request =>
                \E k \in (j + 1)..(i - 1) :
                    /\ Accepted(k) /\ KeyAt(k) = KeyAt(i)
                    /\ entries[k].request # entries[i].request

=============================================================================
