------------------------- MODULE SealedChannelProofs -------------------------
(***************************************************************************)
(* Proofs about the two halves of the sealed channel, each for itself.     *)
(* SealedIpc, for any number of threads, requests and entries: the         *)
(* invariant says what the indexes of the ledger tell about its entries,   *)
(* and what a call that has asked an index may still rely on although the  *)
(* ledger has grown since.  SecurePipe, for every set of serving threads   *)
(* and clients and whichever calls of Windows fail.                        *)
(***************************************************************************)
EXTENDS SealedIpc, SecurePipe, TLAPS

Code == {"", "INVALID_REQUEST", "IDENTITY_MISMATCH", "AUTHORITY_MISMATCH",
         "EXPIRED", "REPLAYED"}

Entry == {e \in [request : Request, code : Code, disposition : {"ACCEPTED", "DENIED"}] :
             e.disposition = "ACCEPTED" <=> e.code = ""}

Answer == [receipt : Receipt \cup {None}, since : Nat]

Call == [step : {"nonce", "repeat", "replayed", "accept", "invalid"},
         request : Request, result : Result, receipt : Receipt \cup {None},
         since : Nat]

Types ==
    /\ entries \in Seq(Entry)
    /\ answers \in Seq(Answer)
    /\ Len(answers) = Len(entries)
    /\ idempotency \in [Key -> [request : Request, receipt : Receipt] \cup {None}]
    /\ calls \in [Caller -> Call \cup {Idle}]

(* No entry up to n used the nonce; none up to n accepted the key. *)
Unused(nonce, n) == \A j \in 1..n : NonceAt(j) # nonce
NotYet(key, n) == \A j \in 1..n : KeyAt(j) = key => ~Accepted(j)

(* A new receipt with this result was given for r. *)
Given(r, given) ==
    \E i \in 1..Len(entries) :
        Fresh(i) /\ entries[i].request = r /\ answers[i].receipt.result = given

(* If r was accepted up to n, another request has taken its key since. *)
Overtaken(r, n) ==
    \A j \in 1..n : Accepted(j) /\ entries[j].request = r =>
        \E k \in (j + 1)..Len(entries) :
            Accepted(k) /\ KeyAt(k) = r.capability.key /\ entries[k].request # r

(* What the indexes of the ledger say of its entries. *)
Indexed ==
    \A i \in 1..Len(entries) :
        /\ NonceAt(i) \in nonces
        /\ Accepted(i) => idempotency[KeyAt(i)] # None

Last(i, k) ==
    /\ Accepted(i) /\ KeyAt(i) = k
    /\ \A j \in (i + 1)..Len(entries) : KeyAt(j) = k => ~Accepted(j)

Latest ==
    \A k \in Key : idempotency[k] # None =>
        /\ \E i \in 1..Len(entries) :
              Last(i, k) /\ entries[i].request = idempotency[k].request
        /\ Given(idempotency[k].request, idempotency[k].receipt.result)

(* What a call knows. *)
CallKnows(c) ==
    LET r == calls[c].request
        n == calls[c].since
    IN  /\ n <= Len(entries)
        /\ calls[c].step \in {"nonce", "accept", "invalid"} => NotYet(r.capability.key, n)
        /\ calls[c].step = "accept" => Unused(r.capability.nonce, n)
        /\ calls[c].step = "repeat" =>
              calls[c].receipt \in Receipt /\ Given(r, calls[c].receipt.result)
        /\ calls[c].step = "replayed" => Overtaken(r, n)

CallInv == \A c \in Caller : calls[c] # Idle => CallKnows(c)

(* What an answer means. *)
AnswerMeans(i) ==
    LET r == entries[i].request
        n == answers[i].since
    IN  /\ n < i
        /\ Accepted(i) => answers[i].receipt \in Receipt
        /\ Fresh(i) => Unused(NonceAt(i), n) /\ NotYet(KeyAt(i), n)
        /\ Accepted(i) /\ ~Fresh(i) =>
              \E j \in 1..(i - 1) :
                  /\ Fresh(j) /\ entries[j].request = r
                  /\ answers[j].receipt.result = answers[i].receipt.result
        /\ entries[i].code = "REPLAYED" =>
              \A j \in 1..n : Accepted(j) /\ entries[j].request = r =>
                  \E k \in (j + 1)..(i - 1) :
                      Accepted(k) /\ KeyAt(k) = KeyAt(i) /\ entries[k].request # r

AnswerInv == \A i \in 1..Len(entries) : AnswerMeans(i)

IInv == Types /\ Indexed /\ Latest /\ CallInv /\ AnswerInv

-----------------------------------------------------------------------------
(* The ledger only grows: appending an entry and its answer leaves the     *)
(* earlier ones where they are.                                            *)
Grows(e, a) == entries' = Append(entries, e) /\ answers' = Append(answers, a)

LEMMA KeyOfRequest == ASSUME NEW r \in Request PROVE r.capability.key \in Key
BY RequestAssumption DEF Key

LEMMA Growth ==
    ASSUME Types, NEW e \in Entry, NEW a \in Answer, Grows(e, a)
    PROVE  /\ entries' \in Seq(Entry) /\ answers' \in Seq(Answer)
           /\ Len(entries) \in Nat
           /\ Len(entries') = Len(entries) + 1 /\ Len(answers') = Len(entries')
           /\ \A i \in 1..Len(entries) : entries'[i] = entries[i] /\ answers'[i] = answers[i]
           /\ entries'[Len(entries) + 1] = e /\ answers'[Len(entries) + 1] = a
BY DEF Types, Grows

LEMMA RowTypes ==
    ASSUME Types, NEW i \in 1..Len(entries)
    PROVE  /\ entries[i].request \in Request /\ KeyAt(i) \in Key
           /\ answers[i].since \in Nat
<1>1. entries[i] \in Entry /\ answers[i] \in Answer
    BY DEF Types
<1>2. entries[i].request \in Request
    BY <1>1 DEF Entry
<1>3. answers[i].since \in Nat
    BY <1>1 DEF Answer
<1> QED BY <1>2, <1>3, KeyOfRequest DEF KeyAt

(* So whatever was known about the ledger up to some entry is still true. *)
LEMMA StillKnown ==
    ASSUME Types, NEW e \in Entry, NEW a \in Answer, Grows(e, a)
    PROVE  /\ \A n \in Nat : \A x : n <= Len(entries) /\ Unused(x, n) => Unused(x, n)'
           /\ \A n \in Nat : \A x : n <= Len(entries) /\ NotYet(x, n) => NotYet(x, n)'
           /\ \A r, x : Given(r, x) => Given(r, x)'
           /\ \A n \in Nat : \A r : n <= Len(entries) /\ Overtaken(r, n) => Overtaken(r, n)'
<1>1. /\ Len(entries) \in Nat /\ Len(entries') = Len(entries) + 1
      /\ \A i \in 1..Len(entries) : entries'[i] = entries[i] /\ answers'[i] = answers[i]
    BY Growth
<1>2. \A n \in Nat : \A x : n <= Len(entries) /\ Unused(x, n) => Unused(x, n)'
    BY <1>1 DEF Unused, NonceAt
<1>3. \A n \in Nat : \A x : n <= Len(entries) /\ NotYet(x, n) => NotYet(x, n)'
    BY <1>1 DEF NotYet, KeyAt, Accepted
<1>4. \A r, x : Given(r, x) => Given(r, x)'
    BY <1>1 DEF Given, Fresh, Accepted
<1>5. \A n \in Nat : \A r : n <= Len(entries) /\ Overtaken(r, n) => Overtaken(r, n)'
    BY <1>1 DEF Overtaken, KeyAt, Accepted
<1> QED BY <1>2, <1>3, <1>4, <1>5

-----------------------------------------------------------------------------
(* The step that ends a call: an entry for r with this code, and the       *)
(* answer `returned`, which repeats `receipt` if there is one.             *)
Ends(c, r, code, receipt, returned, since) ==
    /\ AppendEntry(r, code, receipt)
    /\ Return(c, returned, since)

(* What the call must know when it ends. *)
MayEnd(r, code, receipt, returned, since) ==
    /\ since <= Len(entries)
    /\ code = "" =>
          /\ receipt \in Receipt /\ returned \in Receipt
          /\ returned.result = receipt.result
          /\ returned.duplicate => Given(r, receipt.result)
          /\ ~returned.duplicate =>
                NotYet(r.capability.key, since) /\ Unused(r.capability.nonce, since)
    /\ code = "REPLAYED" => Overtaken(r, since)

LEMMA EndKeepsInvariant ==
    ASSUME IInv, NEW c \in Caller, NEW r \in Request, NEW code \in Code,
           NEW receipt \in Receipt \cup {None}, NEW returned \in Receipt \cup {None},
           NEW since \in Nat, NEW n \in Nat, n = Len(entries),
           Ends(c, r, code, receipt, returned, since),
           MayEnd(r, code, receipt, returned, since)
    PROVE  IInv'
<1> DEFINE e == [request |-> r, code |-> code,
                 disposition |-> IF code = "" THEN "ACCEPTED" ELSE "DENIED"]
           a == [receipt |-> returned, since |-> since]
<1>m1. since <= n
    BY Zenon DEF MayEnd
<1>m2. code = "" => receipt \in Receipt /\ returned \in Receipt /\ returned.result = receipt.result
    BY Zenon DEF MayEnd
<1>m3. code = "" /\ returned.duplicate => Given(r, receipt.result)
    BY Zenon DEF MayEnd
<1>m4. code = "" /\ ~returned.duplicate =>
           NotYet(r.capability.key, since) /\ Unused(r.capability.nonce, since)
    BY Zenon DEF MayEnd
<1>m5. code = "REPLAYED" => Overtaken(r, since)
    BY Zenon DEF MayEnd
<1>1. /\ e \in Entry /\ a \in Answer
      /\ e.request = r /\ e.code = code /\ (e.disposition = "ACCEPTED" <=> code = "")
      /\ a.receipt = returned /\ a.since = since
    BY DEF Entry, Answer
<1>2. Grows(e, a)
    BY DEF Grows, Ends, AppendEntry, Return
<1>3. /\ Types /\ Indexed /\ Latest /\ CallInv /\ AnswerInv
      /\ nonces' = nonces \cup {r.capability.nonce}
      /\ idempotency' = IF code # "" THEN idempotency ELSE
            [idempotency EXCEPT ![r.capability.key] = [request |-> r, receipt |-> receipt]]
      /\ calls' = [calls EXCEPT ![c] = Idle]
    BY DEF IInv, Ends, AppendEntry, Return
<1> HIDE DEF e, a
<1>4. /\ entries' \in Seq(Entry) /\ answers' \in Seq(Answer)
      /\ n \in Nat /\ Len(entries') = n + 1 /\ Len(answers') = Len(entries')
      /\ \A i \in 1..n : entries'[i] = entries[i] /\ answers'[i] = answers[i]
      /\ entries'[n + 1] = e /\ answers'[n + 1] = a
    BY <1>1, <1>2, <1>3, Growth
<1>len. n \in Nat /\ Len(entries') = n + 1 /\ n = Len(entries)
    BY <1>4
<1>old. \A i \in 1..n : entries'[i] = entries[i] /\ answers'[i] = answers[i]
    BY <1>4
<1>new. entries'[n + 1] = e /\ answers'[n + 1] = a
    BY <1>4
<1>5. /\ \A m \in Nat : \A x : m <= n /\ Unused(x, m) => Unused(x, m)'
      /\ \A m \in Nat : \A x : m <= n /\ NotYet(x, m) => NotYet(x, m)'
      /\ \A q, x : Given(q, x) => Given(q, x)'
      /\ \A m \in Nat : \A q : m <= n /\ Overtaken(q, m) => Overtaken(q, m)'
    BY <1>1, <1>2, <1>3, StillKnown
<1>k. r.capability.key \in Key
    BY KeyOfRequest
(* Facts about the old entries and the new one. *)
<1>6. \A i \in 1..n : /\ NonceAt(i)' = NonceAt(i) /\ KeyAt(i)' = KeyAt(i)
                      /\ Accepted(i)' = Accepted(i) /\ Fresh(i)' = Fresh(i)
    BY <1>4 DEF NonceAt, KeyAt, Accepted, Fresh
<1>7. /\ NonceAt(n + 1)' = r.capability.nonce /\ KeyAt(n + 1)' = r.capability.key
      /\ Accepted(n + 1)' <=> code = ""
      /\ Fresh(n + 1)' <=> code = "" /\ ~returned.duplicate
    BY <1>1, <1>4 DEF NonceAt, KeyAt, Accepted, Fresh
<1>8. Types'
    <2>1. code = "" => receipt \in Receipt
        BY <1>m2
    <2>2. idempotency' \in [Key -> [request : Request, receipt : Receipt] \cup {None}]
        BY <1>3, <2>1, <1>k DEF Types
    <2>3. calls' \in [Caller -> Call \cup {Idle}]
        BY <1>3 DEF Types
    <2> QED BY <1>4, <2>2, <2>3 DEF Types
<1>9. Indexed'
    <2>1. code = "" => idempotency'[r.capability.key] # None
        <3>1. ASSUME code = "" PROVE idempotency'[r.capability.key] # None
            <4>1. receipt \in Receipt
                BY <3>1, <1>m2
            <4>2. idempotency'[r.capability.key] = [request |-> r, receipt |-> receipt]
                BY <1>3, <1>k, <3>1 DEF Types
            <4> QED BY <4>1, <4>2, NoneAssumption
        <3> QED BY <3>1
    <2>2. ASSUME NEW k \in Key, idempotency[k] # None PROVE idempotency'[k] # None
        BY <1>3, <1>k, <2>1, <2>2 DEF Types
    <2>3. ASSUME NEW i \in 1..(n + 1)
          PROVE  NonceAt(i)' \in nonces' /\ (Accepted(i)' => idempotency'[KeyAt(i)'] # None)
        <3>1. CASE i \in 1..n
            <4>1. /\ NonceAt(i) \in nonces
                  /\ Accepted(i) => idempotency[KeyAt(i)] # None
                BY <1>3, <3>1 DEF Indexed
            <4>2. KeyAt(i) \in Key
                BY <1>3, <1>len, <3>1, RowTypes
            <4> QED BY <4>1, <4>2, <1>3, <1>6, <2>2, <3>1
        <3>2. CASE i = n + 1
            BY <3>2, <1>3, <1>7, <2>1
        <3> QED BY <3>1, <3>2, <1>4
    <2> QED BY <2>3, <1>4 DEF Indexed
<1>10. Latest'
    <2> SUFFICES ASSUME NEW k \in Key, idempotency'[k] # None
                 PROVE  /\ \E i \in 1..(n + 1) :
                              Last(i, k)' /\ entries'[i].request = idempotency'[k].request
                        /\ Given(idempotency[k].request, idempotency[k].receipt.result)'
        BY <1>len DEF Latest
    <2>1. CASE code = "" /\ k = r.capability.key
        <3>1. idempotency'[k] = [request |-> r, receipt |-> receipt]
            BY <1>3, <2>1 DEF Types
        <3>2. idempotency'[k].request = r /\ idempotency'[k].receipt = receipt
            BY <3>1
        <3>3. Last(n + 1, k)'
            <4>1. Accepted(n + 1)' /\ KeyAt(n + 1)' = k
                BY <1>7, <2>1
            <4>2. (n + 1 + 1)..Len(entries') = {}
                BY <1>len
            <4> QED BY <4>1, <4>2 DEF Last
        <3>4. entries'[n + 1].request = r
            BY <1>1, <1>new
        <3>5. Given(r, receipt.result)'
            <4>1. CASE returned.duplicate
                BY <4>1, <1>5, <2>1, <1>m3
            <4>2. CASE ~returned.duplicate
                <5>1. Fresh(n + 1)'
                    BY <4>2, <1>7, <2>1
                <5>2. answers'[n + 1].receipt.result = receipt.result
                    BY <1>1, <1>new, <2>1, <1>m2
                <5> QED BY <5>1, <5>2, <3>4, <1>len DEF Given
            <4> QED BY <4>1, <4>2
        <3> QED BY <3>2, <3>3, <3>4, <3>5, <1>len
    <2>2. CASE ~(code = "" /\ k = r.capability.key)
        <3>1. idempotency'[k] = idempotency[k]
            BY <1>3, <2>2 DEF Types
        <3>2. PICK i \in 1..n : Last(i, k) /\ entries[i].request = idempotency[k].request
            BY <1>3, <3>1 DEF Latest
        <3>3. Given(idempotency[k].request, idempotency[k].receipt.result)
            BY <1>3, <3>1 DEF Latest
        <3>4. Last(i, k)'
            <4>1. Accepted(i)' /\ KeyAt(i)' = k
                BY <1>6, <3>2 DEF Last
            <4>2. ASSUME NEW j \in (i + 1)..(n + 1), KeyAt(j)' = k PROVE ~Accepted(j)'
                <5>1. CASE j \in 1..n
                    BY <5>1, <4>2, <1>4, <1>6, <3>2 DEF Last
                <5>2. CASE j = n + 1
                    BY <5>2, <4>2, <1>7, <2>2
                <5> QED BY <5>1, <5>2, <1>4
            <4> QED BY <4>1, <4>2, <1>4 DEF Last
        <3>5. entries'[i].request = idempotency'[k].request
            BY <3>1, <3>2, <1>4
        <3> QED BY <3>1, <3>3, <3>4, <3>5, <1>len, <1>5
    <2> QED BY <2>1, <2>2
<1>11. CallInv'
    <2> SUFFICES ASSUME NEW b \in Caller, calls'[b] # Idle PROVE CallKnows(b)'
        BY DEF CallInv
    <2>1. calls'[b] = calls[b] /\ calls[b] # Idle
        BY <1>3 DEF Types
    <2>2. CallKnows(b) /\ calls[b].since \in Nat
        BY <1>3, <2>1 DEF CallInv, Types, Call
    <2> QED BY <2>1, <2>2, <1>4, <1>5 DEF CallKnows
<1>12. AnswerInv'
    <2> SUFFICES ASSUME NEW i \in 1..(n + 1) PROVE AnswerMeans(i)'
        BY <1>4 DEF AnswerInv
    <2>1. CASE i \in 1..n
        <3>1. AnswerMeans(i) /\ answers[i].since \in Nat
            BY <1>3, <1>len, <2>1, RowTypes DEF AnswerInv
        <3>2. entries'[i] = entries[i] /\ answers'[i] = answers[i]
            BY <1>4, <2>1
        <3>3. \A j \in 1..i : /\ entries'[j] = entries[j] /\ answers'[j] = answers[j]
                              /\ NonceAt(j)' = NonceAt(j) /\ KeyAt(j)' = KeyAt(j)
                              /\ Accepted(j)' = Accepted(j) /\ Fresh(j)' = Fresh(j)
            BY <1>4, <1>6, <2>1
        <3>4. answers[i].since < i
            BY <3>1 DEF AnswerMeans
        <3>5. Accepted(i) => answers[i].receipt \in Receipt
            BY <3>1 DEF AnswerMeans
        <3>6. Fresh(i) => Unused(NonceAt(i), answers[i].since)'
                          /\ NotYet(KeyAt(i), answers[i].since)'
            <4>1. answers[i].since \in Nat /\ answers[i].since <= n
                BY <3>1, <3>4, <1>len, <2>1
            <4>2. Fresh(i) => Unused(NonceAt(i), answers[i].since)
                              /\ NotYet(KeyAt(i), answers[i].since)
                BY <3>1 DEF AnswerMeans
            <4> QED BY <4>1, <4>2, <1>5, <3>2, <3>3, <2>1
        <3>7. Accepted(i) /\ ~Fresh(i) =>
                  \E j \in 1..(i - 1) :
                      /\ Fresh(j)' /\ entries'[j].request = entries[i].request
                      /\ answers'[j].receipt.result = answers[i].receipt.result
            BY <3>1, <3>3, <1>4, <2>1 DEF AnswerMeans
        <3>8. entries[i].code = "REPLAYED" =>
                  \A j \in 1..answers[i].since :
                      Accepted(j)' /\ entries'[j].request = entries[i].request =>
                          \E k \in (j + 1)..(i - 1) :
                              /\ Accepted(k)' /\ KeyAt(k)' = KeyAt(i)
                              /\ entries'[k].request # entries[i].request
            BY <3>1, <3>3, <3>4, <1>4, <2>1 DEF AnswerMeans
        <3> QED BY <3>2, <3>3, <3>4, <3>5, <3>6, <3>7, <3>8, <1>4, <2>1 DEF AnswerMeans
    <2>2. CASE i = n + 1
        <3>1. entries'[i] = e /\ answers'[i] = a
            BY <1>4, <2>2
        <3>2. since < i
            BY <1>4, <2>2, <1>m1
        <3>3. Accepted(i)' => returned \in Receipt
            BY <1>7, <2>2, <1>m2
        <3>4. Fresh(i)' => Unused(NonceAt(i), since)' /\ NotYet(KeyAt(i), since)'
            BY <1>5, <1>7, <2>2, <3>2, <1>m1, <1>m4
        <3>5. Accepted(i)' /\ ~Fresh(i)' =>
                  \E j \in 1..(i - 1) :
                      /\ Fresh(j)' /\ entries'[j].request = r
                      /\ answers'[j].receipt.result = returned.result
            <4>1. ASSUME Accepted(i)', ~Fresh(i)' PROVE Given(r, returned.result)
                BY <4>1, <1>7, <2>2, <1>m2, <1>m3
            <4> QED BY <4>1, <1>4, <1>6, <2>2 DEF Given
        <3>6. code = "REPLAYED" =>
                  \A j \in 1..since : Accepted(j)' /\ entries'[j].request = r =>
                      \E k \in (j + 1)..(i - 1) :
                          Accepted(k)' /\ KeyAt(k)' = KeyAt(i)' /\ entries'[k].request # r
            <4>1. ASSUME code = "REPLAYED" PROVE Overtaken(r, since)
                BY <4>1, <1>m5
            <4> QED BY <4>1, <1>4, <1>6, <1>7, <2>2, <3>2 DEF Overtaken
        <3> QED BY <3>1, <3>2, <3>3, <3>4, <3>5, <3>6, <1>1 DEF AnswerMeans
    <2> QED BY <2>1, <2>2, <1>4
<1> QED BY <1>8, <1>9, <1>10, <1>11, <1>12 DEF IInv

-----------------------------------------------------------------------------
LEMMA InitInv == Init => IInv
<1> SUFFICES ASSUME Init PROVE IInv
    OBVIOUS
<1>1. /\ entries = << >> /\ answers = << >>
      /\ idempotency = [k \in Key |-> None]
      /\ calls = [c \in Caller |-> Idle]
    BY DEF Init
<1>2. Types
    BY <1>1 DEF Types
<1>3. Indexed /\ AnswerInv
    BY <1>1 DEF Indexed, AnswerInv
<1>4. Latest /\ CallInv
    BY <1>1 DEF Latest, CallInv
<1> QED BY <1>2, <1>3, <1>4 DEF IInv

(* A step that only moves a call keeps what is known of the ledger. *)
LEMMA MoveKeepsInvariant ==
    ASSUME IInv, NEW c \in Caller, NEW call \in Call,
           calls' = [calls EXCEPT ![c] = call], CallKnows(c)',
           UNCHANGED <<entries, nonces, idempotency, answers>>
    PROVE  IInv'
<1>1. Types /\ Indexed /\ Latest /\ CallInv /\ AnswerInv
    BY DEF IInv
<1>2. Types'
    BY <1>1 DEF Types
<1>3. Indexed'
    BY <1>1 DEF Indexed, NonceAt, KeyAt, Accepted
<1>4. Latest'
    BY <1>1 DEF Latest, Last, Given, Fresh, KeyAt, Accepted
<1>5. CallInv'
    <2> SUFFICES ASSUME NEW b \in Caller, calls'[b] # Idle PROVE CallKnows(b)'
        BY DEF CallInv
    <2>1. CASE b = c
        BY <2>1
    <2>2. CASE b # c
        <3>1. calls'[b] = calls[b]
            BY <2>2, <1>1 DEF Types
        <3>2. CallKnows(b)
            BY <3>1, <1>1 DEF CallInv
        <3> QED BY <3>1, <3>2 DEF CallKnows, NotYet, Unused, Given, Overtaken, Fresh,
                                  NonceAt, KeyAt, Accepted
    <2> QED BY <2>1, <2>2
<1>6. AnswerInv'
    BY <1>1 DEF AnswerInv, AnswerMeans, NotYet, Unused, Fresh, NonceAt, KeyAt, Accepted
<1> QED BY <1>2, <1>3, <1>4, <1>5, <1>6 DEF IInv

-----------------------------------------------------------------------------
(* The actions. *)

LEMMA LocalCode ==
    ASSUME NEW r \in Request, NEW p, NEW tick
    PROVE  LocalDenial(r, p, tick) \in Code \ {"REPLAYED"}
<1>1. r.form \in Form
    BY RequestAssumption
<1> QED BY <1>1 DEF LocalDenial, Code, Form

LEMMA AtCall ==
    ASSUME IInv, NEW c \in Caller, NEW step, At(c, step)
    PROVE  /\ calls[c] \in Call /\ calls[c].step = step /\ calls[c] # Idle
           /\ calls[c].request \in Request /\ calls[c].result \in Result
           /\ calls[c].receipt \in Receipt \cup {None}
           /\ calls[c].since \in Nat /\ Len(entries) \in Nat
           /\ CallKnows(c)
<1>1. calls[c] \in Call /\ calls[c].step = step /\ calls[c] # Idle
    BY DEF IInv, Types, At
<1>2. CallKnows(c)
    BY <1>1 DEF IInv, CallInv
<1>3. Len(entries) \in Nat
    BY DEF IInv, Types
<1> QED BY <1>1, <1>2, <1>3 DEF Call

LEMMA DenyUnaskedInv ==
    ASSUME IInv, NEW c \in Caller, DenyUnasked(c)
    PROVE  IInv'
<1>1. PICK r \in Request, p \in Principal, tick \in Tick :
          /\ LocalDenial(r, p, tick) # ""
          /\ AppendEntry(r, LocalDenial(r, p, tick), None)
    BY DEF DenyUnasked
<1>2. Return(c, None, Len(entries))
    BY DEF DenyUnasked
<1>3. Len(entries) \in Nat
    BY DEF IInv, Types
<1>4. PICK code \in Code : code = LocalDenial(r, p, tick) /\ code # "" /\ code # "REPLAYED"
    <2>1. LocalDenial(r, p, tick) \in Code /\ LocalDenial(r, p, tick) # "REPLAYED"
        BY LocalCode
    <2>2. PICK code \in Code : code = LocalDenial(r, p, tick)
        BY <2>1
    <2> QED BY <1>1, <2>1, <2>2
<1>5. PICK n \in Nat : n = Len(entries)
    BY <1>3
<1>6. Ends(c, r, code, None, None, n)
    BY <1>1, <1>2, <1>4, <1>5 DEF Ends
<1>7. MayEnd(r, code, None, None, n)
    <2>1. n <= Len(entries)
        BY <1>5
    <2> QED BY Zenon, <1>4, <2>1 DEF MayEnd
<1> QED BY <1>4, <1>5, <1>6, <1>7, EndKeepsInvariant

LEMMA DenyInv ==
    ASSUME IInv, NEW c \in Caller, Deny(c)
    PROVE  IInv'
<1>1. PICK n \in Nat : n = Len(entries)
    BY DEF IInv, Types
<1>2. Return(c, None, calls[c].since)
    BY DEF Deny
<1>3. ASSUME NEW code \in {"REPLAYED", "INVALID_REQUEST"},
             AppendEntry(calls[c].request, code, None),
             calls[c].request \in Request, calls[c].since \in Nat, CallKnows(c),
             code = "REPLAYED" => calls[c].step = "replayed"
      PROVE  IInv'
    <2>1. PICK r \in Request, since \in Nat :
              r = calls[c].request /\ since = calls[c].since
        BY <1>3
    <2>2. Ends(c, r, code, None, None, since)
        BY <1>2, <1>3, <2>1 DEF Ends
    <2>3. since <= n /\ (code = "REPLAYED" => Overtaken(r, since))
        BY <1>1, <1>3, <2>1 DEF CallKnows
    <2>4. MayEnd(r, code, None, None, since)
        BY <2>3, <1>1, <1>3 DEF MayEnd
    <2> QED BY <1>1, <1>3, <2>2, <2>4, EndKeepsInvariant DEF Code
<1>4. CASE At(c, "replayed") /\ AppendEntry(calls[c].request, "REPLAYED", None)
    BY <1>3, <1>4, AtCall
<1>5. CASE At(c, "invalid") /\ AppendEntry(calls[c].request, "INVALID_REQUEST", None)
    BY <1>3, <1>5, AtCall
<1> QED BY <1>4, <1>5 DEF Deny

LEMMA RepeatInv ==
    ASSUME IInv, NEW c \in Caller, Repeat(c)
    PROVE  IInv'
<1>1. /\ At(c, "repeat") /\ AppendEntry(calls[c].request, "", calls[c].receipt)
      /\ Return(c, Marked(calls[c].receipt), calls[c].since)
    BY DEF Repeat
<1>2. /\ calls[c].request \in Request /\ calls[c].since \in Nat /\ Len(entries) \in Nat
      /\ calls[c].step = "repeat" /\ CallKnows(c)
    BY <1>1, AtCall
<1>3. /\ calls[c].since <= Len(entries) /\ calls[c].receipt \in Receipt
      /\ Given(calls[c].request, calls[c].receipt.result)
    BY <1>2 DEF CallKnows
<1>4. PICK r \in Request, receipt \in Receipt, since \in Nat, n \in Nat :
          /\ r = calls[c].request /\ receipt = calls[c].receipt
          /\ since = calls[c].since /\ n = Len(entries)
    BY <1>2, <1>3
<1>5. PICK returned \in Receipt :
          returned = Marked(receipt) /\ returned.duplicate /\ returned.result = receipt.result
    <2> DEFINE marked == Marked(receipt)
    <2>1. marked \in Receipt
        BY DEF Marked, Receipt
    <2>2. marked.duplicate /\ marked.result = receipt.result
        BY DEF Marked, Receipt
    <2> HIDE DEF marked
    <2>3. PICK returned \in Receipt : returned = marked
        BY <2>1
    <2> QED BY <2>2, <2>3 DEF marked
<1>6. Ends(c, r, "", receipt, returned, since)
    BY <1>1, <1>4, <1>5 DEF Ends
<1>7. MayEnd(r, "", receipt, returned, since)
    BY <1>3, <1>4, <1>5 DEF MayEnd
<1> QED BY <1>4, <1>6, <1>7, EndKeepsInvariant DEF Code

LEMMA AcceptInv ==
    ASSUME IInv, NEW c \in Caller, Accept(c)
    PROVE  IInv'
<1> DEFINE receipt0 == [result |-> calls[c].result, duplicate |-> FALSE]
<1>1. /\ At(c, "accept") /\ AppendEntry(calls[c].request, "", receipt0)
      /\ Return(c, receipt0, calls[c].since)
    BY DEF Accept
<1>2. /\ calls[c].request \in Request /\ calls[c].since \in Nat /\ Len(entries) \in Nat
      /\ calls[c].result \in Result /\ calls[c].step = "accept" /\ CallKnows(c)
    BY <1>1, AtCall
<1>3. /\ calls[c].since <= Len(entries)
      /\ NotYet(calls[c].request.capability.key, calls[c].since)
      /\ Unused(calls[c].request.capability.nonce, calls[c].since)
    BY <1>2 DEF CallKnows
<1>4. receipt0 \in Receipt /\ ~receipt0.duplicate
    BY <1>2 DEF Receipt
<1> HIDE DEF receipt0
<1>5. PICK r \in Request, receipt \in Receipt, since \in Nat, n \in Nat :
          /\ r = calls[c].request /\ receipt = receipt0 /\ ~receipt.duplicate
          /\ since = calls[c].since /\ n = Len(entries)
    BY <1>2, <1>4
<1>6. Ends(c, r, "", receipt, receipt, since)
    BY <1>1, <1>5 DEF Ends
<1>7. MayEnd(r, "", receipt, receipt, since)
    BY <1>3, <1>5 DEF MayEnd
<1> QED BY <1>5, <1>6, <1>7, EndKeepsInvariant DEF Code

LEMMA PriorSuccessInv ==
    ASSUME IInv, NEW c \in Caller, PriorSuccess(c)
    PROVE  IInv'
<1>1. PICK r \in Request, given \in Result :
          calls' = [calls EXCEPT ![c] =
              [step |-> After(idempotency[r.capability.key], r), request |-> r,
               result |-> given,
               receipt |-> IF idempotency[r.capability.key] = None THEN None
                           ELSE idempotency[r.capability.key].receipt,
               since |-> Len(entries)]]
    BY DEF PriorSuccess
<1>2. UNCHANGED <<entries, nonces, idempotency, answers>>
    BY DEF PriorSuccess
<1> DEFINE prior == idempotency[r.capability.key]
<1>3. /\ Types /\ Indexed /\ Latest /\ Len(entries) \in Nat
      /\ r.capability.key \in Key
      /\ prior \in [request : Request, receipt : Receipt] \cup {None}
    BY KeyOfRequest DEF IInv, Types
<1>4. PICK p \in [request : Request, receipt : Receipt] \cup {None} : p = prior
    BY <1>3
<1>5. PICK n \in Nat : n = Len(entries)
    BY <1>3
<1>6. PICK call \in Call :
          /\ call = [step |-> After(p, r), request |-> r, result |-> given,
                     receipt |-> IF p = None THEN None ELSE p.receipt, since |-> n]
          /\ call.step = After(p, r) /\ call.request = r /\ call.since = n
          /\ call.receipt = IF p = None THEN None ELSE p.receipt
    <2>1. After(p, r) \in {"nonce", "repeat", "replayed"}
        BY DEF After
    <2>2. (IF p = None THEN None ELSE p.receipt) \in Receipt \cup {None}
        OBVIOUS
    <2> DEFINE call0 == [step |-> After(p, r), request |-> r, result |-> given,
                         receipt |-> IF p = None THEN None ELSE p.receipt, since |-> n]
    <2>3. call0 \in Call
        BY <2>1, <2>2 DEF Call
    <2>4. /\ call0.step = After(p, r) /\ call0.request = r /\ call0.since = n
          /\ call0.receipt = IF p = None THEN None ELSE p.receipt
        OBVIOUS
    <2> HIDE DEF call0
    <2>5. PICK call \in Call : call = call0
        BY <2>3
    <2> QED BY <2>4, <2>5 DEF call0
<1>7. calls' = [calls EXCEPT ![c] = call]
    BY <1>1, <1>4, <1>5, <1>6
<1>8. calls'[c] = call
    BY <1>3, <1>7 DEF Types
<1>9. CASE p = None
    <2>1. call.step = "nonce"
        BY <1>6, <1>9 DEF After
    <2>2. NotYet(r.capability.key, n)
        BY <1>3, <1>4, <1>5, <1>9 DEF Indexed, NotYet
    <2>3. NotYet(r.capability.key, n)'
        BY <1>2, <2>2 DEF NotYet, KeyAt, Accepted
    <2>4. CallKnows(c)'
        BY <1>2, <1>5, <1>6, <1>8, <2>1, <2>3 DEF CallKnows
    <2> QED BY <1>2, <1>7, <2>4, MoveKeepsInvariant
<1>10. CASE p # None /\ p.request = r
    <2>1. call.step = "repeat" /\ call.receipt = p.receipt /\ p.receipt \in Receipt
        BY <1>6, <1>10 DEF After
    <2>2. Given(r, p.receipt.result)
        BY <1>3, <1>4, <1>10 DEF Latest
    <2>3. Given(r, p.receipt.result)'
        BY <1>2, <2>2 DEF Given, Fresh, Accepted
    <2>4. CallKnows(c)'
        BY <1>2, <1>5, <1>6, <1>8, <2>1, <2>3 DEF CallKnows
    <2> QED BY <1>2, <1>7, <2>4, MoveKeepsInvariant
<1>11. CASE p # None /\ p.request # r
    <2>1. call.step = "replayed"
        BY <1>6, <1>11 DEF After
    <2>2. PICK i \in 1..n : Last(i, r.capability.key) /\ entries[i].request = p.request
        BY <1>3, <1>4, <1>5, <1>11 DEF Latest
    <2>3. ASSUME NEW j \in 1..n, Accepted(j), entries[j].request = r
          PROVE  i \in (j + 1)..n
        <3>1. KeyAt(j) = r.capability.key
            BY <2>3 DEF KeyAt
        <3>2. j # i
            BY <2>2, <2>3, <1>11
        <3>3. ~(j \in (i + 1)..n)
            BY <1>5, <2>2, <2>3, <3>1 DEF Last
        <3> QED BY <3>2, <3>3
    <2>4. Overtaken(r, n)
        BY <1>5, <1>11, <2>2, <2>3 DEF Overtaken, Last
    <2>5. Overtaken(r, n)'
        BY <1>2, <2>4 DEF Overtaken, KeyAt, Accepted
    <2>6. CallKnows(c)'
        BY <1>2, <1>5, <1>6, <1>8, <2>1, <2>5 DEF CallKnows
    <2> QED BY <1>2, <1>7, <2>6, MoveKeepsInvariant
<1> QED BY <1>9, <1>10, <1>11

LEMMA HasNonceInv ==
    ASSUME IInv, NEW c \in Caller, HasNonce(c)
    PROVE  IInv'
<1>1. /\ At(c, "nonce")
      /\ calls' = [calls EXCEPT ![c].step =
            IF calls[c].request.capability.nonce \in nonces THEN "replayed"
            ELSE IF calls[c].request.form = "built" THEN "accept" ELSE "invalid"]
      /\ UNCHANGED <<entries, nonces, idempotency, answers>>
    BY DEF HasNonce
<1>2. PICK old \in Call, n \in Nat :
          /\ calls[c] = old /\ old.step = "nonce" /\ n = old.since
          /\ CallKnows(c) /\ Len(entries) \in Nat
    <2>1. calls[c] \in Call /\ calls[c].step = "nonce" /\ calls[c].since \in Nat
          /\ CallKnows(c) /\ Len(entries) \in Nat
        BY <1>1, AtCall
    <2> QED BY <2>1
<1>3. PICK step \in {"replayed", "accept", "invalid"} :
          /\ calls' = [calls EXCEPT ![c].step = step]
          /\ step = "accept" => old.request.capability.nonce \notin nonces
    BY <1>1, <1>2
<1>4. PICK call \in Call :
          /\ call = [old EXCEPT !.step = step]
          /\ call.step = step /\ call.request = old.request /\ call.since = n
    <2> DEFINE call0 == [old EXCEPT !.step = step]
    <2>1. call0 \in Call
        BY DEF Call
    <2>2. call0.step = step /\ call0.request = old.request /\ call0.since = n
        BY <1>2 DEF Call
    <2> HIDE DEF call0
    <2>3. PICK call \in Call : call = call0
        BY <2>1
    <2> QED BY <2>2, <2>3 DEF call0
<1>5. calls' = [calls EXCEPT ![c] = call]
    BY <1>2, <1>3, <1>4
<1>6. calls'[c] = call
    BY <1>5 DEF IInv, Types
<1>7. n <= Len(entries) /\ NotYet(old.request.capability.key, n)
    BY <1>2 DEF CallKnows
<1>8. NotYet(old.request.capability.key, n)'
    BY <1>1, <1>7 DEF NotYet, KeyAt, Accepted
<1>9. step = "accept" => Unused(old.request.capability.nonce, n)'
    BY <1>1, <1>2, <1>3, <1>7 DEF IInv, Indexed, Unused, NonceAt
<1>10. Overtaken(old.request, n)'
    BY <1>7, <1>1 DEF Overtaken, NotYet, KeyAt, Accepted
<1>11. CallKnows(c)'
    BY <1>1, <1>4, <1>6, <1>7, <1>8, <1>9, <1>10 DEF CallKnows
<1> QED BY <1>1, <1>5, <1>11, MoveKeepsInvariant

LEMMA StepInv == IInv /\ [Next]_vars => IInv'
<1> SUFFICES ASSUME IInv, [Next]_vars PROVE IInv'
    OBVIOUS
<1>1. ASSUME NEW c \in Caller, DenyUnasked(c) PROVE IInv'
    BY <1>1, DenyUnaskedInv
<1>2. ASSUME NEW c \in Caller, PriorSuccess(c) PROVE IInv'
    BY <1>2, PriorSuccessInv
<1>3. ASSUME NEW c \in Caller, HasNonce(c) PROVE IInv'
    BY <1>3, HasNonceInv
<1>4. ASSUME NEW c \in Caller, Deny(c) PROVE IInv'
    BY <1>4, DenyInv
<1>5. ASSUME NEW c \in Caller, Repeat(c) PROVE IInv'
    BY <1>5, RepeatInv
<1>6. ASSUME NEW c \in Caller, Accept(c) PROVE IInv'
    BY <1>6, AcceptInv
<1>7. CASE UNCHANGED vars
    BY <1>7, SMTT(60) DEF vars, IInv, Types, Indexed, Latest, Last, CallInv, CallKnows, AnswerInv,
                AnswerMeans, NotYet, Unused, Given, Overtaken, Fresh, NonceAt, KeyAt, Accepted
<1> QED BY <1>1, <1>2, <1>3, <1>4, <1>5, <1>6, <1>7 DEF Next

-----------------------------------------------------------------------------
(* The invariant holds in every reachable state, for any number of threads *)
(* that call authorize on one ledger.                                      *)
THEOREM Invariance == Spec => []IInv
<1>1. Init => IInv
    BY InitInv
<1>2. IInv /\ [Next]_vars => IInv'
    BY StepInv
<1> QED BY <1>1, <1>2, PTL DEF Spec

(* A nonce and a key buy one new receipt, however many threads call        *)
(* authorize: a call that ends with one found neither in the ledger.       *)
THEOREM NewReceipts == Spec => []FreshMeansNew
<1>1. IInv => FreshMeansNew
    BY DEF IInv, AnswerInv, AnswerMeans, FreshMeansNew, Unused, NotYet
<1> QED BY <1>1, Invariance, PTL

(* A duplicate is answered with a receipt that was given for the same      *)
(* request before.                                                         *)
THEOREM OldReceipts == Spec => []DuplicateRepeats
<1>1. IInv => DuplicateRepeats
    BY DEF IInv, AnswerInv, AnswerMeans, DuplicateRepeats
<1> QED BY <1>1, Invariance, PTL

(* authorize refuses the repetition of an accepted request as REPLAYED     *)
(* only when another request has taken its key in the meantime.            *)
THEOREM Retries == Spec => []RetryIsAnswered
<1>1. IInv => RetryIsAnswered
    <2> SUFFICES ASSUME IInv, NEW i \in 1..Len(entries), entries[i].code = "REPLAYED",
                        NEW j \in 1..answers[i].since, Accepted(j),
                        entries[j].request = entries[i].request
                 PROVE  \E k \in (j + 1)..(i - 1) :
                            /\ Accepted(k) /\ KeyAt(k) = KeyAt(i)
                            /\ entries[k].request # entries[i].request
        BY DEF RetryIsAnswered
    <2> QED BY DEF IInv, AnswerInv, AnswerMeans
<1> QED BY <1>1, Invariance, PTL

-----------------------------------------------------------------------------
(* The pipe. *)

(* The labels of a session, by what it holds there. *)

Connected == {"read", "impersonate", "open", "revert", "deny", "process", "write"}

Answering == {"impersonate", "open", "sid", "token", "revert", "deny", "process", "write"}

Label == Connected \cup {"idle", "create", "connect", "sid", "token", "disconnect",
                         "close", "free"}

PipeType ==
    /\ pc \in [Servers -> Label]
    /\ held \in [Servers -> SUBSET {"descriptor", "handle", "connection", "token"}]
    /\ thread \in [Servers -> Clients \cup {Nobody}]
    /\ frame \in [Servers -> Clients \cup {Nobody}]
    /\ caller \in [Servers -> {ClientSid[c] : c \in Clients} \cup {Nobody}]
    /\ result \in [Servers -> {"none", "raised", "served", "identity_denied"}]
    /\ pipe \in [server : Servers \cup {Nobody}, client : Clients \cup {Nobody},
                 sent : BOOLEAN, gone : BOOLEAN]

(* What a session holds at each label. *)
HoldsWhatItMust(s) ==
    /\ pc[s] = "idle" => held[s] = {}
    /\ pc[s] \in {"create", "free"} => held[s] = {"descriptor"}
    /\ pc[s] = "connect" => held[s] = {"descriptor", "handle"}
    /\ pc[s] \in Connected => held[s] = {"descriptor", "handle", "connection"}
    /\ pc[s] \in {"sid", "token"} =>
           held[s] = {"descriptor", "handle", "connection", "token"}
    /\ pc[s] = "disconnect" =>
           /\ held[s] \subseteq {"descriptor", "handle", "connection"}
           /\ "descriptor" \in held[s]
           /\ "connection" \in held[s] => "handle" \in held[s]
    /\ pc[s] = "close" =>
           /\ held[s] \subseteq {"descriptor", "handle"}
           /\ "descriptor" \in held[s]

(* The instance is open exactly as long as its server holds the handle. *)
OwnsTheInstance(s) == "handle" \in held[s] <=> pipe.server = s

(* From the connection on there is a client; from the frame on it is the   *)
(* one that sent it; the thread is this client from its impersonation to   *)
(* its reverting, and its SID is the one that was found.                   *)
KnowsItsClient(s) ==
    /\ pc[s] \in {"read"} \cup Answering => pipe.client \in Clients
    /\ pc[s] \in Answering => frame[s] = pipe.client
    /\ pc[s] \in {"open", "sid", "token", "revert"} => thread[s] = pipe.client
    /\ pc[s] \in {"token", "revert"} /\ result[s] # "raised" =>
           caller[s] = ClientSid[pipe.client]
    /\ pc[s] \in {"process", "write"} =>
           thread[s] = Nobody /\ ClientSid[pipe.client] = WorkerSid

Sound(s) == HoldsWhatItMust(s) /\ OwnsTheInstance(s) /\ KnowsItsClient(s)

PipeInv == PipeType /\ \A s \in Servers : Sound(s)

-----------------------------------------------------------------------------
(* Steps of one session leave the others alone: an instance that is not    *)
(* theirs does not become theirs.                                          *)

SameSession(t) ==
    /\ pc'[t] = pc[t] /\ held'[t] = held[t] /\ thread'[t] = thread[t]
    /\ frame'[t] = frame[t] /\ caller'[t] = caller[t] /\ result'[t] = result[t]

NobodyElsesPipe(s) ==
    pipe' = pipe \/ \A t \in Servers \ {s} : pipe.server # t /\ pipe'.server # t

LEMMA OthersStaySound ==
    ASSUME PipeInv, NEW s \in Servers, NobodyElsesPipe(s),
           NEW t \in Servers \ {s}, SameSession(t)
    PROVE  Sound(t)'
<1>1. pipe' = pipe \/ (pipe.server # t /\ pipe'.server # t)
  BY DEF NobodyElsesPipe
<1>2. HoldsWhatItMust(t) /\ OwnsTheInstance(t) /\ KnowsItsClient(t)
  BY DEF PipeInv, Sound
<1>3. HoldsWhatItMust(t)'
  BY <1>2 DEF SameSession, HoldsWhatItMust, Connected
<1>4. OwnsTheInstance(t)'
  BY <1>1, <1>2 DEF SameSession, OwnsTheInstance
<1>5. KnowsItsClient(t)'
  <2>1. CASE pipe' = pipe
    BY <1>2, <2>1 DEF SameSession, KnowsItsClient, Answering
  <2>2. CASE pipe.server # t
    <3>1. pc[t] \notin {"read"} \cup Answering
      BY <1>2, <2>2 DEF HoldsWhatItMust, OwnsTheInstance, Connected, Answering
    <3>2. QED
      BY <3>1 DEF SameSession, KnowsItsClient, Answering
  <2>3. QED
    BY <1>1, <2>1, <2>2
<1>6. QED
  BY <1>3, <1>4, <1>5 DEF Sound

LEMMA SessionStep ==
    ASSUME PipeInv, NEW s \in Servers, PipeType', Sound(s)', NobodyElsesPipe(s),
           \A t \in Servers \ {s} : SameSession(t)
    PROVE  PipeInv'
BY OthersStaySound DEF PipeInv

-----------------------------------------------------------------------------
(* One lemma for each step of serve_one. *)

LEMMA RaiseAtOnceKeeps ==
    ASSUME PipeInv, NEW s \in Servers, RaiseAtOnce(s)
    PROVE  PipeInv'
<1>1. PipeType /\ HoldsWhatItMust(s) /\ OwnsTheInstance(s) /\ KnowsItsClient(s)
  BY DEF PipeInv, Sound
<1>2. PipeType'
  BY <1>1 DEF PipeType, Label, Connected, RaiseAtOnce
<1>3. \A t \in Servers \ {s} : SameSession(t)
  BY <1>1, Zenon DEF PipeType, SameSession, RaiseAtOnce
<1>4. NobodyElsesPipe(s)
  BY Zenon DEF NobodyElsesPipe, RaiseAtOnce
<1>5. HoldsWhatItMust(s)'
  BY <1>1 DEF PipeType, HoldsWhatItMust, Connected, RaiseAtOnce
<1>6. OwnsTheInstance(s)'
  BY <1>1 DEF PipeType, OwnsTheInstance, RaiseAtOnce
<1>7. KnowsItsClient(s)'
  BY <1>1 DEF PipeType, KnowsItsClient, Answering, RaiseAtOnce
<1>8. QED
  BY <1>2, <1>3, <1>4, <1>5, <1>6, <1>7, SessionStep DEF Sound

LEMMA BeginKeeps ==
    ASSUME PipeInv, NEW s \in Servers, Begin(s)
    PROVE  PipeInv'
<1>1. PipeType /\ HoldsWhatItMust(s) /\ OwnsTheInstance(s) /\ KnowsItsClient(s)
  BY DEF PipeInv, Sound
<1>2. PipeType'
  BY <1>1 DEF PipeType, Label, Connected, Begin, Goto, Acquire
<1>3. \A t \in Servers \ {s} : SameSession(t)
  BY <1>1, Zenon DEF PipeType, SameSession, Begin, Goto, Acquire
<1>4. NobodyElsesPipe(s)
  BY Zenon DEF NobodyElsesPipe, Begin
<1>5. HoldsWhatItMust(s)'
  BY <1>1 DEF PipeType, HoldsWhatItMust, Connected, Begin, Goto, Acquire
<1>6. OwnsTheInstance(s)'
  BY <1>1 DEF PipeType, OwnsTheInstance, Begin, Goto, Acquire
<1>7. KnowsItsClient(s)'
  BY <1>1 DEF PipeType, KnowsItsClient, Answering, Begin, Goto, Acquire
<1>8. QED
  BY <1>2, <1>3, <1>4, <1>5, <1>6, <1>7, SessionStep DEF Sound

LEMMA CreateKeeps ==
    ASSUME PipeInv, NEW s \in Servers, Create(s)
    PROVE  PipeInv'
<1>1. PipeType /\ HoldsWhatItMust(s) /\ OwnsTheInstance(s) /\ KnowsItsClient(s)
  BY DEF PipeInv, Sound
<1>2. PipeType'
  BY <1>1 DEF PipeType, Label, Connected, Create, Goto, Acquire, NoPipe
<1>3. \A t \in Servers \ {s} : SameSession(t)
  BY <1>1, Zenon DEF PipeType, SameSession, Create, Goto, Acquire, NoPipe
<1>4. NobodyElsesPipe(s)
  <2>1. pipe.server = Nobody
    BY DEF Create
  <2>2. pipe'.server = s
    BY DEF Create, NoPipe
  <2>3. QED
    BY <2>1, <2>2, SidsAssumption DEF NobodyElsesPipe
<1>5. HoldsWhatItMust(s)'
  BY <1>1 DEF PipeType, HoldsWhatItMust, Connected, Create, Goto, Acquire, NoPipe
<1>6. OwnsTheInstance(s)'
  BY <1>1 DEF PipeType, OwnsTheInstance, Create, Goto, Acquire, NoPipe
<1>7. KnowsItsClient(s)'
  BY <1>1 DEF PipeType, KnowsItsClient, Answering, Create, Goto, Acquire, NoPipe
<1>8. QED
  BY <1>2, <1>3, <1>4, <1>5, <1>6, <1>7, SessionStep DEF Sound

LEMMA ConnectKeeps ==
    ASSUME PipeInv, NEW s \in Servers, Connect(s)
    PROVE  PipeInv'
<1>1. PipeType /\ HoldsWhatItMust(s) /\ OwnsTheInstance(s) /\ KnowsItsClient(s)
  BY DEF PipeInv, Sound
<1>2. PipeType'
  BY <1>1 DEF PipeType, Label, Connected, Connect, Goto, Acquire
<1>3. \A t \in Servers \ {s} : SameSession(t)
  BY <1>1, Zenon DEF PipeType, SameSession, Connect, Goto, Acquire
<1>4. NobodyElsesPipe(s)
  BY Zenon DEF NobodyElsesPipe, Connect
<1>5. HoldsWhatItMust(s)'
  BY <1>1 DEF PipeType, HoldsWhatItMust, Connected, Connect, Goto, Acquire
<1>6. OwnsTheInstance(s)'
  BY <1>1 DEF PipeType, OwnsTheInstance, Connect, Goto, Acquire
<1>7. KnowsItsClient(s)'
  BY <1>1 DEF PipeType, KnowsItsClient, Answering, Connect, Goto, Acquire
<1>8. QED
  BY <1>2, <1>3, <1>4, <1>5, <1>6, <1>7, SessionStep DEF Sound

LEMMA ReadKeeps ==
    ASSUME PipeInv, NEW s \in Servers, Read(s)
    PROVE  PipeInv'
<1>1. PipeType /\ HoldsWhatItMust(s) /\ OwnsTheInstance(s) /\ KnowsItsClient(s)
  BY DEF PipeInv, Sound
<1>2. PipeType'
  BY <1>1 DEF PipeType, Label, Connected, Read, Goto
<1>3. \A t \in Servers \ {s} : SameSession(t)
  BY <1>1, Zenon DEF PipeType, SameSession, Read, Goto
<1>4. NobodyElsesPipe(s)
  <2>1. pipe.server = s
    BY <1>1 DEF HoldsWhatItMust, Connected, OwnsTheInstance, Read
  <2>2. pipe'.server = s
    BY <1>1, <2>1, Zenon DEF PipeType, Read
  <2>3. QED
    BY <2>1, <2>2 DEF NobodyElsesPipe
<1>5. HoldsWhatItMust(s)'
  BY <1>1 DEF PipeType, HoldsWhatItMust, Connected, Read, Goto
<1>6. OwnsTheInstance(s)'
  BY <1>1 DEF PipeType, OwnsTheInstance, Read, Goto
<1>7. KnowsItsClient(s)'
  BY <1>1 DEF PipeType, KnowsItsClient, Answering, Read, Goto
<1>8. QED
  BY <1>2, <1>3, <1>4, <1>5, <1>6, <1>7, SessionStep DEF Sound

LEMMA ImpersonateKeeps ==
    ASSUME PipeInv, NEW s \in Servers, Impersonate(s)
    PROVE  PipeInv'
<1>1. PipeType /\ HoldsWhatItMust(s) /\ OwnsTheInstance(s) /\ KnowsItsClient(s)
  BY DEF PipeInv, Sound
<1>2. PipeType'
  BY <1>1 DEF PipeType, Label, Connected, Impersonate, Goto
<1>3. \A t \in Servers \ {s} : SameSession(t)
  BY <1>1, Zenon DEF PipeType, SameSession, Impersonate, Goto
<1>4. NobodyElsesPipe(s)
  BY Zenon DEF NobodyElsesPipe, Impersonate
<1>5. HoldsWhatItMust(s)'
  BY <1>1 DEF PipeType, HoldsWhatItMust, Connected, Impersonate, Goto
<1>6. OwnsTheInstance(s)'
  BY <1>1 DEF PipeType, OwnsTheInstance, Impersonate, Goto
<1>7. KnowsItsClient(s)'
  BY <1>1 DEF PipeType, KnowsItsClient, Answering, Impersonate, Goto
<1>8. QED
  BY <1>2, <1>3, <1>4, <1>5, <1>6, <1>7, SessionStep DEF Sound

LEMMA OpenTokenKeeps ==
    ASSUME PipeInv, NEW s \in Servers, OpenToken(s)
    PROVE  PipeInv'
<1>1. PipeType /\ HoldsWhatItMust(s) /\ OwnsTheInstance(s) /\ KnowsItsClient(s)
  BY DEF PipeInv, Sound
<1>2. PipeType'
  BY <1>1 DEF PipeType, Label, Connected, OpenToken, Goto, Acquire
<1>3. \A t \in Servers \ {s} : SameSession(t)
  BY <1>1, Zenon DEF PipeType, SameSession, OpenToken, Goto, Acquire
<1>4. NobodyElsesPipe(s)
  BY Zenon DEF NobodyElsesPipe, OpenToken
<1>5. HoldsWhatItMust(s)'
  BY <1>1 DEF PipeType, HoldsWhatItMust, Connected, OpenToken, Goto, Acquire
<1>6. OwnsTheInstance(s)'
  BY <1>1 DEF PipeType, OwnsTheInstance, OpenToken, Goto, Acquire
<1>7. KnowsItsClient(s)'
  BY <1>1 DEF PipeType, KnowsItsClient, Answering, OpenToken, Goto, Acquire
<1>8. QED
  BY <1>2, <1>3, <1>4, <1>5, <1>6, <1>7, SessionStep DEF Sound

LEMMA ReadSidKeeps ==
    ASSUME PipeInv, NEW s \in Servers, ReadSid(s)
    PROVE  PipeInv'
<1>1. PipeType /\ HoldsWhatItMust(s) /\ OwnsTheInstance(s) /\ KnowsItsClient(s)
  BY DEF PipeInv, Sound
<1>2. PipeType'
  BY <1>1 DEF PipeType, Label, Connected, KnowsItsClient, Answering, ReadSid, Goto
<1>3. \A t \in Servers \ {s} : SameSession(t)
  BY <1>1, Zenon DEF PipeType, SameSession, ReadSid, Goto
<1>4. NobodyElsesPipe(s)
  BY Zenon DEF NobodyElsesPipe, ReadSid
<1>5. HoldsWhatItMust(s)'
  BY <1>1 DEF PipeType, HoldsWhatItMust, Connected, ReadSid, Goto
<1>6. OwnsTheInstance(s)'
  BY <1>1 DEF PipeType, OwnsTheInstance, ReadSid, Goto
<1>7. KnowsItsClient(s)'
  BY <1>1 DEF PipeType, KnowsItsClient, Answering, ReadSid, Goto
<1>8. QED
  BY <1>2, <1>3, <1>4, <1>5, <1>6, <1>7, SessionStep DEF Sound

LEMMA CloseTokenKeeps ==
    ASSUME PipeInv, NEW s \in Servers, CloseToken(s)
    PROVE  PipeInv'
<1>1. PipeType /\ HoldsWhatItMust(s) /\ OwnsTheInstance(s) /\ KnowsItsClient(s)
  BY DEF PipeInv, Sound
<1>2. PipeType'
  BY <1>1 DEF PipeType, Label, Connected, CloseToken, Goto, Release
<1>3. \A t \in Servers \ {s} : SameSession(t)
  BY <1>1, Zenon DEF PipeType, SameSession, CloseToken, Goto, Release
<1>4. NobodyElsesPipe(s)
  BY Zenon DEF NobodyElsesPipe, CloseToken
<1>5. HoldsWhatItMust(s)'
  BY <1>1 DEF PipeType, HoldsWhatItMust, Connected, CloseToken, Goto, Release
<1>6. OwnsTheInstance(s)'
  BY <1>1 DEF PipeType, OwnsTheInstance, CloseToken, Goto, Release
<1>7. KnowsItsClient(s)'
  BY <1>1 DEF PipeType, KnowsItsClient, Answering, CloseToken, Goto, Release
<1>8. QED
  BY <1>2, <1>3, <1>4, <1>5, <1>6, <1>7, SessionStep DEF Sound

LEMMA RevertKeeps ==
    ASSUME PipeInv, NEW s \in Servers, Revert(s)
    PROVE  PipeInv'
<1>1. PipeType /\ HoldsWhatItMust(s) /\ OwnsTheInstance(s) /\ KnowsItsClient(s)
  BY DEF PipeInv, Sound
<1>2. PipeType'
  BY <1>1 DEF PipeType, Label, Connected, Revert, Goto, AfterRevert
<1>3. \A t \in Servers \ {s} : SameSession(t)
  BY <1>1, Zenon DEF PipeType, SameSession, Revert, Goto, AfterRevert
<1>4. NobodyElsesPipe(s)
  BY Zenon DEF NobodyElsesPipe, Revert
<1>5. HoldsWhatItMust(s)'
  BY <1>1 DEF PipeType, HoldsWhatItMust, Connected, Revert, Goto, AfterRevert
<1>6. OwnsTheInstance(s)'
  BY <1>1 DEF PipeType, OwnsTheInstance, Revert, Goto, AfterRevert
<1>7. KnowsItsClient(s)'
  BY <1>1 DEF PipeType, KnowsItsClient, Answering, Revert, Goto, AfterRevert
<1>8. QED
  BY <1>2, <1>3, <1>4, <1>5, <1>6, <1>7, SessionStep DEF Sound

LEMMA DenyIdentityKeeps ==
    ASSUME PipeInv, NEW s \in Servers, DenyIdentity(s)
    PROVE  PipeInv'
<1>1. PipeType /\ HoldsWhatItMust(s) /\ OwnsTheInstance(s) /\ KnowsItsClient(s)
  BY DEF PipeInv, Sound
<1>2. PipeType'
  BY <1>1 DEF PipeType, Label, Connected, DenyIdentity, Goto
<1>3. \A t \in Servers \ {s} : SameSession(t)
  BY <1>1, Zenon DEF PipeType, SameSession, DenyIdentity, Goto
<1>4. NobodyElsesPipe(s)
  BY Zenon DEF NobodyElsesPipe, DenyIdentity
<1>5. HoldsWhatItMust(s)'
  BY <1>1 DEF PipeType, HoldsWhatItMust, Connected, DenyIdentity, Goto
<1>6. OwnsTheInstance(s)'
  BY <1>1 DEF PipeType, OwnsTheInstance, DenyIdentity, Goto
<1>7. KnowsItsClient(s)'
  BY <1>1 DEF PipeType, KnowsItsClient, Answering, DenyIdentity, Goto
<1>8. QED
  BY <1>2, <1>3, <1>4, <1>5, <1>6, <1>7, SessionStep DEF Sound

LEMMA ProcessKeeps ==
    ASSUME PipeInv, NEW s \in Servers, Process(s)
    PROVE  PipeInv'
<1>1. PipeType /\ HoldsWhatItMust(s) /\ OwnsTheInstance(s) /\ KnowsItsClient(s)
  BY DEF PipeInv, Sound
<1>2. PipeType'
  BY <1>1 DEF PipeType, Label, Connected, Process, Goto
<1>3. \A t \in Servers \ {s} : SameSession(t)
  BY <1>1, Zenon DEF PipeType, SameSession, Process, Goto
<1>4. NobodyElsesPipe(s)
  BY Zenon DEF NobodyElsesPipe, Process
<1>5. HoldsWhatItMust(s)'
  BY <1>1 DEF PipeType, HoldsWhatItMust, Connected, Process, Goto
<1>6. OwnsTheInstance(s)'
  BY <1>1 DEF PipeType, OwnsTheInstance, Process, Goto
<1>7. KnowsItsClient(s)'
  BY <1>1 DEF PipeType, KnowsItsClient, Answering, Process, Goto
<1>8. QED
  BY <1>2, <1>3, <1>4, <1>5, <1>6, <1>7, SessionStep DEF Sound

LEMMA WriteKeeps ==
    ASSUME PipeInv, NEW s \in Servers, Write(s)
    PROVE  PipeInv'
<1>1. PipeType /\ HoldsWhatItMust(s) /\ OwnsTheInstance(s) /\ KnowsItsClient(s)
  BY DEF PipeInv, Sound
<1>2. PipeType'
  BY <1>1 DEF PipeType, Label, Connected, Write, Goto
<1>3. \A t \in Servers \ {s} : SameSession(t)
  BY <1>1, Zenon DEF PipeType, SameSession, Write, Goto
<1>4. NobodyElsesPipe(s)
  BY Zenon DEF NobodyElsesPipe, Write
<1>5. HoldsWhatItMust(s)'
  BY <1>1 DEF PipeType, HoldsWhatItMust, Connected, Write, Goto
<1>6. OwnsTheInstance(s)'
  BY <1>1 DEF PipeType, OwnsTheInstance, Write, Goto
<1>7. KnowsItsClient(s)'
  BY <1>1 DEF PipeType, KnowsItsClient, Answering, Write, Goto
<1>8. QED
  BY <1>2, <1>3, <1>4, <1>5, <1>6, <1>7, SessionStep DEF Sound

LEMMA RaiseKeeps ==
    ASSUME PipeInv, NEW s \in Servers, Raise(s)
    PROVE  PipeInv'
<1>1. PipeType /\ HoldsWhatItMust(s) /\ OwnsTheInstance(s) /\ KnowsItsClient(s)
  BY DEF PipeInv, Sound
<1>2. PipeType'
  BY <1>1 DEF PipeType, Label, Connected, Raise, Goto
<1>3. \A t \in Servers \ {s} : SameSession(t)
  BY <1>1, Zenon DEF PipeType, SameSession, Raise, Goto
<1>4. NobodyElsesPipe(s)
  BY Zenon DEF NobodyElsesPipe, Raise
<1>5. HoldsWhatItMust(s)'
  BY <1>1 DEF PipeType, HoldsWhatItMust, Connected, Raise, Goto
<1>6. OwnsTheInstance(s)'
  BY <1>1 DEF PipeType, OwnsTheInstance, Raise, Goto
<1>7. KnowsItsClient(s)'
  BY <1>1 DEF PipeType, KnowsItsClient, Answering, Raise, Goto
<1>8. QED
  BY <1>2, <1>3, <1>4, <1>5, <1>6, <1>7, SessionStep DEF Sound

LEMMA DisconnectKeeps ==
    ASSUME PipeInv, NEW s \in Servers, Disconnect(s)
    PROVE  PipeInv'
<1>1. PipeType /\ HoldsWhatItMust(s) /\ OwnsTheInstance(s) /\ KnowsItsClient(s)
  BY DEF PipeInv, Sound
<1>2. PipeType'
  BY <1>1 DEF PipeType, Label, Connected, Disconnect, Goto, Release, NoPipe
<1>3. \A t \in Servers \ {s} : SameSession(t)
  BY <1>1, Zenon DEF PipeType, SameSession, Disconnect, Goto, Release, NoPipe
<1>4. NobodyElsesPipe(s)
  <2>1. CASE "connection" \in held[s]
    <3>1. pipe.server = s
      BY <1>1, <2>1 DEF HoldsWhatItMust, OwnsTheInstance, Disconnect
    <3>2. pipe'.server = s
      BY <2>1 DEF Disconnect, NoPipe
    <3>3. QED
      BY <3>1, <3>2 DEF NobodyElsesPipe
  <2>2. CASE "connection" \notin held[s]
    BY <2>2, Zenon DEF NobodyElsesPipe, Disconnect
  <2>3. QED
    BY <2>1, <2>2
<1>5. HoldsWhatItMust(s)'
  BY <1>1 DEF PipeType, HoldsWhatItMust, Connected, Disconnect, Goto, Release, NoPipe
<1>6. OwnsTheInstance(s)'
  <2>1. "handle" \in held'[s] <=> "handle" \in held[s]
    BY <1>1 DEF PipeType, Disconnect, Release
  <2>2. CASE "connection" \in held[s]
    <3>1. pipe.server = s /\ "handle" \in held[s]
      BY <1>1, <2>2 DEF HoldsWhatItMust, OwnsTheInstance, Disconnect
    <3>2. pipe'.server = s
      BY <2>2 DEF Disconnect, NoPipe
    <3>3. QED
      BY <2>1, <3>1, <3>2 DEF OwnsTheInstance
  <2>3. CASE "connection" \notin held[s]
    <3>1. pipe' = pipe
      BY <2>3, Zenon DEF Disconnect
    <3>2. QED
      BY <1>1, <2>1, <3>1 DEF OwnsTheInstance
  <2>4. QED
    BY <2>2, <2>3
<1>7. KnowsItsClient(s)'
  BY <1>1 DEF PipeType, KnowsItsClient, Answering, Disconnect, Goto, Release, NoPipe
<1>8. QED
  BY <1>2, <1>3, <1>4, <1>5, <1>6, <1>7, SessionStep DEF Sound

LEMMA CloseKeeps ==
    ASSUME PipeInv, NEW s \in Servers, Close(s)
    PROVE  PipeInv'
<1>1. PipeType /\ HoldsWhatItMust(s) /\ OwnsTheInstance(s) /\ KnowsItsClient(s)
  BY DEF PipeInv, Sound
<1>2. PipeType'
  BY <1>1 DEF PipeType, Label, Connected, Close, Goto, Release, NoPipe
<1>3. \A t \in Servers \ {s} : SameSession(t)
  BY <1>1, Zenon DEF PipeType, SameSession, Close, Goto, Release, NoPipe
<1>4. NobodyElsesPipe(s)
  <2>1. CASE "handle" \in held[s]
    <3>1. pipe.server = s
      BY <1>1, <2>1 DEF OwnsTheInstance
    <3>2. pipe'.server = Nobody
      BY <2>1 DEF Close, NoPipe
    <3>3. QED
      BY <3>1, <3>2, SidsAssumption DEF NobodyElsesPipe
  <2>2. CASE "handle" \notin held[s]
    BY <2>2, Zenon DEF NobodyElsesPipe, Close
  <2>3. QED
    BY <2>1, <2>2
<1>5. HoldsWhatItMust(s)'
  BY <1>1 DEF PipeType, HoldsWhatItMust, Connected, Close, Goto, Release, NoPipe
<1>6. OwnsTheInstance(s)'
  <2>1. "handle" \notin held'[s]
    BY <1>1 DEF PipeType, Close, Release
  <2>2. pipe'.server # s
    <3>1. CASE "handle" \in held[s]
      BY <3>1, SidsAssumption DEF Close, NoPipe
    <3>2. CASE "handle" \notin held[s]
      <4>1. pipe' = pipe
        BY <3>2, Zenon DEF Close
      <4>2. QED
        BY <1>1, <3>2, <4>1 DEF OwnsTheInstance
    <3>3. QED
      BY <3>1, <3>2
  <2>3. QED
    BY <2>1, <2>2 DEF OwnsTheInstance
<1>7. KnowsItsClient(s)'
  BY <1>1 DEF PipeType, KnowsItsClient, Answering, Close, Goto, Release, NoPipe
<1>8. QED
  BY <1>2, <1>3, <1>4, <1>5, <1>6, <1>7, SessionStep DEF Sound

LEMMA FreeKeeps ==
    ASSUME PipeInv, NEW s \in Servers, Free(s)
    PROVE  PipeInv'
<1>1. PipeType /\ HoldsWhatItMust(s) /\ OwnsTheInstance(s) /\ KnowsItsClient(s)
  BY DEF PipeInv, Sound
<1>2. PipeType'
  BY <1>1 DEF PipeType, Label, Connected, Free, Goto, Release
<1>3. \A t \in Servers \ {s} : SameSession(t)
  BY <1>1, Zenon DEF PipeType, SameSession, Free, Goto, Release
<1>4. NobodyElsesPipe(s)
  BY Zenon DEF NobodyElsesPipe, Free
<1>5. HoldsWhatItMust(s)'
  BY <1>1 DEF PipeType, HoldsWhatItMust, Connected, Free, Goto, Release
<1>6. OwnsTheInstance(s)'
  BY <1>1 DEF PipeType, OwnsTheInstance, Free, Goto, Release
<1>7. KnowsItsClient(s)'
  BY <1>1 DEF PipeType, KnowsItsClient, Answering, Free, Goto, Release
<1>8. QED
  BY <1>2, <1>3, <1>4, <1>5, <1>6, <1>7, SessionStep DEF Sound

LEMMA ServeOneKeeps ==
    ASSUME PipeInv, NEW s \in Servers, ServeOne(s)
    PROVE  PipeInv'
BY RaiseAtOnceKeeps, BeginKeeps, CreateKeeps, ConnectKeeps, ReadKeeps, ImpersonateKeeps,
   OpenTokenKeeps, ReadSidKeeps, CloseTokenKeeps, RevertKeeps, DenyIdentityKeeps,
   ProcessKeeps, WriteKeeps, RaiseKeeps, DisconnectKeeps, CloseKeeps, FreeKeeps
DEF ServeOne

-----------------------------------------------------------------------------
(* The clients. *)

(* A client that is there stays there, whatever it sends. *)
LEMMA SameClientKeeps ==
    ASSUME PipeInv, UNCHANGED <<pc, held, thread, frame, caller, result>>, PipeType',
           pipe'.server = pipe.server,
           pipe'.client = pipe.client \/ pipe.client = Nobody
    PROVE  PipeInv'
<1>1. ASSUME NEW s \in Servers PROVE Sound(s)'
  <2>1. HoldsWhatItMust(s) /\ OwnsTheInstance(s) /\ KnowsItsClient(s)
    BY DEF PipeInv, Sound
  <2>2. HoldsWhatItMust(s)'
    BY <2>1 DEF HoldsWhatItMust, Connected
  <2>3. OwnsTheInstance(s)'
    BY <2>1 DEF OwnsTheInstance
  <2>4. KnowsItsClient(s)'
    <3>1. CASE pipe'.client = pipe.client
      BY <2>1, <3>1 DEF KnowsItsClient, Answering
    <3>2. CASE pipe.client = Nobody
      <4>1. pc[s] \notin {"read"} \cup Answering
        BY <2>1, <3>2, SidsAssumption DEF KnowsItsClient
      <4>2. QED
        BY <4>1 DEF KnowsItsClient, Answering
    <3>3. QED
      BY <3>1, <3>2
  <2>5. QED
    BY <2>2, <2>3, <2>4 DEF Sound
<1>2. QED
  BY <1>1 DEF PipeInv

LEMMA ClientKeeps ==
    ASSUME PipeInv, (\E c \in Clients : Open(c)) \/ Send \/ Hangup
    PROVE  PipeInv'
<1>1. PipeType
  BY DEF PipeInv
<1>2. UNCHANGED <<pc, held, thread, frame, caller, result>>
  BY DEF Open, Send, Hangup
<1>3. /\ pipe' \in [server : Servers \cup {Nobody}, client : Clients \cup {Nobody},
                    sent : BOOLEAN, gone : BOOLEAN]
      /\ pipe'.server = pipe.server
      /\ pipe'.client = pipe.client \/ pipe.client = Nobody
  BY <1>1 DEF PipeType, Open, Send, Hangup
<1>4. PipeType'
  BY <1>1, <1>2, <1>3 DEF PipeType
<1>5. QED
  BY <1>2, <1>3, <1>4, SameClientKeeps

-----------------------------------------------------------------------------
LEMMA PipeStarts == PipeInit => PipeInv
<1>1. SUFFICES ASSUME PipeInit PROVE PipeInv
  OBVIOUS
<1>2. PipeType
  BY <1>1 DEF PipeInit, PipeType, Label, NoPipe
<1>3. ASSUME NEW s \in Servers PROVE Sound(s)
  BY <1>1, <1>3, SidsAssumption
  DEF PipeInit, NoPipe, Sound, HoldsWhatItMust, OwnsTheInstance, KnowsItsClient,
      Connected, Answering
<1>4. QED
  BY <1>2, <1>3 DEF PipeInv

LEMMA PipeStep == PipeInv /\ [PipeNext]_pipeVars => PipeInv'
<1>1. SUFFICES ASSUME PipeInv, [PipeNext]_pipeVars PROVE PipeInv'
  OBVIOUS
<1>2. CASE \E s \in Servers : ServeOne(s)
  BY <1>1, <1>2, ServeOneKeeps
<1>3. CASE (\E c \in Clients : Open(c)) \/ Send \/ Hangup
  BY <1>1, <1>3, ClientKeeps
<1>4. CASE UNCHANGED pipeVars
  BY <1>1, <1>4, SameClientKeeps DEF pipeVars, PipeInv, PipeType
<1>5. QED
  BY <1>1, <1>2, <1>3, <1>4 DEF PipeNext

(* windows_secure_pipe_adapter.py, serve_one: a session that is over holds *)
(* nothing, whichever call failed, and the instance is always that of a    *)
(* session that runs and will close it.                                    *)
THEOREM SessionsGiveEverythingBack == PipeSpec => []EverythingReleased
<1>1. PipeInv => EverythingReleased
  BY SidsAssumption
  DEF PipeInv, PipeType, Sound, HoldsWhatItMust, OwnsTheInstance, EverythingReleased
<1>2. QED
  BY PipeStarts, PipeStep, <1>1, PTL DEF PipeSpec

(* windows_secure_pipe_adapter.py, authenticated_client_sid and serve_one: *)
(* the processor runs on a frame of the worker, on a thread that           *)
(* impersonates nobody, and its answer goes to the client that wrote the   *)
(* frame.                                                                  *)
THEOREM OnlyTheWorkerIsProcessed == PipeSpec => []ProcessorServesTheWorker
<1>1. PipeInv => ProcessorServesTheWorker
  <2>1. SUFFICES ASSUME PipeInv, NEW s \in Servers, pc[s] \in {"process", "write"}
                 PROVE  /\ thread[s] = Nobody
                        /\ pipe.server = s /\ pipe.client = frame[s]
                        /\ ClientSid[frame[s]] = WorkerSid
    BY DEF ProcessorServesTheWorker
  <2>2. HoldsWhatItMust(s) /\ OwnsTheInstance(s) /\ KnowsItsClient(s)
    BY <2>1 DEF PipeInv, Sound
  <2>3. pipe.server = s
    BY <2>1, <2>2 DEF HoldsWhatItMust, OwnsTheInstance, Connected
  <2>4. QED
    BY <2>1, <2>2, <2>3 DEF KnowsItsClient, Answering
<1>2. QED
  BY PipeStarts, PipeStep, <1>1, PTL DEF PipeSpec

=============================================================================
