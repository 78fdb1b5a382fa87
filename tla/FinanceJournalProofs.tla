------------------------ MODULE FinanceJournalProofs ------------------------
(***************************************************************************)
(* Proofs about FinanceJournal and its reader, for any number of workers,  *)
(* faults and rival posts.  The inductive invariant says that the file is  *)
(* empty or holds exactly the first n stages of the lifecycle, that the    *)
(* holder of the write lock has staged the next one as far as its fault    *)
(* point, and that no worker is more than one stage ahead of the file.     *)
(***************************************************************************)
EXTENDS FinanceSnapshot, TLAPS

-----------------------------------------------------------------------------
(* Sums. *)

LEMMA TotalOfTwo ==
    ASSUME NEW f, f[1] \in Int, f[2] \in Int
    PROVE  Total(f, 2) = f[1] + f[2]
<1> DEFINE Rec(s) == s = [i \in 0..2 |-> IF i = 0 THEN 0 ELSE s[i - 1] + f[i]]
           g == [i \in 0..2 |-> IF i = 0 THEN 0 ELSE
                                IF i = 1 THEN f[1] ELSE f[1] + f[2]]
           c == CHOOSE s : Rec(s)
<1>1. Rec(g)
    <2>1. \A i \in 0..2 : g[i] = IF i = 0 THEN 0 ELSE g[i - 1] + f[i]
        OBVIOUS
    <2> QED BY <2>1, Zenon
<1>2. Rec(c)
    BY <1>1
<1>3. Total(f, 2) = c[2]
    BY Zenon DEF Total
<1>4. \A i \in 0..2 : c[i] = IF i = 0 THEN 0 ELSE c[i - 1] + f[i]
    BY <1>2
<1> HIDE DEF c
<1>5. c[0] = 0 /\ c[1] = c[0] + f[1] /\ c[2] = c[1] + f[2]
    BY <1>4
<1> QED BY <1>3, <1>5

LEMMA TotalOfNone ==
    ASSUME NEW f
    PROVE  Total(f, 0) = 0
<1> DEFINE Rec(s) == s = [i \in 0..0 |-> IF i = 0 THEN 0 ELSE s[i - 1] + f[i]]
           g == [i \in 0..0 |-> 0]
           c == CHOOSE s : Rec(s)
<1>1. Rec(g)
    <2>1. \A i \in 0..0 : g[i] = IF i = 0 THEN 0 ELSE g[i - 1] + f[i]
        OBVIOUS
    <2> QED BY <2>1, Zenon
<1>2. Rec(c)
    BY <1>1
<1>3. Total(f, 0) = c[0]
    BY Zenon DEF Total
<1>4. \A i \in 0..0 : c[i] = IF i = 0 THEN 0 ELSE c[i - 1] + f[i]
    BY <1>2
<1> HIDE DEF c
<1> QED BY <1>3, <1>4

LEMMA TotalOfSeven ==
    ASSUME NEW f, \A i \in 1..7 : f[i] \in Int
    PROVE  Total(f, 7) = f[1] + f[2] + f[3] + f[4] + f[5] + f[6] + f[7]
<1> DEFINE Rec(s) == s = [i \in 0..7 |-> IF i = 0 THEN 0 ELSE s[i - 1] + f[i]]
           g2 == f[1] + f[2]
           g3 == g2 + f[3]
           g4 == g3 + f[4]
           g5 == g4 + f[5]
           g6 == g5 + f[6]
           g7 == g6 + f[7]
           g == [i \in 0..7 |->
                    CASE i = 0 -> 0 [] i = 1 -> f[1] [] i = 2 -> g2 [] i = 3 -> g3
                      [] i = 4 -> g4 [] i = 5 -> g5 [] i = 6 -> g6 [] i = 7 -> g7]
           c == CHOOSE s : Rec(s)
<1>1. Rec(g)
    <2>1. \A i \in 0..7 : g[i] = IF i = 0 THEN 0 ELSE g[i - 1] + f[i]
        <3>1. /\ g[0] = 0 /\ g[1] = f[1] /\ g[2] = g2 /\ g[3] = g3 /\ g[4] = g4
              /\ g[5] = g5 /\ g[6] = g6 /\ g[7] = g7
            OBVIOUS
        <3> HIDE DEF g
        <3>2. /\ g[1] = g[0] + f[1] /\ g[2] = g[1] + f[2] /\ g[3] = g[2] + f[3]
              /\ g[4] = g[3] + f[4] /\ g[5] = g[4] + f[5] /\ g[6] = g[5] + f[6]
              /\ g[7] = g[6] + f[7]
            BY <3>1
        <3> HIDE DEF g2, g3, g4, g5, g6, g7
        <3>3. ASSUME NEW i \in 0..7
              PROVE  i \in {0, 1, 2, 3, 4, 5, 6, 7}
            OBVIOUS
        <3>4. /\ 1 - 1 = 0 /\ 2 - 1 = 1 /\ 3 - 1 = 2 /\ 4 - 1 = 3 /\ 5 - 1 = 4
              /\ 6 - 1 = 5 /\ 7 - 1 = 6 /\ \A i \in 1..7 : i # 0
            OBVIOUS
        <3>5. ASSUME NEW i \in {0, 1, 2, 3, 4, 5, 6, 7}
              PROVE  g[i] = IF i = 0 THEN 0 ELSE g[i - 1] + f[i]
            BY <3>1, <3>2, <3>4
        <3> QED BY <3>3, <3>5
    <2>2. g = [i \in 0..7 |-> g[i]]
        OBVIOUS
    <2> HIDE DEF g
    <2>3. [i \in 0..7 |-> g[i]] =
              [i \in 0..7 |-> IF i = 0 THEN 0 ELSE g[i - 1] + f[i]]
        BY <2>1, Zenon
    <2> QED BY <2>2, <2>3, Zenon
<1>2. Rec(c)
    BY <1>1
<1>3. Total(f, 7) = c[7]
    BY Zenon DEF Total
<1>4. \A i \in 0..7 : c[i] = IF i = 0 THEN 0 ELSE c[i - 1] + f[i]
    BY <1>2
<1> HIDE DEF c
<1>5. /\ c[0] = 0 /\ c[1] = c[0] + f[1] /\ c[2] = c[1] + f[2]
      /\ c[3] = c[2] + f[3] /\ c[4] = c[3] + f[4] /\ c[5] = c[4] + f[5]
      /\ c[6] = c[5] + f[6] /\ c[7] = c[6] + f[7]
    BY <1>4
<1> QED BY <1>3, <1>5

(* A transfer debits one account with what it credits the other. *)
LEMMA TransferSums ==
    ASSUME NEW from, NEW to, from # to, NEW cents \in Nat \ {0}
    PROVE  /\ Sum(Transfer(from, to, cents), "debit") = cents
           /\ Sum(Transfer(from, to, cents), "credit") = cents
           /\ \A a : Net(Transfer(from, to, cents), a) =
                        IF a = to THEN cents ELSE IF a = from THEN -cents ELSE 0
<1> DEFINE rows == Transfer(from, to, cents)
<1>1. /\ Len(rows) = 2 /\ DOMAIN rows = 1..2
      /\ rows[1] = Entry(to, cents, 0) /\ rows[2] = Entry(from, 0, cents)
    BY DEF Transfer
<1> HIDE DEF rows
<1>2. /\ rows[1].debit = cents /\ rows[1].credit = 0 /\ rows[1].account = to
      /\ rows[2].debit = 0 /\ rows[2].credit = cents /\ rows[2].account = from
    BY <1>1 DEF Entry
<1>3. Sum(rows, "debit") = cents
    <2> DEFINE f == [i \in DOMAIN rows |-> rows[i]["debit"]]
    <2>1. f[1] = cents /\ f[2] = 0
        BY <1>1, <1>2
    <2>2. Sum(rows, "debit") = Total(f, 2)
        BY <1>1, Zenon DEF Sum
    <2> HIDE DEF f
    <2> QED BY <2>1, <2>2, TotalOfTwo
<1>4. Sum(rows, "credit") = cents
    <2> DEFINE f == [i \in DOMAIN rows |-> rows[i]["credit"]]
    <2>1. f[1] = 0 /\ f[2] = cents
        BY <1>1, <1>2
    <2>2. Sum(rows, "credit") = Total(f, 2)
        BY <1>1, Zenon DEF Sum
    <2> HIDE DEF f
    <2> QED BY <2>1, <2>2, TotalOfTwo
<1>5. ASSUME NEW a
      PROVE  Net(rows, a) = IF a = to THEN cents ELSE IF a = from THEN -cents ELSE 0
    <2> DEFINE f == [i \in DOMAIN rows |->
                        IF rows[i].account = a THEN rows[i].debit - rows[i].credit
                                               ELSE 0]
    <2>1. f[1] = (IF to = a THEN cents ELSE 0) /\ f[2] = (IF from = a THEN -cents ELSE 0)
        BY <1>1, <1>2
    <2>2. Net(rows, a) = Total(f, 2)
        BY <1>1, Zenon DEF Net
    <2> HIDE DEF f
    <2> QED BY <2>1, <2>2, TotalOfTwo
<1> QED BY <1>3, <1>4, <1>5 DEF rows

LEMMA NothingSums ==
    /\ \A column : Sum(<< >>, column) = 0
    /\ \A a : Net(<< >>, a) = 0
<1>1. Len(<< >>) = 0
    OBVIOUS
<1> QED BY <1>1, TotalOfNone, Zenon DEF Sum, Net

-----------------------------------------------------------------------------
(* The stages of the lifecycle. *)

StageOf(n, parent) ==
    TxProposal(<<"FIN-TX", n>>, <<"finance-lifecycle", n>>, StageNames[n], parent,
               StageEntries[n])

LEMMA StagesAre == Stages = 1..5
    BY DEF Stages, StageNames

(* Each stage is built on the hash that the one before it will have.       *)
LEMMA LifecycleIs ==
    Lifecycle =
        [n \in 1..5 |->
            StageOf(n, IF n = 1 THEN Genesis ELSE TxHash(n - 1, Lifecycle[n - 1]))]
<1> DEFINE Rec(f) ==
              f = [n \in Stages |->
                      TxProposal(<<"FIN-TX", n>>, <<"finance-lifecycle", n>>,
                                 StageNames[n],
                                 IF n = 1 THEN Genesis ELSE TxHash(n - 1, f[n - 1]),
                                 StageEntries[n])]
           p1 == StageOf(1, Genesis)
           p2 == StageOf(2, TxHash(1, p1))
           p3 == StageOf(3, TxHash(2, p2))
           p4 == StageOf(4, TxHash(3, p3))
           p5 == StageOf(5, TxHash(4, p4))
           g == <<p1, p2, p3, p4, p5>>
<1>1. /\ DOMAIN g = 1..5
      /\ g[1] = p1 /\ g[2] = p2 /\ g[3] = p3 /\ g[4] = p4 /\ g[5] = p5
    OBVIOUS
<1>0. g = [n \in 1..5 |-> g[n]]
    <2>1. g \in Seq({p1, p2, p3, p4, p5})
        OBVIOUS
    <2> QED BY <1>1, <2>1
<1> HIDE DEF g
<1>2. /\ g[1] = StageOf(1, Genesis)
      /\ g[2] = StageOf(2, TxHash(1, g[1]))
      /\ g[3] = StageOf(3, TxHash(2, g[2]))
      /\ g[4] = StageOf(4, TxHash(3, g[3]))
      /\ g[5] = StageOf(5, TxHash(4, g[4]))
    BY <1>1, Zenon
<1> HIDE DEF p1, p2, p3, p4, p5
<1>3. ASSUME NEW n \in 1..5
      PROVE  g[n] = StageOf(n, IF n = 1 THEN Genesis ELSE TxHash(n - 1, g[n - 1]))
    <2>1. n \in {1, 2, 3, 4, 5} /\ 2 - 1 = 1 /\ 3 - 1 = 2 /\ 4 - 1 = 3 /\ 5 - 1 = 4
        OBVIOUS
    <2> QED BY <1>2, <2>1
<1>4. Rec(g)
    <2>1. [n \in 1..5 |-> g[n]] =
              [n \in 1..5 |->
                 StageOf(n, IF n = 1 THEN Genesis ELSE TxHash(n - 1, g[n - 1]))]
        BY <1>3, Zenon
    <2> QED BY <2>1, <1>0, StagesAre, Zenon DEF StageOf
<1>5. Rec(Lifecycle)
    <2>1. \A h : h = (CHOOSE f : Rec(f)) => Rec(h)
        BY <1>4, Zenon
    <2> QED BY <2>1, Zenon DEF Lifecycle
<1> HIDE DEF g
<1> QED BY <1>5, StagesAre, Zenon DEF StageOf

Parent(n) == IF n = 0 THEN Genesis ELSE TxHash(n, Lifecycle[n])

LEMMA StageFields ==
    /\ DOMAIN Lifecycle = 1..5
    /\ \A n \in 1..5 :
          /\ Lifecycle[n].id = <<"FIN-TX", n>>
          /\ Lifecycle[n].key = <<"finance-lifecycle", n>>
          /\ Lifecycle[n].parent = Parent(n - 1)
          /\ Lifecycle[n].entries = StageEntries[n]
<1>1. DOMAIN Lifecycle = 1..5
    BY LifecycleIs
<1>2. ASSUME NEW n \in 1..5
      PROVE  Parent(n - 1) = IF n = 1 THEN Genesis ELSE TxHash(n - 1, Lifecycle[n - 1])
    BY DEF Parent
<1>3. ASSUME NEW n \in 1..5
      PROVE  Lifecycle[n] = StageOf(n, Parent(n - 1))
    BY <1>2, LifecycleIs, Zenon
<1> QED BY <1>1, <1>3 DEF StageOf, TxProposal

LEMMA StageSums ==
    \A n \in 1..5 :
        /\ Sum(StageEntries[n], "debit") \in Nat \ {0}
        /\ Sum(StageEntries[n], "debit") = Sum(StageEntries[n], "credit")
<1>1. /\ StageEntries[1] = Transfer("fee_revenue", "accounts_receivable", 100000)
      /\ StageEntries[2] = Transfer("accounts_receivable", "billing_write_off", 20000)
      /\ StageEntries[3] = Transfer("billing_write_off", "accounts_receivable", 10000)
      /\ StageEntries[4] = Transfer("accounts_receivable", "cash", 85000)
      /\ StageEntries[5] = Transfer("accounts_receivable", "billing_write_off", 5000)
    BY DEF StageEntries
<1> DEFINE Balances2(rows) == /\ Sum(rows, "debit") \in Nat \ {0}
                              /\ Sum(rows, "debit") = Sum(rows, "credit")
<1>2. ASSUME NEW from, NEW to, from # to, NEW cents \in Nat \ {0}
      PROVE  Balances2(Transfer(from, to, cents))
    <2>1. Sum(Transfer(from, to, cents), "debit") = cents
        BY <1>2, TransferSums, ZenonT(60)
    <2>2. Sum(Transfer(from, to, cents), "credit") = cents
        BY <1>2, TransferSums, ZenonT(60)
    <2> QED BY <2>1, <2>2
<1> HIDE DEF Balances2
<1>3. /\ "fee_revenue" # "accounts_receivable"
      /\ "accounts_receivable" # "billing_write_off"
      /\ "billing_write_off" # "accounts_receivable"
      /\ "accounts_receivable" # "cash"
    OBVIOUS
<1>4. /\ 100000 \in Nat \ {0} /\ 20000 \in Nat \ {0} /\ 10000 \in Nat \ {0}
      /\ 85000 \in Nat \ {0} /\ 5000 \in Nat \ {0}
    OBVIOUS
<1>5. \A n \in 1..5 : Balances2(StageEntries[n])
    <2>1. /\ Balances2(StageEntries[1]) /\ Balances2(StageEntries[2])
          /\ Balances2(StageEntries[3]) /\ Balances2(StageEntries[4])
          /\ Balances2(StageEntries[5])
        BY <1>1, <1>2, <1>3, <1>4
    <2> QED BY <2>1
<1> QED BY <1>5 DEF Balances2

(* The keys and transaction ids of the stages are all different, and no    *)
(* rival that can be posted is one of the stages.                          *)
LEMMA RivalsAreStrangers ==
    ASSUME NEW p \in Rival, Valid(p)
    PROVE  p \notin Range(Lifecycle)
<1>1. SUFFICES ASSUME NEW n \in 1..5, p = Lifecycle[n] PROVE FALSE
    BY StageFields, Zenon DEF Range
<1>2. p.key = <<"finance-lifecycle", n>> /\ p.entries = StageEntries[n]
    BY <1>1, StageFields
<1>3. p.key = <<"finance-lifecycle", 1>>
    BY <1>2 DEF Rival, TxProposal
<1>4. /\ p.entries = Transfer("fee_revenue", "accounts_receivable", 90000)
      /\ n = 1
    BY <1>2 DEF Rival, TxProposal
<1>5. p.entries = Transfer("fee_revenue", "accounts_receivable", 100000)
    BY <1>2, <1>4 DEF StageEntries
<1>6. 100000 = 90000
    BY <1>4, <1>5 DEF Transfer, Entry
<1> QED BY <1>6

-----------------------------------------------------------------------------
(* The tables that hold the first n stages. *)

TxRow(n) ==
    [seq |-> n, prop |-> Lifecycle[n], parent |-> Parent(n - 1), hash |-> Parent(n)]

Txs(n) == [i \in 1..n |-> TxRow(i)]

Ents(n) == [i \in 1..MaxSeq |-> IF i <= n THEN StageEntries[i] ELSE << >>]

Books(n) == [head |-> Parent(n), txs |-> Txs(n), entries |-> Ents(n)]

LEMMA TxsAreRows ==
    ASSUME NEW n \in 0..5
    PROVE  /\ \E Any : Txs(n) \in Seq(Any)
           /\ Len(Txs(n)) = n
           /\ DOMAIN Txs(n) = 1..n
           /\ \A i \in 1..n : /\ Txs(n)[i] = TxRow(i)
                              /\ Txs(n)[i].seq = i
                              /\ Txs(n)[i].prop = Lifecycle[i]
                              /\ Txs(n)[i].parent = Parent(i - 1)
                              /\ Txs(n)[i].hash = Parent(i)
<1>1. Txs(n) \in Seq({TxRow(i) : i \in 1..5}) /\ Len(Txs(n)) = n
    BY DEF Txs
<1> QED BY <1>1 DEF Txs, TxRow

LEMMA Prefix ==
    ASSUME NEW Any, NEW s \in Seq(Any), NEW i \in 1..Len(s)
    PROVE  /\ SubSeq(s, 1, i - 1) \in Seq(Any)
           /\ Len(SubSeq(s, 1, i - 1)) = i - 1
           /\ \A j \in 1..(i - 1) : SubSeq(s, 1, i - 1)[j] = s[j]
    OBVIOUS

LEMMA Emptiness ==
    ASSUME NEW Any, NEW s \in Seq(Any)
    PROVE  (s = << >>) <=> (Len(s) = 0)
<1>1. s = << >> => Len(s) = 0
    OBVIOUS
<1>2. ASSUME Len(s) = 0 PROVE s = << >>
    <2>1. DOMAIN s = {} /\ s = [i \in DOMAIN s |-> s[i]]
        BY <1>2
    <2>2. << >> = [i \in {} |-> s[i]]
        OBVIOUS
    <2> QED BY <2>1, <2>2, Zenon
<1> QED BY <1>1, <1>2

LEMMA HeadOfTxs ==
    ASSUME NEW n \in 0..5
    PROVE  HeadOf(Txs(n)) = Parent(n)
<1> DEFINE s == Txs(n)
<1>0. /\ \E Any : s \in Seq(Any)
      /\ Len(s) = n /\ \A i \in 1..n : s[i].hash = Parent(i)
    BY TxsAreRows, Zenon
<1>1. (s = << >>) <=> (n = 0)
    BY <1>0, Emptiness, Zenon
<1> HIDE DEF s
<1>2. HeadOf(s) = IF n = 0 THEN Genesis ELSE s[n].hash
    BY <1>0, <1>1, Zenon DEF HeadOf
<1>3. n # 0 => s[n].hash = Parent(n)
    BY <1>0
<1>4. Parent(0) = Genesis
    BY DEF Parent
<1> QED BY <1>2, <1>3, <1>4 DEF s

LEMMA HeadBefore ==
    ASSUME NEW n \in 0..5, NEW i \in 1..n
    PROVE  HeadOf(SubSeq(Txs(n), 1, i - 1)) = Parent(i - 1)
<1> DEFINE s == Txs(n)
           before == SubSeq(s, 1, i - 1)
<1>0. /\ \E Any : s \in Seq(Any)
      /\ Len(s) = n /\ \A j \in 1..n : s[j].hash = Parent(j)
    BY TxsAreRows, Zenon
<1> HIDE DEF s
<1>1. /\ \E Any : before \in Seq(Any)
      /\ Len(before) = i - 1
      /\ \A j \in 1..(i - 1) : before[j] = s[j]
    BY <1>0, Prefix
<1>2. (before = << >>) <=> (i - 1 = 0)
    BY <1>1, Emptiness, Zenon
<1> HIDE DEF before
<1>3. HeadOf(before) = IF i - 1 = 0 THEN Genesis ELSE before[i - 1].hash
    BY <1>1, <1>2, Zenon DEF HeadOf
<1>4. i - 1 # 0 => before[i - 1] = s[i - 1] /\ s[i - 1].hash = Parent(i - 1)
    BY <1>0, <1>1
<1>5. Parent(0) = Genesis
    BY DEF Parent
<1> QED BY <1>3, <1>4, <1>5 DEF before, s

LEMMA EntsBalance ==
    ASSUME NEW n \in 0..5
    PROVE  GlobalSum(Ents(n), "debit") = GlobalSum(Ents(n), "credit")
<1>1. ASSUME NEW i \in 1..7
      PROVE  /\ Sum(Ents(n)[i], "debit") \in Int
             /\ Sum(Ents(n)[i], "debit") = Sum(Ents(n)[i], "credit")
    <2>1. CASE i <= n
        <3>1. Ents(n)[i] = StageEntries[i] /\ i \in 1..5
            BY <2>1 DEF Ents, MaxSeq
        <3> QED BY <3>1, StageSums
    <2>2. CASE ~(i <= n)
        <3>1. Ents(n)[i] = << >>
            BY <2>2 DEF Ents, MaxSeq
        <3> QED BY <3>1, NothingSums
    <2> QED BY <2>1, <2>2
<1> DEFINE d == [i \in 1..7 |-> Sum(Ents(n)[i], "debit")]
           c == [i \in 1..7 |-> Sum(Ents(n)[i], "credit")]
<1>2. \A i \in 1..7 : d[i] \in Int /\ d[i] = c[i]
    BY <1>1
<1>3. GlobalSum(Ents(n), "debit") = Total(d, 7) /\ GlobalSum(Ents(n), "credit") = Total(c, 7)
    BY Zenon DEF GlobalSum, MaxSeq
<1> HIDE DEF d, c
<1>4. d[1] = c[1] /\ d[2] = c[2] /\ d[3] = c[3] /\ d[4] = c[4] /\ d[5] = c[5]
      /\ d[6] = c[6] /\ d[7] = c[7]
    BY <1>2
<1>5. /\ Total(d, 7) = d[1] + d[2] + d[3] + d[4] + d[5] + d[6] + d[7]
      /\ Total(c, 7) = c[1] + c[2] + c[3] + c[4] + c[5] + c[6] + c[7]
    BY <1>2, TotalOfSeven
<1> QED BY <1>3, <1>4, <1>5

(* What the checks of snapshot() say of rows read at two moments: the      *)
(* first k transactions and the entries of the first n, n not before k.    *)
LEMMA OnlyTheHeadMayDiffer ==
    ASSUME NEW k \in 0..5, NEW n \in k..5,
           NEW t, t.txs = Txs(k), t.entries = Ents(n)
    PROVE  InvariantErrors(t) = Unless(t.head = Parent(k), "finance_head_mismatch")
<1>1. ASSUME NEW i \in 1..k
      PROVE  Sound(t, i) = {}
    <2> DEFINE x == t.txs[i]
               mine == t.entries[i]
    <2>0. i \in 1..5 /\ i - 1 \in 0..5 /\ i <= n /\ i \in 1..MaxSeq
        BY DEF MaxSeq
    <2>1. /\ x.seq = i /\ x.prop = Lifecycle[i] /\ x.parent = Parent(i - 1)
          /\ x.hash = Parent(i)
        <3>1. x = Txs(k)[i]
            OBVIOUS
        <3> HIDE DEF x
        <3> QED BY <3>1, TxsAreRows, Zenon
    <2>2. x.parent = HeadOf(SubSeq(t.txs, 1, i - 1))
        BY <2>1, HeadBefore
    <2>3. mine = StageEntries[i]
        BY <2>0 DEF Ents
    <2>4. x.parent = x.prop.parent /\ mine = x.prop.entries
        BY <2>0, <2>1, <2>3, StageFields
    <2>5. x.hash = TxHash(i, x.prop)
        BY <2>0, <2>1 DEF Parent
    <2>6. Balanced(mine)
        BY <2>0, <2>3, StageSums DEF Balanced
    <2> DEFINE
            gap == Unless(x.seq = i, "finance_sequence_gap")
            chain == Unless(x.parent = HeadOf(SubSeq(t.txs, 1, i - 1)),
                            "finance_parent_break")
            hash == Unless(/\ x.parent = x.prop.parent
                           /\ x.hash = TxHash(i, x.prop)
                           /\ mine = x.prop.entries, "finance_hash_mismatch")
            sums == Unless(Balanced(mine), "finance_unbalanced")
    <2>7. Sound(t, i) = UNION {gap, chain, hash, sums}
        BY Zenon DEF Sound
    <2>8. gap = {} /\ chain = {} /\ hash = {} /\ sums = {}
        BY <2>1, <2>2, <2>4, <2>5, <2>6, Zenon DEF Unless
    <2> HIDE DEF gap, chain, hash, sums
    <2> QED BY <2>7, <2>8
<1>2. UNION {Sound(t, i) : i \in DOMAIN t.txs} = {}
    <2>1. DOMAIN t.txs = 1..k
        BY TxsAreRows, Zenon
    <2> QED BY <1>1, <2>1
<1>3. HeadOf(t.txs) = Parent(k)
    BY HeadOfTxs
<1> DEFINE
        rows == UNION {Sound(t, i) : i \in DOMAIN t.txs}
        sums == Unless(GlobalSum(t.entries, "debit") = GlobalSum(t.entries, "credit"),
                       "finance_global_imbalance")
        head == Unless(t.head = HeadOf(t.txs), "finance_head_mismatch")
<1>4. sums = {}
    BY EntsBalance DEF Unless
<1>5. InvariantErrors(t) = rows \cup head \cup sums
    BY DEF InvariantErrors
<1>6. rows = {} /\ head = Unless(t.head = Parent(k), "finance_head_mismatch")
    BY <1>2, <1>3, Zenon
<1> HIDE DEF rows, sums, head
<1> QED BY <1>4, <1>5, <1>6

(* What each stage moves. *)
Moves(a) ==
    [i \in 1..5 |->
        IF a = "accounts_receivable" THEN <<100000, -20000, 10000, -85000, -5000>>[i]
        ELSE IF a = "fee_revenue" THEN <<-100000, 0, 0, 0, 0>>[i]
        ELSE IF a = "billing_write_off" THEN <<0, 20000, -10000, 0, 5000>>[i]
        ELSE <<0, 0, 0, 85000, 0>>[i]]

LEMMA StageMoves ==
    ASSUME NEW a \in Accounts
    PROVE  \A i \in 1..5 : Net(StageEntries[i], a) = Moves(a)[i]
<1>1. /\ StageEntries[1] = Transfer("fee_revenue", "accounts_receivable", 100000)
      /\ StageEntries[2] = Transfer("accounts_receivable", "billing_write_off", 20000)
      /\ StageEntries[3] = Transfer("billing_write_off", "accounts_receivable", 10000)
      /\ StageEntries[4] = Transfer("accounts_receivable", "cash", 85000)
      /\ StageEntries[5] = Transfer("accounts_receivable", "billing_write_off", 5000)
    BY DEF StageEntries
<1>2. ASSUME NEW from, NEW to, from # to, NEW cents \in Nat \ {0}
      PROVE  Net(Transfer(from, to, cents), a) =
                IF a = to THEN cents ELSE IF a = from THEN -cents ELSE 0
    BY <1>2, TransferSums
<1>3. /\ Net(StageEntries[1], a) = IF a = "accounts_receivable" THEN 100000
                                   ELSE IF a = "fee_revenue" THEN -100000 ELSE 0
      /\ Net(StageEntries[2], a) = IF a = "billing_write_off" THEN 20000
                                   ELSE IF a = "accounts_receivable" THEN -20000 ELSE 0
      /\ Net(StageEntries[3], a) = IF a = "accounts_receivable" THEN 10000
                                   ELSE IF a = "billing_write_off" THEN -10000 ELSE 0
      /\ Net(StageEntries[4], a) = IF a = "cash" THEN 85000
                                   ELSE IF a = "accounts_receivable" THEN -85000 ELSE 0
      /\ Net(StageEntries[5], a) = IF a = "billing_write_off" THEN 5000
                                   ELSE IF a = "accounts_receivable" THEN -5000 ELSE 0
    BY <1>1, <1>2
<1>4. a = "accounts_receivable" \/ a = "fee_revenue" \/ a = "billing_write_off"
        \/ a = "cash"
    BY DEF Accounts
<1>5. Net(StageEntries[1], a) = Moves(a)[1]
    BY <1>3, <1>4 DEF Moves
<1>6. Net(StageEntries[2], a) = Moves(a)[2]
    BY <1>3, <1>4 DEF Moves
<1>7. Net(StageEntries[3], a) = Moves(a)[3]
    BY <1>3, <1>4 DEF Moves
<1>8. Net(StageEntries[4], a) = Moves(a)[4]
    BY <1>3, <1>4 DEF Moves
<1>9. Net(StageEntries[5], a) = Moves(a)[5]
    BY <1>3, <1>4 DEF Moves
<1> QED BY <1>5, <1>6, <1>7, <1>8, <1>9

(* The balance of an account is the sum of what the posted stages moved. *)
LEMMA BalanceIs ==
    ASSUME NEW n \in 0..5, NEW a \in Accounts
    PROVE  Balances(Ents(n))[a] =
              (IF 1 <= n THEN Moves(a)[1] ELSE 0) + (IF 2 <= n THEN Moves(a)[2] ELSE 0)
              + (IF 3 <= n THEN Moves(a)[3] ELSE 0) + (IF 4 <= n THEN Moves(a)[4] ELSE 0)
              + (IF 5 <= n THEN Moves(a)[5] ELSE 0)
<1> DEFINE f == [i \in 1..7 |-> Net(Ents(n)[i], a)]
<1>1. Balances(Ents(n))[a] = Total(f, 7)
    BY Zenon DEF Balances, MaxSeq
<1>2. ASSUME NEW i \in 1..7
      PROVE  f[i] = IF i <= n THEN Moves(a)[i] ELSE 0
    <2>1. CASE i <= n
        <3>1. Ents(n)[i] = StageEntries[i] /\ i \in 1..5
            BY <2>1 DEF Ents, MaxSeq
        <3> QED BY <2>1, <3>1, StageMoves
    <2>2. CASE ~(i <= n)
        <3>1. Ents(n)[i] = << >>
            BY <2>2 DEF Ents, MaxSeq
        <3> QED BY <2>2, <3>1, NothingSums
    <2> QED BY <2>1, <2>2
<1>3. \A i \in 1..5 : Moves(a)[i] \in Int
    BY DEF Moves
<1> HIDE DEF f
<1>4. \A i \in 1..7 : f[i] \in Int
    BY <1>2, <1>3
<1>5. Total(f, 7) = f[1] + f[2] + f[3] + f[4] + f[5] + f[6] + f[7]
    BY <1>4, TotalOfSeven
<1>6. f[6] = 0 /\ f[7] = 0
    BY <1>2
<1> QED BY <1>1, <1>2, <1>3, <1>4, <1>5, <1>6

(* The client never owes less than nothing, and the complete cycle leaves  *)
(* the amounts of the recovery decision.                                   *)
LEMMA AmountsOfTheCycle ==
    ASSUME NEW n \in 0..5
    PROVE  /\ Balances(Ents(n))["accounts_receivable"] >= 0
           /\ n = 5 => Balances(Ents(n)) =
                  [accounts_receivable |-> 0, cash |-> 85000,
                   fee_revenue |-> -100000, billing_write_off |-> 15000]
<1> DEFINE b == Balances(Ents(n))
           ar == "accounts_receivable"
<1>1. /\ Moves(ar)[1] = 100000 /\ Moves(ar)[2] = -20000 /\ Moves(ar)[3] = 10000
      /\ Moves(ar)[4] = -85000 /\ Moves(ar)[5] = -5000
    BY DEF Moves
<1>2. b[ar] = (IF 1 <= n THEN 100000 ELSE 0) + (IF 2 <= n THEN -20000 ELSE 0)
              + (IF 3 <= n THEN 10000 ELSE 0) + (IF 4 <= n THEN -85000 ELSE 0)
              + (IF 5 <= n THEN -5000 ELSE 0)
    BY <1>1, BalanceIs DEF Accounts
<1>3. b[ar] >= 0 /\ (n = 5 => b[ar] = 0)
    <2> HIDE DEF b
    <2> QED BY <1>2
<1>4. ASSUME n = 5, NEW a \in Accounts
      PROVE  b[a] = Moves(a)[1] + Moves(a)[2] + Moves(a)[3] + Moves(a)[4] + Moves(a)[5]
    BY <1>4, BalanceIs
<1>5. ASSUME n = 5
      PROVE  /\ b["cash"] = 85000 /\ b["fee_revenue"] = -100000
             /\ b["billing_write_off"] = 15000
    <2>1. /\ Moves("cash")[1] = 0 /\ Moves("cash")[2] = 0 /\ Moves("cash")[3] = 0
          /\ Moves("cash")[4] = 85000 /\ Moves("cash")[5] = 0
        BY DEF Moves
    <2>2. /\ Moves("fee_revenue")[1] = -100000 /\ Moves("fee_revenue")[2] = 0
          /\ Moves("fee_revenue")[3] = 0 /\ Moves("fee_revenue")[4] = 0
          /\ Moves("fee_revenue")[5] = 0
        BY DEF Moves
    <2>3. /\ Moves("billing_write_off")[1] = 0 /\ Moves("billing_write_off")[2] = 20000
          /\ Moves("billing_write_off")[3] = -10000 /\ Moves("billing_write_off")[4] = 0
          /\ Moves("billing_write_off")[5] = 5000
        BY DEF Moves
    <2> HIDE DEF b
    <2> QED BY <1>4, <1>5, <2>1, <2>2, <2>3 DEF Accounts
<1>6. ASSUME n = 5
      PROVE  b = [accounts_receivable |-> 0, cash |-> 85000,
                  fee_revenue |-> -100000, billing_write_off |-> 15000]
    <2>1. b = [a \in Accounts |-> b[a]]
        BY DEF Balances
    <2> HIDE DEF b
    <2> QED BY <1>3, <1>5, <1>6, <2>1 DEF Accounts
<1> QED BY <1>3, <1>6

-----------------------------------------------------------------------------
(* The inductive invariant. *)

Posted == Len(db.txs)

Inside == {"wait", "began", "transaction", "entries", "head", "committed"}

ShapeInv ==
    /\ pc \in [Worker -> {"new", "idle"} \cup Inside]
    /\ next \in [Worker -> 1..6]
    /\ call = [w \in Worker |-> call[w]]
    /\ answer = [w \in Worker |-> answer[w]]

BooksInv == db = EmptyTables \/ \E n \in 0..5 : db = Books(n)

LockInv ==
    /\ \A w \in Worker : pc[w] \in Holding <=> writer = w
    /\ writer = NoWorker => work = db
    /\ \A w \in Worker : pc[w] # "new" => db # EmptyTables

(* No worker is further than one stage ahead of the file. *)
PaceInv == \A w \in Worker : next[w] <= Posted + 1

(* What a worker is posting: its next stage, or a rival after the invoice. *)
InHand(w) ==
    \/ next[w] \in 1..5 /\ call[w].prop = Lifecycle[next[w]]
    \/ Posted >= 1 /\ call[w].prop \in Rival /\ Valid(call[w].prop)

CallInv == \A w \in Worker : pc[w] \in Inside => InHand(w)

(* What the holder of the lock has staged. *)
Staged(w) ==
    LET n == Posted
    IN  /\ pc[w] = "began" => work = db
        /\ pc[w] \in {"transaction", "entries", "head"} =>
              /\ n + 1 \in 1..5
              /\ call[w].prop = Lifecycle[n + 1]
              /\ call[w].seq = n + 1
              /\ call[w].hash = Parent(n + 1)
        /\ pc[w] = "transaction" => work = [Books(n) EXCEPT !.txs = Txs(n + 1)]
        /\ pc[w] = "entries" => work = [Books(n + 1) EXCEPT !.head = Parent(n)]
        /\ pc[w] = "head" => work = Books(n + 1)
        /\ pc[w] = "committed" => \E k \in 1..n : call[w].prop = Lifecycle[k]

StageInv == \A w \in Worker : Staged(w)

IInv ==
    /\ ShapeInv
    /\ BooksInv
    /\ LockInv
    /\ PaceInv
    /\ CallInv
    /\ StageInv
    /\ OrderedPostsSucceed

LEMMA BooksAre ==
    ASSUME NEW n \in 0..5
    PROVE  /\ Books(n).head = Parent(n)
           /\ Books(n).txs = Txs(n)
           /\ Books(n).entries = Ents(n)
           /\ Len(Books(n).txs) = n
           /\ Parent(n) # NoHead
           /\ Books(n) # EmptyTables
<1>1. Books(n).head = Parent(n) /\ Books(n).txs = Txs(n) /\ Books(n).entries = Ents(n)
    BY DEF Books
<1>2. Len(Txs(n)) = n
    BY TxsAreRows, Zenon
<1>3. Parent(n) # NoHead
    BY HeadAssumption, StagesAre DEF Parent
<1>4. EmptyTables.head = NoHead
    BY DEF EmptyTables
<1> QED BY <1>1, <1>2, <1>3, <1>4, Zenon

(* The file is uninitialized, or it holds the first Posted stages.         *)
LEMMA PostedIs ==
    ASSUME BooksInv
    PROVE  /\ Posted \in 0..5
           /\ db # EmptyTables => db = Books(Posted) /\ db.head = Parent(Posted)
           /\ db = EmptyTables => Posted = 0
           /\ (db.head = NoHead) <=> (db = EmptyTables)
<1>1. CASE db = EmptyTables
    <2>1. EmptyTables.head = NoHead /\ EmptyTables.txs = << >>
        BY DEF EmptyTables
    <2> QED BY <1>1, <2>1 DEF Posted
<1>2. CASE db # EmptyTables
    <2>1. PICK n \in 0..5 : db = Books(n)
        BY <1>2 DEF BooksInv
    <2>2. Posted = n /\ db.head = Parent(n) /\ Parent(n) # NoHead
        BY <2>1, BooksAre, Zenon DEF Posted
    <2> QED BY <1>2, <2>1, <2>2
<1> QED BY <1>1, <1>2

LEMMA InitIInv == Init => IInv
<1> SUFFICES ASSUME Init PROVE IInv
    OBVIOUS
<1>1. /\ db = EmptyTables /\ work = db /\ writer = NoWorker
      /\ \A w \in Worker : pc[w] = "new" /\ next[w] = 1 /\ answer[w] = NoAnswer
    BY Zenon DEF Init
<1>2. ShapeInv
    <2>1. /\ pc = [w \in Worker |-> "new"] /\ next = [w \in Worker |-> 1]
          /\ call = [w \in Worker |-> NoCall] /\ answer = [w \in Worker |-> NoAnswer]
        BY Zenon DEF Init
    <2> QED BY <2>1 DEF ShapeInv
<1>3. BooksInv
    BY <1>1 DEF BooksInv
<1>4. Posted = 0
    BY <1>3, <1>1, PostedIs
<1>5. LockInv
    BY <1>1, WorkerAssumption DEF LockInv, Holding
<1>6. PaceInv
    BY <1>1, <1>4 DEF PaceInv
<1>7. CallInv /\ StageInv
    BY <1>1 DEF CallInv, StageInv, Staged, Inside
<1>8. OrderedPostsSucceed
    BY <1>1 DEF OrderedPostsSucceed
<1> QED BY <1>2, <1>3, <1>5, <1>6, <1>7, <1>8 DEF IInv

(* What the steps that leave a transaction without publishing it, or that  *)
(* do not touch one, have in common.                                       *)
LEMMA QuietStep ==
    ASSUME IInv, NEW w \in Worker, NEW label \in {"new", "idle", "wait"},
           Goto(w, label), UNCHANGED db,
           \/ Rollback(w)
           \/ pc[w] \notin Holding /\ UNCHANGED <<work, writer>>,
           label # "new" => db # EmptyTables,
           NEW c, call' = [call EXCEPT ![w] = c],
           label = "wait" => InHand(w)',
           NEW k \in 1..6, next' = [next EXCEPT ![w] = k], k <= Posted + 1,
           NEW a, answer' = [answer EXCEPT ![w] = a],
           OrderedPostsSucceed'
    PROVE  IInv'
<1>0. /\ pc \in [Worker -> {"new", "idle"} \cup Inside] /\ next \in [Worker -> 1..6]
      /\ pc' = [pc EXCEPT ![w] = label]
      /\ call = [v \in Worker |-> call[v]]
      /\ answer = [v \in Worker |-> answer[v]]
    BY Zenon DEF IInv, ShapeInv, Goto
<1>1. \A v \in Worker : v # w => /\ pc'[v] = pc[v] /\ next'[v] = next[v]
                                 /\ call'[v] = call[v]
    BY <1>0
<1>2. pc'[w] = label /\ next'[w] = k
    BY <1>0
<1>3. ShapeInv'
    <2>1. pc' \in [Worker -> {"new", "idle"} \cup Inside]
        BY <1>0 DEF Inside
    <2>2. next' \in [Worker -> 1..6]
        BY <1>0
    <2>3. call' = [v \in Worker |-> call'[v]]
        BY <1>0
    <2>4. answer' = [v \in Worker |-> answer'[v]]
        BY <1>0
    <2> QED BY <2>1, <2>2, <2>3, <2>4 DEF ShapeInv
<1>4. BooksInv' /\ Posted' = Posted
    BY DEF IInv, BooksInv, Posted
<1>5. LockInv'
    <2>1. /\ \A v \in Worker : pc[v] \in Holding <=> writer = v
          /\ writer = NoWorker => work = db
          /\ \A v \in Worker : pc[v] # "new" => db # EmptyTables
        BY DEF IInv, LockInv
    <2>2. label \notin Holding
        BY DEF Holding
    <2>3. CASE Rollback(w)
        BY <2>1, <2>2, <2>3, <1>1, <1>2, WorkerAssumption, Zenon DEF LockInv, Rollback
    <2>4. CASE pc[w] \notin Holding /\ UNCHANGED <<work, writer>>
        BY <2>1, <2>2, <2>4, <1>1, <1>2, WorkerAssumption, Zenon DEF LockInv
    <2> QED BY <2>3, <2>4
<1>6. PaceInv'
    BY <1>1, <1>2, <1>4 DEF IInv, PaceInv
<1>7. CallInv'
    <2> SUFFICES ASSUME NEW v \in Worker, pc'[v] \in Inside
                 PROVE  InHand(v)'
        BY DEF CallInv
    <2>1. CASE v = w
        BY <2>1, <1>2 DEF Inside
    <2>2. CASE v # w
        BY <2>2, <1>1, <1>4, Zenon DEF IInv, CallInv, InHand
    <2> QED BY <2>1, <2>2
<1>8. StageInv'
    <2> SUFFICES ASSUME NEW v \in Worker PROVE Staged(v)'
        BY DEF StageInv
    <2>1. CASE v = w
        BY <2>1, <1>2 DEF Staged
    <2>2. CASE v # w /\ pc'[v] \in Holding
        <3>1. writer' = v /\ pc[v] \in Holding /\ writer = v
            BY <2>2, <1>1, <1>5 DEF LockInv, IInv
        <3>2. UNCHANGED work
            BY <3>1, <2>2, WorkerAssumption DEF Rollback
        <3>3. Staged(v)
            BY DEF IInv, StageInv
        <3> QED BY <3>2, <3>3, <2>2, <1>1, <1>4, Zenon DEF Staged
    <2>3. CASE v # w /\ pc'[v] \notin Holding
        <3>1. Staged(v)
            BY DEF IInv, StageInv
        <3>2. pc'[v] \notin {"began", "transaction", "entries", "head"}
            BY <2>3 DEF Holding
        <3>3. pc'[v] = "committed" => \E i \in 1..Posted' : call'[v].prop = Lifecycle[i]
            BY <3>1, <2>3, <1>1, <1>4, Zenon DEF Staged
        <3> QED BY <3>2, <3>3 DEF Staged
    <2> QED BY <2>1, <2>2, <2>3
<1> QED BY <1>3, <1>4, <1>5, <1>6, <1>7, <1>8 DEF IInv

(* What the steps inside a transaction have in common.                     *)
LEMMA StagingStep ==
    ASSUME IInv, NEW w \in Worker, NEW label \in Holding, pc[w] # "new",
           writer \in {w, NoWorker}, writer' = w, Goto(w, label),
           NEW c, call' = [call EXCEPT ![w] = c],
           UNCHANGED <<db, answer, next>>,
           InHand(w)', Staged(w)'
    PROVE  IInv'
<1>0. /\ pc \in [Worker -> {"new", "idle"} \cup Inside] /\ next \in [Worker -> 1..6]
      /\ pc' = [pc EXCEPT ![w] = label]
      /\ call = [v \in Worker |-> call[v]]
      /\ answer = [v \in Worker |-> answer[v]]
    BY Zenon DEF IInv, ShapeInv, Goto
<1>1. \A v \in Worker : v # w => pc'[v] = pc[v] /\ call'[v] = call[v]
    BY <1>0
<1>2. pc'[w] = label
    BY <1>0
<1>3. ShapeInv'
    <2>1. pc' \in [Worker -> {"new", "idle"} \cup Inside]
        BY <1>0 DEF Inside, Holding
    <2>2. call' = [v \in Worker |-> call'[v]]
        BY <1>0
    <2> QED BY <2>1, <2>2, <1>0 DEF ShapeInv
<1>4. BooksInv' /\ Posted' = Posted
    BY DEF IInv, BooksInv, Posted
<1>5. LockInv'
    <2>1. /\ \A v \in Worker : pc[v] \in Holding <=> writer = v
          /\ \A v \in Worker : pc[v] # "new" => db # EmptyTables
        BY DEF IInv, LockInv
    <2> QED BY <2>1, <1>1, <1>2, WorkerAssumption, Zenon DEF LockInv
<1>6. PaceInv'
    BY <1>4 DEF IInv, PaceInv
<1>7. CallInv'
    BY <1>1, <1>4, Zenon DEF IInv, CallInv, InHand
<1>8. StageInv'
    <2> SUFFICES ASSUME NEW v \in Worker, v # w PROVE Staged(v)'
        BY DEF StageInv
    <2>1. pc'[v] \notin {"began", "transaction", "entries", "head"}
        BY <1>5, WorkerAssumption DEF LockInv, Holding
    <2>2. Staged(v)
        BY DEF IInv, StageInv
    <2>3. pc'[v] = "committed" => \E i \in 1..Posted' : call'[v].prop = Lifecycle[i]
        BY <2>2, <1>1, <1>4, Zenon DEF Staged
    <2> QED BY <2>1, <2>3 DEF Staged
<1>9. OrderedPostsSucceed'
    BY Zenon DEF IInv, OrderedPostsSucceed
<1> QED BY <1>3, <1>4, <1>5, <1>6, <1>7, <1>8, <1>9 DEF IInv

(* The invariant at one worker. *)
LEMMA AtWorker ==
    ASSUME IInv, NEW w \in Worker
    PROVE  /\ Posted \in 0..5
           /\ pc[w] # "new" => db = Books(Posted) /\ db # EmptyTables
           /\ pc[w] \in Holding <=> writer = w
           /\ next[w] \in 1..6 /\ next[w] <= Posted + 1
           /\ pc[w] \in Inside => InHand(w)
           /\ Staged(w)
           /\ pc = [v \in Worker |-> pc[v]]
           /\ call = [v \in Worker |-> call[v]]
           /\ answer = [v \in Worker |-> answer[v]]
           /\ next = [v \in Worker |-> next[v]]
<1>1. Posted \in 0..5 /\ (db # EmptyTables => db = Books(Posted))
    BY PostedIs DEF IInv
<1>2. pc[w] # "new" => db # EmptyTables
    BY DEF IInv, LockInv
<1> QED BY <1>1, <1>2 DEF IInv, ShapeInv, LockInv, PaceInv, CallInv, StageInv

LEMMA EnterStep ==
    ASSUME IInv, NEW w \in Worker, NEW p, Enter(w, p),
           \/ next[w] \in 1..5 /\ p = Lifecycle[next[w]]
           \/ next[w] > 1 /\ p \in Rival
    PROVE  IInv'
<1>1. /\ pc[w] = "idle" /\ Valid(p) /\ Goto(w, "wait")
      /\ call' = [call EXCEPT ![w] = [prop |-> p, seq |-> 0, hash |-> NoHash]]
      /\ answer' = [answer EXCEPT ![w] = NoAnswer]
      /\ UNCHANGED <<db, work, writer, next>>
    BY Zenon DEF Enter
<1>2. call'[w].prop = p
    BY <1>1, AtWorker
<1>3. next' = [next EXCEPT ![w] = next[w]]
    BY <1>1, AtWorker
<1>4. next[w] \in 1..6 /\ next[w] <= Posted + 1 /\ Posted \in 0..5 /\ db # EmptyTables
    BY <1>1, AtWorker
<1>5. InHand(w)'
    BY <1>1, <1>2, <1>4 DEF InHand, Posted
<1>6. OrderedPostsSucceed'
    BY <1>1, AtWorker DEF IInv, OrderedPostsSucceed
<1>7. pc[w] \notin Holding
    BY <1>1 DEF Holding
<1> QED BY <1>1, <1>3, <1>4, <1>5, <1>6, <1>7, QuietStep

LEMMA FirstBooks == [EmptyTables EXCEPT !.head = Genesis] = Books(0)
<1>1. Txs(0) = << >>
    <2>1. (\E Any : Txs(0) \in Seq(Any)) /\ Len(Txs(0)) = 0
        BY TxsAreRows
    <2> QED BY <2>1, Emptiness, Zenon
<1>2. Ents(0) = NoEntries
    <2>1. \A i \in 1..MaxSeq : ~(i <= 0)
        BY DEF MaxSeq
    <2> QED BY <2>1, Zenon DEF Ents, NoEntries
<1>3. Parent(0) = Genesis
    BY DEF Parent
<1> QED BY <1>1, <1>2, <1>3 DEF EmptyTables, Books

LEMMA InitializeStep ==
    ASSUME IInv, NEW w \in Worker, Initialize(w)
    PROVE  IInv'
<1>1. /\ pc[w] = "new" /\ writer = NoWorker /\ work' = db'
      /\ db' = IF db.head = NoHead THEN [db EXCEPT !.head = Genesis] ELSE db
      /\ pc' = [pc EXCEPT ![w] = "idle"]
      /\ UNCHANGED <<writer, call, answer, next>>
    BY Zenon DEF Initialize, Goto
<1>2. Posted \in 0..5 /\ BooksInv
    BY PostedIs DEF IInv
<1>3. /\ db' # EmptyTables /\ Posted' = Posted /\ BooksInv'
      /\ db # EmptyTables => db' = db
    <2>1. CASE db = EmptyTables
        <3>1. db.head = NoHead /\ Posted = 0
            BY <1>2, <2>1, PostedIs, Zenon
        <3>2. db' = Books(0)
            BY <3>1, <1>1, <2>1, FirstBooks, Zenon
        <3>3. Books(0) # EmptyTables /\ Len(Books(0).txs) = 0
            BY BooksAre
        <3> QED BY <2>1, <3>1, <3>2, <3>3 DEF BooksInv, Posted
    <2>2. CASE db # EmptyTables
        BY <1>1, <1>2, <2>2, PostedIs, Zenon DEF BooksInv, Posted
    <2> QED BY <2>1, <2>2
<1>4. /\ pc \in [Worker -> {"new", "idle"} \cup Inside] /\ pc'[w] = "idle"
      /\ \A v \in Worker : v # w => pc'[v] = pc[v]
    BY <1>1 DEF IInv, ShapeInv
<1>5. ShapeInv'
    BY <1>1, <1>4 DEF IInv, ShapeInv
<1>6. LockInv'
    BY <1>1, <1>3, <1>4, WorkerAssumption DEF IInv, LockInv, Holding
<1>7. PaceInv'
    BY <1>1, <1>3 DEF IInv, PaceInv
<1>8. CallInv'
    <2> SUFFICES ASSUME NEW v \in Worker, pc'[v] \in Inside PROVE InHand(v)'
        BY DEF CallInv
    <2>1. v # w /\ InHand(v)
        BY <1>4 DEF IInv, CallInv, Inside
    <2> QED BY <2>1, <1>1, <1>3, Zenon DEF InHand
<1>9. StageInv'
    <2> SUFFICES ASSUME NEW v \in Worker PROVE Staged(v)'
        BY DEF StageInv
    <2>1. pc'[v] \notin Holding
        BY <1>1, <1>6, WorkerAssumption DEF LockInv
    <2>2. pc'[v] = "committed" => \E i \in 1..Posted' : call'[v].prop = Lifecycle[i]
        BY <1>1, <1>3, <1>4, Zenon DEF IInv, StageInv, Staged
    <2> QED BY <2>1, <2>2 DEF Staged, Holding
<1>10. OrderedPostsSucceed'
    BY <1>1, Zenon DEF IInv, OrderedPostsSucceed
<1> QED BY <1>3, <1>5, <1>6, <1>7, <1>8, <1>9, <1>10 DEF IInv

LEMMA BeginStep ==
    ASSUME IInv, NEW w \in Worker, BeginImmediate(w)
    PROVE  IInv'
<1>1. /\ pc[w] = "wait" /\ writer = NoWorker /\ writer' = w /\ Goto(w, "began")
      /\ UNCHANGED <<db, work, call, answer, next>>
    BY Zenon DEF BeginImmediate, Begin
<1>2. call' = [call EXCEPT ![w] = call[w]]
    BY <1>1, AtWorker
<1>3. InHand(w)'
    BY <1>1, AtWorker DEF InHand, Posted, Inside
<1>4. pc'[w] = "began" /\ work' = db'
    BY <1>1, AtWorker DEF Goto, IInv, LockInv
<1>5. Staged(w)'
    BY <1>4 DEF Staged
<1> QED BY <1>1, <1>2, <1>3, <1>5, StagingStep DEF Holding

(* What the decision of a post reads: the first Posted stages. *)
LEMMA AtDecision ==
    ASSUME IInv, NEW w \in Worker, pc[w] = "began"
    PROVE  /\ work = db /\ db = Books(Posted) /\ Posted \in 0..5
           /\ work.head = Parent(Posted) /\ work.txs = Txs(Posted)
           /\ DOMAIN work.txs = 1..Posted
           /\ Len(work.txs) = Posted
           /\ \A i \in 1..Posted : work.txs[i].prop = Lifecycle[i]
           /\ writer = w
<1>1. /\ work = db /\ db = Books(Posted) /\ Posted \in 0..5 /\ writer = w
    BY AtWorker DEF Staged, Holding
<1>2. work.head = Parent(Posted) /\ work.txs = Txs(Posted)
    BY <1>1, BooksAre
<1> QED BY <1>1, <1>2, TxsAreRows, Zenon

LEMMA KeysDiffer ==
    ASSUME NEW i \in 1..5, NEW j \in 1..5, Lifecycle[i].key = Lifecycle[j].key
    PROVE  i = j
    BY StageFields

LEMMA InRange ==
    \A p : p \in Range(Lifecycle) <=> \E n \in 1..5 : p = Lifecycle[n]
    BY StageFields, Zenon DEF Range

(* How the steps that return a decision set the answer and the pace.       *)
LEMMA ReturnStep ==
    ASSUME IInv, NEW w \in Worker, pc[w] \in Inside,
           NEW disposition, NEW seq, NEW hash, NEW head,
           Return(w, disposition, seq, hash, head), Leave(w), UNCHANGED db,
           \/ Rollback(w)
           \/ pc[w] \notin Holding /\ UNCHANGED <<work, writer>>,
           \/ /\ disposition \in {"accepted", "duplicate_replay"}
              /\ \E i \in 1..Posted : call[w].prop = Lifecycle[i]
           \/ /\ disposition \notin {"accepted", "duplicate_replay"}
              /\ call[w].prop \notin Range(Lifecycle)
    PROVE  IInv'
<1> DEFINE a == [prop |-> call[w].prop, disposition |-> disposition, seq |-> seq,
                 hash |-> hash, head |-> head]
           goes == /\ next[w] \in Stages /\ call[w].prop = Lifecycle[next[w]]
                   /\ disposition \in {"accepted", "duplicate_replay"}
           k == IF goes THEN next[w] + 1 ELSE next[w]
<1>1. /\ answer' = [answer EXCEPT ![w] = a]
      /\ next' = IF goes THEN [next EXCEPT ![w] = @ + 1] ELSE next
    BY Zenon DEF Return
<1>2. /\ next[w] \in 1..6 /\ next[w] <= Posted + 1 /\ Posted \in 0..5
      /\ next = [v \in Worker |-> next[v]] /\ answer = [v \in Worker |-> answer[v]]
      /\ pc[w] # "new" /\ db # EmptyTables
    BY AtWorker DEF Inside
<1>3. next' = [next EXCEPT ![w] = k]
    BY <1>1, <1>2
<1>4. goes => \E i \in 1..Posted : i = next[w]
    <2> SUFFICES ASSUME goes PROVE \E i \in 1..Posted : i = next[w]
        OBVIOUS
    <2>1. PICK i \in 1..Posted : call[w].prop = Lifecycle[i]
        OBVIOUS
    <2>2. Lifecycle[i].key = Lifecycle[next[w]].key /\ next[w] \in 1..5
        BY <2>1, StagesAre, Zenon
    <2>3. i \in 1..5
        BY <1>2
    <2> QED BY <2>1, <2>2, <2>3, KeysDiffer, Zenon
<1>5. k \in 1..6 /\ k <= Posted + 1
    <2> HIDE DEF goes
    <2> QED BY <1>2, <1>4
<1>6. call[w].prop \in Range(Lifecycle) <=> disposition \in {"accepted", "duplicate_replay"}
    <2>1. ASSUME NEW i \in 1..Posted, call[w].prop = Lifecycle[i]
          PROVE  call[w].prop \in Range(Lifecycle)
        <3>1. i \in 1..5
            BY <1>2
        <3> QED BY <3>1, <2>1, InRange, Zenon
    <2> QED BY <2>1, Zenon
<1>7. OrderedPostsSucceed'
    <2> SUFFICES ASSUME NEW v \in Worker, answer'[v] # NoAnswer
                 PROVE  answer'[v].prop \in Range(Lifecycle) <=>
                            answer'[v].disposition \in {"accepted", "duplicate_replay"}
        BY Zenon DEF OrderedPostsSucceed
    <2>1. CASE v = w
        <3>1. answer'[v] = a
            BY <1>1, <1>2, <2>1
        <3>2. a.prop = call[w].prop /\ a.disposition = disposition
            OBVIOUS
        <3> HIDE DEF a
        <3> QED BY <3>1, <3>2, <1>6, Zenon
    <2>2. CASE v # w
        <3>1. answer'[v] = answer[v]
            BY <1>1, <1>2, <2>2
        <3> QED BY <3>1, Zenon DEF IInv, OrderedPostsSucceed
    <2> QED BY <2>1, <2>2
<1>8. Goto(w, "idle") /\ call' = [call EXCEPT ![w] = NoCall]
    BY DEF Leave
<1> HIDE DEF a, k, goes
<1> QED BY <1>1, <1>2, <1>3, <1>5, <1>7, <1>8, QuietStep, Zenon

LEMMA ReplayStep ==
    ASSUME IInv, NEW w \in Worker, ReplayDuplicate(w)
    PROVE  IInv'
<1>1. PICK i \in Existing(call[w].prop) :
          /\ work.txs[i].prop = call[w].prop
          /\ Return(w, "duplicate_replay", work.txs[i].seq, work.txs[i].hash, work.head)
    BY Zenon DEF ReplayDuplicate
<1>2. pc[w] = "began" /\ Rollback(w) /\ Leave(w) /\ UNCHANGED db
    BY Zenon DEF ReplayDuplicate, Rollback
<1>3. i \in 1..Posted /\ call[w].prop = Lifecycle[i]
    BY <1>1, <1>2, AtDecision DEF Existing
<1>4. pc[w] \in Inside
    BY <1>2 DEF Inside
<1>5. \E j \in 1..Posted : call[w].prop = Lifecycle[j]
    BY <1>3
<1> DEFINE q == work.txs[i].seq
           h == work.txs[i].hash
           d == work.head
           ok == "duplicate_replay"
<1>6. Return(w, ok, q, h, d) /\ ok \in {"accepted", "duplicate_replay"}
    BY <1>1
<1> HIDE DEF q, h, d, ok
<1> QED BY <1>2, <1>4, <1>5, <1>6, ReturnStep, Zenon

(* Whoever posts in order is never turned down: a stage that is not in the *)
(* file yet is the next one, and its parent is the head.                   *)
LEMMA OnlyStrangersAreTurnedDown ==
    ASSUME IInv, NEW w \in Worker, pc[w] = "began",
           \/ \E i \in Existing(call[w].prop) : work.txs[i].prop # call[w].prop
           \/ Existing(call[w].prop) = {} /\ call[w].prop.parent # work.head
    PROVE  call[w].prop \notin Range(Lifecycle)
<1> DEFINE p == call[w].prop
<1>1. /\ Posted \in 0..5 /\ next[w] \in 1..6 /\ next[w] <= Posted + 1 /\ InHand(w)
    BY AtWorker DEF Inside
<1>2. /\ work.head = Parent(Posted) /\ DOMAIN work.txs = 1..Posted
      /\ \A i \in 1..Posted : work.txs[i].prop = Lifecycle[i]
    BY AtDecision
<1>3. CASE p \in Rival /\ Valid(p)
    BY <1>3, RivalsAreStrangers
<1>4. CASE next[w] \in 1..5 /\ p = Lifecycle[next[w]]
    <2> DEFINE n == next[w]
    <2>1. CASE n <= Posted
        <3>1. n \in DOMAIN work.txs /\ work.txs[n].prop = p
            BY <1>1, <1>2, <1>4, <2>1
        <3>2. n \in Existing(p)
            BY <3>1 DEF Existing
        <3>3. PICK i \in Existing(p) : work.txs[i].prop # p
            BY <3>2
        <3>4. i \in 1..Posted /\ Lifecycle[i].key = p.key /\ Lifecycle[i] # p
            BY <1>2, <3>3 DEF Existing
        <3>5. i \in 1..5
            BY <1>1, <3>4
        <3> QED BY <1>4, <3>4, <3>5, KeysDiffer, Zenon
    <2>2. CASE n = Posted + 1
        <3>1. Existing(p) = {}
            <4> SUFFICES ASSUME NEW i \in Existing(p) PROVE FALSE
                OBVIOUS
            <4>1. i \in 1..Posted /\ Lifecycle[i].key = p.key
                BY <1>2 DEF Existing
            <4>2. i \in 1..5 /\ i # n
                BY <1>1, <2>2, <4>1
            <4> QED BY <1>4, <4>1, <4>2, KeysDiffer, Zenon
        <3>2. n - 1 = Posted
            BY <1>1, <2>2
        <3>3. p.parent = Parent(n - 1)
            BY <1>4, StageFields, Zenon
        <3> QED BY <1>2, <3>1, <3>2, <3>3
    <2> QED BY <1>1, <2>1, <2>2
<1> QED BY <1>1, <1>3, <1>4 DEF InHand

LEMMA RejectStep ==
    ASSUME IInv, NEW w \in Worker, RejectConflict(w) \/ RejectStale(w)
    PROVE  IInv'
<1> DEFINE turned == call[w].prop \notin Range(Lifecycle)
           d == work.head
<1>1. pc[w] = "began" /\ Rollback(w) /\ Leave(w) /\ UNCHANGED db
    BY Zenon DEF RejectConflict, RejectStale, Rollback
<1>2. pc[w] \in Inside
    BY <1>1 DEF Inside
<1>3. turned
    BY <1>1, OnlyStrangersAreTurnedDown, Zenon DEF RejectConflict, RejectStale
<1>4. PICK disposition \in {"rejected_idempotency_conflict", "rejected_stale_parent"} :
          Return(w, disposition, 0, NoHash, d)
    BY Zenon DEF RejectConflict, RejectStale
<1>5. disposition \notin {"accepted", "duplicate_replay"}
    OBVIOUS
<1> HIDE DEF d
<1> QED BY <1>1, <1>2, <1>3, <1>4, <1>5, ReturnStep, Zenon

(* Leaving without a decision. *)
LEMMA GiveUpStep ==
    ASSUME IInv, NEW w \in Worker, pc[w] \in Inside, Leave(w), UNCHANGED <<db, answer, next>>,
           \/ Rollback(w)
           \/ pc[w] \notin Holding /\ UNCHANGED <<work, writer>>
    PROVE  IInv'
<1>1. Goto(w, "idle") /\ call' = [call EXCEPT ![w] = NoCall]
    BY DEF Leave
<1>2. /\ next' = [next EXCEPT ![w] = next[w]] /\ answer' = [answer EXCEPT ![w] = answer[w]]
      /\ next[w] \in 1..6 /\ next[w] <= Posted + 1 /\ db # EmptyTables
    BY AtWorker DEF Inside
<1>3. OrderedPostsSucceed'
    BY Zenon DEF IInv, OrderedPostsSucceed
<1> QED BY <1>1, <1>2, <1>3, QuietStep

LEMMA CrashStep ==
    ASSUME IInv, NEW w \in Worker, Crash(w)
    PROVE  IInv'
<1>1. /\ IF writer = w THEN Rollback(w) ELSE UNCHANGED <<db, work, writer>>
      /\ Goto(w, "new")
      /\ call' = [call EXCEPT ![w] = NoCall]
      /\ answer' = [answer EXCEPT ![w] = NoAnswer]
      /\ next' = [next EXCEPT ![w] = 1]
    BY Zenon DEF Crash
<1>2. /\ UNCHANGED db
      /\ \/ Rollback(w)
         \/ pc[w] \notin Holding /\ UNCHANGED <<work, writer>>
    <2>1. CASE writer = w
        <3>1. Rollback(w)
            BY <1>1, <2>1, Zenon
        <3>2. UNCHANGED db
            BY <3>1 DEF Rollback
        <3> QED BY <3>1, <3>2
    <2>2. CASE writer # w
        BY <1>1, <2>2, AtWorker, Zenon
    <2> QED BY <2>1, <2>2
<1>3. 1 \in 1..6 /\ 1 <= Posted + 1
    BY AtWorker
<1>4. OrderedPostsSucceed'
    <2>1. \A v \in Worker : answer'[v] = IF v = w THEN NoAnswer ELSE answer[v]
        BY <1>1, AtWorker
    <2> QED BY <2>1, Zenon DEF IInv, OrderedPostsSucceed
<1> QED BY <1>1, <1>2, <1>3, <1>4, QuietStep

LEMMA AppendTxs ==
    ASSUME NEW n \in 0..4
    PROVE  Append(Txs(n), TxRow(n + 1)) = Txs(n + 1)
<1> DEFINE s == Txs(n)
           u == Append(s, TxRow(n + 1))
<1>1. /\ \E Any : s \in Seq(Any)
      /\ Len(s) = n /\ \A i \in 1..n : s[i] = TxRow(i)
    <2>1. n \in 0..5
        OBVIOUS
    <2> QED BY <2>1, TxsAreRows, Zenon
<1> HIDE DEF s
<1>2. /\ \E Any : u \in Seq(Any)
      /\ Len(u) = n + 1 /\ \A i \in 1..n : u[i] = s[i]
      /\ u[n + 1] = TxRow(n + 1)
    <2>1. PICK Any : s \in Seq(Any)
        BY <1>1
    <2>2. s \in Seq(Any \cup {TxRow(n + 1)})
        BY <2>1
    <2>3. u \in Seq(Any \cup {TxRow(n + 1)})
        BY <2>2
    <2> QED BY <1>1, <2>2, <2>3
<1> HIDE DEF u
<1>3. u = [i \in 1..(n + 1) |-> u[i]]
    BY <1>2
<1>4. \A i \in 1..(n + 1) : u[i] = TxRow(i)
    BY <1>1, <1>2
<1>5. u = [i \in 1..(n + 1) |-> TxRow(i)]
    BY <1>3, <1>4, Zenon
<1> QED BY <1>5, Zenon DEF Txs, u, s

LEMMA NextEnts ==
    ASSUME NEW n \in 0..4
    PROVE  [Ents(n) EXCEPT ![n + 1] = StageEntries[n + 1]] = Ents(n + 1)
<1>1. ASSUME NEW i \in 1..MaxSeq
      PROVE  Ents(n + 1)[i] = IF i = n + 1 THEN StageEntries[n + 1] ELSE Ents(n)[i]
    BY DEF Ents
<1> QED BY <1>1 DEF Ents

LEMMA SumOfTwo ==
    ASSUME NEW rows, NEW column, DOMAIN rows = 1..2, Len(rows) = 2,
           rows[1][column] \in Int, rows[2][column] \in Int
    PROVE  Sum(rows, column) = rows[1][column] + rows[2][column]
<1> DEFINE f == [i \in DOMAIN rows |-> rows[i][column]]
<1>1. f[1] = rows[1][column] /\ f[2] = rows[2][column]
    OBVIOUS
<1>2. Sum(rows, column) = Total(f, 2)
    BY Zenon DEF Sum
<1> HIDE DEF f
<1> QED BY <1>1, <1>2, TotalOfTwo

(* The rival that does not balance never gets past _validate. *)
LEMMA UnbalancedIsRefused ==
    ASSUME NEW p, p.entries = <<Entry("cash", 85000, 0),
                                Entry("accounts_receivable", 0, 8500)>>
    PROVE  ~Valid(p)
<1> DEFINE rows == p.entries
<1>1. /\ Len(rows) = 2 /\ DOMAIN rows = 1..2
      /\ rows[1] = Entry("cash", 85000, 0)
      /\ rows[2] = Entry("accounts_receivable", 0, 8500)
    OBVIOUS
<1> HIDE DEF rows
<1>2. /\ rows[1]["debit"] = 85000 /\ rows[2]["debit"] = 0
      /\ rows[1]["credit"] = 0 /\ rows[2]["credit"] = 8500
    BY <1>1 DEF Entry
<1>4. Sum(rows, "debit") = 85000 /\ Sum(rows, "credit") = 8500
    BY <1>1, <1>2, SumOfTwo
<1> QED BY <1>4 DEF Valid, Balanced, rows

(* What post() inserts is the next stage of the lifecycle. *)
LEMMA OnlyTheNextStageIsInserted ==
    ASSUME IInv, NEW w \in Worker, pc[w] = "began",
           Fresh(call[w].prop), ~IdUsed(call[w].prop)
    PROVE  Posted + 1 \in 1..5 /\ call[w].prop = Lifecycle[Posted + 1]
<1> DEFINE p == call[w].prop
<1>1. /\ Posted \in 0..5 /\ next[w] \in 1..6 /\ next[w] <= Posted + 1 /\ InHand(w)
    BY AtWorker DEF Inside
<1>2. /\ work.head = Parent(Posted) /\ DOMAIN work.txs = 1..Posted
      /\ \A i \in 1..Posted : work.txs[i].prop = Lifecycle[i]
    BY AtDecision
<1>3. \A i \in 1..Posted : Lifecycle[i].key # p.key /\ Lifecycle[i].id # p.id
    BY <1>2, Zenon DEF Fresh, Existing, IdUsed
<1>4. CASE next[w] \in 1..5 /\ p = Lifecycle[next[w]]
    <2>1. ~(next[w] <= Posted)
        BY <1>1, <1>3, <1>4
    <2> QED BY <1>1, <1>4, <2>1
<1>5. CASE Posted >= 1 /\ p \in Rival /\ Valid(p)
    <2>1. 1 \in 1..Posted /\ 1 \in 1..5
        BY <1>1, <1>5
    <2>2. p.key # <<"finance-lifecycle", 1>> /\ p.id # <<"FIN-TX", 1>>
        BY <1>3, <2>1, StageFields, Zenon
    <2>3. p.entries = <<Entry("cash", 85000, 0), Entry("accounts_receivable", 0, 8500)>>
        BY <1>5, <2>2 DEF Rival, TxProposal
    <2> QED BY <1>5, <2>3, UnbalancedIsRefused
<1> QED BY <1>1, <1>4, <1>5 DEF InHand

LEMMA InsertTransactionStep ==
    ASSUME IInv, NEW w \in Worker, InsertTransaction(w)
    PROVE  IInv'
<1> DEFINE n == Posted
           p == call[w].prop
           row == [seq |-> NextSequence, prop |-> p, parent |-> work.head,
                   hash |-> TxHash(NextSequence, p)]
           c == [prop |-> p, seq |-> NextSequence, hash |-> TxHash(NextSequence, p)]
<1>1. /\ pc[w] = "began" /\ Fresh(p) /\ ~IdUsed(p)
      /\ work' = [work EXCEPT !.txs = Append(@, row)]
      /\ call' = [call EXCEPT ![w] = c]
      /\ Goto(w, "transaction")
      /\ UNCHANGED <<db, writer, answer, next>>
    BY Zenon DEF InsertTransaction
<1>2. /\ n + 1 \in 1..5 /\ p = Lifecycle[n + 1] /\ n \in 0..4
    BY <1>1, OnlyTheNextStageIsInserted, AtWorker
<1>3. /\ work = Books(n) /\ work.head = Parent(n) /\ work.txs = Txs(n)
      /\ Len(work.txs) = n /\ writer = w
    BY <1>1, AtDecision
<1>4. NextSequence = n + 1
    BY <1>3 DEF NextSequence
<1>5. Parent(n + 1) = TxHash(n + 1, p) /\ n + 1 - 1 = n
    BY <1>2 DEF Parent
<1>6. row = TxRow(n + 1)
    BY <1>2, <1>3, <1>4, <1>5 DEF TxRow
<1>7. work' = [Books(n) EXCEPT !.txs = Txs(n + 1)]
    <2>1. Append(work.txs, row) = Txs(n + 1)
        BY <1>2, <1>3, <1>6, AppendTxs
    <2> HIDE DEF row
    <2> QED BY <1>1, <1>3, <2>1
<1>8. /\ call'[w] = c /\ pc'[w] = "transaction"
    BY <1>1, AtWorker DEF Goto
<1>9. Staged(w)'
    <2>1. Posted' = n
        BY <1>1 DEF Posted
    <2>2. c.prop = Lifecycle[n + 1] /\ c.seq = n + 1 /\ c.hash = Parent(n + 1)
        BY <1>2, <1>4, <1>5
    <2> HIDE DEF c, n
    <2> QED BY <1>2, <1>7, <1>8, <2>1, <2>2, Zenon DEF Staged
<1>10. InHand(w)'
    <2>1. InHand(w) /\ c.prop = p
        BY <1>1, AtWorker DEF Inside
    <2>2. Posted' = Posted
        BY <1>1 DEF Posted
    <2> HIDE DEF c
    <2> QED BY <1>1, <1>8, <2>1, <2>2, Zenon DEF InHand
<1>11. pc[w] # "new" /\ "transaction" \in Holding
    BY <1>1 DEF Holding
<1> HIDE DEF c
<1> QED BY <1>1, <1>3, <1>9, <1>10, <1>11, StagingStep

LEMMA InsertEntriesStep ==
    ASSUME IInv, NEW w \in Worker, InsertEntries(w)
    PROVE  IInv'
<1> DEFINE n == Posted
<1>1. /\ pc[w] = "transaction"
      /\ work' = [work EXCEPT !.entries[call[w].seq] = call[w].prop.entries]
      /\ Goto(w, "entries")
      /\ UNCHANGED <<db, writer, call, answer, next>>
    BY Zenon DEF InsertEntries
<1>2. /\ n \in 0..5 /\ n + 1 \in 1..5 /\ InHand(w) /\ writer = w
      /\ call[w].prop = Lifecycle[n + 1] /\ call[w].seq = n + 1
      /\ call[w].hash = Parent(n + 1)
      /\ work = [Books(n) EXCEPT !.txs = Txs(n + 1)]
    BY <1>1, AtWorker DEF Staged, Inside, Holding
<1>3. call[w].prop.entries = StageEntries[n + 1] /\ n \in 0..4
    BY <1>2, StageFields
<1>4. work' = [Books(n + 1) EXCEPT !.head = Parent(n)]
    <2>1. /\ work.head = Parent(n) /\ work.txs = Txs(n + 1) /\ work.entries = Ents(n)
          /\ work = [head |-> Parent(n), txs |-> Txs(n + 1), entries |-> Ents(n)]
        BY <1>2 DEF Books
    <2>2. work' = [head |-> Parent(n), txs |-> Txs(n + 1),
                   entries |-> [Ents(n) EXCEPT ![n + 1] = StageEntries[n + 1]]]
        <3>1. work' = [work EXCEPT !.entries = [@ EXCEPT ![n + 1] = StageEntries[n + 1]]]
            BY <1>1, <1>2, <1>3, Zenon
        <3> QED BY <2>1, <3>1
    <2>3. [Ents(n) EXCEPT ![n + 1] = StageEntries[n + 1]] = Ents(n + 1)
        BY <1>3, NextEnts
    <2>4. [Books(n + 1) EXCEPT !.head = Parent(n)] =
              [head |-> Parent(n), txs |-> Txs(n + 1), entries |-> Ents(n + 1)]
        BY DEF Books
    <2> HIDE DEF n
    <2> QED BY <2>2, <2>3, <2>4, Zenon
<1>5. Posted' = n /\ call' = [call EXCEPT ![w] = call[w]] /\ pc'[w] = "entries"
    BY <1>1, AtWorker DEF Posted, Goto
<1>6. Staged(w)'
    BY <1>1, <1>2, <1>4, <1>5, Zenon DEF Staged
<1>7. InHand(w)'
    BY <1>1, <1>2, <1>5, Zenon DEF InHand
<1>8. pc[w] # "new" /\ "entries" \in Holding
    BY <1>1 DEF Holding
<1> QED BY <1>1, <1>2, <1>5, <1>6, <1>7, <1>8, StagingStep

LEMMA UpdateHeadStep ==
    ASSUME IInv, NEW w \in Worker, UpdateHead(w)
    PROVE  IInv'
<1> DEFINE n == Posted
<1>1. /\ pc[w] = "entries" /\ work' = [work EXCEPT !.head = call[w].hash]
      /\ Goto(w, "head")
      /\ UNCHANGED <<db, writer, call, answer, next>>
    BY Zenon DEF UpdateHead
<1>2. /\ n \in 0..5 /\ n + 1 \in 1..5 /\ InHand(w) /\ writer = w
      /\ call[w].prop = Lifecycle[n + 1] /\ call[w].seq = n + 1
      /\ call[w].hash = Parent(n + 1)
      /\ work = [Books(n + 1) EXCEPT !.head = Parent(n)]
    BY <1>1, AtWorker DEF Staged, Inside, Holding
<1>3. work' = Books(n + 1)
    BY <1>1, <1>2 DEF Books
<1>4. Posted' = n /\ call' = [call EXCEPT ![w] = call[w]] /\ pc'[w] = "head"
    BY <1>1, AtWorker DEF Posted, Goto
<1>5. Staged(w)'
    BY <1>1, <1>2, <1>3, <1>4, Zenon DEF Staged
<1>6. InHand(w)'
    BY <1>1, <1>2, <1>4, Zenon DEF InHand
<1>7. pc[w] # "new" /\ "head" \in Holding
    BY <1>1 DEF Holding
<1> QED BY <1>1, <1>2, <1>4, <1>5, <1>6, <1>7, StagingStep

LEMMA CommitStep ==
    ASSUME IInv, NEW w \in Worker, CommitTransaction(w)
    PROVE  IInv'
<1> DEFINE n == Posted
<1>1. /\ pc[w] = "head" /\ writer = w /\ db' = work /\ writer' = NoWorker
      /\ UNCHANGED work /\ Goto(w, "committed")
      /\ UNCHANGED <<call, answer, next>>
    BY Zenon DEF CommitTransaction, Commit
<1>2. /\ n \in 0..5 /\ n + 1 \in 1..5 /\ InHand(w)
      /\ call[w].prop = Lifecycle[n + 1] /\ work = Books(n + 1)
    BY <1>1, AtWorker DEF Staged, Inside
<1>3. Posted' = n + 1 /\ db' # EmptyTables /\ db' = Books(n + 1) /\ n + 1 \in 0..5
    <2>1. n + 1 \in 0..5
        BY <1>2
    <2>2. Books(n + 1) # EmptyTables /\ Len(Books(n + 1).txs) = n + 1
        BY <2>1, BooksAre, Zenon
    <2>3. db' = Books(n + 1)
        BY <1>1, <1>2
    <2> QED BY <2>1, <2>2, <2>3, Zenon DEF Posted
<1>4. /\ pc \in [Worker -> {"new", "idle"} \cup Inside] /\ pc'[w] = "committed"
      /\ pc' = [pc EXCEPT ![w] = "committed"]
      /\ \A v \in Worker : v # w => pc'[v] = pc[v]
    BY <1>1 DEF IInv, ShapeInv, Goto
<1>5. ShapeInv'
    <2>1. pc' \in [Worker -> {"new", "idle"} \cup Inside]
        BY <1>4 DEF Inside
    <2> QED BY <1>1, <2>1 DEF IInv, ShapeInv
<1>6. BooksInv'
    BY <1>3 DEF BooksInv
<1>7. LockInv'
    BY <1>1, <1>3, <1>4, WorkerAssumption DEF IInv, LockInv, Holding
<1>8. PaceInv'
    BY <1>1, <1>2, <1>3 DEF IInv, PaceInv, ShapeInv
<1>9. CallInv'
    <2> SUFFICES ASSUME NEW v \in Worker, pc'[v] \in Inside PROVE InHand(v)'
        BY DEF CallInv
    <2>1. InHand(v)
        BY <1>2, <1>4 DEF IInv, CallInv
    <2>2. Posted >= 1 => Posted' >= 1
        BY <1>2, <1>3
    <2> QED BY <1>1, <2>1, <2>2, Zenon DEF InHand
<1>10. StageInv'
    <2> SUFFICES ASSUME NEW v \in Worker PROVE Staged(v)'
        BY DEF StageInv
    <2>1. pc'[v] \notin {"began", "transaction", "entries", "head"}
        BY <1>1, <1>7, WorkerAssumption DEF LockInv, Holding
    <2>2. ASSUME pc'[v] = "committed" PROVE \E i \in 1..Posted' : call'[v].prop = Lifecycle[i]
        <3>1. CASE v = w
            <4>1. n + 1 \in 1..Posted'
                BY <1>2, <1>3
            <4> QED BY <3>1, <4>1, <1>1, <1>2, Zenon
        <3>2. CASE v # w
            <4>1. PICK i \in 1..Posted : call[v].prop = Lifecycle[i]
                BY <2>2, <3>2, <1>4, Zenon DEF IInv, StageInv, Staged
            <4>2. i \in 1..Posted'
                BY <1>2, <1>3
            <4> QED BY <4>1, <4>2, <1>1, Zenon
        <3> QED BY <3>1, <3>2
    <2> QED BY <2>1, <2>2 DEF Staged
<1>11. OrderedPostsSucceed'
    BY <1>1, Zenon DEF IInv, OrderedPostsSucceed
<1> QED BY <1>5, <1>6, <1>7, <1>8, <1>9, <1>10, <1>11 DEF IInv

LEMMA ReturnAcceptedStep ==
    ASSUME IInv, NEW w \in Worker, ReturnAccepted(w)
    PROVE  IInv'
<1> DEFINE q == call[w].seq
           h == call[w].hash
           ok == "accepted"
<1>1. /\ pc[w] = "committed" /\ Return(w, ok, q, h, h) /\ Leave(w)
      /\ UNCHANGED <<db, work, writer>>
    BY Zenon DEF ReturnAccepted
<1>2. pc[w] \in Inside /\ pc[w] \notin Holding
    BY <1>1 DEF Inside, Holding
<1>3. \E i \in 1..Posted : call[w].prop = Lifecycle[i]
    BY <1>1, AtWorker DEF Staged
<1>4. ok \in {"accepted", "duplicate_replay"}
    OBVIOUS
<1> HIDE DEF q, h, ok
<1> QED BY <1>1, <1>2, <1>3, <1>4, ReturnStep, Zenon

LEMMA GiveUpSteps ==
    ASSUME IInv, NEW w \in Worker,
           \/ IntegrityError(w)
           \/ BusyTimeout(w)
           \/ Raise(w)
           \/ RaiseCommitted(w)
    PROVE  IInv'
<1>1. CASE IntegrityError(w)
    <2>1. pc[w] = "began" /\ Rollback(w) /\ Leave(w) /\ UNCHANGED <<db, answer, next>>
        BY <1>1, Zenon DEF IntegrityError, Rollback
    <2> QED BY <2>1, GiveUpStep DEF Inside
<1>2. CASE BusyTimeout(w)
    <2>1. /\ pc[w] = "wait" /\ Leave(w)
          /\ UNCHANGED <<db, work, writer, answer, next>>
        BY <1>2, Zenon DEF BusyTimeout
    <2> QED BY <2>1, GiveUpStep DEF Inside, Holding
<1>3. CASE Raise(w)
    <2>1. pc[w] \in Holding /\ Rollback(w) /\ Leave(w) /\ UNCHANGED <<db, answer, next>>
        BY <1>3, Zenon DEF Raise, Rollback
    <2> QED BY <2>1, GiveUpStep DEF Inside, Holding
<1>4. CASE RaiseCommitted(w)
    <2>1. /\ pc[w] = "committed" /\ Leave(w)
          /\ UNCHANGED <<db, work, writer, answer, next>>
        BY <1>4, Zenon DEF RaiseCommitted
    <2> QED BY <2>1, GiveUpStep DEF Inside, Holding
<1> QED BY <1>1, <1>2, <1>3, <1>4

LEMMA StartSteps ==
    ASSUME IInv, NEW w \in Worker,
           StartPost(w) \/ \E p \in Rival : StartRival(w, p)
    PROVE  IInv'
<1>1. CASE StartPost(w)
    <2>1. next[w] \in 1..5 /\ Enter(w, Lifecycle[next[w]])
        BY <1>1, StagesAre, Zenon DEF StartPost
    <2> QED BY <2>1, EnterStep
<1>2. ASSUME NEW p \in Rival, StartRival(w, p)
      PROVE  IInv'
    <2>1. next[w] > 1 /\ Enter(w, p)
        BY <1>2, Zenon DEF StartRival
    <2> QED BY <2>1, EnterStep
<1> QED BY <1>1, <1>2

LEMMA NextIInv == IInv /\ [Next]_vars => IInv'
<1> SUFFICES ASSUME IInv, [Next]_vars PROVE IInv'
    OBVIOUS
<1>1. ASSUME NEW w \in Worker, Progress(w) PROVE IInv'
    BY <1>1, InitializeStep, StartSteps, BeginStep, ReplayStep, RejectStep,
       GiveUpSteps, InsertTransactionStep, InsertEntriesStep, UpdateHeadStep,
       CommitStep, ReturnAcceptedStep, Zenon
       DEF Progress, Decide
<1>2. ASSUME NEW w \in Worker, Fail(w) PROVE IInv'
    BY <1>2, GiveUpSteps, CrashStep, Zenon DEF Fail
<1>3. ASSUME NEW w \in Worker, NEW p \in Rival, StartRival(w, p) PROVE IInv'
    BY <1>3, StartSteps, Zenon
<1>4. CASE UNCHANGED vars
    BY <1>4, Zenon
       DEF vars, IInv, ShapeInv, BooksInv, LockInv, PaceInv, CallInv, StageInv, Staged,
           InHand, Posted, OrderedPostsSucceed
<1> QED BY <1>1, <1>2, <1>3, <1>4, Zenon DEF Next

LEMMA AlwaysIInv == Spec => []IInv
    BY InitIInv, NextIInv, PTL DEF Spec

-----------------------------------------------------------------------------
(* The safety properties of the journal. *)

(* Whatever raises or dies between the statements of post(), the committed *)
(* file passes every check that snapshot() makes of it.                    *)
THEOREM JournalStaysConsistent == Spec => []JournalConsistent
<1>1. IInv => JournalConsistent
    <2> SUFFICES ASSUME IInv PROVE JournalConsistent
        OBVIOUS
    <2>1. BooksInv
        BY DEF IInv
    <2>2. CASE db = EmptyTables
        BY <2>1, <2>2, PostedIs, Zenon DEF JournalConsistent
    <2>3. CASE db # EmptyTables
        <3>1. db = Books(Posted) /\ Posted \in 0..5 /\ db.head # NoHead
            BY <2>1, <2>3, PostedIs, Zenon
        <3>2. /\ db.head = Parent(Posted) /\ db.txs = Txs(Posted)
              /\ db.entries = Ents(Posted) /\ Posted \in Posted..5
            BY <3>1, BooksAre
        <3>3. InvariantErrors(db) = Unless(db.head = Parent(Posted), "finance_head_mismatch")
            BY <3>1, <3>2, OnlyTheHeadMayDiffer, Zenon
        <3>4. InvariantErrors(db) = {}
            BY <3>2, <3>3, Zenon DEF Unless
        <3> QED BY <3>1, <3>4, Zenon DEF JournalConsistent
    <2> QED BY <2>2, <2>3
<1> QED BY <1>1, AlwaysIInv, PTL

(* However the workers interleave, retry and die, and whatever the rivals  *)
(* try, the books are those of the first stages of the lifecycle, each     *)
(* posted once, and their balances follow.                                 *)
THEOREM BooksAlwaysFollow == Spec => []BooksFollowLifecycle
<1>1. IInv => BooksFollowLifecycle
    <2> SUFFICES ASSUME IInv PROVE BooksFollowLifecycle
        OBVIOUS
    <2>1. BooksInv
        BY DEF IInv
    <2>2. Posted \in 0..5
        BY <2>1, PostedIs
    <2>3. /\ db.entries = Ents(Posted)
          /\ \A i \in DOMAIN db.txs : db.txs[i].prop = Lifecycle[i]
        <3>1. CASE db = EmptyTables
            <4>1. Books(0).entries = NoEntries /\ Books(0).entries = Ents(0)
                  /\ EmptyTables.entries = NoEntries /\ EmptyTables.txs = << >>
                <5>1. Books(0).entries = Ents(0)
                    BY DEF Books
                <5>2. Books(0).entries = [EmptyTables EXCEPT !.head = Genesis].entries
                    BY FirstBooks
                <5> QED BY <5>1, <5>2 DEF EmptyTables
            <4>2. Posted = 0
                BY <2>1, <3>1, PostedIs
            <4> QED BY <3>1, <4>1, <4>2
        <3>2. CASE db # EmptyTables
            <4>1. db = Books(Posted)
                BY <2>1, <3>2, PostedIs, Zenon
            <4>2. db.txs = Txs(Posted) /\ db.entries = Ents(Posted)
                BY <4>1, <2>2, BooksAre, Zenon
            <4>3. /\ DOMAIN Txs(Posted) = 1..Posted
                  /\ \A i \in 1..Posted : Txs(Posted)[i].prop = Lifecycle[i]
                BY <2>2, TxsAreRows, Zenon
            <4> QED BY <4>2, <4>3
        <3> QED BY <3>1, <3>2
    <2>4. /\ Balances(db.entries)["accounts_receivable"] >= 0
          /\ Posted = 5 => Balances(db.entries) =
                 [accounts_receivable |-> 0, cash |-> 85000,
                  fee_revenue |-> -100000, billing_write_off |-> 15000]
        BY <2>2, <2>3, AmountsOfTheCycle
    <2> QED BY <2>3, <2>4 DEF BooksFollowLifecycle, Posted
<1> QED BY <1>1, AlwaysIInv, PTL

(* A worker that posts the stages in order is never turned down, whatever  *)
(* others and its own predecessors posted before it, and a rival always    *)
(* is.                                                                     *)
THEOREM NobodyInOrderIsTurnedDown == Spec => []OrderedPostsSucceed
<1>1. IInv => OrderedPostsSucceed
    BY DEF IInv
<1> QED BY <1>1, AlwaysIInv, PTL

-----------------------------------------------------------------------------
(* The journal as its users see it. *)

PostNextStage ==
    \/ db = EmptyTables /\ db' = Books(0)
    \/ \E n \in 0..4 : db = Books(n) /\ db' = Books(n + 1)

LEMMA Grows ==
    ASSUME IInv, [Next]_vars
    PROVE  UNCHANGED db \/ PostNextStage
<1>1. ASSUME NEW w \in Worker, Initialize(w)
      PROVE  UNCHANGED db \/ PostNextStage
    <2>1. db' = IF db.head = NoHead THEN [db EXCEPT !.head = Genesis] ELSE db
        BY <1>1, Zenon DEF Initialize
    <2>2. (db.head = NoHead) <=> (db = EmptyTables)
        BY PostedIs DEF IInv
    <2> QED BY <2>1, <2>2, FirstBooks, Zenon DEF PostNextStage
<1>2. ASSUME NEW w \in Worker, CommitTransaction(w)
      PROVE  PostNextStage
    <2>1. pc[w] = "head" /\ db' = work
        BY <1>2, Zenon DEF CommitTransaction, Commit
    <2>2. /\ Posted \in 0..5 /\ Posted + 1 \in 1..5 /\ db = Books(Posted)
          /\ work = Books(Posted + 1)
        BY <2>1, AtWorker DEF Staged
    <2>3. Posted \in 0..4
        BY <2>2
    <2> QED BY <2>1, <2>2, <2>3 DEF PostNextStage
<1>3. ASSUME NEW w \in Worker,
             \/ StartPost(w) \/ BeginImmediate(w) \/ Decide(w)
             \/ InsertEntries(w) \/ UpdateHead(w) \/ ReturnAccepted(w) \/ Fail(w)
             \/ \E p \in Rival : StartRival(w, p)
      PROVE  UNCHANGED db
    <2>1. CASE StartPost(w) \/ BeginImmediate(w) \/ \E p \in Rival : StartRival(w, p)
        BY <2>1, Zenon DEF StartPost, StartRival, Enter, BeginImmediate
    <2>2. CASE Decide(w)
        BY <2>2, Zenon DEF Decide, ReplayDuplicate, RejectConflict, RejectStale,
                           IntegrityError, InsertTransaction, Rollback
    <2>3. CASE InsertEntries(w) \/ UpdateHead(w) \/ ReturnAccepted(w)
        BY <2>3, Zenon DEF InsertEntries, UpdateHead, ReturnAccepted
    <2>4. CASE Fail(w)
        BY <2>4, Zenon DEF Fail, BusyTimeout, Raise, RaiseCommitted, Crash, Rollback
    <2> QED BY <1>3, <2>1, <2>2, <2>3, <2>4
<1>4. CASE UNCHANGED vars
    BY <1>4, Zenon DEF vars
<1>5. CASE Next
    <2>1. CASE \E w \in Worker : Progress(w) \/ Fail(w)
        <3>1. PICK w \in Worker : Progress(w) \/ Fail(w)
            BY <2>1
        <3> QED BY <3>1, <1>1, <1>2, <1>3, Zenon DEF Progress
    <2>2. CASE \E w \in Worker, p \in Rival : StartRival(w, p)
        BY <2>2, <1>3, Zenon
    <2> QED BY <1>5, <2>1, <2>2, Zenon DEF Next
<1> QED BY <1>4, <1>5

(* To a reader of the file, all that ever happens to it is that it is      *)
(* initialized once and that the next stage appears, with its entries and  *)
(* the new head in one step.                                               *)
THEOREM StagesAppearInOrder == Spec => db = EmptyTables /\ [][PostNextStage]_db
<1>1. Init => db = EmptyTables
    BY Zenon DEF Init
<1>2. IInv /\ [Next]_vars => [PostNextStage]_db
    BY Grows
<1> QED BY <1>1, <1>2, AlwaysIInv, PTL DEF Spec

-----------------------------------------------------------------------------
(* The reader: what it has read is at three moments, each not before the   *)
(* one before it, and the file only grows.                                 *)

SawHead(m) ==
    [read |-> "head", head |-> Parent(m), txs |-> << >>, entries |-> NoEntries]

SawTxs(m, k) ==
    [read |-> "txs", head |-> Parent(m), txs |-> Txs(k), entries |-> NoEntries]

SawEntries(m, k, n) ==
    [read |-> "entries", head |-> Parent(m), txs |-> Txs(k), entries |-> Ents(n)]

SnapInv ==
    \/ snap = NoRead
    \/ /\ db # EmptyTables
       /\ \/ \E m \in 0..Posted : snap = SawHead(m)
          \/ \E m \in 0..Posted, k \in 0..Posted : snap = SawTxs(m, k)
          \/ \E m \in 0..Posted, k \in 0..Posted :
                \E n \in k..Posted : snap = SawEntries(m, k, n)

LEMMA PostedGrows ==
    ASSUME IInv, [Next]_vars, db # EmptyTables
    PROVE  /\ db' # EmptyTables
           /\ Posted \in 0..5 /\ Posted' \in 0..5 /\ Posted <= Posted'
<1>1. CASE UNCHANGED db
    BY <1>1, PostedIs DEF IInv, Posted
<1>2. CASE PostNextStage
    <2>1. PICK n \in 0..4 : db = Books(n) /\ db' = Books(n + 1)
        BY <1>2 DEF PostNextStage
    <2>2. n \in 0..5 /\ n + 1 \in 0..5
        OBVIOUS
    <2>3. Posted = n /\ Posted' = n + 1 /\ db' # EmptyTables
        BY <2>1, <2>2, BooksAre, Zenon DEF Posted
    <2> QED BY <2>2, <2>3
<1> QED BY <1>1, <1>2, Grows

LEMMA SnapStep == IInv /\ SnapInv /\ [SnapNext]_snapVars => IInv' /\ SnapInv'
<1> SUFFICES ASSUME IInv, SnapInv, [SnapNext]_snapVars PROVE IInv' /\ SnapInv'
    OBVIOUS
<1>1. CASE [Next]_vars /\ UNCHANGED snap
    <2>1. IInv'
        BY <1>1, NextIInv
    <2>2. CASE snap = NoRead
        BY <1>1, <2>1, <2>2 DEF SnapInv
    <2>3. CASE snap # NoRead
        <3>1. /\ db' # EmptyTables
              /\ Posted \in 0..5 /\ Posted' \in 0..5 /\ Posted <= Posted'
            BY <1>1, <2>3, PostedGrows DEF SnapInv
        <3>2. /\ 0..Posted \subseteq 0..Posted'
              /\ \A k \in 0..Posted : k..Posted \subseteq k..Posted'
            BY <3>1
        <3> QED BY <1>1, <2>1, <2>3, <3>1, <3>2, Zenon DEF SnapInv
    <2> QED BY <2>1, <2>2, <2>3
<1>2. ASSUME UNCHANGED vars
      PROVE  IInv' /\ db' = db /\ Posted' = Posted
    BY <1>2, NextIInv, Zenon DEF vars, Posted
<1>3. CASE ReadHead /\ UNCHANGED vars
    <2>1. /\ db.head # NoHead
          /\ snap' = [read |-> "head", head |-> db.head, txs |-> << >>,
                      entries |-> NoEntries]
        BY <1>3, Zenon DEF ReadHead
    <2>2. db # EmptyTables /\ db.head = Parent(Posted) /\ Posted \in 0..5
        BY <2>1, PostedIs DEF IInv
    <2>3. Posted \in 0..Posted /\ snap' = SawHead(Posted)
        BY <2>1, <2>2 DEF SawHead
    <2> QED BY <1>2, <1>3, <2>2, <2>3, Zenon DEF SnapInv
<1>4. CASE ReadTransactions /\ UNCHANGED vars
    <2>1. /\ snap # NoRead /\ snap.read = "head"
          /\ snap' = [snap EXCEPT !.read = "txs", !.txs = db.txs]
        BY <1>4, Zenon DEF ReadTransactions
    <2>2. db # EmptyTables /\ db.txs = Txs(Posted) /\ Posted \in 0..5
        <3>1. db # EmptyTables /\ db = Books(Posted) /\ Posted \in 0..5
            BY <2>1, PostedIs DEF IInv, SnapInv
        <3> QED BY <3>1, BooksAre, Zenon
    <2>3. PICK m \in 0..Posted : snap = SawHead(m)
        BY <2>1 DEF SnapInv, SawTxs, SawEntries
    <2>4. snap' = SawTxs(m, Posted)
        <3>1. snap' = [SawHead(m) EXCEPT !.read = "txs", !.txs = Txs(Posted)]
            BY <2>1, <2>2, <2>3, Zenon
        <3> QED BY <3>1 DEF SawHead, SawTxs
    <2>5. Posted \in 0..Posted
        BY <2>2
    <2> QED BY <1>2, <1>4, <2>2, <2>4, <2>5, Zenon DEF SnapInv
<1>5. CASE ReadEntries /\ UNCHANGED vars
    <2>1. /\ snap # NoRead /\ snap.read = "txs"
          /\ snap' = [snap EXCEPT !.read = "entries", !.entries = db.entries]
        BY <1>5, Zenon DEF ReadEntries
    <2>2. db # EmptyTables /\ db.entries = Ents(Posted) /\ Posted \in 0..5
        <3>1. db # EmptyTables /\ db = Books(Posted) /\ Posted \in 0..5
            BY <2>1, PostedIs DEF IInv, SnapInv
        <3> QED BY <3>1, BooksAre, Zenon
    <2>3. PICK m \in 0..Posted, k \in 0..Posted : snap = SawTxs(m, k)
        BY <2>1 DEF SnapInv, SawHead, SawEntries
    <2>4. snap' = SawEntries(m, k, Posted)
        <3>1. snap' = [SawTxs(m, k) EXCEPT !.read = "entries", !.entries = Ents(Posted)]
            BY <2>1, <2>2, <2>3, Zenon
        <3> QED BY <3>1 DEF SawTxs, SawEntries
    <2>5. Posted \in k..Posted
        BY <2>2
    <2> QED BY <1>2, <1>5, <2>2, <2>4, <2>5, Zenon DEF SnapInv
<1>6. CASE ReturnSnapshot /\ UNCHANGED vars
    <2>1. snap' = NoRead
        BY <1>6, Zenon DEF ReturnSnapshot
    <2> QED BY <1>2, <1>6, <2>1 DEF SnapInv
<1> QED BY <1>1, <1>3, <1>4, <1>5, <1>6, Zenon DEF SnapNext, snapVars

(* A snapshot whose SELECTs fall between the commits of other processes is *)
(* that of a sound journal but for its head, and the entries it adds up    *)
(* are those of complete transactions.                                     *)
THEOREM SnapshotsLagOnlyInTheHead == SnapSpec => []OnlyHeadLags
<1>1. SnapInit => IInv /\ SnapInv
    BY InitIInv, Zenon DEF SnapInit, SnapInv
<1>2. IInv /\ SnapInv => OnlyHeadLags
    <2> SUFFICES ASSUME IInv, SnapInv, Complete PROVE OnlyHeadLags
        BY Zenon DEF OnlyHeadLags
    <2>1. snap # NoRead /\ snap.read = "entries"
        BY DEF Complete
    <2>2. Posted \in 0..5 /\ db # EmptyTables /\ db = Books(Posted)
        BY <2>1, PostedIs DEF IInv, SnapInv
    <2>3. PICK m \in 0..Posted, k \in 0..Posted :
              \E n \in k..Posted : snap = SawEntries(m, k, n)
        BY <2>1 DEF SnapInv, SawHead, SawTxs
    <2>4. PICK n \in k..Posted : snap = SawEntries(m, k, n)
        BY <2>3
    <2>5. snap.txs = Txs(k) /\ snap.entries = Ents(n)
        BY <2>4 DEF SawEntries
    <2>6. k \in 0..5 /\ n \in k..5 /\ n \in 0..5
        BY <2>2
    <2>7. InvariantErrors(snap) = Unless(snap.head = Parent(k), "finance_head_mismatch")
        BY <2>5, <2>6, OnlyTheHeadMayDiffer, Zenon
    <2>8. HeadOf(snap.txs) = Parent(k)
        BY <2>5, <2>6, HeadOfTxs, Zenon
    <2>9. /\ InvariantErrors(snap) \subseteq {"finance_head_mismatch"}
          /\ InvariantErrors(snap) = {} <=> snap.head = HeadOf(snap.txs)
        BY <2>7, <2>8 DEF Unless
    <2>10. snap.entries = [i \in 1..MaxSeq |-> IF i <= n THEN db.entries[i] ELSE << >>]
        <3>1. db.entries = Ents(Posted)
            BY <2>2, BooksAre, Zenon
        <3>2. \A i \in 1..MaxSeq : i <= n => Ents(Posted)[i] = StageEntries[i]
            BY <2>2, <2>6 DEF Ents, MaxSeq
        <3> QED BY <2>5, <3>1, <3>2, Zenon DEF Ents
    <2>11. Len(snap.txs) = k /\ Len(db.txs) = Posted
        <3>1. Len(Txs(k)) = k
            BY <2>6, TxsAreRows, Zenon
        <3> QED BY <2>5, <3>1 DEF Posted
    <2> QED BY <2>9, <2>10, <2>11, Zenon DEF OnlyHeadLags
<1> QED BY <1>1, <1>2, SnapStep, PTL DEF SnapSpec

=============================================================================
