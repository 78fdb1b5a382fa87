----------------------------- MODULE ReplayProofs -----------------------------
(***************************************************************************)
(* The replay qualification and its receipt cache, for every number of     *)
(* scripts, runs, threads of the pool, edits of the code and kills.        *)
(*                                                                         *)
(* The invariant is about a call c, its workers w, the tree t, the         *)
(* worker's own file m, and the numbers e and f of their edits so far.     *)
(***************************************************************************)
EXTENDS ReplayQualification, FiniteSetTheorems, TLAPS

-----------------------------------------------------------------------------
Seens == [env : Version \cup {Absent}, code : Version \cup {Absent},
          main : Main \cup {Absent}]

Known == [env : Version, code : Version, main : Main]

Labels == {"idle", "first", "lookup", "load", "lock", "pool", "probe", "open",
           "write", "ended"}

Calls == [at : Labels, runs : Nat, first : Seens, lock : Version \cup {Absent},
          ran : SUBSET (Main \cup {Absent}), receipt : Bindings \cup {Absent},
          answer : {"none", "raised", "refused", "cache_hit", "fresh_qualification"}]

Processes == [state : {"queued", "imported", "observed", "stale", "failed"},
              seen : Seens]

(* What a caller knows at each label, and what it has answered. *)
CallOK(c) ==
    /\ c.at # "idle" => c.runs \in RunCounts
    /\ c.at \in {"lock", "pool", "probe", "open", "write"} => c.runs >= 2
    /\ c.at \in Labels \ {"idle", "first", "ended"} => c.first \in Known
    /\ c.at = "pool" => c.lock \in Version
    /\ c.at \in {"probe", "open", "write"} => c.receipt \in Bindings
    /\ c.at # "ended" => c.answer = "none"

(* Which of its workers may have been launched, and what they have seen. *)
WorkersOK(c, w) ==
    \A i \in Ordinals :
        /\ w[i].state = "imported" => w[i].seen.code \in Version /\ w[i].seen.main \in Main
        /\ w[i].state = "observed" => w[i].seen \in Known
        /\ w[i].state = "observed" /\ c.at = "pool" => w[i].seen.env = c.lock
        /\ c.at \in {"idle", "lookup", "load"} => w[i].state = "queued"
        /\ c.at \in {"first", "lock"} /\ i # 0 => w[i].state = "queued"
        /\ c.at = "pool" /\ i \notin 1..c.runs => w[i].state = "queued"
        /\ c.at \in {"probe", "open", "write"} /\ i # c.runs + 1 =>
               w[i].state = "queued"

(* While the tree is not edited everybody sees the same of it, and while   *)
(* the worker's file is not edited either, the same of everything.         *)
Fresh(t, m) == [env |-> t, code |-> t, main |-> m]

FreshCall(c, w, t, m, f) ==
    /\ \A i \in Ordinals :
          /\ w[i].state \in {"imported", "observed"} =>
                 w[i].seen.code = t /\ (f = 0 => w[i].seen.main = m)
          /\ w[i].state = "observed" => w[i].seen.env = t
    /\ f = 0 =>
          /\ c.at \in Labels \ {"idle", "first", "ended"} => c.first = Fresh(t, m)
          /\ c.at \in {"probe", "open", "write"} =>
                 c.receipt = Binding(Fresh(t, m), c.runs)

(* The runs of a call that may still misreport: each of them has imported  *)
(* other code than the environment that it has to name.                    *)
Misled(c, w) ==
    \A i \in 1..c.runs :
        /\ w[i].state \in {"queued", "imported", "observed"}
        /\ w[i].state # "queued" => w[i].seen.code # c.lock

Working(w) == {i \in Ordinals : w[i].state = "imported"}

Done(w) == {i \in Ordinals : w[i].state = "observed"}

(* The tree has to leave the environment for every round of the pool to    *)
(* import, and to return for it to observe.                                *)
RoundsTakeEdits(c, w, t, e) ==
    \E n \in Nat :
        IF t = c.lock
          THEN 2 * n <= e /\ Cardinality(Done(w) \cup Working(w)) <= n * MaxWorkers
          ELSE 2 * n + 1 <= e /\ Cardinality(Done(w)) <= n * MaxWorkers

CountOK(c, w, t, e) ==
    c.at = "pool" =>
        /\ Cardinality(Working(w)) <= MaxWorkers
        /\ Misled(c, w) => RoundsTakeEdits(c, w, t, e)

(* A receipt that misreports has taken its edits. *)
Explained(r, e) == r.env # r.code => e >= 2 * Rounds(r.runs)

CallInv(c, w, t, m, e, f) ==
    /\ c \in Calls /\ w \in [Ordinals -> Processes]
    /\ CallOK(c) /\ WorkersOK(c, w) /\ CountOK(c, w, t, e)
    /\ e = 0 => FreshCall(c, w, t, m, f)
    /\ c.receipt # Absent => Explained(c.receipt, e)

(* A file that was there at the lookup is there to be loaded. *)
HasFile(c, f) == c.at = "load" => f[CacheKey(c.first, c.runs)] # Absent

FilesInv ==
    /\ cache \in [Bindings -> Bindings \cup {Absent, Torn}]
    /\ treeEdits = 0 /\ mainEdits = 0 =>
          \A k \in Bindings : cache[k] \in {Absent, Torn, k}
    /\ \A k \in Bindings : cache[k] \notin {Absent, Torn} => Explained(cache[k], treeEdits)

(* A file that is open belongs to somebody, unless its writer died. *)
TornInv ==
    kills = 0 =>
        \A k \in Bindings : cache[k] = Torn =>
            \E d \in Qualifier : ScriptAt(d, "write") /\ CacheKey(call[d].first, call[d].runs) = k

Here(q) ==
    /\ CallInv(call[q], worker[q], tree, main, treeEdits, mainEdits)
    /\ HasFile(call[q], cache)

ReplayInv ==
    /\ tree \in Version /\ main \in Main
    /\ treeEdits \in Nat /\ mainEdits \in Nat /\ kills \in Nat
    /\ DOMAIN call = Qualifier /\ call = [q \in Qualifier |-> call[q]]
    /\ DOMAIN worker = Qualifier /\ worker = [q \in Qualifier |-> worker[q]]
    /\ \A q \in Qualifier : Here(q)
    /\ FilesInv /\ TornInv

-----------------------------------------------------------------------------
(* Ordinals, rounds and counting. *)

LEMMA OrdinalsAre ==
    /\ \E last \in Nat : Ordinals = 0..last
    /\ \A n \in RunCounts : n \in Nat /\ 1..(n + 1) \subseteq Ordinals
    /\ 0 \in Ordinals
    /\ IsFiniteSet(Ordinals)
<1> DEFINE top == CHOOSE n \in RunCounts : \A m \in RunCounts : m <= n
<1>1. top \in RunCounts /\ \A m \in RunCounts : m <= top
    BY CallsAssumption, Zenon
<1>2. Ordinals = 0..(top + 1)
    BY DEF Ordinals
<1> HIDE DEF top
<1>3. top \in Nat /\ \A n \in RunCounts : n \in Nat
    BY <1>1, CallsAssumption
<1>4. IsFiniteSet(0..(top + 1))
    BY <1>3, FS_Interval
<1> QED BY <1>1, <1>2, <1>3, <1>4

LEMMA WorkersAreFinite ==
    ASSUME NEW w
    PROVE  /\ IsFiniteSet(Working(w)) /\ Cardinality(Working(w)) \in Nat
           /\ IsFiniteSet(Done(w)) /\ Cardinality(Done(w)) \in Nat
           /\ IsFiniteSet(Done(w) \cup Working(w))
           /\ Cardinality(Done(w) \cup Working(w)) \in Nat
           /\ Cardinality(Done(w)) <= Cardinality(Done(w) \cup Working(w))
           /\ Cardinality(Done(w) \cup Working(w)) <=
                  Cardinality(Done(w)) + Cardinality(Working(w))
<1>1. /\ Working(w) \in SUBSET Ordinals
      /\ Done(w) \in SUBSET Ordinals
      /\ Done(w) \in SUBSET (Done(w) \cup Working(w))
    BY DEF Working, Done
<1>2. IsFiniteSet(Working(w)) /\ IsFiniteSet(Done(w))
    BY <1>1, OrdinalsAre, FS_Subset
<1>3. /\ IsFiniteSet(Done(w) \cup Working(w))
      /\ Cardinality(Done(w) \cup Working(w)) =
            Cardinality(Done(w)) + Cardinality(Working(w))
                - Cardinality(Done(w) \cap Working(w))
    BY <1>2, FS_Union
<1>4. IsFiniteSet(Done(w) \cap Working(w))
    <2>1. Done(w) \cap Working(w) \in SUBSET Done(w)
        OBVIOUS
    <2> QED BY <2>1, <1>2, FS_Subset
<1>5. /\ Cardinality(Working(w)) \in Nat
      /\ Cardinality(Done(w)) \in Nat
      /\ Cardinality(Done(w) \cap Working(w)) \in Nat
      /\ Cardinality(Done(w) \cup Working(w)) \in Nat
    BY <1>2, <1>3, <1>4, FS_CardinalityType
<1>6. Cardinality(Done(w)) <= Cardinality(Done(w) \cup Working(w))
    BY <1>1, <1>3, FS_Subset
<1> QED BY <1>2, <1>3, <1>5, <1>6

LEMMA OneMoreOneLess ==
    ASSUME NEW S, IsFiniteSet(S), NEW x
    PROVE  /\ Cardinality(S) \in Nat
           /\ Cardinality(S \cup {x}) <= Cardinality(S) + 1
           /\ Cardinality(S \ {x}) <= Cardinality(S)
<1>1. Cardinality(S) \in Nat
    BY FS_CardinalityType
<1>2. Cardinality(S \cup {x}) = IF x \in S THEN Cardinality(S) ELSE Cardinality(S) + 1
    BY FS_AddElement, Zenon
<1>3. Cardinality(S \ {x}) = IF x \in S THEN Cardinality(S) - 1 ELSE Cardinality(S)
    BY FS_RemoveElement, Zenon
<1> DEFINE more == Cardinality(S \cup {x})
           less == Cardinality(S \ {x})
           n == Cardinality(S)
<1>4. more \in {n, n + 1} /\ less \in {n - 1, n}
    BY <1>2, <1>3, Zenon
<1> HIDE DEF more, less, n
<1>5. n \in Nat => more <= n + 1 /\ less <= n
    BY <1>4
<1> QED BY <1>1, <1>5 DEF more, less, n

(* n rounds are enough for what n pools can hold. *)
LEMMA RoundsAtMost ==
    ASSUME NEW runs \in Nat, NEW n \in Nat, runs <= n * MaxWorkers
    PROVE  Rounds(runs) <= n
<1> DEFINE m == MaxWorkers
           a == runs + m - 1
           d == a \div m
<1>1. m \in Nat /\ m >= 1
    BY CallsAssumption
<1>2. a \in Nat /\ a < n * m + m
    BY <1>1
<1>3. n * m + m = (n + 1) * m
    BY <1>1
<1> HIDE DEF a, m
<1>4. d \in Nat /\ d * m <= a
    BY <1>1, <1>2
<1>5. d * m < (n + 1) * m
    BY <1>1, <1>2, <1>3, <1>4
<1>6. ASSUME d >= n + 1 PROVE FALSE
    <2>1. d * m >= (n + 1) * m
        BY <1>6, <1>1, <1>4
    <2> QED BY <2>1, <1>5, <1>1, <1>4
<1>7. d <= n
    BY <1>4, <1>6
<1> QED BY <1>7 DEF Rounds, a, m

-----------------------------------------------------------------------------
(* The tree is edited under a call. *)

LEMMA EditedRounds ==
    ASSUME NEW c, NEW w, NEW t, NEW u, t # u, NEW e \in Nat,
           Cardinality(Working(w)) <= MaxWorkers, RoundsTakeEdits(c, w, t, e)
    PROVE  RoundsTakeEdits(c, w, u, e + 1)
<1> DEFINE done == Cardinality(Done(w))
           launched == Cardinality(Done(w) \cup Working(w))
           working == Cardinality(Working(w))
<1>1. /\ done \in Nat /\ launched \in Nat /\ working \in Nat
      /\ done <= launched /\ launched <= done + working
    BY WorkersAreFinite
<1>2. MaxWorkers \in Nat
    BY CallsAssumption
<1>3. PICK n \in Nat : IF t = c.lock THEN 2 * n <= e /\ launched <= n * MaxWorkers
                       ELSE 2 * n + 1 <= e /\ done <= n * MaxWorkers
    BY DEF RoundsTakeEdits
<1>4. working <= MaxWorkers
    OBVIOUS
<1>g. SUFFICES \E k \in Nat :
                  IF u = c.lock THEN 2 * k <= e + 1 /\ launched <= k * MaxWorkers
                  ELSE 2 * k + 1 <= e + 1 /\ done <= k * MaxWorkers
    BY DEF RoundsTakeEdits
<1> HIDE DEF done, launched, working
<1>5. CASE u = c.lock
    <2>1. 2 * n + 1 <= e /\ done <= n * MaxWorkers
        BY <1>3, <1>5
    <2>2. (n + 1) * MaxWorkers = n * MaxWorkers + MaxWorkers /\ n * MaxWorkers \in Nat
        BY <1>2
    <2>3. 2 * (n + 1) <= e + 1 /\ launched <= (n + 1) * MaxWorkers /\ n + 1 \in Nat
        BY <2>1, <2>2, <1>1, <1>2, <1>4
    <2> QED BY <2>3, <1>5
<1>6. CASE u # c.lock
    <2>1. n * MaxWorkers \in Nat
        BY <1>2
    <2>2. 2 * n + 1 <= e + 1 /\ done <= n * MaxWorkers
        BY <2>1, <1>1, <1>3
    <2> QED BY <2>2, <1>6
<1> QED BY <1>5, <1>6

LEMMA EditKeepsCall ==
    ASSUME NEW c, NEW w, NEW t, NEW u, t # u, NEW m,
           NEW e \in Nat, NEW f, CallInv(c, w, t, m, e, f)
    PROVE  CallInv(c, w, u, m, e + 1, f)
<1>1. CountOK(c, w, u, e + 1)
    BY EditedRounds DEF CallInv, CountOK
<1>2. ASSUME c.receipt # Absent PROVE Explained(c.receipt, e + 1)
    <2>1. c.receipt \in Bindings
        BY <1>2 DEF CallInv, Calls
    <2> DEFINE n == Rounds(c.receipt.runs)
    <2>2. c.receipt.env # c.receipt.code => e >= 2 * n
        BY <1>2 DEF CallInv, Explained
    <2>3. n \in Int
        <3>1. c.receipt.runs \in Nat /\ MaxWorkers \in Nat \ {0}
            BY <2>1, CallsAssumption DEF Bindings
        <3> QED BY <3>1 DEF Rounds
    <2> HIDE DEF n
    <2>4. c.receipt.env # c.receipt.code => e + 1 >= 2 * n
        BY <2>2, <2>3
    <2> QED BY <2>4 DEF Explained, n
<1> QED BY <1>1, <1>2 DEF CallInv

-----------------------------------------------------------------------------
(* A worker process moves. *)

(* What does not depend on the state of one process. *)
LEMMA OneProcess ==
    ASSUME NEW c, NEW w, NEW t, NEW m, NEW e, NEW f, CallInv(c, w, t, m, e, f),
           NEW i \in Ordinals, NEW p \in Processes, NEW v, v = [w EXCEPT ![i] = p],
           WorkersOK(c, v), CountOK(c, v, t, e), e = 0 => FreshCall(c, v, t, m, f)
    PROVE  CallInv(c, v, t, m, e, f)
BY DEF CallInv

LEMMA ProcessImports ==
    ASSUME NEW c, NEW w, NEW t \in Version, NEW m \in Main,
           NEW e \in Nat, NEW f, CallInv(c, w, t, m, e, f),
           NEW i \in Ordinals, w[i].state = "queued",
           c.at \in {"first", "lock"} => i = 0,
           c.at = "pool" => i \in 1..c.runs,
           c.at = "probe" => i = c.runs + 1,
           c.at \in {"first", "lock", "pool", "probe"},
           Cardinality(Working(w)) < MaxWorkers,
           NEW p, p = [state |-> "imported",
                       seen |-> [env |-> Absent, code |-> t, main |-> m]]
    PROVE  CallInv(c, [w EXCEPT ![i] = p], t, m, e, f)
<1> DEFINE v == [w EXCEPT ![i] = p]
<1>1. /\ p \in Processes /\ p.state = "imported"
      /\ p.seen.code = t /\ p.seen.main = m
    BY DEF Processes, Seens
<1>2. /\ v \in [Ordinals -> Processes] /\ v[i] = p
      /\ \A j \in Ordinals : j # i => v[j] = w[j]
    BY <1>1 DEF CallInv
<1> HIDE DEF v
<1>3. WorkersOK(c, v)
    BY <1>1, <1>2 DEF CallInv, WorkersOK
<1>4. e = 0 => FreshCall(c, v, t, m, f)
    BY <1>1, <1>2 DEF CallInv, FreshCall
<1>5. Working(v) = Working(w) \cup {i} /\ Done(v) = Done(w)
    BY <1>1, <1>2 DEF Working, Done
<1>6. Cardinality(Working(v)) <= MaxWorkers
    <2>1. IsFiniteSet(Working(w)) /\ Cardinality(Working(w)) \in Nat
        BY WorkersAreFinite, Zenon
    <2> DEFINE n == Cardinality(Working(w))
    <2>2. Cardinality(Working(v)) <= n + 1 /\ n < MaxWorkers /\ n \in Nat
        BY <2>1, <1>5, OneMoreOneLess, Zenon
    <2>3. Cardinality(Working(v)) \in Nat
        BY WorkersAreFinite, Zenon
    <2> HIDE DEF n
    <2> QED BY <2>2, <2>3, CallsAssumption
<1>7. ASSUME c.at = "pool", Misled(c, v)
      PROVE  RoundsTakeEdits(c, v, t, e)
    <2>1. 1..c.runs \subseteq Ordinals
        <3>1. c.runs \in RunCounts
            BY <1>7 DEF CallInv, CallOK
        <3>2. 1..c.runs \subseteq 1..(c.runs + 1)
            BY <3>1, OrdinalsAre
        <3> QED BY <3>1, <3>2, OrdinalsAre
    <2>2. Misled(c, w)
        BY <2>1, <1>2, <1>7 DEF Misled
    <2>3. i \in 1..c.runs
        BY <1>7
    <2>4. t # c.lock
        BY <2>3, <1>1, <1>2, <1>7 DEF Misled
    <2>5. RoundsTakeEdits(c, w, t, e)
        BY <2>2, <1>7 DEF CallInv, CountOK
    <2> QED BY <2>4, <2>5, <1>5 DEF RoundsTakeEdits
<1>8. CountOK(c, v, t, e)
    BY <1>6, <1>7 DEF CountOK
<1> QED BY <1>1, <1>3, <1>4, <1>8, OneProcess, Zenon DEF v

LEMMA RunsAreOrdinals ==
    ASSUME NEW c, NEW w, NEW t, NEW m, NEW e, NEW f,
           CallInv(c, w, t, m, e, f), c.at # "idle"
    PROVE  c.runs \in Nat /\ 1..c.runs \subseteq Ordinals /\ c.runs + 1 \in Ordinals
<1>1. c.runs \in RunCounts
    BY DEF CallInv, CallOK
<1>2. 1..c.runs \subseteq 1..(c.runs + 1) /\ c.runs + 1 \in 1..(c.runs + 1)
    BY <1>1, OrdinalsAre
<1> QED BY <1>1, <1>2, OrdinalsAre

LEMMA ProcessObserves ==
    ASSUME NEW c, NEW w, NEW t \in Version, NEW m \in Main,
           NEW e \in Nat, NEW f, CallInv(c, w, t, m, e, f),
           NEW i \in Ordinals, w[i].state = "imported",
           c.at \in {"first", "lock"} \/ (c.at = "pool" /\ t = c.lock),
           NEW p, p = [state |-> "observed", seen |-> [w[i].seen EXCEPT !.env = t]]
    PROVE  CallInv(c, [w EXCEPT ![i] = p], t, m, e, f)
<1> DEFINE v == [w EXCEPT ![i] = p]
<1>0. w[i].seen \in Seens /\ w[i].seen.code \in Version /\ w[i].seen.main \in Main
    BY DEF CallInv, WorkersOK, Processes
<1>1. /\ p \in Processes /\ p.state = "observed" /\ p.seen.code = w[i].seen.code
      /\ p.seen.main = w[i].seen.main /\ p.seen.env = t /\ p.seen \in Known
    BY <1>0 DEF Processes, Seens, Known
<1>2. /\ v \in [Ordinals -> Processes] /\ v[i] = p
      /\ \A j \in Ordinals : j # i => v[j] = w[j]
    BY <1>1 DEF CallInv
<1> HIDE DEF v
<1>3. WorkersOK(c, v)
    BY <1>1, <1>2 DEF CallInv, WorkersOK
<1>4. e = 0 => FreshCall(c, v, t, m, f)
    BY <1>1, <1>2 DEF CallInv, FreshCall
<1>5. /\ Working(v) = Working(w) \ {i}
      /\ Done(v) \cup Working(v) = Done(w) \cup Working(w)
    BY <1>1, <1>2 DEF Working, Done
<1>6. Cardinality(Working(v)) <= Cardinality(Working(w))
    BY <1>5, WorkersAreFinite, OneMoreOneLess, Zenon
<1>7. ASSUME c.at = "pool", Misled(c, v)
      PROVE  RoundsTakeEdits(c, v, t, e)
    <2>1. 1..c.runs \subseteq Ordinals
        BY <1>7, RunsAreOrdinals
    <2>2. Misled(c, w)
        BY <2>1, <1>1, <1>2, <1>7 DEF Misled
    <2>3. t = c.lock
        BY <1>7
    <2>4. RoundsTakeEdits(c, w, t, e)
        BY <2>2, <1>7 DEF CallInv, CountOK
    <2> QED BY <2>3, <2>4, <1>5, Zenon DEF RoundsTakeEdits
<1>8. ASSUME c.at = "pool" PROVE Cardinality(Working(v)) <= MaxWorkers
    <2>1. Cardinality(Working(w)) <= MaxWorkers
        BY <1>8 DEF CallInv, CountOK
    <2>2. Cardinality(Working(v)) \in Nat /\ Cardinality(Working(w)) \in Nat
        BY WorkersAreFinite, Zenon
    <2> QED BY <2>1, <2>2, <1>6, CallsAssumption
<1>9. CountOK(c, v, t, e)
    BY <1>7, <1>8 DEF CountOK
<1> QED BY <1>1, <1>3, <1>4, <1>9, OneProcess, Zenon DEF v

LEMMA ProcessStops ==
    ASSUME NEW c, NEW w, NEW t \in Version, NEW m \in Main,
           NEW e \in Nat, NEW f, CallInv(c, w, t, m, e, f),
           NEW i \in Ordinals, w[i].state = "imported",
           NEW p, p.state \in {"stale", "failed"}, p \in Processes
    PROVE  CallInv(c, [w EXCEPT ![i] = p], t, m, e, f)
<1> DEFINE v == [w EXCEPT ![i] = p]
<1>2. /\ v \in [Ordinals -> Processes] /\ v[i] = p
      /\ \A j \in Ordinals : j # i => v[j] = w[j]
    BY DEF CallInv
<1> HIDE DEF v
<1>3. WorkersOK(c, v)
    BY <1>2 DEF CallInv, WorkersOK
<1>4. e = 0 => FreshCall(c, v, t, m, f)
    BY <1>2 DEF CallInv, FreshCall
<1>5. Working(v) = Working(w) \ {i}
    BY <1>2 DEF Working
<1>6. Cardinality(Working(v)) <= Cardinality(Working(w))
    BY <1>5, WorkersAreFinite, OneMoreOneLess, Zenon
<1>7. c.at = "pool" => i \in 1..c.runs
    BY DEF CallInv, WorkersOK
<1>8. c.at = "pool" => ~Misled(c, v)
    BY <1>2, <1>7 DEF Misled
<1>9. ASSUME c.at = "pool" PROVE Cardinality(Working(v)) <= MaxWorkers
    <2>1. Cardinality(Working(w)) <= MaxWorkers
        BY <1>9 DEF CallInv, CountOK
    <2>2. Cardinality(Working(v)) \in Nat /\ Cardinality(Working(w)) \in Nat
        BY WorkersAreFinite, Zenon
    <2> QED BY <2>1, <2>2, <1>6, CallsAssumption
<1>10. CountOK(c, v, t, e)
    BY <1>8, <1>9 DEF CountOK
<1> QED BY <1>3, <1>4, <1>10, OneProcess, Zenon DEF v

-----------------------------------------------------------------------------
(* A call moves. *)

AllQueued == [i \in Ordinals |-> Queued]

LEMMA QueuedIsQuiet ==
    /\ AllQueued \in [Ordinals -> Processes]
    /\ \A i \in Ordinals : AllQueued[i].state = "queued"
    /\ Working(AllQueued) = {} /\ Done(AllQueued) = {}
<1>1. Queued \in Processes /\ Queued.state = "queued"
    BY DEF Queued, NotObserved, Processes, Seens
<1> QED BY <1>1 DEF AllQueued, Working, Done

(* The call that has ended holds its answer only. *)
LEMMA CallEnds ==
    ASSUME NEW c, NEW w, NEW t, NEW m, NEW e, NEW f,
           CallInv(c, w, t, m, e, f), c.at # "idle",
           NEW how \in {"none", "raised", "refused", "cache_hit", "fresh_qualification"},
           NEW receipt \in Bindings \cup {Absent},
           receipt # Absent => Explained(receipt, e)
    PROVE  CallInv([c EXCEPT !.at = "ended", !.lock = Absent, !.answer = how,
                             !.receipt = receipt], AllQueued, t, m, e, f)
<1> DEFINE d == [c EXCEPT !.at = "ended", !.lock = Absent, !.answer = how,
                          !.receipt = receipt]
<1>1. c \in Calls /\ c.runs \in RunCounts
    BY DEF CallInv, CallOK
<1>2. /\ d \in Calls /\ d.at = "ended" /\ d.answer = how /\ d.receipt = receipt
      /\ d.first = c.first /\ d.runs = c.runs
    BY <1>1 DEF Calls, Labels
<1> HIDE DEF d
<1>3. CallOK(d)
    BY <1>1, <1>2 DEF CallOK
<1>4. /\ WorkersOK(d, AllQueued) /\ CountOK(d, AllQueued, t, e)
      /\ FreshCall(d, AllQueued, t, m, f)
    BY <1>2, QueuedIsQuiet DEF WorkersOK, CountOK, FreshCall
<1>5. CallInv(d, AllQueued, t, m, e, f)
    BY <1>2, <1>3, <1>4, QueuedIsQuiet DEF CallInv
<1> QED BY <1>5 DEF d

-----------------------------------------------------------------------------
(* The steps of the processes and of the scripts. *)

LEMMA OneCallMoves ==
    ASSUME ReplayInv, NEW q \in Qualifier, NEW d, NEW v,
           call[q].at # "write" \/ d = call[q],
           CallInv(d, v, tree, main, treeEdits, mainEdits), HasFile(d, cache),
           call' = [call EXCEPT ![q] = d], worker' = [worker EXCEPT ![q] = v],
           UNCHANGED <<tree, main, treeEdits, mainEdits, cache, kills>>
    PROVE  ReplayInv'
<1>1. /\ DOMAIN call' = Qualifier /\ call' = [r \in Qualifier |-> call'[r]]
      /\ DOMAIN worker' = Qualifier /\ worker' = [r \in Qualifier |-> worker'[r]]
      /\ call'[q] = d /\ worker'[q] = v
      /\ \A r \in Qualifier \ {q} : call'[r] = call[r] /\ worker'[r] = worker[r]
    BY DEF ReplayInv
<1>2. ASSUME NEW r \in Qualifier
      PROVE  Here(r)'
    <2>1. CASE r = q
        BY <1>1, <2>1 DEF Here
    <2>2. CASE r # q
        BY <1>1, <2>2 DEF ReplayInv, Here
    <2> QED BY <2>1, <2>2
<1>3. TornInv'
    <2> SUFFICES ASSUME kills = 0, NEW k \in Bindings, cache[k] = Torn
                 PROVE  \E r \in Qualifier :
                           (ScriptAt(r, "write") /\ CacheKey(call[r].first, call[r].runs) = k)'
        BY DEF TornInv, ScriptAt
    <2>1. PICK r \in Qualifier : ScriptAt(r, "write") /\ CacheKey(call[r].first, call[r].runs) = k
        BY DEF ReplayInv, TornInv
    <2>2. r # q \/ d = call[q]
        BY <2>1 DEF ScriptAt
    <2>3. call'[r] = call[r]
        BY <1>1, <2>2
    <2> QED BY <2>1, <2>3 DEF ScriptAt
<1>4. FilesInv'
    BY DEF ReplayInv, FilesInv
<1> QED BY <1>1, <1>2, <1>3, <1>4, Zenon DEF ReplayInv

LEMMA InvOf ==
    ASSUME ReplayInv, NEW q \in Qualifier
    PROVE  /\ tree \in Version /\ treeEdits \in Nat
           /\ main \in Main /\ mainEdits \in Nat
           /\ CallInv(call[q], worker[q], tree, main, treeEdits, mainEdits)
           /\ HasFile(call[q], cache)
           /\ DOMAIN call = Qualifier /\ DOMAIN worker = Qualifier
           /\ [call EXCEPT ![q] = call[q]] = call
           /\ [worker EXCEPT ![q] = worker[q]] = worker
BY DEF ReplayInv, Here

LEMMA WorkingIsRunning == ASSUME NEW q PROVE Running(q) = Working(worker[q])
BY DEF Running, Working, State

(* A process of a call's moves, and the call does not. *)
LEMMA OneProcessMoves ==
    ASSUME ReplayInv, NEW q \in Qualifier, NEW i \in Ordinals, NEW p,
           CallInv(call[q], [worker[q] EXCEPT ![i] = p], tree, main, treeEdits, mainEdits),
           worker' = [worker EXCEPT ![q][i] = p],
           UNCHANGED <<tree, main, treeEdits, mainEdits, call, cache, kills>>
    PROVE  ReplayInv'
<1>1. call' = [call EXCEPT ![q] = call[q]] /\ HasFile(call[q], cache)
    BY InvOf
<1>2. worker' = [worker EXCEPT ![q] = [worker[q] EXCEPT ![i] = p]]
    BY Zenon
<1> QED BY <1>1, <1>2, OneCallMoves, Zenon

LEMMA LaunchStep ==
    ASSUME ReplayInv, NEW q \in Qualifier, NEW i \in Ordinals, Launch(q, i)
    PROVE  ReplayInv'
<1> DEFINE p == [state |-> "imported",
                 seen |-> [env |-> Absent, code |-> tree, main |-> main]]
           c == call[q]
           w == worker[q]
<1>1. /\ CallInv(c, w, tree, main, treeEdits, mainEdits)
      /\ tree \in Version /\ main \in Main /\ treeEdits \in Nat
    BY InvOf
<1>2. p = [state |-> "imported", seen |-> [env |-> Absent, code |-> tree, main |-> main]]
    OBVIOUS
<1>3. /\ i \in Wanted(q) /\ w[i].state = "queued"
      /\ Cardinality(Working(w)) < MaxWorkers
      /\ worker' = [worker EXCEPT ![q][i] = p]
      /\ UNCHANGED <<tree, main, treeEdits, mainEdits, call, cache, kills>>
    BY WorkingIsRunning, Zenon DEF Launch, State
<1>4. /\ c.at \in {"first", "lock", "pool", "probe"}
      /\ c.at \in {"first", "lock"} => i = 0
      /\ c.at = "pool" => i \in 1..c.runs
      /\ c.at = "probe" => i = c.runs + 1
    BY <1>3 DEF Wanted, ScriptAt
<1> HIDE DEF p, c, w
<1>5. CallInv(c, [w EXCEPT ![i] = p], tree, main, treeEdits, mainEdits)
    BY <1>1, <1>2, <1>3, <1>4, ProcessImports
<1> QED BY <1>3, <1>5, OneProcessMoves, Zenon DEF c, w

LEMMA ObserveStep ==
    ASSUME ReplayInv, NEW q \in Qualifier, NEW i \in Ordinals, Observe(q, i)
    PROVE  ReplayInv'
<1> DEFINE c == call[q]
           w == worker[q]
           seen == [w[i].seen EXCEPT !.env = tree]
           p == IF Expected(q, tree) THEN [state |-> "observed", seen |-> seen]
                ELSE [state |-> "stale", seen |-> NotObserved]
<1>1. /\ CallInv(c, w, tree, main, treeEdits, mainEdits)
      /\ tree \in Version /\ main \in Main /\ treeEdits \in Nat
    BY InvOf
<1>2. /\ w[i].state = "imported"
      /\ worker' = [worker EXCEPT ![q][i] = p]
      /\ UNCHANGED <<tree, main, treeEdits, mainEdits, call, cache, kills>>
    BY Zenon DEF Observe, State, EnvironmentHash
<1>3. CASE Expected(q, tree)
    <2>1. c.at \in {"first", "lock"} \/ (c.at = "pool" /\ tree = c.lock)
        BY <1>3 DEF Expected, ScriptAt
    <2>3. p = [state |-> "observed", seen |-> [w[i].seen EXCEPT !.env = tree]]
        BY <1>3
    <2> HIDE DEF p, c, w
    <2>4. CallInv(c, [w EXCEPT ![i] = p], tree, main, treeEdits, mainEdits)
        BY <1>1, <1>2, <2>1, <2>3, ProcessObserves
    <2> QED BY <1>2, <2>4, OneProcessMoves, Zenon DEF c, w
<1>4. CASE ~Expected(q, tree)
    <2>1. p.state = "stale" /\ p \in Processes
        BY <1>4 DEF Processes, Seens, NotObserved
    <2> HIDE DEF p, c, w
    <2>2. CallInv(c, [w EXCEPT ![i] = p], tree, main, treeEdits, mainEdits)
        BY <1>1, <1>2, <2>1, ProcessStops
    <2> QED BY <1>2, <2>2, OneProcessMoves, Zenon DEF c, w
<1> QED BY <1>3, <1>4

LEMMA WorkerFailsStep ==
    ASSUME ReplayInv, NEW q \in Qualifier, NEW i \in Ordinals, WorkerFails(q, i)
    PROVE  ReplayInv'
<1> DEFINE c == call[q]
           w == worker[q]
           p == [state |-> "failed", seen |-> NotObserved]
<1>1. /\ CallInv(c, w, tree, main, treeEdits, mainEdits)
      /\ tree \in Version /\ main \in Main /\ treeEdits \in Nat
    BY InvOf
<1>2. /\ w[i].state = "imported"
      /\ worker' = [worker EXCEPT ![q][i] = p]
      /\ UNCHANGED <<tree, main, treeEdits, mainEdits, call, cache, kills>>
    BY Zenon DEF WorkerFails, State
<1>3. p.state = "failed" /\ p \in Processes
    BY DEF Processes, Seens, NotObserved
<1> HIDE DEF p, c, w
<1>4. CallInv(c, [w EXCEPT ![i] = p], tree, main, treeEdits, mainEdits)
    BY <1>1, <1>2, <1>3, ProcessStops
<1> QED BY <1>2, <1>4, OneProcessMoves, Zenon DEF c, w

LEMMA AnswerStep ==
    ASSUME ReplayInv, NEW q \in Qualifier, call[q].at \notin {"idle", "write"},
           NEW how \in {"none", "raised", "refused", "cache_hit", "fresh_qualification"},
           NEW receipt \in Bindings \cup {Absent}, Answer(q, how, receipt),
           receipt # Absent => Explained(receipt, treeEdits),
           UNCHANGED <<tree, main, treeEdits, mainEdits, cache, kills>>
    PROVE  ReplayInv'
<1> DEFINE c == call[q]
           d == [c EXCEPT !.at = "ended", !.lock = Absent, !.answer = how,
                          !.receipt = receipt]
<1>1. CallInv(c, worker[q], tree, main, treeEdits, mainEdits) /\ c \in Calls
    BY InvOf DEF CallInv
<1>2. CallInv(d, AllQueued, tree, main, treeEdits, mainEdits)
    BY <1>1, CallEnds, Zenon
<1>3. call' = [call EXCEPT ![q] = d] /\ worker' = [worker EXCEPT ![q] = AllQueued]
    BY Zenon DEF Answer, AllQueued
<1>4. d.at = "ended"
    BY <1>1 DEF Calls
<1> HIDE DEF d
<1>5. HasFile(d, cache)
    BY <1>4 DEF HasFile
<1> QED BY <1>2, <1>3, <1>5, OneCallMoves, Zenon

(* A call whose workers are all queued, outside the pool. *)
LEMMA QuietCall ==
    ASSUME NEW d \in Calls, NEW w \in [Ordinals -> Processes],
           NEW t, NEW m, NEW e, NEW f,
           \A i \in Ordinals : w[i].state = "queued",
           d.at # "pool", CallOK(d),
           e = 0 /\ f = 0 /\ d.at \in Labels \ {"idle", "first", "ended"} =>
               d.first = Fresh(t, m),
           e = 0 /\ f = 0 /\ d.at \in {"probe", "open", "write"} =>
               d.receipt = Binding(Fresh(t, m), d.runs),
           d.receipt # Absent => Explained(d.receipt, e)
    PROVE  CallInv(d, w, t, m, e, f)
<1>1. WorkersOK(d, w)
    BY DEF WorkersOK
<1>2. CountOK(d, w, t, e)
    BY DEF CountOK
<1>3. e = 0 => FreshCall(d, w, t, m, f)
    BY DEF FreshCall
<1> QED BY <1>1, <1>2, <1>3, Zenon DEF CallInv

LEMMA BeginStep ==
    ASSUME ReplayInv, NEW q \in Qualifier, NEW n \in RunCounts, Start(q, n)
    PROVE  ReplayInv'
<1> DEFINE c == call[q]
           w == worker[q]
           d == [NotStarted EXCEPT !.at = "first", !.runs = n]
<1>1. CallInv(c, w, tree, main, treeEdits, mainEdits)
    BY InvOf
<1>2. /\ c.at = "idle" /\ call' = [call EXCEPT ![q] = d]
      /\ UNCHANGED <<tree, main, treeEdits, mainEdits, worker, cache, kills>>
    BY Zenon DEF Start, ScriptAt
<1>3. NotStarted \in Calls /\ NotStarted.answer = "none" /\ NotStarted.receipt = Absent
    BY DEF NotStarted, Calls, Labels, NotObserved, Seens
<1>4. n \in Nat
    BY CallsAssumption
<1>5. /\ d \in Calls /\ d.at = "first" /\ d.runs = n /\ d.answer = "none"
      /\ d.receipt = Absent
    BY <1>3, <1>4 DEF Calls, Labels
<1> HIDE DEF d
<1>6. \A i \in Ordinals : w[i].state = "queued"
    BY <1>1, <1>2 DEF CallInv, WorkersOK
<1>7. CallOK(d)
    BY <1>4, <1>5 DEF CallOK
<1>8. w \in [Ordinals -> Processes]
    BY <1>1 DEF CallInv
<1> HIDE DEF c, w
<1>9. CallInv(d, w, tree, main, treeEdits, mainEdits)
    BY <1>5, <1>6, <1>7, <1>8, QuietCall
<1>10. HasFile(d, cache) /\ worker' = [worker EXCEPT ![q] = w]
    BY <1>2, <1>5, InvOf DEF HasFile, w
<1> QED BY <1>2, <1>9, <1>10, OneCallMoves, Zenon DEF c

(* _load_cache finds the file that its caller's preflight asks for. *)
LEMMA KeyIsBinding ==
    ASSUME NEW c, NEW w, NEW t, NEW m, NEW e, NEW f, CallInv(c, w, t, m, e, f),
           c.at \in Labels \ {"idle", "first", "ended"}
    PROVE  /\ CacheKey(c.first, c.runs) \in Bindings
           /\ CacheKey(c.first, c.runs) = Binding(c.first, c.runs)
<1>1. c.first \in Known /\ c.runs \in RunCounts
    BY DEF CallInv, CallOK
<1> QED BY <1>1 DEF CacheKey, Binding, Bindings, Known

LEMMA LookupStep ==
    ASSUME ReplayInv, NEW q \in Qualifier, Lookup(q)
    PROVE  ReplayInv'
<1> DEFINE c == call[q]
           w == worker[q]
           label == IF File(q) = Absent THEN "lock" ELSE "load"
           d == [c EXCEPT !.at = label]
<1>1. CallInv(c, w, tree, main, treeEdits, mainEdits)
    BY InvOf
<1>a. c.at = "lookup" /\ UNCHANGED <<tree, main, treeEdits, mainEdits, cache, kills>>
    BY Zenon DEF Lookup, ScriptAt
<1>b. CASE Answer(q, "raised", Absent)
    BY <1>a, <1>b, AnswerStep
<1>c. SUFFICES ASSUME ~Answer(q, "raised", Absent) PROVE ReplayInv'
    BY <1>b
<1>2. /\ c.at = "lookup" /\ call' = [call EXCEPT ![q] = d]
      /\ UNCHANGED <<tree, main, treeEdits, mainEdits, worker, cache, kills>>
    BY <1>a, <1>c, ZenonT(60) DEF Lookup, ScriptTo
<1>d. label = "lock" => c.runs >= 2
    <2>1. label = "lock" => c.runs \in 2..1000
        BY <1>c, Zenon DEF Lookup, ScriptTo
    <2> QED BY <2>1, SMTT(60)
<1>3. label \in {"lock", "load"}
    OBVIOUS
<1>4. label = "load" => cache[CacheKey(c.first, c.runs)] # Absent
    BY DEF File
<1>5. \A i \in Ordinals : w[i].state = "queued"
    BY <1>1, <1>2 DEF CallInv, WorkersOK
<1>6. c \in Calls /\ w \in [Ordinals -> Processes]
    BY <1>1 DEF CallInv
<1> HIDE DEF label
<1>7. /\ d \in Calls /\ d.at = label /\ d.runs = c.runs /\ d.first = c.first
      /\ d.answer = c.answer /\ d.receipt = c.receipt
    BY <1>3, <1>6 DEF Calls, Labels
<1> HIDE DEF d
<1>8. CallOK(d)
    BY <1>1, <1>2, <1>3, <1>7, <1>d DEF CallInv, CallOK, Labels
<1>9. treeEdits = 0 /\ mainEdits = 0 => d.first = Fresh(tree, main)
    BY <1>1, <1>2, <1>7 DEF CallInv, FreshCall, Labels
<1>10. d.receipt # Absent => Explained(d.receipt, treeEdits)
    BY <1>1, <1>7 DEF CallInv
<1> HIDE DEF c, w
<1>11. CallInv(d, w, tree, main, treeEdits, mainEdits)
    BY <1>3, <1>5, <1>6, <1>7, <1>8, <1>9, <1>10, QuietCall
<1>12. HasFile(d, cache)
    BY <1>4, <1>7, Zenon DEF HasFile
<1>13. worker' = [worker EXCEPT ![q] = w]
    BY <1>2, InvOf DEF w
<1>14. c.at # "write"
    BY <1>2
<1> QED BY <1>2, <1>11, <1>12, <1>13, <1>14, OneCallMoves, Zenon DEF c

LEMMA LoadCacheStep ==
    ASSUME ReplayInv, NEW q \in Qualifier, LoadCache(q)
    PROVE  ReplayInv'
<1> DEFINE c == call[q]
           file == File(q)
<1>1. CallInv(c, worker[q], tree, main, treeEdits, mainEdits) /\ HasFile(c, cache)
    BY InvOf
<1>2. c.at = "load" /\ UNCHANGED <<tree, main, treeEdits, mainEdits, cache, kills>>
    BY Zenon DEF LoadCache, ScriptAt
<1>3. /\ CacheKey(c.first, c.runs) \in Bindings
      /\ file = cache[CacheKey(c.first, c.runs)] /\ file # Absent
    BY <1>1, <1>2, KeyIsBinding DEF Labels, HasFile, File
<1>4. CASE file # Torn /\ Valid(file, c.first, c.runs)
    <2>1. Answer(q, "cache_hit", file)
        BY <1>4, Zenon DEF LoadCache
    <2>2. file \in Bindings /\ Explained(file, treeEdits)
        BY <1>3, <1>4 DEF ReplayInv, FilesInv
    <2>3. file = Binding(c.first, c.runs)
        BY <1>4 DEF Valid
    <2> HIDE DEF file
    <2> QED BY <1>2, <2>1, <2>2, <2>3, AnswerStep
<1>5. CASE ~(file # Torn /\ Valid(file, c.first, c.runs))
    <2>1. Answer(q, "refused", Absent)
        BY <1>5, Zenon DEF LoadCache
    <2> QED BY <1>2, <2>1, AnswerStep
<1> QED BY <1>4, <1>5

LEMMA PreflightStep ==
    ASSUME ReplayInv, NEW q \in Qualifier, Preflight(q)
    PROVE  ReplayInv'
<1> DEFINE c == call[q]
           w == worker[q]
           seen == w[0].seen
           v == [w EXCEPT ![0] = Queued]
<1>1. CallInv(c, w, tree, main, treeEdits, mainEdits) /\ treeEdits \in Nat
    BY InvOf
<1>2. /\ w[0].state \in {"observed", "failed"}
      /\ UNCHANGED <<tree, main, treeEdits, mainEdits, cache, kills>>
    BY Zenon DEF Preflight, State
<1>3. c \in Calls /\ w \in [Ordinals -> Processes] /\ 0 \in Ordinals
    BY <1>1, OrdinalsAre DEF CallInv
<1>4. c.at # "idle"
    BY <1>1, <1>2, <1>3 DEF CallInv, WorkersOK
<1>5. CASE w[0].state = "failed"
    <2>1. Answer(q, "raised", Absent)
        BY <1>5, Zenon DEF Preflight, State
    <2>2. c.at # "write"
        <3>1. c.at = "write" => c.runs \in Nat /\ 0 # c.runs + 1
            BY <1>1, RunsAreOrdinals
        <3> QED BY <3>1, <1>1, <1>3, <1>5 DEF CallInv, WorkersOK
    <2> QED BY <1>2, <1>4, <2>1, <2>2, AnswerStep
<1>6. CASE w[0].state = "observed"
    <2>1. /\ worker' = [worker EXCEPT ![q][0] = Queued]
          /\ \/ /\ c.at = "first"
                /\ call' = [call EXCEPT ![q].at = "lookup", ![q].first = seen]
             \/ /\ c.at = "lock"
                /\ call' = [call EXCEPT ![q].at = "pool", ![q].lock = seen.env]
        BY <1>6, Zenon DEF Preflight, State, ScriptAt
    <2>2. worker' = [worker EXCEPT ![q] = v]
        BY <2>1, Zenon
    <2>3. /\ seen \in Known
          /\ treeEdits = 0 => seen.env = tree
          /\ treeEdits = 0 /\ mainEdits = 0 => seen = Fresh(tree, main)
        <3>1. seen \in Known
            BY <1>1, <1>3, <1>6 DEF CallInv, WorkersOK
        <3>2. treeEdits = 0 =>
                  /\ seen.env = tree /\ seen.code = tree
                  /\ mainEdits = 0 => seen.main = main
            BY <1>1, <1>3, <1>6 DEF CallInv, FreshCall
        <3> QED BY <3>1, <3>2 DEF Known, Fresh
    <2>4. v \in [Ordinals -> Processes] /\ \A i \in Ordinals : v[i].state = "queued"
        <3>1. Queued \in Processes /\ Queued.state = "queued"
            BY DEF Queued, NotObserved, Processes, Seens
        <3>2. \A i \in Ordinals \ {0} : w[i].state = "queued"
            BY <1>1, <2>1 DEF CallInv, WorkersOK
        <3> QED BY <3>1, <3>2, <1>3
    <2>5. /\ c.at \in {"first", "lock"} /\ c.answer = "none"
          /\ c.runs \in RunCounts /\ (c.at = "lock" => c.runs >= 2)
        BY <1>1, <2>1 DEF CallInv, CallOK
    <2>6. /\ c.receipt # Absent => Explained(c.receipt, treeEdits)
          /\ c.at = "lock" => c.first \in Known
          /\ c.at = "lock" /\ treeEdits = 0 /\ mainEdits = 0 =>
                 c.first = Fresh(tree, main)
        BY <1>1 DEF CallInv, CallOK, FreshCall, Labels
    <2> HIDE DEF v, seen, w
    <2>7. CASE c.at = "first"
        <3> DEFINE d == [c EXCEPT !.at = "lookup", !.first = seen]
        <3>1. call' = [call EXCEPT ![q] = d]
            BY <2>1, <2>7
        <3>2. /\ d \in Calls /\ d.at = "lookup" /\ d.first = seen /\ d.runs = c.runs
              /\ d.answer = "none" /\ d.receipt = c.receipt
            BY <1>3, <2>3, <2>5 DEF Calls, Labels, Known, Seens
        <3> HIDE DEF d, c
        <3>3. CallOK(d)
            BY <2>3, <2>5, <3>2 DEF CallOK
        <3>4. CallInv(d, v, tree, main, treeEdits, mainEdits)
            BY <2>3, <2>4, <2>6, <3>2, <3>3, QuietCall
        <3>5. HasFile(d, cache)
            BY <3>2 DEF HasFile
        <3>6. c.at # "write"
            BY <2>7
        <3> QED BY <1>2, <2>2, <3>1, <3>4, <3>5, <3>6, OneCallMoves, Zenon DEF c
    <2>8. CASE c.at = "lock"
        <3> DEFINE d == [c EXCEPT !.at = "pool", !.lock = seen.env]
        <3>1. call' = [call EXCEPT ![q] = d]
            BY <2>1, <2>8
        <3>2. /\ d \in Calls /\ d.at = "pool" /\ d.first = c.first /\ d.runs = c.runs
              /\ d.answer = "none" /\ d.receipt = c.receipt /\ d.lock = seen.env
            BY <1>3, <2>3, <2>5 DEF Calls, Labels, Known
        <3> HIDE DEF d, c
        <3>3. CallOK(d)
            BY <2>3, <2>5, <2>6, <2>8, <3>2 DEF CallOK, Known
        <3>4. WorkersOK(d, v)
            BY <2>4 DEF WorkersOK
        <3>5. Working(v) = {} /\ Done(v) = {} /\ Done(v) \cup Working(v) = {}
            BY <2>4 DEF Working, Done
        <3>6. RoundsTakeEdits(d, v, tree, treeEdits)
            <4>1. tree # d.lock => treeEdits >= 1
                BY <1>1, <2>3, <3>2
            <4>2. Cardinality({}) = 0 /\ 0 * MaxWorkers = 0
                BY FS_EmptySet, CallsAssumption
            <4>3. IF tree = d.lock
                    THEN 2 * 0 <= treeEdits /\ Cardinality({}) <= 0 * MaxWorkers
                    ELSE 2 * 0 + 1 <= treeEdits /\ Cardinality({}) <= 0 * MaxWorkers
                BY <1>1, <4>1, <4>2
            <4> QED BY <3>5, <4>3 DEF RoundsTakeEdits
        <3>7. CountOK(d, v, tree, treeEdits)
            BY <3>5, <3>6, FS_EmptySet, CallsAssumption DEF CountOK
        <3>8. treeEdits = 0 => FreshCall(d, v, tree, main, mainEdits)
            BY <2>4, <2>6, <2>8, <3>2 DEF FreshCall
        <3>9. CallInv(d, v, tree, main, treeEdits, mainEdits) /\ HasFile(d, cache)
            BY <2>4, <2>6, <3>2, <3>3, <3>4, <3>7, <3>8 DEF CallInv, HasFile
        <3>10. c.at # "write"
            BY <2>8
        <3> QED BY <1>2, <2>2, <3>1, <3>9, <3>10, OneCallMoves, Zenon DEF c
    <2> QED BY <2>5, <2>7, <2>8
<1> QED BY <1>2, <1>5, <1>6

(* qualify_fresh_process_replay: the receipt of a round of the pool that   *)
(* agrees credits an environment with other code only after its edits.     *)
LEMMA AgreedIsExplained ==
    ASSUME NEW c, NEW w, NEW t, NEW m,
           NEW e \in Nat, NEW f, CallInv(c, w, t, m, e, f), c.at = "pool",
           \A i \in 1..c.runs : w[i].state = "observed",
           NEW receipt, \A i \in 1..c.runs : Binding(w[i].seen, c.runs) = receipt
    PROVE  Explained(receipt, e)
<1>0. \A i \in 1..c.runs :
          /\ receipt.env = w[i].seen.env /\ receipt.code = w[i].seen.code
          /\ receipt.runs = c.runs
    BY DEF Binding
<1>1. c.runs \in Nat /\ c.runs >= 2 /\ 1..c.runs \subseteq Ordinals
    BY RunsAreOrdinals DEF CallInv, CallOK
<1>e. receipt.runs = c.runs
    BY <1>0, <1>1
<1> SUFFICES ASSUME receipt.env # receipt.code PROVE e >= 2 * Rounds(c.runs)
    BY <1>e DEF Explained
<1>2. \A i \in 1..c.runs : w[i].seen.env = c.lock
    BY <1>1 DEF CallInv, WorkersOK
<1>3. 1 \in 1..c.runs
    BY <1>1
<1>4. receipt.env = c.lock
    BY <1>0, <1>2, <1>3
<1>5. Misled(c, w)
    BY <1>0, <1>4 DEF Misled
<1>6. PICK n \in Nat :
          /\ 2 * n <= e
          /\ \/ Cardinality(Done(w) \cup Working(w)) <= n * MaxWorkers
             \/ Cardinality(Done(w)) <= n * MaxWorkers
    <2>1. PICK n \in Nat :
              IF t = c.lock
                THEN /\ 2 * n <= e
                     /\ Cardinality(Done(w) \cup Working(w)) <= n * MaxWorkers
                ELSE 2 * n + 1 <= e /\ Cardinality(Done(w)) <= n * MaxWorkers
        BY <1>5 DEF CallInv, CountOK, RoundsTakeEdits
    <2>2. 2 * n <= e
        BY <2>1
    <2> QED BY <2>1, <2>2
<1>7. Cardinality(1..c.runs) = c.runs /\ IsFiniteSet(1..c.runs)
    <2> DEFINE n0 == c.runs
    <2>1. n0 \in Int /\ 1 \in Int /\ n0 >= 2
        BY <1>1
    <2> HIDE DEF n0
    <2>2. /\ IsFiniteSet(1..n0)
          /\ Cardinality(1..n0) = IF 1 > n0 THEN 0 ELSE n0 - 1 + 1
        BY <2>1, FS_Interval
    <2>3. Cardinality(1..n0) = n0
        BY <2>1, <2>2
    <2> QED BY <2>2, <2>3 DEF n0
<1>8. 1..c.runs \in SUBSET Done(w)
    BY <1>1 DEF Done
<1>9. c.runs <= Cardinality(Done(w))
    BY <1>7, <1>8, WorkersAreFinite, FS_Subset
<1> DEFINE done == Cardinality(Done(w))
           all == Cardinality(Done(w) \cup Working(w))
           room == n * MaxWorkers
<1>10. done \in Nat /\ all \in Nat /\ done <= all /\ room \in Nat
    BY WorkersAreFinite, CallsAssumption
<1>11. (all <= room \/ done <= room) /\ c.runs <= done
    BY <1>6, <1>9
<1> HIDE DEF done, all, room
<1>12. c.runs <= room
    BY <1>10, <1>11, <1>1
<1>13. Rounds(c.runs) <= n
    BY <1>12, <1>1, RoundsAtMost DEF room
<1> DEFINE k == Rounds(c.runs)
<1>14. k \in Int
    BY <1>1, CallsAssumption DEF Rounds
<1> HIDE DEF k
<1>15. e >= 2 * k
    BY <1>6, <1>13, <1>14 DEF k
<1> QED BY <1>15 DEF k

(* One semantics for all: the observations are the same. *)
LEMMA IdenticalMeansOne ==
    ASSUME NEW q, call[q].runs \in Nat, Identical(q)
    PROVE  \A i \in 1..call[q].runs :
              Binding(worker[q][i].seen, call[q].runs) = Issued(q)
<1> DEFINE n == call[q].runs
           f == [i \in 1..n |-> Binding(worker[q][i].seen, n)]
<1>1. f \in Surjection(1..n, Seen(q))
    BY DEF Seen, Surjection
<1>2. IsFiniteSet(1..n)
    BY FS_Interval
<1>3. IsFiniteSet(Seen(q))
    BY <1>1, <1>2, FS_Surjection
<1>4. PICK s : Seen(q) = {s}
    BY <1>3, FS_Singleton DEF Identical
<1>5. (CHOOSE x \in Seen(q) : TRUE) = s
    BY <1>4
<1>6. \A i \in 1..n : Binding(worker[q][i].seen, n) \in Seen(q)
    BY DEF Seen
<1> QED BY <1>4, <1>5, <1>6 DEF Issued

LEMMA CollectStep ==
    ASSUME ReplayInv, NEW q \in Qualifier, Collect(q)
    PROVE  ReplayInv'
<1> DEFINE c == call[q]
           w == worker[q]
           receipt == Issued(q)
           ran == {w[i].seen.main : i \in 1..c.runs}
           d == [c EXCEPT !.at = "probe", !.receipt = receipt, !.ran = ran]
<1>1. CallInv(c, w, tree, main, treeEdits, mainEdits) /\ treeEdits \in Nat
    BY InvOf
<1>2. c.at = "pool" /\ UNCHANGED <<tree, main, treeEdits, mainEdits, cache, kills>>
    BY Zenon DEF Collect, ScriptAt
<1>3. /\ c \in Calls /\ w \in [Ordinals -> Processes] /\ c.runs \in RunCounts
      /\ c.runs \in Nat /\ 1..c.runs \subseteq Ordinals /\ c.first \in Known
      /\ c.answer = "none" /\ c.runs >= 2
    BY <1>1, <1>2, RunsAreOrdinals DEF CallInv, CallOK, Labels
<1>4. CASE Answer(q, "raised", Absent)
    BY <1>2, <1>4, AnswerStep
<1>5. CASE ~Answer(q, "raised", Absent)
    <2>1. /\ \A i \in Wanted(q) : State(q, i) = "observed"
          /\ Identical(q)
          /\ call' = [call EXCEPT ![q].at = "probe", ![q].receipt = receipt,
                                  ![q].ran = ran]
          /\ worker' = [worker EXCEPT ![q] = [i \in Ordinals |-> Queued]]
        BY <1>5, Zenon DEF Collect
    <2>2. \A i \in 1..c.runs : w[i].state = "observed"
        BY <1>2, <2>1 DEF Wanted, ScriptAt, State
    <2>3. \A i \in 1..c.runs : Binding(w[i].seen, c.runs) = receipt
        BY <1>3, <2>1, IdenticalMeansOne
    <2> HIDE DEF receipt
    <2>4. Explained(receipt, treeEdits)
        BY <1>1, <1>2, <2>2, <2>3, AgreedIsExplained
    <2>5. ran \in SUBSET (Main \cup {Absent})
        BY <1>1, <1>3, <2>2 DEF CallInv, WorkersOK, Known
    <2>6. 1 \in 1..c.runs
        BY <1>3
    <2>7. /\ w[1].seen \in Known
          /\ treeEdits = 0 /\ mainEdits = 0 => w[1].seen = Fresh(tree, main)
        <3>1. w[1].seen \in Known
            BY <1>1, <1>3, <2>2, <2>6 DEF CallInv, WorkersOK
        <3>2. treeEdits = 0 /\ mainEdits = 0 =>
                  /\ w[1].seen.env = tree /\ w[1].seen.code = tree
                  /\ w[1].seen.main = main
            BY <1>1, <1>3, <2>2, <2>6 DEF CallInv, FreshCall
        <3> QED BY <3>1, <3>2 DEF Known, Fresh
    <2>8. /\ receipt \in Bindings
          /\ treeEdits = 0 /\ mainEdits = 0 =>
                 receipt = Binding(Fresh(tree, main), c.runs)
        <3>1. receipt = Binding(w[1].seen, c.runs)
            BY <2>3, <2>6
        <3> QED BY <3>1, <2>7, <1>3 DEF Binding, Bindings, Known
    <2>9. treeEdits = 0 /\ mainEdits = 0 => c.first = Fresh(tree, main)
        BY <1>1, <1>2 DEF CallInv, FreshCall, Labels
    <2> HIDE DEF ran
    <2>10. call' = [call EXCEPT ![q] = d] /\ worker' = [worker EXCEPT ![q] = AllQueued]
        BY <2>1 DEF AllQueued
    <2>11. /\ d \in Calls /\ d.at = "probe" /\ d.receipt = receipt
           /\ d.first = c.first /\ d.runs = c.runs /\ d.answer = "none"
        BY <1>3, <2>5, <2>8 DEF Calls, Labels
    <2> HIDE DEF d, c, w
    <2>12. CallOK(d)
        BY <1>3, <2>8, <2>11 DEF CallOK
    <2>13. CallInv(d, AllQueued, tree, main, treeEdits, mainEdits)
        BY <2>4, <2>8, <2>9, <2>11, <2>12, QueuedIsQuiet, QuietCall
    <2>14. HasFile(d, cache) /\ c.at # "write"
        BY <1>2, <2>11 DEF HasFile
    <2> QED BY <1>2, <2>10, <2>13, <2>14, OneCallMoves, Zenon DEF c
<1> QED BY <1>4, <1>5

LEMMA ProbedStep ==
    ASSUME ReplayInv, NEW q \in Qualifier, Probed(q)
    PROVE  ReplayInv'
<1> DEFINE c == call[q]
           w == worker[q]
           d == [c EXCEPT !.at = "open"]
<1>1. CallInv(c, w, tree, main, treeEdits, mainEdits)
    BY InvOf
<1>2. c.at = "probe" /\ UNCHANGED <<tree, main, treeEdits, mainEdits, cache, kills>>
    BY Zenon DEF Probed, ScriptAt
<1>3. CASE Answer(q, "raised", Absent)
    BY <1>2, <1>3, AnswerStep
<1>4. CASE ~Answer(q, "raised", Absent)
    <2>1. /\ w[c.runs + 1].state = "stale"
          /\ call' = [call EXCEPT ![q] = d] /\ UNCHANGED worker
        BY <1>4, Zenon DEF Probed, State, ScriptTo
    <2>2. /\ d \in Calls /\ d.at = "open" /\ d.receipt = c.receipt
          /\ d.first = c.first /\ d.runs = c.runs /\ d.answer = c.answer
        BY <1>1 DEF CallInv, Calls, Labels
    <2> HIDE DEF d
    <2>3. CallOK(d)
        BY <1>1, <1>2, <2>2 DEF CallInv, CallOK, Labels
    <2>4. WorkersOK(d, w)
        BY <1>1, <1>2, <2>2 DEF CallInv, WorkersOK
    <2>5. treeEdits = 0 => FreshCall(d, w, tree, main, mainEdits)
        BY <1>1, <1>2, <2>2 DEF CallInv, FreshCall, Labels
    <2>6. CallInv(d, w, tree, main, treeEdits, mainEdits)
        BY <1>1, <2>2, <2>3, <2>4, <2>5 DEF CallInv, CountOK
    <2>7. HasFile(d, cache) /\ c.at # "write"
        BY <1>2, <2>2 DEF HasFile
    <2>8. worker' = [worker EXCEPT ![q] = w]
        BY <2>1, InvOf
    <2> HIDE DEF c, w
    <2> QED BY <1>2, <2>1, <2>6, <2>7, <2>8, OneCallMoves, Zenon DEF c
<1> QED BY <1>3, <1>4

-----------------------------------------------------------------------------
(* The receipt's file. *)

LEMMA OpenCacheStep ==
    ASSUME ReplayInv, NEW q \in Qualifier, OpenCache(q)
    PROVE  ReplayInv'
<1> DEFINE c == call[q]
           w == worker[q]
           key == CacheKey(c.first, c.runs)
           d == [c EXCEPT !.at = "write"]
<1>1. CallInv(c, w, tree, main, treeEdits, mainEdits)
    BY InvOf
<1>2. /\ c.at = "open" /\ call' = [call EXCEPT ![q] = d]
      /\ cache' = [cache EXCEPT ![key] = Torn]
      /\ UNCHANGED <<tree, main, treeEdits, mainEdits, worker, kills>>
    BY Zenon DEF OpenCache, ScriptAt, ScriptTo
<1>3. key \in Bindings
    BY <1>1, <1>2, KeyIsBinding DEF Labels
<1>4. /\ d \in Calls /\ d.at = "write" /\ d.receipt = c.receipt
      /\ d.first = c.first /\ d.runs = c.runs /\ d.answer = c.answer
    BY <1>1 DEF CallInv, Calls, Labels
<1> HIDE DEF d
<1>5. CallOK(d)
    BY <1>1, <1>2, <1>4 DEF CallInv, CallOK, Labels
<1>6. WorkersOK(d, w)
    BY <1>1, <1>2, <1>4 DEF CallInv, WorkersOK
<1>7. treeEdits = 0 => FreshCall(d, w, tree, main, mainEdits)
    BY <1>1, <1>2, <1>4 DEF CallInv, FreshCall, Labels
<1>8. CallInv(d, w, tree, main, treeEdits, mainEdits)
    BY <1>1, <1>4, <1>5, <1>6, <1>7 DEF CallInv, CountOK
<1>9. CacheKey(d.first, d.runs) = key
    BY <1>4
<1> HIDE DEF key
<1>10. /\ cache \in [Bindings -> Bindings \cup {Absent, Torn}]
       /\ cache' \in [Bindings -> Bindings \cup {Absent, Torn}]
       /\ cache'[key] = Torn /\ \A k \in Bindings \ {key} : cache'[k] = cache[k]
    BY <1>2, <1>3 DEF ReplayInv, FilesInv
<1>11. /\ DOMAIN call' = Qualifier /\ call' = [r \in Qualifier |-> call'[r]]
       /\ DOMAIN worker' = Qualifier /\ worker' = [r \in Qualifier |-> worker'[r]]
       /\ call'[q] = d /\ worker' = worker
       /\ \A r \in Qualifier \ {q} : call'[r] = call[r]
    BY <1>2 DEF ReplayInv
<1>12. ASSUME NEW r \in Qualifier
       PROVE  Here(r)'
    <2>1. CASE r = q
        BY <1>2, <1>4, <1>8, <1>11, <2>1 DEF Here, HasFile
    <2>2. CASE r # q
        <3>1. /\ Here(r)
              /\ call'[r] = call[r]
            BY <1>11, <2>2 DEF ReplayInv
        <3>2. call[r].at = "load" => CacheKey(call[r].first, call[r].runs) \in Bindings
            BY <3>1, KeyIsBinding DEF Labels, Here
        <3>3. HasFile(call[r], cache)'
            BY <3>1, <3>2, <1>10, CallsAssumption DEF Here, HasFile
        <3> QED BY <1>2, <3>1, <3>3 DEF Here
    <2> QED BY <2>1, <2>2
<1>13. FilesInv'
    <2>1. treeEdits' = 0 /\ mainEdits' = 0 =>
              \A k \in Bindings : cache'[k] \in {Absent, Torn, k}
        BY <1>2, <1>10 DEF ReplayInv, FilesInv
    <2>2. ASSUME NEW k \in Bindings, cache'[k] \notin {Absent, Torn}
          PROVE  Explained(cache'[k], treeEdits')
        BY <1>2, <1>10, <2>2 DEF ReplayInv, FilesInv
    <2> QED BY <1>10, <2>1, <2>2 DEF FilesInv
<1>14. TornInv'
    <2> SUFFICES ASSUME kills' = 0, NEW k \in Bindings, cache'[k] = Torn
                 PROVE  \E r \in Qualifier :
                           call'[r].at = "write" /\ CacheKey(call'[r].first, call'[r].runs) = k
        BY DEF TornInv, ScriptAt
    <2>1. CASE k = key
        BY <1>4, <1>9, <1>11, <2>1
    <2>2. CASE k # key
        <3>1. PICK r \in Qualifier :
                  call[r].at = "write" /\ CacheKey(call[r].first, call[r].runs) = k
            BY <1>2, <1>10, <2>2 DEF ReplayInv, TornInv, ScriptAt
        <3>2. r # q
            BY <3>1, <1>2
        <3> QED BY <3>1, <3>2, <1>11
    <2> QED BY <2>1, <2>2
<1> QED BY <1>2, <1>11, <1>12, <1>13, <1>14, Zenon DEF ReplayInv

(* What ends the call that writes. *)
LEMMA WriterEnds ==
    ASSUME ReplayInv, NEW q \in Qualifier, call[q].at = "write",
           NEW how \in {"none", "fresh_qualification"},
           NEW receipt \in {Absent, call[q].receipt}, Answer(q, how, receipt),
           UNCHANGED <<tree, main, treeEdits, mainEdits>>,
           \A k \in Bindings : cache[k] # Absent => cache'[k] # Absent
    PROVE  /\ DOMAIN call' = Qualifier /\ call' = [r \in Qualifier |-> call'[r]]
           /\ DOMAIN worker' = Qualifier /\ worker' = [r \in Qualifier |-> worker'[r]]
           /\ \A r \in Qualifier \ {q} : call'[r] = call[r]
           /\ \A r \in Qualifier :
                 Here(r)'
<1> DEFINE c == call[q]
           d == [c EXCEPT !.at = "ended", !.lock = Absent, !.answer = how,
                          !.receipt = receipt]
<1>1. CallInv(c, worker[q], tree, main, treeEdits, mainEdits) /\ c \in Calls
    BY InvOf DEF CallInv
<1>2. c.receipt \in Bindings /\ (c.receipt # Absent => Explained(c.receipt, treeEdits))
    BY <1>1 DEF CallInv, CallOK
<1>3. CallInv(d, AllQueued, tree, main, treeEdits, mainEdits)
    BY <1>1, <1>2, CallEnds
<1>4. call' = [call EXCEPT ![q] = d] /\ worker' = [worker EXCEPT ![q] = AllQueued]
    BY Zenon DEF Answer, AllQueued
<1>5. d.at = "ended"
    BY <1>1 DEF Calls
<1> HIDE DEF d
<1>6. /\ DOMAIN call' = Qualifier /\ call' = [r \in Qualifier |-> call'[r]]
      /\ DOMAIN worker' = Qualifier /\ worker' = [r \in Qualifier |-> worker'[r]]
      /\ call'[q] = d /\ worker'[q] = AllQueued
      /\ \A r \in Qualifier \ {q} : call'[r] = call[r] /\ worker'[r] = worker[r]
    BY <1>4 DEF ReplayInv
<1>7. ASSUME NEW r \in Qualifier
      PROVE  Here(r)'
    <2>1. CASE r = q
        BY <1>3, <1>5, <1>6, <2>1 DEF Here, HasFile
    <2>2. CASE r # q
        <3>1. /\ Here(r)
              /\ call'[r] = call[r] /\ worker'[r] = worker[r]
            BY <1>6, <2>2 DEF ReplayInv
        <3>2. call[r].at = "load" => CacheKey(call[r].first, call[r].runs) \in Bindings
            BY <3>1, KeyIsBinding DEF Labels, Here
        <3>3. HasFile(call[r], cache)'
            BY <3>1, <3>2 DEF Here, HasFile
        <3> QED BY <3>1, <3>3 DEF Here
    <2> QED BY <2>1, <2>2
<1> QED BY <1>6, <1>7

LEMMA WriteCacheStep ==
    ASSUME ReplayInv, NEW q \in Qualifier, WriteCache(q)
    PROVE  ReplayInv'
<1> DEFINE c == call[q]
           key == CacheKey(c.first, c.runs)
           receipt == c.receipt
<1>1. CallInv(c, worker[q], tree, main, treeEdits, mainEdits)
    BY InvOf
<1>2. /\ c.at = "write" /\ cache' = [cache EXCEPT ![key] = receipt]
      /\ Answer(q, "fresh_qualification", receipt)
      /\ UNCHANGED <<tree, main, treeEdits, mainEdits, kills>>
    BY Zenon DEF WriteCache, ScriptAt
<1>3. /\ key \in Bindings /\ key = Binding(c.first, c.runs)
      /\ receipt \in Bindings /\ receipt \notin {Absent, Torn}
      /\ Explained(receipt, treeEdits)
    BY <1>1, <1>2, KeyIsBinding, CallsAssumption DEF CallInv, CallOK, Labels
<1>4. treeEdits = 0 /\ mainEdits = 0 => receipt = key
    BY <1>1, <1>2, <1>3 DEF CallInv, FreshCall, Labels
<1>5. \A r \in Qualifier : r # q /\ call[r].at = "write" => call'[r] = call[r]
    BY <1>2, Zenon DEF Answer, ReplayInv
<1> HIDE DEF key, receipt
<1>6. /\ cache \in [Bindings -> Bindings \cup {Absent, Torn}]
      /\ cache' \in [Bindings -> Bindings \cup {Absent, Torn}]
      /\ cache'[key] = receipt /\ \A k \in Bindings \ {key} : cache'[k] = cache[k]
    BY <1>2, <1>3 DEF ReplayInv, FilesInv
<1>7. \A k \in Bindings : cache[k] # Absent => cache'[k] # Absent
    BY <1>3, <1>6
<1>8. /\ DOMAIN call' = Qualifier /\ call' = [r \in Qualifier |-> call'[r]]
      /\ DOMAIN worker' = Qualifier /\ worker' = [r \in Qualifier |-> worker'[r]]
      /\ \A r \in Qualifier \ {q} : call'[r] = call[r]
      /\ \A r \in Qualifier :
            Here(r)'
    BY <1>2, <1>7, WriterEnds DEF receipt
<1>9. FilesInv'
    <2>1. treeEdits' = 0 /\ mainEdits' = 0 =>
              \A k \in Bindings : cache'[k] \in {Absent, Torn, k}
        BY <1>2, <1>4, <1>6 DEF ReplayInv, FilesInv
    <2>2. ASSUME NEW k \in Bindings, cache'[k] \notin {Absent, Torn}
          PROVE  Explained(cache'[k], treeEdits')
        <3>1. CASE k = key
            BY <1>2, <1>3, <1>6, <3>1
        <3>2. CASE k # key
            BY <1>2, <1>6, <2>2, <3>2 DEF ReplayInv, FilesInv
        <3> QED BY <3>1, <3>2
    <2> QED BY <1>6, <2>1, <2>2 DEF FilesInv
<1>10. TornInv'
    <2> SUFFICES ASSUME kills' = 0, NEW k \in Bindings, cache'[k] = Torn
                 PROVE  \E r \in Qualifier :
                           call'[r].at = "write" /\ CacheKey(call'[r].first, call'[r].runs) = k
        BY DEF TornInv, ScriptAt
    <2>1. k # key
        BY <1>3, <1>6
    <2>2. PICK r \in Qualifier :
              call[r].at = "write" /\ CacheKey(call[r].first, call[r].runs) = k
        BY <1>2, <1>6, <2>1 DEF ReplayInv, TornInv, ScriptAt
    <2>3. r # q
        BY <2>1, <2>2 DEF key
    <2> QED BY <1>8, <2>2, <2>3
<1> QED BY <1>2, <1>8, <1>9, <1>10, Zenon DEF ReplayInv

LEMMA KillStep ==
    ASSUME ReplayInv, NEW q \in Qualifier, Kill(q)
    PROVE  ReplayInv'
<1>1. /\ call[q].at = "write" /\ Answer(q, "none", Absent) /\ kills' = kills + 1
      /\ UNCHANGED <<tree, main, treeEdits, mainEdits, cache>>
    BY Zenon DEF Kill, ScriptAt
<1>2. /\ DOMAIN call' = Qualifier /\ call' = [r \in Qualifier |-> call'[r]]
      /\ DOMAIN worker' = Qualifier /\ worker' = [r \in Qualifier |-> worker'[r]]
      /\ \A r \in Qualifier :
            Here(r)'
    BY <1>1, WriterEnds
<1>3. FilesInv'
    BY <1>1 DEF ReplayInv, FilesInv
<1>4. kills \in Nat /\ kills' \in Nat /\ kills' # 0
    BY <1>1 DEF ReplayInv
<1>5. TornInv'
    BY <1>4 DEF TornInv
<1>6. /\ tree' \in Version /\ main' \in Main
      /\ treeEdits' \in Nat /\ mainEdits' \in Nat
    BY <1>1 DEF ReplayInv
<1> QED BY <1>2, <1>3, <1>4, <1>5, <1>6, Zenon DEF ReplayInv

LEMMA EditTreeStep ==
    ASSUME ReplayInv, EditTree
    PROVE  ReplayInv'
<1>1. /\ tree' \in Version /\ tree' # tree /\ treeEdits' = treeEdits + 1
      /\ UNCHANGED <<main, mainEdits, call, worker, cache, kills>>
    BY DEF EditTree
<1>2. treeEdits \in Nat /\ treeEdits' \in Nat /\ treeEdits' # 0
    BY <1>1 DEF ReplayInv
<1>3. ASSUME NEW r \in Qualifier
      PROVE  Here(r)'
    <2>1. /\ CallInv(call[r], worker[r], tree, main, treeEdits, mainEdits)
          /\ HasFile(call[r], cache)
        BY InvOf
    <2>2. CallInv(call[r], worker[r], tree', main, treeEdits + 1, mainEdits)
        BY <1>1, <1>2, <2>1, EditKeepsCall
    <2> QED BY <1>1, <2>1, <2>2 DEF Here
<1>4. FilesInv'
    <2> SUFFICES ASSUME NEW k \in Bindings, cache[k] \notin {Absent, Torn}
                 PROVE  Explained(cache[k], treeEdits + 1)
        BY <1>1, <1>2 DEF ReplayInv, FilesInv
    <2> DEFINE n == Rounds(cache[k].runs)
    <2>1. Explained(cache[k], treeEdits) /\ cache[k] \in Bindings
        BY DEF ReplayInv, FilesInv
    <2>2. n \in Int
        <3>1. cache[k].runs \in Nat
            BY <2>1, CallsAssumption DEF Bindings
        <3> QED BY <3>1, CallsAssumption DEF Rounds
    <2>3. cache[k].env # cache[k].code => treeEdits >= 2 * n
        BY <2>1 DEF Explained
    <2> HIDE DEF n
    <2>4. cache[k].env # cache[k].code => treeEdits + 1 >= 2 * n
        BY <2>2, <2>3, <1>2
    <2> QED BY <2>4 DEF Explained, n
<1>5. TornInv'
    BY <1>1, Zenon DEF ReplayInv, TornInv, ScriptAt
<1>6. /\ DOMAIN call' = Qualifier /\ call' = [r \in Qualifier |-> call'[r]]
      /\ DOMAIN worker' = Qualifier /\ worker' = [r \in Qualifier |-> worker'[r]]
      /\ main' \in Main /\ mainEdits' \in Nat /\ kills' \in Nat
    BY <1>1 DEF ReplayInv
<1> QED BY <1>1, <1>2, <1>3, <1>4, <1>5, <1>6, Zenon DEF ReplayInv

(* The worker's file is in no environment: only what is fresh depends on   *)
(* its version.                                                            *)
LEMMA EditMainStep ==
    ASSUME ReplayInv, EditMain
    PROVE  ReplayInv'
<1>1. /\ main' \in Main /\ mainEdits' = mainEdits + 1
      /\ UNCHANGED <<tree, treeEdits, call, worker, cache, kills>>
    BY DEF EditMain
<1>2. mainEdits \in Nat /\ mainEdits' \in Nat /\ mainEdits' # 0
    BY <1>1 DEF ReplayInv
<1>3. ASSUME NEW r \in Qualifier PROVE Here(r)'
    <2> DEFINE c == call[r]
               w == worker[r]
    <2>1. CallInv(c, w, tree, main, treeEdits, mainEdits) /\ HasFile(c, cache)
        BY InvOf
    <2>2. treeEdits = 0 => FreshCall(c, w, tree, main', mainEdits')
        BY <1>2, <2>1 DEF CallInv, FreshCall
    <2>3. CallInv(c, w, tree, main', treeEdits, mainEdits')
        BY <2>1, <2>2 DEF CallInv
    <2> HIDE DEF c, w
    <2>4. UNCHANGED <<tree, treeEdits, c, w, cache>>
        BY <1>1 DEF c, w
    <2>5. (CallInv(c, w, tree, main, treeEdits, mainEdits) /\ HasFile(c, cache))'
        BY <2>1, <2>3, <2>4
    <2> QED BY <2>5 DEF Here, c, w
<1>4. FilesInv'
    BY <1>1, <1>2 DEF ReplayInv, FilesInv
<1>5. TornInv'
    BY <1>1, Zenon DEF ReplayInv, TornInv, ScriptAt
<1>6. /\ DOMAIN call' = Qualifier /\ call' = [q \in Qualifier |-> call'[q]]
      /\ DOMAIN worker' = Qualifier /\ worker' = [q \in Qualifier |-> worker'[q]]
      /\ tree' \in Version /\ treeEdits' \in Nat /\ kills' \in Nat
    BY <1>1 DEF ReplayInv
<1> QED BY <1>1, <1>2, <1>3, <1>4, <1>5, <1>6, Zenon DEF ReplayInv

-----------------------------------------------------------------------------
LEMMA ReplayInitInv == ReplayInit => ReplayInv
<1> SUFFICES ASSUME ReplayInit PROVE ReplayInv
    OBVIOUS
<1>1. /\ tree \in Version /\ main \in Main
      /\ treeEdits = 0 /\ mainEdits = 0 /\ kills = 0
      /\ call = [q \in Qualifier |-> NotStarted] /\ worker = [q \in Qualifier |-> AllQueued]
      /\ cache = [k \in Bindings |-> Absent]
    BY Zenon DEF ReplayInit, AllQueued
<1>2. /\ NotStarted \in Calls /\ NotStarted.at = "idle" /\ NotStarted.answer = "none"
      /\ NotStarted.receipt = Absent
    BY DEF NotStarted, Calls, Labels, NotObserved, Seens
<1>3. CallOK(NotStarted)
    BY <1>2 DEF CallOK
<1>4. CallInv(NotStarted, AllQueued, tree, main, treeEdits, mainEdits)
    BY <1>2, <1>3, QueuedIsQuiet, QuietCall
<1>5. HasFile(NotStarted, cache)
    BY <1>2 DEF HasFile
<1>6. FilesInv /\ TornInv
    BY <1>1, CallsAssumption DEF FilesInv, TornInv
<1> QED BY <1>1, <1>4, <1>5, <1>6 DEF ReplayInv, Here

LEMMA ReplayNextInv == ReplayInv /\ [ReplayNext]_replayVars => ReplayInv'
<1> SUFFICES ASSUME ReplayInv, [ReplayNext]_replayVars PROVE ReplayInv'
    OBVIOUS
<1>1. CASE UNCHANGED replayVars
    BY <1>1, Zenon DEF replayVars, ReplayInv, Here, FilesInv, TornInv, ScriptAt
<1>2. CASE EditTree \/ EditMain
    BY <1>2, EditTreeStep, EditMainStep
<1>3. ASSUME NEW q \in Qualifier, \E n \in RunCounts : Start(q, n)
      PROVE  ReplayInv'
    BY <1>3, BeginStep
<1>4. ASSUME NEW q \in Qualifier, NEW i \in Ordinals,
             Launch(q, i) \/ Observe(q, i) \/ WorkerFails(q, i)
      PROVE  ReplayInv'
    BY <1>4, LaunchStep, ObserveStep, WorkerFailsStep
<1>5. ASSUME NEW q \in Qualifier,
             \/ Preflight(q) \/ Lookup(q) \/ LoadCache(q) \/ Collect(q) \/ Probed(q)
             \/ OpenCache(q) \/ WriteCache(q) \/ Kill(q)
      PROVE  ReplayInv'
    BY <1>5, PreflightStep, LookupStep, LoadCacheStep, CollectStep, ProbedStep,
       OpenCacheStep, WriteCacheStep, KillStep
<1> QED BY <1>1, <1>2, <1>3, <1>4, <1>5, Zenon DEF ReplayNext

(* What holds at first and after every step holds always.                  *)
LEMMA ReplayInvariance == ReplaySpec => []ReplayInv
<1> QED BY ReplayInitInv, ReplayNextInv, PTL DEF ReplaySpec

(* qualify_fresh_process_replay: a receipt that credits an environment     *)
(* with the results of other modules than it names has taken two edits of  *)
(* the tree for every round of its pool, however many runs and threads     *)
(* there are and however the worker's own file is edited meanwhile.        *)
THEOREM MisreportsTakeEdits == ReplaySpec => []MisreportTakesEdits
<1>1. ReplayInv => MisreportTakesEdits
    <2> SUFFICES ASSUME ReplayInv, NEW r \in Receipts \ {Absent, Torn}
                 PROVE  Explained(r, treeEdits)
        BY DEF MisreportTakesEdits, Explained
    <2>1. CASE \E k \in Bindings : r = cache[k]
        BY <2>1 DEF ReplayInv, FilesInv
    <2>2. CASE \E q \in Qualifier : r = call[q].receipt
        BY <2>2, InvOf DEF CallInv
    <2> QED BY <2>1, <2>2 DEF Receipts
<1> QED BY <1>1, ReplayInvariance, PTL

-----------------------------------------------------------------------------
(* The file of a key that nobody qualifies for.                            *)

Qualifying == {"lock", "pool", "probe", "open", "write"}

(* It stays so while a call moves that does not begin to qualify for it. *)
LEMMA StaysSettled ==
    ASSUME ReplayInv, NEW k \in Bindings, Settled(k), cache'[k] = cache[k],
           NEW q \in Qualifier, NEW d, call' = [call EXCEPT ![q] = d],
           d.at \in Qualifying => CacheKey(d.first, d.runs) # k
    PROVE  Settled(k)'
<1>1. call'[q] = d /\ \A r \in Qualifier \ {q} : call'[r] = call[r]
    BY InvOf
<1>2. ASSUME NEW r \in Qualifier PROVE ~Qualifies(r, k)'
    <2>1. CASE r = q
        BY <1>1, <2>1 DEF Qualifies, Qualifying
    <2>2. CASE r # q
        BY <1>1, <2>2 DEF Qualifies, Settled
    <2> QED BY <2>1, <2>2
<1> QED BY <1>2 DEF Settled

LEMMA AnswerLeavesFiles ==
    ASSUME ReplayInv, NEW k \in Bindings, Settled(k), cache'[k] = cache[k],
           NEW q \in Qualifier, NEW how, NEW receipt, Answer(q, how, receipt)
    PROVE  Settled(k)'
<1> DEFINE d == [call[q] EXCEPT !.at = "ended", !.lock = Absent, !.answer = how,
                                !.receipt = receipt]
<1>1. call' = [call EXCEPT ![q] = d]
    BY Zenon DEF Answer
<1>2. d.at = "ended"
    BY InvOf DEF CallInv, Calls
<1> HIDE DEF d
<1> QED BY <1>1, <1>2, StaysSettled DEF Qualifying

(* A call that goes on with the question it had. *)
LEMMA CallGoesOn ==
    ASSUME ReplayInv, NEW k \in Bindings, Settled(k), cache'[k] = cache[k],
           NEW q \in Qualifier, call[q].at \in Qualifying, NEW d,
           d.first = call[q].first, d.runs = call[q].runs,
           call' = [call EXCEPT ![q] = d]
    PROVE  Settled(k)'
<1>1. CacheKey(call[q].first, call[q].runs) # k
    BY DEF Settled, Qualifies, Qualifying
<1> QED BY <1>1, StaysSettled

LEMMA PreflightKeepsSettled ==
    ASSUME ReplayInv, NEW k \in Bindings, Settled(k), NEW q \in Qualifier, Preflight(q)
    PROVE  cache'[k] = cache[k] /\ Settled(k)'
<1> DEFINE c == call[q]
           seen == worker[q][0].seen
<1>1. c \in Calls
    BY InvOf DEF CallInv
<1>2. UNCHANGED cache
    BY Zenon DEF Preflight
<1>3. CASE Answer(q, "raised", Absent)
    BY <1>2, <1>3, AnswerLeavesFiles
<1>4. CASE ScriptAt(q, "first") /\ call' = [call EXCEPT ![q].at = "lookup", ![q].first = seen]
    <2> DEFINE d == [c EXCEPT !.at = "lookup", !.first = seen]
    <2>1. call' = [call EXCEPT ![q] = d] /\ d.at = "lookup"
        BY <1>1, <1>4 DEF Calls
    <2> HIDE DEF d
    <2> QED BY <1>2, <2>1, StaysSettled DEF Qualifying
<1>5. CASE ScriptAt(q, "lock") /\ call' = [call EXCEPT ![q].at = "pool", ![q].lock = seen.env]
    <2> DEFINE d == [c EXCEPT !.at = "pool", !.lock = seen.env]
    <2>1. /\ call' = [call EXCEPT ![q] = d]
          /\ d.first = c.first /\ d.runs = c.runs /\ c.at \in Qualifying
        BY <1>1, <1>5 DEF Calls, ScriptAt, Qualifying
    <2> HIDE DEF d
    <2> QED BY <1>2, <2>1, CallGoesOn
<1> QED BY <1>3, <1>4, <1>5, Zenon DEF Preflight

(* The lookup lets only those qualify who find no file. *)
LEMMA LookupKeepsSettled ==
    ASSUME ReplayInv, NEW k \in Bindings, Settled(k), NEW q \in Qualifier, Lookup(q)
    PROVE  cache'[k] = cache[k] /\ Settled(k)'
<1> DEFINE c == call[q]
<1>1. c \in Calls
    BY InvOf DEF CallInv
<1>2. UNCHANGED cache
    BY Zenon DEF Lookup
<1>3. CASE Answer(q, "raised", Absent)
    BY <1>2, <1>3, AnswerLeavesFiles
<1>4. CASE ScriptTo(q, "load")
    <2> DEFINE d == [c EXCEPT !.at = "load"]
    <2>1. call' = [call EXCEPT ![q] = d] /\ d.at = "load"
        BY <1>1, <1>4 DEF Calls, ScriptTo
    <2> HIDE DEF d
    <2> QED BY <1>2, <2>1, StaysSettled DEF Qualifying
<1>5. CASE File(q) = Absent /\ ScriptTo(q, "lock")
    <2> DEFINE d == [c EXCEPT !.at = "lock"]
    <2>1. /\ call' = [call EXCEPT ![q] = d]
          /\ d.first = c.first /\ d.runs = c.runs
        BY <1>1, <1>5 DEF Calls, ScriptTo
    <2>2. CacheKey(c.first, c.runs) # k
        BY <1>5 DEF File, Settled
    <2> HIDE DEF d
    <2> QED BY <1>2, <2>1, <2>2, StaysSettled
<1> QED BY <1>3, <1>4, <1>5, ZenonT(60) DEF Lookup

LEMMA CollectKeepsSettled ==
    ASSUME ReplayInv, NEW k \in Bindings, Settled(k), NEW q \in Qualifier,
           Collect(q) \/ Probed(q)
    PROVE  cache'[k] = cache[k] /\ Settled(k)'
<1> DEFINE c == call[q]
<1>1. c \in Calls /\ UNCHANGED cache /\ c.at \in Qualifying
    BY InvOf, Zenon DEF CallInv, Collect, Probed, ScriptAt, Qualifying
<1>2. CASE Answer(q, "raised", Absent)
    BY <1>1, <1>2, AnswerLeavesFiles
<1>3. ASSUME NEW receipt, NEW ran,
             call' = [call EXCEPT ![q].at = "probe", ![q].receipt = receipt,
                                  ![q].ran = ran]
      PROVE  Settled(k)'
    <2> DEFINE d == [c EXCEPT !.at = "probe", !.receipt = receipt, !.ran = ran]
    <2>1. /\ call' = [call EXCEPT ![q] = d]
          /\ d.first = c.first /\ d.runs = c.runs
        BY <1>1, <1>3 DEF Calls
    <2> HIDE DEF d
    <2> QED BY <1>1, <2>1, CallGoesOn
<1>4. CASE ScriptTo(q, "open")
    <2> DEFINE d == [c EXCEPT !.at = "open"]
    <2>1. /\ call' = [call EXCEPT ![q] = d]
          /\ d.first = c.first /\ d.runs = c.runs
        BY <1>1, <1>4 DEF Calls, ScriptTo
    <2> HIDE DEF d
    <2> QED BY <1>1, <2>1, CallGoesOn
<1>5. CASE Collect(q)
    BY <1>1, <1>2, <1>3, <1>5, Zenon DEF Collect
<1>6. CASE Probed(q)
    BY <1>1, <1>2, <1>4, <1>6, Zenon DEF Probed
<1> QED BY <1>5, <1>6

(* A writer's file is not settled. *)
LEMMA WriterKeepsSettled ==
    ASSUME ReplayInv, NEW k \in Bindings, Settled(k), NEW q \in Qualifier,
           OpenCache(q) \/ WriteCache(q) \/ Kill(q)
    PROVE  cache'[k] = cache[k] /\ Settled(k)'
<1> DEFINE c == call[q]
           key == CacheKey(c.first, c.runs)
           d == [c EXCEPT !.at = "write"]
<1>1. c \in Calls /\ c.at \in Qualifying
    BY InvOf, Zenon DEF CallInv, OpenCache, WriteCache, Kill, ScriptAt, Qualifying
<1>2. key # k
    BY <1>1 DEF Settled, Qualifies, Qualifying
<1> HIDE DEF key
<1>3. DOMAIN cache = Bindings
    BY DEF ReplayInv, FilesInv
<1>4. CASE OpenCache(q)
    <2>1. cache' = [cache EXCEPT ![key] = Torn] /\ call' = [call EXCEPT ![q] = d]
        BY <1>4, Zenon DEF OpenCache, ScriptTo, key
    <2>2. d.first = c.first /\ d.runs = c.runs
        BY <1>1 DEF Calls
    <2> HIDE DEF d
    <2>3. cache'[k] = cache[k]
        BY <1>2, <1>3, <2>1
    <2> QED BY <1>1, <2>1, <2>2, <2>3, CallGoesOn
<1>5. CASE WriteCache(q)
    <2>1. /\ cache' = [cache EXCEPT ![key] = c.receipt]
          /\ Answer(q, "fresh_qualification", c.receipt)
        BY <1>5, Zenon DEF WriteCache, key
    <2>2. cache'[k] = cache[k]
        BY <1>2, <1>3, <2>1
    <2> QED BY <2>1, <2>2, AnswerLeavesFiles
<1>6. CASE Kill(q)
    <2>1. UNCHANGED cache /\ Answer(q, "none", Absent)
        BY <1>6, Zenon DEF Kill
    <2> QED BY <2>1, AnswerLeavesFiles
<1> QED BY <1>4, <1>5, <1>6

(* load_or_qualify: once nobody is left who found no file under a key, the *)
(* file under it is never written again, for all scripts, edits and kills. *)
THEOREM SettledFilesStay == ReplaySpec => SettledFilesAreFinal
<1>1. ReplayInv /\ [ReplayNext]_replayVars =>
          [\A k \in Bindings : Settled(k) => cache'[k] = cache[k] /\ Settled(k)']_replayVars
    <2> SUFFICES ASSUME ReplayInv, ReplayNext, NEW k \in Bindings, Settled(k)
                 PROVE  cache'[k] = cache[k] /\ Settled(k)'
        BY Zenon
    <2>1. ASSUME UNCHANGED <<call, cache>> PROVE cache'[k] = cache[k] /\ Settled(k)'
        BY <2>1 DEF Settled, Qualifies
    <2>2. CASE EditTree \/ EditMain
        BY <2>1, <2>2 DEF EditTree, EditMain
    <2>3. ASSUME NEW q \in Qualifier, NEW i \in Ordinals,
                 Launch(q, i) \/ Observe(q, i) \/ WorkerFails(q, i)
          PROVE  cache'[k] = cache[k] /\ Settled(k)'
        BY <2>1, <2>3 DEF Launch, Observe, WorkerFails
    <2>4. ASSUME NEW q \in Qualifier, NEW n \in RunCounts, Start(q, n)
          PROVE  cache'[k] = cache[k] /\ Settled(k)'
        <3> DEFINE d == [NotStarted EXCEPT !.at = "first", !.runs = n]
        <3>1. UNCHANGED cache /\ call' = [call EXCEPT ![q] = d] /\ d.at = "first"
            BY <2>4 DEF Start, NotStarted
        <3> HIDE DEF d
        <3> QED BY <3>1, StaysSettled DEF Qualifying
    <2>5. ASSUME NEW q \in Qualifier, LoadCache(q)
          PROVE  cache'[k] = cache[k] /\ Settled(k)'
        <3>1. /\ UNCHANGED cache
              /\ \/ Answer(q, "cache_hit", File(q)) \/ Answer(q, "refused", Absent)
            BY <2>5, Zenon DEF LoadCache
        <3> QED BY <3>1, AnswerLeavesFiles
    <2> QED BY <2>2, <2>3, <2>4, <2>5, PreflightKeepsSettled, LookupKeepsSettled,
               CollectKeepsSettled, WriterKeepsSettled, Zenon DEF ReplayNext
<1> QED BY <1>1, ReplayInvariance, PTL DEF ReplaySpec, SettledFilesAreFinal

-----------------------------------------------------------------------------
(* Only _validate_cached_receipt refuses. *)
LEMMA OnlyLoadCacheRefuses ==
    ASSUME ReplayInv, ReplayNext, NEW q \in Qualifier, ScriptAt(q, "load"),
           call'[q].answer = "refused"
    PROVE  LoadCache(q)
<1> DEFINE c == call[q]
<1>1. c \in Calls /\ c.at = "load" /\ c.answer = "none"
    BY InvOf DEF CallInv, CallOK, ScriptAt
<1>2. \A r \in Qualifier : call[r] \in Calls
    BY InvOf DEF CallInv
<1>3. DOMAIN call = Qualifier
    BY DEF ReplayInv
<1>4. ASSUME NEW r \in Qualifier, r # q, NEW d, call' = [call EXCEPT ![r] = d]
      PROVE  FALSE
    BY <1>1, <1>3, <1>4
<1>5. ASSUME UNCHANGED call PROVE FALSE
    BY <1>1, <1>5
<1>6. ASSUME NEW r \in Qualifier, r # q, NEW how, NEW receipt, Answer(r, how, receipt)
      PROVE  FALSE
    BY <1>4, <1>6, Zenon DEF Answer
<1>7. ~EditTree /\ ~EditMain
    BY <1>5 DEF EditTree, EditMain
<1>8. ASSUME NEW r \in Qualifier, NEW n \in RunCounts, Start(r, n) PROVE FALSE
    <2>1. r # q
        BY <1>1, <1>8 DEF Start, ScriptAt
    <2> QED BY <2>1, <1>4, <1>8, Zenon DEF Start
<1>9. ASSUME NEW r \in Qualifier, NEW i \in Ordinals,
             Launch(r, i) \/ Observe(r, i) \/ WorkerFails(r, i)
      PROVE  FALSE
    BY <1>5, <1>9 DEF Launch, Observe, WorkerFails
<1>10. ASSUME NEW r \in Qualifier, LoadCache(r), r # q PROVE FALSE
    BY <1>6, <1>10 DEF LoadCache
<1>11. ASSUME NEW r \in Qualifier, Lookup(r) PROVE FALSE
    <2>1. r # q
        BY <1>1, <1>11 DEF Lookup, ScriptAt
    <2>2. CASE Answer(r, "raised", Absent)
        BY <2>1, <2>2, <1>6
    <2>3. CASE \E label : ScriptTo(r, label)
        BY <2>1, <2>3, <1>4, Zenon DEF ScriptTo
    <2> QED BY <1>11, <2>2, <2>3, Zenon DEF Lookup
<1>12. ASSUME NEW r \in Qualifier, Preflight(r) PROVE FALSE
    <2>1. r # q
        <3>1. 0 \in Ordinals
            BY OrdinalsAre
        <3>2. worker[q][0].state = "queued"
            BY <1>1, <3>1, InvOf DEF CallInv, WorkersOK
        <3> QED BY <3>2, <1>12 DEF Preflight, State
    <2>2. CASE Answer(r, "raised", Absent)
        BY <2>1, <2>2, <1>6
    <2>3. CASE \E label, seen : call' = [call EXCEPT ![r].at = label, ![r].first = seen]
        BY <1>1, <1>3, <2>1, <2>3
    <2>4. CASE \E label, env : call' = [call EXCEPT ![r].at = label, ![r].lock = env]
        BY <1>1, <1>3, <2>1, <2>4
    <2> QED BY <1>12, <2>2, <2>3, <2>4, Zenon DEF Preflight
<1>13. ASSUME NEW r \in Qualifier, Collect(r) PROVE FALSE
    <2>1. r # q
        BY <1>1, <1>13 DEF Collect, ScriptAt
    <2>2. CASE Answer(r, "raised", Absent)
        BY <2>1, <2>2, <1>6
    <2> DEFINE receipt == Issued(r)
               ran == {worker[r][i].seen.main : i \in 1..call[r].runs}
    <2>3. call' # [call EXCEPT ![r].at = "probe", ![r].receipt = receipt, ![r].ran = ran]
        <3> HIDE DEF receipt, ran
        <3> QED BY <1>1, <1>3, <2>1
    <2> QED BY <1>13, <2>2, <2>3, Zenon DEF Collect
<1>14. ASSUME NEW r \in Qualifier, Probed(r) PROVE FALSE
    <2>1. r # q
        BY <1>1, <1>14 DEF Probed, ScriptAt
    <2>2. CASE Answer(r, "raised", Absent)
        BY <2>1, <2>2, <1>6
    <2>3. CASE ScriptTo(r, "open")
        BY <2>1, <2>3, <1>4, Zenon DEF ScriptTo
    <2> QED BY <1>14, <2>2, <2>3 DEF Probed
<1>15. ASSUME NEW r \in Qualifier, OpenCache(r) \/ WriteCache(r) \/ Kill(r) PROVE FALSE
    <2>1. r # q
        BY <1>1, <1>15 DEF OpenCache, WriteCache, Kill, ScriptAt
    <2>2. \/ ScriptTo(r, "write") \/ Answer(r, "fresh_qualification", call[r].receipt)
          \/ Answer(r, "none", Absent)
        BY <1>15, Zenon DEF OpenCache, WriteCache, Kill
    <2> QED BY <2>1, <2>2, <1>4, <1>6, Zenon DEF ScriptTo
<1> QED BY <1>7, <1>8, <1>9, <1>10, <1>11, <1>12, <1>13, <1>14, <1>15 DEF ReplayNext

(* load_or_qualify: as long as the tree is not edited and nobody dies      *)
(* while writing, the cache turns a caller away over a half-written file   *)
(* only, and never over one that was written.                              *)
THEOREM RefusalsTakeEdits == ReplaySpec => RefusalTakesEdits
<1>1. ReplayInv /\ [ReplayNext]_replayVars =>
          [\A q \in Qualifier :
              ScriptAt(q, "load") /\ call'[q].answer = "refused" =>
                  \/ treeEdits > 0 \/ mainEdits > 0
                  \/ kills > 0
                  \/ \E d \in Qualifier \ {q} : ScriptAt(d, "write")]_replayVars
    <2> SUFFICES ASSUME ReplayInv, ReplayNext, NEW q \in Qualifier, ScriptAt(q, "load"),
                        call'[q].answer = "refused", ~(treeEdits > 0 \/ mainEdits > 0),
                        ~(kills > 0)
                 PROVE  \E d \in Qualifier \ {q} : ScriptAt(d, "write")
        BY Zenon
    <2> DEFINE c == call[q]
               key == CacheKey(c.first, c.runs)
    <2>1. treeEdits = 0 /\ mainEdits = 0 /\ kills = 0
        BY DEF ReplayInv
    <2>2. LoadCache(q)
        BY OnlyLoadCacheRefuses
    <2>3. /\ CallInv(c, worker[q], tree, main, treeEdits, mainEdits)
          /\ HasFile(c, cache) /\ c.at = "load"
        BY InvOf DEF ScriptAt
    <2>4. /\ key \in Bindings /\ key = Binding(c.first, c.runs)
          /\ File(q) = cache[key] /\ cache[key] # Absent
        BY <2>3, KeyIsBinding DEF Labels, HasFile, File
    <2>5. cache[key] \in {Absent, Torn, key}
        BY <2>1, <2>4 DEF ReplayInv, FilesInv
    <2>6. cache[key] # key
        <3> SUFFICES ASSUME cache[key] = key PROVE FALSE
            OBVIOUS
        <3>1. key # Torn
            BY <2>4, CallsAssumption
        <3>2. File(q) # Torn /\ Valid(File(q), c.first, c.runs)
            BY <2>4, <3>1 DEF Valid
        <3>3. Answer(q, "cache_hit", File(q))
            BY <2>2, <3>2, Zenon DEF LoadCache
        <3>4. call'[q].answer = "cache_hit"
            <4>1. c \in Calls /\ DOMAIN call = Qualifier
                BY <2>3 DEF CallInv, ReplayInv
            <4> QED BY <3>3, <4>1 DEF Answer, Calls
        <3> QED BY <3>4
    <2>7. cache[key] = Torn
        BY <2>4, <2>5, <2>6
    <2>8. PICK d \in Qualifier : ScriptAt(d, "write")
        BY <2>1, <2>4, <2>7 DEF ReplayInv, TornInv
    <2>9. d # q
        BY <2>3, <2>8 DEF ScriptAt
    <2> QED BY <2>8, <2>9
<1> QED BY <1>1, ReplayInvariance, PTL DEF ReplaySpec, RefusalTakesEdits

=============================================================================
