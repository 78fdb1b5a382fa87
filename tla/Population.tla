----------------------------- MODULE Population -----------------------------
(***************************************************************************)
(* The population of case designs: the share of each bucket of an axis and *)
(* the blueprints dealt from it (_allocate_axis and                        *)
(* build_population_blueprints, case_manifest.py), and the validation of a *)
(* population that may have been put together from several builds          *)
(* (validate_population_blueprints, validators.py).  The axes are dealt    *)
(* one by one; a behaviour is about one of them.                           *)
(***************************************************************************)
EXTENDS Integers, Sequences, FiniteSets

LOCAL INSTANCE FiniteSetsExt

CONSTANTS
    PopulationSizes,  \* bound: the sizes of the builds
    MaxEdits          \* bound: what a caller changes about a population

VARIABLES
    axis,        \* the axis this behaviour is about
    population,  \* the blueprints: [seed, ordinal, family, bucket]
    edits        \* how many changes there were

populationVars == <<axis, population, edits>>

(* build_population_axes: the weights of the buckets of each axis. *)
Axes ==
    [merits_posture         |-> <<30, 30, 30, 10>>,
     evidence_shape         |-> <<15, 15, 40, 20, 10>>,
     procedural_quality     |-> <<82, 6, 4, 3, 5>>,
     representation_quality |-> <<55, 25, 15, 5>>,
     resolution_track       |-> <<28, 20, 18, 17, 7, 10>>]

(* Equal remainders are ordered by a hash of seed and bucket: two seeds,   *)
(* two orders.                                                             *)
Seed == {"alpha", "bravo"}

HashedBefore(seed, b, c) == IF seed = "alpha" THEN b < c ELSE c < b

WholeShare(a, n, b) == (n * Axes[a][b]) \div 100

Remainder(a, n, b) == (n * Axes[a][b]) % 100

(* Fault: the smallest remainder goes first. *)
SmallestFirst(a, seed, n, b, c) ==
    \/ Remainder(a, n, b) < Remainder(a, n, c)
    \/ Remainder(a, n, b) = Remainder(a, n, c) /\ HashedBefore(seed, b, c)

(* remainder_order *)
GoesFirst(a, seed, n, b, c) ==
    \/ Remainder(a, n, b) > Remainder(a, n, c)
    \/ Remainder(a, n, b) = Remainder(a, n, c) /\ HashedBefore(seed, b, c)

Bucket(a) == DOMAIN Axes[a]

(* What is left after the whole shares goes to the first of that order.    *)
Allocation ==
    [a \in DOMAIN Axes, seed \in Seed, n \in 1..(Max(PopulationSizes) + MaxEdits) |->
        LET remaining == n - MapThenSumSet(LAMBDA b : WholeShare(a, n, b), Bucket(a))
        IN  [b \in Bucket(a) |->
                WholeShare(a, n, b)
                + IF Cardinality({c \in Bucket(a) : GoesFirst(a, seed, n, c, b)}) < remaining
                  THEN 1 ELSE 0]]

(* The bucket of case k: the tokens are sorted by another hash; here, by   *)
(* that of their bucket.                                                   *)
Dealt(a, seed, n, k) ==
    LET share == Allocation[a, seed, n]
        ahead(b) == MapThenSumSet(LAMBDA c : share[c],
                                  {c \in Bucket(a) : HashedBefore(seed, c, b)})
    IN  CHOOSE b \in Bucket(a) : ahead(b) < k /\ k <= ahead(b) + share[b]

(* A design's id is a hash of seed and ordinal only. *)
Blueprint(seed, ordinal, bucket) ==
    [seed |-> seed, ordinal |-> ordinal, family |-> "active_g2", bucket |-> bucket]

Dealing ==
    [a \in DOMAIN Axes, seed \in Seed, n \in PopulationSizes |->
        [k \in 1..n |-> Blueprint(seed, k - 1, Dealt(a, seed, n, k))]]

-----------------------------------------------------------------------------
Design(item) == <<item.seed, item.ordinal>>

Having(b) == {k \in DOMAIN population : population[k].bucket = b}

(* POP-001 to POP-005 and POP-008; the wording that POP-006 scans for and  *)
(* the labels of POP-007 are not part of a blueprint here.                 *)
PopulationValid ==
    /\ population # << >>
    /\ \A j, k \in DOMAIN population :
          /\ j # k => Design(population[j]) # Design(population[k])
          /\ population[j].seed = population[k].seed
    /\ \A k \in DOMAIN population : population[k].family = "active_g2"
    /\ \A b \in Bucket(axis) :
          Cardinality(Having(b)) = Allocation[axis, population[1].seed, Len(population)][b]

-----------------------------------------------------------------------------
PopulationInit ==
    /\ axis \in DOMAIN Axes
    /\ \E seed \in Seed, n \in PopulationSizes : population = Dealing[axis, seed, n]
    /\ edits = 0

Edit == edits < MaxEdits /\ edits' = edits + 1 /\ UNCHANGED axis

Relabel ==
    /\ Edit
    /\ \E k \in DOMAIN population, b \in Bucket(axis) :
          population' = [population EXCEPT ![k].bucket = b]

Without(k) == SubSeq(population, 1, k - 1) \o SubSeq(population, k + 1, Len(population))

Drop == Edit /\ \E k \in DOMAIN population : population' = Without(k)

(* A case of a build of another size, or of another seed; it may have the  *)
(* design of a case that is there already.                                 *)
Borrow ==
    /\ Edit
    /\ \E seed \in Seed, n \in PopulationSizes : \E k \in 1..n :
          population' = Append(population, Dealing[axis, seed, n][k])

ReassignFamily ==
    /\ Edit
    /\ \E k \in DOMAIN population :
          population' = [population EXCEPT ![k].family = "design_only"]

PopulationNext == Relabel \/ Drop \/ Borrow \/ ReassignFamily

-----------------------------------------------------------------------------
(* Every build is valid, and a valid population is what the axes say,      *)
(* wherever its cases are from: each bucket has its quota, rounded up or   *)
(* down, and exactly where the quota is whole, and no case is there twice, *)
(* although a case has the same id in builds that give it other buckets.   *)
PopulationIsProportional ==
    /\ edits = 0 => PopulationValid
    /\ PopulationValid =>
          LET n == Len(population) IN
          /\ \A b \in Bucket(axis) :
                Cardinality(Having(b)) - WholeShare(axis, n, b) \in
                    IF Remainder(axis, n, b) = 0 THEN {0} ELSE {0, 1}
          /\ Cardinality({population[k].ordinal : k \in 1..n}) = n

=============================================================================
