--------------------------- MODULE SchedulerProofs ---------------------------
(***************************************************************************)
(* The reference scheduler, the simulation that plans as it does, and the  *)
(* checker of traces, for every manifest, every set of resources and       *)
(* capacities and every ceiling.                                           *)
(***************************************************************************)
EXTENDS ScheduleQualification, FiniteSetTheorems, WellFoundedInduction, TLAPS

-----------------------------------------------------------------------------
(* The normalised order: proposals are ranked by how many go before them.  *)

(* What Valid asks of a manifest, with the types of its numbers. *)
Numbered(m) ==
    \A i \in Ordinal :
        /\ m[i].ready \in Nat /\ m[i].service \in 1..MaxFinish
        /\ m[i].priority \in Int /\ m[i].resource \in Resource

Rank(m, i) == Cardinality({j \in Ordinal : Before(m, j, i)})

LEMMA CountIs ==
    /\ Count \in Nat /\ Count >= 1
    /\ IsFiniteSet(Ordinal) /\ Cardinality(Ordinal) = Count
    /\ MaxWait \in Nat /\ MaxFinish \in Nat
<1>1. Count \in Nat /\ Count >= 1 /\ MaxWait \in Nat /\ MaxFinish \in Nat
    BY ManifestAssumption
<1>2. /\ IsFiniteSet(1..Count)
      /\ Cardinality(1..Count) = IF 1 > Count THEN 0 ELSE Count - 1 + 1
    BY <1>1, FS_Interval
<1>3. Cardinality(1..Count) = Count
    BY <1>1, <1>2
<1> QED BY <1>1, <1>2, <1>3 DEF Ordinal

LEMMA BeforeIsTotal ==
    ASSUME NEW m, Numbered(m)
    PROVE  \A i, j \in Ordinal :
              /\ ~Before(m, i, i)
              /\ Before(m, i, j) => ~Before(m, j, i)
              /\ i # j => Before(m, i, j) \/ Before(m, j, i)
              /\ Before(m, i, j) => m[i].ready <= m[j].ready
              /\ \A k \in Ordinal : Before(m, i, j) /\ Before(m, j, k) => Before(m, i, k)
<1> SUFFICES ASSUME NEW i \in Ordinal, NEW j \in Ordinal, NEW k \in Ordinal
             PROVE  /\ ~Before(m, i, i)
                    /\ Before(m, i, j) => ~Before(m, j, i)
                    /\ i # j => Before(m, i, j) \/ Before(m, j, i)
                    /\ Before(m, i, j) => m[i].ready <= m[j].ready
                    /\ Before(m, i, j) /\ Before(m, j, k) => Before(m, i, k)
    OBVIOUS
<1>1. /\ m[i].ready \in Nat /\ m[j].ready \in Nat /\ m[k].ready \in Nat
      /\ m[i].priority \in Int /\ m[j].priority \in Int /\ m[k].priority \in Int
      /\ i \in Int /\ j \in Int /\ k \in Int
    BY CountIs DEF Numbered, Ordinal
<1> QED BY <1>1 DEF Before

LEMMA RanksDiffer ==
    ASSUME NEW m, Numbered(m)
    PROVE  /\ \A i \in Ordinal : Rank(m, i) \in 0..(Count - 1)
           /\ \A i, j \in Ordinal : Before(m, i, j) => Rank(m, i) < Rank(m, j)
<1> DEFINE Ahead(i) == {j \in Ordinal : Before(m, j, i)}
<1>1. ASSUME NEW i \in Ordinal
      PROVE  /\ IsFiniteSet(Ahead(i)) /\ Cardinality(Ahead(i)) \in Nat
             /\ i \notin Ahead(i) /\ Ahead(i) \in SUBSET Ordinal
    <2>1. Ahead(i) \in SUBSET Ordinal
        OBVIOUS
    <2>2. IsFiniteSet(Ahead(i))
        BY <2>1, CountIs, FS_Subset
    <2> QED BY <2>1, <2>2, FS_CardinalityType, BeforeIsTotal
<1>2. ASSUME NEW i \in Ordinal PROVE Cardinality(Ahead(i)) \in 0..(Count - 1)
    <2>1. Cardinality(Ahead(i)) <= Count /\ (Cardinality(Ahead(i)) = Count => Ahead(i) = Ordinal)
        BY <1>1, CountIs, FS_Subset
    <2>2. Ahead(i) # Ordinal
        BY <1>1
    <2> HIDE DEF Ahead
    <2> QED BY <2>1, <2>2, <1>1, CountIs
<1>3. ASSUME NEW i \in Ordinal, NEW j \in Ordinal, Before(m, i, j)
      PROVE  Cardinality(Ahead(i)) < Cardinality(Ahead(j))
    <2>1. Ahead(i) \in SUBSET Ahead(j)
        BY <1>3, BeforeIsTotal
    <2>2. i \in Ahead(j) /\ i \notin Ahead(i)
        BY <1>3, <1>1
    <2> HIDE DEF Ahead
    <2>3. Cardinality(Ahead(i)) <= Cardinality(Ahead(j)) /\ Cardinality(Ahead(i)) # Cardinality(Ahead(j))
        BY <2>1, <2>2, <1>1, FS_Subset
    <2> QED BY <2>3, <1>1
<1> QED BY <1>2, <1>3 DEF Rank

(* _normalized_proposals: the order has every ordinal once, and sorts them. *)
LEMMA NormalizedSorts ==
    ASSUME NEW m, Numbered(m)
    PROVE  /\ Normalized(m) \in [Ordinal -> Ordinal]
           /\ Len(Normalized(m)) = Count
           /\ \A j, k \in Ordinal : j < k <=> Before(m, Normalized(m)[j], Normalized(m)[k])
<1> DEFINE o == Normalized(m)
           place == [i \in Ordinal |-> Rank(m, i) + 1]
<1>1. \A i \in Ordinal : Rank(m, i) \in Nat /\ place[i] \in Ordinal /\ place[i] = Rank(m, i) + 1
    BY RanksDiffer, CountIs DEF Ordinal
<1>2. ASSUME NEW i \in Ordinal, NEW j \in Ordinal, place[i] = place[j] PROVE i = j
    <2>1. Rank(m, i) = Rank(m, j)
        BY <1>1, <1>2
    <2>2. ~Before(m, i, j) /\ ~Before(m, j, i)
        BY <2>1, <1>1, RanksDiffer
    <2> QED BY <2>2, BeforeIsTotal
<1>3. place \in Injection(Ordinal, Ordinal)
    BY <1>1, <1>2 DEF Injection, IsInjective
<1>4. place \in Surjection(Ordinal, Ordinal)
    BY <1>3, CountIs, FS_Injection
<1>5. ASSUME NEW k \in Ordinal
      PROVE  o[k] \in Ordinal /\ Rank(m, o[k]) = k - 1
    <2>1. PICK i \in Ordinal : place[i] = k
        BY <1>4 DEF Surjection
    <2>2. Rank(m, i) = k - 1
        BY <2>1, <1>1, CountIs
    <2>3. o[k] = CHOOSE x \in Ordinal : Rank(m, x) = k - 1
        BY DEF Normalized, Rank
    <2> HIDE DEF o
    <2> QED BY <2>2, <2>3
<1>6. o \in [Ordinal -> Ordinal]
    BY <1>5 DEF Normalized
<1>7. Len(o) = Count
    BY <1>6, CountIs DEF Ordinal
<1> HIDE DEF o, place
<1>8. ASSUME NEW j \in Ordinal, NEW k \in Ordinal
      PROVE  j < k <=> Before(m, o[j], o[k])
    <2>1. Rank(m, o[j]) = j - 1 /\ Rank(m, o[k]) = k - 1 /\ o[j] \in Ordinal /\ o[k] \in Ordinal
        BY <1>5
    <2>2. j \in Int /\ k \in Int
        BY CountIs DEF Ordinal
    <2>3. /\ Before(m, o[j], o[k]) => Rank(m, o[j]) < Rank(m, o[k])
          /\ Before(m, o[k], o[j]) => Rank(m, o[k]) < Rank(m, o[j])
        BY <2>1, RanksDiffer, Zenon
    <2>4. /\ Before(m, o[j], o[k]) => j < k
          /\ Before(m, o[k], o[j]) => k < j
          /\ o[j] = o[k] => j = k
        BY <2>1, <2>2, <2>3
    <2>5. Before(m, o[j], o[k]) \/ Before(m, o[k], o[j]) \/ o[j] = o[k]
        BY <2>1, BeforeIsTotal, Zenon
    <2> QED BY <2>2, <2>4, <2>5
<1> QED BY <1>6, <1>7, <1>8 DEF o

-----------------------------------------------------------------------------
(* The reference scheduler. *)

LEMMA LeastExists ==
    ASSUME NEW T, T \subseteq Nat, T # {}
    PROVE  \E x \in T : \A y \in T : x <= y
<1>1. PICK x \in T : \A y \in T : ~(<<y, x>> \in OpToRel(<, Nat))
    BY WFMin, NatLessThanWellFounded
<1>2. \A y \in T : ~(y < x)
    BY <1>1 DEF OpToRel
<1> QED BY <1>2

LEMMA FirstFreeIs ==
    ASSUME NEW r, Capacity[r] \in Nat, Capacity[r] >= 1,
           \A s \in 1..Capacity[r] : slots[r][s] \in Nat
    PROVE  /\ FirstFree(r) \in 1..Capacity[r]
           /\ \A s \in 1..Capacity[r] : slots[r][FirstFree(r)] <= slots[r][s]
<1> DEFINE times == {slots[r][s] : s \in 1..Capacity[r]}
<1>1. times \subseteq Nat /\ times # {}
    OBVIOUS
<1>2. PICK x \in times : \A y \in times : x <= y
    <2> HIDE DEF times
    <2> QED BY <1>1, LeastExists
<1> DEFINE first == {s \in 1..Capacity[r] : slots[r][s] = x}
<1>3. first \subseteq Nat /\ first # {}
    BY <1>2
<1>4. PICK a \in first : \A b \in first : a <= b
    <2> HIDE DEF first
    <2> QED BY <1>3, LeastExists
<1>5. a \in 1..Capacity[r] /\ \A s \in 1..Capacity[r] :
          slots[r][a] < slots[r][s] \/ (slots[r][a] = slots[r][s] /\ a <= s)
    <2> SUFFICES ASSUME NEW s \in 1..Capacity[r]
                 PROVE  slots[r][a] < slots[r][s] \/ (slots[r][a] = slots[r][s] /\ a <= s)
        BY <1>4
    <2>1. slots[r][a] = x /\ x <= slots[r][s] /\ slots[r][s] \in Nat /\ x \in Nat
        BY <1>1, <1>2, <1>4
    <2>2. slots[r][s] = x => a <= s
        BY <1>4
    <2> QED BY <2>1, <2>2
<1> DEFINE Chosen(z) == \A s \in 1..Capacity[r] :
               slots[r][z] < slots[r][s] \/ (slots[r][z] = slots[r][s] /\ z <= s)
           z == FirstFree(r)
<1>6. z = CHOOSE y \in 1..Capacity[r] : Chosen(y)
    BY DEF FirstFree
<1> HIDE DEF z
<1>7. z \in 1..Capacity[r] /\ Chosen(z)
    <2> HIDE DEF Chosen
    <2>1. Chosen(a)
        BY <1>5 DEF Chosen
    <2> QED BY <1>5, <1>6, <2>1
<1>8. \A s \in 1..Capacity[r] : slots[r][z] <= slots[r][s]
    BY <1>7
<1> QED BY <1>7, <1>8 DEF z

DecisionType == [ordinal : Ordinal, start : Nat, finish : Nat]

Ready(k) == manifest[order[k]].ready

(* The decisions ds and the slots sl are those of the reference scheduler, *)
(* or those with the decision on which it raises.                          *)
MadeOf(ds) == {ds[k] : k \in 1..Len(ds)}

(* The slots of r that are taken after tick t. *)
Taken(sl, r, t) == {s \in 1..Capacity[r] : sl[r][s] > t}

(* Each decides the next proposal of the order. *)
Decides(ds) ==
    \A k \in 1..Len(ds) :
        /\ ds[k].ordinal = order[k]
        /\ ds[k].start >= Ready(k)
        /\ ds[k].finish = ds[k].start + manifest[order[k]].service

(* A decision starts its proposal at once, or as its resource's slots, of  *)
(* which it takes the first, are free.                                     *)
StartsWhenFree(ds, sl) ==
    \A k \in 1..Len(ds) :
        \/ ds[k].start = Ready(k)
        \/ \A s \in 1..Capacity[ResourceOf(ds[k])] : ds[k].start <= sl[ResourceOf(ds[k])][s]

InOrder(ds) ==
    \A j, k \in 1..Len(ds) :
        j < k /\ ResourceOf(ds[j]) = ResourceOf(ds[k]) => ds[j].start <= ds[k].start

(* From the tick at which the last proposal is ready, a resource works on  *)
(* a proposal for each slot that is not yet free.                          *)
OneToASlot(ds, sl) ==
    \A r \in Resource : \A t \in Nat :
        (\A k \in 1..Len(ds) : Ready(k) <= t) =>
            Cardinality(Active(MadeOf(ds), r, t)) = Cardinality(Taken(sl, r, t))

WithinCapacity(ds) ==
    \A r \in Resource : \A t \in Nat : Cardinality(Active(MadeOf(ds), r, t)) <= Capacity[r]

WaitsForAFull(ds) ==
    \A d \in MadeOf(ds) : \A t \in manifest[d.ordinal].ready..(d.start - 1) :
        Cardinality(Active(MadeOf(ds), ResourceOf(d), t)) = Capacity[ResourceOf(d)]

ManifestInv ==
    /\ Numbered(manifest)
    /\ order = Normalized(manifest)
    /\ source = "cassette" => \A i \in Ordinal : manifest[i].ready = (i - 1) \div 2

Works(ds, sl) ==
    /\ DOMAIN sl = Resource
    /\ \A r \in Resource : sl[r] \in [1..Capacity[r] -> Nat]
    /\ ds \in Seq(DecisionType) /\ Len(ds) <= Count
    /\ Decides(ds)
    /\ StartsWhenFree(ds, sl) /\ InOrder(ds) /\ OneToASlot(ds, sl)
    /\ WithinCapacity(ds) /\ WaitsForAFull(ds)

PlanInv ==
    /\ ManifestInv
    /\ Works(decisions, slots)
    /\ \A k \in 1..Len(decisions) : InTime(decisions[k])

LEMMA OrderIs ==
    ASSUME ManifestInv
    PROVE  \A j \in Ordinal :
              /\ order[j] \in Ordinal /\ Ready(j) \in Nat
              /\ \A k \in Ordinal :
                    /\ j < k <=> Before(manifest, order[j], order[k])
                    /\ j < k => Ready(j) <= Ready(k) /\ order[j] # order[k]
<1> SUFFICES ASSUME NEW j \in Ordinal, NEW k \in Ordinal
             PROVE  /\ order[j] \in Ordinal /\ Ready(j) \in Nat
                    /\ j < k <=> Before(manifest, order[j], order[k])
                    /\ j < k => Ready(j) <= Ready(k) /\ order[j] # order[k]
    OBVIOUS
<1>1. /\ order[j] \in Ordinal /\ order[k] \in Ordinal
      /\ j < k <=> Before(manifest, order[j], order[k])
    BY NormalizedSorts DEF ManifestInv
<1>2. Ready(j) \in Nat
    BY <1>1 DEF ManifestInv, Numbered, Ready
<1>3. Before(manifest, order[j], order[k]) =>
          manifest[order[j]].ready <= manifest[order[k]].ready /\ order[j] # order[k]
    BY <1>1, BeforeIsTotal, Zenon DEF ManifestInv
<1> QED BY <1>1, <1>2, <1>3 DEF Ready

LEMMA EveryProposalHasAPlace ==
    ASSUME ManifestInv
    PROVE  \A i \in Ordinal : \E k \in Ordinal : order[k] = i
<1> DEFINE f == [k \in Ordinal |-> order[k]]
<1>1. \A k \in Ordinal : order[k] \in Ordinal
    BY OrderIs
<1>2. \A j, k \in Ordinal : order[j] = order[k] => j = k
    <2> SUFFICES ASSUME NEW j \in Ordinal, NEW k \in Ordinal, order[j] = order[k] PROVE j = k
        OBVIOUS
    <2>1. j \in Int /\ k \in Int
        BY CountIs DEF Ordinal
    <2>2. /\ j < k => order[j] # order[k]
          /\ k < j => order[k] # order[j]
        BY OrderIs
    <2> QED BY <2>1, <2>2
<1>3. f \in Injection(Ordinal, Ordinal)
    BY <1>1, <1>2 DEF Injection, IsInjective
<1>4. f \in Surjection(Ordinal, Ordinal)
    <2> HIDE DEF f
    <2> QED BY <1>3, CountIs, FS_Injection
<1> QED BY <1>4 DEF Surjection

LEMMA CapacityIs ==
    ASSUME NEW r \in Resource
    PROVE  /\ Capacity[r] \in Nat /\ Capacity[r] >= 1
           /\ IsFiniteSet(1..Capacity[r]) /\ Cardinality(1..Capacity[r]) = Capacity[r]
<1> DEFINE c == Capacity[r]
<1>1. c \in Nat /\ c >= 1
    BY ManifestAssumption
<1> HIDE DEF c
<1>2. IsFiniteSet(1..c) /\ Cardinality(1..c) = IF 1 > c THEN 0 ELSE c - 1 + 1
    BY <1>1, FS_Interval
<1>3. Cardinality(1..c) = c
    BY <1>1, <1>2
<1> QED BY <1>1, <1>2, <1>3 DEF c

LEMMA MadeIsFinite ==
    ASSUME Len(decisions) \in Nat
    PROVE  IsFiniteSet(Made) /\ \A r, t : IsFiniteSet(Active(Made, r, t))
<1> DEFINE n == Len(decisions)
           f == [k \in 1..n |-> decisions[k]]
<1>1. f \in Surjection(1..n, Made)
    BY DEF Surjection, Made
<1>2. IsFiniteSet(1..n)
    BY FS_Interval
<1>3. IsFiniteSet(Made)
    BY <1>1, <1>2, FS_Surjection
<1>4. \A r, t : Active(Made, r, t) \in SUBSET Made
    BY DEF Active
<1> QED BY <1>3, <1>4, FS_Subset

LEMMA TakenIsFinite ==
    ASSUME NEW r \in Resource, NEW t
    PROVE  IsFiniteSet(Taken(slots, r, t))
<1>1. Taken(slots, r, t) \in SUBSET (1..Capacity[r])
    BY DEF Taken
<1> QED BY <1>1, CapacityIs, FS_Subset

(* One more decision d, on slot a of r, that was free from tick f on: what *)
(* it changes about what the resources work on and which slots are taken.  *)
LEMMA OneMoreActive ==
    ASSUME NEW r \in Resource, NEW a \in 1..Capacity[r], NEW f \in Nat,
           slots[r] \in [1..Capacity[r] -> Nat], slots[r][a] = f,
           NEW d \in DecisionType, ResourceOf(d) = r, d \notin Made,
           NEW ready \in Nat, d.start = Larger(ready, f), d.finish >= d.start,
           NEW t \in Nat, ready <= t, NEW after, after = Made \cup {d},
           Len(decisions) \in Nat,
           NEW taken, taken = {s \in 1..Capacity[r] :
                                  (IF s = a THEN d.finish ELSE slots[r][s]) > t},
           Cardinality(Active(Made, r, t)) = Cardinality(Taken(slots, r, t))
    PROVE  Cardinality(Active(after, r, t)) = Cardinality(taken)
<1>1. /\ d.start \in Nat /\ d.finish \in Nat
      /\ d.start <= t <=> f <= t
      /\ f <= d.start
    BY DEF DecisionType, Larger
<1>2. IsFiniteSet(Active(Made, r, t)) /\ IsFiniteSet(Taken(slots, r, t))
    BY MadeIsFinite, TakenIsFinite
<1>3. CASE f <= t /\ t < d.finish
    <2>1. Active(after, r, t) = Active(Made, r, t) \cup {d} /\ d \notin Active(Made, r, t)
        BY <1>1, <1>3 DEF Active
    <2>2. taken = Taken(slots, r, t) \cup {a} /\ a \notin Taken(slots, r, t)
        BY <1>1, <1>3 DEF Taken
    <2>3. /\ Cardinality(Active(Made, r, t) \cup {d}) = Cardinality(Active(Made, r, t)) + 1
          /\ Cardinality(Taken(slots, r, t) \cup {a}) = Cardinality(Taken(slots, r, t)) + 1
        BY <2>1, <2>2, <1>2, FS_AddElement, Zenon
    <2> QED BY <2>1, <2>2, <2>3
<1>4. CASE ~(f <= t /\ t < d.finish)
    <2>1. Active(after, r, t) = Active(Made, r, t)
        BY <1>1, <1>4 DEF Active
    <2>2. taken = Taken(slots, r, t)
        BY <1>1, <1>4 DEF Taken
    <2> QED BY <2>1, <2>2
<1> QED BY <1>3, <1>4

(* What is known of a trace is about the manifest only. *)
LEMMA SameWorks ==
    ASSUME UNCHANGED <<manifest, order>>, NEW ds, NEW sl, Works(ds, sl)
    PROVE  Works(ds, sl)'
<1>1. /\ \A k : Ready(k)' = Ready(k)
      /\ \A d : ResourceOf(d)' = ResourceOf(d)
    BY DEF Ready, ResourceOf
<1>2. \A r, t : Active(MadeOf(ds), r, t)' = Active(MadeOf(ds), r, t)
    BY <1>1 DEF Active, MadeOf
<1>3. Decides(ds)' /\ StartsWhenFree(ds, sl)' /\ InOrder(ds)'
    BY <1>1, Zenon DEF Works, Decides, StartsWhenFree, InOrder
<1>4. OneToASlot(ds, sl)'
    BY <1>1, <1>2 DEF Works, OneToASlot, Taken
<1>5. WithinCapacity(ds)' /\ WaitsForAFull(ds)'
    BY <1>1, <1>2, Zenon DEF Works, WithinCapacity, WaitsForAFull, MadeOf
<1> QED BY <1>3, <1>4, <1>5 DEF Works

(* The next decision, in time or not. *)
LEMMA OneMoreDecision ==
    ASSUME ManifestInv, Works(decisions, slots), Len(decisions) < Count,
           NEW ds, ds = Append(decisions, Decision(Turn)),
           NEW sl, sl = [slots EXCEPT ![manifest[Turn].resource]
                             [FirstFree(manifest[Turn].resource)] = Decision(Turn).finish]
    PROVE  Works(ds, sl)
<1> DEFINE n == Len(decisions)
           i == order[n + 1]
           r == manifest[i].resource
           a == FirstFree(r)
           f == slots[r][a]
           ready == manifest[i].ready
           d == Decision(i)
<1>1. /\ n < Count
      /\ sl = [slots EXCEPT ![r][a] = d.finish]
      /\ ds = Append(decisions, d)
    BY Zenon DEF Turn
<1>2. ManifestInv
    OBVIOUS
<1>3. n \in Nat /\ n + 1 \in Ordinal /\ 1..n \subseteq Ordinal /\ decisions \in Seq(DecisionType)
    <2>1. n \in Nat /\ decisions \in Seq(DecisionType)
        BY DEF Works
    <2> HIDE DEF n
    <2> QED BY <2>1, <1>1, CountIs DEF Ordinal
<1>4. /\ i \in Ordinal /\ r \in Resource /\ ready \in Nat
      /\ manifest[i].service \in Nat
    <2>1. i \in Ordinal
        BY <1>2, <1>3, OrderIs
    <2> HIDE DEF i
    <2> QED BY <2>1, <1>2, CountIs DEF ManifestInv, Numbered
<1>5. /\ DOMAIN slots = Resource
      /\ \A q \in Resource : slots[q] \in [1..Capacity[q] -> Nat]
    BY DEF Works
<1>6. /\ a \in 1..Capacity[r] /\ f \in Nat /\ slots[r][a] = f
      /\ \A s \in 1..Capacity[r] : f <= slots[r][s]
    BY <1>4, <1>5, CapacityIs, FirstFreeIs
<1>7. d = [ordinal |-> i, start |-> Larger(ready, f),
           finish |-> Larger(ready, f) + manifest[i].service]
    BY DEF Decision
<1> HIDE DEF d, f, a
<1>8. /\ d \in DecisionType /\ d.ordinal = i /\ d.start = Larger(ready, f)
      /\ d.finish >= d.start /\ d.start >= ready /\ d.start >= f
      /\ d.start \in {ready, f} /\ d.start \in Nat /\ d.finish \in Nat
    BY <1>4, <1>6, <1>7 DEF DecisionType, Larger
<1>9. /\ DOMAIN sl = Resource
      /\ \A q \in Resource : sl[q] \in [1..Capacity[q] -> Nat]
      /\ \A q \in Resource \ {r} : sl[q] = slots[q]
      /\ \A s \in 1..Capacity[r] : sl[r][s] = IF s = a THEN d.finish ELSE slots[r][s]
    <2>1. DOMAIN sl = Resource /\ \A q \in Resource \ {r} : sl[q] = slots[q]
        BY <1>1, <1>4, <1>5
    <2>2. sl[r] = [slots[r] EXCEPT ![a] = d.finish]
        BY <1>1, <1>4, <1>5
    <2>3. slots[r] \in [1..Capacity[r] -> Nat]
        BY <1>4, <1>5
    <2>4. \A s \in 1..Capacity[r] : sl[r][s] = IF s = a THEN d.finish ELSE slots[r][s]
        BY <2>2, <2>3, Zenon
    <2> HIDE DEF r
    <2>5. \A g \in [1..Capacity[r] -> Nat] : [g EXCEPT ![a] = d.finish] \in [1..Capacity[r] -> Nat]
        BY <1>8
    <2>6. sl[r] \in [1..Capacity[r] -> Nat]
        BY <2>2, <2>3, <2>5
    <2> QED BY <2>1, <2>4, <2>6, <1>5
<1>10. /\ ds \in Seq(DecisionType) /\ Len(ds) = n + 1
       /\ ds[n + 1] = d
       /\ \A k \in 1..n : ds[k] = decisions[k]
       /\ \A k \in 1..(n + 1) : k = n + 1 \/ k \in 1..n
    BY <1>1, <1>3, <1>8
<1>11. /\ \A k \in 1..n :
              /\ decisions[k].ordinal = order[k] /\ decisions[k].start >= Ready(k)
              /\ decisions[k] \in DecisionType
              /\ Ready(k) \in Nat /\ Ready(k) <= ready /\ order[k] # i
       /\ Ready(n + 1) = ready
    <2>1. \A k \in 1..n : decisions[k].ordinal = order[k] /\ decisions[k].start >= Ready(k)
        BY DEF Works, Decides
    <2>2. ASSUME NEW k \in 1..n
          PROVE  Ready(k) \in Nat /\ Ready(k) <= Ready(n + 1) /\ order[k] # order[n + 1]
        <3>1. k \in Ordinal /\ k < n + 1
            BY <1>3
        <3> QED BY <3>1, <1>2, <1>3, OrderIs
    <2>3. Ready(n + 1) = ready
        BY DEF Ready
    <2>4. \A k \in 1..n : decisions[k] \in DecisionType
        BY <1>3
    <2> QED BY <2>1, <2>2, <2>3, <2>4
<1>0. Made = MadeOf(decisions)
    BY DEF Made, MadeOf
<1>12. /\ MadeOf(ds) = Made \cup {d} /\ d \notin Made
       /\ \A e \in Made : \E k \in 1..n : e = decisions[k]
    <2>1. MadeOf(ds) = Made \cup {d}
        BY <1>3, <1>10 DEF Made, MadeOf
    <2>2. \A e \in Made : e.ordinal # i
        BY <1>11 DEF Made
    <2> QED BY <2>1, <2>2, <1>8 DEF Made
<1>13. ResourceOf(d) = r
    BY <1>8 DEF ResourceOf
<1> HIDE DEF ready, r, i, n
<1>16. StartsWhenFree(ds, sl)
    <2> SUFFICES ASSUME NEW k \in 1..(n + 1)
                 PROVE  \/ ds[k].start = Ready(k)
                        \/ \A s \in 1..Capacity[ResourceOf(ds[k])] :
                              ds[k].start <= sl[ResourceOf(ds[k])][s]
        BY <1>10, Zenon DEF StartsWhenFree
    <2>1. CASE k \in 1..n
        <3> DEFINE q == ResourceOf(decisions[k])
        <3>1. decisions[k].start = Ready(k) \/
                 \A s \in 1..Capacity[q] : decisions[k].start <= slots[q][s]
            BY <2>1 DEF Works, StartsWhenFree, n
        <3>2. q \in Resource /\ decisions[k].start \in Nat
            BY <1>2, <1>11, <2>1 DEF ResourceOf, ManifestInv, Numbered, DecisionType
        <3>3. ds[k] = decisions[k]
            BY <1>10, <2>1
        <3> HIDE DEF q
        <3>4. ASSUME NEW s \in 1..Capacity[q], decisions[k].start <= slots[q][s]
              PROVE  decisions[k].start <= sl[q][s]
            <4>1. CASE q # r
                BY <4>1, <3>2, <3>4, <1>9
            <4>2. CASE q = r /\ s # a
                BY <4>2, <3>2, <3>4, <1>9
            <4>3. CASE q = r /\ s = a
                <5>1. decisions[k].start <= f /\ sl[q][s] = d.finish
                    BY <4>3, <3>2, <3>4, <1>4, <1>6, <1>9
                <5> QED BY <5>1, <3>2, <1>6, <1>8
            <4> QED BY <4>1, <4>2, <4>3
        <3> QED BY <3>1, <3>3, <3>4 DEF q
    <2>2. CASE k = n + 1
        <3>1. ASSUME d.start = f, NEW s \in 1..Capacity[r] PROVE d.start <= sl[r][s]
            BY <3>1, <1>4, <1>5, <1>6, <1>8, <1>9, SMTT(60)
        <3> QED BY <3>1, <2>2, <1>8, <1>10, <1>11, <1>13
    <2> QED BY <2>1, <2>2, <1>10
<1>17. \A k \in 1..n : ResourceOf(decisions[k]) = r => decisions[k].start <= d.start
    <2> SUFFICES ASSUME NEW k \in 1..n, ResourceOf(decisions[k]) = r
                 PROVE  decisions[k].start <= d.start
        OBVIOUS
    <2>1. decisions[k].start = Ready(k) \/ decisions[k].start <= f
        BY <1>6 DEF Works, StartsWhenFree, n, f
    <2>2. decisions[k].start \in Nat /\ Ready(k) <= ready /\ Ready(k) \in Nat
        BY <1>11 DEF DecisionType
    <2> QED BY <2>1, <2>2, <1>4, <1>6, <1>8
<1>18. InOrder(ds)
    <2> SUFFICES ASSUME NEW j \in 1..(n + 1), NEW k \in 1..(n + 1), j < k,
                        ResourceOf(ds[j]) = ResourceOf(ds[k])
                 PROVE  ds[j].start <= ds[k].start
        BY <1>10, Zenon DEF InOrder
    <2>0. j \in 1..n /\ (k \in 1..n \/ k = n + 1)
        BY <1>3 DEF n
    <2>1. CASE k \in 1..n
        BY <2>0, <2>1, <1>10 DEF Works, InOrder, n
    <2>2. CASE k = n + 1
        BY <2>0, <2>2, <1>10, <1>13, <1>17
    <2> QED BY <2>0, <2>1, <2>2
<1>19. OneToASlot(ds, sl)
    <2> SUFFICES ASSUME NEW q \in Resource, NEW t \in Nat,
                        \A k \in 1..(n + 1) : Ready(k) <= t
                 PROVE  Cardinality(Active(MadeOf(ds), q, t)) = Cardinality(Taken(sl, q, t))
        BY <1>10, Zenon DEF OneToASlot
    <2>1. \A k \in 1..n : Ready(k) <= t
        BY <1>3 DEF n
    <2>2. Cardinality(Active(Made, q, t)) = Cardinality(Taken(slots, q, t))
        BY <2>1, <1>0 DEF Works, OneToASlot, n
    <2>4. CASE q # r
        <3>1. Active(MadeOf(ds), q, t) = Active(Made, q, t)
            BY <1>12, <1>13, <2>4 DEF Active
        <3>2. Taken(sl, q, t) = Taken(slots, q, t)
            BY <1>9, <2>4 DEF Taken
        <3> QED BY <3>1, <3>2, <2>2
    <2>5. CASE q = r
        <3> DEFINE taken == {s \in 1..Capacity[q] :
                                (IF s = a THEN d.finish ELSE slots[q][s]) > t}
                   after == Made \cup {d}
        <3>1. Taken(sl, q, t) = taken
            <4>1. \A s \in 1..Capacity[q] :
                      sl[q][s] = IF s = a THEN d.finish ELSE slots[q][s]
                BY <1>9, <2>5
            <4> QED BY <4>1 DEF Taken
        <3>2. ready <= t
            <4>1. n + 1 \in 1..(n + 1)
                BY <1>3 DEF n
            <4> QED BY <4>1, <1>11
        <3>3. slots[q] \in [1..Capacity[q] -> Nat] /\ Len(decisions) \in Nat
            BY <1>3, <1>5 DEF n
        <3> HIDE DEF taken, after
        <3>4. Cardinality(Active(after, q, t)) = Cardinality(taken)
            <4>1. /\ a \in 1..Capacity[q] /\ slots[q][a] = f /\ ResourceOf(d) = q
                BY <1>6, <1>13, <2>5
            <4>2. d \in DecisionType /\ d \notin Made /\ d.finish >= d.start
                  /\ d.start = Larger(ready, f)
                BY <1>8, <1>12
            <4>3. ready \in Nat /\ f \in Nat
                BY <1>4, <1>6
            <4>4. /\ after = Made \cup {d}
                  /\ taken = {s \in 1..Capacity[q] :
                                 (IF s = a THEN d.finish ELSE slots[q][s]) > t}
                BY DEF taken, after
            <4> QED BY <4>1, <4>2, <4>3, <4>4, <2>2, <3>2, <3>3, OneMoreActive, SMTT(120)
        <3> QED BY <1>12, <3>1, <3>4 DEF after
    <2> QED BY <2>4, <2>5
<1>20. WaitsForAFull(ds)
    <2> SUFFICES ASSUME NEW e \in MadeOf(ds), NEW t \in manifest[e.ordinal].ready..(e.start - 1)
                 PROVE  Cardinality(Active(MadeOf(ds), ResourceOf(e), t)) = Capacity[ResourceOf(e)]
        BY DEF WaitsForAFull
    <2>1. CASE e \in Made
        <3>1. PICK k \in 1..n : e = decisions[k]
            BY <1>12, <2>1
        <3>2. Cardinality(Active(Made, ResourceOf(e), t)) = Capacity[ResourceOf(e)]
            BY <2>1, <1>0 DEF Works, WaitsForAFull
        <3>3. /\ manifest[e.ordinal].ready \in Nat /\ e.start \in Nat
              /\ ResourceOf(e) = r => e.start <= d.start
            BY <3>1, <1>2, <1>11, <1>17 DEF ManifestInv, Numbered, DecisionType
        <3>4. ResourceOf(e) = r => ~(d.start <= t)
            BY <3>3, <1>8
        <3>5. Active(MadeOf(ds), ResourceOf(e), t) = Active(Made, ResourceOf(e), t)
            BY <3>4, <1>12, <1>13 DEF Active
        <3> QED BY <3>2, <3>5
    <2>2. CASE e = d
        <3>1. ResourceOf(e) = r /\ t \in ready..(d.start - 1)
            BY <2>2, <1>8, <1>13 DEF ready
        <3>2. t \in Nat /\ ready <= t /\ ~(d.start <= t) /\ t < f
            BY <3>1, <1>4, <1>8
        <3>3. \A k \in 1..n : Ready(k) <= t
            BY <3>2, <1>4, <1>11
        <3>4. Cardinality(Active(Made, r, t)) = Cardinality(Taken(slots, r, t))
            BY <3>2, <3>3, <1>4, <1>0 DEF Works, OneToASlot, n
        <3>5. Taken(slots, r, t) = 1..Capacity[r]
            <4>1. ASSUME NEW s \in 1..Capacity[r] PROVE slots[r][s] > t
                <5>1. slots[r][s] \in Nat /\ f <= slots[r][s]
                    BY <1>4, <1>5, <1>6
                <5> QED BY <5>1, <3>2, <1>6
            <4> QED BY <4>1 DEF Taken
        <3>6. Active(MadeOf(ds), r, t) = Active(Made, r, t)
            BY <3>2, <1>12 DEF Active
        <3> QED BY <3>1, <3>4, <3>5, <3>6, <1>4, CapacityIs
    <2> QED BY <2>1, <2>2, <1>12
<1>21. WithinCapacity(ds)
    <2> SUFFICES ASSUME NEW q \in Resource, NEW t \in Nat
                 PROVE  Cardinality(Active(MadeOf(ds), q, t)) <= Capacity[q]
        BY DEF WithinCapacity
    <2>1. CASE ready <= t
        <3>1. \A k \in 1..Len(ds) : Ready(k) <= t
            BY <2>1, <1>4, <1>10, <1>11
        <3>2. Cardinality(Active(MadeOf(ds), q, t)) = Cardinality(Taken(sl, q, t))
            BY <3>1, <1>19 DEF OneToASlot
        <3>3. Taken(sl, q, t) \in SUBSET (1..Capacity[q])
            BY DEF Taken
        <3>4. Cardinality(Taken(sl, q, t)) <= Cardinality(1..Capacity[q])
            BY <3>3, CapacityIs, FS_Subset
        <3> QED BY <3>2, <3>4, CapacityIs
    <2>2. CASE ~(ready <= t)
        <3>1. ~(d.start <= t)
            BY <2>2, <1>4, <1>8
        <3>2. Active(MadeOf(ds), q, t) = Active(Made, q, t)
            BY <3>1, <1>12 DEF Active
        <3> QED BY <3>2, <1>0 DEF Works, WithinCapacity
    <2> QED BY <2>1, <2>2
<1>22. Decides(ds)
    <2> SUFFICES ASSUME NEW k \in 1..(n + 1)
                 PROVE  /\ ds[k].ordinal = order[k] /\ ds[k].start >= Ready(k)
                        /\ ds[k].finish = ds[k].start + manifest[order[k]].service
        BY <1>10 DEF Decides
    <2>1. CASE k \in 1..n
        <3>1. decisions[k].finish = decisions[k].start + manifest[order[k]].service
            BY <2>1 DEF Works, Decides, n
        <3> QED BY <2>1, <3>1, <1>10, <1>11
    <2>2. CASE k = n + 1
        <3>1. d.finish = d.start + manifest[i].service
            BY <1>7
        <3> QED BY <2>2, <3>1, <1>8, <1>10, <1>11 DEF i
    <2> QED BY <2>1, <2>2, <1>10
<1>23. n + 1 <= Count
    BY <1>3, CountIs DEF Ordinal
<1> QED
    <2>1. Len(ds) <= Count
        BY <1>10, <1>23
    <2>2. \A q \in Resource : sl[q] \in [1..Capacity[q] -> Nat]
        BY <1>9
    <2> QED BY <1>9, <1>10, <1>16, <1>18, <1>19, <1>20, <1>21, <1>22, <2>1, <2>2, Zenon
            DEF Works

LEMMA PlanNextStep ==
    ASSUME PlanInv, PlanNext
    PROVE  PlanInv'
<1> DEFINE d == Decision(Turn)
<1>1. /\ UNCHANGED <<manifest, order, source>> /\ Len(decisions) < Count
      /\ slots' = [slots EXCEPT ![manifest[Turn].resource]
                       [FirstFree(manifest[Turn].resource)] = d.finish]
      /\ decisions' = Append(decisions, d) /\ InTime(d)
    BY Zenon DEF PlanNext, given
<1>2. ManifestInv /\ ManifestInv' /\ Works(decisions, slots) /\ decisions \in Seq(DecisionType)
    BY <1>1 DEF PlanInv, ManifestInv, Works
<1> HIDE DEF d
<1>3. PICK ds, sl : ds = decisions' /\ sl = slots'
    OBVIOUS
<1>4. Works(decisions, slots)'
    <2>1. Works(ds, sl)
        BY <1>1, <1>2, <1>3, OneMoreDecision DEF d
    <2>2. Works(ds, sl)'
        BY <1>1, <2>1, SameWorks
    <2> QED BY <1>3, <2>2
<1>5. \A k \in 1..Len(decisions') : InTime(decisions[k])'
    <2> SUFFICES ASSUME NEW k \in 1..Len(decisions') PROVE InTime(decisions[k])'
        OBVIOUS
    <2>0. InTime(decisions[k])' <=> InTime(decisions'[k])
        BY <1>1 DEF InTime
    <2>1. (k \in 1..Len(decisions) /\ decisions'[k] = decisions[k]) \/ decisions'[k] = d
        BY <1>1, <1>2
    <2> QED BY <2>0, <2>1, <1>1 DEF PlanInv
<1> QED BY <1>2, <1>4, <1>5 DEF PlanInv

-----------------------------------------------------------------------------
(* The simulation, as far as the types of what it hands in. *)

SimInv ==
    /\ \A e \in agenda : e.at \in Nat /\ e.of \in Ordinal
    /\ DOMAIN waiting = Resource /\ \A r \in Resource : waiting[r] \in Seq(Ordinal)
    /\ started \in [Ordinal -> Nat]
    /\ \A i \in DOMAIN recorded : recorded[i] \in DecisionType
    /\ runtime = "planned" => DOMAIN recorded = Ordinal

RowType == [of : Int, rank : Int, resource : Resource, start : Int, finish : Int]

(* The traces that have a row for each proposal. *)
TraceInv == \A t \in Rows(answers) : Len(t) = Count => t \in [Ordinal -> RowType]

(* A manifest that is not valid is never planned. *)
NeverPlanned ==
    plan = "raised" /\ runtime = "raised" /\ decisions = << >> /\ answers = << >>

ScheduleInv == (PlanInv /\ SimInv /\ TraceInv) \/ NeverPlanned

LEMMA ScheduleInitInv == Init => ScheduleInv
<1> SUFFICES ASSUME Init, ~NeverPlanned PROVE PlanInv /\ SimInv /\ TraceInv
    BY DEF ScheduleInv
<1>1. ReferenceInit /\ SimInit /\ answers = << >>
    BY DEF Init, SimInit
<1>2. Valid(manifest)
    BY <1>1 DEF ReferenceInit, SimInit, NeverPlanned
<1>3. /\ order = Normalized(manifest) /\ decisions = << >>
      /\ slots = [r \in Resource |-> [s \in 1..Capacity[r] |-> 0]]
    BY <1>1, <1>2 DEF ReferenceInit
<1>4. \A i \in Ordinal : /\ manifest[i].ready \in Int
                         /\ source = "cassette" => manifest[i].ready = (i - 1) \div 2
                         /\ source = "cassette" \/ source = "hand"
    <2>1. CASE source = "hand" /\ manifest \in [Ordinal -> Proposal]
        <3>1. \A p \in Proposal : p.ready \in Int
            BY ManifestAssumption
        <3> QED BY <2>1, <3>1
    <2>2. CASE source = "cassette" /\ \E cassette \in [Ordinal -> Attempt] :
                   manifest = ManifestOf(cassette)
        <3>1. \A i \in Ordinal : manifest[i].ready = (i - 1) \div 2
            BY <2>2 DEF ManifestOf
        <3>2. \A i \in Ordinal : (i - 1) \div 2 \in Int
            BY CountIs DEF Ordinal
        <3> QED BY <2>2, <3>1, <3>2
    <2> QED BY <1>1, <2>1, <2>2, Zenon DEF ReferenceInit
<1>5. Numbered(manifest)
    BY <1>2, <1>4, CountIs DEF Valid, Sound, Numbered
<1>6. ManifestInv
    BY <1>3, <1>4, <1>5 DEF ManifestInv
<1>7. Made = {} /\ Len(decisions) = 0
    BY <1>3 DEF Made
<1>8. OneToASlot(decisions, slots)
    <2> SUFFICES ASSUME NEW r \in Resource, NEW t \in Nat
                 PROVE  Cardinality(Active(Made, r, t)) = Cardinality(Taken(slots, r, t))
        BY <1>7 DEF OneToASlot, Made, MadeOf
    <2>1. Active(Made, r, t) = {}
        BY <1>7 DEF Active
    <2>2. Taken(slots, r, t) = {}
        <3>1. \A s \in 1..Capacity[r] : slots[r][s] = 0
            BY <1>3
        <3> QED BY <3>1 DEF Taken
    <2> QED BY <2>1, <2>2
<1>9. PlanInv
    <2>1. /\ StartsWhenFree(decisions, slots) /\ InOrder(decisions) /\ Decides(decisions)
          /\ WaitsForAFull(decisions)
        BY <1>7 DEF StartsWhenFree, InOrder, WaitsForAFull, Decides, Made, MadeOf
    <2>5. WithinCapacity(decisions)
        <3> SUFFICES ASSUME NEW r \in Resource, NEW t \in Nat
                     PROVE  Cardinality(Active(MadeOf(decisions), r, t)) <= Capacity[r]
            BY DEF WithinCapacity
        <3>1. Active(MadeOf(decisions), r, t) = {} /\ Cardinality({}) = 0
            BY <1>7, FS_EmptySet DEF Active, Made, MadeOf
        <3> QED BY <3>1, CapacityIs
    <2>2. decisions \in Seq(DecisionType) /\ Len(decisions) <= Count
        BY <1>3, <1>7, CountIs
    <2>3. DOMAIN slots = Resource /\ \A r \in Resource : slots[r] \in [1..Capacity[r] -> Nat]
        BY <1>3
    <2>4. 1..Len(decisions) = {}
        BY <1>7
    <2> QED BY <1>6, <1>8, <2>1, <2>2, <2>3, <2>4, <2>5 DEF PlanInv, Works
<1>10. SimInv
    <2>1. /\ agenda = {[at |-> 0, rank |-> Urgent, age |-> k, kind |-> "initialize",
                        of |-> order[k]] : k \in 1..Len(order)}
          /\ waiting = [r \in Resource |-> << >>]
          /\ started = [i \in Ordinal |-> 0] /\ recorded = << >>
          /\ runtime = "running"
        BY <1>1, <1>2, Zenon DEF SimInit
    <2>2. \A k \in 1..Len(order) : order[k] \in Ordinal
        BY <1>3, <1>5, NormalizedSorts DEF Ordinal
    <2>3. \A e \in agenda : e.at \in Nat /\ e.of \in Ordinal
        BY <2>1, <2>2
    <2>4. \A i \in DOMAIN recorded : recorded[i] \in DecisionType
        BY <2>1
    <2> QED BY <2>1, <2>3, <2>4 DEF SimInv
<1>11. TraceInv
    BY <1>1 DEF TraceInv, Rows
<1> QED BY <1>9, <1>10, <1>11

LEMMA SamePlan ==
    ASSUME PlanInv, UNCHANGED <<source, manifest, order, slots, decisions>>
    PROVE  PlanInv'
<1>1. PICK ds, sl : ds = decisions /\ sl = slots /\ ds = decisions' /\ sl = slots'
    OBVIOUS
<1>2. Works(ds, sl)'
    BY <1>1, SameWorks DEF PlanInv
<1>3. Works(decisions, slots)'
    BY <1>1, <1>2
<1> QED BY <1>3 DEF PlanInv, ManifestInv, InTime

(* The planner of one scheduler and the simulation of the other. *)
LEMMA ReferenceStep ==
    ASSUME PlanInv, ReferenceNext
    PROVE  PlanInv'
<1>1. CASE PlanNext
    BY <1>1, PlanNextStep
<1>2. CASE ExceedCeiling \/ ReturnTrace
    <2>1. UNCHANGED <<source, manifest, order, slots, decisions>>
        BY <1>2 DEF ExceedCeiling, ReturnTrace, given
    <2> QED BY <2>1, SamePlan
<1> QED BY <1>1, <1>2 DEF ReferenceNext

LEMMA AfterKeeps ==
    ASSUME SimInv, NEW e \in agenda, NEW kinds, NEW owner \in Ordinal, NEW delay \in Nat,
           After(e, kinds, owner, delay)
    PROVE  \A x \in agenda' : x.at \in Nat /\ x.of \in Ordinal
<1>1. \A x \in agenda : x.at \in Nat /\ x.of \in Ordinal
    BY DEF SimInv
<1>2. ASSUME NEW x \in agenda' \ agenda PROVE x.at = e.at + delay /\ x.of = owner
    BY <1>2 DEF After
<1>3. e.at + delay \in Nat
    BY <1>1
<1> QED BY <1>1, <1>2, <1>3

LEMMA ServeKeeps ==
    ASSUME SimInv, NEW e \in agenda, NEW r \in Resource, NEW q \in Seq(Ordinal), NEW u,
           Serve(e, r, q, u)
    PROVE  /\ \A x \in agenda' : x.at \in Nat /\ x.of \in Ordinal
           /\ DOMAIN waiting' = Resource /\ \A s \in Resource : waiting'[s] \in Seq(Ordinal)
<1>1. e.of \in Ordinal /\ DOMAIN waiting = Resource /\ \A s \in Resource : waiting[s] \in Seq(Ordinal)
    BY DEF SimInv
<1>2. CASE /\ q # << >> /\ waiting' = [waiting EXCEPT ![r] = Tail(q)]
           /\ After(e, <<"granted">>, Head(q), 0)
    <2>1. Head(q) \in Ordinal /\ Tail(q) \in Seq(Ordinal)
        BY <1>2
    <2> QED BY <2>1, <1>1, <1>2, AfterKeeps
<1>3. CASE waiting' = [waiting EXCEPT ![r] = q] /\ After(e, << >>, e.of, 0)
    BY <1>1, <1>3, AfterKeeps
<1> QED BY <1>2, <1>3, Zenon DEF Serve

LEMMA SimulateStep ==
    ASSUME PlanInv, SimInv, Simulate
    PROVE  PlanInv' /\ SimInv'
<1>1. UNCHANGED referenceVars
    <2>1. CASE RunReturns
        BY <2>1, Zenon DEF RunReturns
    <2>2. ASSUME NEW e \in agenda,
                 \/ AwaitReady(e) \/ Request(e) \/ Start(e) \/ Starve(e)
                 \/ Finish(e) \/ FinishLate(e) \/ ServeNext(e) \/ RunRaises(e)
          PROVE  UNCHANGED referenceVars
        BY <2>2, Zenon DEF AwaitReady, Request, Start, Starve, Finish, FinishLate,
                           ServeNext, RunRaises
    <2> QED BY <2>1, <2>2, Zenon DEF Simulate
<1>2. PlanInv'
    BY <1>1, SamePlan DEF referenceVars, given
<1>3. /\ \A e \in agenda : e.at \in Nat /\ e.of \in Ordinal
      /\ DOMAIN waiting = Resource /\ \A r \in Resource : waiting[r] \in Seq(Ordinal)
      /\ started \in [Ordinal -> Nat]
      /\ \A i \in DOMAIN recorded : recorded[i] \in DecisionType
      /\ runtime = "planned" => DOMAIN recorded = Ordinal
    BY DEF SimInv
<1>4. \A i \in Ordinal : /\ manifest[i].ready \in Nat /\ manifest[i].service \in Nat
                         /\ manifest[i].resource \in Resource
    BY CountIs DEF PlanInv, ManifestInv, Numbered
<1>5. CASE RunReturns
    <2>1. UNCHANGED <<agenda, waiting, started, recorded>>
        BY <1>5 DEF RunReturns
    <2>2. runtime' = "planned" => DOMAIN recorded = Ordinal
        BY <1>5 DEF RunReturns
    <2> QED BY <1>2, <1>3, <2>1, <2>2 DEF SimInv
<1>6. ASSUME NEW e \in agenda, AwaitReady(e) PROVE SimInv'
    <2>1. After(e, <<"ready">>, e.of, manifest[e.of].ready)
        BY <1>6 DEF AwaitReady
    <2>2. UNCHANGED <<waiting, started, recorded, runtime>>
        BY <1>6 DEF AwaitReady
    <2>3. \A x \in agenda' : x.at \in Nat /\ x.of \in Ordinal
        BY <2>1, <1>3, <1>4, AfterKeeps
    <2> QED BY <1>3, <2>2, <2>3 DEF SimInv
<1>7. ASSUME NEW e \in agenda, Request(e) \/ ServeNext(e) PROVE SimInv'
    <2> DEFINE r == manifest[e.of].resource
    <2>1. e.of \in Ordinal /\ r \in Resource /\ waiting[r] \in Seq(Ordinal)
        BY <1>3, <1>4
    <2>2. \E q \in Seq(Ordinal) : Serve(e, r, q, users[r])
        <3>1. Append(waiting[r], e.of) \in Seq(Ordinal)
            BY <2>1
        <3> QED BY <1>7, <2>1, <3>1 DEF Request, ServeNext
    <2>3. UNCHANGED <<started, recorded, runtime>>
        BY <1>7 DEF Request, ServeNext
    <2> HIDE DEF r
    <2>4. /\ \A x \in agenda' : x.at \in Nat /\ x.of \in Ordinal
          /\ DOMAIN waiting' = Resource /\ \A s \in Resource : waiting'[s] \in Seq(Ordinal)
        BY <2>1, <2>2, ServeKeeps
    <2> QED BY <1>3, <2>3, <2>4 DEF SimInv
<1>8. ASSUME NEW e \in agenda, Start(e) PROVE SimInv'
    <2>1. /\ After(e, <<"served">>, e.of, manifest[e.of].service)
          /\ started' = [started EXCEPT ![e.of] = e.at]
          /\ UNCHANGED <<waiting, recorded, runtime>>
        BY <1>8 DEF Start
    <2>2. \A x \in agenda' : x.at \in Nat /\ x.of \in Ordinal
        BY <2>1, <1>3, <1>4, AfterKeeps
    <2>3. started' \in [Ordinal -> Nat]
        BY <1>3, <2>1
    <2> QED BY <1>3, <2>1, <2>2, <2>3 DEF SimInv
<1>9. ASSUME NEW e \in agenda, Starve(e) \/ FinishLate(e) \/ RunRaises(e) PROVE SimInv'
    <2>1. \E kinds : After(e, kinds, e.of, 0)
        BY <1>9, Zenon DEF Starve, FinishLate, RunRaises, Leave
    <2>2. UNCHANGED <<waiting, started, recorded>> /\ (runtime' = runtime \/ runtime' = "raised")
        BY <1>9 DEF Starve, FinishLate, RunRaises
    <2>3. \A x \in agenda' : x.at \in Nat /\ x.of \in Ordinal
        BY <2>1, <1>3, AfterKeeps
    <2> QED BY <1>3, <2>2, <2>3 DEF SimInv
<1>10. ASSUME NEW e \in agenda, Finish(e) PROVE SimInv'
    <2>1. /\ recorded' = [i \in DOMAIN recorded \cup {e.of} |->
                 IF i = e.of THEN [ordinal |-> i, start |-> started[i], finish |-> e.at]
                             ELSE recorded[i]]
          /\ UNCHANGED <<waiting, started, runtime>>
          /\ After(e, <<"released">>, e.of, 0) /\ runtime = "running"
        BY <1>10, Zenon DEF Finish, Leave, Occurs
    <2>2. \A x \in agenda' : x.at \in Nat /\ x.of \in Ordinal
        BY <2>1, <1>3, AfterKeeps
    <2>3. ASSUME NEW i \in DOMAIN recorded' PROVE recorded'[i] \in DecisionType
        <3>1. CASE i = e.of
            BY <3>1, <2>1, <1>3 DEF DecisionType
        <3>2. CASE i # e.of
            BY <3>2, <2>1, <1>3
        <3> QED BY <3>1, <3>2
    <2> QED BY <1>3, <2>1, <2>2, <2>3 DEF SimInv
<1> QED BY <1>2, <1>5, <1>6, <1>7, <1>8, <1>9, <1>10, Zenon DEF Simulate

(* A trace an adapter hands in, if it still has a row for each proposal.   *)
LEMMA AlteredHasRows ==
    ASSUME NEW t \in [Ordinal -> RowType], NEW u \in Altered(t), Len(u) = Count
    PROVE  u \in [Ordinal -> RowType]
<1>1. \A k \in Ordinal : t[k] \in RowType /\ k \in Int
    BY CountIs DEF Ordinal
<1>2. ASSUME NEW k \in Ordinal, NEW by \in {-1, 1},
             u = [t EXCEPT ![k].start = @ + by, ![k].finish = @ + by]
      PROVE  u \in [Ordinal -> RowType]
    <2> DEFINE q == [of |-> t[k].of, rank |-> t[k].rank, resource |-> t[k].resource,
                     start |-> t[k].start + by, finish |-> t[k].finish + by]
    <2>1. q \in RowType
        BY <1>1 DEF RowType
    <2>2. DOMAIN u = Ordinal /\ u[k] = q /\ \A i \in Ordinal : i # k => u[i] = t[i]
        BY <1>1, <1>2 DEF RowType
    <2>3. u = [i \in Ordinal |-> u[i]]
        BY <1>2
    <2> HIDE DEF q
    <2> QED BY <1>1, <2>1, <2>2, <2>3
<1>3. ASSUME NEW k \in Ordinal, u = [t EXCEPT ![k].finish = @ + 1]
      PROVE  u \in [Ordinal -> RowType]
    <2>1. t[k] \in [of : Int, rank : Int, resource : Resource, start : Int, finish : Int]
        BY <1>1 DEF RowType
    <2> DEFINE later == t[k].finish + 1
    <2>2. later \in Int
        BY <2>1
    <2>3. [t[k] EXCEPT !.finish = later] \in RowType
        <3> HIDE DEF later
        <3> QED BY <2>1, <2>2, Zenon DEF RowType
    <2>4. u = [t EXCEPT ![k] = [t[k] EXCEPT !.finish = @ + 1]]
        BY <1>3
    <2> QED BY <2>3, <2>4
<1>4. ASSUME NEW k \in Ordinal, NEW r \in Resource, u = [t EXCEPT ![k].resource = r]
      PROVE  u \in [Ordinal -> RowType]
    BY <1>1, <1>4 DEF RowType
<1>5. ASSUME NEW k \in Ordinal, NEW i \in Ordinal \cup {Count + 1}, u = [t EXCEPT ![k].of = i]
      PROVE  u \in [Ordinal -> RowType]
    <2>1. i \in Int
        BY CountIs DEF Ordinal
    <2> QED BY <1>1, <1>5, <2>1 DEF RowType
<1>6. ASSUME NEW k \in Ordinal, NEW j \in Ordinal,
             u = [t EXCEPT ![k] = [t[j] EXCEPT !.rank = k], ![j] = [t[k] EXCEPT !.rank = j]]
      PROVE  u \in [Ordinal -> RowType]
    <2>1. [t[j] EXCEPT !.rank = k] \in RowType /\ [t[k] EXCEPT !.rank = j] \in RowType
        BY <1>1 DEF RowType
    <2> QED BY <1>6, <2>1
<1>7. u # SubSeq(t, 1, Count - 1)
    <2>1. t \in Seq(RowType) /\ Len(t) = Count
        BY CountIs DEF Ordinal
    <2>2. Len(SubSeq(t, 1, Count - 1)) = Count - 1
        BY <2>1, CountIs
    <2> QED BY <2>2, CountIs
<1>8. CASE u \in Moved(t)
    <2> DEFINE Sets == {{[t EXCEPT ![k].start = @ + by, ![k].finish = @ + by] : by \in {-1, 1}} :
                           k \in Ordinal}
    <2>1. Moved(t) = UNION Sets
        BY DEF Moved
    <2>2. PICK S \in Sets : u \in S
        <3> HIDE DEF Sets
        <3> QED BY <1>8, <2>1
    <2>3. PICK k \in Ordinal :
              u \in {[t EXCEPT ![k].start = @ + by, ![k].finish = @ + by] : by \in {-1, 1}}
        BY <2>2, Zenon
    <2>4. PICK by \in {-1, 1} : u = [t EXCEPT ![k].start = @ + by, ![k].finish = @ + by]
        BY <2>3, Zenon
    <2> QED BY <1>2, <2>4, Zenon
<1>9. CASE u \in Stretched(t)
    BY <1>3, <1>9 DEF Stretched
<1>10. CASE u \in Reassigned(t)
    BY <1>4, <1>10 DEF Reassigned
<1>11. CASE u \in Misnamed(t)
    BY <1>5, <1>11 DEF Misnamed
<1>12. CASE u \in Swapped(t)
    BY <1>6, <1>12 DEF Swapped
<1>13. u # SubSeq(t, 1, Count - 1) => \/ u \in Moved(t) \/ u \in Stretched(t)
           \/ u \in Reassigned(t) \/ u \in Misnamed(t) \/ u \in Swapped(t)
    BY Zenon DEF Altered
<1> QED BY <1>7, <1>8, <1>9, <1>10, <1>11, <1>12, <1>13, Zenon

LEMMA QualifyStep ==
    ASSUME PlanInv, SimInv, Qualify
    PROVE  TraceInv'
<1> DEFINE s == SimulatedTrace
<1>1. answers' \in Answers(s) /\ runtime = "planned"
    BY DEF Qualify
<1>2. ASSUME NEW k \in Ordinal PROVE s[k] \in RowType
    <2>1. order[k] \in Ordinal
        BY OrderIs DEF PlanInv
    <2>2. recorded[order[k]] \in DecisionType
        BY <1>1, <2>1 DEF SimInv
    <2> DEFINE d == recorded[order[k]]
    <2>3. d.ordinal \in Ordinal /\ d.start \in Nat /\ d.finish \in Nat
        BY <2>2 DEF DecisionType
    <2>4. manifest[d.ordinal].resource \in Resource
        BY <2>3 DEF PlanInv, ManifestInv, Numbered
    <2>5. k \in Int /\ d.ordinal \in Int
        BY <2>3, CountIs DEF Ordinal
    <2>6. s[k] = [of |-> d.ordinal, rank |-> k, resource |-> manifest[d.ordinal].resource,
                  start |-> d.start, finish |-> d.finish]
        BY DEF SimulatedTrace, Row
    <2> HIDE DEF d, s
    <2> QED BY <2>3, <2>4, <2>5, <2>6 DEF RowType
<1>3. s \in [Ordinal -> RowType]
    BY <1>2 DEF SimulatedTrace
<1> HIDE DEF s
<1>4. ASSUME NEW pair \in Answers(s), NEW u \in Rows(pair)
      PROVE  u = s \/ u \in Altered(s)
    <2>1. pair = <<s, s>> \/ \E v \in Altered(s) : pair = <<v, v>> \/ pair = <<s, v>>
        BY DEF Answers
    <2>2. \A v, w : Rows(<<v, w>>) = {v, w}
        <3> SUFFICES ASSUME NEW v, NEW w PROVE Rows(<<v, w>>) = {v, w}
            OBVIOUS
        <3>1. Rows(<<v, w>>) = {<<v, w>>[k] : k \in 1..2}
            BY DEF Rows
        <3>2. 1..2 = {1, 2}
            OBVIOUS
        <3> QED BY <3>1, <3>2
    <2> QED BY <2>1, <2>2
<1>5. \A u \in Rows(answers') : Len(u) = Count => u \in [Ordinal -> RowType]
    BY <1>1, <1>3, <1>4, AlteredHasRows
<1> QED BY <1>5 DEF TraceInv, Rows

LEMMA ScheduleNextInv == ScheduleInv /\ [Next]_vars => ScheduleInv'
<1> SUFFICES ASSUME ScheduleInv, [Next]_vars PROVE ScheduleInv'
    OBVIOUS
<1>1. CASE NeverPlanned
    <2>1. ~ReferenceNext /\ ~Simulate /\ ~Qualify
        BY <1>1 DEF NeverPlanned, ReferenceNext, PlanNext, ExceedCeiling, ReturnTrace, Simulate,
                    AwaitReady, Request, Start, Starve, Finish, FinishLate, ServeNext, RunRaises,
                    RunReturns, Occurs, Qualify
    <2>2. UNCHANGED <<plan, runtime, decisions, answers>>
        BY <2>1, Zenon DEF Next, PlanBoth, PlanRaises, vars, referenceVars, given, simVars,
                           qualificationVars
    <2> QED BY <1>1, <2>2 DEF ScheduleInv, NeverPlanned
<1>2. CASE PlanInv /\ SimInv /\ TraceInv
    <2>1. ASSUME UNCHANGED simVars PROVE SimInv'
        BY <1>2, <2>1 DEF SimInv, simVars
    <2>2. ASSUME UNCHANGED referenceVars PROVE PlanInv'
        BY <1>2, <2>2, SamePlan DEF referenceVars, given
    <2>3. ASSUME answers' = answers PROVE TraceInv'
        BY <1>2, <2>3 DEF TraceInv
    <2>4. CASE PlanBoth /\ UNCHANGED qualificationVars
        <3>1. CASE ReferenceNext /\ UNCHANGED simVars
            BY <1>2, <2>1, <2>3, <2>4, <3>1, ReferenceStep DEF ScheduleInv, qualificationVars
        <3>2. CASE Simulate
            BY <1>2, <2>3, <2>4, <3>2, SimulateStep DEF ScheduleInv, qualificationVars
        <3> QED BY <2>4, <3>1, <3>2 DEF PlanBoth
    <2>5. CASE PlanRaises
        BY <2>1, <2>2, <2>3, <2>5 DEF PlanRaises, ScheduleInv
    <2>6. CASE Qualify
        BY <1>2, <2>1, <2>2, <2>6, QualifyStep DEF Qualify, ScheduleInv
    <2>7. CASE UNCHANGED vars
        BY <2>1, <2>2, <2>3, <2>7 DEF vars, qualificationVars, ScheduleInv
    <2> QED BY <2>4, <2>5, <2>6, <2>7 DEF Next
<1> QED BY <1>1, <1>2 DEF ScheduleInv

LEMMA ScheduleInvariance == Spec => []ScheduleInv
BY ScheduleInitInv, ScheduleNextInv, PTL DEF Spec

-----------------------------------------------------------------------------
(* queue_policy "deterministic_fifo" of plan_with_reference_scheduler:     *)
(* whatever the manifest, the resources and their capacities, a resource   *)
(* never starts a proposal before one that goes before it in the           *)
(* normalised order, nor a command of a cassette before one that is two or *)
(* more attempts ahead of it.                                              *)
THEOREM FirstInIsFirstStarted == Spec => []NoOvertaking
<1>1. PlanInv => NoOvertaking
    <2> SUFFICES ASSUME PlanInv, NEW d \in Made, NEW e \in Made, ResourceOf(d) = ResourceOf(e)
                 PROVE  /\ Before(manifest, d.ordinal, e.ordinal) => d.start <= e.start
                        /\ source = "cassette" /\ d.ordinal + 2 <= e.ordinal =>
                              d.start <= e.start
        BY DEF NoOvertaking
    <2>1. PICK j \in 1..Len(decisions) : d = decisions[j]
        BY DEF Made
    <2>2. PICK k \in 1..Len(decisions) : e = decisions[k]
        BY DEF Made
    <2>3. Len(decisions) \in Nat /\ Len(decisions) <= Count
        BY DEF PlanInv, Works
    <2>4. j \in Ordinal /\ k \in Ordinal
        BY <2>3, CountIs DEF Ordinal
    <2>5. d.ordinal = order[j] /\ e.ordinal = order[k]
        BY <2>1, <2>2 DEF PlanInv, Works, Decides
    <2>6. Before(manifest, d.ordinal, e.ordinal) => d.start <= e.start
        <3>1. Before(manifest, d.ordinal, e.ordinal) => j < k
            BY <2>4, <2>5, OrderIs DEF PlanInv
        <3> QED BY <3>1, <2>1, <2>2 DEF PlanInv, Works, InOrder
    <2>7. ASSUME source = "cassette", d.ordinal + 2 <= e.ordinal
          PROVE  Before(manifest, d.ordinal, e.ordinal)
        <3>1. d.ordinal \in Ordinal /\ e.ordinal \in Ordinal
            BY <2>4, <2>5, OrderIs DEF PlanInv
        <3>2. /\ manifest[d.ordinal].ready = (d.ordinal - 1) \div 2
              /\ manifest[e.ordinal].ready = (e.ordinal - 1) \div 2
            BY <3>1, <2>7 DEF PlanInv, ManifestInv
        <3>3. d.ordinal \in Nat /\ e.ordinal \in Nat /\ d.ordinal >= 1 /\ e.ordinal >= 1
            BY <3>1, CountIs DEF Ordinal
        <3>4. \A a, b \in Nat : a >= 1 /\ b >= 1 /\ a + 2 <= b => (a - 1) \div 2 < (b - 1) \div 2
            OBVIOUS
        <3>5. manifest[d.ordinal].ready < manifest[e.ordinal].ready
            BY <3>2, <3>3, <3>4, <2>7
        <3> QED BY <3>5 DEF Before
    <2> QED BY <2>6, <2>7
<1>2. NeverPlanned => NoOvertaking
    BY DEF NeverPlanned, NoOvertaking, Made
<1> QED BY <1>1, <1>2, ScheduleInvariance, PTL DEF ScheduleInv

(* The same scheduler wastes no capacity: at every tick at which a         *)
(* proposal is ready and not yet started, its resource works on as many    *)
(* others as it can.                                                       *)
THEOREM WaitingMeansFull == Spec => []NoIdleWait
<1>1. PlanInv => NoIdleWait
    BY DEF PlanInv, Works, WaitsForAFull, NoIdleWait, Made, MadeOf
<1>2. NeverPlanned => NoIdleWait
    BY DEF NeverPlanned, NoIdleWait, Made
<1> QED BY <1>1, <1>2, ScheduleInvariance, PTL DEF ScheduleInv

LEMMA PassedIsFeasible ==
    ASSUME Numbered(manifest), NEW t \in [Ordinal -> RowType], Passes(t)
    PROVE  /\ \A i \in Ordinal : \E row \in Rows(t) :
                  row.of = i /\ row.start >= manifest[i].ready
           /\ Cardinality(Rows(t)) = Count
           /\ \A r \in Resource : \A tick \in 0..MaxFinish :
                  Cardinality({row \in Rows(t) : manifest[row.of].resource = r
                                   /\ row.start <= tick /\ tick < row.finish})
                      <= Capacity[r]
<1> DEFINE of == [k \in Ordinal |-> t[k].of]
<1>1. Len(t) = Count /\ 1..Len(t) = Ordinal
    BY DEF Passes, Ordinal
<1>2. \A k \in Ordinal : Binds(t, k) /\ Timely(t[k], k)
    BY <1>1 DEF Passes
<1>3. \A k \in Ordinal : of[k] \in Ordinal /\ of[k] = t[k].of
    BY <1>2 DEF Binds
<1>4. ASSUME NEW j \in Ordinal, NEW k \in Ordinal, of[j] = of[k] PROVE j = k
    <2>1. t[j].of = t[k].of /\ j \in Int /\ k \in Int /\ j >= 1 /\ k >= 1
        BY <1>4, CountIs DEF Ordinal
    <2>2. ~(j < k) /\ ~(k < j)
        <3>1. j < k => j \in 1..(k - 1)
            BY <2>1
        <3>2. k < j => k \in 1..(j - 1)
            BY <2>1
        <3> QED BY <2>1, <3>1, <3>2, <1>2 DEF Binds
    <2> QED BY <2>1, <2>2
<1>5. of \in Surjection(Ordinal, Ordinal)
    <2>1. of \in Injection(Ordinal, Ordinal)
        BY <1>3, <1>4 DEF Injection, IsInjective
    <2> QED BY <2>1, CountIs, FS_Injection
<1>6. \A i \in Ordinal : \E row \in Rows(t) : row.of = i /\ row.start >= manifest[i].ready
    <2> SUFFICES ASSUME NEW i \in Ordinal
                 PROVE  \E row \in Rows(t) : row.of = i /\ row.start >= manifest[i].ready
        OBVIOUS
    <2>1. PICK k \in Ordinal : of[k] = i
        BY <1>5 DEF Surjection
    <2>2. t[k] \in Rows(t) /\ t[k].of = i
        BY <1>1, <1>3, <2>1 DEF Rows
    <2>3. t[k].start >= manifest[t[k].of].ready
        BY <1>2 DEF Timely
    <2> QED BY <2>2, <2>3
<1>7. Cardinality(Rows(t)) = Count
    <2> DEFINE f == [k \in Ordinal |-> t[k]]
    <2>1. f \in Surjection(Ordinal, Rows(t))
        BY <1>1 DEF Surjection, Rows
    <2>2. \A j, k \in Ordinal : f[j] = f[k] => j = k
        BY <1>3, <1>4
    <2> HIDE DEF f
    <2>3. f \in Injection(Ordinal, Rows(t))
        BY <2>1, <2>2 DEF Injection, Surjection, IsInjective
    <2> QED BY <2>1, <2>3, CountIs, FS_Surjection
<1>8. ASSUME NEW r \in Resource, NEW tick \in 0..MaxFinish
      PROVE  Cardinality({row \in Rows(t) : manifest[row.of].resource = r
                              /\ row.start <= tick /\ tick < row.finish}) <= Capacity[r]
    <2> DEFINE W == {row \in Rows(t) : manifest[row.of].resource = r
                         /\ row.start <= tick /\ tick < row.finish}
               K == {k \in Ordinal : t[k] \in W}
    <2>1. K \subseteq Ordinal /\ IsFiniteSet(K) /\ Cardinality(K) \in Nat
        <3>1. K \in SUBSET Ordinal
            OBVIOUS
        <3>2. IsFiniteSet(K)
            <4> HIDE DEF K
            <4> QED BY <3>1, CountIs, FS_Subset
        <3> QED BY <3>1, <3>2, FS_CardinalityType
    <2>2. \A k \in K : /\ manifest[t[k].of].resource = r
                       /\ t[k].start <= tick /\ tick < t[k].finish
        OBVIOUS
    <2>3. W = {t[k] : k \in K}
        BY <1>1 DEF Rows
    <2> HIDE DEF W, K
    <2>4. IsFiniteSet(W) /\ Cardinality(W) <= Cardinality(K)
        <3> DEFINE g == [k \in K |-> t[k]]
        <3>1. g \in Surjection(K, W)
            BY <2>3 DEF Surjection
        <3> HIDE DEF g
        <3> QED BY <2>1, <3>1, FS_Surjection
    <2>5. Cardinality(W) \in Nat
        BY <2>4, FS_CardinalityType
    <2>6. CASE K = {}
        <3>1. Cardinality(K) = 0
            BY <2>6, FS_EmptySet
        <3> QED BY <3>1, <2>4, <2>5, CapacityIs DEF W
    <2>7. CASE K # {}
        <3> DEFINE late == {tick - t[k].start : k \in K}
        <3>1. \A k \in K : /\ t[k].start \in Int /\ t[k].finish \in Int
                           /\ t[k].start >= 0 /\ t[k].resource = r
            <4> SUFFICES ASSUME NEW k \in K
                         PROVE  /\ t[k].start \in Int /\ t[k].finish \in Int
                                /\ t[k].start >= 0 /\ t[k].resource = r
                OBVIOUS
            <4>1. t[k].start \in Int /\ t[k].finish \in Int /\ t[k].of \in Ordinal
                BY <2>1, <1>3 DEF RowType
            <4>2. /\ t[k].start >= manifest[t[k].of].ready
                  /\ t[k].resource = manifest[t[k].of].resource
                BY <1>2, <2>1 DEF Timely
            <4>3. manifest[t[k].of].ready \in Nat
                BY <4>1 DEF Numbered
            <4> QED BY <4>1, <4>2, <4>3, <2>2
        <3>2. late \subseteq Nat /\ late # {}
            BY <3>1, <2>2, <2>7, CountIs
        <3>3. PICK x \in late : \A y \in late : x <= y
            <4> HIDE DEF late
            <4> QED BY <3>2, LeastExists
        <3>4. PICK k \in K : x = tick - t[k].start
            BY <3>3
        <3>5. ASSUME NEW j \in K PROVE t[j].start <= t[k].start
            <4>1. x <= tick - t[j].start
                BY <3>3
            <4> QED BY <4>1, <3>4, <3>1, CountIs
        <3>6. K \in SUBSET At(t, r, t[k].start)
            <4> SUFFICES ASSUME NEW j \in K PROVE j \in At(t, r, t[k].start)
                OBVIOUS
            <4>1. j \in Intervals(t, r)
                BY <1>1, <1>2, <2>1, <3>1 DEF Intervals
            <4>2. t[j].start <= t[k].start /\ t[k].start < t[j].finish
                BY <3>5, <3>1, <2>2, CountIs
            <4> QED BY <4>1, <4>2 DEF At
        <3>7. At(t, r, t[k].start) \in SUBSET Ordinal
            BY <1>1 DEF At, Intervals
        <3>8. /\ IsFiniteSet(At(t, r, t[k].start))
              /\ Cardinality(At(t, r, t[k].start)) \in Nat
              /\ Cardinality(K) <= Cardinality(At(t, r, t[k].start))
            <4>1. IsFiniteSet(At(t, r, t[k].start))
                BY <3>7, CountIs, FS_Subset
            <4> QED BY <4>1, <3>6, FS_Subset, FS_CardinalityType
        <3>9. ~Overloaded(t, r, t[k].start)
            BY <1>1, <1>2, <2>1, <3>1 DEF Passes, Overloads
        <3>10. Cardinality(At(t, r, t[k].start)) <= Capacity[r]
            BY <3>9, <3>8, CapacityIs DEF Overloaded
        <3> QED BY <3>10, <3>8, <2>4, <2>5, <2>1, CapacityIs DEF W
    <2> QED BY <2>6, <2>7
<1> QED BY <1>6, <1>7, <1>8

(* validate_scheduler_trace looks at the ticks of starts and ends only and *)
(* at no planner: whatever trace an adapter hands in, one it finds nothing *)
(* wrong with can be worked, at every tick.                                *)
THEOREM PassedTracesCanBeWorked == Spec => []PassMeansFeasible
<1>1. PlanInv /\ SimInv /\ TraceInv => PassMeansFeasible
    <2> SUFFICES ASSUME PlanInv, TraceInv, NEW t \in Rows(answers), Passes(t)
                 PROVE  Numbered(manifest) /\ t \in [Ordinal -> RowType]
        BY PassedIsFeasible DEF PassMeansFeasible
    <2> QED BY DEF PlanInv, ManifestInv, TraceInv, Passes
<1>2. NeverPlanned => PassMeansFeasible
    BY DEF NeverPlanned, PassMeansFeasible, Rows
<1> QED BY <1>1, <1>2, ScheduleInvariance, PTL DEF ScheduleInv

-----------------------------------------------------------------------------
(* What the simulation is compared with: when the proposals of K start,    *)
(* those that the reference scheduler has put on slots or, if it raises,   *)
(* these and the one on which it does.                                     *)

Res(i) == manifest[i].resource

ReadyAt(i) == manifest[i].ready

ServiceOf(i) == manifest[i].service

(* What r works on at tick t. *)
Working(K, S, r, t) ==
    {k \in K : Res(k) = r /\ S[k] <= t /\ t < S[k] + ServiceOf(k)}

(* A trace of the first proposals of the order, served first in, first     *)
(* out, within the capacities, none of them waiting beside a free place:   *)
(* there is only one.                                                      *)
Traces(K, S) ==
    /\ K \subseteq Ordinal
    /\ \A k \in K : S[k] \in Nat /\ S[k] >= ReadyAt(k)
    /\ \A k \in K : \A i \in Ordinal : Before(manifest, i, k) => i \in K
    /\ \A j, k \in K : Res(j) = Res(k) /\ Before(manifest, j, k) => S[j] <= S[k]
    /\ \A r \in Resource : \A t \in Nat : Cardinality(Working(K, S, r, t)) <= Capacity[r]
    /\ \A k \in K : \A t \in ReadyAt(k)..(S[k] - 1) :
          Cardinality(Working(K, S, Res(k), t)) = Capacity[Res(k)]

LEMMA ReferenceTraces ==
    ASSUME ManifestInv, NEW ds, NEW sl, Works(ds, sl)
    PROVE  \E K, S : /\ Traces(K, S)
                     /\ K = {order[k] : k \in 1..Len(ds)}
                     /\ \A k \in 1..Len(ds) : S[order[k]] = ds[k].start
<1> DEFINE n == Len(ds)
           K == {order[k] : k \in 1..n}
           S == [i \in K |-> ds[CHOOSE k \in 1..n : order[k] = i].start]
<1>1. /\ n \in Nat /\ n <= Count
      /\ \A k \in 1..n : /\ k \in Ordinal /\ k \in Nat /\ ds[k].ordinal = order[k]
                         /\ ds[k].start >= Ready(k)
                         /\ ds[k].finish = ds[k].start + manifest[order[k]].service
                         /\ ds[k].start \in Nat
    <2>1. n \in Nat /\ n <= Count /\ ds \in Seq(DecisionType)
        BY DEF Works
    <2>2. \A k \in 1..n : ds[k] \in DecisionType
        BY <2>1
    <2>3. \A k \in 1..n : k \in Ordinal /\ k \in Nat
        BY <2>1, CountIs DEF Ordinal
    <2> HIDE DEF n
    <2>4. \A k \in 1..n : ds[k].start \in Nat
        BY <2>2 DEF DecisionType
    <2> QED BY <2>1, <2>3, <2>4 DEF Works, Decides, n
<1>2. \A j, k \in Ordinal : /\ order[j] \in Ordinal
                            /\ j < k <=> Before(manifest, order[j], order[k])
                            /\ order[j] = order[k] => j = k
    <2> SUFFICES ASSUME NEW j \in Ordinal, NEW k \in Ordinal
                 PROVE  /\ order[j] \in Ordinal
                        /\ j < k <=> Before(manifest, order[j], order[k])
                        /\ order[j] = order[k] => j = k
        OBVIOUS
    <2>1. j \in Int /\ k \in Int
        BY CountIs DEF Ordinal
    <2>2. /\ j < k => order[j] # order[k]
          /\ k < j => order[k] # order[j]
        BY OrderIs
    <2> QED BY <2>1, <2>2, OrderIs
<1> HIDE DEF n
<1>3. \A k \in 1..n : order[k] \in K /\ S[order[k]] = ds[k].start
    <2> SUFFICES ASSUME NEW k \in 1..n PROVE order[k] \in K /\ S[order[k]] = ds[k].start
        OBVIOUS
    <2>1. order[k] \in K
        OBVIOUS
    <2>2. (CHOOSE j \in 1..n : order[j] = order[k]) = k
        BY <1>1, <1>2
    <2> QED BY <2>1, <2>2
<1>4. \A i \in K : \E k \in 1..n : i = order[k]
    OBVIOUS
<1> HIDE DEF K, S
<1>5. \A r, t : Cardinality(Working(K, S, r, t)) = Cardinality(Active(MadeOf(ds), r, t))
    <2> SUFFICES ASSUME NEW r, NEW t
                 PROVE  Cardinality(Working(K, S, r, t)) = Cardinality(Active(MadeOf(ds), r, t))
        OBVIOUS
    <2> DEFINE A == Active(MadeOf(ds), r, t)
               W == Working(K, S, r, t)
               f == [d \in A |-> d.ordinal]
    <2>1. IsFiniteSet(A)
        <3>1. IsFiniteSet(MadeOf(ds))
            <4> DEFINE g == [k \in 1..n |-> ds[k]]
            <4>1. g \in Surjection(1..n, MadeOf(ds))
                BY DEF Surjection, MadeOf, n
            <4>2. IsFiniteSet(1..n)
                BY <1>1, FS_Interval
            <4> QED BY <4>1, <4>2, FS_Surjection
        <3>2. A \in SUBSET MadeOf(ds)
            BY DEF Active
        <3> QED BY <3>1, <3>2, FS_Subset
    <2>2. \A d \in A : \E k \in 1..n : d = ds[k]
        BY DEF Active, MadeOf, n
    <2>3. ASSUME NEW k \in 1..n PROVE ds[k] \in A <=> order[k] \in W
        <3>1. ds[k] \in MadeOf(ds)
            BY DEF MadeOf, n
        <3>2. ds[k] \in A <=> /\ manifest[order[k]].resource = r /\ ds[k].start <= t
                              /\ t < ds[k].start + manifest[order[k]].service
            BY <3>1, <1>1 DEF Active, ResourceOf
        <3>3. order[k] \in W <=> /\ manifest[order[k]].resource = r /\ ds[k].start <= t
                                 /\ t < ds[k].start + manifest[order[k]].service
            BY <1>3 DEF Working, Res, ServiceOf
        <3> QED BY <3>2, <3>3
    <2>4. f \in Surjection(A, W)
        <3>1. \A d \in A : d.ordinal \in W
            BY <2>2, <2>3, <1>1
        <3>2. ASSUME NEW i \in W PROVE \E d \in A : d.ordinal = i
            <4>1. PICK k \in 1..n : i = order[k]
                BY <1>4 DEF Working
            <4> QED BY <4>1, <2>3, <1>1
        <3> HIDE DEF A, W
        <3> QED BY <3>1, <3>2 DEF Surjection
    <2>5. \A d, e \in A : f[d] = f[e] => d = e
        <3> SUFFICES ASSUME NEW d \in A, NEW e \in A, d.ordinal = e.ordinal PROVE d = e
            OBVIOUS
        <3>1. PICK j \in 1..n : d = ds[j]
            BY <2>2
        <3>2. PICK k \in 1..n : e = ds[k]
            BY <2>2
        <3> QED BY <3>1, <3>2, <1>1, <1>2
    <2> HIDE DEF A, W, f
    <2>6. f \in Injection(A, W)
        BY <2>4, <2>5 DEF Injection, Surjection, IsInjective
    <2> QED BY <2>1, <2>4, <2>6, FS_Surjection DEF A, W
<1>6. K \subseteq Ordinal
    BY <1>1, <1>2, <1>4
<1>7. \A i \in K : S[i] \in Nat /\ S[i] >= ReadyAt(i)
    BY <1>1, <1>3, <1>4 DEF ReadyAt, Ready
<1>8. ASSUME NEW i \in K, NEW j \in Ordinal, Before(manifest, j, i) PROVE j \in K
    <2>1. PICK k \in 1..n : i = order[k]
        BY <1>4
    <2>2. PICK m \in Ordinal : order[m] = j
        BY EveryProposalHasAPlace
    <2>3. m < k
        BY <2>1, <2>2, <1>1, <1>2, <1>8
    <2>4. m \in 1..n
        BY <2>3, <1>1, CountIs DEF Ordinal
    <2> QED BY <2>2, <2>4, <1>3
<1>9. ASSUME NEW i \in K, NEW j \in K, Res(i) = Res(j), Before(manifest, i, j)
      PROVE  S[i] <= S[j]
    <2>1. PICK k \in 1..n, m \in 1..n : i = order[k] /\ j = order[m]
        BY <1>4
    <2>2. k < m
        BY <2>1, <1>1, <1>2, <1>9
    <2>3. ResourceOf(ds[k]) = ResourceOf(ds[m])
        BY <2>1, <1>1, <1>9 DEF ResourceOf, Res
    <2>4. ds[k].start <= ds[m].start
        BY <2>2, <2>3 DEF Works, InOrder, n
    <2> QED BY <2>1, <2>4, <1>3
<1>10. ASSUME NEW r \in Resource, NEW t \in Nat
       PROVE  Cardinality(Working(K, S, r, t)) <= Capacity[r]
    BY <1>5 DEF Works, WithinCapacity
<1>11. ASSUME NEW i \in K, NEW t \in ReadyAt(i)..(S[i] - 1)
       PROVE  Cardinality(Working(K, S, Res(i), t)) = Capacity[Res(i)]
    <2>1. PICK k \in 1..n : i = order[k]
        BY <1>4
    <2>2. ds[k] \in MadeOf(ds) /\ t \in manifest[ds[k].ordinal].ready..(ds[k].start - 1)
        BY <2>1, <1>1, <1>3 DEF MadeOf, n, ReadyAt
    <2>3. ResourceOf(ds[k]) = Res(i)
        BY <2>1, <1>1 DEF ResourceOf, Res
    <2> QED BY <2>2, <2>3, <1>5 DEF Works, WaitsForAFull
<1>12. Traces(K, S)
    BY <1>6, <1>7, <1>8, <1>9, <1>10, <1>11 DEF Traces
<1> QED BY <1>3, <1>12 DEF K, n

-----------------------------------------------------------------------------
(* The simulation, in terms of the stages of the proposals' processes: at  *)
(* tick t, with the events ag, of which md were made, the queues wt, the   *)
(* users us, the starts st and the decisions rc.                           *)

Queueing == {"initialize", "ready"}

Using == {"granted", "served"}

Begun == {"granted", "served", "done"}

Stage == {"initialize", "ready", "waiting", "granted", "served", "done"}

(* Each process has the one event that its stage waits for; processes ask  *)
(* for their resources in the normalised order.                            *)
AgendaInv(stage, t, ag, md, st) ==
    /\ stage \in [Ordinal -> Stage]
    /\ IsFiniteSet(ag) /\ md \in Nat
    /\ \A e \in ag :
          /\ e.of \in Ordinal /\ e.at \in Nat /\ e.age \in Nat /\ e.age <= md /\ e.at >= t
          /\ e.rank = IF e.kind = "initialize" THEN Urgent ELSE Normal
          /\ e.kind \in Queueing \cup Using \cup {"released"}
          /\ e.kind # "released" => stage[e.of] = e.kind
          /\ e.kind = "initialize" => e.at = 0
          /\ e.kind = "ready" => e.at = ReadyAt(e.of) /\ e.at > 0
          /\ e.kind \in {"granted", "released"} => e.at = t
          /\ e.kind = "served" => e.at = st[e.of] + ServiceOf(e.of)
    /\ \A i \in Ordinal : stage[i] \in Queueing \cup Using =>
          \E e \in ag : e.of = i /\ e.kind = stage[i]
    /\ \A e, f \in ag :
          /\ e.kind # "released" /\ f.kind # "released" /\ e.of = f.of => e = f
          /\ e.age = f.age => e = f
          /\ e.kind = f.kind /\ e.kind \in Queueing /\ e.at = f.at
                /\ Before(manifest, e.of, f.of) => e.age < f.age

StageInv(stage, t, st, rc) ==
    /\ stage \in [Ordinal -> Stage] /\ st \in [Ordinal -> Nat] /\ t \in Nat
    /\ \A i, j \in Ordinal : Before(manifest, i, j) =>
          /\ stage[i] = "initialize" => stage[j] = "initialize"
          /\ stage[i] = "ready" => stage[j] \in Queueing
          /\ Res(i) = Res(j) /\ stage[j] \in Begun => stage[i] \in Begun
    /\ \A i \in Ordinal :
          /\ stage[i] \notin Queueing => ReadyAt(i) <= t
          /\ stage[i] \in {"served", "done"} => st[i] <= t /\ st[i] - ReadyAt(i) <= MaxWait
          /\ stage[i] = "done" =>
                /\ rc[i] = [ordinal |-> i, start |-> st[i], finish |-> st[i] + ServiceOf(i)]
                /\ st[i] + ServiceOf(i) <= t /\ st[i] + ServiceOf(i) <= MaxFinish
    /\ DOMAIN rc = {i \in Ordinal : stage[i] = "done"}

QueueInv(stage, wt) ==
    /\ wt \in [Resource -> Seq(Ordinal)]
    /\ \A r \in Resource : \A p \in DOMAIN wt[r] :
          Res(wt[r][p]) = r /\ stage[wt[r][p]] = "waiting"
    /\ \A i \in Ordinal : stage[i] = "waiting" =>
          \E p \in DOMAIN wt[Res(i)] : wt[Res(i)][p] = i
    /\ \A r \in Resource : \A p, q \in DOMAIN wt[r] :
          p < q => Before(manifest, wt[r][p], wt[r][q])

UsersOf(stage) == [r \in Resource |-> {i \in Ordinal : Res(i) = r /\ stage[i] \in Using}]

Releases(ag, r) == {e \in ag : e.kind = "released" /\ Res(e.of) = r}

(* A resource that has a queue has room only for what has been released    *)
(* and is still to be granted.                                             *)
RoomInv(ag, wt, us) ==
    \A r \in Resource : wt[r] # << >> =>
        Cardinality(us[r]) + Cardinality(Releases(ag, r)) >= Capacity[r]

(* So far the simulation does as the trace says.                           *)
Follows(K, S, stage, t, st) ==
    \A k \in K :
        /\ S[k] < t => stage[k] \in Begun
        /\ stage[k] = "granted" => S[k] = t
        /\ stage[k] \in {"served", "done"} => S[k] = st[k]

LEMMA ProposalIs ==
    ASSUME ManifestInv, NEW i \in Ordinal
    PROVE  /\ ReadyAt(i) \in Nat /\ ServiceOf(i) \in Nat /\ ServiceOf(i) >= 1
           /\ Res(i) \in Resource
BY CountIs DEF ManifestInv, Numbered, ReadyAt, ServiceOf, Res

LEMMA OrderIsTotal ==
    ASSUME ManifestInv, NEW i \in Ordinal, NEW j \in Ordinal
    PROVE  /\ ~Before(manifest, i, i)
           /\ Before(manifest, i, j) => ~Before(manifest, j, i) /\ ReadyAt(i) <= ReadyAt(j)
           /\ i # j => Before(manifest, i, j) \/ Before(manifest, j, i)
           /\ \A k \in Ordinal : Before(manifest, i, j) /\ Before(manifest, j, k) =>
                 Before(manifest, i, k)
BY BeforeIsTotal, Zenon DEF ManifestInv, ReadyAt

LEMMA UsersAreFinite ==
    ASSUME NEW stage, NEW r \in Resource
    PROVE  /\ UsersOf(stage)[r] \subseteq Ordinal /\ IsFiniteSet(UsersOf(stage)[r])
           /\ Cardinality(UsersOf(stage)[r]) \in Nat
<1>1. UsersOf(stage)[r] \in SUBSET Ordinal
    BY DEF UsersOf
<1>2. IsFiniteSet(UsersOf(stage)[r])
    BY <1>1, CountIs, FS_Subset
<1> QED BY <1>1, <1>2, FS_CardinalityType

LEMMA WorkingIsFinite ==
    ASSUME NEW K, NEW S, K \subseteq Ordinal, NEW r, NEW t
    PROVE  /\ Working(K, S, r, t) \subseteq K /\ IsFiniteSet(Working(K, S, r, t))
           /\ Cardinality(Working(K, S, r, t)) \in Nat
<1>1. Working(K, S, r, t) \in SUBSET Ordinal /\ Working(K, S, r, t) \subseteq K
    BY DEF Working
<1>2. IsFiniteSet(Working(K, S, r, t))
    BY <1>1, CountIs, FS_Subset
<1> QED BY <1>1, <1>2, FS_CardinalityType

(* The next event: nothing happens before it that the trace has.           *)
LEMMA TimeGoesOn ==
    ASSUME ManifestInv, NEW K, NEW S, NEW stage, NEW t, NEW ag, NEW md, NEW wt, NEW st, NEW rc,
           Traces(K, S), AgendaInv(stage, t, ag, md, st), StageInv(stage, t, st, rc),
           QueueInv(stage, wt), RoomInv(ag, wt, UsersOf(stage)), Follows(K, S, stage, t, st),
           NEW e \in ag, \A f \in ag \ {e} : Sooner(e, f)
    PROVE  /\ AgendaInv(stage, e.at, ag, md, st) /\ StageInv(stage, e.at, st, rc)
           /\ Follows(K, S, stage, e.at, st)
           /\ e.at \in Nat /\ \A f \in ag : e.at <= f.at
<1>1. /\ e.at \in Nat /\ t \in Nat /\ t <= e.at
      /\ \A f \in ag : f.at \in Nat /\ e.at <= f.at
    <2> SUFFICES ASSUME NEW f \in ag
                 PROVE  /\ e.at \in Nat /\ t \in Nat /\ t <= e.at
                        /\ f.at \in Nat /\ e.at <= f.at
        OBVIOUS
    <2>1. e.at \in Nat /\ f.at \in Nat /\ t \in Nat /\ t <= e.at
        BY DEF AgendaInv, StageInv
    <2>2. f = e \/ e.at <= f.at
        BY <2>1 DEF Sooner
    <2> QED BY <2>1, <2>2
<1>2. \A f \in ag : f.kind \in {"granted", "released"} => e.at = t
    <2> SUFFICES ASSUME NEW f \in ag, f.kind \in {"granted", "released"} PROVE e.at = t
        OBVIOUS
    <2>1. f.at = t
        BY DEF AgendaInv
    <2> QED BY <2>1, <1>1
<1>3. AgendaInv(stage, e.at, ag, md, st)
    BY <1>1, <1>2 DEF AgendaInv
<1>4. StageInv(stage, e.at, st, rc)
    <2>1. \A i \in Ordinal : /\ ReadyAt(i) \in Nat /\ ServiceOf(i) \in Nat /\ st[i] \in Nat
        BY ProposalIs DEF StageInv
    <2>2. ASSUME NEW i \in Ordinal
          PROVE  /\ stage[i] \notin Queueing => ReadyAt(i) <= e.at
                 /\ stage[i] \in {"served", "done"} =>
                       st[i] <= e.at /\ st[i] - ReadyAt(i) <= MaxWait
                 /\ stage[i] = "done" =>
                       /\ rc[i] = [ordinal |-> i, start |-> st[i],
                                   finish |-> st[i] + ServiceOf(i)]
                       /\ st[i] + ServiceOf(i) <= e.at /\ st[i] + ServiceOf(i) <= MaxFinish
        BY <1>1, <2>1 DEF StageInv
    <2> QED BY <1>1, <2>2 DEF StageInv
<1>5. ASSUME NEW k \in K, stage[k] = "granted" PROVE e.at = t
    <2>1. k \in Ordinal
        BY DEF Traces
    <2>2. \E f \in ag : f.kind = "granted"
        BY <2>1, <1>5 DEF AgendaInv, Using
    <2> QED BY <2>2, <1>2
<1>6. ASSUME NEW k \in K, S[k] < e.at, stage[k] \notin Begun PROVE FALSE
    <2> DEFINE r == Res(k)
               U == UsersOf(stage)[r]
               W == Working(K, S, r, S[k])
    <2>1. /\ k \in Ordinal /\ r \in Resource /\ S[k] \in Nat /\ ReadyAt(k) <= S[k]
          /\ ReadyAt(k) \in Nat /\ ServiceOf(k) \in Nat /\ ServiceOf(k) >= 1
        BY ProposalIs DEF Traces
    <2>2. t <= S[k] /\ t < e.at
        BY <1>1, <1>6, <2>1 DEF Follows
    <2>3. stage[k] = "waiting"
        <3>1. ASSUME NEW f \in ag, f.of = k, f.kind = stage[k], stage[k] \in Queueing
              PROVE  FALSE
            <4>1. f.at = 0 \/ f.at = ReadyAt(k)
                BY <3>1 DEF AgendaInv, Queueing
            <4> QED BY <4>1, <1>1, <1>6, <2>1, <2>2
        <3>2. stage[k] \notin Queueing
            BY <2>1, <3>1 DEF AgendaInv
        <3>3. stage[k] \in Stage
            BY <2>1 DEF StageInv
        <3> QED BY <1>6, <3>2, <3>3 DEF Stage, Queueing, Begun
    <2>4. wt[r] # << >>
        <3>1. \E p \in DOMAIN wt[r] : wt[r][p] = k
            BY <2>1, <2>3 DEF QueueInv
        <3> QED BY <3>1
    <2>5. Cardinality(U) >= Capacity[r]
        <3>1. Releases(ag, r) = {}
            BY <1>2, <2>2, <1>1 DEF Releases
        <3>2. Cardinality(Releases(ag, r)) = 0
            BY <3>1, FS_EmptySet
        <3>3. Cardinality(U) + 0 >= Capacity[r]
            BY <2>1, <2>4, <3>2 DEF RoomInv
        <3> QED BY <3>3, <2>1, UsersAreFinite
    <2>6. ASSUME NEW i \in U PROVE i \in W
        <3>1. i \in Ordinal /\ Res(i) = r /\ stage[i] \in Using
            BY <2>1, <1>6 DEF UsersOf
        <3>2. stage[i] = "served"
            <4>1. \E f \in ag : f.of = i /\ f.kind = stage[i]
                BY <3>1 DEF AgendaInv
            <4> QED BY <4>1, <3>1, <1>1, <1>2, <2>2 DEF Using
        <3>3. i \in K
            <4>1. i # k /\ ~Before(manifest, k, i)
                BY <2>1, <3>1, <3>2, <1>6 DEF StageInv, Begun
            <4>2. Before(manifest, i, k)
                BY <4>1, <2>1, <3>1, OrderIsTotal
            <4> QED BY <4>2, <3>1 DEF Traces
        <3>4. S[i] = st[i] /\ st[i] <= t /\ st[i] \in Nat
            BY <3>1, <3>2, <3>3 DEF Follows, StageInv
        <3>5. S[k] < st[i] + ServiceOf(i)
            <4>1. PICK f \in ag : f.of = i /\ f.kind = "served"
                BY <3>1, <3>2 DEF AgendaInv, Using
            <4>2. f.at = st[i] + ServiceOf(i)
                BY <4>1 DEF AgendaInv
            <4> QED BY <4>2, <1>1, <1>6, <2>1
        <3> QED BY <3>1, <3>3, <3>4, <3>5, <2>1, <2>2, <1>1 DEF Working
    <2>7. k \in W /\ k \notin U
        <3>1. k \in W
            BY <2>1 DEF Working
        <3>2. k \notin U
            BY <2>1, <2>3 DEF UsersOf, Using
        <3> QED BY <3>1, <3>2
    <2>8. IsFiniteSet(W) /\ Cardinality(W) <= Capacity[r] /\ Cardinality(W) \in Nat
        BY <2>1, WorkingIsFinite DEF Traces
    <2>9. IsFiniteSet(U) /\ Cardinality(U) \in Nat
        BY <2>1, UsersAreFinite
    <2> HIDE DEF U, W
    <2>10. U \in SUBSET W /\ U # W
        BY <2>6, <2>7
    <2>11. Cardinality(U) < Cardinality(W)
        <3>1. Cardinality(U) <= Cardinality(W) /\ Cardinality(U) # Cardinality(W)
            BY <2>8, <2>10, FS_Subset
        <3> QED BY <3>1, <2>8, <2>9
    <2> QED BY <2>1, <2>5, <2>8, <2>9, <2>11, CapacityIs
<1>7. Follows(K, S, stage, e.at, st)
    BY <1>5, <1>6 DEF Follows
<1> QED BY <1>1, <1>3, <1>4, <1>7

(* The request that is granted is the one that the trace starts now. *)
LEMMA GrantedOnTime ==
    ASSUME ManifestInv, NEW K, NEW S, NEW stage, NEW t, NEW st, NEW rc,
           Traces(K, S), StageInv(stage, t, st, rc), Follows(K, S, stage, t, st),
           NEW k \in K, stage[k] = "waiting",
           \A i \in Ordinal : Before(manifest, i, k) /\ Res(i) = Res(k) => stage[i] \in Begun,
           Cardinality(UsersOf(stage)[Res(k)]) < Capacity[Res(k)]
    PROVE  S[k] = t
<1> DEFINE r == Res(k)
           U == UsersOf(stage)[r]
           W == Working(K, S, r, t)
<1>1. /\ k \in Ordinal /\ r \in Resource /\ S[k] \in Nat /\ t \in Nat /\ ReadyAt(k) <= t
      /\ K \subseteq Ordinal /\ ReadyAt(k) \in Nat
    BY ProposalIs DEF Traces, StageInv, Queueing
<1>2. t <= S[k]
    BY <1>1 DEF Follows, Begun
<1> SUFFICES ASSUME t < S[k] PROVE FALSE
    BY <1>1, <1>2
<1>3. Cardinality(W) = Capacity[r]
    <2>1. t \in ReadyAt(k)..(S[k] - 1)
        BY <1>1
    <2> QED BY <2>1 DEF Traces
<1>4. ASSUME NEW i \in W PROVE i \in U
    <2>1. i \in K /\ i \in Ordinal /\ Res(i) = r /\ S[i] <= t /\ t < S[i] + ServiceOf(i)
        BY <1>1 DEF Working
    <2>2. S[i] \in Nat /\ ServiceOf(i) \in Nat
        BY <2>1, ProposalIs DEF Traces
    <2>3. ~Before(manifest, k, i)
        BY <2>1, <2>2, <1>1 DEF Traces
    <2>4. Before(manifest, i, k)
        BY <2>1, <2>2, <2>3, <1>1, OrderIsTotal
    <2>5. stage[i] \in Begun
        BY <2>1, <2>4
    <2>6. ASSUME stage[i] = "done" PROVE FALSE
        <3>1. st[i] + ServiceOf(i) <= t
            BY <2>1, <2>6 DEF StageInv
        <3>2. S[i] = st[i]
            BY <2>1, <2>6 DEF Follows
        <3> QED BY <3>1, <3>2, <2>1, <2>2, <1>1
    <2> QED BY <2>1, <2>5, <2>6, <1>1 DEF UsersOf, Begun, Using
<1>5. IsFiniteSet(U) /\ Cardinality(U) \in Nat
    BY <1>1, UsersAreFinite
<1> HIDE DEF U, W
<1>6. W \in SUBSET U
    BY <1>4
<1>7. Cardinality(W) <= Cardinality(U)
    BY <1>5, <1>6, FS_Subset
<1> QED BY <1>1, <1>3, <1>5, <1>7, CapacityIs DEF U

-----------------------------------------------------------------------------
(* What a step does to the agenda. *)

(* An event of a process is over, and its stage is to change. *)
LEMMA EventOver ==
    ASSUME NEW stage, NEW t, NEW ag, NEW md, NEW st, AgendaInv(stage, t, ag, md, st),
           NEW e \in ag, e.kind # "released", NEW s \in {"waiting", "done"},
           NEW next, next = [stage EXCEPT ![e.of] = s]
    PROVE  AgendaInv(next, t, ag \ {e}, md, st)
<1>1. e.of \in Ordinal /\ stage \in [Ordinal -> Stage] /\ s \in Stage
    BY DEF AgendaInv, Stage
<1>2. /\ next \in [Ordinal -> Stage] /\ next[e.of] = s
      /\ \A i \in Ordinal : i # e.of => next[i] = stage[i]
    BY <1>1
<1>3. IsFiniteSet(ag \ {e})
    BY FS_Difference DEF AgendaInv
<1>4. \A f \in ag \ {e} : f.kind # "released" => f.of # e.of
    BY DEF AgendaInv
<1>5. ASSUME NEW f \in ag \ {e}, f.kind # "released" PROVE next[f.of] = f.kind
    BY <1>2, <1>4, <1>5 DEF AgendaInv
<1>6. ASSUME NEW i \in Ordinal, next[i] \in Queueing \cup Using
      PROVE  \E f \in ag \ {e} : f.of = i /\ f.kind = next[i]
    <2>1. i # e.of
        BY <1>2, <1>6 DEF Queueing, Using
    <2>2. next[i] = stage[i]
        BY <2>1, <1>2
    <2> QED BY <2>1, <2>2, <1>6 DEF AgendaInv
<1>7. \A f \in ag \ {e} :
          /\ f.of \in Ordinal /\ f.at \in Nat /\ f.age \in Nat /\ f.age <= md /\ f.at >= t
          /\ f.rank = IF f.kind = "initialize" THEN Urgent ELSE Normal
          /\ f.kind \in Queueing \cup Using \cup {"released"}
          /\ f.kind = "initialize" => f.at = 0
          /\ f.kind = "ready" => f.at = ReadyAt(f.of) /\ f.at > 0
          /\ f.kind \in {"granted", "released"} => f.at = t
          /\ f.kind = "served" => f.at = st[f.of] + ServiceOf(f.of)
    BY DEF AgendaInv
<1> QED BY <1>2, <1>3, <1>5, <1>6, <1>7, Zenon DEF AgendaInv

LEMMA ReleaseOver ==
    ASSUME NEW stage, NEW t, NEW ag, NEW md, NEW st, AgendaInv(stage, t, ag, md, st),
           NEW e \in ag, e.kind = "released"
    PROVE  AgendaInv(stage, t, ag \ {e}, md, st)
<1>1. IsFiniteSet(ag \ {e})
    BY FS_Difference DEF AgendaInv
<1>2. ASSUME NEW i \in Ordinal, stage[i] \in Queueing \cup Using
      PROVE  \E f \in ag \ {e} : f.of = i /\ f.kind = stage[i]
    BY <1>2 DEF AgendaInv, Queueing, Using
<1> QED BY <1>1, <1>2, Zenon DEF AgendaInv

(* A new event of a process that has none. *)
LEMMA NewEvent ==
    ASSUME ManifestInv, NEW stage, NEW t, NEW ag, NEW md, NEW st,
           AgendaInv(stage, t, ag, md, st), t \in Nat,
           NEW i \in Ordinal, stage[i] \in {"waiting", "done"},
           NEW at \in Nat, at >= t, NEW kind \in {"ready", "granted", "served"},
           kind = "ready" => /\ at = ReadyAt(i) /\ at > 0
                             /\ \A f \in ag : f.kind = "ready" => ~Before(manifest, i, f.of),
           kind = "granted" => at = t,
           NEW after, \A j \in Ordinal : j # i => after[j] = st[j],
           kind = "served" => at = after[i] + ServiceOf(i),
           NEW n, n = [at |-> at, rank |-> Normal, age |-> md + 1, kind |-> kind, of |-> i],
           NEW next, next = [stage EXCEPT ![i] = kind]
    PROVE  AgendaInv(next, t, ag \cup {n}, md + 1, after)
<1>1. /\ n.of = i /\ n.at = at /\ n.age = md + 1 /\ n.kind = kind /\ n.rank = Normal
      /\ md \in Nat /\ md + 1 \in Nat /\ kind # "released" /\ kind # "initialize"
    BY DEF AgendaInv
<1>2. /\ next \in [Ordinal -> Stage] /\ next[i] = kind
      /\ \A j \in Ordinal : j # i => next[j] = stage[j]
    <2>1. stage \in [Ordinal -> Stage] /\ kind \in Stage
        BY DEF AgendaInv, Stage
    <2> QED BY <2>1
<1>3. \A f \in ag : f.kind # "released" => f.of # i
    BY DEF AgendaInv, Queueing, Using
<1>4. IsFiniteSet(ag \cup {n})
    BY FS_AddElement DEF AgendaInv
<1>5. ASSUME NEW f \in ag
      PROVE  /\ f.of \in Ordinal /\ f.at \in Nat /\ f.age \in Nat /\ f.age <= md + 1 /\ f.at >= t
             /\ f.age # md + 1
             /\ f.rank = IF f.kind = "initialize" THEN Urgent ELSE Normal
             /\ f.kind \in Queueing \cup Using \cup {"released"}
             /\ f.kind # "released" => next[f.of] = f.kind
             /\ f.kind = "initialize" => f.at = 0
             /\ f.kind = "ready" => f.at = ReadyAt(f.of) /\ f.at > 0
             /\ f.kind \in {"granted", "released"} => f.at = t
             /\ f.kind = "served" => f.at = after[f.of] + ServiceOf(f.of)
    <2>1. /\ f.of \in Ordinal /\ f.at \in Nat /\ f.age \in Nat /\ f.age <= md /\ f.at >= t
          /\ f.rank = IF f.kind = "initialize" THEN Urgent ELSE Normal
          /\ f.kind \in Queueing \cup Using \cup {"released"}
          /\ f.kind # "released" => stage[f.of] = f.kind
          /\ f.kind = "initialize" => f.at = 0
          /\ f.kind = "ready" => f.at = ReadyAt(f.of) /\ f.at > 0
          /\ f.kind \in {"granted", "released"} => f.at = t
          /\ f.kind = "served" => f.at = st[f.of] + ServiceOf(f.of)
        BY Zenon DEF AgendaInv
    <2>2. f.age <= md + 1 /\ f.age # md + 1
        BY <2>1, <1>1
    <2>3. f.kind # "released" => next[f.of] = f.kind
        BY <2>1, <1>2, <1>3
    <2>4. f.kind = "served" => f.at = after[f.of] + ServiceOf(f.of)
        BY <2>1, <1>3
    <2> QED BY <2>1, <2>2, <2>3, <2>4, Zenon
<1>6. /\ n.of \in Ordinal /\ n.at \in Nat /\ n.age \in Nat /\ n.age <= md + 1 /\ n.at >= t
      /\ n.rank = IF n.kind = "initialize" THEN Urgent ELSE Normal
      /\ n.kind \in Queueing \cup Using \cup {"released"}
      /\ n.kind # "released" => next[n.of] = n.kind
      /\ n.kind = "initialize" => n.at = 0
      /\ n.kind = "ready" => n.at = ReadyAt(n.of) /\ n.at > 0
      /\ n.kind \in {"granted", "released"} => n.at = t
      /\ n.kind = "served" => n.at = after[n.of] + ServiceOf(n.of)
    <2>1. n.kind \in Queueing \cup Using \cup {"released"}
        BY <1>1 DEF Queueing, Using
    <2> QED BY <2>1, <1>1, <1>2
<1>7. ASSUME NEW j \in Ordinal, next[j] \in Queueing \cup Using
      PROVE  \E f \in ag \cup {n} : f.of = j /\ f.kind = next[j]
    <2>1. CASE j = i
        BY <2>1, <1>1, <1>2
    <2>2. CASE j # i
        <3>1. next[j] = stage[j]
            BY <2>2, <1>2
        <3>2. \E f \in ag : f.of = j /\ f.kind = stage[j]
            BY <3>1, <1>7 DEF AgendaInv
        <3> QED BY <3>1, <3>2
    <2> QED BY <2>1, <2>2
<1>8. ASSUME NEW f \in ag
      PROVE  /\ f.kind # "released" => f.of # n.of
             /\ f.age # n.age
             /\ f.kind = n.kind /\ n.kind \in Queueing => ~Before(manifest, n.of, f.of)
             /\ f.age < n.age
    <2>1. f.age <= md /\ f.age \in Nat
        BY DEF AgendaInv
    <2>2. n.kind \in Queueing => n.kind = "ready"
        BY <1>1 DEF Queueing
    <2> QED BY <2>1, <2>2, <1>1, <1>3
<1>9. ~Before(manifest, n.of, n.of)
    BY <1>1, OrderIsTotal
<1>10. ASSUME NEW f \in ag \cup {n}, NEW g \in ag \cup {n}
       PROVE  /\ f.kind # "released" /\ g.kind # "released" /\ f.of = g.of => f = g
              /\ f.age = g.age => f = g
              /\ f.kind = g.kind /\ f.kind \in Queueing /\ f.at = g.at
                    /\ Before(manifest, f.of, g.of) => f.age < g.age
    <2>1. CASE f \in ag /\ g \in ag
        BY <2>1 DEF AgendaInv
    <2>2. CASE f = n /\ g = n
        BY <2>2, <1>9
    <2>3. CASE f \in ag /\ g = n
        BY <2>3, <1>8
    <2>4. CASE f = n /\ g \in ag
        BY <2>4, <1>8
    <2> QED BY <2>1, <2>2, <2>3, <2>4
<1>11. \A f \in ag \cup {n} :
          /\ f.of \in Ordinal /\ f.at \in Nat /\ f.age \in Nat /\ f.age <= md + 1 /\ f.at >= t
          /\ f.rank = IF f.kind = "initialize" THEN Urgent ELSE Normal
          /\ f.kind \in Queueing \cup Using \cup {"released"}
          /\ f.kind # "released" => next[f.of] = f.kind
          /\ f.kind = "initialize" => f.at = 0
          /\ f.kind = "ready" => f.at = ReadyAt(f.of) /\ f.at > 0
          /\ f.kind \in {"granted", "released"} => f.at = t
          /\ f.kind = "served" => f.at = after[f.of] + ServiceOf(f.of)
    <2> SUFFICES ASSUME NEW f \in ag \cup {n}
                 PROVE  /\ f.of \in Ordinal /\ f.at \in Nat /\ f.age \in Nat
                        /\ f.age <= md + 1 /\ f.at >= t
                        /\ f.rank = IF f.kind = "initialize" THEN Urgent ELSE Normal
                        /\ f.kind \in Queueing \cup Using \cup {"released"}
                        /\ f.kind # "released" => next[f.of] = f.kind
                        /\ f.kind = "initialize" => f.at = 0
                        /\ f.kind = "ready" => f.at = ReadyAt(f.of) /\ f.at > 0
                        /\ f.kind \in {"granted", "released"} => f.at = t
                        /\ f.kind = "served" => f.at = after[f.of] + ServiceOf(f.of)
        OBVIOUS
    <2>1. f \in ag \/ f = n
        OBVIOUS
    <2> QED BY <2>1, <1>5, <1>6, Zenon
<1> QED BY <1>1, <1>2, <1>4, <1>7, <1>10, <1>11, Zenon DEF AgendaInv

LEMMA NewRelease ==
    ASSUME NEW stage, NEW t, NEW ag, NEW md, NEW st, AgendaInv(stage, t, ag, md, st),
           t \in Nat, NEW i \in Ordinal,
           NEW n, n = [at |-> t, rank |-> Normal, age |-> md + 1, kind |-> "released", of |-> i]
    PROVE  AgendaInv(stage, t, ag \cup {n}, md + 1, st) /\ n \notin ag
<1>1. /\ n.of = i /\ n.at = t /\ n.age = md + 1 /\ n.kind = "released" /\ n.rank = Normal
      /\ md \in Nat /\ md + 1 \in Nat
    BY DEF AgendaInv
<1>2. IsFiniteSet(ag \cup {n})
    BY FS_AddElement DEF AgendaInv
<1>3. \A f \in ag : f.age \in Nat /\ f.age <= md + 1 /\ f.age # n.age
    BY <1>1 DEF AgendaInv
<1>4. \A f \in ag \cup {n} :
          /\ f.of \in Ordinal /\ f.at \in Nat /\ f.age \in Nat /\ f.age <= md + 1 /\ f.at >= t
          /\ f.rank = IF f.kind = "initialize" THEN Urgent ELSE Normal
          /\ f.kind \in Queueing \cup Using \cup {"released"}
          /\ f.kind # "released" => stage[f.of] = f.kind
          /\ f.kind = "initialize" => f.at = 0
          /\ f.kind = "ready" => f.at = ReadyAt(f.of) /\ f.at > 0
          /\ f.kind \in {"granted", "released"} => f.at = t
          /\ f.kind = "served" => f.at = st[f.of] + ServiceOf(f.of)
    BY <1>1, <1>3 DEF AgendaInv
<1>5. ASSUME NEW j \in Ordinal, stage[j] \in Queueing \cup Using
      PROVE  \E f \in ag \cup {n} : f.of = j /\ f.kind = stage[j]
    BY <1>5 DEF AgendaInv
<1>6. ASSUME NEW f \in ag \cup {n}, NEW g \in ag \cup {n}
      PROVE  /\ f.kind # "released" /\ g.kind # "released" /\ f.of = g.of => f = g
             /\ f.age = g.age => f = g
             /\ f.kind = g.kind /\ f.kind \in Queueing /\ f.at = g.at
                   /\ Before(manifest, f.of, g.of) => f.age < g.age
    BY <1>1, <1>3 DEF AgendaInv, Queueing
<1>7. stage \in [Ordinal -> Stage]
    BY DEF AgendaInv
<1> QED BY <1>1, <1>2, <1>3, <1>4, <1>5, <1>6, <1>7, Zenon DEF AgendaInv

-----------------------------------------------------------------------------
(* What a step does to the stages and the queues. *)

(* The processes ask in the normalised order. *)
LEMMA NextToAsk ==
    ASSUME ManifestInv, NEW stage, NEW ag, NEW md, NEW st, NEW e \in ag,
           AgendaInv(stage, e.at, ag, md, st), \A f \in ag \ {e} : Sooner(e, f)
    PROVE  /\ e.kind = "initialize" =>
                \A j \in Ordinal : Before(manifest, j, e.of) => stage[j] # "initialize"
           /\ e.kind = "ready" \/ (e.kind = "initialize" /\ ReadyAt(e.of) = 0) =>
                /\ \A j \in Ordinal : Before(manifest, j, e.of) => stage[j] \notin Queueing
                /\ ReadyAt(e.of) <= e.at
<1>1. /\ e.of \in Ordinal /\ e.at \in Nat /\ e.age \in Nat
      /\ e.kind = "initialize" => e.at = 0 /\ e.rank = Urgent
      /\ e.kind = "ready" => e.at = ReadyAt(e.of) /\ e.at > 0 /\ e.rank = Normal
    BY DEF AgendaInv
<1>2. ASSUME NEW f \in ag, f.kind = e.kind, e.kind \in Queueing,
             Before(manifest, f.of, e.of), f.at = e.at
      PROVE  FALSE
    <2>1. f.age < e.age /\ f.age \in Nat /\ f # e /\ f.rank = e.rank
        BY <1>1, <1>2, OrderIsTotal DEF AgendaInv
    <2>2. Sooner(e, f)
        BY <2>1
    <2>3. e.rank \in {0, 1}
        BY <1>1, <1>2 DEF Queueing, Urgent, Normal
    <2> QED BY <2>1, <2>2, <2>3, <1>1, <1>2 DEF Sooner
<1>3. ASSUME NEW f \in ag PROVE e.at <= f.at /\ f.at \in Nat
    <2>1. f.at \in Nat
        BY DEF AgendaInv
    <2> QED BY <2>1, <1>1 DEF Sooner
<1>4. ASSUME NEW j \in Ordinal, Before(manifest, j, e.of), e.kind = "initialize",
             stage[j] = "initialize"
      PROVE  FALSE
    <2>1. PICK f \in ag : f.of = j /\ f.kind = "initialize"
        BY <1>4 DEF AgendaInv, Queueing
    <2>2. f.at = e.at
        BY <2>1, <1>1, <1>4 DEF AgendaInv
    <2> QED BY <2>1, <2>2, <1>2, <1>4 DEF Queueing
<1>5. ASSUME NEW j \in Ordinal, Before(manifest, j, e.of), stage[j] \in Queueing,
             e.kind = "ready" \/ (e.kind = "initialize" /\ ReadyAt(e.of) = 0)
      PROVE  FALSE
    <2>1. PICK f \in ag : f.of = j /\ f.kind = stage[j]
        BY <1>5 DEF AgendaInv
    <2>2. ReadyAt(j) <= ReadyAt(e.of) /\ ReadyAt(j) \in Nat /\ ReadyAt(e.of) \in Nat
        BY <1>1, <1>5, OrderIsTotal, ProposalIs
    <2>3. CASE stage[j] = "initialize"
        <3>1. f.at = 0
            BY <2>1, <2>3 DEF AgendaInv
        <3>2. e.kind # "ready"
            BY <3>1, <1>1, <1>3
        <3> QED BY <3>2, <2>3, <1>4, <1>5
    <2>4. CASE stage[j] = "ready"
        <3>1. f.at = ReadyAt(j) /\ f.at > 0
            BY <2>1, <2>4 DEF AgendaInv
        <3>2. e.kind = "ready"
            BY <3>1, <2>2, <1>5
        <3>3. f.at = e.at
            BY <3>1, <3>2, <2>2, <1>1, <1>3
        <3> QED BY <3>2, <3>3, <2>1, <2>4, <1>2, <1>5 DEF Queueing
    <2> QED BY <2>3, <2>4, <1>5 DEF Queueing
<1> QED BY <1>1, <1>4, <1>5

LEMMA Becomes ==
    ASSUME NEW stage \in [Ordinal -> Stage], NEW i \in Ordinal, NEW s \in Stage,
           NEW next, next = [stage EXCEPT ![i] = s]
    PROVE  /\ next \in [Ordinal -> Stage] /\ next[i] = s
           /\ \A j \in Ordinal : j # i => next[j] = stage[j]
OBVIOUS

LEMMA BecomesReady ==
    ASSUME NEW stage, NEW t, NEW st, NEW rc, StageInv(stage, t, st, rc),
           NEW i \in Ordinal, stage[i] = "initialize",
           \A j \in Ordinal : Before(manifest, j, i) => stage[j] # "initialize",
           NEW next, next = [stage EXCEPT ![i] = "ready"]
    PROVE  StageInv(next, t, st, rc)
<1>1. /\ next \in [Ordinal -> Stage] /\ next[i] = "ready"
      /\ \A j \in Ordinal : j # i => next[j] = stage[j]
    BY Becomes DEF StageInv, Stage
<1>2. \A j \in Ordinal : /\ next[j] \in Queueing <=> stage[j] \in Queueing
                         /\ next[j] \in Begun <=> stage[j] \in Begun
                         /\ \A s \in Begun : next[j] = s <=> stage[j] = s
    BY <1>1 DEF Queueing, Begun
<1>3. ASSUME NEW j \in Ordinal, NEW k \in Ordinal, Before(manifest, j, k)
      PROVE  /\ next[j] = "initialize" => next[k] = "initialize"
             /\ next[j] = "ready" => next[k] \in Queueing
             /\ Res(j) = Res(k) /\ next[k] \in Begun => next[j] \in Begun
    <2>1. /\ stage[j] = "initialize" => stage[k] = "initialize"
          /\ stage[j] = "ready" => stage[k] \in Queueing
          /\ Res(j) = Res(k) /\ stage[k] \in Begun => stage[j] \in Begun
        BY <1>3 DEF StageInv
    <2> QED BY <2>1, <1>1, <1>2, <1>3 DEF Queueing
<1>4. \A j \in Ordinal : /\ next[j] = "done" <=> stage[j] = "done"
                         /\ next[j] = "served" <=> stage[j] = "served"
    BY <1>1
<1> QED BY <1>1, <1>2, <1>3, <1>4 DEF StageInv

LEMMA BecomesWaiting ==
    ASSUME NEW stage, NEW t, NEW st, NEW rc, StageInv(stage, t, st, rc),
           NEW i \in Ordinal, stage[i] \in Queueing, ReadyAt(i) <= t,
           \A j \in Ordinal : Before(manifest, j, i) => stage[j] \notin Queueing,
           NEW next, next = [stage EXCEPT ![i] = "waiting"]
    PROVE  StageInv(next, t, st, rc)
<1>1. /\ next \in [Ordinal -> Stage] /\ next[i] = "waiting"
      /\ \A j \in Ordinal : j # i => next[j] = stage[j]
    BY Becomes DEF StageInv, Stage
<1>2. \A j \in Ordinal : /\ next[j] \in Queueing <=> j # i /\ stage[j] \in Queueing
                         /\ next[j] \in Begun <=> stage[j] \in Begun
    BY <1>1 DEF Queueing, Begun
<1>3. ASSUME NEW j \in Ordinal, NEW k \in Ordinal, Before(manifest, j, k)
      PROVE  /\ next[j] = "initialize" => next[k] = "initialize"
             /\ next[j] = "ready" => next[k] \in Queueing
             /\ Res(j) = Res(k) /\ next[k] \in Begun => next[j] \in Begun
    <2>1. /\ stage[j] = "initialize" => stage[k] = "initialize"
          /\ stage[j] = "ready" => stage[k] \in Queueing
          /\ Res(j) = Res(k) /\ stage[k] \in Begun => stage[j] \in Begun
        BY <1>3 DEF StageInv
    <2> QED BY <2>1, <1>1, <1>2, <1>3 DEF Queueing
<1>4. \A j \in Ordinal : /\ next[j] = "done" <=> stage[j] = "done"
                         /\ next[j] = "served" <=> stage[j] = "served"
                         /\ next[j] \notin Queueing => ReadyAt(j) <= t
    BY <1>1, <1>2 DEF StageInv, Queueing
<1> QED BY <1>1, <1>3, <1>4 DEF StageInv

LEMMA BecomesGranted ==
    ASSUME NEW stage, NEW t, NEW st, NEW rc, StageInv(stage, t, st, rc),
           NEW i \in Ordinal, stage[i] = "waiting",
           \A j \in Ordinal : Before(manifest, j, i) /\ Res(j) = Res(i) => stage[j] \in Begun,
           NEW next, next = [stage EXCEPT ![i] = "granted"]
    PROVE  StageInv(next, t, st, rc)
<1>1. /\ next \in [Ordinal -> Stage] /\ next[i] = "granted"
      /\ \A j \in Ordinal : j # i => next[j] = stage[j]
    BY Becomes DEF StageInv, Stage
<1>2. \A j \in Ordinal : /\ next[j] \in Queueing <=> stage[j] \in Queueing
                         /\ next[j] \in Begun <=> j = i \/ stage[j] \in Begun
    BY <1>1 DEF Queueing, Begun
<1>3. ASSUME NEW j \in Ordinal, NEW k \in Ordinal, Before(manifest, j, k)
      PROVE  /\ next[j] = "initialize" => next[k] = "initialize"
             /\ next[j] = "ready" => next[k] \in Queueing
             /\ Res(j) = Res(k) /\ next[k] \in Begun => next[j] \in Begun
    <2>1. /\ stage[j] = "initialize" => stage[k] = "initialize"
          /\ stage[j] = "ready" => stage[k] \in Queueing
          /\ Res(j) = Res(k) /\ stage[k] \in Begun => stage[j] \in Begun
        BY <1>3 DEF StageInv
    <2> QED BY <2>1, <1>1, <1>2, <1>3 DEF Queueing
<1>4. \A j \in Ordinal : /\ next[j] = "done" <=> stage[j] = "done"
                         /\ next[j] = "served" <=> stage[j] = "served"
    BY <1>1
<1> QED BY <1>1, <1>2, <1>3, <1>4 DEF StageInv

LEMMA BecomesServed ==
    ASSUME ManifestInv, NEW stage, NEW t, NEW st, NEW rc, StageInv(stage, t, st, rc),
           NEW i \in Ordinal, stage[i] = "granted", t - ReadyAt(i) <= MaxWait,
           NEW after, after = [st EXCEPT ![i] = t],
           NEW next, next = [stage EXCEPT ![i] = "served"]
    PROVE  StageInv(next, t, after, rc)
<1>1. /\ next \in [Ordinal -> Stage] /\ next[i] = "served"
      /\ \A j \in Ordinal : j # i => next[j] = stage[j]
    BY Becomes DEF StageInv, Stage
<1>2. /\ t \in Nat /\ after \in [Ordinal -> Nat] /\ after[i] = t
      /\ \A j \in Ordinal : j # i => after[j] = st[j]
    BY DEF StageInv
<1>3. \A j \in Ordinal : /\ next[j] \in Queueing <=> stage[j] \in Queueing
                         /\ next[j] \in Begun <=> stage[j] \in Begun
                         /\ next[j] = "done" <=> stage[j] = "done"
                         /\ next[j] = "ready" <=> stage[j] = "ready"
                         /\ next[j] = "initialize" <=> stage[j] = "initialize"
    BY <1>1 DEF Queueing, Begun
<1>4. ASSUME NEW j \in Ordinal, NEW k \in Ordinal, Before(manifest, j, k)
      PROVE  /\ next[j] = "initialize" => next[k] = "initialize"
             /\ next[j] = "ready" => next[k] \in Queueing
             /\ Res(j) = Res(k) /\ next[k] \in Begun => next[j] \in Begun
    BY <1>3, <1>4 DEF StageInv
<1>5. ASSUME NEW j \in Ordinal
      PROVE  /\ next[j] \notin Queueing => ReadyAt(j) <= t
             /\ next[j] \in {"served", "done"} =>
                   after[j] <= t /\ after[j] - ReadyAt(j) <= MaxWait
             /\ next[j] = "done" =>
                   /\ rc[j] = [ordinal |-> j, start |-> after[j],
                               finish |-> after[j] + ServiceOf(j)]
                   /\ after[j] + ServiceOf(j) <= t /\ after[j] + ServiceOf(j) <= MaxFinish
    <2>1. CASE j = i
        <3>1. ReadyAt(i) <= t
            BY DEF StageInv, Queueing
        <3>2. after[j] = t /\ next[j] = "served" /\ t <= t
            BY <2>1, <1>1, <1>2
        <3> QED BY <3>1, <3>2, <2>1
    <2>2. CASE j # i
        BY <2>2, <1>1, <1>2 DEF StageInv
    <2> QED BY <2>1, <2>2
<1>6. DOMAIN rc = {j \in Ordinal : next[j] = "done"}
    BY <1>3 DEF StageInv
<1> QED BY <1>1, <1>2, <1>4, <1>5, <1>6 DEF StageInv

LEMMA BecomesDone ==
    ASSUME ManifestInv, NEW stage, NEW t, NEW st, NEW rc, StageInv(stage, t, st, rc),
           NEW i \in Ordinal, stage[i] = "served",
           t = st[i] + ServiceOf(i), t <= MaxFinish,
           NEW after, DOMAIN after = DOMAIN rc \cup {i},
           after[i] = [ordinal |-> i, start |-> st[i], finish |-> t],
           \A j \in DOMAIN rc : j # i => after[j] = rc[j],
           NEW next, next = [stage EXCEPT ![i] = "done"]
    PROVE  StageInv(next, t, st, after)
<1>1. /\ next \in [Ordinal -> Stage] /\ next[i] = "done"
      /\ \A j \in Ordinal : j # i => next[j] = stage[j]
    BY Becomes DEF StageInv, Stage
<1>2. t \in Nat /\ st \in [Ordinal -> Nat]
    BY DEF StageInv
<1>3. \A j \in Ordinal : /\ next[j] \in Queueing <=> stage[j] \in Queueing
                         /\ next[j] \in Begun <=> stage[j] \in Begun
                         /\ next[j] = "done" <=> j = i \/ stage[j] = "done"
                         /\ next[j] = "ready" <=> stage[j] = "ready"
                         /\ next[j] = "initialize" <=> stage[j] = "initialize"
    BY <1>1 DEF Queueing, Begun
<1>4. ASSUME NEW j \in Ordinal, NEW k \in Ordinal, Before(manifest, j, k)
      PROVE  /\ next[j] = "initialize" => next[k] = "initialize"
             /\ next[j] = "ready" => next[k] \in Queueing
             /\ Res(j) = Res(k) /\ next[k] \in Begun => next[j] \in Begun
    BY <1>3, <1>4 DEF StageInv
<1>5. ASSUME NEW j \in Ordinal
      PROVE  /\ next[j] \notin Queueing => ReadyAt(j) <= t
             /\ next[j] \in {"served", "done"} => st[j] <= t /\ st[j] - ReadyAt(j) <= MaxWait
             /\ next[j] = "done" =>
                   /\ after[j] = [ordinal |-> j, start |-> st[j],
                                  finish |-> st[j] + ServiceOf(j)]
                   /\ st[j] + ServiceOf(j) <= t /\ st[j] + ServiceOf(j) <= MaxFinish
    <2>1. CASE j = i
        BY <2>1, <1>1, <1>2, <1>3 DEF StageInv
    <2>2. CASE j # i
        <3>1. next[j] = stage[j] /\ (stage[j] = "done" => j \in DOMAIN rc)
            BY <2>2, <1>1 DEF StageInv
        <3> QED BY <3>1, <2>2 DEF StageInv
    <2> QED BY <2>1, <2>2
<1>6. DOMAIN after = {j \in Ordinal : next[j] = "done"}
    BY <1>3 DEF StageInv
<1> QED BY <1>1, <1>2, <1>4, <1>5, <1>6 DEF StageInv

LEMMA Enqueued ==
    ASSUME ManifestInv, NEW stage, NEW t, NEW st, NEW rc, StageInv(stage, t, st, rc),
           NEW wt, QueueInv(stage, wt),
           NEW i \in Ordinal, stage[i] \in Queueing,
           NEW next, next = [stage EXCEPT ![i] = "waiting"],
           NEW after, after = [wt EXCEPT ![Res(i)] = Append(wt[Res(i)], i)]
    PROVE  QueueInv(next, after)
<1> DEFINE r == Res(i)
           q == Append(wt[r], i)
<1>1. /\ next \in [Ordinal -> Stage] /\ next[i] = "waiting"
      /\ \A j \in Ordinal : j # i => next[j] = stage[j]
    BY Becomes DEF StageInv, Stage
<1>2. r \in Resource /\ wt[r] \in Seq(Ordinal) /\ Len(wt[r]) \in Nat
    BY ProposalIs DEF QueueInv
<1>3. /\ after \in [Resource -> Seq(Ordinal)] /\ after[r] = q
      /\ \A s \in Resource : s # r => after[s] = wt[s]
    BY <1>2 DEF QueueInv
<1>4. /\ DOMAIN q = 1..(Len(wt[r]) + 1) /\ q[Len(wt[r]) + 1] = i
      /\ DOMAIN wt[r] = 1..Len(wt[r])
      /\ \A p \in 1..Len(wt[r]) : q[p] = wt[r][p]
    BY <1>2
<1>5. \A s \in Resource : \A p \in DOMAIN wt[s] :
          /\ wt[s][p] \in Ordinal /\ Res(wt[s][p]) = s /\ stage[wt[s][p]] = "waiting"
          /\ wt[s][p] # i
    <2> SUFFICES ASSUME NEW s \in Resource, NEW p \in DOMAIN wt[s]
                 PROVE  /\ wt[s][p] \in Ordinal /\ Res(wt[s][p]) = s
                        /\ stage[wt[s][p]] = "waiting" /\ wt[s][p] # i
        OBVIOUS
    <2>1. wt[s] \in Seq(Ordinal)
        BY DEF QueueInv
    <2>2. wt[s][p] \in Ordinal
        BY <2>1
    <2>3. Res(wt[s][p]) = s /\ stage[wt[s][p]] = "waiting"
        BY DEF QueueInv
    <2> QED BY <2>2, <2>3 DEF Queueing
<1>6. \A p \in DOMAIN wt[r] : Before(manifest, wt[r][p], i)
    <2> SUFFICES ASSUME NEW p \in DOMAIN wt[r] PROVE Before(manifest, wt[r][p], i)
        OBVIOUS
    <2>1. wt[r][p] \in Ordinal /\ stage[wt[r][p]] = "waiting" /\ wt[r][p] # i
        BY <1>2, <1>5
    <2>2. ~Before(manifest, i, wt[r][p])
        BY <2>1 DEF StageInv, Queueing
    <2> QED BY <2>1, <2>2, OrderIsTotal
<1> HIDE DEF q
<1>7. ASSUME NEW s \in Resource, NEW p \in DOMAIN after[s]
      PROVE  Res(after[s][p]) = s /\ next[after[s][p]] = "waiting"
    <2>1. CASE s # r
        BY <2>1, <1>1, <1>3, <1>5, <1>7
    <2>2. CASE s = r /\ p \in 1..Len(wt[r])
        BY <2>2, <1>1, <1>2, <1>3, <1>4, <1>5
    <2>3. CASE s = r /\ p = Len(wt[r]) + 1
        BY <2>3, <1>1, <1>3, <1>4
    <2>4. s = r => p \in 1..Len(wt[r]) \/ p = Len(wt[r]) + 1
        <3>1. s = r => p \in 1..(Len(wt[r]) + 1)
            BY <1>3, <1>4, <1>7
        <3> QED BY <3>1, <1>2
    <2> QED BY <2>1, <2>2, <2>3, <2>4
<1>8. ASSUME NEW j \in Ordinal, next[j] = "waiting"
      PROVE  \E p \in DOMAIN after[Res(j)] : after[Res(j)][p] = j
    <2>0. Res(j) \in Resource
        BY ProposalIs
    <2>1. CASE j = i
        <3>1. Len(wt[r]) + 1 \in DOMAIN q
            BY <1>2, <1>4
        <3> QED BY <2>1, <3>1, <1>3, <1>4
    <2>2. CASE j # i
        <3>1. PICK p \in DOMAIN wt[Res(j)] : wt[Res(j)][p] = j
            BY <2>2, <1>1, <1>8 DEF QueueInv
        <3>2. CASE Res(j) # r
            BY <3>1, <3>2, <2>0, <1>3
        <3>3. CASE Res(j) = r
            <4>1. p \in 1..Len(wt[r])
                BY <3>1, <3>3, <1>4
            <4>2. p \in DOMAIN q /\ q[p] = j
                BY <4>1, <3>1, <3>3, <1>2, <1>4
            <4> QED BY <4>2, <3>3, <1>3
        <3> QED BY <3>2, <3>3
    <2> QED BY <2>1, <2>2
<1>9. ASSUME NEW s \in Resource, NEW p \in DOMAIN after[s], NEW m \in DOMAIN after[s], p < m
      PROVE  Before(manifest, after[s][p], after[s][m])
    <2>1. CASE s # r
        BY <2>1, <1>3, <1>9 DEF QueueInv
    <2>2. CASE s = r
        <3>1. p \in 1..(Len(wt[r]) + 1) /\ m \in 1..(Len(wt[r]) + 1)
            BY <2>2, <1>3, <1>4, <1>9
        <3>2. p \in 1..Len(wt[r]) /\ after[s][p] = wt[r][p]
            BY <3>1, <2>2, <1>2, <1>3, <1>4, <1>9
        <3>3. CASE m = Len(wt[r]) + 1
            BY <3>2, <3>3, <2>2, <1>3, <1>4, <1>6
        <3>4. CASE m # Len(wt[r]) + 1
            <4>1. m \in 1..Len(wt[r]) /\ after[s][m] = wt[r][m]
                BY <3>1, <3>4, <2>2, <1>2, <1>3, <1>4
            <4> QED BY <4>1, <3>2, <1>2, <1>4, <1>9 DEF QueueInv
        <3> QED BY <3>3, <3>4
    <2> QED BY <2>1, <2>2
<1> QED BY <1>3, <1>7, <1>8, <1>9 DEF QueueInv

(* The first of the queue is granted. *)
LEMMA Dequeued ==
    ASSUME ManifestInv, NEW stage, NEW t, NEW st, NEW rc, StageInv(stage, t, st, rc),
           NEW wt, QueueInv(stage, wt), NEW r \in Resource, wt[r] # << >>,
           NEW i, i = Head(wt[r]),
           NEW next, next = [stage EXCEPT ![i] = "granted"],
           NEW after, after = [wt EXCEPT ![r] = Tail(wt[r])]
    PROVE  /\ QueueInv(next, after)
           /\ i \in Ordinal /\ Res(i) = r /\ stage[i] = "waiting"
           /\ \A j \in Ordinal : Before(manifest, j, i) /\ Res(j) = r => stage[j] \in Begun
<1>1. wt[r] \in Seq(Ordinal) /\ Len(wt[r]) \in Nat /\ Len(wt[r]) >= 1
    BY DEF QueueInv
<1>2. /\ DOMAIN wt[r] = 1..Len(wt[r]) /\ 1 \in DOMAIN wt[r] /\ i = wt[r][1]
      /\ \A p \in DOMAIN wt[r] : p \in Nat /\ p >= 1 /\ wt[r][p] \in Ordinal
    BY <1>1
<1>3. i \in Ordinal /\ Res(i) = r /\ stage[i] = "waiting"
    BY <1>2 DEF QueueInv
<1>4. \A p \in DOMAIN wt[r] : p # 1 => Before(manifest, i, wt[r][p]) /\ wt[r][p] # i
    <2> SUFFICES ASSUME NEW p \in DOMAIN wt[r], p # 1
                 PROVE  Before(manifest, i, wt[r][p]) /\ wt[r][p] # i
        OBVIOUS
    <2>1. 1 < p
        BY <1>2
    <2>2. Before(manifest, i, wt[r][p])
        BY <2>1, <1>2 DEF QueueInv
    <2> QED BY <2>2, <1>2, <1>3, OrderIsTotal
<1>5. ASSUME NEW j \in Ordinal, Before(manifest, j, i), Res(j) = r PROVE stage[j] \in Begun
    <2>1. stage[j] \in Stage /\ stage[j] \notin Queueing
        BY <1>3, <1>5 DEF StageInv, Queueing
    <2>2. ASSUME stage[j] = "waiting" PROVE FALSE
        <3>1. PICK p \in DOMAIN wt[r] : wt[r][p] = j
            BY <2>2, <1>5 DEF QueueInv
        <3>2. j # i
            BY <1>3, <1>5, OrderIsTotal
        <3> QED BY <3>1, <3>2, <1>2, <1>3, <1>4, <1>5, OrderIsTotal
    <2> QED BY <2>1, <2>2 DEF Stage, Queueing, Begun
<1>6. /\ next \in [Ordinal -> Stage] /\ next[i] = "granted"
      /\ \A j \in Ordinal : j # i => next[j] = stage[j]
    BY <1>3, Becomes DEF StageInv, Stage
<1>7. /\ after \in [Resource -> Seq(Ordinal)] /\ after[r] = Tail(wt[r])
      /\ \A s \in Resource : s # r => after[s] = wt[s]
    <2>1. Tail(wt[r]) \in Seq(Ordinal)
        BY <1>1
    <2> QED BY <2>1 DEF QueueInv
<1>8. /\ \A p \in DOMAIN after[r] : p \in Nat /\ p + 1 \in DOMAIN wt[r] /\ p + 1 # 1
                                    /\ after[r][p] = wt[r][p + 1]
      /\ \A p \in DOMAIN wt[r] : p # 1 => p - 1 \in DOMAIN after[r]
    BY <1>1, <1>2, <1>7
<1>9. \A s \in Resource : \A p \in DOMAIN wt[s] :
          wt[s][p] \in Ordinal /\ Res(wt[s][p]) = s /\ stage[wt[s][p]] = "waiting"
    <2> SUFFICES ASSUME NEW s \in Resource, NEW p \in DOMAIN wt[s]
                 PROVE  wt[s][p] \in Ordinal /\ Res(wt[s][p]) = s /\ stage[wt[s][p]] = "waiting"
        OBVIOUS
    <2>1. wt[s] \in Seq(Ordinal)
        BY DEF QueueInv
    <2>2. wt[s][p] \in Ordinal
        BY <2>1
    <2> QED BY <2>2 DEF QueueInv
<1>10. ASSUME NEW s \in Resource, NEW p \in DOMAIN after[s]
       PROVE  Res(after[s][p]) = s /\ next[after[s][p]] = "waiting"
    <2>1. CASE s # r
        <3>1. after[s][p] = wt[s][p] /\ p \in DOMAIN wt[s]
            BY <2>1, <1>7, <1>10
        <3> QED BY <3>1, <2>1, <1>3, <1>6, <1>9
    <2>2. CASE s = r
        BY <2>2, <1>4, <1>6, <1>8, <1>9, <1>10
    <2> QED BY <2>1, <2>2
<1>11. ASSUME NEW j \in Ordinal, next[j] = "waiting"
       PROVE  \E p \in DOMAIN after[Res(j)] : after[Res(j)][p] = j
    <2>1. j # i /\ stage[j] = "waiting" /\ Res(j) \in Resource
        BY <1>6, <1>11, ProposalIs
    <2>2. PICK p \in DOMAIN wt[Res(j)] : wt[Res(j)][p] = j
        BY <2>1 DEF QueueInv
    <2>3. CASE Res(j) # r
        BY <2>1, <2>2, <2>3, <1>7
    <2>4. CASE Res(j) = r
        <3>1. p # 1 /\ p \in Nat
            BY <2>1, <2>2, <2>4, <1>2
        <3>2. p - 1 \in DOMAIN after[r] /\ (p - 1) + 1 = p
            BY <3>1, <2>2, <2>4, <1>8
        <3> QED BY <3>2, <2>2, <2>4, <1>8
    <2> QED BY <2>3, <2>4
<1>12. ASSUME NEW s \in Resource, NEW p \in DOMAIN after[s], NEW m \in DOMAIN after[s], p < m
       PROVE  Before(manifest, after[s][p], after[s][m])
    <2>1. CASE s # r
        BY <2>1, <1>7, <1>12 DEF QueueInv
    <2>2. CASE s = r
        <3>1. p + 1 \in DOMAIN wt[r] /\ m + 1 \in DOMAIN wt[r] /\ p + 1 < m + 1
            BY <2>2, <1>8, <1>12
        <3>2. Before(manifest, wt[r][p + 1], wt[r][m + 1])
            BY <3>1 DEF QueueInv
        <3> QED BY <3>2, <2>2, <1>8, <1>12
    <2> QED BY <2>1, <2>2
<1> QED BY <1>3, <1>5, <1>7, <1>10, <1>11, <1>12 DEF QueueInv

LEMMA QueuesStay ==
    ASSUME NEW stage \in [Ordinal -> Stage], NEW wt, QueueInv(stage, wt),
           NEW i \in Ordinal, stage[i] # "waiting", NEW s \in Stage, s # "waiting",
           NEW next, next = [stage EXCEPT ![i] = s]
    PROVE  QueueInv(next, wt)
<1>1. \A j \in Ordinal : next[j] = "waiting" <=> stage[j] = "waiting"
    OBVIOUS
<1>2. ASSUME NEW r \in Resource, NEW p \in DOMAIN wt[r] PROVE wt[r][p] \in Ordinal
    <2>1. wt[r] \in Seq(Ordinal)
        BY DEF QueueInv
    <2> QED BY <2>1
<1> QED BY <1>1, <1>2 DEF QueueInv

-----------------------------------------------------------------------------
(* The steps of the simulation, as long as nothing fails. *)

Simulates(K, S, stage, t, ag, md, wt, us, st, rc) ==
    /\ Traces(K, S)
    /\ AgendaInv(stage, t, ag, md, st)
    /\ StageInv(stage, t, st, rc)
    /\ QueueInv(stage, wt)
    /\ us = UsersOf(stage)
    /\ RoomInv(ag, wt, us)
    /\ Follows(K, S, stage, t, st)

LEMMA AfterOne ==
    ASSUME made \in Nat, NEW e, NEW kind, NEW owner, NEW delay, After(e, <<kind>>, owner, delay)
    PROVE  /\ agenda' = (agenda \ {e}) \cup
                 {[at |-> e.at + delay, rank |-> Normal, age |-> made + 1, kind |-> kind,
                   of |-> owner]}
           /\ made' = made + 1
<1>1. Len(<<kind>>) = 1 /\ 1..1 = {1} /\ <<kind>>[1] = kind
    OBVIOUS
<1> QED BY <1>1 DEF After

LEMMA AfterNone ==
    ASSUME made \in Nat, NEW e, NEW owner, NEW delay, After(e, << >>, owner, delay)
    PROVE  agenda' = agenda \ {e} /\ made' = made
<1>1. Len(<< >>) = 0 /\ 1..0 = {}
    OBVIOUS
<1> QED BY <1>1 DEF After

LEMMA ReleasesAreFinite ==
    ASSUME NEW ag, IsFiniteSet(ag), NEW r
    PROVE  IsFiniteSet(Releases(ag, r)) /\ Cardinality(Releases(ag, r)) \in Nat
<1>1. Releases(ag, r) \in SUBSET ag
    BY DEF Releases
<1>2. IsFiniteSet(Releases(ag, r))
    BY <1>1, FS_Subset
<1> QED BY <1>2, FS_CardinalityType

(* The first of r's queue is granted. *)
LEMMA FirstIsGranted ==
    ASSUME ManifestInv, NEW K, NEW S, NEW stage, NEW t, NEW ag, NEW md, NEW wt, NEW st, NEW rc,
           Traces(K, S), AgendaInv(stage, t, ag, md, st), StageInv(stage, t, st, rc),
           QueueInv(stage, wt), Follows(K, S, stage, t, st),
           NEW r \in Resource, wt[r] # << >>,
           Cardinality(UsersOf(stage)[r]) < Capacity[r],
           \A s \in Resource : s # r /\ wt[s] # << >> =>
               Cardinality(UsersOf(stage)[s]) + Cardinality(Releases(ag, s)) >= Capacity[s],
           Tail(wt[r]) # << >> =>
               Cardinality(UsersOf(stage)[r]) + Cardinality(Releases(ag, r)) + 1 >= Capacity[r],
           NEW i, i = Head(wt[r]),
           NEW n, n = [at |-> t, rank |-> Normal, age |-> md + 1, kind |-> "granted", of |-> i]
    PROVE  Simulates(K, S, [stage EXCEPT ![i] = "granted"], t, ag \cup {n}, md + 1,
                     [wt EXCEPT ![r] = Tail(wt[r])],
                     [UsersOf(stage) EXCEPT ![r] = UsersOf(stage)[r] \cup {i}], st, rc)
<1> DEFINE next == [stage EXCEPT ![i] = "granted"]
           after == [wt EXCEPT ![r] = Tail(wt[r])]
           us == [UsersOf(stage) EXCEPT ![r] = UsersOf(stage)[r] \cup {i}]
<1>1. /\ QueueInv(next, after)
      /\ i \in Ordinal /\ Res(i) = r /\ stage[i] = "waiting"
      /\ \A j \in Ordinal : Before(manifest, j, i) /\ Res(j) = r => stage[j] \in Begun
    BY Dequeued
<1>2. StageInv(next, t, st, rc)
    BY <1>1, BecomesGranted
<1>3. AgendaInv(next, t, ag \cup {n}, md + 1, st)
    <2>1. t \in Nat /\ t >= t
        BY DEF StageInv
    <2> QED BY <2>1, <1>1, NewEvent
<1>4. /\ next \in [Ordinal -> Stage] /\ next[i] = "granted"
      /\ \A j \in Ordinal : j # i => next[j] = stage[j]
    BY <1>1, Becomes DEF StageInv, Stage
<1>5. Follows(K, S, next, t, st)
    <2>1. i \in K => S[i] = t
        BY <1>1, GrantedOnTime
    <2>2. K \subseteq Ordinal
        BY DEF Traces
    <2> QED BY <2>1, <2>2, <1>4 DEF Follows, Begun
<1> HIDE DEF next
<1>6. us = UsersOf(next)
    <2>1. ASSUME NEW s \in Resource PROVE us[s] = UsersOf(next)[s]
        <3>1. CASE s = r
            <4>1. us[s] = {j \in Ordinal : Res(j) = r /\ stage[j] \in Using} \cup {i}
                BY <3>1 DEF UsersOf
            <4>2. UsersOf(next)[s] = {j \in Ordinal : Res(j) = r /\ next[j] \in Using}
                BY <3>1 DEF UsersOf
            <4>3. \A j \in Ordinal : next[j] \in Using <=> j = i \/ stage[j] \in Using
                BY <1>4 DEF Using
            <4> QED BY <4>1, <4>2, <4>3, <1>1
        <3>2. CASE s # r
            <4>1. us[s] = {j \in Ordinal : Res(j) = s /\ stage[j] \in Using}
                BY <3>2 DEF UsersOf
            <4>2. UsersOf(next)[s] = {j \in Ordinal : Res(j) = s /\ next[j] \in Using}
                BY DEF UsersOf
            <4> QED BY <4>1, <4>2, <3>2, <1>1, <1>4
        <3> QED BY <3>1, <3>2
    <2> QED BY <2>1 DEF UsersOf
<1>7. RoomInv(ag \cup {n}, after, us)
    <2> SUFFICES ASSUME NEW s \in Resource, after[s] # << >>
                 PROVE  Cardinality(us[s]) + Cardinality(Releases(ag \cup {n}, s)) >= Capacity[s]
        BY DEF RoomInv
    <2>1. Releases(ag \cup {n}, s) = Releases(ag, s)
        BY DEF Releases
    <2>2. DOMAIN wt = Resource /\ DOMAIN UsersOf(stage) = Resource
        BY DEF QueueInv, UsersOf
    <2>3. CASE s # r
        <3>1. after[s] = wt[s] /\ us[s] = UsersOf(stage)[s]
            BY <2>2, <2>3
        <3> QED BY <3>1, <2>1, <2>3
    <2>4. CASE s = r
        <3>1. Tail(wt[r]) # << >>
            BY <2>2, <2>4
        <3>2. us[s] = UsersOf(stage)[r] \cup {i}
            BY <2>2, <2>4
        <3>3. i \notin UsersOf(stage)[r]
            BY <1>1 DEF UsersOf, Using
        <3>4. Cardinality(us[s]) = Cardinality(UsersOf(stage)[r]) + 1
            BY <3>2, <3>3, UsersAreFinite, FS_AddElement, ZenonT(60)
        <3>5. Cardinality(Releases(ag, r)) \in Nat /\ Cardinality(UsersOf(stage)[r]) \in Nat
            BY ReleasesAreFinite, UsersAreFinite DEF AgendaInv
        <3> QED BY <3>1, <3>4, <3>5, <2>1, <2>4, CapacityIs
    <2> QED BY <2>3, <2>4
<1> QED BY <1>1, <1>2, <1>3, <1>5, <1>6, <1>7 DEF Simulates, next

(* A process that has not asked for its resource is none that uses it. *)
LEMMA NotYetBegun ==
    ASSUME NEW stage \in [Ordinal -> Stage], NEW K, NEW S, NEW t, NEW st,
           Traces(K, S), Follows(K, S, stage, t, st),
           NEW i \in Ordinal, stage[i] \in Queueing, NEW s \in {"ready", "waiting"},
           NEW next, next = [stage EXCEPT ![i] = s]
    PROVE  UsersOf(next) = UsersOf(stage) /\ Follows(K, S, next, t, st)
<1>1. next[i] = s /\ \A j \in Ordinal : j # i => next[j] = stage[j]
    OBVIOUS
<1>2. UsersOf(next) = UsersOf(stage)
    <2>1. \A j \in Ordinal : next[j] \in Using <=> stage[j] \in Using
        BY <1>1 DEF Using, Queueing
    <2> QED BY <2>1 DEF UsersOf
<1>3. Follows(K, S, next, t, st)
    <2>1. K \subseteq Ordinal
        BY DEF Traces
    <2>2. ASSUME NEW k \in K, next[k] \in {"granted", "served", "done"} PROVE next[k] = stage[k]
        BY <2>1, <2>2, <1>1
    <2>3. ASSUME NEW k \in K, S[k] < t PROVE next[k] \in Begun
        <3>1. stage[k] \in Begun
            BY <2>3 DEF Follows
        <3> QED BY <3>1, <2>1, <1>1 DEF Begun, Queueing
    <2> QED BY <2>2, <2>3 DEF Follows
<1> QED BY <1>2, <1>3

LEMMA ToBeReady ==
    ASSUME ManifestInv, NEW stage, NEW t \in Nat, NEW ag, NEW md, NEW st,
           AgendaInv(stage, t, ag, md, st),
           NEW i \in Ordinal, stage[i] = "waiting", ReadyAt(i) >= t, ReadyAt(i) > 0,
           \A f \in ag : f.kind = "ready" => ~Before(manifest, i, f.of),
           NEW n, n = [at |-> ReadyAt(i), rank |-> Normal, age |-> md + 1, kind |-> "ready",
                       of |-> i],
           NEW next, next = [stage EXCEPT ![i] = "ready"]
    PROVE  AgendaInv(next, t, ag \cup {n}, md + 1, st)
<1>1. ReadyAt(i) \in Nat
    BY ProposalIs
<1>2. \A j \in Ordinal : j # i => st[j] = st[j]
    OBVIOUS
<1> QED BY <1>1, <1>2, NewEvent

LEMMA ToBeServed ==
    ASSUME ManifestInv, NEW stage, NEW t \in Nat, NEW ag, NEW md, NEW st,
           AgendaInv(stage, t, ag, md, st),
           NEW i \in Ordinal, stage[i] = "waiting",
           NEW after, after[i] = t, \A j \in Ordinal : j # i => after[j] = st[j],
           NEW n, n = [at |-> t + ServiceOf(i), rank |-> Normal, age |-> md + 1,
                       kind |-> "served", of |-> i],
           NEW next, next = [stage EXCEPT ![i] = "served"]
    PROVE  AgendaInv(next, t, ag \cup {n}, md + 1, after)
<1>1. ServiceOf(i) \in Nat
    BY ProposalIs
<1>2. t + ServiceOf(i) \in Nat /\ t + ServiceOf(i) >= t
    BY <1>1
<1> QED BY <1>2, NewEvent

LEMMA AwaitReadySimulates ==
    ASSUME ManifestInv, NEW K, NEW S, NEW stage,
           Simulates(K, S, stage, now, agenda, made, waiting, users, started, recorded),
           NEW e \in agenda, AwaitReady(e)
    PROVE  \E next : Simulates(K, S, next, e.at, agenda', made', waiting', users', started',
                               recorded')
<1>1. /\ e.kind = "initialize" /\ \A f \in agenda \ {e} : Sooner(e, f)
      /\ ReadyAt(e.of) > 0 /\ After(e, <<"ready">>, e.of, ReadyAt(e.of))
      /\ UNCHANGED <<waiting, users, started, recorded>>
    BY DEF AwaitReady, Occurs, ReadyAt
<1>2. /\ AgendaInv(stage, e.at, agenda, made, started) /\ StageInv(stage, e.at, started, recorded)
      /\ Follows(K, S, stage, e.at, started) /\ e.at \in Nat
    BY <1>1, TimeGoesOn DEF Simulates
<1>3. /\ Traces(K, S) /\ QueueInv(stage, waiting) /\ users = UsersOf(stage)
      /\ RoomInv(agenda, waiting, users)
    BY DEF Simulates
<1>4. /\ e.of \in Ordinal /\ stage[e.of] = "initialize" /\ e.at = 0 /\ made \in Nat
      /\ stage \in [Ordinal -> Stage]
    BY <1>1, <1>2 DEF AgendaInv
<1> DEFINE i == e.of
           n == [at |-> e.at + ReadyAt(i), rank |-> Normal, age |-> made + 1, kind |-> "ready",
                 of |-> i]
           idle == [stage EXCEPT ![i] = "waiting"]
           next == [stage EXCEPT ![i] = "ready"]
<1>5. agenda' = (agenda \ {e}) \cup {n} /\ made' = made + 1
    BY <1>1, <1>4, AfterOne
<1>6. \A j \in Ordinal : Before(manifest, j, i) => stage[j] # "initialize"
    BY <1>1, <1>2, NextToAsk
<1>7. AgendaInv(idle, e.at, agenda \ {e}, made, started)
    BY <1>1, <1>2, EventOver
<1>8. AgendaInv(next, e.at, (agenda \ {e}) \cup {n}, made + 1, started)
    <2>1. idle[i] = "waiting" /\ next = [idle EXCEPT ![i] = "ready"]
        BY <1>4
    <2>2. e.at + ReadyAt(i) = ReadyAt(i) /\ ReadyAt(i) \in Nat
        BY <1>4, ProposalIs
    <2>3. \A f \in agenda \ {e} : f.kind = "ready" => ~Before(manifest, i, f.of)
        <3> SUFFICES ASSUME NEW f \in agenda \ {e}, f.kind = "ready", Before(manifest, i, f.of)
                     PROVE  FALSE
            OBVIOUS
        <3>1. f.of \in Ordinal /\ stage[f.of] = "ready"
            BY <1>2 DEF AgendaInv
        <3> QED BY <3>1, <1>2, <1>4 DEF StageInv
    <2>4. /\ n = [at |-> ReadyAt(i), rank |-> Normal, age |-> made + 1, kind |-> "ready", of |-> i]
          /\ ReadyAt(i) >= e.at
        BY <2>2, <1>1, <1>4
    <2>5. idle[i] = "waiting" /\ ReadyAt(i) > 0
        BY <2>1, <1>1
    <2> HIDE DEF idle, next, n
    <2> QED BY <2>1, <2>2, <2>3, <2>4, <2>5, <1>2, <1>4, <1>7, ToBeReady
<1>9. StageInv(next, e.at, started, recorded)
    BY <1>2, <1>4, <1>6, BecomesReady
<1>10. QueueInv(next, waiting)
    BY <1>3, <1>4, QueuesStay DEF Stage
<1>11. UsersOf(next) = UsersOf(stage) /\ Follows(K, S, next, e.at, started)
    BY <1>2, <1>3, <1>4, NotYetBegun DEF Queueing
<1>12. \A r : Releases(agenda', r) = Releases(agenda, r)
    BY <1>1, <1>5 DEF Releases
<1>13. RoomInv(agenda', waiting', users')
    BY <1>1, <1>3, <1>12 DEF RoomInv
<1> HIDE DEF next, n
<1>14. Simulates(K, S, next, e.at, agenda', made', waiting', users', started', recorded')
    BY <1>1, <1>3, <1>5, <1>8, <1>9, <1>10, <1>11, <1>13 DEF Simulates
<1> QED BY <1>14

(* Resource._trigger_put, on the queue wt[r]. *)
LEMMA ServeSimulates ==
    ASSUME ManifestInv, NEW K, NEW S, NEW stage, NEW wt, NEW e \in agenda,
           made \in Nat, waiting \in [Resource -> Seq(Ordinal)],
           Traces(K, S), AgendaInv(stage, e.at, agenda \ {e}, made, started),
           StageInv(stage, e.at, started, recorded),
           QueueInv(stage, wt), Follows(K, S, stage, e.at, started),
           users = UsersOf(stage),
           NEW r \in Resource, \A s \in Resource : s # r => wt[s] = waiting[s],
           \A s \in Resource : s # r /\ wt[s] # << >> =>
               Cardinality(users[s]) + Cardinality(Releases(agenda \ {e}, s)) >= Capacity[s],
           wt[r] # << >> /\ Tail(wt[r]) # << >> =>
               Cardinality(users[r]) + Cardinality(Releases(agenda \ {e}, r)) + 1 >= Capacity[r],
           Serve(e, r, wt[r], users[r])
    PROVE  \E next : Simulates(K, S, next, e.at, agenda', made', waiting', users', started,
                               recorded)
<1>1. wt \in [Resource -> Seq(Ordinal)] /\ DOMAIN users = Resource /\ e.at \in Nat
    BY DEF QueueInv, UsersOf, StageInv
<1>2. CASE /\ wt[r] # << >> /\ Cardinality(users[r]) < Capacity[r]
           /\ waiting' = [waiting EXCEPT ![r] = Tail(wt[r])]
           /\ users' = [users EXCEPT ![r] = users[r] \cup {Head(wt[r])}]
           /\ After(e, <<"granted">>, Head(wt[r]), 0)
    <2> DEFINE i == Head(wt[r])
               n == [at |-> e.at, rank |-> Normal, age |-> made + 1, kind |-> "granted",
                     of |-> i]
    <2>1. waiting' = [wt EXCEPT ![r] = Tail(wt[r])]
        BY <1>1, <1>2
    <2>2. agenda' = (agenda \ {e}) \cup {n} /\ made' = made + 1
        <3>1. e.at + 0 = e.at
            BY <1>1
        <3> QED BY <3>1, <1>2, AfterOne
    <2>3. users' = [UsersOf(stage) EXCEPT ![r] = UsersOf(stage)[r] \cup {i}]
        BY <1>2
    <2>4. Simulates(K, S, [stage EXCEPT ![i] = "granted"], e.at, (agenda \ {e}) \cup {n},
                    made + 1, [wt EXCEPT ![r] = Tail(wt[r])],
                    [UsersOf(stage) EXCEPT ![r] = UsersOf(stage)[r] \cup {i}], started, recorded)
        BY <1>2, FirstIsGranted
    <2> QED BY <2>1, <2>2, <2>3, <2>4
<1>3. CASE /\ wt[r] = << >> \/ Cardinality(users[r]) >= Capacity[r]
           /\ waiting' = [waiting EXCEPT ![r] = wt[r]]
           /\ users' = [users EXCEPT ![r] = users[r]]
           /\ After(e, << >>, e.of, 0)
    <2>1. waiting' = wt
        <3>1. /\ DOMAIN wt = Resource /\ DOMAIN waiting = Resource
              /\ wt = [s \in Resource |-> wt[s]]
            BY <1>1
        <3>2. waiting' = [s \in Resource |-> IF s = r THEN wt[r] ELSE waiting[s]]
            BY <3>1, <1>3
        <3> QED BY <3>1, <3>2
    <2>2. users' = UsersOf(stage)
        <3>1. users = [s \in Resource |-> users[s]]
            BY DEF UsersOf
        <3>2. users' = [s \in Resource |-> IF s = r THEN users[r] ELSE users[s]]
            BY <1>1, <1>3
        <3> QED BY <3>1, <3>2
    <2>3. agenda' = agenda \ {e} /\ made' = made
        BY <1>3, AfterNone
    <2>4. RoomInv(agenda \ {e}, wt, users)
        <3>1. /\ Cardinality(users[r]) \in Nat /\ Cardinality(Releases(agenda \ {e}, r)) \in Nat
              /\ Capacity[r] \in Nat
            BY UsersAreFinite, ReleasesAreFinite, CapacityIs DEF AgendaInv
        <3>2. wt[r] # << >> =>
                Cardinality(users[r]) + Cardinality(Releases(agenda \ {e}, r)) >= Capacity[r]
            BY <1>3, <3>1
        <3> QED BY <3>2 DEF RoomInv
    <2> QED BY <2>1, <2>2, <2>3, <2>4 DEF Simulates
<1> QED BY <1>2, <1>3 DEF Serve

LEMMA RequestSimulates ==
    ASSUME ManifestInv, NEW K, NEW S, NEW stage,
           Simulates(K, S, stage, now, agenda, made, waiting, users, started, recorded),
           NEW e \in agenda, Request(e)
    PROVE  \E next : Simulates(K, S, next, e.at, agenda', made', waiting', users', started',
                               recorded')
<1> DEFINE i == e.of
           r == Res(i)
           next == [stage EXCEPT ![i] = "waiting"]
           wt == [waiting EXCEPT ![r] = Append(waiting[r], i)]
<1>1. /\ e.kind = "ready" \/ (e.kind = "initialize" /\ ReadyAt(i) = 0)
      /\ \A f \in agenda \ {e} : Sooner(e, f)
      /\ Serve(e, r, Append(waiting[r], i), users[r])
      /\ started' = started /\ recorded' = recorded
    BY DEF Request, Occurs, ReadyAt, Res
<1>2. /\ AgendaInv(stage, e.at, agenda, made, started) /\ StageInv(stage, e.at, started, recorded)
      /\ Follows(K, S, stage, e.at, started) /\ e.at \in Nat
    BY <1>1, TimeGoesOn DEF Simulates
<1>3. /\ Traces(K, S) /\ QueueInv(stage, waiting) /\ users = UsersOf(stage)
      /\ RoomInv(agenda, waiting, users)
    BY DEF Simulates
<1>4. /\ i \in Ordinal /\ r \in Resource /\ stage[i] \in Queueing /\ made \in Nat
      /\ stage \in [Ordinal -> Stage]
    <2>1. i \in Ordinal /\ stage[i] = e.kind /\ made \in Nat /\ stage \in [Ordinal -> Stage]
        BY <1>1, <1>2 DEF AgendaInv
    <2> QED BY <2>1, <1>1, ProposalIs DEF Queueing
<1>5. /\ \A j \in Ordinal : Before(manifest, j, i) => stage[j] \notin Queueing
      /\ ReadyAt(i) <= e.at
    BY <1>1, <1>2, NextToAsk
<1>6. AgendaInv(next, e.at, agenda \ {e}, made, started)
    BY <1>1, <1>2, EventOver
<1>7. StageInv(next, e.at, started, recorded)
    BY <1>2, <1>4, <1>5, BecomesWaiting
<1>8. QueueInv(next, wt)
    BY <1>2, <1>3, <1>4, Enqueued
<1>9. UsersOf(next) = users /\ Follows(K, S, next, e.at, started)
    <2>1. "waiting" \in {"ready", "waiting"} /\ i \in Ordinal
        BY <1>4
    <2> HIDE DEF i
    <2> QED BY <2>1, <1>2, <1>3, <1>4, NotYetBegun
<1>10. waiting \in [Resource -> Seq(Ordinal)]
    BY <1>3 DEF QueueInv
<1>11. /\ wt[r] = Append(waiting[r], i)
       /\ \A s \in Resource : s # r => wt[s] = waiting[s]
    BY <1>4, <1>10
<1>12. \A s : Releases(agenda \ {e}, s) = Releases(agenda, s)
    BY <1>1 DEF Releases
<1>13. \A s \in Resource : s # r /\ wt[s] # << >> =>
           Cardinality(users[s]) + Cardinality(Releases(agenda \ {e}, s)) >= Capacity[s]
    BY <1>3, <1>11, <1>12 DEF RoomInv
<1>14. wt[r] # << >> /\ Tail(wt[r]) # << >> =>
           Cardinality(users[r]) + Cardinality(Releases(agenda \ {e}, r)) + 1 >= Capacity[r]
    <2>1. waiting[r] \in Seq(Ordinal)
        BY <1>4, <1>10
    <2>2. waiting[r] = << >> => Tail(wt[r]) = << >>
        <3>1. Tail(Append(<< >>, i)) = << >>
            OBVIOUS
        <3> QED BY <3>1, <1>11
    <2>3. /\ Cardinality(users[r]) \in Nat /\ Cardinality(Releases(agenda, r)) \in Nat
          /\ Capacity[r] \in Nat
        BY <1>2, <1>3, <1>4, UsersAreFinite, ReleasesAreFinite, CapacityIs DEF AgendaInv
    <2>4. Releases(agenda \ {e}, r) = Releases(agenda, r)
        BY <1>12
    <2> HIDE DEF wt, r
    <2>5. waiting[r] # << >> =>
              Cardinality(users[r]) + Cardinality(Releases(agenda, r)) >= Capacity[r]
        BY <1>3, <1>4 DEF RoomInv
    <2> QED BY <2>2, <2>3, <2>4, <2>5
<1>15. Serve(e, r, wt[r], users[r])
    BY <1>1, <1>11
<1> HIDE DEF next, wt, r
<1> QED BY <1>1, <1>3, <1>4, <1>6, <1>7, <1>8, <1>9, <1>10, <1>11, <1>13, <1>14, <1>15,
           ServeSimulates

LEMMA ServeNextSimulates ==
    ASSUME ManifestInv, NEW K, NEW S, NEW stage,
           Simulates(K, S, stage, now, agenda, made, waiting, users, started, recorded),
           NEW e \in agenda, ServeNext(e)
    PROVE  \E next : Simulates(K, S, next, e.at, agenda', made', waiting', users', started',
                               recorded')
<1> DEFINE r == Res(e.of)
<1>1. /\ e.kind = "released"
      /\ \A f \in agenda \ {e} : Sooner(e, f)
      /\ Serve(e, r, waiting[r], users[r])
      /\ started' = started /\ recorded' = recorded
    BY DEF ServeNext, Occurs, Res
<1>2. /\ AgendaInv(stage, e.at, agenda, made, started) /\ StageInv(stage, e.at, started, recorded)
      /\ Follows(K, S, stage, e.at, started) /\ e.at \in Nat
    BY <1>1, TimeGoesOn DEF Simulates
<1>3. /\ Traces(K, S) /\ QueueInv(stage, waiting) /\ users = UsersOf(stage)
      /\ RoomInv(agenda, waiting, users)
    BY DEF Simulates
<1>4. r \in Resource /\ made \in Nat
    <2>1. e.of \in Ordinal /\ made \in Nat
        BY <1>2 DEF AgendaInv
    <2> QED BY <2>1, ProposalIs
<1>5. AgendaInv(stage, e.at, agenda \ {e}, made, started)
    BY <1>1, <1>2, ReleaseOver
<1>6. \A s \in Resource : s # r => Releases(agenda \ {e}, s) = Releases(agenda, s)
    BY DEF Releases
<1>7. \A s \in Resource : s # r /\ waiting[s] # << >> =>
           Cardinality(users[s]) + Cardinality(Releases(agenda \ {e}, s)) >= Capacity[s]
    BY <1>3, <1>6 DEF RoomInv
<1>8. waiting[r] # << >> =>
           Cardinality(users[r]) + Cardinality(Releases(agenda \ {e}, r)) + 1 >= Capacity[r]
    <2>1. Releases(agenda \ {e}, r) = Releases(agenda, r) \ {e} /\ e \in Releases(agenda, r)
        BY <1>1 DEF Releases
    <2>2. /\ IsFiniteSet(Releases(agenda, r)) /\ Cardinality(Releases(agenda, r)) \in Nat
          /\ Cardinality(users[r]) \in Nat /\ Capacity[r] \in Nat
        BY <1>2, <1>3, <1>4, UsersAreFinite, ReleasesAreFinite, CapacityIs DEF AgendaInv
    <2>3. Cardinality(Releases(agenda \ {e}, r)) = Cardinality(Releases(agenda, r)) - 1
        BY <2>1, <2>2, FS_RemoveElement, ZenonT(60)
    <2> QED BY <2>2, <2>3, <1>3, <1>4 DEF RoomInv
<1>9. waiting \in [Resource -> Seq(Ordinal)]
    BY <1>3 DEF QueueInv
<1> HIDE DEF r
<1> QED BY <1>1, <1>2, <1>3, <1>4, <1>5, <1>7, <1>8, <1>9, ServeSimulates

LEMMA StartSimulates ==
    ASSUME ManifestInv, NEW K, NEW S, NEW stage,
           Simulates(K, S, stage, now, agenda, made, waiting, users, started, recorded),
           NEW e \in agenda, Start(e)
    PROVE  \E next : Simulates(K, S, next, e.at, agenda', made', waiting', users', started',
                               recorded')
<1> DEFINE i == e.of
           idle == [stage EXCEPT ![i] = "waiting"]
           next == [stage EXCEPT ![i] = "served"]
           after == [started EXCEPT ![i] = e.at]
           n == [at |-> e.at + ServiceOf(i), rank |-> Normal, age |-> made + 1,
                 kind |-> "served", of |-> i]
<1>1. /\ e.kind = "granted" /\ \A f \in agenda \ {e} : Sooner(e, f)
      /\ e.at - ReadyAt(i) <= MaxWait /\ started' = after
      /\ After(e, <<"served">>, i, ServiceOf(i))
      /\ waiting' = waiting /\ users' = users /\ recorded' = recorded
    BY DEF Start, Occurs, ReadyAt, ServiceOf
<1>2. /\ AgendaInv(stage, e.at, agenda, made, started) /\ StageInv(stage, e.at, started, recorded)
      /\ Follows(K, S, stage, e.at, started) /\ e.at \in Nat
    BY <1>1, TimeGoesOn DEF Simulates
<1>3. /\ Traces(K, S) /\ QueueInv(stage, waiting) /\ users = UsersOf(stage)
      /\ RoomInv(agenda, waiting, users)
    BY DEF Simulates
<1>4. /\ i \in Ordinal /\ stage[i] = "granted" /\ made \in Nat /\ ServiceOf(i) \in Nat
      /\ stage \in [Ordinal -> Stage] /\ started \in [Ordinal -> Nat]
    <2>1. i \in Ordinal /\ stage[i] = "granted" /\ made \in Nat /\ stage \in [Ordinal -> Stage]
        BY <1>1, <1>2 DEF AgendaInv
    <2> QED BY <2>1, <1>2, ProposalIs DEF StageInv
<1>5. agenda' = (agenda \ {e}) \cup {n} /\ made' = made + 1
    BY <1>1, <1>4, AfterOne
<1>6. AgendaInv(next, e.at, (agenda \ {e}) \cup {n}, made + 1, after)
    <2>1. AgendaInv(idle, e.at, agenda \ {e}, made, started)
        BY <1>1, <1>2, EventOver
    <2>2. idle[i] = "waiting" /\ next = [idle EXCEPT ![i] = "served"]
        BY <1>4
    <2>3. after[i] = e.at /\ \A j \in Ordinal : j # i => after[j] = started[j]
        BY <1>4
    <2>4. n = [at |-> e.at + ServiceOf(i), rank |-> Normal, age |-> made + 1,
               kind |-> "served", of |-> i]
        OBVIOUS
    <2>5. i \in Ordinal /\ e.at \in Nat
        BY <1>2, <1>4
    <2> HIDE DEF idle, next, after, n, i
    <2> QED BY <2>1, <2>2, <2>3, <2>4, <2>5, ToBeServed
<1>7. StageInv(next, e.at, after, recorded)
    BY <1>1, <1>2, <1>4, BecomesServed
<1>8. QueueInv(next, waiting)
    BY <1>3, <1>4, QueuesStay DEF Stage
<1>9. /\ next[i] = "served" /\ \A j \in Ordinal : j # i => next[j] = stage[j]
      /\ after[i] = e.at /\ \A j \in Ordinal : j # i => after[j] = started[j]
    BY <1>4
<1> HIDE DEF next, after
<1>10. UsersOf(next) = users
    <2>1. \A j \in Ordinal : next[j] \in Using <=> stage[j] \in Using
        BY <1>4, <1>9 DEF Using
    <2> QED BY <2>1, <1>3 DEF UsersOf
<1>11. Follows(K, S, next, e.at, after)
    <2> SUFFICES ASSUME NEW k \in K
                 PROVE  /\ S[k] < e.at => next[k] \in Begun
                        /\ next[k] = "granted" => S[k] = e.at
                        /\ next[k] \in {"served", "done"} => S[k] = after[k]
        BY DEF Follows
    <2>1. k \in Ordinal
        BY <1>3 DEF Traces
    <2>2. /\ S[k] < e.at => stage[k] \in Begun
          /\ stage[k] = "granted" => S[k] = e.at
          /\ stage[k] \in {"served", "done"} => S[k] = started[k]
        BY <1>2 DEF Follows
    <2> QED BY <2>1, <2>2, <1>4, <1>9 DEF Begun
<1>12. \A r : Releases(agenda', r) = Releases(agenda, r)
    BY <1>1, <1>5 DEF Releases
<1>13. RoomInv(agenda', waiting', users')
    BY <1>1, <1>3, <1>12 DEF RoomInv
<1>14. Simulates(K, S, next, e.at, agenda', made', waiting', users', started', recorded')
    BY <1>1, <1>3, <1>5, <1>6, <1>7, <1>8, <1>10, <1>11, <1>13 DEF Simulates
<1> QED BY <1>14

LEMMA FinishSimulates ==
    ASSUME ManifestInv, NEW K, NEW S, NEW stage,
           Simulates(K, S, stage, now, agenda, made, waiting, users, started, recorded),
           NEW e \in agenda, Finish(e)
    PROVE  \E next : Simulates(K, S, next, e.at, agenda', made', waiting', users', started',
                               recorded')
<1> DEFINE i == e.of
           r == Res(i)
           next == [stage EXCEPT ![i] = "done"]
           n == [at |-> e.at, rank |-> Normal, age |-> made + 1, kind |-> "released", of |-> i]
<1>1. /\ e.kind = "served" /\ \A f \in agenda \ {e} : Sooner(e, f)
      /\ e.at <= MaxFinish
      /\ recorded' = [j \in DOMAIN recorded \cup {i} |->
             IF j = i THEN [ordinal |-> j, start |-> started[j], finish |-> e.at]
                      ELSE recorded[j]]
      /\ users' = [users EXCEPT ![r] = users[r] \ {i}]
      /\ After(e, <<"released">>, i, 0)
      /\ waiting' = waiting /\ started' = started
    BY DEF Finish, Occurs, Leave, Res
<1>2. /\ AgendaInv(stage, e.at, agenda, made, started) /\ StageInv(stage, e.at, started, recorded)
      /\ Follows(K, S, stage, e.at, started) /\ e.at \in Nat
    BY <1>1, TimeGoesOn DEF Simulates
<1>3. /\ Traces(K, S) /\ QueueInv(stage, waiting) /\ users = UsersOf(stage)
      /\ RoomInv(agenda, waiting, users)
    BY DEF Simulates
<1>4. /\ i \in Ordinal /\ stage[i] = "served" /\ made \in Nat /\ r \in Resource
      /\ stage \in [Ordinal -> Stage] /\ e.at = started[i] + ServiceOf(i)
    <2>1. /\ i \in Ordinal /\ stage[i] = "served" /\ made \in Nat /\ stage \in [Ordinal -> Stage]
          /\ e.at = started[i] + ServiceOf(i)
        BY <1>1, <1>2 DEF AgendaInv
    <2> QED BY <2>1, ProposalIs
<1>5. agenda' = (agenda \ {e}) \cup {n} /\ made' = made + 1
    <2>1. e.at + 0 = e.at
        BY <1>2
    <2> QED BY <2>1, <1>1, <1>4, AfterOne
<1>6. AgendaInv(next, e.at, agenda', made', started) /\ n \notin agenda \ {e}
    <2>1. AgendaInv(next, e.at, agenda \ {e}, made, started)
        BY <1>1, <1>2, EventOver
    <2> HIDE DEF next
    <2> QED BY <2>1, <1>2, <1>4, <1>5, NewRelease
<1>7. StageInv(next, e.at, started, recorded')
    <2> DEFINE rc == recorded'
    <2>1. DOMAIN rc = DOMAIN recorded \cup {i}
        BY <1>1
    <2>2. rc[i] = [ordinal |-> i, start |-> started[i], finish |-> e.at]
        BY <1>1
    <2>3. \A j \in DOMAIN recorded : j # i => rc[j] = recorded[j]
        BY <1>1
    <2> HIDE DEF rc, i
    <2>4. StageInv(next, e.at, started, rc)
        BY <2>1, <2>2, <2>3, <1>1, <1>2, <1>4, BecomesDone
    <2> QED BY <2>4 DEF rc
<1>8. QueueInv(next, waiting)
    BY <1>3, <1>4, QueuesStay DEF Stage
<1>9. /\ next[i] = "done" /\ \A j \in Ordinal : j # i => next[j] = stage[j]
    BY <1>4
<1> HIDE DEF next
<1>10. users' = UsersOf(next)
    <2>1. \A j \in Ordinal : next[j] \in Using <=> stage[j] \in Using /\ j # i
        BY <1>4, <1>9 DEF Using
    <2>2. ASSUME NEW s \in Resource
          PROVE  users'[s] = {j \in Ordinal : Res(j) = s /\ next[j] \in Using}
        <3>1. /\ users[s] = {j \in Ordinal : Res(j) = s /\ stage[j] \in Using}
              /\ DOMAIN users = Resource
            BY <1>3 DEF UsersOf
        <3>2. users'[s] = IF s = r THEN users[s] \ {i} ELSE users[s]
            BY <3>1, <1>1
        <3>3. \A j \in users'[s] : j \in Ordinal /\ Res(j) = s /\ next[j] \in Using
            BY <3>1, <3>2, <2>1
        <3>4. \A j \in Ordinal : Res(j) = s /\ next[j] \in Using => j \in users'[s]
            BY <3>1, <3>2, <2>1
        <3> QED BY <3>3, <3>4
    <2>3. users' = [s \in Resource |-> users'[s]]
        BY <1>1, <1>3 DEF UsersOf
    <2> QED BY <2>2, <2>3 DEF UsersOf
<1>11. Follows(K, S, next, e.at, started)
    <2> SUFFICES ASSUME NEW k \in K
                 PROVE  /\ S[k] < e.at => next[k] \in Begun
                        /\ next[k] = "granted" => S[k] = e.at
                        /\ next[k] \in {"served", "done"} => S[k] = started[k]
        BY DEF Follows
    <2>1. k \in Ordinal
        BY <1>3 DEF Traces
    <2>2. /\ S[k] < e.at => stage[k] \in Begun
          /\ stage[k] = "granted" => S[k] = e.at
          /\ stage[k] \in {"served", "done"} => S[k] = started[k]
        BY <1>2 DEF Follows
    <2> QED BY <2>1, <2>2, <1>4, <1>9 DEF Begun
<1>12. RoomInv(agenda', waiting', users')
    <2> SUFFICES ASSUME NEW s \in Resource, waiting[s] # << >>
                 PROVE  Cardinality(users'[s]) + Cardinality(Releases(agenda', s)) >= Capacity[s]
        BY <1>1 DEF RoomInv
    <2>1. /\ Cardinality(users[s]) + Cardinality(Releases(agenda, s)) >= Capacity[s]
          /\ DOMAIN users = Resource
        BY <1>3 DEF RoomInv, UsersOf
    <2>2. CASE s # r
        <3>1. users'[s] = users[s] /\ Releases(agenda', s) = Releases(agenda, s)
            BY <2>1, <2>2, <1>1, <1>5 DEF Releases
        <3> QED BY <3>1, <2>1
    <2>3. CASE s = r
        <3>1. /\ IsFiniteSet(users[s]) /\ Cardinality(users[s]) \in Nat
              /\ IsFiniteSet(Releases(agenda, s)) /\ Cardinality(Releases(agenda, s)) \in Nat
              /\ Capacity[s] \in Nat
            BY <1>2, <1>3, UsersAreFinite, ReleasesAreFinite, CapacityIs DEF AgendaInv
        <3>2. users'[s] = users[s] \ {i} /\ i \in users[s]
            BY <2>1, <2>3, <1>1, <1>3, <1>4 DEF UsersOf, Using
        <3>3. /\ Releases(agenda', s) = Releases(agenda, s) \cup {n}
              /\ n \notin Releases(agenda, s)
            <4>1. n # e
                BY <1>1
            <4> QED BY <4>1, <2>3, <1>1, <1>5, <1>6 DEF Releases
        <3>4. Cardinality(users'[s]) = Cardinality(users[s]) - 1
            BY <3>1, <3>2, FS_RemoveElement, ZenonT(60)
        <3>5. Cardinality(Releases(agenda', s)) = Cardinality(Releases(agenda, s)) + 1
            <4> HIDE DEF n
            <4> QED BY <3>1, <3>3, FS_AddElement
        <3> QED BY <3>1, <3>4, <3>5, <2>1
    <2> QED BY <2>2, <2>3
<1>13. Simulates(K, S, next, e.at, agenda', made', waiting', users', started', recorded')
    BY <1>1, <1>3, <1>6, <1>7, <1>8, <1>10, <1>11, <1>12 DEF Simulates
<1> QED BY <1>13

(* A step of the simulation in which no ceiling is exceeded. *)
LEMMA SimulationGoesOn ==
    ASSUME ManifestInv, NEW K, NEW S, NEW stage,
           Simulates(K, S, stage, now, agenda, made, waiting, users, started, recorded),
           Simulate
    PROVE  \/ /\ \E next : Simulates(K, S, next, now', agenda', made', waiting', users',
                                     started', recorded')
              /\ runtime' = runtime
           \/ \E e \in agenda : Starve(e) \/ FinishLate(e)
           \/ RunReturns
<1>1. ASSUME NEW e \in agenda, AwaitReady(e) \/ Request(e) \/ Start(e) \/ Finish(e) \/ ServeNext(e)
      PROVE  /\ \E next : Simulates(K, S, next, now', agenda', made', waiting', users',
                                    started', recorded')
             /\ runtime' = runtime
    <2>1. \E next : Simulates(K, S, next, e.at, agenda', made', waiting', users', started',
                              recorded')
        BY <1>1, AwaitReadySimulates, RequestSimulates, StartSimulates, FinishSimulates,
           ServeNextSimulates
    <2>2. now' = e.at /\ runtime' = runtime
        BY <1>1, Zenon DEF AwaitReady, Request, Start, Finish, ServeNext, Occurs
    <2> QED BY <2>1, <2>2
<1>2. ASSUME NEW e \in agenda PROVE ~RunRaises(e)
    <2>1. e.kind # "failed"
        BY DEF Simulates, AgendaInv, Queueing, Using
    <2> QED BY <2>1 DEF RunRaises, Occurs
<1> QED BY <1>1, <1>2 DEF Simulate

(* How the reference scheduler's call has ended, in terms of the trace. *)
Foretells(K, S) ==
    \/ /\ plan = "planned" /\ Len(decisions) = Count
       /\ K = Ordinal /\ \A k \in Ordinal : S[order[k]] = decisions[k].start
    \/ /\ plan = "raised"
       /\ \E k \in K : S[k] - ReadyAt(k) > MaxWait \/ S[k] + ServiceOf(k) > MaxFinish

LEMMA FailureIsForetold ==
    ASSUME PlanInv, NEW K, NEW S, NEW stage,
           Simulates(K, S, stage, now, agenda, made, waiting, users, started, recorded),
           Foretells(K, S), NEW e \in agenda, Starve(e) \/ FinishLate(e)
    PROVE  plan = "raised" /\ \E f \in agenda' : f.kind = "failed"
<1> DEFINE i == e.of
<1>1. /\ \/ e.kind = "granted" /\ e.at - ReadyAt(i) > MaxWait
         \/ e.kind = "served" /\ e.at > MaxFinish
      /\ \A f \in agenda \ {e} : Sooner(e, f)
      /\ After(e, <<"released", "failed">>, i, 0)
    BY Zenon DEF Starve, FinishLate, Occurs, Leave, ReadyAt
<1>2. \E f \in agenda' : f.kind = "failed"
    <2> DEFINE kinds == <<"released", "failed">>
               f == [at |-> e.at + 0, rank |-> Normal, age |-> made + 2, kind |-> kinds[2],
                     of |-> i]
    <2>1. 2 \in 1..Len(kinds) /\ f.kind = "failed"
        OBVIOUS
    <2>2. f \in agenda'
        BY <2>1, <1>1 DEF After
    <2> QED BY <2>1, <2>2
<1>3. /\ ManifestInv /\ decisions \in Seq(DecisionType) /\ Decides(decisions)
      /\ \A k \in 1..Len(decisions) : InTime(decisions[k])
    BY DEF PlanInv, Works
<1>4. /\ AgendaInv(stage, e.at, agenda, made, started) /\ Follows(K, S, stage, e.at, started)
      /\ e.at \in Nat
    BY <1>1, <1>3, TimeGoesOn DEF Simulates
<1>5. /\ i \in Ordinal /\ stage[i] = e.kind
      /\ e.kind = "served" => e.at = started[i] + ServiceOf(i)
    BY <1>1, <1>4 DEF AgendaInv
<1>6. ASSUME plan = "planned" PROVE FALSE
    <2>1. /\ Len(decisions) = Count /\ K = Ordinal
          /\ \A k \in Ordinal : S[order[k]] = decisions[k].start
        BY <1>6 DEF Foretells
    <2>2. PICK k \in Ordinal : order[k] = i
        BY <1>3, <1>5, EveryProposalHasAPlace
    <2>3. /\ k \in 1..Len(decisions) /\ decisions[k] \in DecisionType
          /\ decisions[k].start = S[i] /\ decisions[k].ordinal = i
          /\ decisions[k].finish = decisions[k].start + ServiceOf(i)
        BY <2>1, <2>2, <1>3 DEF Ordinal, Decides, ServiceOf
    <2>4. S[i] - ReadyAt(i) <= MaxWait /\ S[i] + ServiceOf(i) <= MaxFinish
        BY <2>3, <1>3 DEF InTime, ReadyAt
    <2>5. /\ stage[i] = "granted" => S[i] = e.at
          /\ stage[i] = "served" => S[i] = started[i]
        BY <2>1, <1>4, <1>5 DEF Follows
    <2>6. ReadyAt(i) \in Nat /\ MaxWait \in Nat /\ MaxFinish \in Nat
        BY <1>3, <1>5, ProposalIs, ManifestAssumption
    <2> QED BY <2>4, <2>5, <2>6, <1>1, <1>4, <1>5
<1> QED BY <1>2, <1>6 DEF Foretells

(* environment.run() returns: all proposals have been worked, as the       *)
(* reference scheduler has planned them.                                   *)
LEMMA NothingIsLeft ==
    ASSUME PlanInv, NEW K, NEW S, NEW stage,
           Simulates(K, S, stage, now, agenda, made, waiting, users, started, recorded),
           Foretells(K, S), agenda = {}
    PROVE  /\ plan = "planned" /\ Len(decisions) = Count
           /\ DOMAIN recorded = Ordinal /\ SimulatedTrace = ReferenceTrace
<1>1. /\ ManifestInv /\ decisions \in Seq(DecisionType) /\ Decides(decisions)
    BY DEF PlanInv, Works
<1>2. /\ Traces(K, S) /\ AgendaInv(stage, now, agenda, made, started)
      /\ StageInv(stage, now, started, recorded) /\ QueueInv(stage, waiting)
      /\ users = UsersOf(stage) /\ RoomInv(agenda, waiting, users)
      /\ Follows(K, S, stage, now, started)
    BY DEF Simulates
<1>3. \A i \in Ordinal : stage[i] \notin Queueing \cup Using
    BY <1>2 DEF AgendaInv
<1>4. ASSUME NEW i \in Ordinal PROVE stage[i] = "done"
    <2>1. stage[i] \in Stage
        BY <1>2 DEF StageInv
    <2>2. ASSUME stage[i] = "waiting" PROVE FALSE
        <3> DEFINE r == Res(i)
        <3>1. r \in Resource /\ waiting[r] # << >>
            BY <2>2, <1>1, <1>2, ProposalIs DEF QueueInv
        <3>2. users[r] = {} /\ Releases(agenda, r) = {}
            BY <3>1, <1>2, <1>3 DEF UsersOf, Releases
        <3>3. Cardinality({}) = 0 /\ Capacity[r] \in Nat /\ Capacity[r] >= 1
            BY <3>1, CapacityIs, FS_EmptySet
        <3> HIDE DEF r
        <3>4. Cardinality(users[r]) + Cardinality(Releases(agenda, r)) >= Capacity[r]
            BY <3>1, <1>2 DEF RoomInv
        <3> QED BY <3>2, <3>3, <3>4
    <2> QED BY <2>1, <2>2, <1>3 DEF Stage, Queueing, Using
<1>5. \A i \in Ordinal :
          /\ started[i] - ReadyAt(i) <= MaxWait /\ started[i] + ServiceOf(i) <= MaxFinish
          /\ recorded[i] = [ordinal |-> i, start |-> started[i],
                            finish |-> started[i] + ServiceOf(i)]
          /\ i \in K => S[i] = started[i]
          /\ started[i] \in Nat /\ ReadyAt(i) \in Nat /\ ServiceOf(i) \in Nat
    BY <1>1, <1>2, <1>4, ProposalIs DEF StageInv, Follows
<1>6. DOMAIN recorded = Ordinal
    BY <1>2, <1>4 DEF StageInv
<1>7. plan = "planned" /\ Len(decisions) = Count /\ K = Ordinal
      /\ \A k \in Ordinal : S[order[k]] = decisions[k].start
    <2>1. K \subseteq Ordinal /\ MaxWait \in Nat /\ MaxFinish \in Nat
        BY <1>2, ManifestAssumption DEF Traces
    <2>2. ASSUME NEW k \in K
          PROVE  ~(S[k] - ReadyAt(k) > MaxWait \/ S[k] + ServiceOf(k) > MaxFinish)
        <3>1. /\ started[k] - ReadyAt(k) <= MaxWait /\ started[k] + ServiceOf(k) <= MaxFinish
              /\ S[k] = started[k]
              /\ started[k] \in Nat /\ ReadyAt(k) \in Nat /\ ServiceOf(k) \in Nat
            BY <2>1, <1>5
        <3> QED BY <3>1, <2>1
    <2> QED BY <2>2 DEF Foretells
<1>8. ASSUME NEW k \in Ordinal PROVE Row(recorded[order[k]], k) = Row(decisions[k], k)
    <2>1. order[k] \in Ordinal
        BY <1>1, OrderIs
    <2>2. /\ k \in 1..Len(decisions) /\ decisions[k] \in DecisionType
          /\ decisions[k].ordinal = order[k]
          /\ decisions[k].finish = decisions[k].start + ServiceOf(order[k])
        BY <1>1, <1>7 DEF Ordinal, Decides, ServiceOf
    <2>3. /\ recorded[order[k]].ordinal = decisions[k].ordinal
          /\ recorded[order[k]].start = decisions[k].start
          /\ recorded[order[k]].finish = decisions[k].finish
        <3> DEFINE i == order[k]
        <3>1. /\ i \in Ordinal /\ i \in K /\ S[i] = decisions[k].start
            BY <2>1, <1>7
        <3> HIDE DEF i
        <3>2. recorded[i] = [ordinal |-> i, start |-> S[i], finish |-> S[i] + ServiceOf(i)]
            BY <3>1, <1>5
        <3> QED BY <3>1, <3>2, <2>2 DEF i
    <2> QED BY <2>3 DEF Row
<1>9. SimulatedTrace = ReferenceTrace
    BY <1>8 DEF SimulatedTrace, ReferenceTrace
<1> QED BY <1>6, <1>7, <1>9

(* Before the simulation runs, every process is about to begin. *)
AboutToBegin ==
    /\ now = 0 /\ made = Len(order)
    /\ agenda = {[at |-> 0, rank |-> Urgent, age |-> k, kind |-> "initialize",
                  of |-> order[k]] : k \in 1..Len(order)}
    /\ waiting = [r \in Resource |-> << >>]
    /\ users = [r \in Resource |-> {}]
    /\ started = [i \in Ordinal |-> 0] /\ recorded = << >>

LEMMA SimulationBegins ==
    ASSUME ManifestInv, AboutToBegin, NEW K, NEW S, Traces(K, S)
    PROVE  \E stage : Simulates(K, S, stage, now, agenda, made, waiting, users, started, recorded)
<1> DEFINE stage == [i \in Ordinal |-> "initialize"]
           event(k) == [at |-> 0, rank |-> Urgent, age |-> k, kind |-> "initialize",
                        of |-> order[k]]
<1>1. /\ now = 0 /\ made = Count /\ agenda = {event(k) : k \in Ordinal}
      /\ waiting = [r \in Resource |-> << >>] /\ users = [r \in Resource |-> {}]
      /\ started = [i \in Ordinal |-> 0] /\ DOMAIN recorded = {}
    <2>1. Len(order) = Count
        BY NormalizedSorts DEF ManifestInv
    <2>2. DOMAIN << >> = {}
        OBVIOUS
    <2> QED BY <2>1, <2>2 DEF AboutToBegin, Ordinal
<1>2. \A k \in Ordinal : k \in Nat /\ k <= Count /\ order[k] \in Ordinal
    BY CountIs, OrderIs DEF Ordinal
<1>3. \A k \in Ordinal :
          /\ event(k).of \in Ordinal /\ event(k).at = 0 /\ event(k).age \in Nat
          /\ event(k).age <= made /\ event(k).rank = Urgent /\ event(k).kind = "initialize"
    BY <1>1, <1>2
<1>4. stage \in [Ordinal -> Stage] /\ \A i \in Ordinal : stage[i] = "initialize"
    BY DEF Stage
<1>5. ASSUME NEW j \in Ordinal, NEW k \in Ordinal
      PROVE  /\ event(j).of = event(k).of => event(j) = event(k)
             /\ event(j).age = event(k).age => event(j) = event(k)
             /\ Before(manifest, event(j).of, event(k).of) => event(j).age < event(k).age
    <2>1. /\ j < k <=> Before(manifest, order[j], order[k])
          /\ j < k => order[j] # order[k]
          /\ k < j => order[k] # order[j]
        BY OrderIs
    <2>2. j \in Nat /\ k \in Nat
        BY <1>2
    <2>3. order[j] = order[k] => j = k
        BY <2>1, <2>2
    <2> QED BY <2>1, <2>3
<1>6. IsFiniteSet(agenda)
    <2> DEFINE f == [k \in Ordinal |-> event(k)]
    <2>1. f \in Surjection(Ordinal, agenda)
        BY <1>1 DEF Surjection
    <2> HIDE DEF f
    <2> QED BY <2>1, CountIs, FS_Surjection
<1>7. \A i \in Ordinal : \E k \in Ordinal : event(k).of = i
    BY EveryProposalHasAPlace
<1> HIDE DEF event, stage
<1>8. AgendaInv(stage, now, agenda, made, started)
    <2>1. \A e \in agenda : \E k \in Ordinal : e = event(k)
        BY <1>1
    <2>2. \A e \in agenda :
              /\ e.of \in Ordinal /\ e.at = 0 /\ e.age \in Nat /\ e.age <= made
              /\ e.rank = Urgent /\ e.kind = "initialize"
        BY <2>1, <1>3
    <2>3. \A e, f \in agenda :
              /\ e.of = f.of => e = f
              /\ e.age = f.age => e = f
              /\ Before(manifest, e.of, f.of) => e.age < f.age
        BY <2>1, <1>5
    <2>4. \A i \in Ordinal : \E e \in agenda : e.of = i
        BY <1>1, <1>7
    <2>5. made \in Nat
        BY <1>1, CountIs
    <2>6. \A e \in agenda :
              /\ e.of \in Ordinal /\ e.at \in Nat /\ e.age \in Nat /\ e.age <= made /\ e.at >= now
              /\ e.rank = IF e.kind = "initialize" THEN Urgent ELSE Normal
              /\ e.kind \in Queueing \cup Using \cup {"released"}
              /\ e.kind # "released" => stage[e.of] = e.kind
              /\ e.kind = "initialize" => e.at = 0
              /\ e.kind = "ready" => e.at = ReadyAt(e.of) /\ e.at > 0
              /\ e.kind \in {"granted", "released"} => e.at = now
              /\ e.kind = "served" => e.at = started[e.of] + ServiceOf(e.of)
        BY <2>2, <1>1, <1>4 DEF Queueing
    <2>7. \A i \in Ordinal : stage[i] \in Queueing \cup Using =>
              \E e \in agenda : e.of = i /\ e.kind = stage[i]
        BY <2>2, <2>4, <1>4
    <2> QED BY <2>3, <2>5, <2>6, <2>7, <1>4, <1>6, Zenon DEF AgendaInv
<1>9. StageInv(stage, now, started, recorded)
    BY <1>1, <1>4 DEF StageInv, Queueing, Begun
<1>10. QueueInv(stage, waiting)
    BY <1>1, <1>4 DEF QueueInv
<1>11. users = UsersOf(stage)
    BY <1>1, <1>4 DEF UsersOf, Using
<1>12. RoomInv(agenda, waiting, users)
    BY <1>1 DEF RoomInv
<1>13. Follows(K, S, stage, now, started)
    <2>1. \A k \in K : k \in Ordinal /\ S[k] \in Nat
        BY DEF Traces
    <2> QED BY <2>1, <1>1, <1>4 DEF Follows
<1> QED BY <1>8, <1>9, <1>10, <1>11, <1>12, <1>13 DEF Simulates

(* What the trace and the stages say is about the manifest only. *)
LEMMA SameSimulation ==
    ASSUME UNCHANGED manifest, NEW K, NEW S, NEW stage, NEW t, NEW ag, NEW md, NEW wt, NEW us,
           NEW st, NEW rc, Simulates(K, S, stage, t, ag, md, wt, us, st, rc)
    PROVE  Simulates(K, S, stage, t, ag, md, wt, us, st, rc)'
<1>1. /\ \A i : Res(i)' = Res(i) /\ ReadyAt(i)' = ReadyAt(i) /\ ServiceOf(i)' = ServiceOf(i)
      /\ \A i, j : Before(manifest, i, j)' <=> Before(manifest, i, j)
    BY DEF Res, ReadyAt, ServiceOf, Before
<1>2. \A r, tick : Working(K, S, r, tick)' = Working(K, S, r, tick)
    BY <1>1 DEF Working
<1>3. Traces(K, S)'
    BY <1>1, <1>2, Zenon DEF Simulates, Traces
<1>4. AgendaInv(stage, t, ag, md, st)'
    BY <1>1, Zenon DEF Simulates, AgendaInv
<1>5. StageInv(stage, t, st, rc)'
    BY <1>1, Zenon DEF Simulates, StageInv
<1>6. QueueInv(stage, wt)'
    BY <1>1, Zenon DEF Simulates, QueueInv
<1>7. (us = UsersOf(stage))'
    BY <1>1 DEF Simulates, UsersOf
<1>8. RoomInv(ag, wt, us)'
    BY <1>1 DEF Simulates, RoomInv, Releases
<1>9. Follows(K, S, stage, t, st)'
    BY Zenon DEF Simulates, Follows
<1> QED BY <1>3, <1>4, <1>5, <1>6, <1>7, <1>8, <1>9 DEF Simulates

(* The reference scheduler's call ends: there is a trace that foretells    *)
(* what the simulation will do.                                            *)
LEMMA OutcomeIsForetold ==
    ASSUME PlanInv, ExceedCeiling \/ ReturnTrace
    PROVE  \E K, S : Traces(K, S) /\ Foretells(K, S)'
<1>1. /\ ManifestInv /\ Works(decisions, slots) /\ Len(decisions) \in Nat
      /\ decisions \in Seq(DecisionType)
    BY DEF PlanInv, Works
<1>2. CASE ReturnTrace
    <2>1. PICK K, S : /\ Traces(K, S) /\ K = {order[k] : k \in 1..Len(decisions)}
                      /\ \A k \in 1..Len(decisions) : S[order[k]] = decisions[k].start
        BY <1>1, ReferenceTraces
    <2>2. /\ Len(decisions) = Count /\ 1..Len(decisions) = Ordinal
          /\ plan' = "planned" /\ UNCHANGED <<order, decisions>>
        BY <1>2 DEF ReturnTrace, given, Ordinal
    <2>3. K = Ordinal
        <3>1. /\ \A k \in Ordinal : order[k] \in Ordinal
              /\ \A i \in Ordinal : \E k \in Ordinal : order[k] = i
            BY <1>1, OrderIs, EveryProposalHasAPlace
        <3> QED BY <3>1, <2>1, <2>2
    <2>4. Foretells(K, S)'
        BY <2>1, <2>2, <2>3 DEF Foretells
    <2> QED BY <2>1, <2>4
<1>3. CASE ExceedCeiling
    <2> DEFINE n == Len(decisions)
               d == Decision(Turn)
    <2>0. PICK ds, sl :
              /\ ds = Append(decisions, d)
              /\ sl = [slots EXCEPT ![manifest[Turn].resource]
                           [FirstFree(manifest[Turn].resource)] = d.finish]
        OBVIOUS
    <2>1. n < Count /\ ~InTime(d) /\ plan' = "raised" /\ UNCHANGED manifest
        BY <1>3 DEF ExceedCeiling, given
    <2>2. Works(ds, sl)
        BY <1>1, <2>0, <2>1, OneMoreDecision
    <2>3. Len(ds) = n + 1 /\ ds[n + 1] = d
        BY <1>1, <2>0
    <2> HIDE DEF d
    <2>4. PICK K, S : /\ Traces(K, S) /\ K = {order[k] : k \in 1..Len(ds)}
                      /\ \A k \in 1..Len(ds) : S[order[k]] = ds[k].start
        <3>1. ManifestInv
            BY <1>1
        <3> QED BY <3>1, <2>2, ReferenceTraces
    <2> DEFINE i == order[n + 1]
    <2>5. n + 1 \in 1..Len(ds)
        BY <2>3, <1>1
    <2>6. /\ i \in K /\ S[i] = d.start /\ d.ordinal = i
          /\ d.finish = d.start + ServiceOf(i)
        BY <2>2, <2>3, <2>4, <2>5 DEF Works, Decides, ServiceOf
    <2>7. i \in Ordinal /\ S[i] \in Nat
        BY <2>4, <2>6 DEF Traces
    <2>8. ReadyAt(i) \in Nat /\ ServiceOf(i) \in Nat /\ MaxWait \in Nat /\ MaxFinish \in Nat
        BY <2>7, <1>1, ProposalIs, CountIs
    <2> HIDE DEF i
    <2>9. S[i] - ReadyAt(i) > MaxWait \/ S[i] + ServiceOf(i) > MaxFinish
        BY <2>1, <2>6, <2>7, <2>8 DEF InTime, ReadyAt
    <2>10. Foretells(K, S)'
        BY <2>1, <2>6, <2>9 DEF Foretells, ReadyAt, ServiceOf
    <2> QED BY <2>4, <2>10
<1> QED BY <1>2, <1>3

(* validate_scheduler_trace has nothing against what the reference         *)
(* scheduler plans.                                                        *)
LEMMA PlannedPasses ==
    ASSUME PlanInv, Len(decisions) = Count
    PROVE  Passes(ReferenceTrace)
<1> DEFINE t == ReferenceTrace
<1>1. /\ ManifestInv /\ decisions \in Seq(DecisionType) /\ Decides(decisions)
      /\ WithinCapacity(decisions)
    BY DEF PlanInv, Works
<1>2. Len(t) = Count /\ 1..Len(t) = Ordinal /\ \A k \in Ordinal : k \in Nat
    BY CountIs DEF ReferenceTrace, Ordinal
<1>3. ASSUME NEW k \in Ordinal
      PROVE  /\ decisions[k] \in DecisionType /\ decisions[k].ordinal = order[k]
             /\ decisions[k].start >= ReadyAt(order[k])
             /\ decisions[k].finish = decisions[k].start + ServiceOf(order[k])
             /\ InTime(decisions[k]) /\ order[k] \in Ordinal
             /\ t[k].of = order[k] /\ t[k].rank = k /\ t[k].resource = Res(order[k])
             /\ t[k].start = decisions[k].start /\ t[k].finish = decisions[k].finish
    <2>1. k \in 1..Len(decisions)
        BY DEF Ordinal
    <2>2. /\ decisions[k] \in DecisionType /\ decisions[k].ordinal = order[k]
          /\ decisions[k].start >= ReadyAt(order[k])
          /\ decisions[k].finish = decisions[k].start + ServiceOf(order[k])
          /\ InTime(decisions[k]) /\ order[k] \in Ordinal
        BY <2>1, <1>1, OrderIs DEF Decides, PlanInv, Ready, ReadyAt, ServiceOf
    <2>3. t[k] = Row(decisions[k], k)
        BY DEF ReferenceTrace
    <2> QED BY <2>2, <2>3 DEF Row, Res
<1> HIDE DEF t
<1>4. ASSUME NEW k \in Ordinal PROVE Binds(t, k)
    <2>0. t[k].of = order[k] /\ order[k] \in Ordinal
        BY <1>3
    <2> SUFFICES ASSUME NEW j \in 1..(k - 1) PROVE t[j].of # t[k].of
        BY <2>0 DEF Binds
    <2>1. j \in Ordinal /\ j < k
        BY <1>2, CountIs DEF Ordinal
    <2>2. order[j] # order[k]
        BY <2>1, <1>1, OrderIs
    <2>3. t[j].of = order[j]
        BY <2>1, <1>3
    <2> QED BY <2>0, <2>2, <2>3
<1>5. ASSUME NEW k \in Ordinal PROVE Timely(t[k], k)
    <2> DEFINE i == order[k]
    <2>1. /\ decisions[k].start \in Nat /\ ServiceOf(i) \in Nat /\ ReadyAt(i) \in Nat
        BY <1>1, <1>3, ProposalIs DEF DecisionType
    <2>2. /\ t[k].of = i /\ t[k].rank = k /\ t[k].resource = manifest[i].resource
          /\ t[k].start = decisions[k].start /\ t[k].finish = decisions[k].finish
        BY <1>3 DEF Res
    <2>3. /\ decisions[k].start - manifest[i].ready <= MaxWait
          /\ decisions[k].finish <= MaxFinish
          /\ decisions[k].start >= manifest[i].ready
          /\ decisions[k].finish = decisions[k].start + manifest[i].service
        BY <1>3 DEF InTime, ReadyAt, ServiceOf
    <2>4. decisions[k].finish - decisions[k].start = manifest[i].service
        BY <2>1, <2>3 DEF ServiceOf
    <2> HIDE DEF i
    <2> QED BY <2>2, <2>3, <2>4 DEF Timely
<1>6. ASSUME NEW r \in Resource, NEW tick \in Nat PROVE Cardinality(At(t, r, tick)) <= Capacity[r]
    <2> DEFINE A == At(t, r, tick)
               B == Active(MadeOf(decisions), r, tick)
               f == [k \in A |-> decisions[k]]
    <2>1. \A k \in A : /\ k \in Ordinal /\ Res(order[k]) = r
                       /\ decisions[k].start <= tick /\ tick < decisions[k].finish
        <3> SUFFICES ASSUME NEW k \in A
                     PROVE  /\ k \in Ordinal /\ Res(order[k]) = r
                            /\ decisions[k].start <= tick /\ tick < decisions[k].finish
            OBVIOUS
        <3>1. /\ k \in Ordinal /\ t[k].resource = r
              /\ t[k].start <= tick /\ tick < t[k].finish
            BY <1>2 DEF At, Intervals
        <3> QED BY <3>1, <1>3
    <2> HIDE DEF A
    <2>2. \A k \in A : decisions[k] \in B
        <3> SUFFICES ASSUME NEW k \in A PROVE decisions[k] \in B
            OBVIOUS
        <3>1. k \in 1..Len(decisions) /\ ResourceOf(decisions[k]) = r
            BY <2>1, <1>3 DEF Ordinal, ResourceOf, Res
        <3> QED BY <3>1, <2>1 DEF Active, MadeOf
    <2>3. \A j, k \in A : decisions[j] = decisions[k] => j = k
        <3> SUFFICES ASSUME NEW j \in A, NEW k \in A, decisions[j] = decisions[k] PROVE j = k
            OBVIOUS
        <3>1. j \in Ordinal /\ k \in Ordinal /\ j \in Nat /\ k \in Nat
            BY <2>1, <1>2
        <3>2. order[j] = order[k]
            BY <3>1, <1>3
        <3>3. ~(j < k) /\ ~(k < j)
            BY <3>1, <3>2, <1>1, OrderIs
        <3> QED BY <3>1, <3>3
    <2>4. IsFiniteSet(B) /\ Cardinality(B) <= Capacity[r] /\ Cardinality(B) \in Nat
        <3>1. IsFiniteSet(B)
            BY <1>1, MadeIsFinite DEF Made, MadeOf
        <3> QED BY <3>1, <1>1, FS_CardinalityType DEF WithinCapacity
    <2> HIDE DEF B
    <2>5. f \in Injection(A, B)
        BY <2>2, <2>3 DEF Injection, IsInjective
    <2> HIDE DEF f
    <2>6. IsFiniteSet(A) /\ Cardinality(A) <= Cardinality(B)
        BY <2>4, <2>5, FS_Injection
    <2>7. Cardinality(A) \in Nat /\ Capacity[r] \in Nat
        BY <2>6, FS_CardinalityType, CapacityIs
    <2> QED BY <2>4, <2>6, <2>7 DEF A
<1>7. ~Overloads(t)
    <2> SUFFICES ASSUME NEW k \in Ordinal, NEW tick \in {t[k].start, t[k].finish}
                 PROVE  ~Overloaded(t, t[k].resource, tick)
        BY <1>2 DEF Overloads
    <2> DEFINE r == t[k].resource
    <2>1. r \in Resource /\ tick \in Nat
        <3>1. order[k] \in Ordinal /\ decisions[k].start \in Nat /\ decisions[k].finish \in Nat
            BY <1>3 DEF DecisionType
        <3>2. Res(order[k]) \in Resource
            BY <3>1, <1>1, ProposalIs
        <3> QED BY <3>1, <3>2, <1>3
    <2> HIDE DEF r
    <2>2. Cardinality(At(t, r, tick)) <= Capacity[r]
        BY <2>1, <1>6
    <2>3. Cardinality(At(t, r, tick)) \in Nat /\ Capacity[r] \in Nat
        <3>1. At(t, r, tick) \in SUBSET Ordinal
            BY <1>2 DEF At, Intervals
        <3> QED BY <3>1, <2>1, CountIs, CapacityIs, FS_Subset, FS_CardinalityType
    <2> QED BY <2>1, <2>2, <2>3 DEF Overloaded, r
<1> QED BY <1>2, <1>4, <1>5, <1>7 DEF Passes, t

LEMMA StillSimulates ==
    ASSUME UNCHANGED manifest, NEW K, NEW S, NEW stage,
           Simulates(K, S, stage, now', agenda', made', waiting', users', started', recorded')
    PROVE  Simulates(K, S, stage, now, agenda, made, waiting, users, started, recorded)'
<1>1. PICK t, ag, md, wt, us, st, rc :
          /\ t = now' /\ ag = agenda' /\ md = made' /\ wt = waiting' /\ us = users'
          /\ st = started' /\ rc = recorded'
    OBVIOUS
<1>2. Simulates(K, S, stage, t, ag, md, wt, us, st, rc)
    BY <1>1
<1>3. Simulates(K, S, stage, t, ag, md, wt, us, st, rc)'
    BY <1>2, SameSimulation
<1> QED BY <1>1, <1>3

-----------------------------------------------------------------------------
(* The phases of the two planners on a manifest. *)

Planning == plan = "planning" /\ runtime = "running" /\ AboutToBegin

Simulating ==
    /\ runtime = "running"
    /\ \E K, S, stage :
          /\ Foretells(K, S)
          /\ Simulates(K, S, stage, now, agenda, made, waiting, users, started, recorded)

Failing == plan = "raised" /\ runtime = "running" /\ \E e \in agenda : e.kind = "failed"

BothRaised == plan = "raised" /\ runtime = "raised"

BothPlanned ==
    /\ plan = "planned" /\ runtime = "planned" /\ Len(decisions) = Count
    /\ SimulatedTrace = ReferenceTrace

Phase == Planning \/ Simulating \/ Failing \/ BothRaised \/ BothPlanned

LEMMA PlanningStep ==
    ASSUME PlanInv, Planning, PlanBoth
    PROVE  Phase'
<1>1. plan = "planning" /\ runtime = "running" /\ AboutToBegin /\ ManifestInv
    BY DEF Planning, PlanInv
<1>2. ~Simulate
    BY <1>1 DEF Simulate, AwaitReady, Request, Start, Starve, Finish, FinishLate, ServeNext,
                RunRaises, RunReturns, Occurs
<1>3. ReferenceNext /\ UNCHANGED simVars
    BY <1>2 DEF PlanBoth
<1>4. UNCHANGED <<now, agenda, made, waiting, users, started, recorded, runtime>>
    BY <1>3 DEF simVars
<1>5. CASE PlanNext
    <2>1. plan' = plan /\ order' = order
        BY <1>5, Zenon DEF PlanNext, given
    <2> QED BY <2>1, <1>1, <1>4 DEF Phase, Planning, AboutToBegin
<1>6. CASE ExceedCeiling \/ ReturnTrace
    <2>1. UNCHANGED manifest
        BY <1>6 DEF ExceedCeiling, ReturnTrace, given
    <2>2. PICK K, S : Traces(K, S) /\ Foretells(K, S)'
        BY <1>6, OutcomeIsForetold
    <2>3. PICK stage : Simulates(K, S, stage, now, agenda, made, waiting, users, started, recorded)
        BY <2>2, <1>1, SimulationBegins
    <2>4. Simulates(K, S, stage, now, agenda, made, waiting, users, started, recorded)'
        BY <2>1, <2>3, <1>4, StillSimulates
    <2> QED BY <2>2, <2>4, <1>1, <1>4 DEF Phase, Simulating
<1> QED BY <1>3, <1>5, <1>6 DEF ReferenceNext

LEMMA SimulationLeavesThePlan ==
    ASSUME Simulate
    PROVE  UNCHANGED <<manifest, order, slots, decisions, plan, source>>
<1>1. UNCHANGED referenceVars
    BY Zenon DEF Simulate, RunReturns, AwaitReady, Request, Start, Starve, Finish, FinishLate,
                 ServeNext, RunRaises
<1> QED BY <1>1 DEF referenceVars, given

LEMMA SimulatingStep ==
    ASSUME PlanInv, Simulating, Simulate
    PROVE  Phase'
<1>1. PICK K, S, stage :
          /\ Foretells(K, S)
          /\ Simulates(K, S, stage, now, agenda, made, waiting, users, started, recorded)
    BY DEF Simulating
<1>2. runtime = "running" /\ ManifestInv
    BY DEF Simulating, PlanInv
<1>3. UNCHANGED <<manifest, order, decisions, plan>>
    BY SimulationLeavesThePlan
<1>4. CASE /\ \E next : Simulates(K, S, next, now', agenda', made', waiting', users', started',
                                  recorded')
           /\ runtime' = runtime
    <2>1. PICK next : Simulates(K, S, next, now', agenda', made', waiting', users', started',
                                recorded')
        BY <1>4
    <2>2. Simulates(K, S, next, now, agenda, made, waiting, users, started, recorded)'
        BY <2>1, <1>3, StillSimulates
    <2>3. Foretells(K, S)'
        BY <1>1, <1>3 DEF Foretells, ReadyAt, ServiceOf
    <2> QED BY <2>2, <2>3, <1>2, <1>4 DEF Phase, Simulating
<1>5. ASSUME NEW e \in agenda, Starve(e) \/ FinishLate(e) PROVE Phase'
    <2>1. plan = "raised" /\ \E f \in agenda' : f.kind = "failed"
        BY <1>1, <1>5, FailureIsForetold
    <2>2. runtime' = "running"
        BY <1>2, <1>5 DEF Starve, FinishLate
    <2> QED BY <2>1, <2>2, <1>3 DEF Phase, Failing
<1>6. CASE RunReturns
    <2>1. /\ agenda = {} /\ UNCHANGED recorded
          /\ runtime' = IF DOMAIN recorded = Ordinal THEN "planned" ELSE "key_error"
        BY <1>6 DEF RunReturns
    <2>2. /\ plan = "planned" /\ Len(decisions) = Count
          /\ DOMAIN recorded = Ordinal /\ SimulatedTrace = ReferenceTrace
        BY <2>1, <1>1, NothingIsLeft
    <2>3. SimulatedTrace' = SimulatedTrace /\ ReferenceTrace' = ReferenceTrace
        BY <2>1, <1>3 DEF SimulatedTrace, ReferenceTrace, Row
    <2> QED BY <2>1, <2>2, <2>3, <1>3 DEF Phase, BothPlanned
<1> QED BY <1>1, <1>2, <1>4, <1>5, <1>6, SimulationGoesOn

(* A process has failed: the others may go on until its failure occurs. *)
LEMMA FailingStep ==
    ASSUME Failing, Simulate
    PROVE  Phase'
<1>1. PICK f \in agenda : f.kind = "failed"
    BY DEF Failing
<1>2. plan = "raised" /\ runtime = "running" /\ plan' = "raised"
    BY SimulationLeavesThePlan DEF Failing
<1>3. ASSUME NEW e \in agenda,
             \/ AwaitReady(e) \/ Request(e) \/ Start(e) \/ Starve(e)
             \/ Finish(e) \/ FinishLate(e) \/ ServeNext(e)
      PROVE  Phase'
    <2>1. e # f /\ runtime' = runtime
        BY <1>1, <1>3 DEF AwaitReady, Request, Start, Starve, Finish, FinishLate, ServeNext, Occurs
    <2>2. \E kinds, owner, delay : After(e, kinds, owner, delay)
        BY <1>3, Zenon DEF AwaitReady, Request, Start, Starve, Finish, FinishLate, ServeNext,
                           Serve, Leave
    <2>3. f \in agenda'
        BY <2>1, <2>2 DEF After
    <2> QED BY <2>1, <2>3, <1>1, <1>2 DEF Phase, Failing
<1>4. ASSUME NEW e \in agenda, RunRaises(e) PROVE Phase'
    BY <1>2, <1>4 DEF RunRaises, Phase, BothRaised
<1>5. ~RunReturns
    BY <1>1 DEF RunReturns
<1> QED BY <1>3, <1>4, <1>5 DEF Simulate

LEMMA PhaseStays ==
    ASSUME Phase, UNCHANGED <<referenceVars, simVars>>
    PROVE  Phase'
<1>1. UNCHANGED <<manifest, order, decisions, plan, now, agenda, made, waiting, users, started,
                  recorded, runtime>>
    BY DEF referenceVars, given, simVars
<1>2. CASE Planning
    BY <1>1, <1>2 DEF Phase, Planning, AboutToBegin
<1>3. CASE Simulating
    <2>1. PICK K, S, stage :
              /\ Foretells(K, S)
              /\ Simulates(K, S, stage, now, agenda, made, waiting, users, started, recorded)
        BY <1>3 DEF Simulating
    <2>2. Simulates(K, S, stage, now, agenda, made, waiting, users, started, recorded)'
        BY <2>1, <1>1, StillSimulates
    <2>3. Foretells(K, S)'
        BY <2>1, <1>1 DEF Foretells, ReadyAt, ServiceOf
    <2> QED BY <2>2, <2>3, <1>1, <1>3 DEF Phase, Simulating
<1>4. CASE Failing \/ BothRaised
    BY <1>1, <1>4 DEF Phase, Failing, BothRaised
<1>5. CASE BothPlanned
    BY <1>1, <1>5 DEF Phase, BothPlanned, SimulatedTrace, ReferenceTrace, Row
<1> QED BY <1>2, <1>3, <1>4, <1>5 DEF Phase

(* The adapter has been asked only once both have planned; the one that    *)
(* answers with what it simulated is not refused.                          *)
AnswersInv ==
    /\ receipt = "none" => answers = << >>
    /\ answers # << >> => BothPlanned
    /\ answers # << >> /\ answers = <<SimulatedTrace, SimulatedTrace>> => receipt # "refused"

LEMMA EquivInitInv == Init => Phase /\ AnswersInv
<1> SUFFICES ASSUME Init PROVE Phase /\ AnswersInv
    OBVIOUS
<1>1. SimInit /\ ReferenceInit /\ answers = << >> /\ receipt = "none"
    BY DEF Init, SimInit
<1>2. /\ plan = IF Valid(manifest) THEN "planning" ELSE "raised"
      /\ runtime = IF Valid(manifest) THEN "running" ELSE "raised"
    BY <1>1 DEF SimInit, ReferenceInit
<1>3. AboutToBegin
    BY <1>1, Zenon DEF SimInit, AboutToBegin
<1>4. Phase
    BY <1>2, <1>3 DEF Phase, Planning, BothRaised
<1> QED BY <1>1, <1>4 DEF AnswersInv

LEMMA QualifyKeepsAnswers ==
    ASSUME PlanInv, Phase, Qualify
    PROVE  AnswersInv'
<1>1. /\ BothPlanned /\ UNCHANGED <<referenceVars, simVars>>
      /\ receipt' = IF Qualifies(answers') THEN "issued" ELSE "refused"
    BY DEF Qualify, Phase, Planning, Simulating, Failing, BothRaised
<1>2. UNCHANGED <<manifest, order, decisions, plan, recorded, runtime>>
    BY <1>1 DEF referenceVars, given, simVars
<1>3. /\ BothPlanned' /\ SimulatedTrace' = SimulatedTrace
      /\ SimulatedTrace = ReferenceTrace
    BY <1>1, <1>2 DEF BothPlanned, SimulatedTrace, ReferenceTrace, Row
<1>4. Passes(ReferenceTrace)
    BY <1>1, PlannedPasses DEF BothPlanned
<1>5. ASSUME answers' = <<SimulatedTrace, SimulatedTrace>> PROVE Qualifies(answers')
    <2> DEFINE t == ReferenceTrace
    <2>1. answers' = <<t, t>>
        BY <1>3, <1>5
    <2> HIDE DEF t
    <2>2. Rows(<<t, t>>) = {t}
        <3>1. Len(<<t, t>>) = 2 /\ 1..2 = {1, 2} /\ <<t, t>>[1] = t /\ <<t, t>>[2] = t
            OBVIOUS
        <3> QED BY <3>1 DEF Rows
    <2>3. <<t, t>>[1] = t /\ <<t, t>>[2] = t
        OBVIOUS
    <2>4. Qualifies(<<t, t>>)
        BY <2>2, <2>3, <1>4 DEF Qualifies, t
    <2> QED BY <2>1, <2>4
<1>6. receipt' # "none"
    BY <1>1
<1>7. answers' = <<SimulatedTrace', SimulatedTrace'>> => receipt' # "refused"
    BY <1>1, <1>3, <1>5
<1> QED BY <1>3, <1>6, <1>7 DEF AnswersInv

LEMMA EquivNextInv == ScheduleInv /\ Phase /\ AnswersInv /\ [Next]_vars => (Phase /\ AnswersInv)'
<1> SUFFICES ASSUME ScheduleInv, Phase, AnswersInv, [Next]_vars PROVE (Phase /\ AnswersInv)'
    OBVIOUS
<1>1. BothRaised \/ PlanInv
    BY DEF ScheduleInv, NeverPlanned, BothRaised
<1>2. CASE PlanBoth /\ UNCHANGED qualificationVars
    <2>1. ~BothRaised /\ ~BothPlanned
        BY <1>2, Zenon DEF PlanBoth, ReferenceNext, PlanNext, ExceedCeiling, ReturnTrace, Simulate,
                    AwaitReady, Request, Start, Starve, Finish, FinishLate, ServeNext, RunRaises,
                    RunReturns, Occurs, BothRaised, BothPlanned
    <2>2. answers = << >> /\ answers' = << >>
        BY <2>1, <1>2 DEF AnswersInv, qualificationVars
    <2>3. AnswersInv'
        BY <2>2 DEF AnswersInv
    <2>4. CASE Planning
        BY <2>1, <2>3, <2>4, <1>1, <1>2, PlanningStep
    <2>5. CASE Simulating \/ Failing
        <3>1. plan # "planning"
            BY <2>5 DEF Simulating, Failing, Foretells
        <3>2. Simulate
            BY <3>1, <1>2 DEF PlanBoth, ReferenceNext, PlanNext, ExceedCeiling, ReturnTrace
        <3> QED BY <3>2, <2>1, <2>3, <2>5, <1>1, SimulatingStep, FailingStep
    <2> QED BY <2>1, <2>4, <2>5 DEF Phase
<1>3. CASE PlanRaises
    <2>1. Phase'
        BY <1>3, PhaseStays DEF PlanRaises, simVars
    <2>2. answers = << >> /\ answers' = << >> /\ receipt' = "refused"
        BY <1>3 DEF PlanRaises, AnswersInv
    <2> QED BY <2>1, <2>2 DEF AnswersInv
<1>4. CASE Qualify
    <2>1. PlanInv
        BY <1>1, <1>4 DEF Qualify, BothRaised
    <2>2. Phase'
        BY <1>4, PhaseStays DEF Qualify
    <2> QED BY <2>1, <2>2, <1>4, QualifyKeepsAnswers
<1>5. CASE UNCHANGED vars
    <2>1. UNCHANGED <<referenceVars, simVars>> /\ UNCHANGED <<answers, receipt>>
        BY <1>5 DEF vars, qualificationVars
    <2>2. UNCHANGED <<manifest, order, decisions, plan, recorded, runtime>>
        BY <2>1 DEF referenceVars, given, simVars
    <2>3. /\ SimulatedTrace' = SimulatedTrace /\ ReferenceTrace' = ReferenceTrace
          /\ BothPlanned => BothPlanned'
        BY <2>2 DEF BothPlanned, SimulatedTrace, ReferenceTrace, Row
    <2> QED BY <2>1, <2>3, PhaseStays DEF AnswersInv
<1> QED BY <1>2, <1>3, <1>4, <1>5 DEF Next

(* qualify_simpy_schedule_adapter, which refuses an adapter unless its     *)
(* trace is that of the reference scheduler: whatever the manifest, the    *)
(* resources, their capacities and the ceilings, the simulation over       *)
(* SimPy's events raises exactly if the reference scheduler does, never    *)
(* ends with a proposal undecided, and otherwise hands in the same trace;  *)
(* so the adapter that answers with it is not refused.                     *)
THEOREM SimulationPlansAlike == Spec => []Equivalent
<1>1. Phase /\ AnswersInv => Equivalent
    BY DEF Phase, AnswersInv, Equivalent, Planning, Simulating, Failing, BothRaised, BothPlanned
<1>2. Spec => [](Phase /\ AnswersInv)
    BY EquivInitInv, EquivNextInv, ScheduleInvariance, PTL DEF Spec
<1> QED BY <1>1, <1>2, PTL

=============================================================================
