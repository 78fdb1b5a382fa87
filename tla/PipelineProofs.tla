---------------------------- MODULE PipelineProofs ----------------------------
(***************************************************************************)
(* The pipeline from a sealed case to an audited corpus, for any claims,   *)
(* entries, scopes, contracts and registries.  A validator that looks up   *)
(* by identity and compares lengths is shown to leave no room: the plans   *)
(* of a qualified case correspond one to one to its projections, artifacts *)
(* and mesh receipts.                                                      *)
(***************************************************************************)
EXTENDS CorpusAudit, FiniteSetTheorems, WellFoundedInduction, TLAPS

(* Finite sets of places. *)

LEMMA LeastExists ==
    ASSUME NEW T, T \subseteq Nat, T # {}
    PROVE  \E x \in T : \A y \in T : x <= y
<1>1. PICK x \in T : \A y \in T : ~(<<y, x>> \in OpToRel(<, Nat))
  BY WFMin, NatLessThanWellFounded
<1>2. \A y \in T : ~(y < x)
  BY <1>1 DEF OpToRel
<1> QED BY <1>2

LEMMA LastPlace ==
    ASSUME NEW n \in Nat, NEW T, T \subseteq 1..n, T # {}
    PROVE  Max(T) \in T
<1> DEFINE M == {n - y : y \in T}
<1>1. M \subseteq Nat /\ M # {}
  <2>1. \A y \in T : n - y \in Nat
    OBVIOUS
  <2> QED BY <2>1
<1>2. PICK m \in M : \A k \in M : m <= k
  <2> HIDE DEF M
  <2> QED BY <1>1, LeastExists
<1>3. PICK x \in T : m = n - x
  BY <1>2
<1>4. ASSUME NEW y \in T
      PROVE  x >= y
  <2>1. m <= n - y
    BY <1>2
  <2> QED BY <1>3, <2>1
<1>5. \E z \in T : \A y \in T : z >= y
  BY <1>4
<1> QED BY <1>5 DEF Max

(* Who has a place of his own among as many places leaves no place empty. *)
LEMMA NoPlaceIsLeft ==
    ASSUME NEW n \in Nat, NEW R,
           \A i \in 1..n : \E j \in 1..n : <<i, j>> \in R,
           \A i, k, j \in 1..n : <<i, j>> \in R /\ <<k, j>> \in R => i = k
    PROVE  /\ \A j \in 1..n : \E i \in 1..n : <<i, j>> \in R
           /\ \A i, j, k \in 1..n : <<i, j>> \in R /\ <<i, k>> \in R => j = k
<1> DEFINE f == [i \in 1..n |-> CHOOSE j \in 1..n : <<i, j>> \in R]
<1>1. \A i \in 1..n : f[i] \in 1..n /\ <<i, f[i]>> \in R
  OBVIOUS
<1>2. f \in Injection(1..n, 1..n)
  <2>1. f \in [1..n -> 1..n]
    BY <1>1
  <2> HIDE DEF f
  <2> QED BY <1>1, <2>1 DEF Injection, IsInjective
<1>3. f \in Surjection(1..n, 1..n)
  <2> HIDE DEF f
  <2>1. IsFiniteSet(1..n)
    BY FS_Interval
  <2> QED BY <1>2, <2>1, FS_Injection
<1>4. \A j \in 1..n : \E i \in 1..n : f[i] = j
  <2> HIDE DEF f
  <2> QED BY <1>3 DEF Surjection
<1>5. \A j \in 1..n : \E i \in 1..n : <<i, j>> \in R
  <2> HIDE DEF f
  <2> QED BY <1>1, <1>4
<1>6. ASSUME NEW i \in 1..n, NEW j \in 1..n, <<i, j>> \in R
      PROVE  j = f[i]
  <2> HIDE DEF f
  <2>1. PICK k \in 1..n : f[k] = j
    BY <1>4
  <2>2. <<k, j>> \in R
    BY <1>1, <2>1
  <2>3. k = i
    BY <1>6, <2>2
  <2> QED BY <2>1, <2>3
<1> HIDE DEF f
<1> QED BY <1>5, <1>6

-----------------------------------------------------------------------------
(* A case is eight columns, each a sequence.                               *)

Listed(items) == items \in Seq(ToSet(items))

Columnar(c) ==
    /\ DOMAIN c = Columns
    /\ \A name \in Columns : Listed(c[name])

LEMMA ListedFacts ==
    ASSUME NEW s, Listed(s)
    PROVE  Len(s) \in Nat /\ DOMAIN s = 1..Len(s)
BY DEF Listed

LEMMA SeqIsListed ==
    ASSUME NEW S, NEW s \in Seq(S)
    PROVE  Listed(s)
<1>1. Len(s) \in Nat /\ DOMAIN s = 1..Len(s) /\ s = [i \in 1..Len(s) |-> s[i]]
  OBVIOUS
<1>2. \A i \in 1..Len(s) : s[i] \in ToSet(s)
  BY <1>1 DEF ToSet
<1> QED BY <1>1, <1>2 DEF Listed

LEMMA FiniteListing ==
    ASSUME NEW s, Listed(s)
    PROVE  IsFiniteSet(ToSet(s))
<1>1. Len(s) \in Nat /\ DOMAIN s = 1..Len(s) /\ s \in [1..Len(s) -> ToSet(s)]
  BY DEF Listed
<1>2. \A x \in ToSet(s) : \E i \in 1..Len(s) : s[i] = x
  BY <1>1 DEF ToSet
<1>3. s \in Surjection(1..Len(s), ToSet(s))
  BY <1>1, <1>2 DEF Surjection
<1>4. IsFiniteSet(1..Len(s))
  BY <1>1, FS_Interval
<1> QED BY <1>3, <1>4, FS_Surjection

LEMMA ColumnsListed ==
    ASSUME NEW c, Columnar(c)
    PROVE  /\ Listed(c.states) /\ Listed(c.views) /\ Listed(c.plans) /\ Listed(c.projections)
           /\ Listed(c.artifacts) /\ Listed(c.receipts) /\ Listed(c.manifests) /\ Listed(c.meshes)
BY DEF Columnar, Columns

(* The places that a lookup may give, and the one that it gives. *)

StatePlaces(c, plan) == {i \in 1..Len(c.states) : StateId(c.states[i]) = StateId(plan.state)}
StateAt(c, plan) ==
    Lookup(c.states, LAMBDA s : StateId(s) = StateId(plan.state))

ProjectionPlaces(c, plan) == {i \in 1..Len(c.projections) : PlanId(c.projections[i].plan) = PlanId(plan)}
ProjectionAt(c, plan) ==
    Lookup(c.projections, LAMBDA r : PlanId(r.plan) = PlanId(plan))

ArtifactPlaces(c, plan) == {i \in 1..Len(c.artifacts) : PlanId(c.artifacts[i].projection.plan) = PlanId(plan)}
ArtifactAt(c, plan) ==
    Lookup(c.artifacts, LAMBDA a : PlanId(a.projection.plan) = PlanId(plan))

ReceiptPlaces(c, plan) == {i \in 1..Len(c.receipts) : c.receipts[i].artifact.projection.plan = plan}
ReceiptAt(c, plan) ==
    Lookup(c.receipts, LAMBDA r : r.artifact.projection.plan = plan)

ManifestPlaces(c, plan) == {i \in 1..Len(c.manifests) : PlanId(c.manifests[i].projection.plan) = PlanId(plan)}
ManifestAt(c, plan) ==
    Lookup(c.manifests, LAMBDA m : PlanId(m.projection.plan) = PlanId(plan))

MeshPlaces(c, m) == {i \in 1..Len(c.meshes) : ManifestId(c.meshes[i].manifest) = ManifestId(m)}
MeshAt(c, m) ==
    Lookup(c.meshes, LAMBDA r : ManifestId(r.manifest) = ManifestId(m))

LEMMA PlaceFound ==
    ASSUME NEW s, Listed(s), NEW T, T \subseteq 1..Len(s), NEW i,
           i = IF T # {} THEN Max(T) ELSE 0
    PROVE  /\ i # 0 => i \in DOMAIN s /\ i \in T
           /\ T # {} => i \in T /\ i # 0
           /\ \A k : T = {k} => i = k
<1>1. Len(s) \in Nat /\ DOMAIN s = 1..Len(s)
  BY ListedFacts
<1>2. T # {} => i \in T
  BY <1>1, LastPlace
<1>3. T = {} => i = 0
  OBVIOUS
<1>4. \A k : T = {k} => i = k
  BY <1>2
<1>5. i # 0 => i \in T
  BY <1>2, <1>3
<1>6. i \in T => i \in DOMAIN s /\ i # 0
  BY <1>1
<1> QED BY <1>2, <1>4, <1>5, <1>6

LEMMA Lookups ==
    ASSUME NEW c, Columnar(c), NEW plan, NEW m
    PROVE  /\ StateAt(c, plan) # 0 =>
                /\ StateAt(c, plan) \in DOMAIN c.states
                /\ StateAt(c, plan) \in StatePlaces(c, plan)
           /\ \A k : StatePlaces(c, plan) = {k} => StateAt(c, plan) = k /\ k # 0
           /\ ProjectionAt(c, plan) # 0 =>
                /\ ProjectionAt(c, plan) \in DOMAIN c.projections
                /\ ProjectionAt(c, plan) \in ProjectionPlaces(c, plan)
           /\ \A k : ProjectionPlaces(c, plan) = {k} => ProjectionAt(c, plan) = k /\ k # 0
           /\ ArtifactAt(c, plan) # 0 =>
                /\ ArtifactAt(c, plan) \in DOMAIN c.artifacts
                /\ ArtifactAt(c, plan) \in ArtifactPlaces(c, plan)
           /\ \A k : ArtifactPlaces(c, plan) = {k} => ArtifactAt(c, plan) = k /\ k # 0
           /\ ReceiptAt(c, plan) # 0 =>
                /\ ReceiptAt(c, plan) \in DOMAIN c.receipts
                /\ ReceiptAt(c, plan) \in ReceiptPlaces(c, plan)
           /\ \A k : ReceiptPlaces(c, plan) = {k} => ReceiptAt(c, plan) = k /\ k # 0
           /\ ManifestAt(c, plan) # 0 =>
                /\ ManifestAt(c, plan) \in DOMAIN c.manifests
                /\ ManifestAt(c, plan) \in ManifestPlaces(c, plan)
           /\ \A k : ManifestPlaces(c, plan) = {k} => ManifestAt(c, plan) = k /\ k # 0
           /\ MeshAt(c, m) # 0 =>
                /\ MeshAt(c, m) \in DOMAIN c.meshes
                /\ MeshAt(c, m) \in MeshPlaces(c, m)
           /\ \A k : MeshPlaces(c, m) = {k} => MeshAt(c, m) = k /\ k # 0
<1>1. /\ Listed(c.states) /\ StatePlaces(c, plan) \subseteq 1..Len(c.states)
      /\ StateAt(c, plan) = IF StatePlaces(c, plan) # {} THEN Max(StatePlaces(c, plan)) ELSE 0
  BY ColumnsListed DEF StatePlaces, StateAt, Lookup, SelectLastInSeq
<1>2. /\ Listed(c.projections) /\ ProjectionPlaces(c, plan) \subseteq 1..Len(c.projections)
      /\ ProjectionAt(c, plan) = IF ProjectionPlaces(c, plan) # {} THEN Max(ProjectionPlaces(c, plan)) ELSE 0
  BY ColumnsListed DEF ProjectionPlaces, ProjectionAt, Lookup, SelectLastInSeq
<1>3. /\ Listed(c.artifacts) /\ ArtifactPlaces(c, plan) \subseteq 1..Len(c.artifacts)
      /\ ArtifactAt(c, plan) = IF ArtifactPlaces(c, plan) # {} THEN Max(ArtifactPlaces(c, plan)) ELSE 0
  BY ColumnsListed DEF ArtifactPlaces, ArtifactAt, Lookup, SelectLastInSeq
<1>4. /\ Listed(c.receipts) /\ ReceiptPlaces(c, plan) \subseteq 1..Len(c.receipts)
      /\ ReceiptAt(c, plan) = IF ReceiptPlaces(c, plan) # {} THEN Max(ReceiptPlaces(c, plan)) ELSE 0
  BY ColumnsListed DEF ReceiptPlaces, ReceiptAt, Lookup, SelectLastInSeq
<1>5. /\ Listed(c.manifests) /\ ManifestPlaces(c, plan) \subseteq 1..Len(c.manifests)
      /\ ManifestAt(c, plan) = IF ManifestPlaces(c, plan) # {} THEN Max(ManifestPlaces(c, plan)) ELSE 0
  BY ColumnsListed DEF ManifestPlaces, ManifestAt, Lookup, SelectLastInSeq
<1>6. /\ Listed(c.meshes) /\ MeshPlaces(c, m) \subseteq 1..Len(c.meshes)
      /\ MeshAt(c, m) = IF MeshPlaces(c, m) # {} THEN Max(MeshPlaces(c, m)) ELSE 0
  BY ColumnsListed DEF MeshPlaces, MeshAt, Lookup, SelectLastInSeq
<1>7. /\ StateAt(c, plan) # 0 =>
           /\ StateAt(c, plan) \in DOMAIN c.states
           /\ StateAt(c, plan) \in StatePlaces(c, plan)
      /\ \A k : StatePlaces(c, plan) = {k} => StateAt(c, plan) = k /\ k # 0
  BY <1>1, PlaceFound
<1>8. /\ ProjectionAt(c, plan) # 0 =>
           /\ ProjectionAt(c, plan) \in DOMAIN c.projections
           /\ ProjectionAt(c, plan) \in ProjectionPlaces(c, plan)
      /\ \A k : ProjectionPlaces(c, plan) = {k} => ProjectionAt(c, plan) = k /\ k # 0
  BY <1>2, PlaceFound, ZenonT(60)
<1>9. /\ ArtifactAt(c, plan) # 0 =>
           /\ ArtifactAt(c, plan) \in DOMAIN c.artifacts
           /\ ArtifactAt(c, plan) \in ArtifactPlaces(c, plan)
      /\ \A k : ArtifactPlaces(c, plan) = {k} => ArtifactAt(c, plan) = k /\ k # 0
  BY <1>3, PlaceFound, ZenonT(60)
<1>10. /\ ReceiptAt(c, plan) # 0 =>
           /\ ReceiptAt(c, plan) \in DOMAIN c.receipts
           /\ ReceiptAt(c, plan) \in ReceiptPlaces(c, plan)
      /\ \A k : ReceiptPlaces(c, plan) = {k} => ReceiptAt(c, plan) = k /\ k # 0
  BY <1>4, PlaceFound, ZenonT(60)
<1>11. /\ ManifestAt(c, plan) # 0 =>
           /\ ManifestAt(c, plan) \in DOMAIN c.manifests
           /\ ManifestAt(c, plan) \in ManifestPlaces(c, plan)
      /\ \A k : ManifestPlaces(c, plan) = {k} => ManifestAt(c, plan) = k /\ k # 0
  BY <1>5, PlaceFound
<1>12. /\ MeshAt(c, m) # 0 =>
           /\ MeshAt(c, m) \in DOMAIN c.meshes
           /\ MeshAt(c, m) \in MeshPlaces(c, m)
      /\ \A k : MeshPlaces(c, m) = {k} => MeshAt(c, m) = k /\ k # 0
  BY <1>6, PlaceFound
<1> QED BY <1>7, <1>8, <1>9, <1>10, <1>11, <1>12

-----------------------------------------------------------------------------
(* What the validators say, with names for the places.                     *)

Seen(plan) == Projection(plan, View(plan.state, plan.assertions))

LEMMA SeenPlan ==
    ASSUME NEW plan
    PROVE  Seen(plan).plan = plan
BY DEF Seen, Projection

LEMMA PlanHoldsSays ==
    ASSUME NEW c, NEW sealed, NEW reg, NEW plan
    PROVE  PlanHolds(c, sealed, reg, plan) <=>
              /\ plan.assertions \subseteq SealedGrants(sealed)
              /\ plan.scope = sealed.scope
              /\ StateAt(c, plan) # 0
              /\ c.states[StateAt(c, plan)] = plan.state
              /\ PlanAuthorized(plan, c.states[StateAt(c, plan)],
                                Capability(reg, plan.capability.family))
BY DEF PlanHolds, StateAt, Lookup, SelectLastInSeq

LEMMA ProductHoldsSays ==
    ASSUME NEW c, NEW sealed, NEW plan
    PROVE  ProductHolds(c, sealed, plan) <=>
              /\ ProjectionAt(c, plan) # 0 /\ ArtifactAt(c, plan) # 0 /\ ReceiptAt(c, plan) # 0
              /\ View(plan.state, plan.assertions) \in ToSet(c.views)
              /\ c.projections[ProjectionAt(c, plan)] = Seen(plan)
              /\ ValidStaged(c.artifacts[ArtifactAt(c, plan)],
                             c.projections[ProjectionAt(c, plan)])
              /\ ValidShapeReceipt(c.receipts[ReceiptAt(c, plan)],
                                   c.artifacts[ArtifactAt(c, plan)],
                                   c.projections[ProjectionAt(c, plan)])
BY DEF ProductHolds, ProjectionAt, ArtifactAt, ReceiptAt, Lookup, SelectLastInSeq, Seen

LEMMA MeshPlanHoldsSays ==
    ASSUME NEW c, NEW reg, NEW plan, NEW seen, seen = c.projections[ProjectionAt(c, plan)],
           NEW m, m = Manifest(reg, plan, seen)
    PROVE  MeshPlanHolds(reg, plan, c) <=>
              /\ ProjectionAt(c, plan) # 0 /\ StateAt(c, plan) # 0 /\ ArtifactAt(c, plan) # 0
              /\ ReceiptAt(c, plan) # 0 /\ ManifestAt(c, plan) # 0
              /\ CanManifest(plan, seen, c.states[StateAt(c, plan)])
              /\ c.manifests[ManifestAt(c, plan)] = m
              /\ Separated(m)
              /\ MeshAt(c, m) # 0
              /\ CanIssue(m, c.artifacts[ArtifactAt(c, plan)], c.receipts[ReceiptAt(c, plan)])
              /\ c.meshes[MeshAt(c, m)] = MeshReceipt(m, c.artifacts[ArtifactAt(c, plan)],
                                                      c.receipts[ReceiptAt(c, plan)])
BY DEF MeshPlanHolds, ProjectionAt, StateAt, ArtifactAt, ReceiptAt, ManifestAt, MeshAt,
       Lookup, SelectLastInSeq

Versions(c, p) ==
    {q \in ToSet(c.plans) : q.scope = p.scope /\ q.lineage.logical = p.lineage.logical}

LEMMA LineageHoldsSays ==
    ASSUME NEW c
    PROVE  LineageHolds(c.plans, c.artifacts) <=>
              /\ \A i, j \in DOMAIN c.plans :
                    i # j => VersionId(c.plans[i].lineage) # VersionId(c.plans[j].lineage)
              /\ \A p \in ToSet(c.plans) :
                    /\ {q.lineage.revision : q \in Versions(c, p)} = 1..Cardinality(Versions(c, p))
                    /\ \A q \in Versions(c, p) : q.lineage.revision = p.lineage.revision + 1 =>
                        /\ ArtifactAt(c, p) # 0
                        /\ q.lineage.parent # Nothing
                        /\ q.lineage.parent.version = VersionId(p.lineage)
                        /\ q.lineage.parent.content = c.artifacts[ArtifactAt(c, p)].content
BY DEF LineageHolds, AllDifferent, Versions, ArtifactAt, Lookup, SelectLastInSeq

-----------------------------------------------------------------------------
(* A qualified case, seen from its plans ...                               *)

LEMMA SealedFields ==
    ASSUME NEW scope
    PROVE  Sealed(scope).scope = scope /\ Sealed(scope).facts = Facts
BY DEF Sealed

LEMMA PlanStands ==
    ASSUME NEW c, Columnar(c), NEW reg, Qualified(c, Sealed(Scope), reg),
           NEW i \in DOMAIN c.plans, NEW plan, plan = c.plans[i]
    PROVE  /\ plan.scope = Scope
           /\ plan.assertions \subseteq SealedGrants(Sealed(Scope))
           /\ PlanAuthorized(plan, plan.state, Capability(reg, plan.capability.family))
           /\ ProjectionAt(c, plan) \in DOMAIN c.projections
           /\ c.projections[ProjectionAt(c, plan)] = Seen(plan)
           /\ ArtifactAt(c, plan) \in DOMAIN c.artifacts
           /\ ValidStaged(c.artifacts[ArtifactAt(c, plan)], Seen(plan))
           /\ CanManifest(plan, Seen(plan), plan.state)
           /\ Separated(Manifest(reg, plan, Seen(plan)))
           /\ MeshAt(c, Manifest(reg, plan, Seen(plan))) \in DOMAIN c.meshes
           /\ c.meshes[MeshAt(c, Manifest(reg, plan, Seen(plan)))].manifest
                = Manifest(reg, plan, Seen(plan))
<1>1. plan \in ToSet(c.plans)
  BY DEF ToSet
<1>2. PlanHolds(c, Sealed(Scope), reg, plan) /\ ProductHolds(c, Sealed(Scope), plan)
      /\ MeshPlanHolds(reg, plan, c)
  BY <1>1 DEF Qualified, MeshHolds
<1>3. /\ plan.scope = Scope
      /\ plan.assertions \subseteq SealedGrants(Sealed(Scope))
      /\ c.states[StateAt(c, plan)] = plan.state
      /\ PlanAuthorized(plan, plan.state, Capability(reg, plan.capability.family))
  BY <1>2, PlanHoldsSays, SealedFields
<1>4. /\ ProjectionAt(c, plan) # 0 /\ ArtifactAt(c, plan) # 0
      /\ c.projections[ProjectionAt(c, plan)] = Seen(plan)
      /\ ValidStaged(c.artifacts[ArtifactAt(c, plan)], Seen(plan))
  BY <1>2, ProductHoldsSays
<1> DEFINE m == Manifest(reg, plan, Seen(plan))
<1>5. /\ CanManifest(plan, Seen(plan), plan.state)
      /\ Separated(m)
      /\ MeshAt(c, m) # 0
      /\ c.meshes[MeshAt(c, m)] = MeshReceipt(m, c.artifacts[ArtifactAt(c, plan)],
                                                 c.receipts[ReceiptAt(c, plan)])
  BY <1>2, <1>3, <1>4, MeshPlanHoldsSays
<1>6. c.meshes[MeshAt(c, m)].manifest = m
  BY <1>5 DEF MeshReceipt
<1>7. /\ ProjectionAt(c, plan) \in DOMAIN c.projections
      /\ ArtifactAt(c, plan) \in DOMAIN c.artifacts
      /\ MeshAt(c, m) \in DOMAIN c.meshes
  BY <1>4, <1>5, Lookups
<1> QED BY <1>3, <1>4, <1>5, <1>6, <1>7

LEMMA EqualColumns ==
    ASSUME NEW c, Columnar(c), NEW reg, Qualified(c, Sealed(Scope), reg)
    PROVE  /\ Len(c.plans) \in Nat
           /\ DOMAIN c.plans = 1..Len(c.plans)
           /\ DOMAIN c.projections = 1..Len(c.plans)
           /\ DOMAIN c.artifacts = 1..Len(c.plans)
           /\ DOMAIN c.meshes = 1..Len(c.plans)
           /\ \A i, k \in 1..Len(c.plans) : PlanId(c.plans[i]) = PlanId(c.plans[k]) => i = k
<1>1. /\ Len(c.projections) = Len(c.plans)
      /\ Len(c.artifacts) = Len(c.plans)
      /\ Len(c.meshes) = Len(c.plans)
  BY DEF Qualified, SameLengths
<1>2. \A i, k \in DOMAIN c.plans : i # k => PlanId(c.plans[i]) # PlanId(c.plans[k])
  BY DEF Qualified, IdentitiesUnique, AllDifferent
<1>3. Listed(c.plans) /\ Listed(c.projections) /\ Listed(c.artifacts) /\ Listed(c.meshes)
  BY ColumnsListed
<1> QED BY <1>1, <1>2, <1>3, ListedFacts

(* ... and from what was made of them: nothing is there that is not a      *)
(* plan's, and an artifact is only its own plan's.                         *)
LEMMA ProjectionsAreThePlans ==
    ASSUME NEW c, Columnar(c), NEW reg, Qualified(c, Sealed(Scope), reg),
           NEW j \in DOMAIN c.projections
    PROVE  \E i \in DOMAIN c.plans : c.projections[j] = Seen(c.plans[i])
<1> DEFINE n == Len(c.plans)
           R == {r \in (1..n) \X (1..n) : c.projections[r[2]] = Seen(c.plans[r[1]])}
<1>1. \A i, k \in 1..n : <<i, k>> \in R <=> c.projections[k] = Seen(c.plans[i])
  OBVIOUS
<1>2. /\ n \in Nat /\ DOMAIN c.plans = 1..n /\ DOMAIN c.projections = 1..n
      /\ \A i, k \in 1..n : PlanId(c.plans[i]) = PlanId(c.plans[k]) => i = k
  BY EqualColumns
<1> HIDE DEF n, R
<1>3. \A i \in 1..n : \E k \in 1..n : <<i, k>> \in R
  BY <1>1, <1>2, PlanStands
<1>4. ASSUME NEW i \in 1..n, NEW k \in 1..n, NEW l \in 1..n, <<i, l>> \in R, <<k, l>> \in R
      PROVE  i = k
  <2>1. Seen(c.plans[i]) = Seen(c.plans[k])
    BY <1>1, <1>4
  <2>2. c.plans[i] = c.plans[k]
    BY <2>1 DEF Seen, Projection
  <2> QED BY <1>2, <2>2
<1>5. \E i \in 1..n : <<i, j>> \in R
  BY <1>2, <1>3, <1>4, NoPlaceIsLeft
<1> QED BY <1>1, <1>2, <1>5

LEMMA ArtifactsAreThePlans ==
    ASSUME NEW c, Columnar(c), NEW reg, Qualified(c, Sealed(Scope), reg)
    PROVE  /\ \A j \in DOMAIN c.artifacts :
                \E i \in DOMAIN c.plans : ValidStaged(c.artifacts[j], Seen(c.plans[i]))
           /\ \A i \in DOMAIN c.plans, j, k \in DOMAIN c.artifacts :
                c.artifacts[j].projection.plan = c.plans[i]
                    /\ c.artifacts[k].projection.plan = c.plans[i] => j = k
<1> DEFINE n == Len(c.plans)
           R == {r \in (1..n) \X (1..n) : ValidStaged(c.artifacts[r[2]], Seen(c.plans[r[1]]))}
<1>1. \A i, k \in 1..n : <<i, k>> \in R <=> ValidStaged(c.artifacts[k], Seen(c.plans[i]))
  OBVIOUS
<1>2. /\ n \in Nat /\ DOMAIN c.plans = 1..n /\ DOMAIN c.artifacts = 1..n
      /\ \A i, k \in 1..n : PlanId(c.plans[i]) = PlanId(c.plans[k]) => i = k
  BY EqualColumns
<1> HIDE DEF n, R
<1>3. \A i \in 1..n : \E k \in 1..n : <<i, k>> \in R
  BY <1>1, <1>2, PlanStands
<1>4. ASSUME NEW i \in 1..n, NEW k \in 1..n, <<i, k>> \in R
      PROVE  c.artifacts[k].projection.plan = c.plans[i]
  <2>1. ValidStaged(c.artifacts[k], Seen(c.plans[i]))
    BY <1>1, <1>4
  <2>2. c.artifacts[k].projection = Seen(c.plans[i])
    BY <2>1 DEF ValidStaged
  <2> QED BY <2>2, SeenPlan
<1>5. \A i, k, l \in 1..n : <<i, l>> \in R /\ <<k, l>> \in R => i = k
  BY <1>2, <1>4
<1>6. /\ \A j \in 1..n : \E i \in 1..n : <<i, j>> \in R
      /\ \A i, j, k \in 1..n : <<i, j>> \in R /\ <<i, k>> \in R => j = k
  BY <1>2, <1>3, <1>5, NoPlaceIsLeft
<1>7. ASSUME NEW i \in 1..n, NEW j \in 1..n, NEW k \in 1..n,
             c.artifacts[j].projection.plan = c.plans[i],
             c.artifacts[k].projection.plan = c.plans[i]
      PROVE  j = k
  <2>1. PICK a \in 1..n, b \in 1..n : <<a, j>> \in R /\ <<b, k>> \in R
    BY <1>6
  <2>2. c.plans[a] = c.plans[i] /\ c.plans[b] = c.plans[i]
    BY <1>4, <1>7, <2>1
  <2>3. a = i /\ b = i
    BY <1>2, <2>2
  <2> QED BY <1>6, <2>1, <2>3
<1> QED BY <1>1, <1>2, <1>6, <1>7

LEMMA MeshesAreThePlans ==
    ASSUME NEW c, Columnar(c), NEW reg, Qualified(c, Sealed(Scope), reg),
           NEW j \in DOMAIN c.meshes
    PROVE  \E i \in DOMAIN c.plans :
              c.meshes[j].manifest = Manifest(reg, c.plans[i], Seen(c.plans[i]))
<1> DEFINE n == Len(c.plans)
           R == {r \in (1..n) \X (1..n) :
                    c.meshes[r[2]].manifest = Manifest(reg, c.plans[r[1]], Seen(c.plans[r[1]]))}
<1>1. \A i, k \in 1..n :
        <<i, k>> \in R <=> c.meshes[k].manifest = Manifest(reg, c.plans[i], Seen(c.plans[i]))
  OBVIOUS
<1>2. /\ n \in Nat /\ DOMAIN c.plans = 1..n /\ DOMAIN c.meshes = 1..n
      /\ \A i, k \in 1..n : PlanId(c.plans[i]) = PlanId(c.plans[k]) => i = k
  BY EqualColumns
<1> HIDE DEF n, R
<1>3. \A i \in 1..n : \E k \in 1..n : <<i, k>> \in R
  BY <1>1, <1>2, PlanStands
<1>4. ASSUME NEW i \in 1..n, NEW k \in 1..n, <<i, k>> \in R
      PROVE  c.meshes[k].manifest.projection.plan = c.plans[i]
  <2>1. c.meshes[k].manifest = Manifest(reg, c.plans[i], Seen(c.plans[i]))
    BY <1>1, <1>4
  <2>2. c.meshes[k].manifest.projection = Seen(c.plans[i])
    BY <2>1 DEF Manifest
  <2> QED BY <2>2, SeenPlan
<1>5. \A i, k, l \in 1..n : <<i, l>> \in R /\ <<k, l>> \in R => i = k
  BY <1>2, <1>4
<1>6. \E i \in 1..n : <<i, j>> \in R
  BY <1>2, <1>3, <1>5, NoPlaceIsLeft
<1> QED BY <1>1, <1>2, <1>6

-----------------------------------------------------------------------------
(* The invariant.  The validator does not ask when an assertion was        *)
(* learned, or whether the state knows its facts: build_artifact_plan has, *)
(* and no plan comes from elsewhere.                                       *)

PlanMade(plan) ==
    /\ CanPlan(plan.scope, plan.capability.family, plan.author, plan.recipients,
               plan.day, plan.assertions, plan.state)
    /\ ValidLineage(plan.lineage)
    /\ plan.capability.family \in Required

WellMade(c) ==
    /\ Columnar(c)
    /\ \A i \in DOMAIN c.plans : PlanMade(c.plans[i])

CaseInv == WellMade(case)

(* Two updates of a sequence, by name. *)
Replaced(s, i, e) == [s EXCEPT ![i] = e]
Added(s, e) == Append(s, e)

LEMMA ListedExcept ==
    ASSUME NEW s, Listed(s), NEW i \in DOMAIN s, NEW e, NEW t, t = [s EXCEPT ![i] = e]
    PROVE  /\ Listed(t)
           /\ \A j \in DOMAIN t : t[j] = e \/ (j \in DOMAIN s /\ t[j] = s[j])
<1> DEFINE S == ToSet(s) \cup {e}
<1>1. s \in Seq(S) /\ e \in S
  BY DEF Listed
<1>2. t \in Seq(S)
  BY <1>1
<1>3. \A j \in DOMAIN t : t[j] = e \/ (j \in DOMAIN s /\ t[j] = s[j])
  BY <1>1
<1> HIDE DEF S
<1> QED BY <1>2, <1>3, SeqIsListed

LEMMA ListedAppend ==
    ASSUME NEW s, Listed(s), NEW e, NEW t, t = Added(s, e)
    PROVE  /\ Listed(t)
           /\ \A j \in DOMAIN t : t[j] = e \/ (j \in DOMAIN s /\ t[j] = s[j])
<1> DEFINE S == ToSet(s) \cup {e}
<1>1. s \in Seq(S) /\ e \in S
  BY DEF Listed
<1>2. t \in Seq(S)
  BY <1>1 DEF Added
<1>3. \A j \in DOMAIN t : t[j] = e \/ (j \in DOMAIN s /\ t[j] = s[j])
  BY <1>1 DEF Added
<1> HIDE DEF S
<1> QED BY <1>2, <1>3, SeqIsListed

LEMMA ListedRemove ==
    ASSUME NEW s, Listed(s), NEW i \in DOMAIN s, NEW t, t = RemoveAt(s, i)
    PROVE  /\ Listed(t)
           /\ \A j \in DOMAIN t : \E k \in DOMAIN s : t[j] = s[k]
<1> DEFINE S == ToSet(s)
           u == SubSeq(s, 1, i - 1)
           v == SubSeq(s, i + 1, Len(s))
<1>1. s \in Seq(S) /\ i \in 1..Len(s) /\ Len(s) \in Nat
  BY DEF Listed
<1>2. u \in Seq(S) /\ v \in Seq(S)
  BY <1>1
<1>3. t = u \o v
  BY DEF RemoveAt
<1>4. t \in Seq(S)
  <2> HIDE DEF S, u, v
  <2> QED BY <1>2, <1>3
<1>5. \A j \in DOMAIN t : t[j] \in S
  <2> HIDE DEF S, u, v
  <2> QED BY <1>4
<1>6. \A x \in S : \E k \in DOMAIN s : x = s[k]
  BY DEF ToSet
<1> HIDE DEF S, u, v
<1> QED BY <1>4, <1>5, <1>6, SeqIsListed

LEMMA BuiltPlan ==
    ASSUME NEW reg, NEW part, NEW from, NEW upto, NEW assertions, NEW lineage, NEW body,
           NEW new, new = Build(reg, part, from, upto, assertions, lineage, body),
           Builds(new, from, upto), PlanMade(part.plan)
    PROVE  PlanMade(new.plan) /\ Column(new, "plans") = new.plan
<1>1. Column(new, "plans") = new.plan
  BY DEF Column
<1>2. CASE from <= 2 /\ 2 <= upto
  <2>1. CanPlan(new.plan.scope, new.plan.capability.family, new.plan.author, new.plan.recipients,
                new.plan.day, new.plan.assertions, new.state)
        /\ ValidLineage(new.plan.lineage)
    BY <1>2 DEF Builds
  <2>2. new.plan.state = new.state /\ new.plan.capability.family = part.plan.capability.family
    BY <1>2 DEF Build, Plan, Capability
  <2> QED BY <1>1, <2>1, <2>2 DEF PlanMade
<1>3. CASE ~(from <= 2 /\ 2 <= upto)
  <2>1. new.plan = part.plan
    BY <1>3 DEF Build
  <2> QED BY <1>1, <2>1
<1> QED BY <1>2, <1>3

LEMMA StaysWellMade ==
    ASSUME NEW c, WellMade(c), NEW d,
           DOMAIN d = Columns,
           \A name \in Columns : Listed(d[name]),
           \A j \in DOMAIN d.plans :
              PlanMade(d.plans[j]) \/ \E k \in DOMAIN c.plans : d.plans[j] = c.plans[k]
    PROVE  WellMade(d)
BY DEF WellMade, Columnar

-----------------------------------------------------------------------------
(* The compiled case.  An account is as old as the first day its author    *)
(* knew it, so one that is known by a day was learned by that day.         *)

LEMMA LearnedInTime ==
    ASSUME NEW claim \in Facts, NEW actor, NEW day \in Nat, KnownBy(claim, actor, day)
    PROVE  Min(Since(claim, actor)) <= day
<1>1. Since(claim, actor) \subseteq Nat
  BY FactsAssumption DEF Since
<1>2. PICK d \in Since(claim, actor) : d <= day
  BY DEF KnownBy
<1>3. PICK x \in Since(claim, actor) : \A y \in Since(claim, actor) : x <= y
  BY <1>1, <1>2, LeastExists
<1>4. /\ Min(Since(claim, actor)) \in Since(claim, actor)
      /\ \A y \in Since(claim, actor) : Min(Since(claim, actor)) <= y
  BY <1>3 DEF Min
<1> QED BY <1>1, <1>2, <1>4

LEMMA CompiledAssertions ==
    ASSUME NEW scope, NEW author, NEW day \in Nat, NEW listed,
           NEW a \in AssertionsFor(Facts, scope, author, day, listed)
    PROVE  a.scope = scope /\ a.author = author /\ a.learned <= day
<1>1. PICK c \in Facts :
        KnownBy(c, author, day) /\ a = Assertion(scope, author, c, c.value, Min(Since(c, author)))
  BY DEF AssertionsFor
<1>2. a.scope = scope /\ a.author = author /\ a.learned = Min(Since(c, author))
  BY <1>1 DEF Assertion
<1> QED BY <1>1, <1>2, LearnedInTime

LEMMA CompiledPlan ==
    ASSUME NEW reg, NEW scope, NEW spec \in ToSet(Specs), NEW plan,
           plan = Compiled(reg, scope, spec).plan
    PROVE  PlanMade(plan)
<1> DEFINE given == AssertionsFor(Facts, scope, spec.author, spec.day, spec.facts)
           state == StateOf(scope, spec.author, spec.recipients, spec.day, given)
           start == Plan(scope, Capability(reg, spec.family), spec.author, spec.recipients,
                         spec.day, given, state, First(scope, spec))
<1>1. plan = start
  <2> DEFINE part == [plan |-> start, state |-> state]
             new == Build(reg, part, 3, 5, given, start.lineage, "fixture")
  <2>1. Compiled(reg, scope, spec) = new
    BY DEF Compiled
  <2>2. part.plan = start
    OBVIOUS
  <2> HIDE DEF part, new, start, given, state
  <2>3. plan = new.plan
    BY <2>1
  <2>4. new.plan = part.plan
    BY SMTT(60) DEF new, Build
  <2> QED BY <2>2, <2>3, <2>4
<1>2. /\ plan.scope = scope /\ plan.capability = Capability(reg, spec.family)
      /\ plan.author = spec.author /\ plan.recipients = spec.recipients /\ plan.day = spec.day
      /\ plan.assertions = given /\ plan.state = state /\ plan.lineage = First(scope, spec)
  BY <1>1 DEF Plan
<1>3. plan.capability.family = spec.family
  BY <1>2 DEF Capability
<1>4. /\ state.scope = scope /\ state.actor = spec.author /\ state.day = spec.day
      /\ state.granted = given
      /\ FactsOf(given) \subseteq state.facts
      /\ state.related = {Relation(scope, spec.author, r) : r \in spec.recipients}
  BY DEF StateOf, Snapshot
<1>5. /\ spec.family \in Required /\ spec.author \in Authors[spec.family] /\ spec.day \in Nat
      /\ spec.family \in NeedsRecipients => spec.recipients # {}
  BY SpecsAssumption
<1>6. \A a \in given : a.scope = scope /\ a.author = spec.author /\ a.learned <= spec.day
  BY <1>5, CompiledAssertions
<1>7. Knows(state, given)
  BY <1>4 DEF Knows
<1>8. Related(state, scope, spec.author, spec.recipients)
  BY <1>4 DEF Related
<1>9. ValidLineage(plan.lineage)
  BY <1>2 DEF First, ValidLineage
<1> HIDE DEF given, state, start
<1> QED BY <1>2, <1>3, <1>4, <1>5, <1>6, <1>7, <1>8, <1>9 DEF PlanMade, CanPlan

LEMMA CompilationColumns ==
    ASSUME NEW reg, NEW scope, NEW c, c = Compilation(reg, scope)
    PROVE  /\ DOMAIN c = Columns
           /\ \A name \in Columns : Listed(c[name]) /\ DOMAIN c[name] = DOMAIN Specs
           /\ \A i \in DOMAIN Specs : PlanMade(c.plans[i])
<1>1. DOMAIN c = Columns
  BY DEF Compilation
<1>2. Len(Specs) \in Nat /\ DOMAIN Specs = 1..Len(Specs)
  BY SpecsAssumption
<1>3. ASSUME NEW name \in Columns
      PROVE  Listed(c[name]) /\ DOMAIN c[name] = DOMAIN Specs
  <2> DEFINE e(i) == Column(Compiled(reg, scope, Specs[i]), name)
             S == {e(i) : i \in DOMAIN Specs}
  <2>1. c[name] = [i \in DOMAIN Specs |-> e(i)]
    BY DEF Compilation
  <2>2. \A i \in DOMAIN Specs : e(i) \in S
    OBVIOUS
  <2> HIDE DEF e, S
  <2>3. c[name] \in [1..Len(Specs) -> S]
    BY <1>2, <2>1, <2>2
  <2>4. c[name] \in Seq(S)
    BY <1>2, <2>3
  <2> QED BY <2>1, <2>4, SeqIsListed
<1>4. ASSUME NEW i \in DOMAIN Specs
      PROVE  PlanMade(c.plans[i])
  <2>1. "plans" \in Columns
    BY DEF Columns
  <2>2. c.plans[i] = Column(Compiled(reg, scope, Specs[i]), "plans")
    BY <2>1 DEF Compilation
  <2>3. c.plans[i] = Compiled(reg, scope, Specs[i]).plan
    BY <2>2 DEF Column
  <2>4. Specs[i] \in ToSet(Specs)
    BY DEF ToSet
  <2> QED BY <2>3, <2>4, CompiledPlan
<1> QED BY <1>1, <1>3, <1>4

LEMMA CaseStarts ==
    ASSUME Init
    PROVE  CaseInv
<1>1. "plans" \in Columns
  BY DEF Columns
<1> QED BY <1>1, CompilationColumns DEF Init, CaseInv, WellMade, Columnar

-----------------------------------------------------------------------------
(* Whatever befalls a case, its plans are plans that were made.            *)

LEMMA AfterRework ==
    ASSUME NEW c, WellMade(c), NEW i, \A name \in Columns : i \in DOMAIN c[name],
           NEW new, PlanMade(new.plan), Column(new, "plans") = new.plan,
           NEW d, DOMAIN d = Columns,
           \A name \in Columns : d[name] = Replaced(c[name], i, Column(new, name))
    PROVE  WellMade(d)
<1>1. DOMAIN d = Columns
  OBVIOUS
<1>2. ASSUME NEW name \in Columns
      PROVE  /\ Listed(d[name])
             /\ \A j \in DOMAIN d[name] :
                  d[name][j] = Column(new, name) \/ \E k \in DOMAIN c[name] : d[name][j] = c[name][k]
  <2>1. Listed(c[name]) /\ i \in DOMAIN c[name]
    BY DEF WellMade, Columnar
  <2>2. d[name] = [c[name] EXCEPT ![i] = Column(new, name)]
    BY DEF Replaced
  <2> QED BY <2>1, <2>2, ListedExcept
<1>3. "plans" \in Columns
  BY DEF Columns
<1> QED BY <1>1, <1>2, <1>3, StaysWellMade

LEMMA AfterRevision ==
    ASSUME NEW c, WellMade(c), NEW new, PlanMade(new.plan), Column(new, "plans") = new.plan,
           NEW d, DOMAIN d = Columns,
           \A name \in Columns : d[name] = c[name] \/ d[name] = Added(c[name], Column(new, name))
    PROVE  WellMade(d)
<1>1. DOMAIN d = Columns
  OBVIOUS
<1>2. ASSUME NEW name \in Columns
      PROVE  /\ Listed(d[name])
             /\ \A j \in DOMAIN d[name] :
                  d[name][j] = Column(new, name) \/ \E k \in DOMAIN c[name] : d[name][j] = c[name][k]
  <2>1. Listed(c[name])
    BY DEF WellMade, Columnar
  <2>2. d[name] = c[name] \/ d[name] = Added(c[name], Column(new, name))
    OBVIOUS
  <2> QED BY <2>1, <2>2, ListedAppend
<1>3. "plans" \in Columns
  BY DEF Columns
<1>4. \A j \in DOMAIN d.plans : PlanMade(d.plans[j]) \/ \E k \in DOMAIN c.plans : d.plans[j] = c.plans[k]
  BY <1>2, <1>3
<1>5. \A name \in Columns : Listed(d[name])
  BY <1>2
<1> QED BY <1>1, <1>4, <1>5, StaysWellMade

(* One column is touched. *)
LEMMA AfterTouch ==
    ASSUME NEW c, WellMade(c), NEW name \in Columns, NEW t, Listed(t),
           name = "plans" => \A j \in DOMAIN t :
                                PlanMade(t[j]) \/ \E k \in DOMAIN c.plans : t[j] = c.plans[k],
           NEW d, d = [c EXCEPT ![name] = t]
    PROVE  WellMade(d)
<1>1. DOMAIN c = Columns /\ \A other \in Columns : Listed(c[other])
  BY DEF WellMade, Columnar
<1>2. DOMAIN d = Columns /\ \A other \in Columns : d[other] = IF other = name THEN t ELSE c[other]
  BY <1>1
<1>3. \A other \in Columns : Listed(d[other])
  BY <1>1, <1>2
<1>4. "plans" \in Columns
  BY DEF Columns
<1>5. \A j \in DOMAIN d.plans :
        PlanMade(d.plans[j]) \/ \E k \in DOMAIN c.plans : d.plans[j] = c.plans[k]
  <2>1. CASE name = "plans"
    BY <1>2, <2>1
  <2>2. CASE name # "plans"
    BY <1>2, <1>4, <2>2
  <2> QED BY <2>1, <2>2
<1> QED BY <1>2, <1>3, <1>5, StaysWellMade

LEMMA PartOfWhole ==
    ASSUME CaseInv, NEW i \in DOMAIN case.plans
    PROVE  PlanMade(Part(i).plan)
<1>1. Part(i).plan = case.plans[i]
  BY DEF Part
<1> QED BY <1>1 DEF CaseInv, WellMade

LEMMA CaseStep ==
    ASSUME CaseInv, [Next]_caseVars
    PROVE  CaseInv'
<1>1. ASSUME NEW i \in DOMAIN case.plans, Whole(i), NEW from, NEW upto, NEW assertions, NEW body,
             Rework(i, from, upto, assertions, body)
      PROVE  WellMade(case')
  <2> DEFINE new == Build(registry, Part(i), from, upto, assertions, Part(i).plan.lineage, body)
  <2>1. Builds(new, from, upto)
        /\ case' = [name \in Columns |-> [case[name] EXCEPT ![i] = Column(new, name)]]
    BY <1>1 DEF Rework
  <2>2. PlanMade(new.plan) /\ Column(new, "plans") = new.plan
    BY <2>1, PartOfWhole, BuiltPlan
  <2>3. \A name \in Columns : i \in DOMAIN case[name]
    BY <1>1 DEF Whole
  <2> HIDE DEF new
  <2>4. WellMade(case)
    BY DEF CaseInv
  <2>5. DOMAIN case' = Columns
        /\ \A name \in Columns : case'[name] = Replaced(case[name], i, Column(new, name))
    BY <2>1 DEF Replaced
  <2> QED BY <2>2, <2>3, <2>4, <2>5, AfterRework
<1>2. ASSUME NEW i \in DOMAIN case.plans, NEW assertions, Revise(i, assertions)
      PROVE  WellMade(case')
  <2> DEFINE lineage == [logical |-> Part(i).plan.lineage.logical,
                         revision |-> Part(i).plan.lineage.revision + 1,
                         parent |-> [version |-> VersionId(Part(i).plan.lineage),
                                     content |-> Part(i).artifact.content]]
             new == Build(registry, Part(i), 1, 5, assertions, lineage, "fixture")
  <2>1. Builds(new, 1, 5)
        /\ case' = [name \in Columns |->
                      IF name \in {"states", "views"} /\ Column(new, name) \in ToSet(case[name])
                        THEN case[name] ELSE Append(case[name], Column(new, name))]
    BY <1>2 DEF Revise
  <2>2. PlanMade(new.plan) /\ Column(new, "plans") = new.plan
    <3> HIDE DEF lineage
    <3> QED BY <2>1, PartOfWhole, BuiltPlan
  <2> HIDE DEF new
  <2>3. DOMAIN case' = Columns
        /\ \A name \in Columns : case'[name] = case[name]
                                   \/ case'[name] = Added(case[name], Column(new, name))
    BY <2>1 DEF Added
  <2>4. WellMade(case)
    BY DEF CaseInv
  <2> QED BY <2>2, <2>3, <2>4, AfterRevision
<1>3. ASSUME NEW i \in DOMAIN case.artifacts, NEW body, NEW assertions, Deliver(i, body, assertions)
      PROVE  WellMade(case')
  <2>1. PICK e : case' = [case EXCEPT !["artifacts"] = [case.artifacts EXCEPT ![i] = e]]
    BY <1>3 DEF Deliver
  <2>2. "artifacts" \in Columns /\ "artifacts" # "plans"
    BY DEF Columns
  <2>3. Listed(case.artifacts)
    BY <2>2 DEF CaseInv, WellMade, Columnar
  <2> DEFINE t == [case.artifacts EXCEPT ![i] = e]
  <2>4. Listed(t)
    BY <2>3, ListedExcept
  <2> HIDE DEF t
  <2> QED BY <2>1, <2>2, <2>4, AfterTouch DEF CaseInv, t
<1>4. ASSUME NEW name \in Columns, NEW i \in DOMAIN case[name], Lose(name, i)
      PROVE  WellMade(case')
  <2> DEFINE t == RemoveAt(case[name], i)
  <2>1. case' = [case EXCEPT ![name] = t]
    BY <1>4 DEF Lose
  <2>2. Listed(case[name])
    BY DEF CaseInv, WellMade, Columnar
  <2> HIDE DEF t
  <2>3. Listed(t) /\ \A j \in DOMAIN t : \E k \in DOMAIN case[name] : t[j] = case[name][k]
    BY <2>2, ListedRemove DEF t
  <2> QED BY <2>1, <2>3, AfterTouch DEF CaseInv
<1>5. ASSUME NEW name \in Columns, NEW i \in DOMAIN case[name], Repeat(name, i)
      PROVE  WellMade(case')
  <2> DEFINE s == case[name]
             e == s[i]
             t == Added(s, e)
  <2>1. case' = [case EXCEPT ![name] = t]
    BY <1>5 DEF Repeat, Added
  <2>2. Listed(s)
    BY DEF CaseInv, WellMade, Columnar
  <2> HIDE DEF s, e, t
  <2>3. Listed(t) /\ \A j \in DOMAIN t : t[j] = e \/ (j \in DOMAIN s /\ t[j] = s[j])
    <3>1. t = Added(s, e)
      BY DEF t
    <3> QED BY <2>2, <3>1, ListedAppend
  <2>4. \A j \in DOMAIN t : \E k \in DOMAIN case[name] : t[j] = case[name][k]
    BY <2>3 DEF e, s
  <2> QED BY <2>1, <2>3, <2>4, AfterTouch DEF CaseInv
<1>6. ASSUME NEW name \in Columns, NEW scope, NEW i \in DOMAIN case[name] \cap DOMAIN Specs,
             Mix(name, i, scope)
      PROVE  WellMade(case')
  <2> DEFINE other == Compilation(registry, scope)
             t == [case[name] EXCEPT ![i] = other[name][i]]
  <2>1. case' = [case EXCEPT ![name] = t]
    BY <1>6 DEF Mix
  <2>2. Listed(case[name])
    BY DEF CaseInv, WellMade, Columnar
  <2> HIDE DEF other, t
  <2>3. Listed(t) /\ \A j \in DOMAIN t : t[j] = other[name][i]
                                        \/ (j \in DOMAIN case[name] /\ t[j] = case[name][j])
    BY <2>2, ListedExcept DEF t
  <2>4. name = "plans" => PlanMade(other[name][i])
    BY CompilationColumns DEF other
  <2> QED BY <2>1, <2>3, <2>4, AfterTouch DEF CaseInv
<1>7. ASSUME UNCHANGED case
      PROVE  WellMade(case')
  BY <1>7 DEF CaseInv
<1>8. WellMade(case')
  BY <1>1, <1>2, <1>3, <1>4, <1>5, <1>6, <1>7 DEF Next, Upgrade, caseVars
<1> QED BY <1>8 DEF CaseInv

-----------------------------------------------------------------------------
LEMMA CaseInvariance == AuditSpec => []CaseInv
<1>1. AuditInit => CaseInv
  BY CaseStarts DEF AuditInit
<1>2. CaseInv /\ [AuditNext]_auditVars => CaseInv'
  <2>1. [AuditNext]_auditVars => [Next]_caseVars
    BY DEF AuditNext, Render, auditVars, caseVars
  <2> QED BY <2>1, CaseStep
<1> QED BY <1>1, <1>2, PTL DEF AuditSpec

(* What is granted in the sealed case, and was learned by its author in    *)
(* time, its author knew.                                                  *)
LEMMA GrantsAreFacts ==
    ASSUME NEW a \in SealedGrants(Sealed(Scope))
    PROVE  \E c \in Facts : /\ a.scope = Scope /\ a.fact = c.fact /\ a.value = c.value
                            /\ a.learned \in Since(c, a.author)
<1>1. PICK c \in Facts : \E k \in c.known : a = Assertion(Scope, k[1], c, c.value, k[2])
  BY SealedFields DEF SealedGrants
<1>2. PICK k \in c.known : a = Assertion(Scope, k[1], c, c.value, k[2])
  BY <1>1
<1>3. /\ a.scope = Scope /\ a.fact = c.fact /\ a.value = c.value
      /\ a.author = k[1] /\ a.learned = k[2]
  BY <1>2 DEF Assertion
<1>4. a.learned \in Since(c, a.author)
  BY <1>3 DEF Since
<1> QED BY <1>3, <1>4

LEMMA PlansTellTheTruth ==
    ASSUME NEW plan, PlanMade(plan), plan.assertions \subseteq SealedGrants(Sealed(Scope)),
           NEW artifact, artifact.assertions = plan.assertions
    PROVE  TellsTheTruth(plan, artifact)
<1>1. ASSUME NEW a \in plan.assertions
      PROVE  \E c \in Facts : /\ a.scope = Scope /\ a.fact = c.fact /\ a.value = c.value
                              /\ KnownBy(c, plan.author, plan.day)
  <2>1. PICK c \in Facts : /\ a.scope = Scope /\ a.fact = c.fact /\ a.value = c.value
                           /\ a.learned \in Since(c, a.author)
    BY GrantsAreFacts
  <2>2. a.author = plan.author /\ a.learned <= plan.day
    BY DEF PlanMade, CanPlan
  <2> QED BY <2>1, <2>2 DEF KnownBy
<1> QED BY <1>1 DEF TellsTheTruth

-----------------------------------------------------------------------------
(* QualifiedHoldsUp, part by part. *)

LEMMA OwnArtifact ==
    ASSUME NEW c, Columnar(c), NEW reg, Qualified(c, Sealed(Scope), reg),
           NEW i \in DOMAIN c.plans
    PROVE  LET own == {j \in DOMAIN c.artifacts : c.artifacts[j].projection.plan = c.plans[i]}
           IN  /\ Cardinality(own) = 1
               /\ \A j \in own : c.artifacts[j].assertions = c.plans[i].assertions
<1> DEFINE own == {j \in DOMAIN c.artifacts : c.artifacts[j].projection.plan = c.plans[i]}
           k == ArtifactAt(c, c.plans[i])
<1>1. k \in DOMAIN c.artifacts /\ ValidStaged(c.artifacts[k], Seen(c.plans[i]))
  BY PlanStands
<1>2. c.artifacts[k].projection.plan = c.plans[i]
      /\ c.artifacts[k].assertions = c.plans[i].assertions
  <2>1. c.artifacts[k].projection = Seen(c.plans[i])
        /\ c.artifacts[k].assertions = Seen(c.plans[i]).plan.assertions
    BY <1>1 DEF ValidStaged
  <2> QED BY <2>1, SeenPlan
<1> HIDE DEF k
<1>3. \A j \in own : j = k
  BY <1>1, <1>2, ArtifactsAreThePlans
<1>4. own = {k}
  BY <1>1, <1>2, <1>3
<1>5. Cardinality(own) = 1
  BY <1>4, FS_Singleton
<1> QED BY <1>2, <1>3, <1>5

LEMMA EarlierVersion ==
    ASSUME CaseInv, Qualified(case, Sealed(Scope), registry), NEW i \in DOMAIN case.plans
    PROVE  Succeeds(case.plans[i])
<1> DEFINE p == case.plans[i]
           group == Versions(case, p)
<1>1. p \in ToSet(case.plans)
  BY DEF ToSet
<1>2. LineageHolds(case.plans, case.artifacts) /\ Columnar(case)
  BY DEF Qualified, CaseInv, WellMade
<1>3. {q.lineage.revision : q \in group} = 1..Cardinality(group)
  BY <1>1, <1>2, LineageHoldsSays
<1> SUFFICES ASSUME p.lineage.revision > 1
             PROVE  \E j \in DOMAIN case.artifacts :
                LET parent == case.artifacts[j].projection.plan.lineage IN
                /\ parent.logical = p.lineage.logical
                /\ parent.revision = p.lineage.revision - 1
                /\ p.lineage.parent.content = case.artifacts[j].content
  BY DEF Succeeds
<1>4. p \in group
  BY <1>1 DEF Versions
<1>5. p.lineage.revision \in 1..Cardinality(group)
  BY <1>3, <1>4
<1>6. p.lineage.revision - 1 \in 1..Cardinality(group)
  <2>1. group \subseteq ToSet(case.plans) /\ IsFiniteSet(ToSet(case.plans))
    BY <1>2, ColumnsListed, FiniteListing DEF Versions
  <2>2. Cardinality(group) \in Nat
    BY <2>1, FS_Subset, FS_CardinalityType
  <2> QED BY <1>5, <2>2
<1>7. PICK q \in group : q.lineage.revision = p.lineage.revision - 1
  BY <1>3, <1>6
<1>8. /\ q \in ToSet(case.plans) /\ q.scope = p.scope /\ q.lineage.logical = p.lineage.logical
      /\ p.lineage.revision = q.lineage.revision + 1
  BY <1>5, <1>7 DEF Versions
<1>9. /\ ArtifactAt(case, q) # 0
      /\ p.lineage.parent.content = case.artifacts[ArtifactAt(case, q)].content
  <2>1. p \in Versions(case, q)
    BY <1>1, <1>8 DEF Versions
  <2> QED BY <1>2, <1>8, <2>1, LineageHoldsSays
<1> DEFINE j == ArtifactAt(case, q)
<1>10. j \in DOMAIN case.artifacts /\ j \in ArtifactPlaces(case, q)
  BY <1>2, <1>9, Lookups
<1>11. PlanId(case.artifacts[j].projection.plan) = PlanId(q)
  BY <1>10 DEF ArtifactPlaces
<1>12. /\ case.artifacts[j].projection.plan.lineage.logical = q.lineage.logical
       /\ case.artifacts[j].projection.plan.lineage.revision = q.lineage.revision
  BY <1>11 DEF PlanId
<1> HIDE DEF j, p
<1> QED BY <1>7, <1>8, <1>9, <1>10, <1>12 DEF j

-----------------------------------------------------------------------------
(* Rendering.  The segments of a section are a heading, perhaps fixed      *)
(* ones, and at most one for each assertion.                               *)

(* Three operators of sequences, by name. *)
One(x) == <<x>>
Empty == << >>
Joins(s, t) == s \o t

LEMMA OneItem ==
    ASSUME NEW S, NEW x \in S, NEW s, s = One(x)
    PROVE  s \in Seq(S) /\ Len(s) = 1 /\ DOMAIN s = 1..1 /\ s[1] = x
BY DEF One

LEMMA NoItem ==
    ASSUME NEW S, NEW s, s = Empty
    PROVE  s \in Seq(S) /\ Len(s) = 0 /\ DOMAIN s = {}
BY DEF Empty

Follows(r, s, t, S) ==
    /\ r \in Seq(S) /\ Len(r) = Len(s) + Len(t)
    /\ \A j \in DOMAIN s : j \in DOMAIN r /\ r[j] = s[j]
    /\ \A i \in DOMAIN t : i + Len(s) \in DOMAIN r /\ r[i + Len(s)] = t[i]
    /\ \A j \in DOMAIN r : j \in DOMAIN s \/ \E i \in DOMAIN t : j = i + Len(s)

LEMMA Joined ==
    ASSUME NEW S, NEW s \in Seq(S), NEW t \in Seq(S)
    PROVE  Follows(Joins(s, t), s, t, S)
<1> DEFINE r == Joins(s, t)
<1>1. r \in Seq(S) /\ Len(r) = Len(s) + Len(t) /\ Len(s) \in Nat /\ Len(t) \in Nat
      /\ DOMAIN s = 1..Len(s) /\ DOMAIN t = 1..Len(t) /\ DOMAIN r = 1..(Len(s) + Len(t))
  BY DEF Joins
<1>2. \A j \in 1..Len(s) : r[j] = s[j]
  BY <1>1 DEF Joins
<1>3. ASSUME NEW i \in 1..Len(t)
      PROVE  i + Len(s) \in 1..(Len(s) + Len(t)) /\ r[i + Len(s)] = t[i]
  BY <1>1 DEF Joins
<1>4. ASSUME NEW j \in 1..(Len(s) + Len(t)), j \notin 1..Len(s)
      PROVE  \E i \in 1..Len(t) : j = i + Len(s)
  <2>1. j - Len(s) \in 1..Len(t) /\ j = (j - Len(s)) + Len(s)
    BY <1>1, <1>4
  <2> QED BY <2>1
<1> HIDE DEF r
<1>5. \A j \in DOMAIN s : j \in DOMAIN r /\ r[j] = s[j]
  BY <1>1, <1>2
<1>6. \A i \in DOMAIN t : i + Len(s) \in DOMAIN r /\ r[i + Len(s)] = t[i]
  BY <1>1, <1>3
<1>7. ASSUME NEW j \in DOMAIN r
      PROVE  j \in DOMAIN s \/ \E i \in DOMAIN t : j = i + Len(s)
  <2>1. j \in 1..(Len(s) + Len(t)) /\ DOMAIN s = 1..Len(s) /\ DOMAIN t = 1..Len(t)
    BY <1>1
  <2> QED BY <1>4, <2>1
<1> QED BY <1>1, <1>5, <1>6, <1>7 DEF r, Follows

Carries(comp, k) ==
    comp.contract.sections[k] = comp.contract.assertionSection /\ comp.order # << >>

Offset(k) == IF k = 1 THEN 3 ELSE 1

(* What a section begins with, and what follows. *)
Start(h, f, k) == Joins(One(h), IF k = 1 THEN Joins(One(f), One(h)) ELSE Empty)

Section(h, f, t, k, carries) ==
    Joins(Start(h, f, k), IF carries THEN t ELSE IF k = 1 THEN Empty ELSE One(f))

LEMMA SectionStart ==
    ASSUME NEW S, NEW h \in S, NEW f \in S, NEW k
    PROVE  /\ Start(h, f, k) \in Seq(S) /\ Len(Start(h, f, k)) = Offset(k)
           /\ 1 \in DOMAIN Start(h, f, k) /\ Start(h, f, k)[1] = h
           /\ \A j \in DOMAIN Start(h, f, k) : Start(h, f, k)[j] \in {h, f}
<1> DEFINE a == One(h)
           b == One(f)
           ba == Joins(b, a)
           z == Empty
           y == IF k = 1 THEN ba ELSE z
           start == Joins(a, y)
<1>1. a \in Seq(S) /\ Len(a) = 1 /\ DOMAIN a = 1..1 /\ a[1] = h
  BY OneItem
<1>2. b \in Seq(S) /\ Len(b) = 1 /\ DOMAIN b = 1..1 /\ b[1] = f
  BY OneItem
<1>3. z \in Seq(S) /\ Len(z) = 0 /\ DOMAIN z = {}
  BY NoItem
<1>4. Start(h, f, k) = start
  BY DEF Start
<1> HIDE DEF a, b, ba, z
<1>5. /\ ba \in Seq(S) /\ Len(ba) = 2
      /\ \A j \in DOMAIN ba : ba[j] \in {h, f}
  <2>1. Follows(ba, b, a, S)
    BY <1>1, <1>2, Joined, Zenon DEF ba
  <2>2. \A j \in DOMAIN ba : ba[j] \in {h, f}
    BY <1>1, <1>2, <2>1 DEF Follows
  <2> QED BY <1>1, <1>2, <2>1, <2>2 DEF Follows
<1>6. y \in Seq(S) /\ 1 + Len(y) = Offset(k) /\ \A j \in DOMAIN y : y[j] \in {h, f}
  <2>1. CASE k = 1
    <3>1. y = ba /\ Offset(k) = 3
      BY <2>1 DEF Offset
    <3>2. Len(ba) = 2 => 1 + Len(ba) = 3
      OBVIOUS
    <3> HIDE DEF y
    <3> QED BY <1>5, <3>1, <3>2, Zenon
  <2>2. CASE k # 1
    <3>1. y = z /\ Offset(k) = 1
      BY <2>2 DEF Offset
    <3> HIDE DEF y
    <3> QED BY <1>3, <3>1
  <2> QED BY <2>1, <2>2
<1> HIDE DEF y
<1>7. Follows(start, a, y, S)
  BY <1>1, <1>6, Joined, Zenon DEF start
<1> HIDE DEF start
<1>8. \A j \in DOMAIN start : start[j] \in {h, f}
  BY <1>1, <1>6, <1>7 DEF Follows
<1> QED BY <1>1, <1>4, <1>6, <1>7, <1>8 DEF Follows

Lays(r, h, f, t, k, carries) ==
    /\ 1 \in DOMAIN r /\ r[1] = h
    /\ \A j \in DOMAIN r :
         r[j] \in {h, f} \/ (carries /\ \E i \in DOMAIN t : j = i + Offset(k) /\ r[j] = t[i])
    /\ carries => \A i \in DOMAIN t : i + Offset(k) \in DOMAIN r /\ r[i + Offset(k)] = t[i]

LEMMA SectionJoined ==
    ASSUME NEW S, NEW h \in S, NEW f \in S, NEW t \in Seq(S), NEW k, NEW carries \in BOOLEAN
    PROVE  Lays(Section(h, f, t, k, carries), h, f, t, k, carries)
<1>0. /\ Start(h, f, k) \in Seq(S) /\ Len(Start(h, f, k)) = Offset(k)
      /\ 1 \in DOMAIN Start(h, f, k) /\ Start(h, f, k)[1] = h
      /\ \A j \in DOMAIN Start(h, f, k) : Start(h, f, k)[j] \in {h, f}
  BY SectionStart, Zenon
<1> DEFINE start == Start(h, f, k)
           z == Empty
           b == One(f)
           rest == IF carries THEN t ELSE IF k = 1 THEN z ELSE b
           whole == Joins(start, rest)
<1>1. /\ start \in Seq(S) /\ Len(start) = Offset(k) /\ 1 \in DOMAIN start /\ start[1] = h
      /\ \A j \in DOMAIN start : start[j] \in {h, f}
  BY <1>0
<1>2. b \in Seq(S) /\ DOMAIN b = 1..1 /\ b[1] = f
  BY OneItem
<1>3. z \in Seq(S) /\ DOMAIN z = {}
  BY NoItem
<1>4. Section(h, f, t, k, carries) = whole
  BY DEF Section
<1> HIDE DEF start, z, b
<1>5. rest \in Seq(S) /\ (carries => rest = t) /\ (~carries => \A i \in DOMAIN rest : rest[i] = f)
  BY <1>2, <1>3
<1> HIDE DEF rest
<1>6. Follows(whole, start, rest, S)
  <2>1. start \in Seq(S) /\ rest \in Seq(S)
    BY <1>1, <1>5
  <2> QED BY <2>1, Joined, Zenon DEF whole
<1> HIDE DEF whole
<1>7. ASSUME NEW j \in DOMAIN whole
      PROVE  \/ whole[j] \in {h, f}
             \/ carries /\ \E i \in DOMAIN t : j = i + Offset(k) /\ whole[j] = t[i]
  <2>1. CASE j \in DOMAIN start
    BY <1>1, <1>6, <2>1 DEF Follows
  <2>2. ASSUME NEW i \in DOMAIN rest, j = i + Len(start)
        PROVE  \/ whole[j] \in {h, f}
               \/ carries /\ \E l \in DOMAIN t : j = l + Offset(k) /\ whole[j] = t[l]
    BY <1>1, <1>5, <1>6, <2>2 DEF Follows
  <2> QED BY <1>6, <2>1, <2>2 DEF Follows
<1>8. carries => \A i \in DOMAIN t : i + Offset(k) \in DOMAIN whole /\ whole[i + Offset(k)] = t[i]
  BY <1>1, <1>5, <1>6 DEF Follows
<1>9. 1 \in DOMAIN whole /\ whole[1] = h
  BY <1>1, <1>6 DEF Follows
<1> QED BY <1>4, <1>7, <1>8, <1>9 DEF Lays

(* The segments of a section: the first says which section it is; only an  *)
(* assertion segment cites, and it cites one of the order.                 *)
LEMMA SectionSegments ==
    ASSUME NEW comp, Listed(comp.order), NEW k
    PROVE  LET segs == SegmentsOf(comp, k) IN
           /\ 1 \in DOMAIN segs /\ segs[1].section = comp.contract.sections[k]
           /\ \A j \in DOMAIN segs :
                \/ segs[j].function # "assertion" /\ segs[j].assertions = {}
                \/ /\ segs[j].function = "assertion" /\ Carries(comp, k)
                   /\ \E i \in DOMAIN comp.order :
                        j = i + Offset(k) /\ segs[j].assertions = {comp.order[i]}
           /\ Carries(comp, k) =>
                \A i \in DOMAIN comp.order :
                    /\ i + Offset(k) \in DOMAIN segs
                    /\ segs[i + Offset(k)].function = "assertion"
                    /\ segs[i + Offset(k)].assertions = {comp.order[i]}
<1> DEFINE section == comp.contract.sections[k]
           h == Segment(section, "metadata_label", {})
           f == Segment(section, "nonassertive", {})
           e(i) == Segment(section, "assertion", {comp.order[i]})
           t == [i \in DOMAIN comp.order |-> e(i)]
           S == {h, f} \cup {e(i) : i \in DOMAIN comp.order}
           carries == Carries(comp, k)
           segs == SegmentsOf(comp, k)
<1>1. /\ h.section = section /\ h.function # "assertion" /\ h.assertions = {}
      /\ f.function # "assertion" /\ f.assertions = {}
  BY DEF Segment
<1>2. \A i \in DOMAIN comp.order :
        e(i).function = "assertion" /\ e(i).assertions = {comp.order[i]}
  BY DEF Segment
<1>3. h \in S /\ f \in S /\ carries \in BOOLEAN
  BY DEF Carries
<1>4. t \in Seq(S) /\ DOMAIN t = DOMAIN comp.order /\ \A i \in DOMAIN comp.order : t[i] = e(i)
  <2>1. Len(comp.order) \in Nat /\ DOMAIN comp.order = 1..Len(comp.order)
    BY ListedFacts
  <2>2. \A i \in DOMAIN comp.order : e(i) \in S
    OBVIOUS
  <2> HIDE DEF e, S
  <2> QED BY <2>1, <2>2
<1>5. segs = Section(h, f, t, k, carries)
  BY Zenon DEF SegmentsOf, Section, Start, Joins, One, Empty, Carries
<1> HIDE DEF h, f, e, t, S, carries, segs
<1>6. /\ 1 \in DOMAIN segs /\ segs[1] = h
      /\ \A j \in DOMAIN segs :
            \/ segs[j] \in {h, f}
            \/ carries /\ \E i \in DOMAIN t : j = i + Offset(k) /\ segs[j] = t[i]
      /\ carries => \A i \in DOMAIN t :
            i + Offset(k) \in DOMAIN segs /\ segs[i + Offset(k)] = t[i]
  <2>1. t \in Seq(S)
    BY <1>4
  <2>2. Lays(Section(h, f, t, k, carries), h, f, t, k, carries)
    BY <1>3, <2>1, SectionJoined, Zenon
  <2>3. Lays(segs, h, f, t, k, carries)
    BY <1>5, <2>2, Zenon
  <2> QED BY <2>3 DEF Lays
<1>7. ASSUME NEW j \in DOMAIN segs
      PROVE  \/ segs[j].function # "assertion" /\ segs[j].assertions = {}
             \/ /\ segs[j].function = "assertion" /\ carries
                /\ \E i \in DOMAIN comp.order :
                     j = i + Offset(k) /\ segs[j].assertions = {comp.order[i]}
  BY <1>1, <1>2, <1>4, <1>6
<1>8. carries => \A i \in DOMAIN comp.order :
            /\ i + Offset(k) \in DOMAIN segs
            /\ segs[i + Offset(k)].function = "assertion"
            /\ segs[i + Offset(k)].assertions = {comp.order[i]}
  BY <1>2, <1>4, <1>6
<1> QED BY <1>1, <1>6, <1>7, <1>8 DEF segs, carries

-----------------------------------------------------------------------------
(* A set put in order. *)

LEMMA FiniteImage ==
    ASSUME NEW f, IsFiniteSet(DOMAIN f), NEW T, T = {f[x] : x \in DOMAIN f}
    PROVE  IsFiniteSet(T)
<1>1. \E g : g = [x \in DOMAIN f |-> f[x]]
  OBVIOUS
<1>2. PICK g : g = [x \in DOMAIN f |-> f[x]]
  BY <1>1
<1>3. g \in [DOMAIN f -> T] /\ \A y \in T : \E x \in DOMAIN f : g[x] = y
  BY <1>2
<1>4. g \in Surjection(DOMAIN f, T)
  BY <1>3 DEF Surjection
<1> QED BY <1>4, FS_Surjection

LEMMA Enumerated ==
    ASSUME NEW S, IsFiniteSet(S)
    PROVE  /\ Listed(SetToSeq(S)) /\ ToSet(SetToSeq(S)) = S
           /\ \A i, j \in DOMAIN SetToSeq(S) : SetToSeq(S)[i] = SetToSeq(S)[j] => i = j
<1> DEFINE n == Cardinality(S)
           s == SetToSeq(S)
<1>1. n \in Nat /\ ExistsBijection(1..n, S)
  BY FS_CardinalityType
<1>2. PICK f : f \in Bijection(1..n, S)
  BY <1>1 DEF ExistsBijection
<1>3. f \in [1..n -> S] /\ IsInjective(f)
  BY <1>2 DEF Bijection, Injection, IsInjective
<1>4. s \in [1..n -> S] /\ IsInjective(s)
  BY <1>3 DEF SetToSeq
<1>5. IsFiniteSet(1..n) /\ Cardinality(1..n) = n
  BY <1>1, FS_Interval
<1> HIDE DEF s
<1>6. s \in Injection(1..n, S)
  BY <1>4 DEF Injection
<1>7. s \in Surjection(1..n, S)
  BY <1>5, <1>6, FS_Injection
<1>8. ToSet(s) = S
  <2>1. \A x \in S : \E i \in 1..n : s[i] = x
    BY <1>7 DEF Surjection
  <2> QED BY <1>4, <2>1 DEF ToSet
<1>9. s \in Seq(S)
  BY <1>1, <1>4
<1>10. \A i, j \in DOMAIN s : s[i] = s[j] => i = j
  BY <1>4 DEF IsInjective
<1> QED BY <1>8, <1>9, <1>10 DEF Listed, s

LEMMA FiniteGrants ==
    IsFiniteSet(SealedGrants(Sealed(Scope)))
<1> DEFINE told(c) == [k \in c.known |-> Assertion(Scope, k[1], c, c.value, k[2])]
           grants(c) == {Assertion(Scope, k[1], c, c.value, k[2]) : k \in c.known}
           all == [c \in Facts |-> grants(c)]
           G == {grants(c) : c \in Facts}
<1>1. ASSUME NEW c \in Facts
      PROVE  IsFiniteSet(grants(c))
  <2>1. IsFiniteSet(DOMAIN told(c)) /\ grants(c) = {told(c)[k] : k \in DOMAIN told(c)}
    BY FactsAssumption
  <2> HIDE DEF told, grants
  <2> QED BY <2>1, FiniteImage
<1>2. IsFiniteSet(DOMAIN all) /\ G = {all[c] : c \in DOMAIN all}
  BY FactsAssumption
<1>3. SealedGrants(Sealed(Scope)) = UNION G
  BY SealedFields DEF SealedGrants
<1> HIDE DEF told, grants, all
<1>4. IsFiniteSet(G)
  BY <1>2, FiniteImage
<1> QED BY <1>1, <1>3, <1>4, FS_UNION

-----------------------------------------------------------------------------
(* A composition cites every assertion of its plan once. *)

LEMMA ComposedPlaces ==
    ASSUME NEW comp, NEW cand, cand = Compose(comp)
    PROVE  /\ \A p : p \in Places(cand) <=>
                \E k \in DOMAIN comp.contract.sections :
                    \E j \in DOMAIN SegmentsOf(comp, k) : p = <<k, j>>
           /\ \A k \in DOMAIN comp.contract.sections : \A j :
                At(cand, <<k, j>>) = SegmentsOf(comp, k)[j]
<1>1. /\ DOMAIN cand.segments = DOMAIN comp.contract.sections
      /\ \A k \in DOMAIN comp.contract.sections : cand.segments[k] = SegmentsOf(comp, k)
  BY DEF Compose
<1>2. \A p : p \in Places(cand) <=>
        \E k \in DOMAIN comp.contract.sections :
            p \in {k} \X DOMAIN SegmentsOf(comp, k)
  BY <1>1 DEF Places
<1>3. \A k \in DOMAIN comp.contract.sections : \A j :
        At(cand, <<k, j>>) = SegmentsOf(comp, k)[j]
  BY <1>1 DEF At
<1>4. \A k, p : p \in {k} \X DOMAIN SegmentsOf(comp, k) <=>
                  \E j \in DOMAIN SegmentsOf(comp, k) : p = <<k, j>>
  OBVIOUS
<1> QED BY <1>2, <1>3, <1>4

(* The section that carries the assertions, and how a candidate cites. *)
IsHome(contract, home) ==
    /\ home \in DOMAIN contract.sections
    /\ \A k \in DOMAIN contract.sections :
        contract.sections[k] = contract.assertionSection <=> k = home

Cites(cand, comp, home) ==
    /\ \A p \in Places(cand) :
        IF p \in Traced(cand)
          THEN \E i \in DOMAIN comp.order :
                  p = <<home, i + Offset(home)>> /\ At(cand, p).assertions = {comp.order[i]}
          ELSE At(cand, p).assertions = {}
    /\ \A i \in DOMAIN comp.order :
        \E p \in Traced(cand) : At(cand, p).assertions = {comp.order[i]}
    /\ ToSet(comp.contract.sections) \subseteq {At(cand, p).section : p \in Places(cand)}

LEMMA Composed ==
    ASSUME NEW comp, Listed(comp.order), NEW home, IsHome(comp.contract, home),
           NEW cand, cand = Compose(comp)
    PROVE  Cites(cand, comp, home)
<1> DEFINE sections == comp.contract.sections
<1>1. /\ \A p : p \in Places(cand) <=>
                \E k \in DOMAIN sections : \E j \in DOMAIN SegmentsOf(comp, k) : p = <<k, j>>
      /\ \A k \in DOMAIN sections : \A j : At(cand, <<k, j>>) = SegmentsOf(comp, k)[j]
  BY ComposedPlaces
<1>2. \A k \in DOMAIN sections : Carries(comp, k) => k = home
  BY DEF Carries, IsHome
<1>3. ASSUME NEW p \in Places(cand)
      PROVE  IF p \in Traced(cand)
               THEN \E i \in DOMAIN comp.order :
                       p = <<home, i + Offset(home)>> /\ At(cand, p).assertions = {comp.order[i]}
               ELSE At(cand, p).assertions = {}
  <2>0. PICK k \in DOMAIN sections : \E j \in DOMAIN SegmentsOf(comp, k) : p = <<k, j>>
    BY <1>1
  <2>1. PICK j \in DOMAIN SegmentsOf(comp, k) : p = <<k, j>>
    BY <2>0
  <2> DEFINE seg == SegmentsOf(comp, k)[j]
  <2>2. At(cand, p) = seg
    BY <1>1, <2>1
  <2>3. \/ seg.function # "assertion" /\ seg.assertions = {}
        \/ /\ seg.function = "assertion" /\ Carries(comp, k)
           /\ \E i \in DOMAIN comp.order : j = i + Offset(k) /\ seg.assertions = {comp.order[i]}
    BY SectionSegments
  <2>4. p \in Traced(cand) <=> seg.function = "assertion"
    BY <2>2 DEF Traced
  <2> QED BY <1>2, <2>1, <2>2, <2>3, <2>4
<1>4. ASSUME NEW i \in DOMAIN comp.order
      PROVE  \E p \in Traced(cand) : At(cand, p).assertions = {comp.order[i]}
  <2>1. comp.order # << >>
    BY <1>4
  <2>2. Carries(comp, home)
    BY <2>1 DEF Carries, IsHome
  <2> DEFINE j == i + Offset(home)
             segs == SegmentsOf(comp, home)
  <2>3. j \in DOMAIN segs /\ segs[j].function = "assertion" /\ segs[j].assertions = {comp.order[i]}
    BY <2>2, SectionSegments
  <2>4. At(cand, <<home, j>>) = segs[j] /\ <<home, j>> \in Places(cand)
    BY <1>1, <2>3 DEF IsHome
  <2>5. <<home, j>> \in Traced(cand)
    BY <2>3, <2>4 DEF Traced
  <2> QED BY <2>3, <2>4, <2>5
<1>5. ASSUME NEW k \in DOMAIN sections
      PROVE  \E p \in Places(cand) : At(cand, p).section = sections[k]
  <2>1. 1 \in DOMAIN SegmentsOf(comp, k) /\ SegmentsOf(comp, k)[1].section = sections[k]
    BY SectionSegments
  <2>2. At(cand, <<k, 1>>) = SegmentsOf(comp, k)[1] /\ <<k, 1>> \in Places(cand)
    BY <1>1, <2>1
  <2> QED BY <2>1, <2>2
<1>6. ToSet(sections) \subseteq {At(cand, p).section : p \in Places(cand)}
  BY <1>5 DEF ToSet
<1> QED BY <1>3, <1>4, <1>6 DEF Cites

(* What makes a plan renderable: it was made, and its capability is today's. *)
LEMMA RightDisposition ==
    ASSUME NEW reg, NEW plan, plan.capability = Capability(reg, plan.capability.family),
           NEW presentation
    PROVE  CanCompose(Seen(plan), Contract(reg, plan.capability.family),
                      Disposition(Seen(plan), presentation))
<1>1. Seen(plan).plan = plan /\ Seen(plan).view.state = plan.state
  BY DEF Seen, Projection, View
<1>2. Disposition(Seen(plan), presentation).state = plan.state
  BY <1>1 DEF Disposition
<1>3. Contract(reg, plan.capability.family).capability = plan.capability
  BY DEF Contract
<1> QED BY <1>1, <1>2, <1>3 DEF CanCompose

LEMMA OneHome ==
    ASSUME NEW family \in Required
    PROVE  /\ family \in DOMAIN Sections
           /\ \E home \in DOMAIN Sections[family] : \A k \in DOMAIN Sections[family] :
                Sections[family][k] = AssertionSection[family] <=> k = home
<1>1. /\ family \in DOMAIN Sections
      /\ AssertionSection[family] \in ToSet(Sections[family])
      /\ \A i, j \in DOMAIN Sections[family] :
            i # j => Sections[family][i] # Sections[family][j]
  BY SectionsAssumption DEF AllDifferent
<1>2. PICK home \in DOMAIN Sections[family] : Sections[family][home] = AssertionSection[family]
  BY <1>1 DEF ToSet
<1> QED BY <1>1, <1>2

LEMMA Candidate ==
    ASSUME NEW comp, NEW S, IsFiniteSet(S), comp.order = SetToSeq(S),
           NEW home, IsHome(comp.contract, home),
           NEW cand, cand = Compose(comp)
    PROVE  /\ \A p \in Places(cand) :
                IF p \in Traced(cand) THEN Cardinality(At(cand, p).assertions) = 1
                                      ELSE At(cand, p).assertions = {}
           /\ \A p, q \in Traced(cand) : p # q => At(cand, p).assertions # At(cand, q).assertions
           /\ Trace(cand) = S
           /\ ToSet(comp.contract.sections) \subseteq {At(cand, p).section : p \in Places(cand)}
<1> DEFINE order == comp.order
<1>1. /\ Listed(order) /\ ToSet(order) = S
      /\ \A i, j \in DOMAIN order : order[i] = order[j] => i = j
  BY Enumerated
<1>2. Cites(cand, comp, home)
  BY <1>1, Composed
<1>3. Traced(cand) \subseteq Places(cand)
  BY DEF Traced
<1> HIDE DEF order
<1>4. \A p \in Traced(cand) : \E i \in DOMAIN order :
        p = <<home, i + Offset(home)>> /\ At(cand, p).assertions = {order[i]}
  BY <1>2, <1>3 DEF Cites, order
<1>5. \A p \in Places(cand) :
        IF p \in Traced(cand) THEN Cardinality(At(cand, p).assertions) = 1
                              ELSE At(cand, p).assertions = {}
  <2>1. ASSUME NEW p \in Traced(cand) PROVE Cardinality(At(cand, p).assertions) = 1
    <3>1. PICK i \in DOMAIN order : At(cand, p).assertions = {order[i]}
      BY <1>4
    <3>2. Cardinality({order[i]}) = 1
      BY FS_Singleton
    <3> QED BY <3>1, <3>2
  <2>2. ASSUME NEW p \in Places(cand), p \notin Traced(cand)
        PROVE  At(cand, p).assertions = {}
    BY <1>2, <2>2 DEF Cites
  <2> QED BY <2>1, <2>2
<1>6. ASSUME NEW p \in Traced(cand), NEW q \in Traced(cand),
             At(cand, p).assertions = At(cand, q).assertions
      PROVE  p = q
  <2>1. PICK i \in DOMAIN order :
          p = <<home, i + Offset(home)>> /\ At(cand, p).assertions = {order[i]}
    BY <1>4
  <2>2. PICK j \in DOMAIN order :
          q = <<home, j + Offset(home)>> /\ At(cand, q).assertions = {order[j]}
    BY <1>4
  <2>3. order[i] = order[j]
    BY <1>6, <2>1, <2>2
  <2>4. i = j
    BY <1>1, <2>3
  <2> QED BY <2>1, <2>2, <2>4
<1>7. Trace(cand) = S
  <2>1. ASSUME NEW x \in S
        PROVE  \E p \in Traced(cand) : x \in At(cand, p).assertions
    <3>1. PICK i \in DOMAIN order : order[i] = x
      BY <1>1 DEF ToSet
    <3> QED BY <1>2, <3>1 DEF Cites, order
  <2>2. ASSUME NEW p \in Traced(cand), NEW x \in At(cand, p).assertions
        PROVE  x \in S
    <3>1. PICK i \in DOMAIN order : At(cand, p).assertions = {order[i]}
      BY <1>4
    <3>2. order[i] \in ToSet(order)
      BY DEF ToSet
    <3> QED BY <1>1, <3>1, <3>2
  <2> QED BY <2>1, <2>2 DEF Trace
<1> QED BY <1>2, <1>5, <1>6, <1>7 DEF Cites

LEMMA Renderable ==
    ASSUME NEW reg, NEW plan, PlanMade(plan), IsFiniteSet(plan.assertions),
           plan.capability = Capability(reg, plan.capability.family), NEW presentation
    PROVE  /\ CanRender(reg, Seen(plan), presentation)
           /\ Trace(LocalBundle(reg, Seen(plan), presentation).candidate) = plan.assertions
<1> DEFINE family == plan.capability.family
           contract == Contract(reg, family)
           disposition == Disposition(Seen(plan), presentation)
           comp == Composition(Seen(plan), contract, disposition)
           cand == Compose(comp)
           bundle == LocalBundle(reg, Seen(plan), presentation)
<1>1. Seen(plan).plan = plan
  BY SeenPlan
<1>2. family \in Required
  BY DEF PlanMade
<1>3. contract.sections = Sections[family] /\ contract.assertionSection = AssertionSection[family]
  BY DEF Contract
<1>4. PICK home : IsHome(contract, home)
  BY <1>2, <1>3, OneHome DEF IsHome
<1>5. CanCompose(Seen(plan), contract, disposition)
  BY RightDisposition
<1>6. bundle.candidate = cand
  BY <1>1 DEF LocalBundle
<1>7. CanStage(Seen(plan), "channel", Seen(plan).plan.assertions)
  <2> DEFINE staged == Staged(Seen(plan), "channel", plan.assertions)
  <2>1. /\ staged.projection = Seen(plan) /\ staged.body = "channel"
        /\ staged.assertions = plan.assertions
        /\ staged.content = Content(Seen(plan), "channel", plan.assertions)
    BY DEF Staged
  <2>2. Substantive("channel") /\ ValidLineage(plan.lineage)
    BY DEF Substantive, PlanMade
  <2> HIDE DEF staged
  <2>3. ValidStaged(staged, Seen(plan))
    BY <1>1, <2>1, <2>2 DEF ValidStaged
  <2> QED BY <1>1, <2>3 DEF CanStage, staged
<1> HIDE DEF contract, disposition, bundle
<1>8. comp.contract = contract /\ comp.order = SetToSeq(plan.assertions)
  BY <1>1 DEF Composition
<1> HIDE DEF comp
<1>9. /\ \A p \in Places(cand) :
           IF p \in Traced(cand) THEN Cardinality(At(cand, p).assertions) = 1
                                 ELSE At(cand, p).assertions = {}
      /\ \A p, q \in Traced(cand) : p # q => At(cand, p).assertions # At(cand, q).assertions
      /\ Trace(cand) = plan.assertions
      /\ ToSet(comp.contract.sections) \subseteq {At(cand, p).section : p \in Places(cand)}
  BY <1>4, <1>8, Candidate
<1>10. ValidCandidate(Seen(plan), contract, disposition, cand)
  <2> HIDE DEF cand
  <2>1. cand = Compose(Composition(Seen(plan), contract, disposition))
    BY DEF cand, comp
  <2> QED BY <1>1, <1>5, <1>8, <1>9, <2>1 DEF ValidCandidate
<1>11. family \in DOMAIN Sections
  BY <1>2, OneHome
<1> HIDE DEF cand
<1> QED BY <1>1, <1>6, <1>7, <1>9, <1>10, <1>11 DEF CanRender, contract, disposition, bundle

LEMMA QualifiedRenders ==
    ASSUME NEW c, WellMade(c), NEW reg, Qualified(c, Sealed(Scope), reg)
    PROVE  /\ CanRenderBatch(c, Sealed(Scope), reg, Receipt(c))
           /\ \A k \in DOMAIN c.projections :
                Trace(LocalBundle(reg, c.projections[k], Sealed(Scope).scope).candidate)
                  = c.projections[k].plan.assertions
<1>1. ASSUME NEW k \in DOMAIN c.projections
      PROVE  /\ CanRender(reg, c.projections[k], Sealed(Scope).scope)
             /\ Trace(LocalBundle(reg, c.projections[k], Sealed(Scope).scope).candidate)
                  = c.projections[k].plan.assertions
  <2>1. PICK i \in DOMAIN c.plans : c.projections[k] = Seen(c.plans[i])
    BY ProjectionsAreThePlans DEF WellMade
  <2> DEFINE plan == c.plans[i]
  <2>2. PlanMade(plan)
    BY DEF WellMade
  <2>3. /\ plan.assertions \subseteq SealedGrants(Sealed(Scope))
        /\ PlanAuthorized(plan, plan.state, Capability(reg, plan.capability.family))
    BY PlanStands DEF WellMade
  <2>4. IsFiniteSet(plan.assertions)
    BY <2>3, FiniteGrants, FS_Subset
  <2>5. plan.capability = Capability(reg, plan.capability.family)
    BY <2>3 DEF PlanAuthorized
  <2>6. Seen(plan).plan = plan
    BY SeenPlan
  <2> HIDE DEF plan
  <2> QED BY <2>1, <2>2, <2>4, <2>5, <2>6, Renderable DEF plan
<1>2. ReceiptValid(Receipt(c), c, Sealed(Scope), reg)
  BY DEF ReceiptValid
<1> QED BY <1>1, <1>2 DEF CanRenderBatch

-----------------------------------------------------------------------------
(* What a qualified case promises. *)

LEMMA GroundedPlan ==
    ASSUME CaseInv, Qualified(case, Sealed(Scope), registry), NEW i \in DOMAIN case.plans
    PROVE  LET plan == case.plans[i]
               own == {j \in DOMAIN case.artifacts : case.artifacts[j].projection.plan = plan}
           IN /\ Cardinality(own) = 1
              /\ \A j \in own : TellsTheTruth(plan, case.artifacts[j])
              /\ \A r \in plan.recipients : Relation(Scope, plan.author, r) \in plan.state.related
              /\ Succeeds(plan)
<1> DEFINE plan == case.plans[i]
           own == {j \in DOMAIN case.artifacts : case.artifacts[j].projection.plan = plan}
<1>1. Columnar(case) /\ PlanMade(plan)
  BY DEF CaseInv, WellMade
<1>2. /\ plan.scope = Scope
      /\ plan.assertions \subseteq SealedGrants(Sealed(Scope))
      /\ PlanAuthorized(plan, plan.state, Capability(registry, plan.capability.family))
  BY <1>1, PlanStands
<1>3. Cardinality(own) = 1 /\ \A j \in own : case.artifacts[j].assertions = plan.assertions
  BY <1>1, OwnArtifact
<1>4. Succeeds(plan)
  BY EarlierVersion
<1> HIDE DEF plan, own
<1>5. \A j \in own : TellsTheTruth(plan, case.artifacts[j])
  BY <1>1, <1>2, <1>3, PlansTellTheTruth
<1>6. \A r \in plan.recipients : Relation(Scope, plan.author, r) \in plan.state.related
  BY <1>2 DEF PlanAuthorized, Related
<1> QED BY <1>3, <1>4, <1>5, <1>6 DEF plan, own

LEMMA IndependentCheck ==
    ASSUME NEW reg, NEW plan, NEW manifest, manifest = Manifest(reg, plan, Seen(plan)),
           Separated(manifest), NEW a \in manifest.assignments, a.phase = "checker"
    PROVE  a.who # WriterOf[plan.capability.family]
<1> DEFINE writer == WriterOf[plan.capability.family]
           w == Assignment(reg, "writer", writer, {})
<1>1. w \in manifest.assignments /\ w.phase = "writer" /\ w.who = writer
  BY DEF Manifest, Assignments, Assignment
<1> HIDE DEF writer, w
<1>2. SUFFICES a.who # writer
  BY DEF writer
<1>3. writer \in {b.who : b \in {d \in manifest.assignments : d.phase = "writer"}}
  BY <1>1
<1>4. a.who \in {b.who : b \in {d \in manifest.assignments : d.phase = "checker"}}
  OBVIOUS
<1> QED BY <1>3, <1>4 DEF Separated

LEMMA GroundedMesh ==
    ASSUME CaseInv, Qualified(case, Sealed(Scope), registry), NEW i \in DOMAIN case.meshes
    PROVE  LET manifest == case.meshes[i].manifest
               family == manifest.projection.plan.capability.family IN
           /\ manifest = Manifest(registry, manifest.projection.plan, manifest.projection)
           /\ \A a \in manifest.assignments : a.phase = "checker" => a.who # WriterOf[family]
<1> DEFINE manifest == case.meshes[i].manifest
<1>1. Columnar(case)
  BY DEF CaseInv, WellMade
<1>2. PICK k \in DOMAIN case.plans :
        manifest = Manifest(registry, case.plans[k], Seen(case.plans[k]))
  BY <1>1, MeshesAreThePlans
<1> DEFINE plan == case.plans[k]
<1>3. Separated(Manifest(registry, plan, Seen(plan)))
  BY <1>1, PlanStands
<1> HIDE DEF manifest, plan
<1>4. manifest.projection = Seen(plan)
  BY <1>2 DEF Manifest, plan
<1>5. manifest.projection.plan = plan
  BY <1>4, SeenPlan
<1>6. manifest = Manifest(registry, plan, Seen(plan))
  BY <1>2 DEF plan
<1>7. \A a \in manifest.assignments :
        a.phase = "checker" => a.who # WriterOf[plan.capability.family]
  BY <1>3, <1>6, IndependentCheck
<1> QED BY <1>4, <1>5, <1>6, <1>7 DEF manifest

LEMMA ArtifactOfPlan ==
    ASSUME NEW c, Columnar(c), NEW reg, Qualified(c, Sealed(Scope), reg),
           NEW j \in DOMAIN c.artifacts
    PROVE  /\ c.artifacts[j].projection.plan.scope = Scope
           /\ c.artifacts[j].assertions \subseteq SealedGrants(Sealed(Scope))
<1>1. PICK i \in DOMAIN c.plans : ValidStaged(c.artifacts[j], Seen(c.plans[i]))
  BY ArtifactsAreThePlans
<1>2. /\ c.artifacts[j].projection = Seen(c.plans[i])
      /\ c.artifacts[j].assertions = Seen(c.plans[i]).plan.assertions
  BY <1>1 DEF ValidStaged
<1>3. Seen(c.plans[i]).plan = c.plans[i]
  BY SeenPlan
<1>4. c.plans[i].scope = Scope /\ c.plans[i].assertions \subseteq SealedGrants(Sealed(Scope))
  BY PlanStands
<1> QED BY <1>2, <1>3, <1>4

LEMMA OnlyDeclaredConflicts ==
    ASSUME NEW c, Columnar(c), NEW reg, Qualified(c, Sealed(Scope), reg)
    PROVE  Conflicts(c.artifacts) \subseteq SealedConflicts(Sealed(Scope))
<1> DEFINE told == UNION {a.assertions : a \in ToSet(c.artifacts)}
<1>1. told \subseteq SealedGrants(Sealed(Scope))
  BY ArtifactOfPlan DEF ToSet
<1>2. ASSUME NEW a \in told, NEW b \in told, b.fact = a.fact, b.value # a.value
      PROVE  a.fact \in SealedConflicts(Sealed(Scope))
  <2>1. PICK x \in Facts : a.fact = x.fact /\ a.value = x.value
    BY <1>1, GrantsAreFacts
  <2>2. PICK y \in Facts : b.fact = y.fact /\ b.value = y.value
    BY <1>1, GrantsAreFacts
  <2>3. x.fact \in {z.fact : z \in {v \in Facts : \E w \in Facts :
                                        w.fact = v.fact /\ w.value # v.value}}
    BY <1>2, <2>1, <2>2
  <2> QED BY <2>1, <2>3, SealedFields DEF SealedConflicts
<1> HIDE DEF told
<1> QED BY <1>2 DEF Conflicts, told

(* A case that validate_case_compilation accepts, whatever became of it    *)
(* before, goes all the way: every plan has one artifact that tells what   *)
(* its author knew from the sealed case, checked by nobody who wrote it,   *)
(* detect_staged_conflicts finds declared conflicts only, and              *)
(* render_persona_channel_batch raises nowhere.                            *)
THEOREM WhatQualifiesHoldsUp == AuditSpec => []QualifiedHoldsUp
<1>1. ASSUME CaseInv PROVE QualifiedHoldsUp
  <2> SUFFICES ASSUME Qualified(case, Sealed(Scope), registry)
               PROVE  /\ Grounded
                      /\ \A i, j \in DOMAIN case.artifacts :
                          case.artifacts[i].projection.plan.scope
                            = case.artifacts[j].projection.plan.scope
                      /\ Conflicts(case.artifacts) \subseteq SealedConflicts(Sealed(Scope))
                      /\ CanRenderBatch(case, Sealed(Scope), registry, Receipt(case))
    BY DEF QualifiedHoldsUp
  <2>1. WellMade(case) /\ Columnar(case)
    BY <1>1 DEF CaseInv, WellMade
  <2>2. Grounded
    BY <1>1, GroundedPlan, GroundedMesh DEF Grounded
  <2> QED BY <2>1, <2>2, ArtifactOfPlan, OnlyDeclaredConflicts, QualifiedRenders
<1> QED BY <1>1, CaseInvariance, PTL

(* A row of the audit is about a plan of the case. *)
LEMMA CurrentRow ==
    ASSUME CaseInv, Qualified(case, Sealed(Scope), registry),
           NEW bundles, NEW receipt, bundles = Batch(case, Sealed(Scope), registry, receipt),
           NEW k \in DOMAIN case.projections, NEW r, r = Row(case, bundles[k])
    PROVE  /\ r.projection = case.projections[k]
           /\ r.bundle.projection = r.projection
           /\ r.trace = r.projection.plan.assertions
           /\ r.projection.plan.capability
                = Capability(registry, r.projection.plan.capability.family)
           /\ r.projection.plan \in ToSet(case.plans)
           /\ r.trace \subseteq SealedGrants(Sealed(Scope))
<1> DEFINE b == bundles[k]
<1>1. b = Bundle(case, Sealed(Scope), registry, receipt, k)
  BY DEF Batch
<1>2. /\ b.index = k /\ b.projection = case.projections[k]
      /\ b.local = LocalBundle(registry, case.projections[k], Sealed(Scope).scope)
  BY <1>1 DEF Bundle
<1> HIDE DEF b
<1>3. r = Row(case, b)
  BY DEF b
<1>4. r.projection = case.projections[k] /\ r.bundle = b /\ r.trace = Trace(b.local.candidate)
  BY <1>2, <1>3, SMTT(60) DEF Row
<1>5. r.trace = case.projections[k].plan.assertions
  BY <1>2, <1>4, QualifiedRenders DEF CaseInv
<1>6. PICK i \in DOMAIN case.plans : case.projections[k] = Seen(case.plans[i])
  BY ProjectionsAreThePlans DEF CaseInv, WellMade
<1>7. case.projections[k].plan = case.plans[i]
  BY <1>6, SeenPlan
<1>8. /\ case.plans[i].assertions \subseteq SealedGrants(Sealed(Scope))
      /\ PlanAuthorized(case.plans[i], case.plans[i].state,
                        Capability(registry, case.plans[i].capability.family))
  BY PlanStands DEF CaseInv, WellMade
<1>9. case.plans[i].capability = Capability(registry, case.plans[i].capability.family)
  BY <1>8 DEF PlanAuthorized
<1>10. case.plans[i] \in ToSet(case.plans)
  BY DEF ToSet
<1> QED BY <1>2, <1>4, <1>5, <1>7, <1>8, <1>9, <1>10

(* Corpus artifacts are only made of what the case says now: a batch that  *)
(* build_corpus_audit_artifacts accepts has a row for every plan of the    *)
(* case and no other, each traces the assertions of its plan, which are    *)
(* true in the sealed case, and names today's capability.                  *)
THEOREM WhatIsAuditedIsCurrent == AuditSpec => []AuditedIsCurrent
<1>1. ASSUME CaseInv PROVE AuditedIsCurrent
  <2> DEFINE rows == Rows(case, batch.bundles)
  <2> SUFFICES ASSUME Accepted
               PROVE  /\ {r.projection.plan : r \in rows} = ToSet(case.plans)
                      /\ \A r \in rows :
                          /\ \A a \in r.trace : \E c \in Facts :
                              a.scope = Scope /\ a.fact = c.fact /\ a.value = c.value
                          /\ r.trace = r.projection.plan.assertions
                          /\ r.bundle.projection = r.projection
                          /\ r.projection.plan.capability =
                              Capability(registry, r.projection.plan.capability.family)
    BY DEF AuditedIsCurrent
  <2>1. /\ Qualified(case, Sealed(Scope), registry)
        /\ batch.bundles = Batch(case, Sealed(Scope), registry, batch.receipt)
    BY DEF Accepted, BatchValid, CanRenderBatch, ReceiptValid
  <2>2. DOMAIN batch.bundles = DOMAIN case.projections
    BY <2>1 DEF Batch
  <2>3. rows = {Row(case, batch.bundles[k]) : k \in DOMAIN case.projections}
    BY <2>2 DEF Rows
  <2> HIDE DEF rows
  <2>4. ASSUME NEW r \in rows
        PROVE  /\ r.bundle.projection = r.projection
               /\ r.trace = r.projection.plan.assertions
               /\ r.projection.plan.capability
                    = Capability(registry, r.projection.plan.capability.family)
               /\ r.projection.plan \in ToSet(case.plans)
               /\ r.trace \subseteq SealedGrants(Sealed(Scope))
    <3>1. PICK k \in DOMAIN case.projections : r = Row(case, batch.bundles[k])
      BY <2>3
    <3> QED BY <1>1, <2>1, <3>1, CurrentRow
  <2>5. ASSUME NEW p \in ToSet(case.plans)
        PROVE  \E r \in rows : r.projection.plan = p
    <3>1. PICK i \in DOMAIN case.plans : p = case.plans[i]
      BY DEF ToSet
    <3> DEFINE k == ProjectionAt(case, p)
    <3>2. k \in DOMAIN case.projections /\ case.projections[k] = Seen(p)
      BY <1>1, <2>1, <3>1, PlanStands DEF CaseInv, WellMade
    <3> HIDE DEF k
    <3>3. Row(case, batch.bundles[k]).projection = case.projections[k]
      BY <1>1, <2>1, <3>2, CurrentRow
    <3>4. Row(case, batch.bundles[k]).projection.plan = p
      BY <3>2, <3>3, SeenPlan
    <3> QED BY <2>3, <3>2, <3>4
  <2>6. {r.projection.plan : r \in rows} = ToSet(case.plans)
    BY <2>4, <2>5
  <2> QED BY <2>4, <2>6, GrantsAreFacts
<1> QED BY <1>1, CaseInvariance, PTL

-----------------------------------------------------------------------------
(* Building everything again.  A case is fresh when all that follows from  *)
(* its plans is what the builders make of them now.                        *)

FreshPart(c, reg, i) ==
    LET plan == c.plans[i] IN
    /\ c.projections[i] = Seen(plan)
    /\ c.artifacts[i] = Staged(Seen(plan), c.artifacts[i].body, plan.assertions)
    /\ c.receipts[i] = ShapeReceipt(c.artifacts[i])
    /\ c.manifests[i] = Manifest(reg, plan, Seen(plan))
    /\ c.meshes[i] = MeshReceipt(c.manifests[i], c.artifacts[i], c.receipts[i])
    /\ View(plan.state, plan.assertions) \in ToSet(c.views)

Fresh(c, reg) ==
    /\ Columnar(c)
    /\ SameLengths(c)
    /\ \A i, j \in DOMAIN c.views : c.views[i] = c.views[j] => i = j
    /\ \A i \in DOMAIN c.plans : FreshPart(c, reg, i)

LEMMA FreshPlaces ==
    ASSUME NEW c, NEW reg, Fresh(c, reg), NEW i \in 1..Len(c.plans)
    PROVE  LET plan == c.plans[i] IN
           /\ c.projections[i].plan = plan
           /\ c.artifacts[i].projection = Seen(plan)
           /\ c.artifacts[i].assertions = plan.assertions
           /\ c.artifacts[i].content = Content(Seen(plan), c.artifacts[i].body, plan.assertions)
           /\ c.artifacts[i].content.projection = Seen(plan)
           /\ c.artifacts[i].projection.plan = plan
           /\ c.receipts[i].artifact = c.artifacts[i]
           /\ c.receipts[i].artifact.projection.plan = plan
           /\ c.manifests[i].projection = Seen(plan)
           /\ c.manifests[i].projection.plan = plan
           /\ c.meshes[i].manifest = c.manifests[i]
<1> DEFINE plan == c.plans[i]
<1>1. i \in DOMAIN c.plans
  BY ColumnsListed, ListedFacts DEF Fresh
<1>2. FreshPart(c, reg, i)
  BY <1>1 DEF Fresh
<1>3. Seen(plan).plan = plan
  BY SeenPlan
<1>4. c.projections[i] = Seen(plan) /\ c.manifests[i] = Manifest(reg, plan, Seen(plan))
  BY <1>2 DEF FreshPart
<1>5. c.manifests[i].projection = Seen(plan)
  BY <1>4 DEF Manifest
<1>6. /\ c.artifacts[i].projection = Seen(plan)
      /\ c.artifacts[i].assertions = plan.assertions
      /\ c.artifacts[i].content = Content(Seen(plan), c.artifacts[i].body, plan.assertions)
  <2> DEFINE a == c.artifacts[i]
             body == a.body
  <2>1. a = Staged(Seen(plan), body, plan.assertions)
    BY <1>2 DEF FreshPart
  <2> HIDE DEF a, body, plan
  <2>2. /\ a.projection = Seen(plan) /\ a.assertions = plan.assertions
        /\ a.content = Content(Seen(plan), body, plan.assertions)
    BY <2>1 DEF Staged
  <2> QED BY <2>2 DEF a, body, plan
<1>7. c.artifacts[i].content.projection = Seen(plan)
  BY <1>6 DEF Content
<1>8. c.receipts[i].artifact = c.artifacts[i]
  BY <1>2 DEF FreshPart, ShapeReceipt
<1>9. c.meshes[i].manifest = c.manifests[i]
  BY <1>2 DEF FreshPart, MeshReceipt
<1> HIDE DEF plan
<1> QED BY <1>3, <1>4, <1>5, <1>6, <1>7, <1>8, <1>9 DEF plan

LEMMA FreshDomains ==
    ASSUME NEW c, NEW reg, Fresh(c, reg)
    PROVE  LET n == Len(c.plans) IN
           /\ n \in Nat
           /\ Len(c.projections) = n /\ Len(c.artifacts) = n /\ Len(c.receipts) = n
           /\ Len(c.manifests) = n /\ Len(c.meshes) = n
           /\ DOMAIN c.plans = 1..n /\ DOMAIN c.projections = 1..n /\ DOMAIN c.artifacts = 1..n
           /\ DOMAIN c.receipts = 1..n /\ DOMAIN c.manifests = 1..n /\ DOMAIN c.meshes = 1..n
<1>1. /\ Len(c.projections) = Len(c.plans) /\ Len(c.artifacts) = Len(c.plans)
      /\ Len(c.receipts) = Len(c.plans) /\ Len(c.manifests) = Len(c.plans)
      /\ Len(c.meshes) = Len(c.plans)
  BY DEF Fresh, SameLengths
<1> QED BY <1>1, ColumnsListed, ListedFacts DEF Fresh

LEMMA FreshUnique ==
    ASSUME NEW c, NEW reg, Fresh(c, reg), AllDifferent(c.plans, PlanId)
    PROVE  /\ IdentitiesUnique(c)
           /\ AllDifferent(c.manifests, LAMBDA m : PlanId(m.projection.plan))
           /\ AllDifferent(c.meshes, LAMBDA r : ManifestId(r.manifest))
<1> DEFINE n == Len(c.plans)
<1>1. /\ DOMAIN c.plans = 1..n /\ DOMAIN c.projections = 1..n /\ DOMAIN c.artifacts = 1..n
      /\ DOMAIN c.receipts = 1..n /\ DOMAIN c.manifests = 1..n /\ DOMAIN c.meshes = 1..n
  BY FreshDomains
<1> HIDE DEF n
<1>2. \A i, j \in 1..n : PlanId(c.plans[i]) = PlanId(c.plans[j]) => i = j
  BY <1>1 DEF AllDifferent
<1>3. \A i, j \in 1..n : Seen(c.plans[i]) = Seen(c.plans[j]) => i = j
  BY <1>2, SeenPlan
<1>4. \A i \in 1..n :
        /\ c.projections[i].plan = c.plans[i]
        /\ c.artifacts[i].projection = Seen(c.plans[i])
        /\ c.artifacts[i].content.projection = Seen(c.plans[i])
        /\ c.receipts[i].artifact = c.artifacts[i]
        /\ c.receipts[i].artifact.projection.plan = c.plans[i]
        /\ c.manifests[i].projection = Seen(c.plans[i])
        /\ c.manifests[i].projection.plan = c.plans[i]
        /\ c.meshes[i].manifest = c.manifests[i]
  BY FreshPlaces DEF n
<1>5. AllDifferent(c.artifacts, StagedId)
  BY <1>1, <1>3, <1>4 DEF AllDifferent, StagedId
<1>6. AllDifferent(c.projections, LAMBDA r : PlanId(r.plan))
  BY <1>1, <1>2, <1>4 DEF AllDifferent
<1>7. /\ AllDifferent(c.receipts, LAMBDA r : r.artifact)
      /\ AllDifferent(c.receipts, LAMBDA r : r.artifact.projection.plan)
  BY <1>1, <1>2, <1>3, <1>4 DEF AllDifferent
<1>8. AllDifferent(c.views, LAMBDA v : v)
  BY DEF Fresh, AllDifferent
<1>9. AllDifferent(c.manifests, LAMBDA m : PlanId(m.projection.plan))
  BY <1>1, <1>2, <1>4 DEF AllDifferent
<1>10. AllDifferent(c.meshes, LAMBDA r : ManifestId(r.manifest))
  BY <1>1, <1>3, <1>4 DEF AllDifferent, ManifestId
<1> QED BY <1>5, <1>6, <1>7, <1>8, <1>9, <1>10 DEF IdentitiesUnique

(* Every lookup finds the plan's own. *)
LEMMA FreshLookups ==
    ASSUME NEW c, NEW reg, Fresh(c, reg), AllDifferent(c.plans, PlanId), NEW i \in DOMAIN c.plans
    PROVE  LET plan == c.plans[i] IN
           /\ i # 0 /\ ProjectionAt(c, plan) = i /\ ArtifactAt(c, plan) = i
           /\ ReceiptAt(c, plan) = i /\ ManifestAt(c, plan) = i
           /\ MeshAt(c, Manifest(reg, plan, Seen(plan))) = i
<1> DEFINE n == Len(c.plans)
           plan == c.plans[i]
           m == Manifest(reg, plan, Seen(plan))
<1>1. /\ n \in Nat /\ DOMAIN c.plans = 1..n
      /\ Len(c.projections) = n /\ Len(c.artifacts) = n /\ Len(c.receipts) = n
      /\ Len(c.manifests) = n /\ Len(c.meshes) = n
  BY FreshDomains
<1> HIDE DEF n
<1>2. \A k, j \in 1..n : PlanId(c.plans[k]) = PlanId(c.plans[j]) => k = j
  BY <1>1 DEF AllDifferent
<1>3. \A k \in 1..n :
        /\ c.projections[k].plan = c.plans[k]
        /\ c.artifacts[k].projection.plan = c.plans[k]
        /\ c.receipts[k].artifact.projection.plan = c.plans[k]
        /\ c.manifests[k].projection = Seen(c.plans[k])
        /\ c.manifests[k].projection.plan = c.plans[k]
        /\ c.meshes[k].manifest = c.manifests[k]
  BY FreshPlaces DEF n
<1>4. m.projection = Seen(plan)
  BY DEF Manifest
<1>5. i \in 1..n
  BY <1>1
<1>6. ProjectionPlaces(c, plan) = {i}
  BY <1>1, <1>2, <1>3, <1>5 DEF ProjectionPlaces
<1>7. ArtifactPlaces(c, plan) = {i}
  BY <1>1, <1>2, <1>3, <1>5 DEF ArtifactPlaces
<1>8. ReceiptPlaces(c, plan) = {i}
  BY <1>1, <1>2, <1>3, <1>5 DEF ReceiptPlaces
<1>9. ManifestPlaces(c, plan) = {i}
  BY <1>1, <1>2, <1>3, <1>5 DEF ManifestPlaces
<1>10. MeshPlaces(c, m) = {i}
  <2>1. FreshPart(c, reg, i)
    BY DEF Fresh
  <2>2. c.manifests[i] = m
    BY <2>1 DEF FreshPart
  <2> HIDE DEF m
  <2>3. \A k \in 1..n : ManifestId(c.meshes[k].manifest) = ManifestId(m) => k = i
    <3>1. ASSUME NEW k \in 1..n, ManifestId(c.meshes[k].manifest) = ManifestId(m)
          PROVE  Seen(c.plans[k]) = Seen(plan)
      BY <1>3, <1>4, <3>1 DEF ManifestId
    <3> QED BY <1>2, <1>5, <3>1, SeenPlan
  <2>4. ManifestId(c.meshes[i].manifest) = ManifestId(m)
    BY <1>3, <1>5, <2>2
  <2> QED BY <1>1, <1>5, <2>3, <2>4 DEF MeshPlaces
<1> HIDE DEF plan, m
<1>11. Columnar(c)
  BY DEF Fresh
<1>12. /\ ProjectionAt(c, plan) = i /\ ArtifactAt(c, plan) = i /\ i # 0
       /\ ReceiptAt(c, plan) = i /\ ManifestAt(c, plan) = i /\ MeshAt(c, m) = i
  BY <1>6, <1>7, <1>8, <1>9, <1>10, <1>11, Lookups
<1> QED BY <1>12 DEF plan, m

(* The roles of a manifest are always separated. *)
LEMMA RolesSeparate ==
    ASSUME NEW reg, NEW writer, writer \notin Checkers, NEW manifest,
           manifest.assignments = Assignments(reg, writer)
    PROVE  Separated(manifest)
<1> DEFINE check(c) == Assignment(reg, "checker", c, {writer, Renderer})
           inPhase(phase) == {a \in manifest.assignments : a.phase = phase}
           checks == {check(c) : c \in Checkers}
           P == Assignment(reg, "planner", Planner, {})
           W == Assignment(reg, "writer", writer, {})
           R == Assignment(reg, "renderer", Renderer, {})
<1>1. manifest.assignments = {P, W, R} \cup checks
  BY DEF Assignments
<1>2. /\ P.phase = "planner" /\ W.phase = "writer" /\ R.phase = "renderer" /\ W.who = writer
      /\ \A c \in Checkers : check(c).phase = "checker" /\ check(c).who = c
  BY DEF Assignment
<1> HIDE DEF check, P, W, R
<1>3. /\ inPhase("planner") = {P} /\ inPhase("writer") = {W} /\ inPhase("renderer") = {R}
      /\ inPhase("checker") = checks
  <2>1. \A a \in checks : a.phase = "checker"
    BY <1>2
  <2> HIDE DEF checks
  <2> QED BY <1>1, <1>2, <2>1
<1>4. Cardinality(checks) = Cardinality(Checkers)
  <2> DEFINE f == [c \in Checkers |-> check(c)]
  <2>1. f \in [Checkers -> checks]
    OBVIOUS
  <2>2. \A a, b \in DOMAIN f : f[a] = f[b] => a = b
    BY <1>2
  <2>3. \A a \in checks : \E c \in Checkers : f[c] = a
    OBVIOUS
  <2> HIDE DEF f, checks
  <2>4. f \in Bijection(Checkers, checks)
    BY <2>1, <2>2, <2>3 DEF Bijection, Injection, Surjection, IsInjective
  <2>5. ExistsBijection(Checkers, checks)
    BY <2>4 DEF ExistsBijection
  <2> QED BY <2>5, FS_Bijection, MeshAssumption
<1>5. {a.who : a \in inPhase("writer")} \cap {a.who : a \in inPhase("checker")} = {}
  <2>1. \A a \in checks : a.who \in Checkers
    BY <1>2
  <2> HIDE DEF checks, inPhase
  <2> QED BY <1>2, <1>3, <2>1
<1>6. \A phase \in {"planner", "writer", "renderer"} : Cardinality(inPhase(phase)) = 1
  <2> HIDE DEF inPhase, checks
  <2> QED BY <1>3, FS_Singleton
<1>7. Cardinality(inPhase("checker")) = Cardinality(Checkers)
  BY <1>3, <1>4
<1> HIDE DEF checks
<1> QED BY <1>5, <1>6, <1>7 DEF Separated

LEMMA FreshMesh ==
    ASSUME NEW c, NEW reg, Fresh(c, reg), AllDifferent(c.plans, PlanId),
           NEW i \in DOMAIN c.plans, PlanMade(c.plans[i]),
           PlanHolds(c, Sealed(Scope), reg, c.plans[i])
    PROVE  MeshPlanHolds(reg, c.plans[i], c)
<1> DEFINE plan == c.plans[i]
           m == Manifest(reg, plan, Seen(plan))
<1>1. /\ i # 0 /\ ProjectionAt(c, plan) = i /\ ArtifactAt(c, plan) = i
      /\ ReceiptAt(c, plan) = i /\ ManifestAt(c, plan) = i /\ MeshAt(c, m) = i
  BY FreshLookups
<1>2. StateAt(c, plan) # 0 /\ c.states[StateAt(c, plan)] = plan.state
  BY PlanHoldsSays
<1>3. FreshPart(c, reg, i)
  BY DEF Fresh
<1>4. /\ c.projections[i] = Seen(plan) /\ c.manifests[i] = m
      /\ c.meshes[i] = MeshReceipt(m, c.artifacts[i], c.receipts[i])
  BY <1>3 DEF FreshPart
<1>5. i \in 1..Len(c.plans)
  BY FreshDomains
<1>6. /\ c.artifacts[i].projection = Seen(plan) /\ c.receipts[i].artifact.projection.plan = plan
  BY <1>5, FreshPlaces
<1>7. m.projection = Seen(plan)
      /\ m.assignments = Assignments(reg, WriterOf[plan.capability.family])
  BY DEF Manifest
<1>8. Seen(plan).plan = plan /\ Seen(plan).view = View(plan.state, plan.assertions)
  BY DEF Seen, Projection
<1>9. /\ plan.capability.family \in DomainPack /\ plan.capability.family \in DOMAIN WriterOf
      /\ WriterOf[plan.capability.family] \notin Checkers
  BY MeshAssumption DEF PlanMade, DomainPack
<1>10. Knows(plan.state, plan.assertions)
  BY DEF PlanMade, CanPlan
<1> HIDE DEF plan, m
<1>11. CanProject(plan, Seen(plan).view, plan.state)
  <2>1. View(plan.state, plan.assertions).state = plan.state
    BY DEF View
  <2> QED BY <1>8, <1>10, <2>1 DEF CanProject
<1>12. CanManifest(plan, Seen(plan), plan.state)
  BY <1>8, <1>9, <1>11 DEF CanManifest
<1>13. Separated(m)
  BY <1>7, <1>9, RolesSeparate
<1>14. CanIssue(m, c.artifacts[i], c.receipts[i])
  BY <1>6, <1>7, <1>8 DEF CanIssue
<1>15. m = Manifest(reg, plan, c.projections[ProjectionAt(c, plan)])
  BY <1>1, <1>4 DEF m
<1>16. MeshPlanHolds(reg, plan, c)
  BY <1>1, <1>2, <1>4, <1>12, <1>13, <1>14, <1>15, MeshPlanHoldsSays
<1> QED BY <1>16 DEF plan

LEMMA FreshProduct ==
    ASSUME NEW c, NEW reg, Fresh(c, reg), AllDifferent(c.plans, PlanId), NEW sealed,
           NEW i \in DOMAIN c.plans, PlanMade(c.plans[i]), Substantive(c.artifacts[i].body)
    PROVE  ProductHolds(c, sealed, c.plans[i])
<1> DEFINE plan == c.plans[i]
<1>1. i # 0 /\ ProjectionAt(c, plan) = i /\ ArtifactAt(c, plan) = i /\ ReceiptAt(c, plan) = i
  BY FreshLookups
<1>2. FreshPart(c, reg, i)
  BY DEF Fresh
<1>3. /\ c.projections[i] = Seen(plan)
      /\ c.receipts[i] = ShapeReceipt(c.artifacts[i])
      /\ View(plan.state, plan.assertions) \in ToSet(c.views)
  BY <1>2 DEF FreshPart
<1>4. i \in 1..Len(c.plans)
  BY FreshDomains
<1>5. /\ c.artifacts[i].projection = Seen(plan)
      /\ c.artifacts[i].assertions = plan.assertions
      /\ c.artifacts[i].content = Content(Seen(plan), c.artifacts[i].body, plan.assertions)
  BY <1>4, FreshPlaces
<1>6. Seen(plan).plan = plan
  BY SeenPlan
<1>7. ValidLineage(plan.lineage)
  BY DEF PlanMade
<1> HIDE DEF plan
<1>8. ValidStaged(c.artifacts[i], Seen(plan))
  BY <1>5, <1>6, <1>7 DEF ValidStaged
<1>9. ValidShapeReceipt(c.receipts[i], c.artifacts[i], Seen(plan))
  BY <1>3, <1>8 DEF ValidShapeReceipt
<1>10. ProductHolds(c, sealed, plan)
  BY <1>1, <1>3, <1>8, <1>9, ProductHoldsSays
<1> QED BY <1>10 DEF plan

LEMMA FreshQualifies ==
    ASSUME NEW c, Fresh(c, registry), SoundPlans(c),
           \A i \in DOMAIN c.plans : PlanMade(c.plans[i])
    PROVE  Qualified(c, Sealed(Scope), registry)
<1>1. /\ AllDifferent(c.plans, PlanId)
      /\ \A plan \in ToSet(c.plans) : PlanHolds(c, Sealed(Scope), registry, plan)
      /\ \A i \in DOMAIN c.artifacts : Substantive(c.artifacts[i].body)
      /\ LineageHolds(c.plans, c.artifacts)
      /\ CapacityHolds(c)
  BY DEF SoundPlans
<1>2. /\ IdentitiesUnique(c)
      /\ AllDifferent(c.manifests, LAMBDA m : PlanId(m.projection.plan))
      /\ AllDifferent(c.meshes, LAMBDA r : ManifestId(r.manifest))
  BY <1>1, FreshUnique
<1>3. SameLengths(c)
  BY DEF Fresh
<1>4. ASSUME NEW plan \in ToSet(c.plans)
      PROVE  /\ PlanHolds(c, Sealed(Scope), registry, plan)
             /\ ProductHolds(c, Sealed(Scope), plan)
             /\ MeshPlanHolds(registry, plan, c)
  <2>1. PICK i \in DOMAIN c.plans : plan = c.plans[i]
    BY DEF ToSet
  <2>2. Substantive(c.artifacts[i].body)
    BY <1>1, <2>1, FreshDomains
  <2> QED BY <1>1, <2>1, <2>2, FreshMesh, FreshProduct
<1>5. MeshHolds(registry, c)
  BY <1>2, <1>3, <1>4 DEF MeshHolds
<1> QED BY <1>1, <1>2, <1>3, <1>4, <1>5 DEF Qualified

SixNew(c, v, p, a, r, m, h) ==
    [c EXCEPT !["views"] = v, !["projections"] = p, !["artifacts"] = a,
              !["receipts"] = r, !["manifests"] = m, !["meshes"] = h]

LEMMA SixColumns ==
    ASSUME NEW c, DOMAIN c = Columns, NEW v, NEW p, NEW a, NEW r, NEW m, NEW h, NEW d,
           d = SixNew(c, v, p, a, r, m, h)
    PROVE  /\ DOMAIN d = Columns
           /\ d.states = c.states /\ d.plans = c.plans
           /\ d.views = v /\ d.projections = p /\ d.artifacts = a
           /\ d.receipts = r /\ d.manifests = m /\ d.meshes = h
BY DEF Columns, SixNew

LEMMA ListedMap ==
    ASSUME NEW n \in Nat, NEW f, f = [i \in 1..n |-> f[i]]
    PROVE  Listed(f) /\ Len(f) = n
<1>1. \A i \in 1..n : f[i] \in {f[j] : j \in 1..n}
  OBVIOUS
<1>2. f \in [1..n -> {f[j] : j \in 1..n}]
  BY <1>1
<1>3. f \in Seq({f[j] : j \in 1..n}) /\ Len(f) = n
  BY <1>2
<1> QED BY <1>3, SeqIsListed

LEMMA RenewedIsFresh ==
    ASSUME CaseInv
    PROVE  Fresh(Renewed, registry) /\ Renewed.plans = case.plans
<1> DEFINE n == DOMAIN case.plans
           view(i) == View(case.plans[i].state, case.plans[i].assertions)
           projection(i) == Projection(case.plans[i], view(i))
           body(i) == IF i \in DOMAIN case.artifacts THEN case.artifacts[i].body ELSE "fixture"
           artifact(i) == Staged(projection(i), body(i), case.plans[i].assertions)
           manifest(i) == Manifest(registry, case.plans[i], projection(i))
           mesh(i) == MeshReceipt(manifest(i), artifact(i), ShapeReceipt(artifact(i)))
           V == {view(i) : i \in n}
           v == SetToSeq(V)
           p == [i \in n |-> projection(i)]
           a == [i \in n |-> artifact(i)]
           r == [i \in n |-> ShapeReceipt(artifact(i))]
           m == [i \in n |-> manifest(i)]
           h == [i \in n |-> mesh(i)]
           c == Renewed
<1>1. DOMAIN case = Columns /\ \A name \in Columns : Listed(case[name])
  BY DEF CaseInv, WellMade, Columnar
<1>2. n = 1..Len(case.plans) /\ Len(case.plans) \in Nat
  BY ColumnsListed, ListedFacts DEF CaseInv, WellMade
<1>3. c = SixNew(case, v, p, a, r, m, h)
  BY Zenon DEF Renewed, SixNew
<1>4. \A i \in n : /\ projection(i) = Seen(case.plans[i])
                   /\ artifact(i).body = body(i)
  BY DEF Seen, Staged
<1>5. IsFiniteSet(V)
  <2> DEFINE f == [i \in n |-> view(i)]
  <2>1. DOMAIN f = n /\ V = {f[i] : i \in DOMAIN f}
    OBVIOUS
  <2>2. IsFiniteSet(n)
    BY <1>2, FS_Interval
  <2> HIDE DEF f, V, n
  <2> QED BY <2>1, <2>2, FiniteImage
<1>6. \A i \in n : view(i) \in V
  OBVIOUS
<1> HIDE DEF c, n, view, body, V
<1>7. /\ Listed(v) /\ ToSet(v) = V /\ \A i, j \in DOMAIN v : v[i] = v[j] => i = j
  BY <1>5, Enumerated
<1> HIDE DEF v
<1>8. /\ \A i \in n : /\ p[i] = projection(i) /\ a[i] = artifact(i)
                      /\ r[i] = ShapeReceipt(a[i]) /\ m[i] = manifest(i)
                      /\ h[i] = MeshReceipt(m[i], a[i], r[i])
      /\ DOMAIN p = n /\ DOMAIN a = n /\ DOMAIN r = n /\ DOMAIN m = n /\ DOMAIN h = n
  <2> HIDE DEF projection, artifact, manifest
  <2> QED OBVIOUS
<1>9. /\ Listed(p) /\ Len(p) = Len(case.plans)
      /\ Listed(a) /\ Len(a) = Len(case.plans)
      /\ Listed(r) /\ Len(r) = Len(case.plans)
      /\ Listed(m) /\ Len(m) = Len(case.plans)
      /\ Listed(h) /\ Len(h) = Len(case.plans)
  <2> HIDE DEF projection, artifact, manifest, mesh
  <2>1. /\ p = [i \in 1..Len(case.plans) |-> p[i]]
        /\ a = [i \in 1..Len(case.plans) |-> a[i]]
        /\ r = [i \in 1..Len(case.plans) |-> r[i]]
        /\ m = [i \in 1..Len(case.plans) |-> m[i]]
        /\ h = [i \in 1..Len(case.plans) |-> h[i]]
    BY <1>2
  <2> HIDE DEF p, a, r, m, h
  <2> QED BY <1>2, <2>1, ListedMap
<1>10. \A i \in n : a[i] = Staged(Seen(case.plans[i]), a[i].body, case.plans[i].assertions)
  <2> HIDE DEF projection
  <2> QED BY <1>4, <1>8
<1>11. \A i \in n : m[i] = Manifest(registry, case.plans[i], Seen(case.plans[i]))
  <2> HIDE DEF projection
  <2> QED BY <1>4, <1>8
<1>12. \A i \in n : p[i] = Seen(case.plans[i])
  <2> HIDE DEF projection
  <2> QED BY <1>4, <1>8
<1> HIDE DEF p, a, r, m, h, projection, artifact, manifest, mesh
<1>13. /\ DOMAIN c = Columns /\ c.states = case.states /\ c.plans = case.plans
       /\ c.views = v /\ c.projections = p /\ c.artifacts = a
       /\ c.receipts = r /\ c.manifests = m /\ c.meshes = h
  BY <1>1, <1>3, SixColumns
<1>14. Columnar(c)
  <2>1. Listed(case.states) /\ Listed(case.plans)
    BY ColumnsListed DEF CaseInv, WellMade
  <2> QED BY <1>7, <1>9, <1>13, <2>1 DEF Columnar, Columns
<1>15. SameLengths(c)
  BY <1>9, <1>13 DEF SameLengths
<1>16. ASSUME NEW i \in DOMAIN c.plans
       PROVE  FreshPart(c, registry, i)
  <2>1. i \in n
    BY <1>13 DEF n
  <2>2. View(case.plans[i].state, case.plans[i].assertions) \in ToSet(v)
    BY <1>6, <1>7, <2>1 DEF view
  <2> QED BY <1>8, <1>10, <1>11, <1>12, <1>13, <2>1, <2>2 DEF FreshPart
<1> QED BY <1>7, <1>13, <1>14, <1>15, <1>16 DEF Fresh, c

(* The validator does not refuse honest work: whatever had become of a     *)
(* case, when validate_plan_authority, the sealed grants, the lineage and  *)
(* the capacities accept its plans, calling the builders again for all     *)
(* that follows makes a case that validate_case_compilation accepts.       *)
THEOREM HonestRebuildsQualify == AuditSpec => []RebuildQualifies
<1>1. ASSUME CaseInv PROVE RebuildQualifies
  <2>1. Fresh(Renewed, registry) /\ Renewed.plans = case.plans
    BY <1>1, RenewedIsFresh
  <2>2. \A i \in DOMAIN Renewed.plans : PlanMade(Renewed.plans[i])
    BY <1>1, <2>1 DEF CaseInv, WellMade
  <2>3. SoundPlans(Renewed) => Qualified(Renewed, Sealed(Scope), registry)
    BY <2>1, <2>2, FreshQualifies
  <2> QED BY <2>3 DEF RebuildQualifies
<1> QED BY <1>1, CaseInvariance, PTL

=============================================================================
