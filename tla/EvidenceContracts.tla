-------------------------- MODULE EvidenceContracts --------------------------
(***************************************************************************)
(* persona_state.py and evidence_contracts.py: what an author knows on a   *)
(* day, the plan of an artifact, its projection for the renderer, the      *)
(* artifact that comes back and the chain of its versions.  A commitment   *)
(* (SHA-256 of the canonical JSON) is the object itself, and an identity   *)
(* that is a digest of some fields is the tuple of these fields.  A scope  *)
(* is a world namespace with its matter namespace.                         *)
(***************************************************************************)
EXTENDS Naturals, FiniteSets, SequencesExt

CONSTANTS
    Authors,            \* the actors whose role may author a family
    NeedsRecipients,    \* the families that require recipients
    Nothing             \* Python's None

Family == DOMAIN Authors

(* A lookup in {identity: item for item in items}: the place of the last   *)
(* one, for that one wins, or 0 for the None that get() returns.           *)
Lookup(items, IsIt(_)) == SelectLastInSeq(items, IsIt)

AllDifferent(items, Id(_)) ==
    \A i, j \in DOMAIN items : i # j => Id(items[i]) # Id(items[j])

-----------------------------------------------------------------------------
(* Personas. *)

FactsOf(assertions) == {a.fact : a \in assertions}

(* compile_persona_snapshot takes what it is told: facts, granted          *)
(* assertions and relationships are the caller's.                          *)
Snapshot(scope, actor, day, facts, granted, related) ==
    [scope |-> scope, actor |-> actor, day |-> day,
     facts |-> facts, granted |-> granted, related |-> related]

(* The identity of a state says nothing of what is known in it. *)
StateId(state) == <<state.scope, state.actor, state.day>>

Relation(scope, source, target) == <<scope, source, target>>

Knows(state, assertions) ==
    FactsOf(assertions) \subseteq state.facts /\ assertions \subseteq state.granted

View(state, assertions) ==
    [state |-> state, facts |-> FactsOf(assertions), granted |-> assertions]

-----------------------------------------------------------------------------
(* Plans. *)

VersionId(lineage) == <<lineage.logical, lineage.revision>>

(* A successor always comes with a reason, a first version never. *)
ValidLineage(lineage) ==
    IF lineage.revision = 1
      THEN lineage.parent = Nothing
      ELSE lineage.parent # Nothing /\ lineage.parent.version # VersionId(lineage)

Related(state, scope, author, recipients) ==
    \A r \in recipients : Relation(scope, author, r) \in state.related

(* What build_artifact_plan refuses.  A parent is an artifact with the     *)
(* projection it was rendered from.                                        *)
CanPlan(scope, family, author, recipients, day, assertions, state) ==
    /\ state.scope = scope
    /\ author \in Authors[family]
    /\ state.actor = author
    /\ state.day = day
    /\ \A a \in assertions : a.scope = scope /\ a.author = author
    /\ \A a \in assertions : a.learned <= day
    /\ Knows(state, assertions)
    /\ family \in NeedsRecipients => recipients # {}
    /\ Related(state, scope, author, recipients)

Plan(scope, capability, author, recipients, day, assertions, state, lineage) ==
    [scope |-> scope, capability |-> capability, author |-> author,
     recipients |-> recipients, day |-> day, assertions |-> assertions,
     state |-> state, lineage |-> lineage]

PlanId(plan) == <<plan.scope, plan.lineage.logical, plan.lineage.revision>>

(* validate_plan_authority, of a plan that somebody else may have made *)
PlanAuthorized(plan, state, capability) ==
    /\ plan.capability = capability
    /\ state.scope = plan.scope
    /\ state.actor = plan.author
    /\ state.actor \in Authors[capability.family]
    /\ state.day = plan.day
    /\ plan.assertions \subseteq state.granted
    /\ Related(state, plan.scope, plan.author, plan.recipients)

-----------------------------------------------------------------------------
(* Projections and staged artifacts. *)

CanProject(plan, view, state) ==
    /\ view.state = plan.state
    /\ state = plan.state
    /\ Knows(state, plan.assertions)
    /\ view = View(state, plan.assertions)

Projection(plan, view) == [plan |-> plan, view |-> view]

Content(projection, body, assertions) ==
    [projection |-> projection, body |-> body, assertions |-> assertions]

Staged(projection, body, assertions) ==
    [projection |-> projection, body |-> body, assertions |-> assertions,
     content |-> Content(projection, body, assertions)]

StagedId(staged) == staged.content

Substantive(body) == body # "placeholder"

(* The fields a staged artifact copies from its projection are the         *)
(* projection it carries.                                                  *)
ValidStaged(staged, projection) ==
    /\ staged.projection = projection
    /\ Substantive(staged.body)
    /\ staged.assertions = projection.plan.assertions
    /\ staged.content = Content(projection, staged.body, staged.assertions)
    /\ ValidLineage(staged.projection.plan.lineage)

(* build_artifact_plan on the parent of a successor *)
CanSucceed(parent, projection, scope, logical, revision) ==
    /\ parent.projection.plan.scope = scope
    /\ parent.projection.plan.lineage.logical = logical
    /\ parent.projection.plan.lineage.revision = revision - 1
    /\ ValidStaged(parent, projection)
    /\ parent.projection = projection

(* stage_artifact raises what ValidStaged finds. *)
CanStage(projection, body, assertions) ==
    ValidStaged(Staged(projection, body, assertions), projection)

ShapeReceipt(staged) == [artifact |-> staged]

ValidShapeReceipt(receipt, staged, projection) ==
    ValidStaged(staged, projection) /\ receipt = ShapeReceipt(staged)

-----------------------------------------------------------------------------
(* Versions and conflicts. *)

(* validate_lineage_graph *)
LineageHolds(plans, artifacts) ==
    LET all == ToSet(plans)
        logical(p) == <<p.scope, p.lineage.logical>>
        artifactOf(p) == Lookup(artifacts, LAMBDA a : PlanId(a.projection.plan) = PlanId(p))
    IN
    /\ AllDifferent(plans, LAMBDA p : VersionId(p.lineage))
    /\ \A p \in all :
        LET group == {q \in all : logical(q) = logical(p)} IN
        /\ {q.lineage.revision : q \in group} = 1..Cardinality(group)
        /\ \A q \in group : q.lineage.revision = p.lineage.revision + 1 =>
            /\ artifactOf(p) # 0
            /\ q.lineage.parent # Nothing
            /\ q.lineage.parent.version = VersionId(p.lineage)
            /\ q.lineage.parent.content = artifacts[artifactOf(p)].content

(* detect_staged_conflicts: the facts that artifacts tell differently. *)
Conflicts(artifacts) ==
    LET told == UNION {a.assertions : a \in ToSet(artifacts)} IN
    {a.fact : a \in {b \in told : \E c \in told : c.fact = b.fact /\ c.value # b.value}}

=============================================================================
