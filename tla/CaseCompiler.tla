----------------------------- MODULE CaseCompiler -----------------------------
(***************************************************************************)
(* case_compiler.py: a sealed case is compiled into artifacts, part by     *)
(* part, and the whole is qualified by a validator that derives again what *)
(* it can.  What it must withstand is a case whose parts no longer belong  *)
(* together, because some were built again, revised, lost, repeated, taken *)
(* from another case, or made with a registry that has moved on.           *)
(***************************************************************************)
EXTENDS SpecialistMesh

CONSTANTS
    Facts,          \* the sealed claims: fact, value, day and who knows it since when
    Specs,          \* what _plan_specs lists
    Scopes,
    MaxArtifacts,   \* of a matter
    MaxPerMatter,   \* of a family in a matter
    MaxRework       \* bound: how often the parts of the case are touched

(* What compile_case_design needs to get through: claims have a source     *)
(* each, and every entry an author who may write it and a reader.          *)
ASSUME FactsAssumption ==
    /\ IsFiniteSet(Facts)
    /\ \A c \in Facts : IsFiniteSet(c.known) /\ \A k \in c.known : k[2] \in Nat

ASSUME SpecsAssumption ==
    /\ Scopes # {}
    /\ Specs \in Seq(ToSet(Specs))
    /\ \A spec \in ToSet(Specs) :
        /\ spec.family \in Required
        /\ spec.author \in Authors[spec.family]
        /\ spec.family \in NeedsRecipients => spec.recipients # {}
        /\ spec.day \in Nat

VARIABLES
    case,       \* the case as assembled
    registry,   \* the capabilities of today
    touched     \* how often the case was touched

caseVars == <<case, registry, touched>>

Sealed(scope) == [scope |-> scope, facts |-> Facts]

-----------------------------------------------------------------------------
(* _build_fact_design: the accounts of one fact that do not agree are the  *)
(* declared conflict.                                                      *)
SealedConflicts(sealed) ==
    {c.fact : c \in {b \in sealed.facts : \E d \in sealed.facts :
                        d.fact = b.fact /\ d.value # b.value}}

Since(claim, actor) == {k[2] : k \in {j \in claim.known : j[1] = actor}}

KnownBy(claim, actor, day) == \E d \in Since(claim, actor) : d <= day

(* _knowledge_for_actor *)
Knowledge(facts, actor, day) == {c.fact : c \in {b \in facts : KnownBy(b, actor, day)}}

Assertion(scope, author, claim, value, learned) ==
    [scope |-> scope, author |-> author, fact |-> claim.fact, value |-> value,
     source |-> claim, learned |-> learned]

(* _assertions_for: a fact listed n times takes the author's n earliest    *)
(* accounts of it, each as old as the first day the author knew it.        *)
AssertionsFor(facts, scope, author, day, listed) ==
    LET accounts(f) == {c \in facts : c.fact = f /\ KnownBy(c, author, day)}
        earlier(c) == {b \in accounts(c.fact) : b.day < c.day}
        wanted(f) == Cardinality({i \in DOMAIN listed : listed[i] = f})
        learned(c) == Min(Since(c, author))
    IN {Assertion(scope, author, c, c.value, learned(c)) :
            c \in {b \in facts : b \in accounts(b.fact)
                                 /\ Cardinality(earlier(b)) < wanted(b.fact)}}

First(scope, spec) ==
    [logical |-> <<scope, spec.logical>>, revision |-> 1, parent |-> Nothing]

StateOf(scope, author, recipients, day, assertions) ==
    Snapshot(scope, author, day,
             Knowledge(Facts, author, day) \cup FactsOf(assertions), assertions,
             {Relation(scope, author, r) : r \in recipients})

-----------------------------------------------------------------------------
(* One part of a case: what the builders make of one artifact, in order.   *)

Stage == 1..5   \* state, plan, projection, artifact, and its receipts

(* The builders from one stage to another; an earlier part is what it was. *)
Build(reg, part, from, upto, assertions, lineage, body) ==
    LET at(stage) == from <= stage /\ stage <= upto
        old == part.plan
        state == IF at(1) THEN StateOf(old.scope, old.author, old.recipients, old.day, assertions)
                 ELSE part.state
        plan == IF at(2) THEN Plan(old.scope, Capability(reg, old.capability.family), old.author,
                                   old.recipients, old.day, assertions, state, lineage)
                ELSE old
        view == IF at(3) THEN View(state, plan.assertions) ELSE part.view
        projection == IF at(3) THEN Projection(plan, view) ELSE part.projection
        artifact == IF at(4) THEN Staged(projection, body, projection.plan.assertions)
                    ELSE part.artifact
        receipt == IF at(5) THEN ShapeReceipt(artifact) ELSE part.receipt
        manifest == IF at(5) THEN Manifest(reg, plan, projection) ELSE part.manifest
        mesh == IF at(5) THEN MeshReceipt(manifest, artifact, receipt) ELSE part.mesh
    IN [state |-> state, view |-> view, plan |-> plan, projection |-> projection,
        artifact |-> artifact, receipt |-> receipt, manifest |-> manifest, mesh |-> mesh]

(* None of the builders that made it raises. *)
Builds(new, from, upto) ==
    LET at(stage) == from <= stage /\ stage <= upto
        plan == new.plan IN
    /\ at(2) => CanPlan(plan.scope, plan.capability.family, plan.author, plan.recipients,
                        plan.day, plan.assertions, new.state)
    /\ at(2) => ValidLineage(plan.lineage)
    /\ at(3) => CanProject(plan, new.view, new.state)
    /\ at(4) => CanStage(new.projection, new.artifact.body, new.artifact.assertions)
    /\ at(5) => ValidStaged(new.artifact, new.projection)
    /\ at(5) => CanManifest(plan, new.projection, new.state)
    /\ at(5) => CanIssue(new.manifest, new.artifact, new.receipt)

(* The loop of compile_case_design, for one entry of _plan_specs. *)
Compiled(reg, scope, spec) ==
    LET assertions == AssertionsFor(Facts, scope, spec.author, spec.day, spec.facts)
        state == StateOf(scope, spec.author, spec.recipients, spec.day, assertions)
        plan == Plan(scope, Capability(reg, spec.family), spec.author, spec.recipients,
                     spec.day, assertions, state, First(scope, spec))
    IN Build(reg, [plan |-> plan, state |-> state], 3, 5, assertions, plan.lineage, "fixture")

Columns == {"states", "views", "plans", "projections", "artifacts", "receipts",
            "manifests", "meshes"}

Column(part, c) ==
    CASE c = "states" -> part.state [] c = "views" -> part.view
      [] c = "plans" -> part.plan [] c = "projections" -> part.projection
      [] c = "artifacts" -> part.artifact [] c = "receipts" -> part.receipt
      [] c = "manifests" -> part.manifest [] c = "meshes" -> part.mesh

Compilation(reg, scope) ==
    [c \in Columns |-> [i \in DOMAIN Specs |-> Column(Compiled(reg, scope, Specs[i]), c)]]

Part(i) ==
    [state |-> case.states[i], view |-> case.views[i], plan |-> case.plans[i],
     projection |-> case.projections[i], artifact |-> case.artifacts[i],
     receipt |-> case.receipts[i], manifest |-> case.manifests[i], mesh |-> case.meshes[i]]

Whole(i) == \A c \in Columns : i \in DOMAIN case[c]

-----------------------------------------------------------------------------
(* validate_case_compilation, in the order of its checks.  A persona's     *)
(* knowledge is looked up by the identity of its state.                    *)

SealedGrants(sealed) ==
    UNION {{Assertion(sealed.scope, k[1], c, c.value, k[2]) : k \in c.known} : c \in sealed.facts}

(* Fault: no persona may be listed twice. *)
IdentitiesUniqueWithStates(c) ==
    /\ AllDifferent(c.plans, PlanId)
    /\ AllDifferent(c.artifacts, StagedId)
    /\ AllDifferent(c.receipts, LAMBDA r : r.artifact.projection.plan)
    /\ AllDifferent(c.views, LAMBDA v : v)
    /\ AllDifferent(c.states, StateId)

IdentitiesUnique(c) ==
    /\ AllDifferent(c.plans, PlanId)
    /\ AllDifferent(c.artifacts, StagedId)
    /\ AllDifferent(c.projections, LAMBDA r : PlanId(r.plan))
    /\ AllDifferent(c.receipts, LAMBDA r : r.artifact)
    /\ AllDifferent(c.receipts, LAMBDA r : r.artifact.projection.plan)
    /\ AllDifferent(c.views, LAMBDA v : v)

(* Fault: sealed authority is not asked. *)
PlanHoldsUnsealed(c, sealed, reg, plan) ==
    LET state == Lookup(c.states, LAMBDA s : StateId(s) = StateId(plan.state)) IN
    /\ plan.scope = sealed.scope
    /\ state # 0
    /\ c.states[state] = plan.state
    /\ PlanAuthorized(plan, c.states[state], Capability(reg, plan.capability.family))

(* The checks of one plan against the registry, the sealed case and its persona. *)
PlanHolds(c, sealed, reg, plan) ==
    LET state == Lookup(c.states, LAMBDA s : StateId(s) = StateId(plan.state)) IN
    /\ plan.assertions \subseteq SealedGrants(sealed)
    /\ plan.scope = sealed.scope
    /\ state # 0
    /\ c.states[state] = plan.state
    /\ PlanAuthorized(plan, c.states[state], Capability(reg, plan.capability.family))

(* The checks of what was made of it: projection, view, artifact and receipt. *)
ProductHolds(c, sealed, plan) ==
    LET renderer == Lookup(c.projections, LAMBDA r : PlanId(r.plan) = PlanId(plan))
        staged == Lookup(c.artifacts, LAMBDA a : PlanId(a.projection.plan) = PlanId(plan))
        receipt == Lookup(c.receipts, LAMBDA r : r.artifact.projection.plan = plan)
        view == View(plan.state, plan.assertions)
    IN
    /\ 0 \notin {renderer, staged, receipt}
    /\ view \in ToSet(c.views)
    /\ c.projections[renderer] = Projection(plan, view)
    /\ ValidStaged(c.artifacts[staged], c.projections[renderer])
    /\ ValidShapeReceipt(c.receipts[receipt], c.artifacts[staged], c.projections[renderer])

CapacityHolds(c) ==
    LET ofFamily(f) == {i \in DOMAIN c.plans : c.plans[i].capability.family = f} IN
    /\ \A f \in Required : ofFamily(f) # {}
    /\ \A f \in Family : Cardinality(ofFamily(f)) <= MaxPerMatter
    /\ Len(c.plans) <= MaxArtifacts

Qualified(c, sealed, reg) ==
    /\ IdentitiesUnique(c)
    /\ SameLengths(c)
    /\ LineageHolds(c.plans, c.artifacts)
    /\ \A plan \in ToSet(c.plans) : PlanHolds(c, sealed, reg, plan) /\ ProductHolds(c, sealed, plan)
    /\ CapacityHolds(c)
    /\ MeshHolds(reg, c)

(* qualify_case_compilation and validate_case_qualification_receipt *)
Receipt(c) == [compilation |-> c]

ReceiptValid(receipt, c, sealed, reg) == Qualified(c, sealed, reg) /\ receipt = Receipt(c)

-----------------------------------------------------------------------------
(* The case of the first scope, whole and qualified, and what befalls it.  *)

Scope == CHOOSE s \in Scopes : TRUE

Init ==
    /\ registry = [evidence |-> 1, specialists |-> 1]
    /\ case = Compilation(registry, Scope)
    /\ touched = 0

Touch == touched < MaxRework /\ touched' = touched + 1

(* What a caller has an author assert: what the plan says, nothing, or one *)
(* account, quoted or misquoted, known to the author on the day or not.    *)
Offered(plan) ==
    {plan.assertions, {}} \cup
    UNION {{{Assertion(plan.scope, plan.author, c, v, d)} :
               v \in {c.value, "misquoted"}, d \in Since(c, plan.author) \cup {plan.day}} :
           c \in Facts}

(* The builders are called again for one artifact, and not to the end. *)
Rework(i, from, upto, assertions, body) ==
    LET old == Part(i)
        new == Build(registry, old, from, upto, assertions, old.plan.lineage, body) IN
    /\ Touch
    /\ from <= upto
    /\ Builds(new, from, upto)
    /\ case' = [c \in Columns |-> [case[c] EXCEPT ![i] = Column(new, c)]]
    /\ UNCHANGED registry

(* A new version of an artifact, with everything that belongs to it; the   *)
(* persona's state and view of the day are shared with the old version     *)
(* when they are the same.                                                 *)
Revise(i, assertions) ==
    LET old == Part(i)
        lineage == [logical |-> old.plan.lineage.logical,
                    revision |-> old.plan.lineage.revision + 1,
                    parent |-> [version |-> VersionId(old.plan.lineage),
                                content |-> old.artifact.content]]
        new == Build(registry, old, 1, 5, assertions, lineage, "fixture") IN
    /\ Touch
    /\ CanSucceed(old.artifact, old.projection, old.plan.scope, lineage.logical, lineage.revision)
    /\ Builds(new, 1, 5)
    /\ case' = [c \in Columns |->
                  IF c \in {"states", "views"} /\ Column(new, c) \in ToSet(case[c])
                    THEN case[c] ELSE Append(case[c], Column(new, c))]
    /\ UNCHANGED registry

(* A worker hands in an artifact that stage_artifact has not made, with    *)
(* the commitment of the artifact it replaces or with one of its own.      *)
Deliver(i, body, assertions) ==
    /\ Touch
    /\ \E content \in {case.artifacts[i].content,
                       Content(case.artifacts[i].projection, body, assertions)} :
        case' = [case EXCEPT !["artifacts"][i] =
                    [projection |-> @.projection, body |-> body,
                     assertions |-> assertions, content |-> content]]
    /\ UNCHANGED registry

Lose(c, i) ==
    /\ Touch
    /\ case' = [case EXCEPT ![c] = RemoveAt(@, i)]
    /\ UNCHANGED registry

Repeat(c, i) ==
    /\ Touch
    /\ case' = [case EXCEPT ![c] = Append(@, @[i])]
    /\ UNCHANGED registry

(* The part at the same place of another case. *)
Mix(c, i, scope) ==
    /\ Touch
    /\ case' = [case EXCEPT ![c][i] = Compilation(registry, scope)[c][i]]
    /\ UNCHANGED registry

Upgrade(kind) ==
    /\ Touch
    /\ registry[kind] = 1
    /\ registry' = [registry EXCEPT ![kind] = 2]
    /\ UNCHANGED case

Next ==
    \/ \E i \in {j \in DOMAIN case.plans : Whole(j)} :
        \/ \E assertions \in Offered(case.plans[i]) :
            \/ \E upto \in Stage : Rework(i, 1, upto, assertions, "fixture")
            \/ Revise(i, assertions)
        \/ \E from \in 2..5, upto \in Stage, body \in {"fixture", "channel"} :
            Rework(i, from, upto, case.plans[i].assertions, body)
    \/ \E i \in DOMAIN case.artifacts, body \in {"edited", "placeholder"} :
        Deliver(i, body, case.artifacts[i].assertions)
    \/ \E i \in DOMAIN case.artifacts : Deliver(i, "fixture", {})
    \/ \E c \in Columns : \E i \in DOMAIN case[c] : Lose(c, i) \/ Repeat(c, i)
    \/ \E c \in Columns, s \in Scopes \ {Scope} :
        \E i \in DOMAIN case[c] \cap DOMAIN Specs : Mix(c, i, s)
    \/ \E kind \in {"evidence", "specialists"} : Upgrade(kind)

Spec == Init /\ [][Next]_caseVars

-----------------------------------------------------------------------------
(* What a qualified case promises, said of what it tells and not of its    *)
(* commitments: every plan has one artifact, which tells what its author   *)
(* knew from the sealed case by that day to people the author is related   *)
(* to, was not checked by its writer, and succeeds the version it names as *)
(* that version is in the case; and all of it is what the builders make of *)
(* the plans with today's registry.                                        *)
TellsTheTruth(plan, artifact) ==
    \A a \in artifact.assertions : \E c \in Facts :
        /\ a.scope = Scope
        /\ a.fact = c.fact /\ a.value = c.value
        /\ KnownBy(c, plan.author, plan.day)

Succeeds(plan) ==
    plan.lineage.revision > 1 =>
        \E i \in DOMAIN case.artifacts :
            LET parent == case.artifacts[i].projection.plan.lineage IN
            /\ parent.logical = plan.lineage.logical
            /\ parent.revision = plan.lineage.revision - 1
            /\ plan.lineage.parent.content = case.artifacts[i].content

Grounded ==
    /\ \A i \in DOMAIN case.plans :
        LET plan == case.plans[i]
            own == {j \in DOMAIN case.artifacts : case.artifacts[j].projection.plan = plan}
        IN /\ Cardinality(own) = 1
           /\ \A j \in own : TellsTheTruth(plan, case.artifacts[j])
           /\ \A r \in plan.recipients : Relation(Scope, plan.author, r) \in plan.state.related
           /\ Succeeds(plan)
    /\ \A i \in DOMAIN case.meshes :
        LET manifest == case.meshes[i].manifest
            family == manifest.projection.plan.capability.family IN
        /\ manifest = Manifest(registry, manifest.projection.plan, manifest.projection)
        /\ \A a \in manifest.assignments : a.phase = "checker" => a.who # WriterOf[family]

(* The validator does not refuse honest work: when the plans and the       *)
(* states they name are sound, building everything that follows from them  *)
(* again makes a case that qualifies, whatever had become of it.           *)
Renewed ==
    LET n == DOMAIN case.plans
        view(i) == View(case.plans[i].state, case.plans[i].assertions)
        projection(i) == Projection(case.plans[i], view(i))
        body(i) == IF i \in DOMAIN case.artifacts THEN case.artifacts[i].body ELSE "fixture"
        artifact(i) == Staged(projection(i), body(i), case.plans[i].assertions)
        manifest(i) == Manifest(registry, case.plans[i], projection(i)) IN
    [case EXCEPT !["views"] = SetToSeq({view(i) : i \in n}),
                 !["projections"] = [i \in n |-> projection(i)],
                 !["artifacts"] = [i \in n |-> artifact(i)],
                 !["receipts"] = [i \in n |-> ShapeReceipt(artifact(i))],
                 !["manifests"] = [i \in n |-> manifest(i)],
                 !["meshes"] = [i \in n |->
                    MeshReceipt(manifest(i), artifact(i), ShapeReceipt(artifact(i)))]]

SoundPlans(c) ==
    /\ AllDifferent(c.plans, PlanId)
    /\ \A plan \in ToSet(c.plans) : PlanHolds(c, Sealed(Scope), registry, plan)
    /\ \A i \in DOMAIN c.artifacts : Substantive(c.artifacts[i].body)
    /\ LineageHolds(c.plans, c.artifacts)
    /\ CapacityHolds(c)

RebuildQualifies ==
    LET c == Renewed IN SoundPlans(c) => Qualified(c, Sealed(Scope), registry)

=============================================================================
