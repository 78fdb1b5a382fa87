---------------------------- MODULE SpecialistMesh ----------------------------
(***************************************************************************)
(* specialist_mesh.py: who plans, writes, renders and checks an artifact.  *)
(* The manifest of an artifact binds its plan, projection and state to the *)
(* contracts of a capability registry; the mesh is valid when every        *)
(* manifest and every receipt is the one that would be built now.          *)
(***************************************************************************)
EXTENDS EvidenceContracts

CONSTANTS
    Required,           \* the evidence families of the case family
    WriterOf,           \* the specialist that writes each family
    Planner, Renderer, Checkers

ASSUME MeshAssumption ==
    /\ Required \subseteq DOMAIN WriterOf
    /\ IsFiniteSet(Checkers)
    /\ \A f \in DOMAIN WriterOf : WriterOf[f] \notin Checkers

(* A registry is the revision of its evidence capabilities and that of its *)
(* specialists.                                                            *)
Capability(registry, family) == [family |-> family, revision |-> registry.evidence]

DomainPack == Required

Assignment(registry, phase, who, independent) ==
    [phase |-> phase, who |-> who, contract |-> <<who, registry.specialists>>,
     independent |-> independent]

Assignments(registry, writer) ==
    {Assignment(registry, "planner", Planner, {}),
     Assignment(registry, "writer", writer, {}),
     Assignment(registry, "renderer", Renderer, {})}
    \cup {Assignment(registry, "checker", c, {writer, Renderer}) : c \in Checkers}

CanManifest(plan, projection, state) ==
    /\ plan.capability.family \in DomainPack
    /\ projection.plan = plan
    /\ state = plan.state
    /\ CanProject(plan, projection.view, state)
    /\ plan.capability.family \in DOMAIN WriterOf

(* The revision is that of the registry, whatever the plan was made with. *)
Manifest(registry, plan, projection) ==
    [pack |-> DomainPack, projection |-> projection,
     capability |-> Capability(registry, plan.capability.family),
     assignments |-> Assignments(registry, WriterOf[plan.capability.family])]

ManifestId(manifest) == <<manifest.projection, manifest.pack, manifest.assignments>>

CanIssue(manifest, staged, shape) ==
    /\ staged.projection = manifest.projection
    /\ shape.artifact.projection.plan = manifest.projection.plan

MeshReceipt(manifest, staged, shape) ==
    [manifest |-> manifest, artifact |-> staged, shape |-> shape]

(* Independence of one manifest: one of each phase, no writer among the checkers. *)
Separated(manifest) ==
    LET inPhase(phase) == {a \in manifest.assignments : a.phase = phase}
        people(phase) == {a.who : a \in inPhase(phase)} IN
    /\ \A phase \in {"planner", "writer", "renderer"} : Cardinality(inPhase(phase)) = 1
    /\ Cardinality(inPhase("checker")) = Cardinality(Checkers)
    /\ people("writer") \cap people("checker") = {}

MeshPlanHolds(registry, plan, case) ==
    LET ofPlan(p) == PlanId(p) = PlanId(plan)
        projection == Lookup(case.projections, LAMBDA r : ofPlan(r.plan))
        state == Lookup(case.states, LAMBDA s : StateId(s) = StateId(plan.state))
        staged == Lookup(case.artifacts, LAMBDA a : ofPlan(a.projection.plan))
        shape == Lookup(case.receipts, LAMBDA r : r.artifact.projection.plan = plan)
        manifest == Lookup(case.manifests, LAMBDA m : ofPlan(m.projection.plan))
        expected == Manifest(registry, plan, case.projections[projection])
        receipt == Lookup(case.meshes, LAMBDA r : ManifestId(r.manifest) = ManifestId(expected))
    IN
    /\ 0 \notin {projection, state, staged, shape, manifest}
    /\ CanManifest(plan, case.projections[projection], case.states[state])
    /\ case.manifests[manifest] = expected
    /\ Separated(expected)
    /\ receipt # 0
    /\ CanIssue(expected, case.artifacts[staged], case.receipts[shape])
    /\ case.meshes[receipt] = MeshReceipt(expected, case.artifacts[staged], case.receipts[shape])

SameLengths(case) ==
    \A items \in {case.projections, case.artifacts, case.receipts, case.manifests, case.meshes} :
        Len(items) = Len(case.plans)

(* validate_artifact_mesh *)
MeshHolds(registry, case) ==
    /\ SameLengths(case)
    /\ AllDifferent(case.manifests, LAMBDA m : PlanId(m.projection.plan))
    /\ AllDifferent(case.meshes, LAMBDA r : ManifestId(r.manifest))
    /\ \A plan \in ToSet(case.plans) : MeshPlanHolds(registry, plan, case)

=============================================================================
