----------------------------- MODULE CorpusAudit -----------------------------
(***************************************************************************)
(* corpus_auditor.py: rows about what was rendered from a qualified case,  *)
(* and the errors of the audit that are about identity and continuity.     *)
(* What was rendered is kept while the case goes on changing.              *)
(***************************************************************************)
EXTENDS PersonaChannel

VARIABLE batch      \* Nothing, or what was rendered last and its receipt

auditVars == <<case, registry, touched, batch>>

(* _build_corpus_audit_artifact_after_qualification: the content is that   *)
(* of the rendering, the parent is the one the lineage of the plan names.  *)
Row(c, bundle) ==
    LET projection == c.projections[bundle.index]
        lineage == projection.plan.lineage IN
    [bundle |-> bundle, projection |-> projection,
     logical |-> lineage.logical, revision |-> lineage.revision,
     version |-> VersionId(lineage), parent |-> lineage.parent,
     content |-> bundle.local.artifact.content,
     trace |-> Trace(bundle.local.candidate)]

Rows(c, bundles) == {Row(c, bundles[k]) : k \in DOMAIN bundles}

(* audit_persona_channel_corpus: no version twice, and revisions that run  *)
(* from one, each binding the version and the content before it.           *)
Continuous(rows) ==
    \A r \in rows :
        LET versions == {q \in rows : q.logical = r.logical} IN
        {q.revision : q \in versions} = 1..Cardinality(versions)

Binds(rows) ==
    \A r, q \in rows :
        q.logical = r.logical /\ q.revision = r.revision + 1 =>
            /\ q.parent # Nothing
            /\ q.parent.version = r.version
            /\ q.parent.content = r.content

AuditPasses(rows) == Continuous(rows) /\ Binds(rows)

-----------------------------------------------------------------------------
AuditInit == Init /\ batch = Nothing

Render ==
    /\ CanRenderBatch(case, Sealed(Scope), registry, Receipt(case))
    /\ batch' = [receipt |-> Receipt(case),
                 bundles |-> Batch(case, Sealed(Scope), registry, Receipt(case))]
    /\ UNCHANGED caseVars

(* build_corpus_audit_artifacts accepts what was rendered. *)
Accepted ==
    /\ batch # Nothing
    /\ BatchValid(case, Sealed(Scope), registry, batch.receipt, batch.bundles)

AuditNext == (Next /\ UNCHANGED batch) \/ Render

AuditSpec == AuditInit /\ [][AuditNext]_auditVars

-----------------------------------------------------------------------------
(* A qualified case is grounded and goes all the way: the scan for         *)
(* conflicts does not raise and finds only declared ones, and every        *)
(* artifact can be rendered for its channel.                               *)
QualifiedHoldsUp ==
    Qualified(case, Sealed(Scope), registry) =>
        /\ Grounded
        /\ \A i, j \in DOMAIN case.artifacts :
            case.artifacts[i].projection.plan.scope = case.artifacts[j].projection.plan.scope
        /\ Conflicts(case.artifacts) \subseteq SealedConflicts(Sealed(Scope))
        /\ CanRenderBatch(case, Sealed(Scope), registry, Receipt(case))

(* Rows are only made of what the case says now: each is about a plan of   *)
(* the case, all plans have one, and what it traces is true in the sealed  *)
(* case; a batch rendered before a change is refused.                      *)
AuditedIsCurrent ==
    Accepted =>
        LET rows == Rows(case, batch.bundles) IN
        /\ {r.projection.plan : r \in rows} = ToSet(case.plans)
        /\ \A r \in rows :
            /\ \A a \in r.trace : \E c \in Facts :
                a.scope = Scope /\ a.fact = c.fact /\ a.value = c.value
            /\ r.trace = r.projection.plan.assertions
            /\ r.bundle.projection = r.projection
            /\ r.projection.plan.capability =
                Capability(registry, r.projection.plan.capability.family)

(* docs/g2_build_status.md:86: "Corpus lineage checks cover revision       *)
(* continuity, parent-version identity, and the parent content commitment."*)
(* A case whose lineage was validated when it was qualified would pass     *)
(* these checks when it is audited.                                        *)
AuditAgreesOnLineage ==
    Accepted => AuditPasses(Rows(case, batch.bundles))

=============================================================================
