---------------------------- MODULE PersonaChannel ----------------------------
(***************************************************************************)
(* persona_channel_renderer.py, with the dispositions and contracts it     *)
(* renders by: the projection of an artifact becomes a text of segments    *)
(* that trace its assertions, and a bundle that commits to all of it.      *)
(* A rendering is bound to a qualified case, and checked by rendering it   *)
(* again.                                                                  *)
(***************************************************************************)
EXTENDS CaseCompiler

CONSTANTS
    Sections,           \* the required sections of each family, in order
    AssertionSection    \* the one that carries the assertions

ASSUME SectionsAssumption ==
    /\ Required \subseteq DOMAIN Sections
    /\ \A f \in DOMAIN Sections :
        /\ Sections[f] \in Seq(ToSet(Sections[f]))
        /\ AllDifferent(Sections[f], LAMBDA s : s)
        /\ AssertionSection[f] \in ToSet(Sections[f])

(* build_channel_composition_contracts, of one capability *)
Contract(reg, family) ==
    [capability |-> Capability(reg, family), sections |-> Sections[family],
     assertionSection |-> AssertionSection[family]]

(* derive_writing_disposition: the persona's state and the presentation of *)
(* its case, never its knowledge of the sealed one.                        *)
Disposition(projection, presentation) ==
    [state |-> projection.view.state, presentation |-> presentation]

CanCompose(projection, contract, disposition) ==
    /\ projection.plan.capability = contract.capability
    /\ projection.view.state = disposition.state

(* build_composition_plan; the order of the assertions is the persona's habit. *)
Composition(projection, contract, disposition) ==
    [projection |-> projection, contract |-> contract, disposition |-> disposition,
     order |-> SetToSeq(projection.plan.assertions)]

Segment(section, function, assertions) ==
    [section |-> section, function |-> function, assertions |-> assertions]

(* compose_text_candidate: every section has a heading; the first has the  *)
(* opening and the required fields, the assertion section one segment for  *)
(* each assertion, and the others a fixed text.                            *)
SegmentsOf(composition, k) ==
    LET contract == composition.contract
        section == contract.sections[k]
        heading == <<Segment(section, "metadata_label", {})>>
        fixed == <<Segment(section, "nonassertive", {})>>
        traced == [i \in DOMAIN composition.order |->
                      Segment(section, "assertion", {composition.order[i]})]
        carries == section = contract.assertionSection /\ composition.order # <<>>
    IN heading
       \o (IF k = 1 THEN fixed \o heading ELSE <<>>)
       \o (IF carries THEN traced ELSE IF k = 1 THEN <<>> ELSE fixed)

Compose(composition) ==
    [composition |-> composition,
     segments |-> [k \in DOMAIN composition.contract.sections |-> SegmentsOf(composition, k)]]

(* The places of segments are numbered by section. *)
Places(candidate) ==
    UNION {{k} \X DOMAIN candidate.segments[k] : k \in DOMAIN candidate.segments}

At(candidate, place) == candidate.segments[place[1]][place[2]]

Traced(candidate) ==
    {p \in Places(candidate) : At(candidate, p).function = "assertion"}

Trace(candidate) == UNION {At(candidate, p).assertions : p \in Traced(candidate)}

(* validate_text_composition_candidate *)
ValidCandidate(projection, contract, disposition, candidate) ==
    LET cited(p) == At(candidate, p).assertions IN
    /\ CanCompose(projection, contract, disposition)
    /\ candidate = Compose(Composition(projection, contract, disposition))
    /\ \A p \in Places(candidate) :
        IF p \in Traced(candidate) THEN Cardinality(cited(p)) = 1 ELSE cited(p) = {}
    /\ \A p, q \in Traced(candidate) : p # q => cited(p) # cited(q)
    /\ Trace(candidate) = projection.plan.assertions
    /\ ToSet(contract.sections) \subseteq {At(candidate, p).section : p \in Places(candidate)}

ChannelArtifact(projection) == Staged(projection, "channel", projection.plan.assertions)

(* render_unqualified_persona_channel_g2_fixture: what it makes, and when  *)
(* nothing in it raises.                                                   *)
LocalBundle(reg, projection, presentation) ==
    LET contract == Contract(reg, projection.plan.capability.family)
        disposition == Disposition(projection, presentation)
        candidate == Compose(Composition(projection, contract, disposition))
        artifact == ChannelArtifact(projection) IN
    [candidate |-> candidate, artifact |-> artifact, receipt |-> ShapeReceipt(artifact)]

CanRender(reg, projection, presentation) ==
    LET contract == Contract(reg, projection.plan.capability.family)
        disposition == Disposition(projection, presentation)
        bundle == LocalBundle(reg, projection, presentation) IN
    /\ projection.plan.capability.family \in DOMAIN Sections
    /\ ValidCandidate(projection, contract, disposition, bundle.candidate)
    /\ CanStage(projection, "channel", projection.plan.assertions)

-----------------------------------------------------------------------------
(* After qualification. *)

(* _render_after_case_qualification *)
Bundle(c, sealed, reg, receipt, k) ==
    [receipt |-> receipt, index |-> k, projection |-> c.projections[k],
     local |-> LocalBundle(reg, c.projections[k], sealed.scope)]

Batch(c, sealed, reg, receipt) ==
    [k \in DOMAIN c.projections |-> Bundle(c, sealed, reg, receipt, k)]

(* render_persona_channel_batch raises otherwise *)
CanRenderBatch(c, sealed, reg, receipt) ==
    /\ ReceiptValid(receipt, c, sealed, reg)
    /\ \A k \in DOMAIN c.projections : CanRender(reg, c.projections[k], sealed.scope)

(* Fault: the receipt is held against the case that it carries itself. *)
BatchValidForItself(c, sealed, reg, receipt, bundles) ==
    /\ CanRenderBatch(receipt.compilation, sealed, reg, receipt)
    /\ bundles = Batch(receipt.compilation, sealed, reg, receipt)

(* validate_persona_channel_batch: rendered again, from the case of now. *)
BatchValid(c, sealed, reg, receipt, bundles) ==
    /\ CanRenderBatch(c, sealed, reg, receipt)
    /\ bundles = Batch(c, sealed, reg, receipt)

=============================================================================
