------------------------ MODULE ReferenceScheduler ------------------------
(***************************************************************************)
(* plan_with_reference_scheduler (simulation_schedule_core.py): the work   *)
(* proposals of a manifest, in their normalised order, each put on the     *)
(* slot of its resource that is free first.                                *)
(***************************************************************************)
EXTENDS ScheduleManifest

VARIABLES
    source,     \* where the manifest is from: "cassette" or "hand"
    manifest,   \* manifest[i]: the proposal with submission_ordinal i
    order,      \* the ordinals, as _normalized_proposals sorts them
    slots,      \* slots[r][s]: when slot s of r is free
    decisions,  \* the QueueDecisions made so far: [ordinal, start, finish]
    plan        \* how the call is going: "planning", "planned" or "raised"

given == <<source, manifest, order>>

referenceVars == <<given, slots, decisions, plan>>

ReferenceInit ==
    /\ \/ source = "hand" /\ manifest \in [Ordinal -> Proposal]
       \/ source = "cassette" /\ \E cassette \in [Ordinal -> Attempt] :
              Mappable(cassette) /\ manifest = ManifestOf(cassette)
    /\ order = IF Valid(manifest) THEN Normalized(manifest) ELSE << >>
    /\ slots = [r \in Resource |-> [s \in 1..Capacity[r] |-> 0]]
    /\ decisions = << >>
    /\ plan = IF Valid(manifest) THEN "planning" ELSE "raised"

Larger(a, b) == IF a > b THEN a ELSE b

(* Fault: the slot that is free last. *)
LastFree(r) ==
    CHOOSE s \in 1..Capacity[r] : \A t \in 1..Capacity[r] :
        slots[r][s] > slots[r][t] \/ (slots[r][s] = slots[r][t] /\ s <= t)

(* The slot of r that is free first, the lowest of several. *)
FirstFree(r) ==
    CHOOSE s \in 1..Capacity[r] : \A t \in 1..Capacity[r] :
        slots[r][s] < slots[r][t] \/ (slots[r][s] = slots[r][t] /\ s <= t)

Decision(i) ==
    LET p == manifest[i]
        start == Larger(p.ready, slots[p.resource][FirstFree(p.resource)])
    IN  [ordinal |-> i, start |-> start, finish |-> start + p.service]

(* The ceilings of the manifest. *)
InTime(d) ==
    /\ d.start - manifest[d.ordinal].ready <= MaxWait
    /\ d.finish <= MaxFinish

(* The proposal whose turn it is. *)
Turn == order[Len(decisions) + 1]

PlanNext ==
    /\ plan = "planning" /\ Len(decisions) < Count
    /\ LET d == Decision(Turn)
           r == manifest[Turn].resource
       IN  /\ InTime(d)
           /\ slots' = [slots EXCEPT ![r][FirstFree(r)] = d.finish]
           /\ decisions' = Append(decisions, d)
    /\ UNCHANGED <<given, plan>>

ExceedCeiling ==
    /\ plan = "planning" /\ Len(decisions) < Count
    /\ ~InTime(Decision(Turn))
    /\ plan' = "raised"
    /\ UNCHANGED <<given, slots, decisions>>

ReturnTrace ==
    /\ plan = "planning" /\ Len(decisions) = Count
    /\ plan' = "planned"
    /\ UNCHANGED <<given, slots, decisions>>

ReferenceNext == PlanNext \/ ExceedCeiling \/ ReturnTrace

-----------------------------------------------------------------------------
(* Properties of any decisions about the manifest. *)

ResourceOf(d) == manifest[d.ordinal].resource

(* The decisions of ds that occupy resource r at tick t. *)
Active(ds, r, t) == {d \in ds : ResourceOf(d) = r /\ d.start <= t /\ t < d.finish}

Made == {decisions[k] : k \in 1..Len(decisions)}

(* queue_policy "deterministic_fifo": a resource takes its proposals in    *)
(* the normalised order, whatever slots they are put on; so a command of a *)
(* cassette never starts before one of its resource that is two or more    *)
(* attempts ahead of it, whatever probes there are.                        *)
NoOvertaking ==
    \A d, e \in Made : ResourceOf(d) = ResourceOf(e) =>
        /\ Before(manifest, d.ordinal, e.ordinal) => d.start <= e.start
        /\ source = "cassette" /\ d.ordinal + 2 <= e.ordinal => d.start <= e.start

(* No proposal waits while its resource has room: whenever one waits, the  *)
(* resource works on as many others as it can.                             *)
NoIdleWait ==
    \A d \in Made : \A t \in manifest[d.ordinal].ready..(d.start - 1) :
        Cardinality(Active(Made, ResourceOf(d), t)) = Capacity[ResourceOf(d)]

=============================================================================
