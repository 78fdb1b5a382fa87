-------------------------- MODULE ScheduleManifest --------------------------
(***************************************************************************)
(* The manifest of work proposals that a cassette of attempts becomes      *)
(* (build_g2_schedule_manifest, simulation_schedule_core.py), what         *)
(* validate_schedule_manifest asks of any manifest, and the order in which *)
(* both planners take its proposals.  Commitments and ids are left out:    *)
(* proposal i of a manifest is the one with submission_ordinal i.          *)
(***************************************************************************)
EXTENDS Integers, Sequences, FiniteSets

CONSTANTS
    Resource,      \* the resource classes of the manifest
    Capacity,      \* Capacity[r]: how many proposals r works on at a time
    Proposal,      \* proposals of a manifest put together by hand
    Attempt,       \* attempts of a cassette: [command, verb, role, expected, matter]
    RoleResource,  \* ROLE_RESOURCE
    VerbClass,     \* VERB_SCHEDULING_CLASS
    ServiceTicks,  \* SERVICE_TICKS
    Count,         \* bound: the number of proposals of a manifest (the code's is 1000)
    MaxWait,       \* max_wait_ticks
    MaxFinish      \* max_finish_tick

Ordinal == 1..Count

(* SCH-008 and SCH-022: a manifest that breaks them is never built.        *)
ASSUME ManifestAssumption ==
    /\ Capacity \in [Resource -> 1..16]
    /\ Proposal \subseteq [ready : Int, service : Int, resource : STRING, priority : Int,
                           matter : STRING]
    /\ Count \in 1..1000 /\ MaxWait \in Nat \ {0} /\ MaxFinish \in Nat \ {0}

-----------------------------------------------------------------------------
(* From a cassette. *)

SchedulingClass(a) ==
    IF a.expected = "denied" THEN "boundary_probe_work" ELSE VerbClass[a.verb]

(* Two attempts become ready in a tick, a boundary probe goes first. *)
ManifestOf(cassette) ==
    [i \in Ordinal |->
        LET a == cassette[i] IN
        [ready    |-> (i - 1) \div 2,
         service  |-> ServiceTicks[SchedulingClass(a)],
         resource |-> RoleResource[a.role],
         priority |-> IF a.expected = "denied" THEN 0 ELSE 10,
         matter   |-> "own"]]

(* Every attempt can be mapped, all are of one matter, and no command      *)
(* occurs twice (SCH-012, which the builder's own validation reports).     *)
Mappable(cassette) ==
    /\ \A i \in Ordinal :
          /\ cassette[i].expected \in {"accepted", "denied"}
          /\ cassette[i].expected = "accepted" => cassette[i].verb \in DOMAIN VerbClass
          /\ cassette[i].role \in DOMAIN RoleResource
    /\ \A i, j \in Ordinal :
          /\ cassette[i].matter = cassette[j].matter
          /\ i # j => cassette[i].command # cassette[j].command

-----------------------------------------------------------------------------
(* SCH-014 to SCH-019 of a proposal; the other checks are of the ids, the  *)
(* flags and the wording, which a manifest here has no room to get wrong.  *)
Sound(p) ==
    /\ p.matter = "own"
    /\ p.resource \in Resource
    /\ p.ready >= 0 /\ p.service \in 1..MaxFinish
    /\ p.priority \in 0..100

Valid(m) == \A i \in Ordinal : Sound(m[i])

(* The sort key of _normalized_proposals; ordinals are unique (SCH-011),   *)
(* so the keys after them never decide.                                    *)
Before(m, i, j) ==
    \/ m[i].ready < m[j].ready
    \/ m[i].ready = m[j].ready /\ m[i].priority < m[j].priority
    \/ m[i].ready = m[j].ready /\ m[i].priority = m[j].priority /\ i < j

(* Fault: the proposals stay in the order in which they were submitted. *)
AsSubmitted(m) == [k \in Ordinal |-> k]

Normalized(m) ==
    [k \in Ordinal |->
        CHOOSE i \in Ordinal : Cardinality({j \in Ordinal : Before(m, j, i)}) = k - 1]

=============================================================================
