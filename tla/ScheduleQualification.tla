----------------------- MODULE ScheduleQualification -----------------------
(***************************************************************************)
(* qualify_simpy_schedule_adapter and validate_scheduler_trace             *)
(* (simulation_schedule_validator.py): both planners plan the manifest,    *)
(* the adapter plans it a second time, every trace is checked without the  *)
(* planners' help, and the adapter gets its receipt if its traces are      *)
(* those of the reference scheduler.  The adapter is a parameter of the    *)
(* qualification: the one that hands in a trace here may have changed one  *)
(* thing about the plan of the simulation.                                 *)
(***************************************************************************)
EXTENDS SimPySchedule

VARIABLES
    answers,    \* the traces of the adapter's two calls, once it has made them
    receipt     \* "none", "issued" or "refused"

qualificationVars == <<answers, receipt>>

vars == <<referenceVars, simVars, qualificationVars>>

(* A row of a trace: the QueueDecision of proposal `of`. *)
Row(d, rank) ==
    [of |-> d.ordinal, rank |-> rank, resource |-> manifest[d.ordinal].resource,
     start |-> d.start, finish |-> d.finish]

ReferenceTrace == [k \in Ordinal |-> Row(decisions[k], k)]

SimulatedTrace == [k \in Ordinal |-> Row(recorded[order[k]], k)]

Rows(t) == {t[k] : k \in 1..Len(t)}

-----------------------------------------------------------------------------
(* The trace checker. *)

(* STR-007: row k decides a proposal that no row before it decides. *)
Binds(t, k) ==
    t[k].of \in Ordinal /\ \A j \in 1..(k - 1) : t[j].of # t[k].of

(* STR-008, STR-009 and STR-010. *)
Timely(row, k) ==
    LET p == manifest[row.of] IN
    /\ row.rank = k
    /\ row.resource = p.resource
    /\ row.start >= p.ready /\ row.finish - row.start = p.service
    /\ row.start - p.ready <= MaxWait
    /\ row.finish <= MaxFinish

(* The rows of t that are counted for resource r. *)
Intervals(t, r) == {k \in 1..Len(t) : Binds(t, k) /\ t[k].resource = r}

At(t, r, tick) == {k \in Intervals(t, r) : t[k].start <= tick /\ tick < t[k].finish}

Overloaded(t, r, tick) == r \notin Resource \/ Cardinality(At(t, r, tick)) > Capacity[r]

(* Fault: only the ends of the intervals are looked at. *)
OverloadsAtAnEnd(t) ==
    \E k \in 1..Len(t) : Binds(t, k) /\ Overloaded(t, t[k].resource, t[k].finish)

(* STR-011 looks at the starts and the ends of the intervals only. *)
Overloads(t) ==
    \E k \in 1..Len(t) : \E tick \in {t[k].start, t[k].finish} :
        Binds(t, k) /\ Overloaded(t, t[k].resource, tick)

(* validate_scheduler_trace returns no errors. *)
Passes(t) ==
    /\ Len(t) = Count
    /\ \A k \in 1..Len(t) : Binds(t, k) /\ Timely(t[k], k)
    /\ ~Overloads(t)

-----------------------------------------------------------------------------
(* What an adapter may have changed about trace t: a row moved to another  *)
(* time or resource, stretched, of another proposal, in another's place    *)
(* under its number, or lost.                                              *)
Moved(t) ==
    UNION {{[t EXCEPT ![k].start = @ + by, ![k].finish = @ + by] : by \in {-1, 1}} :
               k \in Ordinal}

Stretched(t) == {[t EXCEPT ![k].finish = @ + 1] : k \in Ordinal}

Reassigned(t) == {[t EXCEPT ![k].resource = r] : k \in Ordinal, r \in Resource}

Misnamed(t) == {[t EXCEPT ![k].of = i] : k \in Ordinal, i \in Ordinal \cup {Count + 1}}

Swapped(t) ==
    {[t EXCEPT ![k] = [t[j] EXCEPT !.rank = k], ![j] = [t[k] EXCEPT !.rank = j]] :
        k \in Ordinal, j \in Ordinal}

Altered(t) ==
    Moved(t) \cup Stretched(t) \cup Reassigned(t) \cup Misnamed(t) \cup Swapped(t)
        \cup {SubSeq(t, 1, Count - 1)}

(* The two answers: only the second is altered, or both are in one way. *)
Answers(t) == {<<t, t>>} \cup UNION {{<<u, u>>, <<t, u>>} : u \in Altered(t)}

Init == SimInit /\ answers = << >> /\ receipt = "none"

(* Either planner raised: so does the qualification. *)
PlanRaises ==
    /\ receipt = "none"
    /\ plan = "raised" \/ runtime \in {"raised", "key_error"}
    /\ runtime # "running"
    /\ receipt' = "refused"
    /\ UNCHANGED <<referenceVars, simVars, answers>>

Qualifies(pair) ==
    /\ \A t \in {ReferenceTrace} \cup Rows(pair) : Passes(t)
    /\ pair[1] = ReferenceTrace
    /\ pair[2] = pair[1]

Qualify ==
    /\ plan = "planned" /\ runtime = "planned" /\ receipt = "none"
    /\ answers' \in Answers(SimulatedTrace)
    /\ receipt' = IF Qualifies(answers') THEN "issued" ELSE "refused"
    /\ UNCHANGED <<referenceVars, simVars>>

Next ==
    \/ PlanBoth /\ UNCHANGED qualificationVars
    \/ PlanRaises \/ Qualify

Spec == Init /\ [][Next]_vars

-----------------------------------------------------------------------------
(* What qualify_simpy_schedule_adapter relies on when it compares the two  *)
(* planners ("schedule_reference_equivalence_failed"): the simulation      *)
(* raises on the manifests on which the reference scheduler raises; on     *)
(* every other, the adapter that hands in what it simulated gets its       *)
(* receipt, so that the checker has nothing against what they plan.        *)
Equivalent ==
    /\ runtime # "running" => runtime = plan
    /\ answers # << >> /\ answers = <<SimulatedTrace, SimulatedTrace>> =>
          receipt # "refused"

(* A trace with which validate_scheduler_trace finds nothing wrong can be  *)
(* worked: every proposal has one row, none starts before it is ready, and *)
(* at no tick, one between two events included, does a resource work on    *)
(* more proposals than its capacity, although the checker looks at the     *)
(* ticks of starts and ends only.                                          *)
PassMeansFeasible ==
    \A t \in Rows(answers) : Passes(t) =>
        /\ \A i \in Ordinal : \E row \in Rows(t) :
              row.of = i /\ row.start >= manifest[i].ready
        /\ Cardinality(Rows(t)) = Count
        /\ \A r \in Resource : \A tick \in 0..MaxFinish :
              Cardinality({row \in Rows(t) : manifest[row.of].resource = r
                               /\ row.start <= tick /\ tick < row.finish})
                  <= Capacity[r]

=============================================================================
