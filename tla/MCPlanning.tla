----------------------------- MODULE MCPlanning -----------------------------
(***************************************************************************)
(* What the program plans before anything happens: the schedule of a       *)
(* cassette's work, the population that cases are designed for, and the    *)
(* dependency graphs of documents, assets, jobs and stages.  They share    *)
(* nothing, so a behaviour is about one of the three.  A schedule is of    *)
(* four proposals over a resource with two places and one with a single    *)
(* place, put together by hand or built from a cassette; the ceilings are  *)
(* low enough to be exceeded.                                              *)
(***************************************************************************)
EXTENDS ScheduleQualification, Population, DependencyGraphs

VARIABLE about      \* "schedule", "population" or "graph"

MCCapacity == [responsible_counsel |-> 2, billing_operations |-> 1]

Work(ready, service, resource, priority) ==
    [ready |-> ready, service |-> service, resource |-> resource,
     priority |-> priority, matter |-> "own"]

(* The last two break SCH-018 and SCH-014. *)
MCProposal ==
    {Work(t, s, "responsible_counsel", p) : t \in {0, 1}, s \in {1, 3}, p \in {0, 10}}
    \cup {Work(0, 2, "billing_operations", 10), Work(2, 1, "billing_operations", 10)}
    \cup {Work(0, 6, "billing_operations", 10),
          [Work(0, 1, "billing_operations", 10) EXCEPT !.matter = "other"]}

Try(command, verb, role, expected) ==
    [command |-> command, verb |-> verb, role |-> role, expected |-> expected,
     matter |-> "own"]

(* Of a lawyer: two gates, a probe of the oracle and one of the opening;   *)
(* of the billing role: two time entries.  The last three cannot be mapped *)
(* or are of another matter.                                               *)
MCAttempt ==
    {Try("gate", "record_lawyer_gate", "lawyer", "accepted"),
     Try("review", "review_evidence", "lawyer", "accepted"),
     Try("oracle", "read_oracle", "lawyer", "denied"),
     Try("open", "open_matter", "billing", "denied"),
     Try("time", "record_time", "billing", "accepted"),
     Try("pay", "apply_payment", "billing", "accepted"),
     Try("post", "post_entry", "billing", "accepted"),
     Try("claim", "record_time", "claimant", "accepted"),
     [Try("gate", "record_lawyer_gate", "lawyer", "accepted") EXCEPT !.matter = "other"]}

MCRoleResource == [lawyer |-> "responsible_counsel", billing |-> "billing_operations"]

MCVerbClass ==
    [record_lawyer_gate |-> "authority_review_work", review_evidence |-> "evidence_review_work",
     record_time |-> "timekeeping_work", apply_payment |-> "payment_processing_work",
     read_oracle |-> "boundary_probe_work"]

MCServiceTicks ==
    [authority_review_work |-> 1, evidence_review_work |-> 3, timekeeping_work |-> 1,
     payment_processing_work |-> 2, boundary_probe_work |-> 1]

(* What the behaviours that are not about them have instead. *)
NoSchedule ==
    /\ Init
    /\ source = "hand"
    /\ manifest = [i \in Ordinal |-> Work(0, 1, "responsible_counsel", 10)]

NoPopulation ==
    axis = "merits_posture" /\ population = Dealing[axis, "alpha", 1] /\ edits = 0

NoGraph == graph = [n \in Node |-> << >>] /\ verdict = Unchecked

MCInit ==
    \/ about = "schedule" /\ Init /\ NoPopulation /\ NoGraph
    \/ about = "population" /\ NoSchedule /\ PopulationInit /\ NoGraph
    \/ about = "graph" /\ NoSchedule /\ NoPopulation /\ GraphInit

MCNext ==
    /\ UNCHANGED about
    /\ \/ about = "schedule" /\ Next /\ UNCHANGED <<populationVars, graphVars>>
       \/ about = "population" /\ PopulationNext /\ UNCHANGED <<vars, graphVars>>
       \/ about = "graph" /\ Check /\ UNCHANGED <<vars, populationVars>>

MCSpec == MCInit /\ [][MCNext]_<<about, vars, populationVars, graphVars>>

=============================================================================
