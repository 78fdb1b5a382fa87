-------------------------- MODULE DependencyGraphs --------------------------
(***************************************************************************)
(* The four checks of a declared dependency graph: of the documents of a   *)
(* lifecycle (_dag_errors, litigation_lifecycle_validator.py), of the      *)
(* assets of the Design C registry (design_c_validator.py), of the jobs of *)
(* a campaign (validate_manifest_contract.py) and of the stages of a       *)
(* domain pack (domain_pack_design_validator.py).  Each is written out     *)
(* where it is used and treats unknown and own ids in its own way.         *)
(***************************************************************************)
EXTENDS Integers, Sequences, FiniteSets

LOCAL INSTANCE Relation

CONSTANTS
    NodeCount,   \* bound: how many ids there are; 1 is the expected root, and
                 \* the numbers are the order of the ids and of the stages
    Depth        \* bound: how many dependencies an id lists

VARIABLES
    graph,       \* graph[n]: the dependencies n lists, 0 for an unknown id
    verdict      \* the findings of the four checks, once there are

graphVars == <<graph, verdict>>

Node == 1..NodeCount

Unknown == 0

Unchecked == [catalog |-> {}, registry |-> FALSE, campaign |-> FALSE, pack |-> {"unchecked"}]

Listed(g, n) == {g[n][k] : k \in DOMAIN g[n]}

-----------------------------------------------------------------------------
(* _dag_errors. *)

(* Fault: a dependency nobody knows is counted as well. *)
CountEvery(g) ==
    [n \in Node |-> Cardinality({k \in DOMAIN g[n] : g[n][k] # n})]

(* A dependency that is unknown or n itself is reported, and not counted. *)
Indegree(g) ==
    [n \in Node |-> Cardinality({k \in DOMAIN g[n] : g[n][k] \in Node \ {n}})]

(* How often n is listed by t, which is how often n counts t down. *)
Lists(g, t, n) == Cardinality({k \in DOMAIN g[t] : g[t][k] = n})

Sorted(S) == CHOOSE s \in [1..Cardinality(S) -> S] :
                 \A i, j \in DOMAIN s : i < j => s[i] < s[j]

(* The queue of the ids without open dependencies: what it visits.         *)
RECURSIVE Visited(_, _, _)
Visited(g, queue, open) ==
    IF queue = << >> THEN {}
    ELSE LET n == Head(queue)
             targets == {t \in Node \ {n} : Lists(g, t, n) > 0}
             left == [t \in Node |-> IF t \in targets THEN open[t] - Lists(g, t, n)
                                                      ELSE open[t]]
             free == {t \in targets : left[t] = 0}
         IN  {n} \cup Visited(g, Tail(queue) \o Sorted(free), left)

(* Where the search along the dependents sets out: at every id that lists  *)
(* nothing at all.                                                         *)
Roots(g) == {n \in Node : g[n] = << >>}

RECURSIVE Reached(_, _)
Reached(g, S) ==
    LET more == S \cup {t \in Node : Listed(g, t) \cap (S \ {t}) # {}}
    IN  IF more = S THEN S ELSE Reached(g, more)

DagErrors(g) ==
    {e \in {"unknown", "self", "cycle", "root", "unreachable"} :
        \/ e = "unknown" /\ \E n \in Node : Unknown \in Listed(g, n)
        \/ e = "self" /\ \E n \in Node : n \in Listed(g, n)
        \/ e = "cycle" /\ Visited(g, Sorted({n \in Node : Indegree(g)[n] = 0}), Indegree(g)) # Node
        \/ e = "root" /\ Roots(g) # {1}
        \/ e = "unreachable" /\ Reached(g, Roots(g)) # Node}

-----------------------------------------------------------------------------
(* The two depth-first searches.  s is what their closures share: the ids  *)
(* being visited, those visited, and whether a cycle was met.  The search  *)
(* of the registry returns at the first cycle, that of the campaign goes   *)
(* on; an unknown id leads nowhere.                                        *)
RECURSIVE Visit(_, _, _, _), VisitEach(_, _, _, _)
Visit(g, n, s, returns) ==
    IF n \in s.visiting THEN [s EXCEPT !.cycle = TRUE]
    ELSE IF n \in s.visited \/ n = Unknown THEN s
    ELSE LET t == VisitEach(g, g[n], [s EXCEPT !.visiting = @ \cup {n}], returns)
         IN  [t EXCEPT !.visiting = @ \ {n}, !.visited = @ \cup {n}]

VisitEach(g, ns, s, returns) ==
    IF ns = << >> \/ (returns /\ s.cycle) THEN s
    ELSE VisitEach(g, Tail(ns), Visit(g, Head(ns), s, returns), returns)

MeetsCycle(g, returns) ==
    VisitEach(g, [n \in Node |-> n], [visiting |-> {}, visited |-> {}, cycle |-> FALSE],
              returns).cycle

(* DPD-019 and DPD-020 compare the stages with LIFECYCLE_ORDER. *)
PackErrors(g) ==
    {e \in {"unknown", "reversed"} :
        \/ e = "unknown" /\ \E n \in Node : Unknown \in Listed(g, n)
        \/ e = "reversed" /\ \E n \in Node : \E d \in Listed(g, n) \cap Node : d >= n}

-----------------------------------------------------------------------------
Graph == [Node -> UNION {[1..k -> Node \cup {Unknown}] : k \in 0..Depth}]

GraphInit == graph \in Graph /\ verdict = Unchecked

Check ==
    /\ verdict = Unchecked
    /\ verdict' = [catalog |-> DagErrors(graph), registry |-> MeetsCycle(graph, TRUE),
                   campaign |-> MeetsCycle(graph, FALSE), pack |-> PackErrors(graph)]
    /\ UNCHANGED graph

-----------------------------------------------------------------------------
(* DependsOn[n, d]: n depends on d, perhaps on itself, over any number of  *)
(* known ids, leaving out the edges in `but`.                              *)
DependsOn(but) ==
    TransitiveClosure([e \in Node \X Node |->
        e[2] \in Listed(graph, e[1]) /\ e \notin but], Node)

Loops == {<<n, n>> : n \in Node}

Cyclic(but) == \E n \in Node : DependsOn(but)[n, n]

(* The four checks agree about which graphs have a cycle, up to what each  *)
(* makes of an id that depends on itself, and in whatever order the ids    *)
(* come: the searches that remember what they have visited miss none, the  *)
(* queue that counts down is not misled by ids it does not know, and a     *)
(* document catalog or a pack without findings can be worked off, the      *)
(* catalog from the referral packet, on which every document depends.      *)
VerdictsAreRight ==
    verdict # Unchecked =>
        /\ verdict.registry = Cyclic({})
        /\ verdict.campaign = Cyclic({})
        /\ "cycle" \in verdict.catalog <=> Cyclic(Loops)
        /\ verdict.catalog = {} =>
              ~Cyclic({}) /\ \A n \in Node \ {1} : DependsOn({})[n, 1]
        /\ verdict.pack = {} => ~Cyclic({})

=============================================================================
