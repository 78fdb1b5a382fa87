--------------------------- MODULE SimPySchedule ---------------------------
(***************************************************************************)
(* SimPyScheduleAdapter.plan (simpy_schedule_adapter.py), run after the    *)
(* reference scheduler on the same manifest as                             *)
(* qualify_simpy_schedule_adapter does: one simulation process for each    *)
(* proposal, over the event queue and the Resource of the SimPy library.   *)
(* The library orders events by time, then urgency, then age; a Resource   *)
(* serves its requests in their order; a release takes effect on its       *)
(* users at once and on its queue when the release's own event occurs.     *)
(***************************************************************************)
EXTENDS ReferenceScheduler

VARIABLES
    now,        \* environment.now
    agenda,     \* the environment's events: [at, rank, age, kind, of]
    made,       \* how many events there have been
    waiting,    \* waiting[r]: the ordinals whose request of r is in its queue
    users,      \* users[r]: the ordinals r works on
    started,    \* started[i]: the local variable `start` of i's process
    recorded,   \* recorded[i]: the decision of i, once there is one
    runtime     \* how plan() is going: "running", "planned", "raised", "key_error"

simVars == <<now, agenda, made, waiting, users, started, recorded, runtime>>

Urgent == 0
Normal == 1

(* Processes are created in the normalised order before the simulation     *)
(* runs; each begins with an urgent event at time 0.                       *)
SimInit ==
    /\ ReferenceInit
    /\ now = 0
    /\ agenda = {[at |-> 0, rank |-> Urgent, age |-> k, kind |-> "initialize",
                  of |-> order[k]] : k \in 1..Len(order)}
    /\ made = Len(order)
    /\ waiting = [r \in Resource |-> << >>]
    /\ users = [r \in Resource |-> {}]
    /\ started = [i \in Ordinal |-> 0]
    /\ recorded = << >>
    /\ runtime = IF Valid(manifest) THEN "running" ELSE "raised"

Sooner(e, f) ==
    \/ e.at < f.at
    \/ e.at = f.at /\ e.rank < f.rank
    \/ e.at = f.at /\ e.rank = f.rank /\ e.age < f.age

(* Event e is the next one the environment processes. *)
Occurs(e, kind) ==
    /\ plan # "planning" /\ runtime = "running"
    /\ e.kind = kind
    /\ \A f \in agenda \ {e} : Sooner(e, f)
    /\ now' = e.at

(* The agenda once e has occurred: the events of these kinds, made in this *)
(* order, are new, each `delay` ticks ahead.                               *)
After(e, kinds, owner, delay) ==
    /\ agenda' = (agenda \ {e}) \cup
          {[at |-> e.at + delay, rank |-> Normal, age |-> made + k,
            kind |-> kinds[k], of |-> owner] : k \in 1..Len(kinds)}
    /\ made' = made + Len(kinds)

(* Resource._trigger_put: the first request of queue q is granted if the   *)
(* resource, now used by u, has room.                                      *)
Serve(e, r, q, u) ==
    \/ /\ q # << >> /\ Cardinality(u) < Capacity[r]
       /\ waiting' = [waiting EXCEPT ![r] = Tail(q)]
       /\ users' = [users EXCEPT ![r] = u \cup {Head(q)}]
       /\ After(e, <<"granted">>, Head(q), 0)
    \/ /\ q = << >> \/ Cardinality(u) >= Capacity[r]
       /\ waiting' = [waiting EXCEPT ![r] = q]
       /\ users' = [users EXCEPT ![r] = u]
       /\ After(e, << >>, e.of, 0)

(* Leaving `with resource.request()`: its release is an event of its own,  *)
(* and so is the failure of the process when an exception made it leave.   *)
Leave(e, kinds) ==
    /\ users' = [users EXCEPT ![manifest[e.of].resource] = @ \ {e.of}]
    /\ After(e, kinds, e.of, 0)

-----------------------------------------------------------------------------
(* The steps of execute(), each up to its next yield. *)

AwaitReady(e) ==
    /\ Occurs(e, "initialize") /\ manifest[e.of].ready > 0
    /\ After(e, <<"ready">>, e.of, manifest[e.of].ready)
    /\ UNCHANGED <<referenceVars, waiting, users, started, recorded, runtime>>

Request(e) ==
    LET r == manifest[e.of].resource IN
    /\ \/ Occurs(e, "initialize") /\ manifest[e.of].ready = 0
       \/ Occurs(e, "ready")
    /\ Serve(e, r, Append(waiting[r], e.of), users[r])
    /\ UNCHANGED <<referenceVars, started, recorded, runtime>>

Start(e) ==
    /\ Occurs(e, "granted")
    /\ e.at - manifest[e.of].ready <= MaxWait
    /\ started' = [started EXCEPT ![e.of] = e.at]
    /\ After(e, <<"served">>, e.of, manifest[e.of].service)
    /\ UNCHANGED <<referenceVars, waiting, users, recorded, runtime>>

(* Fault: a wait as long as the ceiling is too long. *)
StarveAtCeiling(e) ==
    /\ Occurs(e, "granted")
    /\ e.at - manifest[e.of].ready >= MaxWait
    /\ Leave(e, <<"released", "failed">>)
    /\ UNCHANGED <<referenceVars, waiting, started, recorded, runtime>>

Starve(e) ==
    /\ Occurs(e, "granted")
    /\ e.at - manifest[e.of].ready > MaxWait
    /\ Leave(e, <<"released", "failed">>)
    /\ UNCHANGED <<referenceVars, waiting, started, recorded, runtime>>

Finish(e) ==
    /\ Occurs(e, "served")
    /\ e.at <= MaxFinish
    /\ recorded' = [i \in DOMAIN recorded \cup {e.of} |->
           IF i = e.of THEN [ordinal |-> i, start |-> started[i], finish |-> e.at]
                       ELSE recorded[i]]
    /\ Leave(e, <<"released">>)
    /\ UNCHANGED <<referenceVars, waiting, started, runtime>>

FinishLate(e) ==
    /\ Occurs(e, "served")
    /\ e.at > MaxFinish
    /\ Leave(e, <<"released", "failed">>)
    /\ UNCHANGED <<referenceVars, waiting, started, recorded, runtime>>

-----------------------------------------------------------------------------
(* The environment. *)

ServeNext(e) ==
    LET r == manifest[e.of].resource IN
    /\ Occurs(e, "released")
    /\ Serve(e, r, waiting[r], users[r])
    /\ UNCHANGED <<referenceVars, started, recorded, runtime>>

(* environment.run() raises what the process raised. *)
RunRaises(e) ==
    /\ Occurs(e, "failed")
    /\ runtime' = "raised"
    /\ After(e, << >>, e.of, 0)
    /\ UNCHANGED <<referenceVars, waiting, users, started, recorded>>

(* Nothing is left to simulate; the decisions are looked up in the         *)
(* normalised order.                                                       *)
RunReturns ==
    /\ plan # "planning" /\ runtime = "running" /\ agenda = {}
    /\ runtime' = IF DOMAIN recorded = Ordinal THEN "planned" ELSE "key_error"
    /\ UNCHANGED <<referenceVars, now, agenda, made, waiting, users, started, recorded>>

Simulate ==
    \/ \E e \in agenda :
          \/ AwaitReady(e) \/ Request(e) \/ Start(e) \/ Starve(e)
          \/ Finish(e) \/ FinishLate(e) \/ ServeNext(e) \/ RunRaises(e)
    \/ RunReturns

PlanBoth == (ReferenceNext /\ UNCHANGED simVars) \/ Simulate

=============================================================================
