------------------------------ MODULE RouterCalls ------------------------------
(***************************************************************************)
(* KernelOperationalRouter.route: the router is asked for one decision, on *)
(* any ledger and any registry of roles it may be given, also ones that    *)
(* this kernel does not produce.                                           *)
(***************************************************************************)
EXTENDS OperationalRouter

CONSTANTS
    Ledgers,        \* authority ledgers: their records are a tuple
    Registries,     \* registries of roles
    Works,          \* requests for work
    NotAsked

ASSUME RecordsAssumption ==
    \A l \in Ledgers : DOMAIN l.records = 1..Len(l.records) /\ Len(l.records) \in Nat

VARIABLES
    given,      \* the kernel's ledger, and the roles that the registry lists
    asked,      \* the request
    decision    \* what it answered

callVars == <<given, asked, decision>>

CallsInit ==
    /\ given \in [ledger : Ledgers, roles : Registries]
    /\ asked = NotAsked
    /\ decision = NotAsked

(* The registry is built first, and the build raises when it is not valid. *)
CallRouter(w) ==
    /\ decision = NotAsked
    /\ asked' = w
    /\ decision' = IF ValidRegistry(given.roles) THEN Decision(w, given.ledger, given.roles)
                   ELSE [status |-> "raised"]
    /\ UNCHANGED given

CallsNext == \E w \in Works : CallRouter(w)

CallsSpec == CallsInit /\ [][CallsNext]_callVars

-----------------------------------------------------------------------------
(* What _route_with_authority_ledger routes has been earned, for every     *)
(* ledger and for every registry that _validate_registry lets through.     *)
RoutesAreEarned ==
    decision # NotAsked /\ decision.status = "routed" =>
        Earned(decision, asked, given.ledger, given.roles)

=============================================================================
