--------------------------- MODULE OperationalRouter ---------------------------
(***************************************************************************)
(* The operational router: from a work request, the registry of roles and  *)
(* the kernel's ledger of verified records to one of three answers.  A     *)
(* refusal collects every reason, so the order of the checks is left out.  *)
(***************************************************************************)
EXTENDS FiniteSets, Sequences, Naturals

CONSTANT NoRole     \* no role is found for a request

Issuer == "kernel.operational_authority_registry.v1"

HumanOnly == {"legal.conflict.clear", "legal.conflict.waive",
              "legal.privilege.determine", "legal.filing.sign",
              "legal.filing.submit", "legal.settlement.authorize",
              "legal.strategy.decide", "finance.money.move",
              "finance.writeoff.approve", "finance.trust.transact",
              "information.hold.release", "information.production.transmit",
              "information.disposition.execute"}

-----------------------------------------------------------------------------
(* The registry of roles: a set of records. *)

RoleOf(id, roles) == CHOOSE r \in roles : r.id = id

(* _validate_registry: it raises when one of these fails. *)
ValidRegistry(roles) ==
    /\ \A r, s \in roles : r # s => r.id # s.id /\ r.capabilities \cap s.capabilities = {}
    /\ \A r \in roles :
          /\ r.checker \in {s.id : s \in roles} \ {r.id}
          /\ RoleOf(r.checker, roles).group # r.group

-----------------------------------------------------------------------------
(* The records a request cites.  A record that two entries of the ledger   *)
(* name is the later of the two.                                           *)

RecordIds(ledger) == {ledger.records[i].id : i \in DOMAIN ledger.records}

RecordById(id, ledger) ==
    LET last == CHOOSE i \in DOMAIN ledger.records :
                    /\ ledger.records[i].id = id
                    /\ \A j \in DOMAIN ledger.records : ledger.records[j].id = id => j <= i
    IN  ledger.records[last]

(* The four families of citations of a request. *)
Families == {"source_admission", "reuse_release", "authority", "prerequisite"}

(* What a family asks of the source and the issuer of its records. *)
ClassValid(family, rec) ==
    CASE family = "source_admission" -> rec.source \in {"synthetic", "public"}
      [] family = "reuse_release"    -> rec.source = "released_local_asset" /\ rec.human
      [] family = "authority"        -> rec.human
      [] OTHER                       -> TRUE

(* The record is of the cited family and covers this request. *)
Fits(rec, family, request, ledger) ==
    /\ rec.family = family
    /\ \/ rec.subject = request.matter
       \/ rec.subject = "global" /\ family \in {"source_admission", "reuse_release"}
    /\ {request.capability, "*"} \cap rec.scope # {}
    /\ rec.current /\ rec.digest /\ rec.approved
    /\ ClassValid(family, rec)
    /\ ledger.issuer = Issuer

(* Fault: anyone may have issued the record. *)
AdmissibleFromAnyone(rec, family, request, worker, ledger) ==
    Fits(rec, family, request, ledger)

(* _resolve_records, for one record that the ledger holds. *)
Admissible(rec, family, request, worker, ledger) ==
    /\ Fits(rec, family, request, ledger)
    /\ rec.issuer \notin {request.requester, worker.id, worker.checker}

Resolved(family, request, worker, ledger) ==
    {rec \in {RecordById(id, ledger) : id \in request.cites[family] \cap RecordIds(ledger)} :
        Admissible(rec, family, request, worker, ledger)}

Unresolved(request, worker, ledger) ==
    {id \in UNION {request.cites[f] : f \in Families} :
        \E f \in Families :
            /\ id \in request.cites[f]
            /\ id \notin {rec.id : rec \in Resolved(f, request, worker, ledger)}}

-----------------------------------------------------------------------------
(* The decision. *)

Reason(applies, code) == IF applies THEN {code} ELSE {}

Worker(request, roles) ==
    LET matches == {r \in roles : request.capability \in r.capabilities}
    IN  IF request.capability \notin HumanOnly /\ Cardinality(matches) = 1
          THEN CHOOSE r \in matches : TRUE
          ELSE NoRole

RequestReasons(request, ledger) ==
    Reason(Cardinality(RecordIds(ledger)) # Len(ledger.records),
           "authority_ledger_duplicate_record")
    \cup Reason(ledger.issuer # Issuer, "authority_ledger_issuer_invalid")
    \cup Reason(request.matter \notin ledger.matters, "unknown_matter_commitment")
    \cup Reason(request.requester \notin ledger.requesters, "unknown_requester_role")
    \cup Reason(request.data \notin {"synthetic", "public"} \/ ~request.synthetic,
                "non_green_data_blocked")
    \cup Reason(request.effect \notin {"advisory_only", "simulation_planning_only"},
                "effect_exceeds_proposal_scope")
    \cup Reason(request.io, "external_io_blocked")

KindsOf(family, request, worker, ledger) ==
    {rec.kind : rec \in Resolved(family, request, worker, ledger)}

WorkerReasons(request, worker, ledger) ==
    Reason(~worker.active, "capability_inactive")
    \cup Reason(request.requester = worker.checker, "requester_checker_collision")
    \cup Unresolved(request, worker, ledger)
    \cup Reason(worker.source /\ Resolved("source_admission", request, worker, ledger) = {},
                "source_admission_receipt_missing")
    \cup Reason(worker.release /\ Resolved("reuse_release", request, worker, ledger) = {},
                "reuse_release_receipt_missing")
    \cup Reason(~(worker.prerequisites \subseteq
                      KindsOf("prerequisite", request, worker, ledger)),
                "missing_prerequisite")
    \cup Reason(worker.adapter # request.adapter, "adapter_mismatch_or_not_permitted")

(* _route_with_authority_ledger. *)
Decision(request, ledger, roles) ==
    LET worker  == Worker(request, roles)
        missing == worker.authority \ KindsOf("authority", request, worker, ledger)
        reasons == RequestReasons(request, ledger)
                   \cup IF worker = NoRole THEN {"no_single_worker"}
                        ELSE WorkerReasons(request, worker, ledger)
        answer(status, why) ==
            [status |-> status, worker |-> worker, reasons |-> why, ledger |-> ledger]
    IN  IF reasons # {} THEN answer("blocked", reasons)
        ELSE IF missing # {} THEN answer("human_gate_required", missing)
        ELSE answer("routed", {})

-----------------------------------------------------------------------------
(* What a route stands for, said of the people in it: the work goes to     *)
(* somebody whose checker is another group's and did not ask for it, and   *)
(* whatever the work needs has been signed by none of the three, the       *)
(* authority by a human.                                                   *)
Earned(decision, request, ledger, roles) ==
    LET worker  == decision.worker
        trio    == {request.requester, worker.id, worker.checker}
        signed(family, rec) ==
            /\ rec.id \in request.cites[family]
            /\ rec.family = family /\ rec.approved /\ rec.issuer \notin trio
        records == {RecordById(id, ledger) : id \in RecordIds(ledger)}
    IN  /\ worker \in roles /\ worker.active
        /\ request.capability \in worker.capabilities \ HumanOnly
        /\ worker.checker # request.requester
        /\ \E r \in roles : r.id = worker.checker /\ r.group # worker.group
        /\ \A k \in worker.authority :
              \E rec \in records : signed("authority", rec) /\ rec.kind = k /\ rec.human
        /\ \A k \in worker.prerequisites :
              \E rec \in records : signed("prerequisite", rec) /\ rec.kind = k
        /\ worker.source => \E rec \in records : signed("source_admission", rec)
        /\ worker.release => \E rec \in records : signed("reuse_release", rec) /\ rec.human

=============================================================================
