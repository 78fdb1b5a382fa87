------------------------------ MODULE MCRouting ------------------------------
(***************************************************************************)
(* RouterProcess on fourteen roles of the registry, which have every kind  *)
(* of requirement between them and contain the checkers of one another;    *)
(* and, in behaviours of their own, the router alone on ledgers and role   *)
(* registries that the kernel does not produce.                            *)
(***************************************************************************)
EXTENDS RouterProcess, RouterCalls

CONSTANT NotGiven    \* the behaviour is one of RouterProcess

Role(id, capability, checker, group) ==
    [id |-> id, capabilities |-> {capability}, checker |-> checker, group |-> group,
     authority |-> {}, prerequisites |-> {}, source |-> FALSE, release |-> FALSE,
     adapter |-> "none", active |-> TRUE]

Witness ==
    [Role("ops-witness-logistics", "ops.witness.logistics", "ops-quality-checker",
          "witness-logistics") EXCEPT !.authority = {"responsible_lawyer_approval"}]

Processing ==
    [Role("esi-processing-specialist", "information.esi.process",
          "custody-provenance-checker", "esi-processing")
        EXCEPT !.prerequisites = {"collection_custody_receipt"}]

Docket ==
    [Role("ops-docket-calculator", "ops.docket.calculate", "ops-deadline-reviewer",
          "docketing") EXCEPT !.source = TRUE]

Guideline ==
    [Role("carrier-guideline-steward-reuse", "finance.carrier_guideline.compile_reused",
          "finance-control-reviewer", "guideline-reuse")
        EXCEPT !.source = TRUE, !.release = TRUE]

Triage ==
    Role("ops-intake-triage", "ops.intake.triage", "ops-quality-checker", "intake")

MCRoles ==
    {Triage, Witness, Processing, Docket, Guideline,
     [Role("imanage-runtime-adapter", "information.imanage.translate",
           "adapter-contract-checker", "dms-adapter") EXCEPT !.adapter = "imanage"],
     [Role("trust-boundary-controller", "finance.trust.classify",
           "finance-control-reviewer", "trust-boundary") EXCEPT !.active = FALSE],
     Role("ops-practice-router", "ops.route.audit", "ops-quality-checker", "routing"),
     Role("ops-quality-checker", "ops.quality.audit", "legal-authority-boundary-checker",
          "operations-quality"),
     Role("legal-authority-boundary-checker", "ops.authority.audit", "ops-practice-router",
          "legal-authority"),
     [Role("ops-deadline-reviewer", "ops.deadline.independent_review",
           "ops-quality-checker", "deadline-review") EXCEPT !.source = TRUE],
     Role("finance-control-reviewer", "finance.control.audit",
          "legal-authority-boundary-checker", "finance-control"),
     Role("custody-provenance-checker", "information.custody.audit",
          "ops-quality-checker", "custody-check"),
     Role("adapter-contract-checker", "technology.adapter.audit", "ops-quality-checker",
          "adapter-check")}

(* Registries that a careless edit of the roles would make. *)
MCRegistries ==
    {MCRoles,
     (MCRoles \ {Witness}) \cup {[Witness EXCEPT !.group = "operations-quality"]},
     (MCRoles \ {Triage}) \cup {[Triage EXCEPT !.checker = Triage.id]},
     MCRoles \cup {[Triage EXCEPT !.id = "second-triage"]}}

-----------------------------------------------------------------------------
NoCites == [f \in Families |-> {}]

Work(capability) ==
    [capability |-> capability, matter |-> "matter", requester |-> "ops-practice-router",
     data |-> "synthetic", synthetic |-> TRUE, effect |-> "advisory_only", io |-> FALSE,
     cites |-> NoCites, adapter |-> "none"]

Plain(w) == [defects |-> {}, work |-> w]

MCRequests ==
    {Plain(Work("ops.intake.triage")),
     Plain([Work("ops.docket.calculate") EXCEPT !.cites =
               [NoCites EXCEPT !["source_admission"] = {"source"}]]),
     [defects |-> {"flag", "class"}, work |-> Work("ops.intake.triage")]}

(* The router alone: records of one signer that vary in what they are      *)
(* checked for, cited by requests that vary in the rest.                   *)
MCRecord ==
    {[SourceReceipt EXCEPT !.id = i, !.family = f[1], !.kind = f[2], !.issuer = s[1],
                           !.human = s[2], !.subject = "matter", !.source = f[3]] :
        i \in {"r1", "r2"},
        f \in {<<"authority", "responsible_lawyer_approval", "kernel_event">>,
               <<"prerequisite", "collection_custody_receipt", "kernel_event">>,
               <<"source_admission", "", "public">>,
               <<"reuse_release", "", "released_local_asset">>},
        s \in {<<"human-1", TRUE>>, <<"kernel", FALSE>>, <<"ops-practice-router", TRUE>>,
               <<"ops-witness-logistics", TRUE>>}}

MCLedgers ==
    {[issuer |-> n, matters |-> {"matter"}, requesters |-> {r.id : r \in MCRoles},
      records |-> s] :
        n \in {Issuer},
        s \in {<< >>} \cup {<<r>> : r \in MCRecord} \cup (MCRecord \X MCRecord)}
    \cup {[issuer |-> "someone", matters |-> {"matter"}, requesters |-> {"ops-practice-router"},
           records |-> <<r>>] : r \in MCRecord}

MCWorks ==
    {[Work(c) EXCEPT !.requester = q,
                     !.cites = [NoCites EXCEPT ![f[1]] = f[2], ![f[3]] = @ \cup f[4]]] :
        c \in {"ops.witness.logistics", "information.esi.process", "ops.docket.calculate",
               "finance.carrier_guideline.compile_reused"},
        q \in {"ops-practice-router", "ops-quality-checker"},
        f \in {<<"authority", {"r1"}, "prerequisite", {}>>,
               <<"prerequisite", {"r1", "r2"}, "authority", {}>>,
               <<"source_admission", {"r1"}, "reuse_release", {"r2"}>>}}
    \cup {[Work("ops.intake.triage") EXCEPT !.data = "client", !.synthetic = FALSE],
          [Work("ops.intake.triage") EXCEPT !.effect = "legal_decision"],
          [Work("ops.intake.triage") EXCEPT !.io = TRUE],
          [Work("ops.intake.triage") EXCEPT !.matter = "another"],
          Work("ops.intake.triage"), Work("finance.trust.classify"),
          Work("information.imanage.translate"), Work("legal.settlement.authorize"),
          [Work("information.imanage.translate") EXCEPT !.adapter = "imanage"]}

MCInit ==
    /\ Init
    /\ \/ CallsInit
       \/ given = NotGiven /\ asked = NotAsked /\ decision = NotAsked

MCNext ==
    \/ given # NotGiven /\ CallsNext /\ UNCHANGED vars
    \/ given = NotGiven /\ ProcessNext /\ UNCHANGED callVars
    \/ decision # NotAsked /\ UNCHANGED <<vars, callVars>>

MCSpec ==
    MCInit /\ [][MCNext]_<<vars, callVars>>
    /\ WF_vars(given = NotGiven /\ Caller /\ UNCHANGED callVars)

=============================================================================
