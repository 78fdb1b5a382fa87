------------------------------ MODULE G2Kernel ------------------------------
(***************************************************************************)
(* G2WorldKernel (g2.py): one litigation matter, driven by the commands of *)
(* its actors.  A command is accepted when the policy of its verb and the  *)
(* transition's own conditions allow it; then the transition, the grants   *)
(* it makes and the event are one step.  A refused command changes none of *)
(* the state modelled here.                                                *)
(***************************************************************************)
EXTENDS FinanceLedger, Sequences

CONSTANTS
    Artifact,           \* the evidence inventory
    Producible,         \* the artifacts that are responsive and not privileged
    ExpertAuthorized,   \* sealed.expert_authorized_artifacts
    FiledDay,           \* complaint_filed_day of a command
    Resolution,         \* the verb of the matter's route
    NoDay               \* no deadlines have been calculated or verified

ASSUME InventoryAssumption == Producible \subseteq Artifact /\ Producible # {}

ASSUME DayAssumption == NoDay \notin FiledDay

ASSUME ResolutionAssumption ==
    Resolution \in {"settle_case", "mediate_to_impasse", "resolve_dispositive",
                    "try_and_appeal"}

VARIABLES
    authority,      \* authority[a]: the authority tokens of actor a
    knowledge,      \* knowledge[a]: the knowledge tokens of actor a
    holds,          \* authority_holds
    deadlines,      \* the filed days behind deadline_proposal and deadlines,
                    \* and the actors deadline_audit names
    evidence,       \* evidence[a]: the status of a and its custody_log
    produced,       \* produced_artifact_ids, without their order and repetition
    opinion,        \* the sources of expert_opinion
    outcome,        \* there is a resolution_outcome
    conditions,     \* close_conditions
    closed,
    accepted        \* the verbs of the accepted events

vars == <<finance, authority, knowledge, holds, deadlines, evidence, produced,
          opinion, outcome, conditions, closed, accepted>>

frontier == <<authority, knowledge>>

record == <<evidence, produced, opinion>>

-----------------------------------------------------------------------------
(* The actors: one for each role that has a verb. *)
Actor == {"intake_coordinator", "conflicts_analyst", "responsible_lawyer",
          "litigation_paralegal", "docketing_specialist", "deadline_reviewer",
          "claim_handler", "billing_specialist"}

InitialAuthority(a) ==
    CASE a = "intake_coordinator" -> {"receive_referral"}
      [] a = "claim_handler"      -> {"carrier_audit"}
      [] OTHER                    -> {}

InitialKnowledge(a) ==
    CASE a \in {"intake_coordinator", "responsible_lawyer"} -> {"referral_summary"}
      [] a = "claim_handler" -> {"coverage_posture", "guidelines"}
      [] OTHER               -> {}

NoOpinion == [given |-> FALSE, sources |-> {}]

Init ==
    /\ LedgerInit
    /\ authority = [a \in Actor |-> InitialAuthority(a)]
    /\ knowledge = [a \in Actor |-> InitialKnowledge(a)]
    /\ holds = {}
    /\ deadlines = [proposal |-> NoDay, verified |-> NoDay, primary |-> "",
                    secondary |-> ""]
    /\ evidence = [a \in Artifact |-> [status |-> "unknown", custody |-> << >>]]
    /\ produced = {}
    /\ opinion = NoOpinion
    /\ outcome = FALSE
    /\ conditions = {}
    /\ closed = FALSE
    /\ accepted = {}

-----------------------------------------------------------------------------
(* Fault: only the authority frontier is consulted. *)
HoldsAuthority(a, auth, known) == auth \subseteq authority[a]

(* VERB_POLICIES and the gate of submit(): actor a holds the authority and *)
(* the knowledge the verb requires.                                        *)
Holds(a, auth, known) == auth \subseteq authority[a] /\ known \subseteq knowledge[a]

Accept(verb) == accepted' = accepted \cup {verb}

(* _grant, for several actors: their new authority and knowledge. *)
Grant(auth, known) ==
    /\ authority' = [a \in Actor |->
           authority[a] \cup IF a \in DOMAIN auth THEN auth[a] ELSE {}]
    /\ knowledge' = [a \in Actor |->
           knowledge[a] \cup IF a \in DOMAIN known THEN known[a] ELSE {}]

None == << >>

-----------------------------------------------------------------------------
(* Intake, conflicts and opening. *)

ReceiveReferral ==
    /\ Holds("intake_coordinator", {"receive_referral"}, {"referral_summary"})
    /\ Grant([conflicts_analyst |-> {"conflict_search"}],
             [conflicts_analyst |-> {"party_names"},
              responsible_lawyer |-> {"referral_summary"}])
    /\ Accept("receive_referral")
    /\ UNCHANGED <<finance, holds, deadlines, record, outcome, conditions, closed>>

SubmitConflictResult ==
    /\ Holds("conflicts_analyst", {"conflict_search"}, {"party_names"})
    /\ holds' = holds \cup {"affected_client_consent"}
    /\ Grant([responsible_lawyer |-> {"lawyer_conflict_determination"}],
             [responsible_lawyer |-> {"conflict_result", "party_names"}])
    /\ Accept("submit_conflict_result")
    /\ UNCHANGED <<finance, deadlines, record, outcome, conditions, closed>>

(* The payload names the gate and the authority it grants; these are the   *)
(* ones of every workflow that the repository builds.                      *)
RecordLawyerGate ==
    /\ Holds("responsible_lawyer", {"lawyer_conflict_determination"},
             {"conflict_result"})
    /\ "affected_client_consent" \in holds
    /\ holds' = holds \ {"affected_client_consent"}
    /\ Grant([responsible_lawyer |-> {"matter_opening"}], None)
    /\ Accept("record_lawyer_gate")
    /\ UNCHANGED <<finance, deadlines, record, outcome, conditions, closed>>

OpenMatter ==
    /\ Holds("responsible_lawyer", {"matter_opening"}, {"referral_summary"})
    /\ holds = {}
    /\ Grant([responsible_lawyer   |-> {"legal_work", "retain_expert", "resolution",
                                        "matter_close", "record_time"},
              litigation_paralegal |-> {"preservation", "collection", "production",
                                        "record_time"},
              docketing_specialist |-> {"deadline_proposal"},
              deadline_reviewer    |-> {"deadline_verify"},
              billing_specialist   |-> {"billing"}],
             [responsible_lawyer   |-> {"coverage_posture", "guidelines",
                                        "initial_record"},
              litigation_paralegal |-> {"initial_record",
                                        "evidence_inventory_metadata"},
              docketing_specialist |-> {"initial_record", "rule_pack"},
              deadline_reviewer    |-> {"initial_record", "rule_pack"},
              billing_specialist   |-> {"guidelines", "initial_record"}])
    /\ Accept("open_matter")
    /\ UNCHANGED <<finance, holds, deadlines, record, outcome, conditions, closed>>

-----------------------------------------------------------------------------
(* Deadlines.  The two calculators add the same offsets of the rule pack   *)
(* to the filed day, so deadlines are told apart by that day alone.        *)

(* Fault: deadline_audit is updated, not replaced. *)
CalculateKeepingAudit(day) ==
    /\ Holds("docketing_specialist", {"deadline_proposal"}, {"rule_pack"})
    /\ deadlines' = [deadlines EXCEPT !.proposal = day,
                                      !.primary = "docketing_specialist"]
    /\ Grant(None, [deadline_reviewer |-> {"deadline_proposal"}])
    /\ Accept("calculate_deadlines")
    /\ UNCHANGED <<finance, holds, record, outcome, conditions, closed>>

CalculateDeadlines(day) ==
    /\ Holds("docketing_specialist", {"deadline_proposal"}, {"rule_pack"})
    /\ deadlines' = [deadlines EXCEPT !.proposal = day,
                                      !.primary = "docketing_specialist",
                                      !.secondary = ""]
    /\ Grant(None, [deadline_reviewer |-> {"deadline_proposal"}])
    /\ Accept("calculate_deadlines")
    /\ UNCHANGED <<finance, holds, record, outcome, conditions, closed>>

VerifyDeadlines(day) ==
    /\ Holds("deadline_reviewer", {"deadline_verify"},
             {"rule_pack", "deadline_proposal"})
    /\ deadlines.proposal = day
    /\ deadlines.primary # "deadline_reviewer"
    /\ deadlines' = [deadlines EXCEPT !.verified = day,
                                      !.secondary = "deadline_reviewer"]
    /\ Grant(None, [responsible_lawyer |-> {"verified_deadlines"}])
    /\ Accept("verify_deadlines")
    /\ UNCHANGED <<finance, holds, record, outcome, conditions, closed>>

-----------------------------------------------------------------------------
(* Evidence.  Each verb walks the whole inventory. *)

AllAre(status) == \A a \in Artifact : evidence[a].status = status

(* Custody starts again with the artifact's creation, whatever was done    *)
(* with it before.                                                         *)
IssuePreservation ==
    /\ Holds("litigation_paralegal", {"preservation"},
             {"evidence_inventory_metadata"})
    /\ evidence' = [a \in Artifact |-> [status |-> "preserved",
                                        custody |-> <<"created">>]]
    /\ Grant(None, [litigation_paralegal |-> {"preservation_issued"}])
    /\ Accept("issue_preservation")
    /\ UNCHANGED <<finance, holds, deadlines, produced, opinion, outcome,
                   conditions, closed>>

CollectEvidence ==
    /\ Holds("litigation_paralegal", {"collection"}, {"preservation_issued"})
    /\ AllAre("preserved")
    /\ evidence' = [a \in Artifact |->
           [status  |-> "collected",
            custody |-> evidence[a].custody \o <<"collected", "hashed">>]]
    /\ Grant(None, [responsible_lawyer   |-> {"collected_evidence"},
                    litigation_paralegal |-> {"collected_evidence"}])
    /\ Accept("collect_evidence")
    /\ UNCHANGED <<finance, holds, deadlines, produced, opinion, outcome,
                   conditions, closed>>

(* Fault: every artifact is selected. *)
ReviewEverything ==
    /\ Holds("responsible_lawyer", {"legal_work"}, {"collected_evidence"})
    /\ AllAre("collected")
    /\ evidence' = [a \in Artifact |->
           [status |-> "reviewed", custody |-> Append(evidence[a].custody, "reviewed")]]
    /\ Grant(None, [responsible_lawyer   |-> {"review_complete"},
                    litigation_paralegal |-> {"review_complete"}])
    /\ Accept("review_evidence")
    /\ UNCHANGED <<finance, holds, deadlines, produced, opinion, outcome,
                   conditions, closed>>

ReviewEvidence ==
    /\ Holds("responsible_lawyer", {"legal_work"}, {"collected_evidence"})
    /\ AllAre("collected")
    /\ evidence' = [a \in Artifact |->
           IF a \in Producible
             THEN [status |-> "reviewed",
                   custody |-> Append(evidence[a].custody, "reviewed")]
             ELSE [status |-> "withheld_nonresponsive",
                   custody |-> evidence[a].custody]]
    /\ Grant(None, [responsible_lawyer   |-> {"review_complete"},
                    litigation_paralegal |-> {"review_complete"}])
    /\ Accept("review_evidence")
    /\ UNCHANGED <<finance, holds, deadlines, produced, opinion, outcome,
                   conditions, closed>>

Reviewed == {a \in Artifact : evidence[a].status = "reviewed"}

ProduceDiscovery ==
    /\ Holds("litigation_paralegal", {"production"}, {"review_complete"})
    /\ Reviewed # {}
    /\ evidence' = [a \in Artifact |->
           IF a \in Reviewed
             THEN [status |-> "produced",
                   custody |-> Append(evidence[a].custody, "produced")]
             ELSE evidence[a]]
    /\ produced' = produced \cup Reviewed
    /\ Grant(None, [responsible_lawyer |-> {"produced_evidence"}])
    /\ Accept("produce_discovery")
    /\ UNCHANGED <<finance, holds, deadlines, opinion, outcome, conditions, closed>>

TakeDeposition ==
    /\ Holds("responsible_lawyer", {"legal_work"}, {"produced_evidence"})
    /\ Grant(None, [responsible_lawyer |-> {"deposition_transcript"}])
    /\ Accept("take_deposition")
    /\ UNCHANGED <<finance, holds, deadlines, record, outcome, conditions, closed>>

RetainExpert ==
    /\ Holds("responsible_lawyer", {"retain_expert"}, {"deposition_transcript"})
    /\ opinion' = [given |-> TRUE, sources |-> produced \cap ExpertAuthorized]
    /\ Grant(None, [responsible_lawyer |-> {"expert_opinion"}])
    /\ Accept("retain_expert")
    /\ UNCHANGED <<finance, holds, deadlines, evidence, produced, outcome,
                   conditions, closed>>

-----------------------------------------------------------------------------
(* Resolution and billing. *)

Resolve ==
    /\ Holds("responsible_lawyer", {"resolution"}, {"expert_opinion"})
    /\ outcome' = TRUE
    /\ Accept(Resolution)
    /\ UNCHANGED <<finance, frontier, holds, deadlines, record, conditions, closed>>

RecordTime(a, amount) ==
    /\ a \in {"responsible_lawyer", "litigation_paralegal"}
    /\ Holds(a, {"record_time"}, {"initial_record"})
    /\ Record(amount)
    /\ Accept("record_time")

SubmitInvoice ==
    /\ Holds("billing_specialist", {"billing"}, {"guidelines"})
    /\ Submit
    /\ Accept("submit_invoice")

CarrierAudit(reduction) ==
    /\ Holds("claim_handler", {"carrier_audit"}, {"guidelines"})
    /\ Audit(reduction)
    /\ Accept("carrier_audit")

AppealReduction(amount) ==
    /\ Holds("billing_specialist", {"billing"}, {"guidelines"})
    /\ Appeal(amount)
    /\ Accept("appeal_reduction")

ReceivePayment(cash) ==
    /\ Holds("billing_specialist", {"billing"}, {"guidelines"})
    /\ ApplyPayment(cash)
    /\ Accept("apply_payment")

Bill ==
    /\ \/ \E a \in Actor, n \in Amount : RecordTime(a, n)
       \/ SubmitInvoice
       \/ \E n \in Amount : CarrierAudit(n) \/ AppealReduction(n) \/ ReceivePayment(n)
    /\ UNCHANGED <<frontier, holds, deadlines, record, outcome, conditions, closed>>

-----------------------------------------------------------------------------
(* Closing. *)

ClosingSteps == {"procedural_complete", "final_report_delivered",
                 "retention_scheduled", "conflict_history_updated"}

FinalizeCloseout ==
    /\ Holds("responsible_lawyer", {"matter_close"}, {"expert_opinion"})
    /\ outcome
    /\ conditions' = conditions \cup ClosingSteps \cup
           IF Reconciled /\ finance.receivable = 0 THEN {"finance_reconciled"} ELSE {}
    /\ Accept("finalize_closeout")
    /\ UNCHANGED <<finance, frontier, holds, deadlines, record, outcome, closed>>

(* Fault: the balances are not looked at again. *)
CloseUnreconciled ==
    /\ Holds("responsible_lawyer", {"matter_close"}, {"expert_opinion"})
    /\ ClosingSteps \cup {"finance_reconciled"} \subseteq conditions
    /\ closed' = TRUE
    /\ Accept("close_matter")
    /\ UNCHANGED <<finance, frontier, holds, deadlines, record, outcome, conditions>>

CloseMatter ==
    /\ Holds("responsible_lawyer", {"matter_close"}, {"expert_opinion"})
    /\ ClosingSteps \cup {"finance_reconciled"} \subseteq conditions
    /\ Reconciled
    /\ closed' = TRUE
    /\ Accept("close_matter")
    /\ UNCHANGED <<finance, frontier, holds, deadlines, record, outcome, conditions>>

-----------------------------------------------------------------------------
Next ==
    \/ ReceiveReferral \/ SubmitConflictResult \/ RecordLawyerGate \/ OpenMatter
    \/ \E day \in FiledDay : CalculateDeadlines(day) \/ VerifyDeadlines(day)
    \/ IssuePreservation \/ CollectEvidence \/ ReviewEvidence \/ ProduceDiscovery
    \/ TakeDeposition \/ RetainExpert \/ Resolve
    \/ Bill
    \/ FinalizeCloseout \/ CloseMatter

Spec == Init /\ [][Next]_vars

-----------------------------------------------------------------------------
(* Properties. *)

Custody == <<"created", "collected", "hashed", "reviewed", "produced">>

(* What the next verb builds on has been accepted before it, although each *)
(* verb checks only tokens that earlier verbs granted: no actor is given   *)
(* the means for a step before the firm has taken the steps it rests on.   *)
Rests ==
    [submit_conflict_result |-> {"receive_referral"},
     record_lawyer_gate     |-> {"submit_conflict_result"},
     open_matter            |-> {"record_lawyer_gate"},
     calculate_deadlines    |-> {"open_matter"},
     verify_deadlines       |-> {"calculate_deadlines"},
     issue_preservation     |-> {"open_matter"},
     collect_evidence       |-> {"issue_preservation"},
     review_evidence        |-> {"collect_evidence"},
     produce_discovery      |-> {"review_evidence"},
     take_deposition        |-> {"produce_discovery"},
     retain_expert          |-> {"take_deposition"},
     record_time            |-> {"open_matter"},
     submit_invoice         |-> {"record_time"},
     appeal_reduction       |-> {"submit_invoice", "carrier_audit"},
     finalize_closeout      |-> {"retain_expert", Resolution},
     close_matter           |-> {"finalize_closeout"}]

(* BRN-002 and the acceptance list (walking_skeleton_acceptance.md): the   *)
(* steps of a matter come in their order, the lawyer's gate before the     *)
(* opening and the opening before all legal work and billing.              *)
WorkInOrder ==
    /\ \A verb \in accepted \cap DOMAIN Rests : Rests[verb] \subseteq accepted
    /\ Resolution \in accepted => "retain_expert" \in accepted

(* Nothing nonresponsive or privileged leaves the firm, and the expert saw *)
(* nothing that was not produced (BRN-007), however often the evidence is  *)
(* preserved, reviewed and produced again.                                 *)
OnlyProducibleLeaves ==
    /\ produced \subseteq Producible
    /\ opinion.sources \subseteq produced \cap ExpertAuthorized

(* BRN-003: when deadline_audit names both calculators, the deadlines are  *)
(* those of the proposal it is about, found equal by two different actors. *)
AuditMeansVerified ==
    deadlines.secondary # "" =>
        /\ deadlines.verified = deadlines.proposal
        /\ deadlines.proposal # NoDay
        /\ deadlines.primary \notin {"", deadlines.secondary}

(* BRN-005: every produced artifact has a custody trail that leads from    *)
(* its creation to its production.                                         *)
ProducedHaveCustody ==
    \A a \in produced : evidence[a].custody = Custody

(* A matter is closed only on reconciled books (acceptance 9 and 10): the  *)
(* step that closes it leaves nothing receivable.                          *)
CloseOnReconciledBooks ==
    [][~closed /\ closed' => finance.receivable = 0]_vars

(* A payment that a later audit forgot is never found again: no further    *)
(* command balances the books, and the matter is never closed.             *)
ForgottenPaymentBlocks ==
    [](~closed /\ finance.receivable + finance.cash > finance.approved => []~closed)

=============================================================================
