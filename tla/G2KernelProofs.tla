--------------------------- MODULE G2KernelProofs ---------------------------
(***************************************************************************)
(* What G2Kernel and its ledger keep for every inventory, every amount and *)
(* every sequence of commands, and what BereanAuditor's report says of the *)
(* run of every cassette (AttemptCassette).                                *)
(***************************************************************************)
EXTENDS AttemptCassette, SequenceTheorems, WellFoundedInduction, TLAPS

LedgerType == finance \in [LedgerField -> Nat]

LedgerInv == LedgerType /\ LedgerSound

-----------------------------------------------------------------------------
(* Each operation of the ledger keeps it sound. *)

LEMMA RecordKeeps ==
    ASSUME LedgerInv, NEW n \in Amount, Record(n)
    PROVE  LedgerInv'
<1>1. /\ finance.work + n \in Nat
      /\ finance.wip + n \in Nat
  BY LedgerAssumption DEF LedgerInv, LedgerType, LedgerSound, LedgerField, Record
<1>2. /\ finance'.work = finance.work + n
      /\ finance'.wip = finance.wip + n
      /\ finance'.submitted = finance.submitted
      /\ finance'.approved = finance.approved
      /\ finance'.reduced = finance.reduced
      /\ finance'.recovered = finance.recovered
      /\ finance'.receivable = finance.receivable
      /\ finance'.cash = finance.cash
  BY Zenon DEF LedgerInv, LedgerType, LedgerField, Record
<1>3. LedgerType'
  BY <1>1, Zenon DEF LedgerInv, LedgerType, LedgerField, Record
<1>4. LedgerSound'
  BY <1>2, LedgerAssumption DEF LedgerInv, LedgerType, LedgerField, LedgerSound, Record
<1>5. QED
  BY <1>3, <1>4 DEF LedgerInv

LEMMA SubmitKeeps ==
    ASSUME LedgerInv, Submit
    PROVE  LedgerInv'
<1>1. /\ 0 \in Nat
      /\ finance.submitted + finance.wip \in Nat
  BY LedgerAssumption DEF LedgerInv, LedgerType, LedgerSound, LedgerField, Submit
<1>2. /\ finance'.work = finance.work
      /\ finance'.wip = 0
      /\ finance'.submitted = finance.submitted + finance.wip
      /\ finance'.approved = finance.approved
      /\ finance'.reduced = finance.reduced
      /\ finance'.recovered = finance.recovered
      /\ finance'.receivable = finance.receivable
      /\ finance'.cash = finance.cash
  BY Zenon DEF LedgerInv, LedgerType, LedgerField, Submit
<1>3. LedgerType'
  BY <1>1, Zenon DEF LedgerInv, LedgerType, LedgerField, Submit
<1>4. LedgerSound'
  BY <1>2, LedgerAssumption DEF LedgerInv, LedgerType, LedgerField, LedgerSound, Submit
<1>5. QED
  BY <1>3, <1>4 DEF LedgerInv

LEMMA AuditKeeps ==
    ASSUME LedgerInv, NEW n \in Amount, Audit(n)
    PROVE  LedgerInv'
<1>1. /\ n \in Nat
      /\ finance.submitted - n \in Nat
  BY LedgerAssumption DEF LedgerInv, LedgerType, LedgerSound, LedgerField, Audit
<1>2. /\ finance'.work = finance.work
      /\ finance'.wip = finance.wip
      /\ finance'.submitted = finance.submitted
      /\ finance'.approved = finance.submitted - n
      /\ finance'.reduced = n
      /\ finance'.recovered = finance.recovered
      /\ finance'.receivable = finance.submitted - n
      /\ finance'.cash = finance.cash
  BY Zenon DEF LedgerInv, LedgerType, LedgerField, Audit
<1>3. LedgerType'
  BY <1>1, Zenon DEF LedgerInv, LedgerType, LedgerField, Audit
<1>4. LedgerSound'
  BY <1>2, LedgerAssumption DEF LedgerInv, LedgerType, LedgerField, LedgerSound, Audit
<1>5. QED
  BY <1>3, <1>4 DEF LedgerInv

LEMMA AppealKeeps ==
    ASSUME LedgerInv, NEW n \in Amount, Appeal(n)
    PROVE  LedgerInv'
<1>1. /\ finance.reduced - n \in Nat
      /\ finance.approved + n \in Nat
      /\ finance.recovered + n \in Nat
      /\ finance.receivable + n \in Nat
  BY LedgerAssumption DEF LedgerInv, LedgerType, LedgerSound, LedgerField, Appeal
<1>2. /\ finance'.work = finance.work
      /\ finance'.wip = finance.wip
      /\ finance'.submitted = finance.submitted
      /\ finance'.approved = finance.approved + n
      /\ finance'.reduced = finance.reduced - n
      /\ finance'.recovered = finance.recovered + n
      /\ finance'.receivable = finance.receivable + n
      /\ finance'.cash = finance.cash
  BY Zenon DEF LedgerInv, LedgerType, LedgerField, Appeal
<1>3. LedgerType'
  BY <1>1, Zenon DEF LedgerInv, LedgerType, LedgerField, Appeal
<1>4. LedgerSound'
  BY <1>2, LedgerAssumption DEF LedgerInv, LedgerType, LedgerField, LedgerSound, Appeal
<1>5. QED
  BY <1>3, <1>4 DEF LedgerInv

LEMMA PaymentKeeps ==
    ASSUME LedgerInv, NEW n \in Amount, ApplyPayment(n)
    PROVE  LedgerInv'
<1>1. /\ finance.cash + n \in Nat
      /\ finance.receivable - n \in Nat
  BY LedgerAssumption DEF LedgerInv, LedgerType, LedgerSound, LedgerField, ApplyPayment
<1>2. /\ finance'.work = finance.work
      /\ finance'.wip = finance.wip
      /\ finance'.submitted = finance.submitted
      /\ finance'.approved = finance.approved
      /\ finance'.reduced = finance.reduced
      /\ finance'.recovered = finance.recovered
      /\ finance'.receivable = finance.receivable - n
      /\ finance'.cash = finance.cash + n
  BY Zenon DEF LedgerInv, LedgerType, LedgerField, ApplyPayment
<1>3. LedgerType'
  BY <1>1, Zenon DEF LedgerInv, LedgerType, LedgerField, ApplyPayment
<1>4. LedgerSound'
  BY <1>2, LedgerAssumption DEF LedgerInv, LedgerType, LedgerField, LedgerSound, ApplyPayment
<1>5. QED
  BY <1>3, <1>4 DEF LedgerInv

LEMMA BillKeeps ==
    ASSUME LedgerInv, Bill
    PROVE  LedgerInv'
<1>1. CASE \E a \in Actor, n \in Amount : RecordTime(a, n)
  BY <1>1, RecordKeeps DEF RecordTime
<1>2. CASE SubmitInvoice
  BY <1>2, SubmitKeeps DEF SubmitInvoice
<1>3. CASE \E n \in Amount : CarrierAudit(n) \/ AppealReduction(n) \/ ReceivePayment(n)
  BY <1>3, AuditKeeps, AppealKeeps, PaymentKeeps
  DEF CarrierAudit, AppealReduction, ReceivePayment
<1>4. QED
  BY <1>1, <1>2, <1>3 DEF Bill

(* Only billing touches the ledger. *)
LEMMA OnlyBilling ==
    ASSUME [Next]_vars, ~Bill
    PROVE  UNCHANGED finance
BY DEF Next, vars, ReceiveReferral, SubmitConflictResult, RecordLawyerGate, OpenMatter,
       CalculateDeadlines, VerifyDeadlines, IssuePreservation, CollectEvidence,
       ReviewEvidence, ProduceDiscovery, TakeDeposition, RetainExpert, Resolve,
       FinalizeCloseout, CloseMatter

LEMMA LedgerStartsSound == LedgerInit => LedgerInv
BY DEF LedgerInit, EmptyLedger, LedgerInv, LedgerType, LedgerField, LedgerSound

LEMMA LedgerStepSound == LedgerInv /\ [Next]_vars => LedgerInv'
<1>1. SUFFICES ASSUME LedgerInv, [Next]_vars PROVE LedgerInv'
  OBVIOUS
<1>2. CASE Bill
  BY <1>1, <1>2, BillKeeps
<1>3. CASE ~Bill
  BY <1>1, <1>3, OnlyBilling DEF LedgerInv, LedgerType, LedgerSound
<1>4. QED
  BY <1>2, <1>3

(* FinanceLedger: whatever is recorded, invoiced, reduced, appealed and    *)
(* paid, in any order, no work is lost and nothing approved is forgotten.  *)
THEOREM LedgerStaysSound == Spec => []LedgerSound
<1>1. Init => LedgerInv
  BY LedgerStartsSound DEF Init
<1>2. LedgerInv /\ [Next]_vars => LedgerInv'
  BY LedgerStepSound
<1>3. LedgerInv => LedgerSound
  BY DEF LedgerInv
<1>4. QED
  BY <1>1, <1>2, <1>3, PTL DEF Spec

(* What is owed never exceeds what was approved. *)
LEMMA ReceivableWithinApproved ==
    ASSUME LedgerInv
    PROVE  /\ finance.cash \in Nat /\ finance.approved \in Nat
           /\ finance.receivable \in Nat /\ finance.receivable <= finance.approved
BY DEF LedgerInv, LedgerType, LedgerSound, LedgerField

-----------------------------------------------------------------------------
(* A payment that an audit forgot.                                         *)

Forgotten == ~closed /\ finance.receivable + finance.cash > finance.approved

LEMMA BillKeepsForgotten ==
    ASSUME LedgerInv, Forgotten, Bill
    PROVE  Forgotten'
<1>1. closed' = closed
  BY DEF Bill
<1>2. CASE \E a \in Actor, n \in Amount : RecordTime(a, n)
  <2>1. PICK n \in Amount : Record(n)
    BY <1>2 DEF RecordTime
  <2>2. /\ finance'.receivable = finance.receivable
        /\ finance'.cash = finance.cash
        /\ finance'.approved = finance.approved
    BY <2>1, Zenon DEF LedgerInv, LedgerType, LedgerField, Record
  <2>3. QED
    BY <1>1, <2>2 DEF Forgotten
<1>3. CASE SubmitInvoice
  <2>1. /\ finance'.receivable = finance.receivable
        /\ finance'.cash = finance.cash
        /\ finance'.approved = finance.approved
    BY <1>3, Zenon DEF LedgerInv, LedgerType, LedgerField, SubmitInvoice, Submit
  <2>2. QED
    BY <1>1, <2>1 DEF Forgotten
<1>4. CASE \E n \in Amount : CarrierAudit(n)
  <2>1. PICK n \in Amount : Audit(n)
    BY <1>4 DEF CarrierAudit
  <2>2. /\ finance'.receivable = finance.submitted - n
        /\ finance'.cash = finance.cash
        /\ finance'.approved = finance.submitted - n
    BY <2>1, Zenon DEF LedgerInv, LedgerType, LedgerField, Audit
  <2>3. finance.cash > 0
    BY ReceivableWithinApproved DEF Forgotten
  <2>4. finance.submitted \in Nat /\ n \in Nat
    BY LedgerAssumption DEF LedgerInv, LedgerType, LedgerField
  <2>5. QED
    BY <1>1, <2>2, <2>3, <2>4, ReceivableWithinApproved DEF Forgotten
<1>5. CASE \E n \in Amount : AppealReduction(n)
  <2>1. PICK n \in Amount : Appeal(n)
    BY <1>5 DEF AppealReduction
  <2>2. /\ finance'.receivable = finance.receivable + n
        /\ finance'.cash = finance.cash
        /\ finance'.approved = finance.approved + n
    BY <2>1, Zenon DEF LedgerInv, LedgerType, LedgerField, Appeal
  <2>3. n \in Nat
    BY LedgerAssumption
  <2>4. QED
    BY <1>1, <2>2, <2>3, ReceivableWithinApproved DEF Forgotten
<1>6. CASE \E n \in Amount : ReceivePayment(n)
  <2>1. PICK n \in Amount : ApplyPayment(n)
    BY <1>6 DEF ReceivePayment
  <2>2. /\ finance'.receivable = finance.receivable - n
        /\ finance'.cash = finance.cash + n
        /\ finance'.approved = finance.approved
    BY <2>1, Zenon DEF LedgerInv, LedgerType, LedgerField, ApplyPayment
  <2>3. n \in Nat
    BY LedgerAssumption
  <2>4. QED
    BY <1>1, <2>2, <2>3, ReceivableWithinApproved DEF Forgotten
<1>7. QED
  BY <1>2, <1>3, <1>4, <1>5, <1>6 DEF Bill

(* FinanceLedger.audit: a payment made before an audit is never balanced   *)
(* again.  The only command that closes a matter asks for balanced books,  *)
(* and every other one leaves the two sides apart.                         *)
THEOREM ForgottenStaysOpen == Spec => ForgottenPaymentBlocks
<1>1. Init => LedgerInv
  BY LedgerStartsSound DEF Init
<1>2. LedgerInv /\ [Next]_vars => LedgerInv'
  BY LedgerStepSound
<1>3. LedgerInv /\ Forgotten /\ [Next]_vars => Forgotten'
  <2>1. SUFFICES ASSUME LedgerInv, Forgotten, [Next]_vars PROVE Forgotten'
    OBVIOUS
  <2>2. CASE Bill
    BY <2>1, <2>2, BillKeepsForgotten
  <2>3. CASE ~Bill
    <3>1. UNCHANGED finance
      BY <2>1, <2>3, OnlyBilling
    <3>2. ~CloseMatter
      BY <2>1, ReceivableWithinApproved DEF CloseMatter, Reconciled, Forgotten
    <3>3. UNCHANGED closed
      BY <2>1, <2>3, <3>2
      DEF Next, vars, ReceiveReferral, SubmitConflictResult, RecordLawyerGate,
          OpenMatter, CalculateDeadlines, VerifyDeadlines, IssuePreservation,
          CollectEvidence, ReviewEvidence, ProduceDiscovery, TakeDeposition,
          RetainExpert, Resolve, FinalizeCloseout
    <3>4. QED
      BY <2>1, <3>1, <3>3 DEF Forgotten
  <2>4. QED
    BY <2>2, <2>3
<1>4. Forgotten <=> ~closed /\ finance.receivable + finance.cash > finance.approved
  BY DEF Forgotten
<1>5. Forgotten => ~closed
  BY DEF Forgotten
<1>6. QED
  BY <1>1, <1>2, <1>3, <1>4, <1>5, PTL DEF Spec, ForgottenPaymentBlocks

-----------------------------------------------------------------------------
(* Deadlines.  Whoever is named calculated: the proposal is set with its   *)
(* first calculator, and the second is named only where the days agree.    *)

DeadlinesType ==
    deadlines \in [proposal  : FiledDay \cup {NoDay},
                   verified  : FiledDay \cup {NoDay},
                   primary   : {"", "docketing_specialist"},
                   secondary : {"", "deadline_reviewer"}]

ProposalIsNamed ==
    deadlines.proposal # NoDay => deadlines.primary = "docketing_specialist"

DeadlineInv == DeadlinesType /\ ProposalIsNamed /\ AuditMeansVerified

LEMMA CalculateKeepsAudit ==
    ASSUME DeadlineInv, NEW day \in FiledDay, CalculateDeadlines(day)
    PROVE  DeadlineInv'
<1>1. /\ deadlines'.proposal = day
      /\ deadlines'.verified = deadlines.verified
      /\ deadlines'.primary = "docketing_specialist"
      /\ deadlines'.secondary = ""
      /\ DeadlinesType'
  BY DEF DeadlineInv, DeadlinesType, CalculateDeadlines
<1>2. QED
  BY <1>1 DEF DeadlineInv, ProposalIsNamed, AuditMeansVerified

LEMMA VerifyKeepsAudit ==
    ASSUME DeadlineInv, NEW day \in FiledDay, VerifyDeadlines(day)
    PROVE  DeadlineInv'
<1>1. /\ deadlines'.proposal = deadlines.proposal
      /\ deadlines'.verified = day
      /\ deadlines'.primary = deadlines.primary
      /\ deadlines'.secondary = "deadline_reviewer"
      /\ DeadlinesType'
  BY DEF DeadlineInv, DeadlinesType, VerifyDeadlines
<1>2. deadlines.proposal = day /\ day # NoDay
  BY DayAssumption DEF VerifyDeadlines
<1>3. QED
  BY <1>1, <1>2 DEF DeadlineInv, ProposalIsNamed, AuditMeansVerified

LEMMA DeadlinesStart == Init => DeadlineInv
<1>1. SUFFICES ASSUME Init PROVE DeadlineInv
  OBVIOUS
<1>2. deadlines = [proposal |-> NoDay, verified |-> NoDay, primary |-> "",
                   secondary |-> ""]
  BY <1>1, Zenon DEF Init
<1>3. QED
  BY <1>2 DEF DeadlineInv, DeadlinesType, ProposalIsNamed, AuditMeansVerified

LEMMA DeadlinesStep == DeadlineInv /\ [Next]_vars => DeadlineInv'
<1>1. SUFFICES ASSUME DeadlineInv, [Next]_vars PROVE DeadlineInv'
  OBVIOUS
<1>2. CASE \E day \in FiledDay : CalculateDeadlines(day) \/ VerifyDeadlines(day)
  BY <1>1, <1>2, CalculateKeepsAudit, VerifyKeepsAudit
<1>3. CASE UNCHANGED deadlines
  BY <1>1, <1>3 DEF DeadlineInv, DeadlinesType, ProposalIsNamed, AuditMeansVerified
<1>4. QED
  BY <1>1, <1>2, <1>3
  DEF Next, vars, record, frontier, ReceiveReferral, SubmitConflictResult,
      RecordLawyerGate, OpenMatter, IssuePreservation, CollectEvidence,
      ReviewEvidence, ProduceDiscovery, TakeDeposition, RetainExpert, Resolve,
      Bill, FinalizeCloseout, CloseMatter

(* g2.py, calculate_deadlines and verify_deadlines (BRN-003): a            *)
(* deadline_audit that names both calculators is about the deadlines in    *)
(* force, in any order of calculations and verifications.                  *)
THEOREM NamedAuditIsCurrent == Spec => []AuditMeansVerified
<1>1. DeadlineInv => AuditMeansVerified
  BY DEF DeadlineInv
<1>2. QED
  BY <1>1, DeadlinesStart, DeadlinesStep, PTL DEF Spec

-----------------------------------------------------------------------------
(* Evidence.  Only review marks an artifact reviewed, and only what is     *)
(* marked is produced.                                                     *)

EvidenceInv ==
    /\ \A a \in Artifact : evidence[a].status = "reviewed" => a \in Producible
    /\ OnlyProducibleLeaves

LEMMA EvidenceStarts == Init => EvidenceInv
<1>1. SUFFICES ASSUME Init PROVE EvidenceInv
  OBVIOUS
<1>2. /\ evidence = [a \in Artifact |-> [status |-> "unknown", custody |-> << >>]]
      /\ produced = {}
      /\ opinion = NoOpinion
  BY <1>1, Zenon DEF Init
<1>3. QED
  BY <1>2 DEF EvidenceInv, OnlyProducibleLeaves, NoOpinion

LEMMA EvidenceStep == EvidenceInv /\ [Next]_vars => EvidenceInv'
<1>1. SUFFICES ASSUME EvidenceInv, [Next]_vars PROVE EvidenceInv'
  OBVIOUS
<1>2. CASE IssuePreservation \/ CollectEvidence \/ ReviewEvidence
  <2>1. produced' = produced /\ opinion' = opinion
    BY <1>2 DEF IssuePreservation, CollectEvidence, ReviewEvidence
  <2>2. ASSUME NEW a \in Artifact, evidence'[a].status = "reviewed"
        PROVE  a \in Producible
    BY <1>2, <2>2 DEF IssuePreservation, CollectEvidence, ReviewEvidence
  <2>3. QED
    BY <1>1, <2>1, <2>2 DEF EvidenceInv, OnlyProducibleLeaves
<1>3. CASE ProduceDiscovery
  <2>1. Reviewed \subseteq Producible
    BY <1>1 DEF EvidenceInv, Reviewed
  <2>2. ASSUME NEW a \in Artifact, evidence'[a].status = "reviewed"
        PROVE  a \in Producible
    BY <1>1, <1>3, <2>1, <2>2 DEF EvidenceInv, ProduceDiscovery
  <2>3. produced' = produced \cup Reviewed /\ opinion' = opinion
    BY <1>3 DEF ProduceDiscovery
  <2>4. QED
    BY <1>1, <2>1, <2>2, <2>3 DEF EvidenceInv, OnlyProducibleLeaves
<1>4. CASE RetainExpert
  BY <1>1, <1>4 DEF EvidenceInv, OnlyProducibleLeaves, RetainExpert
<1>5. CASE UNCHANGED record
  BY <1>1, <1>5 DEF EvidenceInv, OnlyProducibleLeaves, record
<1>6. QED
  BY <1>1, <1>2, <1>3, <1>4, <1>5
  DEF Next, vars, record, ReceiveReferral, SubmitConflictResult, RecordLawyerGate,
      OpenMatter, CalculateDeadlines, VerifyDeadlines, TakeDeposition, Resolve,
      Bill, FinalizeCloseout, CloseMatter

(* g2.py, review_evidence, produce_discovery and retain_expert (BRN-007):  *)
(* nothing nonresponsive or privileged leaves the firm, and the expert     *)
(* relies on nothing that did not, however often the evidence is           *)
(* preserved, collected, reviewed and produced again.                      *)
THEOREM OnlyProducibleLeavesTheFirm == Spec => []OnlyProducibleLeaves
<1>1. EvidenceInv => OnlyProducibleLeaves
  BY DEF EvidenceInv
<1>2. QED
  BY <1>1, EvidenceStarts, EvidenceStep, PTL DEF Spec

-----------------------------------------------------------------------------
(* The order of the work.  A verb checks tokens, so the invariant names    *)
(* the verb that each token stands for, and the verb behind each balance,  *)
(* the outcome and the closing conditions that a command looks at.         *)

AuthorityFrom ==
    [conflict_search               |-> "receive_referral",
     lawyer_conflict_determination |-> "submit_conflict_result",
     matter_opening                |-> "record_lawyer_gate",
     preservation                  |-> "open_matter",
     deadline_proposal             |-> "open_matter",
     record_time                   |-> "open_matter"]

KnowledgeFrom ==
    [deadline_proposal     |-> "calculate_deadlines",
     preservation_issued   |-> "issue_preservation",
     collected_evidence    |-> "collect_evidence",
     review_complete       |-> "review_evidence",
     produced_evidence     |-> "produce_discovery",
     deposition_transcript |-> "take_deposition",
     expert_opinion        |-> "retain_expert"]

MeansGranted ==
    \A a \in Actor :
        /\ \A t \in authority[a] \cap DOMAIN AuthorityFrom : AuthorityFrom[t] \in accepted
        /\ \A t \in knowledge[a] \cap DOMAIN KnowledgeFrom : KnowledgeFrom[t] \in accepted

StateEarned ==
    /\ finance.wip > 0 => "record_time" \in accepted
    /\ finance.submitted > 0 => "submit_invoice" \in accepted
    /\ finance.reduced > 0 => "carrier_audit" \in accepted
    /\ outcome => Resolution \in accepted
    /\ conditions # {} => "finalize_closeout" \in accepted

OrderInv == MeansGranted /\ StateEarned /\ WorkInOrder

(* An accepted verb keeps the order when what it rests on was accepted. *)
LEMMA AcceptInOrder ==
    ASSUME WorkInOrder, NEW verb, Accept(verb),
           verb \in DOMAIN Rests => Rests[verb] \subseteq accepted,
           verb = Resolution => "retain_expert" \in accepted
    PROVE  WorkInOrder'
<1>1. accepted' = accepted \cup {verb}
  BY DEF Accept
<1>2. Rests' = Rests
  BY DEF Rests
<1>3. ASSUME NEW v \in accepted' \cap DOMAIN Rests
      PROVE  Rests[v] \subseteq accepted'
  BY <1>1, <1>3, Zenon DEF WorkInOrder
<1>4. Resolution \in accepted' => "retain_expert" \in accepted'
  BY <1>1, Zenon DEF WorkInOrder
<1>5. QED
  BY <1>2, <1>3, <1>4, Zenon DEF WorkInOrder

(* A grant gives only tokens that stand for the verb that makes it, or for *)
(* nothing.                                                                *)
LEMMA GrantEarned ==
    ASSUME MeansGranted, NEW auth, NEW known, NEW verb,
           Grant(auth, known), Accept(verb),
           \A a \in DOMAIN auth : \A t \in auth[a] \cap DOMAIN AuthorityFrom :
               AuthorityFrom[t] = verb,
           \A a \in DOMAIN known : \A t \in known[a] \cap DOMAIN KnowledgeFrom :
               KnowledgeFrom[t] = verb
    PROVE  MeansGranted'
<1>1. accepted' = accepted \cup {verb}
  BY DEF Accept
<1>2. ASSUME NEW a \in Actor, NEW t \in authority'[a] \cap DOMAIN AuthorityFrom
      PROVE  AuthorityFrom[t] \in accepted'
  <2>1. authority'[a] = authority[a] \cup IF a \in DOMAIN auth THEN auth[a] ELSE {}
    BY Zenon DEF Grant
  <2>2. CASE t \in authority[a]
    BY <1>1, <1>2, <2>2, Zenon DEF MeansGranted
  <2>3. CASE a \in DOMAIN auth /\ t \in auth[a]
    BY <1>1, <1>2, <2>3, Zenon
  <2>4. QED
    BY <1>2, <2>1, <2>2, <2>3
<1>3. ASSUME NEW a \in Actor, NEW t \in knowledge'[a] \cap DOMAIN KnowledgeFrom
      PROVE  KnowledgeFrom[t] \in accepted'
  <2>1. knowledge'[a] = knowledge[a] \cup IF a \in DOMAIN known THEN known[a] ELSE {}
    BY Zenon DEF Grant
  <2>2. CASE t \in knowledge[a]
    BY <1>1, <1>3, <2>2, Zenon DEF MeansGranted
  <2>3. CASE a \in DOMAIN known /\ t \in known[a]
    BY <1>1, <1>3, <2>3, Zenon
  <2>4. QED
    BY <1>3, <2>1, <2>2, <2>3
<1>4. AuthorityFrom' = AuthorityFrom /\ KnowledgeFrom' = KnowledgeFrom
  BY DEF AuthorityFrom, KnowledgeFrom
<1>5. QED
  BY <1>2, <1>3, <1>4, Zenon DEF MeansGranted

(* A verb that grants nothing. *)
LEMMA NothingGranted ==
    ASSUME MeansGranted, NEW verb, UNCHANGED frontier, Accept(verb)
    PROVE  MeansGranted'
BY Zenon DEF MeansGranted, Accept, frontier, AuthorityFrom, KnowledgeFrom

(* What the tokens that a verb requires say of the verbs before it. *)
LEMMA MeansShow ==
    ASSUME MeansGranted, NEW a \in Actor, NEW auth, NEW known, Holds(a, auth, known)
    PROVE  /\ \A t \in auth \cap DOMAIN AuthorityFrom : AuthorityFrom[t] \in accepted
           /\ \A t \in known \cap DOMAIN KnowledgeFrom : KnowledgeFrom[t] \in accepted
BY Zenon DEF MeansGranted, Holds

LEMMA StateKept ==
    ASSUME StateEarned, NEW verb, Accept(verb), UNCHANGED <<finance, outcome, conditions>>
    PROVE  StateEarned'
BY DEF StateEarned, Accept

(* The verbs that grant tokens and touch no balance. *)
LEMMA GrantingStep ==
    ASSUME OrderInv, NEW auth, NEW known, NEW verb,
           Grant(auth, known), Accept(verb), UNCHANGED <<finance, outcome, conditions>>,
           \A a \in DOMAIN auth : \A t \in auth[a] \cap DOMAIN AuthorityFrom :
               AuthorityFrom[t] = verb,
           \A a \in DOMAIN known : \A t \in known[a] \cap DOMAIN KnowledgeFrom :
               KnowledgeFrom[t] = verb,
           verb # Resolution,
           verb \in DOMAIN Rests => Rests[verb] \subseteq accepted
    PROVE  OrderInv'
BY GrantEarned, StateKept, AcceptInOrder DEF OrderInv

LEMMA IntakeInOrder ==
    ASSUME OrderInv, ReceiveReferral
    PROVE  OrderInv'
BY GrantingStep, ResolutionAssumption
DEF ReceiveReferral, AuthorityFrom, KnowledgeFrom, Rests, None

LEMMA ConflictInOrder ==
    ASSUME OrderInv, SubmitConflictResult
    PROVE  OrderInv'
<1>1. "receive_referral" \in accepted
  BY MeansShow DEF OrderInv, SubmitConflictResult, AuthorityFrom, Actor
<1>2. QED
  BY <1>1, GrantingStep, ResolutionAssumption
  DEF SubmitConflictResult, AuthorityFrom, KnowledgeFrom, Rests, None

LEMMA GateInOrder ==
    ASSUME OrderInv, RecordLawyerGate
    PROVE  OrderInv'
<1>1. "submit_conflict_result" \in accepted
  BY MeansShow DEF OrderInv, RecordLawyerGate, AuthorityFrom, KnowledgeFrom, Actor
<1>2. QED
  BY <1>1, GrantingStep, ResolutionAssumption
  DEF RecordLawyerGate, AuthorityFrom, KnowledgeFrom, Rests, None

LEMMA OpeningInOrder ==
    ASSUME OrderInv, OpenMatter
    PROVE  OrderInv'
<1>1. "record_lawyer_gate" \in accepted
  BY MeansShow DEF OrderInv, OpenMatter, AuthorityFrom, KnowledgeFrom, Actor
<1> DEFINE auth == [responsible_lawyer   |-> {"legal_work", "retain_expert", "resolution",
                                              "matter_close", "record_time"},
                    litigation_paralegal |-> {"preservation", "collection", "production",
                                              "record_time"},
                    docketing_specialist |-> {"deadline_proposal"},
                    deadline_reviewer    |-> {"deadline_verify"},
                    billing_specialist   |-> {"billing"}]
           known == [responsible_lawyer   |-> {"coverage_posture", "guidelines",
                                               "initial_record"},
                     litigation_paralegal |-> {"initial_record",
                                               "evidence_inventory_metadata"},
                     docketing_specialist |-> {"initial_record", "rule_pack"},
                     deadline_reviewer    |-> {"initial_record", "rule_pack"},
                     billing_specialist   |-> {"guidelines", "initial_record"}]
<1>2. /\ Grant(auth, known) /\ Accept("open_matter")
      /\ UNCHANGED <<finance, outcome, conditions>>
  BY Zenon DEF OpenMatter
<1>3. \A a \in DOMAIN auth : \A t \in auth[a] \cap DOMAIN AuthorityFrom :
          AuthorityFrom[t] = "open_matter"
  BY DEF AuthorityFrom
<1>4. \A a \in DOMAIN known : \A t \in known[a] \cap DOMAIN KnowledgeFrom :
          KnowledgeFrom[t] = "open_matter"
  BY DEF KnowledgeFrom
<1>5. /\ "open_matter" # Resolution
      /\ "open_matter" \in DOMAIN Rests => Rests["open_matter"] \subseteq accepted
  BY <1>1, ResolutionAssumption DEF Rests
<1> HIDE DEF auth, known
<1>6. QED
  BY <1>2, <1>3, <1>4, <1>5, GrantingStep

LEMMA CalculationInOrder ==
    ASSUME OrderInv, NEW day, CalculateDeadlines(day)
    PROVE  OrderInv'
<1>1. "open_matter" \in accepted
  BY MeansShow DEF OrderInv, CalculateDeadlines, AuthorityFrom, KnowledgeFrom, Actor
<1>2. QED
  BY <1>1, GrantingStep, ResolutionAssumption
  DEF CalculateDeadlines, AuthorityFrom, KnowledgeFrom, Rests, None

LEMMA VerificationInOrder ==
    ASSUME OrderInv, NEW day, VerifyDeadlines(day)
    PROVE  OrderInv'
<1>1. "calculate_deadlines" \in accepted
  BY MeansShow DEF OrderInv, VerifyDeadlines, AuthorityFrom, KnowledgeFrom, Actor
<1>2. QED
  BY <1>1, GrantingStep, ResolutionAssumption
  DEF VerifyDeadlines, AuthorityFrom, KnowledgeFrom, Rests, None

LEMMA PreservationInOrder ==
    ASSUME OrderInv, IssuePreservation
    PROVE  OrderInv'
<1>1. "open_matter" \in accepted
  BY MeansShow DEF OrderInv, IssuePreservation, AuthorityFrom, KnowledgeFrom, Actor
<1>2. QED
  BY <1>1, GrantingStep, ResolutionAssumption
  DEF IssuePreservation, AuthorityFrom, KnowledgeFrom, Rests, None

LEMMA CollectionInOrder ==
    ASSUME OrderInv, CollectEvidence
    PROVE  OrderInv'
<1>1. "issue_preservation" \in accepted
  BY MeansShow DEF OrderInv, CollectEvidence, AuthorityFrom, KnowledgeFrom, Actor
<1>2. /\ Grant(None, [responsible_lawyer   |-> {"collected_evidence"},
                   litigation_paralegal |-> {"collected_evidence"}])
      /\ Accept("collect_evidence")
      /\ UNCHANGED <<finance, outcome, conditions>>
  BY Zenon DEF CollectEvidence
<1>3. QED
  BY <1>1, <1>2, GrantingStep, ResolutionAssumption
  DEF AuthorityFrom, KnowledgeFrom, Rests, None

LEMMA ReviewInOrder ==
    ASSUME OrderInv, ReviewEvidence
    PROVE  OrderInv'
<1>1. "collect_evidence" \in accepted
  BY MeansShow DEF OrderInv, ReviewEvidence, AuthorityFrom, KnowledgeFrom, Actor
<1>2. /\ Grant(None, [responsible_lawyer   |-> {"review_complete"},
                   litigation_paralegal |-> {"review_complete"}])
      /\ Accept("review_evidence")
      /\ UNCHANGED <<finance, outcome, conditions>>
  BY Zenon DEF ReviewEvidence
<1>3. QED
  BY <1>1, <1>2, GrantingStep, ResolutionAssumption
  DEF AuthorityFrom, KnowledgeFrom, Rests, None

LEMMA ProductionInOrder ==
    ASSUME OrderInv, ProduceDiscovery
    PROVE  OrderInv'
<1>1. "review_evidence" \in accepted
  BY MeansShow DEF OrderInv, ProduceDiscovery, AuthorityFrom, KnowledgeFrom, Actor
<1>2. QED
  BY <1>1, GrantingStep, ResolutionAssumption
  DEF ProduceDiscovery, AuthorityFrom, KnowledgeFrom, Rests, None

LEMMA DepositionInOrder ==
    ASSUME OrderInv, TakeDeposition
    PROVE  OrderInv'
<1>1. "produce_discovery" \in accepted
  BY MeansShow DEF OrderInv, TakeDeposition, AuthorityFrom, KnowledgeFrom, Actor
<1>2. QED
  BY <1>1, GrantingStep, ResolutionAssumption
  DEF TakeDeposition, AuthorityFrom, KnowledgeFrom, Rests, None

LEMMA ExpertInOrder ==
    ASSUME OrderInv, RetainExpert
    PROVE  OrderInv'
<1>1. "take_deposition" \in accepted
  BY MeansShow DEF OrderInv, RetainExpert, AuthorityFrom, KnowledgeFrom, Actor
<1>2. QED
  BY <1>1, GrantingStep, ResolutionAssumption
  DEF RetainExpert, AuthorityFrom, KnowledgeFrom, Rests, None

(* The verbs that grant nothing. *)

LEMMA ResolutionInOrder ==
    ASSUME OrderInv, Resolve
    PROVE  OrderInv'
<1>1. "retain_expert" \in accepted
  BY MeansShow DEF OrderInv, Resolve, KnowledgeFrom, Actor
<1>2. MeansGranted'
  BY NothingGranted DEF OrderInv, Resolve
<1>3. StateEarned'
  BY DEF OrderInv, StateEarned, Resolve, Accept
<1>4. Resolution \notin DOMAIN Rests
  BY ResolutionAssumption DEF Rests
<1>5. WorkInOrder'
  BY <1>1, <1>4, AcceptInOrder DEF OrderInv, Resolve
<1>6. QED
  BY <1>2, <1>3, <1>5 DEF OrderInv

LEMMA CloseoutInOrder ==
    ASSUME OrderInv, FinalizeCloseout
    PROVE  OrderInv'
<1>1. "retain_expert" \in accepted
  BY MeansShow DEF OrderInv, FinalizeCloseout, KnowledgeFrom, Actor
<1>2. Resolution \in accepted
  BY DEF OrderInv, StateEarned, FinalizeCloseout
<1>3. MeansGranted'
  BY NothingGranted DEF OrderInv, FinalizeCloseout
<1>4. StateEarned'
  BY DEF OrderInv, StateEarned, FinalizeCloseout, Accept
<1>5. "finalize_closeout" # Resolution
  BY ResolutionAssumption
<1>6. Rests["finalize_closeout"] = {"retain_expert", Resolution}
  BY DEF Rests
<1>7. WorkInOrder'
  BY <1>1, <1>2, <1>5, <1>6, AcceptInOrder DEF OrderInv, FinalizeCloseout
<1>8. QED
  BY <1>3, <1>4, <1>7 DEF OrderInv

LEMMA CloseInOrder ==
    ASSUME OrderInv, CloseMatter
    PROVE  OrderInv'
<1>1. "finalize_closeout" \in accepted
  BY DEF OrderInv, StateEarned, CloseMatter, ClosingSteps
<1>2. MeansGranted'
  BY NothingGranted DEF OrderInv, CloseMatter
<1>3. StateEarned'
  BY StateKept DEF OrderInv, CloseMatter
<1>4. /\ "close_matter" # Resolution
      /\ Rests["close_matter"] = {"finalize_closeout"}
  BY ResolutionAssumption DEF Rests
<1>5. WorkInOrder'
  BY <1>1, <1>4, AcceptInOrder DEF OrderInv, CloseMatter
<1>6. QED
  BY <1>2, <1>3, <1>5 DEF OrderInv

LEMMA RecordInOrder ==
    ASSUME OrderInv, LedgerInv, NEW a \in Actor, NEW n \in Amount, RecordTime(a, n),
           UNCHANGED <<frontier, outcome, conditions>>
    PROVE  OrderInv'
<1>1. "open_matter" \in accepted
  BY MeansShow DEF OrderInv, RecordTime, AuthorityFrom
<1>2. MeansGranted'
  BY NothingGranted DEF OrderInv, RecordTime
<1>3. /\ finance'.submitted = finance.submitted
      /\ finance'.reduced = finance.reduced
  BY Zenon DEF LedgerInv, LedgerType, LedgerField, RecordTime, Record
<1>4. StateEarned'
  BY <1>3 DEF OrderInv, StateEarned, RecordTime, Accept
<1>5. "record_time" # Resolution /\ Rests["record_time"] = {"open_matter"}
  BY ResolutionAssumption DEF Rests
<1>6. WorkInOrder'
  BY <1>1, <1>5, AcceptInOrder DEF OrderInv, RecordTime
<1>7. QED
  BY <1>2, <1>4, <1>6 DEF OrderInv

LEMMA InvoiceInOrder ==
    ASSUME OrderInv, LedgerInv, SubmitInvoice, UNCHANGED <<frontier, outcome, conditions>>
    PROVE  OrderInv'
<1>1. "record_time" \in accepted
  BY DEF OrderInv, StateEarned, SubmitInvoice, Submit
<1>2. MeansGranted'
  BY NothingGranted DEF OrderInv, SubmitInvoice
<1>3. finance'.wip = 0 /\ finance'.reduced = finance.reduced
  BY Zenon DEF LedgerInv, LedgerType, LedgerField, SubmitInvoice, Submit
<1>4. StateEarned'
  BY <1>3 DEF OrderInv, StateEarned, SubmitInvoice, Accept
<1>5. "submit_invoice" # Resolution /\ Rests["submit_invoice"] = {"record_time"}
  BY ResolutionAssumption DEF Rests
<1>6. WorkInOrder'
  BY <1>1, <1>5, AcceptInOrder DEF OrderInv, SubmitInvoice
<1>7. QED
  BY <1>2, <1>4, <1>6 DEF OrderInv

LEMMA AuditInOrder ==
    ASSUME OrderInv, LedgerInv, NEW n \in Amount, CarrierAudit(n),
           UNCHANGED <<frontier, outcome, conditions>>
    PROVE  OrderInv'
<1>1. MeansGranted'
  BY NothingGranted DEF OrderInv, CarrierAudit
<1>2. finance'.wip = finance.wip /\ finance'.submitted = finance.submitted
  BY Zenon DEF LedgerInv, LedgerType, LedgerField, CarrierAudit, Audit
<1>3. StateEarned'
  BY <1>2 DEF OrderInv, StateEarned, CarrierAudit, Accept
<1>4. "carrier_audit" # Resolution /\ "carrier_audit" \notin DOMAIN Rests
  BY ResolutionAssumption DEF Rests
<1>5. WorkInOrder'
  BY <1>4, AcceptInOrder DEF OrderInv, CarrierAudit
<1>6. QED
  BY <1>1, <1>3, <1>5 DEF OrderInv

(* What an appeal recovers was reduced by an audit, and what an audit      *)
(* reduced had been invoiced.                                              *)
LEMMA AppealInOrder ==
    ASSUME OrderInv, LedgerInv, NEW n \in Amount, AppealReduction(n),
           UNCHANGED <<frontier, outcome, conditions>>
    PROVE  OrderInv'
<1>1. /\ n > 0 /\ n <= finance.reduced /\ n \in Nat
      /\ finance.reduced \in Nat /\ finance.submitted \in Nat
      /\ finance.approved \in Nat
      /\ finance.approved + finance.reduced <= finance.submitted
  BY LedgerAssumption
  DEF LedgerInv, LedgerType, LedgerField, LedgerSound, AppealReduction, Appeal
<1>2. finance.reduced > 0 /\ finance.submitted > 0
  BY <1>1
<1>3. "submit_invoice" \in accepted /\ "carrier_audit" \in accepted
  BY <1>2 DEF OrderInv, StateEarned
<1>4. MeansGranted'
  BY NothingGranted DEF OrderInv, AppealReduction
<1>5. finance'.wip = finance.wip /\ finance'.submitted = finance.submitted
  BY Zenon DEF LedgerInv, LedgerType, LedgerField, AppealReduction, Appeal
<1>6. StateEarned'
  BY <1>3, <1>5 DEF OrderInv, StateEarned, AppealReduction, Accept
<1>7. /\ "appeal_reduction" # Resolution
      /\ Rests["appeal_reduction"] = {"submit_invoice", "carrier_audit"}
  BY ResolutionAssumption DEF Rests
<1>8. WorkInOrder'
  BY <1>3, <1>7, AcceptInOrder DEF OrderInv, AppealReduction
<1>9. QED
  BY <1>4, <1>6, <1>8 DEF OrderInv

LEMMA PaymentInOrder ==
    ASSUME OrderInv, LedgerInv, NEW n \in Amount, ReceivePayment(n),
           UNCHANGED <<frontier, outcome, conditions>>
    PROVE  OrderInv'
<1>1. MeansGranted'
  BY NothingGranted DEF OrderInv, ReceivePayment
<1>2. /\ finance'.wip = finance.wip
      /\ finance'.submitted = finance.submitted
      /\ finance'.reduced = finance.reduced
  BY Zenon DEF LedgerInv, LedgerType, LedgerField, ReceivePayment, ApplyPayment
<1>3. StateEarned'
  BY <1>2 DEF OrderInv, StateEarned, ReceivePayment, Accept
<1>4. "apply_payment" # Resolution /\ "apply_payment" \notin DOMAIN Rests
  BY ResolutionAssumption DEF Rests
<1>5. WorkInOrder'
  BY <1>4, AcceptInOrder DEF OrderInv, ReceivePayment
<1>6. QED
  BY <1>1, <1>3, <1>5 DEF OrderInv

LEMMA BillInOrder ==
    ASSUME OrderInv, LedgerInv, Bill
    PROVE  OrderInv'
<1>1. UNCHANGED <<frontier, outcome, conditions>>
  BY DEF Bill
<1>2. QED
  BY <1>1, RecordInOrder, InvoiceInOrder, AuditInOrder, AppealInOrder, PaymentInOrder
  DEF Bill

LEMMA OrderStarts == Init => OrderInv
<1>1. SUFFICES ASSUME Init PROVE OrderInv
  OBVIOUS
<1>2. /\ authority = [a \in Actor |-> InitialAuthority(a)]
      /\ knowledge = [a \in Actor |-> InitialKnowledge(a)]
      /\ finance = EmptyLedger
      /\ ~outcome /\ conditions = {} /\ accepted = {}
  BY <1>1, Zenon DEF Init, LedgerInit
<1>3. ASSUME NEW a \in Actor
      PROVE  authority[a] \subseteq {"receive_referral", "carrier_audit"}
  BY <1>2 DEF InitialAuthority
<1>4. ASSUME NEW a \in Actor
      PROVE  knowledge[a] \subseteq {"referral_summary", "coverage_posture", "guidelines"}
  BY <1>2 DEF InitialKnowledge
<1>5. MeansGranted
  BY <1>3, <1>4 DEF MeansGranted, AuthorityFrom, KnowledgeFrom
<1>6. StateEarned
  BY <1>2 DEF StateEarned, EmptyLedger
<1>7. WorkInOrder
  BY <1>2 DEF WorkInOrder
<1>8. QED
  BY <1>5, <1>6, <1>7 DEF OrderInv

LEMMA StutterInOrder ==
    ASSUME OrderInv, UNCHANGED vars
    PROVE  OrderInv'
BY Zenon DEF vars, frontier, OrderInv, MeansGranted, StateEarned, WorkInOrder, Rests,
         AuthorityFrom, KnowledgeFrom

LEMMA OrderStep == LedgerInv /\ OrderInv /\ [Next]_vars => OrderInv'
<1>1. SUFFICES ASSUME LedgerInv, OrderInv, [Next]_vars PROVE OrderInv'
  OBVIOUS
<1>2. CASE \E day \in FiledDay : CalculateDeadlines(day) \/ VerifyDeadlines(day)
  BY <1>1, <1>2, CalculationInOrder, VerificationInOrder
<1>3. CASE Bill
  BY <1>1, <1>3, BillInOrder
<1>4. CASE UNCHANGED vars
  BY <1>1, <1>4, StutterInOrder
<1>5. QED
  BY <1>1, <1>2, <1>3, <1>4, IntakeInOrder, ConflictInOrder, GateInOrder,
     OpeningInOrder, PreservationInOrder, CollectionInOrder, ReviewInOrder,
     ProductionInOrder, DepositionInOrder, ExpertInOrder, ResolutionInOrder,
     CloseoutInOrder, CloseInOrder
  DEF Next

(* g2.py, submit() and _transition (BRN-002): although each verb checks    *)
(* only tokens and balances, no verb is accepted before the ones it rests  *)
(* on, whatever the actors try and however often they repeat it.           *)
THEOREM WorkStaysInOrder == Spec => []WorkInOrder
<1>1. Init => LedgerInv /\ OrderInv
  BY LedgerStartsSound, OrderStarts DEF Init
<1>2. LedgerInv /\ OrderInv /\ [Next]_vars => LedgerInv' /\ OrderInv'
  BY LedgerStepSound, OrderStep
<1>3. OrderInv => WorkInOrder
  BY DEF OrderInv
<1>4. QED
  BY <1>1, <1>2, <1>3, PTL DEF Spec

-----------------------------------------------------------------------------
(* What the kernel keeps, together. *)

KernelInv == LedgerInv /\ DeadlineInv /\ EvidenceInv /\ OrderInv

LEMMA KernelStarts == Init => KernelInv
BY LedgerStartsSound, DeadlinesStart, EvidenceStarts, OrderStarts DEF Init, KernelInv

LEMMA KernelStep == KernelInv /\ [Next]_vars => KernelInv'
BY LedgerStepSound, DeadlinesStep, EvidenceStep, OrderStep DEF KernelInv

-----------------------------------------------------------------------------
(* Cassettes.  What may be on one, and that playing it drives the kernel.  *)

Verb == {"receive_referral", "submit_conflict_result", "record_lawyer_gate", "open_matter",
         "calculate_deadlines", "verify_deadlines", "issue_preservation",
         "collect_evidence", "review_evidence", "produce_discovery", "take_deposition",
         "retain_expert", "record_time", "submit_invoice", "carrier_audit",
         "appeal_reduction", "apply_payment", "finalize_closeout", "close_matter",
         "read_oracle", Resolution}

WellMade(c) ==
    /\ c.verb \in Verb
    /\ c.verb \in {"calculate_deadlines", "verify_deadlines"} => c.value \in FiledDay
    /\ c.verb \in {"record_time", "carrier_audit", "appeal_reduction", "apply_payment"} =>
          c.value \in Amount

LEMMA PoliciesAre ==
    /\ DOMAIN VerbPolicies = Verb
    /\ \A v \in Verb \ {Resolution} : VerbPolicies[v] = CommonPolicies[v]
    /\ VerbPolicies[Resolution] = Lawyer("resolution", "expert_opinion")
<1>1. DOMAIN CommonPolicies = Verb \ {Resolution}
  BY ResolutionAssumption DEF CommonPolicies, Verb
<1>2. Resolution \in Verb
  BY DEF Verb
<1>3. QED
  BY <1>1, <1>2, Zenon DEF VerbPolicies

(* Only the opening takes the authority to open, and the lawyer has it; the *)
(* deadlines are verified by their reviewer.                                *)
LEMMA PoliciesSay ==
    /\ \A v \in Verb : "matter_opening" \in VerbPolicies[v].authority => v = "open_matter"
    /\ VerbPolicies["open_matter"].actors = {"responsible_lawyer"}
    /\ VerbPolicies["open_matter"].authority = {"matter_opening"}
    /\ VerbPolicies["verify_deadlines"].actors = {"deadline_reviewer"}
<1>1. \A v \in DOMAIN CommonPolicies :
          "matter_opening" \in CommonPolicies[v].authority => v = "open_matter"
  BY DEF CommonPolicies, Policy, Lawyer, Paralegal, Biller
<1>2. DOMAIN CommonPolicies = Verb \ {Resolution}
  BY ResolutionAssumption DEF CommonPolicies, Verb
<1>3. \A v \in Verb : "matter_opening" \in VerbPolicies[v].authority => v = "open_matter"
  <2>1. "matter_opening" \notin VerbPolicies[Resolution].authority
    BY PoliciesAre DEF Lawyer, Policy
  <2>2. QED
    BY <1>1, <1>2, <2>1, PoliciesAre
<1>4. {"open_matter", "verify_deadlines"} \subseteq Verb \ {Resolution}
  BY ResolutionAssumption DEF Verb
<1>5. /\ CommonPolicies["open_matter"] = Lawyer("matter_opening", "referral_summary")
      /\ CommonPolicies["verify_deadlines"].actors = {"deadline_reviewer"}
  BY DEF CommonPolicies, Policy
<1>6. QED
  BY <1>3, <1>4, <1>5, PoliciesAre DEF Lawyer, Policy

LEMMA WorkflowWellMade ==
    ASSUME NEW a \in DOMAIN Arm
    PROVE  /\ Workflow(a) \in Seq({c \in {Workflow(a)[i] : i \in 1..21} : WellMade(c)})
           /\ Len(Workflow(a)) = 21
<1>1. Len(Workflow(a)) = 21 /\ Workflow(a) \in Seq({Workflow(a)[i] : i \in 1..21})
  BY SMTT(60) DEF Workflow
<1>2. /\ Arm[a].lawyer \in Amount /\ Arm[a].paralegal \in Amount
      /\ Arm[a].reduction \in Amount /\ Arm[a].recovered \in Amount
      /\ Arm[a].lawyer + Arm[a].paralegal - Arm[a].reduction + Arm[a].recovered \in Amount
      /\ 0 \in FiledDay
  BY ArmAssumption
<1>3. ASSUME NEW i \in 1..21
      PROVE  WellMade(Workflow(a)[i])
  BY <1>2, ResolutionAssumption, SMTT(60) DEF Workflow, By, Command, WellMade, Verb
<1>4. QED
  BY <1>1, <1>3

LEMMA SubSeqOf ==
    ASSUME NEW S, NEW s \in Seq(S), Len(s) = 21
    PROVE  SubSeq(s, 1, 2) \in Seq(S) /\ SubSeq(s, 3, Len(s)) \in Seq(S)
<1>1. \A i \in 1..Len(s) : s[i] \in S
  BY ElementOfSeq
<1>2. (1..2 \subseteq 1..Len(s)) /\ (3..Len(s) \subseteq 1..Len(s)) /\ Len(s) \in Int
  OBVIOUS
<1>3. SubSeq(s, 1, 2) \in Seq(S)
  BY <1>1, <1>2, SubSeqProperties
<1>4. SubSeq(s, 3, Len(s)) \in Seq(S)
  BY <1>1, <1>2, SubSeqProperties
<1> QED BY <1>3, <1>4

LEMMA CassetteIs ==
    ASSUME NEW a \in DOMAIN Arm
    PROVE  \E S : Cassette[a] \in Seq(S) /\ \A e \in S : WellMade(e.command)
<1> DEFINE W == Workflow(a)
           good == {c \in {W[i] : i \in 1..21} : WellMade(c)}
           row == {Attempt(c, "accepted") : c \in good}
           gate == Attempt(By("responsible_lawyer", "open_matter"), "missing_authority")
           oracle == Attempt(By("responsible_lawyer", "read_oracle"), "oracle_boundary")
           all == row \cup {gate, oracle}
<1>1. W \in Seq(good) /\ Len(W) = 21
  BY WorkflowWellMade
<1>2. SubSeq(W, 1, 2) \in Seq(good) /\ SubSeq(W, 3, Len(W)) \in Seq(good)
  <2> HIDE DEF W, good
  <2> QED BY <1>1, SubSeqOf
<1>3. ASSUME NEW s \in Seq(good)
      PROVE  Accepted(s) \in Seq(all)
  <2> HIDE DEF W, good
  <2>1. \A i \in DOMAIN s : Attempt(s[i], "accepted") \in all
    OBVIOUS
  <2>2. DOMAIN s = 1..Len(s) /\ Len(s) \in Nat
    OBVIOUS
  <2> HIDE DEF all
  <2>3. QED
    BY <2>1, <2>2 DEF Accepted
<1>4. <<gate>> \in Seq(all) /\ <<oracle>> \in Seq(all)
  OBVIOUS
<1>5. Cassette[a] = Accepted(SubSeq(W, 1, 2)) \o <<gate>>
                    \o Accepted(SubSeq(W, 3, Len(W))) \o <<oracle>>
  BY DEF Cassette
<1>6. Cassette[a] \in Seq(all)
  <2> HIDE DEF W, good, all, gate, oracle
  <2>1. /\ Accepted(SubSeq(W, 1, 2)) \in Seq(all)
        /\ Accepted(SubSeq(W, 3, Len(W))) \in Seq(all)
    BY <1>2, <1>3
  <2> QED BY <2>1, <1>4, <1>5
<1>7. \A e \in all : WellMade(e.command)
  <2>1. WellMade(gate.command) /\ WellMade(oracle.command)
    BY ResolutionAssumption DEF WellMade, Attempt, By, Command, Verb
  <2>2. \A e \in row : WellMade(e.command)
    <3> HIDE DEF W
    <3> QED BY DEF Attempt
  <2> HIDE DEF row, gate, oracle
  <2> QED BY <2>1, <2>2
<1> QED
  <2> HIDE DEF all
  <2> QED BY <1>6, <1>7

LEMMA CommandsWellMade ==
    ASSUME NEW a \in DOMAIN Arm
    PROVE  \A c \in Commands[a] : WellMade(c)
<1>1. \A e \in ToSet(Cassette[a]) : WellMade(e.command)
  BY CassetteIs DEF ToSet
<1>2. \A day \in FiledDay :
          WellMade(Command("calculate_deadlines", "docketing_specialist", day, {}))
  BY ResolutionAssumption DEF WellMade, Command, Verb
<1> QED BY <1>1, <1>2 DEF Commands

(* What passes the gate and the transition is a command of the kernel. *)
LEMMA TransitionIsCommand ==
    ASSUME NEW c, WellMade(c), Denial(c) = "", Transition(c)
    PROVE  Next
<1>1. c.verb # "read_oracle"
  BY DEF Denial
<1>2. CASE c.verb \in {"record_time", "submit_invoice", "carrier_audit",
                       "appeal_reduction", "apply_payment"}
  <2>1. Books(c)
    BY <1>2, ResolutionAssumption DEF Transition
  <2>2. UNCHANGED <<frontier, holds, deadlines, record, outcome, conditions, closed>>
    BY <2>1 DEF Books
  <2>3. CASE c.verb = "record_time"
    <3>1. RecordTime(c.actor, c.value)
      BY <2>1, <2>3 DEF Books
    <3>2. c.actor \in Actor /\ c.value \in Amount
      BY <2>3, <3>1 DEF RecordTime, Actor, WellMade
    <3> QED BY <2>2, <3>1, <3>2, Zenon DEF Bill, Next
  <2>4. CASE c.verb = "submit_invoice"
    BY <2>1, <2>2, <2>4 DEF Books, Bill, Next
  <2>5. CASE c.verb = "carrier_audit"
    BY <2>1, <2>2, <2>5 DEF Books, Bill, Next, WellMade
  <2>6. CASE c.verb = "appeal_reduction"
    BY <2>1, <2>2, <2>6 DEF Books, Bill, Next, WellMade
  <2>7. CASE c.verb = "apply_payment"
    BY <2>1, <2>2, <2>7 DEF Books, Bill, Next, WellMade
  <2> QED BY <1>2, <2>3, <2>4, <2>5, <2>6, <2>7
<1>3. CASE c.verb \in {"calculate_deadlines", "verify_deadlines"}
  BY <1>3, ResolutionAssumption DEF Transition, Next, WellMade
<1>4. CASE c.verb \in {"receive_referral", "submit_conflict_result", "record_lawyer_gate",
                       "open_matter", "issue_preservation", "collect_evidence",
                       "review_evidence", "produce_discovery", "take_deposition",
                       "retain_expert", "finalize_closeout", "close_matter", Resolution}
  BY <1>4, ResolutionAssumption DEF Transition, Next
<1> QED BY <1>1, <1>2, <1>3, <1>4 DEF WellMade, Verb

(* Whatever passes is accepted under its own verb. *)
LEMMA TransitionAccepts ==
    ASSUME NEW c, WellMade(c), Denial(c) = "", Transition(c)
    PROVE  Accept(c.verb)
<1>1. c.verb # "read_oracle"
  BY DEF Denial
<1>2. CASE c.verb \in {"record_time", "submit_invoice", "carrier_audit",
                       "appeal_reduction", "apply_payment"}
  <2>1. Books(c)
    BY <1>2, ResolutionAssumption DEF Transition
  <2>2. QED
    BY <1>2, <2>1
    DEF Books, RecordTime, SubmitInvoice, CarrierAudit, AppealReduction, ReceivePayment
<1>3. CASE c.verb \in {"calculate_deadlines", "verify_deadlines"}
  BY <1>3, ResolutionAssumption DEF Transition, CalculateDeadlines, VerifyDeadlines
<1>4. CASE c.verb \in {"receive_referral", "submit_conflict_result", "record_lawyer_gate",
                       "open_matter"}
  BY <1>4, ResolutionAssumption, Zenon
  DEF Transition, ReceiveReferral, SubmitConflictResult, RecordLawyerGate, OpenMatter
<1>5. CASE c.verb \in {"issue_preservation", "collect_evidence", "review_evidence",
                       "produce_discovery"}
  BY <1>5, ResolutionAssumption
  DEF Transition, IssuePreservation, CollectEvidence, ReviewEvidence, ProduceDiscovery
<1>6. CASE c.verb \in {"take_deposition", "retain_expert", "finalize_closeout",
                       "close_matter", Resolution}
  BY <1>6, ResolutionAssumption
  DEF Transition, TakeDeposition, RetainExpert, FinalizeCloseout, CloseMatter, Resolve
<1> QED BY <1>1, <1>2, <1>3, <1>4, <1>5, <1>6 DEF WellMade, Verb

-----------------------------------------------------------------------------
(* What playing one attempt comes to. *)

Refused(c) ==
    /\ Denial(c) # ""
    /\ denials' = Append(denials, [verb |-> c.verb, reason |-> Denial(c),
                                   missing |-> MissingAuthority(c), after |-> Len(events)])
    /\ UNCHANGED <<vars, events>>

Taken(c) ==
    /\ Denial(c) = ""
    /\ Transition(c)
    /\ events' = Append(events, c)
    /\ UNCHANGED denials

LEMMA PlayIs ==
    ASSUME NEW e, Play(e)
    PROVE  Refused(e.command) \/ Taken(e.command) \/ UNCHANGED <<vars, events, denials>>
<1>1. CASE Deny(e)
  BY <1>1, Zenon DEF Deny, Refused
<1>2. CASE Reject(e)
  BY <1>2, Zenon DEF Reject
<1>3. CASE Submits(e)
  BY <1>3, Zenon DEF Submits, Taken
<1> QED BY <1>1, <1>2, <1>3, Zenon DEF Play

LEMMA TapeStepIs ==
    ASSUME arm \in DOMAIN Arm, next \in Nat \ {0}, TapeNext
    PROVE  /\ arm' = arm /\ next' \in Nat \ {0}
           /\ \/ \E c \in Commands[arm] : Refused(c)
              \/ \E c \in Commands[arm] : Taken(c)
              \/ UNCHANGED <<vars, events, denials>>
<1>1. CASE PlayNext
  <2>1. PICK S : Cassette[arm] \in Seq(S)
    BY CassetteIs
  <2>2. next \in DOMAIN Cassette[arm]
    BY <1>1, <2>1 DEF PlayNext, ToCome
  <2>3. Cassette[arm][next].command \in Commands[arm]
    BY <2>2, Zenon DEF Commands, ToSet
  <2>4. Play(Cassette[arm][next]) /\ arm' = arm /\ next' = next + 1
    BY <1>1, Zenon DEF PlayNext
  <2> QED BY <2>3, <2>4, PlayIs
<1>2. CASE LeaveOut
  BY <1>2 DEF LeaveOut
<1>3. CASE Add
  <2>1. PICK c \in Commands[arm] : \E expected : Play(Attempt(c, expected))
    BY <1>3, Zenon DEF Add
  <2>2. PICK expected : Play(Attempt(c, expected))
    BY <2>1
  <2>3. Attempt(c, expected).command = c
    BY DEF Attempt
  <2>4. Refused(c) \/ Taken(c) \/ UNCHANGED <<vars, events, denials>>
    BY <2>2, <2>3, PlayIs
  <2>5. arm' = arm /\ next' = next
    BY <1>3, Zenon DEF Add
  <2> QED BY <2>4, <2>5
<1> QED BY <1>1, <1>2, <1>3 DEF TapeNext

Played == arm \in DOMAIN Arm /\ next \in Nat \ {0}

LEMMA PlayedStays == Played /\ [TapeNext]_<<vars, tapeVars>> => Played'
<1>1. SUFFICES ASSUME Played, TapeNext PROVE Played'
  BY DEF Played, tapeVars
<1>2. arm' = arm /\ next' \in Nat \ {0}
  BY <1>1, TapeStepIs DEF Played
<1> QED BY <1>1, <1>2 DEF Played

LEMMA PlayedDrives == Played /\ [TapeNext]_<<vars, tapeVars>> => [Next]_vars
<1>1. SUFFICES ASSUME Played, TapeNext PROVE [Next]_vars
  OBVIOUS
<1>2. CASE \E c \in Commands[arm] : Refused(c)
  BY <1>2, Zenon DEF Refused
<1>3. CASE \E c \in Commands[arm] : Taken(c)
  BY <1>1, <1>3, CommandsWellMade, TransitionIsCommand DEF Taken, Played
<1> QED BY <1>1, <1>2, <1>3, TapeStepIs DEF Played

(* g2.py, _execute_serialized_cassette: whatever was put on the cassette   *)
(* or left out of it, playing it is a behaviour of the kernel, so all that *)
(* the kernel keeps holds of every recorded run.                           *)
THEOREM CassetteDrivesKernel == TapeSpec => Spec
<1>1. TapeInit => Init /\ Played
  BY DEF TapeInit, Played
<1>2. Played /\ [TapeNext]_<<vars, tapeVars>> => Played'
  BY PlayedStays
<1>3. Played /\ [TapeNext]_<<vars, tapeVars>> => [Next]_vars
  BY PlayedDrives
<1> QED BY <1>1, <1>2, <1>3, PTL DEF TapeSpec, Spec

-----------------------------------------------------------------------------
(* Where a verb was first and last accepted. *)

LEMMA LeastExists ==
    ASSUME NEW T, T \subseteq Nat, T # {}
    PROVE  \E x \in T : \A y \in T : x <= y
<1>1. PICK x \in T : \A y \in T : ~(<<y, x>> \in OpToRel(<, Nat))
  BY WFMin, NatLessThanWellFounded
<1>2. \A y \in T : ~(y < x)
  BY <1>1 DEF OpToRel
<1> QED BY <1>2

LEMMA GreatestExists ==
    ASSUME NEW n \in Nat, NEW T, T \subseteq 0..n, T # {}
    PROVE  \E x \in T : \A y \in T : x >= y
<1> DEFINE M == {n - y : y \in T}
<1>1. M \subseteq Nat /\ M # {}
  <2>1. \A y \in T : n - y \in Nat
    OBVIOUS
  <2> QED BY <2>1
<1>2. PICK m \in M : \A k \in M : m <= k
  <2> HIDE DEF M
  <2> QED BY <1>1, LeastExists
<1>3. PICK x \in T : m = n - x
  BY <1>2
<1>4. ASSUME NEW y \in T
      PROVE  x >= y
  <2>1. m <= n - y
    BY <1>2
  <2> QED BY <1>3, <2>1
<1> QED BY <1>4

FirstAt(es, verb) == SelectInSeq(es, LAMBDA c : c.verb = verb)

LastAt(es, verb) == SelectLastInSeq(es, LAMBDA c : c.verb = verb)

At(es, verb) == {i \in 1..Len(es) : es[i].verb = verb}

LEMMA FirstAtIs ==
    ASSUME NEW C, NEW es \in Seq(C), NEW verb
    PROVE  \/ FirstAt(es, verb) = 0 /\ At(es, verb) = {}
           \/ /\ FirstAt(es, verb) \in At(es, verb)
              /\ \A i \in At(es, verb) : FirstAt(es, verb) <= i
<1> DEFINE I == {i \in 1..Len(es) : es[i].verb = verb}
<1>1. FirstAt(es, verb) = IF I # {} THEN CHOOSE x \in I : \A y \in I : x <= y ELSE 0
  BY DEF FirstAt, SelectInSeq, Min
<1>2. I \subseteq Nat
  OBVIOUS
<1>3. At(es, verb) = I
  BY DEF At
<1> HIDE DEF I
<1>4. CASE I # {}
  BY <1>1, <1>2, <1>3, <1>4, LeastExists
<1> QED BY <1>1, <1>3, <1>4

LEMMA LastAtIs ==
    ASSUME NEW C, NEW es \in Seq(C), NEW verb
    PROVE  \/ LastAt(es, verb) = 0 /\ At(es, verb) = {}
           \/ /\ LastAt(es, verb) \in At(es, verb)
              /\ \A i \in At(es, verb) : LastAt(es, verb) >= i
<1> DEFINE I == {i \in 1..Len(es) : es[i].verb = verb}
<1>1. LastAt(es, verb) = IF I # {} THEN CHOOSE x \in I : \A y \in I : x >= y ELSE 0
  BY DEF LastAt, SelectLastInSeq, Max
<1>2. I \subseteq 0..Len(es) /\ Len(es) \in Nat
  OBVIOUS
<1>3. At(es, verb) = I
  BY DEF At
<1> HIDE DEF I
<1>4. CASE I # {}
  BY <1>1, <1>2, <1>3, <1>4, GreatestExists
<1> QED BY <1>1, <1>3, <1>4

LEMMA AtAppend ==
    ASSUME NEW C, NEW es \in Seq(C), NEW c \in C, NEW verb
    PROVE  /\ Append(es, c) \in Seq(C)
           /\ At(es, verb) \subseteq 1..Len(es) /\ Len(es) \in Nat
           /\ At(Append(es, c), verb) =
                 At(es, verb) \cup (IF c.verb = verb THEN {Len(es) + 1} ELSE {})
<1>1. /\ Append(es, c) \in Seq(C) /\ Len(Append(es, c)) = Len(es) + 1
      /\ \A i \in 1..Len(es) : Append(es, c)[i] = es[i]
      /\ Append(es, c)[Len(es) + 1] = c
      /\ Len(es) \in Nat
  OBVIOUS
<1> DEFINE fs == Append(es, c)
<1> HIDE DEF fs
<1>2. At(fs, verb) = At(es, verb) \cup (IF c.verb = verb THEN {Len(es) + 1} ELSE {})
  BY <1>1 DEF At, fs
<1> QED BY <1>1, <1>2 DEF At, fs

LEMMA AppendFirst ==
    ASSUME NEW C, NEW es \in Seq(C), NEW c \in C, NEW verb
    PROVE  /\ FirstAt(es, verb) \in 0..Len(es)
           /\ FirstAt(Append(es, c), verb) =
                 IF FirstAt(es, verb) # 0 THEN FirstAt(es, verb)
                 ELSE IF c.verb = verb THEN Len(es) + 1 ELSE 0
<1> DEFINE f == FirstAt(es, verb)
           g == FirstAt(Append(es, c), verb)
<1>1. \/ f = 0 /\ At(es, verb) = {}
      \/ f \in At(es, verb) /\ \A i \in At(es, verb) : f <= i
  BY FirstAtIs
<1>2. \/ g = 0 /\ At(Append(es, c), verb) = {}
      \/ g \in At(Append(es, c), verb) /\ \A i \in At(Append(es, c), verb) : g <= i
  BY FirstAtIs, AtAppend
<1>3. /\ At(es, verb) \subseteq 1..Len(es) /\ Len(es) \in Nat
      /\ At(Append(es, c), verb) =
            At(es, verb) \cup (IF c.verb = verb THEN {Len(es) + 1} ELSE {})
  BY AtAppend
<1> HIDE DEF f, g
<1>4. CASE c.verb = verb
  BY <1>1, <1>2, <1>3, <1>4 DEF f, g
<1>5. CASE c.verb # verb
  BY <1>1, <1>2, <1>3, <1>5 DEF f, g
<1> QED BY <1>4, <1>5

LEMMA AppendLast ==
    ASSUME NEW C, NEW es \in Seq(C), NEW c \in C, NEW verb
    PROVE  /\ LastAt(es, verb) \in 0..Len(es)
           /\ LastAt(Append(es, c), verb) =
                 IF c.verb = verb THEN Len(es) + 1 ELSE LastAt(es, verb)
<1> DEFINE f == LastAt(es, verb)
           g == LastAt(Append(es, c), verb)
<1>1. \/ f = 0 /\ At(es, verb) = {}
      \/ f \in At(es, verb) /\ \A i \in At(es, verb) : f >= i
  BY LastAtIs
<1>2. \/ g = 0 /\ At(Append(es, c), verb) = {}
      \/ g \in At(Append(es, c), verb) /\ \A i \in At(Append(es, c), verb) : g >= i
  BY LastAtIs, AtAppend
<1>3. /\ At(es, verb) \subseteq 1..Len(es) /\ Len(es) \in Nat
      /\ At(Append(es, c), verb) =
            At(es, verb) \cup (IF c.verb = verb THEN {Len(es) + 1} ELSE {})
  BY AtAppend
<1> HIDE DEF f, g
<1>4. CASE c.verb = verb
  <2>1. At(Append(es, c), verb) = At(es, verb) \cup {Len(es) + 1}
    BY <1>3, <1>4
  <2>2. g \in At(es, verb) \cup {Len(es) + 1} /\ g >= Len(es) + 1
    BY <1>2, <2>1
  <2>3. g = Len(es) + 1
    BY <1>3, <2>2
  <2>4. f \in 0..Len(es)
    BY <1>1, <1>3
  <2> QED BY <1>4, <2>3, <2>4 DEF f, g
<1>5. CASE c.verb # verb
  BY <1>1, <1>2, <1>3, <1>5 DEF f, g
<1> QED BY <1>4, <1>5

-----------------------------------------------------------------------------
(* The verbs that move the state that the auditor's promises are about.    *)

LEMMA DeadlinesBy ==
    ASSUME NEW c, WellMade(c), Denial(c) = "", Transition(c)
    PROVE  \/ c.verb = "calculate_deadlines" /\ CalculateDeadlines(c.value)
           \/ c.verb = "verify_deadlines" /\ VerifyDeadlines(c.value)
           \/ c.verb \notin {"calculate_deadlines", "verify_deadlines"} /\ UNCHANGED deadlines
<1>1. c.verb # "read_oracle"
  BY DEF Denial
<1>2. CASE c.verb \in {"record_time", "submit_invoice", "carrier_audit",
                       "appeal_reduction", "apply_payment"}
  BY <1>2, ResolutionAssumption DEF Transition, Books
<1>3. CASE c.verb \in {"calculate_deadlines", "verify_deadlines"}
  BY <1>3, ResolutionAssumption DEF Transition
<1>4. CASE c.verb \in {"receive_referral", "submit_conflict_result", "record_lawyer_gate",
                       "open_matter"}
  BY <1>4, ResolutionAssumption, Zenon
  DEF Transition, ReceiveReferral, SubmitConflictResult, RecordLawyerGate, OpenMatter
<1>5. CASE c.verb \in {"issue_preservation", "collect_evidence", "review_evidence",
                       "produce_discovery"}
  BY <1>5, ResolutionAssumption
  DEF Transition, IssuePreservation, CollectEvidence, ReviewEvidence, ProduceDiscovery
<1>6. CASE c.verb \in {"take_deposition", "retain_expert", "finalize_closeout",
                       "close_matter", Resolution}
  BY <1>6, ResolutionAssumption
  DEF Transition, TakeDeposition, RetainExpert, FinalizeCloseout, CloseMatter, Resolve
<1> QED BY <1>1, <1>2, <1>3, <1>4, <1>5, <1>6 DEF WellMade, Verb

EvidenceVerb == {"issue_preservation", "collect_evidence", "review_evidence",
                 "produce_discovery"}

LEMMA EvidenceBy ==
    ASSUME NEW c, WellMade(c), Denial(c) = "", Transition(c)
    PROVE  \/ c.verb = "issue_preservation" /\ IssuePreservation
           \/ c.verb = "collect_evidence" /\ CollectEvidence
           \/ c.verb = "review_evidence" /\ ReviewEvidence
           \/ c.verb = "produce_discovery" /\ ProduceDiscovery
           \/ c.verb \notin EvidenceVerb /\ UNCHANGED <<evidence, produced>>
<1>1. c.verb # "read_oracle"
  BY DEF Denial
<1>2. CASE c.verb \in {"record_time", "submit_invoice", "carrier_audit",
                       "appeal_reduction", "apply_payment"}
  BY <1>2, ResolutionAssumption DEF Transition, Books, EvidenceVerb, record
<1>3. CASE c.verb \in {"calculate_deadlines", "verify_deadlines"}
  BY <1>3, ResolutionAssumption
  DEF Transition, CalculateDeadlines, VerifyDeadlines, EvidenceVerb, record
<1>4. CASE c.verb \in {"receive_referral", "submit_conflict_result", "record_lawyer_gate",
                       "open_matter"}
  <2>1. UNCHANGED record
    BY <1>4, ResolutionAssumption, Zenon
    DEF Transition, ReceiveReferral, SubmitConflictResult, RecordLawyerGate, OpenMatter
  <2> QED BY <1>4, <2>1 DEF EvidenceVerb, record
<1>5. CASE c.verb \in {"issue_preservation", "collect_evidence", "review_evidence",
                       "produce_discovery"}
  BY <1>5, ResolutionAssumption, Zenon DEF Transition
<1>6. CASE c.verb \in {"take_deposition", "retain_expert", "finalize_closeout",
                       "close_matter", Resolution}
  BY <1>6, ResolutionAssumption
  DEF Transition, TakeDeposition, RetainExpert, FinalizeCloseout, CloseMatter, Resolve,
      EvidenceVerb, record
<1> QED BY <1>1, <1>2, <1>3, <1>4, <1>5, <1>6 DEF WellMade, Verb

LEMMA ClosedBy ==
    ASSUME NEW c, WellMade(c), Denial(c) = "", Transition(c)
    PROVE  \/ c.verb = "close_matter" /\ CloseMatter
           \/ c.verb # "close_matter" /\ UNCHANGED closed
<1>1. c.verb # "read_oracle"
  BY DEF Denial
<1>2. CASE c.verb \in {"record_time", "submit_invoice", "carrier_audit",
                       "appeal_reduction", "apply_payment"}
  BY <1>2, ResolutionAssumption DEF Transition, Books
<1>3. CASE c.verb \in {"calculate_deadlines", "verify_deadlines"}
  BY <1>3, ResolutionAssumption DEF Transition, CalculateDeadlines, VerifyDeadlines
<1>4. CASE c.verb \in {"receive_referral", "submit_conflict_result", "record_lawyer_gate",
                       "open_matter"}
  BY <1>4, ResolutionAssumption, Zenon
  DEF Transition, ReceiveReferral, SubmitConflictResult, RecordLawyerGate, OpenMatter
<1>5. CASE c.verb \in {"issue_preservation", "collect_evidence", "review_evidence",
                       "produce_discovery"}
  BY <1>5, ResolutionAssumption
  DEF Transition, IssuePreservation, CollectEvidence, ReviewEvidence, ProduceDiscovery
<1>6. CASE c.verb \in {"take_deposition", "retain_expert", "finalize_closeout",
                       "close_matter", Resolution}
  BY <1>6, ResolutionAssumption
  DEF Transition, TakeDeposition, RetainExpert, FinalizeCloseout, CloseMatter, Resolve
<1> QED BY <1>1, <1>2, <1>3, <1>4, <1>5, <1>6 DEF WellMade, Verb

(* No authority is ever taken back. *)
LEMMA GrantGrows ==
    ASSUME NEW auth, NEW known, Grant(auth, known)
    PROVE  \A a \in Actor : authority[a] \subseteq authority'[a]
BY Zenon DEF Grant

LEMMA AuthorityGrows ==
    ASSUME [Next]_vars, NEW a \in Actor
    PROVE  authority[a] \subseteq authority'[a]
<1>1. CASE UNCHANGED authority
  BY <1>1
<1>2. CASE \E auth, known : Grant(auth, known)
  BY <1>2, GrantGrows
<1>3. CASE Resolve \/ Bill \/ FinalizeCloseout \/ CloseMatter \/ UNCHANGED vars
  BY <1>1, <1>3 DEF Resolve, Bill, FinalizeCloseout, CloseMatter, vars, frontier
<1>4. CASE \E day \in FiledDay : CalculateDeadlines(day) \/ VerifyDeadlines(day)
  BY <1>2, <1>4, Zenon DEF CalculateDeadlines, VerifyDeadlines
<1>5. CASE ReceiveReferral \/ SubmitConflictResult \/ RecordLawyerGate \/ OpenMatter
  BY <1>2, <1>5, Zenon
  DEF ReceiveReferral, SubmitConflictResult, RecordLawyerGate, OpenMatter
<1>6. CASE IssuePreservation \/ CollectEvidence \/ ReviewEvidence \/ ProduceDiscovery
  BY <1>2, <1>6, Zenon
  DEF IssuePreservation, CollectEvidence, ReviewEvidence, ProduceDiscovery
<1>7. CASE TakeDeposition \/ RetainExpert
  BY <1>2, <1>7, Zenon DEF TakeDeposition, RetainExpert
<1> QED BY <1>3, <1>4, <1>5, <1>6, <1>7, Zenon DEF Next

-----------------------------------------------------------------------------
(* What a recorded run shows of the matter, whatever was on the cassette.  *)

TapeTyped ==
    /\ Played
    /\ events \in Seq(Commands[arm])
    /\ accepted = AllEvents
    /\ \A i \in 1..Len(events) : events[i].actor \in VerbPolicies[events[i].verb].actors
    /\ \E S : denials \in Seq(S)

(* The consent gave the lawyer the authority that an early opening lacked. *)
ConsentGrants ==
    FirstAt(events, "record_lawyer_gate") # 0 =>
        "matter_opening" \in authority["responsible_lawyer"]

RefusedEarly ==
    \A i \in DOMAIN denials :
        denials[i].reason = "missing_authority" /\ "matter_opening" \in denials[i].missing =>
            /\ denials[i].verb = "open_matter"
            /\ denials[i].after \in 0..Len(events)
            /\ \/ FirstAt(events, "record_lawyer_gate") = 0
               \/ denials[i].after < FirstAt(events, "record_lawyer_gate")

VerificationIsLast ==
    deadlines.secondary # "" =>
        /\ 0 < LastAt(events, "calculate_deadlines")
        /\ LastAt(events, "calculate_deadlines") < LastAt(events, "verify_deadlines")

CustodyStep == {"created", "collected", "hashed", "reviewed", "produced"}

(* What an artifact's status says of the steps that were last taken. *)
Stands(item) ==
    LET preserve == LastAt(events, "issue_preservation")
        collect  == LastAt(events, "collect_evidence")
        review   == LastAt(events, "review_evidence")
        produce  == LastAt(events, "produce_discovery")
    IN  /\ item.status \in {"unknown", "preserved", "collected", "reviewed",
                            "withheld_nonresponsive", "produced"}
        /\ item.custody \in Seq(CustodyStep)
        /\ item.status # "produced" => "produced" \notin ToSet(item.custody)
        /\ item.status = "preserved" => 0 < preserve
        /\ item.status \in {"collected", "reviewed", "produced"} =>
              0 < preserve /\ preserve < collect
        /\ item.status \in {"reviewed", "produced"} => collect < review
        /\ item.status = "produced" => review < produce

EvidenceStands == \A a \in Artifact : Stands(evidence[a])

CloseoutFirst ==
    closed =>
        /\ 0 < FirstAt(events, "finalize_closeout")
        /\ FirstAt(events, "finalize_closeout") < LastAt(events, "close_matter")

RunInv ==
    /\ KernelInv /\ TapeTyped
    /\ ConsentGrants /\ RefusedEarly
    /\ VerificationIsLast /\ EvidenceStands /\ CloseoutFirst

-----------------------------------------------------------------------------
(* How one more event moves the places. *)

LEMMA NewPlaces ==
    ASSUME TapeTyped, NEW c \in Commands[arm], Taken(c), NEW verb
    PROVE  /\ FirstAt(events, verb) \in 0..Len(events)
           /\ LastAt(events, verb) \in 0..Len(events)
           /\ Len(events) \in Nat /\ Len(events') = Len(events) + 1
           /\ FirstAt(events', verb) =
                 IF FirstAt(events, verb) # 0 THEN FirstAt(events, verb)
                 ELSE IF c.verb = verb THEN Len(events) + 1 ELSE 0
           /\ LastAt(events', verb) =
                 IF c.verb = verb THEN Len(events) + 1 ELSE LastAt(events, verb)
<1>1. events' = Append(events, c) /\ events \in Seq(Commands[arm])
  BY DEF Taken, TapeTyped
<1>2. Len(events) \in Nat /\ Len(events') = Len(events) + 1
  BY <1>1
<1>3. /\ FirstAt(events, verb) \in 0..Len(events)
      /\ FirstAt(events', verb) =
            IF FirstAt(events, verb) # 0 THEN FirstAt(events, verb)
            ELSE IF c.verb = verb THEN Len(events) + 1 ELSE 0
  BY <1>1, AppendFirst, Zenon
<1>4. /\ LastAt(events, verb) \in 0..Len(events)
      /\ LastAt(events', verb) =
            IF c.verb = verb THEN Len(events) + 1 ELSE LastAt(events, verb)
  BY <1>1, AppendLast, Zenon
<1> QED BY <1>2, <1>3, <1>4

LEMMA AcceptedHasPlace ==
    ASSUME TapeTyped, NEW verb \in accepted
    PROVE  /\ FirstAt(events, verb) \in 1..Len(events)
           /\ LastAt(events, verb) \in 1..Len(events)
<1>1. events \in Seq(Commands[arm]) /\ verb \in {events[i].verb : i \in DOMAIN events}
  BY DEF TapeTyped, AllEvents
<1>2. At(events, verb) # {} /\ At(events, verb) \subseteq 1..Len(events)
  BY <1>1 DEF At
<1> QED BY <1>1, <1>2, FirstAtIs, LastAtIs

LEMMA TakenIsStep ==
    ASSUME Played, NEW c \in Commands[arm], Taken(c)
    PROVE  WellMade(c) /\ Next /\ Accept(c.verb)
BY CommandsWellMade, TransitionIsCommand, TransitionAccepts DEF Taken, Played

-----------------------------------------------------------------------------
(* Each part is kept by what is taken, ... *)

LEMMA TakenTyped ==
    ASSUME TapeTyped, NEW c \in Commands[arm], Taken(c), Played', arm' = arm
    PROVE  TapeTyped'
<1>1. accepted' = accepted \cup {c.verb}
  BY TakenIsStep DEF TapeTyped, Accept
<1>2. /\ events' = Append(events, c) /\ events \in Seq(Commands[arm])
      /\ accepted = {events[i].verb : i \in DOMAIN events}
      /\ c.actor \in VerbPolicies[c.verb].actors
      /\ \A i \in 1..Len(events) : events[i].actor \in VerbPolicies[events[i].verb].actors
  BY DEF Taken, TapeTyped, Denial, AllEvents
<1>3. /\ events' \in Seq(Commands[arm]) /\ DOMAIN events' = 1..Len(events) + 1
      /\ Len(events') = Len(events) + 1 /\ Len(events) \in Nat
      /\ DOMAIN events = 1..Len(events)
      /\ \A i \in 1..Len(events) : events'[i] = events[i]
      /\ events'[Len(events) + 1] = c
  BY <1>2
<1>4. \A i \in 1..Len(events') : events'[i].actor \in VerbPolicies[events'[i].verb].actors
  BY <1>2, <1>3
<1>5. accepted' = {events'[i].verb : i \in DOMAIN events'}
  <2>1. \A i \in DOMAIN events' : i \in DOMAIN events \/ i = Len(events) + 1
    BY <1>3
  <2>2. Len(events) + 1 \in DOMAIN events' /\ DOMAIN events \subseteq DOMAIN events'
    BY <1>3
  <2> QED BY <1>1, <1>2, <1>3, <2>1, <2>2, ZenonT(60)
<1>6. \E S : denials' \in Seq(S)
  BY DEF Taken, TapeTyped
<1>7. VerbPolicies' = VerbPolicies /\ Commands' = Commands
  BY DEF VerbPolicies, CommonPolicies, Policy, Lawyer, Paralegal, Biller, Commands
<1> QED BY <1>3, <1>4, <1>5, <1>6, <1>7 DEF TapeTyped, AllEvents

LEMMA TakenConsent ==
    ASSUME TapeTyped, ConsentGrants, NEW c \in Commands[arm], Taken(c)
    PROVE  ConsentGrants'
<1>1. authority["responsible_lawyer"] \subseteq authority'["responsible_lawyer"]
  BY TakenIsStep, AuthorityGrows DEF TapeTyped, Actor
<1>2. CASE c.verb = "record_lawyer_gate"
  <2>1. RecordLawyerGate
    BY <1>2, ResolutionAssumption DEF Taken, Transition
  <2>2. "matter_opening" \in authority'["responsible_lawyer"]
    BY <2>1 DEF RecordLawyerGate, Grant, Actor
  <2> QED BY <2>2 DEF ConsentGrants
<1>3. CASE c.verb # "record_lawyer_gate"
  BY <1>1, <1>3, NewPlaces DEF ConsentGrants
<1> QED BY <1>2, <1>3

LEMMA TakenRefusals ==
    ASSUME TapeTyped, RefusedEarly, NEW c \in Commands[arm], Taken(c)
    PROVE  RefusedEarly'
<1>1. denials' = denials
  BY DEF Taken
<1>2. LET gate == FirstAt(events, "record_lawyer_gate")
          gate2 == FirstAt(events', "record_lawyer_gate")
      IN  /\ Len(events) \in Nat /\ Len(events') = Len(events) + 1
          /\ gate2 = gate \/ gate2 = Len(events) + 1
  BY NewPlaces
<1>3. ASSUME NEW i \in DOMAIN denials,
             denials[i].reason = "missing_authority",
             "matter_opening" \in denials[i].missing
      PROVE  /\ denials[i].verb = "open_matter"
             /\ denials[i].after \in 0..Len(events')
             /\ \/ FirstAt(events', "record_lawyer_gate") = 0
                \/ denials[i].after < FirstAt(events', "record_lawyer_gate")
  BY <1>2, <1>3 DEF RefusedEarly
<1> QED BY <1>1, <1>3 DEF RefusedEarly

LEMMA TakenVerification ==
    ASSUME TapeTyped, KernelInv, VerificationIsLast, NEW c \in Commands[arm], Taken(c)
    PROVE  VerificationIsLast'
<1>1. WellMade(c) /\ Denial(c) = "" /\ Transition(c)
  BY TakenIsStep DEF Taken, TapeTyped
<1>2. CASE c.verb = "calculate_deadlines" /\ CalculateDeadlines(c.value)
  <2>1. deadlines'.secondary = ""
    BY <1>2 DEF CalculateDeadlines, KernelInv, DeadlineInv, DeadlinesType
  <2> QED BY <2>1 DEF VerificationIsLast
<1>3. CASE c.verb = "verify_deadlines" /\ VerifyDeadlines(c.value)
  <2>1. "calculate_deadlines" \in accepted
    BY <1>3, MeansShow
    DEF KernelInv, OrderInv, VerifyDeadlines, AuthorityFrom, KnowledgeFrom, Actor
  <2>2. LastAt(events, "calculate_deadlines") \in 1..Len(events)
    BY <2>1, AcceptedHasPlace
  <2>3. /\ LastAt(events', "calculate_deadlines") = LastAt(events, "calculate_deadlines")
        /\ LastAt(events', "verify_deadlines") = Len(events) + 1
        /\ Len(events) \in Nat
    BY <1>3, NewPlaces
  <2>4. /\ 0 < LastAt(events', "calculate_deadlines")
        /\ LastAt(events', "calculate_deadlines") < LastAt(events', "verify_deadlines")
    BY <2>2, <2>3
  <2> QED BY <2>4 DEF VerificationIsLast
<1>4. CASE c.verb \notin {"calculate_deadlines", "verify_deadlines"} /\ UNCHANGED deadlines
  BY <1>4, NewPlaces DEF VerificationIsLast
<1> QED BY <1>1, <1>2, <1>3, <1>4, DeadlinesBy

LEMMA TakenCloseout ==
    ASSUME TapeTyped, KernelInv, CloseoutFirst, NEW c \in Commands[arm], Taken(c)
    PROVE  CloseoutFirst'
<1>1. WellMade(c) /\ Denial(c) = "" /\ Transition(c)
  BY TakenIsStep DEF Taken, TapeTyped
<1>2. CASE c.verb = "close_matter" /\ CloseMatter
  <2>1. "finalize_closeout" \in accepted
    BY <1>2 DEF KernelInv, OrderInv, StateEarned, CloseMatter, ClosingSteps
  <2>2. FirstAt(events, "finalize_closeout") \in 1..Len(events)
    BY <2>1, AcceptedHasPlace
  <2>3. /\ FirstAt(events', "finalize_closeout") = FirstAt(events, "finalize_closeout")
        /\ LastAt(events', "close_matter") = Len(events) + 1
        /\ Len(events) \in Nat
    BY <1>2, <2>2, NewPlaces
  <2> QED BY <2>2, <2>3 DEF CloseoutFirst
<1>3. CASE c.verb # "close_matter" /\ UNCHANGED closed
  BY <1>3, NewPlaces DEF CloseoutFirst
<1> QED BY <1>1, <1>2, <1>3, ClosedBy

LEMMA AppendTwice ==
    ASSUME NEW S, NEW s \in Seq(S), NEW x \in S, NEW y \in S
    PROVE  s \o <<x, y>> = Append(Append(s, x), y)
OBVIOUS

LEMMA AppendGrows ==
    ASSUME NEW S, NEW s \in Seq(S), NEW x \in S
    PROVE  /\ Append(s, x) \in Seq(S)
           /\ ToSet(Append(s, x)) = ToSet(s) \cup {x}
<1>1. /\ Append(s, x) \in Seq(S) /\ Len(Append(s, x)) = Len(s) + 1
      /\ \A i \in 1..Len(s) : Append(s, x)[i] = s[i]
      /\ Append(s, x)[Len(s) + 1] = x /\ Len(s) \in Nat
  OBVIOUS
<1>2. DOMAIN Append(s, x) = 1..Len(s) + 1 /\ DOMAIN s = 1..Len(s)
  OBVIOUS
<1> DEFINE t == Append(s, x)
<1> HIDE DEF t
<1>3. {t[i] : i \in DOMAIN t} = {s[i] : i \in DOMAIN s} \cup {x}
  BY <1>1, <1>2 DEF t
<1> QED BY <1>1, <1>3 DEF t, ToSet

LEMMA CustodyGrows ==
    ASSUME NEW s \in Seq(CustodyStep)
    PROVE  /\ s \o <<"collected", "hashed">> \in Seq(CustodyStep)
           /\ ToSet(s \o <<"collected", "hashed">>) = ToSet(s) \cup {"collected", "hashed"}
           /\ Append(s, "reviewed") \in Seq(CustodyStep)
           /\ ToSet(Append(s, "reviewed")) = ToSet(s) \cup {"reviewed"}
           /\ Append(s, "produced") \in Seq(CustodyStep)
           /\ ToSet(Append(s, "produced")) = ToSet(s) \cup {"produced"}
<1>1. \A x \in CustodyStep : \A t \in Seq(CustodyStep) :
          Append(t, x) \in Seq(CustodyStep) /\ ToSet(Append(t, x)) = ToSet(t) \cup {x}
  <2> SUFFICES ASSUME NEW x \in CustodyStep, NEW t \in Seq(CustodyStep)
               PROVE  /\ Append(t, x) \in Seq(CustodyStep)
                      /\ ToSet(Append(t, x)) = ToSet(t) \cup {x}
      OBVIOUS
  <2> QED BY AppendGrows
<1>2. s \o <<"collected", "hashed">> = Append(Append(s, "collected"), "hashed")
  BY AppendTwice
<1>3. {"collected", "hashed", "reviewed", "produced"} \subseteq CustodyStep
  BY DEF CustodyStep
<1>4. /\ Append(s, "collected") \in Seq(CustodyStep)
      /\ ToSet(Append(s, "collected")) = ToSet(s) \cup {"collected"}
  BY <1>1, <1>3
<1>5. /\ Append(Append(s, "collected"), "hashed") \in Seq(CustodyStep)
      /\ ToSet(Append(Append(s, "collected"), "hashed"))
            = ToSet(Append(s, "collected")) \cup {"hashed"}
  BY <1>1, <1>3, <1>4
<1>6. /\ s \o <<"collected", "hashed">> \in Seq(CustodyStep)
      /\ ToSet(s \o <<"collected", "hashed">>) = ToSet(s) \cup {"collected", "hashed"}
  <2> DEFINE u == s \o <<"collected", "hashed">>
             v == Append(s, "collected")
             w == Append(v, "hashed")
  <2> HIDE DEF u, v, w
  <2>1. u = w /\ ToSet(w) = ToSet(v) \cup {"hashed"} /\ ToSet(v) = ToSet(s) \cup {"collected"}
        /\ w \in Seq(CustodyStep)
    BY <1>2, <1>4, <1>5 DEF u, v, w
  <2> QED BY <2>1 DEF u
<1> QED BY <1>1, <1>3, <1>6, Zenon

(* The four verbs walk the whole inventory, each on what the last left. *)
LEMMA TakenEvidence ==
    ASSUME TapeTyped, EvidenceStands, NEW c \in Commands[arm], Taken(c)
    PROVE  EvidenceStands'
<1> DEFINE P == LastAt(events, "issue_preservation")
           C == LastAt(events, "collect_evidence")
           R == LastAt(events, "review_evidence")
           D == LastAt(events, "produce_discovery")
           P2 == LastAt(events', "issue_preservation")
           C2 == LastAt(events', "collect_evidence")
           R2 == LastAt(events', "review_evidence")
           D2 == LastAt(events', "produce_discovery")
           N == Len(events)
<1>1. WellMade(c) /\ Denial(c) = "" /\ Transition(c)
  BY TakenIsStep DEF Taken, TapeTyped
<1>2. /\ N \in Nat /\ P \in 0..N /\ C \in 0..N /\ R \in 0..N /\ D \in 0..N
      /\ P2 = IF c.verb = "issue_preservation" THEN N + 1 ELSE P
      /\ C2 = IF c.verb = "collect_evidence" THEN N + 1 ELSE C
      /\ R2 = IF c.verb = "review_evidence" THEN N + 1 ELSE R
      /\ D2 = IF c.verb = "produce_discovery" THEN N + 1 ELSE D
  BY NewPlaces
<1>3. SUFFICES ASSUME NEW a \in Artifact PROVE Stands(evidence[a])'
  BY DEF EvidenceStands
<1> DEFINE old == evidence[a]
           new == evidence'[a]
<1>4. /\ old.status \in {"unknown", "preserved", "collected", "reviewed",
                         "withheld_nonresponsive", "produced"}
      /\ old.custody \in Seq(CustodyStep)
      /\ old.status # "produced" => "produced" \notin ToSet(old.custody)
      /\ old.status = "preserved" => 0 < P
      /\ old.status \in {"collected", "reviewed", "produced"} => 0 < P /\ P < C
      /\ old.status \in {"reviewed", "produced"} => C < R
      /\ old.status = "produced" => R < D
  BY DEF EvidenceStands, Stands
<1>5. SUFFICES /\ new.status \in {"unknown", "preserved", "collected", "reviewed",
                                  "withheld_nonresponsive", "produced"}
               /\ new.custody \in Seq(CustodyStep)
               /\ new.status # "produced" => "produced" \notin ToSet(new.custody)
               /\ new.status = "preserved" => 0 < P2
               /\ new.status \in {"collected", "reviewed", "produced"} => 0 < P2 /\ P2 < C2
               /\ new.status \in {"reviewed", "produced"} => C2 < R2
               /\ new.status = "produced" => R2 < D2
  BY DEF Stands
<1> HIDE DEF P, C, R, D, P2, C2, R2, D2, N
<1>6. CASE c.verb = "issue_preservation" /\ IssuePreservation
  <2>1. new.status = "preserved" /\ new.custody = <<"created">>
    BY <1>6 DEF IssuePreservation
  <2>2. ToSet(<<"created">>) = {"created"}
    BY DEF ToSet
  <2>3. <<"created">> \in Seq(CustodyStep)
    BY DEF CustodyStep
  <2>4. "produced" \notin ToSet(new.custody) /\ new.custody \in Seq(CustodyStep)
    BY <2>1, <2>2, <2>3
  <2> HIDE DEF new
  <2> QED BY <1>2, <1>6, <2>1, <2>4
<1>7. CASE c.verb = "collect_evidence" /\ CollectEvidence
  <2>1. /\ old.status = "preserved" /\ new.status = "collected"
        /\ new.custody = old.custody \o <<"collected", "hashed">>
    BY <1>7 DEF CollectEvidence, AllAre
  <2>2. /\ new.custody \in Seq(CustodyStep)
        /\ "produced" \notin ToSet(new.custody)
    BY <1>4, <2>1, CustodyGrows
  <2> HIDE DEF old, new
  <2> QED BY <1>2, <1>4, <1>7, <2>1, <2>2
<1>8. CASE c.verb = "review_evidence" /\ ReviewEvidence
  <2>1. /\ old.status = "collected"
        /\ \/ new.status = "reviewed" /\ new.custody = Append(old.custody, "reviewed")
           \/ new.status = "withheld_nonresponsive" /\ new.custody = old.custody
    BY <1>8 DEF ReviewEvidence, AllAre
  <2>2. /\ new.custody \in Seq(CustodyStep)
        /\ "produced" \notin ToSet(new.custody)
    BY <1>4, <2>1, CustodyGrows
  <2> HIDE DEF old, new
  <2> QED BY <1>2, <1>4, <1>8, <2>1, <2>2
<1>9. CASE c.verb = "produce_discovery" /\ ProduceDiscovery
  <2>1. \/ /\ old.status = "reviewed"
           /\ new.status = "produced" /\ new.custody = Append(old.custody, "produced")
        \/ new = old
    BY <1>9 DEF ProduceDiscovery, Reviewed
  <2>2. new.custody \in Seq(CustodyStep)
    BY <1>4, <2>1, CustodyGrows
  <2> HIDE DEF old, new
  <2> QED BY <1>2, <1>4, <1>9, <2>1, <2>2
<1>10. CASE c.verb \notin EvidenceVerb /\ UNCHANGED <<evidence, produced>>
  <2>1. new = old
    BY <1>10
  <2> HIDE DEF old, new
  <2> QED BY <1>2, <1>4, <1>10, <2>1 DEF EvidenceVerb
<1> QED BY <1>1, <1>6, <1>7, <1>8, <1>9, <1>10, EvidenceBy

LEMMA TakenKeeps ==
    ASSUME RunInv, NEW c \in Commands[arm], Taken(c), Played', arm' = arm
    PROVE  RunInv'
<1>1. KernelInv'
  BY KernelStep, TakenIsStep DEF RunInv, TapeTyped
<1> QED
  BY <1>1, TakenTyped, TakenConsent, TakenRefusals, TakenVerification, TakenEvidence,
     TakenCloseout DEF RunInv

-----------------------------------------------------------------------------
(* ... and by what is refused. *)

LEMMA RefusedKeeps ==
    ASSUME RunInv, NEW c \in Commands[arm], Refused(c), Played', arm' = arm
    PROVE  RunInv'
<1> DEFINE d == [verb |-> c.verb, reason |-> Denial(c), missing |-> MissingAuthority(c),
                 after |-> Len(events)]
<1>1. /\ UNCHANGED vars /\ events' = events
      /\ denials' = Append(denials, d)
  BY Zenon DEF Refused
<1>2. PICK S : denials \in Seq(S)
  BY Zenon DEF RunInv, TapeTyped
<1> HIDE DEF d
<1>3. denials \in Seq(S \cup {d}) /\ denials' \in Seq(S \cup {d})
  BY <1>1, <1>2
<1>4. \A i \in DOMAIN denials' :
          (i \in DOMAIN denials /\ denials'[i] = denials[i]) \/ denials'[i] = d
  BY <1>1, <1>2
<1>5. ASSUME d.reason = "missing_authority", "matter_opening" \in d.missing
      PROVE  /\ d.verb = "open_matter" /\ d.after \in 0..Len(events)
             /\ FirstAt(events, "record_lawyer_gate") = 0
  <2>1. /\ Denial(c) = "missing_authority" /\ d.verb = c.verb /\ d.after = Len(events)
        /\ "matter_opening" \in VerbPolicies[c.verb].authority
        /\ "matter_opening" \notin authority[c.actor]
    BY <1>5 DEF d, MissingAuthority
  <2>2. c.verb \in Verb
    BY CommandsWellMade DEF RunInv, TapeTyped, Played, WellMade
  <2>3. c.verb = "open_matter"
    BY <2>1, <2>2, PoliciesSay
  <2>4. c.actor = "responsible_lawyer"
    BY <2>1, <2>3, PoliciesSay DEF Denial
  <2>5. Len(events) \in Nat
    BY DEF RunInv, TapeTyped
  <2> QED BY <2>1, <2>3, <2>4, <2>5 DEF RunInv, ConsentGrants
<1>6. RefusedEarly'
  <2>1. RefusedEarly
    BY DEF RunInv
  <2> QED BY <1>1, <1>4, <1>5, <2>1 DEF RefusedEarly
<1>7. TapeTyped'
  <2>1. Commands' = Commands /\ VerbPolicies' = VerbPolicies
    BY DEF VerbPolicies, CommonPolicies, Policy, Lawyer, Paralegal, Biller, Commands
  <2>2. accepted' = accepted /\ AllEvents' = AllEvents
    BY <1>1 DEF vars, AllEvents
  <2> QED BY <1>1, <1>3, <2>1, <2>2 DEF RunInv, TapeTyped
<1>8. KernelInv'
  BY <1>1, KernelStep DEF RunInv
<1>9. ConsentGrants' /\ VerificationIsLast' /\ EvidenceStands' /\ CloseoutFirst'
  BY <1>1, Zenon DEF RunInv, ConsentGrants, VerificationIsLast, EvidenceStands, Stands,
                     CloseoutFirst, vars, CustodyStep
<1> QED BY <1>6, <1>7, <1>8, <1>9 DEF RunInv

LEMMA NothingKeeps ==
    ASSUME RunInv, UNCHANGED <<vars, events, denials>>, Played', arm' = arm
    PROVE  RunInv'
<1>1. Commands' = Commands /\ VerbPolicies' = VerbPolicies
  BY DEF VerbPolicies, CommonPolicies, Policy, Lawyer, Paralegal, Biller, Commands
<1>2. accepted' = accepted /\ AllEvents' = AllEvents
  BY DEF vars, AllEvents
<1>3. TapeTyped'
  BY <1>1, <1>2 DEF RunInv, TapeTyped
<1>4. KernelInv'
  BY KernelStep DEF RunInv
<1>5. ConsentGrants' /\ VerificationIsLast' /\ EvidenceStands' /\ CloseoutFirst' /\ RefusedEarly'
  BY Zenon DEF RunInv, ConsentGrants, VerificationIsLast, EvidenceStands, Stands,
               CloseoutFirst, RefusedEarly, vars, CustodyStep
<1> QED BY <1>3, <1>4, <1>5 DEF RunInv

LEMMA RunStarts == TapeInit => RunInv
<1>1. SUFFICES ASSUME TapeInit PROVE RunInv
  OBVIOUS
<1>2. Init /\ arm \in DOMAIN Arm /\ next = 1
  BY <1>1, Zenon DEF TapeInit
<1>3. events = << >> /\ denials = << >>
  BY <1>1, Zenon DEF TapeInit
<1>4. closed = FALSE /\ accepted = {}
  BY <1>2, Zenon DEF Init
<1>5. deadlines = [proposal |-> NoDay, verified |-> NoDay, primary |-> "", secondary |-> ""]
  BY <1>2, Zenon DEF Init
<1>6. evidence = [a \in Artifact |-> [status |-> "unknown", custody |-> << >>]]
  BY <1>2, Zenon DEF Init
<1>7. events \in Seq(Commands[arm]) /\ Len(events) = 0 /\ DOMAIN events = {}
  BY <1>3
<1>8. TapeTyped
  <2>1. Played
    BY <1>2 DEF Played
  <2>2. accepted = AllEvents
    BY <1>4, <1>7 DEF AllEvents
  <2>3. \E S : denials \in Seq(S)
    BY <1>3
  <2>4. 1..Len(events) = {}
    BY <1>7
  <2> QED BY <1>7, <2>1, <2>2, <2>3, <2>4, Zenon DEF TapeTyped
<1>9. FirstAt(events, "record_lawyer_gate") = 0
  <2>1. At(events, "record_lawyer_gate") = {}
    BY <1>7 DEF At
  <2> QED BY <1>7, <2>1, FirstAtIs
<1>10. ConsentGrants
  BY <1>9, Zenon DEF ConsentGrants
<1>11. RefusedEarly
  <2>1. DOMAIN denials = {}
    BY <1>3
  <2> QED BY <2>1, Zenon DEF RefusedEarly
<1>12. VerificationIsLast
  BY <1>5 DEF VerificationIsLast
<1>13. CloseoutFirst
  BY <1>4, Zenon DEF CloseoutFirst
<1>14. ASSUME NEW a \in Artifact
       PROVE  Stands(evidence[a])
  <2>1. evidence[a].status = "unknown" /\ evidence[a].custody = << >>
    BY <1>6
  <2>2. "produced" \notin ToSet(<< >>) /\ << >> \in Seq(CustodyStep)
    BY DEF ToSet
  <2> DEFINE item == evidence[a]
  <2> HIDE DEF item
  <2>3. Stands(item)
    BY <2>1, <2>2 DEF Stands, item
  <2> QED BY <2>3 DEF item
<1> QED BY <1>2, <1>8, <1>10, <1>11, <1>12, <1>13, <1>14, KernelStarts
    DEF RunInv, EvidenceStands

LEMMA RunStep == RunInv /\ [TapeNext]_<<vars, tapeVars>> => RunInv'
<1>1. CASE RunInv /\ TapeNext
  <2>1. arm' = arm /\ Played'
    BY <1>1, TapeStepIs DEF RunInv, TapeTyped, Played
  <2> QED BY <1>1, <2>1, TapeStepIs, TakenKeeps, RefusedKeeps, NothingKeeps
      DEF RunInv, TapeTyped, Played
<1>2. CASE RunInv /\ UNCHANGED <<vars, tapeVars>>
  <2>1. arm' = arm /\ Played' /\ UNCHANGED <<vars, events, denials>>
    BY <1>2 DEF tapeVars, RunInv, TapeTyped, Played
  <2> QED BY <1>2, <2>1, NothingKeeps
<1> QED BY <1>1, <1>2

-----------------------------------------------------------------------------
(* The report of the auditor. *)

LEMMA ReportIsFaithful == RunInv => AuditMeansFaithful
<1> SUFFICES ASSUME RunInv, Passes
             PROVE  /\ \E d \in Denials :
                          d.verb = "open_matter" /\ d.after < First("record_lawyer_gate")
                    /\ Follow(<<"calculate_deadlines", "verify_deadlines">>)
                    /\ Follow(<<"issue_preservation", "collect_evidence", "review_evidence",
                                "produce_discovery">>)
                    /\ finance.cash = finance.submitted - finance.reduced
                    /\ First("finalize_closeout") < LastOf("close_matter")
  BY Zenon DEF AuditMeansFaithful
<1>1. \A verb : First(verb) = FirstAt(events, verb) /\ LastOf(verb) = LastAt(events, verb)
  BY DEF First, LastOf, FirstAt, LastAt, SelectInSeq, SelectLastInSeq
<1>2. \A verb : LastOf(verb) \in Nat /\ First(verb) \in 0..Len(events)
  <2>1. ASSUME NEW verb
        PROVE  LastAt(events, verb) \in Nat /\ FirstAt(events, verb) \in 0..Len(events)
    <3>1. events \in Seq(Commands[arm])
      BY DEF RunInv, TapeTyped
    <3>2. At(events, verb) \subseteq 1..Len(events) /\ Len(events) \in Nat
      BY <3>1 DEF At
    <3> QED BY <3>1, <3>2, FirstAtIs, LastAtIs
  <2> QED BY <1>1, <2>1
<1>3. \E d \in Denials : d.verb = "open_matter" /\ d.after < First("record_lawyer_gate")
  <2>1. PICK i \in DOMAIN denials :
            denials[i].reason = "missing_authority" /\ "matter_opening" \in denials[i].missing
    BY DEF Passes, GateHeld, Denials
  <2>2. 0 < First("record_lawyer_gate")
    BY DEF Passes, GateHeld
  <2> QED BY <1>1, <2>1, <2>2 DEF RunInv, RefusedEarly, Denials
<1>4. Follow(<<"calculate_deadlines", "verify_deadlines">>)
  <2>1. /\ "verify_deadlines" \in accepted
        /\ deadlines.secondary = events[First("verify_deadlines")].actor
    BY DEF Passes, DeadlinesDerived, RunInv, TapeTyped
  <2>2. First("verify_deadlines") \in At(events, "verify_deadlines")
    <3>1. First("verify_deadlines") \in 1..Len(events)
      BY <1>1, <2>1, AcceptedHasPlace DEF RunInv
    <3> QED BY <1>1, <3>1, FirstAtIs DEF RunInv, TapeTyped
  <2>3. deadlines.secondary = "deadline_reviewer"
    BY <2>1, <2>2, PoliciesSay DEF At, RunInv, TapeTyped
  <2>4. 0 < LastOf("calculate_deadlines")
        /\ LastOf("calculate_deadlines") < LastOf("verify_deadlines")
    BY <1>1, <2>3 DEF RunInv, VerificationIsLast
  <2> QED BY <1>2, <2>4 DEF Follow
<1>5. Follow(<<"issue_preservation", "collect_evidence", "review_evidence",
               "produce_discovery">>)
  <2>1. PICK a \in produced : ToSet(Custody) \subseteq ToSet(evidence[a].custody)
    BY DEF Passes, CustodyWhole
  <2>2. a \in Artifact
    BY InventoryAssumption DEF RunInv, KernelInv, EvidenceInv, OnlyProducibleLeaves
  <2>3. "produced" \in ToSet(Custody)
    BY DEF Custody, ToSet
  <2>4. Stands(evidence[a])
    BY <2>2 DEF RunInv, EvidenceStands
  <2>5. evidence[a].status = "produced"
    BY <2>1, <2>3, <2>4 DEF Stands
  <2>6. /\ 0 < LastOf("issue_preservation")
        /\ LastOf("issue_preservation") < LastOf("collect_evidence")
        /\ LastOf("collect_evidence") < LastOf("review_evidence")
        /\ LastOf("review_evidence") < LastOf("produce_discovery")
    BY <1>1, <2>4, <2>5 DEF Stands
  <2>7. ASSUME NEW s, s = <<"issue_preservation", "collect_evidence", "review_evidence",
                           "produce_discovery">>
        PROVE  Follow(s)
    <3>1. DOMAIN s = 1..4
      BY <2>7
    <3>2. /\ s[1] = "issue_preservation" /\ s[2] = "collect_evidence"
          /\ s[3] = "review_evidence" /\ s[4] = "produce_discovery"
      BY <2>7
    <3>3. ASSUME NEW i \in 1..4, NEW j \in 1..4, i < j
          PROVE  0 < LastOf(s[i]) /\ LastOf(s[i]) < LastOf(s[j])
      <4>1. \/ i = 1 /\ j \in {2, 3, 4}
            \/ i = 2 /\ j \in {3, 4}
            \/ i = 3 /\ j = 4
        BY <3>3
      <4>2. /\ 0 < LastOf(s[1]) /\ LastOf(s[1]) < LastOf(s[2])
            /\ LastOf(s[2]) < LastOf(s[3]) /\ LastOf(s[3]) < LastOf(s[4])
        BY <2>6, <3>2
      <4>3. /\ LastOf(s[1]) \in Nat /\ LastOf(s[2]) \in Nat
            /\ LastOf(s[3]) \in Nat /\ LastOf(s[4]) \in Nat
        BY <1>2
      <4>4. CASE i = 1 /\ j \in {2, 3, 4}
        BY <4>2, <4>3, <4>4
      <4>5. CASE i = 2 /\ j \in {3, 4}
        BY <4>2, <4>3, <4>5
      <4>6. CASE i = 3 /\ j = 4
        BY <4>2, <4>3, <4>6
      <4> QED BY <4>1, <4>4, <4>5, <4>6
    <3> QED BY <3>1, <3>3 DEF Follow
  <2> QED BY <2>7
<1>6. finance.cash = finance.submitted - finance.reduced
  <2>1. BooksReconciled
    BY DEF Passes
  <2> QED BY <2>1 DEF BooksReconciled, Reconciled, RunInv, KernelInv, LedgerInv, LedgerType,
                     LedgerField, LedgerSound
<1>7. First("finalize_closeout") < LastOf("close_matter")
  BY <1>1 DEF Passes, RunInv, CloseoutFirst
<1> QED BY <1>3, <1>4, <1>5, <1>6, <1>7

(* berean.py, audit(): for every cassette, with any attempts added to the  *)
(* workflow or left out of it, a run that the auditor passes tried the     *)
(* opening before the consent, verified the deadlines and produced the     *)
(* evidence in their order, and was paid what the carrier approved before  *)
(* it closed, although the audit looks only at first events, sets of steps *)
(* and balances.                                                           *)
THEOREM ReportCanBeReliedOn == TapeSpec => []AuditMeansFaithful
BY RunStarts, RunStep, ReportIsFaithful, PTL DEF TapeSpec

-----------------------------------------------------------------------------
(* What a run of the workflow alone leaves for the audit.                  *)

OnWorkflow == \A i \in 1..Len(events) : i <= 21 /\ events[i] = Workflow(arm)[i]

(* The ledger after the first n commands of the workflow. *)
LedgerAfter(n) ==
    LET lawyer    == Arm[arm].lawyer
        paralegal == Arm[arm].paralegal
        reduction == Arm[arm].reduction
        recovered == Arm[arm].recovered
    IN  /\ n <= 13 => /\ finance.work = 0 /\ finance.wip = 0
        /\ n = 14 => finance.work = lawyer /\ finance.wip = lawyer
        /\ n >= 15 => finance.work = lawyer + paralegal
        /\ n = 15 => finance.wip = lawyer + paralegal
        /\ n <= 15 => finance.submitted = 0
        /\ n >= 16 => finance.wip = 0 /\ finance.submitted = lawyer + paralegal
        /\ n <= 16 => finance.approved = 0 /\ finance.reduced = 0 /\ finance.receivable = 0
        /\ n = 17 => /\ finance.approved = lawyer + paralegal - reduction
                     /\ finance.reduced = reduction
                     /\ finance.receivable = finance.approved
        /\ n <= 17 => finance.recovered = 0
        /\ n >= 18 => /\ finance.approved = lawyer + paralegal - reduction + recovered
                      /\ finance.reduced = reduction - recovered
                      /\ finance.recovered = recovered /\ recovered > 0
        /\ n = 18 => finance.receivable = finance.approved
        /\ n <= 18 => finance.cash = 0
        /\ n >= 19 => finance.receivable = 0 /\ finance.cash = finance.approved

LedgerFollows == OnWorkflow => \E n \in 0..21 : n = Len(events) /\ LedgerAfter(n)

OpeningRefused ==
    \A i \in DOMAIN denials :
        denials[i].verb = "open_matter" /\ denials[i].reason = "missing_authority" =>
            "matter_opening" \in denials[i].missing

HoldStands ==
    /\ holds \subseteq {"affected_client_consent"}
    /\ holds # {} => LastAt(events, "record_lawyer_gate")
                       < LastAt(events, "submit_conflict_result")

DeadlinesFollow ==
    LET calculate == LastAt(events, "calculate_deadlines")
        verify    == LastAt(events, "verify_deadlines")
    IN  /\ calculate # 0 => deadlines.primary = "docketing_specialist"
        /\ verify # 0 => deadlines.verified = events[verify].value
        /\ calculate < verify => deadlines.secondary = "deadline_reviewer"

(* An artifact's custody is told by its status, ... *)
Trail(item) ==
    /\ item.status = "preserved" => {"created"} \subseteq ToSet(item.custody)
    /\ item.status = "collected" =>
          {"created", "collected", "hashed"} \subseteq ToSet(item.custody)
    /\ item.status = "reviewed" =>
          {"created", "collected", "hashed", "reviewed"} \subseteq ToSet(item.custody)
    /\ item.status = "produced" => CustodyStep \subseteq ToSet(item.custody)

(* ... and what can be produced moves together. *)
EvidenceFollows ==
    /\ \A a \in Artifact : Trail(evidence[a])
    /\ Reviewed # {} => Reviewed = Producible
    /\ LET produce == LastAt(events, "produce_discovery")
       IN  /\ produce # 0 => produced = Producible
           /\ /\ produce > LastAt(events, "issue_preservation")
              /\ produce > LastAt(events, "collect_evidence")
              /\ produce > LastAt(events, "review_evidence")
              => \A a \in Producible : evidence[a].status = "produced"

ClosingFollows ==
    /\ "retain_expert" \in accepted => opinion.given
    /\ Resolution \in accepted => outcome
    /\ "close_matter" \in accepted => closed
    /\ closed => ClosingSteps \cup {"finance_reconciled"} \subseteq conditions

FollowInv ==
    /\ LedgerFollows /\ OpeningRefused /\ HoldStands
    /\ DeadlinesFollow /\ EvidenceFollows /\ ClosingFollows

-----------------------------------------------------------------------------
LEMMA ClosingBy ==
    ASSUME NEW c, WellMade(c), Denial(c) = "", Transition(c)
    PROVE  /\ \/ c.verb = "retain_expert" /\ RetainExpert
              \/ c.verb # "retain_expert" /\ UNCHANGED opinion
           /\ \/ c.verb = Resolution /\ Resolve
              \/ c.verb # Resolution /\ UNCHANGED outcome
           /\ \/ c.verb = "finalize_closeout" /\ FinalizeCloseout
              \/ c.verb # "finalize_closeout" /\ UNCHANGED conditions
<1>1. c.verb # "read_oracle"
  BY DEF Denial
<1>2. CASE c.verb \in {"record_time", "submit_invoice", "carrier_audit",
                       "appeal_reduction", "apply_payment"}
  BY <1>2, ResolutionAssumption DEF Transition, Books, record
<1>3. CASE c.verb \in {"calculate_deadlines", "verify_deadlines"}
  BY <1>3, ResolutionAssumption DEF Transition, CalculateDeadlines, VerifyDeadlines, record
<1>4. CASE c.verb \in {"receive_referral", "submit_conflict_result", "record_lawyer_gate",
                       "open_matter"}
  <2>1. UNCHANGED <<record, outcome, conditions>>
    BY <1>4, ResolutionAssumption, Zenon
    DEF Transition, ReceiveReferral, SubmitConflictResult, RecordLawyerGate, OpenMatter
  <2> QED BY <1>4, <2>1, ResolutionAssumption DEF record
<1>5. CASE c.verb \in {"issue_preservation", "collect_evidence", "review_evidence",
                       "produce_discovery"}
  BY <1>5, ResolutionAssumption
  DEF Transition, IssuePreservation, CollectEvidence, ReviewEvidence, ProduceDiscovery
<1>6. CASE c.verb \in {"take_deposition", "retain_expert", "finalize_closeout",
                       "close_matter", Resolution}
  BY <1>6, ResolutionAssumption
  DEF Transition, TakeDeposition, RetainExpert, FinalizeCloseout, CloseMatter, Resolve,
      record
<1> QED BY <1>1, <1>2, <1>3, <1>4, <1>5, <1>6 DEF WellMade, Verb

LEMMA HoldsBy ==
    ASSUME NEW c, WellMade(c), Denial(c) = "", Transition(c)
    PROVE  \/ c.verb = "submit_conflict_result" /\ SubmitConflictResult
           \/ c.verb = "record_lawyer_gate" /\ RecordLawyerGate
           \/ /\ c.verb \notin {"submit_conflict_result", "record_lawyer_gate"}
              /\ UNCHANGED holds
<1>1. c.verb # "read_oracle"
  BY DEF Denial
<1>2. CASE c.verb \in {"record_time", "submit_invoice", "carrier_audit",
                       "appeal_reduction", "apply_payment"}
  BY <1>2, ResolutionAssumption DEF Transition, Books
<1>3. CASE c.verb \in {"calculate_deadlines", "verify_deadlines"}
  BY <1>3, ResolutionAssumption DEF Transition, CalculateDeadlines, VerifyDeadlines
<1>4. CASE c.verb \in {"receive_referral", "submit_conflict_result", "record_lawyer_gate",
                       "open_matter"}
  BY <1>4, ResolutionAssumption, Zenon DEF Transition, ReceiveReferral, OpenMatter
<1>5. CASE c.verb \in {"issue_preservation", "collect_evidence", "review_evidence",
                       "produce_discovery"}
  BY <1>5, ResolutionAssumption
  DEF Transition, IssuePreservation, CollectEvidence, ReviewEvidence, ProduceDiscovery
<1>6. CASE c.verb \in {"take_deposition", "retain_expert", "finalize_closeout",
                       "close_matter", Resolution}
  BY <1>6, ResolutionAssumption
  DEF Transition, TakeDeposition, RetainExpert, FinalizeCloseout, CloseMatter, Resolve
<1> QED BY <1>1, <1>2, <1>3, <1>4, <1>5, <1>6 DEF WellMade, Verb

LEMMA LedgerBy ==
    ASSUME NEW c, WellMade(c), Denial(c) = "", Transition(c)
    PROVE  \/ c.verb = "record_time" /\ Record(c.value)
           \/ c.verb = "submit_invoice" /\ Submit
           \/ c.verb = "carrier_audit" /\ Audit(c.value)
           \/ c.verb = "appeal_reduction" /\ Appeal(c.value)
           \/ c.verb = "apply_payment" /\ ApplyPayment(c.value)
           \/ /\ c.verb \notin {"record_time", "submit_invoice", "carrier_audit",
                                "appeal_reduction", "apply_payment"}
              /\ UNCHANGED finance
<1>1. c.verb # "read_oracle"
  BY DEF Denial
<1>2. CASE c.verb \in {"record_time", "submit_invoice", "carrier_audit",
                       "appeal_reduction", "apply_payment"}
  <2>1. Books(c)
    BY <1>2, ResolutionAssumption DEF Transition
  <2> QED BY <1>2, <2>1
      DEF Books, RecordTime, SubmitInvoice, CarrierAudit, AppealReduction, ReceivePayment
<1>3. CASE c.verb \in {"calculate_deadlines", "verify_deadlines"}
  BY <1>3, ResolutionAssumption DEF Transition, CalculateDeadlines, VerifyDeadlines
<1>4. CASE c.verb \in {"receive_referral", "submit_conflict_result", "record_lawyer_gate",
                       "open_matter"}
  BY <1>4, ResolutionAssumption, Zenon
  DEF Transition, ReceiveReferral, SubmitConflictResult, RecordLawyerGate, OpenMatter
<1>5. CASE c.verb \in {"issue_preservation", "collect_evidence", "review_evidence",
                       "produce_discovery"}
  BY <1>5, ResolutionAssumption
  DEF Transition, IssuePreservation, CollectEvidence, ReviewEvidence, ProduceDiscovery
<1>6. CASE c.verb \in {"take_deposition", "retain_expert", "finalize_closeout",
                       "close_matter", Resolution}
  BY <1>6, ResolutionAssumption
  DEF Transition, TakeDeposition, RetainExpert, FinalizeCloseout, CloseMatter, Resolve
<1> QED BY <1>1, <1>2, <1>3, <1>4, <1>5, <1>6 DEF WellMade, Verb

LEMMA EventsGrow ==
    ASSUME TapeTyped, NEW c \in Commands[arm], Taken(c)
    PROVE  /\ Len(events) \in Nat /\ Len(events') = Len(events) + 1
           /\ \A i \in 1..Len(events) : events'[i] = events[i]
           /\ events'[Len(events) + 1] = c
<1>1. events' = Append(events, c) /\ events \in Seq(Commands[arm])
  BY DEF TapeTyped, Taken
<1> QED BY <1>1

LEMMA TakenHold ==
    ASSUME TapeTyped, HoldStands, NEW c \in Commands[arm], Taken(c)
    PROVE  HoldStands'
<1>1. WellMade(c) /\ Denial(c) = "" /\ Transition(c)
  BY TakenIsStep DEF Taken, TapeTyped
<1> DEFINE G == LastAt(events, "record_lawyer_gate")
           R == LastAt(events, "submit_conflict_result")
           G2 == LastAt(events', "record_lawyer_gate")
           R2 == LastAt(events', "submit_conflict_result")
           N == Len(events)
<1>2. /\ N \in Nat /\ G \in 0..N /\ R \in 0..N
      /\ G2 = IF c.verb = "record_lawyer_gate" THEN N + 1 ELSE G
      /\ R2 = IF c.verb = "submit_conflict_result" THEN N + 1 ELSE R
  BY NewPlaces
<1>3. holds \subseteq {"affected_client_consent"} /\ (holds # {} => G < R)
  BY DEF HoldStands
<1>4. SUFFICES holds' \subseteq {"affected_client_consent"} /\ (holds' # {} => G2 < R2)
  BY DEF HoldStands
<1> HIDE DEF G, R, G2, R2, N
<1>5. CASE c.verb = "submit_conflict_result" /\ SubmitConflictResult
  <2>1. holds' = holds \cup {"affected_client_consent"}
    BY <1>5, Zenon DEF SubmitConflictResult
  <2> QED BY <1>2, <1>3, <1>5, <2>1
<1>6. CASE c.verb = "record_lawyer_gate" /\ RecordLawyerGate
  <2>1. holds' = holds \ {"affected_client_consent"}
    BY <1>6, Zenon DEF RecordLawyerGate
  <2> QED BY <1>3, <2>1
<1>7. CASE /\ c.verb \notin {"submit_conflict_result", "record_lawyer_gate"}
           /\ UNCHANGED holds
  BY <1>2, <1>3, <1>7
<1> QED BY <1>1, <1>5, <1>6, <1>7, HoldsBy

LEMMA TakenDeadlines ==
    ASSUME TapeTyped, KernelInv, DeadlinesFollow, NEW c \in Commands[arm], Taken(c)
    PROVE  DeadlinesFollow'
<1>1. WellMade(c) /\ Denial(c) = "" /\ Transition(c)
  BY TakenIsStep DEF Taken, TapeTyped
<1> DEFINE K == LastAt(events, "calculate_deadlines")
           V == LastAt(events, "verify_deadlines")
           K2 == LastAt(events', "calculate_deadlines")
           V2 == LastAt(events', "verify_deadlines")
           N == Len(events)
<1>2. /\ N \in Nat /\ K \in 0..N /\ V \in 0..N
      /\ K2 = IF c.verb = "calculate_deadlines" THEN N + 1 ELSE K
      /\ V2 = IF c.verb = "verify_deadlines" THEN N + 1 ELSE V
  BY NewPlaces
<1>3. /\ K # 0 => deadlines.primary = "docketing_specialist"
      /\ V # 0 => deadlines.verified = events[V].value
      /\ K < V => deadlines.secondary = "deadline_reviewer"
  BY DEF DeadlinesFollow
<1>4. /\ \A i \in 1..N : events'[i] = events[i]
      /\ events'[N + 1] = c
  BY EventsGrow
<1>5. SUFFICES /\ K2 # 0 => deadlines'.primary = "docketing_specialist"
               /\ V2 # 0 => deadlines'.verified = events'[V2].value
               /\ K2 < V2 => deadlines'.secondary = "deadline_reviewer"
  BY DEF DeadlinesFollow
<1>6. DeadlinesType
  BY DEF KernelInv, DeadlineInv
<1> HIDE DEF K, V, K2, V2, N
<1>7. CASE c.verb = "calculate_deadlines" /\ CalculateDeadlines(c.value)
  <2>1. /\ deadlines'.primary = "docketing_specialist"
        /\ deadlines'.verified = deadlines.verified
    BY <1>6, <1>7 DEF CalculateDeadlines, DeadlinesType
  <2> QED BY <1>2, <1>3, <1>4, <1>7, <2>1
<1>8. CASE c.verb = "verify_deadlines" /\ VerifyDeadlines(c.value)
  <2>1. /\ deadlines'.primary = deadlines.primary
        /\ deadlines'.verified = c.value
        /\ deadlines'.secondary = "deadline_reviewer"
    BY <1>6, <1>8 DEF VerifyDeadlines, DeadlinesType
  <2> QED BY <1>2, <1>3, <1>4, <1>8, <2>1
<1>9. CASE c.verb \notin {"calculate_deadlines", "verify_deadlines"} /\ UNCHANGED deadlines
  BY <1>2, <1>3, <1>4, <1>9
<1> QED BY <1>1, <1>7, <1>8, <1>9, DeadlinesBy

LEMMA TakenClosing ==
    ASSUME ClosingFollows, NEW c, WellMade(c), Denial(c) = "", Transition(c)
    PROVE  ClosingFollows'
<1>1. accepted' = accepted \cup {c.verb}
  BY TransitionAccepts DEF Accept
<1>2. "retain_expert" \in accepted' => opinion'.given
  <2>1. CASE c.verb = "retain_expert" /\ RetainExpert
    BY <2>1 DEF RetainExpert
  <2>2. CASE c.verb # "retain_expert" /\ UNCHANGED opinion
    BY <1>1, <2>2 DEF ClosingFollows
  <2> QED BY <2>1, <2>2, ClosingBy
<1>3. Resolution \in accepted' => outcome'
  <2>1. CASE c.verb = Resolution /\ Resolve
    BY <2>1 DEF Resolve
  <2>2. CASE c.verb # Resolution /\ UNCHANGED outcome
    BY <1>1, <2>2 DEF ClosingFollows
  <2> QED BY <2>1, <2>2, ClosingBy
<1>4. conditions \subseteq conditions'
  <2>1. CASE c.verb = "finalize_closeout" /\ FinalizeCloseout
    BY <2>1 DEF FinalizeCloseout
  <2>2. CASE UNCHANGED conditions
    BY <2>2
  <2> QED BY <2>1, <2>2, ClosingBy
<1>5. /\ "close_matter" \in accepted' => closed'
      /\ closed' => ClosingSteps \cup {"finance_reconciled"} \subseteq conditions'
  <2>1. CASE c.verb = "close_matter" /\ CloseMatter
    BY <1>4, <2>1 DEF CloseMatter
  <2>2. CASE c.verb # "close_matter" /\ UNCHANGED closed
    BY <1>1, <1>4, <2>2 DEF ClosingFollows
  <2> QED BY <2>1, <2>2, ClosedBy
<1>6. ClosingSteps' = ClosingSteps
  BY DEF ClosingSteps
<1> QED BY <1>2, <1>3, <1>5, <1>6 DEF ClosingFollows

LEMMA TakenInventory ==
    ASSUME TapeTyped, KernelInv, EvidenceStands, EvidenceFollows,
           NEW c \in Commands[arm], Taken(c)
    PROVE  EvidenceFollows'
<1>1. WellMade(c) /\ Denial(c) = "" /\ Transition(c)
  BY TakenIsStep DEF Taken, TapeTyped
<1> DEFINE P == LastAt(events, "issue_preservation")
           C == LastAt(events, "collect_evidence")
           R == LastAt(events, "review_evidence")
           D == LastAt(events, "produce_discovery")
           P2 == LastAt(events', "issue_preservation")
           C2 == LastAt(events', "collect_evidence")
           R2 == LastAt(events', "review_evidence")
           D2 == LastAt(events', "produce_discovery")
           N == Len(events)
<1>2. /\ N \in Nat /\ P \in 0..N /\ C \in 0..N /\ R \in 0..N /\ D \in 0..N
      /\ P2 = IF c.verb = "issue_preservation" THEN N + 1 ELSE P
      /\ C2 = IF c.verb = "collect_evidence" THEN N + 1 ELSE C
      /\ R2 = IF c.verb = "review_evidence" THEN N + 1 ELSE R
      /\ D2 = IF c.verb = "produce_discovery" THEN N + 1 ELSE D
  BY NewPlaces
<1>3. /\ \A a \in Artifact : Trail(evidence[a])
      /\ Reviewed # {} => Reviewed = Producible
      /\ D # 0 => produced = Producible
      /\ D > P /\ D > C /\ D > R => \A a \in Producible : evidence[a].status = "produced"
      /\ produced \subseteq Producible
      /\ Producible \subseteq Artifact
  BY InventoryAssumption DEF EvidenceFollows, KernelInv, EvidenceInv, OnlyProducibleLeaves
<1>4. SUFFICES /\ \A a \in Artifact : Trail(evidence'[a])
               /\ Reviewed' # {} => Reviewed' = Producible
               /\ D2 # 0 => produced' = Producible
               /\ D2 > P2 /\ D2 > C2 /\ D2 > R2 =>
                     \A a \in Producible : evidence'[a].status = "produced"
  BY DEF EvidenceFollows, Trail, CustodyStep
<1>5. \A a \in Artifact : evidence[a].custody \in Seq(CustodyStep)
  BY DEF EvidenceStands, Stands
<1> HIDE DEF P, C, R, D, P2, C2, R2, D2, N
<1>6. CASE c.verb = "issue_preservation" /\ IssuePreservation
  <2>1. ASSUME NEW a \in Artifact
        PROVE  evidence'[a].status = "preserved" /\ evidence'[a].custody = <<"created">>
    BY <1>6 DEF IssuePreservation
  <2>2. produced' = produced
    BY <1>6, Zenon DEF IssuePreservation
  <2>3. "created" \in ToSet(<<"created">>)
    BY DEF ToSet
  <2>4. \A a \in Artifact : Trail(evidence'[a])
    BY <2>1, <2>3 DEF Trail
  <2>5. Reviewed' = {}
    BY <2>1 DEF Reviewed
  <2> QED BY <1>2, <1>3, <1>6, <2>2, <2>4, <2>5
<1>7. CASE c.verb = "collect_evidence" /\ CollectEvidence
  <2>1. ASSUME NEW a \in Artifact
        PROVE  /\ evidence[a].status = "preserved" /\ evidence'[a].status = "collected"
               /\ evidence'[a].custody = evidence[a].custody \o <<"collected", "hashed">>
    BY <1>7 DEF CollectEvidence, AllAre
  <2>2. produced' = produced
    BY <1>7, Zenon DEF CollectEvidence
  <2>3. ASSUME NEW a \in Artifact
        PROVE  Trail(evidence'[a])
    <3>1. ToSet(evidence'[a].custody) = ToSet(evidence[a].custody) \cup {"collected", "hashed"}
      BY <1>5, <2>1, CustodyGrows
    <3> QED BY <1>3, <2>1, <3>1 DEF Trail
  <2>4. Reviewed' = {}
    BY <2>1 DEF Reviewed
  <2> QED BY <1>2, <1>3, <1>7, <2>2, <2>3, <2>4
<1>8. CASE c.verb = "review_evidence" /\ ReviewEvidence
  <2>1. ASSUME NEW a \in Artifact
        PROVE  /\ evidence[a].status = "collected"
               /\ a \in Producible =>
                     /\ evidence'[a].status = "reviewed"
                     /\ evidence'[a].custody = Append(evidence[a].custody, "reviewed")
               /\ a \notin Producible => evidence'[a].status = "withheld_nonresponsive"
    BY <1>8 DEF ReviewEvidence, AllAre
  <2>2. produced' = produced
    BY <1>8, Zenon DEF ReviewEvidence
  <2>3. ASSUME NEW a \in Artifact
        PROVE  Trail(evidence'[a])
    <3>1. CASE a \in Producible
      <4>1. ToSet(evidence'[a].custody) = ToSet(evidence[a].custody) \cup {"reviewed"}
        BY <1>5, <2>1, <3>1, CustodyGrows
      <4> QED BY <1>3, <2>1, <3>1, <4>1 DEF Trail
    <3>2. CASE a \notin Producible
      BY <2>1, <3>2 DEF Trail
    <3> QED BY <3>1, <3>2
  <2>4. Reviewed' = Producible
    BY <1>3, <2>1 DEF Reviewed
  <2> QED BY <1>2, <1>3, <1>8, <2>2, <2>3, <2>4
<1>9. CASE c.verb = "produce_discovery" /\ ProduceDiscovery
  <2>1. ASSUME NEW a \in Artifact
        PROVE  /\ a \in Reviewed =>
                     /\ evidence'[a].status = "produced"
                     /\ evidence'[a].custody = Append(evidence[a].custody, "produced")
               /\ a \notin Reviewed => evidence'[a] = evidence[a]
    BY <1>9 DEF ProduceDiscovery
  <2>2. Reviewed # {} /\ produced' = produced \cup Reviewed
    BY <1>9, Zenon DEF ProduceDiscovery
  <2>3. ASSUME NEW a \in Artifact
        PROVE  Trail(evidence'[a])
    <3>1. CASE a \in Reviewed
      <4>1. ToSet(evidence'[a].custody) = ToSet(evidence[a].custody) \cup {"produced"}
        BY <1>5, <2>1, <3>1, CustodyGrows
      <4>2. evidence[a].status = "reviewed"
        BY <3>1 DEF Reviewed
      <4> QED BY <1>3, <2>1, <3>1, <4>1, <4>2 DEF Trail, CustodyStep
    <3>2. CASE a \notin Reviewed
      BY <1>3, <2>1, <3>2
    <3> QED BY <3>1, <3>2
  <2>4. Reviewed' = {}
    BY <2>1 DEF Reviewed
  <2>5. produced' = Producible
    BY <1>3, <2>2
  <2>6. \A a \in Producible : evidence'[a].status = "produced"
    BY <1>3, <2>1, <2>2
  <2> QED BY <2>3, <2>4, <2>5, <2>6
<1>10. CASE c.verb \notin EvidenceVerb /\ UNCHANGED <<evidence, produced>>
  <2>1. Reviewed' = Reviewed
    BY <1>10 DEF Reviewed
  <2> QED BY <1>2, <1>3, <1>10, <2>1 DEF EvidenceVerb
<1> QED BY <1>1, <1>6, <1>7, <1>8, <1>9, <1>10, EvidenceBy

Billing == {"record_time", "submit_invoice", "carrier_audit", "appeal_reduction",
            "apply_payment"}

LEMMA WorkflowBills ==
    ASSUME NEW a \in DOMAIN Arm
    PROVE  LET W == Workflow(a)
           IN  /\ \A i \in 1..13 \cup {20, 21} : W[i].verb \notin Billing
               /\ W[14].verb = "record_time" /\ W[14].value = Arm[a].lawyer
               /\ W[15].verb = "record_time" /\ W[15].value = Arm[a].paralegal
               /\ W[16].verb = "submit_invoice"
               /\ W[17].verb = "carrier_audit" /\ W[17].value = Arm[a].reduction
               /\ W[18].verb = "appeal_reduction" /\ W[18].value = Arm[a].recovered
               /\ W[19].verb = "apply_payment"
               /\ W[19].value = Arm[a].lawyer + Arm[a].paralegal - Arm[a].reduction
                                + Arm[a].recovered
BY ResolutionAssumption DEF Workflow, By, Command, Billing

LEMMA OnWorkflowBefore ==
    ASSUME TapeTyped, NEW c \in Commands[arm], Taken(c), arm' = arm, OnWorkflow'
    PROVE  /\ OnWorkflow /\ Len(events) \in 0..20
           /\ c = Workflow(arm)[Len(events) + 1]
<1>1. /\ Len(events) \in Nat /\ Len(events') = Len(events) + 1
      /\ \A i \in 1..Len(events) : events'[i] = events[i]
      /\ events'[Len(events) + 1] = c
  BY EventsGrow
<1>2. \A i \in 1..Len(events') : i <= 21 /\ events'[i] = Workflow(arm)[i]
  BY ZenonT(60) DEF OnWorkflow, Workflow, Command, By
<1>3. Len(events) + 1 \in 1..Len(events') /\ \A i \in 1..Len(events) : i \in 1..Len(events')
  BY <1>1
<1>4. c = Workflow(arm)[Len(events) + 1] /\ Len(events) + 1 <= 21
  BY <1>1, <1>2, <1>3
<1>5. \A i \in 1..Len(events) : i <= 21 /\ events[i] = Workflow(arm)[i]
  BY <1>1, <1>2, <1>3
<1>6. Len(events) \in 0..20
  <2> DEFINE N == Len(events)
  <2>1. N \in Nat /\ N + 1 <= 21
    BY <1>1, <1>4
  <2> HIDE DEF N
  <2>2. N \in 0..20
    BY <2>1
  <2> QED BY <2>2 DEF N
<1> QED BY <1>4, <1>5, <1>6, Zenon DEF OnWorkflow

(* Billed over the workflow's amounts, one command after the other. *)
LEMMA LedgerMoves ==
    ASSUME LedgerInv, NEW n \in 0..20, arm \in DOMAIN Arm, arm' = arm, LedgerAfter(n),
           NEW c, c = Workflow(arm)[n + 1],
           \/ c.verb = "record_time" /\ Record(c.value)
           \/ c.verb = "submit_invoice" /\ Submit
           \/ c.verb = "carrier_audit" /\ Audit(c.value)
           \/ c.verb = "appeal_reduction" /\ Appeal(c.value)
           \/ c.verb = "apply_payment" /\ ApplyPayment(c.value)
           \/ c.verb \notin Billing /\ UNCHANGED finance
    PROVE  LedgerAfter(n + 1)'
<1> DEFINE l == Arm[arm].lawyer
           p == Arm[arm].paralegal
           d == Arm[arm].reduction
           r == Arm[arm].recovered
<1>1. l \in Nat /\ p \in Nat /\ d \in Nat /\ r \in Nat
  BY ArmAssumption, LedgerAssumption
<1>2. finance \in [LedgerField -> Nat]
  BY DEF LedgerInv, LedgerType
<1>3. /\ n \in 0..12 \cup {19, 20} => c.verb \notin Billing
      /\ n = 13 => c.verb = "record_time" /\ c.value = l
      /\ n = 14 => c.verb = "record_time" /\ c.value = p
      /\ n = 15 => c.verb = "submit_invoice"
      /\ n = 16 => c.verb = "carrier_audit" /\ c.value = d
      /\ n = 17 => c.verb = "appeal_reduction" /\ c.value = r
      /\ n = 18 => c.verb = "apply_payment" /\ c.value = l + p - d + r
  <2>1. n \in 0..12 \cup {19, 20} => n + 1 \in 1..13 \cup {20, 21}
    OBVIOUS
  <2> QED BY <2>1, WorkflowBills
<1> HIDE DEF l, p, d, r
<1>4. CASE n \in 0..12
  <2>1. UNCHANGED finance
    BY <1>3, <1>4 DEF Billing
  <2>2. n <= 12
    BY <1>4
  <2> QED BY <1>4, <2>1 DEF LedgerAfter
<1>5. CASE n \in {19, 20}
  <2>1. UNCHANGED finance
    BY <1>3, <1>5 DEF Billing
  <2> QED BY <1>5, <2>1 DEF LedgerAfter
<1>6. CASE n = 13
  <2>1. Record(l)
    BY <1>3, <1>6 DEF Billing
  <2>2. /\ finance'.work = finance.work + l /\ finance'.wip = finance.wip + l
        /\ finance'.submitted = finance.submitted /\ finance'.approved = finance.approved
        /\ finance'.reduced = finance.reduced /\ finance'.recovered = finance.recovered
        /\ finance'.receivable = finance.receivable /\ finance'.cash = finance.cash
    BY <1>2, <2>1, Zenon DEF Record, LedgerField
  <2> QED BY <1>1, <1>6, <2>2 DEF LedgerAfter, l, p, d, r
<1>7. CASE n = 14
  <2>1. Record(p)
    BY <1>3, <1>7 DEF Billing
  <2>2. /\ finance'.work = finance.work + p /\ finance'.wip = finance.wip + p
        /\ finance'.submitted = finance.submitted /\ finance'.approved = finance.approved
        /\ finance'.reduced = finance.reduced /\ finance'.recovered = finance.recovered
        /\ finance'.receivable = finance.receivable /\ finance'.cash = finance.cash
    BY <1>2, <2>1, Zenon DEF Record, LedgerField
  <2> QED BY <1>1, <1>7, <2>2 DEF LedgerAfter, l, p, d, r
<1>8. CASE n = 15
  <2>1. Submit
    BY <1>3, <1>8 DEF Billing
  <2>2. /\ finance'.work = finance.work /\ finance'.wip = 0
        /\ finance'.submitted = finance.submitted + finance.wip
        /\ finance'.approved = finance.approved
        /\ finance'.reduced = finance.reduced /\ finance'.recovered = finance.recovered
        /\ finance'.receivable = finance.receivable /\ finance'.cash = finance.cash
    BY <1>2, <2>1, Zenon DEF Submit, LedgerField
  <2> QED BY <1>1, <1>8, <2>2 DEF LedgerAfter, l, p, d, r
<1>9. CASE n = 16
  <2>1. Audit(d)
    BY <1>3, <1>9 DEF Billing
  <2>2. /\ finance'.work = finance.work /\ finance'.wip = finance.wip
        /\ finance'.submitted = finance.submitted
        /\ finance'.approved = finance.submitted - d /\ finance'.reduced = d
        /\ finance'.recovered = finance.recovered
        /\ finance'.receivable = finance.submitted - d /\ finance'.cash = finance.cash
    BY <1>2, <2>1, Zenon DEF Audit, LedgerField
  <2> QED BY <1>1, <1>9, <2>2 DEF LedgerAfter, l, p, d, r
<1>10. CASE n = 17
  <2>1. Appeal(r)
    BY <1>3, <1>10 DEF Billing
  <2>2. /\ finance'.work = finance.work /\ finance'.wip = finance.wip
        /\ finance'.submitted = finance.submitted
        /\ finance'.approved = finance.approved + r
        /\ finance'.reduced = finance.reduced - r
        /\ finance'.recovered = finance.recovered + r
        /\ finance'.receivable = finance.receivable + r /\ finance'.cash = finance.cash
    BY <1>2, <2>1, Zenon DEF Appeal, LedgerField
  <2>3. r > 0
    BY <2>1 DEF Appeal
  <2> QED BY <1>1, <1>10, <2>2, <2>3 DEF LedgerAfter, l, p, d, r
<1>11. CASE n = 18
  <2>1. ApplyPayment(l + p - d + r)
    BY <1>3, <1>11 DEF Billing
  <2>2. /\ finance'.work = finance.work /\ finance'.wip = finance.wip
        /\ finance'.submitted = finance.submitted /\ finance'.approved = finance.approved
        /\ finance'.reduced = finance.reduced /\ finance'.recovered = finance.recovered
        /\ finance'.receivable = finance.receivable - (l + p - d + r)
        /\ finance'.cash = finance.cash + (l + p - d + r)
    BY <1>2, <2>1, Zenon DEF ApplyPayment, LedgerField
  <2> QED BY <1>1, <1>11, <2>2 DEF LedgerAfter, l, p, d, r
<1>12. n \in 0..12 \cup {13, 14, 15, 16, 17, 18, 19, 20}
  OBVIOUS
<1> QED BY <1>4, <1>5, <1>6, <1>7, <1>8, <1>9, <1>10, <1>11, <1>12

LEMMA TakenLedger ==
    ASSUME TapeTyped, KernelInv, LedgerFollows, NEW c \in Commands[arm], Taken(c), arm' = arm
    PROVE  LedgerFollows'
<1>1. SUFFICES ASSUME OnWorkflow'
               PROVE  \E n \in 0..21 : n = Len(events') /\ LedgerAfter(n)'
  BY Zenon DEF LedgerFollows
<1>2. OnWorkflow /\ Len(events) \in 0..20 /\ c = Workflow(arm)[Len(events) + 1]
  BY <1>1, OnWorkflowBefore
<1>3. PICK n \in 0..21 : n = Len(events) /\ LedgerAfter(n)
  BY <1>2 DEF LedgerFollows
<1>4. WellMade(c) /\ Denial(c) = "" /\ Transition(c)
  BY TakenIsStep DEF Taken, TapeTyped
<1>5. arm \in DOMAIN Arm /\ LedgerInv
  BY DEF TapeTyped, Played, KernelInv
<1>6. \/ c.verb = "record_time" /\ Record(c.value)
      \/ c.verb = "submit_invoice" /\ Submit
      \/ c.verb = "carrier_audit" /\ Audit(c.value)
      \/ c.verb = "appeal_reduction" /\ Appeal(c.value)
      \/ c.verb = "apply_payment" /\ ApplyPayment(c.value)
      \/ c.verb \notin Billing /\ UNCHANGED finance
  BY <1>4, LedgerBy, Zenon DEF Billing
<1>7. n \in 0..20 /\ c = Workflow(arm)[n + 1]
  BY <1>2, <1>3, Zenon
<1>8. LedgerAfter(n + 1)'
  BY <1>3, <1>5, <1>6, <1>7, LedgerMoves, Zenon
<1>9. Len(events') = n + 1
  BY <1>3, EventsGrow
<1>10. n + 1 \in 0..21
  BY <1>7
<1> QED BY <1>8, <1>9, <1>10, Zenon

LEMMA TakenFollows ==
    ASSUME RunInv, FollowInv, NEW c \in Commands[arm], Taken(c), arm' = arm
    PROVE  FollowInv'
<1>1. WellMade(c) /\ Denial(c) = "" /\ Transition(c)
  BY TakenIsStep DEF Taken, RunInv, TapeTyped
<1>2. OpeningRefused'
  BY DEF FollowInv, OpeningRefused, Taken
<1> QED
  BY <1>1, <1>2, TakenLedger, TakenHold, TakenDeadlines, TakenInventory, TakenClosing
  DEF RunInv, FollowInv

LEMMA NothingFollows ==
    ASSUME FollowInv, UNCHANGED <<vars, events>>, arm' = arm
    PROVE  /\ LedgerFollows' /\ HoldStands' /\ DeadlinesFollow'
           /\ EvidenceFollows' /\ ClosingFollows'
<1>1. LedgerFollows'
  <2>1. OnWorkflow' => OnWorkflow
    BY ZenonT(60) DEF OnWorkflow, Workflow, Command, By
  <2>2. ASSUME NEW n \in 0..21, LedgerAfter(n)
        PROVE  LedgerAfter(n)'
    <3>1. finance' = finance
      BY DEF vars
    <3> QED BY <2>2, <3>1 DEF LedgerAfter
  <2> QED BY <2>1, <2>2, Zenon DEF FollowInv, LedgerFollows
<1>2. Reviewed' = Reviewed
  BY DEF Reviewed, vars
<1>3. EvidenceFollows'
  BY <1>2, Zenon DEF FollowInv, EvidenceFollows, Trail, CustodyStep, vars
<1>4. HoldStands' /\ DeadlinesFollow' /\ ClosingFollows'
  BY Zenon DEF FollowInv, HoldStands, DeadlinesFollow, ClosingFollows, ClosingSteps, vars
<1> QED BY <1>1, <1>3, <1>4

LEMMA RefusedFollows ==
    ASSUME RunInv, FollowInv, NEW c \in Commands[arm], Refused(c), arm' = arm
    PROVE  FollowInv'
<1> DEFINE d == [verb |-> c.verb, reason |-> Denial(c), missing |-> MissingAuthority(c),
                 after |-> Len(events)]
<1>1. UNCHANGED <<vars, events>> /\ denials' = Append(denials, d)
  BY Zenon DEF Refused
<1>2. PICK S : denials \in Seq(S)
  BY Zenon DEF RunInv, TapeTyped
<1>3. d.verb = "open_matter" /\ d.reason = "missing_authority" => "matter_opening" \in d.missing
  <2> SUFFICES ASSUME c.verb = "open_matter", Denial(c) = "missing_authority"
               PROVE  "matter_opening" \in MissingAuthority(c)
    OBVIOUS
  <2>1. MissingAuthority(c) # {}
    BY DEF Denial
  <2> QED BY <2>1, PoliciesSay DEF MissingAuthority
<1> HIDE DEF d
<1>4. \A i \in DOMAIN denials' :
          (i \in DOMAIN denials /\ denials'[i] = denials[i]) \/ denials'[i] = d
  BY <1>1, <1>2
<1>5. OpeningRefused'
  BY <1>3, <1>4 DEF FollowInv, OpeningRefused
<1> QED BY <1>1, <1>5, NothingFollows DEF FollowInv

LEMMA FollowStarts == TapeInit => FollowInv
<1>1. SUFFICES ASSUME TapeInit PROVE FollowInv
  OBVIOUS
<1>2. Init /\ arm \in DOMAIN Arm /\ events = << >> /\ denials = << >>
  BY <1>1, Zenon DEF TapeInit
<1>3. /\ finance = EmptyLedger /\ holds = {} /\ produced = {} /\ accepted = {}
      /\ closed = FALSE
      /\ evidence = [a \in Artifact |-> [status |-> "unknown", custody |-> << >>]]
  BY <1>2, Zenon DEF Init, LedgerInit
<1>4. Len(events) = 0 /\ events \in Seq({}) /\ DOMAIN denials = {}
  BY <1>2
<1>5. ASSUME NEW verb
      PROVE  LastAt(events, verb) = 0
  <2>1. At(events, verb) = {}
    BY <1>4 DEF At
  <2> QED BY <1>4, <2>1, LastAtIs
<1>6. LedgerFollows
  <2>1. LedgerAfter(0)
    BY <1>3 DEF LedgerAfter, EmptyLedger
  <2> QED BY <1>4, <2>1 DEF LedgerFollows
<1>7. OpeningRefused /\ HoldStands
  BY <1>3, <1>4, Zenon DEF OpeningRefused, HoldStands
<1>8. DeadlinesFollow
  BY <1>5 DEF DeadlinesFollow
<1>9. EvidenceFollows
  <2>1. \A a \in Artifact : evidence[a].status = "unknown"
    BY <1>3
  <2>2. \A a \in Artifact : Trail(evidence[a])
    BY <2>1 DEF Trail
  <2>3. Reviewed = {}
    BY <2>1 DEF Reviewed
  <2> QED BY <1>5, <2>2, <2>3 DEF EvidenceFollows
<1>10. ClosingFollows
  BY <1>3, Zenon DEF ClosingFollows
<1> QED BY <1>6, <1>7, <1>8, <1>9, <1>10 DEF FollowInv

LEMMA FollowStep == RunInv /\ FollowInv /\ [TapeNext]_<<vars, tapeVars>> => FollowInv'
<1>1. CASE RunInv /\ FollowInv /\ TapeNext
  <2>1. arm' = arm
    BY <1>1, TapeStepIs DEF RunInv, TapeTyped, Played
  <2>2. CASE UNCHANGED <<vars, events, denials>>
    <3>1. OpeningRefused'
      BY <1>1, <2>2 DEF FollowInv, OpeningRefused
    <3> QED BY <1>1, <2>1, <2>2, <3>1, NothingFollows DEF FollowInv
  <2> QED BY <1>1, <2>1, <2>2, TapeStepIs, TakenFollows, RefusedFollows
      DEF RunInv, TapeTyped, Played
<1>2. CASE RunInv /\ FollowInv /\ UNCHANGED <<vars, tapeVars>>
  <2>1. arm' = arm /\ UNCHANGED <<vars, events, denials>>
    BY <1>2 DEF tapeVars
  <2>2. OpeningRefused'
    BY <1>2, <2>1 DEF FollowInv, OpeningRefused
  <2> QED BY <1>2, <2>1, <2>2, NothingFollows DEF FollowInv
<1> QED BY <1>1, <1>2

-----------------------------------------------------------------------------
(* The workflow has each verb but one at one place.                        *)

LEMMA WorkflowIs ==
    ASSUME NEW a \in DOMAIN Arm
    PROVE  LET W == Workflow(a)
           IN  /\ Len(W) = 21
               /\ W[2].verb = "submit_conflict_result" /\ W[3].verb = "record_lawyer_gate"
               /\ W[4].verb = "open_matter"
               /\ W[5].verb = "calculate_deadlines" /\ W[5].actor = "docketing_specialist"
               /\ W[6].verb = "verify_deadlines" /\ W[6].actor = "deadline_reviewer"
               /\ W[6].value = 0
               /\ W[7].verb = "issue_preservation" /\ W[8].verb = "collect_evidence"
               /\ W[9].verb = "review_evidence" /\ W[10].verb = "produce_discovery"
               /\ W[11].verb = "take_deposition" /\ W[12].verb = "retain_expert"
               /\ W[13].verb = Resolution /\ W[21].verb = "close_matter"
               /\ W[1].verb = "receive_referral" /\ W[20].verb = "finalize_closeout"
               /\ \A i \in 14..19 : W[i].verb \in Billing
BY SMTT(60) DEF Workflow, By, Command, Billing

LEMMA VerbsApart ==
    ASSUME NEW a \in DOMAIN Arm, NEW k \in 2..10, NEW i \in 1..21, i # k
    PROVE  Workflow(a)[i].verb # Workflow(a)[k].verb
<1> DEFINE v(j) == Workflow(a)[j].verb
<1>1. /\ v(1) = "receive_referral" /\ v(2) = "submit_conflict_result"
      /\ v(3) = "record_lawyer_gate" /\ v(4) = "open_matter"
      /\ v(5) = "calculate_deadlines" /\ v(6) = "verify_deadlines"
      /\ v(7) = "issue_preservation" /\ v(8) = "collect_evidence"
      /\ v(9) = "review_evidence" /\ v(10) = "produce_discovery"
      /\ v(11) = "take_deposition" /\ v(12) = "retain_expert"
      /\ v(13) = Resolution /\ v(20) = "finalize_closeout" /\ v(21) = "close_matter"
      /\ \A j \in 14..19 : v(j) \in Billing
  BY WorkflowIs
<1> HIDE DEF v
<1>2. i \in {1, 2, 3, 4, 5, 6, 7, 8, 9, 10, 11, 12, 13, 20, 21} \/ i \in 14..19
  OBVIOUS
<1>3. v(i) # v(k)
  <2> USE <1>1, <1>2, ResolutionAssumption DEF Billing
  <2>1. CASE k = 2
    BY <2>1
  <2>2. CASE k = 3
    BY <2>2
  <2>3. CASE k = 4
    BY <2>3
  <2>4. CASE k = 5
    BY <2>4
  <2>5. CASE k = 6
    BY <2>5
  <2>6. CASE k = 7
    BY <2>6
  <2>7. CASE k = 8
    BY <2>7
  <2>8. CASE k = 9
    BY <2>8
  <2>9. CASE k = 10
    BY <2>9
  <2> QED BY <2>1, <2>2, <2>3, <2>4, <2>5, <2>6, <2>7, <2>8, <2>9
<1> QED BY <1>3 DEF v

LEMMA PlacesAre ==
    ASSUME TapeTyped, events = Workflow(arm), NEW k \in 2..10
    PROVE  /\ FirstAt(events, events[k].verb) = k
           /\ LastAt(events, events[k].verb) = k
<1>1. events \in Seq(Commands[arm]) /\ arm \in DOMAIN Arm
  BY DEF TapeTyped, Played
<1>2. At(events, events[k].verb) = {k}
  <2>1. Len(events) = 21
    BY <1>1, WorkflowIs
  <2>2. \A i \in 1..21 : i # k => events[i].verb # events[k].verb
    BY <1>1, VerbsApart
  <2> QED BY <2>1, <2>2 DEF At
<1> QED BY <1>1, <1>2, FirstAtIs, LastAtIs

LEMMA WorkflowPasses ==
    ASSUME RunInv, FollowInv, events = Workflow(arm), OracleIsolated,
           \E d \in Denials : d.verb = "open_matter" /\ d.reason = "missing_authority"
    PROVE  Passes
<1>1. TapeTyped /\ events \in Seq(Commands[arm]) /\ arm \in DOMAIN Arm
  BY DEF RunInv, TapeTyped, Played
<1>2. /\ Len(events) = 21
      /\ events[2].verb = "submit_conflict_result" /\ events[3].verb = "record_lawyer_gate"
      /\ events[4].verb = "open_matter"
      /\ events[5].verb = "calculate_deadlines" /\ events[5].actor = "docketing_specialist"
      /\ events[6].verb = "verify_deadlines" /\ events[6].actor = "deadline_reviewer"
      /\ events[6].value = 0
      /\ events[7].verb = "issue_preservation" /\ events[8].verb = "collect_evidence"
      /\ events[9].verb = "review_evidence" /\ events[10].verb = "produce_discovery"
      /\ events[11].verb = "take_deposition" /\ events[12].verb = "retain_expert"
      /\ events[13].verb = Resolution /\ events[21].verb = "close_matter"
  BY <1>1, WorkflowIs, ZenonT(60)
<1>3. \A k \in 1..21 : events[k].verb \in accepted
  <2>1. DOMAIN events = 1..21
    BY <1>1, <1>2
  <2>2. accepted = {events[i].verb : i \in DOMAIN events}
    BY <1>1 DEF TapeTyped, AllEvents
  <2> QED BY <2>1, <2>2, Zenon
<1>4. \A k \in 2..10 : /\ FirstAt(events, events[k].verb) = k
                       /\ LastAt(events, events[k].verb) = k
  BY <1>1, PlacesAre
<1>5. /\ FirstAt(events, "record_lawyer_gate") = 3
      /\ LastAt(events, "record_lawyer_gate") = 3
      /\ LastAt(events, "submit_conflict_result") = 2
      /\ FirstAt(events, "open_matter") = 4
      /\ FirstAt(events, "calculate_deadlines") = 5
      /\ LastAt(events, "calculate_deadlines") = 5
      /\ FirstAt(events, "verify_deadlines") = 6
      /\ LastAt(events, "verify_deadlines") = 6
      /\ LastAt(events, "issue_preservation") = 7
      /\ LastAt(events, "collect_evidence") = 8
      /\ LastAt(events, "review_evidence") = 9
      /\ LastAt(events, "produce_discovery") = 10
  BY <1>2, <1>4
<1>6. \A verb : First(verb) = FirstAt(events, verb)
  BY DEF First, FirstAt, SelectInSeq
<1>7. GateHeld
  <2>1. \E d \in Denials : d.reason = "missing_authority" /\ "matter_opening" \in d.missing
    BY DEF FollowInv, OpeningRefused, Denials
  <2>2. holds = {}
    BY <1>5 DEF FollowInv, HoldStands
  <2> QED BY <1>5, <1>6, <2>1, <2>2 DEF GateHeld
<1>8. DeadlinesDerived
  <2>1. /\ deadlines.primary = "docketing_specialist"
        /\ deadlines.verified = 0
        /\ deadlines.secondary = "deadline_reviewer"
    BY <1>2, <1>5 DEF FollowInv, DeadlinesFollow
  <2>2. {"calculate_deadlines", "verify_deadlines"} \subseteq AllEvents
    BY <1>1, <1>2, <1>3 DEF TapeTyped
  <2> QED BY <1>2, <1>5, <1>6, <2>1, <2>2 DEF DeadlinesDerived
<1>9. produced = Producible /\ \A a \in Producible : evidence[a].status = "produced"
  BY <1>5 DEF FollowInv, EvidenceFollows
<1>10. ConflictsFound /\ VoicesApart
  BY <1>9, CaseAssumption, Zenon DEF ConflictsFound, VoicesApart, Conflicts
<1>11. CustodyWhole
  <2>1. ToSet(Custody) = CustodyStep
    BY DEF Custody, ToSet, CustodyStep
  <2>2. \A a \in Producible : CustodyStep \subseteq ToSet(evidence[a].custody)
    BY <1>9, InventoryAssumption DEF FollowInv, EvidenceFollows, Trail
  <2> QED BY <1>9, <2>1, <2>2, InventoryAssumption DEF CustodyWhole
<1>12. "take_deposition" \in AllEvents
  BY <1>1, <1>2, <1>3 DEF TapeTyped
<1>13. opinion.given /\ opinion.sources \subseteq produced \cap ExpertAuthorized
  <2>1. "retain_expert" \in accepted
    BY <1>2, <1>3
  <2> QED BY <2>1 DEF FollowInv, ClosingFollows, RunInv, KernelInv, EvidenceInv,
                      OnlyProducibleLeaves
<1>14. outcome /\ closed /\ ClosingSteps \cup {"finance_reconciled"} \subseteq conditions
  <2>1. Resolution \in accepted /\ "close_matter" \in accepted
    BY <1>2, <1>3
  <2> QED BY <2>1 DEF FollowInv, ClosingFollows
<1>15. BooksReconciled
  <2>1. OnWorkflow
    BY <1>2 DEF OnWorkflow
  <2>2. LedgerAfter(21)
    BY <1>2, <2>1 DEF FollowInv, LedgerFollows
  <2>3. /\ Arm[arm].lawyer \in Nat /\ Arm[arm].paralegal \in Nat
        /\ Arm[arm].reduction \in Nat /\ Arm[arm].recovered \in Nat
    BY <1>1, ArmAssumption, LedgerAssumption
  <2> QED BY <2>2, <2>3 DEF LedgerAfter, BooksReconciled, Reconciled
<1> QED BY <1>7, <1>8, <1>10, <1>11, <1>12, <1>13, <1>14, <1>15 DEF Passes

(* g2.py, _workflow_commands, and berean.py, audit(): a run that accepted  *)
(* the workflow of its arm and nothing else, and refused an early opening  *)
(* and the oracle, passes every check of the audit, whatever else was on   *)
(* the cassette and was refused.                                           *)
THEOREM FaithfulRunPasses == TapeSpec => []FaithfulTapePasses
<1>1. RunInv /\ FollowInv => FaithfulTapePasses
  BY WorkflowPasses DEF FaithfulTapePasses
<1> QED BY <1>1, RunStarts, FollowStarts, RunStep, FollowStep, PTL DEF TapeSpec

=============================================================================
