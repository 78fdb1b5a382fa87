--------------------------- MODULE AttemptCassette ---------------------------
(***************************************************************************)
(* Attempt cassettes (g2.py): the list of commands, each with what is      *)
(* expected of it, that drives a kernel of its own and makes every         *)
(* recorded run; and BereanAuditor (berean.py), which judges the run by    *)
(* the ledgers and the projection it left.                                 *)
(*                                                                         *)
(* A cassette is a file and nothing commits to its attempts, so the one    *)
(* that is played may differ from the one that is built: attempts may be   *)
(* missing, and others may have been added anywhere.  What is on it is     *)
(* settled attempt by attempt, as it is played.                            *)
(***************************************************************************)
EXTENDS G2Kernel, SequencesExt

CONSTANTS
    Arm,            \* Arm[a]: the amounts that the workflow of arm a names
    MaxTapeEdits,   \* bound: how many attempts are missing or added
    FactClaims,     \* FactClaims[a]: what artifact a claims, as <<fact, value>>
    Declared,       \* sealed.declared_conflicts, as [fact, artifacts] records
    AuthorOf        \* AuthorOf[a]: the author of a, who has a voice of his own

(* The workflow of an arm names days and amounts that commands may name. *)
ASSUME ArmAssumption ==
    /\ 0 \in FiledDay
    /\ \A a \in DOMAIN Arm :
          {Arm[a].lawyer, Arm[a].paralegal, Arm[a].reduction, Arm[a].recovered,
           Arm[a].lawyer + Arm[a].paralegal - Arm[a].reduction + Arm[a].recovered}
          \subseteq Amount

VARIABLES
    arm,        \* the arm of this cassette
    next,       \* the first attempt of the cassette as built that is to come
    tapeEdits,  \* the attempts left out and added so far
    tapeStatus, \* "playing", or "raised": the execution was given up
    events,     \* the accepted commands
    denials     \* the refusals of the gate

tapeVars == <<arm, next, tapeEdits, tapeStatus, events, denials>>

-----------------------------------------------------------------------------
(* VERB_POLICIES: who may give the command, and what it takes. *)
Policy(actors, auth, known) == [actors |-> actors, authority |-> auth, knowledge |-> known]

Lawyer(auth, known) == Policy({"responsible_lawyer"}, {auth}, {known})
Paralegal(auth, known) == Policy({"litigation_paralegal"}, {auth}, {known})
Biller == Policy({"billing_specialist"}, {"billing"}, {"guidelines"})

CommonPolicies ==
    [receive_referral |-> Policy({"intake_coordinator"}, {"receive_referral"},
                                 {"referral_summary"}),
     submit_conflict_result |-> Policy({"conflicts_analyst"}, {"conflict_search"},
                                       {"party_names"}),
     record_lawyer_gate  |-> Lawyer("lawyer_conflict_determination", "conflict_result"),
     open_matter         |-> Lawyer("matter_opening", "referral_summary"),
     calculate_deadlines |-> Policy({"docketing_specialist"}, {"deadline_proposal"},
                                    {"rule_pack"}),
     verify_deadlines    |-> Policy({"deadline_reviewer"}, {"deadline_verify"},
                                    {"rule_pack", "deadline_proposal"}),
     issue_preservation  |-> Paralegal("preservation", "evidence_inventory_metadata"),
     collect_evidence    |-> Paralegal("collection", "preservation_issued"),
     review_evidence     |-> Lawyer("legal_work", "collected_evidence"),
     produce_discovery   |-> Paralegal("production", "review_complete"),
     take_deposition     |-> Lawyer("legal_work", "produced_evidence"),
     retain_expert       |-> Lawyer("retain_expert", "deposition_transcript"),
     record_time         |-> Policy({"responsible_lawyer", "litigation_paralegal"},
                                    {"record_time"}, {"initial_record"}),
     submit_invoice      |-> Biller,
     carrier_audit       |-> Policy({"claim_handler"}, {"carrier_audit"}, {"guidelines"}),
     appeal_reduction    |-> Biller,
     apply_payment       |-> Biller,
     finalize_closeout   |-> Lawyer("matter_close", "expert_opinion"),
     close_matter        |-> Lawyer("matter_close", "expert_opinion"),
     read_oracle         |-> Lawyer("legal_work", "initial_record")]

VerbPolicies ==
    [verb \in DOMAIN CommonPolicies \cup {Resolution} |->
        IF verb = Resolution THEN Lawyer("resolution", "expert_opinion")
                             ELSE CommonPolicies[verb]]

(* A command: `value` is the filed day or the amount of its payload, `known` *)
(* what it requires beyond the policy.                                       *)
Command(verb, actor, value, known) ==
    [verb |-> verb, actor |-> actor, value |-> value, known |-> known]

By(actor, verb) == Command(verb, actor, 0, {})

(* _workflow_commands. *)
Workflow(a) ==
    <<By("intake_coordinator", "receive_referral"),
      By("conflicts_analyst", "submit_conflict_result"),
      By("responsible_lawyer", "record_lawyer_gate"),
      By("responsible_lawyer", "open_matter"),
      By("docketing_specialist", "calculate_deadlines"),
      By("deadline_reviewer", "verify_deadlines"),
      By("litigation_paralegal", "issue_preservation"),
      By("litigation_paralegal", "collect_evidence"),
      By("responsible_lawyer", "review_evidence"),
      By("litigation_paralegal", "produce_discovery"),
      By("responsible_lawyer", "take_deposition"),
      By("responsible_lawyer", "retain_expert"),
      By("responsible_lawyer", Resolution),
      Command("record_time", "responsible_lawyer", Arm[a].lawyer, {}),
      Command("record_time", "litigation_paralegal", Arm[a].paralegal, {"review_complete"}),
      By("billing_specialist", "submit_invoice"),
      Command("carrier_audit", "claim_handler", Arm[a].reduction, {}),
      Command("appeal_reduction", "billing_specialist", Arm[a].recovered, {}),
      Command("apply_payment", "billing_specialist",
              Arm[a].lawyer + Arm[a].paralegal - Arm[a].reduction + Arm[a].recovered, {}),
      By("responsible_lawyer", "finalize_closeout"),
      By("responsible_lawyer", "close_matter")>>

Attempt(command, expected) == [command |-> command, expected |-> expected]

Accepted(commands) == [i \in DOMAIN commands |-> Attempt(commands[i], "accepted")]

(* _build_serialized_cassette: the workflow, with a probe of the lawyer's  *)
(* gate before the consent and one of the oracle at the end.               *)
Cassette ==
    [a \in DOMAIN Arm |->
        Accepted(SubSeq(Workflow(a), 1, 2))
        \o <<Attempt(By("responsible_lawyer", "open_matter"), "missing_authority")>>
        \o Accepted(SubSeq(Workflow(a), 3, Len(Workflow(a))))
        \o <<Attempt(By("responsible_lawyer", "read_oracle"), "oracle_boundary")>>]

-----------------------------------------------------------------------------
(* submit(): the gate, and the transition behind it. *)

MissingAuthority(c) == VerbPolicies[c.verb].authority \ authority[c.actor]

MissingKnowledge(c) == (VerbPolicies[c.verb].knowledge \cup c.known) \ knowledge[c.actor]

(* Why the gate refuses, or "" where it lets the command pass. *)
Denial(c) ==
    IF c.actor \notin VerbPolicies[c.verb].actors THEN "verb_role_forbidden"
    ELSE IF c.verb = "read_oracle"                THEN "oracle_boundary"
    ELSE IF MissingAuthority(c) # {}              THEN "missing_authority"
    ELSE IF MissingKnowledge(c) # {}              THEN "missing_knowledge"
    ELSE ""

Books(c) ==
    /\ CASE c.verb = "record_time"      -> RecordTime(c.actor, c.value)
         [] c.verb = "submit_invoice"   -> SubmitInvoice
         [] c.verb = "carrier_audit"    -> CarrierAudit(c.value)
         [] c.verb = "appeal_reduction" -> AppealReduction(c.value)
         [] c.verb = "apply_payment"    -> ReceivePayment(c.value)
    /\ UNCHANGED <<frontier, holds, deadlines, record, outcome, conditions, closed>>

Transition(c) ==
    CASE c.verb = "receive_referral"       -> ReceiveReferral
      [] c.verb = "submit_conflict_result" -> SubmitConflictResult
      [] c.verb = "record_lawyer_gate"     -> RecordLawyerGate
      [] c.verb = "open_matter"            -> OpenMatter
      [] c.verb = "calculate_deadlines"    -> CalculateDeadlines(c.value)
      [] c.verb = "verify_deadlines"       -> VerifyDeadlines(c.value)
      [] c.verb = "issue_preservation"     -> IssuePreservation
      [] c.verb = "collect_evidence"       -> CollectEvidence
      [] c.verb = "review_evidence"        -> ReviewEvidence
      [] c.verb = "produce_discovery"      -> ProduceDiscovery
      [] c.verb = "take_deposition"        -> TakeDeposition
      [] c.verb = "retain_expert"          -> RetainExpert
      [] c.verb = Resolution               -> Resolve
      [] c.verb = "finalize_closeout"      -> FinalizeCloseout
      [] c.verb = "close_matter"           -> CloseMatter
      [] OTHER                             -> Books(c)

Expect(as) == tapeStatus' = IF as THEN "playing" ELSE "raised"

(* _deny: a ledger of refusals, which an attempt that the transition       *)
(* refuses never enters.                                                   *)
Deny(e) ==
    /\ Denial(e.command) # ""
    /\ denials' = Append(denials, [verb |-> e.command.verb, reason |-> Denial(e.command),
                                   missing |-> MissingAuthority(e.command),
                                   after |-> Len(events)])
    /\ Expect(e.expected = Denial(e.command))
    /\ UNCHANGED <<vars, events>>

(* The reason of a refusal is read from the last denial, whoever's it is. *)
LastReason == IF denials = << >> THEN "transition_rejection" ELSE Last(denials).reason

Reject(e) ==
    /\ Denial(e.command) = ""
    /\ ~ENABLED Transition(e.command)
    /\ Expect(e.expected = LastReason)
    /\ UNCHANGED <<vars, events, denials>>

Submits(e) ==
    /\ Denial(e.command) = ""
    /\ Transition(e.command)
    /\ events' = Append(events, e.command)
    /\ Expect(e.expected = "accepted")
    /\ UNCHANGED denials

(* One round of the loop of _execute_serialized_cassette. *)
Play(e) == tapeStatus = "playing" /\ (Deny(e) \/ Reject(e) \/ Submits(e))

-----------------------------------------------------------------------------
ToCome == next <= Len(Cassette[arm])

PlayNext ==
    /\ ToCome
    /\ Play(Cassette[arm][next])
    /\ next' = next + 1
    /\ UNCHANGED <<arm, tapeEdits>>

LeaveOut ==
    /\ tapeStatus = "playing"
    /\ ToCome
    /\ tapeEdits < MaxTapeEdits
    /\ tapeEdits' = tapeEdits + 1
    /\ next' = next + 1
    /\ UNCHANGED <<vars, arm, tapeStatus, events, denials>>

(* The ledger's bounds leave room for the attempt. *)
InBounds(c) ==
    /\ c.verb = "record_time" => finance.work + c.value <= MaxWork
    /\ c.verb = "appeal_reduction" => finance.recovered + c.value <= MaxPaid
    /\ c.verb = "apply_payment" => finance.cash + c.value <= MaxPaid

(* What an attempt may be expected to come to: to be accepted, or refused  *)
(* for what the gate says, or for what it said last.                       *)
Expectations(c) == {"accepted", LastReason} \cup ({Denial(c)} \ {""})

Commands ==
    [a \in DOMAIN Arm |->
        {e.command : e \in ToSet(Cassette[a])}
        \cup {Command("calculate_deadlines", "docketing_specialist", day, {}) : day \in FiledDay}]

Add ==
    /\ tapeEdits < MaxTapeEdits
    /\ tapeEdits' = tapeEdits + 1
    /\ \E c \in Commands[arm] : \E expected \in Expectations(c) :
          InBounds(c) /\ Play(Attempt(c, expected))
    /\ UNCHANGED <<arm, next>>

(* The execution was given up, or there is nothing left to play or to add. *)
Over == tapeStatus = "raised" \/ (~ToCome /\ tapeEdits = MaxTapeEdits)

TapeInit ==
    /\ Init
    /\ arm \in DOMAIN Arm
    /\ next = 1
    /\ tapeEdits = 0
    /\ tapeStatus = "playing"
    /\ events = << >>
    /\ denials = << >>

TapeNext == PlayNext \/ LeaveOut \/ Add

TapeSpec == TapeInit /\ [][TapeNext]_<<vars, tapeVars>>

-----------------------------------------------------------------------------
(* BereanAuditor.audit, check by check. *)

AllEvents == {events[i].verb : i \in DOMAIN events}

Denials == {denials[i] : i \in DOMAIN denials}

First(verb) == SelectInSeq(events, LAMBDA c : c.verb = verb)

LastOf(verb) == SelectLastInSeq(events, LAMBDA c : c.verb = verb)

OracleIsolated == \E d \in Denials : d.reason = "oracle_boundary"

GateHeld ==
    /\ \E d \in Denials : d.reason = "missing_authority" /\ "matter_opening" \in d.missing
    /\ 0 < First("record_lawyer_gate") /\ First("record_lawyer_gate") < First("open_matter")
    /\ holds = {}

DeadlinesDerived ==
    /\ {"calculate_deadlines", "verify_deadlines"} \subseteq AllEvents
    /\ deadlines.verified = 0
    /\ deadlines.primary = events[First("calculate_deadlines")].actor
    /\ deadlines.secondary = events[First("verify_deadlines")].actor
    /\ deadlines.primary # deadlines.secondary

(* _detect_conflicts, among what these artifacts claim. *)
ConflictsIn(artifacts) ==
    {c[1] : c \in {d \in UNION {FactClaims[a] : a \in artifacts} :
                      \E a \in artifacts : \E other \in FactClaims[a] :
                          other[1] = d[1] /\ other[2] # d[2]}}

Conflicts == ConflictsIn(produced)

(* What build_employment_world seals: the declared conflicts are between  *)
(* artifacts that can be produced, and these have three voices at least.   *)
ASSUME CaseAssumption ==
    /\ ConflictsIn(Producible) # {}
    /\ \A d \in Declared : d.artifacts \subseteq Producible
                            /\ d.fact \in ConflictsIn(Producible)
    /\ Cardinality({AuthorOf[a] : a \in Producible}) >= 3

ConflictsFound ==
    /\ Conflicts # {}
    /\ \A d \in Declared : d.artifacts \subseteq produced /\ d.fact \in Conflicts

(* Fault: a trail needs no more than its beginning. *)
CustodyBegins == \A a \in produced : evidence[a].custody # << >>

(* The days of the steps grow with the steps, and their hash is one. *)
CustodyWhole ==
    /\ produced # {}
    /\ \A a \in produced : ToSet(Custody) \subseteq ToSet(evidence[a].custody)

VoicesApart == Cardinality({AuthorOf[a] : a \in produced}) >= 3

(* Fault: the appeal has to have won the whole reduction back. *)
BooksReconciledWholly ==
    Reconciled /\ finance.recovered > 0 /\ finance.receivable = 0 /\ finance.reduced = 0

BooksReconciled == Reconciled /\ finance.recovered > 0 /\ finance.receivable = 0

Passes ==
    /\ OracleIsolated /\ GateHeld /\ DeadlinesDerived
    /\ ConflictsFound /\ CustodyWhole
    /\ "take_deposition" \in AllEvents
    /\ opinion.given /\ opinion.sources \subseteq produced \cap ExpertAuthorized
    /\ VoicesApart /\ BooksReconciled
    /\ closed /\ ClosingSteps \cup {"finance_reconciled"} \subseteq conditions
    /\ outcome

-----------------------------------------------------------------------------
(* Properties. *)

Follow(verbs) ==
    \A i, j \in DOMAIN verbs :
        i < j => 0 < LastOf(verbs[i]) /\ LastOf(verbs[i]) < LastOf(verbs[j])

(* The report of BereanAuditor can be relied on for every run of a         *)
(* cassette, whatever was put on it: the opening was tried before the      *)
(* consent and refused; the deadlines that stand were verified after they  *)
(* were last calculated, the evidence that left the firm was last          *)
(* preserved, collected, reviewed and produced in this order, and what the *)
(* carrier approved has been paid before the matter was closed.  The check *)
(* itself looks at first events, at sets of steps and at balances.         *)
AuditMeansFaithful ==
    tapeStatus = "playing" /\ Passes =>
        /\ \E d \in Denials :
              d.verb = "open_matter" /\ d.after < First("record_lawyer_gate")
        /\ Follow(<<"calculate_deadlines", "verify_deadlines">>)
        /\ Follow(<<"issue_preservation", "collect_evidence", "review_evidence",
                    "produce_discovery">>)
        /\ finance.cash = finance.submitted - finance.reduced
        /\ First("finalize_closeout") < LastOf("close_matter")

(* A run that accepted the workflow and nothing else, and refused an early *)
(* opening and the oracle, passes the audit: what else was tried and       *)
(* refused leaves no trace that the auditor would hold against it.         *)
FaithfulTapePasses ==
    /\ tapeStatus = "playing"
    /\ events = Workflow(arm)
    /\ OracleIsolated
    /\ \E d \in Denials : d.verb = "open_matter" /\ d.reason = "missing_authority"
    => Passes

=============================================================================
