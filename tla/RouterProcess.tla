----------------------------- MODULE RouterProcess -----------------------------
(***************************************************************************)
(* invoke_process_router: a decision is asked of a fresh worker process    *)
(* and derived again by the caller before it is believed; and              *)
(* qualification_summary, which asks several workers the same.  Worker and *)
(* caller each read registry/source-admission-receipts.json, which         *)
(* somebody may edit meanwhile.                                            *)
(***************************************************************************)
EXTENDS OperationalRouter

CONSTANTS
    Roles,          \* build_operational_role_registry()
    Requests,       \* the requests a caller may make
    Launches,       \* launches of one qualification
    MinLaunches,    \* the launches a qualification must have
    MaxEdits        \* bound: edits of the registry file

ASSUME RolesAssumption == ValidRegistry(Roles)

ASSUME LaunchesAssumption == Launches \in Nat \ {0} /\ MinLaunches \in Nat

VARIABLES
    file,       \* the registry file
    edits,
    seen,       \* what the file held since the current call began, or the
                \* last check of a qualification
    task,       \* "none", "call", "qualify"
    pc,
    request,
    response,   \* what the worker wrote, or what _run_worker made of it
    matches,    \* the caller's own hash of the sources is the receipt's
    attempts,   \* the responses of a qualification
    summary     \* of the last qualification: its status and the sources it names

vars == <<file, edits, seen, task, pc, request, response, matches, attempts, summary>>

-----------------------------------------------------------------------------
(* The registry file, as far as the rule pack's one receipt is concerned.  *)
(* "pending": not approved or not admitted; "revised": admitted with       *)
(* another hash; "torn": not JSON.                                         *)
Files == {"admitted", "pending", "revised", "torn", "missing"}

CanParse(f) == f # "torn"       \* json.loads; a missing file is skipped
CanHash(f) == f # "missing"     \* read_bytes

SourceReceipt ==
    [id |-> "source", family |-> "source_admission", kind |-> "source_admission",
     issuer |-> "kernel.rule_pack_registry.v1", human |-> FALSE,
     subject |-> "global", scope |-> {"*"}, current |-> TRUE, digest |-> TRUE,
     source |-> "public", approved |-> TRUE]

(* _operational_authority_ledger *)
KernelLedger(f) ==
    [issuer |-> Issuer, matters |-> {"matter"}, requesters |-> {r.id : r \in Roles},
     records |-> IF f = "admitted" THEN <<SourceReceipt>> ELSE << >>]

Derived(r, f) == Decision(r.work, KernelLedger(f), Roles)

-----------------------------------------------------------------------------
(* What parse_request_bytes checks of a request that was encoded from a    *)
(* dataclass, in its order, with the code of each refusal.                 *)
ParseChecks ==
    <<<<"size", "request_too_large">>, <<"items", "request_types_invalid">>,
      <<"identifier", "request_value_invalid">>, <<"flag", "request_types_invalid">>,
      <<"revision", "protocol_revision_invalid">>, <<"fixture", "fixture_unknown">>,
      <<"class", "request_value_invalid">>>>

FailedChecks(r) == {i \in DOMAIN ParseChecks : ParseChecks[i][1] \in r.defects}

ParseCode(r) ==
    ParseChecks[CHOOSE i \in FailedChecks(r) : \A j \in FailedChecks(r) : i <= j][2]

None == [status |-> "none"]

Blocked(code) == [status |-> "blocked", code |-> code]

Ok(decision, source) == [status |-> "ok", decision |-> decision, source |-> source]

Raised == [status |-> "raised"]     \* the call ends with an exception

Summary(status) == [status |-> status, source |-> "unread"]

-----------------------------------------------------------------------------
Init ==
    /\ file = "pending"
    /\ edits = 0
    /\ seen = {}
    /\ task = "none"
    /\ pc = "idle"
    /\ request = None
    /\ response = None
    /\ matches = FALSE
    /\ attempts = << >>
    /\ summary = Summary("none")

Edit(f) ==
    /\ edits < MaxEdits
    /\ f # file
    /\ file' = f
    /\ edits' = edits + 1
    /\ seen' = IF pc = "idle" THEN seen ELSE seen \cup {f}
    /\ UNCHANGED <<task, pc, request, response, matches, attempts, summary>>

Launch ==
    /\ seen' = {file}
    /\ pc' = "parse"
    /\ response' = None
    /\ matches' = FALSE

(* A caller invokes the router, or a qualification begins. *)
Begin(t, r) ==
    /\ pc = "idle"
    /\ Launch
    /\ task' = t
    /\ request' = r
    /\ attempts' = << >>
    /\ summary' = Summary("none")
    /\ UNCHANGED <<file, edits>>

(* The caller reads the worker's output: more than it accepts, not JSON,   *)
(* or fields that are not those of a response.                             *)
Answer(next, rsp) ==
    /\ pc' = next
    /\ response' = rsp
    /\ UNCHANGED <<file, edits, seen, task, request, matches, attempts, summary>>

(* OSError: there is no temporary file, or no process. *)
CannotLaunch == pc = "parse" /\ Answer("done", Raised)

-----------------------------------------------------------------------------
(* The worker: handle_request. *)

WorkerParse ==
    /\ pc = "parse"
    /\ IF request.defects = {} THEN Answer("derive", None)
       ELSE Answer("answered", Blocked(ParseCode(request)))

WorkerDerive ==
    /\ pc = "derive"
    /\ IF CanParse(file) THEN Answer("attest", Ok(Derived(request, file), "unread"))
       ELSE Answer("answered", Blocked("service_failure"))

(* The sources were edited since the caller loaded them, and the worker    *)
(* runs the new ones: it may decide otherwise.                             *)
WorkerDerivesOtherwise ==
    /\ pc = "derive"
    /\ CanParse(file)
    /\ Answer("attest", Ok([Derived(request, file) EXCEPT !.status = "routed",
                                                          !.reasons = {}], "unread"))

WorkerAttest ==
    /\ pc = "attest"
    /\ IF CanHash(file) THEN Answer("answered", [response EXCEPT !.source = file])
       ELSE Answer("answered", Blocked("service_failure"))

WorkerRuns == pc \in {"parse", "derive", "attest", "stuck"}

WorkerHangs == pc \in {"parse", "derive", "attest"} /\ Answer("stuck", response)

WorkerCrashes == WorkerRuns /\ Answer("done", Blocked("service_crash"))

WorkerGarbles == pc = "answered" /\ Answer("done", Blocked("response_invalid"))

(* Fault: the subprocess is waited for without a timeout. *)
NeverTimeout == FALSE

Timeout == WorkerRuns /\ Answer("done", Blocked("service_timeout"))

-----------------------------------------------------------------------------
(* The caller: validate_process_response.  A kernel is built for the       *)
(* fixture's commitment, the sources are hashed, and a kernel is built for *)
(* the decision: the file is read three times, and each read may raise.    *)

CheckBlocked == pc = "answered" /\ response.status = "blocked" /\ Answer("done", response)

BuildFixture(next) ==
    IF CanParse(file) THEN Answer(next, response) ELSE Answer("done", Raised)

CheckFixture == pc = "answered" /\ response.status = "ok" /\ BuildFixture("hash")

CheckSources(next) ==
    IF CanHash(file)
      THEN /\ pc' = next
           /\ matches' = (response.source = file)
           /\ UNCHANGED <<file, edits, seen, task, request, response, attempts, summary>>
      ELSE Answer("done", Raised)

(* OPP-005 and OPP-006 *)
HashSources == pc = "hash" /\ CheckSources("rederive")

(* Fault: the decision is believed when its commitments are right. *)
BelieveDecision ==
    /\ pc = "rederive"
    /\ Answer("done", IF matches THEN response ELSE Blocked("response_invalid"))

Rederive ==
    /\ pc = "rederive"
    /\ Answer("done",
           IF ~CanParse(file) THEN Raised
           ELSE IF matches /\ response.decision = Derived(request, file) THEN response
           ELSE Blocked("response_invalid"))

(* A call returns; its caller forgets the answer. *)
Return ==
    /\ pc = "done" /\ task = "call"
    /\ pc' = "idle"
    /\ task' = "none"
    /\ UNCHANGED <<file, edits, seen, request, response, matches, attempts, summary>>

-----------------------------------------------------------------------------
(* qualification_summary. *)

Finish(s) ==
    /\ pc' = "idle"
    /\ task' = "none"
    /\ summary' = s
    /\ UNCHANGED <<file, edits, seen, request, response, matches, attempts>>

Collect ==
    /\ pc = "done" /\ task = "qualify" /\ response # Raised
    /\ Len(attempts) < Launches
    /\ attempts' = Append(attempts, response)
    /\ IF Len(attempts) + 1 < Launches
         THEN Launch
         ELSE pc' = "compare" /\ UNCHANGED <<seen, response, matches>>
    /\ UNCHANGED <<file, edits, task, request, summary>>

QualificationRaises ==
    pc = "done" /\ task = "qualify" /\ response = Raised /\ Finish(Summary("raised"))

(* passed; the summary is not returned yet. *)
Verdict(passed) ==
    /\ pc' = "name"
    /\ summary' = Summary(IF passed THEN "pass" ELSE "fail")

(* The bytes of a response are determined by the response. *)
Agree ==
    /\ Launches >= MinLaunches
    /\ \A i \in 1..Launches : attempts[i].status = "ok" /\ attempts[i] = attempts[1]

(* The responses are equal, so the last one's check stands for the others, *)
(* which come before it.                                                   *)
Compare ==
    /\ pc = "compare"
    /\ \/ /\ Agree
          /\ pc' = "recheck" /\ response' = attempts[1] /\ seen' = {file}
          /\ UNCHANGED summary
       \/ ~Agree /\ Verdict(FALSE) /\ UNCHANGED <<response, seen>>
    /\ UNCHANGED <<file, edits, task, request, matches, attempts>>

RecheckFixture == pc = "recheck" /\ BuildFixture("rehash")

RehashSources == pc = "rehash" /\ CheckSources("requalify")

(* Fault: what has been checked once is not derived again. *)
QualifyAtOnce ==
    /\ pc = "requalify"
    /\ Verdict(TRUE)
    /\ UNCHANGED <<file, edits, seen, task, request, response, matches, attempts>>

Requalify ==
    /\ pc = "requalify"
    /\ IF CanParse(file)
         THEN /\ Verdict(matches /\ response.decision = Derived(request, file))
              /\ UNCHANGED <<file, edits, seen, task, request, response, matches, attempts>>
         ELSE Answer("done", Raised)

(* The summary reads the sources once more, whatever the verdict, and      *)
(* names them,                                                             *)
NameSources ==
    /\ pc = "name"
    /\ IF CanHash(file)
         THEN /\ pc' = "fixture"
              /\ summary' = [summary EXCEPT !.source = file]
              /\ UNCHANGED <<file, edits, seen, task, request, response, matches, attempts>>
         ELSE Answer("done", Raised)

(* and once more builds a kernel for the fixture's commitment. *)
NameFixture ==
    /\ pc = "fixture"
    /\ IF CanParse(file) THEN Finish(summary) ELSE Answer("done", Raised)

-----------------------------------------------------------------------------
Caller ==
    \/ Timeout
    \/ CheckBlocked
    \/ CheckFixture
    \/ HashSources
    \/ Rederive
    \/ Return
    \/ Collect
    \/ QualificationRaises
    \/ Compare
    \/ RecheckFixture
    \/ RehashSources
    \/ Requalify
    \/ NameSources
    \/ NameFixture

ProcessNext ==
    \/ \E f \in Files : Edit(f)
    \/ \E r \in Requests : Begin("call", r)
    \/ \E r \in Requests : r.work.capability = "ops.intake.triage" /\ Begin("qualify", r)
    \/ CannotLaunch
    \/ WorkerParse
    \/ WorkerDerive
    \/ WorkerDerivesOtherwise
    \/ WorkerAttest
    \/ WorkerHangs
    \/ WorkerCrashes
    \/ WorkerGarbles
    \/ Caller

(* The caller goes on by itself; nothing is assumed of workers. *)
ProcessSpec == Init /\ [][ProcessNext]_vars /\ WF_vars(Caller)

-----------------------------------------------------------------------------
(* An answer that is believed is the decision of this kernel for a         *)
(* registry that was on disk during the call, whatever the worker ran and  *)
(* whoever edited the file between its reads and the caller's.             *)
DecisionWasCurrent ==
    pc = "done" /\ response.status = "ok" =>
        \E f \in seen : CanParse(f) /\ response.decision = Derived(request, f)

(* A qualification that passes has derived what all its workers answered   *)
(* itself, from a registry that was on disk between the beginning of its   *)
(* last check and its end, and what the workers attest and the summary     *)
(* names was on disk then too: unless somebody edits the file in that      *)
(* time, these are one registry.                                           *)
PassIsBound ==
    pc = "idle" /\ summary.status = "pass" =>
        /\ summary.source \in seen
        /\ \A i \in DOMAIN attempts :
              /\ attempts[i].status = "ok" /\ attempts[i].source \in seen
              /\ \E f \in seen : CanParse(f) /\ attempts[i].decision = Derived(request, f)

(* A caller gets its answer although workers hang, crash or garble. *)
CallsAnswered == (task = "call") ~> (task = "none")

=============================================================================
