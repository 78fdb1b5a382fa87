----------------------------- MODULE RouterProofs -----------------------------
(***************************************************************************)
(* The operational router, for every ledger and every registry of roles,   *)
(* and the process that is asked for its decisions, for every number of    *)
(* launches and edits.                                                     *)
(***************************************************************************)
EXTENDS RouterProcess, RouterCalls, FiniteSetTheorems, WellFoundedInduction, TLAPS

-----------------------------------------------------------------------------
(* A call.  What the file holds now is among what it held since the call   *)
(* began, so a decision derived from it has been current.                  *)

FileIsSeen == pc # "idle" => file \in seen

CallInv == FileIsSeen /\ DecisionWasCurrent

(* An answer that is no decision, or is not the end of the call. *)
LEMMA NoDecision ==
    ASSUME CallInv, NEW next, NEW rsp, Answer(next, rsp), pc # "idle",
           next # "done" \/ rsp.status # "ok"
    PROVE  CallInv'
BY Zenon DEF CallInv, FileIsSeen, DecisionWasCurrent, Answer

LEMMA BlockedIsNoDecision == \A code : Blocked(code).status # "ok" /\ Raised.status # "ok"
BY DEF Blocked, Raised

(* The registry is edited during the call, or before. *)
LEMMA EditKeepsCall ==
    ASSUME CallInv, NEW f \in Files, Edit(f)
    PROVE  CallInv'
<1>1. FileIsSeen'
  BY DEF CallInv, FileIsSeen, Edit
<1>2. DecisionWasCurrent'
  <2>1. SUFFICES ASSUME pc' = "done", response'.status = "ok"
                 PROVE  \E g \in seen' : CanParse(g) /\ response'.decision = Derived(request', g)
    BY DEF DecisionWasCurrent
  <2>2. PICK g \in seen : CanParse(g) /\ response.decision = Derived(request, g)
    BY <2>1, Zenon DEF CallInv, DecisionWasCurrent, Edit
  <2>3. g \in seen' /\ UNCHANGED <<response, request>>
    BY <2>1 DEF Edit
  <2>4. QED
    BY <2>2, <2>3, Zenon
<1>3. QED
  BY <1>1, <1>2 DEF CallInv

LEMMA LaunchKeepsCall ==
    ASSUME Launch, UNCHANGED file
    PROVE  CallInv'
BY DEF CallInv, FileIsSeen, DecisionWasCurrent, Launch

LEMMA RederiveKeepsCall ==
    ASSUME CallInv, Rederive
    PROVE  CallInv'
<1>1. file \in seen
  BY DEF CallInv, FileIsSeen, Rederive
<1>2. UNCHANGED <<file, seen, request>> /\ pc' = "done"
  BY DEF Rederive, Answer
<1>3. CASE CanParse(file) /\ matches /\ response.decision = Derived(request, file)
  <2>1. response' = response
    BY <1>3, Zenon DEF Rederive, Answer
  <2>2. QED
    BY <1>1, <1>2, <1>3, <2>1, Zenon DEF CallInv, FileIsSeen, DecisionWasCurrent
<1>4. CASE ~(CanParse(file) /\ matches /\ response.decision = Derived(request, file))
  <2>1. response' \in {Raised, Blocked("response_invalid")}
    BY <1>4, Zenon DEF Rederive, Answer
  <2>2. response'.status # "ok"
    BY <2>1, BlockedIsNoDecision
  <2>3. QED
    BY <1>1, <1>2, <2>2, Zenon DEF CallInv, FileIsSeen, DecisionWasCurrent
<1>5. QED
  BY <1>3, <1>4

LEMMA CheckSourcesKeepsCall ==
    ASSUME CallInv, NEW next, next # "done", pc # "idle", CheckSources(next)
    PROVE  CallInv'
<1>1. CASE CanHash(file)
  BY <1>1 DEF CallInv, FileIsSeen, DecisionWasCurrent, CheckSources
<1>2. CASE ~CanHash(file)
  BY <1>2, NoDecision, BlockedIsNoDecision DEF CheckSources
<1>3. QED
  BY <1>1, <1>2

LEMMA BuildFixtureKeepsCall ==
    ASSUME CallInv, NEW next, next # "done", pc # "idle", BuildFixture(next)
    PROVE  CallInv'
<1>1. CASE CanParse(file)
  BY <1>1, NoDecision DEF BuildFixture
<1>2. CASE ~CanParse(file)
  BY <1>2, NoDecision, BlockedIsNoDecision DEF BuildFixture
<1>3. QED
  BY <1>1, <1>2

(* A step to a label between the start of the call and its answer. *)
LEMMA OtherLabel ==
    ASSUME CallInv, pc # "idle", pc' # "done", UNCHANGED <<file, seen>>
    PROVE  CallInv'
BY Zenon DEF CallInv, FileIsSeen, DecisionWasCurrent

(* The worker's steps. *)
LEMMA WorkerKeepsCall ==
    ASSUME CallInv,
           \/ CannotLaunch
           \/ WorkerParse \/ WorkerDerive \/ WorkerDerivesOtherwise \/ WorkerAttest
           \/ WorkerHangs \/ WorkerCrashes \/ WorkerGarbles \/ Timeout
    PROVE  CallInv'
<1>1. PICK next, rsp : Answer(next, rsp) /\ (next # "done" \/ rsp.status # "ok")
  BY BlockedIsNoDecision
  DEF CannotLaunch, WorkerParse, WorkerDerive, WorkerDerivesOtherwise, WorkerAttest,
      WorkerHangs, WorkerCrashes, WorkerGarbles, Timeout
<1>2. pc # "idle"
  BY DEF CannotLaunch, WorkerParse, WorkerDerive, WorkerDerivesOtherwise, WorkerAttest,
         WorkerHangs, WorkerCrashes, WorkerGarbles, Timeout, WorkerRuns
<1>3. QED
  BY <1>1, <1>2, NoDecision

LEMMA CallerKeepsCall ==
    ASSUME CallInv, Caller
    PROVE  CallInv'
<1>1. CASE Timeout
  BY <1>1, WorkerKeepsCall
<1>2. CASE CheckBlocked
  BY <1>2, NoDecision DEF CheckBlocked
<1>3. CASE HashSources
  BY <1>3, CheckSourcesKeepsCall DEF HashSources
<1>4. CASE Rederive
  BY <1>4, RederiveKeepsCall
<1>5. CASE Return \/ QualificationRaises
  BY <1>5, OtherLabel DEF Return, QualificationRaises, Finish
<1>6. CASE Collect
  <2>1. UNCHANGED file /\ (Launch \/ (pc' = "compare" /\ UNCHANGED seen)) /\ pc = "done"
    BY <1>6 DEF Collect
  <2>2. QED
    BY <2>1, LaunchKeepsCall DEF CallInv, FileIsSeen, DecisionWasCurrent
<1>7. CASE Compare
  <2>1. file' = file /\ file \in seen' /\ pc' \in {"recheck", "name"}
    BY <1>7 DEF Compare, Verdict, CallInv, FileIsSeen
  <2>2. QED
    BY <2>1 DEF CallInv, FileIsSeen, DecisionWasCurrent
<1>8. CASE CheckFixture \/ RecheckFixture
  BY <1>8, BuildFixtureKeepsCall DEF CheckFixture, RecheckFixture
<1>9. CASE RehashSources
  BY <1>9, CheckSourcesKeepsCall DEF RehashSources
<1>10. CASE Requalify
  <2>1. CASE CanParse(file)
    BY <1>10, <2>1, OtherLabel DEF Requalify, Verdict
  <2>2. CASE ~CanParse(file)
    BY <1>10, <2>2, NoDecision, BlockedIsNoDecision DEF Requalify
  <2>3. QED
    BY <2>1, <2>2
<1>11. CASE NameSources
  <2>1. CASE CanHash(file)
    BY <1>11, <2>1, OtherLabel DEF NameSources
  <2>2. CASE ~CanHash(file)
    BY <1>11, <2>2, NoDecision, BlockedIsNoDecision DEF NameSources
  <2>3. QED
    BY <2>1, <2>2
<1>12. CASE NameFixture
  <2>1. CASE CanParse(file)
    BY <1>12, <2>1, OtherLabel DEF NameFixture, Finish
  <2>2. CASE ~CanParse(file)
    BY <1>12, <2>2, NoDecision, BlockedIsNoDecision DEF NameFixture
  <2>3. QED
    BY <2>1, <2>2
<1>13. QED
  BY <1>1, <1>2, <1>3, <1>4, <1>5, <1>6, <1>7, <1>8, <1>9, <1>10, <1>11, <1>12 DEF Caller

LEMMA CallInit == Init => CallInv
BY DEF Init, CallInv, FileIsSeen, DecisionWasCurrent

LEMMA CallStep == CallInv /\ [ProcessNext]_vars => CallInv'
<1>1. SUFFICES ASSUME CallInv, [ProcessNext]_vars PROVE CallInv'
  OBVIOUS
<1>2. CASE \E f \in Files : Edit(f)
  BY <1>1, <1>2, EditKeepsCall
<1>3. CASE \E t, r : Begin(t, r)
  BY <1>1, <1>3, LaunchKeepsCall DEF Begin
<1>4. CASE Caller
  BY <1>1, <1>4, CallerKeepsCall
<1>5. CASE UNCHANGED vars
  BY <1>1, <1>5, Zenon DEF vars, CallInv, FileIsSeen, DecisionWasCurrent
<1>6. QED
  BY <1>1, <1>2, <1>3, <1>4, <1>5, WorkerKeepsCall DEF ProcessNext

(* operational_router_process.py, validate_process_response: an answer     *)
(* that the caller believes is what this kernel decides on a registry that *)
(* was on disk during the call, whatever the worker ran and however often  *)
(* the file was edited.                                                    *)
THEOREM BelievedDecisionsWereCurrent == ProcessSpec => []DecisionWasCurrent
<1>1. CallInv => DecisionWasCurrent
  BY DEF CallInv
<1>2. QED
  BY <1>1, CallInit, CallStep, PTL DEF ProcessSpec

-----------------------------------------------------------------------------
(* A qualification.  While it is checked again every attempt is the        *)
(* response that is checked; a verdict of "pass" is kept until the summary *)
(* is returned, or the call raises.                                        *)

Checking == {"recheck", "rehash", "requalify"}

Naming == {"name", "fixture"}

AttemptsType ==
    /\ attempts \in Seq({attempts[i] : i \in DOMAIN attempts})
    /\ Len(attempts) <= Launches

AttemptsAgree ==
    pc \in Checking =>
        \A i \in DOMAIN attempts : attempts[i] = response /\ attempts[i].status = "ok"

SourceWasSeen == pc = "requalify" /\ matches => response.source \in seen

QualifyOnly == pc \in Checking \cup Naming \cup {"compare"} => task = "qualify"

AttemptBound(i) ==
    /\ attempts[i].status = "ok" /\ attempts[i].source \in seen
    /\ \E f \in seen : CanParse(f) /\ attempts[i].decision = Derived(request, f)

PassIsHeld ==
    summary.status = "pass" =>
        \/ pc = "done" /\ task = "qualify" /\ response = Raised
        \/ /\ pc \in Naming \cup {"idle"}
           /\ pc # "name" => summary.source \in seen
           /\ \A i \in DOMAIN attempts : AttemptBound(i)

QualInv == AttemptsType /\ AttemptsAgree /\ SourceWasSeen /\ QualifyOnly /\ PassIsHeld

(* A sequence is one over its own elements. *)
LEMMA OverItsElements ==
    ASSUME NEW S, NEW s \in Seq(S)
    PROVE  s \in Seq({s[i] : i \in DOMAIN s})
<1>1. \A i \in 1..Len(s) : s[i] \in {s[j] : j \in DOMAIN s}
  OBVIOUS
<1>2. Len(s) \in Nat /\ DOMAIN s = 1..Len(s)
  OBVIOUS
<1>3. QED
  BY <1>1, <1>2

(* A step outside of the checks and of the naming, with no summary yet. *)
LEMMA NoVerdict ==
    ASSUME QualInv, UNCHANGED <<attempts, summary>>, pc' \notin Checking \cup Naming,
           pc' = "compare" => task' = "qualify", summary.status # "pass"
    PROVE  QualInv'
BY Zenon DEF QualInv, AttemptsType, AttemptsAgree, SourceWasSeen, QualifyOnly, PassIsHeld,
             Checking, Naming

(* Before the verdict nothing has passed. *)
LEMMA NothingPassed ==
    ASSUME QualInv, pc \notin Naming \cup {"idle", "done"}
    PROVE  summary.status # "pass"
BY DEF QualInv, PassIsHeld, Naming

LEMMA CollectKeepsQual ==
    ASSUME QualInv, Collect
    PROVE  QualInv'
<1>1. attempts \in Seq({attempts[i] : i \in DOMAIN attempts}) /\ Launches \in Nat
  BY LaunchesAssumption DEF QualInv, AttemptsType
<1>2. attempts' = Append(attempts, response) /\ Len(attempts) < Launches
  BY DEF Collect
<1>3. attempts' \in Seq({attempts[i] : i \in DOMAIN attempts} \cup {response})
  BY <1>1, <1>2
<1>4. Len(attempts') <= Launches
  BY <1>1, <1>2
<1>5. AttemptsType'
  BY <1>3, <1>4, OverItsElements DEF AttemptsType
<1>6. pc' \in {"parse", "compare"} /\ task' = "qualify" /\ summary' = summary
  BY DEF Collect, Launch
<1>7. summary.status # "pass"
  BY DEF QualInv, PassIsHeld, Collect, Naming
<1>8. QED
  BY <1>5, <1>6, <1>7
  DEF QualInv, AttemptsAgree, SourceWasSeen, QualifyOnly, PassIsHeld, Checking, Naming

LEMMA CompareKeepsQual ==
    ASSUME QualInv, Compare
    PROVE  QualInv'
<1>1. AttemptsType' /\ task' = "qualify"
  BY DEF Compare, QualInv, AttemptsType, QualifyOnly
<1>2. CASE Agree /\ pc' = "recheck" /\ response' = attempts[1] /\ UNCHANGED summary
  <2>1. DOMAIN attempts = 1..Len(attempts) /\ Len(attempts) \in Nat
        /\ Len(attempts) <= Launches /\ Launches \in Nat
    BY LaunchesAssumption DEF QualInv, AttemptsType
  <2>2. \A i \in DOMAIN attempts : attempts[i].status = "ok" /\ attempts[i] = attempts[1]
    BY <1>2, <2>1 DEF Agree
  <2>3. attempts' = attempts
    BY DEF Compare
  <2>4. summary.status # "pass"
    BY NothingPassed DEF Compare, Naming
  <2>5. QED
    BY <1>1, <1>2, <2>2, <2>3, <2>4
    DEF QualInv, AttemptsAgree, SourceWasSeen, QualifyOnly, PassIsHeld
<1>3. CASE Verdict(FALSE)
  BY <1>1, <1>3
  DEF Verdict, Summary, QualInv, AttemptsAgree, SourceWasSeen, QualifyOnly, PassIsHeld,
      Checking
<1>4. QED
  BY <1>2, <1>3 DEF Compare

(* The last check's reads. *)
LEMMA RecheckKeepsQual ==
    ASSUME CallInv, QualInv, RecheckFixture \/ RehashSources
    PROVE  QualInv'
<1>1. summary.status # "pass" /\ pc \in Checking /\ file \in seen
  BY NothingPassed DEF RecheckFixture, RehashSources, Naming, Checking, CallInv, FileIsSeen
<1>2. UNCHANGED <<task, attempts, summary, seen>>
  BY DEF RecheckFixture, RehashSources, BuildFixture, CheckSources, Answer
<1>3. CASE pc' = "done"
  BY <1>1, <1>2, <1>3, NoVerdict DEF Checking, Naming
<1>4. CASE /\ pc' \in {"rehash", "requalify"} /\ response' = response
           /\ pc' = "requalify" => matches' = (response.source = file)
  BY <1>1, <1>2, <1>4
  DEF QualInv, AttemptsType, AttemptsAgree, SourceWasSeen, QualifyOnly, PassIsHeld, Checking
<1>5. QED
  BY <1>3, <1>4 DEF RecheckFixture, RehashSources, BuildFixture, CheckSources, Answer

LEMMA RequalifyKeepsQual ==
    ASSUME CallInv, QualInv, Requalify
    PROVE  QualInv'
<1>1. pc = "requalify" /\ summary.status # "pass" /\ file \in seen
  BY NothingPassed DEF Requalify, Naming, CallInv, FileIsSeen
<1>2. CASE ~CanParse(file)
  BY <1>1, <1>2, NoVerdict DEF Requalify, Answer, Checking, Naming
<1>3. CASE CanParse(file)
  <2> DEFINE passed == matches /\ response.decision = Derived(request, file)
  <2>1. /\ pc' = "name" /\ summary' = Summary(IF passed THEN "pass" ELSE "fail")
        /\ UNCHANGED <<file, seen, task, request, response, attempts>>
    BY <1>3, Zenon DEF Requalify, Verdict
  <2>2. ASSUME passed, NEW i \in DOMAIN attempts PROVE AttemptBound(i)
    <3>1. attempts[i] = response /\ attempts[i].status = "ok"
      BY <1>1 DEF QualInv, AttemptsAgree, Checking
    <3>2. response.source \in seen
      BY <1>1, <2>2 DEF QualInv, SourceWasSeen
    <3>3. QED
      BY <1>1, <1>3, <2>2, <3>1, <3>2, Zenon DEF AttemptBound
  <2>3. summary'.status = "pass" => passed
    BY <2>1 DEF Summary
  <2>4. summary'.status = "pass" => \A i \in DOMAIN attempts' : AttemptBound(i)'
    BY <2>1, <2>2, <2>3, Zenon DEF AttemptBound
  <2> HIDE DEF passed
  <2>5. PassIsHeld'
    BY <2>1, <2>4 DEF PassIsHeld, Naming
  <2>6. QED
    BY <1>1, <2>1, <2>5
    DEF QualInv, AttemptsType, AttemptsAgree, SourceWasSeen, QualifyOnly, Checking
<1>4. QED
  BY <1>2, <1>3

(* The summary's reads leave the verdict alone, or raise. *)
LEMMA NamingKeepsQual ==
    ASSUME CallInv, QualInv, NameSources \/ NameFixture
    PROVE  QualInv'
<1>1. pc \in Naming /\ task = "qualify" /\ file \in seen
  BY DEF NameSources, NameFixture, Naming, QualInv, QualifyOnly, CallInv, FileIsSeen
<1>2. UNCHANGED <<seen, request, attempts>>
  BY DEF NameSources, NameFixture, Answer, Finish
<1>3. CASE pc' = "done" /\ task' = task /\ response' = Raised /\ summary' = summary
  BY <1>1, <1>2, <1>3
  DEF QualInv, AttemptsType, AttemptsAgree, SourceWasSeen, QualifyOnly, PassIsHeld, Checking,
      Naming
<1>4. CASE /\ pc' \in {"fixture", "idle"}
           /\ pc' = "fixture" => task' = task
           /\ summary'.status = summary.status
           /\ summary'.source = file \/ (pc # "name" /\ summary'.source = summary.source)
  <2>1. ASSUME summary'.status = "pass" PROVE summary'.source \in seen
    BY <1>1, <1>4, <2>1 DEF QualInv, PassIsHeld, Naming
  <2>2. ASSUME summary'.status = "pass", NEW i \in DOMAIN attempts' PROVE AttemptBound(i)'
    <3>1. AttemptBound(i)
      BY <1>1, <1>2, <1>4, <2>2 DEF QualInv, PassIsHeld, Naming
    <3>2. QED
      BY <1>2, <3>1, Zenon DEF AttemptBound
  <2>3. PassIsHeld'
    BY <1>2, <1>4, <2>1, <2>2 DEF PassIsHeld, Naming
  <2>4. QED
    BY <1>1, <1>2, <1>4, <2>3
    DEF QualInv, AttemptsType, AttemptsAgree, SourceWasSeen, QualifyOnly, Checking, Naming
<1>5. CASE NameSources
  <2>1. CASE CanHash(file)
    <3>1. /\ pc' = "fixture" /\ UNCHANGED task
          /\ summary' = [summary EXCEPT !.source = file]
      BY <1>5, <2>1 DEF NameSources
    <3>2. QED
      BY <1>4, <3>1
  <2>2. CASE ~CanHash(file)
    BY <1>3, <1>5, <2>2 DEF NameSources, Answer
  <2>3. QED
    BY <2>1, <2>2
<1>6. CASE NameFixture
  BY <1>3, <1>4, <1>6 DEF NameFixture, Answer, Finish
<1>7. QED
  BY <1>5, <1>6

(* The registry is edited: what was on disk stays in what was seen. *)
LEMMA EditKeepsQual ==
    ASSUME QualInv, NEW f \in Files, Edit(f)
    PROVE  QualInv'
<1>1. /\ seen \subseteq seen'
      /\ UNCHANGED <<task, pc, request, response, matches, attempts, summary>>
  BY DEF Edit
<1>2. ASSUME NEW i \in DOMAIN attempts, AttemptBound(i) PROVE AttemptBound(i)'
  BY <1>1, <1>2, Zenon DEF AttemptBound
<1>3. PassIsHeld'
  BY <1>1, <1>2 DEF QualInv, PassIsHeld
<1>4. QED
  BY <1>1, <1>3 DEF QualInv, AttemptsType, AttemptsAgree, SourceWasSeen, QualifyOnly

LEMMA QualStep == CallInv /\ QualInv /\ [ProcessNext]_vars => QualInv'
<1>1. SUFFICES ASSUME CallInv, QualInv, [ProcessNext]_vars PROVE QualInv'
  OBVIOUS
<1>2. CASE \E f \in Files : Edit(f)
  BY <1>1, <1>2, EditKeepsQual
<1>3. CASE \E t, r : Begin(t, r)
  <2>1. attempts' = << >> /\ pc' = "parse" /\ summary' = Summary("none")
    BY <1>3 DEF Begin, Launch
  <2>2. QED
    BY <2>1, LaunchesAssumption
    DEF QualInv, AttemptsType, AttemptsAgree, SourceWasSeen, QualifyOnly, PassIsHeld,
        Summary, Checking, Naming
<1>4. CASE \/ CannotLaunch \/ WorkerParse \/ WorkerDerive \/ WorkerDerivesOtherwise
           \/ WorkerAttest \/ WorkerHangs \/ WorkerCrashes \/ WorkerGarbles \/ Timeout
           \/ CheckBlocked \/ CheckFixture \/ HashSources \/ Rederive
  <2>1. UNCHANGED <<attempts, summary>>
    BY <1>4
    DEF CannotLaunch, WorkerParse, WorkerDerive, WorkerDerivesOtherwise, WorkerAttest,
        WorkerHangs, WorkerCrashes, WorkerGarbles, Timeout, CheckBlocked, CheckFixture,
        BuildFixture, HashSources, CheckSources, Rederive, Answer
  <2>2. /\ pc \notin Naming \cup {"idle", "done"}
        /\ pc' \notin Checking \cup Naming \cup {"compare"}
    BY <1>4
    DEF CannotLaunch, WorkerParse, WorkerDerive, WorkerDerivesOtherwise, WorkerAttest,
        WorkerHangs, WorkerCrashes, WorkerGarbles, WorkerRuns, Timeout, CheckBlocked,
        CheckFixture, BuildFixture, HashSources, CheckSources, Rederive, Answer, Checking,
        Naming
  <2>3. QED
    BY <1>1, <2>1, <2>2, NoVerdict, NothingPassed
<1>5. CASE Return
  <2>1. pc = "done" /\ task = "call" /\ pc' = "idle" /\ UNCHANGED <<attempts, summary>>
    BY <1>5 DEF Return
  <2>2. summary.status # "pass"
    BY <1>1, <2>1 DEF QualInv, PassIsHeld, Naming
  <2>3. QED
    BY <1>1, <2>1, <2>2, NoVerdict DEF Checking, Naming
<1>6. CASE QualificationRaises
  <2>1. pc' = "idle" /\ summary' = Summary("raised") /\ UNCHANGED attempts
    BY <1>6 DEF QualificationRaises, Finish
  <2>2. QED
    BY <1>1, <2>1
    DEF QualInv, AttemptsType, AttemptsAgree, SourceWasSeen, QualifyOnly, PassIsHeld,
        Summary, Checking, Naming
<1>7. CASE Collect \/ Compare
  BY <1>1, <1>7, CollectKeepsQual, CompareKeepsQual
<1>8. CASE RecheckFixture \/ RehashSources \/ Requalify \/ NameSources \/ NameFixture
  BY <1>1, <1>8, RecheckKeepsQual, RequalifyKeepsQual, NamingKeepsQual
<1>9. CASE UNCHANGED vars
  BY <1>1, <1>9, Zenon
  DEF vars, QualInv, AttemptsType, AttemptsAgree, SourceWasSeen, QualifyOnly, PassIsHeld,
      AttemptBound
<1>10. QED
  BY <1>1, <1>2, <1>3, <1>4, <1>5, <1>6, <1>7, <1>8, <1>9 DEF ProcessNext, Caller

(* operational_router_process.py, qualification_summary: what a summary    *)
(* that passes reports of every worker this kernel has derived itself in   *)
(* the last check, and the sources it names were on disk between that and  *)
(* its return, however often the registry was edited.                      *)
THEOREM PassesAreBound == ProcessSpec => []PassIsBound
<1>1. Init => QualInv
  BY LaunchesAssumption
  DEF Init, Summary, QualInv, AttemptsType, AttemptsAgree, SourceWasSeen, QualifyOnly,
      PassIsHeld, Checking, Naming
<1>2. QualInv => PassIsBound
  BY DEF QualInv, PassIsHeld, AttemptBound, PassIsBound
<1>3. QED
  BY <1>1, <1>2, CallInit, CallStep, QualStep, PTL DEF ProcessSpec

-----------------------------------------------------------------------------
(* The router itself. *)

(* A nonempty set of indices has a last one. *)
LEMMA LastIndex ==
    ASSUME NEW n \in Nat, NEW I \in SUBSET (1..n), I # {}
    PROVE  \E i \in I : \A j \in I : j <= i
<1> DEFINE T == {n - i : i \in I}
<1>1. T \subseteq Nat /\ T # {}
  <2>1. PICK i \in I : TRUE
    OBVIOUS
  <2>2. n - i \in T
    OBVIOUS
  <2>3. ASSUME NEW j \in I PROVE n - j \in Nat
    OBVIOUS
  <2>4. QED
    BY <2>2, <2>3, Zenon
<1> HIDE DEF T
<1>2. PICK x \in T : \A y \in T : ~(<<y, x>> \in OpToRel(<, Nat))
  BY <1>1, WFMin, NatLessThanWellFounded
<1>3. \A y \in T : ~(y < x)
  BY <1>1, <1>2 DEF OpToRel
<1>4. PICK i \in I : x = n - i
  BY DEF T
<1>5. ASSUME NEW j \in I PROVE j <= i
  <2>1. n - j \in T
    BY DEF T
  <2>2. ~(n - j < n - i)
    BY <1>3, <1>4, <2>1
  <2>3. QED
    BY <2>2
<1>6. QED
  BY <1>5

(* records_by_id: what is found under an id is a record with that id. *)
LEMMA FoundById ==
    ASSUME NEW ledger, DOMAIN ledger.records = 1..Len(ledger.records),
           Len(ledger.records) \in Nat, NEW id \in RecordIds(ledger)
    PROVE  RecordById(id, ledger).id = id
<1> DEFINE I == {i \in DOMAIN ledger.records : ledger.records[i].id = id}
           Last(i) == /\ ledger.records[i].id = id
                      /\ \A j \in DOMAIN ledger.records :
                             ledger.records[j].id = id => j <= i
<1>1. I # {}
  BY DEF RecordIds
<1>2. PICK i \in I : \A j \in I : j <= i
  BY <1>1, LastIndex
<1>3. \E k \in DOMAIN ledger.records : Last(k)
  BY <1>2
<1>4. Last(CHOOSE k \in DOMAIN ledger.records : Last(k))
  BY <1>3
<1>5. QED
  BY <1>4 DEF RecordById

(* What has been resolved was cited and signed. *)
LEMMA ResolvedIsSigned ==
    ASSUME NEW ledger, DOMAIN ledger.records = 1..Len(ledger.records),
           Len(ledger.records) \in Nat,
           NEW family, NEW w, NEW worker, NEW rec \in Resolved(family, w, worker, ledger)
    PROVE  /\ rec \in {RecordById(id, ledger) : id \in RecordIds(ledger)}
           /\ rec.id \in w.cites[family]
           /\ rec.family = family /\ rec.approved
           /\ rec.issuer \notin {w.requester, worker.id, worker.checker}
           /\ ClassValid(family, rec)
<1>1. PICK id \in w.cites[family] \cap RecordIds(ledger) : rec = RecordById(id, ledger)
  BY DEF Resolved
<1>2. rec.id = id
  BY <1>1, FoundById
<1>3. Admissible(rec, family, w, worker, ledger)
  BY DEF Resolved
<1>4. QED
  BY <1>1, <1>2, <1>3, Zenon DEF Admissible, Fits

(* A worker that was found is the role with the capability. *)
LEMMA WorkerIsARole ==
    ASSUME NEW w, NEW roles, Worker(w, roles) # NoRole
    PROVE  /\ Worker(w, roles) \in roles
           /\ w.capability \in Worker(w, roles).capabilities \ HumanOnly
<1> DEFINE having == {r \in roles : w.capability \in r.capabilities}
<1>1. w.capability \notin HumanOnly /\ Cardinality(having) = 1
      /\ Worker(w, roles) = CHOOSE r \in having : TRUE
  BY Zenon DEF Worker
<1>2. having # {}
  BY <1>1, FS_EmptySet
<1>3. Worker(w, roles) \in having
  BY <1>1, <1>2
<1>4. QED
  BY <1>1, <1>3

(* The checker of a valid registry's role is in it, in another group. *)
LEMMA CheckerIsSeparate ==
    ASSUME NEW roles, ValidRegistry(roles), NEW r \in roles
    PROVE  \E c \in roles : c.id = r.checker /\ c.group # r.group
<1>1. \E c \in roles : c.id = r.checker
  BY DEF ValidRegistry
<1>2. /\ RoleOf(r.checker, roles) \in roles
      /\ RoleOf(r.checker, roles).id = r.checker
  BY <1>1 DEF RoleOf
<1>3. RoleOf(r.checker, roles).group # r.group
  BY DEF ValidRegistry
<1>4. QED
  BY <1>2, <1>3

(* A worker against whom there is no reason. *)
LEMMA NoReasonAgainst ==
    ASSUME NEW w, NEW worker, NEW ledger, WorkerReasons(w, worker, ledger) = {}
    PROVE  /\ worker.active
           /\ worker.checker # w.requester
           /\ worker.source => Resolved("source_admission", w, worker, ledger) # {}
           /\ worker.release => Resolved("reuse_release", w, worker, ledger) # {}
           /\ worker.prerequisites \subseteq KindsOf("prerequisite", w, worker, ledger)
<1>1. /\ Reason(~worker.active, "capability_inactive") = {}
      /\ Reason(w.requester = worker.checker, "requester_checker_collision") = {}
      /\ Reason(worker.source /\ Resolved("source_admission", w, worker, ledger) = {},
                "source_admission_receipt_missing") = {}
      /\ Reason(worker.release /\ Resolved("reuse_release", w, worker, ledger) = {},
                "reuse_release_receipt_missing") = {}
      /\ Reason(~(worker.prerequisites \subseteq
                      KindsOf("prerequisite", w, worker, ledger)),
                "missing_prerequisite") = {}
  BY Zenon DEF WorkerReasons
<1>2. QED
  BY <1>1, Zenon DEF Reason

(* operational_mesh_router.py, _route_with_authority_ledger: a decision    *)
(* that routes has been earned.                                            *)
LEMMA RoutedIsEarned ==
    ASSUME NEW w, NEW roles, ValidRegistry(roles),
           NEW ledger, DOMAIN ledger.records = 1..Len(ledger.records),
           Len(ledger.records) \in Nat,
           Decision(w, ledger, roles).status = "routed"
    PROVE  Earned(Decision(w, ledger, roles), w, ledger, roles)
<1> DEFINE worker == Worker(w, roles)
           missing == worker.authority \ KindsOf("authority", w, worker, ledger)
           why == RequestReasons(w, ledger)
                  \cup IF worker = NoRole THEN {"no_single_worker"}
                       ELSE WorkerReasons(w, worker, ledger)
           found == {RecordById(id, ledger) : id \in RecordIds(ledger)}
           signed(family, rec) ==
               /\ rec.id \in w.cites[family]
               /\ rec.family = family /\ rec.approved
               /\ rec.issuer \notin {w.requester, worker.id, worker.checker}
<1>1. /\ why = {} /\ missing = {}
      /\ Decision(w, ledger, roles).worker = worker
  BY DEF Decision
<1>2. worker # NoRole /\ WorkerReasons(w, worker, ledger) = {}
  BY <1>1, Zenon
<1>3. worker \in roles /\ w.capability \in worker.capabilities \ HumanOnly
  BY <1>2, WorkerIsARole
<1>4. \E r \in roles : r.id = worker.checker /\ r.group # worker.group
  BY <1>3, CheckerIsSeparate
<1>5. /\ worker.active
      /\ worker.checker # w.requester
      /\ worker.source => Resolved("source_admission", w, worker, ledger) # {}
      /\ worker.release => Resolved("reuse_release", w, worker, ledger) # {}
      /\ worker.prerequisites \subseteq KindsOf("prerequisite", w, worker, ledger)
  BY <1>2, NoReasonAgainst
<1>6. ASSUME NEW family, NEW rec \in Resolved(family, w, worker, ledger)
      PROVE  rec \in found /\ signed(family, rec) /\ ClassValid(family, rec)
  BY <1>6, ResolvedIsSigned
<1>7. \A k \in worker.authority :
          \E rec \in found : signed("authority", rec) /\ rec.kind = k /\ rec.human
  <2>1. TAKE k \in worker.authority
  <2>2. PICK rec \in Resolved("authority", w, worker, ledger) : rec.kind = k
    BY <1>1, Zenon DEF KindsOf
  <2>3. QED
    BY <1>6, <2>2 DEF ClassValid
<1>8. \A k \in worker.prerequisites :
          \E rec \in found : signed("prerequisite", rec) /\ rec.kind = k
  <2>1. TAKE k \in worker.prerequisites
  <2>2. PICK rec \in Resolved("prerequisite", w, worker, ledger) : rec.kind = k
    BY <1>5, Zenon DEF KindsOf
  <2>3. QED
    BY <1>6, <2>2
<1>9. worker.source => \E rec \in found : signed("source_admission", rec)
  BY <1>5, <1>6
<1>10. worker.release => \E rec \in found : signed("reuse_release", rec) /\ rec.human
  BY <1>5, <1>6 DEF ClassValid
<1> HIDE DEF worker
<1>11. QED
  BY <1>1, <1>3, <1>4, <1>5, <1>7, <1>8, <1>9, <1>10 DEF Earned

(* operational_mesh_router.py: whatever ledger the kernel hands it and     *)
(* whatever its registry lists, the router routes only work that is        *)
(* earned: an active worker, an independent checker, and every approval    *)
(* signed by somebody else.                                                *)
THEOREM RouterRoutesOnlyEarned == CallsSpec => []RoutesAreEarned
<1> DEFINE Inv == /\ given \in [ledger : Ledgers, roles : Registries]
                  /\ RoutesAreEarned
<1>1. CallsInit => Inv
  BY DEF CallsInit, RoutesAreEarned
<1>2. Inv /\ [CallsNext]_callVars => Inv'
  <2>1. SUFFICES ASSUME Inv, [CallsNext]_callVars PROVE Inv'
    OBVIOUS
  <2>2. ASSUME NEW w \in Works, CallRouter(w) PROVE Inv'
    <3>1. /\ given' = given /\ asked' = w
          /\ decision' = IF ValidRegistry(given.roles)
                           THEN Decision(w, given.ledger, given.roles)
                           ELSE [status |-> "raised"]
      BY <2>2 DEF CallRouter
    <3>2. CASE ValidRegistry(given.roles)
      <4>1. decision' = Decision(w, given.ledger, given.roles)
        BY <3>1, <3>2
      <4>2. /\ DOMAIN given.ledger.records = 1..Len(given.ledger.records)
            /\ Len(given.ledger.records) \in Nat
        BY <2>1, RecordsAssumption
      <4>3. decision'.status = "routed" =>
                Earned(decision', w, given.ledger, given.roles)
        BY <3>2, <4>1, <4>2, RoutedIsEarned
      <4>4. QED
        BY <2>1, <3>1, <4>3, Zenon DEF RoutesAreEarned
    <3>3. CASE ~ValidRegistry(given.roles)
      <4>1. decision'.status # "routed"
        BY <3>1, <3>3
      <4>2. QED
        BY <2>1, <3>1, <4>1, Zenon DEF RoutesAreEarned
    <3>4. QED
      BY <3>2, <3>3
  <2>3. CASE UNCHANGED callVars
    BY <2>1, <2>3, Zenon DEF callVars, RoutesAreEarned
  <2>4. QED
    BY <2>1, <2>2, <2>3 DEF CallsNext
<1>3. Inv => RoutesAreEarned
  OBVIOUS
<1>4. QED
  BY <1>1, <1>2, <1>3, PTL DEF CallsSpec

=============================================================================
