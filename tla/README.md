# Verification of the law firm digital twin

This directory holds TLA+ models of the law firm digital twin (`src/src/law_firm_digital_twin`),
the TLC configurations that check them on small instances, and theorems about
them that the TLA+ proof system checks for every size. `PROJECT.json` is the
index: it maps every definition to the lines it models, and lists the runs, the
mutants that each property must notice, the hazards, the findings and the theorems.

    tlasany M.tla                     parse a module
    tlc -config MCx.cfg MCx           model-check a configuration
    tlapm MProofs.tla                 check the proofs of a module

Paths below are relative to `src/src/law_firm_digital_twin` unless they begin with `src/`.

## 1. The system

The program simulates a law firm that defends employment cases: a deterministic
compiler makes a synthetic case from a seed, kernels drive the matter by the
commands of role-bound actors, auditors check the outcome, and a set of
"Design C" components try out the infrastructure the simulation would need:
a durable commit store, a finance journal, a scheduler, sealed inter-process
messages, and routing of work to specialists under recorded authority.

| Part | State it keeps | Operations | Who it meets, and how | What is hard about it |
| --- | --- | --- | --- | --- |
| Commit store (`commit_protocol.py`, `sqlite_commit_adapter.py`, `commit_crash_worker.py`, `commit_protocol_validator.py`) | SQLite tables: metadata (head), events, commands, outbox | constructor, `commit`, `acknowledge_outbox`, `snapshot` | several processes share one file and meet only at SQLite's write lock | crashes and exceptions at every statement, retries after a lost answer, reads that are not one transaction |
| Finance journal (`finance_journal.py`, `finance_crash_worker.py`) | SQLite tables: metadata, transactions, entries | constructor, `post`, `snapshot`; `build_finance_lifecycle` makes the five stages of a bill | as the commit store | a bill whose stages must go in in order although processes die and begin anew |
| G2 matter kernel (`g2.py`) | one projection: actors' authority and knowledge, holds, deadlines, evidence with custody, production, expert opinion, finance ledger, close conditions, event ledger | `submit` of about twenty verbs | the driver (`_workflow_commands`, cassettes) sends commands; Berean reads the finished kernel | verbs are guarded by tokens that earlier verbs granted, and nothing prevents a verb from being accepted again later |
| G2 attempt cassettes (`g2.py`) | a recorded list of attempts and their expected outcomes, in a file that does not commit to them | build, serialise, execute | replays commands against a fresh kernel; the schedule manifest is built from it | the reason of a refusal is read from the last denial, whoever's it was |
| Berean auditor (`berean.py`) | none | `audit` with findings BRN-001 to BRN-011 | reads a finished kernel and its case | it judges by first events, sets of steps and balances |
| G0/G1 kernel and simulation (`kernel.py`, `simulation.py`, `models.py`) | the predecessor's projection, and the authority ledger of the operational router | `submit`, issue of authority records | the router reads the ledger through the kernel | fewer verbs than G2, the same shape |
| Sealed IPC (`sealed_ipc_protocol.py`, `sealed_ipc_validator.py`) | an append-only replay ledger: entries, nonces, prior successes by key | `issue_capability`, `build_request`, `authorize` | threads share one ledger; each of its methods takes the lock | a decision made of several locked calls |
| Secure pipe server (`windows_secure_pipe_adapter.py`, `..._qualification.py`) | per session: security descriptor, pipe handle, connection, token, the identity of the thread | `serve_one` | hands the frames it reads to sealed IPC | errors in the middle of acquiring and releasing, and a thread that goes on as its client |
| Simulation scheduler (`simulation_schedule_core.py`, `simpy_schedule_adapter.py`, contracts and validator) | a manifest and the decisions made so far | manifest from a cassette, reference planner, SimPy adapter, trace checker, qualification that compares them | the adapter runs processes on the event queue of the SimPy library | same-tick arrivals, releases and grants; ceilings met in another order |
| Operational router (`operational_mesh_*.py`) | authority ledger, role registry | `route` | reads the ledger of the kernel | fail-closed decision over many record checks |
| Operational router process (`operational_router_process.py`, `_worker.py`, `_protocol.py`) | a child process per request; a registry file that both read | `invoke_process_router`, `validate_process_response`, `qualification_summary` | the parent derives the decision again and compares | timeout, crash, an answer of other code, edits of the file between the reads, also between a verdict and the summary that reports it |
| Replay qualification (`replay_qualification.py`, `replay_worker.py`, `src/scripts/run_design_c_e2_replay_qualification_cached.py`) | child processes, receipt files | `qualify_fresh_process_replay`, `load_or_qualify` | a pool of processes that import and hash modules of the package; scripts that share a cache | files hashed after they were imported, a worker whose own file is not hashed, receipts written under a stale key, torn files |
| Persona and evidence lineage (`persona_state.py`, `evidence_contracts.py`), specialist mesh (`specialist_mesh*.py`), case compiler (`case_compiler.py`) | a compilation: eight columns of parts linked by ids and commitments | builders of each part, `validate_case_compilation` | each part commits to those before it | parts built again, lost, repeated, taken from another case, or left behind by the registry |
| Composition and rendering (`composition_contracts.py`, `persona_channel_renderer.py`), corpus audit (`corpus_auditor.py`) | a batch of bundles and its receipt; audit rows | render, validate by rendering again, audit | rendered only from a qualified case | a batch that outlives the case it was rendered from |
| Case designs (`case_manifest.py`, `validators.py`) | a population of blueprints | `build_population_blueprints`, `validate_population_blueprints` | the compiler | largest remainders and ties; cases of different builds with one id |
| Dependency graphs (`litigation_lifecycle_validator.py`, `design_c_validator.py`, `domain_pack_design_validator.py`, `src/campaigns/g2-scale-v1/checks/validate_manifest_contract.py`) | constant declarations | four cycle checks, each written out | none | unknown ids, ids that depend on themselves, the order of the search |
| Oracle isolation, learning loops, technology catalog, corpus diversity | none, or constant data | scans and field checks | files | completeness of a scan; nothing of order or concurrency |

What makes each part correct:

* **Commit store**: the committed tables are always one complete chained log; an
  idempotency key is committed once; a caller is never told something the log
  does not bear out; a call always ends and gives up the lock.
* **Finance journal**: books are balanced at every moment, only grow along the
  lifecycle, and the lifecycle gets to its end whatever fails.
* **G2 kernel, cassettes and audit**: work comes in its order, privileged or
  unresponsive evidence never leaves, verified deadlines are the proposed ones, no
  money is lost, a payment that was forgotten keeps the matter open; what the audit
  passes was done in order, whatever was on the cassette.
* **Scheduler**: first come first served, no idle waiting, two
  planners that agree on every manifest, failures included, and a checker that lets
  only feasible traces pass.
* **Sealed IPC and its pipe**: one nonce and one key buy one new receipt; a repetition
  gets the old receipt; a lost answer can be asked for again. A session gives
  everything back, and the processor never runs as a client.
* **Router and router process**: a route is earned by every record it needs, and
  whatever goes wrong in the child is a block.
* **Replay qualification**: what a receipt says of the hashed modules takes several edits
  to be wrong, a file in the cache is written by nobody who did not find it missing, and who
  edits nothing is never turned away.
* **Pipeline from case to audit**: what qualifies is true to the sealed case however
  its parts came together; what was sound and is built again qualifies; an accepted
  batch is about the case as it is.
* **Populations and graphs**: proportional whatever the builds it was taken from; the
  four cycle checks agree with what a cycle is.

## 2. Modules

| Module | Models | How state and steps correspond |
| --- | --- | --- |
| `SQLite` | SQLite as the adapters use it (external) | `db` are the committed tables, `work` the copy the lock's holder sees, `writer` the holder. `Begin`, `Commit`, `Rollback` |
| `CommitBase` | proposals, event rows, hashes | `EventHash` is injective: the collision freedom of SHA-256 |
| `CommitLog` | the abstract store | one step appends a whole event; replies must be true of the log |
| `CommitStore` | `SQLiteCommitAdapter`, statement by statement | `pc[w]` is the place of worker `w`; its labels are the code's `FAULT_POINTS`; `call[w]` the locals of `commit`; `answer[w]` what it returned last. The three early returns are `ReplayDuplicate`, `RejectConflict`, `RejectStale`; the four writes are `InsertEvent` to `UpdateHead`. `Raise`, `RaiseCommitted`, `BusyTimeout`, `Crash` may happen wherever the code can fail |
| `CommitSnapshot` | `snapshot()` beside the workers | its four SELECTs are four steps |
| `FinanceJournal`, `FinanceSnapshot` | `SQLiteFinanceJournal` and the loop that posts the lifecycle | as above; `next[w]` is the stage the caller posts next, and a process that died begins with the first. The rows of the entries table are kept by the sequence number of their transaction, up to `MaxSeq` |
| `ReplayQualification` | replays in fresh processes and the receipt cache | `call[q]` is how far script `q` is (`first`, `load`, `lock`, `pool`, `probe`, `write`), `worker[q][i]` the process of its run `i`; a worker imports in one step and hashes what it imported in another; `tree` is the version of the hashed modules, `main` that of the worker's own file, which runs as `__main__` and is not hashed; `InputOf` says what a version of it asks for; `cache` the receipt files, which a write truncates first; `EditTree` and `EditMain` change the files, `Kill` ends a script that writes |
| `FinanceLedger` | class `FinanceLedger` of `g2.py` | one operator per method; `Reconciled` says that `invariant_errors()` is empty |
| `G2Kernel` | `G2WorldKernel.submit` and `_transition` | one action per verb: policy, transition, grants and event are one step, because a command runs to its end before the next one |
| `AttemptCassette` | the workflow of an arm as a cassette, `_execute_serialized_cassette`, `BereanAuditor` | `Play` is one round of the loop: the gate's denial (`Deny`, in the order of the code's checks, into `denials`), the transition's refusal (`Reject`, which leaves no denial) or acceptance. `LeaveOut` and `Add` are the differences between the tape that was built and the one that is played. `Passes` is the audit, one operator per finding |
| `ScheduleManifest` | contracts, `build_g2_schedule_manifest`, `validate_schedule_manifest` | `source` says whether the manifest was put together by hand or is that of the cassette in `given`; an attempt without a class or of another matter makes the builder raise |
| `ReferenceScheduler` | `plan_with_reference_scheduler` | one step per proposal, on the first free slot |
| `SimPySchedule` | `SimPyScheduleAdapter.plan` and the SimPy events under it (external) | `agenda` is the event heap; each action is what a process does from one `yield` to the next |
| `ScheduleQualification` | `validate_scheduler_trace`, `qualify_simpy_schedule_adapter` | `Qualify` calls an adapter twice; it hands in the simulated trace, or one that differs from it in one thing (`Altered`) |
| `Population` | `_allocate_axis`, `build_population_blueprints`, `validate_population_blueprints` | the built population of one axis, then relabelled, cut and mixed |
| `DependencyGraphs` | `_dag_errors`, and the three depth-first searches | a graph is checked in one step by all four; the searches are folds over the ids in order, with what they remember |
| `SealedIpc` | `SealedIpcAuthorizer.authorize` over `AppendOnlyReplayLedger` | a step is one method of the ledger under its lock (`prior_success`, `has_nonce`, `append`) with the local work before it |
| `SecurePipe` | `serve_one` and `NativeWindowsPipeApi`; the pipe and its clients are external | one action per call of Windows; `held[s]` is what session `s` has acquired, `thread[s]` whom its thread impersonates, also after the session; `Raise` lets any call fail |
| `OperationalRouter` | `operational_mesh_*.py` | pure operators: `Decision(request, ledger, roles)` with all reasons |
| `RouterCalls` | `KernelOperationalRouter` | one call of the router on any ledger and any registry of roles it may be given, also ones that this kernel does not produce |
| `RouterProcess` | parent, worker and the registry file | the worker's reads and the parent's are steps of their own with `Edit` between them; the worker may hang, crash, garble, be other code, or not start at all; `qualification_summary` collects the answers of several launches and checks them (`recheck`, `rehash`, `requalify`), and after its verdict reads the sources twice more for the summary (`name`, `fixture`); each read may raise |
| `EvidenceContracts`, `SpecialistMesh` | plans, views, projections, staged artifacts, lineage; manifests, assignments, receipts | records and their builders; a commitment is the thing committed to. A look-up in a dictionary built from a list (`Lookup`) is the last place in the list with that key, or 0 for the `None` of `get()` |
| `CaseCompiler` | `compile_case_design`, `validate_case_compilation`, `qualify_case_compilation` | `case` has the compilation's eight columns. A builder that is called again for one artifact is `Rework` (from one stage up to another), a second version `Revise`, an artifact that `stage_artifact` did not make `Deliver`; `Lose`, `Repeat`, `Mix` and `Upgrade` are what a caller or a registry may do to a stored compilation |
| `PersonaChannel`, `CorpusAudit` | rendering of a qualified case, batch validation, audit rows | `batch` is what was rendered last, with the qualification it was rendered under, and is kept while the case changes. The segments of a text are kept by section, in the order of the sections |

Which module composes which: `CommitStore` and `FinanceJournal` both extend `SQLite`, and
the snapshots extend their stores; `AttemptCassette` extends `G2Kernel`, which extends
`FinanceLedger`; `ScheduleQualification` extends `SimPySchedule`, which extends
`ReferenceScheduler`, because the qualification runs both on one manifest; `RouterProcess`
and `RouterCalls` extend `OperationalRouter`; `CorpusAudit`, `PersonaChannel`, `CaseCompiler`,
`SpecialistMesh` and `EvidenceContracts` are one chain. `CommitStore` implements
`CommitLog` by the mapping `log <- db.events`, `acked <-` the sequence numbers of
acknowledged outbox rows. `MC...` modules and `.cfg` files give the constants values, and
put parts side by side that share nothing (a variable then says which of them a
behaviour is about).

A definition whose comment begins with "Fault:" is not part of a model. It is the
form its neighbour would have after a plausible bug, kept to show that a property
notices it (`mutants` in `PROJECT.json`).

## 3. What the runs check

| Run | Instance | What it shows |
| --- | --- | --- |
| `commit_store` | 2 processes, 6 proposals over 3 keys, 3 events; a process and a reader of the same | `TypeOK`; `StoreConsistent`: every check of `snapshot()` passes in every committed state; `AtMostOncePerKey`; `AnswersLast`: what callers were told stays true; `ErrorsMeanTorn`: a snapshot lists errors exactly when a commit fell between its SELECTs, never a broken chain, and what is read first is never ahead of what is read later; `CallsReturn`; `ImplementsLog`: refinement of `CommitLog` |
| `commit_torn` | the same | finding 1 |
| `finance_journal` | 2 processes, 5 stages, 3 rival proposals, 2 faults; a process and a reader of the same | `JournalConsistent`; `BooksFollowLifecycle`: the books are those of a first part of the lifecycle, and at its end the amounts of the recovery decision; `OrderedPostsSucceed`: who posts in order is never refused; `OnlyHeadLags`: the balances of a snapshot are those of a committed prefix, and all that may be old is its head; `LifecycleCompletes` |
| `g2_matter` | 4 artifacts, 2 filed days, amounts 0 to 2, and every cassette with two attempts left out or added | over every order of commands: `WorkInOrder`, `OnlyProducibleLeaves`, `AuditMeansVerified`, `LedgerSound`, `ForgottenPaymentBlocks`. Over every cassette: `AuditMeansFaithful`, what Berean's audit can be relied on for although it looks at first events and sets; `FaithfulTapePasses`: whatever else was tried and refused leaves no trace that is held against a faithful run |
| `g2_custody`, `g2_closed_books` | the kernel alone | findings 2 and 3 |
| `planning` | manifests of 4 proposals or attempts on a resource of 2 places and one of 1; all graphs of 3 ids; populations of up to 10 cases | `NoOvertaking` and `NoIdleWait` of the reference; `Equivalent`: the two planners agree, also on which manifests they refuse, and an honest adapter gets its receipt; `PassMeansFeasible`: a trace that the checker passes can be worked; `VerdictsAreRight`: each cycle check agrees with the transitive closure, up to what it makes of unknown and own ids; `PopulationIsProportional` |
| `processes` | the protocol: 2 threads, 7 requests, 3 ticks, 3 entries; its pipe: 3 servers, 2 clients; replays: 2 scripts, 2 versions of the tree, 2 of the worker's file | `FreshMeansNew`, `DuplicateRepeats`, `RetryIsAnswered`; `EverythingReleased`; `ProcessorServesTheWorker`; `MisreportTakesEdits`: a receipt credits an environment with what other modules computed only if the tree was changed and changed back for every round of the pool (it speaks of the hashed modules only); `SettledFilesAreFinal`: a cache file is written only by scripts that found none, and once these are done never again; `RefusalTakesEdits`: a cache file turns a script away only after an edit, after the death of a script that wrote, or while another one writes |
| `replay_code` | 2 scripts, 2 versions of the worker's file that ask for the same input | finding 5 |
| `routing` | 14 roles, 3 requests, 5 states of the registry file; ledgers of up to 2 records under 4 role registries | `DecisionWasCurrent`: an answer that is believed is this kernel's for a registry that was on disk during the call; `PassIsBound`: whatever a passed qualification reports, decisions, attested sources and the sources it names, was on disk between the beginning of its last check and its end, and its decisions are this kernel's. It does not say that these are one registry: the summary hashes the sources anew after the verdict and compares them with nothing, so that an edit in that moment makes it name sources no worker attested; `CallsAnswered`; `RoutesAreEarned`, said of the people and the signatures and not of the checks |
| `pipeline` | 3 artifacts of the employment case, 2 scopes, 2 reworks | `QualifiedHoldsUp`: what qualifies is true to the sealed case, known to its authors in time, planned, written and checked by different specialists, and can be scanned and rendered; `RebuildQualifies`: the validator refuses no honest work (that stale parts are not accepted is the matter of the other two); `AuditedIsCurrent`: audit rows are only made of what the case says now |
| `case_lineage` | the same | finding 4 |

### Bounds, and why they are enough

* *Two processes or threads.* The stores' processes share only the file, and the lock
  admits one at a time: every interference is between one holder and one other
  process. In sealed IPC a call's two look-ups and its append can be separated by
  the appends of one other thread, which may make several. The theorems below
  hold for any number.
* *Commit store, `MaxEvents` 3.* One event to start the chain, one on top of it, and
  one for which the second is the parent. The proposals include two rivals for
  the first event, a changed redelivery of one of them, and successors of each
  that reuse the other's key: a replay, a conflict and a stale parent occur at
  every length of the log.
* *Finance journal, `MaxFaults` 2.* A fault is an exception, a death, a busy timeout or
  the delivery of a rival. Two allow a failure after a failure and a rival beside
  a failure. The five stages and the amounts are the code's own. The deadlock
  check is off, because a posted lifecycle is the end.
* *Readers.* Beside a reader of either store (`reading`) one process suffices, since the
  lock admits one: a snapshot is torn by commits, whoever makes them. The theorems hold for
  any number of both.
* *Replays, `MaxTreeEdits` 2, `MaxMainEdits` 1, `MaxKills` 1, `RunCounts` 1 and 2, `MaxWorkers` 2.* Two
  edits of the tree are a change and its reversal, the least that gets past one round of the pool. One edit of
  the worker's file is all it takes to mix its versions, since nothing looks for it. A count of 1 is one
  that only the qualification refuses, after the preflight and the look-up. Two runs are one round,
  so that the bound of `MisreportTakesEdits` is met; that further rounds cost two edits each is left to the
  theorem. `InputOf` gives each version of the worker's file an input of its own, and in `replay_code` one to all. The
  scripts are symmetric, which is sound because only invariants and action properties are checked; versions are
  as good as one another, so all behaviours begin with the same (`Original`).
* *G2 matter.* Artifacts differ in what the code looks at: two that conflict, one that can
  be produced by an author of his own, one that is withheld. Two filed days make a
  wrong verification possible. There is no bound on the number of commands. A free
  matter is driven with its deadlines or with its billing (`BilledOrDocketed`): no
  verb of one reads what the other writes. `MaxWork` 3, `MaxPaid` 5 leave
  room for two entries of time and two invoices, a reduction, an appeal and two part
  payments; an audit may be repeated at any time; the bounds only end the growth
  of the totals.
* *Cassettes, `MaxTapeEdits` 2.* One attempt that is missing and one that takes its place,
  or two that are added anywhere; an added attempt expects to be accepted, to be
  refused for what the gate says, or for what it said last. The arm is the
  traditional one with its amounts scaled down, and four of the eight artifacts.
* *Scheduler, `Count` 4.* Two places need three proposals to make one wait, and a
  fourth to be overtaken or to find a gap. The ceilings (`MaxWait` 3, `MaxFinish` 5)
  are met exactly and exceeded by some manifests. Some proposals and attempts are
  ones that the contracts or the builder refuse. An adapter alters one thing of its
  trace, in both answers or only in the second.
* *Populations.* Sizes 1 to 7 and 10 have whole and broken quotas for every axis, and equal
  remainders; the two seeds are the two orders in which ties may be broken. Two
  edits relabel a case and make up for it. *Graphs*: all 9261 with three ids that list at most two
  dependencies each, unknown and own ids included, have every cycle up to three and
  a branch beside each.
* *Sealed IPC, `MaxEntries` 3.* An accepted request, what overtakes it, and what comes
  after both. Requests share a key, share a nonce, belong to another principal,
  or are altered, malformed or mislabelled; ticks are before, in and after the
  lifetime of a capability. *Pipe*: two threads of the kernel's process and one of
  another, the worker and an administrator; sessions are not counted, and any call may
  fail. Both may stop anywhere, as the ledger is full at its bound and a pipe may wait for a client that does
  not come; the scripts of the same run may not before all of them have ended (`MayStop`).
* *Routing, `Launches` 2, `MaxEdits` 3.* A qualification takes ten launches in the code and compares
  each with the first, so two show an edit between launches and after them. Two edits
  are a change and its reversal between any of the reads, and a third one falls between the verdict and
  the reads of the summary. The roles have every kind of requirement between them and contain one another's checkers.
* *Pipeline, `MaxRework` 2.* One rework that breaks the case and one that covers it up, or a
  revision and what befalls it. Three artifacts have the declared conflict and somebody who
  quotes both accounts. `MaxArtifacts` 4 and `MaxPerMatter` 3 (250 and more in the code) are met and exceeded
  by revisions and repetitions. The deadlock check is off: reworks are used up.

### Fairness

* `CallsReturn` assumes weak fairness of each worker's `Progress`: a process
  that is running goes from one statement to the next, and a wait for the lock
  ends in the lock or, by `busy_timeout`, in an error. It does not assume that a
  process that was replaced ever starts again, that anybody calls, or that
  nothing fails.
* `LifecycleCompletes` assumes the same of a worker that also starts again
  and makes its next call. This is a property of the callers rather than of the
  adapter: `src/scripts/build_design_c_e6_recovery_fixture.py` posts the stages one after
  the other, and `src/tests/test_finance_crash_recovery.py` and
  `src/tests/test_finance_journal.py` open the journal again after a death or an
  exception and repeat the post. Failures are finitely many (`MaxFaults`): with a failure
  at every attempt nothing could be promised. Weak fairness suffices although another
  process may take the lock first again and again, because each process has only
  finitely many stages to post.
* `CallsAnswered` assumes weak fairness of the caller's own steps, to which the timeout of
  `subprocess.run` belongs (`operational_router_process.py:48`). Nothing is assumed of
  workers, which may hang for ever.

No other property needs fairness. `SecurePipe` states no liveness: `ConnectNamedPipe` and
`ReadFile` have no deadline, as the repository says itself
(`src/docs/decisions/design_c_c023_secure_ipc_static_qualification.md:84-88`).

## 4. What disagrees with the repository's own words

1. **Torn snapshot** (`commit_torn`). `commit_protocol_validator.py:23` takes the
   errors listed in a snapshot for a broken store (`CPV-004:store_invariants_failed`).
   `snapshot()` reads four tables in four autocommit SELECTs, so a commit between two
   of them makes a sound store list errors.
2. **Custody after production** (`g2_custody`). `berean.py:133`: "Every produced artifact
   has a monotonic, hash-stable custody trail." `issue_preservation` is accepted
   again after production and starts every trail anew, while the artifact stays
   among those produced. Berean finds it (`AuditMeansFaithful`); the kernel allows it.
3. **Closing on a receivable** (`g2_closed_books`). `src/docs/walking_skeleton_acceptance.md:13-14`
   and `src/docs/g2_build_status.md:40` want reconciled books and nothing receivable at the end.
   `finance_reconciled` is granted by `finalize_closeout` and kept: time recorded and invoiced
   after that leaves a receivable, with which `close_matter` is accepted.
4. **Lineage after a revision** (`case_lineage`). `src/docs/g2_build_status.md:86`: "Corpus lineage
   checks cover revision continuity, parent-version identity, and the parent content
   commitment." A plan's parent content is that of the artifact staged in the case
   (`evidence_contracts.py:682`); an audit row has that of the channel rendering
   (`corpus_auditor.py:164`). A case with a second version qualifies, is rendered, and
   fails the audit. The compiler itself makes first versions only.

5. **Unhashed worker** (`replay_code`). `src/docs/lessons/fresh_process_replay_cache_2026-07-18.md:13-14`: "Any
   code, dependency, environment, input, semantics, or count change is a cache miss". The environment hash
   covers the imported modules of the package (`replay_qualification.py:127-129`); the worker is
   started with `-m` (line 217), so that `replay_worker.py` is `__main__` and not one of them. After an edit of it
   that leaves its observation alike, the next caller gets a hit; and an edit between the preflight
   and the pool makes a receipt of what the new file asks for.

## 5. What is proved

TLAPS proves these for all values of the constants under the assumptions the
modules name.

**`CommitStoreProofs`** (any number of processes, proposals, keys and events). Assumed:
`HashAssumption` (no collisions), `ProposalAssumption`, `MaxEventsAssumption` and that the
markers for "none" are no data. `StoreConsistent` alone is not inductive: a step that commits
publishes what earlier steps staged, so the invariant must know the private copy.
`IInv` says: the committed tables are `Sound` (row *i* of every table belongs to event *i*, the
chain runs from the genesis hash, keys are distinct, the head is the last hash); the
holder's copy is the committed tables plus exactly the rows inserted up to its `pc`
(`Staged`); the lock is held exactly by those inside a transaction; and answers name rows
that exist. `Invariance` proves it; `TypeCorrect`, `Consistency`, `OncePerKey` and
`AnswersStay` follow. `Refinement` shows, with `IInv`, that `Spec` implies `ImplementsLog`:
`CommitTransaction` and `CommitAcknowledge` are the abstract steps that change the log, a
return is a reply, a crash or a new call forgets one, and everything else stutters.

The reader is proved about in the same module: `SnapshotErrorsMeanTorn`. `SnapInv` says that the four
SELECTs saw the log at lengths `m <= k <= c <= o`, the last no longer than it is now; with
`IInv`, which says what the rows of a log of a given length are, that is all that
the errors of a snapshot depend on.

**`FinanceJournalProofs`** (any number of workers, faults and rival posts). Assumed: `HeadAssumption` (the
marker for "no head" is no hash; hashes may collide) and `MaxFaultsAssumption`. The lifecycle is the
code's, so the books can only ever be `Books(n)` for one of six lengths: `BooksInv` says so, `Staged` what the
lock's holder has added at its fault point, `InHand` what each caller is posting, and `PaceInv` that
nobody is more than one stage ahead of the file. The last is what the safety of
a restart hangs on: a predecessor that dies after its commit leaves a successor *behind*
the file, never ahead of it, so that its post is a replay. `JournalStaysConsistent`, `BooksAlwaysFollow` and
`NobodyInOrderIsTurnedDown` follow. `StagesAppearInOrder` adds what no invariant says: the
committed file changes only by its first initialisation or by the next stage, with its entries and its head.
`SnapshotsLagOnlyInTheHead` is about the reader, by the argument of the commit store.

**`G2KernelProofs`** (any amounts, days, artifacts, and any of the four resolutions). Assumed: `LedgerAssumption`,
`InventoryAssumption`, `DayAssumption`, `ResolutionAssumption`.

* `LedgerStaysSound`: no sequence of commands breaks `LedgerSound`. One lemma per
  method, and `OnlyBilling` for the verbs that leave the ledger alone.
* `ForgottenStaysOpen`: once cash and receivable exceed what was approved, every command keeps them
  so and none closes the matter.
* `NamedAuditIsCurrent`: verifying compares with the proposal of the moment and calculating again
  removes the second name; the invariant adds that a proposal has its calculator's name.
* `OnlyProducibleLeavesTheFirm`: the invariant adds that only what may be produced
  has the status `reviewed`.
* `WorkStaysInOrder`: commands look at tokens, balances, the outcome and the closing
  conditions, not at what was accepted before. `OrderInv` therefore names for each
  token the verb that it stands for (`AuthorityFrom`, `KnowledgeFrom`), and for each
  balance the verb that can make it positive.

The cassettes and their audit are proved about in the same module, for tapes of any length. Assumed besides:
`ArmAssumption` (the amounts and days of an arm are among those of the ledger) and `CaseAssumption`
(the conflicts that the sealed case declares are among its producible artifacts, which have at least three authors).

* `CassetteDrivesKernel`: `TapeSpec => Spec`, every cassette only drives the kernel, so
  all the theorems above hold of what a cassette executes.
* `ReportCanBeReliedOn` (`AuditMeansFaithful`): what a passing report claims is true of the tape *and* of
  the kernel's state. `RunInv` adds to the kernel's invariant that the tape is the accepted commands (`TapeTyped`),
  what the status of an artifact says of the last steps taken with it (`EvidenceStands`),
  where the last verification and the closeout stand on the tape (`VerificationIsLast`,
  `CloseoutFirst`), and that an opening denied for want of the authority came before the gate that grants it
  (`RefusedEarly`, `ConsentGrants`). The audit looks for first and last events, so the
  proof takes least and greatest positions on the tape (well-founded induction on
  Nat, in the form of a minimum).
* `FaithfulRunPasses` (`FaithfulTapePasses`): the converse, no complaint about a run that
  did every step in order, whatever was refused in between. `FollowInv` says what the
  accepted steps so far have left: in the ledger (`LedgerFollows`, by the number of steps), as
  holds and refusals (`HoldStands`, `OpeningRefused`), deadlines, custody and closing conditions
  (`DeadlinesFollow`, `EvidenceFollows`, `ClosingFollows`).

**`SealedChannelProofs`** is about the two halves of the sealed channel, each for itself. The protocol, for
any number of threads, requests and entries. Assumed: `RequestAssumption`
(capabilities and requests are what the code builds) and `NoneAssumption`. The
invariant has two halves. `Indexed` and `Latest` say what the nonce set and the index
of successes tell about the entries. `CallKnows` says what a call may still rely on
although the ledger has grown since it looked: that a key or nonce was unused *up to
the length the ledger then had*, that the receipt it holds was given for its request, or
that a key it saw taken was taken by another request after any success of its own.
`NewReceipts`, `OldReceipts` and `Retries` prove the three properties of the run. They say exactly what is
left of "once" without a lock around the whole of `authorize`: only calls that overlap can both get a
new receipt for one key.

The pipe, for any number of threads, processes and clients, whichever calls fail:
`SessionsGiveEverythingBack` and `OnlyTheWorkerIsProcessed`. The invariant is per session: what
it holds at each label, also on the way out after an error (`HoldsWhatItMust`); that the
instance of the pipe is open exactly while its server holds the handle; and whom the
thread is and whose frame it has (`KnowsItsClient`). `NobodyElsesPipe` makes the steps
of one session harmless to the others.

**`RouterProofs`** (any registry files, edits, launches, worker programs; any ledgers, roles and requests).
Assumed: `RolesAssumption` (the source's own registry passes the source's own validation), `LaunchesAssumption`
and `RecordsAssumption` (records are a tuple).
`BelievedDecisionsWereCurrent` needs only that the file is among what the call has
seen. `PassesAreBound` adds what a qualification knows at each of its labels (`QualInv`): the collected
answers agree with the one under check (`AttemptsAgree`), the sources that this one attests have been on disk since
the last check began once the hashes were found equal (`SourceWasSeen`), and what the check has derived
stays derived while the summary is written (`PassIsHeld`). `RouterRoutesOnlyEarned` follows
from `Decision` itself, one lemma per family of records; `Earned` speaks of
people and signatures, so the latest record of each kind has to be traced to its issuer.

**`ReplayProofs`** (any number of scripts, versions, runs, threads of the pool, edits and kills). Assumed:
`CallsAssumption` (there is a largest number of runs and a pool of at least one thread; markers are no data).
`SettledFilesStay` and `RefusalsTakeEdits` (action properties) and `MisreportsTakeEdits`. The last is a
counting argument. A worker that imported other code than the environment it
names did so while the tree was away from it, and reported while the tree was
back. At most `MaxWorkers` can have imported at one time, so
`RoundsTakeEdits` bounds those done, and those working, by the number of times the tree
has left and returned; a receipt needs all its runs done, hence two edits for each
round. Beside it `FilesInv` says that while nothing was edited a file can only hold what its name says, and
`TornInv` that an empty file belongs to somebody who writes it, unless somebody died. `SettledFilesStay` needs that who
qualifies keeps his key, and that nobody begins to while the file is there.

**`SchedulerProofs`** (any manifest by hand or from a cassette, any resources, capacities and
ceilings). Assumed: `ManifestAssumption`, the limits the contracts check.
`NormalizedSorts` shows that the order the code sorts by is a permutation without ties. `FirstInIsFirstStarted` and
`WaitingMeansFull` rest on `OneToASlot`: from the tick at which the last proposal taken so far
is ready, a resource has exactly as many decisions under way as it has slots that are not yet free. That
is what relates the slots, the only thing the code looks at, to the proposals a reader
cares about. `PassedTracesCanBeWorked` is about the checker and any trace
of the adapters: its rows name every proposal once (an injection of a finite set into itself),
and at any tick the intervals under way are all under way at the latest of their
starts, which is one of the ticks the checker looks at.

`SimulationPlansAlike` (`Equivalent`) compares two programs that have nothing in common: one puts the proposals on
slots in one pass, the other lets processes meet at queues. They are related by a trace, which is no more than when each
proposal starts:

* `Traces(K, S)` says what characterises the plan of the reference: the first proposals of the order are served first in,
  first out, within the capacities, and none waits beside a free place. `ReferenceTraces` shows it of the
  decisions made and, by `OneMoreDecision`, of these with the decision on which the planner
  raises, which it never records.
* `Simulates(K, S, stage, ...)` says that the simulation is on its way through that trace. `stage` is what each
  process waits for, which no variable of the model holds: it is determined by the events, the
  queues and the recorded decisions, and the proof gives it to each step (`AwaitReadySimulates` to
  `ServeNextSimulates`). `AgendaInv` says that a process has exactly one event, and that processes ready in
  one tick ask in the normalised order, because their events are made in it; `QueueInv` that the queues are in that order;
  `RoomInv` that a resource with a queue has room only for what has been released and not yet
  granted, the interval between the two events in which the library is not itself.
* Two lemmas carry the argument. `TimeGoesOn`: the clock never passes the start of a proposal that has not begun. Such a
  proposal waits beside a full resource, and all whom that works on are in the trace too and still at work
  at that start, so that the trace would exceed the capacity by one. `GrantedOnTime`: a request is granted in the
  tick in which the trace starts it; were it to start later, the trace would have the resource full
  now, when the simulation has room.
* Hence a process can fail only if the trace exceeds a ceiling (`FailureIsForetold`), and when no event
  is left all are done as planned and no ceiling was exceeded (`NothingIsLeft`). `PlannedPasses` adds
  that the checker has nothing against the plan, `AnswersInv` that the adapter is asked once, after both.
  The theorem says what `environment.run()` has done when it returns or raises; that it does, no property states.

**`PipelineProofs`** (any sealed claims, entries, scopes, families, contracts and specialists, and however often and
in whatever way the parts of a case were touched). Assumed: `FactsAssumption` and `SpecsAssumption` (finitely many
claims, each known since certain days; an entry of `_plan_specs` has an author who may write it and the recipients
its family needs), `MeshAssumption` (each family has a writer, who is no checker) and
`SectionsAssumption` (the sections of a contract differ, and one of them carries the assertions).

* The invariant `CaseInv`: the columns of a case are sequences, and every plan in it is one that
  `build_artifact_plan` made (`PlanMade`). It is needed because the validator does not ask again for everything:
  that an assertion was learned by the day of its artifact, and that its author's state knows its
  fact, only the builder of plans has checked. `CaseInvariance` goes through every way in which a caller may
  touch a case; plans are lost, repeated and mixed, but none is made otherwise.
* The validator looks every part up by identity and compares the lengths of the columns; nothing in it
  says that a column holds *only* what belongs to the plans. That this follows is the counting
  argument of the module: in `NoPlaceIsLeft`, whoever has a place of his own among
  as many places leaves none empty. Hence `ProjectionsAreThePlans`, `ArtifactsAreThePlans` and
  `MeshesAreThePlans`, and from these `WhatQualifiesHoldsUp` (`QualifiedHoldsUp`).
* That a qualified case can be rendered rests on `Candidate`: the composer's segments, whatever their number, cite each
  assertion of the plan exactly once and name every section of the contract, so
  `validate_text_composition_candidate` has nothing to complain about.
* `WhatIsAuditedIsCurrent` (`AuditedIsCurrent`): a batch is accepted only if rendering the case of now gives it again.
* `HonestRebuildsQualify` (`RebuildQualifies`): the converse. In a case that is `Fresh`, everything built from the
  plans as they are, each look-up finds exactly one place, its own.

### What is only model-checked

* *Liveness and what needs it* (`CallsReturn`, `LifecycleCompletes`, `CallsAnswered`): fairness and
  `ENABLED` are out of the prover's reach.
* *`PopulationIsProportional`, `VerdictsAreRight`*: what folds and recursive searches compute for
  every input is induction over data.

## 6. What is not modelled

* **Inside the modelled parts.** Clocks, hashes as text, field formats, wording. In G2:
  payloads that lack a key, which raise in the middle of a transition (listed as a
  hazard); the gate and grant that `record_lawyer_gate` names are those of the
  workflows the repository builds; Berean's scan of conflicts is reduced to claims that
  differ. In the commit store: the validator's checks of fields across decisions. In the finance journal: callers
  who post the stages in another order; the repository has none, and that a stale parent is refused is shown
  by the rival posts and, on its own, in the commit store. In the
  scheduler: commitments, flags, the checks STR-001 to 003, 005 and 006, and the noninterference evidence, which
  runs the cassette on two fresh kernels that share nothing with the planner. In
  sealed IPC: the frame encoding and the validator, functions of one message; calls
  with arguments of the wrong type, which change nothing. In the router process: the
  encoding of requests and answers. In the replays: public summaries, telemetry, and the death of a
  script elsewhere than in its write, which leaves nothing behind. Versions of `replay_worker.py` are assumed to
  build the environment lock and report as the present one does and to differ in what they ask for: one that
  left the lock out could report anything, since nothing hashes that file (finding 5). In the router
  process: edits of the hashed sources other than the registry, which the caller has loaded already; a worker
  that runs them is `WorkerDerivesOtherwise`.
* **In the pipeline.** The projections for operating and evaluation, the scans of text, the
  public manifests, and the validators of a single bundle, which the batch repeats.
  Some limits of the code are visible in the model and deserve a reader's notice:
  the validator never compares the day an assertion was learned with the day of the artifact
  (only the builder of plans does); `max_versions_per_artifact` is enforced nowhere;
  two identical views collide (CMP-034) unless they are listed once.
* **Populations**: the designs' ids, that ordinals are contiguous and that design labels agree with the
  axes, none of which the validator checks.
* **The G0/G1 kernel and simulation** except for the authority ledger: the predecessor
  of G2 with the same shape. `design_c_*`, `domain_pack_*`, lifecycles and dossiers except for their
  dependency graphs: constant data and checks of one field at a time.
* **Not at all**: oracle isolation (a scan for the encodings it knows, which a model would
  copy), corpus diversity (statistics over rendered text), learning loops and the technology
  catalog (constant data), the fixture scripts (build steps that call the components
  above). The ctypes bindings of the pipe server belong to the operating system.

## 7. Plan

Done: the commit store with its abstract log, the refinement and the proofs of both; the
finance journal; the G2 kernel with its ledger, cassettes and audit; the
scheduler from manifest to qualification; sealed IPC with its pipe; the router
and its process; replay qualification; the pipeline from a sealed case to an
audited corpus; populations and dependency graphs.

Proved: every safety property of the commit store, the finance journal and their readers,
of the G2 kernel, the cassettes and their audit, the two schedulers and their qualification, sealed IPC, the pipe, the
router and its process, the replays and the pipeline.

Left to TLC is what section 5 names: liveness, and what folds and recursive searches compute.
