------------------------- MODULE ReplayQualification -------------------------
(***************************************************************************)
(* qualify_fresh_process_replay (replay_qualification.py), the worker      *)
(* processes it launches (replay_worker.py) and load_or_qualify, which     *)
(* keeps its receipts in files (run_design_c_e2_replay_qualification_      *)
(* cached.py).                                                             *)
(*                                                                         *)
(* A worker imports modules of the package and, later, hashes the files of *)
(* what it imported.  It runs with -m, so that its own file is __main__    *)
(* and not among them.  The tree, which is the hashed files, and the       *)
(* worker's own file are edited while callers and workers run.  What a     *)
(* version of the tree computes is told apart by the version; of a version *)
(* of the worker's file an observation shows what it asks for.  All its    *)
(* versions keep to the protocol; one that imports other modules changes   *)
(* the hash, as an edit of the tree does.  A launch's nonce is its ordinal *)
(* in its call.                                                            *)
(***************************************************************************)
EXTENDS Naturals, FiniteSets

CONSTANTS
    Qualifier,      \* the runs of the script: each calls load_or_qualify once
    Version,        \* of the tree: the modules that a worker imports
    Main,           \* of replay_worker.py
    InputOf(_),     \* what a version of it asks for and reports on
    RunCounts,      \* the run_count of a call
    MaxWorkers,     \* the threads of the pool
    MaxTreeEdits,   \* bounds of the model
    MaxMainEdits,
    MaxKills,
    Absent,         \* there is no such file, no such value
    Torn            \* a file that is opened for writing and not written

(* A ReplayObservation: the environment it names, by the version that was  *)
(* hashed, and its semantics, by the versions that ran.                    *)
NotObserved == [env |-> Absent, code |-> Absent, main |-> Absent]

(* What the key of a cache file and a receipt bind. *)
Bindings == [env : Version, code : Version, input : {InputOf(m) : m \in Main},
             runs : RunCounts]

Binding(seen, runs) == [env |-> seen.env, code |-> seen.code,
                        input |-> InputOf(seen.main), runs |-> runs]

ASSUME CallsAssumption ==
    /\ RunCounts \subseteq Nat
    /\ \E n \in RunCounts : \A m \in RunCounts : m <= n
    /\ MaxWorkers \in Nat \ {0}
    /\ Absent # Torn
    /\ {Absent, Torn} \cap (Version \cup Main \cup Bindings) = {}

(* A call's workers by their ordinals: its preflights are 0, and the probe *)
(* comes after the runs.                                                   *)
Ordinals == 0..(CHOOSE n \in RunCounts : \A m \in RunCounts : m <= n) + 1

Queued == [state |-> "queued", seen |-> NotObserved]

NotStarted == [at |-> "idle", runs |-> 0, first |-> NotObserved, lock |-> Absent,
               ran |-> {}, receipt |-> Absent, answer |-> "none"]

VARIABLES
    tree,       \* the version of the hashed files
    main,       \* the version of the worker's own file
    treeEdits,  \* how often they were edited
    mainEdits,
    call,       \* call[q]: where q is, and what it holds
    worker,     \* worker[q][i]: the process of ordinal i in the call of q
    cache,      \* cache[k]: the file whose name is the key k
    kills       \* the callers that died while they wrote a file

replayVars == <<tree, main, treeEdits, mainEdits, call, worker, cache, kills>>

-----------------------------------------------------------------------------
ReplayInit ==
    /\ tree \in Version
    /\ main \in Main
    /\ treeEdits = 0
    /\ mainEdits = 0
    /\ call = [q \in Qualifier |-> NotStarted]
    /\ worker = [q \in Qualifier |-> [i \in Ordinals |-> Queued]]
    /\ cache = [k \in Bindings |-> Absent]
    /\ kills = 0

ScriptAt(q, label) == call[q].at = label

ScriptTo(q, label) == call' = [call EXCEPT ![q].at = label]

(* load_or_qualify returns or raises, and the script ends. *)
Answer(q, how, receipt) ==
    /\ call' = [call EXCEPT ![q] = [@ EXCEPT !.at = "ended", !.lock = Absent,
                                            !.answer = how, !.receipt = receipt]]
    /\ worker' = [worker EXCEPT ![q] = [i \in Ordinals |-> Queued]]

-----------------------------------------------------------------------------
(* A worker process. *)

State(q, i) == worker[q][i].state

Running(q) == {i \in Ordinals : State(q, i) = "imported"}

(* The ordinals that the call has work for. *)
Wanted(q) ==
    CASE call[q].at \in {"first", "lock"} -> {0}
      [] ScriptAt(q, "pool")              -> 1..call[q].runs
      [] ScriptAt(q, "probe")             -> {call[q].runs + 1}
      [] OTHER                            -> {}

(* The process starts and imports the package; the pool takes the ordinals *)
(* in their order.                                                         *)
Launch(q, i) ==
    /\ i \in Wanted(q)
    /\ State(q, i) = "queued"
    /\ \A j \in Wanted(q) : j < i => State(q, j) # "queued"
    /\ Cardinality(Running(q)) < MaxWorkers
    /\ worker' = [worker EXCEPT ![q][i] =
                     [state |-> "imported",
                      seen |-> [env |-> Absent, code |-> tree, main |-> main]]]
    /\ UNCHANGED <<tree, main, treeEdits, mainEdits, call, cache, kills>>

(* build_environment_lock: of all that a lock binds, only the files that   *)
(* _loaded_source_tree_hash finds change while workers run, and __main__   *)
(* is not one of them.                                                     *)
EnvironmentHash == tree

(* LFDT_EXPECTED_ENVIRONMENT_HASH: none for a preflight, one that no tree  *)
(* has for the probe.                                                      *)
Expected(q, env) ==
    CASE call[q].at \in {"first", "lock"} -> TRUE
      [] ScriptAt(q, "pool")              -> env = call[q].lock
      [] OTHER                            -> FALSE

(* build_replay_observation: the lock is built, and only what meets the    *)
(* expectation is run and reported.                                        *)
Observe(q, i) ==
    /\ State(q, i) = "imported"
    /\ worker' = [worker EXCEPT ![q][i] =
           IF Expected(q, EnvironmentHash)
             THEN [state |-> "observed",
                   seen |-> [@.seen EXCEPT !.env = EnvironmentHash]]
             ELSE [state |-> "stale", seen |-> NotObserved]]
    /\ UNCHANGED <<tree, main, treeEdits, mainEdits, call, cache, kills>>

(* It crashes, prints something else, or is not done in thirty seconds. *)
WorkerFails(q, i) ==
    /\ State(q, i) = "imported"
    /\ worker' = [worker EXCEPT ![q][i] = [state |-> "failed", seen |-> NotObserved]]
    /\ UNCHANGED <<tree, main, treeEdits, mainEdits, call, cache, kills>>

-----------------------------------------------------------------------------
(* load_or_qualify: its own preflight, and the lookup. *)

Start(q, runs) ==
    /\ ScriptAt(q, "idle")
    /\ call' = [call EXCEPT ![q] = [NotStarted EXCEPT !.at = "first", !.runs = runs]]
    /\ UNCHANGED <<tree, main, treeEdits, mainEdits, worker, cache, kills>>

(* Fault: the key of a cache file leaves the number of runs out. *)
KeyWithoutRuns(seen, runs) == Binding(seen, CHOOSE n \in RunCounts : TRUE)

(* _cache_key. *)
CacheKey(seen, runs) == Binding(seen, runs)

File(q) == cache[CacheKey(call[q].first, call[q].runs)]

(* A preflight that fails raises; one that is done says what to look for,  *)
(* or which environment the runs have to find.                             *)
Preflight(q) ==
    /\ State(q, 0) \in {"observed", "failed"}
    /\ IF State(q, 0) = "failed"
         THEN Answer(q, "raised", Absent)
         ELSE /\ worker' = [worker EXCEPT ![q][0] = Queued]
              /\ \/ /\ ScriptAt(q, "first")
                    /\ call' = [call EXCEPT ![q].at = "lookup",
                                            ![q].first = worker[q][0].seen]
                 \/ /\ ScriptAt(q, "lock")
                    /\ call' = [call EXCEPT ![q].at = "pool",
                                            ![q].lock = worker[q][0].seen.env]
    /\ UNCHANGED <<tree, main, treeEdits, mainEdits, cache, kills>>

(* Fault: it is not looked whether there is a file. *)
LookupAnyway(q) ==
    /\ ScriptAt(q, "lookup")
    /\ IF call[q].runs \in 2..1000
         THEN ScriptTo(q, "lock") /\ UNCHANGED worker
         ELSE Answer(q, "raised", Absent)
    /\ UNCHANGED <<tree, main, treeEdits, mainEdits, cache, kills>>

(* What has no file is qualified, if it can be with so many runs. *)
Lookup(q) ==
    /\ ScriptAt(q, "lookup")
    /\ \/ /\ File(q) # Absent
          /\ ScriptTo(q, "load") /\ UNCHANGED worker
       \/ /\ File(q) = Absent /\ call[q].runs \in 2..1000
          /\ ScriptTo(q, "lock") /\ UNCHANGED worker
       \/ /\ File(q) = Absent /\ call[q].runs \notin 2..1000
          /\ Answer(q, "raised", Absent)
    /\ UNCHANGED <<tree, main, treeEdits, mainEdits, cache, kills>>

(* _validate_cached_receipt. *)
Valid(receipt, seen, runs) == receipt = Binding(seen, runs)

(* _load_cache and _validate_cached_receipt. *)
LoadCache(q) ==
    /\ ScriptAt(q, "load")
    /\ IF File(q) # Torn /\ Valid(File(q), call[q].first, call[q].runs)
         THEN Answer(q, "cache_hit", File(q))
         ELSE Answer(q, "refused", Absent)
    /\ UNCHANGED <<tree, main, treeEdits, mainEdits, cache, kills>>

-----------------------------------------------------------------------------
(* qualify_fresh_process_replay. *)

(* What the observations of the pool show. *)
Seen(q) == {Binding(worker[q][i].seen, call[q].runs) : i \in 1..call[q].runs}

(* The observations have one replay_semantics_hash, which is also of their *)
(* environment, and one input_commitment.                                  *)
Identical(q) == Cardinality(Seen(q)) = 1

(* Fault: the receipt is made for the environment that the caller found. *)
IssuedToCaller(q) == [CHOOSE seen \in Seen(q) : TRUE EXCEPT !.env = call[q].first.env]

(* The receipt, when all observations show the same. *)
Issued(q) == CHOOSE seen \in Seen(q) : TRUE

(* executor.map: the results are taken in the order of the ordinals, and   *)
(* the pool is left when no worker runs.                                   *)
Collect(q) ==
    /\ ScriptAt(q, "pool")
    /\ Running(q) = {}
    /\ \/ /\ \E i \in Wanted(q) :
                /\ State(q, i) \in {"stale", "failed"}
                /\ \A j \in Wanted(q) : j < i => State(q, j) = "observed"
          /\ Answer(q, "raised", Absent)
       \/ /\ \A i \in Wanted(q) : State(q, i) = "observed"
          /\ IF (\A seen \in Seen(q) : seen.env = call[q].lock) /\ Identical(q)
               THEN /\ call' = [call EXCEPT ![q].at = "probe",
                           ![q].receipt = Issued(q),
                           ![q].ran = {worker[q][i].seen.main : i \in 1..call[q].runs}]
                    /\ worker' = [worker EXCEPT ![q] = [i \in Ordinals |-> Queued]]
               ELSE Answer(q, "raised", Absent)
    /\ UNCHANGED <<tree, main, treeEdits, mainEdits, cache, kills>>

(* A worker that is told of an environment that does not exist has to find *)
(* that out.                                                               *)
Probed(q) ==
    /\ ScriptAt(q, "probe")
    /\ State(q, call[q].runs + 1) \in {"stale", "failed"}
    /\ IF State(q, call[q].runs + 1) = "stale"
         THEN ScriptTo(q, "open") /\ UNCHANGED worker
         ELSE Answer(q, "raised", Absent)
    /\ UNCHANGED <<tree, main, treeEdits, mainEdits, cache, kills>>

(* _write_cache: the file is opened, which empties it, and written, under  *)
(* the key of the first preflight.                                         *)
OpenCache(q) ==
    /\ ScriptAt(q, "open")
    /\ cache' = [cache EXCEPT ![CacheKey(call[q].first, call[q].runs)] = Torn]
    /\ ScriptTo(q, "write")
    /\ UNCHANGED <<tree, main, treeEdits, mainEdits, worker, kills>>

WriteCache(q) ==
    /\ ScriptAt(q, "write")
    /\ cache' = [cache EXCEPT ![CacheKey(call[q].first, call[q].runs)] = call[q].receipt]
    /\ Answer(q, "fresh_qualification", call[q].receipt)
    /\ UNCHANGED <<tree, main, treeEdits, mainEdits, kills>>

(* The script dies with the file open. *)
Kill(q) ==
    /\ ScriptAt(q, "write")
    /\ kills < MaxKills
    /\ kills' = kills + 1
    /\ Answer(q, "none", Absent)
    /\ UNCHANGED <<tree, main, treeEdits, mainEdits, cache>>

EditTree ==
    /\ treeEdits < MaxTreeEdits
    /\ tree' \in Version \ {tree}
    /\ treeEdits' = treeEdits + 1
    /\ UNCHANGED <<main, mainEdits, call, worker, cache, kills>>

EditMain ==
    /\ mainEdits < MaxMainEdits
    /\ main' \in Main \ {main}
    /\ mainEdits' = mainEdits + 1
    /\ UNCHANGED <<tree, treeEdits, call, worker, cache, kills>>

-----------------------------------------------------------------------------
ReplayNext ==
    \/ EditTree \/ EditMain
    \/ \E q \in Qualifier :
          \/ \E n \in RunCounts : Start(q, n)
          \/ \E i \in Ordinals : Launch(q, i) \/ Observe(q, i) \/ WorkerFails(q, i)
          \/ Preflight(q) \/ Lookup(q) \/ LoadCache(q)
          \/ Collect(q) \/ Probed(q) \/ OpenCache(q) \/ WriteCache(q) \/ Kill(q)

(* Every script has ended, and nobody will edit a file again. *)
Ended ==
    /\ \A q \in Qualifier : ScriptAt(q, "ended")
    /\ treeEdits = MaxTreeEdits /\ mainEdits = MaxMainEdits

ReplaySpec == ReplayInit /\ [][ReplayNext]_replayVars

-----------------------------------------------------------------------------
(* Properties. *)

(* The modules of a worker are hashed after they are imported, and the     *)
(* hash of each run is compared with that of one preflight: a receipt that *)
(* credits an environment with what other modules computed takes a tree    *)
(* that is changed and changed back for every round of the pool.  It says  *)
(* nothing of the worker's own file, which no environment names.           *)
Rounds(runs) == (runs + MaxWorkers - 1) \div MaxWorkers

Receipts ==
    {cache[k] : k \in Bindings} \cup {call[q].receipt : q \in Qualifier}

MisreportTakesEdits ==
    \A r \in Receipts \ {Absent, Torn} :
        r.env # r.code => treeEdits >= 2 * Rounds(r.runs)

(* A receipt's file is written only by scripts that found none: when these *)
(* are done, it is never written again, whoever asks and whatever is       *)
(* edited.  A good one serves every later caller, and one that is torn or  *)
(* under a key of other code turns all of them away.                       *)
Qualifies(q, k) ==
    /\ call[q].at \in {"lock", "pool", "probe", "open", "write"}
    /\ CacheKey(call[q].first, call[q].runs) = k

Settled(k) == cache[k] # Absent /\ \A q \in Qualifier : ~Qualifies(q, k)

SettledFilesAreFinal ==
    [][\A k \in Bindings : Settled(k) => cache'[k] = cache[k] /\ Settled(k)']_replayVars

(* The cache turns a caller away only after a file of the code was edited, *)
(* or over a receipt that another caller is writing or died writing: where *)
(* nothing is edited a receipt that was written serves every later caller. *)
RefusalTakesEdits ==
    [][\A q \in Qualifier :
          ScriptAt(q, "load") /\ call'[q].answer = "refused" =>
              \/ treeEdits > 0 \/ mainEdits > 0
              \/ kills > 0
              \/ \E d \in Qualifier \ {q} : ScriptAt(d, "write")]_replayVars

(* docs/lessons/fresh_process_replay_cache_2026-07-18.md: any code change  *)
(* is a cache miss.  A caller that is answered from the cache finds a      *)
(* version of the worker's file that some qualification has run.           *)
CodeChangeIsAMiss ==
    \A q \in Qualifier :
        call[q].answer = "cache_hit" =>
            \E d \in Qualifier : call[q].first.main \in call[d].ran

=============================================================================
