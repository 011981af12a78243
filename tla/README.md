# Verification of Amazon-Similar-Search

TLA+ models of the concurrent and failure-prone parts of this repository, TLC
configurations that check them on small instances, and TLAPS proofs of the most
important invariants for every value of the constants.

The repository holds two programs:

* the **search application** (`src/`, about 2 500 lines): a user's text becomes
  attributes (Bonsai, a local language model), the attributes a query, the query
  a paid Outscraper task, its result normalized and scored products. Everything
  between the steps is a JSON file in a shared cache directory;
* the **attested review harness** (`tools/ai_review/`, about 33 000 lines): a
  seven-phase workflow (snapshot, red-snapshot, offline, review-packet, broker,
  sign, attested-judge) that runs untrusted code and paid model calls in
  containers and ends with a judge that accepts a bundle of signed attestations.

`PROJECT.json` lists components, runs, mutants, the map from definitions to
source lines, findings, hazards and theorems. Source paths below are relative to
the repository's root.

## 1. Inventory

| Component | State | Operations | Interacts with | What is hard | What makes it correct |
|---|---|---|---|---|---|
| Phase ledger and driver: `tools/ai_review/phase_protocol.py`, `outer_driver.py` | SQLite table of phases (pending, complete), directory `NN-phase` per phase | claim, prepare, execute, finalize, persist, commit, freeze | coordinator, outer executors | crashes between any two steps, processes on one ledger | nothing executed twice, one linked chain, an interrupted workflow stays dead, evidence before commit |
| Production workflow: `outer_workflow_state.py`, `outer_workflow_runtime.py`, `external_launcher.py` | output root, snapshot store, request in memory, broker ledger file | the phase loop and its callbacks | coordinator container, offline runner, broker | arbitrary coordinator answers, two launches on one root, death in the middle of a commit | one author per root, chain in the root, the snapshot directories in the store are those the committed results name, executors only behind evidence |
| Nonce ledger: `nonce_ledger.py`, `attestation.py` | SQLite table of used nonces, rollback journal | create, validate, reserve a bundle, close check | attested judge | overlapping bundles, locks, crashes in a transaction | a nonce is accepted once, bundles are atomic, crashes fail closed |
| Search pipeline: `src/main/run.py`, `src/repositories/cache_repository.py` | four caches, two of them with a TTL | extract, call, normalize, score | clients, cache files, sessions | searches interleave over shared files | what is under a key belongs to the key, scopes are apart, `--no-cache` starts again |
| Cache file replacement: `src/utilities/json_editor.py` | target and temporary files | write_json, read_json | every cache | writers die, no lock | readers see no file or a whole one |
| Outscraper client: `src/clients/outscraper_client.py` | attempt, poll, result URL | create, retry, poll | provider | lost answers, redirects, foreign URLs, limits | key stays with the endpoint, bounded cost, honest outcome |
| Bonsai client, extraction: `src/clients/bonsai_client.py`, `src/services/user_attribute_extraction.py` | none | one call, corrections | local model | malformed answers | corrections yield valid attributes |
| Normalization, scoring: `src/services/*.py` | none | price conversion, deduplication, weighting | pipeline | rounding, missing values | conversion and order are as specified |
| Broker executor: `broker_outer_executor.py`, `broker_executor.py`, `broker_phase_protocol.py` | reservation ledger (attempts, tokens, cost), running containers | reserve, provision, run, inspect, clean up, freeze the ledger | egress provisioner, model provider | money spent by failed attempts, cleanup after partial creation, two executors with the same names | budgets hold over all attempts, one reservation pays for one run, nothing is left running unreported |
| Egress provisioner and gateway: `broker_egress_provisioner.py`, `egress_gateway.py` | networks, gateway container, relay buffers | create, inspect, remove; relay | broker | commands that fail after they took effect | no resource outlives the call, limits hold |
| Offline execution: `offline_runner.py`, `offline_outer_executor.py`, `offline_phase_protocol.py` | one child process and its pipes, one named container, a control directory | run with deadline and byte limit, kill, remove | production workflow, container runtime | deadline, limit and exit race; launches share a container name | always ends, evidence is the whole output of the run |
| Coordinator launcher: `coordinator_launcher.py` and others | staging directories, one container | stage, run, read the answer, clean up | production workflow | partial staging, timeouts | staging is removed, answer is bounded |
| Coordinator operations: `coordinator_workflow_ops.py`, `coordinator_workflow_inputs.py`, `coordinator_attestation_inputs.py`, `phase_execution_adapters.py` | none (committed files and snapshot store in, transition out) | the prepare and finalize of each phase | production workflow, judge | a worktree that moves, files of other workflows, the same facts derived again in later phases | only own and good evidence is paid for, attested and passed; good work passes |
| Judges: `judge.py`, `attested_judge.py` | nonce ledger | derive everything again from raw evidence, verify, decide | nonce ledger, coordinator | combination of many verdicts | accepted only if every check passed |
| Snapshots, policy: `snapshot.py`, `policy.py`, ... | snapshot directories | measure, copy, compare | coordinator, launcher | file system races | measured = copied |
| Preflight, deployment checks, command lines, containers, prompts | none | checks and argument parsing | host | | |

The hazards (`hazards` in `PROJECT.json`) are the places of this table where a
test would hardly reach: 40, of which 37 have a property; the other three say why
they have none.

## 2. Modules

| Module | Models |
|---|---|
| `PhaseProtocol` | `PhaseRequest`, `PhaseResult` and their contracts, digests, the order of phases |
| `PhaseLedger` | `SqlitePhaseLedger`, `PhaseChain`, `run_claimed_phase` and `OuterWorkflowDriver.run_phase`: several processes, one ledger, several output roots |
| `WorkflowChain` | the abstract promise of a phase ledger |
| `OuterWorkflow` | `run_fixed_workflow` with the callbacks of `run_production_workflow`: the entry that production really uses, which has no ledger |
| `NonceLedger` | the nonce store and the judge around it |
| `BrokerExecution` | `execute_prepared_broker_outer`, `BrokerEgressSession` and `execute_isolated_broker`: several executors on one container runtime and one reservation ledger |
| `OfflineRunner` | `execute_offline` with `_run_bounded`: client, pipes, deadline, container |
| `OfflineEvidence` | operators: policy report, snapshots, RED snapshots, the offline batch and its evidence, gate and TDD results, the review packet |
| `BrokerEvidence` | operators: the broker batch, reservations and frozen ledger, the executor's evidence, the parsed review |
| `AttestedJudge` | operators: committed history, reconstruction of the attestation inputs, statements, signatures, the ordinary and the attested verdict |
| `CoordinatorPhases` | `prepare_workflow_transition` and `finalize_workflow_transition` of all seven phases, over the three modules above |
| `SearchPipeline` | `run_product_search` and its caches |
| `JsonEditor` | `write_json` and `read_json` |
| `OutscraperClient` | one `fetch` against an arbitrary provider |
| `PhaseLedgerProofs`, `OuterWorkflowProofs`, `NonceLedgerProofs`, `BrokerExecutionProofs`, `OfflineRunnerProofs`, `CoordinatorPhasesProofs`, `SearchPipelineProofs`, `OutscraperClientProofs` | the theorems about the module each extends |
| `MC*` | constants and symmetry for TLC |

`PhaseLedger` and `OuterWorkflow` both extend `PhaseProtocol`: the same contracts
behind two drivers. `PhaseLedger` instantiates `WorkflowChain` with a refinement
mapping. `CoordinatorPhases` extends `AttestedJudge`, which extends
`BrokerEvidence`, which extends `OfflineEvidence`. The production system is seen
from three sides: `OuterWorkflow` is the runner, for which a coordinator's reply is
arbitrary; `CoordinatorPhases` is what the replies really are, with the two outer
executions as one step each; `OfflineRunner` and `BrokerExecution` are these
executions step by step.

### How state and actions correspond to the code

**PhaseProtocol.** A digest is an ideal constructor: `PhaseSha` returns the
workflow, the anchors and the outputs of every phase up to a result, which is
what a chained SHA-256 commits to. The five anchors no phase may change (task,
runtime manifest, key id, public key, candidate) are one value. Sets of artifacts
are one value each.

**PhaseLedger.** `rows[w][n]` is the row of the table, `trees[r][n]` the
directory of a phase below an output root with the number of files persisted so
far. `pc` walks through `run_phase`: `BeginFirst`/`BeginNext` (the directory is
made, the previous tree is checked to be read-only), `Claim` (one
`BEGIN IMMEDIATE` transaction) or `ClaimRefused`, `Prepare`, `ExecuteExternal`,
`Finalize`, `Persist` (one file a step, in the code's order), `Commit` (one
transaction) and `Freeze`. `Abort` is an exception or a kill at any point. What a
caller passes and a coordinator answers is arbitrary among the well-formed.
`prepared` and `external` are history variables.

**OuterWorkflow.** A launch checks the broker ledger (`LedgerIsNew`) and the root
(`CheckRoot`, then `MakeStore`: two system calls, with another launch possibly in
between), and then runs phases: `PrepareInput`, `PrepareCall` (the container's
answer and what it moved into the store), `FreezeStore`, `Dispatch`,
`FinalizeCall`, `CommitBegin`, `CommitFreeze`, `Advance`. `stage` is the state of
a phase directory, `store` the snapshot store. `Refused` and `FinalizeRefused`
are answers the host rejects, `Crash` a kill. The coordinator's answers are
enumerated with the wrong ones: other workflow, other phase, other action kind,
other successor, other snapshot.

**NonceLedger.** `db`, `used`, `journal` and `writer` are the file, its committed
rows, the rollback journal and the holder of the write lock. The constructor
(`CreateFile`, `CreateSchema`, `CreateCommit`, `ValidateDirectory`,
`ValidateContract`), the checks of the statements (`Verify`), the transaction
(`BeginImmediate` or `BeginBusy`, `Insert`, `InsertDuplicate`, `TransactionFails`,
`CommitNonces`) and the check after closing (`Accept` or `Reject`) are steps;
`Crash` is a kill. Signatures and the fields of the statements are the set
`Genuine`; `Repeating` bundles contain a nonce twice.

**BrokerExecution.** `owner[run][part]` is the session label of the network or
gateway that exists on the runtime for an invocation (packet, role, attempt): all
lifecycle names are computed from the invocation, so executors collide on them, and
only the label says whose the resource is. `broker[run]` is the state of the broker
container, `rows` the committed reservations. An executor walks
through `_execute_one` for each run of its batch: `Absent` (names in use are
refused), `Create` and `Connect` per resource, `Inspect`, `Reserve` (one
transaction: no gap in attempts, not reserved yet, within both limits),
`StartBroker`, `EndBroker`, `CleanBroker`, `PostInspect`, then the `finally` part:
`TakeDown`, `InspectOwned` (the session label is compared), `Remove`, `Attest`,
`Conclude`; at the end `Freeze` reads the ledger for the evidence. The
compatibility path (`Raise` ... `CleanIsolated`) is the egress session around one
`execute_isolated_broker`. `Outcome` is a runtime command: it succeeds, fails
before or fails after its effect. `Crash` is a kill; `ContainerExits` says that a
container survives its client and ends by itself.

**OfflineRunner.** `client` and `container` are separate: killing the process group ends
the client, not the container. `written` and `taken` count units in the two pipes, so
that a full pipe blocks the command. `Poll` is a round of `select`, with the byte limit;
`LoopExpires`, `WaitReturns` and `WaitExpires` are the deadline in the loop and in
`process.wait`; `CleanupContainer` is `rm -f` by name; `RemoveControl` decides which
error is raised. `MakeControl` is the part before the `try`: a run refused there ends
with an ordinary error, and may leave its control directory, because a failing `chmod`
is not caught and a failing `rmdir` after a refused command line is ignored.
`NothingLeft` therefore promises the removal of the control directory only of runs whose
process was started, and of the others that the directory left is empty and that there
is neither a client nor a container. The executors are launches of one workflow and
therefore share the name of the container.

**OfflineEvidence, BrokerEvidence, AttestedJudge.** Operators without state. A
digest is the value it is computed from; a snapshot is the commit and its tree; a
run's evidence is the batch, the run's key, its outcome and its log. Each check of
the code is a conjunct, and what one function derives again from raw evidence (a
RED tree, a batch, a ledger, a packet, a review) is derived again in the model by
the operator of that function and compared, so that two functions which disagree
make a workflow fail.

**CoordinatorPhases.** `dir[n]` holds the committed files of phase `n`, `snaps` and
`reds` the snapshot store. Each phase is a prepare step (the snapshot phase three:
`InspectBefore`, `CreatePair`, `InspectAfter`, with the owner of the worktree in
between), for offline and broker an outer execution, then `Finalize` and `Commit`. A
refusal is `Stop`. Around it `EditWorktree` moves HEAD while the candidate is mounted,
which ends with the snapshot phase: no later call gets the candidate. Runs pass or fail,
reviews say anything of `Outcomes`, another executor's reservation may land in the
ledger before or after the second run, and `Misplace` puts a file of another complete
workflow where this workflow's file was. `truth` is the history of what this workflow's
own executions did; `truth.ran` says which of the two outer executions took place.
`Clean` says that nothing went wrong around the workflow, `NeverRefused` that it then
can only end with a pass, and `CleanPasses` that every workflow ends, too. `Workable` is
what the repository and the task need for that; `WorkableAssumption` of
`MCCoordinatorPhases` evaluates it on the instance.

**SearchPipeline.** Each cache is a function from its keys; a key is the tuple of what
`build_hash` hashes. `fresh` is the TTL, `Expire` the clock. A raw response is given by
Outscraper (`OutscraperAnswers`), then written (`WriteRaw`), then read back from the
file (`ReadBack`), and normalization reads it once more (`NormalizeRead`): four separate
steps, as in the code, with `data` as the local of `call_outscraper` between the first
two. `scopeOf` is the scope each search runs with, chosen at the start: sessions have
one each, CLI processes share one. `fetched` and `since` are histories. `since[s]`
collects the responses given since search `s` started, and at its start those which
another search of the scope had been given and had not yet written (`Unwritten`). That
second part is needed: two CLI processes share a scope, and one that got its response
before a `--no-cache` search started may write it after that search has written its own
and before it reads the file back; the search then ranks the older response. What
`NoCacheStartsAgain` says is that it never ranks one that was in the cache when it
started, which is what `README.md:95` asks (start again without reading the existing caches), and
that with a scope of its own it ranks a response younger than itself. Normalization and
scoring are free constructors. `ScopesApart` asks of the raw response that it was
fetched for the search's own query, of products and ranking only that they come from the
search's own scope: with two queries in a shared scope (two CLI processes) the stale
read of `search_stale` can put the products of one query under the response of the
other. When no scope is shared, `KeyedByContentApart` gives the exact response.

**JsonEditor.** `OpenTemp`, `Dump`, `Replace`, `Finally` are the steps of
`write_json`; `Raise` is an exception in one of them, `Kill` a death. No name of this
module is one of `SearchPipeline`'s, so that `SearchPipelineProofs` extends both: a
cache that `SearchPipeline` takes as one cell is such a file.

**OutscraperClient.** `Send` is a request, `Answered`, `Retry` and `GiveUp` its
outcomes, then the creation's answer is judged (`CreatedEnds`, `LocationRefused`,
`StartPolling`) and polled (`PollAgain`, `PollEnds`). URLs are their origins; the
length of sleeps is left out.

## 3. Runs

Passing runs:

| Run | Instance | Shows |
|---|---|---|
| `phase_ledger` | 2 processes, 1 workflow id, 2 roots, 2 anchors, phases 1-5; 188 007 states | no phase is executed twice, the rows are one chain, anchors, snapshot and packet survive it, evidence on disk and ledger agree at every moment, an interrupted workflow is dead, and `PhaseLedger` implements `WorkflowChain` |
| `production` | 2 launches, 1 root, 2 broker ledgers, 2 workflow ids, 2 anchors, 7 phases; 89 460 states | chain in the root, the snapshot directories in the store are those the committed results name, executors behind frozen evidence, one author per root, nothing committed is written again, a launch ends |
| `nonce_ledger` | 2 judges, 3 nonces, 5 bundles | a nonce is accepted once, an accepted bundle is durable, bundles are atomic, crashes fail closed, every judge ends |
| `searches` | 2 searches with the same or different scopes, 1 query, 2 responses; 2.32 million states up to symmetry | caches hold what their keys say when scopes are apart, nobody works on responses of another scope, `--no-cache` ranks a response given after the start, or until then not written by another search of the scope, never one cached before |
| `outscraper_call` | 3 attempts, 3 polls, 2 origins | key stays with the endpoint, cost is bounded, outcome is honest, the call ends |
| `json_replace` | 2 writers, 2 readers, 2 documents | readers see whole documents |
| `broker_runs` | 2 executors with the same batch, a retry of a role or a single session, 1 packet, 2 faults; 403 832 states | budgets hold, a reservation pays for one run, nobody removes what another session made, nothing is left that is not reported, the frozen ledger covers the runs of the evidence, an executor ends |
| `coordinator` | 1 workflow beside 3 others, 2 tests with overlapping paths and a lint, 5 commits, 2 edits, 1 misplaced file; 9 055 states | snapshots are of the requested commit, only reviewable work is paid for, every charge is accounted for, only own work is attested, a pass is earned, and an undisturbed workflow passes |
| `offline_run` | 2 launches, pipes of 1 unit, limit of 2, 2 writes a stream, 1 fault; 993 597 states | evidence is the whole output of the run, what is left behind is reported, a run ends |

Why the bounds are enough to be interesting. Two processes are the least that race, and
no action depends on more than one other process; that more judges or drivers change
nothing is what the theorems of section 4 show. Five phases of the ledger include the
first (no predecessor), one that executes outside (3), the one that brings the packet in
(4) and the first that has it in its request (5). The bundles are two that overlap in a
middle one, one that is forged and one that repeats a nonce. Two responses are the least
that can be mixed up; a second query multiplies the states of `searches` beyond use, and
the theorems about `SearchPipeline` are for any number of queries. Three attempts and
polls distinguish first, middle and last. The limits of `broker_runs` admit a batch and
a retry of one role but not of both, so that they are reached. In `coordinator` the
three other workflows are another candidate, the same candidate run again and another
task with the same commits: each shares most of its files with the workflow at hand;
commits that are amended, with and without a branch that keeps the old one, and an empty
commit on top are among those the worktree may move to. `Limit` in `offline_run` is less
than what both streams can write together and `PipeCap` less than what one can.

Named bounds: `MaxSeq` (phases), `MaxAttempts` and `MaxPolls` (the code's own
parameters), `MaxFaults` (failing commands and crashes of a run of the model: one
to disturb, in `broker_runs` a second to disturb the cleanup), `MaxEdits` (moves of
the worktree: there and back), `MaxMisplaced`, and `MaxWrites`. The histories of
`OutscraperClient` stop one above what a call may cost (`MaxRequests`, `MaxAttempts`,
`MaxPolls`), where a violation already shows. Everything else is finite by the guards.

Symmetry is used only in runs without liveness properties (`phase_ledger`,
`searches`, `json_*`). Deadlock is not checked where a system really stops:
workflows end, roots are used up, searches end.

Violations, each a disagreement between the code and what the repository says of
it (the quotes are under `findings`):

| Run | Shows |
|---|---|
| `production_replay` | The runbook counts the "SQLite replay ledger" as part of the connected protocol and forbids to redo a phase of an interrupted workflow. The production entry does not use the ledger: two launches with the same initial request, each with a new root and a new broker ledger, execute the offline phase of the same workflow twice. |
| `search_stale` | The key of the normalized cache is made from the response read, but `normalize` reads the file again. Two CLI processes (one scope) can store the products of one response under the key of the other, in a cache without TTL. |
| `json_temp` | `DB-SCHEMA.md` says that a temporary file left by a failure is deleted. `temporary_path` is set only after `json.dump` and `fsync`, so a failure in these leaves the file. |

`KeyedByContentApart` of the run `searches` is the property of `search_stale`
restricted to instances in which no two searches share a scope: it holds there,
which is what the scope of a session is for, and fails when two CLI processes
share one.

One more disagreement was met that no run shows, since no document promises the
contrary: red snapshots of two acceptances with the same `test_paths` are shared
(`coordinator_workflow_ops.py:695`), but `derive_offline_artifacts` demands one
snapshot for each set of paths (`attested_judge.py:1033`), so a task with two such
acceptances always ends before its review. The instance of `coordinator` has
overlapping, different paths, so no property of that run catches this.

### Fairness

Every liveness property assumes weak fairness of the steps of each process and
nothing else: `WF_vars(Step(p))`. A process is one thread of synchronous calls,
and each call has a timeout in the code (containers, HTTP, SQLite's busy
timeout), so a step that stays possible is taken or raises. Starting, crashing,
expiring and raising are never assumed to happen. Crashed processes do not
continue: `Abort` and `Crash` take them out of `Step`. `OfflineRunner` assumes that
the executor's thread runs (`WF_vars(Execute(e))`) and that time passes
(`WF_vars(Expire(e))`), and nothing of the command, the client or the container:
these may hang for ever. `CoordinatorPhases` has one thread, the runner, which
either calls the coordinator or executes outside:
`WF_vars(Coordinator \/ OuterExecution)`; edits and misplaced files are not assumed
to happen or to stop. `SearchPipeline` and `JsonEditor` state no liveness and have
no fairness. `OutscraperClient` has one
process, so its fairness is `WF_vars(Next)`: every request ends, by an answer or
a timeout.

## 4. Theorems

TLAPS proves every safety property that a passing run checks,
for every value of the constants: all sets of processes,
launches, executors, judges, searches, workflows, roots, packets, bundles and
origins, and all limits. Each proof is by an inductive invariant; every one of its
conjuncts was first checked by TLC on the instance of the run. `Inductive`
(`Spec => []Inv`) is in each module the theorem the others follow from, and
`TypeCorrect`, where it is stated, is `[]TypeOK`.

### What is assumed

The assumptions are in the modules that declare the constants, and TLC evaluates
them in the runs.

| Assumption | Says |
|---|---|
| `MaxSeqAssumption` | `MaxSeq` is one of 1..7 |
| `NoneAssumption`, `NoResultAssumption`, `NoDirAssumption`, `NoQueryAssumption`, `OriginAssumption` | "nothing" is none of the values it could be confused with |
| `BundleAssumption` | a bundle has a nonempty set of nonces |
| `RunnerAssumption`, `LimitAssumption`, `CapAssumption`, `BrokerAssumptions` | sizes, limits, tokens and costs are numbers in the code's ranges; each executor of `BrokerExecution` is offered sequences of invocations |
| `QueryAssumption` | attributes give a query or none |
| `ContentsAssumption` | no file and the beginning of a document are not documents |
| `TaskAssumption` | a task has a base commit and at least one test, each with paths |
| `StartAssumption` | the first request has the fields of a request, number 1, and neither predecessor, snapshot nor packet |
| `OthersAssumption` | what stands beside this workflow was committed for another workflow id, and its snapshots were taken from commits |
| `OutcomesAssumption` | a review is accepted, has medium or blocking findings, is bound to something else, or is invalid |

### Phase ledger

| Theorem (`PhaseLedgerProofs`) | Property |
|---|---|
| `AtMostOnce` | `ExecutedAtMostOnce` |
| `ConsumedFirst` | `ConsumedBeforeExecuted` (proved only) |
| `OnlyGrows` | `LedgerOnlyGrows` (proved only) |
| `Linked` | `ChainLinked` |
| `DeadStaysDead` | `InterruptedIsDead` |
| `Anchored` | `AnchorsSurvive` |
| `EvidenceAgrees` | `EvidenceMatchesLedger` |
| `Refines` | `ImplementsChain` |

The first layer of the invariant is `TypeOK /\ HeldRequest /\ OwnsPendingRow /\
OneOwner /\ CountsFollowOwner`. None of the properties is inductive alone: that
`Prepare` does not repeat an action depends on who may be at `Prepare`.
`HeldRequest` says that a process past the beginning holds a well-formed request;
`OwnsPendingRow` that a process past the claim has the pending (later complete) row
with its own request; `OneOwner` that no two processes own a row;
`CountsFollowOwner` ties the history counters to the row and to the `pc` of its
owner. At-most-once is then immediate, and the action properties follow with one
case per action.

The chain needs a second layer, `ChainInv`: `OnePending` (one pending row a
workflow), `GapFree` (the completed rows are a prefix, which turns the cardinality
that `validate_request` compares with into the number of the last row) and
`ChainLinked` itself. Two layers stand on it. `AnchorInv` adds `HeldValid` (what
processes hold passed `validate_contract`) and `RowContracts` (each row continues
the anchors, the snapshot and the packet of the row before), from which
`AnchorsSurvive` goes through the phases. `EvidenceInv` adds `TreeHeld` (the
tree a running process writes is open and nobody else's)
and `WrittenFollows` (the number of files persisted follows from `pc`).

The refinement is a step simulation: the initial state maps to `WorkflowChain`'s,
`Claim`, `Prepare` and `Commit` map to `Open`, `Perform` and `Close`, and every other
action leaves the abstract variables alone.

### Production workflow

| Theorem (`OuterWorkflowProofs`) | Property |
|---|---|
| `Exclusive` | `OneAuthor` |
| `Chain` | `ChainInRoot` |
| `StoreIsCommitted` | `StoreMatchesCommitted` |
| `BehindEvidence` | `OuterOnlyBehindEvidence` |
| `NeverRewritten` | `WrittenOnce` |

The invariant is `TypeOK /\ LaunchesInv /\ RootsInv /\ ExecInv`. `LaunchInv` relates
a launch to its root: inside the loop it is an author of the root, all phases before
its turn are frozen and none after it exists, and its `pc` says how far the present
directory and the store are. `RootInv` says that authors are one launch, that a root
without a store is empty, and that each frozen phase has a record which follows from
the record before it. No answer of the coordinator is excluded: what the proof uses
is what `ValidFinalized` and the comparison with the store check.

### Nonce ledger

| Theorem (`NonceLedgerProofs`) | Property |
|---|---|
| `AcceptedOnce` | `NonceAcceptedOnce` |
| `AcceptedConsumed` | `AcceptedIsConsumed` |
| `AllOrNothing` | `WholeBundles` |
| `FailsClosed` | `CrashFailsClosed` |

The inductive invariant is `TypeOK /\ OneWriter /\ Inserting /\ WholeBundles /\
WonOnce /\ OneVerdict /\ JournalHasFile /\ NothingInserted`: only the holder of
the lock is inserting, what it has inserted are nonces of its verified bundle not
yet in the table, and each bundle won gives at most one verdict: accepted, or
still to be decided by one closing judge.

### Broker execution

| Theorem (`BrokerExecutionProofs`) | Property |
|---|---|
| `Budget` | `WithinBudget` |
| `PaidOnce` | `EveryRunPaidOnce` |
| `LeavesNothing` | `NothingLeftBehind` |
| `RemovesOnlyOwn` | `OnlyOwnRemoved` |
| `EvidenceComplete` | `EvidenceCoversRuns` |

The invariant has a part for each executor, each invocation and each packet. Two
facts carry it. A resource with an executor's label is of its current run and its
`created` flag is set (`OwnsCreated`), so the label that `InspectOwned` compares is
still the own one when `Remove` is sent (`RemovesOwn`) and the absence loop has left
only what is still to be looked at (`AttestedGone`). And a row is inserted once, so
that one executor at most is between its reservation and its start (`HeldOnce`,
`Pays`): that the broker container removed by name is the own one rests on this
alone, since the code does not compare a label there. The sums over ledger rows need no
induction: `_reserve` compares the very sum that holds after the insert.

### Offline execution

| Theorem (`OfflineRunnerProofs`) | Property |
|---|---|
| `RunCleansUp` | `NothingLeft` |
| `WholeEvidence` | `EvidenceIsWhole` |

The invariant is one predicate an executor, `ClientTied /\ RemovedInTime /\
StreamsWhole /\ Identified`, beside `TypeOK`. Neither property is inductive alone: that
no container is left depends on no living client that could still create one
(`ClientTied`, which also says that a control directory is left only by a run that never
had a client) and on when it counts as removed (`RemovedInTime`); that a log is
whole depends on a stream leaving the selector only when it is closed and empty
(`StreamsWhole`), and that the log is of the own container on the cidfile which a
client that met a name in use has not written (`Identified`).

### Coordinator operations and judge

| Theorem (`CoordinatorPhasesProofs`) | Property |
|---|---|
| `RequestedSnapshot` | `SnapshotIsRequested` |
| `ReviewablePaid` | `PaidForReviewable` |
| `AcceptedCharged` | `ChargedIsAccepted` |
| `OwnAttested` | `AttestedIsOwn` |
| `Earned` | `PassIsEarned` |
| `UndisturbedPass` | `NeverRefused`, the state half of `CleanPasses` |

The invariant follows the phases: `Snapshotted` (the anchor is a commit with the
requested patch), `RanOffline` (once the runs took place, a result *of this
workflow* in slot 3 carries them), `PacketBuilt` (the packet is reviewable and
anchored), `RanBroker` (the same for slot 5 and the reviews) and `Judged`, beside
`Anchored`, `Shaped` and `Stored`. The condition "of this workflow" is what
survives a misplaced file: any number of files of other workflows may be put in,
before and between any phases, and the last phase then either finds a file whose
request names another workflow (`CommittedHistory` refuses) or one for which the
invariant says what ran. The run bounds the misplaced files and the edits
(`MaxMisplaced`, `MaxEdits`); the theorems do not.

`UndisturbedPass` is the converse of `Earned`: a workflow in which the worktree stayed
put, or moved without changing what the snapshot phase looked at, nothing was
misplaced, every run ended as expected and the signatures were judged in time with
the right key is never refused. Its hypothesis is `Workable`:
the requested commit is an allowed one, both commits are in its clone, every test
file is changed by it, no two tests have the same paths, and both reservations fit
the limits. The fourth is the remark on shared RED snapshots in section 3.

The proof has a second invariant, `RInv`, on top of the first. The first says what
must be true of a file that was accepted; here one has to know what *is* in every
file, so `Recorded` states the whole record of the workflow: `History` writes the
directory of each phase done as an expression in the task, the offline runs and the
broker's answer, and `InHand` does the same for what the running phase has prepared.
Then one lemma a measurement shows that it accepts: `CommittedHistory` on these
directories, the patch and the policy derived again, each RED tree rebuilt from the
snapshots, the two batches rebuilt from the requests, the gates and TDD results from
the logs, the packet from all of it, the frozen ledger against the runs, the reviews
against their envelopes, and the statements against their signatures. One lemma an
action then carries `Recorded` over the step. The record holds until a file is
misplaced; an edit of the worktree either makes the snapshot phase refuse or leaves the
record as it is. The sums of the ledger are over at most two reservations and are
computed without induction (`SummingOne` and the lemmas after it).

### Search application

| Theorem | Property |
|---|---|
| `SearchPipelineProofs!Separated` | `ScopesApart` |
| `SearchPipelineProofs!StartsAgain` | `NoCacheStartsAgain` |
| `SearchPipelineProofs!ContentKeyed` | `KeyedByContentApart` |
| `SearchPipelineProofs!WholeFiles` | `ReadersSeeWhole` |
| `OutscraperClientProofs!KeyConfined` | `KeyStaysWithEndpoint` |
| `OutscraperClientProofs!Bounded` | `CostBounded` |
| `OutscraperClientProofs!Honest` | `OutcomeIsHonest` |

`SearchPipeline`: for each search `Placed` (which locals are set at which step),
`Scoped` (what it works on was fetched in its scope), `Recent` (without cache, the
raw file was written after the search had started) and, if scopes are apart, `Content` (the raw
file stays what was read from it); for two searches of a scope `InFlight` (a response
one of them has still to write counts for the other, so that a late write cannot bring
back what was cached before); for the files, that what is stored below a scope
was made from responses of that scope, and if scopes are apart, from the response in
the key. `JsonEditor`: `FileInv` adds to the property that the target is never
partial and that a temporary file about to replace it is the writer's whole document
(the target alone says nothing of what the next `Replace` will put there).
`OutscraperClient`: `Keyed` (the running request too goes to the
endpoint), `Cost` (requests so far, by the place in the call), `Polling` (every poll
before the running one was answered with "still processing") and `Ended`.

### Only model-checked

* The liveness properties `EventuallyEnds`, `JudgeEnds`, `FetchEnds`,
  `ExecutionEnds` and `RunEnds`, and of `CleanPasses` that every workflow ends:
  liveness under fairness is out of the prover's reach.
* The three violations, which are counterexamples of TLC.

No module uses a recursive operator.

## 5. Not modelled

* The contents of data: signatures, JSON schemas, paths, prompts, prices, argument
  vectors. Where a decision depends on them, the model has a set (`Genuine`,
  the allowed commits of a task), a predicate or an arbitrary choice.
* Sizes: the byte limits of envelopes and of the rendered diff. The output limit of
  an offline run is modelled.
* The policy's rules on paths, sizes and secrets, the rendering and redaction of the
  diff: one set of allowed commits. A tree is measured or copied in one step; races
  within a directory walk are not modelled.
* The relay inside the egress gateway's container: sockets and buffers. A broker run
  behind it is bounded by its own deadline.
* The staging directories and the container of a coordinator call
  (`coordinator_launcher.py`): one step of `OuterWorkflow`.
* A request still in flight in the runtime's daemon after its client was killed: in
  `OfflineRunner` and `BrokerExecution` a command takes effect before its client
  has ended or not at all.
* Deployment and preflight checks, which look at modes, owners and images of a
  host; argument parsing; layout; containers and prompts.
* The numbers of the search application: price conversion, weights, TF-IDF and
  morphological analysis (floating point and library code).

## 6. Plan

Done, in this order: `PhaseProtocol`, `PhaseLedger`, `WorkflowChain`;
`OuterWorkflow`; `NonceLedger`; the search application's state;
`BrokerExecution`; `OfflineEvidence`, `BrokerEvidence`, `AttestedJudge` and
`CoordinatorPhases`; `OfflineRunner`; the theorems of section 4.

Left, in order of importance:

1. `CoordinatorLauncher` (staging, run, removal) and `EgressGateway` (relay with
   limits).
2. `EnvelopeLimits` (sizes of nested base64 envelopes against each other, hazard at
   `outer_workflow_state.py:44`); price conversion, deduplication and weights of the
   search application.
3. Preflight and deployment checks as check-then-use over a changing host.
