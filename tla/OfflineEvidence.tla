--------------------------- MODULE OfflineEvidence ---------------------------
(* What the coordinator derives from a candidate before any AI review: the   *)
(* policy report and the immutable snapshots (policy.py, snapshot.py), the   *)
(* gate/RED/GREEN batch and its raw evidence (offline_phase_protocol.py,     *)
(* offline_runner.py, phase_execution_adapters.py), the gate and TDD results *)
(* derived from it (attested_judge.py), and the review packet built from     *)
(* them (coordinator_review_packet_phase.py, review_packet.py).              *)
(*                                                                           *)
(* Digests are ideal: a value stands for its own digest.  The digest of a    *)
(* request is its workflow and phase, since a workflow makes one request for *)
(* each phase (OuterWorkflow).  Images, commands, limits and byte formats    *)
(* are the same for every run of the pinned runtime manifest and are left    *)
(* out; two values differ only where tasks, commits, workflows or outcomes   *)
(* do.                                                                       *)
EXTENDS Naturals, FiniteSets, Sequences

CONSTANTS
    TaskSpec,   \* [task -> [base, tests, lints, paths, allowed]]
    Tree,       \* [commit -> [file -> content]]
    Reach       \* [commit -> commits in a clone of a worktree at that HEAD]

Tasks == DOMAIN TaskSpec
Commits == DOMAIN Tree
Files == DOMAIN Tree[CHOOSE c \in Commits : TRUE]
Acceptances(t) == TaskSpec[t].tests \cup TaskSpec[t].lints

ASSUME TaskAssumption ==
    \A t \in Tasks :
      /\ TaskSpec[t].base \in Commits
      /\ TaskSpec[t].tests # {} /\ TaskSpec[t].tests \cap TaskSpec[t].lints = {}
      /\ \A a \in TaskSpec[t].tests : TaskSpec[t].paths[a] \in (SUBSET Files) \ {{}}

---------------------------------------------------------------------------
(* Policy and snapshots *)

\* _diff_metadata: the files that differ, before and after
Changes(b, h) == {<<f, Tree[b][f], Tree[h][f]>> : f \in {g \in Files : Tree[b][g] # Tree[h][g]}}

\* _canonical_diff_hash: both commit ids are in the digest, not only the files
Patch(b, h) == [base |-> b, head |-> h, files |-> Changes(b, h)]

\* inspect_git_diff of a worktree whose HEAD is h; it resolves HEAD again at its
\* end, so it is one step.  allowed stands for the rules on paths, sizes and the
\* candidate commit: one squash commit whose only parent is the base
PolicyReport(t, h) ==
    [task |-> t, base |-> TaskSpec[t].base, head |-> h,
     patch |-> Patch(TaskSpec[t].base, h),
     passed |-> Changes(TaskSpec[t].base, h) # {} /\ h \in TaskSpec[t].allowed]

\* create_readonly_snapshot: manifest.json holds the commit and the tree
Snapshot(c) == [commit |-> c, tree |-> Tree[c]]

\* create_red_tdd_snapshot: base production plus the candidate's test files
RedSnapshot(base, cand, ps) ==
    [commit |-> base.commit,
     tree |-> [f \in Files |-> IF f \in ps THEN cand.tree[f] ELSE base.tree[f]]]

\* _test_delta: every test path is changed by the candidate
TestDeltaValid(base, cand, ps) == \A f \in ps : base.tree[f] # cand.tree[f]
TestPatch(base, cand, ps) == {<<f, base.tree[f], cand.tree[f]>> : f \in ps}
TestManifest(snap, ps) == {<<f, snap.tree[f]>> : f \in ps}

\* RedTddSnapshotEvidence
RedEvidence(base, cand, ps) ==
    [src |-> base, csnap |-> cand, paths |-> ps, snap |-> RedSnapshot(base, cand, ps),
     tpatch |-> TestPatch(base, cand, ps), tman |-> TestManifest(cand, ps)]

\* _assert_exact_red_tree: base production, candidate tests, nothing else
ExactRedTree(red, base, cand, ps) == red.tree = RedSnapshot(base, cand, ps).tree

\* measure_red_tdd_snapshot of the snapshot red
RedMeasures(red, base, cand, ps) ==
    /\ red.commit = base.commit
    /\ TestDeltaValid(base, cand, ps)
    /\ ExactRedTree(red, base, cand, ps)

\* a store is a set of directories, each named by the digest its content had;
\* verify_readonly_snapshot measures the content again
Entry(snap) == [name |-> snap, content |-> snap]
Verified(store, name) == \E e \in store : e.name = name /\ e.content = name
Names(store) == {e.name : e \in store}

\* _verified_snapshot_store: the physical set is the expected one, unchanged
VerifiedStore(store, snaps) ==
    /\ snaps # {} /\ Names(store) = snaps /\ Cardinality(store) = Cardinality(snaps)
    /\ \A s \in snaps : Verified(store, s)

---------------------------------------------------------------------------
(* The offline batch *)

OfflineKeys(t) ==
    ({"gate"} \X Acceptances(t)) \cup ({"red", "green"} \X TaskSpec[t].tests)

\* PhaseRequest.request_sha256
RequestSha(q) == <<q.wf, q.seq>>

\* _session_id, from the workflow, the request and the run
SessionId(q, k) == <<"offline", q.wf, k>>

\* PreparedOfflineRun: what is executed, on which snapshot
PlannedRun(q, cand, reds, k) ==
    LET none == {}
        red == reds[k[2]]
    IN  [key |-> k, session |-> SessionId(q, k), csnap |-> cand,
         exec |-> IF k[1] = "red" THEN red.snap ELSE cand,
         src |-> IF k[1] = "red" THEN red.src ELSE cand,
         tpatch |-> IF k[1] = "gate" THEN none ELSE red.tpatch,
         tman |-> IF k[1] = "gate" THEN none ELSE red.tman]

\* prepare_offline_batch accepts: RED evidence covers the tests, each bound to
\* this candidate and to the acceptance's paths, and stands in the store
OfflinePreparable(q, cand, reds, snaps, redStore) ==
    /\ q.snap = cand
    /\ Verified(snaps, cand)
    /\ DOMAIN reds = TaskSpec[q.task].tests
    /\ \A a \in DOMAIN reds :
         /\ Verified(redStore, reds[a].snap)
         /\ reds[a].csnap = cand /\ reds[a].paths = TaskSpec[q.task].paths[a]

OfflineBatch(q, cand, reds) ==
    [req |-> RequestSha(q), wf |-> q.wf, task |-> q.task, patch |-> q.patch, csnap |-> cand,
     runs |-> [k \in OfflineKeys(q.task) |-> PlannedRun(q, cand, reds, k)]]

\* parse_prepared_offline_batch: gates, paired RED and GREEN, one candidate
OfflineBatchWellFormed(b) ==
    LET ids(p) == {k[2] : k \in {j \in DOMAIN b.runs : j[1] = p}}
    IN  /\ ids("gate") # {} /\ ids("red") # {}
        /\ ids("red") = ids("green") /\ ids("red") \subseteq ids("gate")
        /\ \A k \in DOMAIN b.runs : b.runs[k].csnap = b.csnap

\* OfflineRunEvidence: the run as requested, the commit of the snapshot it ran
\* on, whether it ended as the acceptance expects, and its log
RunEvidence(b, k, ok, log) ==
    [plan |-> b.runs[k], task |-> b.task, patch |-> b.patch,
     commit |-> b.runs[k].exec.commit, ok |-> ok, log |-> log]

\* create_outer_offline_evidence
OuterOffline(b, runs) == [batch |-> b, runs |-> runs]

\* validate_offline_run_evidence: request, commit and snapshot are those measured
RunMeasures(e, snap) == e.plan.exec = snap /\ e.commit = snap.commit

\* finalize_offline_batch
OfflineFinal(b, outer, snaps, redStore) ==
    /\ OfflineBatchWellFormed(b)
    /\ outer.batch = b
    /\ DOMAIN outer.runs = DOMAIN b.runs
    /\ \A k \in DOMAIN b.runs :
         LET e == outer.runs[k]
         IN  /\ e.plan = b.runs[k]
             /\ Verified(IF k[1] = "red" THEN redStore ELSE snaps, b.runs[k].exec)
             /\ RunMeasures(e, b.runs[k].exec)
             /\ e.task = b.task /\ e.patch = b.patch

---------------------------------------------------------------------------
(* Gate and TDD results *)

\* derive_offline_artifacts, the RED snapshots: exactly one for each set of
\* test paths, remeasured against base and candidate
RedsCover(t, reds, base, cand) ==
    /\ \A i, j \in DOMAIN reds : i # j => reds[i].paths # reds[j].paths
    /\ {reds[i].paths : i \in DOMAIN reds} = {TaskSpec[t].paths[a] : a \in TaskSpec[t].tests}
    /\ \A i \in DOMAIN reds :
         /\ reds[i].src = base /\ reds[i].csnap = cand
         /\ RedMeasures(reds[i].snap, base, cand, reds[i].paths)
         /\ reds[i].tpatch = TestPatch(base, cand, reds[i].paths)
         /\ reds[i].tman = TestManifest(cand, reds[i].paths)

RedFor(t, reds, a) == reds[CHOOSE i \in DOMAIN reds : reds[i].paths = TaskSpec[t].paths[a]]

\* derive_offline_artifacts, the raw runs: exact cover, and every binding of
\* each run is the task's, the policy's or the measured snapshots'
RunsMatch(t, policy, runs, base, cand, reds) ==
    /\ DOMAIN runs = OfflineKeys(t)
    /\ \A k \in DOMAIN runs :
         LET e == runs[k]
             red == RedFor(t, reds, k[2])
             exec == IF k[1] = "red" THEN red.snap ELSE cand
         IN  /\ RunMeasures(e, exec)
             /\ e.task = t /\ e.patch = policy.patch
             /\ e.plan.csnap = cand
             /\ e.plan.src = IF k[1] = "red" THEN base ELSE cand
             /\ e.commit = IF k[1] = "red" THEN TaskSpec[t].base ELSE policy.head
             /\ k[1] # "gate" => e.plan.tpatch = red.tpatch /\ e.plan.tman = red.tman

\* derive_offline_artifacts, the source snapshots
SourcesMatch(t, policy, base, cand) ==
    /\ base.commit = TaskSpec[t].base
    /\ cand.commit = policy.head

OfflineDerivable(t, policy, runs, base, cand, reds) ==
    /\ SourcesMatch(t, policy, base, cand)
    /\ RedsCover(t, reds, base, cand)
    /\ RunsMatch(t, policy, runs, base, cand, reds)

\* GateResult and TddEvidence: results carry logs, never sessions
GateResults(t, policy, runs) ==
    {[id |-> a, task |-> t, head |-> policy.head, patch |-> policy.patch,
      passed |-> runs[<<"gate", a>>].ok, log |-> runs[<<"gate", a>>].log] :
        a \in Acceptances(t)}

TddResults(t, policy, runs, reds) ==
    {[id |-> a, task |-> t, base |-> policy.base, head |-> policy.head,
      patch |-> policy.patch, tpatch |-> RedFor(t, reds, a).tpatch,
      tman |-> RedFor(t, reds, a).tman, rsnap |-> RedFor(t, reds, a).snap,
      gsnap |-> runs[<<"green", a>>].plan.exec,
      red |-> [ok |-> runs[<<"red", a>>].ok, log |-> runs[<<"red", a>>].log],
      green |-> [ok |-> runs[<<"green", a>>].ok, log |-> runs[<<"green", a>>].log]] :
        a \in TaskSpec[t].tests}

---------------------------------------------------------------------------
(* The review packet *)

\* Mutant: a gate only has to be there
GatesReviewablePresent(t, policy, gates) ==
    /\ {g.id : g \in gates} = Acceptances(t)
    /\ \A g \in gates : g.task = t /\ g.head = policy.head /\ g.patch = policy.patch

\* _validate_gates, _validate_tdd: complete, bound, and all as expected
GatesReviewable(t, policy, gates) ==
    /\ {g.id : g \in gates} = Acceptances(t)
    /\ \A g \in gates : g.passed /\ g.task = t /\ g.head = policy.head /\ g.patch = policy.patch

TddReviewable(t, policy, tdds) ==
    /\ {d.id : d \in tdds} = TaskSpec[t].tests
    /\ \A d \in tdds :
         /\ d.task = t /\ d.base = TaskSpec[t].base
         /\ d.head = policy.head /\ d.patch = policy.patch
         /\ d.red.ok /\ d.green.ok
         /\ \A m \in d.tman : \E c \in policy.patch.files : c[1] = m[1] /\ c[3] = m[2]

\* _validate_inputs of the packet phase
PacketInputsValid(q, policy, base, cand, reds) ==
    /\ policy.passed /\ policy.task = q.task /\ policy.patch = q.patch
    /\ base.commit = TaskSpec[q.task].base
    /\ cand.commit = policy.head
    /\ cand = q.snap
    /\ DOMAIN reds = TaskSpec[q.task].tests

\* _render_snapshot_diff: what differs between the two verified snapshots
RenderedDiff(base, cand) ==
    {<<f, base.tree[f], cand.tree[f]>> : f \in {g \in Files : base.tree[g] # cand.tree[g]}}

\* ... has the policy's paths and the policy's new content
DiffMatchesPolicy(policy, diff) ==
    /\ diff # {}
    /\ {<<d[1], d[3]>> : d \in diff} = {<<p[1], p[3]>> : p \in policy.patch.files}

\* derive_snapshot_review_material: the binding of the diff to its sources
ReviewMaterial(t, policy, base, cand) ==
    [task |-> t, base |-> base, cand |-> cand, patch |-> policy.patch,
     diff |-> RenderedDiff(base, cand)]

\* _validate_base_bindings, _validate_trusted_diff_binding
MaterialBound(t, policy, m) ==
    /\ policy.task = t /\ policy.base = TaskSpec[t].base /\ policy.passed
    /\ m.task = t /\ m.patch = policy.patch
    /\ m.base.commit = TaskSpec[t].base /\ m.cand.commit = policy.head
    /\ DiffMatchesPolicy(policy, m.diff)

\* build_review_packet; its digest has no workflow id in it
ReviewPacket(t, policy, gates, tdds, m) ==
    [task |-> t, policy |-> policy, gates |-> gates, tdds |-> tdds, diff |-> m]

\* build_review_packet_phase_output accepts
PacketBuildable(q, policy, runs, base, cand, reds) ==
    /\ PacketInputsValid(q, policy, base, cand, reds)
    /\ OfflineDerivable(q.task, policy, runs, base, cand, reds)
    /\ MaterialBound(q.task, policy, ReviewMaterial(q.task, policy, base, cand))
    /\ GatesReviewable(q.task, policy, GateResults(q.task, policy, runs))
    /\ TddReviewable(q.task, policy, TddResults(q.task, policy, runs, reds))

PacketFrom(q, policy, runs, base, cand, reds) ==
    ReviewPacket(q.task, policy, GateResults(q.task, policy, runs),
                 TddResults(q.task, policy, runs, reds),
                 ReviewMaterial(q.task, policy, base, cand))
==============================================================================
