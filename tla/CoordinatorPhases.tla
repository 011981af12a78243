--------------------------- MODULE CoordinatorPhases ---------------------------
(* One production workflow seen from the coordinator: the prepare and        *)
(* finalize operation of each of the seven phases                            *)
(* (coordinator_workflow_ops.py, coordinator_workflow_inputs.py,             *)
(* phase_execution_adapters.py) over the committed phase directories and the *)
(* snapshot store, with the two outer executions between them.               *)
(* OuterWorkflow models the runner that calls these operations and takes     *)
(* their replies as arbitrary; here the replies are what the operations      *)
(* compute.  The runner stops at the first refusal.                          *)
(*                                                                           *)
(* Around the coordinator: the owner of the candidate worktree may move its  *)
(* HEAD while it is mounted (phase 1), runs and reviews may go wrong,        *)
(* another executor may reserve against the same broker ledger, and an       *)
(* operator may put a file of another workflow where this one's file was.    *)
EXTENDS AttestedJudge

CONSTANTS
    Start,        \* first request of this workflow
    Others,       \* [other workflow -> its committed dir, snaps, reds]
    Edits,        \* commits the worktree may be moved to
    Logs,         \* digests of run logs
    Outcomes,     \* what the two reviews may say
    Keys,         \* ids of the signing keys at hand
    MaxEdits,     \* bound: moves of the worktree
    MaxMisplaced  \* bound: files put in the wrong place

ASSUME StartAssumption ==
    /\ Start = [wf |-> Start.wf, seq |-> 1, task |-> Start.task, patch |-> Start.patch,
                key |-> Start.key, prev |-> Absent, snap |-> Absent, packet |-> Absent]
    /\ Start.task \in Tasks

\* a result names the workflow it was committed for, and a stored snapshot was
\* taken from a commit
ASSUME OthersAssumption ==
    \A w \in DOMAIN Others :
      /\ \A n \in 1..6 : Others[w].dir[n].result.req.wf # Start.wf
      /\ \A e \in Others[w].snaps : e.content.tree = Tree[e.content.commit]

ASSUME OutcomesAssumption ==
    Outcomes \subseteq
        [ReviewRoles -> {"accept", "medium", "blocker", "misbound", "invalid"}]

VARIABLES
    worktree,  \* the mounted candidate: its HEAD, if mounted, and the moves so far
    pc,        \* next step of the current phase, or "end"
    q,         \* current request; q.seq is the phase
    seen,      \* policy_before of the snapshot phase
    work,      \* prepared payload and external evidence of the current phase
    dir,       \* committed files of each phase
    snaps,     \* snapshot-artifacts/snapshots
    reds,      \* snapshot-artifacts/red-snapshots
    consumed,  \* nonces in the nonce ledger
    verdict,   \* verdict of the last phase
    misplaced, \* slots that hold a file of another workflow
    truth      \* history: what this workflow's own executions did, and which were done

vars == <<worktree, pc, q, seen, work, dir, snaps, reds, consumed, verdict, misplaced, truth>>
environment == <<worktree, misplaced>>
evidence == <<dir, snaps, reds>>

NoWork == [payload |-> Absent, ext |-> Absent]

Init ==
    /\ worktree = [head |-> Start.patch.head, moves |-> 0]
    /\ pc = "prepare" /\ q = Start
    /\ seen = Absent /\ work = NoWork
    /\ dir = [n \in 1..7 |-> Absent]
    /\ snaps = {} /\ reds = {}
    /\ consumed = {} /\ verdict = "none"
    /\ misplaced = {}
    /\ truth = [ran |-> {}, offline |-> Absent, broker |-> Absent, timely |-> TRUE,
                key |-> Start.key]

---------------------------------------------------------------------------
(* The committed outputs, as later phases read them *)

\* _prior_outputs, _artifact: by phase name, whatever workflow they come from
Prior(n) == dir[n].output.arts

\* _snapshots, and the anchor check every phase after the first makes
SourcesValid ==
    /\ Verified(snaps, Prior(1).base)
    /\ Verified(snaps, Prior(1).cand)
    /\ q.snap = Prior(1).cand

\* _red_snapshots: each committed digest stands in the store and measures as
\* RED of the two sources
RedsValid ==
    /\ TaskSpec[q.task].tests \subseteq DOMAIN Prior(2)
    /\ \A a \in TaskSpec[q.task].tests :
         /\ Verified(reds, Prior(2)[a])
         /\ RedMeasures(Prior(2)[a], Prior(1).base, Prior(1).cand, TaskSpec[q.task].paths[a])

SourceReds == MeasuredReds(q.task, Prior(1).base, Prior(1).cand)

---------------------------------------------------------------------------
(* Steps shared by the phases *)

At(n, step) == q.seq = n /\ pc = step

\* the coordinator or the runner raises: "stopped fail-closed"
Stop == pc' = "end" /\ UNCHANGED <<q, seen, work, evidence, consumed, verdict>>

Prepared(payload) ==
    /\ work' = [payload |-> payload, ext |-> Absent]
    /\ pc' = IF q.seq \in {3, 5} THEN "execute" ELSE "finalize"
    /\ UNCHANGED <<q, seen, dir, truth>>

\* finalize_transition_bytes and the runner's commit: the directory is frozen
\* and the successor request becomes current
Commit(arts) ==
    LET output == PhaseOutput(q, arts)
        result == PhaseResult(q, output, work.ext)
    IN  /\ dir' = [dir EXCEPT ![q.seq] =
                     [result |-> result, output |-> output, payload |-> work.payload,
                      trans |-> PreparedTransition(q, work.payload), ext |-> work.ext,
                      runtime |-> IF q.seq = 5 THEN RuntimeBinding ELSE Absent]]
        /\ work' = NoWork
        /\ IF q.seq = 7 THEN pc' = "end" /\ q' = q
                        ELSE pc' = "prepare" /\ q' = NextRequest(result)
        /\ UNCHANGED <<seen, snaps, reds, consumed, truth>>

---------------------------------------------------------------------------
(* 1. snapshot *)

\* the owner commits, amends or resets while the worktree is mounted
EditWorktree(c) ==
    /\ q.seq = 1 /\ pc \in {"prepare", "pair", "after"}
    /\ c # worktree.head /\ worktree.moves < MaxEdits
    /\ worktree' = [head |-> c, moves |-> worktree.moves + 1]
    /\ UNCHANGED <<pc, q, seen, work, evidence, consumed, verdict, misplaced, truth>>

\* _prepare_snapshot up to the first inspection
InspectionPasses(report) == report.passed /\ report.patch = q.patch

InspectBefore ==
    /\ At(1, "prepare")
    /\ LET report == PolicyReport(q.task, worktree.head)
       IN  \/ /\ InspectionPasses(report)
              /\ seen' = report /\ pc' = "pair"
              /\ UNCHANGED <<q, work, evidence, consumed, verdict>>
           \/ ~InspectionPasses(report) /\ Stop
    /\ UNCHANGED <<environment, truth>>

\* Mutant: the candidate is read from the worktree's files
SnapshotPairOfWorktree(report) ==
    {Snapshot(report.base), [Snapshot(report.head) EXCEPT !.tree = Tree[worktree.head]]}

\* create_readonly_snapshot_pair_from_worktree: both commits are read from a
\* clone of the worktree, by the ids the inspection reported
SnapshotPair(report) == {Snapshot(report.base), Snapshot(report.head)}

CreatePair ==
    /\ At(1, "pair")
    /\ \/ /\ {seen.base, seen.head} \subseteq Reach[worktree.head]
          /\ snaps' = {Entry(s) : s \in SnapshotPair(seen)} /\ pc' = "after"
          /\ UNCHANGED <<q, seen, work, dir, reds, consumed, verdict>>
       \/ ~({seen.base, seen.head} \subseteq Reach[worktree.head]) /\ Stop
    /\ UNCHANGED <<environment, truth>>

\* the second inspection, and the commits of the physical snapshots; nothing
\* after it gets the candidate mount
UnchangedAcross(report, base, cand) ==
    /\ report = seen /\ report.passed
    /\ base.commit = report.base /\ cand.commit = report.head /\ base # cand

InspectAfter ==
    /\ At(1, "after")
    /\ LET report == PolicyReport(q.task, worktree.head)
           at(c) == (CHOOSE e \in snaps : e.name.commit = c).name
           base == at(seen.base)
           cand == at(seen.head)
       IN  \/ /\ UnchangedAcross(report, base, cand)
              /\ Prepared([req |-> RequestSha(q), policy |-> report, base |-> base, cand |-> cand])
              /\ UNCHANGED <<snaps, reds, consumed, verdict>>
              /\ worktree' = [head |-> Absent, moves |-> 0]
           \/ ~UnchangedAcross(report, base, cand) /\ Stop /\ UNCHANGED <<worktree, truth>>
    /\ UNCHANGED misplaced

\* _parsed_snapshot_payload, _finalize_snapshot
SnapshotFinal ==
    LET p == work.payload
    IN  /\ p.policy.passed /\ p.policy.task = q.task /\ p.policy.patch = q.patch
        /\ p.base.commit = p.policy.base /\ p.cand.commit = p.policy.head
        /\ p.base # p.cand
        /\ VerifiedStore(snaps, {p.base, p.cand})

SnapshotArts ==
    [base |-> work.payload.base, cand |-> work.payload.cand, policy |-> work.payload.policy]

---------------------------------------------------------------------------
(* 2. red-snapshot *)

\* _prepare_red_snapshot: one physical RED snapshot for each set of test paths
RedPreparable ==
    /\ SourcesValid
    /\ Prior(1).base.commit = TaskSpec[q.task].base
    /\ \A a \in TaskSpec[q.task].tests :
         TestDeltaValid(Prior(1).base, Prior(1).cand, TaskSpec[q.task].paths[a])

PrepareRed ==
    /\ At(2, "prepare")
    /\ \/ /\ RedPreparable
          /\ reds' = {Entry(SourceReds[a].snap) : a \in TaskSpec[q.task].tests}
          /\ Prepared([req |-> RequestSha(q), base |-> Prior(1).base, cand |-> Prior(1).cand,
                       recs |-> SourceReds])
          /\ UNCHANGED <<snaps, consumed, verdict>>
       \/ ~RedPreparable /\ Stop /\ UNCHANGED truth
    /\ UNCHANGED environment

\* _parsed_red_payload, _finalize_red_snapshot
RedFinal ==
    LET p == work.payload
    IN  /\ SourcesValid
        /\ Prior(1).base = p.base /\ Prior(1).cand = p.cand
        /\ p.base.commit = TaskSpec[q.task].base /\ p.cand = q.snap
        /\ DOMAIN p.recs = TaskSpec[q.task].tests
        /\ VerifiedStore(reds, {p.recs[a].snap : a \in DOMAIN p.recs})
        /\ \A a \in DOMAIN p.recs :
             /\ p.recs[a].paths = TaskSpec[q.task].paths[a]
             /\ RedMeasures(p.recs[a].snap, p.base, p.cand, p.recs[a].paths)
             /\ p.recs[a] = RedEvidence(p.base, p.cand, p.recs[a].paths)

RedArts == [a \in DOMAIN work.payload.recs |-> work.payload.recs[a].snap]

---------------------------------------------------------------------------
(* 3. offline *)

OfflineInputsValid ==
    /\ SourcesValid /\ RedsValid
    /\ OfflinePreparable(q, Prior(1).cand, SourceReds, snaps, reds)

PrepareOffline ==
    /\ At(3, "prepare")
    /\ \/ /\ OfflineInputsValid
          /\ Prepared(OfflineBatch(q, Prior(1).cand, SourceReds))
          /\ UNCHANGED <<snaps, reds, consumed, verdict>>
       \/ ~OfflineInputsValid /\ Stop /\ UNCHANGED truth
    /\ UNCHANGED environment

\* execute_prepared_offline_batch: at most one run ends otherwise than the
\* acceptance expects
ExecuteOffline(bad, log) ==
    /\ At(3, "execute")
    /\ LET b == work.payload
           runs == [k \in DOMAIN b.runs |-> RunEvidence(b, k, k # bad, log)]
       IN  /\ work' = [work EXCEPT !.ext = OuterOffline(b, runs)]
           /\ truth' = [truth EXCEPT !.ran = @ \cup {"offline"}, !.offline = runs]
    /\ pc' = "finalize"
    /\ UNCHANGED <<environment, q, seen, evidence, consumed, verdict>>

\* finalize_offline_phase_output: the batch is this request's
OfflinePhaseFinal ==
    LET b == work.payload
    IN  /\ b.req = RequestSha(q) /\ b.wf = q.wf /\ b.task = q.task
        /\ b.patch = q.patch /\ b.csnap = q.snap
        /\ OfflineFinal(b, work.ext, snaps, reds)

---------------------------------------------------------------------------
(* 4. review-packet *)

PacketReady ==
    /\ SourcesValid /\ RedsValid
    /\ PacketBuildable(q, Prior(1).policy, Prior(3), Prior(1).base, Prior(1).cand, SourceReds)

PreparePacket ==
    /\ At(4, "prepare")
    /\ \/ /\ PacketReady
          /\ Prepared(PacketFrom(q, Prior(1).policy, Prior(3), Prior(1).base,
                                 Prior(1).cand, SourceReds))
          /\ UNCHANGED <<snaps, reds, consumed, verdict>>
       \/ ~PacketReady /\ Stop /\ UNCHANGED truth
    /\ UNCHANGED environment

---------------------------------------------------------------------------
(* 5. broker *)

BrokerReady ==
    /\ SourcesValid
    /\ InvocationsValid(q, Prior(4))
    /\ BrokerBatchWellFormed(BrokerBatch(q, Prior(4), Prior(1).cand, RuntimeBinding, q.wf))

\* _prepare_broker; the ledger is the workflow's own new file
PrepareBroker ==
    /\ At(5, "prepare")
    /\ \/ /\ BrokerReady
          /\ Prepared(BrokerBatch(q, Prior(4), Prior(1).cand, RuntimeBinding, q.wf))
          /\ UNCHANGED <<snaps, reds, consumed, verdict>>
       \/ ~BrokerReady /\ Stop /\ UNCHANGED truth
    /\ UNCHANGED environment

\* rows of the ledger after the reviewer and after the adversary ran, with the
\* row another executor reserved for a second attempt before or after the latter
Rows(b, late) ==
    LET row(r, t) == Reservation(b.runs[r], t)
        extra == IF late = "none" THEN {}
                 ELSE {[row("reviewer", 3) EXCEPT !.attempt = 2]}
    IN  [reviewer |-> {row("reviewer", 1)},
         adversary |-> {row("reviewer", 1), row("adversary", 2)}
                         \cup (IF late = "before" THEN extra ELSE {}),
         final |-> {row("reviewer", 1), row("adversary", 2)} \cup extra]

\* execute_prepared_broker_batch_frozen (BrokerExecution): what the models say,
\* whether the provider gave both exchanges one id, and the ledger at the end
ExecuteBroker(says, sameId, late) ==
    /\ At(5, "execute")
    /\ LET b == work.payload
           rows == Rows(b, late)
           id(r) == <<q.wf, IF sameId THEN "reviewer" ELSE r>>
           raw(r) == OuterRun(b.runs[r], <<q.wf, r>>, rows[r], IF r = "reviewer" THEN 1 ELSE 2,
                              Envelope(b.runs[r], id(r), says[r]))
       IN  /\ work' = [work EXCEPT !.ext =
                         OuterBroker(b, rows.final, [r \in ReviewRoles |-> raw(r)])]
           /\ truth' = [truth EXCEPT !.ran = @ \cup {"broker"}, !.broker =
                         [says |-> says, sameId |-> sameId, rows |-> rows.final,
                          packet |-> b.packet]]
    /\ pc' = "finalize"
    /\ UNCHANGED <<environment, q, seen, evidence, consumed, verdict>>

\* finalize_broker_phase_output
BrokerPhaseFinal ==
    LET b == work.payload
    IN  /\ b.req = RequestSha(q) /\ b.wf = q.wf /\ b.task = q.task
        /\ b.csnap = q.snap /\ b.packet = q.packet
        /\ BrokerFinal(b, work.ext)

BrokerArts == [r \in ReviewRoles |-> BrokerSummary(work.payload, work.ext, r)]

---------------------------------------------------------------------------
(* 6. sign *)

Signable(key) ==
    /\ Reconstructible(q, dir, snaps, reds)
    /\ key = q.key
    /\ Attestable(Bundle(q, dir))

PrepareSign(key) ==
    /\ At(6, "prepare")
    /\ truth' = [truth EXCEPT !.key = key]
    /\ \/ /\ Signable(key)
          /\ work' = [payload |-> Sign(q, Bundle(q, dir), q.wf), ext |-> Absent]
          /\ pc' = "finalize"
          /\ UNCHANGED <<q, seen, evidence, consumed, verdict>>
       \/ ~Signable(key) /\ Stop
    /\ UNCHANGED environment

---------------------------------------------------------------------------
(* 7. attested-judge *)

Judgeable ==
    /\ Reconstructible(q, dir, snaps, reds)
    /\ SignaturesReadable(q, Prior(6))

\* fresh: the signatures are at most max_age_seconds old
PrepareJudge(fresh) ==
    /\ At(7, "prepare")
    /\ truth' = [truth EXCEPT !.timely = fresh]
    /\ \/ /\ Judgeable
          /\ LET b == Bundle(q, dir)
                 verified == AttestationsVerify(b, Prior(6), consumed, fresh)
             IN  /\ verdict' = Verdict(b, verified)
                 /\ consumed' = IF verified
                                THEN consumed \cup {Prior(6)[r].nonce : r \in DOMAIN Prior(6)}
                                ELSE consumed
                 /\ work' = [payload |-> verdict', ext |-> Absent]
          /\ pc' = "finalize"
          /\ UNCHANGED <<q, seen, evidence>>
       \/ ~Judgeable /\ Stop
    /\ UNCHANGED environment

---------------------------------------------------------------------------
(* finalize_workflow_transition *)

FinalizeAccepts ==
    CASE q.seq = 1 -> SnapshotFinal
      [] q.seq = 2 -> RedFinal
      [] q.seq = 3 -> OfflinePhaseFinal
      [] q.seq = 5 -> BrokerPhaseFinal
      [] OTHER -> TRUE    \* evidence = payload, which is the output itself

FinalArts ==
    CASE q.seq = 1 -> SnapshotArts
      [] q.seq = 2 -> RedArts
      [] q.seq = 3 -> work.ext.runs
      [] q.seq = 5 -> BrokerArts
      [] OTHER -> work.payload

Finalize ==
    /\ pc = "finalize"
    /\ \/ FinalizeAccepts /\ Commit(FinalArts) /\ UNCHANGED verdict
       \/ ~FinalizeAccepts /\ Stop /\ UNCHANGED truth
    /\ UNCHANGED environment

---------------------------------------------------------------------------
(* A file of another workflow in the place of this one's *)

FileNames == {"result", "output", "payload", "trans", "ext", "runtime"}

\* the files of a committed directory that some later phase reads
FilesRead(n) ==
    CASE n = 3 -> FileNames \ {"runtime"}
      [] n = 5 -> FileNames
      [] OTHER -> {"result", "output"}

\* one such file, or the whole directory
Misplace(w, n, files) ==
    /\ pc = "prepare" /\ Cardinality(misplaced) < MaxMisplaced
    /\ dir[n] # Absent
    /\ dir' = [dir EXCEPT ![n] = [f \in FileNames |-> IF f \in files THEN Others[w].dir[n][f]
                                                      ELSE dir[n][f]]]
    /\ dir' # dir
    /\ misplaced' = misplaced \cup {<<w, n, files>>}
    /\ UNCHANGED <<worktree, pc, q, seen, work, snaps, reds, consumed, verdict, truth>>

\* the whole snapshot store
MisplaceStore(w) ==
    /\ pc = "prepare" /\ q.seq > 2 /\ Cardinality(misplaced) < MaxMisplaced
    /\ snaps' = Others[w].snaps /\ reds' = Others[w].reds
    /\ <<snaps', reds'>> # <<snaps, reds>>
    /\ misplaced' = misplaced \cup {<<w, 0, {}>>}
    /\ UNCHANGED <<worktree, pc, q, seen, work, dir, consumed, verdict, truth>>

---------------------------------------------------------------------------

BothAccept == [r \in ReviewRoles |-> "accept"]

BadRuns == OfflineKeys(Start.task) \cup {<<"none", "">>}

Coordinator ==
    \/ InspectBefore \/ CreatePair \/ InspectAfter
    \/ PrepareRed \/ PrepareOffline \/ PreparePacket \/ PrepareBroker
    \/ \E key \in Keys : PrepareSign(key)
    \/ \E fresh \in BOOLEAN : PrepareJudge(fresh)
    \/ Finalize

OuterExecution ==
    \/ \E bad \in BadRuns, log \in Logs : ExecuteOffline(bad, log)
    \/ \E says \in Outcomes : ExecuteBroker(says, FALSE, "none")
    \/ \E same \in BOOLEAN, late \in {"none", "before", "after"} :
         ExecuteBroker(BothAccept, same, late)

Disturbance ==
    \/ \E c \in Edits : EditWorktree(c)
    \/ \E w \in DOMAIN Others, n \in 1..6 :
         \E files \in {{f} : f \in FilesRead(n)} \cup {FileNames} : Misplace(w, n, files)
    \/ \E w \in DOMAIN Others : MisplaceStore(w)

Next == Coordinator \/ OuterExecution \/ Disturbance

\* the runner is one thread and every call it waits for has a timeout
Fairness == WF_vars(Coordinator \/ OuterExecution)

Spec == Init /\ [][Next]_vars /\ Fairness

---------------------------------------------------------------------------
(* Properties *)

\* the commit the first request's patch digest stands for
RequestedCommit(c) ==
    c \in TaskSpec[Start.task].allowed /\ Patch(TaskSpec[Start.task].base, c) = Start.patch

\* The candidate digest that anchors phases 2 to 7 is the tree of one commit
\* with the requested patch, whatever was done to the worktree between
\* the two inspections and the clone (_prepare_snapshot).
SnapshotIsRequested ==
    q.seq > 1 => /\ RequestedCommit(q.snap.commit)
                 /\ q.snap.tree = Tree[q.snap.commit]

\* The broker, which costs money, is only run on a packet whose diff is the
\* requested patch and whose gates and RED/GREEN runs all ended as expected,
\* although phases 2 to 5 read earlier outputs without looking at the workflow
\* they come from (_prior_outputs).
PaidForReviewable ==
    "broker" \in truth.ran =>
        LET p == truth.broker.packet
        IN  /\ p.task = Start.task
            /\ p.diff.diff = Start.patch.files
            /\ {g.id : g \in p.gates} = Acceptances(Start.task)
            /\ \A g \in p.gates : g.passed /\ RequestedCommit(g.head)
            /\ \A d \in p.tdds : d.red.ok /\ d.green.ok /\ d.rsnap # d.gsnap

\* Once the broker phase is committed, the two accepted runs are all that was
\* ever charged to the packet: a run of another executor makes the phase fail.
ChargedIsAccepted ==
    q.seq > 5 =>
        {<<w.role, w.attempt>> : w \in truth.broker.rows} = ReviewRoles \X {1}

\* Nonces are consumed only for evidence of this workflow: the offline runs and
\* the reviews that the attestations speak of are those this workflow executed,
\* on the requested candidate, also when the verdict is then "fail".
AttestedIsOwn ==
    consumed # {} =>
        /\ dir[3].ext.runs = truth.offline
        /\ \A r \in ReviewRoles : dir[5].ext.runs[r].env.review = truth.broker.says[r]
        /\ \A k \in DOMAIN truth.offline :
             k[1] # "red" => RequestedCommit(truth.offline[k].plan.exec.commit)
        /\ truth.key = Start.key

OwnRunsGood ==
    /\ "offline" \in truth.ran => \A k \in DOMAIN truth.offline : truth.offline[k].ok
    /\ "broker" \in truth.ran => truth.broker.says = BothAccept /\ ~truth.broker.sameId
    /\ truth.timely /\ truth.key = Start.key

\* "pass" is only given when every gate, RED and GREEN run of this workflow
\* ended as expected and both of its own reviews accepted, whatever file of
\* another workflow stood in between, and only together with its nonces.
PassIsEarned ==
    verdict = "pass" =>
        /\ truth.ran = {"offline", "broker"} /\ OwnRunsGood
        /\ consumed # {}

\* Nothing went wrong around the workflow: the worktree was not moved, or not so
\* that InspectAfter could tell; no file was misplaced; every run ended as
\* expected, and no other executor was charged to the packet.
Clean ==
    /\ worktree.moves = 0
    /\ misplaced = {} /\ OwnRunsGood
    /\ "broker" \in truth.ran => Cardinality(truth.broker.rows) = 2

\* Nothing in a workflow in which nothing went wrong is refused: none of the
\* repeated measurements rejects what an earlier phase made.
NeverRefused == pc = "end" /\ Clean => verdict = "pass"

\* Every workflow ends, and one in which nothing went wrong ends with "pass".
CleanPasses == <>[](pc = "end" /\ NeverRefused)

\* What the workflow's own checks need of the repository and the task before
\* any of them can pass: the requested commit is an allowed one, both commits
\* are in its clone, every test file is changed by it, no two tests have the
\* same files (derive_offline_artifacts keys the RED snapshots by them), and
\* both reservations fit the limits of the packet.
Workable ==
    LET t == Start.task
        base == TaskSpec[t].base
        head == Start.patch.head
    IN  /\ Start.patch = Patch(base, head)
        /\ head \in TaskSpec[t].allowed
        /\ {base, head} \subseteq Reach[head]
        /\ IsFiniteSet(Acceptances(t))
        /\ \A a \in TaskSpec[t].tests :
              TestDeltaValid(Snapshot(base), Snapshot(head), TaskSpec[t].paths[a])
        /\ \A a, c \in TaskSpec[t].tests :
              TaskSpec[t].paths[a] = TaskSpec[t].paths[c] => a = c
        /\ RoleTokens["reviewer"] + RoleTokens["adversary"] =< TokenCap
        /\ RoleCost["reviewer"] + RoleCost["adversary"] =< CostCap
==============================================================================
