---------------------- MODULE CoordinatorPhasesProofs -----------------------
(***************************************************************************)
(* What the coordinator's prepare and finalize operations guarantee for    *)
(* every task, repository and set of workflows beside this one, and for    *)
(* any number of files of those put in the place of this workflow's: the   *)
(* snapshot is the requested commit, the broker is paid for a reviewable   *)
(* packet only and for nothing beside the accepted runs, the attestations  *)
(* speak of this workflow's own evidence, and "pass" is earned.            *)
(* Conversely, for a workable task (Workable) an undisturbed workflow is   *)
(* never refused.                                                          *)
(***************************************************************************)
EXTENDS CoordinatorPhases, FiniteSetTheorems, TLAPS

(***************************************************************************)
(* The inductive invariant.                                                *)
(***************************************************************************)

\* The anchors of the first request stay with every later one.
RequestNames == {"wf", "seq", "task", "patch", "key", "prev", "snap", "packet"}

Anchored ==
    /\ DOMAIN q = RequestNames
    /\ q.wf = Start.wf /\ q.task = Start.task /\ q.patch = Start.patch
    /\ q.key = Start.key /\ q.seq \in 1..7

Shaped ==
    /\ pc \in {"prepare", "pair", "after", "execute", "finalize", "end"}
    /\ DOMAIN dir = 1..7
    /\ DOMAIN work = {"payload", "ext"}
    /\ DOMAIN truth = {"ran", "offline", "broker", "timely", "key"}

\* A snapshot of a commit with the requested patch
Requested(s) == RequestedCommit(s.commit) /\ s.tree = Tree[s.commit]

\* What a store holds was taken from commits.
Stored == \A e \in snaps : e.content.tree = Tree[e.content.commit]

\* Phase 1: the report names the requested commit, the pair of snapshots is made
\* of what the report names, and the candidate of the pair becomes the anchor.
Snapshotted ==
    /\ q.seq = 1 /\ pc \in {"pair", "after"} => RequestedCommit(seen.head)
    /\ q.seq = 1 /\ pc = "after" =>
          snaps = {Entry(Snapshot(seen.base)), Entry(Snapshot(seen.head))}
    /\ q.seq = 1 /\ pc = "finalize" => Requested(work.payload.cand)
    /\ q.seq > 1 => Requested(q.snap)

\* Phase 3: what runs, except for RED, runs on the anchored candidate; once it
\* ran, a result of this workflow carries what ran.
OnRequested(runs) ==
    \A k \in DOMAIN runs : k[1] # "red" => RequestedCommit(runs[k].plan.exec.commit)

RanOffline ==
    /\ q.seq = 3 /\ pc \in {"execute", "finalize"} =>
          \A k \in DOMAIN work.payload.runs :
              k[1] # "red" => RequestedCommit(work.payload.runs[k].exec.commit)
    /\ q.seq = 3 /\ pc = "finalize" => work.ext.runs = truth.offline
    /\ (q.seq = 3 /\ pc = "finalize") \/ q.seq > 3 =>
          "offline" \in truth.ran /\ OnRequested(truth.offline)
    /\ q.seq > 3 /\ dir[3].result.req.wf = Start.wf =>
          dir[3].result.ext.runs = truth.offline

\* Phase 4: the packet is reviewable when it is built, and anchored with that.
Reviewable(p) ==
    /\ p.task = Start.task
    /\ p.diff.diff = Start.patch.files
    /\ {g.id : g \in p.gates} = Acceptances(Start.task)
    /\ \A g \in p.gates : g.passed /\ RequestedCommit(g.head)
    /\ \A d \in p.tdds : d.red.ok /\ d.green.ok /\ d.rsnap # d.gsnap

PacketBuilt ==
    /\ q.seq = 4 /\ pc = "finalize" => Reviewable(work.payload)
    /\ q.seq > 4 => Reviewable(q.packet)

\* Phase 5: the first attempt of each role on the anchored packet; once it ran,
\* a result of this workflow carries what the brokers said.
Reviewed(ext) ==
    \A r \in ReviewRoles :
        /\ ext.runs[r].env.review = truth.broker.says[r]
        /\ ext.runs[r].env.id =
              <<Start.wf, IF truth.broker.sameId THEN "reviewer" ELSE r>>

RanBroker ==
    /\ q.seq = 5 /\ pc \in {"execute", "finalize"} =>
          /\ work.payload.packet = q.packet
          /\ \A r \in ReviewRoles : work.payload.runs[r].attempt = 1
    /\ q.seq = 5 /\ pc = "finalize" =>
          work.ext.final = truth.broker.rows /\ Reviewed(work.ext)
    /\ (q.seq = 5 /\ pc = "finalize") \/ q.seq > 5 =>
          /\ "broker" \in truth.ran
          /\ truth.broker.sameId \in BOOLEAN
          /\ truth.broker.says \in
                [ReviewRoles -> {"accept", "medium", "blocker", "misbound", "invalid"}]
    /\ "broker" \in truth.ran => Reviewable(truth.broker.packet)
    /\ ChargedIsAccepted
    /\ q.seq > 5 /\ dir[5].result.req.wf = Start.wf => Reviewed(dir[5].result.ext)

\* Phases 6 and 7: the key is the workflow's, nonces are consumed and a verdict
\* is given only by the last prepare operation.
Judged ==
    /\ (q.seq = 6 /\ pc = "finalize") \/ q.seq = 7 => truth.key = Start.key
    /\ consumed # {} \/ verdict # "none" =>
          q.seq = 7 /\ pc \in {"finalize", "end"}
    /\ truth.ran \subseteq {"offline", "broker"}
    /\ AttestedIsOwn
    /\ PassIsEarned

PInv ==
    /\ Anchored /\ Shaped /\ Stored
    /\ Snapshotted /\ RanOffline /\ PacketBuilt /\ RanBroker /\ Judged

(***************************************************************************)
(* Lemmas about the operators.                                             *)
(***************************************************************************)

\* The successor of a request has its anchors, the next number, and the new
\* snapshot or packet.
LEMMA Successor ==
    ASSUME Anchored, q.seq < 7, NEW result, result.req = q
    PROVE  /\ DOMAIN NextRequest(result) = RequestNames
           /\ NextRequest(result).wf = Start.wf
           /\ NextRequest(result).task = Start.task
           /\ NextRequest(result).patch = Start.patch
           /\ NextRequest(result).key = Start.key
           /\ NextRequest(result).seq = q.seq + 1
           /\ NextRequest(result).snap =
                 IF q.seq = 1 THEN result.out.arts.cand ELSE q.snap
           /\ NextRequest(result).packet =
                 IF q.seq = 4 THEN result.out.arts ELSE q.packet
  BY DEF Anchored, NextRequest, RequestNames

\* The first request is for phase 1.
LEMMA StartFields ==
    DOMAIN Start = RequestNames /\ Start.seq = 1 /\ Start.snap = Absent
  BY StartAssumption DEF RequestNames
(***************************************************************************)
(* Steps that change little.                                               *)
(***************************************************************************)

\* Everything the invariant speaks of
Stable == UNCHANGED <<pc, q, seen, work, dir, snaps, consumed, verdict, truth>>

\* A move of the worktree, or no step at all, changes nothing of it.
LEMMA StableKeeps == ASSUME PInv, Stable PROVE PInv'
  <1>1. Anchored' /\ Shaped' /\ Stored'
    BY DEF PInv, Stable, Anchored, Shaped, Stored
  <1>2. Snapshotted'
    BY DEF PInv, Stable, Snapshotted, Requested, RequestedCommit
  <1>3. RanOffline'
    BY DEF PInv, Stable, RanOffline, OnRequested, RequestedCommit
  <1>4. PacketBuilt'
    BY DEF PInv, Stable, PacketBuilt, Reviewable, RequestedCommit
  <1>5. RanBroker'
    BY DEF PInv, Stable, RanBroker, Reviewed, ChargedIsAccepted, Reviewable,
           RequestedCommit
  <1>6. Judged'
    BY DEF PInv, Stable, Judged, AttestedIsOwn, PassIsEarned, OwnRunsGood,
           RequestedCommit
  <1> QED BY <1>1, <1>2, <1>3, <1>4, <1>5, <1>6 DEF PInv

\* Before the last prepare operation nothing is consumed and no verdict given.
LEMMA NotYetJudged ==
    ASSUME PInv, q.seq # 7 \/ pc \notin {"finalize", "end"}
    PROVE  consumed = {} /\ verdict = "none"
  BY DEF PInv, Judged

\* A refusal ends the workflow; the key and the time of the judge may have been
\* noted before.
LEMMA StopKeeps ==
    ASSUME PInv, Stop,
           pc # "end",
           DOMAIN truth' = DOMAIN truth,
           truth'.ran = truth.ran, truth'.offline = truth.offline,
           truth'.broker = truth.broker,
           truth' = truth \/ pc = "prepare",
           q.seq = 7 => truth'.key = truth.key
    PROVE  PInv'
  <1>1. pc' = "end" /\ UNCHANGED <<q, seen, work, dir, snaps, reds, consumed, verdict>>
    BY DEF Stop, evidence
  <1>2. Anchored' /\ Shaped' /\ Stored'
    BY <1>1 DEF PInv, Anchored, Shaped, Stored
  <1>3. Snapshotted'
    BY <1>1 DEF PInv, Snapshotted, Requested, RequestedCommit
  <1>4. RanOffline'
    BY <1>1 DEF PInv, RanOffline, OnRequested, RequestedCommit
  <1>5. PacketBuilt'
    BY <1>1 DEF PInv, PacketBuilt, Reviewable, RequestedCommit
  <1>6. RanBroker'
    BY <1>1 DEF PInv, RanBroker, Reviewed, ChargedIsAccepted, Reviewable,
                RequestedCommit
  <1>7. Judged'
    <2>1. CASE truth' = truth
      BY <1>1, <2>1 DEF PInv, Judged, AttestedIsOwn, PassIsEarned, OwnRunsGood,
                        RequestedCommit
    <2>2. CASE pc = "prepare"
      <3>1. consumed' = {} /\ verdict' = "none"
        BY <1>1, <2>2, NotYetJudged
      <3>2. (q.seq = 7 => truth'.key = Start.key) /\ truth'.ran \subseteq {"offline", "broker"}
        BY <2>2 DEF PInv, Judged
      <3> QED BY <1>1, <3>1, <3>2 DEF Judged, AttestedIsOwn, PassIsEarned
    <2> QED BY <2>1, <2>2
  <1> QED BY <1>2, <1>3, <1>4, <1>5, <1>6, <1>7 DEF PInv

\* The refusal of a step that notes nothing.
LEMMA PlainStopKeeps ==
    ASSUME PInv, Stop, UNCHANGED truth, pc # "end" PROVE PInv'
  BY StopKeeps

\* The first request is made for the mounted worktree; nothing is there yet.
LEMMA InitHolds == Init => PInv
  <1> SUFFICES ASSUME Init PROVE PInv
    OBVIOUS
  <1>1. q = Start /\ q.seq = 1 /\ pc = "prepare" /\ consumed = {} /\ verdict = "none"
        /\ snaps = {} /\ truth.ran = {} /\ DOMAIN q = RequestNames
    BY StartFields DEF Init
  <1>2. Anchored
    BY <1>1 DEF Anchored
  <1>3. Shaped /\ Stored
    BY <1>1 DEF Init, Shaped, Stored, NoWork
  <1>4. Snapshotted /\ RanOffline /\ PacketBuilt /\ RanBroker /\ Judged
    BY <1>1 DEF Snapshotted, RanOffline, PacketBuilt, RanBroker, ChargedIsAccepted, Judged,
                AttestedIsOwn, PassIsEarned
  <1> QED BY <1>2, <1>3, <1>4 DEF PInv

(***************************************************************************)
(* Disturbances.                                                           *)
(***************************************************************************)

\* A file, or a whole directory, of another workflow in a committed directory:
\* its result names the other workflow.
LEMMA MisplaceKeeps ==
    ASSUME PInv, NEW w \in DOMAIN Others, NEW n \in 1..6, NEW files,
           Misplace(w, n, files)
    PROVE  PInv'
  <1>1. /\ pc = "prepare"
        /\ dir' = [dir EXCEPT ![n] = [f \in FileNames |->
                      IF f \in files THEN Others[w].dir[n][f] ELSE dir[n][f]]]
        /\ UNCHANGED <<pc, q, seen, work, snaps, consumed, verdict, truth>>
    BY DEF Misplace
  <1>2. DOMAIN dir = 1..7 /\ DOMAIN dir' = 1..7
    BY <1>1 DEF PInv, Shaped
  <1>3. \A m \in 1..7 : dir'[m].result.req.wf = Start.wf => dir'[m].result = dir[m].result
    <2> TAKE m \in 1..7
    <2>1. CASE m # n
      BY <1>1, <1>2, <2>1
    <2>2. CASE m = n
      <3>1. dir'[n] = [f \in FileNames |->
                          IF f \in files THEN Others[w].dir[n][f] ELSE dir[n][f]]
        BY <1>1, <1>2
      <3>2. dir'[n].result = IF "result" \in files THEN Others[w].dir[n].result
                             ELSE dir[n].result
        BY <3>1 DEF FileNames
      <3>3. Others[w].dir[n].result.req.wf # Start.wf
        BY OthersAssumption
      <3> QED BY <2>2, <3>2, <3>3
    <2> QED BY <2>1, <2>2
  <1>4. consumed = {} /\ verdict = "none"
    BY <1>1, NotYetJudged
  <1>5. Anchored' /\ Shaped' /\ Stored'
    BY <1>1, <1>2 DEF PInv, Anchored, Shaped, Stored
  <1>6. Snapshotted' /\ PacketBuilt'
    BY <1>1 DEF PInv, Snapshotted, PacketBuilt, Requested, Reviewable, RequestedCommit
  <1>7. RanOffline'
    BY <1>1, <1>3 DEF PInv, RanOffline, OnRequested, RequestedCommit
  <1>8. RanBroker'
    <2>1. q.seq > 5 /\ dir'[5].result.req.wf = Start.wf => Reviewed(dir[5].result.ext)'
      <3> SUFFICES ASSUME q.seq > 5, dir'[5].result.req.wf = Start.wf
                   PROVE  Reviewed(dir[5].result.ext)'
        OBVIOUS
      <3>1. dir'[5].result = dir[5].result
        BY <1>3
      <3>2. Reviewed(dir[5].result.ext)
        BY <3>1 DEF PInv, RanBroker
      <3> QED BY <1>1, <3>1, <3>2 DEF Reviewed
    <2>2. UNCHANGED <<pc, q, work, truth>>
      BY <1>1
    <2> QED BY <2>1, <2>2 DEF PInv, RanBroker, Reviewed, ChargedIsAccepted, Reviewable,
                RequestedCommit
  <1>9. Judged'
    BY <1>1, <1>4 DEF PInv, Judged, AttestedIsOwn, PassIsEarned
  <1> QED BY <1>5, <1>6, <1>7, <1>8, <1>9 DEF PInv

\* Another workflow's snapshots, which were taken from commits like this one's.
LEMMA MisplaceStoreKeeps ==
    ASSUME PInv, NEW w \in DOMAIN Others, MisplaceStore(w) PROVE PInv'
  <1>1. /\ pc = "prepare" /\ q.seq > 2 /\ snaps' = Others[w].snaps
        /\ UNCHANGED <<pc, q, seen, work, dir, consumed, verdict, truth>>
    BY DEF MisplaceStore
  <1>2. Stored'
    BY <1>1, OthersAssumption DEF Stored
  <1>3. q.seq # 1
    BY <1>1 DEF PInv, Anchored
  <1>4. Anchored' /\ Shaped' /\ Snapshotted' /\ PacketBuilt'
    BY <1>1, <1>3 DEF PInv, Anchored, Shaped, Snapshotted, PacketBuilt, Requested,
                      Reviewable, RequestedCommit
  <1>5. RanOffline'
    BY <1>1 DEF PInv, RanOffline, OnRequested, RequestedCommit
  <1>6. RanBroker'
    BY <1>1 DEF PInv, RanBroker, Reviewed, ChargedIsAccepted, Reviewable,
                RequestedCommit
  <1>7. Judged'
    BY <1>1 DEF PInv, Judged, AttestedIsOwn, PassIsEarned, OwnRunsGood, RequestedCommit
  <1> QED BY <1>2, <1>4, <1>5, <1>6, <1>7 DEF PInv
(***************************************************************************)
(* Prepare operations of phases 1 to 5.                                    *)
(***************************************************************************)

\* What a prepare operation of phases 1 to 5 has to establish for the next step
Establishes ==
    /\ q.seq < 6
    /\ q.seq = 3 => pc' # "finalize" /\ (pc' = "execute" =>
          \A k \in DOMAIN work'.payload.runs :
              k[1] # "red" => RequestedCommit(work'.payload.runs[k].exec.commit))
    /\ q.seq = 4 /\ pc' = "finalize" => Reviewable(work'.payload)
    /\ q.seq = 5 => pc' # "finalize" /\ (pc' = "execute" =>
          /\ work'.payload.packet = q.packet
          /\ \A r \in ReviewRoles : work'.payload.runs[r].attempt = 1)

\* A step that neither commits nor executes keeps the rest.
LEMMA EstablishedKeeps ==
    ASSUME PInv, Establishes, Stored', Snapshotted',
           pc' \in {"prepare", "pair", "after", "execute", "finalize", "end"},
           DOMAIN work' = {"payload", "ext"},
           UNCHANGED <<q, dir, truth, consumed, verdict>>
    PROVE  PInv'
  <1>1. q.seq # 7 /\ q.seq # 6 /\ q.seq \in 1..7
    BY DEF PInv, Anchored, Establishes
  <1>2. consumed = {} /\ verdict = "none"
    BY <1>1, NotYetJudged
  <1>3. Anchored' /\ Shaped'
    BY DEF PInv, Anchored, Shaped
  <1>4. RanOffline'
    <2>1. OnRequested(truth.offline)' <=> OnRequested(truth.offline)
      BY DEF OnRequested, RequestedCommit
    <2>2. ASSUME q.seq = 3, pc' \in {"execute", "finalize"}
          PROVE  pc' # "finalize" /\ \A k \in DOMAIN work'.payload.runs :
                    k[1] # "red" => RequestedCommit(work'.payload.runs[k].exec.commit)
      BY <2>2 DEF Establishes
    <2>3. RanOffline
      BY DEF PInv
    <2>4. q' = q /\ dir' = dir /\ truth' = truth
      OBVIOUS
    <2> QED BY <1>1, <2>1, <2>2, <2>3, <2>4 DEF RanOffline, RequestedCommit
  <1>5. PacketBuilt'
    <2>2. q.seq = 4 /\ pc' = "finalize" => Reviewable(work'.payload)
      BY DEF Establishes
    <2>3. q.seq > 4 => Reviewable(q.packet)
      BY DEF PInv, PacketBuilt
    <2> QED BY <2>2, <2>3 DEF PacketBuilt, Reviewable, RequestedCommit
  <1>6. RanBroker'
    <2>1. q.seq = 5 /\ pc' \in {"execute", "finalize"} =>
            /\ work'.payload.packet = q.packet
            /\ \A r \in ReviewRoles : work'.payload.runs[r].attempt = 1
      BY DEF Establishes
    <2>2. ~(q.seq = 5 /\ pc' = "finalize") /\ ~(q.seq > 5)
      BY <1>1 DEF Establishes
    <2>3. "broker" \in truth.ran => Reviewable(truth.broker.packet)
      BY DEF PInv, RanBroker
    <2> QED BY <2>1, <2>2, <2>3
          DEF RanBroker, ChargedIsAccepted, Reviewable, RequestedCommit
  <1>7. Judged'
    <2>1. truth.ran \subseteq {"offline", "broker"}
      BY DEF PInv, Judged
    <2> QED BY <1>1, <1>2, <2>1 DEF Judged, AttestedIsOwn, PassIsEarned
  <1> QED BY <1>3, <1>4, <1>5, <1>6, <1>7 DEF PInv

\* Phase 1, the first inspection: a passed report with the requested patch names
\* a requested commit.
LEMMA InspectBeforeKeeps == ASSUME PInv, InspectBefore PROVE PInv'
  <1>1. q.seq = 1 /\ pc = "prepare" /\ UNCHANGED truth
    BY DEF InspectBefore, At
  <1>2. CASE Stop
    BY <1>1, <1>2, PlainStopKeeps
  <1>3. CASE /\ InspectionPasses(PolicyReport(q.task, worktree.head))
             /\ seen' = PolicyReport(q.task, worktree.head) /\ pc' = "pair"
             /\ UNCHANGED <<q, work, evidence, consumed, verdict>>
    <2>1. UNCHANGED <<q, work, dir, snaps, truth, consumed, verdict>>
      BY <1>1, <1>3 DEF evidence
    <2>2. RequestedCommit(seen'.head)
      <3>1. q.task = Start.task /\ q.patch = Start.patch
        BY DEF PInv, Anchored
      <3> QED BY <1>3, <3>1 DEF InspectionPasses, PolicyReport, RequestedCommit
    <2>3. Snapshotted'
      BY <1>1, <1>3, <2>1, <2>2 DEF Snapshotted, RequestedCommit
    <2>4. Stored' /\ Establishes /\ DOMAIN work' = {"payload", "ext"}
      BY <1>1, <1>3, <2>1 DEF PInv, Stored, Establishes, Shaped
    <2> QED BY <1>3, <2>1, <2>3, <2>4, EstablishedKeeps
  <1> QED BY <1>2, <1>3 DEF InspectBefore

\* Phase 1, the pair: both snapshots are taken from the commits of the report.
LEMMA CreatePairKeeps == ASSUME PInv, CreatePair PROVE PInv'
  <1>1. q.seq = 1 /\ pc = "pair" /\ UNCHANGED truth
    BY DEF CreatePair, At
  <1>2. CASE Stop
    BY <1>1, <1>2, PlainStopKeeps
  <1>3. CASE /\ snaps' = {Entry(s) : s \in SnapshotPair(seen)} /\ pc' = "after"
             /\ UNCHANGED <<q, seen, work, dir, reds, consumed, verdict>>
    <2>1. snaps' = {Entry(Snapshot(seen.base)), Entry(Snapshot(seen.head))}
      BY <1>3 DEF SnapshotPair
    <2>2. Snapshotted'
      BY <1>1, <1>3, <2>1 DEF PInv, Snapshotted, RequestedCommit
    <2>3. Stored'
      BY <2>1 DEF Stored, Entry, Snapshot
    <2>4. Establishes /\ DOMAIN work' = {"payload", "ext"}
      BY <1>1, <1>3 DEF PInv, Establishes, Shaped
    <2> QED BY <1>1, <1>3, <2>2, <2>3, <2>4, EstablishedKeeps
  <1> QED BY <1>2, <1>3 DEF CreatePair

\* Phase 1, the second inspection: the candidate is one of the two snapshots.
LEMMA InspectAfterKeeps == ASSUME PInv, InspectAfter PROVE PInv'
  <1> DEFINE at(c) == (CHOOSE e \in snaps : e.name.commit = c).name
             payload == [req |-> RequestSha(q),
                         policy |-> PolicyReport(q.task, worktree.head),
                         base |-> at(seen.base), cand |-> at(seen.head)]
  <1>1. q.seq = 1 /\ pc = "after"
    BY DEF InspectAfter, At
  <1>2. CASE Stop /\ UNCHANGED truth
    BY <1>1, <1>2, PlainStopKeeps
  <1>3. CASE Prepared(payload) /\ UNCHANGED <<snaps, reds, consumed, verdict>>
    <2>1. /\ work' = [payload |-> payload, ext |-> Absent]
          /\ pc' = "finalize"
          /\ UNCHANGED <<q, seen, dir, truth, snaps, consumed, verdict>>
      BY <1>1, <1>3 DEF Prepared
    <2>2. Requested(at(seen.head))
      <3>1. Entry(Snapshot(seen.head)) \in snaps
            /\ Entry(Snapshot(seen.head)).name.commit = seen.head
        BY <1>1 DEF PInv, Snapshotted, Entry, Snapshot
      <3>2. PICK e \in snaps : e = (CHOOSE x \in snaps : x.name.commit = seen.head)
                               /\ e.name.commit = seen.head
        BY <3>1
      <3>3. e = Entry(Snapshot(seen.base)) \/ e = Entry(Snapshot(seen.head))
        BY <1>1 DEF PInv, Snapshotted
      <3>4. e.name.tree = Tree[e.name.commit]
        BY <3>3 DEF Entry, Snapshot
      <3>5. RequestedCommit(seen.head)
        BY <1>1 DEF PInv, Snapshotted
      <3>6. at(seen.head) = e.name
        BY <3>2
      <3> QED BY <3>2, <3>4, <3>5, <3>6 DEF Requested
    <2>3. work'.payload.cand = at(seen.head) /\ DOMAIN work' = {"payload", "ext"}
      BY <2>1
    <2> HIDE DEF at, payload
    <2>4. Requested(work'.payload.cand)
      BY <2>2, <2>3
    <2>5. Snapshotted'
      BY <1>1, <2>1, <2>4 DEF Snapshotted, Requested, RequestedCommit
    <2>6. Stored' /\ Establishes
      BY <1>1, <2>1 DEF PInv, Stored, Establishes
    <2> QED BY <2>1, <2>3, <2>5, <2>6, EstablishedKeeps
  <1> QED BY <1>2, <1>3 DEF InspectAfter

\* Phase 2 changes the RED store and its payload only.
LEMMA PrepareRedKeeps == ASSUME PInv, PrepareRed PROVE PInv'
  <1>1. q.seq = 2 /\ pc = "prepare"
    BY DEF PrepareRed, At
  <1>2. CASE Stop /\ UNCHANGED truth
    BY <1>1, <1>2, PlainStopKeeps
  <1>3. ASSUME NEW payload, Prepared(payload), UNCHANGED <<snaps, consumed, verdict>>
        PROVE  PInv'
    <2>1. /\ pc' = "finalize" /\ DOMAIN work' = {"payload", "ext"}
          /\ UNCHANGED <<q, seen, dir, truth, snaps, consumed, verdict>>
      BY <1>1, <1>3 DEF Prepared
    <2>2. Stored' /\ Snapshotted' /\ Establishes
      BY <1>1, <2>1 DEF PInv, Stored, Snapshotted, Requested, RequestedCommit, Establishes
    <2> QED BY <2>1, <2>2, EstablishedKeeps
  <1> QED BY <1>2, <1>3 DEF PrepareRed
\* Phase 3: all but the RED runs are planned on the anchored candidate.
LEMMA PrepareOfflineKeeps == ASSUME PInv, PrepareOffline PROVE PInv'
  <1>1. q.seq = 3 /\ pc = "prepare"
    BY DEF PrepareOffline, At
  <1>2. CASE Stop /\ UNCHANGED truth
    BY <1>1, <1>2, PlainStopKeeps
  <1>3. CASE /\ OfflineInputsValid
             /\ Prepared(OfflineBatch(q, Prior(1).cand, SourceReds))
             /\ UNCHANGED <<snaps, reds, consumed, verdict>>
    <2>1. PICK cand : cand = Prior(1).cand
      OBVIOUS
    <2>2. PICK rs : rs = SourceReds
      OBVIOUS
    <2>3. PICK b : b = OfflineBatch(q, cand, rs)
      OBVIOUS
    <2>4. /\ pc' = "execute" /\ DOMAIN work' = {"payload", "ext"} /\ work'.payload = b
          /\ UNCHANGED <<q, seen, dir, truth, snaps, consumed, verdict>>
      BY <1>1, <1>3, <2>1, <2>2, <2>3 DEF Prepared
    <2>5. cand = q.snap /\ RequestedCommit(q.snap.commit)
      BY <1>1, <1>3, <2>1 DEF OfflineInputsValid, SourcesValid, PInv, Snapshotted,
                              Requested
    <2>6. \A k \in DOMAIN b.runs : k[1] # "red" => b.runs[k].exec = cand
      BY <2>3 DEF OfflineBatch, PlannedRun
    <2>7. Establishes
      BY <1>1, <2>4, <2>5, <2>6 DEF Establishes
    <2>8. Stored' /\ Snapshotted'
      BY <1>1, <2>4 DEF PInv, Stored, Snapshotted, Requested, RequestedCommit
    <2> QED BY <2>4, <2>7, <2>8, EstablishedKeeps
  <1> QED BY <1>2, <1>3 DEF PrepareOffline

\* A packet that build_review_packet_phase_output accepts, built from snapshots of
\* commits of which the candidate is the requested one, is reviewable, whatever
\* workflow the policy report and the runs came from.
LEMMA BuildableIsReviewable ==
    ASSUME Anchored, Requested(q.snap),
           NEW policy, NEW runs, NEW base, NEW cand, NEW rs,
           cand = q.snap, base.tree = Tree[base.commit],
           PacketBuildable(q, policy, runs, base, cand, rs)
    PROVE  Reviewable(PacketFrom(q, policy, runs, base, cand, rs))
  <1> DEFINE t == Start.task
             gates == GateResults(t, policy, runs)
             tdds == TddResults(t, policy, runs, rs)
             p == PacketFrom(q, policy, runs, base, cand, rs)
  <1>1. q.task = t /\ q.patch = Start.patch
    BY DEF Anchored
  <1>2. /\ PacketInputsValid(q, policy, base, cand, rs)
        /\ OfflineDerivable(t, policy, runs, base, cand, rs)
        /\ MaterialBound(t, policy, ReviewMaterial(t, policy, base, cand))
        /\ GatesReviewable(t, policy, gates)
        /\ TddReviewable(t, policy, tdds)
    BY <1>1 DEF PacketBuildable
  <1>3. /\ p.task = t /\ p.gates = gates /\ p.tdds = tdds
        /\ p.diff.diff = RenderedDiff(base, cand)
    BY <1>1 DEF PacketFrom, ReviewPacket, ReviewMaterial
  <1>4. policy.head = cand.commit /\ RequestedCommit(policy.head)
    BY <1>2 DEF PacketInputsValid, Requested
  <1>5. /\ base.commit = TaskSpec[t].base /\ cand.tree = Tree[cand.commit]
        /\ Start.patch = Patch(base.commit, cand.commit)
    BY <1>1, <1>2, <1>4 DEF PacketInputsValid, Requested, RequestedCommit
  <1>6. RenderedDiff(base, cand) = Start.patch.files
    <2>1. Start.patch.files = Changes(base.commit, cand.commit)
      BY <1>5 DEF Patch
    <2> QED BY <1>5, <2>1 DEF RenderedDiff, Changes
  <1>7. RenderedDiff(base, cand) # {}
    BY <1>2 DEF MaterialBound, ReviewMaterial, DiffMatchesPolicy
  <1>8. base.commit # cand.commit
    <2> SUFFICES ASSUME base.commit = cand.commit PROVE FALSE
      OBVIOUS
    <2>1. base.tree = cand.tree
      BY <1>5
    <2> QED BY <1>7, <2>1 DEF RenderedDiff
  <1>9. /\ {g.id : g \in gates} = Acceptances(t)
        /\ \A g \in gates : g.passed /\ g.head = policy.head
    BY <1>2 DEF GatesReviewable
  <1>10. \A d \in tdds : d.red.ok /\ d.green.ok
    BY <1>2 DEF TddReviewable
  <1>11. \A d \in tdds : d.rsnap # d.gsnap
    <2> TAKE d \in tdds
    <2>0. PICK a \in TaskSpec[t].tests :
              d = [id |-> a, task |-> t, base |-> policy.base, head |-> policy.head,
                   patch |-> policy.patch, tpatch |-> RedFor(t, rs, a).tpatch,
                   tman |-> RedFor(t, rs, a).tman, rsnap |-> RedFor(t, rs, a).snap,
                   gsnap |-> runs[<<"green", a>>].plan.exec,
                   red |-> [ok |-> runs[<<"red", a>>].ok, log |-> runs[<<"red", a>>].log],
                   green |-> [ok |-> runs[<<"green", a>>].ok,
                              log |-> runs[<<"green", a>>].log]]
      BY Zenon DEF TddResults
    <2>1. /\ d.rsnap = RedFor(t, rs, a).snap
          /\ d.gsnap = runs[<<"green", a>>].plan.exec
      BY <2>0
    <2>2. RedsCover(t, rs, base, cand) /\ RunsMatch(t, policy, runs, base, cand, rs)
      BY <1>2 DEF OfflineDerivable
    <2>3. PICK i \in DOMAIN rs : RedFor(t, rs, a) = rs[i]
      <3>1. \E i \in DOMAIN rs : rs[i].paths = TaskSpec[t].paths[a]
        BY <2>2 DEF RedsCover
      <3> QED BY <3>1 DEF RedFor
    <2>4. rs[i].snap.commit = base.commit
      BY <2>2, <2>3 DEF RedsCover, RedMeasures
    <2>5. <<"green", a>> \in DOMAIN runs
      BY <2>2 DEF RunsMatch, OfflineKeys
    <2>6. runs[<<"green", a>>].plan.exec = cand
      BY <2>2, <2>5 DEF RunsMatch, RunMeasures
    <2> QED BY <1>8, <2>1, <2>3, <2>4, <2>6
  <1> HIDE DEF gates, tdds, p
  <1> QED BY <1>3, <1>4, <1>6, <1>9, <1>10, <1>11 DEF Reviewable, p

\* Phase 4.
LEMMA PreparePacketKeeps == ASSUME PInv, PreparePacket PROVE PInv'
  <1>1. q.seq = 4 /\ pc = "prepare"
    BY DEF PreparePacket, At
  <1>2. CASE Stop /\ UNCHANGED truth
    BY <1>1, <1>2, PlainStopKeeps
  <1>3. CASE /\ PacketReady
             /\ Prepared(PacketFrom(q, Prior(1).policy, Prior(3), Prior(1).base,
                                    Prior(1).cand, SourceReds))
             /\ UNCHANGED <<snaps, reds, consumed, verdict>>
    <2>1. PICK p : p = PacketFrom(q, Prior(1).policy, Prior(3), Prior(1).base,
                                  Prior(1).cand, SourceReds)
      OBVIOUS
    <2>2. Requested(q.snap)
      BY <1>1 DEF PInv, Snapshotted
    <2>3. Prior(1).cand = q.snap
      BY <1>3 DEF PacketReady, SourcesValid
    <2>4. Prior(1).base.tree = Tree[Prior(1).base.commit]
      <3>1. PICK e \in snaps : e.content = Prior(1).base
        BY <1>3 DEF PacketReady, SourcesValid, Verified
      <3> QED BY <3>1 DEF PInv, Stored
    <2>5. Reviewable(p)
      BY <1>3, <2>1, <2>2, <2>3, <2>4, BuildableIsReviewable DEF PacketReady, PInv
    <2>6. /\ pc' = "finalize" /\ DOMAIN work' = {"payload", "ext"} /\ work'.payload = p
          /\ UNCHANGED <<q, seen, dir, truth, snaps, consumed, verdict>>
      BY <1>1, <1>3, <2>1 DEF Prepared
    <2>7. Establishes
      BY <1>1, <2>5, <2>6 DEF Establishes
    <2>8. Stored' /\ Snapshotted'
      BY <1>1, <2>6 DEF PInv, Stored, Snapshotted, Requested, RequestedCommit
    <2> QED BY <2>6, <2>7, <2>8, EstablishedKeeps
  <1> QED BY <1>2, <1>3 DEF PreparePacket

\* Phase 5: the first attempt of each role, on the packet of the request.
LEMMA PrepareBrokerKeeps == ASSUME PInv, PrepareBroker PROVE PInv'
  <1>1. q.seq = 5 /\ pc = "prepare"
    BY DEF PrepareBroker, At
  <1>2. CASE Stop /\ UNCHANGED truth
    BY <1>1, <1>2, PlainStopKeeps
  <1>3. CASE /\ Prepared(BrokerBatch(q, Prior(4), Prior(1).cand, RuntimeBinding, q.wf))
             /\ UNCHANGED <<snaps, reds, consumed, verdict>>
    <2>1. PICK b : b = BrokerBatch(q, Prior(4), Prior(1).cand, RuntimeBinding, q.wf)
      OBVIOUS
    <2>2. b.packet = q.packet /\ \A r \in ReviewRoles : b.runs[r].attempt = 1
      BY <2>1 DEF BrokerBatch, PreparedRun
    <2>3. /\ pc' = "execute" /\ DOMAIN work' = {"payload", "ext"} /\ work'.payload = b
          /\ UNCHANGED <<q, seen, dir, truth, snaps, consumed, verdict>>
      BY <1>1, <1>3, <2>1 DEF Prepared
    <2>4. Establishes
      BY <1>1, <2>2, <2>3 DEF Establishes
    <2>5. Stored' /\ Snapshotted'
      BY <1>1, <2>3 DEF PInv, Stored, Snapshotted, Requested, RequestedCommit
    <2> QED BY <2>3, <2>4, <2>5, EstablishedKeeps
  <1> QED BY <1>2, <1>3 DEF PrepareBroker

(***************************************************************************)
(* The outer executions.                                                   *)
(***************************************************************************)

\* Phase 3 is executed.
LEMMA ExecuteOfflineKeeps ==
    ASSUME PInv, NEW bad, NEW log, ExecuteOffline(bad, log) PROVE PInv'
  <1>1. q.seq = 3 /\ pc = "execute" /\ pc' = "finalize"
        /\ UNCHANGED <<q, seen, dir, snaps, consumed, verdict>>
    BY DEF ExecuteOffline, At, evidence
  <1>2. PICK runs : runs = [k \in DOMAIN work.payload.runs |->
                               RunEvidence(work.payload, k, k # bad, log)]
    OBVIOUS
  <1>3. /\ work' = [work EXCEPT !.ext = OuterOffline(work.payload, runs)]
        /\ truth' = [truth EXCEPT !.ran = @ \cup {"offline"}, !.offline = runs]
    BY <1>2 DEF ExecuteOffline
  <1>4. /\ DOMAIN work' = {"payload", "ext"} /\ work'.payload = work.payload
        /\ work'.ext = OuterOffline(work.payload, runs)
        /\ DOMAIN truth' = {"ran", "offline", "broker", "timely", "key"}
        /\ truth'.ran = truth.ran \cup {"offline"} /\ truth'.offline = runs
        /\ truth'.broker = truth.broker
    BY <1>3 DEF PInv, Shaped
  <1>5. work'.ext.runs = runs
    BY <1>4 DEF OuterOffline
  <1>6. OnRequested(runs)
    <2>1. \A k \in DOMAIN runs : runs[k].plan = work.payload.runs[k]
      BY <1>2 DEF RunEvidence
    <2>2. \A k \in DOMAIN work.payload.runs :
              k[1] # "red" => RequestedCommit(work.payload.runs[k].exec.commit)
      BY <1>1 DEF PInv, RanOffline
    <2>3. DOMAIN runs = DOMAIN work.payload.runs
      BY <1>2
    <2> QED BY <2>1, <2>2, <2>3 DEF OnRequested
  <1>7. consumed = {} /\ verdict = "none"
    BY <1>1, NotYetJudged
  <1>8. Anchored' /\ Shaped' /\ Stored' /\ Snapshotted' /\ PacketBuilt'
    BY <1>1, <1>4 DEF PInv, Anchored, Shaped, Stored, Snapshotted, Requested,
                      RequestedCommit, PacketBuilt
  <1>9. RanOffline'
    <2>1. \A k \in DOMAIN work'.payload.runs :
              k[1] # "red" => RequestedCommit(work'.payload.runs[k].exec.commit)
      BY <1>1, <1>4 DEF PInv, RanOffline
    <2>2. OnRequested(truth'.offline)
      BY <1>4, <1>6
    <2>3. work'.ext.runs = truth'.offline /\ "offline" \in truth'.ran
      BY <1>4, <1>5
    <2>4. q' = q /\ ~(q.seq > 3)
      BY <1>1
    <2> QED BY <1>1, <2>1, <2>2, <2>3, <2>4 DEF RanOffline, OnRequested, RequestedCommit
  <1>10. RanBroker'
    <2>1. "broker" \in truth'.ran => Reviewable(truth'.broker.packet)
      BY <1>4 DEF PInv, RanBroker
    <2>2. q'.seq = 3
      BY <1>1
    <2> QED BY <2>1, <2>2 DEF RanBroker, ChargedIsAccepted, Reviewable, RequestedCommit
  <1>11. Judged'
    <2>1. truth'.ran \subseteq {"offline", "broker"}
      BY <1>4 DEF PInv, Judged
    <2> QED BY <1>1, <1>7, <2>1 DEF Judged, AttestedIsOwn, PassIsEarned
  <1> QED BY <1>8, <1>9, <1>10, <1>11 DEF PInv

\* Phase 5 is executed: the brokers get the anchored packet.
LEMMA ExecuteBrokerKeeps ==
    ASSUME PInv, NEW same \in BOOLEAN, NEW late,
           NEW says \in
             [ReviewRoles -> {"accept", "medium", "blocker", "misbound", "invalid"}],
           ExecuteBroker(says, same, late)
    PROVE  PInv'
  <1>1. q.seq = 5 /\ pc = "execute" /\ pc' = "finalize"
        /\ UNCHANGED <<q, seen, dir, snaps, consumed, verdict>>
    BY DEF ExecuteBroker, At, evidence
  <1>2. PICK final : final = Rows(work.payload, late).final
    OBVIOUS
  <1>3. PICK raws : raws = [r \in ReviewRoles |->
            OuterRun(work.payload.runs[r], <<q.wf, r>>, Rows(work.payload, late)[r],
                     IF r = "reviewer" THEN 1 ELSE 2,
                     Envelope(work.payload.runs[r],
                              <<q.wf, IF same THEN "reviewer" ELSE r>>, says[r]))]
    OBVIOUS
  <1>4. PICK record : record = [says |-> says, sameId |-> same, rows |-> final,
                                packet |-> work.payload.packet]
    OBVIOUS
  <1>5. /\ work' = [work EXCEPT !.ext = OuterBroker(work.payload, final, raws)]
        /\ truth' = [truth EXCEPT !.ran = @ \cup {"broker"}, !.broker = record]
    BY <1>2, <1>3, <1>4 DEF ExecuteBroker
  <1>6. /\ DOMAIN work' = {"payload", "ext"} /\ work'.payload = work.payload
        /\ work'.ext = OuterBroker(work.payload, final, raws)
        /\ DOMAIN truth' = {"ran", "offline", "broker", "timely", "key"}
        /\ truth'.ran = truth.ran \cup {"broker"} /\ truth'.offline = truth.offline
        /\ truth'.broker = record
    BY <1>5 DEF PInv, Shaped
  <1>7. work'.ext.runs = raws /\ work'.ext.final = final
    BY <1>6 DEF OuterBroker
  <1>8. \A r \in ReviewRoles :
            /\ raws[r].env.review = says[r]
            /\ raws[r].env.id = <<Start.wf, IF same THEN "reviewer" ELSE r>>
    <2>1. q.wf = Start.wf
      BY DEF PInv, Anchored
    <2> QED BY <1>3, <2>1 DEF OuterRun, Envelope
  <1>9. record.says = says /\ record.sameId = same /\ record.rows = final
        /\ record.packet = q.packet
    BY <1>1, <1>4 DEF PInv, RanBroker
  <1>10. consumed = {} /\ verdict = "none"
    BY <1>1, NotYetJudged
  <1>11. Anchored' /\ Shaped' /\ Stored' /\ Snapshotted'
    BY <1>1, <1>6 DEF PInv, Anchored, Shaped, Stored, Snapshotted, Requested,
                      RequestedCommit
  <1>12. Reviewable(q.packet)
    BY <1>1 DEF PInv, PacketBuilt
  <1>13. PacketBuilt'
    BY <1>1, <1>12 DEF PacketBuilt, Reviewable, RequestedCommit
  <1>14. RanOffline'
    <2>1. "offline" \in truth'.ran /\ OnRequested(truth'.offline)
          /\ (dir[3].result.req.wf = Start.wf =>
                dir[3].result.ext.runs = truth'.offline)
      BY <1>1, <1>6 DEF PInv, RanOffline
    <2> QED BY <1>1, <2>1 DEF RanOffline, OnRequested, RequestedCommit
  <1>15. RanBroker'
    <2>1. work'.payload.packet = q'.packet
          /\ \A r \in ReviewRoles : work'.payload.runs[r].attempt = 1
      BY <1>1, <1>6 DEF PInv, RanBroker
    <2>2. work'.ext.final = truth'.broker.rows
      BY <1>6, <1>7, <1>9
    <2>3. Reviewed(work.ext)'
      BY <1>6, <1>7, <1>8, <1>9 DEF Reviewed
    <2>4. /\ "broker" \in truth'.ran
          /\ truth'.broker.sameId \in BOOLEAN
          /\ truth'.broker.says \in
                [ReviewRoles -> {"accept", "medium", "blocker", "misbound", "invalid"}]
      BY <1>6, <1>9
    <2>5. Reviewable(truth'.broker.packet)
      BY <1>6, <1>9, <1>12
    <2>6. q'.seq = 5
      BY <1>1
    <2> QED BY <2>1, <2>2, <2>3, <2>4, <2>5, <2>6
          DEF RanBroker, ChargedIsAccepted, Reviewable, RequestedCommit
  <1>16. Judged'
    <2>1. truth'.ran \subseteq {"offline", "broker"}
      BY <1>6 DEF PInv, Judged
    <2> QED BY <1>1, <1>10, <2>1 DEF Judged, AttestedIsOwn, PassIsEarned
  <1> QED BY <1>11, <1>13, <1>14, <1>15, <1>16 DEF PInv
(***************************************************************************)
(* Signing and judging.                                                    *)
(***************************************************************************)

\* Phase 6: only the key of the request signs.
LEMMA PrepareSignKeeps ==
    ASSUME PInv, NEW key, PrepareSign(key) PROVE PInv'
  <1>1. q.seq = 6 /\ pc = "prepare" /\ truth' = [truth EXCEPT !.key = key]
    BY DEF PrepareSign, At
  <1>2. /\ DOMAIN truth' = DOMAIN truth /\ truth'.ran = truth.ran
        /\ truth'.offline = truth.offline /\ truth'.broker = truth.broker
        /\ truth'.key = key
    BY <1>1 DEF PInv, Shaped
  <1>3. CASE Stop
    BY <1>1, <1>2, <1>3, StopKeeps
  <1>4. CASE /\ Signable(key)
             /\ work' = [payload |-> Sign(q, Bundle(q, dir), q.wf), ext |-> Absent]
             /\ pc' = "finalize"
             /\ UNCHANGED <<q, seen, evidence, consumed, verdict>>
    <2>1. UNCHANGED <<q, seen, dir, snaps, consumed, verdict>> /\ pc' = "finalize"
          /\ DOMAIN work' = {"payload", "ext"}
      BY <1>4 DEF evidence
    <2>2. key = Start.key
      BY <1>4 DEF Signable, PInv, Anchored
    <2>3. consumed = {} /\ verdict = "none"
      BY <1>1, NotYetJudged
    <2>4. Anchored' /\ Shaped' /\ Stored' /\ Snapshotted'
      BY <1>1, <1>2, <2>1 DEF PInv, Anchored, Shaped, Stored, Snapshotted, Requested,
                              RequestedCommit
    <2>5. PacketBuilt'
      BY <1>1, <2>1 DEF PInv, PacketBuilt, Reviewable, RequestedCommit
    <2>6. RanOffline'
      BY <1>1, <1>2, <2>1 DEF PInv, RanOffline, OnRequested, RequestedCommit
    <2>7. RanBroker'
      BY <1>1, <1>2, <2>1 DEF PInv, RanBroker, Reviewed, ChargedIsAccepted, Reviewable,
                              RequestedCommit
    <2>8. Judged'
      <3>1. truth.ran \subseteq {"offline", "broker"}
        BY DEF PInv, Judged
      <3> QED BY <1>1, <1>2, <2>1, <2>2, <2>3, <3>1
            DEF Judged, AttestedIsOwn, PassIsEarned
    <2> QED BY <2>4, <2>5, <2>6, <2>7, <2>8 DEF PInv
  <1> QED BY <1>3, <1>4 DEF PrepareSign

\* What reconstruct_attestation_inputs accepts are this workflow's own runs and
\* reviews: every result of the history names the workflow, and the external
\* files are those of the results.
LEMMA ReconstructedIsOwn ==
    ASSUME PInv, q.seq = 7, Reconstructible(q, dir, snaps, reds)
    PROVE  dir[3].ext.runs = truth.offline /\ Reviewed(dir[5].ext)
  <1>1. q.wf = Start.wf
    BY DEF PInv, Anchored
  <1>2. CommittedHistory(q, dir)
    BY DEF Reconstructible
  <1>3. 3 \in 1..(q.seq - 1) /\ 5 \in 1..(q.seq - 1)
    OBVIOUS
  <1>4. dir[3].result.req.wf = Start.wf /\ dir[5].result.req.wf = Start.wf
    BY <1>1, <1>2, <1>3 DEF CommittedHistory
  <1>5. dir[3].ext = dir[3].result.ext /\ dir[5].ext = dir[5].result.ext
    BY DEF Reconstructible, OfflineRunsBound, BrokerInputsBound, ExternalFileBound
  <1>6. dir[3].result.ext.runs = truth.offline
    BY <1>4 DEF PInv, RanOffline
  <1>7. Reviewed(dir[5].result.ext)
    BY <1>4 DEF PInv, RanBroker
  <1> QED BY <1>5, <1>6, <1>7

\* Verified attestations of a bundle that no ordinary verdict fails: all runs
\* ended as expected.
LEMMA PassedRuns ==
    ASSUME NEW b, Attestable(b), ~OrdinaryFails(b)
    PROVE  \A k \in DOMAIN b.runs : b.runs[k].ok
  <1>1. /\ DOMAIN b.runs = OfflineKeys(b.task)
        /\ b.gates = GateResults(b.task, b.policy, b.runs)
        /\ b.tdds = TddResults(b.task, b.policy, b.runs, b.reds)
    BY DEF Attestable, OfflineDerivable, RunsMatch
  <1>2. (\A g \in b.gates : g.passed) /\ (\A d \in b.tdds : d.red.ok /\ d.green.ok)
    BY DEF OrdinaryFails, GatesFail, TddFails
  <1>3. \A a \in Acceptances(b.task) : b.runs[<<"gate", a>>].ok
    <2> TAKE a \in Acceptances(b.task)
    <2>1. PICK g \in b.gates :
              g = [id |-> a, task |-> b.task, head |-> b.policy.head,
                   patch |-> b.policy.patch, passed |-> b.runs[<<"gate", a>>].ok,
                   log |-> b.runs[<<"gate", a>>].log]
      BY <1>1, Zenon DEF GateResults
    <2>2. g.passed = b.runs[<<"gate", a>>].ok
      BY <2>1
    <2> QED BY <1>2, <2>2
  <1>4. \A a \in TaskSpec[b.task].tests :
            b.runs[<<"red", a>>].ok /\ b.runs[<<"green", a>>].ok
    <2> TAKE a \in TaskSpec[b.task].tests
    <2>1. PICK d \in b.tdds :
              d = [id |-> a, task |-> b.task, base |-> b.policy.base,
                   head |-> b.policy.head, patch |-> b.policy.patch,
                   tpatch |-> RedFor(b.task, b.reds, a).tpatch,
                   tman |-> RedFor(b.task, b.reds, a).tman,
                   rsnap |-> RedFor(b.task, b.reds, a).snap,
                   gsnap |-> b.runs[<<"green", a>>].plan.exec,
                   red |-> [ok |-> b.runs[<<"red", a>>].ok,
                            log |-> b.runs[<<"red", a>>].log],
                   green |-> [ok |-> b.runs[<<"green", a>>].ok,
                              log |-> b.runs[<<"green", a>>].log]]
      BY <1>1, Zenon DEF TddResults
    <2>2. d.red.ok = b.runs[<<"red", a>>].ok /\ d.green.ok = b.runs[<<"green", a>>].ok
      BY <2>1
    <2> QED BY <1>2, <2>2
  <1>5. ASSUME NEW k \in OfflineKeys(b.task) PROVE b.runs[k].ok
    <2>1. CASE k \in {"gate"} \X Acceptances(b.task)
      <3>1. PICK a \in Acceptances(b.task) : k = <<"gate", a>>
        BY <2>1
      <3> QED BY <1>3, <3>1
    <2>2. CASE k \in {"red", "green"} \X TaskSpec[b.task].tests
      <3>1. PICK a \in TaskSpec[b.task].tests : k = <<"red", a>> \/ k = <<"green", a>>
        BY <2>2
      <3> QED BY <1>4, <3>1
    <2> QED BY <2>1, <2>2 DEF OfflineKeys
  <1> QED BY <1>1, <1>5

\* ... and both reviews accept, from two exchanges with ids of their own.
LEMMA PassedReviews ==
    ASSUME PInv, q.seq = 7, Reconstructible(q, dir, snaps, reds),
           Attestable(Bundle(q, dir)), Verdict(Bundle(q, dir), TRUE) = "pass"
    PROVE  truth.broker.says = BothAccept /\ ~truth.broker.sameId
  <1> DEFINE b == Bundle(q, dir)
  <1>1. Reviewed(dir[5].ext)
    BY ReconstructedIsOwn
  <1>2. b.outer = dir[5].ext
        /\ \A r \in ReviewRoles : b.reviews[r].says = dir[5].ext.runs[r].env.review
    BY DEF Bundle, ParsedReview
  <1>3. ~OrdinaryFails(b) /\ ~(\E r \in ReviewRoles : b.reviews[r].says = "medium")
    BY DEF Verdict
  <1>4. \A r \in ReviewRoles : b.reviews[r].says \notin {"blocker", "misbound"}
    BY <1>3 DEF OrdinaryFails, ReviewsFail
  <1>5. \A r \in ReviewRoles : dir[5].ext.runs[r].env.review # "invalid"
    BY DEF Reconstructible, BrokerInputsBound, ReviewParses
  <1>6. b.outer.runs["reviewer"].env.id # b.outer.runs["adversary"].env.id
    BY DEF Attestable, ExchangesDistinct
  <1> HIDE DEF b
  <1>7. truth.broker.says \in
            [ReviewRoles -> {"accept", "medium", "blocker", "misbound", "invalid"}]
        /\ truth.broker.sameId \in BOOLEAN
    BY DEF PInv, RanBroker
  <1>8. \A r \in ReviewRoles : truth.broker.says[r] = dir[5].ext.runs[r].env.review
    BY <1>1 DEF Reviewed
  <1>9. \A r \in ReviewRoles : truth.broker.says[r] = "accept"
    BY <1>2, <1>3, <1>4, <1>5, <1>7, <1>8
  <1>10. truth.broker.says = BothAccept
    BY <1>7, <1>9 DEF BothAccept
  <1>11. ~truth.broker.sameId
    <2> SUFFICES ASSUME truth.broker.sameId PROVE FALSE
      OBVIOUS
    <2>1. \A r \in ReviewRoles : dir[5].ext.runs[r].env.id = <<Start.wf, "reviewer">>
      BY <1>1 DEF Reviewed
    <2>2. "reviewer" \in ReviewRoles /\ "adversary" \in ReviewRoles
      BY DEF ReviewRoles
    <2> QED BY <1>2, <1>6, <2>1, <2>2
  <1> QED BY <1>10, <1>11
\* Phase 7: nonces are consumed for verified attestations only, together with
\* the verdict.
LEMMA PrepareJudgeKeeps ==
    ASSUME PInv, NEW fresh \in BOOLEAN, PrepareJudge(fresh) PROVE PInv'
  <1>1. q.seq = 7 /\ pc = "prepare" /\ truth' = [truth EXCEPT !.timely = fresh]
    BY DEF PrepareJudge, At
  <1>2. /\ DOMAIN truth' = DOMAIN truth /\ truth'.ran = truth.ran
        /\ truth'.offline = truth.offline /\ truth'.broker = truth.broker
        /\ truth'.key = truth.key /\ truth'.timely = fresh
    BY <1>1 DEF PInv, Shaped
  <1>3. CASE Stop
    BY <1>1, <1>2, <1>3, StopKeeps
  <1> DEFINE b == Bundle(q, dir)
             verified == AttestationsVerify(b, Prior(6), consumed, fresh)
             nonces == {Prior(6)[r].nonce : r \in DOMAIN Prior(6)}
  <1>4. CASE /\ Judgeable
             /\ verdict' = Verdict(b, verified)
             /\ consumed' = IF verified THEN consumed \cup nonces ELSE consumed
             /\ work' = [payload |-> verdict', ext |-> Absent]
             /\ pc' = "finalize"
             /\ UNCHANGED <<q, seen, evidence>>
    <2>1. UNCHANGED <<q, seen, dir, snaps>> /\ pc' = "finalize"
          /\ DOMAIN work' = {"payload", "ext"}
      BY <1>4 DEF evidence
    <2>2. Reconstructible(q, dir, snaps, reds) /\ DOMAIN Prior(6) # {}
      BY <1>4 DEF Judgeable, SignaturesReadable
    <2>3. consumed = {} /\ verdict = "none"
      BY <1>1, NotYetJudged
    <2>4. truth.key = Start.key /\ truth.ran \subseteq {"offline", "broker"}
          /\ "offline" \in truth.ran /\ "broker" \in truth.ran
          /\ OnRequested(truth.offline)
      BY <1>1 DEF PInv, Judged, RanOffline, RanBroker
    <2>5. dir[3].ext.runs = truth.offline /\ Reviewed(dir[5].ext)
      BY <1>1, <2>2, ReconstructedIsOwn
    <2>6. AttestedIsOwn'
      BY <1>2, <2>1, <2>4, <2>5
      DEF AttestedIsOwn, Reviewed, OnRequested, RequestedCommit
    <2>7. ASSUME verdict' = "pass"
          PROVE  /\ verified /\ consumed' # {}
                 /\ \A k \in DOMAIN truth.offline : truth.offline[k].ok
                 /\ truth.broker.says = BothAccept /\ ~truth.broker.sameId
      <3>1. verified
        BY <1>4, <2>7 DEF Verdict
      <3>2. nonces # {}
        BY <2>2
      <3>3. consumed' # {}
        <4> HIDE DEF nonces, verified
        <4> QED BY <1>4, <3>1, <3>2
      <3>4. Attestable(b) /\ Verdict(b, TRUE) = "pass" /\ ~OrdinaryFails(b)
        BY <1>4, <2>7, <3>1 DEF AttestationsVerify, Verdict
      <3>5. b.runs = truth.offline
        BY <2>5 DEF Bundle
      <3>6. \A k \in DOMAIN b.runs : b.runs[k].ok
        BY <3>4, PassedRuns
      <3>7. truth.broker.says = BothAccept /\ ~truth.broker.sameId
        BY <1>1, <2>2, <3>4, PassedReviews
      <3> HIDE DEF b, verified
      <3> QED BY <3>1, <3>3, <3>5, <3>6, <3>7
    <2>8. verdict' = "pass" => fresh
      BY <2>7 DEF AttestationsVerify
    <2> HIDE DEF b, verified, nonces
    <2>9. PassIsEarned'
      <3> SUFFICES ASSUME verdict' = "pass"
                   PROVE  truth'.ran = {"offline", "broker"} /\ OwnRunsGood' /\ consumed' # {}
        BY DEF PassIsEarned
      <3>1. truth'.timely /\ truth'.key = Start.key
        BY <1>2, <2>4, <2>8
      <3>2. OwnRunsGood'
        BY <1>2, <2>7, <3>1 DEF OwnRunsGood
      <3>3. truth'.ran = {"offline", "broker"}
        BY <1>2, <2>4
      <3> QED BY <2>7, <3>2, <3>3
    <2>10. Judged'
      BY <1>1, <1>2, <2>1, <2>4, <2>6, <2>9 DEF Judged
    <2>11. Anchored' /\ Shaped' /\ Stored' /\ Snapshotted'
      BY <1>1, <1>2, <2>1 DEF PInv, Anchored, Shaped, Stored, Snapshotted, Requested,
                              RequestedCommit
    <2>12. PacketBuilt'
      BY <1>1, <2>1 DEF PInv, PacketBuilt, Reviewable, RequestedCommit
    <2>13. RanOffline'
      BY <1>1, <1>2, <2>1 DEF PInv, RanOffline, OnRequested, RequestedCommit
    <2>14. RanBroker'
      BY <1>1, <1>2, <2>1 DEF PInv, RanBroker, Reviewed, ChargedIsAccepted, Reviewable,
                              RequestedCommit
    <2> QED BY <2>10, <2>11, <2>12, <2>13, <2>14 DEF PInv
  <1> QED BY <1>3, <1>4 DEF PrepareJudge

(***************************************************************************)
(* Finalizing.                                                             *)
(***************************************************************************)

\* What finalize accepts of a broker batch with first attempts charged nothing
\* but these: every row of the final ledger is the first attempt of a role.
LEMMA FinalChargesAccepted ==
    ASSUME NEW b, NEW outer, BrokerFinal(b, outer),
           \A r \in ReviewRoles : b.runs[r].attempt = 1
    PROVE  {<<w.role, w.attempt>> : w \in outer.final} = ReviewRoles \X {1}
  <1>1. \A w \in outer.final : w.role \in ReviewRoles
    BY DEF BrokerFinal, FrozenLedgerValid, LedgerValid
  <1>2. \A r \in ReviewRoles :
            {w.attempt : w \in RoleRows(outer.final, r)} = 1..b.runs[r].attempt
    BY DEF BrokerFinal, FinalLedgerAccounts
  <1>3. \A r \in ReviewRoles : {w.attempt : w \in RoleRows(outer.final, r)} = {1}
    <2>1. 1..1 = {1}
      OBVIOUS
    <2> QED BY <1>2, <2>1
  <1>4. \A w \in outer.final : w.attempt = 1
    BY <1>1, <1>3 DEF RoleRows
  <1>5. \A r \in ReviewRoles : \E w \in outer.final : w.role = r
    BY <1>3 DEF RoleRows
  <1>6. ASSUME NEW x \in {<<w.role, w.attempt>> : w \in outer.final}
        PROVE  x \in ReviewRoles \X {1}
    BY <1>1, <1>4
  <1>7. ASSUME NEW x \in ReviewRoles \X {1}
        PROVE  x \in {<<w.role, w.attempt>> : w \in outer.final}
    <2>1. PICK r \in ReviewRoles : x = <<r, 1>>
      OBVIOUS
    <2>2. PICK w \in outer.final : w.role = r
      BY <1>5
    <2>3. x = <<w.role, w.attempt>>
      BY <1>4, <2>1, <2>2
    <2> QED BY <2>3
  <1> QED BY <1>6, <1>7

\* A phase is committed and the next request becomes current.
LEMMA CommitKeeps ==
    ASSUME PInv, pc = "finalize", q.seq < 7, FinalizeAccepts, Commit(FinalArts),
           UNCHANGED verdict
    PROVE  PInv'
  <1>1. PICK result : result = PhaseResult(q, PhaseOutput(q, FinalArts), work.ext)
    OBVIOUS
  <1>2. result.req = q /\ result.out.arts = FinalArts /\ result.ext = work.ext
    BY <1>1 DEF PhaseResult, PhaseOutput
  <1>3. PICK files : files =
              [result |-> result, output |-> PhaseOutput(q, FinalArts),
               payload |-> work.payload, trans |-> PreparedTransition(q, work.payload),
               ext |-> work.ext, runtime |-> IF q.seq = 5 THEN RuntimeBinding ELSE Absent]
    OBVIOUS
  <1>4. files.result = result
    BY <1>3
  <1>5. /\ dir' = [dir EXCEPT ![q.seq] = files] /\ work' = NoWork
        /\ pc' = "prepare" /\ q' = NextRequest(result)
        /\ UNCHANGED <<seen, snaps, consumed, truth>>
    <2>1. q.seq # 7
      BY DEF PInv, Anchored
    <2> QED BY <1>1, <1>3, <2>1 DEF Commit
  <1>6. /\ DOMAIN q' = RequestNames /\ q'.wf = Start.wf /\ q'.task = Start.task
        /\ q'.patch = Start.patch /\ q'.key = Start.key /\ q'.seq = q.seq + 1
        /\ q'.snap = (IF q.seq = 1 THEN FinalArts.cand ELSE q.snap)
        /\ q'.packet = (IF q.seq = 4 THEN FinalArts ELSE q.packet)
    BY <1>2, <1>5, Successor DEF PInv
  <1>7. q.seq \in 1..6 /\ q'.seq \in 2..7
    BY <1>6 DEF PInv, Anchored
  <1>8. DOMAIN dir = 1..7 /\ DOMAIN dir' = 1..7 /\ dir'[q.seq].result = result
        /\ \A m \in 1..7 : m # q.seq => dir'[m] = dir[m]
    BY <1>4, <1>5, <1>7 DEF PInv, Shaped
  <1>9. consumed = {} /\ verdict = "none"
    BY <1>7, NotYetJudged
  <1>10. Anchored'
    BY <1>6, <1>7 DEF Anchored
  <1>11. Shaped' /\ Stored'
    BY <1>5, <1>8 DEF PInv, Shaped, Stored, NoWork
  <1>12. Snapshotted'
    <2>1. CASE q.seq = 1
      <3>1. FinalArts.cand = work.payload.cand
        BY <2>1 DEF FinalArts, SnapshotArts
      <3>2. Requested(q'.snap)
        BY <1>6, <2>1, <3>1 DEF PInv, Snapshotted
      <3> QED BY <1>5, <1>7, <3>2 DEF Snapshotted, Requested, RequestedCommit
    <2>2. CASE q.seq # 1
      <3>1. q.seq > 1 /\ q'.snap = q.snap
        BY <1>6, <1>7, <2>2
      <3>2. Requested(q'.snap)
        BY <3>1 DEF PInv, Snapshotted
      <3> QED BY <1>5, <1>7, <3>2 DEF Snapshotted, Requested, RequestedCommit
    <2> QED BY <2>1, <2>2
  <1>13. PacketBuilt'
    <2>1. ASSUME q'.seq > 4 PROVE Reviewable(q'.packet)
      <3>1. CASE q.seq = 4
        <4>1. FinalArts = work.payload
          BY <3>1 DEF FinalArts
        <4> QED BY <1>6, <3>1, <4>1 DEF PInv, PacketBuilt
      <3>2. CASE q.seq # 4
        <4>1. q.seq > 4 /\ q'.packet = q.packet
          BY <1>6, <1>7, <2>1, <3>2
        <4> QED BY <4>1 DEF PInv, PacketBuilt
      <3> QED BY <3>1, <3>2
    <2> QED BY <1>5, <2>1 DEF PacketBuilt, Reviewable, RequestedCommit
  <1>14. RanOffline'
    <2>1. ASSUME q'.seq > 3
          PROVE  /\ "offline" \in truth.ran /\ OnRequested(truth.offline)
                 /\ dir'[3].result.req.wf = Start.wf =>
                       dir'[3].result.ext.runs = truth.offline
      <3>1. CASE q.seq = 3
        BY <1>2, <1>8, <3>1 DEF PInv, RanOffline
      <3>2. CASE q.seq # 3
        <4>1. q.seq > 3
          BY <1>6, <1>7, <2>1, <3>2
        <4>2. dir'[3] = dir[3]
          BY <1>8, <3>2
        <4> QED BY <4>1, <4>2 DEF PInv, RanOffline
      <3> QED BY <3>1, <3>2
    <2> QED BY <1>5, <2>1 DEF RanOffline, OnRequested, RequestedCommit
  <1>15. RanBroker'
    <2>1. ASSUME q'.seq > 5
          PROVE  /\ "broker" \in truth.ran
                 /\ truth.broker.sameId \in BOOLEAN
                 /\ truth.broker.says \in
                      [ReviewRoles -> {"accept", "medium", "blocker", "misbound", "invalid"}]
                 /\ {<<w.role, w.attempt>> : w \in truth.broker.rows} = ReviewRoles \X {1}
                 /\ dir'[5].result.req.wf = Start.wf => Reviewed(dir'[5].result.ext)
      <3>1. CASE q.seq = 5
        <4>1. BrokerFinal(work.payload, work.ext)
          BY <3>1 DEF FinalizeAccepts, BrokerPhaseFinal
        <4>2. /\ \A r \in ReviewRoles : work.payload.runs[r].attempt = 1
              /\ work.ext.final = truth.broker.rows /\ Reviewed(work.ext)
              /\ "broker" \in truth.ran
              /\ truth.broker.sameId \in BOOLEAN
              /\ truth.broker.says \in
                   [ReviewRoles -> {"accept", "medium", "blocker", "misbound", "invalid"}]
          BY <3>1 DEF PInv, RanBroker
        <4>3. {<<w.role, w.attempt>> : w \in truth.broker.rows} = ReviewRoles \X {1}
          BY <4>1, <4>2, FinalChargesAccepted
        <4>4. dir'[5].result.ext = work.ext
          BY <1>2, <1>8, <3>1
        <4>5. Reviewed(dir'[5].result.ext)
          BY <4>2, <4>4
        <4> QED BY <4>2, <4>3, <4>5
      <3>2. CASE q.seq # 5
        <4>1. q.seq > 5
          BY <1>6, <1>7, <2>1, <3>2
        <4>2. dir'[5] = dir[5]
          BY <1>8, <3>2
        <4>3. /\ "broker" \in truth.ran
              /\ truth.broker.sameId \in BOOLEAN
              /\ truth.broker.says \in
                   [ReviewRoles -> {"accept", "medium", "blocker", "misbound", "invalid"}]
              /\ ChargedIsAccepted
              /\ dir[5].result.req.wf = Start.wf => Reviewed(dir[5].result.ext)
          BY <4>1 DEF PInv, RanBroker
        <4> QED BY <4>1, <4>2, <4>3 DEF ChargedIsAccepted
      <3> QED BY <3>1, <3>2
    <2>2. "broker" \in truth.ran => Reviewable(truth.broker.packet)
      BY DEF PInv, RanBroker
    <2>3. Reviewed(dir[5].result.ext)' <=> Reviewed(dir'[5].result.ext)
      BY <1>5 DEF Reviewed
    <2>4. pc' = "prepare" /\ truth' = truth
      BY <1>5
    <2> QED BY <2>1, <2>2, <2>3, <2>4
          DEF RanBroker, ChargedIsAccepted, Reviewable, RequestedCommit
  <1>16. Judged'
    <2>1. q'.seq = 7 => truth.key = Start.key
      <3>1. q'.seq = 7 => q.seq = 6
        BY <1>6, <1>7
      <3> QED BY <3>1 DEF PInv, Judged
    <2>2. truth.ran \subseteq {"offline", "broker"}
      BY DEF PInv, Judged
    <2> QED BY <1>5, <1>9, <2>1, <2>2 DEF Judged, AttestedIsOwn, PassIsEarned
  <1> QED BY <1>10, <1>11, <1>12, <1>13, <1>14, <1>15, <1>16 DEF PInv

\* The last phase is committed: its directory is frozen and the workflow ends.
LEMMA LastCommitKeeps ==
    ASSUME PInv, pc = "finalize", q.seq = 7, Commit(FinalArts), UNCHANGED verdict
    PROVE  PInv'
  <1>1. PICK files : dir' = [dir EXCEPT ![7] = files]
    BY DEF Commit
  <1>2. /\ work' = NoWork /\ pc' = "end" /\ q' = q
        /\ UNCHANGED <<seen, snaps, consumed, truth>>
    BY DEF Commit
  <1>3. DOMAIN dir' = 1..7 /\ dir'[3] = dir[3] /\ dir'[5] = dir[5]
    BY <1>1 DEF PInv, Shaped
  <1>4. Anchored' /\ Shaped' /\ Stored' /\ Snapshotted'
    BY <1>2, <1>3 DEF PInv, Anchored, Shaped, Stored, Snapshotted, Requested,
                      RequestedCommit, NoWork
  <1>5. PacketBuilt'
    BY <1>2 DEF PInv, PacketBuilt, Reviewable, RequestedCommit
  <1>6. RanOffline'
    BY <1>2, <1>3 DEF PInv, RanOffline, OnRequested, RequestedCommit
  <1>7. RanBroker'
    BY <1>2, <1>3 DEF PInv, RanBroker, Reviewed, ChargedIsAccepted, Reviewable,
                      RequestedCommit
  <1>8. Judged'
    BY <1>2, <1>3 DEF PInv, Judged, AttestedIsOwn, PassIsEarned, OwnRunsGood,
                      RequestedCommit
  <1> QED BY <1>4, <1>5, <1>6, <1>7, <1>8 DEF PInv

\* finalize_workflow_transition, with its refusal.
LEMMA FinalizeKeeps == ASSUME PInv, Finalize PROVE PInv'
  <1>1. pc = "finalize"
    BY DEF Finalize
  <1>2. CASE Stop /\ UNCHANGED truth
    BY <1>1, <1>2, PlainStopKeeps
  <1>3. CASE FinalizeAccepts /\ Commit(FinalArts) /\ UNCHANGED verdict
    <2>1. CASE q.seq < 7
      BY <1>1, <1>3, <2>1, CommitKeeps
    <2>2. CASE q.seq = 7
      BY <1>1, <1>3, <2>2, LastCommitKeeps
    <2>3. q.seq < 7 \/ q.seq = 7
      BY DEF PInv, Anchored
    <2> QED BY <2>1, <2>2, <2>3
  <1> QED BY <1>2, <1>3 DEF Finalize

\* Every step of the workflow and around it keeps the invariant.
LEMMA NextKeeps == PInv /\ [Next]_vars => PInv'
  <1> SUFFICES ASSUME PInv, [Next]_vars PROVE PInv'
    OBVIOUS
  <1>1. CASE Coordinator
    BY <1>1, InspectBeforeKeeps, CreatePairKeeps, InspectAfterKeeps, PrepareRedKeeps,
       PrepareOfflineKeeps, PreparePacketKeeps, PrepareBrokerKeeps, PrepareSignKeeps,
       PrepareJudgeKeeps, FinalizeKeeps
    DEF Coordinator
  <1>2. CASE OuterExecution
    <2>1. ASSUME NEW bad, NEW log, ExecuteOffline(bad, log) PROVE PInv'
      BY <2>1, ExecuteOfflineKeeps
    <2>2. ASSUME NEW says \in Outcomes, ExecuteBroker(says, FALSE, "none") PROVE PInv'
      BY <2>2, ExecuteBrokerKeeps, OutcomesAssumption
    <2>3. ASSUME NEW same \in BOOLEAN, NEW late, ExecuteBroker(BothAccept, same, late)
          PROVE  PInv'
      <3>1. BothAccept \in
              [ReviewRoles -> {"accept", "medium", "blocker", "misbound", "invalid"}]
        BY DEF BothAccept
      <3> QED BY <2>3, <3>1, ExecuteBrokerKeeps
    <2> QED BY <1>2, <2>1, <2>2, <2>3 DEF OuterExecution
  <1>3. CASE Disturbance
    <2>1. ASSUME NEW c, EditWorktree(c) PROVE PInv'
      BY <2>1, StableKeeps DEF EditWorktree, Stable, evidence
    <2> QED BY <1>3, <2>1, MisplaceKeeps, MisplaceStoreKeeps DEF Disturbance
  <1>4. CASE UNCHANGED vars
    BY <1>4, StableKeeps DEF vars, Stable
  <1> QED BY <1>1, <1>2, <1>3, <1>4 DEF Next

(***************************************************************************)
(* Theorems.                                                               *)
(***************************************************************************)

\* The invariant holds in every state of the workflow, whatever is misplaced.
THEOREM Inductive == Spec => []PInv
  BY InitHolds, NextKeeps, PTL DEF Spec

\* The candidate digest that anchors phases 2 to 7 is the tree of one commit with
\* the requested patch (_prepare_snapshot), for every repository and task.
THEOREM RequestedSnapshot == Spec => []SnapshotIsRequested
  <1>1. PInv => SnapshotIsRequested
    BY DEF PInv, Snapshotted, Requested, SnapshotIsRequested
  <1> QED BY <1>1, Inductive, PTL

\* The broker is only run on a packet whose diff is the requested patch and whose
\* gates and RED/GREEN runs ended as expected, with any number of files of other
\* workflows among the outputs that _prior_outputs reads.
THEOREM ReviewablePaid == Spec => []PaidForReviewable
  <1>1. PInv => PaidForReviewable
    BY DEF PInv, RanBroker, Reviewable, PaidForReviewable
  <1> QED BY <1>1, Inductive, PTL

\* Once the broker phase is committed, the two accepted runs are all that was
\* ever charged to the packet.
THEOREM AcceptedCharged == Spec => []ChargedIsAccepted
  <1>1. PInv => ChargedIsAccepted
    BY DEF PInv, RanBroker
  <1> QED BY <1>1, Inductive, PTL

\* Nonces are consumed only for runs and reviews that this workflow executed, on
\* the requested candidate (reconstruct_attestation_inputs).
THEOREM OwnAttested == Spec => []AttestedIsOwn
  <1>1. PInv => AttestedIsOwn
    BY DEF PInv, Judged
  <1> QED BY <1>1, Inductive, PTL

\* "pass" is only given when every run of this workflow ended as expected, both
\* of its own reviews accepted, and its nonces are consumed (judge_attested).
THEOREM Earned == Spec => []PassIsEarned
  <1>1. PInv => PassIsEarned
    BY DEF PInv, Judged
  <1> QED BY <1>1, Inductive, PTL

(***************************************************************************)
(* Nothing in an undisturbed workflow is refused.                          *)
(*                                                                         *)
(* For a workable task the rest of this module follows a workflow in which *)
(* nothing goes wrong, phase by phase: what each operation makes is        *)
(* written down as an expression of the task and of the offline runs, and  *)
(* each measurement a later operation repeats is shown to accept it.       *)
(***************************************************************************)

\* The task, its tests, the two snapshots, the report and the RED snapshots
T == Start.task
Tests == TaskSpec[T].tests
Base == Snapshot(TaskSpec[T].base)
Cand == Snapshot(Start.patch.head)
Policy == PolicyReport(T, Start.patch.head)
Reds == MeasuredReds(T, Base, Cand)
RedStore == {Entry(Reds[a].snap) : a \in Tests}
Sources == {Entry(Base), Entry(Cand)}

\* A function that takes different values on a finite set takes as many as the set has elements.
LEMMA InjectiveImage ==
    ASSUME NEW S, IsFiniteSet(S), NEW f, DOMAIN f = S, f = [x \in S |-> f[x]],
           \A x, y \in S : f[x] = f[y] => x = y
    PROVE  /\ IsFiniteSet({f[x] : x \in S})
           /\ Cardinality({f[x] : x \in S}) = Cardinality(S)
  <1> DEFINE R == {f[x] : x \in S}
  <1>1. f \in Surjection(S, R) /\ f \in Injection(S, R)
    <2>1. f \in [S -> R]
      OBVIOUS
    <2> QED BY <2>1 DEF Surjection, Injection, IsInjective
  <1> QED BY <1>1, FS_Surjection

\* What a workable task says of its two snapshots
LEMMA PairFacts ==
    ASSUME Workable
    PROVE  /\ T \in Tasks
           /\ Base.commit = TaskSpec[T].base /\ Cand.commit = Start.patch.head
           /\ Base.tree = Tree[TaskSpec[T].base] /\ Cand.tree = Tree[Start.patch.head]
           /\ Base.commit # Cand.commit /\ Base # Cand
           /\ Policy.task = T /\ Policy.base = TaskSpec[T].base
           /\ Policy.head = Start.patch.head /\ Policy.patch = Start.patch
           /\ Policy.passed
           /\ Start.patch.files = Changes(TaskSpec[T].base, Start.patch.head)
           /\ Start.patch.files # {}
  <1>1. T \in Tasks
    BY StartAssumption DEF T
  <1>2. PICK a \in TaskSpec[T].tests : TaskSpec[T].paths[a] \in (SUBSET Files) \ {{}}
    BY <1>1, TaskAssumption
  <1>3. PICK f \in TaskSpec[T].paths[a] : f \in Files
    BY <1>2
  <1>4. Start.patch = Patch(TaskSpec[T].base, Start.patch.head)
        /\ Start.patch.head \in TaskSpec[T].allowed
    BY DEF Workable, T
  <1>5. TestDeltaValid(Base, Cand, TaskSpec[T].paths[a])
    BY <1>2 DEF Workable, Base, Cand, T
  <1>6. Base.commit = TaskSpec[T].base /\ Cand.commit = Start.patch.head
        /\ Base.tree = Tree[TaskSpec[T].base] /\ Cand.tree = Tree[Start.patch.head]
    BY DEF Base, Cand, Snapshot
  <1>7. Tree[TaskSpec[T].base][f] # Tree[Start.patch.head][f]
    BY <1>3, <1>5, <1>6 DEF TestDeltaValid
  <1>8. <<f, Tree[TaskSpec[T].base][f], Tree[Start.patch.head][f]>>
           \in Changes(TaskSpec[T].base, Start.patch.head)
    BY <1>3, <1>7 DEF Changes
  <1>9. Start.patch.files = Changes(TaskSpec[T].base, Start.patch.head)
    <2>1. Patch(TaskSpec[T].base, Start.patch.head).files
             = Changes(TaskSpec[T].base, Start.patch.head)
      BY DEF Patch
    <2> QED BY <1>4, <2>1
  <1>10. Changes(TaskSpec[T].base, Start.patch.head) # {}
    BY <1>8
  <1>11. /\ Policy.task = T /\ Policy.base = TaskSpec[T].base
         /\ Policy.head = Start.patch.head /\ Policy.patch = Start.patch
         /\ Policy.passed
    BY <1>4, <1>10 DEF Policy, PolicyReport
  <1>12. Base.commit # Cand.commit
    BY <1>6, <1>7
  <1> QED BY <1>1, <1>6, <1>9, <1>10, <1>11, <1>12

\* ... and of its RED snapshots
LEMMA RedFacts ==
    ASSUME Workable
    PROVE  /\ IsFiniteSet(Tests) /\ Tests # {}
           /\ DOMAIN Reds = Tests
           /\ \A a \in Tests :
                /\ TaskSpec[T].paths[a] \in (SUBSET Files) \ {{}}
                /\ TestDeltaValid(Base, Cand, TaskSpec[T].paths[a])
                /\ Reds[a] = RedEvidence(Base, Cand, TaskSpec[T].paths[a])
                /\ Reds[a].src = Base /\ Reds[a].csnap = Cand
                /\ Reds[a].paths = TaskSpec[T].paths[a]
                /\ Reds[a].snap = RedSnapshot(Base, Cand, TaskSpec[T].paths[a])
                /\ Reds[a].snap.commit = Base.commit
                /\ Reds[a].tpatch = TestPatch(Base, Cand, TaskSpec[T].paths[a])
                /\ Reds[a].tman = TestManifest(Cand, TaskSpec[T].paths[a])
                /\ RedMeasures(Reds[a].snap, Base, Cand, TaskSpec[T].paths[a])
                /\ Reds[a].snap # Base /\ Reds[a].snap # Cand
           /\ \A a, c \in Tests : Reds[a].paths = Reds[c].paths => a = c
  <1>1. T \in Tasks
    BY StartAssumption DEF T
  <1>2. Tests # {} /\ IsFiniteSet(Tests)
    <2>1. Tests \subseteq Acceptances(T)
      BY DEF Tests, Acceptances
    <2> QED BY <1>1, <2>1, FS_Subset, TaskAssumption DEF Workable, T, Tests
  <1>3. DOMAIN Reds = Tests
    BY DEF Reds, MeasuredReds, Tests
  <1>4. ASSUME NEW a \in Tests
        PROVE  /\ TaskSpec[T].paths[a] \in (SUBSET Files) \ {{}}
               /\ TestDeltaValid(Base, Cand, TaskSpec[T].paths[a])
               /\ Reds[a] = RedEvidence(Base, Cand, TaskSpec[T].paths[a])
               /\ Reds[a].src = Base /\ Reds[a].csnap = Cand
               /\ Reds[a].paths = TaskSpec[T].paths[a]
               /\ Reds[a].snap = RedSnapshot(Base, Cand, TaskSpec[T].paths[a])
               /\ Reds[a].snap.commit = Base.commit
               /\ Reds[a].tpatch = TestPatch(Base, Cand, TaskSpec[T].paths[a])
               /\ Reds[a].tman = TestManifest(Cand, TaskSpec[T].paths[a])
               /\ RedMeasures(Reds[a].snap, Base, Cand, TaskSpec[T].paths[a])
               /\ Reds[a].snap # Base /\ Reds[a].snap # Cand
    <2> DEFINE ps == TaskSpec[T].paths[a]
    <2>1. ps \in (SUBSET Files) \ {{}}
      BY <1>1, TaskAssumption DEF Tests
    <2>2. TestDeltaValid(Base, Cand, ps)
      BY DEF Workable, Base, Cand, T, Tests
    <2>3. Reds[a] = RedEvidence(Base, Cand, ps)
      BY DEF Reds, MeasuredReds, Tests
    <2> HIDE DEF ps
    <2>4. /\ Reds[a].src = Base /\ Reds[a].csnap = Cand /\ Reds[a].paths = ps
          /\ Reds[a].snap = RedSnapshot(Base, Cand, ps)
          /\ Reds[a].tpatch = TestPatch(Base, Cand, ps)
          /\ Reds[a].tman = TestManifest(Cand, ps)
      BY <2>3 DEF RedEvidence
    <2>5. /\ Reds[a].snap.commit = Base.commit
          /\ Reds[a].snap.tree
                = [g \in Files |-> IF g \in ps THEN Cand.tree[g] ELSE Base.tree[g]]
      BY <2>4 DEF RedSnapshot
    <2>6. RedMeasures(Reds[a].snap, Base, Cand, ps)
      BY <2>2, <2>4, <2>5 DEF RedMeasures, ExactRedTree
    <2>7. PICK f \in ps : f \in Files
      BY <2>1
    <2>8. Reds[a].snap.tree[f] = Cand.tree[f] /\ Base.tree[f] # Cand.tree[f]
      BY <2>2, <2>5, <2>7 DEF TestDeltaValid
    <2>9. Reds[a].snap # Base
      BY <2>8
    <2>10. Reds[a].snap # Cand
      BY <2>5, PairFacts
    <2> QED BY <2>1, <2>2, <2>3, <2>4, <2>5, <2>6, <2>9, <2>10 DEF ps
  <1>5. \A a, c \in Tests : Reds[a].paths = Reds[c].paths => a = c
    <2>1. \A a, c \in Tests : TaskSpec[T].paths[a] = TaskSpec[T].paths[c] => a = c
      BY DEF Workable, T, Tests
    <2>2. \A a \in Tests : Reds[a].paths = TaskSpec[T].paths[a]
      BY <1>4
    <2> QED BY <2>1, <2>2
  <1> QED BY <1>2, <1>3, <1>4, <1>5

\* Both stores hold what they are expected to hold, once each.
LEMMA EntryVerified ==
    ASSUME NEW S, NEW s \in S
    PROVE  Verified({Entry(x) : x \in S}, s)
  <1>1. Entry(s) \in {Entry(x) : x \in S}
    OBVIOUS
  <1>2. Entry(s).name = s /\ Entry(s).content = s
    BY DEF Entry
  <1> QED BY <1>1, <1>2 DEF Verified

\* A store with one unchanged entry for each expected snapshot passes
\* _verified_snapshot_store.
LEMMA StoreOf ==
    ASSUME NEW S, IsFiniteSet(S), S # {}
    PROVE  VerifiedStore({Entry(x) : x \in S}, S)
  <1> DEFINE st == {Entry(x) : x \in S}
             f == [x \in S |-> Entry(x)]
  <1>1. Names(st) = S
    <2>1. \A x : Entry(x).name = x
      BY DEF Entry
    <2>2. \A n : n \in Names(st) <=> \E x \in S : n = Entry(x).name
      BY DEF Names
    <2>3. \A n : n \in Names(st) <=> n \in S
      <3> TAKE n
      <3> HIDE DEF st
      <3>1. n \in Names(st) <=> \E x \in S : n = Entry(x).name
        BY <2>2
      <3> QED BY <2>1, <3>1
    <2> HIDE DEF st
    <2> QED BY <2>3
  <1>2. \A s \in S : Verified(st, s)
    BY EntryVerified
  <1>3. Cardinality(st) = Cardinality(S)
    <2>1. \A x, y \in S : f[x] = f[y] => x = y
      BY DEF Entry
    <2>2. st = {f[x] : x \in S}
      OBVIOUS
    <2>3. DOMAIN f = S /\ f = [x \in S |-> f[x]]
      OBVIOUS
    <2> HIDE DEF f, st
    <2> QED BY <2>1, <2>2, <2>3, InjectiveImage
  <1> QED BY <1>1, <1>2, <1>3 DEF VerifiedStore

\* So do the two stores that phases 1 and 2 fill.
LEMMA Stores ==
    ASSUME Workable
    PROVE  /\ VerifiedStore(Sources, {Base, Cand})
           /\ VerifiedStore(RedStore, {Reds[a].snap : a \in Tests})
           /\ Verified(Sources, Base) /\ Verified(Sources, Cand)
           /\ \A a \in Tests : Verified(RedStore, Reds[a].snap)
           /\ Names(Sources) = {Base, Cand}
           /\ Names(RedStore) = {Reds[a].snap : a \in Tests}
  <1> DEFINE S == {Base, Cand}
             R == {Reds[a].snap : a \in Tests}
  <1>1. IsFiniteSet(S) /\ S # {}
    <2>1. IsFiniteSet({Base}) /\ {Base, Cand} = {Base} \cup {Cand}
      BY FS_Singleton
    <2> QED BY <2>1, FS_AddElement
  <1>2. R # {} /\ IsFiniteSet(R)
    <2>1. IsFiniteSet(Tests) /\ Tests # {}
      BY RedFacts
    <2> DEFINE f == [a \in Tests |-> Reds[a].snap]
    <2>2. f \in Surjection(Tests, R)
      BY DEF Surjection
    <2> QED BY <2>1, <2>2, FS_Surjection
  <1>3. Sources = {Entry(x) : x \in S}
    BY DEF Sources
  <1>4. RedStore = {Entry(x) : x \in R}
    BY DEF RedStore
  <1> HIDE DEF S, R
  <1>5. VerifiedStore(Sources, S) /\ VerifiedStore(RedStore, R)
    BY <1>1, <1>2, <1>3, <1>4, StoreOf
  <1> QED BY <1>5 DEF VerifiedStore, S, R

\* A request of this workflow, and evidence of its runs as they were planned
OfWorkflow(r) ==
    r.wf = Start.wf /\ r.task = T /\ r.patch = Start.patch /\ r.key = Start.key

\* The plan of a run, and runs that followed it
Plan(k) == PlannedRun(Start, Cand, Reds, k)

RanAsPlanned(runs) ==
    /\ DOMAIN runs = OfflineKeys(T)
    /\ \A k \in OfflineKeys(T) :
         /\ runs[k].plan = Plan(k) /\ runs[k].commit = Plan(k).exec.commit
         /\ runs[k].task = T /\ runs[k].patch = Start.patch

\* The gate and RED/GREEN results, the diff and the packet made of such runs
Gates(runs) == GateResults(T, Policy, runs)
Tdds(runs) == TddResults(T, Policy, runs, Reds)
Material == ReviewMaterial(T, Policy, Base, Cand)
Packet(runs) == ReviewPacket(T, Policy, Gates(runs), Tdds(runs), Material)

\* The runs of the offline batch: a gate for each acceptance, RED and GREEN for
\* each test.
LEMMA KeyForms ==
    /\ \A k \in OfflineKeys(T) :
         /\ k = <<k[1], k[2]>>
         /\ \/ k[1] = "gate" /\ k[2] \in Acceptances(T)
            \/ k[1] \in {"red", "green"} /\ k[2] \in Tests
    /\ \A a \in Acceptances(T) : <<"gate", a>> \in OfflineKeys(T)
    /\ \A a \in Tests : <<"red", a>> \in OfflineKeys(T) /\ <<"green", a>> \in OfflineKeys(T)
    /\ Tests \subseteq Acceptances(T)
  BY DEF OfflineKeys, Tests, Acceptances

\* What prepare_offline_batch plans for a run: RED on its RED snapshot, the rest
\* on the candidate.
LEMMA PlanFacts ==
    ASSUME Workable, NEW k \in OfflineKeys(T)
    PROVE  /\ Plan(k).session = <<"offline", Start.wf, k>>
           /\ Plan(k).csnap = Cand
           /\ Plan(k).exec = IF k[1] = "red" THEN Reds[k[2]].snap ELSE Cand
           /\ Plan(k).src = IF k[1] = "red" THEN Base ELSE Cand
           /\ k[1] # "gate" => Plan(k).tpatch = Reds[k[2]].tpatch
                               /\ Plan(k).tman = Reds[k[2]].tman
           /\ Plan(k).exec.commit = IF k[1] = "red" THEN TaskSpec[T].base ELSE Policy.head
  <1>1. /\ Plan(k).session = <<"offline", Start.wf, k>>
        /\ Plan(k).csnap = Cand
        /\ Plan(k).exec = IF k[1] = "red" THEN Reds[k[2]].snap ELSE Cand
        /\ Plan(k).src = IF k[1] = "red" THEN Reds[k[2]].src ELSE Cand
        /\ k[1] # "gate" => Plan(k).tpatch = Reds[k[2]].tpatch
                            /\ Plan(k).tman = Reds[k[2]].tman
    BY DEF Plan, PlannedRun, SessionId
  <1>2. k[1] = "red" => k[2] \in Tests
    BY KeyForms
  <1>3. k[1] = "red" => Reds[k[2]].src = Base /\ Reds[k[2]].snap.commit = Base.commit
    BY <1>2, RedFacts
  <1> QED BY <1>1, <1>3, PairFacts

\* The offline batch of a request of this workflow carries the request, holds
\* exactly these plans and parses (parse_prepared_offline_batch).
LEMMA BatchFacts ==
    ASSUME Workable, NEW r, OfWorkflow(r)
    PROVE  LET b == OfflineBatch(r, Cand, Reds)
           IN  /\ b.req = RequestSha(r) /\ b.wf = r.wf /\ b.task = T
               /\ b.patch = Start.patch /\ b.csnap = Cand
               /\ DOMAIN b.runs = OfflineKeys(T)
               /\ \A k \in OfflineKeys(T) : b.runs[k] = Plan(k)
               /\ OfflineBatchWellFormed(b)
  <1> DEFINE b == OfflineBatch(r, Cand, Reds)
  <1>1. /\ b.req = RequestSha(r) /\ b.wf = r.wf /\ b.task = T
        /\ b.patch = Start.patch /\ b.csnap = Cand
        /\ b.runs = [k \in OfflineKeys(T) |-> PlannedRun(r, Cand, Reds, k)]
    BY DEF OfflineBatch, OfWorkflow
  <1>2. \A k \in OfflineKeys(T) : PlannedRun(r, Cand, Reds, k) = Plan(k)
    BY DEF Plan, PlannedRun, SessionId, OfWorkflow
  <1> HIDE DEF b
  <1>3. DOMAIN b.runs = OfflineKeys(T) /\ \A k \in OfflineKeys(T) : b.runs[k] = Plan(k)
    BY <1>1, <1>2
  <1>4. OfflineBatchWellFormed(b)
    <2> DEFINE ids(p) == {k[2] : k \in {j \in DOMAIN b.runs : j[1] = p}}
    <2>1. ids("gate") = Acceptances(T)
      <3>1. \A a \in Acceptances(T) : <<"gate", a>> \in DOMAIN b.runs
        BY <1>3, KeyForms
      <3>2. \A k \in DOMAIN b.runs : k[1] = "gate" => k[2] \in Acceptances(T)
        BY <1>3, KeyForms
      <3>3. \A a \in Acceptances(T) : a \in ids("gate")
        <4> TAKE a \in Acceptances(T)
        <4> DEFINE k == <<"gate", a>>
        <4>1. k \in DOMAIN b.runs /\ k[1] = "gate" /\ k[2] = a
          BY <3>1
        <4> QED BY <4>1
      <3> QED BY <3>2, <3>3
    <2>2. ASSUME NEW p \in {"red", "green"} PROVE ids(p) = Tests
      <3>1. \A a \in Tests : <<p, a>> \in DOMAIN b.runs
        BY <1>3, <2>2, KeyForms
      <3>2. \A k \in DOMAIN b.runs : k[1] = p => k[2] \in Tests
        BY <1>3, <2>2, KeyForms
      <3>3. \A a \in Tests : a \in ids(p)
        <4> TAKE a \in Tests
        <4> DEFINE k == <<p, a>>
        <4>1. k \in DOMAIN b.runs /\ k[1] = p /\ k[2] = a
          BY <3>1
        <4> QED BY <4>1
      <3> QED BY <3>2, <3>3
    <2>3. Tests # {} /\ Tests \subseteq Acceptances(T)
      BY RedFacts, KeyForms
    <2>4. \A k \in DOMAIN b.runs : b.runs[k].csnap = b.csnap
      BY <1>1, <1>3, PlanFacts
    <2>5. ids("gate") # {} /\ ids("red") # {} /\ ids("red") = ids("green")
          /\ ids("red") \subseteq ids("gate")
      <3> HIDE DEF ids
      <3> QED BY <2>1, <2>2, <2>3
    <2> QED BY <2>4, <2>5 DEF OfflineBatchWellFormed
  <1> QED BY <1>1, <1>3, <1>4 DEF b

\* Runs that went as planned are accepted by finalize_offline_batch, however they
\* ended.
LEMMA OfflineFinalHolds ==
    ASSUME Workable, NEW r, OfWorkflow(r), NEW runs, RanAsPlanned(runs)
    PROVE  LET b == OfflineBatch(r, Cand, Reds)
           IN  OfflineFinal(b, OuterOffline(b, runs), Sources, RedStore)
  <1> DEFINE b == OfflineBatch(r, Cand, Reds)
             o == OuterOffline(b, runs)
  <1>1. o.batch = b /\ o.runs = runs
    BY DEF OuterOffline
  <1>2. /\ DOMAIN b.runs = OfflineKeys(T)
        /\ \A k \in OfflineKeys(T) : b.runs[k] = Plan(k)
        /\ OfflineBatchWellFormed(b)
        /\ b.task = T /\ b.patch = Start.patch
    BY BatchFacts
  <1> HIDE DEF b, o
  <1>3. ASSUME NEW k \in OfflineKeys(T)
        PROVE  /\ runs[k].plan = b.runs[k]
               /\ Verified(IF k[1] = "red" THEN RedStore ELSE Sources, b.runs[k].exec)
               /\ RunMeasures(runs[k], b.runs[k].exec)
               /\ runs[k].task = b.task /\ runs[k].patch = b.patch
    <2>1. /\ runs[k].plan = Plan(k) /\ runs[k].commit = Plan(k).exec.commit
          /\ runs[k].task = T /\ runs[k].patch = Start.patch
          /\ b.runs[k] = Plan(k)
      BY <1>2 DEF RanAsPlanned
    <2>2. RunMeasures(runs[k], Plan(k).exec)
      BY <2>1 DEF RunMeasures
    <2>3. Verified(IF k[1] = "red" THEN RedStore ELSE Sources, Plan(k).exec)
      <3>1. CASE k[1] = "red"
        <4>1. k[2] \in Tests /\ Plan(k).exec = Reds[k[2]].snap
          BY <3>1, KeyForms, PlanFacts
        <4> QED BY <3>1, <4>1, Stores
      <3>2. CASE k[1] # "red"
        <4>1. Plan(k).exec = Cand
          BY <3>2, PlanFacts
        <4> QED BY <3>2, <4>1, Stores
      <3> QED BY <3>1, <3>2
    <2> QED BY <1>2, <2>1, <2>2, <2>3
  <1>4. DOMAIN runs = OfflineKeys(T)
    BY DEF RanAsPlanned
  <1>5. OfflineFinal(b, o, Sources, RedStore)
    BY <1>1, <1>2, <1>3, <1>4 DEF OfflineFinal
  <1> QED BY <1>5 DEF b, o

\* The RED snapshot found by the paths of a test is the one made for it: no two
\* tests have the same paths.
LEMMA RedForIs ==
    ASSUME Workable, NEW a \in Tests PROVE RedFor(T, Reds, a) = Reds[a]
  <1>1. a \in DOMAIN Reds /\ Reds[a].paths = TaskSpec[T].paths[a]
    BY RedFacts
  <1>2. \A i \in DOMAIN Reds : Reds[i].paths = TaskSpec[T].paths[a] => i = a
    BY <1>1, RedFacts
  <1>3. (CHOOSE i \in DOMAIN Reds : Reds[i].paths = TaskSpec[T].paths[a]) = a
    BY <1>1, <1>2
  <1> QED BY <1>3 DEF RedFor

\* Everything derive_offline_artifacts measures again of runs that went as
\* planned agrees with what it is given.
LEMMA Derivable ==
    ASSUME Workable, NEW runs, RanAsPlanned(runs)
    PROVE  OfflineDerivable(T, Policy, runs, Base, Cand, Reds)
  <1>1. SourcesMatch(T, Policy, Base, Cand)
    BY PairFacts DEF SourcesMatch
  <1>2. RedsCover(T, Reds, Base, Cand)
    <2>1. DOMAIN Reds = Tests /\ \A a \in Tests : Reds[a].paths = TaskSpec[T].paths[a]
      BY RedFacts
    <2>2. {Reds[i].paths : i \in DOMAIN Reds} = {TaskSpec[T].paths[a] : a \in TaskSpec[T].tests}
      BY <2>1 DEF Tests
    <2>3. \A i, j \in DOMAIN Reds : i # j => Reds[i].paths # Reds[j].paths
      BY <2>1, RedFacts
    <2>4. \A i \in DOMAIN Reds :
            /\ Reds[i].src = Base /\ Reds[i].csnap = Cand
            /\ RedMeasures(Reds[i].snap, Base, Cand, Reds[i].paths)
            /\ Reds[i].tpatch = TestPatch(Base, Cand, Reds[i].paths)
            /\ Reds[i].tman = TestManifest(Cand, Reds[i].paths)
      BY <2>1, RedFacts
    <2> QED BY <2>2, <2>3, <2>4 DEF RedsCover
  <1>3. RunsMatch(T, Policy, runs, Base, Cand, Reds)
    <2>1. DOMAIN runs = OfflineKeys(T)
      BY DEF RanAsPlanned
    <2>2. ASSUME NEW k \in DOMAIN runs
          PROVE  /\ RunMeasures(runs[k], IF k[1] = "red" THEN RedFor(T, Reds, k[2]).snap ELSE Cand)
                 /\ runs[k].task = T /\ runs[k].patch = Policy.patch
                 /\ runs[k].plan.csnap = Cand
                 /\ runs[k].plan.src = IF k[1] = "red" THEN Base ELSE Cand
                 /\ runs[k].commit = IF k[1] = "red" THEN TaskSpec[T].base ELSE Policy.head
                 /\ k[1] # "gate" => /\ runs[k].plan.tpatch = RedFor(T, Reds, k[2]).tpatch
                                     /\ runs[k].plan.tman = RedFor(T, Reds, k[2]).tman
      <3>1. /\ runs[k].plan = Plan(k) /\ runs[k].commit = Plan(k).exec.commit
            /\ runs[k].task = T /\ runs[k].patch = Start.patch
        BY <2>1 DEF RanAsPlanned
      <3>2. k[1] # "gate" => RedFor(T, Reds, k[2]) = Reds[k[2]]
        BY <2>1, KeyForms, RedForIs
      <3>3. RunMeasures(runs[k], Plan(k).exec)
        BY <3>1 DEF RunMeasures
      <3> QED BY <2>1, <3>1, <3>2, <3>3, PlanFacts, PairFacts
    <2> QED BY <2>1, <2>2 DEF RunsMatch
  <1> QED BY <1>1, <1>2, <1>3 DEF OfflineDerivable

\* The diff rendered from the two snapshots is the policy report's
\* (_validate_trusted_diff_binding).
LEMMA MaterialHolds ==
    ASSUME Workable
    PROVE  /\ MaterialBound(T, Policy, Material)
           /\ Material.cand = Cand
  <1>1. /\ Material.task = T /\ Material.patch = Policy.patch /\ Material.base = Base
        /\ Material.cand = Cand /\ Material.diff = RenderedDiff(Base, Cand)
    BY DEF Material, ReviewMaterial
  <1>2. RenderedDiff(Base, Cand) = Start.patch.files
    BY PairFacts DEF RenderedDiff, Changes
  <1>3. DiffMatchesPolicy(Policy, Material.diff)
    <2>1. Policy.patch.files = Material.diff /\ Material.diff # {}
      BY <1>1, <1>2, PairFacts
    <2> QED BY <2>1 DEF DiffMatchesPolicy
  <1> QED BY <1>1, <1>3, PairFacts DEF MaterialBound

\* The gates, and what the judge and the packet ask of them
LEMMA GatesHold ==
    ASSUME Workable, NEW runs
    PROVE  /\ {g.id : g \in Gates(runs)} = Acceptances(T)
           /\ \A g \in Gates(runs) :
                /\ g.id \in Acceptances(T)
                /\ g.task = T /\ g.head = Policy.head /\ g.patch = Policy.patch
                /\ g.passed = runs[<<"gate", g.id>>].ok
                /\ g.log = runs[<<"gate", g.id>>].log
           /\ \A a \in Acceptances(T) : \E g \in Gates(runs) : g.id = a
           /\ Cardinality(Gates(runs)) = Cardinality(Acceptances(T))
  <1> DEFINE f == [a \in Acceptances(T) |->
                     [id |-> a, task |-> T, head |-> Policy.head, patch |-> Policy.patch,
                      passed |-> runs[<<"gate", a>>].ok, log |-> runs[<<"gate", a>>].log]]
  <1>1. Gates(runs) = {f[a] : a \in Acceptances(T)}
    BY DEF Gates, GateResults
  <1>2. \A a \in Acceptances(T) :
          /\ f[a].id = a
          /\ f[a].task = T /\ f[a].head = Policy.head /\ f[a].patch = Policy.patch
          /\ f[a].passed = runs[<<"gate", a>>].ok /\ f[a].log = runs[<<"gate", a>>].log
    OBVIOUS
  <1>3. DOMAIN f = Acceptances(T) /\ f = [a \in Acceptances(T) |-> f[a]]
    OBVIOUS
  <1> HIDE DEF f
  <1>4. Cardinality(Gates(runs)) = Cardinality(Acceptances(T))
    <2>1. IsFiniteSet(Acceptances(T))
      BY DEF Workable, T
    <2>2. \A a, c \in Acceptances(T) : f[a] = f[c] => a = c
      BY <1>2
    <2> QED BY <1>1, <1>3, <2>1, <2>2, InjectiveImage
  <1>5. {g.id : g \in Gates(runs)} = Acceptances(T)
    <2>1. \A a \in Acceptances(T) : f[a] \in Gates(runs) /\ f[a].id = a
      BY <1>1, <1>2
    <2>2. \A g \in Gates(runs) : g.id \in Acceptances(T)
      BY <1>1, <1>2
    <2> QED BY <2>1, <2>2
  <1>6. \A g \in Gates(runs) :
          /\ g.id \in Acceptances(T)
          /\ g.task = T /\ g.head = Policy.head /\ g.patch = Policy.patch
          /\ g.passed = runs[<<"gate", g.id>>].ok
          /\ g.log = runs[<<"gate", g.id>>].log
    <2> TAKE g \in Gates(runs)
    <2>1. PICK a \in Acceptances(T) : g = f[a]
      BY <1>1
    <2>2. g.id = a
      BY <1>2, <2>1
    <2> QED BY <1>2, <2>1, <2>2
  <1>7. \A a \in Acceptances(T) : \E g \in Gates(runs) : g.id = a
    BY <1>1, <1>2
  <1> QED BY <1>4, <1>5, <1>6, <1>7

\* ... and the RED/GREEN results
LEMMA TddsHold ==
    ASSUME Workable, NEW runs, RanAsPlanned(runs)
    PROVE  /\ {d.id : d \in Tdds(runs)} = Tests
           /\ \A d \in Tdds(runs) :
                /\ d.id \in Tests
                /\ d.task = T /\ d.base = TaskSpec[T].base
                /\ d.head = Policy.head /\ d.patch = Policy.patch
                /\ d.tpatch = Reds[d.id].tpatch /\ d.tman = Reds[d.id].tman
                /\ d.rsnap = Reds[d.id].snap /\ d.gsnap = Cand
                /\ d.red.ok = runs[<<"red", d.id>>].ok
                /\ d.green.ok = runs[<<"green", d.id>>].ok
                /\ d.red.log = runs[<<"red", d.id>>].log
                /\ d.green.log = runs[<<"green", d.id>>].log
           /\ \A a \in Tests : \E d \in Tdds(runs) : d.id = a
  <1> DEFINE f == [a \in Tests |->
                     [id |-> a, task |-> T, base |-> Policy.base, head |-> Policy.head,
                      patch |-> Policy.patch, tpatch |-> RedFor(T, Reds, a).tpatch,
                      tman |-> RedFor(T, Reds, a).tman, rsnap |-> RedFor(T, Reds, a).snap,
                      gsnap |-> runs[<<"green", a>>].plan.exec,
                      red |-> [ok |-> runs[<<"red", a>>].ok, log |-> runs[<<"red", a>>].log],
                      green |-> [ok |-> runs[<<"green", a>>].ok,
                                 log |-> runs[<<"green", a>>].log]]]
  <1>1. Tdds(runs) = {f[a] : a \in Tests}
    BY DEF Tdds, TddResults, Tests
  <1>2. \A a \in Tests :
          /\ f[a].id = a /\ f[a].task = T /\ f[a].base = Policy.base
          /\ f[a].head = Policy.head /\ f[a].patch = Policy.patch
          /\ f[a].tpatch = RedFor(T, Reds, a).tpatch /\ f[a].tman = RedFor(T, Reds, a).tman
          /\ f[a].rsnap = RedFor(T, Reds, a).snap
          /\ f[a].gsnap = runs[<<"green", a>>].plan.exec
          /\ f[a].red.ok = runs[<<"red", a>>].ok /\ f[a].green.ok = runs[<<"green", a>>].ok
          /\ f[a].red.log = runs[<<"red", a>>].log
          /\ f[a].green.log = runs[<<"green", a>>].log
    OBVIOUS
  <1> HIDE DEF f
  <1>3. \A a \in Tests : RedFor(T, Reds, a) = Reds[a]
    BY RedForIs
  <1>4. \A a \in Tests : runs[<<"green", a>>].plan.exec = Cand
    <2> TAKE a \in Tests
    <2>1. <<"green", a>> \in OfflineKeys(T) /\ <<"green", a>>[1] # "red"
      BY KeyForms
    <2>2. Plan(<<"green", a>>).exec = Cand
      BY <2>1, PlanFacts
    <2> QED BY <2>1, <2>2 DEF RanAsPlanned
  <1>5. Policy.base = TaskSpec[T].base
    BY PairFacts
  <1>6. \A a \in Tests :
          /\ f[a].id = a /\ f[a].task = T /\ f[a].base = TaskSpec[T].base
          /\ f[a].head = Policy.head /\ f[a].patch = Policy.patch
          /\ f[a].tpatch = Reds[a].tpatch /\ f[a].tman = Reds[a].tman
          /\ f[a].rsnap = Reds[a].snap /\ f[a].gsnap = Cand
          /\ f[a].red.ok = runs[<<"red", a>>].ok /\ f[a].green.ok = runs[<<"green", a>>].ok
          /\ f[a].red.log = runs[<<"red", a>>].log
          /\ f[a].green.log = runs[<<"green", a>>].log
    <2> TAKE a \in Tests
    <2>1. RedFor(T, Reds, a) = Reds[a] /\ runs[<<"green", a>>].plan.exec = Cand
      BY <1>3, <1>4
    <2>2. /\ f[a].id = a /\ f[a].task = T /\ f[a].base = TaskSpec[T].base
          /\ f[a].head = Policy.head /\ f[a].patch = Policy.patch
          /\ f[a].tpatch = Reds[a].tpatch /\ f[a].tman = Reds[a].tman
          /\ f[a].rsnap = Reds[a].snap /\ f[a].gsnap = Cand
          /\ f[a].red.log = runs[<<"red", a>>].log
          /\ f[a].green.log = runs[<<"green", a>>].log
      BY <1>2, <1>5, <2>1
    <2>3. f[a].red.ok = runs[<<"red", a>>].ok /\ f[a].green.ok = runs[<<"green", a>>].ok
      BY <1>2, Zenon
    <2> QED BY <2>2, <2>3
  <1>7. \A d \in Tdds(runs) :
                /\ d.id \in Tests
                /\ d.task = T /\ d.base = TaskSpec[T].base
                /\ d.head = Policy.head /\ d.patch = Policy.patch
                /\ d.tpatch = Reds[d.id].tpatch /\ d.tman = Reds[d.id].tman
                /\ d.rsnap = Reds[d.id].snap /\ d.gsnap = Cand
                /\ d.red.ok = runs[<<"red", d.id>>].ok
                /\ d.green.ok = runs[<<"green", d.id>>].ok
                /\ d.red.log = runs[<<"red", d.id>>].log
                /\ d.green.log = runs[<<"green", d.id>>].log
    <2> TAKE d \in Tdds(runs)
    <2>1. PICK a \in Tests : d = f[a]
      BY <1>1
    <2>2. d.id = a
      BY <1>6, <2>1
    <2> QED BY <1>6, <2>1, <2>2
  <1>8. \A a \in Tests : \E d \in Tdds(runs) : d.id = a
    BY <1>1, <1>6
  <1> QED BY <1>7, <1>8

\* Every run ended as its acceptance expects
AllGood(runs) == \A k \in OfflineKeys(T) : runs[k].ok

\* build_review_packet_phase_output accepts runs that went as planned and ended
\* as expected.
LEMMA PacketBuilds ==
    ASSUME Workable, NEW r, OfWorkflow(r), r.snap = Cand,
           NEW runs, RanAsPlanned(runs), AllGood(runs)
    PROVE  PacketBuildable(r, Policy, runs, Base, Cand, Reds)
  <1>1. PacketInputsValid(r, Policy, Base, Cand, Reds)
    <2>1. DOMAIN Reds = TaskSpec[T].tests
      BY RedFacts DEF Tests
    <2> QED BY <2>1, PairFacts DEF PacketInputsValid, OfWorkflow
  <1>2. GatesReviewable(T, Policy, Gates(runs))
    <2>1. \A a \in Acceptances(T) : runs[<<"gate", a>>].ok
      BY KeyForms DEF AllGood
    <2>2. \A g \in Gates(runs) : g.passed
      <3> TAKE g \in Gates(runs)
      <3>1. g.id \in Acceptances(T) /\ g.passed = runs[<<"gate", g.id>>].ok
        BY GatesHold
      <3> QED BY <2>1, <3>1, Zenon
    <2> QED BY <2>2, GatesHold DEF GatesReviewable
  <1>3. TddReviewable(T, Policy, Tdds(runs))
    <2>1. \A a \in Tests : runs[<<"red", a>>].ok /\ runs[<<"green", a>>].ok
      BY KeyForms DEF AllGood
    <2>2. ASSUME NEW d \in Tdds(runs), NEW m \in d.tman
          PROVE  \E c \in Policy.patch.files : c[1] = m[1] /\ c[3] = m[2]
      <3>1. d.id \in Tests /\ d.tman = TestManifest(Cand, TaskSpec[T].paths[d.id])
        <4>1. d.id \in Tests /\ d.tman = Reds[d.id].tman
          BY TddsHold
        <4> QED BY <4>1, RedFacts
      <3>2. PICK f \in TaskSpec[T].paths[d.id] : m = <<f, Cand.tree[f]>>
        BY <2>2, <3>1 DEF TestManifest
      <3>3. f \in Files /\ Base.tree[f] # Cand.tree[f]
        BY <3>1, <3>2, RedFacts DEF TestDeltaValid
      <3>4. <<f, Base.tree[f], Cand.tree[f]>> \in Changes(TaskSpec[T].base, Start.patch.head)
        BY <3>3, PairFacts DEF Changes
      <3>5. Policy.patch.files = Changes(TaskSpec[T].base, Start.patch.head)
        BY PairFacts
      <3> QED BY <3>2, <3>4, <3>5
    <2>3. {d.id : d \in Tdds(runs)} = TaskSpec[T].tests
      BY TddsHold DEF Tests
    <2>4. \A d \in Tdds(runs) :
            /\ d.task = T /\ d.base = TaskSpec[T].base
            /\ d.head = Policy.head /\ d.patch = Policy.patch
            /\ d.red.ok /\ d.green.ok
      <3> TAKE d \in Tdds(runs)
      <3>1. /\ d.id \in Tests
            /\ d.red.ok = runs[<<"red", d.id>>].ok
            /\ d.green.ok = runs[<<"green", d.id>>].ok
        BY TddsHold
      <3>2. d.red.ok /\ d.green.ok
        BY <2>1, <3>1, Zenon
      <3> QED BY <3>2, TddsHold
    <2> QED BY <2>2, <2>3, <2>4 DEF TddReviewable
  <1>4. r.task = T
    BY DEF OfWorkflow
  <1> QED BY <1>1, <1>2, <1>3, <1>4, Derivable, MaterialHolds
        DEF PacketBuildable, Gates, Tdds, Material

(***************************************************************************)
(* Sums over at most two reservations.                                     *)
(***************************************************************************)

\* The recursive function that a sum over a set is made of
Summing(v, S, g) ==
    [s \in SUBSET S |->
        IF s = {} THEN 0
        ELSE v[CHOOSE x \in s : TRUE] + g[s \ {CHOOSE x \in s : TRUE}]]

\* The recursive function behind a sum over a set (MapThenFoldSet), at a set of
\* one element ...
LEMMA SummingOne ==
    ASSUME NEW a, NEW v, v[a] \in Nat
    PROVE  /\ \E h : h = Summing(v, {a}, h)
           /\ \A g : g = Summing(v, {a}, g) => g[{a}] = v[a]
  <1> DEFINE x(s) == CHOOSE y \in s : TRUE
  <1>1. \A s \in SUBSET {a} : s = {} \/ s = {a}
    OBVIOUS
  <1>2. x({a}) = a /\ {a} \ {a} = {}
    OBVIOUS
  <1> DEFINE h == [s \in SUBSET {a} |-> IF s = {} THEN 0 ELSE v[a]]
  <1>3. ASSUME NEW s \in SUBSET {a}
        PROVE  h[s] = IF s = {} THEN 0 ELSE v[x(s)] + h[s \ {x(s)}]
    <2>1. h[{}] = 0
      OBVIOUS
    <2>2. CASE s = {a}
      <3>1. h[s] = v[a] /\ x(s) = a /\ s \ {x(s)} = {}
        BY <2>2, <1>2
      <3> HIDE DEF x, h
      <3> QED BY <2>1, <2>2, <3>1
    <2> QED BY <1>1, <2>2
  <1>4. h = Summing(v, {a}, h)
    BY <1>3 DEF Summing
  <1>5. ASSUME NEW g, g = Summing(v, {a}, g) PROVE g[{a}] = v[a]
    <2>1. g[{}] = 0
      BY <1>5 DEF Summing
    <2>2. g[{a}] = v[x({a})] + g[{a} \ {x({a})}]
      BY <1>5 DEF Summing
    <2> HIDE DEF x
    <2> QED BY <1>2, <2>1, <2>2
  <1> QED BY <1>4, <1>5

\* ... and of two.  A sum over at most two elements needs no induction.
LEMMA SummingTwo ==
    ASSUME NEW a, NEW b, a # b, NEW v, v[a] \in Nat, v[b] \in Nat
    PROVE  \E h : h = Summing(v, {a, b}, h)
  <1> DEFINE x(s) == CHOOSE y \in s : TRUE
  <1>0. v[a] + 0 = v[a] /\ v[b] + 0 = v[b] /\ v[b] + v[a] = v[a] + v[b]
    OBVIOUS
  <1>1. \A s \in SUBSET {a, b} : s = {} \/ s = {a} \/ s = {b} \/ s = {a, b}
    OBVIOUS
  <1>2. /\ x({a}) = a /\ {a} \ {a} = {}
        /\ x({b}) = b /\ {b} \ {b} = {}
        /\ x({a, b}) \in {a, b} /\ {a, b} \ {a} = {b} /\ {a, b} \ {b} = {a}
    OBVIOUS
  <1> DEFINE h == [s \in SUBSET {a, b} |->
                     IF s = {} THEN 0 ELSE IF s = {a} THEN v[a]
                     ELSE IF s = {b} THEN v[b] ELSE v[a] + v[b]]
  <1>3. h[{}] = 0 /\ h[{a}] = v[a] /\ h[{b}] = v[b] /\ h[{a, b}] = v[a] + v[b]
    <2>1. {a} # {b} /\ {a} # {a, b} /\ {b} # {a, b} /\ {a} # {} /\ {b} # {} /\ {a, b} # {}
      OBVIOUS
    <2>2. {} \in SUBSET {a, b} /\ {a} \in SUBSET {a, b} /\ {b} \in SUBSET {a, b}
          /\ {a, b} \in SUBSET {a, b}
      OBVIOUS
    <2> QED BY <2>1, <2>2
  <1>4. ASSUME NEW s \in SUBSET {a, b}
        PROVE  h[s] = IF s = {} THEN 0 ELSE v[x(s)] + h[s \ {x(s)}]
    <2> HIDE DEF x, h
    <2>1. CASE s = {}
      BY <1>3, <2>1
    <2>2. CASE s = {a}
      <3>1. s # {} /\ x(s) = a /\ s \ {x(s)} = {}
        BY <1>2, <2>2
      <3> QED BY <1>0, <1>3, <2>2, <3>1
    <2>3. CASE s = {b}
      <3>1. s # {} /\ x(s) = b /\ s \ {x(s)} = {}
        BY <1>2, <2>3
      <3> QED BY <1>0, <1>3, <2>3, <3>1
    <2>4. CASE s = {a, b}
      <3>1. CASE x(s) = a
        <4>1. s # {} /\ s \ {x(s)} = {b}
          BY <1>2, <2>4, <3>1
        <4> QED BY <1>3, <2>4, <3>1, <4>1
      <3>2. CASE x(s) = b
        <4>1. s # {} /\ s \ {x(s)} = {a}
          BY <1>2, <2>4, <3>2
        <4> QED BY <1>0, <1>3, <2>4, <3>2, <4>1
      <3> QED BY <1>2, <2>4, <3>1, <3>2
    <2> QED BY <1>1, <2>1, <2>2, <2>3, <2>4
  <1>5. h = Summing(v, {a, b}, h)
    BY <1>4 DEF Summing
  <1> QED BY <1>5

\* Its value at a pair does not depend on which element is taken first.
LEMMA PairValue ==
    ASSUME NEW a, NEW b, a # b, NEW v, v[a] \in Nat, v[b] \in Nat,
           NEW g, g = Summing(v, {a, b}, g)
    PROVE  g[{a, b}] = v[a] + v[b]
  <1> DEFINE x(s) == CHOOSE y \in s : TRUE
  <1>0. v[a] + 0 = v[a] /\ v[b] + 0 = v[b] /\ v[b] + v[a] = v[a] + v[b]
    OBVIOUS
  <1>2. /\ x({a}) = a /\ {a} \ {a} = {}
        /\ x({b}) = b /\ {b} \ {b} = {}
        /\ x({a, b}) \in {a, b} /\ {a, b} \ {a} = {b} /\ {a, b} \ {b} = {a}
    OBVIOUS
  <1>6. g[{a, b}] = v[a] + v[b]
    <2>1. \A s \in SUBSET {a, b} : g[s] = IF s = {} THEN 0 ELSE v[x(s)] + g[s \ {x(s)}]
      BY DEF Summing
    <2>2. {} \in SUBSET {a, b} /\ {a} \in SUBSET {a, b} /\ {b} \in SUBSET {a, b}
          /\ {a, b} \in SUBSET {a, b} /\ {a} # {} /\ {b} # {} /\ {a, b} # {}
      OBVIOUS
    <2> HIDE DEF x
    <2>3. g[{}] = 0
      BY <2>1, <2>2
    <2>4. g[{a}] = v[a]
      BY <1>0, <1>2, <2>1, <2>2, <2>3
    <2>5. g[{b}] = v[b]
      BY <1>0, <1>2, <2>1, <2>2, <2>3
    <2>6. g[{a, b}] = v[x({a, b})] + g[{a, b} \ {x({a, b})}]
      BY <2>1, <2>2
    <2>7. CASE x({a, b}) = a
      <3>1. {a, b} \ {x({a, b})} = {b}
        BY <1>2, <2>7
      <3> QED BY <2>5, <2>6, <2>7, <3>1
    <2>8. CASE x({a, b}) = b
      <3>1. {a, b} \ {x({a, b})} = {a}
        BY <1>2, <2>8
      <3> QED BY <1>0, <2>4, <2>6, <2>8, <3>1
    <2> QED BY <1>2, <2>7, <2>8
  <1> QED BY <1>6

Total(v, S) == (CHOOSE g : g = Summing(v, S, g))[S]

\* The sum over one element ...
LEMMA TotalOne ==
    ASSUME NEW a, NEW v, v[a] \in Nat PROVE Total(v, {a}) = v[a]
  <1> DEFINE it == CHOOSE g : g = Summing(v, {a}, g)
  <1>1. \E h : h = Summing(v, {a}, h)
    BY SummingOne
  <1>2. it = Summing(v, {a}, it)
    BY <1>1, Zenon
  <1>3. Total(v, {a}) = it[{a}]
    BY DEF Total
  <1> HIDE DEF it
  <1> QED BY <1>2, <1>3, SummingOne

\* ... and over two.
LEMMA TotalTwo ==
    ASSUME NEW a, NEW b, a # b, NEW v, v[a] \in Nat, v[b] \in Nat
    PROVE  Total(v, {a, b}) = v[a] + v[b]
  <1> DEFINE it == CHOOSE g : g = Summing(v, {a, b}, g)
  <1>1. \E h : h = Summing(v, {a, b}, h)
    BY SummingTwo
  <1>2. it = Summing(v, {a, b}, it)
    BY <1>1, Zenon
  <1>3. Total(v, {a, b}) = it[{a, b}]
    BY DEF Total
  <1> HIDE DEF it
  <1>4. \A g : g = Summing(v, {a, b}, g) => g[{a, b}] = v[a] + v[b]
    BY PairValue
  <1> QED BY <1>2, <1>3, <1>4

\* The token sum of a set of reservations is such a sum ...
LEMMA TokenTotal ==
    ASSUME NEW S, NEW v, \A y \in S : v[y] = y.tokens
    PROVE  TokenSum(S) = Total(v, S)
  <1> DEFINE body(g) == [s \in SUBSET S |->
                IF s = {} THEN 0
                ELSE (CHOOSE x \in s : TRUE).tokens + g[s \ {CHOOSE x \in s : TRUE}]]
  <1>1. TokenSum(S) = (CHOOSE g : g = body(g))[S]
    BY Zenon DEF TokenSum, MapThenSumSet, MapThenFoldSet
  <1>2. ASSUME NEW g PROVE Summing(v, S, g) = body(g)
    <2>1. \A s \in SUBSET S :
            s # {} => v[CHOOSE x \in s : TRUE] = (CHOOSE x \in s : TRUE).tokens
      OBVIOUS
    <2> QED BY <2>1 DEF Summing
  <1> HIDE DEF body
  <1>3. (CHOOSE g : g = body(g)) = (CHOOSE g : g = Summing(v, S, g))
    BY <1>2
  <1> QED BY <1>1, <1>3 DEF Total

\* ... and so is the cost sum.
LEMMA CostTotal ==
    ASSUME NEW S, NEW v, \A y \in S : v[y] = y.cost
    PROVE  CostSum(S) = Total(v, S)
  <1> DEFINE body(g) == [s \in SUBSET S |->
                IF s = {} THEN 0
                ELSE (CHOOSE x \in s : TRUE).cost + g[s \ {CHOOSE x \in s : TRUE}]]
  <1>1. CostSum(S) = (CHOOSE g : g = body(g))[S]
    BY Zenon DEF CostSum, MapThenSumSet, MapThenFoldSet
  <1>2. ASSUME NEW g PROVE Summing(v, S, g) = body(g)
    <2>1. \A s \in SUBSET S :
            s # {} => v[CHOOSE x \in s : TRUE] = (CHOOSE x \in s : TRUE).cost
      OBVIOUS
    <2> QED BY <2>1 DEF Summing
  <1> HIDE DEF body
  <1>3. (CHOOSE g : g = body(g)) = (CHOOSE g : g = Summing(v, S, g))
    BY <1>2
  <1> QED BY <1>1, <1>3 DEF Total

\* The sums of _validate_batch, as operators of their own
TokensOf(runs, S) == MapThenSumSet(LAMBDA r : runs[r].tokens, S)
CostOf(runs, S) == MapThenSumSet(LAMBDA r : runs[r].cost, S)

\* The same for the tokens of the prepared runs ...
LEMMA RunTokensTotal ==
    ASSUME NEW runs, NEW S, NEW v, \A y \in S : v[y] = runs[y].tokens
    PROVE  TokensOf(runs, S) = Total(v, S)
  <1> DEFINE body(g) == [s \in SUBSET S |->
                IF s = {} THEN 0
                ELSE runs[CHOOSE x \in s : TRUE].tokens + g[s \ {CHOOSE x \in s : TRUE}]]
  <1>1. TokensOf(runs, S) = (CHOOSE g : g = body(g))[S]
    BY Zenon DEF TokensOf, MapThenSumSet, MapThenFoldSet
  <1>2. ASSUME NEW g PROVE Summing(v, S, g) = body(g)
    <2>1. \A s \in SUBSET S :
            s # {} => v[CHOOSE x \in s : TRUE] = runs[CHOOSE x \in s : TRUE].tokens
      OBVIOUS
    <2> QED BY <2>1 DEF Summing
  <1> HIDE DEF body
  <1>3. (CHOOSE g : g = body(g)) = (CHOOSE g : g = Summing(v, S, g))
    BY <1>2
  <1> QED BY <1>1, <1>3 DEF Total

\* ... and for their cost.
LEMMA RunCostTotal ==
    ASSUME NEW runs, NEW S, NEW v, \A y \in S : v[y] = runs[y].cost
    PROVE  CostOf(runs, S) = Total(v, S)
  <1> DEFINE body(g) == [s \in SUBSET S |->
                IF s = {} THEN 0
                ELSE runs[CHOOSE x \in s : TRUE].cost + g[s \ {CHOOSE x \in s : TRUE}]]
  <1>1. CostOf(runs, S) = (CHOOSE g : g = body(g))[S]
    BY Zenon DEF CostOf, MapThenSumSet, MapThenFoldSet
  <1>2. ASSUME NEW g PROVE Summing(v, S, g) = body(g)
    <2>1. \A s \in SUBSET S :
            s # {} => v[CHOOSE x \in s : TRUE] = runs[CHOOSE x \in s : TRUE].cost
      OBVIOUS
    <2> QED BY <2>1 DEF Summing
  <1> HIDE DEF body
  <1>3. (CHOOSE g : g = body(g)) = (CHOOSE g : g = Summing(v, S, g))
    BY <1>2
  <1> QED BY <1>1, <1>3 DEF Total

\* Token sums of one and of two reservations.
LEMMA TokenSums ==
    /\ \A a : a.tokens \in Nat => TokenSum({a}) = a.tokens
    /\ \A a, b : a # b /\ a.tokens \in Nat /\ b.tokens \in Nat =>
          TokenSum({a, b}) = a.tokens + b.tokens
  <1>1. ASSUME NEW a, a.tokens \in Nat PROVE TokenSum({a}) = a.tokens
    <2> DEFINE m == [y \in {a} |-> y.tokens]
    <2>1. m[a] = a.tokens /\ \A y \in {a} : m[y] = y.tokens
      OBVIOUS
    <2> HIDE DEF m
    <2>2. TokenSum({a}) = Total(m, {a})
      BY <2>1, TokenTotal
    <2>3. Total(m, {a}) = m[a]
      BY <1>1, <2>1, TotalOne
    <2> QED BY <2>1, <2>2, <2>3
  <1>2. ASSUME NEW a, NEW b, a # b, a.tokens \in Nat, b.tokens \in Nat
        PROVE  TokenSum({a, b}) = a.tokens + b.tokens
    <2> DEFINE m == [y \in {a, b} |-> y.tokens]
    <2>1. m[a] = a.tokens /\ m[b] = b.tokens /\ \A y \in {a, b} : m[y] = y.tokens
      OBVIOUS
    <2> HIDE DEF m
    <2>2. TokenSum({a, b}) = Total(m, {a, b})
      BY <2>1, TokenTotal
    <2>3. Total(m, {a, b}) = m[a] + m[b]
      BY <1>2, <2>1, TotalTwo
    <2> QED BY <2>1, <2>2, <2>3
  <1> QED BY <1>1, <1>2

\* Cost sums of one and of two reservations.
LEMMA CostSums ==
    /\ \A a : a.cost \in Nat => CostSum({a}) = a.cost
    /\ \A a, b : a # b /\ a.cost \in Nat /\ b.cost \in Nat =>
          CostSum({a, b}) = a.cost + b.cost
  <1>1. ASSUME NEW a, a.cost \in Nat PROVE CostSum({a}) = a.cost
    <2> DEFINE m == [y \in {a} |-> y.cost]
    <2>1. m[a] = a.cost /\ \A y \in {a} : m[y] = y.cost
      OBVIOUS
    <2> HIDE DEF m
    <2>2. CostSum({a}) = Total(m, {a})
      BY <2>1, CostTotal
    <2>3. Total(m, {a}) = m[a]
      BY <1>1, <2>1, TotalOne
    <2> QED BY <2>1, <2>2, <2>3
  <1>2. ASSUME NEW a, NEW b, a # b, a.cost \in Nat, b.cost \in Nat
        PROVE  CostSum({a, b}) = a.cost + b.cost
    <2> DEFINE m == [y \in {a, b} |-> y.cost]
    <2>1. m[a] = a.cost /\ m[b] = b.cost /\ \A y \in {a, b} : m[y] = y.cost
      OBVIOUS
    <2> HIDE DEF m
    <2>2. CostSum({a, b}) = Total(m, {a, b})
      BY <2>1, CostTotal
    <2>3. Total(m, {a, b}) = m[a] + m[b]
      BY <1>2, <2>1, TotalTwo
    <2> QED BY <2>1, <2>2, <2>3
  <1> QED BY <1>1, <1>2

\* A sum over the two review roles.
LEMMA RoleTotal ==
    ASSUME NEW m, m["reviewer"] \in Nat, m["adversary"] \in Nat
    PROVE  Total(m, ReviewRoles) = m["reviewer"] + m["adversary"]
  <1>1. PICK x, y : x = "reviewer" /\ y = "adversary"
    OBVIOUS
  <1>2. x # y
    BY <1>1
  <1>3. ReviewRoles = {x, y}
    BY <1>1 DEF ReviewRoles
  <1>4. m[x] \in Nat /\ m[y] \in Nat
    BY <1>1
  <1>5. Total(m, {x, y}) = m[x] + m[y]
    BY <1>2, <1>4, TotalTwo
  <1> QED BY <1>1, <1>3, <1>5

\* A batch with both roles on one packet passes _validate_batch if the two
\* reservations fit the limits of the packet.
LEMMA BrokerBatchFits ==
    ASSUME Workable, NEW b, DOMAIN b.runs = ReviewRoles,
           \A r \in ReviewRoles : /\ b.runs[r].role = r /\ b.runs[r].packet = b.packet
                                  /\ b.runs[r].tokens = RoleTokens[r]
                                  /\ b.runs[r].cost = RoleCost[r]
    PROVE  BrokerBatchWellFormed(b)
  <1>1. /\ RoleTokens["reviewer"] \in Nat /\ RoleTokens["adversary"] \in Nat
        /\ RoleCost["reviewer"] \in Nat /\ RoleCost["adversary"] \in Nat
    BY CapAssumption DEF ReviewRoles
  <1>2. PICK m, c : m = RoleTokens /\ c = RoleCost
    OBVIOUS
  <1>3. /\ m["reviewer"] \in Nat /\ m["adversary"] \in Nat
        /\ c["reviewer"] \in Nat /\ c["adversary"] \in Nat
    BY <1>1, <1>2
  <1>4. /\ Total(m, ReviewRoles) = m["reviewer"] + m["adversary"]
        /\ Total(c, ReviewRoles) = c["reviewer"] + c["adversary"]
    BY <1>3, RoleTotal
  <1>5. TokensOf(b.runs, ReviewRoles) = Total(m, ReviewRoles)
    <2>1. \A r \in ReviewRoles : m[r] = b.runs[r].tokens
      BY <1>2
    <2> QED BY <2>1, RunTokensTotal
  <1>6. CostOf(b.runs, ReviewRoles) = Total(c, ReviewRoles)
    <2>1. \A r \in ReviewRoles : c[r] = b.runs[r].cost
      BY <1>2
    <2> QED BY <2>1, RunCostTotal
  <1>7. /\ TokensOf(b.runs, DOMAIN b.runs) =< TokenCap
        /\ CostOf(b.runs, DOMAIN b.runs) =< CostCap
    BY <1>2, <1>4, <1>5, <1>6 DEF Workable
  <1>8. \A r \in DOMAIN b.runs : b.runs[r].role = r /\ b.runs[r].packet = b.packet
    OBVIOUS
  <1> QED BY <1>7, <1>8, Zenon DEF BrokerBatchWellFormed, TokensOf, CostOf

(***************************************************************************)
(* The broker phase.                                                       *)
(***************************************************************************)

\* The batch of _prepare_broker for the candidate and this packet
BatchOf(r, p) == BrokerBatch(r, p, Cand, RuntimeBinding, Start.wf)

\* What execute_prepared_broker_batch_frozen returns
EvidenceOf(b, says, sameId, late) ==
    LET rows == Rows(b, late)
        raw(r) == OuterRun(b.runs[r], <<Start.wf, r>>, rows[r],
                           IF r = "reviewer" THEN 1 ELSE 2,
                           Envelope(b.runs[r], <<Start.wf, IF sameId THEN "reviewer" ELSE r>>,
                                    says[r]))
    IN  OuterBroker(b, rows.final, [r \in ReviewRoles |-> raw(r)])

\* ... when both models accept and no other executor reserves
CleanEvidence(b) == EvidenceOf(b, BothAccept, FALSE, "none")

FirstRow(b) == Reservation(b.runs["reviewer"], 1)
SecondRow(b) == Reservation(b.runs["adversary"], 2)

\* What _prepare_broker makes of a request of this workflow.
LEMMA BatchOfFacts ==
    ASSUME Workable, NEW r, OfWorkflow(r), NEW p, r.packet = p, r.snap = Cand,
           NEW b, b = BatchOf(r, p)
    PROVE  /\ b.req = RequestSha(r) /\ b.wf = r.wf /\ b.task = T
           /\ b.csnap = Cand /\ b.packet = p
           /\ b.runtime = RuntimeBinding /\ b.ledger = Start.wf
           /\ DOMAIN b.runs = ReviewRoles
           /\ \A x \in ReviewRoles :
                /\ b.runs[x].role = x /\ b.runs[x].attempt = 1 /\ b.runs[x].packet = p
                /\ b.runs[x].request = ToolFreeRequest(p, x, 1)
                /\ b.runs[x].boundary = BoundaryEvidence(p, Cand, RuntimeBinding)
                /\ b.runs[x].tokens = RoleTokens[x] /\ b.runs[x].cost = RoleCost[x]
           /\ BrokerBatchWellFormed(b)
  <1>1. /\ b.req = RequestSha(r) /\ b.wf = r.wf /\ b.task = T
        /\ b.csnap = Cand /\ b.packet = p
        /\ b.runtime = RuntimeBinding /\ b.ledger = Start.wf
        /\ b.runs = [x \in ReviewRoles |-> PreparedRun(p, Cand, RuntimeBinding, x)]
    BY DEF BatchOf, BrokerBatch, OfWorkflow
  <1>2. DOMAIN b.runs = ReviewRoles
    BY <1>1
  <1>3. ASSUME NEW x \in ReviewRoles
        PROVE  /\ b.runs[x].role = x /\ b.runs[x].attempt = 1 /\ b.runs[x].packet = p
               /\ b.runs[x].request = ToolFreeRequest(p, x, 1)
               /\ b.runs[x].boundary = BoundaryEvidence(p, Cand, RuntimeBinding)
               /\ b.runs[x].tokens = RoleTokens[x] /\ b.runs[x].cost = RoleCost[x]
    BY <1>1 DEF PreparedRun
  <1>4. BrokerBatchWellFormed(b)
    BY <1>1, <1>2, <1>3, BrokerBatchFits
  <1> QED BY <1>1, <1>2, <1>3, <1>4

\* The two rows that the two runs reserve.
LEMMA RowFacts ==
    ASSUME Workable, NEW r, OfWorkflow(r), NEW p, r.packet = p, r.snap = Cand,
           NEW b, b = BatchOf(r, p)
    PROVE  /\ FirstRow(b).packet = p /\ FirstRow(b).role = "reviewer" /\ FirstRow(b).attempt = 1
           /\ FirstRow(b).tokens = RoleTokens["reviewer"] /\ FirstRow(b).cost = RoleCost["reviewer"]
           /\ SecondRow(b).packet = p /\ SecondRow(b).role = "adversary"
           /\ SecondRow(b).attempt = 1
           /\ SecondRow(b).tokens = RoleTokens["adversary"]
           /\ SecondRow(b).cost = RoleCost["adversary"]
           /\ FirstRow(b) # SecondRow(b)
  <1>1. \A x \in ReviewRoles :
                    /\ b.runs[x].role = x /\ b.runs[x].attempt = 1 /\ b.runs[x].packet = p
                    /\ b.runs[x].tokens = RoleTokens[x] /\ b.runs[x].cost = RoleCost[x]
    BY BatchOfFacts
  <1>2. "reviewer" \in ReviewRoles /\ "adversary" \in ReviewRoles
    BY DEF ReviewRoles
  <1>3. /\ FirstRow(b).packet = p /\ FirstRow(b).role = "reviewer" /\ FirstRow(b).attempt = 1
        /\ FirstRow(b).tokens = RoleTokens["reviewer"] /\ FirstRow(b).cost = RoleCost["reviewer"]
    BY <1>1, <1>2 DEF FirstRow, Reservation
  <1>4. /\ SecondRow(b).packet = p /\ SecondRow(b).role = "adversary"
        /\ SecondRow(b).attempt = 1
        /\ SecondRow(b).tokens = RoleTokens["adversary"]
        /\ SecondRow(b).cost = RoleCost["adversary"]
    BY <1>1, <1>2 DEF SecondRow, Reservation
  <1> QED BY <1>3, <1>4

\* Without another executor each run sees its own row and the earlier one.
LEMMA CleanRows ==
    ASSUME NEW b
    PROVE  /\ Rows(b, "none").reviewer = {FirstRow(b)}
           /\ Rows(b, "none").adversary = {FirstRow(b), SecondRow(b)}
           /\ Rows(b, "none").final = {FirstRow(b), SecondRow(b)}
  BY DEF Rows, FirstRow, SecondRow

\* A further row would be seen.
LEMMA FurtherRow ==
    ASSUME Workable, NEW r, OfWorkflow(r), NEW p, r.packet = p, r.snap = Cand,
           NEW b, b = BatchOf(r, p), NEW late, late # "none"
    PROVE  Cardinality(Rows(b, late).final) # 2
  <1> DEFINE z == [Reservation(b.runs["reviewer"], 3) EXCEPT !.attempt = 2]
  <1>1. Rows(b, late).final = {FirstRow(b), SecondRow(b)} \cup {z}
    BY DEF Rows, FirstRow, SecondRow
  <1>2. z.attempt = 2
    BY DEF Reservation
  <1> HIDE DEF z
  <1>3. z # FirstRow(b) /\ z # SecondRow(b) /\ FirstRow(b) # SecondRow(b)
    BY <1>2, RowFacts
  <1>4. IsFiniteSet({FirstRow(b)}) /\ Cardinality({FirstRow(b)}) = 1
    BY FS_Singleton
  <1>5. {FirstRow(b), SecondRow(b)} = {FirstRow(b)} \cup {SecondRow(b)}
        /\ SecondRow(b) \notin {FirstRow(b)}
        /\ z \notin {FirstRow(b), SecondRow(b)}
    BY <1>3
  <1>6. IsFiniteSet({FirstRow(b), SecondRow(b)})
        /\ Cardinality({FirstRow(b), SecondRow(b)}) = 1 + 1
    <2>1. PICK S, y : S = {FirstRow(b)} /\ y = SecondRow(b)
      OBVIOUS
    <2>2. IsFiniteSet(S) /\ Cardinality(S) = 1 /\ y \notin S
      BY <1>4, <1>5, <2>1
    <2>3. IsFiniteSet(S \cup {y}) /\ Cardinality(S \cup {y}) = Cardinality(S) + 1
      BY <2>2, FS_AddElement
    <2> QED BY <1>5, <2>1, <2>2, <2>3
  <1>7. Cardinality({FirstRow(b), SecondRow(b)} \cup {z}) = (1 + 1) + 1
    BY <1>5, <1>6, FS_AddElement
  <1> QED BY <1>1, <1>7

\* The evidence of the outer executor when both models accept.
LEMMA CleanFacts ==
    ASSUME NEW b, NEW e, e = CleanEvidence(b)
    PROVE  /\ e.batch = b /\ e.ledger = b.ledger
           /\ e.final = {FirstRow(b), SecondRow(b)}
           /\ DOMAIN e.runs = ReviewRoles
           /\ \A x \in ReviewRoles :
                /\ e.runs[x].desc = b.runs[x]
                /\ e.runs[x].session = <<Start.wf, x>>
                /\ e.runs[x].pre = e.runs[x].session /\ e.runs[x].post = e.runs[x].session
                /\ e.runs[x].cleaned
                /\ e.runs[x].rows = Rows(b, "none")[x]
                /\ e.runs[x].time = IF x = "reviewer" THEN 1 ELSE 2
                /\ e.runs[x].env.request = b.runs[x].request
                /\ e.runs[x].env.id = <<Start.wf, x>>
                /\ e.runs[x].env.review = "accept"
  <1> DEFINE raw(x) == OuterRun(b.runs[x], <<Start.wf, x>>, Rows(b, "none")[x],
                           IF x = "reviewer" THEN 1 ELSE 2,
                           Envelope(b.runs[x], <<Start.wf, x>>, BothAccept[x]))
  <1>1. e = OuterBroker(b, Rows(b, "none").final, [x \in ReviewRoles |-> raw(x)])
    BY DEF CleanEvidence, EvidenceOf
  <1>2. /\ e.batch = b /\ e.ledger = b.ledger /\ e.final = Rows(b, "none").final
        /\ e.runs = [x \in ReviewRoles |-> raw(x)]
    BY <1>1 DEF OuterBroker
  <1>3. ASSUME NEW x \in ReviewRoles
        PROVE  /\ raw(x).desc = b.runs[x]
               /\ raw(x).session = <<Start.wf, x>>
               /\ raw(x).pre = <<Start.wf, x>> /\ raw(x).post = <<Start.wf, x>>
               /\ raw(x).cleaned
               /\ raw(x).rows = Rows(b, "none")[x]
               /\ raw(x).time = IF x = "reviewer" THEN 1 ELSE 2
               /\ raw(x).env.request = b.runs[x].request
               /\ raw(x).env.id = <<Start.wf, x>>
               /\ raw(x).env.review = "accept"
    <2>1. BothAccept[x] = "accept"
      BY DEF BothAccept
    <2> QED BY <2>1 DEF OuterRun, Envelope
  <1> HIDE DEF raw
  <1>4. DOMAIN e.runs = ReviewRoles /\ \A x \in ReviewRoles : e.runs[x] = raw(x)
    BY <1>2
  <1> QED BY <1>2, <1>3, <1>4, CleanRows

\* The ledger of the two rows is valid, and the second run saw more tokens
\* reserved than the first (_build_ledger_evidence).
LEMMA LedgerHolds ==
    ASSUME Workable, NEW r, OfWorkflow(r), NEW p, r.packet = p, r.snap = Cand,
           NEW b, b = BatchOf(r, p)
    PROVE  /\ LedgerValid({FirstRow(b)}, p)
           /\ LedgerValid({FirstRow(b), SecondRow(b)}, p)
           /\ TokenSum({FirstRow(b)}) \in Nat
           /\ TokenSum({FirstRow(b), SecondRow(b)}) \in Nat
           /\ TokenSum({FirstRow(b)}) < TokenSum({FirstRow(b), SecondRow(b)})
  <1>1. PICK x, y : x = FirstRow(b) /\ y = SecondRow(b)
    OBVIOUS
  <1>2. PICK m, c : m = RoleTokens /\ c = RoleCost
    OBVIOUS
  <1>3. /\ m["reviewer"] \in Nat \ {0} /\ m["adversary"] \in Nat \ {0}
        /\ c["reviewer"] \in Nat \ {0} /\ c["adversary"] \in Nat \ {0}
        /\ TokenCap \in Nat /\ CostCap \in Nat
    BY <1>2, CapAssumption DEF ReviewRoles
  <1>4. /\ x.packet = p /\ x.role = "reviewer" /\ x.attempt = 1
        /\ y.packet = p /\ y.role = "adversary" /\ y.attempt = 1
        /\ x.tokens = m["reviewer"] /\ x.cost = c["reviewer"]
        /\ y.tokens = m["adversary"] /\ y.cost = c["adversary"]
        /\ x # y
    BY <1>1, <1>2, RowFacts
  <1>5. TokenSum({x}) = m["reviewer"] /\ CostSum({x}) = c["reviewer"]
    <2>1. x.tokens \in Nat /\ x.cost \in Nat
      BY <1>3, <1>4
    <2> QED BY <1>4, <2>1, TokenSums, CostSums
  <1>6. /\ TokenSum({x, y}) = m["reviewer"] + m["adversary"]
        /\ CostSum({x, y}) = c["reviewer"] + c["adversary"]
    <2>1. x.tokens \in Nat /\ x.cost \in Nat /\ y.tokens \in Nat /\ y.cost \in Nat /\ x # y
      BY <1>3, <1>4
    <2>2. TokenSum({x, y}) = x.tokens + y.tokens
      BY <2>1, TokenSums
    <2>3. CostSum({x, y}) = x.cost + y.cost
      BY <2>1, CostSums
    <2> QED BY <1>4, <2>2, <2>3
  <1>7. m["reviewer"] + m["adversary"] =< TokenCap /\ c["reviewer"] + c["adversary"] =< CostCap
    BY <1>2 DEF Workable
  <1>8. \A s : Cardinality({s}) = 1
    BY FS_Singleton
  <1>9. 1..1 = {1} /\ 1..0 = {} /\ Cardinality({}) = 0
    BY FS_EmptySet
  <1>10. LedgerValid({x}, p)
    <2>1. RoleRows({x}, "reviewer") = {x} /\ RoleRows({x}, "adversary") = {}
      BY <1>4 DEF RoleRows
    <2>2. {w.attempt : w \in {x}} = {1} /\ {w.attempt : w \in {}} = {}
      BY <1>4
    <2>3. \A s \in ReviewRoles :
            {w.attempt : w \in RoleRows({x}, s)} = 1..Cardinality(RoleRows({x}, s))
      BY <1>8, <1>9, <2>1, <2>2 DEF ReviewRoles
    <2>4. \A w \in {x} : w.packet = p /\ w.role \in ReviewRoles /\ w.attempt \in 1..2
      BY <1>4 DEF ReviewRoles
    <2>5. TokenSum({x}) =< TokenCap /\ CostSum({x}) =< CostCap
      BY <1>3, <1>5, <1>7
    <2> QED BY <2>3, <2>4, <2>5 DEF LedgerValid
  <1>11. LedgerValid({x, y}, p)
    <2>1. RoleRows({x, y}, "reviewer") = {x} /\ RoleRows({x, y}, "adversary") = {y}
      BY <1>4 DEF RoleRows
    <2>2. {w.attempt : w \in {x}} = {1} /\ {w.attempt : w \in {y}} = {1}
      BY <1>4
    <2>3. \A s \in ReviewRoles :
            {w.attempt : w \in RoleRows({x, y}, s)} = 1..Cardinality(RoleRows({x, y}, s))
      BY <1>8, <1>9, <2>1, <2>2 DEF ReviewRoles
    <2>4. \A w \in {x, y} : w.packet = p /\ w.role \in ReviewRoles /\ w.attempt \in 1..2
      BY <1>4 DEF ReviewRoles
    <2>5. TokenSum({x, y}) =< TokenCap /\ CostSum({x, y}) =< CostCap
      BY <1>6, <1>7
    <2> QED BY <2>3, <2>4, <2>5 DEF LedgerValid
  <1> QED BY <1>1, <1>3, <1>5, <1>6, <1>10, <1>11

\* _finalize_provisioned_broker_execution accepts that evidence: the frozen
\* ledger, both lifecycles, both reservations and the final account.
LEMMA BrokerFinalHolds ==
    ASSUME Workable, NEW r, OfWorkflow(r), NEW p, r.packet = p, r.snap = Cand
    PROVE  BrokerFinal(BatchOf(r, p), CleanEvidence(BatchOf(r, p)))
  <1>1. PICK b, e : b = BatchOf(r, p) /\ e = CleanEvidence(b)
    OBVIOUS
  <1>2. PICK x, y : x = FirstRow(b) /\ y = SecondRow(b)
    OBVIOUS
  <1>3. /\ e.batch = b /\ e.ledger = b.ledger
        /\ e.final = {x, y}
        /\ DOMAIN e.runs = ReviewRoles
        /\ \A s \in ReviewRoles :
             /\ e.runs[s].desc = b.runs[s]
             /\ e.runs[s].pre = e.runs[s].session /\ e.runs[s].post = e.runs[s].session
             /\ e.runs[s].cleaned
             /\ e.runs[s].rows = Rows(b, "none")[s]
             /\ e.runs[s].time = IF s = "reviewer" THEN 1 ELSE 2
             /\ e.runs[s].env.request = b.runs[s].request
    BY <1>1, <1>2, CleanFacts
  <1>4. e.runs["reviewer"].rows = {x} /\ e.runs["adversary"].rows = {x, y}
    BY <1>2, <1>3, CleanRows DEF ReviewRoles
  <1>5. /\ x.role = "reviewer" /\ x.attempt = 1 /\ y.role = "adversary" /\ y.attempt = 1
        /\ x # y
    BY <1>1, <1>2, RowFacts
  <1>6. /\ BrokerBatchWellFormed(b) /\ b.packet = p
        /\ \A s \in ReviewRoles : b.runs[s].attempt = 1 /\ b.runs[s].packet = p
                                 /\ b.runs[s].role = s
    BY <1>1, BatchOfFacts
  <1>7. /\ LedgerValid({x}, p) /\ LedgerValid({x, y}, p)
        /\ TokenSum({x}) \in Nat /\ TokenSum({x, y}) \in Nat
        /\ TokenSum({x}) < TokenSum({x, y})
    BY <1>1, <1>2, LedgerHolds
  <1>8. /\ Reservation(b.runs["reviewer"], e.runs["reviewer"].time) = x
        /\ Reservation(b.runs["adversary"], e.runs["adversary"].time) = y
    BY <1>2, <1>3 DEF FirstRow, SecondRow, ReviewRoles
  <1>9. FrozenLedgerValid(b, e)
    BY <1>3, <1>6, <1>7 DEF FrozenLedgerValid
  <1>10. ASSUME NEW s \in ReviewRoles
         PROVE  /\ LifecycleValid(b.runs[s], e.runs[s])
                /\ ReservationDecodes(b, b.runs[s], e.runs[s])
                /\ ProcessValid(b.runs[s], e.runs[s])
    <2>1. LifecycleValid(b.runs[s], e.runs[s]) /\ ProcessValid(b.runs[s], e.runs[s])
      BY <1>3 DEF LifecycleValid, RunDescribed, LifecycleComplete, BoundaryUnchanged,
                  ProcessValid
    <2>2. \A z : Cardinality({z}) = 1
      BY FS_Singleton
    <2>3. CASE s = "reviewer"
      <3>1. {w \in RoleRows({x}, "reviewer") : w.attempt = 1} = {x}
        BY <1>5 DEF RoleRows
      <3>2. /\ b.runs[s].role = s /\ b.runs[s].attempt = 1 /\ b.runs[s].packet = p
            /\ e.runs[s].rows = {x} /\ Reservation(b.runs[s], e.runs[s].time) = x
        BY <1>4, <1>6, <1>8, <2>3
      <3>3. Cardinality({w \in RoleRows({x}, "reviewer") : w.attempt = 1}) = 1
        BY <2>2, <3>1
      <3>4. ReservationDecodes(b, b.runs[s], e.runs[s])
        BY <1>7, <2>3, <3>2, <3>3 DEF ReservationDecodes
      <3> QED BY <2>1, <3>4
    <2>4. CASE s = "adversary"
      <3>1. {w \in RoleRows({x, y}, "adversary") : w.attempt = 1} = {y}
        BY <1>5 DEF RoleRows
      <3>2. /\ b.runs[s].role = s /\ b.runs[s].attempt = 1 /\ b.runs[s].packet = p
            /\ e.runs[s].rows = {x, y} /\ Reservation(b.runs[s], e.runs[s].time) = y
        BY <1>4, <1>6, <1>8, <2>4
      <3>3. Cardinality({w \in RoleRows({x, y}, "adversary") : w.attempt = 1}) = 1
        BY <2>2, <3>1
      <3>4. ReservationDecodes(b, b.runs[s], e.runs[s])
        BY <1>7, <2>4, <3>2, <3>3 DEF ReservationDecodes
      <3> QED BY <2>1, <3>4
    <2> QED BY <2>3, <2>4 DEF ReviewRoles
  <1>11. FinalLedgerAccounts(b, e)
    <2> DEFINE total(s) == TokenSum(e.runs[s].rows)
               latest == CHOOSE s \in ReviewRoles : \A t \in ReviewRoles : total(t) =< total(s)
    <2>1. total("reviewer") = TokenSum({x}) /\ total("adversary") = TokenSum({x, y})
      BY <1>4
    <2>2. "adversary" \in ReviewRoles /\ \A s \in ReviewRoles : s = "adversary" \/ s = "reviewer"
      BY DEF ReviewRoles
    <2> HIDE DEF total
    <2>3. \A t \in ReviewRoles : total(t) =< total("adversary")
      BY <1>7, <2>1, <2>2
    <2>4. ~(total("adversary") =< total("reviewer"))
      BY <1>7, <2>1
    <2>5. \A s \in ReviewRoles :
            (\A t \in ReviewRoles : total(t) =< total(s)) => s = "adversary"
      BY <2>2, <2>4
    <2>6. latest = "adversary"
      BY <2>2, <2>3, <2>5
    <2> HIDE DEF latest
    <2>7. /\ total("reviewer") # total("adversary")
          /\ total(latest) = TokenSum(e.final)
          /\ e.runs[latest].rows = e.final
      BY <1>3, <1>4, <1>7, <2>1, <2>6
    <2>8. ASSUME NEW s \in ReviewRoles
          PROVE  /\ {w.attempt : w \in RoleRows(e.final, s)} = 1..b.runs[s].attempt
                 /\ Reservation(b.runs[s], e.runs[s].time) \in e.final
                 /\ e.runs[s].rows \subseteq e.final
      <3>1. RoleRows({x, y}, "reviewer") = {x} /\ RoleRows({x, y}, "adversary") = {y}
        BY <1>5 DEF RoleRows
      <3>2. {w.attempt : w \in {x}} = {1} /\ {w.attempt : w \in {y}} = {1}
        BY <1>5
      <3>3. 1..1 = {1}
        OBVIOUS
      <3>4. CASE s = "reviewer"
        BY <1>3, <1>4, <1>6, <1>8, <3>1, <3>2, <3>3, <3>4
      <3>5. CASE s = "adversary"
        BY <1>3, <1>4, <1>6, <1>8, <3>1, <3>2, <3>3, <3>5
      <3> QED BY <2>2, <3>4, <3>5
    <2> QED BY <2>7, <2>8 DEF FinalLedgerAccounts, total, latest
  <1>12. BrokerFinal(b, e)
    BY <1>3, <1>6, <1>9, <1>10, <1>11 DEF BrokerFinal
  <1> QED BY <1>1, <1>12

(***************************************************************************)
(* The bundle, its attestations and the verdict.                           *)
(***************************************************************************)

\* The bundle that sign and judge rebuild when nothing went wrong
IsClean(u, runs, r) ==
    /\ u.task = T /\ u.policy = Policy /\ u.packet = Packet(runs)
    /\ u.base = Base /\ u.cand = Cand /\ u.reds = Reds /\ u.runs = runs
    /\ u.gates = Gates(runs) /\ u.tdds = Tdds(runs)
    /\ u.batch = BatchOf(r, Packet(runs)) /\ u.outer = CleanEvidence(u.batch)
    /\ u.reviews = [x \in ReviewRoles |-> ParsedReview(u.batch.runs[x], u.outer.runs[x])]

\* The reviews of a clean bundle parse, accept, and have sessions of their own.
LEMMA ReviewFacts ==
    ASSUME Workable, NEW r, OfWorkflow(r), r.snap = Cand,
           NEW runs, r.packet = Packet(runs), NEW u, IsClean(u, runs, r)
    PROVE  \A x \in ReviewRoles :
              /\ u.batch.runs[x].attempt = 1 /\ u.batch.runs[x].role = x
              /\ u.batch.runs[x].request = <<Packet(runs), x, 1>>
              /\ u.outer.runs[x].env.request = <<Packet(runs), x, 1>>
              /\ u.outer.runs[x].env.id = <<Start.wf, x>>
              /\ u.outer.runs[x].session = <<Start.wf, x>>
              /\ u.outer.runs[x].cleaned
              /\ ReviewParses(u.batch.runs[x], u.outer.runs[x])
              /\ u.reviews[x] = ParsedReview(u.batch.runs[x], u.outer.runs[x])
              /\ u.reviews[x].role = x /\ u.reviews[x].says = "accept"
              /\ u.reviews[x].session = <<"review", <<Start.wf, x>>, x>>
  <1> TAKE x \in ReviewRoles
  <1>1. PICK b, e, p : b = u.batch /\ e = u.outer /\ p = Packet(runs)
    OBVIOUS
  <1>2. b = BatchOf(r, p) /\ e = CleanEvidence(b)
        /\ u.reviews[x] = ParsedReview(b.runs[x], e.runs[x])
    BY <1>1 DEF IsClean
  <1>3. b.runs[x].attempt = 1 /\ b.runs[x].role = x /\ b.runs[x].request = <<p, x, 1>>
    <2>1. r.packet = p
      BY <1>1
    <2>2. b = BatchOf(r, p)
      BY <1>2
    <2>3. b.runs[x].attempt = 1 /\ b.runs[x].role = x
          /\ b.runs[x].request = ToolFreeRequest(p, x, 1)
      BY <2>1, <2>2, BatchOfFacts
    <2> QED BY <2>3 DEF ToolFreeRequest
  <1>4. /\ e.runs[x].session = <<Start.wf, x>> /\ e.runs[x].cleaned
        /\ e.runs[x].env.request = b.runs[x].request
        /\ e.runs[x].env.id = <<Start.wf, x>>
        /\ e.runs[x].env.review = "accept"
    BY <1>2, CleanFacts
  <1>5. ReviewParses(b.runs[x], e.runs[x])
    BY <1>4 DEF ReviewParses
  <1>6. /\ u.reviews[x].role = x /\ u.reviews[x].says = "accept"
        /\ u.reviews[x].session = <<"review", <<Start.wf, x>>, x>>
    BY <1>2, <1>3, <1>4 DEF ParsedReview
  <1> QED BY <1>1, <1>2, <1>3, <1>4, <1>5, <1>6

\* derive_frozen_broker_run_bindings and _validate_broker_evidence accept a clean
\* bundle.
LEMMA BrokerBoundHolds ==
    ASSUME Workable, NEW r, OfWorkflow(r), r.snap = Cand,
           NEW runs, r.packet = Packet(runs), NEW u, IsClean(u, runs, r)
    PROVE  /\ BrokerRunsBound(u)
           /\ \A x \in ReviewRoles : ExchangeBound(u, x)
           /\ ExchangesDistinct(u)
  <1>1. PICK b, e, p : b = u.batch /\ e = u.outer /\ p = Packet(runs)
    OBVIOUS
  <1>2. b = BatchOf(r, p) /\ e = CleanEvidence(b)
        /\ DOMAIN u.reviews = ReviewRoles
        /\ u.task = T /\ u.cand = Cand /\ u.packet = p
    BY <1>1 DEF IsClean
  <1>3. /\ b.task = T /\ b.csnap = Cand /\ b.packet = p
        /\ \A x \in ReviewRoles :
              /\ b.runs[x].boundary = BoundaryEvidence(p, Cand, RuntimeBinding)
              /\ b.runs[x].request = <<p, x, 1>> /\ b.runs[x].attempt = 1
              /\ b.runs[x].tokens = RoleTokens[x] /\ b.runs[x].cost = RoleCost[x]
        /\ b.runtime = RuntimeBinding
    <2>1. r.packet = p
      BY <1>1
    <2>2. b = BatchOf(r, p)
      BY <1>2
    <2>3. /\ b.task = T /\ b.csnap = Cand /\ b.packet = p /\ b.runtime = RuntimeBinding
          /\ \A x \in ReviewRoles :
                /\ b.runs[x].boundary = BoundaryEvidence(p, Cand, RuntimeBinding)
                /\ b.runs[x].request = ToolFreeRequest(p, x, 1) /\ b.runs[x].attempt = 1
                /\ b.runs[x].tokens = RoleTokens[x] /\ b.runs[x].cost = RoleCost[x]
      BY <2>1, <2>2, BatchOfFacts
    <2> QED BY <2>3 DEF ToolFreeRequest
  <1>4. BrokerFinal(b, e)
    BY <1>1, <1>2, BrokerFinalHolds
  <1>5. BatchRebuilt(b, p, Cand, b.runtime)
    BY <1>3 DEF BatchRebuilt, ToolFreeRequest
  <1>6. \A x \in ReviewRoles :
              /\ e.runs[x].env.request = <<p, x, 1>>
              /\ e.runs[x].env.id = <<Start.wf, x>>
              /\ e.runs[x].session = <<Start.wf, x>>
              /\ e.runs[x].cleaned
              /\ ReviewParses(b.runs[x], e.runs[x])
              /\ u.reviews[x] = ParsedReview(b.runs[x], e.runs[x])
              /\ u.reviews[x].role = x
              /\ u.reviews[x].session = <<"review", <<Start.wf, x>>, x>>
    BY <1>1, ReviewFacts
  <1>7. e.final = {FirstRow(b), SecondRow(b)} /\ DOMAIN e.runs = ReviewRoles
    BY <1>2, CleanFacts
  <1>8. ReviewsRederived(u)
    BY <1>1, <1>2, <1>6, <1>7 DEF ReviewsRederived
  <1>9. ExecutionsDistinct(u)
    <2>1. <<Start.wf, "reviewer">> # <<Start.wf, "adversary">>
      OBVIOUS
    <2> QED BY <1>1, <1>6, <2>1 DEF ExecutionsDistinct, ReviewRoles
  <1>10. FinalRecordsCover(u)
    <2>1. LedgerValid(e.final, p)
      <3>1. r.packet = p
        BY <1>1
      <3>2. LedgerValid({FirstRow(b), SecondRow(b)}, p)
        BY <1>2, <3>1, LedgerHolds
      <3> QED BY <1>7, <3>2
    <2>2. PICK x, y : x = FirstRow(b) /\ y = SecondRow(b)
      OBVIOUS
    <2>3. /\ x.role = "reviewer" /\ x.attempt = 1
          /\ x.tokens = RoleTokens["reviewer"] /\ x.cost = RoleCost["reviewer"]
          /\ y.role = "adversary" /\ y.attempt = 1
          /\ y.tokens = RoleTokens["adversary"] /\ y.cost = RoleCost["adversary"]
      BY <1>1, <1>2, <2>2, RowFacts
    <2>4. x \in RoleRows(e.final, "reviewer") /\ y \in RoleRows(e.final, "adversary")
      BY <1>7, <2>2, <2>3 DEF RoleRows
    <2>5. ASSUME NEW s \in ReviewRoles
          PROVE  \E w \in RoleRows(e.final, s) :
                   w.attempt = b.runs[s].attempt /\ w.tokens = b.runs[s].tokens
                   /\ w.cost = b.runs[s].cost
      <3>1. CASE s = "reviewer"
        BY <1>3, <2>3, <2>4, <3>1
      <3>2. CASE s = "adversary"
        BY <1>3, <2>3, <2>4, <3>2
      <3> QED BY <3>1, <3>2 DEF ReviewRoles
    <2> QED BY <1>1, <1>2, <2>1, <2>5 DEF FinalRecordsCover
  <1>11. BrokerRunsBound(u)
    BY <1>1, <1>2, <1>3, <1>4, <1>5, <1>8, <1>9, <1>10 DEF BrokerRunsBound
  <1>12. \A x \in ReviewRoles : ExchangeBound(u, x)
    <2> TAKE x \in ReviewRoles
    <2>1. SessionOf(u, <<"review", x>>) = u.reviews[x].session
      BY DEF SessionOf
    <2> QED BY <1>1, <1>2, <1>3, <1>6, <2>1 DEF ExchangeBound, ToolFreeRequest
  <1>13. ExchangesDistinct(u)
    <2>1. /\ <<p, "reviewer", 1>> # <<p, "adversary", 1>>
          /\ <<Start.wf, "reviewer">> # <<Start.wf, "adversary">>
      OBVIOUS
    <2>2. "reviewer" \in ReviewRoles /\ "adversary" \in ReviewRoles
      BY DEF ReviewRoles
    <2>3. /\ u.outer.runs["reviewer"].env.request = <<p, "reviewer", 1>>
          /\ u.outer.runs["adversary"].env.request = <<p, "adversary", 1>>
          /\ u.outer.runs["reviewer"].env.id = <<Start.wf, "reviewer">>
          /\ u.outer.runs["adversary"].env.id = <<Start.wf, "adversary">>
      BY <1>1, <1>6, <2>2
    <2> QED BY <2>1, <2>3 DEF ExchangesDistinct
  <1> QED BY <1>11, <1>12, <1>13

\* The roles that are attested are finitely many and of three kinds.
LEMMA RolesFacts ==
    ASSUME Workable
    PROVE  /\ IsFiniteSet(Roles(T)) /\ Roles(T) # {}
           /\ \A role \in Roles(T) :
                \/ role[1] \in {"task", "policy"} /\ role = <<role[1], "">>
                \/ role[1] \in {"gate", "red", "green"} /\ role \in OfflineKeys(T)
                \/ role[1] = "review" /\ role[2] \in ReviewRoles /\ role = <<"review", role[2]>>
  <1>1. IsFiniteSet(Acceptances(T)) /\ IsFiniteSet(Tests)
    BY RedFacts DEF Workable, T
  <1>2. IsFiniteSet({"gate"}) /\ IsFiniteSet({"red", "green"}) /\ IsFiniteSet({"review"})
        /\ IsFiniteSet(ReviewRoles) /\ IsFiniteSet({<<"task", "">>, <<"policy", "">>})
    <2>1. \A a, b : IsFiniteSet({a, b})
      <3> TAKE a, b
      <3>1. IsFiniteSet({a}) /\ {a, b} = {a} \cup {b}
        BY FS_Singleton
      <3> QED BY <3>1, FS_AddElement
    <2>2. \A a : IsFiniteSet({a})
      BY FS_Singleton
    <2> QED BY <2>1, <2>2 DEF ReviewRoles
  <1>3. IsFiniteSet({"gate"} \X Acceptances(T))
    BY <1>1, <1>2, FS_Product
  <1>4. IsFiniteSet({"red", "green"} \X Tests)
    BY <1>1, <1>2, FS_Product
  <1>5. IsFiniteSet({"review"} \X ReviewRoles)
    BY <1>2, FS_Product
  <1>6. IsFiniteSet(OfflineKeys(T))
    BY <1>3, <1>4, FS_Union DEF OfflineKeys, Tests
  <1>7. IsFiniteSet({<<"task", "">>, <<"policy", "">>} \cup OfflineKeys(T))
    BY <1>2, <1>6, FS_Union
  <1>8. IsFiniteSet(Roles(T))
    BY <1>5, <1>7, FS_Union DEF Roles
  <1>9. Roles(T) # {}
    BY DEF Roles
  <1>10. \A role \in Roles(T) :
                \/ role[1] \in {"task", "policy"} /\ role = <<role[1], "">>
                \/ role[1] \in {"gate", "red", "green"} /\ role \in OfflineKeys(T)
                \/ role[1] = "review" /\ role[2] \in ReviewRoles /\ role = <<"review", role[2]>>
    <2> TAKE role \in Roles(T)
    <2>1. CASE role \in {<<"task", "">>, <<"policy", "">>}
      <3>1. CASE role = <<"task", "">>
        <4>1. role[1] = "task"
          BY <3>1
        <4> QED BY <3>1, <4>1
      <3>2. CASE role = <<"policy", "">>
        <4>1. role[1] = "policy"
          BY <3>2
        <4> QED BY <3>2, <4>1
      <3> QED BY <2>1, <3>1, <3>2
    <2>2. CASE role \in OfflineKeys(T)
      BY <2>2, KeyForms
    <2>3. CASE role \in {"review"} \X ReviewRoles
      <3>1. PICK x \in ReviewRoles : role = <<"review", x>>
        BY <2>3
      <3>2. role[1] = "review" /\ role[2] = x
        BY <3>1
      <3> QED BY <3>1, <3>2
    <2> QED BY <2>1, <2>2, <2>3 DEF Roles
  <1> QED BY <1>8, <1>9, <1>10

\* No two roles of a clean bundle share a session.
LEMMA SessionsHold ==
    ASSUME Workable, NEW r, OfWorkflow(r), r.snap = Cand,
           NEW runs, RanAsPlanned(runs), r.packet = Packet(runs),
           NEW u, IsClean(u, runs, r)
    PROVE  SessionsDistinct(u)
  <1> DEFINE f == [role \in Roles(T) |-> SessionOf(u, role)]
  <1>1. ASSUME NEW role \in Roles(T)
        PROVE  \/ f[role][1] \in {"snapshot", "offline"} /\ f[role][3] = role
               \/ /\ role = <<"review", role[2]>>
                  /\ f[role][1] = "review" /\ f[role][3] = role[2]
    <2>1. f[role] = SessionOf(u, role)
      OBVIOUS
    <2> HIDE DEF f
    <2>2. CASE role[1] \in {"task", "policy"} /\ role = <<role[1], "">>
      <3>1. f[role] = <<"snapshot", u.anchor, role>>
        BY <2>1, <2>2 DEF SessionOf
      <3>2. f[role][1] = "snapshot" /\ f[role][3] = role
        BY <3>1
      <3> QED BY <3>2
    <2>3. CASE role[1] \in {"gate", "red", "green"} /\ role \in OfflineKeys(T)
      <3>1. u.runs[role].plan.session = <<"offline", Start.wf, role>>
        <4>1. u.runs = runs
          BY DEF IsClean
        <4>2. runs[role].plan = Plan(role)
          BY <2>3 DEF RanAsPlanned
        <4> QED BY <2>3, <4>1, <4>2, PlanFacts
      <3>2. SessionOf(u, role) = u.runs[role].plan.session
        BY <2>3 DEF SessionOf
      <3>3. f[role] = <<"offline", Start.wf, role>>
        BY <2>1, <3>1, <3>2
      <3>4. f[role][1] = "offline" /\ f[role][3] = role
        BY <3>3
      <3> QED BY <3>4
    <2>4. CASE role[1] = "review" /\ role[2] \in ReviewRoles /\ role = <<"review", role[2]>>
      <3>1. SessionOf(u, role) = u.reviews[role[2]].session
        BY <2>4 DEF SessionOf
      <3>2. u.reviews[role[2]].session = <<"review", <<Start.wf, role[2]>>, role[2]>>
        BY <2>4, ReviewFacts
      <3>3. f[role] = <<"review", <<Start.wf, role[2]>>, role[2]>>
        BY <2>1, <3>1, <3>2
      <3>4. f[role][1] = "review" /\ f[role][3] = role[2]
        BY <3>3
      <3> QED BY <2>4, <3>4
    <2> QED BY <2>2, <2>3, <2>4, RolesFacts
  <1>2. u.task = T /\ {SessionOf(u, role) : role \in Roles(T)} = {f[role] : role \in Roles(T)}
    BY DEF IsClean
  <1>3. DOMAIN f = Roles(T) /\ f = [role \in Roles(T) |-> f[role]]
    OBVIOUS
  <1> HIDE DEF f
  <1>4. ASSUME NEW x \in Roles(T), NEW y \in Roles(T), f[x] = f[y] PROVE x = y
    BY <1>1, <1>4
  <1>5. Cardinality({f[role] : role \in Roles(T)}) = Cardinality(Roles(T))
    <2>1. PICK S : S = Roles(T)
      OBVIOUS
    <2>2. IsFiniteSet(S) /\ DOMAIN f = S /\ f = [role \in S |-> f[role]]
      BY <1>3, <2>1, RolesFacts
    <2>3. \A x, y \in S : f[x] = f[y] => x = y
      BY <1>4, <2>1
    <2>4. Cardinality({f[role] : role \in S}) = Cardinality(S)
      BY <2>2, <2>3, InjectiveImage
    <2> QED BY <2>1, <2>4
  <1> QED BY <1>2, <1>5 DEF SessionsDistinct

\* The packet of a clean bundle is what _validate_review_packet builds again.
LEMMA PacketRemeasuredHolds ==
    ASSUME Workable, NEW r, NEW runs, NEW u, IsClean(u, runs, r)
    PROVE  PacketRemeasured(u)
  <1>1. /\ u.task = T /\ u.policy = Policy /\ u.base = Base /\ u.cand = Cand
        /\ u.packet = Packet(runs) /\ u.gates = Gates(runs) /\ u.tdds = Tdds(runs)
    BY DEF IsClean
  <1>2. ReviewMaterial(u.task, u.policy, u.base, u.cand) = Material
    BY <1>1 DEF Material
  <1>3. MaterialBound(u.task, u.policy, Material)
    BY <1>1, MaterialHolds
  <1>4. u.packet = ReviewPacket(u.task, u.policy, u.gates, u.tdds, Material)
    BY <1>1 DEF Packet
  <1> QED BY <1>2, <1>3, <1>4 DEF PacketRemeasured

\* Snapshots, patches and logs of the offline roles agree with the artifacts
\* (_validate_request, _validate_tdd_snapshot_bindings).
LEMMA RequestsHold ==
    ASSUME Workable, NEW runs, RanAsPlanned(runs), NEW r, NEW u, IsClean(u, runs, r)
    PROVE  RequestsValid(u) /\ TddSnapshotsBound(u)
  <1>1. /\ u.task = T /\ u.base = Base /\ u.cand = Cand /\ u.runs = runs
        /\ u.gates = Gates(runs) /\ u.tdds = Tdds(runs)
    BY DEF IsClean
  <1>2. TddSnapshotsBound(u)
    <2>1. ASSUME NEW d \in Tdds(runs)
          PROVE  d.rsnap # Base /\ d.gsnap = Cand
      <3>1. d.id \in Tests /\ d.rsnap = Reds[d.id].snap /\ d.gsnap = Cand
        BY TddsHold
      <3> QED BY <3>1, RedFacts
    <2> QED BY <1>1, <2>1 DEF TddSnapshotsBound
  <1>3. ASSUME NEW d \in Tdds(runs), NEW d2 \in Tdds(runs), d.id = d2.id PROVE d = d2
    <2> DEFINE f == [a \in Tests |->
                     [id |-> a, task |-> T, base |-> Policy.base, head |-> Policy.head,
                      patch |-> Policy.patch, tpatch |-> RedFor(T, Reds, a).tpatch,
                      tman |-> RedFor(T, Reds, a).tman, rsnap |-> RedFor(T, Reds, a).snap,
                      gsnap |-> runs[<<"green", a>>].plan.exec,
                      red |-> [ok |-> runs[<<"red", a>>].ok, log |-> runs[<<"red", a>>].log],
                      green |-> [ok |-> runs[<<"green", a>>].ok,
                                 log |-> runs[<<"green", a>>].log]]]
    <2>1. Tdds(runs) = {f[a] : a \in Tests}
      BY DEF Tdds, TddResults, Tests
    <2>2. \A a \in Tests : f[a].id = a
      OBVIOUS
    <2> HIDE DEF f
    <2> QED BY <1>3, <2>1, <2>2
  <1>4. ASSUME NEW k \in OfflineKeys(T)
        PROVE  /\ runs[k].plan.exec = SnapshotOf(u, k)
               /\ runs[k].plan.src = IF k[1] = "red" THEN Base ELSE Cand
               /\ IF k[1] = "gate"
                  THEN \E g \in Gates(runs) : g.id = k[2] /\ g.log = runs[k].log
                  ELSE \E d \in Tdds(runs) :
                         /\ d.id = k[2] /\ runs[k].plan.tpatch = d.tpatch
                         /\ runs[k].plan.tman = d.tman
                         /\ runs[k].log = (IF k[1] = "red" THEN d.red ELSE d.green).log
    <2>1. runs[k].plan = Plan(k)
      BY DEF RanAsPlanned
    <2>2. /\ runs[k].plan.exec = IF k[1] = "red" THEN Reds[k[2]].snap ELSE Cand
          /\ runs[k].plan.src = IF k[1] = "red" THEN Base ELSE Cand
          /\ k[1] # "gate" => runs[k].plan.tpatch = Reds[k[2]].tpatch
                              /\ runs[k].plan.tman = Reds[k[2]].tman
      BY <2>1, PlanFacts
    <2>3. k = <<k[1], k[2]>>
      BY KeyForms
    <2>4. CASE k[1] = "gate" /\ k[2] \in Acceptances(T)
      <3>1. SnapshotOf(u, k) = Cand
        BY <1>1, <2>4 DEF SnapshotOf
      <3>2. PICK g \in Gates(runs) : g.id = k[2]
        BY <2>4, GatesHold
      <3>3. g.log = runs[<<"gate", g.id>>].log
        BY GatesHold
      <3>4. k = <<"gate", g.id>>
        BY <2>3, <2>4, <3>2
      <3> QED BY <2>2, <2>4, <3>1, <3>2, <3>3, <3>4
    <2>5. CASE k[1] \in {"red", "green"} /\ k[2] \in Tests
      <3>1. PICK d \in Tdds(runs) : d.id = k[2]
        BY <2>5, TddsHold
      <3>2. /\ d.tpatch = Reds[d.id].tpatch /\ d.tman = Reds[d.id].tman
            /\ d.rsnap = Reds[d.id].snap
            /\ d.red.log = runs[<<"red", d.id>>].log
            /\ d.green.log = runs[<<"green", d.id>>].log
        BY TddsHold
      <3>3. CASE k[1] = "red"
        <4>1. k = <<"red", d.id>>
          BY <2>3, <3>1, <3>3
        <4>2. SnapshotOf(u, k) = Reds[k[2]].snap
          <5>1. SnapshotOf(u, k) = (CHOOSE e \in Tdds(runs) : e.id = k[2]).rsnap
            BY <1>1, <3>3 DEF SnapshotOf
          <5>2. (CHOOSE e \in Tdds(runs) : e.id = k[2]) = d
            BY <1>3, <3>1
          <5> QED BY <3>1, <3>2, <5>1, <5>2
        <4>3. runs[k].log = (IF k[1] = "red" THEN d.red ELSE d.green).log
          BY <3>2, <3>3, <4>1
        <4>4. runs[k].plan.tpatch = d.tpatch /\ runs[k].plan.tman = d.tman
          BY <2>2, <3>1, <3>2, <3>3
        <4>5. runs[k].plan.exec = SnapshotOf(u, k)
          BY <2>2, <3>3, <4>2
        <4> QED BY <2>2, <3>1, <3>3, <4>3, <4>4, <4>5
      <3>4. CASE k[1] = "green"
        <4>1. k = <<"green", d.id>>
          BY <2>3, <3>1, <3>4
        <4>2. SnapshotOf(u, k) = Cand
          BY <1>1, <3>4 DEF SnapshotOf
        <4>3. runs[k].log = (IF k[1] = "red" THEN d.red ELSE d.green).log
          BY <3>2, <3>4, <4>1
        <4>4. runs[k].plan.tpatch = d.tpatch /\ runs[k].plan.tman = d.tman
          BY <2>2, <3>1, <3>2, <3>4
        <4>5. runs[k].plan.exec = SnapshotOf(u, k)
          BY <2>2, <3>4, <4>2
        <4> QED BY <2>2, <3>1, <3>4, <4>3, <4>4, <4>5
      <3> QED BY <2>5, <3>3, <3>4
    <2> QED BY <2>4, <2>5, KeyForms
  <1>5. RequestsValid(u)
    BY <1>1, <1>4 DEF RequestsValid
  <1> QED BY <1>2, <1>5

\* build_attestation_expectations returns for a clean bundle.
LEMMA AttestableHolds ==
    ASSUME Workable, NEW r, OfWorkflow(r), r.snap = Cand,
           NEW runs, RanAsPlanned(runs), r.packet = Packet(runs),
           NEW u, IsClean(u, runs, r)
    PROVE  Attestable(u)
  <1>1. /\ u.task = T /\ u.policy = Policy /\ u.base = Base /\ u.cand = Cand
        /\ u.reds = Reds /\ u.runs = runs
        /\ u.gates = Gates(runs) /\ u.tdds = Tdds(runs)
    BY DEF IsClean
  <1>2. OfflineDerivable(u.task, u.policy, u.runs, u.base, u.cand, u.reds)
    BY <1>1, Derivable
  <1>3. u.gates = GateResults(u.task, u.policy, u.runs)
        /\ u.tdds = TddResults(u.task, u.policy, u.runs, u.reds)
    BY <1>1 DEF Gates, Tdds
  <1>4. PacketRemeasured(u)
    BY PacketRemeasuredHolds
  <1>5. RequestsValid(u) /\ TddSnapshotsBound(u)
    BY RequestsHold
  <1>6. BrokerRunsBound(u) /\ (\A x \in ReviewRoles : ExchangeBound(u, x))
        /\ ExchangesDistinct(u)
    BY BrokerBoundHolds
  <1>7. SessionsDistinct(u)
    BY SessionsHold
  <1> QED BY <1>2, <1>3, <1>4, <1>5, <1>6, <1>7 DEF Attestable

\* judge_attested passes a clean bundle whose runs all ended as expected.
LEMMA JudgeAccepts ==
    ASSUME Workable, NEW r, OfWorkflow(r), r.snap = Cand,
           NEW runs, RanAsPlanned(runs), AllGood(runs), r.packet = Packet(runs),
           NEW u, IsClean(u, runs, r)
    PROVE  Verdict(u, TRUE) = "pass"
  <1>1. /\ u.task = T /\ u.policy = Policy
        /\ u.gates = Gates(runs) /\ u.tdds = Tdds(runs)
    BY DEF IsClean
  <1>2. ~PolicyFails(u)
    BY <1>1, PairFacts DEF PolicyFails
  <1>3. ~TddFails(u)
    <2>1. SUFFICES ASSUME NEW d \in Tdds(runs)
          PROVE  /\ d.task = T /\ d.head = Policy.head /\ d.patch = Policy.patch
                 /\ d.red.ok /\ d.green.ok
                 /\ d.rsnap # d.gsnap
                 /\ d.tman = {<<c[1], c[3]>> : c \in {x \in Policy.patch.files :
                                                  x[1] \in TaskSpec[T].paths[d.id]}}
      BY <1>1 DEF TddFails
    <2>2. d.id \in Tests
      BY TddsHold
    <2>3. d.task = T /\ d.head = Policy.head /\ d.patch = Policy.patch
          /\ d.tman = Reds[d.id].tman /\ d.rsnap = Reds[d.id].snap /\ d.gsnap = Cand
      BY TddsHold
    <2>4. d.red.ok /\ d.green.ok
      <3>1. d.red.ok = runs[<<"red", d.id>>].ok /\ d.green.ok = runs[<<"green", d.id>>].ok
        BY TddsHold
      <3>2. runs[<<"red", d.id>>].ok /\ runs[<<"green", d.id>>].ok
        BY <2>2, KeyForms DEF AllGood
      <3> QED BY <3>1, <3>2, Zenon
    <2>5. d.rsnap # d.gsnap
      BY <2>2, <2>3, RedFacts
    <2>6. PICK ps : ps = TaskSpec[T].paths[d.id]
      OBVIOUS
    <2>7. ps \subseteq Files /\ (\A g \in ps : Base.tree[g] # Cand.tree[g])
          /\ d.tman = {<<g, Cand.tree[g]>> : g \in ps}
      BY <2>2, <2>3, <2>6, RedFacts DEF TestDeltaValid, TestManifest
    <2>8. Policy.patch.files
             = {<<g, Base.tree[g], Cand.tree[g]>> :
                  g \in {h \in Files : Base.tree[h] # Cand.tree[h]}}
      BY PairFacts DEF Changes
    <2>9. {<<c[1], c[3]>> : c \in {x \in Policy.patch.files : x[1] \in ps}}
            = {<<g, Cand.tree[g]>> : g \in ps}
      <3>1. ASSUME NEW c \in Policy.patch.files, c[1] \in ps
            PROVE  <<c[1], c[3]>> \in {<<g, Cand.tree[g]>> : g \in ps}
        <4>1. PICK g \in Files : c = <<g, Base.tree[g], Cand.tree[g]>>
          BY <2>8
        <4>2. c[1] = g /\ c[3] = Cand.tree[g]
          BY <4>1
        <4> QED BY <3>1, <4>2
      <3>2. ASSUME NEW g \in ps
            PROVE  \E c \in Policy.patch.files : c[1] = g /\ c[3] = Cand.tree[g]
        <4>1. <<g, Base.tree[g], Cand.tree[g]>> \in Policy.patch.files
          BY <2>7, <2>8
        <4>2. PICK c : c = <<g, Base.tree[g], Cand.tree[g]>>
          OBVIOUS
        <4>3. c[1] = g /\ c[3] = Cand.tree[g]
          BY <4>2
        <4> QED BY <4>1, <4>2, <4>3
      <3> QED BY <3>1, <3>2
    <2> QED BY <2>3, <2>4, <2>5, <2>6, <2>7, <2>9
  <1>4. ~GatesFail(u)
    <2>1. {g.id : g \in Gates(runs)} = Acceptances(T)
          /\ Cardinality(Gates(runs)) = Cardinality(Acceptances(T))
      BY GatesHold
    <2>2. ASSUME NEW g \in Gates(runs)
          PROVE  g.task = T /\ g.head = Policy.head /\ g.patch = Policy.patch /\ g.passed
      <3>1. /\ g.id \in Acceptances(T)
            /\ g.task = T /\ g.head = Policy.head /\ g.patch = Policy.patch
        BY GatesHold
      <3>2. g.passed = runs[<<"gate", g.id>>].ok
        BY GatesHold
      <3>3. runs[<<"gate", g.id>>].ok
        BY <3>1, KeyForms DEF AllGood
      <3>4. g.passed
        BY <3>2, <3>3, Zenon
      <3> QED BY <3>1, <3>4
    <2> QED BY <1>1, <2>1, <2>2 DEF GatesFail
  <1>5. /\ \A x \in ReviewRoles : u.reviews[x].says = "accept"
        /\ ~ReviewsFail(u)
    <2>1. \A x \in ReviewRoles : /\ u.reviews[x].says = "accept"
                                 /\ u.reviews[x].session = <<"review", <<Start.wf, x>>, x>>
      BY ReviewFacts
    <2>2. u.reviews["reviewer"].session # u.reviews["adversary"].session
      BY <2>1 DEF ReviewRoles
    <2> QED BY <2>1, <2>2 DEF ReviewsFail
  <1>6. ~OrdinaryFails(u)
    BY <1>2, <1>3, <1>4, <1>5 DEF OrdinaryFails
  <1> QED BY <1>5, <1>6 DEF Verdict

\* What the sign phase signs of a clean bundle is readable in the judge phase and
\* verifies there, with nonces never seen.
LEMMA SignedVerifies ==
    ASSUME Workable, NEW r, OfWorkflow(r), r.snap = Cand,
           NEW runs, RanAsPlanned(runs), r.packet = Packet(runs),
           NEW u, IsClean(u, runs, r),
           NEW s, OfWorkflow(s), NEW signed, signed = Sign(s, u, s.wf),
           NEW t, OfWorkflow(t)
    PROVE  /\ SignaturesReadable(t, signed)
           /\ AttestationsVerify(u, signed, {}, TRUE)
  <1>1. u.task = T
    BY DEF IsClean
  <1>2. DOMAIN signed = Roles(T) /\ Roles(T) # {}
    BY <1>1, RolesFacts DEF Sign
  <1>3. ASSUME NEW role \in Roles(T)
        PROVE  signed[role].statement = Expectation(u, role) /\ signed[role].key = s.key
    BY <1>1 DEF Sign
  <1>4. \A role \in Roles(T) : Expectation(u, role).role = role
    BY DEF Expectation
  <1>5. s.key = t.key
    BY DEF OfWorkflow
  <1>6. SignaturesReadable(t, signed)
    BY <1>2, <1>3, <1>4, <1>5 DEF SignaturesReadable
  <1>7. Attestable(u)
    BY AttestableHolds
  <1>8. AttestationsVerify(u, signed, {}, TRUE)
    BY <1>1, <1>2, <1>3, <1>7 DEF AttestationsVerify
  <1> QED BY <1>6, <1>8

(***************************************************************************)
(* What the directories hold: the second inductive invariant.              *)
(***************************************************************************)

\* The request of phase n, with the anchored packet if there is one
Request(n, p) ==
    [wf |-> Start.wf, seq |-> n, task |-> T, patch |-> Start.patch, key |-> Start.key,
     prev |-> IF n = 1 THEN Absent ELSE <<Start.wf, n - 1>>,
     snap |-> IF n = 1 THEN Absent ELSE Cand, packet |-> p]

\* A committed directory whose output, result and transition are the request's
CommittedAs(r, arts, d) ==
    /\ d.output = PhaseOutput(r, arts)
    /\ d.result = PhaseResult(r, d.output, d.ext)
    /\ d.trans = PreparedTransition(r, d.payload)

\* What each phase prepares and commits
SnapshotPayload == [req |-> <<Start.wf, 1>>, policy |-> Policy, base |-> Base, cand |-> Cand]
RedPayload == [req |-> <<Start.wf, 2>>, base |-> Base, cand |-> Cand, recs |-> Reds]
OfflinePayload == OfflineBatch(Request(3, Absent), Cand, Reds)
BrokerPayload(runs) == BatchOf(Request(5, Packet(runs)), Packet(runs))
Attestations(runs, files) ==
    Sign(Request(6, Packet(runs)), Bundle(Request(6, Packet(runs)), files), Start.wf)

SourceArts == [base |-> Base, cand |-> Cand, policy |-> Policy]
RedNames == [a \in Tests |-> Reds[a].snap]
Summaries(b, e) == [r \in ReviewRoles |-> BrokerSummary(b, e, r)]

\* The evidence of the broker executions, for one of the orders in which another
\* executor may have come in
BrokerExt(e, runs, broker) ==
    \E late \in {"none", "before", "after"} :
        /\ broker.rows = Rows(BrokerPayload(runs), late).final
        /\ e = EvidenceOf(BrokerPayload(runs), broker.says, broker.sameId, late)

\* The committed directories of phases 1 to 6
First(d) == CommittedAs(Request(1, Absent), SourceArts, d)
Second(d) == CommittedAs(Request(2, Absent), RedNames, d)
Third(d, runs) ==
    /\ CommittedAs(Request(3, Absent), runs, d)
    /\ d.payload = OfflinePayload /\ d.ext = OuterOffline(OfflinePayload, runs)
Fourth(d, runs) == CommittedAs(Request(4, Absent), Packet(runs), d)
Fifth(d, runs, broker) ==
    /\ CommittedAs(Request(5, Packet(runs)), Summaries(d.payload, d.ext), d)
    /\ d.payload = BrokerPayload(runs) /\ BrokerExt(d.ext, runs, broker)
    /\ d.runtime = RuntimeBinding
Sixth(d, runs, files) == CommittedAs(Request(6, Packet(runs)), Attestations(runs, files), d)

\* The directories committed before phase n
History(n, files, runs, broker) ==
    /\ n > 1 => First(files[1])
    /\ n > 2 => Second(files[2])
    /\ n > 3 => Third(files[3], runs)
    /\ n > 4 => Fourth(files[4], runs)
    /\ n > 5 => Fifth(files[5], runs, broker)
    /\ n > 6 => Sixth(files[6], runs, files)

\* The work in hand
InHand ==
    /\ q.seq = 1 /\ pc = "finalize" => work.payload = SnapshotPayload
    /\ q.seq = 2 /\ pc = "finalize" => work.payload = RedPayload
    /\ q.seq = 3 /\ pc \in {"execute", "finalize"} => work.payload = OfflinePayload
    /\ q.seq = 3 /\ pc = "finalize" => work.ext = OuterOffline(OfflinePayload, truth.offline)
    /\ q.seq = 4 /\ pc = "finalize" => work.payload = Packet(truth.offline)
    /\ q.seq = 5 /\ pc \in {"execute", "finalize"} =>
          work.payload = BrokerPayload(truth.offline)
    /\ q.seq = 5 /\ pc = "finalize" => BrokerExt(work.ext, truth.offline, truth.broker)
    /\ q.seq = 6 /\ pc = "finalize" => work.payload = Attestations(truth.offline, dir)

\* The first phase, which other files cannot disturb
FirstPhase ==
    q.seq = 1 /\ pc # "end" =>
        /\ pc \in {"pair", "after"} => seen = Policy
        /\ pc \in {"after", "finalize"} => snaps = Sources
        /\ worktree.moves = 0 /\ pc # "finalize" => worktree.head = Start.patch.head

\* The outer executions are over
OfflineDone == q.seq > 3 \/ (q.seq = 3 /\ pc = "finalize")
BrokerDone == q.seq > 5 \/ (q.seq = 5 /\ pc = "finalize")

\* The request, the stores, the directories and the work in hand are what an
\* undisturbed workflow makes of the task
Recorded ==
    /\ q = Request(q.seq, IF q.seq < 5 THEN Absent ELSE Packet(truth.offline))
    /\ q.seq > 1 => snaps = Sources
    /\ q.seq > 2 \/ (q.seq = 2 /\ pc = "finalize") => reds = RedStore
    /\ OfflineDone => RanAsPlanned(truth.offline)
    /\ History(q.seq, dir, truth.offline, truth.broker)
    /\ InHand

\* The record holds until a file is put in the wrong place or the workflow ends,
\* and a clean end is a "pass"
RInv ==
    /\ worktree.moves \in Nat
    /\ FirstPhase
    /\ misplaced = {} /\ pc # "end" => Recorded
    /\ Clean /\ (pc = "end" \/ (q.seq = 7 /\ pc = "finalize")) => verdict = "pass"

\* The fields of a request of this workflow.
LEMMA RequestFields ==
    ASSUME NEW n, NEW p
    PROVE  /\ OfWorkflow(Request(n, p))
           /\ Request(n, p).wf = Start.wf /\ Request(n, p).seq = n
           /\ Request(n, p).task = T /\ Request(n, p).patch = Start.patch
           /\ Request(n, p).key = Start.key /\ Request(n, p).packet = p
           /\ n # 1 => Request(n, p).snap = Cand
           /\ RequestSha(Request(n, p)) = <<Start.wf, n>>
  BY DEF Request, OfWorkflow, RequestSha

\* The first request has neither a snapshot nor a packet.
LEMMA FirstRequestIs == Start = Request(1, Absent)
  BY StartAssumption DEF Request, T

\* The successor of a request is the request of the next phase: the snapshot
\* enters with phase 1 and the packet with phase 4.
LEMMA NextIs ==
    ASSUME NEW n \in 1..6, NEW p, NEW arts, NEW ext, NEW r, r = Request(n, p),
           n = 1 => arts.cand = Cand
    PROVE  NextRequest(PhaseResult(r, PhaseOutput(r, arts), ext))
             = Request(n + 1, IF n = 4 THEN arts ELSE p)
  <1>1. PICK x : x = PhaseResult(r, PhaseOutput(r, arts), ext)
    OBVIOUS
  <1>2. x.req = r /\ x.out.arts = arts
    BY <1>1 DEF PhaseResult, PhaseOutput
  <1>3. PhaseSha(x) = <<Start.wf, n>>
    BY <1>2, RequestFields DEF PhaseSha
  <1>4. r.snap = IF n = 1 THEN Absent ELSE Cand
    BY DEF Request
  <1>5. NextRequest(x) = [r EXCEPT !.seq = r.seq + 1, !.prev = PhaseSha(x),
                                   !.snap = IF r.seq = 1 THEN arts.cand ELSE r.snap,
                                   !.packet = IF r.seq = 4 THEN arts ELSE r.packet]
    BY <1>2 DEF NextRequest
  <1>6. r.seq = n /\ r.packet = p /\ r.snap = (IF n = 1 THEN Absent ELSE Cand)
    BY <1>4, RequestFields
  <1>7. (IF r.seq = 1 THEN arts.cand ELSE r.snap) = Cand
    BY <1>6
  <1>8. PICK sn, pk, pr, nx :
           /\ sn = (IF r.seq = 1 THEN arts.cand ELSE r.snap)
           /\ pk = (IF r.seq = 4 THEN arts ELSE r.packet)
           /\ pr = PhaseSha(x) /\ nx = r.seq + 1
    OBVIOUS
  <1>9. NextRequest(x) = [r EXCEPT !.seq = nx, !.prev = pr, !.snap = sn, !.packet = pk]
    BY <1>5, <1>8
  <1>10. [r EXCEPT !.seq = nx, !.prev = pr, !.snap = sn, !.packet = pk]
           = [wf |-> Start.wf, seq |-> nx, task |-> T, patch |-> Start.patch,
              key |-> Start.key, prev |-> pr, snap |-> sn, packet |-> pk]
    <2>1. PICK t : t = [wf |-> Start.wf, seq |-> nx, task |-> T, patch |-> Start.patch,
                        key |-> Start.key, prev |-> pr, snap |-> sn, packet |-> pk]
      OBVIOUS
    <2>2. /\ DOMAIN t = RequestNames /\ t = [i \in DOMAIN t |-> t[i]]
          /\ t.wf = Start.wf /\ t.task = T /\ t.patch = Start.patch /\ t.key = Start.key
          /\ t.seq = nx /\ t.prev = pr /\ t.snap = sn /\ t.packet = pk
      BY <2>1 DEF RequestNames
    <2>3. /\ DOMAIN r = RequestNames /\ r.wf = Start.wf /\ r.task = T
          /\ r.patch = Start.patch /\ r.key = Start.key
      BY DEF Request, RequestNames
    <2>4. PICK s : s = [r EXCEPT !.seq = nx, !.prev = pr, !.snap = sn, !.packet = pk]
      OBVIOUS
    <2>5. /\ DOMAIN s = RequestNames /\ s = [i \in DOMAIN s |-> s[i]]
          /\ s.wf = Start.wf /\ s.task = T /\ s.patch = Start.patch /\ s.key = Start.key
          /\ s.seq = nx /\ s.prev = pr /\ s.snap = sn /\ s.packet = pk
      BY <2>3, <2>4 DEF RequestNames
    <2>6. \A i \in RequestNames : s[i] = t[i]
      BY <2>2, <2>5 DEF RequestNames
    <2> QED BY <2>1, <2>2, <2>4, <2>5, <2>6
  <1>11. nx = n + 1 /\ n + 1 # 1 /\ (n + 1) - 1 = n
         /\ sn = Cand /\ pr = <<Start.wf, n>> /\ pk = (IF n = 4 THEN arts ELSE p)
    BY <1>3, <1>6, <1>7, <1>8
  <1>12. Request(n + 1, pk)
           = [wf |-> Start.wf, seq |-> nx, task |-> T, patch |-> Start.patch,
              key |-> Start.key, prev |-> pr, snap |-> sn, packet |-> pk]
    BY <1>11 DEF Request
  <1> QED BY <1>1, <1>9, <1>10, <1>11, <1>12

\* A committed phase leads to the request of the next.
LEMMA CommittedNext ==
    ASSUME NEW n \in 1..6, NEW p, NEW arts, NEW d, CommittedAs(Request(n, p), arts, d),
           n = 1 => arts.cand = Cand
    PROVE  /\ NextRequest(d.result) = Request(n + 1, IF n = 4 THEN arts ELSE p)
           /\ d.result.req = Request(n, p) /\ d.output.arts = arts
           /\ d.output.req = RequestSha(d.result.req)
           /\ d.result.req.wf = Start.wf /\ d.result.req.seq = n
           /\ d.result.out = d.output /\ d.ext = d.result.ext
           /\ d.trans.req = RequestSha(d.result.req) /\ d.trans.payload = d.payload
  <1>1. PICK r : r = Request(n, p)
    OBVIOUS
  <1>2. /\ d.output = PhaseOutput(r, arts) /\ d.result = PhaseResult(r, d.output, d.ext)
        /\ d.trans = PreparedTransition(r, d.payload)
    BY <1>1 DEF CommittedAs
  <1>3. NextRequest(d.result) = Request(n + 1, IF n = 4 THEN arts ELSE p)
    BY <1>1, <1>2, NextIs
  <1>4. /\ d.output.arts = arts /\ d.output.req = RequestSha(r)
        /\ d.result.req = r /\ d.result.out = d.output /\ d.ext = d.result.ext
        /\ d.trans.req = RequestSha(r) /\ d.trans.payload = d.payload
    BY <1>2 DEF PhaseOutput, PhaseResult, PreparedTransition
  <1>5. r.wf = Start.wf /\ r.seq = n
    BY <1>1, RequestFields
  <1> QED BY <1>1, <1>3, <1>4, <1>5

\* _committed_history accepts the directories of phases 1 to 5 or 6.
LEMMA HistoryLinked ==
    ASSUME NEW n \in {6, 7}, NEW files, NEW runs, NEW broker, History(n, files, runs, broker)
    PROVE  CommittedHistory(Request(n, Packet(runs)), files)
  <1>1. PICK s : s = Request(n, Packet(runs))
    OBVIOUS
  <1>2. s.seq = n /\ s.wf = Start.wf /\ n \in Nat
    BY <1>1, RequestFields
  <1> DEFINE ok(m) == /\ files[m].output.req = RequestSha(files[m].result.req)
                      /\ files[m].result.req.wf = Start.wf /\ files[m].result.req.seq = m
                      /\ files[m].result.out = files[m].output
  <1>3. /\ ok(1) /\ NextRequest(files[1].result) = Request(2, Absent)
        /\ files[1].result.req = Request(1, Absent)
    <2>1. First(files[1])
      BY DEF History
    <2>2. SourceArts.cand = Cand
      BY DEF SourceArts
    <2> QED BY <2>1, <2>2, CommittedNext DEF First
  <1>4. /\ ok(2) /\ NextRequest(files[2].result) = Request(3, Absent)
        /\ files[2].result.req = Request(2, Absent)
    <2>1. Second(files[2])
      BY DEF History
    <2> QED BY <2>1, CommittedNext DEF Second
  <1>5. /\ ok(3) /\ NextRequest(files[3].result) = Request(4, Absent)
        /\ files[3].result.req = Request(3, Absent)
    <2>1. Third(files[3], runs)
      BY DEF History
    <2> QED BY <2>1, CommittedNext DEF Third
  <1>6. /\ ok(4) /\ NextRequest(files[4].result) = Request(5, Packet(runs))
        /\ files[4].result.req = Request(4, Absent)
    <2>1. Fourth(files[4], runs)
      BY DEF History
    <2> QED BY <2>1, CommittedNext DEF Fourth
  <1>7. /\ ok(5) /\ NextRequest(files[5].result) = Request(6, Packet(runs))
        /\ files[5].result.req = Request(5, Packet(runs))
    <2>1. Fifth(files[5], runs, broker)
      BY DEF History
    <2> QED BY <2>1, CommittedNext DEF Fifth
  <1>8. n = 7 => /\ ok(6) /\ NextRequest(files[6].result) = Request(7, Packet(runs))
                 /\ files[6].result.req = Request(6, Packet(runs))
    <2>1. n = 7 => Sixth(files[6], runs, files)
      BY DEF History
    <2> QED BY <2>1, CommittedNext DEF Sixth
  <1> HIDE DEF ok
  <1>9. ASSUME NEW m \in 1..(n - 1)
        PROVE  ok(m) /\ (m > 1 => files[m].result.req = NextRequest(files[m - 1].result))
    <2>1. m = 1 \/ m = 2 \/ m = 3 \/ m = 4 \/ m = 5 \/ (n = 7 /\ m = 6)
      OBVIOUS
    <2>2. CASE m = 1 BY <2>2, <1>3
    <2>3. CASE m = 2
      <3>1. m - 1 = 1 BY <2>3
      <3> QED BY <2>3, <3>1, <1>3, <1>4
    <2>4. CASE m = 3
      <3>1. m - 1 = 2 BY <2>4
      <3> QED BY <2>4, <3>1, <1>4, <1>5
    <2>5. CASE m = 4
      <3>1. m - 1 = 3 BY <2>5
      <3> QED BY <2>5, <3>1, <1>5, <1>6
    <2>6. CASE m = 5
      <3>1. m - 1 = 4 BY <2>6
      <3> QED BY <2>6, <3>1, <1>6, <1>7
    <2>7. CASE n = 7 /\ m = 6
      <3>1. m - 1 = 5 BY <2>7
      <3> QED BY <2>7, <3>1, <1>7, <1>8
    <2> QED BY <2>1, <2>2, <2>3, <2>4, <2>5, <2>6, <2>7
  <1>10. s = NextRequest(files[n - 1].result)
    <2>1. CASE n = 6
      <3>1. n - 1 = 5 BY <2>1
      <3> QED BY <1>1, <1>7, <2>1, <3>1
    <2>2. CASE n = 7
      <3>1. n - 1 = 6 BY <2>2
      <3> QED BY <1>1, <1>8, <2>2, <3>1
    <2> QED BY <2>1, <2>2
  <1> QED BY <1>1, <1>2, <1>9, <1>10 DEF CommittedHistory, ok

\* Bundle and attestations are about the directories of phases 1 to 5.
LEMMA BundleFrame ==
    ASSUME NEW s, NEW t, NEW files, NEW later,
           later[1] = files[1], later[3] = files[3], later[4] = files[4], later[5] = files[5]
    PROVE  Bundle(s, files) = Bundle(t, later)
  BY DEF Bundle

\* Two rows in the ledger, two acceptances and two response ids: the evidence is
\* that of two runs nobody came between.
LEMMA CleanBroker ==
    ASSUME Workable, NEW runs, NEW broker, NEW e, BrokerExt(e, runs, broker),
           broker.says = BothAccept, broker.sameId = FALSE, Cardinality(broker.rows) = 2
    PROVE  e = CleanEvidence(BrokerPayload(runs))
  <1>1. PICK r, p, b : r = Request(5, p) /\ p = Packet(runs) /\ b = BrokerPayload(runs)
    OBVIOUS
  <1>2. OfWorkflow(r) /\ r.packet = p /\ r.snap = Cand
    BY <1>1, RequestFields
  <1>3. b = BatchOf(r, p)
    BY <1>1 DEF BrokerPayload
  <1>4. PICK late : /\ broker.rows = Rows(b, late).final
                    /\ e = EvidenceOf(b, broker.says, broker.sameId, late)
    BY <1>1 DEF BrokerExt
  <1>5. late = "none"
    BY <1>2, <1>3, <1>4, FurtherRow
  <1> QED BY <1>1, <1>4, <1>5 DEF CleanEvidence

\* The fields of the packet.
LEMMA PacketFields ==
    ASSUME NEW runs, NEW p, p = Packet(runs)
    PROVE  /\ p.task = T /\ p.policy = Policy /\ p.gates = Gates(runs)
           /\ p.tdds = Tdds(runs) /\ p.diff = Material
  BY DEF Packet, ReviewPacket

\* The bundle that sign and judge rebuild from the directories is clean if
\* nothing went wrong.
LEMMA CleanBundle ==
    ASSUME Workable, NEW n \in {6, 7}, NEW files, NEW runs, NEW broker,
           History(n, files, runs, broker),
           broker.says = BothAccept, broker.sameId = FALSE, Cardinality(broker.rows) = 2,
           NEW s, NEW u, u = Bundle(s, files), NEW r, r = Request(5, Packet(runs))
    PROVE  IsClean(u, runs, r)
  <1>1. PICK p, a : p = files[4].output.arts /\ a = files[1].output.arts
    OBVIOUS
  <1>2. a = SourceArts
    BY <1>1, CommittedNext DEF History, First, SourceArts
  <1>3. p = Packet(runs)
    BY <1>1, CommittedNext DEF History, Fourth
  <1>4. a.base = Base /\ a.cand = Cand /\ a.policy = Policy
    BY <1>2 DEF SourceArts
  <1>5. files[3].ext.runs = runs
    BY DEF History, Third, OuterOffline
  <1>6. files[5].payload = BatchOf(r, p)
    BY <1>3 DEF History, Fifth, BrokerPayload
  <1>7. files[5].ext = CleanEvidence(files[5].payload)
    <2>1. Fifth(files[5], runs, broker)
      BY DEF History
    <2> QED BY <2>1, CleanBroker DEF Fifth
  <1>8. p.task = T /\ p.gates = Gates(runs) /\ p.tdds = Tdds(runs)
    BY <1>3, PacketFields
  <1>9. /\ u.task = T /\ u.policy = Policy /\ u.packet = p
        /\ u.base = Base /\ u.cand = Cand /\ u.reds = MeasuredReds(T, Base, Cand)
        /\ u.runs = runs /\ u.gates = Gates(runs) /\ u.tdds = Tdds(runs)
        /\ u.batch = BatchOf(r, p) /\ u.outer = CleanEvidence(u.batch)
        /\ u.reviews = [x \in ReviewRoles |-> ParsedReview(u.batch.runs[x], u.outer.runs[x])]
    <2>1. /\ u.task = p.task /\ u.policy = a.policy /\ u.packet = p
          /\ u.base = a.base /\ u.cand = a.cand
          /\ u.reds = MeasuredReds(p.task, a.base, a.cand)
          /\ u.runs = files[3].ext.runs
          /\ u.gates = p.gates /\ u.tdds = p.tdds
          /\ u.batch = files[5].payload /\ u.outer = files[5].ext
      BY <1>1 DEF Bundle
    <2>2. u.reviews = [x \in ReviewRoles |->
                         ParsedReview(files[5].payload.runs[x], files[5].ext.runs[x])]
      BY <1>1 DEF Bundle
    <2>3. u.reviews = [x \in ReviewRoles |-> ParsedReview(u.batch.runs[x], u.outer.runs[x])]
      BY <2>1, <2>2
    <2> QED BY <1>4, <1>5, <1>6, <1>7, <1>8, <2>1, <2>3
  <1> QED BY <1>3, <1>9 DEF IsClean, Reds

\* ... and everything sign and judge measure again agrees with it.
LEMMA ReconstructHolds ==
    ASSUME Workable, NEW n \in {6, 7}, NEW files, NEW runs, RanAsPlanned(runs), NEW broker,
           History(n, files, runs, broker),
           broker.says = BothAccept, broker.sameId = FALSE, Cardinality(broker.rows) = 2,
           NEW s, s = Request(n, Packet(runs))
    PROVE  Reconstructible(s, files, Sources, RedStore)
  <1>1. PICK p, a, u, r : /\ p = files[4].output.arts /\ a = files[1].output.arts
                          /\ u = Bundle(s, files) /\ r = Request(5, Packet(runs))
    OBVIOUS
  <1>2. IsClean(u, runs, r)
    BY <1>1, CleanBundle
  <1>3. p = Packet(runs) /\ a = SourceArts
    BY <1>1, CommittedNext DEF History, First, Fourth, SourceArts
  <1>4. a.base = Base /\ a.cand = Cand /\ a.policy = Policy
    BY <1>3 DEF SourceArts
  <1>5. p.task = T /\ p.policy = Policy /\ p.diff = Material
    BY <1>3, PacketFields
  <1>6. /\ s.task = T /\ s.patch = Start.patch /\ s.snap = Cand /\ s.packet = p
    BY <1>3, RequestFields
  <1>7. CommittedHistory(s, files)
    BY HistoryLinked
  <1>8. ArtifactsAnchored(s, a.policy, p)
    BY <1>4, <1>5, <1>6, PairFacts DEF ArtifactsAnchored
  <1>9. files[2].output.arts = RedNames
    BY CommittedNext DEF History, Second
  <1>10. StoreMeasured(T, a, files[2].output.arts, Sources, RedStore)
    <2>1. DOMAIN RedNames = Tests /\ \A x \in Tests : RedNames[x] = Reds[x].snap
      BY DEF RedNames
    <2>2. {RedNames[x] : x \in DOMAIN RedNames} = {Reds[x].snap : x \in Tests}
      BY <2>1
    <2>3. \A x \in Tests : /\ Verified(RedStore, RedNames[x])
                           /\ RedMeasures(RedNames[x], Base, Cand, TaskSpec[T].paths[x])
      BY <2>1, Stores, RedFacts
    <2> QED BY <1>4, <1>9, <2>1, <2>2, <2>3, Stores DEF StoreMeasured, Tests
  <1>11. SnapshotsAnchored(s, a.policy, p, a)
    BY <1>4, <1>5, <1>6, PairFacts, MaterialHolds DEF SnapshotsAnchored
  <1>12. OfflineRunsBound(files[3], Sources, RedStore)
    <2>1. PICK d, t, b : d = files[3] /\ t = Request(3, Absent) /\ b = OfflinePayload
      OBVIOUS
    <2>2. Third(d, runs)
      BY <2>1 DEF History
    <2>3. /\ d.payload = b /\ d.ext = OuterOffline(b, runs)
          /\ CommittedAs(Request(3, Absent), runs, d)
      BY <2>1, <2>2 DEF Third
    <2>4. /\ d.result.req = t /\ d.output.arts = runs /\ d.ext = d.result.ext
          /\ d.trans.req = RequestSha(d.result.req) /\ d.trans.payload = d.payload
      BY <2>1, <2>3, CommittedNext
    <2>5. OfWorkflow(t) /\ t.task = T /\ t.patch = Start.patch /\ t.snap = Cand
      BY <2>1, RequestFields
    <2>6. b = OfflineBatch(t, Cand, Reds)
      BY <2>1 DEF OfflinePayload
    <2>7. /\ b.req = RequestSha(t) /\ b.wf = t.wf /\ b.task = T
          /\ b.patch = Start.patch /\ b.csnap = Cand
      BY <2>5, <2>6, BatchFacts
    <2>8. OfflineFinal(b, d.ext, Sources, RedStore)
      BY <2>3, <2>5, <2>6, OfflineFinalHolds
    <2>9. d.ext.runs = runs
      BY <2>3 DEF OuterOffline
    <2> QED BY <2>1, <2>3, <2>4, <2>5, <2>7, <2>8, <2>9
            DEF OfflineRunsBound, PayloadBound, ExternalFileBound
  <1>13. BrokerInputsBound(files[5], p, a.cand)
    <2>1. PICK d, b, e : d = files[5] /\ b = d.payload /\ e = d.ext
      OBVIOUS
    <2>2. Fifth(d, runs, broker)
      BY <2>1 DEF History
    <2>3. /\ b = BatchOf(r, p) /\ e = CleanEvidence(b) /\ d.runtime = RuntimeBinding
          /\ CommittedAs(r, Summaries(b, e), d)
      BY <1>1, <1>3, <2>1, <2>2, CleanBroker DEF Fifth, BrokerPayload
    <2>4. /\ d.result.req = r /\ d.output.arts = Summaries(b, e) /\ d.ext = d.result.ext
          /\ d.trans.req = RequestSha(d.result.req) /\ d.trans.payload = d.payload
      <3>1. r = Request(5, p)
        BY <1>1, <1>3
      <3>2. CommittedAs(Request(5, p), Summaries(b, e), d)
        BY <2>3, <3>1
      <3> QED BY <2>1, <3>1, <3>2, CommittedNext
    <2>5. OfWorkflow(r) /\ r.task = T /\ r.snap = Cand /\ r.packet = p
      BY <1>1, <1>3, RequestFields
    <2>6. /\ b.req = RequestSha(r) /\ b.wf = r.wf /\ b.task = T
          /\ b.csnap = Cand /\ b.packet = p /\ b.runtime = RuntimeBinding
          /\ \A x \in ReviewRoles :
                /\ b.runs[x].attempt = 1
                /\ b.runs[x].request = ToolFreeRequest(p, x, 1)
                /\ b.runs[x].boundary = BoundaryEvidence(p, Cand, RuntimeBinding)
      BY <2>3, <2>5, BatchOfFacts
    <2>7. BrokerFinal(b, e)
      BY <2>3, <2>5, BrokerFinalHolds
    <2>8. BatchRebuilt(b, p, Cand, d.runtime)
      BY <2>3, <2>6 DEF BatchRebuilt
    <2>9. \A x \in ReviewRoles : ReviewParses(b.runs[x], e.runs[x])
      BY <2>3, CleanFacts DEF ReviewParses
    <2> QED BY <1>4, <2>1, <2>3, <2>4, <2>5, <2>6, <2>7, <2>8, <2>9
            DEF BrokerInputsBound, PayloadBound, ExternalFileBound, Summaries
  <1>14. /\ OfflineDerivable(u.task, u.policy, u.runs, u.base, u.cand, u.reds)
         /\ u.gates = GateResults(u.task, u.policy, u.runs)
         /\ u.tdds = TddResults(u.task, u.policy, u.runs, u.reds)
    BY <1>2, Derivable DEF IsClean, Gates, Tdds
  <1> QED BY <1>1, <1>6, <1>7, <1>8, <1>10, <1>11, <1>12, <1>13, <1>14 DEF Reconstructible

(***************************************************************************)
(* One lemma for each action.                                              *)
(***************************************************************************)

\* A refusal is only allowed in a workflow in which something went wrong.
LEMMA Refused ==
    ASSUME RInv, Stop, UNCHANGED worktree, ~Clean'
    PROVE  RInv'
  BY DEF RInv, Stop, FirstPhase

\* A step that leaves environment and history alone makes no workflow clean.
LEMMA CleanBefore ==
    ASSUME UNCHANGED <<environment, truth>>, Clean'
    PROVE  Clean
  BY DEF Clean, environment, OwnRunsGood

\* A step that does not end the workflow
LEMMA Continued ==
    ASSUME RInv, worktree'.moves \in Nat, FirstPhase', misplaced' = {} => Recorded',
           pc' # "end", q'.seq # 7 \/ pc' # "finalize"
    PROVE  RInv'
  BY DEF RInv

\* The record speaks of these variables only.
LEMMA RecordedKept ==
    ASSUME Recorded, UNCHANGED <<pc, q, work, dir, snaps, reds, truth>>
    PROVE  Recorded'
  BY DEF Recorded, OfflineDone, InHand

\* A stuttering step keeps the invariant.
LEMMA UndisturbedStep ==
    ASSUME RInv, UNCHANGED vars
    PROVE  RInv'
  <1>1. FirstPhase'
    BY DEF RInv, vars, FirstPhase
  <1>2. misplaced' = {} /\ pc' # "end" => Recorded'
    <2>1. UNCHANGED <<pc, q, work, dir, snaps, reds, truth, misplaced>>
      BY DEF vars
    <2> QED BY <2>1, RecordedKept DEF RInv
  <1>3. Clean' => Clean
    BY DEF vars, Clean, OwnRunsGood
  <1> QED BY <1>1, <1>2, <1>3 DEF RInv, vars

\* A move of the worktree is counted, and disturbs nothing recorded.
LEMMA EditStep ==
    ASSUME RInv, NEW c, EditWorktree(c)
    PROVE  RInv'
  <1>1. /\ worktree' = [head |-> c, moves |-> worktree.moves + 1]
        /\ UNCHANGED <<pc, q, seen, work, dir, snaps, reds, truth, misplaced>>
        /\ pc \in {"prepare", "pair", "after"} /\ q.seq = 1
    BY DEF EditWorktree, evidence
  <1>2. worktree'.moves \in Nat /\ worktree'.moves # 0
    BY <1>1 DEF RInv
  <1>3. FirstPhase'
    BY <1>1, <1>2 DEF RInv, FirstPhase
  <1>4. misplaced' = {} => Recorded'
    <2>1. misplaced' = misplaced /\ pc # "end"
      BY <1>1
    <2>2. UNCHANGED <<pc, q, work, dir, snaps, reds, truth>>
      BY <1>1
    <2> QED BY <2>1, <2>2, RecordedKept DEF RInv
  <1>5. pc' # "end" /\ q'.seq # 7
    BY <1>1
  <1> QED BY <1>2, <1>3, <1>4, <1>5, Continued

\* A file in the wrong place is noted, and nothing is claimed after it.
LEMMA MisplaceStep ==
    ASSUME RInv, NEW w, NEW n, NEW files, Misplace(w, n, files) \/ MisplaceStore(w)
    PROVE  RInv'
  <1>1. /\ UNCHANGED <<worktree, pc, q, seen>>
        /\ misplaced' # {} /\ pc = "prepare"
    BY DEF Misplace, MisplaceStore
  <1>2. FirstPhase'
    BY <1>1 DEF RInv, FirstPhase
  <1>3. pc' # "end" /\ pc' # "finalize"
    BY <1>1
  <1> QED BY <1>1, <1>2, <1>3, Continued DEF RInv

\* The first inspection: a report with the requested patch is the report on the
\* requested commit, and an unmoved worktree gives it.
LEMMA InspectBeforeStep ==
    ASSUME Workable, PInv, RInv, InspectBefore
    PROVE  RInv'
  <1>1. /\ q.seq = 1 /\ pc = "prepare" /\ UNCHANGED <<worktree, misplaced, truth>>
        /\ q.task = T /\ q.patch = Start.patch
    BY DEF InspectBefore, At, environment, PInv, Anchored, T
  <1>2. PICK report : report = PolicyReport(T, worktree.head)
    OBVIOUS
  <1>3. CASE InspectionPasses(report) /\ seen' = report /\ pc' = "pair"
             /\ UNCHANGED <<q, work, evidence, consumed, verdict>>
    <2>1. worktree.head = Start.patch.head
      <3>1. report.patch = Patch(TaskSpec[T].base, worktree.head)
        BY <1>2 DEF PolicyReport
      <3>2. report.patch.head = worktree.head
        BY <3>1 DEF Patch
      <3>3. report.patch = Start.patch
        BY <1>1, <1>3 DEF InspectionPasses
      <3> QED BY <3>2, <3>3
    <2>2. seen' = Policy
      BY <1>2, <1>3, <2>1 DEF Policy
    <2>3. FirstPhase'
      BY <1>1, <1>3, <2>1, <2>2 DEF FirstPhase
    <2>4. misplaced' = {} => Recorded'
      BY <1>1, <1>3 DEF RInv, Recorded, History, InHand, OfflineDone, evidence
    <2>5. worktree'.moves \in Nat /\ pc' # "end" /\ pc' # "finalize"
      BY <1>1, <1>3 DEF RInv
    <2> QED BY <2>3, <2>4, <2>5, Continued
  <1>4. CASE ~InspectionPasses(report) /\ Stop
    <2>1. ASSUME Clean' PROVE FALSE
      <3>1. Clean
        BY <1>1, <2>1, CleanBefore DEF environment
      <3>2. worktree.head = Start.patch.head
        BY <1>1, <3>1 DEF RInv, FirstPhase, Clean
      <3>3. report = Policy
        BY <1>2, <3>2 DEF Policy
      <3>4. InspectionPasses(report)
        BY <1>1, <3>3, PairFacts DEF InspectionPasses
      <3> QED BY <1>4, <3>4
    <2> QED BY <1>1, <1>4, <2>1, Refused
  <1> QED BY <1>1, <1>2, <1>3, <1>4 DEF InspectBefore

\* The pair of snapshots: made of what the report names, which the clone of an
\* unmoved worktree reaches.
LEMMA CreatePairStep ==
    ASSUME Workable, PInv, RInv, CreatePair
    PROVE  RInv'
  <1>1. /\ q.seq = 1 /\ pc = "pair" /\ UNCHANGED <<worktree, misplaced, truth>>
    BY DEF CreatePair, At, environment
  <1>2. seen = Policy
    BY <1>1 DEF RInv, FirstPhase
  <1>3. CASE snaps' = {Entry(s) : s \in SnapshotPair(seen)} /\ pc' = "after"
             /\ UNCHANGED <<q, seen, work, dir, reds, consumed, verdict>>
    <2>1. snaps' = Sources
      <3>1. SnapshotPair(seen) = {Base, Cand}
        BY <1>2, PairFacts DEF SnapshotPair, Base, Cand
      <3> QED BY <1>3, <3>1 DEF Sources
    <2>2. FirstPhase'
      BY <1>1, <1>2, <1>3, <2>1 DEF FirstPhase, RInv
    <2>3. misplaced' = {} => Recorded'
      BY <1>1, <1>3 DEF RInv, Recorded, History, InHand, OfflineDone
    <2>4. worktree'.moves \in Nat /\ pc' # "end" /\ pc' # "finalize"
      BY <1>1, <1>3 DEF RInv
    <2> QED BY <2>2, <2>3, <2>4, Continued
  <1>4. CASE ~({seen.base, seen.head} \subseteq Reach[worktree.head]) /\ Stop
    <2>1. ASSUME Clean' PROVE FALSE
      <3>1. Clean
        BY <1>1, <2>1, CleanBefore DEF environment
      <3>2. worktree.head = Start.patch.head
        BY <1>1, <3>1 DEF RInv, FirstPhase, Clean
      <3>3. {seen.base, seen.head} \subseteq Reach[worktree.head]
        BY <1>2, <3>2, PairFacts DEF Workable, T
      <3> QED BY <1>4, <3>3
    <2> QED BY <1>1, <1>4, <2>1, Refused
  <1> QED BY <1>3, <1>4 DEF CreatePair

\* The second inspection: of an unmoved worktree it gives the first report again.
LEMMA InspectAfterStep ==
    ASSUME Workable, PInv, RInv, InspectAfter
    PROVE  RInv'
  <1>1. /\ q.seq = 1 /\ pc = "after" /\ UNCHANGED misplaced
        /\ q.task = T /\ q.wf = Start.wf
    BY DEF InspectAfter, At, PInv, Anchored, T
  <1>2. seen = Policy /\ snaps = Sources
    BY <1>1 DEF RInv, FirstPhase
  <1>3. PICK report : report = PolicyReport(T, worktree.head)
    OBVIOUS
  <1> DEFINE at(c) == (CHOOSE e \in snaps : e.name.commit = c).name
  <1>4. at(seen.base) = Base /\ at(seen.head) = Cand
    <2>1. snaps = {Entry(Base), Entry(Cand)}
      BY <1>2 DEF Sources
    <2>2. Entry(Base).name = Base /\ Entry(Cand).name = Cand
      BY DEF Entry
    <2>3. /\ Base.commit = seen.base /\ Cand.commit = seen.head
          /\ Base.commit # Cand.commit
      BY <1>2, PairFacts
    <2>4. \A e \in snaps : e.name.commit = seen.base => e = Entry(Base)
      BY <2>1, <2>2, <2>3
    <2>5. \A e \in snaps : e.name.commit = seen.head => e = Entry(Cand)
      BY <2>1, <2>2, <2>3
    <2>6. (CHOOSE e \in snaps : e.name.commit = seen.base) = Entry(Base)
      BY <2>1, <2>2, <2>3, <2>4
    <2>7. (CHOOSE e \in snaps : e.name.commit = seen.head) = Entry(Cand)
      BY <2>1, <2>2, <2>3, <2>5
    <2> QED BY <2>2, <2>6, <2>7
  <1> HIDE DEF at
  <1>5. CASE /\ UnchangedAcross(report, Base, Cand)
             /\ Prepared([req |-> RequestSha(q), policy |-> report,
                          base |-> Base, cand |-> Cand])
             /\ UNCHANGED <<snaps, reds, consumed, verdict>>
             /\ worktree' = [head |-> Absent, moves |-> 0]
    <2>1. report = Policy
      BY <1>2, <1>5 DEF UnchangedAcross
    <2>2. /\ pc' = "finalize" /\ q' = q /\ dir' = dir /\ truth' = truth
          /\ work'.payload = SnapshotPayload
      BY <1>1, <1>5, <2>1 DEF Prepared, SnapshotPayload, RequestSha
    <2>3. FirstPhase'
      BY <1>1, <1>2, <1>5, <2>2 DEF FirstPhase
    <2>4. misplaced' = {} => Recorded'
      BY <1>1, <1>5, <2>2 DEF RInv, Recorded, History, InHand, OfflineDone
    <2>5. worktree'.moves \in Nat /\ pc' # "end" /\ q'.seq # 7
      BY <1>1, <1>5, <2>2
    <2> QED BY <2>3, <2>4, <2>5, Continued
  <1>6. CASE ~UnchangedAcross(report, Base, Cand) /\ Stop /\ UNCHANGED <<worktree, truth>>
    <2>1. ASSUME Clean' PROVE FALSE
      <3>1. Clean
        BY <1>1, <1>6, <2>1, CleanBefore DEF environment
      <3>2. worktree.head = Start.patch.head
        BY <1>1, <3>1 DEF RInv, FirstPhase, Clean
      <3>3. report = Policy
        BY <1>3, <3>2 DEF Policy
      <3>4. UnchangedAcross(report, Base, Cand)
        BY <1>2, <3>3, PairFacts DEF UnchangedAcross
      <3> QED BY <1>6, <3>4
    <2> QED BY <1>6, <2>1, Refused
  <1> QED BY <1>1, <1>3, <1>4, <1>5, <1>6 DEF InspectAfter, at

\* The fields of the request in hand after phase 1.
LEMMA CurrentRequest ==
    ASSUME Recorded, q.seq > 1, q.seq \in 1..7
    PROVE  /\ OfWorkflow(q) /\ q.wf = Start.wf /\ q.task = T /\ q.patch = Start.patch
           /\ q.snap = Cand /\ RequestSha(q) = <<Start.wf, q.seq>>
           /\ q.packet = IF q.seq < 5 THEN Absent ELSE Packet(truth.offline)
  <1>1. PICK n, p : n = q.seq /\ p = IF q.seq < 5 THEN Absent ELSE Packet(truth.offline)
    OBVIOUS
  <1>2. q = Request(n, p) /\ n # 1
    BY <1>1 DEF Recorded
  <1> QED BY <1>1, <1>2, RequestFields

\* The two snapshots of phase 1 are found where later phases look for them.
LEMMA PriorOne ==
    ASSUME Workable, Recorded, q.seq > 1, q.seq \in 1..7
    PROVE  /\ Prior(1).base = Base /\ Prior(1).cand = Cand /\ Prior(1).policy = Policy
           /\ SourcesValid
  <1>1. First(dir[1])
    BY DEF Recorded, History
  <1>2. SourceArts.cand = Cand
    BY DEF SourceArts
  <1>3. Prior(1) = SourceArts
    BY <1>1, <1>2, CommittedNext DEF First, Prior
  <1>4. Prior(1).base = Base /\ Prior(1).cand = Cand /\ Prior(1).policy = Policy
    BY <1>3 DEF SourceArts
  <1>5. snaps = Sources /\ q.snap = Cand
    BY CurrentRequest DEF Recorded
  <1>6. SourcesValid
    BY <1>4, <1>5, Stores DEF SourcesValid
  <1> QED BY <1>4, <1>6

\* The RED snapshots of phase 2 are found there as well, and measure as RED.
LEMMA PriorReds ==
    ASSUME Workable, Recorded, q.seq > 1, q.seq \in 1..7
    PROVE  /\ SourceReds = Reds
           /\ q.seq > 2 => RedsValid
  <1>1. q.task = T /\ Prior(1).base = Base /\ Prior(1).cand = Cand
    BY CurrentRequest, PriorOne
  <1>2. SourceReds = Reds
    BY <1>1 DEF SourceReds, Reds
  <1>3. ASSUME q.seq > 2 PROVE RedsValid
    <2>1. Second(dir[2]) /\ reds = RedStore
      BY <1>3 DEF Recorded, History
    <2>2. Prior(2) = RedNames
      BY <2>1, CommittedNext DEF Second, Prior
    <2>3. DOMAIN RedNames = Tests /\ \A a \in Tests : RedNames[a] = Reds[a].snap
      BY DEF RedNames
    <2>4. \A a \in Tests : /\ Verified(reds, Prior(2)[a])
                           /\ RedMeasures(Prior(2)[a], Base, Cand, TaskSpec[T].paths[a])
      BY <2>1, <2>2, <2>3, Stores, RedFacts
    <2> QED BY <1>1, <2>2, <2>3, <2>4 DEF RedsValid, Tests
  <1> QED BY <1>2, <1>3

\* What a prepare operation that succeeds leaves of the record
LEMMA PreparedStep ==
    ASSUME PInv, RInv, q.seq \in 2..5, pc = "prepare", UNCHANGED environment,
           NEW payload, Prepared(payload), UNCHANGED snaps,
           misplaced = {} /\ q.seq # 2 => UNCHANGED reds,
           misplaced = {} /\ q.seq = 2 => payload = RedPayload /\ reds' = RedStore,
           misplaced = {} /\ q.seq = 3 => payload = OfflinePayload,
           misplaced = {} /\ q.seq = 4 => payload = Packet(truth.offline),
           misplaced = {} /\ q.seq = 5 => payload = BrokerPayload(truth.offline)
    PROVE  RInv'
  <1>1. /\ q' = q /\ dir' = dir /\ truth' = truth /\ work'.payload = payload
        /\ pc' = (IF q.seq \in {3, 5} THEN "execute" ELSE "finalize")
        /\ worktree' = worktree /\ misplaced' = misplaced
    BY DEF Prepared, environment
  <1>2. ASSUME misplaced' = {} PROVE Recorded'
    <2>1. Recorded
      BY <1>1, <1>2 DEF RInv
    <2>2. InHand'
      BY <1>1, <1>2 DEF InHand
    <2>3. OfflineDone' <=> OfflineDone
      BY <1>1 DEF OfflineDone
    <2>4. q.seq > 2 => reds = RedStore /\ reds' = reds
      BY <1>1, <1>2, <2>1 DEF Recorded
    <2>5. reds' = RedStore
      BY <1>1, <1>2, <2>4
    <2> QED BY <1>1, <2>1, <2>2, <2>3, <2>5 DEF Recorded
  <1>3. worktree'.moves \in Nat /\ FirstPhase'
    BY <1>1 DEF RInv, FirstPhase
  <1>4. pc' # "end" /\ q'.seq # 7
    BY <1>1
  <1> QED BY <1>2, <1>3, <1>4, Continued

\* _prepare_red_snapshot finds the two sources it needs.
LEMMA PrepareRedStep ==
    ASSUME Workable, PInv, RInv, PrepareRed
    PROVE  RInv'
  <1>1. q.seq = 2 /\ pc = "prepare" /\ UNCHANGED environment
    BY DEF PrepareRed, At
  <1>2. ASSUME misplaced = {}
        PROVE  /\ RedPreparable
               /\ [req |-> RequestSha(q), base |-> Prior(1).base, cand |-> Prior(1).cand,
                   recs |-> SourceReds] = RedPayload
               /\ {Entry(SourceReds[a].snap) : a \in TaskSpec[q.task].tests} = RedStore
    <2>1. Recorded
      BY <1>1, <1>2 DEF RInv
    <2>2. /\ Prior(1).base = Base /\ Prior(1).cand = Cand /\ SourcesValid
          /\ SourceReds = Reds /\ q.task = T /\ RequestSha(q) = <<Start.wf, 2>>
      BY <1>1, <2>1, PriorOne, PriorReds, CurrentRequest
    <2>3. RedPreparable
      BY <2>2, PairFacts, RedFacts DEF RedPreparable, Tests
    <2> QED BY <2>2, <2>3 DEF RedPayload, RedStore, Tests
  <1>3. CASE /\ RedPreparable
             /\ reds' = {Entry(SourceReds[a].snap) : a \in TaskSpec[q.task].tests}
             /\ Prepared([req |-> RequestSha(q), base |-> Prior(1).base, cand |-> Prior(1).cand,
                          recs |-> SourceReds])
             /\ UNCHANGED <<snaps, consumed, verdict>>
    <2>1. PICK payload : payload = [req |-> RequestSha(q), base |-> Prior(1).base,
                                    cand |-> Prior(1).cand, recs |-> SourceReds]
      OBVIOUS
    <2>2. Prepared(payload) /\ UNCHANGED snaps
      BY <1>3, <2>1
    <2>3. misplaced = {} => payload = RedPayload /\ reds' = RedStore
      BY <1>2, <1>3, <2>1
    <2> QED BY <1>1, <2>2, <2>3, PreparedStep
  <1>4. CASE ~RedPreparable /\ Stop /\ UNCHANGED truth
    <2>1. ASSUME Clean' PROVE FALSE
      <3>1. Clean
        BY <1>1, <1>4, <2>1, CleanBefore
      <3> QED BY <1>2, <1>4, <3>1 DEF Clean
    <2> QED BY <1>1, <1>4, <2>1, Refused DEF environment
  <1> QED BY <1>3, <1>4 DEF PrepareRed

\* _prepare_offline finds the candidate and every RED snapshot.
LEMMA PrepareOfflineStep ==
    ASSUME Workable, PInv, RInv, PrepareOffline
    PROVE  RInv'
  <1>1. q.seq = 3 /\ pc = "prepare" /\ UNCHANGED environment
    BY DEF PrepareOffline, At
  <1>2. ASSUME misplaced = {}
        PROVE  /\ OfflineInputsValid
               /\ OfflineBatch(q, Prior(1).cand, SourceReds) = OfflinePayload
    <2>1. Recorded
      BY <1>1, <1>2 DEF RInv
    <2>2. /\ Prior(1).cand = Cand /\ SourcesValid /\ RedsValid
          /\ SourceReds = Reds /\ q.task = T /\ q.snap = Cand
          /\ snaps = Sources /\ reds = RedStore
      BY <1>1, <2>1, PriorOne, PriorReds, CurrentRequest DEF Recorded
    <2>3. OfflinePreparable(q, Cand, Reds, snaps, reds)
      BY <2>2, Stores, RedFacts DEF OfflinePreparable, Tests
    <2>4. q = Request(3, Absent)
      BY <1>1, <2>1 DEF Recorded
    <2> QED BY <2>2, <2>3, <2>4 DEF OfflineInputsValid, OfflinePayload
  <1>3. CASE /\ OfflineInputsValid
             /\ Prepared(OfflineBatch(q, Prior(1).cand, SourceReds))
             /\ UNCHANGED <<snaps, reds, consumed, verdict>>
    <2>1. PICK payload : payload = OfflineBatch(q, Prior(1).cand, SourceReds)
      OBVIOUS
    <2>2. Prepared(payload) /\ UNCHANGED snaps /\ UNCHANGED reds
      BY <1>3, <2>1
    <2>3. misplaced = {} => payload = OfflinePayload
      BY <1>2, <2>1
    <2> QED BY <1>1, <2>2, <2>3, PreparedStep
  <1>4. CASE ~OfflineInputsValid /\ Stop /\ UNCHANGED truth
    <2>1. ASSUME Clean' PROVE FALSE
      <3>1. Clean
        BY <1>1, <1>4, <2>1, CleanBefore
      <3> QED BY <1>2, <1>4, <3>1 DEF Clean
    <2> QED BY <1>1, <1>4, <2>1, Refused DEF environment
  <1> QED BY <1>3, <1>4 DEF PrepareOffline

\* The offline execution runs what was planned, whatever the outcome.
LEMMA ExecuteOfflineStep ==
    ASSUME Workable, PInv, RInv, NEW bad, NEW log, ExecuteOffline(bad, log)
    PROVE  RInv'
  <1>1. /\ q.seq = 3 /\ pc = "execute" /\ pc' = "finalize"
        /\ UNCHANGED <<environment, q, seen, dir, snaps, reds, consumed, verdict>>
    BY DEF ExecuteOffline, At, evidence
  <1>2. PICK b, runs :
           /\ b = work.payload
           /\ runs = [k \in DOMAIN b.runs |-> RunEvidence(b, k, k # bad, log)]
    OBVIOUS
  <1>3. /\ work' = [work EXCEPT !.ext = OuterOffline(b, runs)]
        /\ truth' = [truth EXCEPT !.ran = @ \cup {"offline"}, !.offline = runs]
    BY <1>2 DEF ExecuteOffline
  <1>4. /\ work'.payload = b /\ work'.ext = OuterOffline(b, runs)
        /\ truth'.offline = runs
    BY <1>2, <1>3 DEF PInv, Shaped
  <1>5. ASSUME misplaced' = {} PROVE Recorded'
    <2>1. Recorded
      BY <1>1, <1>5 DEF RInv, environment
    <2>2. b = OfflinePayload
      BY <1>1, <1>2, <2>1 DEF Recorded, InHand
    <2>3. RanAsPlanned(runs)
      <3>1. PICK r : r = Request(3, Absent)
        OBVIOUS
      <3>2. OfWorkflow(r) /\ b = OfflineBatch(r, Cand, Reds)
        BY <2>2, <3>1, RequestFields DEF OfflinePayload
      <3>3. /\ b.task = T /\ b.patch = Start.patch /\ DOMAIN b.runs = OfflineKeys(T)
            /\ \A k \in OfflineKeys(T) : b.runs[k] = Plan(k)
        BY <3>2, BatchFacts
      <3>4. ASSUME NEW k \in OfflineKeys(T)
            PROVE  /\ runs[k].plan = Plan(k) /\ runs[k].commit = Plan(k).exec.commit
                   /\ runs[k].task = T /\ runs[k].patch = Start.patch
        <4>1. runs[k] = RunEvidence(b, k, k # bad, log)
          BY <1>2, <3>3
        <4> QED BY <3>3, <4>1 DEF RunEvidence
      <3>5. DOMAIN runs = OfflineKeys(T)
        BY <1>2, <3>3
      <3> QED BY <3>4, <3>5 DEF RanAsPlanned
    <2>4. InHand'
      BY <1>1, <1>4, <2>2 DEF InHand
    <2>5. History(q.seq, dir, truth.offline, truth.broker)'
      BY <1>1, <2>1 DEF Recorded, History
    <2>6. q' = Request(q'.seq, IF q'.seq < 5 THEN Absent ELSE Packet(truth'.offline))
      BY <1>1, <2>1 DEF Recorded
    <2>7. snaps' = Sources /\ reds' = RedStore
      BY <1>1, <2>1 DEF Recorded
    <2> QED BY <1>4, <2>3, <2>4, <2>5, <2>6, <2>7 DEF Recorded
  <1>6. worktree'.moves \in Nat /\ FirstPhase'
    BY <1>1 DEF RInv, FirstPhase, environment
  <1> QED BY <1>1, <1>5, <1>6, Continued

\* The packet phase builds a packet of runs that ended as expected.
LEMMA PreparePacketStep ==
    ASSUME Workable, PInv, RInv, PreparePacket
    PROVE  RInv'
  <1>1. q.seq = 4 /\ pc = "prepare" /\ UNCHANGED environment
    BY DEF PreparePacket, At
  <1>2. PICK runs : runs = truth.offline
    OBVIOUS
  <1>3. ASSUME misplaced = {}
        PROVE  /\ PacketFrom(q, Prior(1).policy, Prior(3), Prior(1).base, Prior(1).cand,
                             SourceReds) = Packet(runs)
               /\ AllGood(runs) => PacketReady
               /\ DOMAIN runs = OfflineKeys(T)
    <2>1. Recorded
      BY <1>1, <1>3 DEF RInv
    <2>2. /\ Prior(1).base = Base /\ Prior(1).cand = Cand /\ Prior(1).policy = Policy
          /\ SourcesValid /\ RedsValid /\ SourceReds = Reds
          /\ q.task = T /\ q.snap = Cand /\ OfWorkflow(q)
      BY <1>1, <2>1, PriorOne, PriorReds, CurrentRequest
    <2>3. RanAsPlanned(runs) /\ Third(dir[3], runs)
      BY <1>1, <1>2, <2>1 DEF Recorded, OfflineDone, History
    <2>4. Prior(3) = runs
      BY <2>3, CommittedNext DEF Third, Prior
    <2>5. PacketFrom(q, Policy, runs, Base, Cand, Reds) = Packet(runs)
      BY <2>2 DEF PacketFrom, Packet, Gates, Tdds, Material
    <2>6. AllGood(runs) => PacketBuildable(q, Policy, runs, Base, Cand, Reds)
      BY <2>2, <2>3, PacketBuilds
    <2> QED BY <2>2, <2>3, <2>4, <2>5, <2>6 DEF PacketReady, RanAsPlanned
  <1>4. CASE /\ PacketReady
             /\ Prepared(PacketFrom(q, Prior(1).policy, Prior(3), Prior(1).base,
                                    Prior(1).cand, SourceReds))
             /\ UNCHANGED <<snaps, reds, consumed, verdict>>
    <2>1. PICK payload : payload = PacketFrom(q, Prior(1).policy, Prior(3), Prior(1).base,
                                              Prior(1).cand, SourceReds)
      OBVIOUS
    <2>2. Prepared(payload) /\ UNCHANGED snaps /\ UNCHANGED reds
      BY <1>4, <2>1
    <2>3. misplaced = {} => payload = Packet(truth.offline)
      BY <1>2, <1>3, <2>1
    <2> QED BY <1>1, <2>2, <2>3, PreparedStep
  <1>5. CASE ~PacketReady /\ Stop /\ UNCHANGED truth
    <2>1. ASSUME Clean' PROVE FALSE
      <3>1. Clean
        BY <1>1, <1>5, <2>1, CleanBefore
      <3>2. "offline" \in truth.ran
        BY <1>1 DEF PInv, RanOffline
      <3>3. \A k \in DOMAIN runs : runs[k].ok
        BY <1>2, <3>1, <3>2 DEF Clean, OwnRunsGood
      <3>4. AllGood(runs)
        BY <1>3, <3>1, <3>3 DEF AllGood, Clean
      <3> QED BY <1>3, <1>5, <3>1, <3>4 DEF Clean
    <2> QED BY <1>1, <1>5, <2>1, Refused DEF environment
  <1> QED BY <1>4, <1>5 DEF PreparePacket

\* _prepare_broker finds the anchored packet within its limits.
LEMMA PrepareBrokerStep ==
    ASSUME Workable, PInv, RInv, PrepareBroker
    PROVE  RInv'
  <1>1. q.seq = 5 /\ pc = "prepare" /\ UNCHANGED environment
    BY DEF PrepareBroker, At
  <1>2. ASSUME misplaced = {}
        PROVE  /\ BrokerReady
               /\ BrokerBatch(q, Prior(4), Prior(1).cand, RuntimeBinding, q.wf)
                    = BrokerPayload(truth.offline)
    <2>1. Recorded
      BY <1>1, <1>2 DEF RInv
    <2>2. PICK p, b : p = Packet(truth.offline) /\ b = BatchOf(q, p)
      OBVIOUS
    <2>3. /\ Prior(1).cand = Cand /\ SourcesValid /\ q.packet = p
          /\ q.task = T /\ q.snap = Cand /\ OfWorkflow(q) /\ q.wf = Start.wf
      BY <1>1, <2>1, <2>2, PriorOne, CurrentRequest
    <2>4. Prior(4) = p
      <3>1. Fourth(dir[4], truth.offline)
        BY <1>1, <2>1 DEF Recorded, History
      <3> QED BY <2>2, <3>1, CommittedNext DEF Fourth, Prior
    <2>5. p.task = T
      BY <2>2, PacketFields
    <2>6. BrokerBatchWellFormed(b)
      BY <2>2, <2>3, BatchOfFacts
    <2>7. b = BrokerBatch(q, Prior(4), Prior(1).cand, RuntimeBinding, q.wf)
      BY <2>2, <2>3, <2>4 DEF BatchOf
    <2>8. b = BrokerPayload(truth.offline)
      <3>1. q = Request(5, p)
        BY <1>1, <2>1, <2>2 DEF Recorded
      <3> QED BY <2>2, <3>1 DEF BrokerPayload
    <2> QED BY <2>3, <2>4, <2>5, <2>6, <2>7, <2>8 DEF BrokerReady, InvocationsValid
  <1>3. CASE /\ BrokerReady
             /\ Prepared(BrokerBatch(q, Prior(4), Prior(1).cand, RuntimeBinding, q.wf))
             /\ UNCHANGED <<snaps, reds, consumed, verdict>>
    <2>1. PICK payload :
             payload = BrokerBatch(q, Prior(4), Prior(1).cand, RuntimeBinding, q.wf)
      OBVIOUS
    <2>2. Prepared(payload) /\ UNCHANGED snaps /\ UNCHANGED reds
      BY <1>3, <2>1
    <2>3. misplaced = {} => payload = BrokerPayload(truth.offline)
      BY <1>2, <2>1
    <2> QED BY <1>1, <2>2, <2>3, PreparedStep
  <1>4. CASE ~BrokerReady /\ Stop /\ UNCHANGED truth
    <2>1. ASSUME Clean' PROVE FALSE
      <3>1. Clean
        BY <1>1, <1>4, <2>1, CleanBefore
      <3> QED BY <1>2, <1>4, <3>1 DEF Clean
    <2> QED BY <1>1, <1>4, <2>1, Refused DEF environment
  <1> QED BY <1>3, <1>4 DEF PrepareBroker

\* The broker execution leaves one of the ledgers that BrokerExt allows.
LEMMA ExecuteBrokerStep ==
    ASSUME Workable, PInv, RInv, NEW says, NEW sameId, NEW late \in {"none", "before", "after"},
           ExecuteBroker(says, sameId, late)
    PROVE  RInv'
  <1>1. /\ q.seq = 5 /\ pc = "execute" /\ pc' = "finalize"
        /\ UNCHANGED <<environment, q, seen, dir, snaps, reds, consumed, verdict>>
        /\ q.wf = Start.wf
    BY DEF ExecuteBroker, At, evidence, PInv, Anchored
  <1>2. PICK b, e : b = work.payload /\ e = EvidenceOf(b, says, sameId, late)
    OBVIOUS
  <1>3. work' = [work EXCEPT !.ext = e]
    BY <1>1, <1>2 DEF ExecuteBroker, EvidenceOf
  <1>4. truth' = [truth EXCEPT !.ran = @ \cup {"broker"}, !.broker =
                    [says |-> says, sameId |-> sameId, rows |-> Rows(b, late).final,
                     packet |-> b.packet]]
    BY <1>2 DEF ExecuteBroker
  <1>5. /\ work'.payload = b /\ work'.ext = e
        /\ truth'.offline = truth.offline
        /\ truth'.broker.rows = Rows(b, late).final
        /\ truth'.broker.says = says /\ truth'.broker.sameId = sameId
    BY <1>2, <1>3, <1>4 DEF PInv, Shaped
  <1>6. ASSUME misplaced' = {} PROVE Recorded'
    <2>1. Recorded
      BY <1>1, <1>6 DEF RInv, environment
    <2>2. b = BrokerPayload(truth.offline)
      BY <1>1, <1>2, <2>1 DEF Recorded, InHand
    <2>3. BrokerExt(e, truth'.offline, truth'.broker)
      BY <1>2, <1>5, <2>2 DEF BrokerExt
    <2>4. InHand'
      BY <1>1, <1>5, <2>2, <2>3 DEF InHand
    <2>5. History(q.seq, dir, truth.offline, truth.broker)'
      BY <1>1, <1>5, <2>1 DEF Recorded, History
    <2>6. RanAsPlanned(truth'.offline)
      BY <1>1, <1>5, <2>1 DEF Recorded, OfflineDone
    <2>7. /\ q' = Request(q'.seq, IF q'.seq < 5 THEN Absent ELSE Packet(truth'.offline))
          /\ snaps' = Sources /\ reds' = RedStore
      BY <1>1, <1>5, <2>1 DEF Recorded
    <2> QED BY <2>4, <2>5, <2>6, <2>7 DEF Recorded
  <1>7. worktree'.moves \in Nat /\ FirstPhase'
    BY <1>1 DEF RInv, FirstPhase, environment
  <1> QED BY <1>1, <1>6, <1>7, Continued

\* Once both brokers ran and nothing went wrong
LEMMA BrokerWasClean ==
    ASSUME PInv, Clean, BrokerDone
    PROVE  /\ truth.broker.says = BothAccept /\ truth.broker.sameId = FALSE
           /\ Cardinality(truth.broker.rows) = 2
  <1>1. "broker" \in truth.ran /\ truth.broker.sameId \in BOOLEAN
    BY DEF PInv, RanBroker, BrokerDone
  <1>2. truth.broker.says = BothAccept /\ ~truth.broker.sameId
        /\ Cardinality(truth.broker.rows) = 2
    BY <1>1 DEF Clean, OwnRunsGood
  <1> QED BY <1>1, <1>2

\* The sign phase finds a bundle it can reconstruct and attest.
LEMMA PrepareSignStep ==
    ASSUME Workable, PInv, RInv, NEW key, PrepareSign(key)
    PROVE  RInv'
  <1>1. q.seq = 6 /\ pc = "prepare" /\ UNCHANGED environment
        /\ truth' = [truth EXCEPT !.key = key]
    BY DEF PrepareSign, At
  <1>2. /\ truth'.ran = truth.ran /\ truth'.offline = truth.offline
        /\ truth'.broker = truth.broker /\ truth'.timely = truth.timely /\ truth'.key = key
    BY <1>1 DEF PInv, Shaped
  <1>3. PICK runs : runs = truth.offline
    OBVIOUS
  <1>4. CASE /\ Signable(key)
             /\ work' = [payload |-> Sign(q, Bundle(q, dir), q.wf), ext |-> Absent]
             /\ pc' = "finalize"
             /\ UNCHANGED <<q, seen, evidence, consumed, verdict>>
    <2>1. /\ UNCHANGED <<q, dir, snaps, reds, worktree, misplaced>>
          /\ work'.payload = Sign(q, Bundle(q, dir), q.wf)
      BY <1>1, <1>4 DEF evidence, environment
    <2>2. ASSUME misplaced' = {} PROVE Recorded'
      <3>1. Recorded
        BY <1>1, <2>1, <2>2 DEF RInv
      <3>2. q = Request(6, Packet(truth.offline)) /\ q.wf = Start.wf
        BY <1>1, <3>1, CurrentRequest DEF Recorded
      <3>3. work'.payload = Attestations(truth'.offline, dir')
        BY <1>2, <2>1, <3>2 DEF Attestations
      <3>4. InHand'
        BY <1>1, <2>1, <3>3 DEF InHand
      <3>5. OfflineDone /\ RanAsPlanned(truth'.offline)
        BY <1>1, <1>2, <3>1 DEF Recorded, OfflineDone
      <3>6. History(q.seq, dir, truth.offline, truth.broker)'
        BY <1>2, <2>1, <3>1 DEF Recorded
      <3> QED BY <1>1, <1>2, <2>1, <3>1, <3>4, <3>5, <3>6 DEF Recorded
    <2>3. worktree'.moves \in Nat /\ FirstPhase' /\ pc' # "end" /\ q'.seq # 7
      BY <1>1, <1>4, <2>1 DEF RInv, FirstPhase
    <2> QED BY <2>2, <2>3, Continued
  <1>5. CASE ~Signable(key) /\ Stop
    <2>1. ASSUME Clean' PROVE FALSE
      <3>1. key = Start.key /\ worktree.moves = 0 /\ misplaced = {}
        BY <1>1, <1>2, <2>1 DEF Clean, OwnRunsGood, environment
      <3>3. Recorded
        BY <1>1, <3>1 DEF RInv
      <3>4. /\ truth.broker.says = BothAccept /\ truth.broker.sameId = FALSE
            /\ Cardinality(truth.broker.rows) = 2
        <4>1. "broker" \in truth.ran /\ truth.broker.sameId \in BOOLEAN
          BY <1>1 DEF PInv, RanBroker
        <4>2. truth.broker.says = BothAccept /\ ~truth.broker.sameId
              /\ Cardinality(truth.broker.rows) = 2
          BY <1>2, <2>1, <4>1 DEF Clean, OwnRunsGood
        <4> QED BY <4>1, <4>2
      <3>5. /\ q = Request(6, Packet(runs)) /\ RanAsPlanned(runs)
            /\ History(6, dir, runs, truth.broker)
            /\ snaps = Sources /\ reds = RedStore
            /\ OfWorkflow(q) /\ q.key = Start.key
        BY <1>1, <1>3, <3>3, CurrentRequest DEF Recorded, OfflineDone, OfWorkflow
      <3>6. Reconstructible(q, dir, snaps, reds)
        BY <3>4, <3>5, ReconstructHolds
      <3>7. PICK u, r : u = Bundle(q, dir) /\ r = Request(5, Packet(runs))
        OBVIOUS
      <3>8. IsClean(u, runs, r)
        BY <3>4, <3>5, <3>7, CleanBundle
      <3>9. OfWorkflow(r) /\ r.snap = Cand /\ r.packet = Packet(runs)
        BY <3>7, RequestFields
      <3>10. Attestable(u)
        BY <3>5, <3>8, <3>9, AttestableHolds
      <3>11. Signable(key)
        BY <3>1, <3>5, <3>6, <3>7, <3>10 DEF Signable
      <3> QED BY <1>5, <3>11
    <2> QED BY <1>1, <1>5, <2>1, Refused DEF environment
  <1> QED BY <1>4, <1>5 DEF PrepareSign

\* The judge finds the same bundle, verifies what was signed of it, and passes.
LEMMA PrepareJudgeStep ==
    ASSUME Workable, PInv, RInv, NEW fresh \in BOOLEAN, PrepareJudge(fresh)
    PROVE  RInv'
  <1>1. q.seq = 7 /\ pc = "prepare" /\ UNCHANGED environment
        /\ truth' = [truth EXCEPT !.timely = fresh]
    BY DEF PrepareJudge, At
  <1>2. /\ truth'.ran = truth.ran /\ truth'.offline = truth.offline
        /\ truth'.broker = truth.broker /\ truth'.timely = fresh /\ truth'.key = truth.key
    BY <1>1 DEF PInv, Shaped
  <1>3. PICK runs, u, r, s, signed :
           /\ runs = truth.offline /\ u = Bundle(q, dir) /\ r = Request(5, Packet(runs))
           /\ s = Request(6, Packet(runs)) /\ signed = Prior(6)
    OBVIOUS
  \* what holds of the evidence if nothing went wrong
  <1>4. ASSUME Clean'
        PROVE  /\ Judgeable
               /\ AttestationsVerify(u, signed, consumed, fresh)
               /\ Verdict(u, TRUE) = "pass"
    <2>1. worktree.moves = 0 /\ misplaced = {} /\ fresh = TRUE
      BY <1>1, <1>2, <1>4 DEF Clean, OwnRunsGood, environment
    <2>2. Recorded
      BY <1>1, <2>1 DEF RInv
    <2>3. /\ truth.broker.says = BothAccept /\ truth.broker.sameId = FALSE
          /\ Cardinality(truth.broker.rows) = 2
      <3>1. "broker" \in truth.ran /\ truth.broker.sameId \in BOOLEAN
        BY <1>1 DEF PInv, RanBroker
      <3>2. truth.broker.says = BothAccept /\ ~truth.broker.sameId
            /\ Cardinality(truth.broker.rows) = 2
        BY <1>2, <1>4, <3>1 DEF Clean, OwnRunsGood
      <3> QED BY <3>1, <3>2
    <2>4. /\ q = Request(7, Packet(runs)) /\ RanAsPlanned(runs)
          /\ History(7, dir, runs, truth.broker)
          /\ snaps = Sources /\ reds = RedStore /\ OfWorkflow(q)
      BY <1>1, <1>3, <2>2, CurrentRequest DEF Recorded, OfflineDone
    <2>5. Reconstructible(q, dir, snaps, reds)
      BY <2>3, <2>4, ReconstructHolds
    <2>6. IsClean(u, runs, r)
      BY <1>3, <2>3, <2>4, CleanBundle
    <2>7. /\ OfWorkflow(r) /\ r.snap = Cand /\ r.packet = Packet(runs)
          /\ OfWorkflow(s) /\ s.wf = Start.wf
      BY <1>3, RequestFields
    <2>8. AllGood(runs)
      <3>1. "offline" \in truth.ran
        BY <1>1 DEF PInv, RanOffline
      <3>2. \A k \in DOMAIN runs : runs[k].ok
        BY <1>2, <1>3, <1>4, <3>1 DEF Clean, OwnRunsGood
      <3> QED BY <2>4, <3>2 DEF AllGood, RanAsPlanned
    <2>9. Verdict(u, TRUE) = "pass"
      BY <2>4, <2>6, <2>7, <2>8, JudgeAccepts
    <2>10. signed = Sign(s, u, s.wf)
      <3>1. Sixth(dir[6], runs, dir)
        BY <2>4 DEF History
      <3>2. signed = Attestations(runs, dir)
        BY <1>3, <3>1, CommittedNext DEF Sixth, Prior
      <3>3. Bundle(s, dir) = u
        BY <1>3 DEF Bundle
      <3> QED BY <1>3, <2>7, <3>2, <3>3 DEF Attestations
    <2>11. /\ SignaturesReadable(q, signed)
           /\ AttestationsVerify(u, signed, {}, TRUE)
      BY <2>4, <2>6, <2>7, <2>10, SignedVerifies
    <2>12. consumed = {}
      BY <1>1 DEF PInv, Judged
    <2> QED BY <1>3, <2>1, <2>5, <2>9, <2>11, <2>12 DEF Judgeable
  <1>5. CASE /\ Judgeable
             /\ LET b == Bundle(q, dir)
                    verified == AttestationsVerify(b, Prior(6), consumed, fresh)
                IN  /\ verdict' = Verdict(b, verified)
                    /\ consumed' = IF verified
                                   THEN consumed \cup {Prior(6)[x].nonce : x \in DOMAIN Prior(6)}
                                   ELSE consumed
                    /\ work' = [payload |-> verdict', ext |-> Absent]
             /\ pc' = "finalize"
             /\ UNCHANGED <<q, seen, evidence>>
    <2>1. /\ UNCHANGED <<q, dir, snaps, reds, worktree, misplaced>> /\ pc' = "finalize"
          /\ verdict' = Verdict(u, AttestationsVerify(u, signed, consumed, fresh))
      BY <1>1, <1>3, <1>5 DEF evidence, environment
    <2>2. ASSUME misplaced' = {} PROVE Recorded'
      <3>1. Recorded
        BY <1>1, <2>1, <2>2 DEF RInv
      <3>2. InHand'
        BY <1>1, <2>1 DEF InHand
      <3>3. OfflineDone /\ RanAsPlanned(truth'.offline)
        BY <1>1, <1>2, <3>1 DEF Recorded, OfflineDone
      <3>4. History(q.seq, dir, truth.offline, truth.broker)'
        BY <1>2, <2>1, <3>1 DEF Recorded
      <3> QED BY <1>1, <1>2, <2>1, <3>1, <3>2, <3>3, <3>4 DEF Recorded
    <2>3. ASSUME Clean' PROVE verdict' = "pass"
      <3>1. AttestationsVerify(u, signed, consumed, fresh) = TRUE
        BY <1>4, <2>3 DEF AttestationsVerify
      <3> QED BY <1>4, <2>1, <2>3, <3>1
    <2>4. worktree'.moves \in Nat /\ FirstPhase'
      BY <1>1, <2>1 DEF RInv, FirstPhase
    <2> QED BY <2>2, <2>3, <2>4 DEF RInv
  <1>6. CASE ~Judgeable /\ Stop
    <2>1. ~Clean'
      BY <1>4, <1>6
    <2> QED BY <1>1, <1>6, <2>1, Refused DEF environment
  <1> QED BY <1>5, <1>6 DEF PrepareJudge

\* What a commit leaves in the directory of its phase
LEMMA CommitIs ==
    ASSUME PInv, q.seq \in 1..7, NEW arts, Commit(arts), NEW d, d = dir'[q.seq]
    PROVE  /\ CommittedAs(q, arts, d)
           /\ d.payload = work.payload /\ d.ext = work.ext
           /\ q.seq = 5 => d.runtime = RuntimeBinding
           /\ d.result = PhaseResult(q, PhaseOutput(q, arts), work.ext)
           /\ \A n \in 1..7 : n # q.seq => dir'[n] = dir[n]
           /\ q.seq = 7 => pc' = "end" /\ q' = q
           /\ q.seq # 7 => pc' = "prepare" /\ q' = NextRequest(d.result)
           /\ UNCHANGED <<seen, snaps, reds, consumed, truth>>
  <1>1. PICK output, result, rec :
           /\ output = PhaseOutput(q, arts) /\ result = PhaseResult(q, output, work.ext)
           /\ rec = [result |-> result, output |-> output, payload |-> work.payload,
                     trans |-> PreparedTransition(q, work.payload), ext |-> work.ext,
                     runtime |-> IF q.seq = 5 THEN RuntimeBinding ELSE Absent]
    OBVIOUS
  <1>2. /\ dir' = [dir EXCEPT ![q.seq] = rec]
        /\ IF q.seq = 7 THEN pc' = "end" /\ q' = q
                        ELSE pc' = "prepare" /\ q' = NextRequest(result)
        /\ UNCHANGED <<seen, snaps, reds, consumed, truth>>
    BY <1>1 DEF Commit
  <1>3. DOMAIN dir = 1..7
    BY DEF PInv, Shaped
  <1>4. d = rec /\ \A n \in 1..7 : n # q.seq => dir'[n] = dir[n]
    BY <1>2, <1>3
  <1>5. /\ d.result = result /\ d.output = output /\ d.payload = work.payload
        /\ d.trans = PreparedTransition(q, work.payload) /\ d.ext = work.ext
        /\ q.seq = 5 => d.runtime = RuntimeBinding
    BY <1>1, <1>4
  <1>6. CommittedAs(q, arts, d)
    BY <1>1, <1>5 DEF CommittedAs
  <1> QED BY <1>1, <1>2, <1>4, <1>5, <1>6

\* A commit before the last phase, of what the record expects
LEMMA CommitStep ==
    ASSUME PInv, RInv, q.seq \in 1..6, pc = "finalize", UNCHANGED environment,
           NEW arts, Commit(arts),
           misplaced = {} =>
               /\ q.seq = 1 => arts = SourceArts
               /\ q.seq = 2 => arts = RedNames
               /\ q.seq = 3 => arts = truth.offline
               /\ q.seq = 4 => arts = Packet(truth.offline)
               /\ q.seq = 5 => arts = Summaries(work.payload, work.ext)
               /\ q.seq = 6 => arts = work.payload
    PROVE  RInv'
  <1>1. PICK d, n : d = dir'[q.seq] /\ n = q.seq
    OBVIOUS
  <1>2. /\ CommittedAs(q, arts, d) /\ d.payload = work.payload /\ d.ext = work.ext
        /\ n = 5 => d.runtime = RuntimeBinding
        /\ d.result = PhaseResult(q, PhaseOutput(q, arts), work.ext)
        /\ \A m \in 1..7 : m # n => dir'[m] = dir[m]
        /\ pc' = "prepare" /\ q' = NextRequest(d.result)
        /\ UNCHANGED <<seen, snaps, reds, consumed, truth>>
    BY <1>1, CommitIs
  <1>3. q'.seq = n + 1
    BY <1>1, <1>2, Successor DEF PhaseResult, PInv
  <1>4. ASSUME misplaced' = {} PROVE Recorded'
    <2>1. Recorded /\ misplaced = {}
      BY <1>4 DEF RInv, environment
    <2>2. PICK p, runs : runs = truth.offline
                         /\ p = IF n < 5 THEN Absent ELSE Packet(runs)
      OBVIOUS
    <2>3. q = Request(n, p)
      BY <1>1, <2>1, <2>2 DEF Recorded
    <2>4. n = 1 => arts.cand = Cand
      BY <1>1, <2>1 DEF SourceArts
    <2>5. q' = Request(n + 1, IF n = 4 THEN arts ELSE p)
      BY <1>1, <1>2, <2>3, <2>4, NextIs
    <2>6. (IF n = 4 THEN arts ELSE p) = IF n + 1 < 5 THEN Absent ELSE Packet(runs)
      BY <1>1, <2>1, <2>2
    <2>7. q' = Request(q'.seq, IF q'.seq < 5 THEN Absent ELSE Packet(truth'.offline))
      BY <1>2, <1>3, <2>2, <2>5, <2>6
    <2>8. snaps' = Sources
      BY <1>1, <1>2, <2>1 DEF Recorded, RInv, FirstPhase
    <2>9. q'.seq > 2 => reds' = RedStore
      BY <1>1, <1>2, <1>3, <2>1 DEF Recorded
    <2>10. OfflineDone' => RanAsPlanned(truth'.offline)
      BY <1>1, <1>2, <1>3, <2>1 DEF Recorded, OfflineDone
    <2>11. InHand'
      BY <1>2 DEF InHand
    <2>12. History(n + 1, dir', runs, truth.broker)
      <3>1. History(n, dir, runs, truth.broker)
        BY <1>1, <2>1, <2>2 DEF Recorded
      <3>2. CASE n = 1
        <4>1. First(dir'[1])
          BY <1>1, <1>2, <2>1, <2>2, <2>3, <3>2 DEF First
        <4> QED BY <3>2, <4>1 DEF History
      <3>3. CASE n = 2
        <4>1. Second(dir'[2])
          BY <1>1, <1>2, <2>1, <2>2, <2>3, <3>3 DEF Second
        <4>2. dir'[1] = dir[1]
          BY <1>2, <3>3
        <4> QED BY <3>1, <3>3, <4>1, <4>2 DEF History
      <3>4. CASE n = 3
        <4>1. work.payload = OfflinePayload /\ work.ext = OuterOffline(OfflinePayload, runs)
          BY <1>1, <2>1, <2>2, <3>4 DEF Recorded, InHand
        <4>2. Third(dir'[3], runs)
          BY <1>1, <1>2, <2>1, <2>2, <2>3, <3>4, <4>1 DEF Third
        <4>3. dir'[1] = dir[1] /\ dir'[2] = dir[2]
          BY <1>2, <3>4
        <4> QED BY <3>1, <3>4, <4>2, <4>3 DEF History
      <3>5. CASE n = 4
        <4>1. Fourth(dir'[4], runs)
          BY <1>1, <1>2, <2>1, <2>2, <2>3, <3>5 DEF Fourth
        <4>2. dir'[1] = dir[1] /\ dir'[2] = dir[2] /\ dir'[3] = dir[3]
          BY <1>2, <3>5
        <4> QED BY <3>1, <3>5, <4>1, <4>2 DEF History
      <3>6. CASE n = 5
        <4>1. work.payload = BrokerPayload(runs) /\ BrokerExt(work.ext, runs, truth.broker)
          BY <1>1, <2>1, <2>2, <3>6 DEF Recorded, InHand
        <4>2. p = Packet(runs)
          BY <2>2, <3>6
        <4>3. CommittedAs(Request(5, Packet(runs)), Summaries(d.payload, d.ext), d)
          BY <1>1, <1>2, <2>1, <2>3, <3>6, <4>2
        <4>4. Fifth(d, runs, truth.broker)
          BY <1>2, <3>6, <4>1, <4>3 DEF Fifth
        <4>5. dir'[1] = dir[1] /\ dir'[2] = dir[2] /\ dir'[3] = dir[3] /\ dir'[4] = dir[4]
          BY <1>2, <3>6
        <4> QED BY <1>1, <3>1, <3>6, <4>4, <4>5 DEF History
      <3>7. CASE n = 6
        <4>1. work.payload = Attestations(runs, dir)
          BY <1>1, <2>1, <2>2, <3>7 DEF Recorded, InHand
        <4>2. p = Packet(runs)
          BY <2>2, <3>7
        <4>3. dir'[1] = dir[1] /\ dir'[2] = dir[2] /\ dir'[3] = dir[3] /\ dir'[4] = dir[4]
              /\ dir'[5] = dir[5]
          BY <1>2, <3>7
        <4>4. Attestations(runs, dir') = Attestations(runs, dir)
          <5>1. PICK s : s = Request(6, Packet(runs))
            OBVIOUS
          <5>2. Bundle(s, dir) = Bundle(s, dir')
            BY <4>3, BundleFrame
          <5> QED BY <5>1, <5>2 DEF Attestations
        <4>5. CommittedAs(Request(6, Packet(runs)), Attestations(runs, dir'), d)
          BY <1>1, <1>2, <2>1, <2>3, <3>7, <4>1, <4>2, <4>4
        <4>6. Sixth(dir'[6], runs, dir')
          BY <1>1, <3>7, <4>5 DEF Sixth
        <4> QED BY <3>1, <3>7, <4>3, <4>6 DEF History
      <3> QED BY <1>1, <3>2, <3>3, <3>4, <3>5, <3>6, <3>7
    <2>13. History(q'.seq, dir', truth'.offline, truth'.broker)
      BY <1>2, <1>3, <2>2, <2>12
    <2> QED BY <1>2, <2>7, <2>8, <2>9, <2>10, <2>11, <2>13 DEF Recorded
  <1>5. worktree'.moves \in Nat
    BY DEF RInv, environment
  <1>6. FirstPhase'
    BY <1>1, <1>3 DEF FirstPhase
  <1> QED BY <1>2, <1>4, <1>5, <1>6, Continued

\* What finalize_workflow_transition measures again, when the record holds
LEMMA FinalizeAcceptsClean ==
    ASSUME Workable, PInv, RInv, Clean, q.seq \in 1..7, pc = "finalize"
    PROVE  FinalizeAccepts
  <1>1. Recorded /\ q.task = T /\ q.patch = Start.patch /\ q.wf = Start.wf
    BY DEF RInv, Clean, PInv, Anchored, T
  <1>2. CASE q.seq = 1
    <2>1. work.payload = SnapshotPayload /\ snaps = Sources
      BY <1>1, <1>2 DEF Recorded, InHand, RInv, FirstPhase
    <2>2. /\ work.payload.policy = Policy /\ work.payload.base = Base
          /\ work.payload.cand = Cand
      BY <2>1 DEF SnapshotPayload
    <2>3. SnapshotFinal
      BY <1>1, <2>1, <2>2, PairFacts, Stores DEF SnapshotFinal
    <2> QED BY <1>2, <2>3 DEF FinalizeAccepts
  <1>3. CASE q.seq = 2
    <2>1. work.payload = RedPayload /\ reds = RedStore
      BY <1>1, <1>3 DEF Recorded, InHand
    <2>2. /\ work.payload.base = Base /\ work.payload.cand = Cand
          /\ work.payload.recs = Reds
      BY <2>1 DEF RedPayload
    <2>3. /\ SourcesValid /\ Prior(1).base = Base /\ Prior(1).cand = Cand /\ q.snap = Cand
      BY <1>1, <1>3, PriorOne, CurrentRequest
    <2>4. VerifiedStore(reds, {Reds[a].snap : a \in DOMAIN Reds})
      BY <2>1, Stores, RedFacts
    <2>5. \A a \in DOMAIN Reds :
             /\ Reds[a].paths = TaskSpec[T].paths[a]
             /\ RedMeasures(Reds[a].snap, Base, Cand, Reds[a].paths)
             /\ Reds[a] = RedEvidence(Base, Cand, Reds[a].paths)
      BY RedFacts
    <2>6. Base.commit = TaskSpec[T].base /\ DOMAIN Reds = TaskSpec[T].tests
      BY PairFacts, RedFacts DEF Tests
    <2>7. RedFinal
      BY <1>1, <2>2, <2>3, <2>4, <2>5, <2>6 DEF RedFinal
    <2> QED BY <1>3, <2>7 DEF FinalizeAccepts
  <1>4. CASE q.seq = 3
    <2>1. PICK b, runs : b = work.payload /\ runs = truth.offline
      OBVIOUS
    <2>2. /\ b = OfflinePayload /\ work.ext = OuterOffline(b, runs)
          /\ RanAsPlanned(runs) /\ snaps = Sources /\ reds = RedStore
          /\ q = Request(3, Absent)
      BY <1>1, <1>4, <2>1 DEF Recorded, InHand, OfflineDone
    <2>3. OfWorkflow(q) /\ q.snap = Cand /\ b = OfflineBatch(q, Cand, Reds)
      BY <1>1, <1>4, <2>2, CurrentRequest DEF OfflinePayload
    <2>4. /\ b.req = RequestSha(q) /\ b.wf = q.wf /\ b.task = T
          /\ b.patch = Start.patch /\ b.csnap = Cand
      BY <2>3, BatchFacts
    <2>5. OfflineFinal(b, work.ext, snaps, reds)
      BY <2>2, <2>3, OfflineFinalHolds
    <2>6. OfflinePhaseFinal
      BY <1>1, <2>1, <2>3, <2>4, <2>5 DEF OfflinePhaseFinal
    <2> QED BY <1>4, <2>6 DEF FinalizeAccepts
  <1>5. CASE q.seq = 5
    <2>1. PICK b, e, p : b = work.payload /\ e = work.ext /\ p = Packet(truth.offline)
      OBVIOUS
    <2>2. /\ b = BrokerPayload(truth.offline) /\ BrokerExt(e, truth.offline, truth.broker)
          /\ q = Request(5, p)
      BY <1>1, <1>5, <2>1 DEF Recorded, InHand
    <2>3. /\ truth.broker.says = BothAccept /\ truth.broker.sameId = FALSE
          /\ Cardinality(truth.broker.rows) = 2
      BY <1>5, BrokerWasClean DEF BrokerDone
    <2>4. e = CleanEvidence(b)
      BY <2>2, <2>3, CleanBroker
    <2>5. OfWorkflow(q) /\ q.snap = Cand /\ q.packet = p
      BY <2>2, RequestFields
    <2>6. b = BatchOf(q, p)
      BY <2>1, <2>2 DEF BrokerPayload
    <2>7. /\ b.req = RequestSha(q) /\ b.wf = q.wf /\ b.task = T
          /\ b.csnap = Cand /\ b.packet = p
      BY <2>5, <2>6, BatchOfFacts
    <2>8. BrokerFinal(b, e)
      BY <2>4, <2>5, <2>6, BrokerFinalHolds
    <2>9. BrokerPhaseFinal
      BY <1>1, <2>1, <2>5, <2>7, <2>8 DEF BrokerPhaseFinal
    <2> QED BY <1>5, <2>9 DEF FinalizeAccepts
  <1>6. CASE q.seq \in {4, 6, 7}
    BY <1>6 DEF FinalizeAccepts
  <1> QED BY <1>2, <1>3, <1>4, <1>5, <1>6

\* finalize_workflow_transition accepts what was prepared in every phase.
LEMMA FinalizeStep ==
    ASSUME Workable, PInv, RInv, Finalize
    PROVE  RInv'
  <1>1. pc = "finalize" /\ UNCHANGED environment /\ q.seq \in 1..7
    BY DEF Finalize, PInv, Anchored
  <1>2. CASE FinalizeAccepts /\ Commit(FinalArts) /\ UNCHANGED verdict
    <2>1. CASE q.seq = 7
      <3>1. /\ pc' = "end" /\ q' = q /\ UNCHANGED <<truth, verdict>>
        BY <1>1, <1>2, <2>1, CommitIs
      <3>2. Clean' => Clean
        BY <1>1, <3>1, CleanBefore
      <3> QED BY <1>1, <2>1, <3>1, <3>2 DEF RInv, FirstPhase, environment
    <2>2. CASE q.seq \in 1..6
      <3>1. PICK arts : arts = FinalArts
        OBVIOUS
      <3>2. ASSUME misplaced = {}
            PROVE  /\ q.seq = 1 => arts = SourceArts
                   /\ q.seq = 2 => arts = RedNames
                   /\ q.seq = 3 => arts = truth.offline
                   /\ q.seq = 4 => arts = Packet(truth.offline)
                   /\ q.seq = 5 => arts = Summaries(work.payload, work.ext)
                   /\ q.seq = 6 => arts = work.payload
        <4>1. InHand
          BY <1>1, <3>2 DEF RInv, Recorded
        <4>2. q.seq = 1 => arts = SourceArts
          BY <1>1, <3>1, <4>1 DEF InHand, FinalArts, SnapshotArts, SnapshotPayload, SourceArts
        <4>3. q.seq = 2 => arts = RedNames
          <5>1. q.seq = 2 => work.payload.recs = Reds
            BY <1>1, <4>1 DEF InHand, RedPayload
          <5>2. DOMAIN Reds = Tests
            BY RedFacts
          <5> QED BY <3>1, <5>1, <5>2 DEF FinalArts, RedArts, RedNames
        <4>4. q.seq = 3 => arts = truth.offline
          BY <1>1, <3>1, <4>1 DEF InHand, FinalArts, OuterOffline
        <4>5. q.seq = 4 => arts = Packet(truth.offline)
          BY <1>1, <3>1, <4>1 DEF InHand, FinalArts
        <4>6. q.seq = 5 => arts = Summaries(work.payload, work.ext)
          BY <3>1 DEF FinalArts, BrokerArts, Summaries
        <4>7. q.seq = 6 => arts = work.payload
          BY <3>1 DEF FinalArts
        <4> QED BY <4>2, <4>3, <4>4, <4>5, <4>6, <4>7
      <3> QED BY <1>1, <1>2, <2>2, <3>1, <3>2, CommitStep
    <2> QED BY <1>1, <2>1, <2>2
  <1>3. CASE ~FinalizeAccepts /\ Stop /\ UNCHANGED truth
    <2>1. ASSUME Clean' PROVE FALSE
      <3>1. Clean
        BY <1>1, <1>3, <2>1, CleanBefore
      <3> QED BY <1>1, <1>3, <3>1, FinalizeAcceptsClean
    <2> QED BY <1>1, <1>3, <2>1, Refused DEF environment
  <1> QED BY <1>1, <1>2, <1>3 DEF Finalize

\* The first request and the unmoved worktree.
LEMMA InitRecorded ==
    ASSUME Init
    PROVE  RInv
  <1>1. /\ worktree.moves = 0 /\ worktree.head = Start.patch.head
        /\ pc = "prepare" /\ q = Start
    BY DEF Init
  <1>2. q.seq = 1
    BY <1>1, StartFields
  <1>3. FirstPhase
    BY <1>1, <1>2 DEF FirstPhase
  <1>4. q = Request(q.seq, IF q.seq < 5 THEN Absent ELSE Packet(truth.offline))
    BY <1>1, <1>2, FirstRequestIs
  <1>5. Recorded
    BY <1>1, <1>2, <1>4 DEF Recorded, OfflineDone, History, InHand
  <1> QED BY <1>1, <1>2, <1>3, <1>5 DEF RInv

\* Every step keeps the invariant.
LEMMA NextRecorded ==
    ASSUME Workable, PInv, RInv, [Next]_vars
    PROVE  RInv'
  <1>1. CASE InspectBefore BY <1>1, InspectBeforeStep
  <1>2. CASE CreatePair BY <1>2, CreatePairStep
  <1>3. CASE InspectAfter BY <1>3, InspectAfterStep
  <1>4. CASE PrepareRed BY <1>4, PrepareRedStep
  <1>5. CASE PrepareOffline BY <1>5, PrepareOfflineStep
  <1>6. CASE PreparePacket BY <1>6, PreparePacketStep
  <1>7. CASE PrepareBroker BY <1>7, PrepareBrokerStep
  <1>8. CASE \E key \in Keys : PrepareSign(key) BY <1>8, PrepareSignStep
  <1>9. CASE \E fresh \in BOOLEAN : PrepareJudge(fresh) BY <1>9, PrepareJudgeStep
  <1>10. CASE Finalize BY <1>10, FinalizeStep
  <1>11. CASE \E bad \in BadRuns, log \in Logs : ExecuteOffline(bad, log)
    BY <1>11, ExecuteOfflineStep
  <1>12. CASE \E says \in Outcomes : ExecuteBroker(says, FALSE, "none")
    BY <1>12, ExecuteBrokerStep
  <1>13. CASE \E same \in BOOLEAN, late \in {"none", "before", "after"} :
                 ExecuteBroker(BothAccept, same, late)
    BY <1>13, ExecuteBrokerStep
  <1>14. CASE \E c \in Edits : EditWorktree(c) BY <1>14, EditStep
  <1>15. CASE \E w \in DOMAIN Others, n \in 1..6 :
                 \E files \in {{f} : f \in FilesRead(n)} \cup {FileNames} :
                    Misplace(w, n, files)
    BY <1>15, MisplaceStep
  <1>16. CASE \E w \in DOMAIN Others : MisplaceStore(w)
    <2>1. PICK w : MisplaceStore(w)
      BY <1>16
    <2> QED BY <2>1, MisplaceStep
  <1>17. CASE UNCHANGED vars BY <1>17, UndisturbedStep
  <1> QED BY <1>1, <1>2, <1>3, <1>4, <1>5, <1>6, <1>7, <1>8, <1>9, <1>10, <1>11, <1>12,
             <1>13, <1>14, <1>15, <1>16, <1>17
          DEF Next, Coordinator, OuterExecution, Disturbance

\* Nothing in an undisturbed workflow is refused, for every workable task: if the
\* worktree stayed put, no file was put in the wrong place, every run ended as
\* expected and the signatures were judged in time with the right key, then the
\* workflow can only end with "pass".  None of the measurements that the seven
\* phases repeat (CoordinatorPhases) rejects what an earlier phase made.
THEOREM UndisturbedPass ==
    ASSUME Workable PROVE Spec => []NeverRefused
  <1>1. Init => RInv
    BY InitRecorded
  <1>2. PInv /\ RInv /\ [Next]_vars => RInv'
    BY NextRecorded
  <1>3. RInv => NeverRefused
    BY DEF RInv, NeverRefused
  <1> QED BY <1>1, <1>2, <1>3, Inductive, PTL DEF Spec
=============================================================================
