----------------------------- MODULE AttestedJudge -----------------------------
(* What the sign and attested-judge phases rebuild from the committed phase  *)
(* directories and the snapshot store (coordinator_attestation_inputs.py),   *)
(* the statement that is signed for each role and the conditions for it      *)
(* (attested_judge.py), and the ordinary verdict (judge.py).                 *)
(*                                                                           *)
(* dir[n] holds the committed files of phase n: the PhaseResult, the         *)
(* coordinator output, the prepared payload and transition, the external     *)
(* evidence and the broker runtime binding.                                  *)
EXTENDS BrokerEvidence

CONSTANTS
    Absent,       \* no file, or None
    RuntimeBinding  \* broker-runtime-binding.json of the pinned runtime

\* PhaseResult.phase_sha256: a workflow commits one result for each phase
PhaseSha(result) == <<result.req.wf, result.req.seq>>

\* CoordinatorPhaseOutput, PhaseResult and the prepared transition of a phase
PhaseOutput(q, arts) == [req |-> RequestSha(q), arts |-> arts]
PhaseResult(q, output, ext) == [req |-> q, out |-> output, ext |-> ext]
PreparedTransition(q, payload) == [req |-> RequestSha(q), payload |-> payload]

\* the request that follows: the anchors stay, the snapshot digest enters with
\* phase 1 and the packet digest with phase 4
NextRequest(result) ==
    LET q == result.req
    IN  [q EXCEPT !.seq = q.seq + 1, !.prev = PhaseSha(result),
                  !.snap = IF q.seq = 1 THEN result.out.arts.cand ELSE q.snap,
                  !.packet = IF q.seq = 4 THEN result.out.arts ELSE q.packet]

---------------------------------------------------------------------------
(* coordinator_attestation_inputs.py *)

\* Mutant: each directory is consistent in itself
CommittedHistoryUnlinked(q, dir) ==
    \A n \in 1..(q.seq - 1) :
        /\ dir[n].output.req = RequestSha(dir[n].result.req)
        /\ dir[n].result.req.seq = n
        /\ dir[n].result.out = dir[n].output

\* _committed_history: every earlier phase once and in order, each result of
\* this workflow and bound to its output, chained up to the request
CommittedHistory(q, dir) ==
    /\ \A n \in 1..(q.seq - 1) :
         LET d == dir[n]
         IN  /\ d.output.req = RequestSha(d.result.req)
             /\ d.result.req.wf = q.wf /\ d.result.req.seq = n
             /\ d.result.out = d.output
             /\ n > 1 => d.result.req = NextRequest(dir[n - 1].result)
    /\ q = NextRequest(dir[q.seq - 1].result)

\* _phase_file, _prepared_payload
ExternalFileBound(d) == d.ext = d.result.ext
PayloadBound(d) == d.trans.req = RequestSha(d.result.req) /\ d.trans.payload = d.payload

\* the anchors of the request against the artifacts read
ArtifactsAnchored(q, policy, packet) ==
    /\ packet.task = q.task /\ packet.policy = policy
    /\ policy.task = q.task /\ policy.patch = q.patch
    /\ packet = q.packet

\* _snapshot_store: exactly the committed snapshots are there, all remeasured
StoreMeasured(t, arts, redArts, snaps, redStore) ==
    /\ Names(snaps) = {arts.base, arts.cand}
    /\ Verified(snaps, arts.base) /\ Verified(snaps, arts.cand)
    /\ DOMAIN redArts = TaskSpec[t].tests
    /\ Names(redStore) = {redArts[a] : a \in DOMAIN redArts}
    /\ \A a \in DOMAIN redArts :
         /\ Verified(redStore, redArts[a])
         /\ RedMeasures(redArts[a], arts.base, arts.cand, TaskSpec[t].paths[a])

\* RedTddSnapshotEvidence measured from a store
MeasuredReds(t, base, cand) ==
    [a \in TaskSpec[t].tests |-> RedEvidence(base, cand, TaskSpec[t].paths[a])]

SnapshotsAnchored(q, policy, packet, arts) ==
    /\ arts.base.commit = TaskSpec[q.task].base
    /\ arts.cand.commit = policy.head
    /\ arts.cand = q.snap
    /\ packet.diff.cand = arts.cand

\* _offline_runs: the raw evidence finalized again, for this phase's request,
\* is what the phase committed
OfflineRunsBound(d, snaps, redStore) ==
    LET q == d.result.req
        b == d.payload
    IN  /\ PayloadBound(d) /\ ExternalFileBound(d)
        /\ OfflineFinal(b, d.ext, snaps, redStore)
        /\ b.req = RequestSha(q) /\ b.wf = q.wf
        /\ b.task = q.task /\ b.patch = q.patch /\ b.csnap = q.snap
        /\ d.output.arts = d.ext.runs

\* the boundary and the requests of a batch, rebuilt from packet and candidate
BatchRebuilt(b, packet, cand, runtime) ==
    \A r \in ReviewRoles :
        /\ b.runs[r].boundary = BoundaryEvidence(packet, cand, runtime)
        /\ b.runs[r].request = ToolFreeRequest(packet, r, b.runs[r].attempt)

\* _broker_inputs: likewise for the broker, and only here are the reviews parsed
BrokerInputsBound(d, packet, cand) ==
    LET q == d.result.req
        b == d.payload
    IN  /\ PayloadBound(d) /\ ExternalFileBound(d)
        /\ BrokerFinal(b, d.ext)
        /\ b.req = RequestSha(q) /\ b.wf = q.wf /\ b.task = q.task
        /\ b.csnap = q.snap /\ b.packet = q.packet
        /\ b.runtime = d.runtime
        /\ BatchRebuilt(b, packet, cand, d.runtime)
        /\ \A r \in ReviewRoles : ReviewParses(b.runs[r], d.ext.runs[r])
        /\ d.output.arts = [r \in ReviewRoles |-> BrokerSummary(b, d.ext, r)]

\* CoordinatorAttestationInputs, the frozen bundle
Bundle(q, dir) ==
    LET arts == dir[1].output.arts
        packet == dir[4].output.arts
    IN  [task |-> packet.task, policy |-> arts.policy, packet |-> packet,
         base |-> arts.base, cand |-> arts.cand,
         reds |-> MeasuredReds(packet.task, arts.base, arts.cand),
         runs |-> dir[3].ext.runs,
         gates |-> packet.gates, tdds |-> packet.tdds,
         batch |-> dir[5].payload, outer |-> dir[5].ext,
         reviews |-> [r \in ReviewRoles |->
                        ParsedReview(dir[5].payload.runs[r], dir[5].ext.runs[r])],
         anchor |-> PhaseSha(dir[1].result)]

\* reconstruct_attestation_inputs returns a bundle
Reconstructible(q, dir, snaps, redStore) ==
    LET arts == dir[1].output.arts
        packet == dir[4].output.arts
    IN  /\ CommittedHistory(q, dir)
        /\ ArtifactsAnchored(q, arts.policy, packet)
        /\ StoreMeasured(q.task, arts, dir[2].output.arts, snaps, redStore)
        /\ SnapshotsAnchored(q, arts.policy, packet, arts)
        /\ OfflineRunsBound(dir[3], snaps, redStore)
        /\ BrokerInputsBound(dir[5], packet, arts.cand)
        /\ LET b == Bundle(q, dir)
           IN  /\ OfflineDerivable(b.task, b.policy, b.runs, b.base, b.cand, b.reds)
               /\ b.gates = GateResults(b.task, b.policy, b.runs)
               /\ b.tdds = TddResults(b.task, b.policy, b.runs, b.reds)

---------------------------------------------------------------------------
(* build_attestation_expectations *)

\* _expected_roles, which are also the artifact names of the sign phase
Roles(t) ==
    {<<"task", "">>, <<"policy", "">>} \cup OfflineKeys(t) \cup ({"review"} \X ReviewRoles)

\* session_id of a run binding: of the snapshot phase, the run or the envelope
SessionOf(b, role) ==
    CASE role[1] \in {"task", "policy"} -> <<"snapshot", b.anchor, role>>
      [] role[1] = "review" -> b.reviews[role[2]].session
      [] OTHER -> b.runs[role].plan.session

\* request and response digests of a run binding
ExchangeOf(b, role) ==
    CASE role[1] \in {"task", "policy"} -> <<b.anchor, role>>
      [] role[1] = "review" -> <<b.outer.runs[role[2]].env>>
      [] OTHER -> <<b.runs[role]>>

\* the artifact a role's statement is about, and the snapshot it was measured on
ArtifactOf(b, role) ==
    CASE role[1] = "task" -> <<b.task>>
      [] role[1] = "policy" -> <<b.policy>>
      [] role[1] = "review" -> <<b.reviews[role[2]]>>
      [] role[1] = "gate" -> <<CHOOSE g \in b.gates : g.id = role[2]>>
      [] OTHER -> <<role[1], CHOOSE d \in b.tdds : d.id = role[2]>>

SnapshotOf(b, role) ==
    CASE role[1] = "task" -> b.base
      [] role[1] = "red" -> (CHOOSE d \in b.tdds : d.id = role[2]).rsnap
      [] OTHER -> b.cand

\* _expectation
Expectation(b, role) ==
    [role |-> role, artifact |-> ArtifactOf(b, role), task |-> b.task,
     base |-> TaskSpec[b.task].base, head |-> b.policy.head, patch |-> b.policy.patch,
     snap |-> SnapshotOf(b, role), session |-> SessionOf(b, role),
     exchange |-> ExchangeOf(b, role)]

Expectations(b) == [role \in Roles(b.task) |-> Expectation(b, role)]

\* _validate_tdd_snapshot_bindings
TddSnapshotsBound(b) ==
    \A d \in b.tdds : d.rsnap # b.base /\ d.gsnap = b.cand

\* _validate_review_packet: nothing of the packet is taken on its word
PacketRemeasured(b) ==
    LET m == ReviewMaterial(b.task, b.policy, b.base, b.cand)
    IN  /\ MaterialBound(b.task, b.policy, m)
        /\ b.packet = ReviewPacket(b.task, b.policy, b.gates, b.tdds, m)

\* derive_broker_run_bindings: both roles once, and each review is what its own
\* execution's envelope parses to
ReviewsRederived(b) ==
    /\ DOMAIN b.outer.runs = ReviewRoles /\ DOMAIN b.reviews = ReviewRoles
    /\ \A r \in ReviewRoles :
         LET run == b.batch.runs[r]
             raw == b.outer.runs[r]
         IN  ReviewParses(run, raw) /\ b.reviews[r] = ParsedReview(run, raw)

\* ... two executions behind two gateways, each taken down again
ExecutionsDistinct(b) ==
    /\ b.outer.runs["reviewer"].session # b.outer.runs["adversary"].session
    /\ \A r \in ReviewRoles : b.outer.runs[r].cleaned

\* _validate_final_broker_ledger_records: one or two gap-free attempts for each
\* role, within the limits, among them the one that succeeded
FinalRecordsCover(b) ==
    /\ LedgerValid(b.outer.final, b.packet)
    /\ \A r \in ReviewRoles :
         LET run == b.batch.runs[r]
         IN  \E w \in RoleRows(b.outer.final, r) :
               w.attempt = run.attempt /\ w.tokens = run.tokens /\ w.cost = run.cost

\* _validate_broker_evidence: the exchange of a role is about this packet and
\* its review is the one that is signed
ExchangeBound(b, r) ==
    /\ b.outer.runs[r].env.request = ToolFreeRequest(b.packet, r, b.batch.runs[r].attempt)
    /\ b.reviews[r].role = r
    /\ b.reviews[r].session = SessionOf(b, <<"review", r>>)

\* derive_frozen_broker_run_bindings
BrokerRunsBound(b) ==
    /\ BrokerFinal(b.batch, b.outer)
    /\ b.batch.task = b.task /\ b.batch.csnap = b.cand /\ b.batch.packet = b.packet
    /\ BatchRebuilt(b.batch, b.packet, b.cand, b.batch.runtime)
    /\ ReviewsRederived(b) /\ ExecutionsDistinct(b) /\ FinalRecordsCover(b)

\* roles, sessions and exchanges are pairwise different
SessionsDistinct(b) ==
    Cardinality({SessionOf(b, role) : role \in Roles(b.task)}) = Cardinality(Roles(b.task))

ExchangesDistinct(b) ==
    LET env(r) == b.outer.runs[r].env
    IN  env("reviewer").request # env("adversary").request
        /\ env("reviewer").id # env("adversary").id

\* _validate_request of the offline roles: snapshots, patches and logs agree
\* with the artifacts that are signed
RequestsValid(b) ==
    \A k \in OfflineKeys(b.task) :
        LET e == b.runs[k]
        IN  /\ e.plan.exec = SnapshotOf(b, k)
            /\ e.plan.src = IF k[1] = "red" THEN b.base ELSE b.cand
            /\ IF k[1] = "gate"
               THEN \E g \in b.gates : g.id = k[2] /\ g.log = e.log
               ELSE \E d \in b.tdds :
                      /\ d.id = k[2] /\ e.plan.tpatch = d.tpatch /\ e.plan.tman = d.tman
                      /\ e.log = (IF k[1] = "red" THEN d.red ELSE d.green).log

\* build_attestation_expectations returns
Attestable(b) ==
    /\ OfflineDerivable(b.task, b.policy, b.runs, b.base, b.cand, b.reds)
    /\ b.gates = GateResults(b.task, b.policy, b.runs)
    /\ b.tdds = TddResults(b.task, b.policy, b.runs, b.reds)
    /\ TddSnapshotsBound(b)
    /\ PacketRemeasured(b)
    /\ BrokerRunsBound(b)
    /\ SessionsDistinct(b)
    /\ RequestsValid(b)
    /\ \A r \in ReviewRoles : ExchangeBound(b, r)
    /\ ExchangesDistinct(b)

---------------------------------------------------------------------------
(* Signing and judging *)

Sign(q, b, nonce) ==
    [role \in Roles(b.task) |->
        [statement |-> Expectation(b, role), nonce |-> <<nonce, role>>, key |-> q.key]]

\* reconstruct_signed_attestations
SignaturesReadable(q, signed) ==
    DOMAIN signed # {}
    /\ \A role \in DOMAIN signed :
         signed[role].statement.role = role /\ signed[role].key = q.key

\* verify_attestation_set: one fresh attestation for each role, saying exactly
\* what is expected now, with nonces never seen (NonceLedger has the ledger)
AttestationsVerify(b, signed, consumed, fresh) ==
    /\ Attestable(b)
    /\ DOMAIN signed = Roles(b.task)
    /\ \A role \in DOMAIN signed : signed[role].statement = Expectation(b, role)
    /\ fresh
    /\ \A role \in DOMAIN signed : signed[role].nonce \notin consumed

\* judge: the policy is this task's and passed
PolicyFails(b) ==
    \/ b.policy.task # b.task \/ b.policy.base # TaskSpec[b.task].base
    \/ ~b.policy.passed

\* judge: RED failed and GREEN passed as expected, on different snapshots, with
\* the candidate's test files
TddFails(b) ==
    \E d \in b.tdds :
        \/ d.task # b.task \/ d.head # b.policy.head \/ d.patch # b.policy.patch
        \/ ~d.red.ok \/ ~d.green.ok
        \/ d.rsnap = d.gsnap
        \/ d.tman # {<<c[1], c[3]>> : c \in {x \in b.policy.patch.files :
                                               x[1] \in TaskSpec[b.task].paths[d.id]}}

\* judge: every acceptance has one gate, and all passed
GatesFail(b) ==
    \/ {g.id : g \in b.gates} # Acceptances(b.task)
    \/ Cardinality(b.gates) # Cardinality(Acceptances(b.task))
    \/ \E g \in b.gates :
         g.task # b.task \/ g.head # b.policy.head \/ g.patch # b.policy.patch \/ ~g.passed

\* Mutant: the adversary's findings do not block
ReviewsFailReviewerOnly(b) == b.reviews["reviewer"].says \in {"blocker", "misbound"}

\* judge: two sessions, both accept, neither has a high finding
ReviewsFail(b) ==
    \/ \E r \in ReviewRoles : b.reviews[r].says \in {"blocker", "misbound"}
    \/ b.reviews["reviewer"].session = b.reviews["adversary"].session

\* _ordinary_verdicts: some verdict of judge is "fail"
OrdinaryFails(b) == PolicyFails(b) \/ TddFails(b) \/ GatesFail(b) \/ ReviewsFail(b)

\* judge_attested: only a clean and attested bundle passes
Verdict(b, verified) ==
    CASE ~verified \/ OrdinaryFails(b) -> "fail"
      [] verified /\ ~OrdinaryFails(b) /\ \E r \in ReviewRoles : b.reviews[r].says = "medium" ->
           "human_review"
      [] OTHER -> "pass"
==============================================================================
