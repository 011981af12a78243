---------------------------- MODULE PhaseLedger ----------------------------
(***************************************************************************)
(* The durable consume-before-execute journal of the review workflow:      *)
(* tools/ai_review/phase_protocol.py (PhaseRequest, PhaseResult,           *)
(* PhaseChain, SqlitePhaseLedger, execute_phase, run_claimed_phase) driven *)
(* by tools/ai_review/outer_driver.py (OuterWorkflowDriver.run_phase).     *)
(*                                                                         *)
(* Several launcher processes share one SQLite ledger and the output       *)
(* roots.  A process may raise or be killed between any two steps; what    *)
(* it left in the ledger and on disk stays.                                *)
(***************************************************************************)
EXTENDS PhaseProtocol, FiniteSets

CONSTANTS
    Processes,     \* launcher processes, each running one run_phase at a time
    Roots          \* output roots: directories holding the NN-phase trees

Rows ==
    [status : {"none", "pending", "complete"},
     req : Requests \cup {NoRequest}, result : Results \cup {NoResult}]

Trees ==
    [state : {"absent", "open", "frozen"}, written : Nat,
     result : Results \cup {NoResult}]

VARIABLES
    rows,       \* the phases table: rows[w][n]
    trees,      \* trees[r][n]: directory NN-phase below output root r
    pc,         \* where each process is inside run_phase
    req,        \* the request it runs
    root,       \* the output root it writes below
    result,     \* the PhaseResult it has built
    prepared,   \* history: coordinator_prepare calls per (workflow, phase)
    external    \* history: outer executions per (workflow, phase)

vars == <<rows, trees, pc, req, root, result, prepared, external>>
held == <<pc, req, root, result>>

NoRow == [status |-> "none", req |-> NoRequest, result |-> NoResult]
NoTree == [state |-> "absent", written |-> 0, result |-> NoResult]

\* Completed rows of a workflow, in sequence order (_completed_results); the
\* chain they form is gap-free, see ChainLinked.
Completed(w) == {n \in Seqs : rows[w][n].status = "complete"}

\* Mutant: validate_request forgets the anchors
NextInChainNoAnchors(q) ==
    /\ q.seq = Cardinality(Completed(q.wf)) + 1
    /\ q.seq > 1 => q.prev = PhaseSha(rows[q.wf][q.seq - 1].result)

\* PhaseChain.validate_request over the completed rows
NextInChain(q) ==
    /\ q.seq = Cardinality(Completed(q.wf)) + 1
    /\ IF q.seq = 1
         THEN q.prev = NoDigest
         ELSE LET previous == rows[q.wf][q.seq - 1].result IN
              /\ q.prev = PhaseSha(previous)
              /\ q.anchor = previous.req.anchor
              /\ q.snap = previous.snap
              /\ q.packet = previous.packet
              /\ q.inp = previous.out

\* Files run_claimed_phase persists, in order; the last is phase-result.json
PersistOrder(n) ==
    IF n \in ExternalSeqs
      THEN <<"prepared-payload", "external-evidence", "coordinator-output",
             "artifact-manifest", "phase-result">>
      ELSE <<"coordinator-output", "artifact-manifest", "phase-result">>

(***************************************************************************)
(* Steps of one run_phase call.                                            *)
(***************************************************************************)

Init ==
    /\ rows = [w \in WorkflowIds |-> [n \in Seqs |-> NoRow]]
    /\ trees = [r \in Roots |-> [n \in Seqs |-> NoTree]]
    /\ pc = [p \in Processes |-> "idle"]
    /\ req = [p \in Processes |-> NoRequest]
    /\ root \in [Processes -> Roots]
    /\ result = [p \in Processes |-> NoResult]
    /\ prepared = [w \in WorkflowIds |-> [n \in Seqs |-> 0]]
    /\ external = [w \in WorkflowIds |-> [n \in Seqs |-> 0]]

\* run_phase up to _carry_prior_artifacts: the phase directory is made before
\* the claim, exclusively, and its name does not contain the workflow id.
EnterPhase(p, r, q) ==
    /\ pc[p] = "idle"
    /\ ValidRequest(q)
    /\ trees[r][q.seq].state = "absent"
    /\ trees' = [trees EXCEPT ![r][q.seq].state = "open"]
    /\ pc' = [pc EXCEPT ![p] = "begun"]
    /\ req' = [req EXCEPT ![p] = q]
    /\ root' = [root EXCEPT ![p] = r]
    /\ UNCHANGED <<rows, result, prepared, external>>

BeginFirst(p, r, w, a) ==
    EnterPhase(p, r, [seq |-> 1, wf |-> w, prev |-> NoDigest, anchor |-> a,
                      snap |-> NoDigest, packet |-> NoDigest,
                      inp |-> EmptyArts])

\* _assert_readonly_artifact_tree: every entry and the root without write bits
ReadOnly(tree) == tree.state = "frozen"

\* A later phase is given the tree of some phase m as its input.  Its
\* phase-result.json must be the direct predecessor of the request
\* (_validate_prior_phase_input).  The anchors are whatever the caller wrote.
BeginNext(p, r, i, m, a, s, k) ==
    LET input == trees[i][m]
        previous == input.result
    IN  /\ ReadOnly(input)
        /\ previous # NoResult
        /\ previous.req.seq < MaxSeq
        /\ EnterPhase(p, r, [wf |-> previous.req.wf, seq |-> previous.req.seq + 1,
                             anchor |-> a, prev |-> PhaseSha(previous),
                             inp |-> previous.out, snap |-> s, packet |-> k])

\* SqlitePhaseLedger.claim is one BEGIN IMMEDIATE transaction.
Unclaimed(q) == rows[q.wf][q.seq].status = "none"
NoPending(w) == \A n \in Seqs : rows[w][n].status # "pending"

\* Mutant: INSERT OR REPLACE, so that an interrupted phase can be retried
CanClaimRetry(q) == NextInChain(q)

CanClaim(q) == Unclaimed(q) /\ NoPending(q.wf) /\ NextInChain(q)

Claim(p) ==
    LET q == req[p] IN
    /\ pc[p] = "begun"
    /\ CanClaim(q)
    /\ rows' = [rows EXCEPT ![q.wf][q.seq] =
                   [status |-> "pending", req |-> q, result |-> NoResult]]
    /\ pc' = [pc EXCEPT ![p] = "claimed"]
    /\ UNCHANGED <<trees, req, root, result, prepared, external>>

\* The call is over: it returned, raised, or its process died.
Leave(p) ==
    /\ pc' = [pc EXCEPT ![p] = "idle"]
    /\ req' = [req EXCEPT ![p] = NoRequest]
    /\ result' = [result EXCEPT ![p] = NoResult]
    /\ UNCHANGED <<rows, root, prepared, external>>

\* Mutant: a later claim rolls an interrupted phase forward from its evidence
ClaimRefusedRollsForward(p) ==
    LET q == req[p]
        row == rows[q.wf][q.seq]
    IN  /\ pc[p] = "begun"
        /\ row.status = "pending"
        /\ \E r \in Roots :
              LET found == trees[r][q.seq].result IN
              /\ found # NoResult
              /\ found.req = row.req
              /\ rows' = [rows EXCEPT ![q.wf][q.seq] =
                             [@ EXCEPT !.status = "complete", !.result = found]]
        /\ pc' = [pc EXCEPT ![p] = "idle"]
        /\ req' = [req EXCEPT ![p] = NoRequest]
        /\ UNCHANGED <<trees, root, result, prepared, external>>

\* claim raises and rolls back; the phase directory stays behind.
ClaimRefused(p) ==
    /\ pc[p] = "begun"
    /\ ~CanClaim(req[p])
    /\ Leave(p)
    /\ UNCHANGED trees

\* execute_phase: coordinator_prepare (it reads the candidate in snapshot and
\* the private key in sign), then PhaseAction.validate_for.
Prepare(p) ==
    LET q == req[p] IN
    /\ pc[p] = "claimed"
    /\ pc' = [pc EXCEPT ![p] = "prepared"]
    /\ prepared' = [prepared EXCEPT ![q.wf][q.seq] = @ + 1]
    /\ UNCHANGED <<rows, trees, req, root, result, external>>

\* execute_phase: offline_execute or broker_execute
ExecuteExternal(p) ==
    LET q == req[p] IN
    /\ pc[p] = "prepared"
    /\ q.seq \in ExternalSeqs
    /\ pc' = [pc EXCEPT ![p] = "executed"]
    /\ external' = [external EXCEPT ![q.wf][q.seq] = @ + 1]
    /\ UNCHANGED <<rows, trees, req, root, result, prepared>>

\* execute_phase: coordinator_finalize and CoordinatorPhaseOutput.validate_for;
\* then PhaseResult.create.  The coordinator chooses the output and anchors.
Finalize(p, out, s, k) ==
    LET q == req[p]
        r == [req |-> q, out |-> out, snap |-> s, packet |-> k]
    IN
    /\ \/ pc[p] = "prepared" /\ q.seq \notin ExternalSeqs
       \/ pc[p] = "executed"
    /\ ValidResult(r)
    /\ pc' = [pc EXCEPT ![p] = "finalized"]
    /\ result' = [result EXCEPT ![p] = r]
    /\ UNCHANGED <<rows, trees, req, root, prepared, external>>

\* persist_phase_output of the next file: O_EXCL in the exclusive directory
Persist(p) ==
    LET q == req[p]
        tree == trees[root[p]][q.seq]
        last == tree.written + 1 = Len(PersistOrder(q.seq))
    IN  /\ pc[p] = "finalized"
        /\ tree.written < Len(PersistOrder(q.seq))
        /\ trees' = [trees EXCEPT ![root[p]][q.seq] =
                        [tree EXCEPT !.written = tree.written + 1,
                                     !.result = IF last THEN result[p]
                                                ELSE tree.result]]
        /\ UNCHANGED <<rows, held, prepared, external>>

\* Mutant: the UPDATE's WHERE names the workflow and forgets the sequence
CommitEveryRow(p) ==
    LET q == req[p] IN
    /\ pc[p] = "finalized"
    /\ trees[root[p]][q.seq].written = Len(PersistOrder(q.seq))
    /\ rows[q.wf][q.seq].status = "pending"
    /\ rows[q.wf][q.seq].req = q
    /\ LET done == [status |-> "complete", req |-> q, result |-> result[p]] IN
       rows' = [rows EXCEPT ![q.wf] = [n \in Seqs |-> IF n <= q.seq THEN done
                                                     ELSE NoRow]]
    /\ pc' = [pc EXCEPT ![p] = "committed"]
    /\ UNCHANGED <<trees, req, root, result, prepared, external>>

\* Mutant: commit before the evidence is on disk
CommitBeforePersist(p) ==
    LET q == req[p] IN
    /\ pc[p] = "finalized"
    /\ rows[q.wf][q.seq].status = "pending"
    /\ rows[q.wf][q.seq].req = q
    /\ rows' = [rows EXCEPT ![q.wf][q.seq] =
                   [@ EXCEPT !.status = "complete", !.result = result[p]]]
    /\ pc' = [pc EXCEPT ![p] = "committed"]
    /\ UNCHANGED <<trees, req, root, result, prepared, external>>

\* SqlitePhaseLedger.commit is one BEGIN IMMEDIATE transaction.
Commit(p) ==
    LET q == req[p] IN
    /\ pc[p] = "finalized"
    /\ trees[root[p]][q.seq].written = Len(PersistOrder(q.seq))
    /\ rows[q.wf][q.seq].status = "pending"
    /\ rows[q.wf][q.seq].req = q
    /\ rows' = [rows EXCEPT ![q.wf][q.seq] =
                   [@ EXCEPT !.status = "complete", !.result = result[p]]]
    /\ pc' = [pc EXCEPT ![p] = "committed"]
    /\ UNCHANGED <<trees, req, root, result, prepared, external>>

\* _freeze_output_tree; the root directory is made read-only last, so a tree
\* frozen in part does not pass _assert_readonly_artifact_tree.
Freeze(p) ==
    /\ pc[p] = "committed"
    /\ trees' = [trees EXCEPT ![root[p]][req[p].seq].state = "frozen"]
    /\ Leave(p)

\* Mutant: an error handler releases the claim
AbortReleasesClaim(p) ==
    LET q == req[p] IN
    /\ pc[p] \in {"claimed", "prepared", "executed", "finalized"}
    /\ rows' = [rows EXCEPT ![q.wf][q.seq] = NoRow]
    /\ pc' = [pc EXCEPT ![p] = "idle"]
    /\ req' = [req EXCEPT ![p] = NoRequest]
    /\ result' = [result EXCEPT ![p] = NoResult]
    /\ UNCHANGED <<trees, root, prepared, external>>

\* Any step may raise instead (a callback, a contract, the disk, SQLite's busy
\* timeout), and the process may be killed anywhere; no handler undoes a claim.
Abort(p) ==
    /\ pc[p] # "idle"
    /\ Leave(p)
    /\ UNCHANGED trees

Step(p) ==
    \/ Claim(p)
    \/ ClaimRefused(p)
    \/ Prepare(p)
    \/ ExecuteExternal(p)
    \/ \E out \in Arts, s, k \in Arts \cup {NoDigest} : Finalize(p, out, s, k)
    \/ Persist(p)
    \/ Commit(p)
    \/ Freeze(p)

Begin(p) ==
    \E r \in Roots, a \in Anchors :
        \/ \E w \in WorkflowIds : BeginFirst(p, r, w, a)
        \/ \E i \in Roots, m \in Seqs, s, k \in Arts \cup {NoDigest} :
               BeginNext(p, r, i, m, a, s, k)

Next == \E p \in Processes : Begin(p) \/ Step(p) \/ Abort(p)

Fairness == \A p \in Processes : WF_vars(Step(p))

Spec == Init /\ [][Next]_vars /\ Fairness

(***************************************************************************)
(* Properties.                                                             *)
(***************************************************************************)

\* Every variable has the shape of its table, tree or local.
TypeOK ==
    /\ rows \in [WorkflowIds -> [Seqs -> Rows]]
    /\ trees \in [Roots -> [Seqs -> Trees]]
    /\ pc \in [Processes -> {"idle", "begun", "claimed", "prepared", "executed",
                            "finalized", "committed"}]
    /\ req \in [Processes -> Requests \cup {NoRequest}]
    /\ root \in [Processes -> Roots]
    /\ result \in [Processes -> Results \cup {NoResult}]
    /\ prepared \in [WorkflowIds -> [Seqs -> Nat]]
    /\ external \in [WorkflowIds -> [Seqs -> Nat]]

\* run_claimed_phase: "a costly or signed action is never silently replayed".
\* Over all processes, crashes and reruns the coordinator is asked to prepare a
\* phase of a workflow at most once, and its offline or broker execution
\* happens at most once.
ExecutedAtMostOnce ==
    \A w \in WorkflowIds, n \in Seqs :
        prepared[w][n] <= 1 /\ external[w][n] <= prepared[w][n]

\* "Durable consume-before-execute": whatever was executed has a row in the
\* ledger, so a crash at any point leaves it consumed.
ConsumedBeforeExecuted ==
    \A w \in WorkflowIds, n \in Seqs :
        prepared[w][n] > 0 => rows[w][n].status # "none"

\* The rows of a workflow are one hash-linked chain without gaps: behind every
\* row is the completed row it names, and only the last row can be pending.
ChainLinked ==
    \A w \in WorkflowIds, n \in Seqs :
        rows[w][n].status # "none" /\ n > 1 =>
            /\ rows[w][n - 1].status = "complete"
            /\ rows[w][n].req.prev = PhaseSha(rows[w][n - 1].result)
            /\ rows[w][n].req.inp = rows[w][n - 1].result.out

\* The anchors survive the whole workflow: every committed result has the
\* anchors of the first request, the snapshot that phase 1 measured, and, from
\* the review-packet phase on, the packet that phase built.
AnchorsSurvive ==
    \A w \in WorkflowIds : \A n \in Completed(w) :
        LET r == rows[w][n].result IN
        /\ r.req.anchor = rows[w][1].req.anchor
        /\ r.snap = rows[w][1].result.out
        /\ r.packet = IF n < PacketPhase - 1 THEN NoDigest
                      ELSE rows[w][PacketPhase - 1].result.out

\* A tree that passes _assert_readonly_artifact_tree, and so can feed a later
\* phase, holds exactly the result the ledger committed.
FrozenTreeIsCommitted ==
    \A r \in Roots, n \in Seqs :
        trees[r][n].state = "frozen" =>
            LET t == trees[r][n].result IN
            /\ t # NoResult
            /\ rows[t.req.wf][n].status = "complete"
            /\ rows[t.req.wf][n].result = t

\* Evidence before commit: the result of a completed row is on disk below some
\* root, behind all the files persisted before it.
CommittedHasEvidence ==
    \A w \in WorkflowIds : \A n \in Completed(w) :
        \E r \in Roots :
            /\ trees[r][n].result = rows[w][n].result
            /\ trees[r][n].written = Len(PersistOrder(n))

\* Trees and ledger say the same of what was committed, in both directions.
EvidenceMatchesLedger == FrozenTreeIsCommitted /\ CommittedHasEvidence

\* Process p is between the claim and the end of run_phase for row (w, n).
Owns(p, w, n) ==
    /\ pc[p] \in {"claimed", "prepared", "executed", "finalized", "committed"}
    /\ req[p].wf = w
    /\ req[p].seq = n

\* A claim whose process is gone
Interrupted(w) ==
    \E n \in Seqs :
        /\ rows[w][n].status = "pending"
        /\ ~\E p \in Processes : Owns(p, w, n)

\* "Any crash leaves a consumed pending row and forces a fresh workflow id":
\* no step ever changes the ledger or performs an action for a workflow with an
\* interrupted phase.
InterruptedIsDead ==
    [][\A w \in WorkflowIds :
         Interrupted(w) =>
            /\ rows'[w] = rows[w]
            /\ prepared'[w] = prepared[w]
            /\ external'[w] = external[w]]_vars

\* A row is never removed, its request never changes, and a completed row never
\* changes at all, whoever else uses the ledger.
LedgerOnlyGrows ==
    [][\A w \in WorkflowIds, n \in Seqs :
         /\ rows[w][n].status = "complete" => rows'[w][n] = rows[w][n]
         /\ rows[w][n].status = "pending" =>
               rows'[w][n].status # "none" /\ rows'[w][n].req = rows[w][n].req]_vars

\* The ledger implements the abstract chain: one output per phase, in order,
\* each action performed once between its claim and its commit.
Chain == INSTANCE WorkflowChain WITH
    Outputs <- Arts,
    chain <- [w \in WorkflowIds |->
                 [n \in 1..Cardinality(Completed(w)) |-> rows[w][n].result.out]],
    opened <- [w \in WorkflowIds |->
                 \E n \in Seqs : rows[w][n].status = "pending"],
    performed <- prepared

ImplementsChain == Chain!Spec
=============================================================================
