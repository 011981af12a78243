--------------------------- MODULE OuterWorkflow ---------------------------
(***************************************************************************)
(* The production entry: external_launcher._run_production_workflow and    *)
(* tools/ai_review/outer_workflow_runtime.py (run_production_workflow with *)
(* its prepare, finalize and commit callbacks) around the state machine    *)
(* tools/ai_review/outer_workflow_state.py (run_fixed_workflow).           *)
(*                                                                         *)
(* A launch is one run of the launcher process.  The coordinator container *)
(* is not trusted: its replies are chosen freely and only the checks of    *)
(* the code restrict them.  Launches share the file system: output roots   *)
(* and broker ledger paths.  Any launch may stop between two steps, by an  *)
(* error, a timeout or a crash, and nothing is cleaned up.                 *)
(***************************************************************************)
EXTENDS PhaseProtocol, FiniteSets

CONSTANTS
    Launches,      \* launcher processes
    Roots,         \* --phase-output-root directories, empty at the beginning
    Ledgers,       \* --broker-ledger paths
    Shas,          \* names of physical snapshot directories
    NoDir,         \* a directory that does not exist
    NoRoot,        \* no output root chosen
    NoTransition   \* no finalized transition

ASSUME NoDirAssumption ==
    /\ \A d \in SUBSET Shas : NoDir # d
    /\ NoRoot \notin Roots
    /\ NoRequest \notin Requests

Kinds == {"none", "offline", "broker"}

NoAction == [wf |-> NoRequest, seq |-> 0, kind |-> "none"]
Actions == [wf : WorkflowIds, seq : Seqs, kind : Kinds] \cup {NoAction}

Transitions ==
    [result : Results, snaps : SUBSET Shas, next : Requests \cup {NoRequest}]

Stores ==
    [state : {"absent", "open", "frozen"},
     snapshots : {NoDir} \cup SUBSET Shas, red : {NoDir} \cup SUBSET Shas]

VARIABLES
    ledgers,     \* broker ledger files that exist
    store,       \* store[r]: snapshot-artifacts below root r
    stage,       \* stage[r][n]: how far directory NN-phase below r has grown
    committed,   \* committed[r][n]: what its frozen committed/ directory records
    pc,          \* where each launch is
    root,        \* its output root
    turn,        \* its position in the loop over PHASE_ORDER
    request,     \* request_raw of the loop
    action,      \* the action the coordinator prepared
    final,       \* the finalized transition
    author,      \* history: launches that wrote below root r
    executed     \* history: outer executions, as <<launch, workflow, phase, kind>>

files == <<ledgers, store, stage, committed, author>>
vars == <<ledgers, store, stage, committed, pc, root, turn, request, action,
          final, author, executed>>

NoStore == [state |-> "absent", snapshots |-> NoDir, red |-> NoDir]

\* _EXTERNAL.get(phase, "none")
ExpectedKind(n) ==
    IF PHASE_ORDER[n] \in {"offline", "broker"} THEN PHASE_ORDER[n] ELSE "none"

\* validate_phase_request_bytes: unlike PhaseRequest.validate_contract it does
\* not look at the input artifacts of the first phase.
OuterValidRequest(q) ==
    /\ (q.prev = NoDigest) <=> (q.seq = 1)
    /\ (q.snap = NoDigest) <=> (q.seq = 1)
    /\ (q.packet # NoDigest) <=> (q.seq >= PacketPhase)

\* Mutant: the executor kind of the action is not compared
ValidActionAnyKind(q, a) == a.wf = q.wf /\ a.seq = q.seq

\* parse_prepared_transition and _validate_action
ValidAction(q, a) ==
    /\ a.wf = q.wf
    /\ a.seq = q.seq
    /\ a.kind = ExpectedKind(q.seq)

\* The anchors and links parse_finalized_transition wants in the next request
Chained(q, r, next) ==
    /\ OuterValidRequest(next)
    /\ next.seq = q.seq + 1
    /\ next.wf = q.wf
    /\ next.anchor = q.anchor
    /\ next.snap = r.snap
    /\ next.packet = r.packet
    /\ next.prev = PhaseSha(r)
    /\ next.inp = r.out

\* Mutant: the next request only has to follow in sequence
ValidFinalizedUnchained(q, f) ==
    /\ f.result.req = q
    /\ ValidResult(f.result)
    /\ IF q.seq = MaxSeq THEN f.next = NoRequest
       ELSE f.next # NoRequest /\ f.next.seq = q.seq + 1

\* parse_finalized_transition
ValidFinalized(q, f) ==
    /\ f.result.req = q
    /\ ValidResult(f.result)
    /\ IF q.seq = MaxSeq THEN f.next = NoRequest
       ELSE f.next # NoRequest /\ Chained(q, f.result, f.next)

-----------------------------------------------------------------------------

Init ==
    /\ ledgers = {}
    /\ store = [r \in Roots |-> NoStore]
    /\ stage = [r \in Roots |-> [n \in Seqs |-> "absent"]]
    /\ committed = [r \in Roots |-> [n \in Seqs |-> NoTransition]]
    /\ pc = [l \in Launches |-> "new"]
    /\ root = [l \in Launches |-> NoRoot]
    /\ turn = [l \in Launches |-> 1]
    /\ request = [l \in Launches |-> NoRequest]
    /\ action = [l \in Launches |-> NoAction]
    /\ final = [l \in Launches |-> NoTransition]
    /\ author = [r \in Roots |-> {}]
    /\ executed = {}

\* Launch l writes below its root.
Writes(l) == author' = [author EXCEPT ![root[l]] = @ \cup {l}]

GoTo(l, label) == pc' = [pc EXCEPT ![l] = label]

\* prepare_broker_outer_ledger: O_CREAT | O_EXCL, "refuses an existing pathname"
LedgerIsNew(b) == b \notin ledgers

\* _run_production_workflow up to prepare_broker_outer_ledger; the ledger file is
\* there before the output root is looked at.
Launch(l, r, b, w, a) ==
    /\ pc[l] = "new"
    /\ LedgerIsNew(b)
    /\ ledgers' = ledgers \cup {b}
    /\ root' = [root EXCEPT ![l] = r]
    /\ request' = [request EXCEPT ![l] =
                      [wf |-> w, seq |-> 1, anchor |-> a, prev |-> NoDigest,
                       inp |-> EmptyArts, snap |-> NoDigest, packet |-> NoDigest]]
    /\ GoTo(l, "launched")
    /\ UNCHANGED <<store, stage, committed, turn, action, final, author, executed>>

RootIsNew(l) == store[root[l]].state = "absent"

\* any(root.iterdir()): the store is the first thing made below a root.
CheckRoot(l) ==
    /\ pc[l] = "launched"
    /\ RootIsNew(l)
    /\ GoTo(l, "checked")
    /\ UNCHANGED <<files, root, turn, request, action, final, executed>>

\* Mutant: the store directory may exist already
MakeStoreExistOk(l) ==
    /\ pc[l] = "checked"
    /\ store' = [store EXCEPT ![root[l]].state = "open"]
    /\ Writes(l)
    /\ GoTo(l, "ready")
    /\ UNCHANGED <<ledgers, stage, committed, root, turn, request, action, final,
                   executed>>

\* _new_directory(root, "snapshot-artifacts")
MakeStore(l) ==
    /\ pc[l] = "checked"
    /\ RootIsNew(l)
    /\ store' = [store EXCEPT ![root[l]].state = "open"]
    /\ Writes(l)
    /\ GoTo(l, "ready")
    /\ UNCHANGED <<ledgers, stage, committed, root, turn, request, action, final,
                   executed>>

\* What the head of the loop and prepare want before the coordinator is called
CanPrepare(l) ==
    LET r == root[l]
        n == turn[l]
    IN  /\ OuterValidRequest(request[l])
        /\ request[l].seq = n
        /\ stage[r][n] = "absent"
        /\ n > 1 => committed[r][n - 1].next = request[l]

\* The head of the loop, then prepare up to the coordinator call: a new phase
\* directory, a frozen copy of the current artifacts, whose phase-request.json
\* (if there is one) must be the request.
PrepareInput(l) ==
    /\ pc[l] = "ready"
    /\ CanPrepare(l)
    /\ stage' = [stage EXCEPT ![root[l]][turn[l]] = "input"]
    /\ Writes(l)
    /\ GoTo(l, "calling")
    /\ UNCHANGED <<ledgers, store, committed, root, turn, request, action, final,
                   executed>>

\* Mutant: both snapshot phases move their output to the same directory
MovedIntoOne(n, s, d) ==
    IF n <= 2 THEN [s EXCEPT !.snapshots = d] ELSE s

\* The snapshots directory d the coordinator left in its output is renamed into
\* the store.
Moved(n, s, d) ==
    CASE n = 1 -> [s EXCEPT !.snapshots = d]
      [] n = 2 -> [s EXCEPT !.red = d]
      [] OTHER -> s

\* "workflow snapshot store destination must be new"
DestinationIsNew(n, s) ==
    /\ n = 1 => s.snapshots = NoDir
    /\ n = 2 => s.red = NoDir

\* The coordinator's prepare call, and the move of what it left behind
PrepareCall(l, a, d) ==
    LET r == root[l]
        n == turn[l]
    IN  /\ pc[l] = "calling"
        /\ d # NoDir => DestinationIsNew(n, store[r])
        /\ store' = IF d = NoDir THEN store
                    ELSE [store EXCEPT ![r] = Moved(n, @, d)]
        /\ stage' = [stage EXCEPT ![r][n] = "prepared"]
        /\ action' = [action EXCEPT ![l] = a]
        /\ Writes(l)
        /\ GoTo(l, "moved")
        /\ UNCHANGED <<ledgers, committed, root, turn, request, final, executed>>

\* The rest of prepare: after red-snapshot the whole store is frozen.
FreezeStore(l) ==
    /\ pc[l] = "moved"
    /\ store' = IF turn[l] = 2 THEN [store EXCEPT ![root[l]].state = "frozen"]
                ELSE store
    /\ Writes(l)
    /\ GoTo(l, "answered")
    /\ UNCHANGED <<ledgers, stage, committed, root, turn, request, action, final,
                   executed>>

\* run_fixed_workflow: parse_prepared_transition, then the executor the action
\* names; without one the payload is its own evidence.
Execute(l, kind) ==
    /\ pc[l] = "answered"
    /\ ValidAction(request[l], action[l])
    /\ action[l].kind = kind
    /\ GoTo(l, "executed")
    /\ UNCHANGED <<files, root, turn, request, action, final>>

ExecuteOutside(l, kind) ==
    /\ Execute(l, kind)
    /\ executed' = executed \cup {<<l, request[l].wf, request[l].seq, kind>>}

ExecuteInline(l) == Execute(l, "none") /\ UNCHANGED executed

Dispatch(l) ==
    \/ ExecuteInline(l)
    \/ ExecuteOutside(l, "offline")
    \/ ExecuteOutside(l, "broker")

\* finalize, then parse_finalized_transition of the coordinator's reply
FinalizeCall(l, f) ==
    /\ pc[l] = "executed"
    /\ ValidFinalized(request[l], f)
    /\ stage' = [stage EXCEPT ![root[l]][turn[l]] = "finalized"]
    /\ final' = [final EXCEPT ![l] = f]
    /\ Writes(l)
    /\ GoTo(l, "finalized")
    /\ UNCHANGED <<ledgers, store, committed, root, turn, request, action, executed>>

\* _validate_snapshot_store_artifacts
StoreMatches(n, s, f) ==
    /\ n = 1 => s.snapshots # NoDir /\ s.snapshots = f.snaps /\ f.snaps # {}
    /\ n = 2 => s.red # NoDir /\ s.red = f.snaps /\ f.snaps # {}

\* Mutant: committing without comparing the store to the result
CommitBeginUnchecked(l) ==
    /\ pc[l] = "finalized"
    /\ stage' = [stage EXCEPT ![root[l]][turn[l]] = "committing"]
    /\ Writes(l)
    /\ GoTo(l, "committing")
    /\ UNCHANGED <<ledgers, store, committed, root, turn, request, action, final,
                   executed>>

\* commit up to the committed/ directory; a stop from here to CommitFreeze leaves
\* it incomplete and writable.
CommitBegin(l) ==
    /\ pc[l] = "finalized"
    /\ StoreMatches(turn[l], store[root[l]], final[l])
    /\ stage' = [stage EXCEPT ![root[l]][turn[l]] = "committing"]
    /\ Writes(l)
    /\ GoTo(l, "committing")
    /\ UNCHANGED <<ledgers, store, committed, root, turn, request, action, final,
                   executed>>

\* run_fixed_workflow goes on to the next phase with the next request.
Advance(l) ==
    /\ turn' = [turn EXCEPT ![l] = @ + 1]
    /\ request' = [request EXCEPT ![l] =
                      IF final[l].next = NoRequest THEN @ ELSE final[l].next]
    /\ GoTo(l, IF turn[l] = MaxSeq THEN "done" ELSE "ready")

\* The rest of commit: the files of committed/, then the two freezes.
CommitFreeze(l) ==
    LET r == root[l]
        n == turn[l]
    IN  /\ pc[l] = "committing"
        /\ committed' = [committed EXCEPT ![r][n] = final[l]]
        /\ stage' = [stage EXCEPT ![r][n] = "frozen"]
        /\ Writes(l)
        /\ Advance(l)
        /\ action' = [action EXCEPT ![l] = NoAction]
        /\ final' = [final EXCEPT ![l] = NoTransition]
        /\ UNCHANGED <<ledgers, store, root, executed>>

\* The process is gone; what it wrote stays ("Leave it in place for operator
\* forensics").
Exit(l) ==
    /\ GoTo(l, "stopped")
    /\ request' = [request EXCEPT ![l] = NoRequest]
    /\ action' = [action EXCEPT ![l] = NoAction]
    /\ final' = [final EXCEPT ![l] = NoTransition]
    /\ UNCHANGED <<ledgers, store, committed, root, turn, author, executed>>

\* Mutant: an action that does not fit the request is not the end, the coordinator
\* is asked again
RefusedAsksAgain(l) ==
    \/ /\ \/ pc[l] \in {"launched", "checked"} /\ ~RootIsNew(l)
          \/ pc[l] = "ready" /\ ~CanPrepare(l)
          \/ pc[l] = "finalized" /\ ~StoreMatches(turn[l], store[root[l]], final[l])
       /\ Exit(l)
       /\ UNCHANGED stage
    \/ /\ pc[l] = "answered" /\ ~ValidAction(request[l], action[l])
       /\ action' = [action EXCEPT ![l] = NoAction]
       /\ GoTo(l, "calling")
       /\ UNCHANGED <<files, root, turn, request, final, executed>>

\* A check fails: "production workflow stopped fail-closed"
Refused(l) ==
    /\ \/ pc[l] \in {"launched", "checked"} /\ ~RootIsNew(l)
       \/ pc[l] = "ready" /\ ~CanPrepare(l)
       \/ pc[l] = "answered" /\ ~ValidAction(request[l], action[l])
       \/ pc[l] = "finalized" /\ ~StoreMatches(turn[l], store[root[l]], final[l])
    /\ Exit(l)
    /\ UNCHANGED stage

\* The reply to finalize does not parse; its directories have been made.
FinalizeRefused(l) ==
    /\ pc[l] = "executed"
    /\ stage' = [stage EXCEPT ![root[l]][turn[l]] = "finalized"]
    /\ Exit(l)

\* A timeout, an I/O error or the end of the process, anywhere
Crash(l) ==
    /\ pc[l] \notin {"new", "done", "stopped"}
    /\ Exit(l)
    /\ UNCHANGED stage

\* Replies of the coordinator to prepare: any action and any snapshots directory
PrepareReplies ==
    [act : Actions \ {NoAction}, dir : {NoDir} \cup SUBSET Shas]

\* The request that follows result r, and those that differ from it in a field
RightSuccessor(r) ==
    [wf |-> r.req.wf, seq |-> r.req.seq + 1, anchor |-> r.req.anchor,
     prev |-> PhaseSha(r), inp |-> r.out, snap |-> r.snap, packet |-> r.packet]

Successors(r) ==
    LET q == RightSuccessor(r) IN
    {NoRequest}
    \cup {[q EXCEPT !.wf = w] : w \in WorkflowIds}
    \cup {[q EXCEPT !.anchor = a] : a \in Anchors}
    \cup {[q EXCEPT !.inp = x] : x \in Arts}
    \cup {[q EXCEPT !.snap = x] : x \in Arts \cup {NoDigest}}
    \cup {[q EXCEPT !.packet = x] : x \in Arts \cup {NoDigest}}
    \cup {[q EXCEPT !.prev = NoDigest], [q EXCEPT !.seq = r.req.seq]}

\* Replies to finalize; only the snapshot phases name snapshots.
Replies(q) ==
    UNION {{[result |-> r, snaps |-> h, next |-> x] :
               x \in Successors(r), h \in IF q.seq <= 2 THEN SUBSET Shas ELSE {{}}} :
           r \in [req : {q}, out : Arts, snap : Arts \cup {NoDigest},
                  packet : Arts \cup {NoDigest}]}

Step(l) ==
    \/ CheckRoot(l)
    \/ MakeStore(l)
    \/ PrepareInput(l)
    \/ \E v \in PrepareReplies : PrepareCall(l, v.act, v.dir)
    \/ FreezeStore(l)
    \/ Dispatch(l)
    \/ pc[l] = "executed" /\ \E f \in Replies(request[l]) : FinalizeCall(l, f)
    \/ FinalizeRefused(l)
    \/ CommitBegin(l)
    \/ CommitFreeze(l)
    \/ Refused(l)

Next ==
    \E l \in Launches :
        \/ \E r \in Roots, b \in Ledgers, w \in WorkflowIds, a \in Anchors :
               Launch(l, r, b, w, a)
        \/ Step(l)
        \/ Crash(l)

\* A launch is one thread, and every call it waits for has a timeout.
Fairness == \A l \in Launches : WF_vars(Step(l))

Spec == Init /\ [][Next]_vars /\ Fairness

(***************************************************************************)
(* Properties.                                                             *)
(***************************************************************************)

\* Every variable has the shape of its file or local; in particular a request
\* never names a phase after the last.
TypeOK ==
    /\ ledgers \subseteq Ledgers
    /\ store \in [Roots -> Stores]
    /\ stage \in [Roots -> [Seqs -> {"absent", "input", "prepared", "finalized",
                                    "committing", "frozen"}]]
    /\ committed \in [Roots -> [Seqs -> Transitions \cup {NoTransition}]]
    /\ pc \in [Launches -> {"new", "launched", "checked", "ready", "calling",
                            "moved", "answered", "executed", "finalized",
                            "committing", "done", "stopped"}]
    /\ root \in [Launches -> Roots \cup {NoRoot}]
    /\ turn \in [Launches -> 1..(MaxSeq + 1)]
    /\ request \in [Launches -> Requests \cup {NoRequest}]
    /\ action \in [Launches -> Actions]
    /\ final \in [Launches -> Transitions \cup {NoTransition}]
    /\ author \in [Roots -> SUBSET Launches]
    /\ executed \subseteq Launches \X WorkflowIds \X Seqs \X Kinds

\* "workflow output root must be a new empty private directory": although the
\* check and the first mkdir are separate system calls, two launches given the
\* same root never both write below it.
OneAuthor == \A r \in Roots : Cardinality(author[r]) <= 1

\* What was committed or moved into the store is never written again, by the
\* same launch or by another one.
WrittenOnce ==
    [][\A r \in Roots :
         /\ \A n \in Seqs :
               committed[r][n] # NoTransition =>
                   committed'[r][n] = committed[r][n] /\ stage'[r][n] = "frozen"
         /\ store[r].snapshots # NoDir => store'[r].snapshots = store[r].snapshots
         /\ store[r].red # NoDir => store'[r].red = store[r].red
         /\ store[r].state = "frozen" => store'[r] = store[r]]_vars

\* Below one root the committed phases are one hash-linked chain of a single
\* workflow, and a phase directory exists only behind a frozen predecessor.
ChainInRoot ==
    \A r \in Roots : \A n \in Seqs \ {1} :
        stage[r][n] # "absent" =>
            /\ stage[r][n - 1] = "frozen"
            /\ committed[r][n] # NoTransition =>
                 LET this == committed[r][n].result
                     previous == committed[r][n - 1].result
                 IN  /\ this.req.wf = previous.req.wf
                     /\ this.req.anchor = previous.req.anchor
                     /\ this.req.prev = PhaseSha(previous)
                     /\ this.req.inp = previous.out
                     /\ this.snap = previous.snap

\* The snapshots in the store are those the committed results name, at every
\* later point of the workflow, whatever the coordinator left on disk.
StoreMatchesCommitted ==
    \A r \in Roots :
        /\ committed[r][1] # NoTransition =>
               store[r].snapshots = committed[r][1].snaps
        /\ 2 \in Seqs /\ committed[r][2] # NoTransition =>
               store[r].red = committed[r][2].snaps

\* The offline runner, which executes snapshot code, is only started on a frozen
\* store, and the broker, which spends money, only behind four frozen phases.
OuterOnlyBehindEvidence ==
    \A e \in executed :
        /\ e[4] \in {"offline", "broker"} => store[root[e[1]]].state = "frozen"
        /\ \A n \in Seqs :
               n < (IF e[4] = "broker" THEN PacketPhase ELSE PacketPhase - 2) =>
                   stage[root[e[1]]][n] = "frozen"

\* Every launch comes to an end, completed or stopped.
EventuallyEnds ==
    \A l \in Launches : pc[l] = "launched" ~> pc[l] \in {"done", "stopped"}

\* The runbook: a phase of a workflow is not used again, and "SQLite replay
\* ledger" is part of the seven-phase protocol.  No offline or broker execution
\* of a workflow is repeated by another launch.
PhaseNotReplayed ==
    \A e, f \in executed : e[2] = f[2] /\ e[3] = f[3] => e[1] = f[1]

=============================================================================
