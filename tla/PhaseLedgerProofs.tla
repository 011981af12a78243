------------------------- MODULE PhaseLedgerProofs -------------------------
(***************************************************************************)
(* Proofs about PhaseLedger for every number of processes, workflows and   *)
(* output roots.                                                           *)
(***************************************************************************)
EXTENDS PhaseLedger, FiniteSetTheorems, SequenceTheorems, TLAPS

\* The places from which a process still has to commit its claim
Claiming == {"claimed", "prepared", "executed", "finalized"}

\* A process inside run_phase holds a request; past Finalize, also a result for
\* that request.
HeldRequest ==
    \A p \in Processes :
        /\ pc[p] # "idle" => req[p] \in Requests
        /\ pc[p] \in {"finalized", "committed"} =>
              result[p] \in Results /\ result[p].req = req[p]

\* Between claim and commit the row of the request is this process's own.
OwnsPendingRow ==
    \A p \in Processes :
        pc[p] \in Claiming =>
            /\ rows[req[p].wf][req[p].seq].status = "pending"
            /\ rows[req[p].wf][req[p].seq].req = req[p]

\* No row has two owners.
OneOwner ==
    \A p1, p2 \in Processes :
        /\ pc[p1] \in Claiming
        /\ pc[p2] \in Claiming
        /\ req[p1].wf = req[p2].wf
        /\ req[p1].seq = req[p2].seq
        => p1 = p2

\* What has been performed for a row is what its owner has done so far.
CountsFollowOwner ==
    /\ \A w \in WorkflowIds, n \in Seqs :
          /\ prepared[w][n] <= 1
          /\ external[w][n] <= prepared[w][n]
          /\ rows[w][n].status = "none" => prepared[w][n] = 0
    /\ \A p \in Processes :
          LET w == req[p].wf
              n == req[p].seq
          IN  /\ pc[p] = "claimed" => prepared[w][n] = 0
              /\ pc[p] = "prepared" => prepared[w][n] = 1 /\ external[w][n] = 0

IInv == TypeOK /\ HeldRequest /\ OwnsPendingRow /\ OneOwner /\ CountsFollowOwner

-----------------------------------------------------------------------------

\* Replacing one cell of a table keeps its shape and every other cell.
LEMMA CellUpdate ==
    ASSUME NEW A, NEW B, NEW C, NEW f \in [A -> [B -> C]],
           NEW a \in A, NEW b \in B, NEW c \in C,
           NEW g, g = [f EXCEPT ![a][b] = c]
    PROVE  /\ g \in [A -> [B -> C]]
           /\ \A x \in A, y \in B :
                 g[x][y] = IF x = a /\ y = b THEN c ELSE f[x][y]
  OBVIOUS

\* A digest of a well-typed result is well typed.
LEMMA PhaseShaType == \A r \in Results : PhaseSha(r) \in Digests
<1> SUFFICES ASSUME NEW r \in Results PROVE PhaseSha(r) \in Digests
  OBVIOUS
<1>1. r.req \in Requests /\ r.out \in Arts
  BY DEF Results
<1>2. /\ r.req.wf \in WorkflowIds
      /\ r.req.anchor \in Anchors
      /\ r.req.prev \in Digests \cup {NoDigest}
  BY <1>1 DEF Requests
<1> DEFINE before == IF r.req.prev = NoDigest THEN <<>> ELSE r.req.prev.outs
<1>3. before \in Seq(Arts)
  BY <1>2 DEF Digests
<1>4. Append(before, r.out) \in Seq(Arts)
  BY <1>1, <1>3
<1> QED
  BY <1>2, <1>4 DEF PhaseSha, Digests

\* Whatever the caller asks for, run_phase starts with a well-typed request.
LEMMA BeginEnters ==
    ASSUME TypeOK, NEW p \in Processes, Begin(p)
    PROVE  \E r \in Roots, q \in Requests : EnterPhase(p, r, q)
<1>1. PICK r \in Roots, a \in Anchors :
         \/ \E w \in WorkflowIds : BeginFirst(p, r, w, a)
         \/ \E i \in Roots, m \in Seqs, s, k \in Arts \cup {NoDigest} :
               BeginNext(p, r, i, m, a, s, k)
  BY DEF Begin
<1>2. ASSUME NEW w \in WorkflowIds, BeginFirst(p, r, w, a)
      PROVE  \E q \in Requests : EnterPhase(p, r, q)
  <2> DEFINE q == [wf |-> w, seq |-> 1, anchor |-> a, prev |-> NoDigest,
                   inp |-> EmptyArts, snap |-> NoDigest, packet |-> NoDigest]
  <2>1. q \in Requests
    BY MaxSeqAssumption DEF Requests, Seqs
  <2>2. EnterPhase(p, r, q)
    BY <1>2 DEF BeginFirst
  <2> QED
    BY <2>1, <2>2
<1>3. ASSUME NEW i \in Roots, NEW m \in Seqs,
             NEW s \in Arts \cup {NoDigest}, NEW k \in Arts \cup {NoDigest},
             BeginNext(p, r, i, m, a, s, k)
      PROVE  \E q \in Requests : EnterPhase(p, r, q)
  <2> DEFINE v == trees[i][m].result
  <2> DEFINE q == [wf |-> v.req.wf, seq |-> v.req.seq + 1, anchor |-> a,
                   prev |-> PhaseSha(v), inp |-> v.out, snap |-> s,
                   packet |-> k]
  <2>1. trees[i][m] \in Trees
    BY DEF TypeOK
  <2>2. v \in Results /\ v.req.seq < MaxSeq
    BY <1>3, <2>1 DEF BeginNext, Trees
  <2>3. v.req \in Requests /\ v.out \in Arts
    BY <2>2 DEF Results
  <2>4. v.req.wf \in WorkflowIds /\ v.req.seq \in Seqs
    BY <2>3 DEF Requests
  <2>5. v.req.seq + 1 \in Seqs
    BY <2>2, <2>4, MaxSeqAssumption DEF Seqs
  <2>6. PhaseSha(v) \in Digests
    BY <2>2, PhaseShaType
  <2>7. q \in Requests
    BY <2>3, <2>4, <2>5, <2>6 DEF Requests
  <2>8. EnterPhase(p, r, q)
    BY <1>3 DEF BeginNext
  <2> QED
    BY <2>7, <2>8
<1> QED
  BY <1>1, <1>2, <1>3

\* The initial ledger satisfies the inductive invariant.
LEMMA InitIInv == Init => IInv
<1> SUFFICES ASSUME Init PROVE IInv
  OBVIOUS
<1>1. NoRow \in Rows /\ NoTree \in Trees
  BY DEF NoRow, NoTree, Rows, Trees
<1>2. TypeOK
  BY <1>1 DEF Init, TypeOK
<1>3. \A p \in Processes : pc[p] = "idle"
  BY DEF Init
<1>4. \A w \in WorkflowIds, n \in Seqs : prepared[w][n] = 0 /\ external[w][n] = 0
  BY DEF Init
<1> QED
  BY <1>2, <1>3, <1>4
  DEF IInv, HeldRequest, OwnsPendingRow, OneOwner, CountsFollowOwner, Claiming

\* What a process inside run_phase works on
LEMMA HeldFacts ==
    ASSUME IInv, NEW p \in Processes, pc[p] # "idle"
    PROVE  /\ req[p] \in Requests
           /\ req[p].wf \in WorkflowIds
           /\ req[p].seq \in Seqs
           /\ root[p] \in Roots
           /\ rows[req[p].wf][req[p].seq] \in Rows
           /\ trees[root[p]][req[p].seq] \in Trees
  BY DEF IInv, HeldRequest, TypeOK, Requests

\* EnterPhase makes a directory and takes a request; the ledger is untouched.
LEMMA EnterKeeps ==
    ASSUME IInv, NEW p \in Processes, NEW r \in Roots, NEW q \in Requests,
           EnterPhase(p, r, q)
    PROVE  IInv'
<1>1. q.seq \in Seqs /\ trees[r][q.seq] \in Trees
  BY DEF Requests, IInv, TypeOK
<1>2. [trees[r][q.seq] EXCEPT !.state = "open"] \in Trees
  BY <1>1 DEF Trees
<1>3. trees' = [trees EXCEPT ![r][q.seq] =
                   [trees[r][q.seq] EXCEPT !.state = "open"]]
  BY DEF EnterPhase
<1>4. trees' \in [Roots -> [Seqs -> Trees]]
  BY <1>1, <1>2, <1>3, CellUpdate DEF IInv, TypeOK
<1>5. TypeOK'
  BY <1>4 DEF EnterPhase, IInv, TypeOK
<1>6. /\ rows' = rows /\ result' = result /\ prepared' = prepared
      /\ external' = external
      /\ pc' = [pc EXCEPT ![p] = "begun"] /\ req' = [req EXCEPT ![p] = q]
  BY DEF EnterPhase
<1>7. /\ pc'[p] = "begun" /\ req'[p] = q
      /\ \A x \in Processes \ {p} : pc'[x] = pc[x] /\ req'[x] = req[x]
  BY <1>6 DEF IInv, TypeOK
<1>8. HeldRequest'
  BY <1>6, <1>7 DEF IInv, HeldRequest
<1>9. OwnsPendingRow' /\ OneOwner' /\ CountsFollowOwner'
  BY <1>6, <1>7 DEF IInv, OwnsPendingRow, OneOwner, CountsFollowOwner, Claiming
<1> QED
  BY <1>5, <1>8, <1>9 DEF IInv

\* A process that leaves run_phase leaves the ledger as it is.
LEMMA LeaveKeeps ==
    ASSUME IInv, NEW p \in Processes, Leave(p),
           trees' \in [Roots -> [Seqs -> Trees]]
    PROVE  IInv'
<1>1. TypeOK'
  BY DEF Leave, IInv, TypeOK
<1>2. /\ rows' = rows /\ prepared' = prepared /\ external' = external
      /\ pc'[p] = "idle"
      /\ \A x \in Processes \ {p} :
            pc'[x] = pc[x] /\ req'[x] = req[x] /\ result'[x] = result[x]
  BY DEF Leave, IInv, TypeOK
<1>3. HeldRequest'
  BY <1>2 DEF IInv, HeldRequest
<1>4. OwnsPendingRow' /\ OneOwner' /\ CountsFollowOwner'
  BY <1>2 DEF IInv, OwnsPendingRow, OneOwner, CountsFollowOwner, Claiming
<1> QED
  BY <1>1, <1>3, <1>4 DEF IInv

\* claim writes a row nobody has, so its process becomes the only owner.
LEMMA ClaimKeeps ==
    ASSUME IInv, NEW p \in Processes, Claim(p)
    PROVE  IInv'
<1> DEFINE q == req[p]
<1> DEFINE row == [status |-> "pending", req |-> q, result |-> NoResult]
<1>1. /\ pc[p] = "begun"
      /\ rows[q.wf][q.seq].status = "none"
      /\ rows' = [rows EXCEPT ![q.wf][q.seq] = row]
      /\ pc' = [pc EXCEPT ![p] = "claimed"]
      /\ UNCHANGED <<trees, req, root, result, prepared, external>>
  BY DEF Claim, CanClaim, Unclaimed
<1>2. q \in Requests /\ q.wf \in WorkflowIds /\ q.seq \in Seqs
  BY <1>1, HeldFacts
<1>3. row \in Rows
  BY <1>2 DEF Rows
<1>4. /\ rows' \in [WorkflowIds -> [Seqs -> Rows]]
      /\ \A w \in WorkflowIds, n \in Seqs :
            rows'[w][n] = IF w = q.wf /\ n = q.seq THEN row ELSE rows[w][n]
  BY <1>1, <1>2, <1>3, CellUpdate DEF IInv, TypeOK
<1>5. TypeOK'
  BY <1>1, <1>4 DEF IInv, TypeOK
<1>6. /\ pc'[p] = "claimed"
      /\ \A x \in Processes \ {p} : pc'[x] = pc[x]
      /\ req' = req /\ result' = result
      /\ prepared' = prepared /\ external' = external
  BY <1>1 DEF IInv, TypeOK
<1>7. HeldRequest'
  BY <1>1, <1>6 DEF IInv, HeldRequest
<1>8. \A x \in Processes :
         pc[x] \in Claiming => ~(req[x].wf = q.wf /\ req[x].seq = q.seq)
  BY <1>1 DEF IInv, OwnsPendingRow
<1>9. \A x \in Processes : pc[x] \in Claiming =>
         req[x].wf \in WorkflowIds /\ req[x].seq \in Seqs
  BY HeldFacts DEF Claiming
<1>10. OwnsPendingRow'
  BY <1>2, <1>4, <1>6, <1>8, <1>9 DEF IInv, OwnsPendingRow, Claiming
<1>11. OneOwner'
  BY <1>6, <1>8 DEF IInv, OneOwner, Claiming
<1>12. prepared[q.wf][q.seq] = 0
  BY <1>1, <1>2 DEF IInv, CountsFollowOwner
<1>13. CountsFollowOwner'
  <2>1. \A w \in WorkflowIds, n \in Seqs :
           rows'[w][n].status = "none" => rows[w][n].status = "none"
    BY <1>4
  <2> QED
    BY <2>1, <1>6, <1>12 DEF IInv, CountsFollowOwner
<1> QED
  BY <1>5, <1>7, <1>10, <1>11, <1>13 DEF IInv

\* Only the owner of a claim prepares it, and only once.
LEMMA PrepareKeeps ==
    ASSUME IInv, NEW p \in Processes, Prepare(p)
    PROVE  IInv'
<1> DEFINE q == req[p]
<1>1. /\ pc[p] = "claimed"
      /\ pc' = [pc EXCEPT ![p] = "prepared"]
      /\ prepared' = [prepared EXCEPT ![q.wf][q.seq] = prepared[q.wf][q.seq] + 1]
      /\ UNCHANGED <<rows, trees, req, root, result, external>>
  BY DEF Prepare
<1>2. q \in Requests /\ q.wf \in WorkflowIds /\ q.seq \in Seqs
  BY <1>1, HeldFacts
<1>3. prepared[q.wf][q.seq] = 0 /\ external[q.wf][q.seq] = 0
  <2>1. prepared[q.wf][q.seq] = 0 /\ external[q.wf][q.seq] <= prepared[q.wf][q.seq]
    BY <1>1, <1>2 DEF IInv, CountsFollowOwner
  <2>2. external[q.wf][q.seq] \in Nat
    BY <1>2 DEF IInv, TypeOK
  <2> QED
    BY <2>1, <2>2
<1>4. prepared' = [prepared EXCEPT ![q.wf][q.seq] = 1]
  BY <1>1, <1>3
<1>5. /\ prepared' \in [WorkflowIds -> [Seqs -> Nat]]
      /\ \A w \in WorkflowIds, n \in Seqs :
            prepared'[w][n] = IF w = q.wf /\ n = q.seq THEN 1 ELSE prepared[w][n]
  BY <1>2, <1>4, CellUpdate DEF IInv, TypeOK
<1>6. TypeOK'
  BY <1>1, <1>5 DEF IInv, TypeOK
<1>7. /\ pc'[p] = "prepared"
      /\ \A x \in Processes \ {p} : pc'[x] = pc[x]
      /\ req' = req /\ result' = result /\ rows' = rows /\ external' = external
  BY <1>1 DEF IInv, TypeOK
<1>8. HeldRequest' /\ OwnsPendingRow' /\ OneOwner'
  BY <1>1, <1>7 DEF IInv, HeldRequest, OwnsPendingRow, OneOwner, Claiming
<1>9. rows[q.wf][q.seq].status = "pending"
  BY <1>1 DEF IInv, OwnsPendingRow, Claiming
<1>10. \A x \in Processes \ {p} :
          pc[x] \in Claiming => ~(req[x].wf = q.wf /\ req[x].seq = q.seq)
  BY <1>1 DEF IInv, OneOwner, Claiming
<1>11. \A x \in Processes : pc[x] \in Claiming =>
          req[x].wf \in WorkflowIds /\ req[x].seq \in Seqs
  BY HeldFacts DEF Claiming
<1>12. \A w \in WorkflowIds, n \in Seqs :
          /\ prepared'[w][n] <= 1
          /\ external'[w][n] <= prepared'[w][n]
          /\ rows'[w][n].status = "none" => prepared'[w][n] = 0
  BY <1>3, <1>5, <1>7, <1>9 DEF IInv, CountsFollowOwner
<1>13. \A x \in Processes :
          /\ pc'[x] = "claimed" => prepared'[req'[x].wf][req'[x].seq] = 0
          /\ pc'[x] = "prepared" =>
                /\ prepared'[req'[x].wf][req'[x].seq] = 1
                /\ external'[req'[x].wf][req'[x].seq] = 0
  BY <1>2, <1>3, <1>5, <1>7, <1>10, <1>11 DEF IInv, CountsFollowOwner, Claiming
<1>14. CountsFollowOwner'
  BY <1>12, <1>13 DEF CountsFollowOwner
<1> QED
  BY <1>6, <1>8, <1>14 DEF IInv

\* Only the owner of a claim executes it outside, after preparing it.
LEMMA ExecuteKeeps ==
    ASSUME IInv, NEW p \in Processes, ExecuteExternal(p)
    PROVE  IInv'
<1> DEFINE q == req[p]
<1>1. /\ pc[p] = "prepared"
      /\ pc' = [pc EXCEPT ![p] = "executed"]
      /\ external' = [external EXCEPT ![q.wf][q.seq] = external[q.wf][q.seq] + 1]
      /\ UNCHANGED <<rows, trees, req, root, result, prepared>>
  BY DEF ExecuteExternal
<1>2. q \in Requests /\ q.wf \in WorkflowIds /\ q.seq \in Seqs
  BY <1>1, HeldFacts
<1>3. prepared[q.wf][q.seq] = 1 /\ external[q.wf][q.seq] = 0
  BY <1>1, <1>2 DEF IInv, CountsFollowOwner
<1>4. external' = [external EXCEPT ![q.wf][q.seq] = 1]
  BY <1>1, <1>3
<1>5. /\ external' \in [WorkflowIds -> [Seqs -> Nat]]
      /\ \A w \in WorkflowIds, n \in Seqs :
            external'[w][n] = IF w = q.wf /\ n = q.seq THEN 1 ELSE external[w][n]
  BY <1>2, <1>4, CellUpdate DEF IInv, TypeOK
<1>6. TypeOK'
  BY <1>1, <1>5 DEF IInv, TypeOK
<1>7. /\ pc'[p] = "executed"
      /\ \A x \in Processes \ {p} : pc'[x] = pc[x]
      /\ req' = req /\ result' = result /\ rows' = rows /\ prepared' = prepared
  BY <1>1 DEF IInv, TypeOK
<1>8. HeldRequest' /\ OwnsPendingRow' /\ OneOwner'
  BY <1>1, <1>7 DEF IInv, HeldRequest, OwnsPendingRow, OneOwner, Claiming
<1>9. \A x \in Processes \ {p} :
          pc[x] \in Claiming => ~(req[x].wf = q.wf /\ req[x].seq = q.seq)
  BY <1>1 DEF IInv, OneOwner, Claiming
<1>10. \A x \in Processes : pc[x] \in Claiming =>
          req[x].wf \in WorkflowIds /\ req[x].seq \in Seqs
  BY HeldFacts DEF Claiming
<1>11. \A w \in WorkflowIds, n \in Seqs :
          /\ prepared'[w][n] <= 1
          /\ external'[w][n] <= prepared'[w][n]
          /\ rows'[w][n].status = "none" => prepared'[w][n] = 0
  BY <1>3, <1>5, <1>7 DEF IInv, CountsFollowOwner
<1>12. \A x \in Processes :
          /\ pc'[x] = "claimed" => prepared'[req'[x].wf][req'[x].seq] = 0
          /\ pc'[x] = "prepared" =>
                /\ prepared'[req'[x].wf][req'[x].seq] = 1
                /\ external'[req'[x].wf][req'[x].seq] = 0
  BY <1>2, <1>5, <1>7, <1>9, <1>10 DEF IInv, CountsFollowOwner, Claiming
<1>13. CountsFollowOwner'
  BY <1>11, <1>12 DEF CountsFollowOwner
<1> QED
  BY <1>6, <1>8, <1>13 DEF IInv

\* The coordinator's output becomes a result for the claimed request.
LEMMA FinalizeKeeps ==
    ASSUME IInv, NEW p \in Processes, NEW out \in Arts,
           NEW s \in Arts \cup {NoDigest}, NEW k \in Arts \cup {NoDigest},
           Finalize(p, out, s, k)
    PROVE  IInv'
<1> DEFINE r == [req |-> req[p], out |-> out, snap |-> s, packet |-> k]
<1>1. /\ pc[p] \in {"prepared", "executed"}
      /\ pc' = [pc EXCEPT ![p] = "finalized"]
      /\ result' = [result EXCEPT ![p] = r]
      /\ UNCHANGED <<rows, trees, req, root, prepared, external>>
  BY DEF Finalize
<1>2. req[p] \in Requests
  BY <1>1, HeldFacts
<1>3. r \in Results /\ r.req = req[p]
  BY <1>2 DEF Results
<1>4. TypeOK'
  BY <1>1, <1>3 DEF IInv, TypeOK
<1>5. /\ pc'[p] = "finalized" /\ result'[p] = r
      /\ \A x \in Processes \ {p} : pc'[x] = pc[x] /\ result'[x] = result[x]
      /\ req' = req /\ rows' = rows /\ prepared' = prepared
      /\ external' = external
  BY <1>1 DEF IInv, TypeOK
<1>6. HeldRequest'
  BY <1>2, <1>3, <1>5 DEF IInv, HeldRequest
<1>7. OwnsPendingRow' /\ OneOwner'
  BY <1>1, <1>5 DEF IInv, OwnsPendingRow, OneOwner, Claiming
<1>8. CountsFollowOwner'
  BY <1>5 DEF IInv, CountsFollowOwner
<1> QED
  BY <1>4, <1>6, <1>7, <1>8 DEF IInv

\* Writing a file changes nothing but the tree of the writing process.
LEMMA PersistKeeps ==
    ASSUME IInv, NEW p \in Processes, Persist(p)
    PROVE  IInv'
<1> DEFINE q == req[p]
<1> DEFINE tree == trees[root[p]][q.seq]
<1>1. PICK v \in Results \cup {NoResult} :
         trees' = [trees EXCEPT ![root[p]][q.seq] =
                      [tree EXCEPT !.written = tree.written + 1, !.result = v]]
  <2>1. tree \in Trees /\ result[p] \in Results \cup {NoResult}
    BY HeldFacts DEF Persist, IInv, TypeOK
  <2> DEFINE v == IF tree.written + 1 = Len(PersistOrder(q.seq))
                    THEN result[p] ELSE tree.result
  <2>2. v \in Results \cup {NoResult}
    BY <2>1 DEF Trees
  <2>3. trees' = [trees EXCEPT ![root[p]][q.seq] =
                     [tree EXCEPT !.written = tree.written + 1, !.result = v]]
    BY DEF Persist
  <2> QED
    BY <2>2, <2>3
<1>2. pc[p] = "finalized" /\ UNCHANGED <<rows, held, prepared, external>>
  BY DEF Persist
<1>3. root[p] \in Roots /\ q.seq \in Seqs /\ tree \in Trees
  BY <1>2, HeldFacts
<1>4. [tree EXCEPT !.written = tree.written + 1, !.result = v] \in Trees
  <2>1. tree.written + 1 \in Nat
    BY <1>3 DEF Trees
  <2> HIDE DEF tree
  <2> QED
    BY <1>3, <2>1 DEF Trees
<1>5. trees' \in [Roots -> [Seqs -> Trees]]
  BY <1>1, <1>3, <1>4, CellUpdate DEF IInv, TypeOK
<1> QED
  BY <1>2, <1>5
  DEF IInv, TypeOK, HeldRequest, OwnsPendingRow, OneOwner, CountsFollowOwner, held

\* commit completes the row of its owner and of nobody else.
LEMMA CommitKeeps ==
    ASSUME IInv, NEW p \in Processes, Commit(p)
    PROVE  IInv'
<1> DEFINE q == req[p]
<1> DEFINE row == [rows[q.wf][q.seq] EXCEPT !.status = "complete",
                                            !.result = result[p]]
<1>1. /\ pc[p] = "finalized"
      /\ rows[q.wf][q.seq].status = "pending"
      /\ rows' = [rows EXCEPT ![q.wf][q.seq] = row]
      /\ pc' = [pc EXCEPT ![p] = "committed"]
      /\ UNCHANGED <<trees, req, root, result, prepared, external>>
  BY DEF Commit
<1>2. /\ q.wf \in WorkflowIds /\ q.seq \in Seqs
      /\ rows[q.wf][q.seq] \in Rows /\ result[p] \in Results
  BY <1>1, HeldFacts DEF IInv, HeldRequest
<1>3. row \in Rows /\ row.status = "complete"
  BY <1>2 DEF Rows
<1>4. /\ rows' \in [WorkflowIds -> [Seqs -> Rows]]
      /\ \A w \in WorkflowIds, n \in Seqs :
            rows'[w][n] = IF w = q.wf /\ n = q.seq THEN row ELSE rows[w][n]
  BY <1>1, <1>2, <1>3, CellUpdate DEF IInv, TypeOK
<1>5. TypeOK'
  BY <1>1, <1>4 DEF IInv, TypeOK
<1>6. /\ pc'[p] = "committed"
      /\ \A x \in Processes \ {p} : pc'[x] = pc[x]
      /\ req' = req /\ result' = result
      /\ prepared' = prepared /\ external' = external
  BY <1>1 DEF IInv, TypeOK
<1>7. HeldRequest'
  BY <1>1, <1>6 DEF IInv, HeldRequest
<1>8. \A x \in Processes \ {p} :
         pc[x] \in Claiming => ~(req[x].wf = q.wf /\ req[x].seq = q.seq)
  BY <1>1 DEF IInv, OneOwner, Claiming
<1>9. \A x \in Processes : pc[x] \in Claiming =>
         req[x].wf \in WorkflowIds /\ req[x].seq \in Seqs
  BY HeldFacts DEF Claiming
<1>10. OwnsPendingRow'
  BY <1>4, <1>6, <1>8, <1>9 DEF IInv, OwnsPendingRow, Claiming
<1>11. OneOwner'
  BY <1>6 DEF IInv, OneOwner, Claiming
<1>12. CountsFollowOwner'
  <2>1. \A w \in WorkflowIds, n \in Seqs :
           rows'[w][n].status = "none" => rows[w][n].status = "none"
    BY <1>3, <1>4
  <2> QED
    BY <2>1, <1>6 DEF IInv, CountsFollowOwner
<1> QED
  BY <1>5, <1>7, <1>10, <1>11, <1>12 DEF IInv

\* Freezing the tree ends the call.
LEMMA FreezeKeeps ==
    ASSUME IInv, NEW p \in Processes, Freeze(p)
    PROVE  IInv'
<1> DEFINE tree == trees[root[p]][req[p].seq]
<1>1. /\ pc[p] = "committed" /\ Leave(p)
      /\ trees' = [trees EXCEPT ![root[p]][req[p].seq] =
                      [tree EXCEPT !.state = "frozen"]]
  BY DEF Freeze
<1>2. root[p] \in Roots /\ req[p].seq \in Seqs /\ tree \in Trees
  BY <1>1, HeldFacts
<1>3. [tree EXCEPT !.state = "frozen"] \in Trees
  BY <1>2 DEF Trees
<1>4. trees' \in [Roots -> [Seqs -> Trees]]
  BY <1>1, <1>2, <1>3, CellUpdate DEF IInv, TypeOK
<1> QED
  BY <1>1, <1>4, LeaveKeeps

\* The invariant is inductive.
LEMMA NextIInv == IInv /\ [Next]_vars => IInv'
<1> SUFFICES ASSUME IInv, [Next]_vars PROVE IInv'
  OBVIOUS
<1>1. CASE UNCHANGED vars
  BY <1>1 DEF vars, IInv, TypeOK, HeldRequest, OwnsPendingRow, OneOwner,
              CountsFollowOwner
<1>2. ASSUME NEW p \in Processes, Begin(p) PROVE IInv'
  BY <1>2, BeginEnters, EnterKeeps DEF IInv
<1>3. ASSUME NEW p \in Processes, Step(p) PROVE IInv'
  <2>1. CASE ClaimRefused(p)
    BY <2>1, LeaveKeeps DEF ClaimRefused, IInv, TypeOK
  <2>2. CASE \E out \in Arts, s, k \in Arts \cup {NoDigest} : Finalize(p, out, s, k)
    BY <2>2, FinalizeKeeps
  <2> QED
    BY <1>3, <2>1, <2>2, ClaimKeeps, PrepareKeeps, ExecuteKeeps, PersistKeeps,
       CommitKeeps, FreezeKeeps DEF Step
<1>4. ASSUME NEW p \in Processes, Abort(p) PROVE IInv'
  BY <1>4, LeaveKeeps DEF Abort, IInv, TypeOK
<1> QED
  BY <1>1, <1>2, <1>3, <1>4 DEF Next

-----------------------------------------------------------------------------

\* The inductive invariant holds in every reachable state.
THEOREM Inductive == Spec => []IInv
  BY InitIInv, NextIInv, PTL DEF Spec

\* Type correctness for every instance.
THEOREM TypeCorrect == Spec => []TypeOK
<1>1. IInv => TypeOK
  BY DEF IInv
<1> QED
  BY <1>1, Inductive, PTL

\* No phase of a workflow is prepared or executed outside twice, however many
\* launchers share the ledger and wherever they crash.
THEOREM AtMostOnce == Spec => []ExecutedAtMostOnce
<1>1. IInv => ExecutedAtMostOnce
  BY DEF IInv, CountsFollowOwner, ExecutedAtMostOnce
<1> QED
  BY <1>1, Inductive, PTL

\* Whatever was prepared is already consumed in the ledger.
THEOREM ConsumedFirst == Spec => []ConsumedBeforeExecuted
<1>1. IInv => ConsumedBeforeExecuted
  BY DEF IInv, TypeOK, CountsFollowOwner, ConsumedBeforeExecuted
<1> QED
  BY <1>1, Inductive, PTL

-----------------------------------------------------------------------------
(***************************************************************************)
(* The shape of the chain.  Rows change only by claim and commit.          *)
(***************************************************************************)

\* A workflow has at most one consumed phase that is not committed.
OnePending ==
    \A w \in WorkflowIds, m, n \in Seqs :
        rows[w][m].status = "pending" /\ rows[w][n].status = "pending" => m = n

\* The committed phases are the first ones of PHASE_ORDER, without a gap.
GapFree ==
    \A w \in WorkflowIds : \E k \in 0..MaxSeq : Completed(w) = 1..k

ChainInv == IInv /\ OnePending /\ GapFree /\ ChainLinked

\* claim and commit are the only writers of the phases table.
LEMMA RowWriters ==
    ASSUME TypeOK, [Next]_vars
    PROVE  \/ rows' = rows
           \/ \E p \in Processes : Claim(p)
           \/ \E p \in Processes : Commit(p)
<1>1. ASSUME NEW p \in Processes, Begin(p) PROVE rows' = rows
  BY <1>1, BeginEnters DEF EnterPhase
<1>2. ASSUME NEW p \in Processes, Step(p) PROVE rows' = rows \/ Claim(p) \/ Commit(p)
  BY <1>2 DEF Step, ClaimRefused, Leave, Prepare, ExecuteExternal, Finalize,
              Persist, Freeze
<1>3. ASSUME NEW p \in Processes, Abort(p) PROVE rows' = rows
  BY <1>3 DEF Abort, Leave
<1> QED
  BY <1>1, <1>2, <1>3 DEF Next, vars

\* What claim does to the table
LEMMA ClaimRow ==
    ASSUME IInv, NEW p \in Processes, Claim(p)
    PROVE  /\ req[p].wf \in WorkflowIds /\ req[p].seq \in Seqs
           /\ CanClaim(req[p])
           /\ \A w \in WorkflowIds, n \in Seqs :
                 rows'[w][n] = IF w = req[p].wf /\ n = req[p].seq
                               THEN [status |-> "pending", req |-> req[p],
                                     result |-> NoResult]
                               ELSE rows[w][n]
<1> DEFINE q == req[p]
<1> DEFINE row == [status |-> "pending", req |-> q, result |-> NoResult]
<1>1. pc[p] # "idle" /\ CanClaim(q) /\ rows' = [rows EXCEPT ![q.wf][q.seq] = row]
  BY DEF Claim
<1>2. q \in Requests /\ q.wf \in WorkflowIds /\ q.seq \in Seqs
  BY <1>1, HeldFacts
<1>3. row \in Rows
  BY <1>2 DEF Rows
<1>4. \A w \in WorkflowIds, n \in Seqs :
         rows'[w][n] = IF w = q.wf /\ n = q.seq THEN row ELSE rows[w][n]
  BY <1>1, <1>2, <1>3, CellUpdate DEF IInv, TypeOK
<1> QED
  BY <1>1, <1>2, <1>4

\* What commit does to the table
LEMMA CommitRow ==
    ASSUME IInv, NEW p \in Processes, Commit(p)
    PROVE  LET w0 == req[p].wf
               n0 == req[p].seq
           IN  /\ w0 \in WorkflowIds /\ n0 \in Seqs
               /\ rows[w0][n0].status = "pending"
               /\ rows'[w0][n0].status = "complete"
               /\ rows'[w0][n0].req = rows[w0][n0].req
               /\ rows'[w0][n0].result = result[p]
               /\ \A w \in WorkflowIds, n \in Seqs :
                     w # w0 \/ n # n0 => rows'[w][n] = rows[w][n]
<1> DEFINE q == req[p]
<1> DEFINE row == [rows[q.wf][q.seq] EXCEPT !.status = "complete",
                                            !.result = result[p]]
<1>1. /\ pc[p] = "finalized"
      /\ rows[q.wf][q.seq].status = "pending"
      /\ rows' = [rows EXCEPT ![q.wf][q.seq] = row]
  BY DEF Commit
<1>2. /\ q.wf \in WorkflowIds /\ q.seq \in Seqs
      /\ rows[q.wf][q.seq] \in Rows /\ result[p] \in Results
  BY <1>1, HeldFacts DEF IInv, HeldRequest
<1>3. /\ row \in Rows /\ row.status = "complete" /\ row.result = result[p]
      /\ row.req = rows[q.wf][q.seq].req
  BY <1>2 DEF Rows
<1>4. \A w \in WorkflowIds, n \in Seqs :
         rows'[w][n] = IF w = q.wf /\ n = q.seq THEN row ELSE rows[w][n]
  BY <1>1, <1>2, <1>3, CellUpdate DEF IInv, TypeOK
<1> HIDE DEF row
<1>5. rows'[q.wf][q.seq] = row
  BY <1>2, <1>4
<1> QED
  BY <1>1, <1>2, <1>3, <1>4, <1>5

\* Along any step of the ledger, rows stay and completed rows do not change.
THEOREM OnlyGrows == Spec => LedgerOnlyGrows
<1> DEFINE Kept == \A w \in WorkflowIds, n \in Seqs :
         /\ rows[w][n].status = "complete" => rows'[w][n] = rows[w][n]
         /\ rows[w][n].status = "pending" =>
               rows'[w][n].status # "none" /\ rows'[w][n].req = rows[w][n].req
<1>1. ASSUME IInv, [Next]_vars PROVE Kept
  <2>1. CASE rows' = rows
    BY <2>1
  <2>2. ASSUME NEW p \in Processes, Claim(p) PROVE Kept
    BY <1>1, <2>2, ClaimRow DEF CanClaim, Unclaimed
  <2>3. ASSUME NEW p \in Processes, Commit(p) PROVE Kept
    BY <1>1, <2>3, CommitRow
  <2> QED
    BY <1>1, <2>1, <2>2, <2>3, RowWriters DEF IInv
<1>2. IInv /\ [Next]_vars => [Kept]_vars
  BY <1>1
<1> QED
  BY <1>2, Inductive, PTL DEF Spec, LedgerOnlyGrows

\* Claiming keeps one pending row per workflow, at the end of its chain.
LEMMA ClaimChain ==
    ASSUME ChainInv, NEW p \in Processes, Claim(p)
    PROVE  OnePending' /\ GapFree' /\ ChainLinked'
<1> DEFINE q == req[p]
<1>1. /\ q.wf \in WorkflowIds /\ q.seq \in Seqs
      /\ rows[q.wf][q.seq].status = "none"
      /\ \A n \in Seqs : rows[q.wf][n].status # "pending"
      /\ NextInChain(q)
      /\ \A w \in WorkflowIds, n \in Seqs :
            rows'[w][n] = IF w = q.wf /\ n = q.seq
                          THEN [status |-> "pending", req |-> q, result |-> NoResult]
                          ELSE rows[w][n]
  BY ClaimRow DEF ChainInv, CanClaim, Unclaimed, NoPending
<1>2. OnePending'
  BY <1>1 DEF ChainInv, OnePending
<1>3. \A w \in WorkflowIds : Completed(w)' = Completed(w)
  BY <1>1 DEF Completed
<1>4. GapFree'
  BY <1>3 DEF ChainInv, GapFree
<1>5. ASSUME q.seq > 1
      PROVE  /\ q.seq - 1 \in Seqs
             /\ rows[q.wf][q.seq - 1].status = "complete"
             /\ q.prev = PhaseSha(rows[q.wf][q.seq - 1].result)
             /\ q.inp = rows[q.wf][q.seq - 1].result.out
  <2>1. PICK k \in 0..MaxSeq : Completed(q.wf) = 1..k
    BY <1>1 DEF ChainInv, GapFree
  <2>2. Cardinality(1..k) = k
    BY <2>1, FS_Interval, MaxSeqAssumption
  <2>3. q.seq = k + 1
    BY <1>1, <2>1, <2>2 DEF NextInChain
  <2>4. q.seq - 1 \in 1..k /\ q.seq - 1 \in Seqs
    BY <1>1, <1>5, <2>1, <2>3, MaxSeqAssumption DEF Seqs
  <2>5. q.seq - 1 \in Completed(q.wf)
    BY <2>1, <2>4
  <2>6. q.seq # 1
    BY <1>5
  <2>7. /\ q.prev = PhaseSha(rows[q.wf][q.seq - 1].result)
        /\ q.inp = rows[q.wf][q.seq - 1].result.out
    BY <1>1, <2>6 DEF NextInChain
  <2>8. rows[q.wf][q.seq - 1].status = "complete"
    BY <2>5 DEF Completed
  <2> QED
    BY <2>4, <2>7, <2>8
<1>6. ChainLinked'
  <2> SUFFICES ASSUME NEW w \in WorkflowIds, NEW n \in Seqs,
                      rows'[w][n].status # "none", n > 1
               PROVE  /\ rows'[w][n - 1].status = "complete"
                      /\ rows'[w][n].req.prev = PhaseSha(rows'[w][n - 1].result)
                      /\ rows'[w][n].req.inp = rows'[w][n - 1].result.out
    BY DEF ChainLinked, PhaseSha
  <2>1. n - 1 \in Seqs /\ n - 1 # n
    BY MaxSeqAssumption DEF Seqs
  <2>2. CASE w = q.wf /\ n = q.seq
    <3>1. rows'[w][n - 1] = rows[w][n - 1] /\ rows'[w][n].req = q
      BY <1>1, <2>1, <2>2
    <3> QED
      BY <1>5, <2>2, <3>1
  <2>3. CASE ~(w = q.wf /\ n = q.seq)
    <3>1. rows'[w][n] = rows[w][n]
      BY <1>1, <2>3
    <3>2. /\ rows[w][n - 1].status = "complete"
          /\ rows[w][n].req.prev = PhaseSha(rows[w][n - 1].result)
          /\ rows[w][n].req.inp = rows[w][n - 1].result.out
      BY <3>1 DEF ChainInv, ChainLinked
    <3>3. rows'[w][n - 1] = rows[w][n - 1]
      BY <1>1, <2>1, <3>2
    <3> QED
      BY <3>1, <3>2, <3>3
  <2> QED
    BY <2>2, <2>3
<1> QED
  BY <1>2, <1>4, <1>6

\* Committing extends the chain by the phase that was pending.
LEMMA CommitChain ==
    ASSUME ChainInv, NEW p \in Processes, Commit(p)
    PROVE  OnePending' /\ GapFree' /\ ChainLinked'
<1> DEFINE w0 == req[p].wf
<1> DEFINE n0 == req[p].seq
<1>1. /\ w0 \in WorkflowIds /\ n0 \in Seqs
      /\ rows[w0][n0].status = "pending"
      /\ rows'[w0][n0].status = "complete"
      /\ rows'[w0][n0].req = rows[w0][n0].req
      /\ \A w \in WorkflowIds, n \in Seqs :
            w # w0 \/ n # n0 => rows'[w][n] = rows[w][n]
  BY CommitRow DEF ChainInv
<1> HIDE DEF w0, n0
<1>2. OnePending'
  BY <1>1 DEF ChainInv, OnePending
<1>3. ASSUME NEW w \in WorkflowIds PROVE \E k \in 0..MaxSeq : Completed(w)' = 1..k
  <2>1. PICK k \in 0..MaxSeq : Completed(w) = 1..k
    BY DEF ChainInv, GapFree
  <2>2. CASE w # w0
    <3>1. Completed(w)' = Completed(w)
      BY <1>1, <2>2 DEF Completed
    <3> QED
      BY <2>1, <3>1
  <2>3. CASE w = w0
    <3>1. Completed(w)' = Completed(w) \cup {n0}
      BY <1>1, <2>3 DEF Completed
    <3>2. n0 \notin 1..k
      BY <1>1, <2>1, <2>3 DEF Completed
    <3>3. n0 > 1 => n0 - 1 \in 1..k
      <4>1. n0 > 1 => rows[w0][n0 - 1].status = "complete"
        BY <1>1 DEF ChainInv, ChainLinked
      <4>2. n0 > 1 => n0 - 1 \in Seqs
        BY <1>1, MaxSeqAssumption DEF Seqs
      <4> QED
        BY <2>1, <2>3, <4>1, <4>2 DEF Completed
    <3>4. n0 = k + 1
      BY <1>1, <2>1, <3>2, <3>3, MaxSeqAssumption DEF Seqs
    <3>5. Completed(w)' = 1..(k + 1) /\ k + 1 \in 0..MaxSeq
      BY <1>1, <2>1, <3>1, <3>4, MaxSeqAssumption DEF Seqs
    <3> QED
      BY <3>5
  <2> QED
    BY <2>2, <2>3
<1>4. GapFree'
  BY <1>3 DEF GapFree
<1>5. ChainLinked'
  <2> SUFFICES ASSUME NEW w \in WorkflowIds, NEW n \in Seqs,
                      rows'[w][n].status # "none", n > 1
               PROVE  /\ rows'[w][n - 1].status = "complete"
                      /\ rows'[w][n].req.prev = PhaseSha(rows'[w][n - 1].result)
                      /\ rows'[w][n].req.inp = rows'[w][n - 1].result.out
    BY DEF ChainLinked, PhaseSha
  <2>1. n - 1 \in Seqs
    BY MaxSeqAssumption DEF Seqs
  <2>2. rows'[w][n].req = rows[w][n].req /\ rows[w][n].status # "none"
    BY <1>1
  <2>3. /\ rows[w][n - 1].status = "complete"
        /\ rows[w][n].req.prev = PhaseSha(rows[w][n - 1].result)
        /\ rows[w][n].req.inp = rows[w][n - 1].result.out
    BY <2>2 DEF ChainInv, ChainLinked
  <2>4. rows'[w][n - 1] = rows[w][n - 1]
    BY <1>1, <2>1, <2>3
  <2> QED
    BY <2>2, <2>3, <2>4
<1> QED
  BY <1>2, <1>4, <1>5

\* The chain invariant is inductive.
THEOREM ChainHolds == Spec => []ChainInv
<1>1. ASSUME Init PROVE ChainInv
  <2>1. \A w \in WorkflowIds, n \in Seqs : rows[w][n].status = "none"
    BY <1>1 DEF Init, NoRow
  <2>2. ASSUME NEW w \in WorkflowIds PROVE Completed(w) = {}
    <3>1. \A n \in Seqs : rows[w][n].status # "complete"
      BY <2>1
    <3> QED
      BY <3>1, Zenon DEF Completed
  <2>3. GapFree
    <3>1. 1..0 = {} /\ 0 \in 0..MaxSeq
      BY MaxSeqAssumption
    <3> QED
      BY <2>2, <3>1, Zenon DEF GapFree
  <2> QED
    BY <1>1, <2>1, <2>3, InitIInv DEF ChainInv, OnePending, ChainLinked
<1>2. ASSUME ChainInv, [Next]_vars PROVE ChainInv'
  <2>1. IInv'
    BY <1>2, NextIInv DEF ChainInv
  <2>2. CASE rows' = rows
    BY <1>2, <2>1, <2>2 DEF ChainInv, OnePending, GapFree, ChainLinked, Completed, PhaseSha
  <2>3. ASSUME NEW p \in Processes, Claim(p) PROVE ChainInv'
    BY <1>2, <2>1, <2>3, ClaimChain DEF ChainInv
  <2>4. ASSUME NEW p \in Processes, Commit(p) PROVE ChainInv'
    BY <1>2, <2>1, <2>4, CommitChain DEF ChainInv
  <2> QED
    BY <1>2, <2>2, <2>3, <2>4, RowWriters DEF ChainInv, IInv
<1> QED
  BY <1>1, <1>2, PTL DEF Spec

\* The rows of every workflow are one hash-linked chain without gaps.
THEOREM Linked == Spec => []ChainLinked
<1>1. ChainInv => ChainLinked
  BY DEF ChainInv
<1> QED
  BY <1>1, ChainHolds, PTL

\* A live owner's workflow is not interrupted.
LEMMA OwnerNotInterrupted ==
    ASSUME ChainInv, NEW p \in Processes, pc[p] \in Claiming,
           NEW w \in WorkflowIds, Interrupted(w)
    PROVE  req[p].wf # w
<1> SUFFICES ASSUME req[p].wf = w PROVE FALSE
  OBVIOUS
<1>1. PICK n \in Seqs : /\ rows[w][n].status = "pending"
                        /\ ~\E x \in Processes : Owns(x, w, n)
  BY DEF Interrupted
<1>2. rows[w][req[p].seq].status = "pending" /\ req[p].seq \in Seqs
  BY HeldFacts DEF ChainInv, IInv, OwnsPendingRow, Claiming
<1>3. req[p].seq = n
  BY <1>1, <1>2 DEF ChainInv, OnePending
<1>4. Owns(p, w, n)
  BY <1>3 DEF Owns, Claiming
<1> QED
  BY <1>1, <1>4

\* No step touches the ledger or acts for a workflow whose claim was abandoned.
THEOREM DeadStaysDead == Spec => InterruptedIsDead
<1> DEFINE Still(w) == /\ rows'[w] = rows[w]
                       /\ prepared'[w] = prepared[w]
                       /\ external'[w] = external[w]
<1> DEFINE Dead == \A w \in WorkflowIds : Interrupted(w) => Still(w)
<1>1. ASSUME ChainInv, [Next]_vars PROVE Dead
  <2> SUFFICES ASSUME NEW w \in WorkflowIds, Interrupted(w) PROVE Still(w)
    OBVIOUS
  <2> TypeOK
    BY <1>1 DEF ChainInv, IInv
  <2>1. ASSUME NEW p \in Processes, Begin(p) PROVE Still(w)
    BY <2>1, BeginEnters DEF EnterPhase
  <2>2. ASSUME NEW p \in Processes, Claim(p) PROVE Still(w)
    <3>1. req[p].wf # w
      BY <2>2 DEF Claim, CanClaim, NoPending, Interrupted
    <3> QED
      BY <2>2, <3>1 DEF Claim, TypeOK
  <2>3. ASSUME NEW p \in Processes, Prepare(p) \/ ExecuteExternal(p) \/ Commit(p)
        PROVE  Still(w)
    <3>1. pc[p] \in Claiming
      BY <2>3 DEF Prepare, ExecuteExternal, Commit, Claiming
    <3>2. req[p].wf # w
      BY <1>1, <3>1, OwnerNotInterrupted
    <3> QED
      BY <2>3, <3>2 DEF Prepare, ExecuteExternal, Commit, TypeOK
  <2>4. ASSUME NEW p \in Processes,
               \/ ClaimRefused(p)
               \/ \E out \in Arts, s, k \in Arts \cup {NoDigest} :
                     Finalize(p, out, s, k)
               \/ Persist(p) \/ Freeze(p) \/ Abort(p)
        PROVE  Still(w)
    BY <2>4 DEF ClaimRefused, Finalize, Persist, Freeze, Abort, Leave
  <2>5. CASE UNCHANGED vars
    BY <2>5 DEF vars
  <2> QED
    BY <1>1, <2>1, <2>2, <2>3, <2>4, <2>5 DEF Next, Step
<1>2. ChainInv /\ [Next]_vars => [Dead]_vars
  BY <1>1
<1> QED
  BY <1>2, ChainHolds, PTL DEF Spec, InterruptedIsDead

-----------------------------------------------------------------------------
(***************************************************************************)
(* Anchors.                                                                *)
(***************************************************************************)

\* A running process holds a request that passed validate_contract; past
\* Finalize, a result that did.
HeldValid ==
    \A p \in Processes :
        /\ pc[p] # "idle" => ValidRequest(req[p])
        /\ pc[p] \in {"finalized", "committed"} => ValidResult(result[p])

\* A row holds a valid request that continues the anchors of the row before;
\* a completed one holds a valid result for that request.
RowContract(w, n) ==
    /\ rows[w][n].status # "none" =>
          /\ rows[w][n].req \in Requests
          /\ rows[w][n].req.seq = n
          /\ ValidRequest(rows[w][n].req)
    /\ rows[w][n].status = "complete" =>
          /\ rows[w][n].result \in Results
          /\ rows[w][n].result.req = rows[w][n].req
          /\ ValidResult(rows[w][n].result)
    /\ rows[w][n].status # "none" /\ n > 1 =>
          /\ rows[w][n].req.anchor = rows[w][n - 1].result.req.anchor
          /\ rows[w][n].req.snap = rows[w][n - 1].result.snap
          /\ rows[w][n].req.packet = rows[w][n - 1].result.packet

RowContracts == \A w \in WorkflowIds, n \in Seqs : RowContract(w, n)

AnchorInv == ChainInv /\ HeldValid /\ RowContracts /\ AnchorsSurvive

\* The packet is an anchor from the broker phase, the fifth, on.
LEMMA PacketPhaseIsFive == PacketPhase = 5
<1>1. /\ PHASE_ORDER[1] # "broker" /\ PHASE_ORDER[2] # "broker"
      /\ PHASE_ORDER[3] # "broker" /\ PHASE_ORDER[4] # "broker"
      /\ PHASE_ORDER[5] = "broker"
      /\ PHASE_ORDER[6] # "broker" /\ PHASE_ORDER[7] # "broker"
  BY DEF PHASE_ORDER
<1>2. \A n \in 1..7 : n \in {1, 2, 3, 4, 5, 6, 7}
  OBVIOUS
<1>3. 5 \in 1..7 /\ \A n \in 1..7 : PHASE_ORDER[n] = "broker" <=> n = 5
  BY <1>1, <1>2
<1> QED
  BY <1>3 DEF PacketPhase

\* Contracts are checked where requests and results are made, and what a
\* process holds does not change afterwards.
LEMMA HeldValidStep ==
    ASSUME IInv, HeldValid, [Next]_vars
    PROVE  HeldValid'
<1> USE DEF HeldValid
<1> TypeOK
  BY DEF IInv
<1>1. ASSUME NEW p \in Processes, Begin(p) PROVE HeldValid'
  <2>1. PICK r \in Roots, q \in Requests : EnterPhase(p, r, q)
    BY <1>1, BeginEnters
  <2> QED
    BY <2>1 DEF EnterPhase, TypeOK
<1>2. ASSUME NEW p \in Processes, Leave(p) PROVE HeldValid'
  BY <1>2 DEF Leave, TypeOK
<1>3. ASSUME NEW p \in Processes,
             Claim(p) \/ Prepare(p) \/ ExecuteExternal(p) \/ Persist(p) \/ Commit(p)
      PROVE  HeldValid'
  <2>1. /\ pc[p] # "idle" /\ req' = req /\ result' = result
        /\ \A x \in Processes \ {p} : pc'[x] = pc[x]
        /\ pc'[p] \in {"finalized", "committed"} => pc[p] = "finalized"
    BY <1>3 DEF Claim, Prepare, ExecuteExternal, Persist, Commit, held, TypeOK
  <2> QED
    BY <2>1
<1>4. ASSUME NEW p \in Processes, NEW out \in Arts,
             NEW s \in Arts \cup {NoDigest}, NEW k \in Arts \cup {NoDigest},
             Finalize(p, out, s, k)
      PROVE  HeldValid'
  <2> DEFINE r == [req |-> req[p], out |-> out, snap |-> s, packet |-> k]
  <2>1. /\ pc[p] # "idle" /\ ValidResult(r) /\ req' = req
        /\ pc' = [pc EXCEPT ![p] = "finalized"]
        /\ result' = [result EXCEPT ![p] = r]
    BY <1>4 DEF Finalize
  <2> HIDE DEF r
  <2> QED
    BY <2>1 DEF TypeOK
<1>5. CASE UNCHANGED vars
  BY <1>5 DEF vars
<1> QED
  BY <1>1, <1>2, <1>3, <1>4, <1>5 DEF Next, Step, ClaimRefused, Freeze, Abort

\* claim takes only a request that continues the anchors of the last row.
LEMMA ClaimAnchors ==
    ASSUME AnchorInv, NEW p \in Processes, Claim(p)
    PROVE  RowContracts' /\ AnchorsSurvive'
<1> DEFINE q == req[p]
<1>1. /\ q.wf \in WorkflowIds /\ q.seq \in Seqs
      /\ rows[q.wf][q.seq].status = "none"
      /\ NextInChain(q)
      /\ \A w \in WorkflowIds, n \in Seqs :
            rows'[w][n] = IF w = q.wf /\ n = q.seq
                          THEN [status |-> "pending", req |-> q, result |-> NoResult]
                          ELSE rows[w][n]
  BY ClaimRow DEF AnchorInv, ChainInv, CanClaim, Unclaimed
<1>2. q \in Requests /\ ValidRequest(q)
  BY HeldFacts DEF AnchorInv, ChainInv, HeldValid, Claim
<1> HIDE DEF q
<1>3. \A w \in WorkflowIds, n \in Seqs :
         rows[w][n].status # "none" /\ n > 1 =>
            n - 1 \in Seqs /\ rows[w][n - 1].status = "complete"
  BY MaxSeqAssumption DEF AnchorInv, ChainInv, ChainLinked, Seqs
<1>4. ASSUME NEW w \in WorkflowIds, NEW n \in Seqs PROVE RowContract(w, n)'
  <2>1. CASE w = q.wf /\ n = q.seq
    <3>1. rows'[w][n] = [status |-> "pending", req |-> q, result |-> NoResult]
      BY <1>1, <2>1
    <3>2. n > 1 => n - 1 \in Seqs /\ rows'[w][n - 1] = rows[w][n - 1]
      BY <1>1, <2>1, MaxSeqAssumption DEF Seqs
    <3>3. n > 1 => /\ q.anchor = rows[w][n - 1].result.req.anchor
                   /\ q.snap = rows[w][n - 1].result.snap
                   /\ q.packet = rows[w][n - 1].result.packet
      <4>1. n > 1 => n # 1
        BY DEF Seqs
      <4> QED
        BY <1>1, <2>1, <4>1 DEF NextInChain
    <3> QED
      BY <1>2, <2>1, <3>1, <3>2, <3>3 DEF RowContract
  <2>2. CASE ~(w = q.wf /\ n = q.seq)
    <3>1. rows'[w][n] = rows[w][n] /\ RowContract(w, n)
      BY <1>1, <2>2 DEF AnchorInv, RowContracts
    <3>2. rows[w][n].status # "none" /\ n > 1 => rows'[w][n - 1] = rows[w][n - 1]
      BY <1>1, <1>3
    <3> QED
      BY <3>1, <3>2 DEF RowContract
  <2> QED
    BY <2>1, <2>2
<1>5. RowContracts'
  BY <1>4 DEF RowContracts
<1>6. \A w \in WorkflowIds, n \in Seqs :
         rows[w][n].status = "complete" => rows'[w][n] = rows[w][n]
  BY <1>1
<1>7. \A w \in WorkflowIds : Completed(w)' = Completed(w)
  BY <1>1 DEF Completed
<1>8. AnchorsSurvive'
  <2> SUFFICES ASSUME NEW w \in WorkflowIds, NEW n \in Completed(w)
               PROVE  LET r == rows'[w][n].result IN
                      /\ r.req.anchor = rows'[w][1].req.anchor
                      /\ r.snap = rows'[w][1].result.out
                      /\ r.packet = IF n < PacketPhase - 1 THEN NoDigest
                                    ELSE rows'[w][PacketPhase - 1].result.out
    BY <1>7 DEF AnchorsSurvive, PacketPhase
  <2>1. n \in Seqs /\ rows[w][n].status = "complete"
    BY DEF Completed
  <2>2. PICK k \in 0..MaxSeq : Completed(w) = 1..k
    BY DEF AnchorInv, ChainInv, GapFree
  <2>3. 1 \in Completed(w) /\ (n >= 4 => 4 \in Completed(w))
    BY <2>1, <2>2, MaxSeqAssumption DEF Seqs
  <2>4. /\ rows'[w][n] = rows[w][n] /\ rows'[w][1] = rows[w][1]
        /\ n >= 4 => rows'[w][4] = rows[w][4]
    BY <1>6, <2>1, <2>3 DEF Completed
  <2>5. /\ rows[w][n].result.req.anchor = rows[w][1].req.anchor
        /\ rows[w][n].result.snap = rows[w][1].result.out
        /\ rows[w][n].result.packet = IF n < 4 THEN NoDigest
                                      ELSE rows[w][4].result.out
    BY PacketPhaseIsFive DEF AnchorInv, AnchorsSurvive
  <2> QED
    BY <2>1, <2>4, <2>5, PacketPhaseIsFive DEF Seqs
<1> QED
  BY <1>5, <1>8

\* commit adds the next phase of the chain with a valid result.
LEMMA CommitAnchors ==
    ASSUME AnchorInv, NEW p \in Processes, Commit(p)
    PROVE  RowContracts' /\ AnchorsSurvive'
<1> DEFINE w0 == req[p].wf
<1> DEFINE n0 == req[p].seq
<1> DEFINE r0 == result[p]
<1>1. /\ w0 \in WorkflowIds /\ n0 \in Seqs
      /\ rows[w0][n0].status = "pending"
      /\ rows[w0][n0].req = req[p]
      /\ rows'[w0][n0].status = "complete"
      /\ rows'[w0][n0].req = rows[w0][n0].req
      /\ rows'[w0][n0].result = r0
      /\ \A w \in WorkflowIds, n \in Seqs :
            w # w0 \/ n # n0 => rows'[w][n] = rows[w][n]
  BY CommitRow DEF AnchorInv, ChainInv, Commit
<1>2. r0 \in Results /\ r0.req = req[p] /\ ValidResult(r0)
  BY DEF AnchorInv, ChainInv, IInv, HeldRequest, HeldValid, Commit
<1>3. req[p].seq = n0 /\ ValidRequest(req[p])
  BY DEF AnchorInv, HeldValid, Commit
<1> HIDE DEF w0, n0, r0
<1>4. RowContract(w0, n0)
  BY <1>1 DEF AnchorInv, RowContracts
<1>5. PICK k \in 0..MaxSeq : Completed(w0) = 1..k
  BY <1>1 DEF AnchorInv, ChainInv, GapFree
<1>6. n0 = k + 1
  <2>1. n0 \notin 1..k
    BY <1>1, <1>5 DEF Completed
  <2>2. n0 > 1 => n0 - 1 \in Seqs /\ rows[w0][n0 - 1].status = "complete"
    BY <1>1, MaxSeqAssumption DEF AnchorInv, ChainInv, ChainLinked, Seqs
  <2>3. n0 > 1 => n0 - 1 \in 1..k
    BY <1>5, <2>2 DEF Completed
  <2> QED
    BY <1>1, <1>5, <2>1, <2>3, MaxSeqAssumption DEF Seqs
<1>7. RowContracts'
  <2> SUFFICES ASSUME NEW w \in WorkflowIds, NEW n \in Seqs
               PROVE  RowContract(w, n)'
    BY DEF RowContracts
  <2>1. RowContract(w, n)
    BY DEF AnchorInv, RowContracts
  <2>2. rows[w][n].status # "none" /\ n > 1 =>
           n - 1 \in Seqs /\ rows'[w][n - 1] = rows[w][n - 1]
    <3>1. rows[w][n].status # "none" /\ n > 1 =>
             n - 1 \in Seqs /\ rows[w][n - 1].status = "complete"
      BY MaxSeqAssumption DEF AnchorInv, ChainInv, ChainLinked, Seqs
    <3> QED
      BY <1>1, <3>1
  <2>3. CASE w = w0 /\ n = n0
    BY <1>1, <1>2, <1>3, <2>1, <2>2, <2>3 DEF RowContract
  <2>4. CASE ~(w = w0 /\ n = n0)
    <3>1. rows'[w][n] = rows[w][n]
      BY <1>1, <2>4
    <3> QED
      BY <2>1, <2>2, <3>1 DEF RowContract
  <2> QED
    BY <2>3, <2>4
<1>8. AnchorsSurvive'
  <2> SUFFICES ASSUME NEW w \in WorkflowIds, NEW n \in Seqs,
                      rows'[w][n].status = "complete"
               PROVE  /\ rows'[w][n].result.req.anchor = rows'[w][1].req.anchor
                      /\ rows'[w][n].result.snap = rows'[w][1].result.out
                      /\ rows'[w][n].result.packet =
                            IF n < 4 THEN NoDigest ELSE rows'[w][4].result.out
    BY PacketPhaseIsFive DEF AnchorsSurvive, Completed
  <2> DEFINE Good(m) ==
        /\ rows[w][m].result.req.anchor = rows[w][1].req.anchor
        /\ rows[w][m].result.snap = rows[w][1].result.out
        /\ rows[w][m].result.packet =
              IF m < 4 THEN NoDigest ELSE rows[w][4].result.out
  <2>1. \A m \in Seqs : rows[w][m].status = "complete" => Good(m)
    BY PacketPhaseIsFive DEF AnchorInv, AnchorsSurvive, Completed
  <2>2. PICK j \in 0..MaxSeq : Completed(w) = 1..j
    BY DEF AnchorInv, ChainInv, GapFree
  <2>3. CASE w # w0
    <3>1. rows'[w][n] = rows[w][n] /\ n \in Completed(w)
      BY <1>1, <2>3 DEF Completed
    <3>2. 1 \in Seqs /\ (n >= 4 => 4 \in Seqs)
      BY MaxSeqAssumption DEF Seqs
    <3>3. rows'[w][1] = rows[w][1] /\ (n >= 4 => rows'[w][4] = rows[w][4])
      BY <1>1, <2>3, <3>2
    <3> QED
      BY <2>1, <3>1, <3>3 DEF Completed, Seqs
  <2>4. CASE w = w0 /\ n # n0
    <3>1. rows'[w][n] = rows[w][n] /\ n \in Completed(w)
      BY <1>1, <2>4 DEF Completed
    <3>2. n \in 1..k /\ 1 # n0 /\ (n >= 4 => 4 # n0)
      BY <1>5, <1>6, <2>4, <3>1
    <3>3. 1 \in Seqs /\ (n >= 4 => 4 \in Seqs)
      BY MaxSeqAssumption DEF Seqs
    <3>4. rows'[w][1] = rows[w][1] /\ (n >= 4 => rows'[w][4] = rows[w][4])
      BY <1>1, <3>2, <3>3
    <3> QED
      BY <2>1, <3>1, <3>4 DEF Completed, Seqs
  <2>5. CASE w = w0 /\ n = n0
    <3>1. /\ rows'[w][n].result = r0 /\ rows'[w][n].req = req[p]
          /\ rows[w][n].req = req[p]
      BY <1>1, <2>5
    <3>2. /\ r0.snap = IF n = 1 THEN r0.out ELSE req[p].snap
          /\ r0.packet = IF n = 4 THEN r0.out ELSE req[p].packet
      BY <1>2, <1>3, <2>5, PacketPhaseIsFive DEF ValidResult
    <3>3. n < 5 => req[p].packet = NoDigest
      BY <1>1, <1>3, <2>5, PacketPhaseIsFive DEF ValidRequest, Seqs
    <3>4. CASE n = 1
      BY <1>2, <3>1, <3>2, <3>3, <3>4
    <3>5. CASE n > 1
      <4>1. /\ n - 1 \in Seqs /\ n - 1 \in 1..k
            /\ 1 \in Seqs /\ 1 # n /\ (n > 4 => 4 \in Seqs)
        BY <1>1, <1>5, <1>6, <2>5, <3>5, MaxSeqAssumption DEF Seqs
      <4>2. n - 1 \in Completed(w)
        BY <1>5, <2>5, <4>1
      <4>3. Good(n - 1)
        BY <2>1, <4>1, <4>2 DEF Completed
      <4>4. /\ req[p].anchor = rows[w][n - 1].result.req.anchor
            /\ req[p].snap = rows[w][n - 1].result.snap
            /\ req[p].packet = rows[w][n - 1].result.packet
        BY <1>1, <1>4, <2>5, <3>5 DEF RowContract
      <4>5. rows'[w][1] = rows[w][1] /\ (n > 4 => rows'[w][4] = rows[w][4])
        BY <1>1, <2>5, <4>1
      <4>6. n > 4 => r0.packet = rows'[w][4].result.out
        BY <3>2, <4>3, <4>4, <4>5 DEF Seqs
      <4>7. r0.req.anchor = rows'[w][1].req.anchor /\ r0.snap = rows'[w][1].result.out
        BY <1>2, <3>2, <3>5, <4>3, <4>4, <4>5
      <4>8. n = 4 => r0.packet = rows'[w][4].result.out
        BY <3>1, <3>2
      <4>9. n < 4 => r0.packet = NoDigest
        BY <3>2, <3>3 DEF Seqs
      <4> QED
        BY <3>1, <4>6, <4>7, <4>8, <4>9 DEF Seqs
    <3> QED
      BY <3>4, <3>5 DEF Seqs
  <2> QED
    BY <2>3, <2>4, <2>5
<1> QED
  BY <1>7, <1>8

\* The anchor invariant is inductive.
THEOREM AnchorsHold == Spec => []AnchorInv
<1>1. ASSUME Init PROVE HeldValid /\ RowContracts /\ AnchorsSurvive
  <2>1. \A w \in WorkflowIds, n \in Seqs : rows[w][n].status = "none"
    BY <1>1 DEF Init, NoRow
  <2>2. \A p \in Processes : pc[p] = "idle"
    BY <1>1 DEF Init
  <2>3. \A w \in WorkflowIds : \A n \in Completed(w) : FALSE
    BY <2>1 DEF Completed
  <2> QED
    BY <2>1, <2>2, <2>3 DEF HeldValid, RowContracts, RowContract, AnchorsSurvive
<1>2. ASSUME AnchorInv, ChainInv', [Next]_vars PROVE AnchorInv'
  <2>1. HeldValid'
    BY <1>2, HeldValidStep DEF AnchorInv, ChainInv
  <2>2. RowContracts' /\ AnchorsSurvive'
    <3>1. CASE rows' = rows
      BY <1>2, <3>1
      DEF AnchorInv, RowContracts, RowContract, AnchorsSurvive, Completed, PacketPhase
    <3> QED
      BY <1>2, <3>1, RowWriters, ClaimAnchors, CommitAnchors
      DEF AnchorInv, ChainInv, IInv
  <2> QED
    BY <1>2, <2>1, <2>2 DEF AnchorInv
<1>3. ChainInv /\ HeldValid /\ RowContracts /\ AnchorsSurvive => AnchorInv
  BY DEF AnchorInv
<1> QED
  BY <1>1, <1>2, <1>3, ChainHolds, PTL DEF Spec

\* Every committed result of a workflow has the anchors of its first request,
\* the snapshot of phase 1 and, once it exists, the packet of phase 4.
THEOREM Anchored == Spec => []AnchorsSurvive
<1>1. AnchorInv => AnchorsSurvive
  BY DEF AnchorInv
<1> QED
  BY <1>1, AnchorsHold, PTL

-----------------------------------------------------------------------------
(***************************************************************************)
(* Evidence: what is in the trees and what is in the ledger.               *)
(***************************************************************************)

\* The tree a running process writes is open and nobody else's.
TreeHeld ==
    \A p \in Processes :
        pc[p] # "idle" =>
            /\ trees[root[p]][req[p].seq].state = "open"
            /\ \A x \in Processes :
                  pc[x] # "idle" /\ root[x] = root[p] /\ req[x].seq = req[p].seq
                     => x = p

\* What is in a tree is what its process has written so far; a committed one
\* is complete and says what the ledger says.
ProcessWritten(p) ==
    LET tree == trees[root[p]][req[p].seq]
        row == rows[req[p].wf][req[p].seq]
        all == Len(PersistOrder(req[p].seq))
    IN  /\ pc[p] \in {"begun", "claimed", "prepared", "executed"} =>
              tree.written = 0
        /\ pc[p] = "finalized" =>
              /\ tree.written <= all
              /\ tree.written = all => tree.result = result[p]
        /\ pc[p] = "committed" =>
              /\ tree.written = all
              /\ tree.result = result[p]
              /\ row.status = "complete"
              /\ row.result = result[p]

WrittenFollows ==
    /\ \A r \in Roots, n \in Seqs :
          trees[r][n].state = "absent" => trees[r][n].written = 0
    /\ \A p \in Processes : ProcessWritten(p)

EvidenceInv == IInv /\ TreeHeld /\ WrittenFollows /\ EvidenceMatchesLedger

\* A phase persists at least one file.
LEMMA PersistLength ==
    \A n \in Seqs : Len(PersistOrder(n)) \in Nat /\ Len(PersistOrder(n)) # 0
<1> SUFFICES ASSUME NEW n \in Seqs
             PROVE  Len(PersistOrder(n)) \in Nat /\ Len(PersistOrder(n)) # 0
  OBVIOUS
<1>1. Len(PersistOrder(n)) = 3 \/ Len(PersistOrder(n)) = 5
  BY DEF PersistOrder
<1> QED
  BY <1>1

\* Making a directory disturbs no tree in use and no evidence.
LEMMA EnterEvidence ==
    ASSUME EvidenceInv, NEW p \in Processes, NEW r \in Roots, NEW q \in Requests,
           EnterPhase(p, r, q)
    PROVE  TreeHeld' /\ WrittenFollows' /\ EvidenceMatchesLedger'
<1> DEFINE old == trees[r][q.seq]
<1>1. q.seq \in Seqs /\ old \in Trees /\ old.state = "absent" /\ old.written = 0
  BY DEF EnterPhase, Requests, EvidenceInv, IInv, TypeOK, WrittenFollows
<1> DEFINE new == [old EXCEPT !.state = "open"]
<1>2. new \in Trees /\ new.state = "open" /\ new.written = 0
  BY <1>1 DEF Trees
<1>3. trees' = [trees EXCEPT ![r][q.seq] = new]
  BY DEF EnterPhase
<1>4. \A x \in Roots, n \in Seqs :
         trees'[x][n] = IF x = r /\ n = q.seq THEN new ELSE trees[x][n]
  BY <1>1, <1>2, <1>3, CellUpdate DEF EvidenceInv, IInv, TypeOK
<1> HIDE DEF new
<1>5. /\ pc[p] = "idle" /\ pc'[p] = "begun" /\ req'[p] = q /\ root'[p] = r
      /\ \A x \in Processes \ {p} :
            pc'[x] = pc[x] /\ req'[x] = req[x] /\ root'[x] = root[x]
      /\ rows' = rows /\ result' = result
  BY DEF EnterPhase, EvidenceInv, IInv, TypeOK
<1>6. \A x \in Processes \ {p} : pc[x] # "idle" =>
         /\ root[x] \in Roots /\ req[x].seq \in Seqs
         /\ ~(root[x] = r /\ req[x].seq = q.seq)
         /\ trees'[root[x]][req[x].seq] = trees[root[x]][req[x].seq]
  <2> SUFFICES ASSUME NEW x \in Processes \ {p}, pc[x] # "idle"
               PROVE  /\ root[x] \in Roots /\ req[x].seq \in Seqs
                      /\ ~(root[x] = r /\ req[x].seq = q.seq)
                      /\ trees'[root[x]][req[x].seq] = trees[root[x]][req[x].seq]
    OBVIOUS
  <2>1. root[x] \in Roots /\ req[x].seq \in Seqs
    BY HeldFacts DEF EvidenceInv
  <2>2. trees[root[x]][req[x].seq].state = "open"
    BY DEF EvidenceInv, TreeHeld
  <2> QED
    BY <1>1, <1>4, <2>1, <2>2
<1>7. TreeHeld'
  BY <1>1, <1>2, <1>4, <1>5, <1>6 DEF EvidenceInv, TreeHeld
<1>8. WrittenFollows'
  <2>1. \A x \in Roots, n \in Seqs :
           trees'[x][n].state = "absent" => trees'[x][n].written = 0
    BY <1>2, <1>4 DEF EvidenceInv, WrittenFollows
  <2>2. ASSUME NEW x \in Processes PROVE ProcessWritten(x)'
    <3>1. CASE x = p
      BY <1>1, <1>2, <1>4, <1>5, <3>1 DEF ProcessWritten
    <3>2. CASE x # p
      <4>1. ProcessWritten(x)
        BY DEF EvidenceInv, WrittenFollows
      <4> QED
        BY <1>5, <1>6, <3>2, <4>1 DEF ProcessWritten
    <3> QED
      BY <3>1, <3>2
  <2> QED
    BY <2>1, <2>2 DEF WrittenFollows
<1>9. FrozenTreeIsCommitted'
  BY <1>2, <1>4, <1>5 DEF EvidenceInv, EvidenceMatchesLedger, FrozenTreeIsCommitted
<1>10. CommittedHasEvidence'
  <2> SUFFICES ASSUME NEW w \in WorkflowIds, NEW n \in Seqs,
                      rows[w][n].status = "complete"
               PROVE  \E x \in Roots :
                         /\ trees'[x][n].result = rows[w][n].result
                         /\ trees'[x][n].written = Len(PersistOrder(n))
    BY <1>5 DEF CommittedHasEvidence, Completed
  <2>1. PICK x \in Roots : /\ trees[x][n].result = rows[w][n].result
                           /\ trees[x][n].written = Len(PersistOrder(n))
    BY DEF EvidenceInv, EvidenceMatchesLedger, CommittedHasEvidence, Completed
  <2>2. Len(PersistOrder(n)) # 0
    BY PersistLength
  <2>3. trees'[x][n] = trees[x][n]
    BY <1>1, <1>4, <2>1, <2>2
  <2> QED
    BY <2>1, <2>3
<1> QED
  BY <1>7, <1>8, <1>9, <1>10 DEF EvidenceMatchesLedger

\* A process that leaves without freezing leaves the trees as they are.
LEMMA LeaveEvidence ==
    ASSUME EvidenceInv, NEW p \in Processes, Leave(p), UNCHANGED trees
    PROVE  TreeHeld' /\ WrittenFollows' /\ EvidenceMatchesLedger'
<1>1. /\ rows' = rows /\ trees' = trees /\ root' = root /\ pc'[p] = "idle"
      /\ \A x \in Processes \ {p} :
            pc'[x] = pc[x] /\ req'[x] = req[x] /\ result'[x] = result[x]
  BY DEF Leave, EvidenceInv, IInv, TypeOK
<1>2. TreeHeld'
  BY <1>1 DEF EvidenceInv, TreeHeld
<1>3. \A x \in Processes : ProcessWritten(x)'
  BY <1>1 DEF EvidenceInv, WrittenFollows, ProcessWritten
<1>4. WrittenFollows'
  BY <1>1, <1>3 DEF EvidenceInv, WrittenFollows
<1>5. EvidenceMatchesLedger'
  BY <1>1 DEF EvidenceInv, EvidenceMatchesLedger, FrozenTreeIsCommitted,
              CommittedHasEvidence, Completed
<1> QED
  BY <1>2, <1>4, <1>5

\* Before the first file is written, nothing of a tree changes.
LEMMA WorkEvidence ==
    ASSUME EvidenceInv, NEW p \in Processes,
           \/ Prepare(p) \/ ExecuteExternal(p)
           \/ \E out \in Arts, s, k \in Arts \cup {NoDigest} : Finalize(p, out, s, k)
    PROVE  TreeHeld' /\ WrittenFollows' /\ EvidenceMatchesLedger'
<1>1. /\ rows' = rows /\ trees' = trees /\ root' = root /\ req' = req
      /\ pc[p] \in {"claimed", "prepared", "executed"}
      /\ pc'[p] \in {"prepared", "executed", "finalized"}
      /\ \A x \in Processes \ {p} : pc'[x] = pc[x] /\ result'[x] = result[x]
  BY DEF Prepare, ExecuteExternal, Finalize, EvidenceInv, IInv, TypeOK
<1>2. TreeHeld'
  BY <1>1 DEF EvidenceInv, TreeHeld
<1>3. ASSUME NEW x \in Processes PROVE ProcessWritten(x)'
  <2>1. ProcessWritten(x)
    BY DEF EvidenceInv, WrittenFollows
  <2>2. CASE x # p
    BY <1>1, <2>1, <2>2 DEF ProcessWritten
  <2>3. CASE x = p
    <3>1. Len(PersistOrder(req[p].seq)) \in Nat /\ Len(PersistOrder(req[p].seq)) # 0
      BY <1>1, HeldFacts, PersistLength DEF EvidenceInv
    <3> QED
      BY <1>1, <2>1, <2>3, <3>1 DEF ProcessWritten
  <2> QED
    BY <2>2, <2>3
<1>4. WrittenFollows'
  BY <1>1, <1>3 DEF EvidenceInv, WrittenFollows
<1>5. EvidenceMatchesLedger'
  BY <1>1 DEF EvidenceInv, EvidenceMatchesLedger, FrozenTreeIsCommitted,
              CommittedHasEvidence, Completed
<1> QED
  BY <1>2, <1>4, <1>5

\* claim writes a row and no tree.
LEMMA ClaimEvidence ==
    ASSUME EvidenceInv, [Next]_vars, NEW p \in Processes, Claim(p)
    PROVE  TreeHeld' /\ WrittenFollows' /\ EvidenceMatchesLedger'
<1>1. /\ trees' = trees /\ root' = root /\ req' = req /\ result' = result
      /\ pc[p] = "begun" /\ pc'[p] = "claimed"
      /\ \A x \in Processes \ {p} : pc'[x] = pc[x]
  BY DEF Claim, EvidenceInv, IInv, TypeOK
<1>2. \A w \in WorkflowIds, n \in Seqs :
         (rows[w][n].status = "complete" \/ rows'[w][n].status = "complete")
            => rows'[w][n] = rows[w][n]
  <2> DEFINE row == [status |-> "pending", req |-> req[p], result |-> NoResult]
  <2>1. /\ rows[req[p].wf][req[p].seq].status = "none"
        /\ \A w \in WorkflowIds, n \in Seqs :
              rows'[w][n] = IF w = req[p].wf /\ n = req[p].seq THEN row
                            ELSE rows[w][n]
    BY ClaimRow DEF EvidenceInv, CanClaim, Unclaimed
  <2>2. row.status = "pending"
    OBVIOUS
  <2> HIDE DEF row
  <2> QED
    BY <2>1, <2>2
<1>3. TreeHeld'
  BY <1>1 DEF EvidenceInv, TreeHeld
<1>4. ASSUME NEW x \in Processes PROVE ProcessWritten(x)'
  <2>1. ProcessWritten(x)
    BY DEF EvidenceInv, WrittenFollows
  <2>2. pc[x] = "committed" => req[x].wf \in WorkflowIds /\ req[x].seq \in Seqs
    BY HeldFacts DEF EvidenceInv
  <2> QED
    BY <1>1, <1>2, <2>1, <2>2 DEF ProcessWritten
<1>5. WrittenFollows'
  BY <1>1, <1>4 DEF EvidenceInv, WrittenFollows
<1>6. FrozenTreeIsCommitted'
  <2> SUFFICES ASSUME NEW r \in Roots, NEW n \in Seqs, trees[r][n].state = "frozen"
               PROVE  /\ trees[r][n].result # NoResult
                      /\ rows'[trees[r][n].result.req.wf][n].status = "complete"
                      /\ rows'[trees[r][n].result.req.wf][n].result = trees[r][n].result
    BY <1>1 DEF FrozenTreeIsCommitted
  <2> DEFINE t == trees[r][n].result
  <2>1. /\ t # NoResult
        /\ rows[t.req.wf][n].status = "complete"
        /\ rows[t.req.wf][n].result = t
    BY DEF EvidenceInv, EvidenceMatchesLedger, FrozenTreeIsCommitted
  <2>2. t.req.wf \in WorkflowIds
    BY <2>1 DEF EvidenceInv, IInv, TypeOK, Trees, Results, Requests
  <2> QED
    BY <1>2, <2>1, <2>2
<1>7. CommittedHasEvidence'
  BY <1>1, <1>2
  DEF EvidenceInv, EvidenceMatchesLedger, CommittedHasEvidence, Completed
<1> QED
  BY <1>3, <1>5, <1>6, <1>7 DEF EvidenceMatchesLedger

\* A file goes into the writer's own open tree; the last one is its result.
LEMMA PersistEvidence ==
    ASSUME EvidenceInv, NEW p \in Processes, Persist(p)
    PROVE  TreeHeld' /\ WrittenFollows' /\ EvidenceMatchesLedger'
<1> DEFINE n0 == req[p].seq
<1> DEFINE old == trees[root[p]][n0]
<1> DEFINE all == Len(PersistOrder(n0))
<1> DEFINE v == IF old.written + 1 = all THEN result[p] ELSE old.result
<1> DEFINE new == [old EXCEPT !.written = old.written + 1, !.result = v]
<1>1. /\ pc[p] = "finalized" /\ old.written < all
      /\ trees' = [trees EXCEPT ![root[p]][n0] = new]
      /\ rows' = rows /\ pc' = pc /\ req' = req /\ root' = root /\ result' = result
  BY DEF Persist, held
<1>2. root[p] \in Roots /\ n0 \in Seqs /\ old \in Trees
  BY <1>1, HeldFacts DEF EvidenceInv
<1>3. old.state = "open" /\ all \in Nat /\ old.written \in Nat
  BY <1>1, <1>2, PersistLength DEF EvidenceInv, TreeHeld, Trees
<1>4. v \in Results \cup {NoResult} /\ (old.written + 1 = all => v = result[p])
  BY <1>1, <1>2 DEF EvidenceInv, IInv, TypeOK, Trees
<1> HIDE DEF v
<1>5. new \in Trees /\ new.state = "open" /\ new.written = old.written + 1
      /\ new.result = v
  <2>1. old.written + 1 \in Nat
    BY <1>3
  <2> HIDE DEF old
  <2> QED
    BY <1>2, <1>3, <1>4, <2>1 DEF Trees
<1>6. \A x \in Roots, n \in Seqs :
         trees'[x][n] = IF x = root[p] /\ n = n0 THEN new ELSE trees[x][n]
  BY <1>1, <1>2, <1>5, CellUpdate DEF EvidenceInv, IInv, TypeOK
<1> HIDE DEF new, old, n0
<1>7. \A x \in Processes \ {p} : pc[x] # "idle" =>
         /\ root[x] \in Roots /\ req[x].seq \in Seqs
         /\ trees'[root[x]][req[x].seq] = trees[root[x]][req[x].seq]
  <2> SUFFICES ASSUME NEW x \in Processes \ {p}, pc[x] # "idle"
               PROVE  /\ root[x] \in Roots /\ req[x].seq \in Seqs
                      /\ trees'[root[x]][req[x].seq] = trees[root[x]][req[x].seq]
    OBVIOUS
  <2>1. root[x] \in Roots /\ req[x].seq \in Seqs
    BY HeldFacts DEF EvidenceInv
  <2>2. ~(root[x] = root[p] /\ req[x].seq = n0)
    BY <1>1 DEF EvidenceInv, TreeHeld, n0
  <2> QED
    BY <1>6, <2>1, <2>2
<1>8. trees'[root[p]][req[p].seq] = new
  BY <1>2, <1>6 DEF n0
<1>9. TreeHeld'
  BY <1>1, <1>5, <1>7, <1>8 DEF EvidenceInv, TreeHeld
<1>10. ASSUME NEW x \in Processes PROVE ProcessWritten(x)'
  <2>1. ProcessWritten(x)
    BY DEF EvidenceInv, WrittenFollows
  <2>2. CASE x # p
    BY <1>1, <1>7, <2>1, <2>2 DEF ProcessWritten
  <2>3. CASE x = p
    <3>1. new.written <= all /\ (new.written = all => new.result = result[p])
      BY <1>1, <1>3, <1>4, <1>5
    <3> QED
      BY <1>1, <1>8, <2>3, <3>1 DEF ProcessWritten, n0
  <2> QED
    BY <2>2, <2>3
<1>11. WrittenFollows'
  <2>1. \A x \in Roots, n \in Seqs :
           trees'[x][n].state = "absent" => trees'[x][n].written = 0
    BY <1>5, <1>6 DEF EvidenceInv, WrittenFollows
  <2> QED
    BY <1>10, <2>1 DEF WrittenFollows
<1>12. FrozenTreeIsCommitted'
  <2>1. \A x \in Roots, n \in Seqs :
           trees'[x][n].state = "frozen" => trees'[x][n] = trees[x][n]
    BY <1>5, <1>6
  <2> SUFFICES ASSUME NEW x \in Roots, NEW n \in Seqs, trees'[x][n].state = "frozen"
               PROVE  /\ trees'[x][n].result # NoResult
                      /\ rows[trees'[x][n].result.req.wf][n].status = "complete"
                      /\ rows[trees'[x][n].result.req.wf][n].result = trees'[x][n].result
    BY <1>1 DEF FrozenTreeIsCommitted
  <2>2. trees'[x][n] = trees[x][n]
    BY <2>1
  <2> QED
    BY <2>2 DEF EvidenceInv, EvidenceMatchesLedger, FrozenTreeIsCommitted
<1>13. CommittedHasEvidence'
  <2> SUFFICES ASSUME NEW w \in WorkflowIds, NEW n \in Seqs,
                      rows[w][n].status = "complete"
               PROVE  \E x \in Roots :
                         /\ trees'[x][n].result = rows[w][n].result
                         /\ trees'[x][n].written = Len(PersistOrder(n))
    BY <1>1 DEF CommittedHasEvidence, Completed
  <2>1. PICK x \in Roots : /\ trees[x][n].result = rows[w][n].result
                           /\ trees[x][n].written = Len(PersistOrder(n))
    BY DEF EvidenceInv, EvidenceMatchesLedger, CommittedHasEvidence, Completed
  <2>2. ~(x = root[p] /\ n = n0)
    <3> SUFFICES ASSUME x = root[p], n = n0 PROVE FALSE
      OBVIOUS
    <3>1. old.written = all
      BY <2>1 DEF old
    <3> QED
      BY <1>1, <1>3, <3>1
  <2>3. trees'[x][n] = trees[x][n]
    BY <1>6, <2>2
  <2> QED
    BY <2>1, <2>3
<1> QED
  BY <1>9, <1>11, <1>12, <1>13 DEF EvidenceMatchesLedger

\* commit needs every file: the row it completes has its evidence.
LEMMA CommitEvidence ==
    ASSUME EvidenceInv, NEW p \in Processes, Commit(p)
    PROVE  TreeHeld' /\ WrittenFollows' /\ EvidenceMatchesLedger'
<1> DEFINE w0 == req[p].wf
<1> DEFINE n0 == req[p].seq
<1>1. /\ w0 \in WorkflowIds /\ n0 \in Seqs
      /\ rows[w0][n0].status = "pending"
      /\ rows'[w0][n0].status = "complete"
      /\ rows'[w0][n0].result = result[p]
      /\ \A w \in WorkflowIds, n \in Seqs :
            w # w0 \/ n # n0 => rows'[w][n] = rows[w][n]
  BY CommitRow DEF EvidenceInv
<1>2. /\ trees' = trees /\ root' = root /\ req' = req /\ result' = result
      /\ pc[p] = "finalized" /\ pc'[p] = "committed"
      /\ \A x \in Processes \ {p} : pc'[x] = pc[x]
      /\ trees[root[p]][n0].written = Len(PersistOrder(n0))
  BY DEF Commit, EvidenceInv, IInv, TypeOK
<1>3. root[p] \in Roots /\ trees[root[p]][n0].result = result[p]
  BY <1>2, HeldFacts DEF EvidenceInv, WrittenFollows, ProcessWritten
<1>4. TreeHeld'
  BY <1>2 DEF EvidenceInv, TreeHeld
<1>5. ASSUME NEW x \in Processes PROVE ProcessWritten(x)'
  <2>1. ProcessWritten(x)
    BY DEF EvidenceInv, WrittenFollows
  <2>2. CASE x = p
    BY <1>1, <1>2, <1>3, <2>2 DEF ProcessWritten
  <2>3. CASE x # p
    <3>1. pc[x] = "committed" => req[x].wf \in WorkflowIds /\ req[x].seq \in Seqs
      BY HeldFacts DEF EvidenceInv
    <3>2. pc[x] = "committed" => rows'[req[x].wf][req[x].seq] = rows[req[x].wf][req[x].seq]
      BY <1>1, <2>1, <3>1 DEF ProcessWritten
    <3> QED
      BY <1>2, <2>1, <2>3, <3>2 DEF ProcessWritten
  <2> QED
    BY <2>2, <2>3
<1>6. WrittenFollows'
  BY <1>2, <1>5 DEF EvidenceInv, WrittenFollows
<1> HIDE DEF w0, n0
<1>7. FrozenTreeIsCommitted'
  <2> SUFFICES ASSUME NEW r \in Roots, NEW n \in Seqs, trees[r][n].state = "frozen"
               PROVE  /\ trees[r][n].result # NoResult
                      /\ rows'[trees[r][n].result.req.wf][n].status = "complete"
                      /\ rows'[trees[r][n].result.req.wf][n].result = trees[r][n].result
    BY <1>2 DEF FrozenTreeIsCommitted
  <2> DEFINE t == trees[r][n].result
  <2>1. /\ t # NoResult
        /\ rows[t.req.wf][n].status = "complete"
        /\ rows[t.req.wf][n].result = t
    BY DEF EvidenceInv, EvidenceMatchesLedger, FrozenTreeIsCommitted
  <2>2. t.req.wf \in WorkflowIds
    BY <2>1 DEF EvidenceInv, IInv, TypeOK, Trees, Results, Requests
  <2> QED
    BY <1>1, <2>1, <2>2
<1>8. CommittedHasEvidence'
  <2> SUFFICES ASSUME NEW w \in WorkflowIds, NEW n \in Seqs,
                      rows'[w][n].status = "complete"
               PROVE  \E x \in Roots :
                         /\ trees[x][n].result = rows'[w][n].result
                         /\ trees[x][n].written = Len(PersistOrder(n))
    BY <1>2 DEF CommittedHasEvidence, Completed
  <2>1. CASE w = w0 /\ n = n0
    BY <1>1, <1>2, <1>3, <2>1
  <2>2. CASE ~(w = w0 /\ n = n0)
    <3>1. rows'[w][n] = rows[w][n]
      BY <1>1, <2>2
    <3> QED
      BY <3>1
      DEF EvidenceInv, EvidenceMatchesLedger, CommittedHasEvidence, Completed
  <2> QED
    BY <2>1, <2>2
<1> QED
  BY <1>4, <1>6, <1>7, <1>8 DEF EvidenceMatchesLedger

\* Only a committed tree is frozen, by its own process.
LEMMA FreezeEvidence ==
    ASSUME EvidenceInv, NEW p \in Processes, Freeze(p)
    PROVE  TreeHeld' /\ WrittenFollows' /\ EvidenceMatchesLedger'
<1> DEFINE n0 == req[p].seq
<1> DEFINE old == trees[root[p]][n0]
<1> DEFINE new == [old EXCEPT !.state = "frozen"]
<1>1. /\ pc[p] = "committed"
      /\ trees' = [trees EXCEPT ![root[p]][n0] = new]
      /\ rows' = rows /\ root' = root /\ pc'[p] = "idle"
      /\ \A x \in Processes \ {p} :
            pc'[x] = pc[x] /\ req'[x] = req[x] /\ result'[x] = result[x]
  BY DEF Freeze, Leave, EvidenceInv, IInv, TypeOK
<1>2. root[p] \in Roots /\ n0 \in Seqs /\ old \in Trees
  BY <1>1, HeldFacts DEF EvidenceInv
<1>3. new \in Trees /\ new.state = "frozen" /\ new.written = old.written
      /\ new.result = old.result
  BY <1>2 DEF Trees
<1>4. \A x \in Roots, n \in Seqs :
         trees'[x][n] = IF x = root[p] /\ n = n0 THEN new ELSE trees[x][n]
  BY <1>1, <1>2, <1>3, CellUpdate DEF EvidenceInv, IInv, TypeOK
<1>5. /\ old.result = result[p] /\ result[p] \in Results /\ result[p].req = req[p]
      /\ rows[req[p].wf][n0].status = "complete"
      /\ rows[req[p].wf][n0].result = result[p]
  BY <1>1 DEF EvidenceInv, IInv, HeldRequest, WrittenFollows, ProcessWritten
<1> HIDE DEF new, old, n0
<1>6. \A x \in Processes \ {p} : pc[x] # "idle" =>
         trees'[root[x]][req[x].seq] = trees[root[x]][req[x].seq]
  <2> SUFFICES ASSUME NEW x \in Processes \ {p}, pc[x] # "idle"
               PROVE  trees'[root[x]][req[x].seq] = trees[root[x]][req[x].seq]
    OBVIOUS
  <2>1. root[x] \in Roots /\ req[x].seq \in Seqs
    BY HeldFacts DEF EvidenceInv
  <2>2. ~(root[x] = root[p] /\ req[x].seq = n0)
    BY <1>1 DEF EvidenceInv, TreeHeld, n0
  <2> QED
    BY <1>4, <2>1, <2>2
<1>7. TreeHeld'
  BY <1>1, <1>6 DEF EvidenceInv, TreeHeld
<1>8. ASSUME NEW x \in Processes PROVE ProcessWritten(x)'
  BY <1>1, <1>6 DEF EvidenceInv, WrittenFollows, ProcessWritten
<1>9. WrittenFollows'
  <2>1. \A x \in Roots, n \in Seqs :
           trees'[x][n].state = "absent" => trees'[x][n].written = 0
    BY <1>3, <1>4 DEF EvidenceInv, WrittenFollows
  <2> QED
    BY <1>8, <2>1 DEF WrittenFollows
<1>10. FrozenTreeIsCommitted'
  <2> SUFFICES ASSUME NEW r \in Roots, NEW n \in Seqs, trees'[r][n].state = "frozen"
               PROVE  /\ trees'[r][n].result # NoResult
                      /\ rows[trees'[r][n].result.req.wf][n].status = "complete"
                      /\ rows[trees'[r][n].result.req.wf][n].result = trees'[r][n].result
    BY <1>1 DEF FrozenTreeIsCommitted
  <2>1. CASE r = root[p] /\ n = n0
    <3>1. trees'[r][n].result = result[p]
      BY <1>3, <1>4, <1>5, <2>1
    <3> QED
      BY <1>5, <2>1, <3>1, NoResultAssumption
  <2>2. CASE ~(r = root[p] /\ n = n0)
    <3>1. trees'[r][n] = trees[r][n]
      BY <1>4, <2>2
    <3> QED
      BY <3>1 DEF EvidenceInv, EvidenceMatchesLedger, FrozenTreeIsCommitted
  <2> QED
    BY <2>1, <2>2
<1>11. CommittedHasEvidence'
  <2>1. \A x \in Roots, n \in Seqs :
           trees'[x][n].result = trees[x][n].result /\
           trees'[x][n].written = trees[x][n].written
    BY <1>3, <1>4 DEF old
  <2> QED
    BY <1>1, <2>1
    DEF EvidenceInv, EvidenceMatchesLedger, CommittedHasEvidence, Completed
<1> QED
  BY <1>7, <1>9, <1>10, <1>11 DEF EvidenceMatchesLedger

\* The evidence invariant is inductive.
THEOREM EvidenceHolds == Spec => []EvidenceInv
<1>1. ASSUME Init PROVE EvidenceInv
  <2>1. \A w \in WorkflowIds, n \in Seqs : rows[w][n].status = "none"
    BY <1>1 DEF Init, NoRow
  <2>2. \A p \in Processes : pc[p] = "idle"
    BY <1>1 DEF Init
  <2>3. \A r \in Roots, n \in Seqs :
           trees[r][n].state = "absent" /\ trees[r][n].written = 0
    BY <1>1 DEF Init, NoTree
  <2>4. TreeHeld /\ WrittenFollows
    BY <2>2, <2>3 DEF TreeHeld, WrittenFollows, ProcessWritten
  <2>5. EvidenceMatchesLedger
    BY <2>1, <2>3
    DEF EvidenceMatchesLedger, FrozenTreeIsCommitted, CommittedHasEvidence, Completed
  <2> QED
    BY <1>1, <2>4, <2>5, InitIInv DEF EvidenceInv
<1>2. ASSUME EvidenceInv, [Next]_vars PROVE EvidenceInv'
  <2> DEFINE Kept == TreeHeld' /\ WrittenFollows' /\ EvidenceMatchesLedger'
  <2>1. IInv'
    BY <1>2, NextIInv DEF EvidenceInv
  <2>2. ASSUME NEW p \in Processes, Begin(p) PROVE Kept
    BY <1>2, <2>2, BeginEnters, EnterEvidence DEF EvidenceInv, IInv
  <2>3. ASSUME NEW p \in Processes, ClaimRefused(p) \/ Abort(p) PROVE Kept
    BY <1>2, <2>3, LeaveEvidence DEF ClaimRefused, Abort
  <2>4. ASSUME NEW p \in Processes,
               \/ Prepare(p) \/ ExecuteExternal(p)
               \/ \E out \in Arts, s, k \in Arts \cup {NoDigest} :
                     Finalize(p, out, s, k)
        PROVE  Kept
    BY <1>2, <2>4, WorkEvidence
  <2>5. ASSUME NEW p \in Processes, Claim(p) \/ Persist(p) \/ Commit(p) \/ Freeze(p)
        PROVE  Kept
    BY <1>2, <2>5, ClaimEvidence, PersistEvidence, CommitEvidence, FreezeEvidence
  <2>6. ASSUME UNCHANGED vars PROVE Kept
    <3>1. /\ rows' = rows /\ trees' = trees /\ pc' = pc /\ req' = req
          /\ root' = root /\ result' = result
      BY <2>6 DEF vars
    <3>2. ASSUME NEW x \in Processes PROVE ProcessWritten(x)'
      <4>1. ProcessWritten(x)
        BY <1>2 DEF EvidenceInv, WrittenFollows
      <4> QED
        BY <3>1, <4>1 DEF ProcessWritten
    <3>3. TreeHeld' /\ WrittenFollows'
      BY <1>2, <3>1, <3>2 DEF EvidenceInv, TreeHeld, WrittenFollows
    <3>4. EvidenceMatchesLedger'
      BY <1>2, <3>1
      DEF EvidenceInv, EvidenceMatchesLedger, FrozenTreeIsCommitted,
          CommittedHasEvidence, Completed
    <3> QED
      BY <3>3, <3>4
  <2> HIDE DEF Kept
  <2>7. ASSUME NEW p \in Processes, Begin(p) \/ Step(p) \/ Abort(p) PROVE Kept
    BY <2>2, <2>3, <2>4, <2>5, <2>7 DEF Step
  <2>8. Kept
    BY <1>2, <2>6, <2>7 DEF Next
  <2> QED
    BY <2>1, <2>8 DEF EvidenceInv, Kept
<1> QED
  BY <1>1, <1>2, PTL DEF Spec

\* A tree a later phase may read holds what the ledger committed, and every
\* committed result is on disk behind the files persisted before it.
THEOREM EvidenceAgrees == Spec => []EvidenceMatchesLedger
<1>1. EvidenceInv => EvidenceMatchesLedger
  BY DEF EvidenceInv
<1> QED
  BY <1>1, EvidenceHolds, PTL

-----------------------------------------------------------------------------
(***************************************************************************)
(* Refinement of WorkflowChain.                                            *)
(***************************************************************************)

\* A phase past Prepare, and not yet committed, has been prepared.
PreparedOnce ==
    \A p \in Processes : pc[p] \in {"prepared", "executed", "finalized"} =>
        prepared[req[p].wf][req[p].seq] = 1

RefInv == ChainInv /\ PreparedOnce

\* What the abstract chain sees of one workflow
ChainOf(w) == [n \in 1..Cardinality(Completed(w)) |-> rows[w][n].result.out]
OpenedOf(w) == \E n \in Seqs : rows[w][n].status = "pending"

\* The length of the abstract chain is the last completed phase.
LEMMA DoneIs ==
    ASSUME ChainInv, NEW w \in WorkflowIds
    PROVE  \E k \in 0..MaxSeq : Completed(w) = 1..k /\ Cardinality(Completed(w)) = k
<1>1. PICK k \in 0..MaxSeq : Completed(w) = 1..k
  BY DEF ChainInv, GapFree
<1>2. k \in Nat
  BY <1>1, MaxSeqAssumption
<1>3. Cardinality(1..k) = k
  BY <1>2, FS_Interval
<1> QED
  BY <1>1, <1>3

\* A pending row is the one after the completed ones.
LEMMA PendingIsNext ==
    ASSUME ChainInv, NEW w \in WorkflowIds, NEW n \in Seqs,
           rows[w][n].status = "pending"
    PROVE  /\ Completed(w) = 1..(n - 1)
           /\ Cardinality(Completed(w)) = n - 1
<1>1. PICK k \in 0..MaxSeq : Completed(w) = 1..k /\ Cardinality(Completed(w)) = k
  BY DoneIs
<1>2. n \notin 1..k
  BY <1>1 DEF Completed
<1>3. n > 1 => n - 1 \in Seqs /\ rows[w][n - 1].status = "complete"
  BY MaxSeqAssumption DEF ChainInv, ChainLinked, Seqs
<1>4. n > 1 => n - 1 \in 1..k
  BY <1>1, <1>3 DEF Completed
<1>5. n = k + 1
  BY <1>1, <1>2, <1>4, MaxSeqAssumption DEF Seqs
<1> QED
  BY <1>1, <1>5

\* Preparing is the step before executing, finalizing and committing.
LEMMA PreparedStep ==
    ASSUME IInv, PreparedOnce, [Next]_vars
    PROVE  PreparedOnce'
<1> TypeOK
  BY DEF IInv
<1> USE DEF PreparedOnce
<1>1. ASSUME NEW p \in Processes, Begin(p) PROVE PreparedOnce'
  <2>1. PICK r \in Roots, q \in Requests : EnterPhase(p, r, q)
    BY <1>1, BeginEnters
  <2> QED
    BY <2>1 DEF EnterPhase, TypeOK
<1>2. ASSUME NEW p \in Processes, Leave(p) PROVE PreparedOnce'
  BY <1>2 DEF Leave, TypeOK
<1>3. ASSUME NEW p \in Processes,
             \/ Claim(p) \/ ExecuteExternal(p) \/ Persist(p) \/ Commit(p)
             \/ \E out \in Arts, s, k \in Arts \cup {NoDigest} : Finalize(p, out, s, k)
      PROVE  PreparedOnce'
  <2>1. /\ prepared' = prepared /\ req' = req
        /\ \A x \in Processes \ {p} : pc'[x] = pc[x]
        /\ pc'[p] \in {"prepared", "executed", "finalized"} =>
              pc[p] \in {"prepared", "executed", "finalized"}
    BY <1>3 DEF Claim, ExecuteExternal, Persist, Commit, Finalize, held, TypeOK
  <2> QED
    BY <2>1
<1>4. ASSUME NEW p \in Processes, Prepare(p) PROVE PreparedOnce'
  <2> DEFINE q == req[p]
  <2>1. /\ pc[p] = "claimed" /\ pc' = [pc EXCEPT ![p] = "prepared"] /\ req' = req
        /\ prepared' = [prepared EXCEPT ![q.wf][q.seq] = prepared[q.wf][q.seq] + 1]
    BY <1>4 DEF Prepare
  <2>2. q.wf \in WorkflowIds /\ q.seq \in Seqs
    BY <2>1, HeldFacts
  <2>3. prepared[q.wf][q.seq] = 0
    BY <2>1 DEF IInv, CountsFollowOwner
  <2>4. prepared' = [prepared EXCEPT ![q.wf][q.seq] = 1]
    BY <2>1, <2>3
  <2>5. \A w \in WorkflowIds, n \in Seqs :
           prepared'[w][n] = IF w = q.wf /\ n = q.seq THEN 1 ELSE prepared[w][n]
    BY <2>2, <2>4, CellUpdate DEF TypeOK
  <2>6. \A x \in Processes : pc[x] # "idle" =>
           req[x].wf \in WorkflowIds /\ req[x].seq \in Seqs
    BY HeldFacts
  <2> QED
    BY <2>1, <2>2, <2>5, <2>6 DEF TypeOK
<1>5. CASE UNCHANGED vars
  BY <1>5 DEF vars
<1> QED
  BY <1>1, <1>2, <1>3, <1>4, <1>5 DEF Next, Step, ClaimRefused, Freeze, Abort

\* claim opens the next phase of its workflow.
LEMMA ClaimOpens ==
    ASSUME RefInv, NEW p \in Processes, Claim(p), NEW w0, w0 = req[p].wf
    PROVE  Chain!Open(w0)
<1> DEFINE q == req[p]
<1>1. /\ q.wf \in WorkflowIds /\ q.seq \in Seqs
      /\ rows[q.wf][q.seq].status = "none"
      /\ \A n \in Seqs : rows[q.wf][n].status # "pending"
      /\ NextInChain(q)
  BY ClaimRow DEF RefInv, ChainInv, CanClaim, Unclaimed, NoPending
<1>2. /\ rows'[q.wf][q.seq].status = "pending"
      /\ \A w \in WorkflowIds, n \in Seqs :
            w # q.wf \/ n # q.seq => rows'[w][n] = rows[w][n]
  <2> DEFINE row == [status |-> "pending", req |-> q, result |-> NoResult]
  <2>1. \A w \in WorkflowIds, n \in Seqs :
           rows'[w][n] = IF w = q.wf /\ n = q.seq THEN row ELSE rows[w][n]
    BY ClaimRow DEF RefInv, ChainInv
  <2>2. row.status = "pending"
    OBVIOUS
  <2> HIDE DEF row
  <2> QED
    BY <1>1, <2>1, <2>2
<1>3. prepared' = prepared
  BY DEF Claim
<1>0. q.wf = w0
  OBVIOUS
<1> HIDE DEF q
<1>4. \A w \in WorkflowIds : Completed(w)' = Completed(w)
  BY <1>1, <1>2 DEF Completed
<1>5. ASSUME NEW w \in WorkflowIds PROVE ChainOf(w)' = ChainOf(w)
  <2>1. PICK k \in 0..MaxSeq : Completed(w) = 1..k /\ Cardinality(Completed(w)) = k
    BY DoneIs DEF RefInv
  <2>2. \A n \in 1..k : rows'[w][n] = rows[w][n]
    <3>1. \A n \in 1..k : n \in Seqs /\ rows[w][n].status = "complete"
      BY <2>1 DEF Completed
    <3> QED
      BY <1>1, <1>2, <3>1
  <2>3. ChainOf(w) = [n \in 1..k |-> rows[w][n].result.out]
    BY <2>1 DEF ChainOf
  <2>4. ChainOf(w)' = [n \in 1..k |-> rows'[w][n].result.out]
    BY <1>4, <2>1 DEF ChainOf
  <2> QED
    BY <2>2, <2>3, <2>4
<1>6. Cardinality(Completed(q.wf)) < MaxSeq
  <2>1. PICK k \in 0..MaxSeq :
           Completed(q.wf) = 1..k /\ Cardinality(Completed(q.wf)) = k
    BY <1>1, DoneIs DEF RefInv
  <2>2. q.seq = k + 1
    BY <1>1, <2>1 DEF NextInChain
  <2> QED
    BY <1>1, <2>1, <2>2, MaxSeqAssumption DEF Seqs
<1>7. OpenedOf(q.wf) = FALSE
  BY <1>1 DEF OpenedOf
<1>8. \A w \in WorkflowIds : OpenedOf(w)' = IF w = q.wf THEN TRUE ELSE OpenedOf(w)
  BY <1>1, <1>2 DEF OpenedOf
<1>9. Len(ChainOf(q.wf)) = Cardinality(Completed(q.wf))
  <2>1. Cardinality(Completed(q.wf)) \in Nat
    BY <1>1, DoneIs, MaxSeqAssumption DEF RefInv
  <2> QED
    BY <2>1 DEF ChainOf
<1> DEFINE chain == [w \in WorkflowIds |-> ChainOf(w)]
<1> DEFINE opened == [w \in WorkflowIds |-> OpenedOf(w)]
<1>10. ~opened[w0]
  BY <1>0, <1>1, <1>7
<1>11. Len(chain[w0]) < MaxSeq
  BY <1>0, <1>1, <1>6, <1>9
<1>12. opened' = [opened EXCEPT ![w0] = TRUE]
  BY <1>0, <1>1, <1>8
<1>13. chain' = chain
  BY <1>5
<1> QED
  BY <1>3, <1>10, <1>11, <1>12, <1>13 DEF Chain!Open, ChainOf, OpenedOf

\* Prepare performs the action of the opened phase.
LEMMA PreparePerforms ==
    ASSUME RefInv, NEW p \in Processes, Prepare(p), NEW w0, w0 = req[p].wf
    PROVE  Chain!Perform(w0)
<1> DEFINE q == req[p]
<1>1. /\ pc[p] = "claimed" /\ rows' = rows
      /\ prepared' = [prepared EXCEPT ![q.wf][q.seq] = prepared[q.wf][q.seq] + 1]
  BY DEF Prepare
<1>2. /\ q.wf \in WorkflowIds /\ q.seq \in Seqs
      /\ rows[q.wf][q.seq].status = "pending"
      /\ prepared[q.wf][q.seq] = 0
  BY <1>1, HeldFacts
  DEF RefInv, ChainInv, IInv, OwnsPendingRow, CountsFollowOwner, Claiming
<1>0. q.wf = w0
  OBVIOUS
<1> HIDE DEF q
<1>3. Cardinality(Completed(q.wf)) = q.seq - 1
  BY <1>2, PendingIsNext DEF RefInv
<1>4. Len(ChainOf(q.wf)) + 1 = q.seq
  BY <1>2, <1>3 DEF ChainOf, Seqs
<1>5. OpenedOf(q.wf)
  BY <1>2 DEF OpenedOf
<1> DEFINE chain == [w \in WorkflowIds |-> ChainOf(w)]
<1> DEFINE opened == [w \in WorkflowIds |-> OpenedOf(w)]
<1>6. opened[q.wf] /\ Len(chain[q.wf]) + 1 = q.seq
  BY <1>2, <1>4, <1>5
<1>7. prepared' = [prepared EXCEPT ![q.wf][q.seq] = 1]
  BY <1>1, <1>2
<1>8. chain' = chain /\ opened' = opened
  BY <1>1 DEF ChainOf, OpenedOf, Completed
<1>9. /\ opened[w0]
      /\ prepared[w0][Len(chain[w0]) + 1] = 0
      /\ prepared' = [prepared EXCEPT ![w0][Len(chain[w0]) + 1] = 1]
  BY <1>0, <1>2, <1>6, <1>7
<1> QED
  BY <1>8, <1>9 DEF Chain!Perform, ChainOf, OpenedOf

\* commit closes the opened phase with its output.
LEMMA CommitCloses ==
    ASSUME RefInv, NEW p \in Processes, Commit(p),
           NEW w0, w0 = req[p].wf, NEW out, out = result[p].out
    PROVE  out \in Arts /\ Chain!Close(w0, out)
<1>0. PICK n0 : n0 = req[p].seq
  OBVIOUS
<1>1. /\ w0 \in WorkflowIds /\ n0 \in Seqs
      /\ rows[w0][n0].status = "pending"
      /\ rows'[w0][n0].status = "complete"
      /\ rows'[w0][n0].result.out = out
      /\ \A w \in WorkflowIds, n \in Seqs :
            w # w0 \/ n # n0 => rows'[w][n] = rows[w][n]
  BY <1>0, CommitRow DEF RefInv, ChainInv
<1>2. out \in Arts
  BY DEF RefInv, ChainInv, IInv, HeldRequest, Commit, Results
<1>3. prepared[w0][n0] = 1 /\ prepared' = prepared
  BY <1>0 DEF RefInv, PreparedOnce, Commit
<1>4. Completed(w0) = 1..(n0 - 1) /\ Cardinality(Completed(w0)) = n0 - 1
  BY <1>1, PendingIsNext DEF RefInv
<1>5. n0 \in Nat /\ n0 >= 1
  BY <1>1, MaxSeqAssumption DEF Seqs
<1>6. Completed(w0)' = 1..n0 /\ Cardinality(Completed(w0)') = n0
  <2>1. Completed(w0)' = Completed(w0) \cup {n0}
    BY <1>1 DEF Completed
  <2>2. Completed(w0)' = 1..n0
    BY <1>4, <1>5, <2>1
  <2> QED
    BY <1>5, <2>2, FS_Interval
<1>7. ASSUME NEW w \in WorkflowIds, w # w0 PROVE ChainOf(w)' = ChainOf(w)
  <2>1. PICK k \in 0..MaxSeq : Completed(w) = 1..k /\ Cardinality(Completed(w)) = k
    BY DoneIs DEF RefInv
  <2>2. Completed(w)' = Completed(w)
    BY <1>1, <1>7 DEF Completed
  <2>3. \A n \in 1..k : rows'[w][n] = rows[w][n]
    <3>1. \A n \in 1..k : n \in Seqs
      BY <2>1, MaxSeqAssumption DEF Seqs
    <3> QED
      BY <1>1, <1>7, <3>1
  <2>4. ChainOf(w) = [n \in 1..k |-> rows[w][n].result.out]
    BY <2>1 DEF ChainOf
  <2>5. ChainOf(w)' = [n \in 1..k |-> rows'[w][n].result.out]
    BY <2>1, <2>2 DEF ChainOf
  <2> QED
    BY <2>3, <2>4, <2>5
<1>8. Len(ChainOf(w0)) + 1 = n0
  BY <1>4, <1>5 DEF ChainOf
<1>9. ChainOf(w0)' = Append(ChainOf(w0), out)
  <2>1. ChainOf(w0) = [n \in 1..(n0 - 1) |-> rows[w0][n].result.out]
    BY <1>4 DEF ChainOf
  <2>2. ChainOf(w0)' = [n \in 1..n0 |-> rows'[w0][n].result.out]
    BY <1>6 DEF ChainOf
  <2>3. Append(ChainOf(w0), out) =
           [n \in 1..n0 |-> IF n = n0 THEN out ELSE rows[w0][n].result.out]
    <3>1. Len(ChainOf(w0)) = n0 - 1
      BY <1>5, <2>1
    <3> HIDE DEF ChainOf
    <3>2. \A n \in 1..n0 : n # n0 => ChainOf(w0)[n] = rows[w0][n].result.out
      BY <1>5, <2>1
    <3>3. ChainOf(w0) \in Seq({rows[w0][n].result.out : n \in 1..n0})
      BY <1>5, <2>1
    <3> QED
      BY <1>5, <3>1, <3>2, <3>3, AppendProperties
  <2>4. \A n \in 1..n0 : n # n0 => rows'[w0][n] = rows[w0][n]
    <3>1. \A n \in 1..n0 : n \in Seqs
      BY <1>1, <1>5, MaxSeqAssumption DEF Seqs
    <3> QED
      BY <1>1, <3>1
  <2>5. \A n \in 1..n0 : rows'[w0][n].result.out =
                            IF n = n0 THEN out ELSE rows[w0][n].result.out
    BY <1>1, <2>4
  <2> QED
    BY <2>2, <2>3, <2>5
<1>10. OpenedOf(w0) /\ ~OpenedOf(w0)'
  <2>1. \A n \in Seqs : n # n0 => rows[w0][n].status # "pending"
    BY <1>1 DEF RefInv, ChainInv, OnePending
  <2> QED
    BY <1>1, <2>1 DEF OpenedOf
<1>11. \A w \in WorkflowIds : OpenedOf(w)' = IF w = w0 THEN FALSE ELSE OpenedOf(w)
  BY <1>1, <1>10 DEF OpenedOf
<1> DEFINE chain == [w \in WorkflowIds |-> ChainOf(w)]
<1> DEFINE opened == [w \in WorkflowIds |-> OpenedOf(w)]
<1>12. opened[w0] /\ prepared[w0][Len(chain[w0]) + 1] = 1
  BY <1>1, <1>3, <1>8, <1>10
<1>13. chain' = [chain EXCEPT ![w0] = Append(chain[w0], out)]
  BY <1>1, <1>7, <1>9
<1>14. opened' = [opened EXCEPT ![w0] = FALSE]
  BY <1>1, <1>11
<1> QED
  BY <1>2, <1>3, <1>12, <1>13, <1>14 DEF Chain!Close, ChainOf, OpenedOf

\* Every step of the ledger is a step of the abstract chain or changes nothing
\* of it.
LEMMA StepSimulates ==
    ASSUME RefInv, [Next]_vars
    PROVE  [Chain!Next]_(Chain!chainVars)
<1> TypeOK
  BY DEF RefInv, ChainInv, IInv
<1>1. CASE rows' = rows /\ prepared' = prepared
  BY <1>1 DEF Chain!chainVars, Completed
<1>2. ASSUME NEW p \in Processes, Claim(p) PROVE Chain!Next
  <2>1. PICK w \in WorkflowIds : w = req[p].wf
    BY <1>2, ClaimRow DEF RefInv, ChainInv
  <2>2. Chain!Open(w)
    BY <1>2, <2>1, ClaimOpens
  <2> QED
    BY <2>2 DEF Chain!Next
<1>3. ASSUME NEW p \in Processes, Prepare(p) PROVE Chain!Next
  <2>1. PICK w \in WorkflowIds : w = req[p].wf
    BY <1>3, HeldFacts DEF RefInv, ChainInv, Prepare
  <2>2. Chain!Perform(w)
    BY <1>3, <2>1, PreparePerforms
  <2> QED
    BY <2>2 DEF Chain!Next
<1>4. ASSUME NEW p \in Processes, Commit(p) PROVE Chain!Next
  <2>1. PICK w \in WorkflowIds : w = req[p].wf
    BY <1>4, CommitRow DEF RefInv, ChainInv
  <2>2. PICK out : out = result[p].out
    OBVIOUS
  <2>3. out \in Arts /\ Chain!Close(w, out)
    BY <1>4, <2>1, <2>2, CommitCloses
  <2> QED
    BY <2>3 DEF Chain!Next
<1>5. \/ rows' = rows /\ prepared' = prepared
      \/ \E p \in Processes : Claim(p) \/ Prepare(p) \/ Commit(p)
  <2>1. ASSUME NEW p \in Processes, Begin(p) PROVE rows' = rows /\ prepared' = prepared
    BY <2>1, BeginEnters DEF EnterPhase
  <2>2. ASSUME NEW p \in Processes, Step(p) \/ Abort(p)
        PROVE  \/ rows' = rows /\ prepared' = prepared
               \/ Claim(p) \/ Prepare(p) \/ Commit(p)
    BY <2>2 DEF Step, ClaimRefused, ExecuteExternal, Finalize, Persist, Freeze,
                Abort, Leave
  <2> QED
    BY <2>1, <2>2 DEF Next, vars
<1> QED
  BY <1>1, <1>2, <1>3, <1>4, <1>5

\* The ledger, with all its processes, crashes and trees, implements the
\* abstract chain.
THEOREM Refines == Spec => ImplementsChain
<1>1. ASSUME Init PROVE Chain!Init
  <2>1. \A w \in WorkflowIds, n \in Seqs : rows[w][n].status = "none"
    BY <1>1 DEF Init, NoRow
  <2>2. ASSUME NEW w \in WorkflowIds
        PROVE  /\ [n \in 1..Cardinality(Completed(w)) |-> rows[w][n].result.out] = <<>>
               /\ (\E n \in Seqs : rows[w][n].status = "pending") = FALSE
    <3>1. Completed(w) = {}
      <4>1. \A n \in Seqs : rows[w][n].status # "complete"
        BY <2>1
      <4> QED
        BY <4>1, Zenon DEF Completed
    <3>2. Cardinality(Completed(w)) = 0
      BY <3>1, FS_EmptySet
    <3> QED
      BY <2>1, <3>2
  <2>3. prepared = [w \in WorkflowIds |-> [n \in 1..MaxSeq |-> 0]]
    BY <1>1 DEF Init, Seqs
  <2> QED
    BY <2>2, <2>3 DEF Chain!Init
<1>2. ASSUME Init PROVE PreparedOnce
  BY <1>2 DEF Init, PreparedOnce
<1>3. ASSUME ChainInv, PreparedOnce, [Next]_vars PROVE PreparedOnce'
  BY <1>3, PreparedStep DEF ChainInv
<1>4. ASSUME ChainInv, PreparedOnce, [Next]_vars
      PROVE  [Chain!Next]_(Chain!chainVars)
  BY <1>4, StepSimulates DEF RefInv
<1> QED
  BY <1>1, <1>2, <1>3, <1>4, ChainHolds, PTL DEF Spec, ImplementsChain, Chain!Spec
=============================================================================
