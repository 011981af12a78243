------------------------ MODULE OuterWorkflowProofs ------------------------
(***************************************************************************)
(* Proofs about OuterWorkflow for every number of launches, output roots,  *)
(* ledgers and workflows, and for whatever the coordinator answers.        *)
(***************************************************************************)
EXTENDS OuterWorkflow, FiniteSetTheorems, TLAPS

\* A launch that is inside the loop over PHASE_ORDER
Inside == {"ready", "calling", "moved", "answered", "executed", "finalized",
           "committing"}

\* Where a launch is says how far its phase directory has grown.
StageOfPc(at, s) ==
    /\ at = "ready" => s = "absent"
    /\ at = "calling" => s = "input"
    /\ at \in {"moved", "answered", "executed"} => s = "prepared"
    /\ at = "finalized" => s = "finalized"
    /\ at = "committing" => s = "committing"

\* After red-snapshot was prepared the store is frozen; before, it is open.
StoreOfPc(at, n, state) ==
    IF n > 2 \/ (n = 2 /\ at \notin {"ready", "calling", "moved"})
      THEN state = "frozen" ELSE state = "open"

\* The view a launch inside the loop has of its root: it is an author of it,
\* all phases before its turn are frozen and none after it exists.
InsideInv(l) ==
    LET r == root[l]
        n == turn[l]
    IN  /\ l \in author[r]
        /\ n \in Seqs
        /\ \A m \in Seqs : m < n => stage[r][m] = "frozen"
        /\ \A m \in Seqs : m > n => stage[r][m] = "absent"
        /\ StageOfPc(pc[l], stage[r][n])
        /\ StoreOfPc(pc[l], n, store[r].state)
        /\ pc[l] # "ready" =>
              /\ request[l].seq = n
              /\ n > 1 => committed[r][n - 1].next = request[l]
        /\ pc[l] \in {"finalized", "committing"} =>
              final[l] \in Transitions /\ ValidFinalized(request[l], final[l])
        /\ pc[l] = "committing" => StoreMatches(n, store[r], final[l])

LaunchInv(l) ==
    /\ pc[l] # "new" => root[l] \in Roots
    /\ pc[l] \in {"new", "launched", "checked"} => turn[l] = 1
    /\ pc[l] \in Inside \cup {"launched", "checked"} => request[l] \in Requests
    /\ pc[l] \in Inside => InsideInv(l)

\* Below a root: a frozen phase has its record, which follows from the record
\* of the phase before it, and nothing else has one.
RecordInv(r, n) ==
    /\ committed[r][n] # NoTransition => stage[r][n] = "frozen"
    /\ stage[r][n] = "frozen" =>
          /\ committed[r][n] \in Transitions
          /\ committed[r][n].result.req.seq = n
          /\ ValidFinalized(committed[r][n].result.req, committed[r][n])
          /\ n > 1 => committed[r][n].result.req = committed[r][n - 1].next
          /\ n = 1 => store[r].snapshots = committed[r][n].snaps
          /\ n = 2 => store[r].red = committed[r][n].snaps
    /\ stage[r][n] # "absent" /\ n > 1 => stage[r][n - 1] = "frozen"

\* A root nobody made a store below is empty; its authors are one launch.
RootInv(r) ==
    /\ store[r].state = "absent" =>
          author[r] = {} /\ \A n \in Seqs : stage[r][n] = "absent"
    /\ \A l \in author[r] :
          root[l] = r /\ pc[l] \notin {"new", "launched", "checked"}
    /\ \A l, m \in author[r] : l = m
    /\ \A n \in Seqs : RecordInv(r, n)

\* An outer execution was of a phase that may run outside, by a launch whose
\* root has everything before that phase.
ExecInv ==
    \A e \in executed :
        /\ e[1] \in Launches
        /\ pc[e[1]] # "new"
        /\ e[4] \in {"offline", "broker"} => store[root[e[1]]].state = "frozen"
        /\ \A n \in Seqs :
               n < (IF e[4] = "broker" THEN PacketPhase ELSE PacketPhase - 2) =>
                   stage[root[e[1]]][n] = "frozen"

LaunchesInv == \A l \in Launches : LaunchInv(l)
RootsInv == \A r \in Roots : RootInv(r)

OInv == TypeOK /\ LaunchesInv /\ RootsInv /\ ExecInv

-----------------------------------------------------------------------------
(***************************************************************************)
(* What a step of one launch leaves alone.                                 *)
(***************************************************************************)

\* The locals of launch m do not change.
SameLocals(m) ==
    /\ pc'[m] = pc[m] /\ root'[m] = root[m] /\ turn'[m] = turn[m]
    /\ request'[m] = request[m] /\ final'[m] = final[m]

\* Nothing below root x changes.
SameFiles(x) ==
    /\ store'[x] = store[x] /\ stage'[x] = stage[x]
    /\ committed'[x] = committed[x] /\ author'[x] = author[x]

\* Launch l, inside the loop, writes at most its phase directory and its store.
WritesPhase(l, s, st) ==
    /\ pc[l] \in Inside
    /\ pc'[l] \notin {"new", "launched", "checked"}
    /\ root' = root
    /\ \A m \in Launches \ {l} : SameLocals(m)
    /\ author' = author
    /\ committed' = committed
    /\ stage' = [stage EXCEPT ![root[l]][turn[l]] = s]
    /\ store' = [store EXCEPT ![root[l]] = st]

\* What it may write there
FairWrite(l, s, st) ==
    LET old == store[root[l]] IN
    /\ s = stage[root[l]][turn[l]] \/ s \in {"input", "prepared", "finalized",
                                            "committing"}
    /\ st \in Stores
    /\ st.state # "absent"
    /\ old.state = "frozen" => st.state = "frozen"
    /\ turn[l] > 1 => st.snapshots = old.snapshots
    /\ turn[l] > 2 => st.red = old.red

-----------------------------------------------------------------------------

\* Facts about a launch inside the loop
LEMMA InsideFacts ==
    ASSUME OInv, NEW l \in Launches, pc[l] \in Inside
    PROVE  /\ InsideInv(l)
           /\ root[l] \in Roots
           /\ turn[l] \in Seqs
           /\ request[l] \in Requests
           /\ l \in author[root[l]]
           /\ stage[root[l]][turn[l]] # "frozen"
           /\ store[root[l]] \in Stores
           /\ store[root[l]].state # "absent"
<1>1. LaunchInv(l)
  BY DEF OInv, LaunchesInv
<1>2. InsideInv(l) /\ root[l] \in Roots /\ request[l] \in Requests
  BY <1>1 DEF LaunchInv, Inside
<1>3. turn[l] \in Seqs /\ l \in author[root[l]]
  BY <1>2 DEF InsideInv
<1>4. stage[root[l]][turn[l]] # "frozen"
  BY <1>2 DEF InsideInv, StageOfPc, Inside
<1>5. store[root[l]] \in Stores
  BY <1>2 DEF OInv, TypeOK
<1>6. store[root[l]].state # "absent"
  BY <1>2 DEF InsideInv, StoreOfPc
<1> QED
  BY <1>2, <1>3, <1>4, <1>5, <1>6

\* Two launches inside the loop have different roots.
LEMMA InsideAlone ==
    ASSUME OInv, NEW l \in Launches, NEW m \in Launches,
           pc[l] \in Inside, pc[m] \in Inside, root[l] = root[m]
    PROVE  l = m
<1>1. /\ l \in author[root[l]] /\ m \in author[root[l]] /\ root[l] \in Roots
  BY InsideFacts
<1>2. RootInv(root[l])
  BY <1>1 DEF OInv, RootsInv
<1> QED
  BY <1>1, <1>2 DEF RootInv

\* An invariant about a launch whose locals and root do not change stays.
LEMMA SameLaunch ==
    ASSUME NEW m \in Launches, LaunchInv(m), SameLocals(m),
           pc[m] \in Inside => SameFiles(root[m])
    PROVE  LaunchInv(m)'
<1>1. CASE pc[m] \in Inside
  <2>1. InsideInv(m)'
    BY <1>1 DEF LaunchInv, InsideInv, SameLocals, SameFiles
  <2> QED
    BY <1>1, <2>1 DEF LaunchInv, SameLocals
<1>2. CASE pc[m] \notin Inside
  BY <1>2 DEF LaunchInv, SameLocals
<1> QED
  BY <1>1, <1>2

\* So does one about a root.
LEMMA SameRoot ==
    ASSUME NEW x \in Roots, RootInv(x), SameFiles(x),
           \A l \in author[x] : root'[l] = root[l] /\
                                pc'[l] \notin {"new", "launched", "checked"}
    PROVE  RootInv(x)'
<1>1. \A n \in Seqs : RecordInv(x, n)'
  BY DEF RootInv, RecordInv, SameFiles
<1> QED
  BY <1>1 DEF RootInv, SameFiles

\* Writing its own phase directory and store, a launch keeps the invariants of
\* the roots, of the executions and of the other launches.
LEMMA PhaseWrite ==
    ASSUME OInv, NEW l \in Launches, NEW s, NEW st,
           WritesPhase(l, s, st), FairWrite(l, s, st)
    PROVE  /\ RootsInv'
           /\ \A m \in Launches \ {l} : LaunchInv(m)'
           /\ executed' = executed => ExecInv'
           /\ store'[root[l]] = st
           /\ \A n \in Seqs : stage'[root[l]][n] =
                                IF n = turn[l] THEN s ELSE stage[root[l]][n]
<1>0. PICK r, n0 : r = root[l] /\ n0 = turn[l]
  OBVIOUS
<1>1. /\ pc[l] \in Inside /\ r \in Roots /\ n0 \in Seqs /\ InsideInv(l)
      /\ stage[r][n0] # "frozen"
  BY <1>0, InsideFacts DEF WritesPhase
<1>2. /\ store' = [store EXCEPT ![r] = st]
      /\ stage' = [stage EXCEPT ![r][n0] = s]
      /\ root' = root /\ author' = author /\ committed' = committed
      /\ pc'[l] \notin {"new", "launched", "checked"}
      /\ \A m \in Launches \ {l} : SameLocals(m)
  BY <1>0 DEF WritesPhase
<1>3. \A x \in Roots : x # r => SameFiles(x)
  BY <1>2 DEF SameFiles, OInv, TypeOK
<1>4. /\ store'[r] = st
      /\ \A n \in Seqs : stage'[r][n] = IF n = n0 THEN s ELSE stage[r][n]
  BY <1>1, <1>2 DEF OInv, TypeOK
<1>5. ASSUME NEW m \in Launches \ {l} PROVE LaunchInv(m)'
  <2>1. LaunchInv(m) /\ SameLocals(m)
    BY <1>2 DEF OInv, LaunchesInv
  <2>2. pc[m] \in Inside => root[m] # r /\ root[m] \in Roots
    BY <1>0, <1>1, InsideAlone, InsideFacts
  <2> QED
    BY <1>3, <2>1, <2>2, SameLaunch
<1>6. \A x \in Roots, m \in Launches : m \in author[x] =>
         pc'[m] \notin {"new", "launched", "checked"}
  BY <1>2 DEF OInv, RootsInv, RootInv, SameLocals
<1>7. \A x \in Roots : author[x] \subseteq Launches
  BY DEF OInv, TypeOK
<1>8. ASSUME NEW x \in Roots, x # r PROVE RootInv(x)'
  <2>1. RootInv(x) /\ SameFiles(x)
    BY <1>3, <1>8 DEF OInv, RootsInv
  <2> QED
    BY <1>2, <1>6, <1>7, <2>1, SameRoot
<1>9. RootInv(r)'
  <2>1. RootInv(r)
    BY <1>1 DEF OInv, RootsInv
  <2>2. store'[r].state # "absent"
    BY <1>0, <1>4 DEF FairWrite
  <2>3. ASSUME NEW n \in Seqs PROVE RecordInv(r, n)'
    <3>1. RecordInv(r, n)
      BY <2>1 DEF RootInv
    <3>2. CASE n = n0
      <4>1. committed[r][n] = NoTransition /\ s # "frozen"
        BY <1>0, <1>1, <3>1, <3>2 DEF RecordInv, FairWrite
      <4>2. n > 1 => n - 1 \in Seqs /\ stage[r][n - 1] = "frozen" /\ n - 1 # n0
        BY <1>0, <1>1, <3>2, MaxSeqAssumption DEF InsideInv, Seqs
      <4> QED
        BY <1>2, <1>4, <3>2, <4>1, <4>2 DEF RecordInv
    <3>3. CASE n < n0
      <4>1. /\ stage'[r][n] = stage[r][n]
            /\ n > 1 => n - 1 \in Seqs /\ stage'[r][n - 1] = stage[r][n - 1]
        BY <1>4, <3>3, MaxSeqAssumption DEF Seqs
      <4>2. /\ n = 1 => st.snapshots = store[r].snapshots
            /\ n = 2 => st.red = store[r].red
        BY <1>0, <3>3 DEF FairWrite, Seqs
      <4> QED
        BY <1>2, <1>4, <3>1, <4>1, <4>2 DEF RecordInv
    <3>4. CASE n > n0
      <4>1. stage[r][n] = "absent" /\ stage'[r][n] = "absent"
        BY <1>0, <1>1, <1>4, <3>4 DEF InsideInv, Seqs
      <4> QED
        BY <1>2, <3>1, <4>1 DEF RecordInv
    <3> QED
      BY <1>1, <3>2, <3>3, <3>4 DEF Seqs
  <2>4. \A m \in author'[r] :
           root'[m] = r /\ pc'[m] \notin {"new", "launched", "checked"}
    BY <1>1, <1>2, <1>6, <1>7, <2>1 DEF RootInv
  <2>5. \A k, m \in author'[r] : k = m
    BY <1>2, <2>1 DEF RootInv
  <2> QED
    BY <2>2, <2>3, <2>4, <2>5 DEF RootInv
<1>10. RootsInv'
  BY <1>8, <1>9 DEF RootsInv
<1>11. ASSUME executed' = executed PROVE ExecInv'
  <2> SUFFICES ASSUME NEW e \in executed
               PROVE  /\ e[1] \in Launches
                      /\ pc'[e[1]] # "new"
                      /\ e[4] \in {"offline", "broker"} =>
                            store'[root[e[1]]].state = "frozen"
                      /\ \A n \in Seqs :
                            n < (IF e[4] = "broker" THEN PacketPhase
                                 ELSE PacketPhase - 2) =>
                                stage'[root[e[1]]][n] = "frozen"
    BY <1>2, <1>11 DEF ExecInv, PacketPhase
  <2>1. /\ e[1] \in Launches /\ pc[e[1]] # "new"
        /\ e[4] \in {"offline", "broker"} => store[root[e[1]]].state = "frozen"
        /\ \A n \in Seqs :
              n < (IF e[4] = "broker" THEN PacketPhase ELSE PacketPhase - 2) =>
                  stage[root[e[1]]][n] = "frozen"
    BY DEF OInv, ExecInv
  <2>2. root[e[1]] \in Roots /\ pc'[e[1]] # "new"
    BY <1>2, <2>1 DEF OInv, LaunchesInv, LaunchInv, SameLocals
  <2>3. CASE root[e[1]] # r
    BY <1>3, <2>1, <2>2, <2>3 DEF SameFiles
  <2>4. CASE root[e[1]] = r
    <3>1. store[r].state = "frozen" => store'[r].state = "frozen"
      BY <1>0, <1>4 DEF FairWrite
    <3>2. \A n \in Seqs : stage[r][n] = "frozen" => stage'[r][n] = "frozen"
      BY <1>1, <1>4
    <3> QED
      BY <2>1, <2>2, <2>4, <3>1, <3>2
  <2> QED
    BY <2>3, <2>4
<1> QED
  BY <1>0, <1>4, <1>5, <1>10, <1>11

\* A launch inside the loop is the author of its root already.
LEMMA WritesNothingNew ==
    ASSUME OInv, NEW l \in Launches, pc[l] \in Inside, Writes(l)
    PROVE  author' = author
<1>1. l \in author[root[l]] /\ root[l] \in Roots
  BY InsideFacts
<1>2. author[root[l]] \cup {l} = author[root[l]]
  BY <1>1
<1> QED
  BY <1>1, <1>2 DEF Writes, OInv, TypeOK

\* The invariant of a launch that goes on inside its phase
LEMMA OwnView ==
    ASSUME OInv, NEW l \in Launches, NEW s, NEW st,
           WritesPhase(l, s, st), FairWrite(l, s, st),
           turn'[l] = turn[l], request'[l] = request[l],
           pc'[l] \in Inside \ {"ready"},
           StageOfPc(pc'[l], s),
           StoreOfPc(pc'[l], turn[l], st.state),
           request[l].seq = turn[l],
           turn[l] > 1 => committed[root[l]][turn[l] - 1].next = request[l],
           pc'[l] \in {"finalized", "committing"} =>
              final'[l] \in Transitions /\ ValidFinalized(request[l], final'[l]),
           pc'[l] = "committing" => StoreMatches(turn[l], st, final'[l])
    PROVE  LaunchInv(l)'
<1>1. /\ root[l] \in Roots /\ turn[l] \in Seqs /\ request[l] \in Requests
      /\ InsideInv(l)
  BY InsideFacts DEF WritesPhase
<1>2. /\ store'[root[l]] = st
      /\ \A n \in Seqs : stage'[root[l]][n] =
                           IF n = turn[l] THEN s ELSE stage[root[l]][n]
  BY PhaseWrite
<1>3. root' = root /\ author' = author /\ committed' = committed
  BY DEF WritesPhase
<1>4. InsideInv(l)'
  <2>1. /\ l \in author'[root'[l]] /\ turn'[l] \in Seqs
        /\ \A m \in Seqs : m < turn'[l] => stage'[root'[l]][m] = "frozen"
        /\ \A m \in Seqs : m > turn'[l] => stage'[root'[l]][m] = "absent"
    BY <1>1, <1>2, <1>3 DEF InsideInv, Seqs
  <2>2. /\ StageOfPc(pc'[l], stage'[root'[l]][turn'[l]])
        /\ StoreOfPc(pc'[l], turn'[l], store'[root'[l]].state)
    BY <1>1, <1>2, <1>3
  <2>3. /\ request'[l].seq = turn'[l]
        /\ turn'[l] > 1 => committed'[root'[l]][turn'[l] - 1].next = request'[l]
    BY <1>3
  <2>4. /\ pc'[l] \in {"finalized", "committing"} =>
              final'[l] \in Transitions /\ ValidFinalized(request'[l], final'[l])
        /\ pc'[l] = "committing" =>
              StoreMatches(turn'[l], store'[root'[l]], final'[l])
    BY <1>2, <1>3
  <2> QED
    BY <2>1, <2>2, <2>3, <2>4 DEF InsideInv
<1> QED
  BY <1>1, <1>3, <1>4 DEF LaunchInv, Inside

\* Leaving the loop, a launch keeps nothing to be held to but its root.
LEMMA OwnExit ==
    ASSUME OInv, NEW l \in Launches, pc'[l] \in {"done", "stopped"},
           root' = root, pc[l] # "new"
    PROVE  LaunchInv(l)'
  BY DEF OInv, LaunchesInv, LaunchInv, Inside

\* Putting the parts together
LEMMA Together ==
    ASSUME NEW l \in Launches, TypeOK', LaunchInv(l)',
           \A m \in Launches \ {l} : LaunchInv(m)', RootsInv', ExecInv'
    PROVE  OInv'
<1>1. LaunchesInv'
  BY DEF LaunchesInv
<1> QED
  BY <1>1 DEF OInv

\* Making the phase directory and its frozen input
LEMMA PrepareInputKeeps ==
    ASSUME OInv, NEW l \in Launches, PrepareInput(l)
    PROVE  OInv'
<1> DEFINE r == root[l]
<1>1. /\ pc[l] = "ready" /\ CanPrepare(l) /\ Writes(l)
      /\ stage' = [stage EXCEPT ![r][turn[l]] = "input"]
      /\ pc' = [pc EXCEPT ![l] = "calling"]
      /\ UNCHANGED <<ledgers, store, committed, root, turn, request, action,
                     final, executed>>
  BY DEF PrepareInput, GoTo
<1>2. pc[l] \in Inside
  BY <1>1 DEF Inside
<1>3. /\ r \in Roots /\ turn[l] \in Seqs /\ InsideInv(l)
      /\ store[r] \in Stores /\ store[r].state # "absent"
  BY <1>2, InsideFacts
<1>4. author' = author
  BY <1>1, <1>2, WritesNothingNew
<1>5. TypeOK'
  BY <1>1, <1>3, <1>4 DEF OInv, TypeOK
<1>6. pc'[l] = "calling" /\ \A m \in Launches \ {l} : SameLocals(m)
  BY <1>1 DEF SameLocals, OInv, TypeOK
<1>7. WritesPhase(l, "input", store[r])
  <2>1. store' = [store EXCEPT ![r] = store[r]]
    BY <1>1, <1>3 DEF OInv, TypeOK
  <2> QED
    BY <1>1, <1>2, <1>4, <1>6, <2>1 DEF WritesPhase
<1>8. FairWrite(l, "input", store[r])
  BY <1>3 DEF FairWrite
<1>9. LaunchInv(l)'
  <2>1. StoreOfPc("calling", turn[l], store[r].state) /\ StageOfPc("calling", "input")
    BY <1>1, <1>3 DEF InsideInv, StoreOfPc, StageOfPc
  <2>2. /\ request[l].seq = turn[l]
        /\ turn[l] > 1 => committed[root[l]][turn[l] - 1].next = request[l]
    BY <1>1 DEF CanPrepare
  <2>3. turn'[l] = turn[l] /\ request'[l] = request[l] /\ pc'[l] \in Inside \ {"ready"}
    BY <1>1, <1>6 DEF Inside
  <2> QED
    BY <1>6, <1>7, <1>8, <2>1, <2>2, <2>3, OwnView
<1> QED
  BY <1>1, <1>5, <1>7, <1>8, <1>9, PhaseWrite, Together

\* The coordinator's answer to prepare; its snapshots go to a new place.
LEMMA PrepareCallKeeps ==
    ASSUME OInv, NEW l \in Launches, NEW a \in Actions,
           NEW d \in {NoDir} \cup SUBSET Shas, PrepareCall(l, a, d)
    PROVE  OInv'
<1> DEFINE r == root[l]
<1> DEFINE n == turn[l]
<1> DEFINE st == IF d = NoDir THEN store[r] ELSE Moved(n, store[r], d)
<1>1. /\ pc[l] = "calling" /\ Writes(l)
      /\ stage' = [stage EXCEPT ![r][n] = "prepared"]
      /\ action' = [action EXCEPT ![l] = a]
      /\ pc' = [pc EXCEPT ![l] = "moved"]
      /\ UNCHANGED <<ledgers, committed, root, turn, request, final, executed>>
  BY DEF PrepareCall, GoTo
<1>2. pc[l] \in Inside
  BY <1>1 DEF Inside
<1>3. /\ r \in Roots /\ n \in Seqs /\ InsideInv(l)
      /\ store[r] \in Stores /\ store[r].state # "absent"
  BY <1>2, InsideFacts
<1>4. author' = author
  BY <1>1, <1>2, WritesNothingNew
<1>5. store' = [store EXCEPT ![r] = st]
  BY <1>3 DEF PrepareCall, OInv, TypeOK
<1>6. /\ st \in Stores /\ st.state = store[r].state
      /\ n > 1 => st.snapshots = store[r].snapshots
      /\ n > 2 => st.red = store[r].red
  <2>1. store[r] \in [state : {"absent", "open", "frozen"},
                      snapshots : {NoDir} \cup SUBSET Shas,
                      red : {NoDir} \cup SUBSET Shas]
    BY <1>3 DEF Stores
  <2>2. CASE d = NoDir
    BY <1>3, <2>2
  <2>3. CASE d # NoDir /\ n = 1
    BY <2>1, <2>3 DEF Moved, Stores
  <2>4. CASE d # NoDir /\ n = 2
    BY <2>1, <2>4 DEF Moved, Stores
  <2>5. CASE d # NoDir /\ n # 1 /\ n # 2
    BY <2>1, <2>5 DEF Moved, Stores
  <2> QED
    BY <2>2, <2>3, <2>4, <2>5
<1> HIDE DEF st
<1>7. TypeOK'
  BY <1>1, <1>3, <1>4, <1>5, <1>6 DEF OInv, TypeOK
<1>8. pc'[l] = "moved" /\ \A m \in Launches \ {l} : SameLocals(m)
  BY <1>1 DEF SameLocals, OInv, TypeOK
<1>9. WritesPhase(l, "prepared", st)
  BY <1>1, <1>2, <1>4, <1>5, <1>8 DEF WritesPhase
<1>10. FairWrite(l, "prepared", st)
  BY <1>3, <1>6 DEF FairWrite
<1>11. LaunchInv(l)'
  <2>1. StoreOfPc("moved", n, st.state) /\ StageOfPc("moved", "prepared")
    BY <1>1, <1>3, <1>6 DEF InsideInv, StoreOfPc, StageOfPc
  <2>2. /\ request[l].seq = turn[l]
        /\ turn[l] > 1 => committed[root[l]][turn[l] - 1].next = request[l]
    BY <1>1, <1>3 DEF InsideInv
  <2>3. turn'[l] = turn[l] /\ request'[l] = request[l] /\ pc'[l] \in Inside \ {"ready"}
    BY <1>1, <1>8 DEF Inside
  <2> QED
    BY <1>8, <1>9, <1>10, <2>1, <2>2, <2>3, OwnView
<1> QED
  BY <1>1, <1>7, <1>9, <1>10, <1>11, PhaseWrite, Together

\* The store is frozen with the second phase.
LEMMA FreezeStoreKeeps ==
    ASSUME OInv, NEW l \in Launches, FreezeStore(l)
    PROVE  OInv'
<1> DEFINE r == root[l]
<1> DEFINE n == turn[l]
<1> DEFINE st == IF n = 2 THEN [store[r] EXCEPT !.state = "frozen"] ELSE store[r]
<1>1. /\ pc[l] = "moved" /\ Writes(l)
      /\ pc' = [pc EXCEPT ![l] = "answered"]
      /\ UNCHANGED <<ledgers, stage, committed, root, turn, request, action, final,
                     executed>>
  BY DEF FreezeStore, GoTo
<1>2. pc[l] \in Inside
  BY <1>1 DEF Inside
<1>3. /\ r \in Roots /\ n \in Seqs /\ InsideInv(l)
      /\ store[r] \in Stores /\ store[r].state # "absent"
  BY <1>2, InsideFacts
<1>4. author' = author
  BY <1>1, <1>2, WritesNothingNew
<1>5. store' = [store EXCEPT ![r] = st]
  BY <1>3 DEF FreezeStore, OInv, TypeOK
<1>6. /\ st \in Stores /\ st.state = (IF n = 2 THEN "frozen" ELSE store[r].state)
      /\ st.snapshots = store[r].snapshots
      /\ st.red = store[r].red
  BY <1>3 DEF Stores
<1> HIDE DEF st
<1>7. TypeOK'
  BY <1>1, <1>3, <1>4, <1>5, <1>6 DEF OInv, TypeOK
<1>8. pc'[l] = "answered" /\ \A m \in Launches \ {l} : SameLocals(m)
  BY <1>1 DEF SameLocals, OInv, TypeOK
<1>9. WritesPhase(l, stage[r][n], st)
  <2>1. stage' = [stage EXCEPT ![r][n] = stage[r][n]]
    BY <1>1, <1>3 DEF OInv, TypeOK
  <2> QED
    BY <1>1, <1>2, <1>4, <1>5, <1>8, <2>1 DEF WritesPhase
<1>10. FairWrite(l, stage[r][n], st)
  BY <1>3, <1>6 DEF FairWrite
<1>11. LaunchInv(l)'
  <2>1. StoreOfPc("answered", n, st.state) /\ StageOfPc("answered", stage[r][n])
    BY <1>1, <1>3, <1>6 DEF InsideInv, StoreOfPc, StageOfPc, Seqs
  <2>2. /\ request[l].seq = turn[l]
        /\ turn[l] > 1 => committed[root[l]][turn[l] - 1].next = request[l]
    BY <1>1, <1>3 DEF InsideInv
  <2>3. turn'[l] = turn[l] /\ request'[l] = request[l] /\ pc'[l] \in Inside \ {"ready"}
    BY <1>1, <1>8 DEF Inside
  <2> QED
    BY <1>8, <1>9, <1>10, <2>1, <2>2, <2>3, OwnView
<1> QED
  BY <1>1, <1>7, <1>9, <1>10, <1>11, PhaseWrite, Together

\* The phases that are executed outside
LEMMA KindIsPhase ==
    \A n \in 1..7 : /\ ExpectedKind(n) = "offline" => n = 3
                    /\ ExpectedKind(n) = "broker" => n = 5
                    /\ ExpectedKind(n) \in Kinds
<1>1. /\ PHASE_ORDER[1] = "snapshot" /\ PHASE_ORDER[2] = "red-snapshot"
      /\ PHASE_ORDER[3] = "offline" /\ PHASE_ORDER[4] = "review-packet"
      /\ PHASE_ORDER[5] = "broker" /\ PHASE_ORDER[6] = "sign"
      /\ PHASE_ORDER[7] = "attested-judge"
  BY DEF PHASE_ORDER
<1>2. \A n \in 1..7 : n \in {1, 2, 3, 4, 5, 6, 7}
  OBVIOUS
<1> QED
  BY <1>1, <1>2 DEF ExpectedKind, Kinds

\* The packet is an anchor from the fifth phase on.
LEMMA PacketPhaseIsFive == PacketPhase = 5
<1>1. /\ PHASE_ORDER[1] # "broker" /\ PHASE_ORDER[2] # "broker"
      /\ PHASE_ORDER[3] # "broker" /\ PHASE_ORDER[4] # "broker"
      /\ PHASE_ORDER[5] = "broker"
      /\ PHASE_ORDER[6] # "broker" /\ PHASE_ORDER[7] # "broker"
  BY DEF PHASE_ORDER
<1>2. \A n \in 1..7 : n \in {1, 2, 3, 4, 5, 6, 7}
  OBVIOUS
<1>3. 5 \in 1..7 /\ \A n \in 1..7 : PHASE_ORDER[n] = "broker" <=> n = 5
  BY <1>1, <1>2
<1> QED
  BY <1>3 DEF PacketPhase

\* Executing, inline or outside, changes no file; outside, it is behind the
\* evidence its phase needs.
LEMMA DispatchKeeps ==
    ASSUME OInv, NEW l \in Launches, NEW kind \in Kinds, Execute(l, kind),
           \/ executed' = executed
           \/ /\ executed' = executed \cup {<<l, request[l].wf, request[l].seq, kind>>}
              /\ kind # "none"
    PROVE  OInv'
<1> DEFINE r == root[l]
<1> DEFINE n == turn[l]
<1>1. /\ pc[l] = "answered" /\ ValidAction(request[l], action[l])
      /\ action[l].kind = kind
      /\ pc' = [pc EXCEPT ![l] = "executed"]
      /\ UNCHANGED <<ledgers, store, stage, committed, author>>
      /\ UNCHANGED <<root, turn, request, action, final>>
  BY DEF Execute, GoTo, files
<1>2. pc[l] \in Inside
  BY <1>1 DEF Inside
<1>3. /\ r \in Roots /\ n \in Seqs /\ InsideInv(l) /\ request[l] \in Requests
      /\ store[r] \in Stores /\ store[r].state # "absent"
  BY <1>2, InsideFacts
<1>4. TypeOK'
  <2>1. request[l].wf \in WorkflowIds /\ request[l].seq \in Seqs
    BY <1>3 DEF Requests
  <2>2. executed' \subseteq Launches \X WorkflowIds \X Seqs \X Kinds
    BY <2>1 DEF OInv, TypeOK
  <2> QED
    BY <1>1, <2>2 DEF OInv, TypeOK
<1>5. pc'[l] = "executed" /\ \A m \in Launches \ {l} : SameLocals(m)
  BY <1>1 DEF SameLocals, OInv, TypeOK
<1>6. WritesPhase(l, stage[r][n], store[r])
  <2>1. /\ stage' = [stage EXCEPT ![r][n] = stage[r][n]]
        /\ store' = [store EXCEPT ![r] = store[r]]
    BY <1>1, <1>3 DEF OInv, TypeOK
  <2> QED
    BY <1>1, <1>2, <1>5, <2>1 DEF WritesPhase
<1>7. FairWrite(l, stage[r][n], store[r])
  BY <1>3 DEF FairWrite
<1>8. LaunchInv(l)'
  <2>1. StoreOfPc("executed", n, store[r].state) /\ StageOfPc("executed", stage[r][n])
    BY <1>1, <1>3 DEF InsideInv, StoreOfPc, StageOfPc
  <2>2. /\ request[l].seq = turn[l]
        /\ turn[l] > 1 => committed[root[l]][turn[l] - 1].next = request[l]
    BY <1>1, <1>3 DEF InsideInv
  <2>3. turn'[l] = turn[l] /\ request'[l] = request[l] /\ pc'[l] \in Inside \ {"ready"}
    BY <1>1, <1>5 DEF Inside
  <2> QED
    BY <1>5, <1>6, <1>7, <2>1, <2>2, <2>3, OwnView
<1>9. ExecInv'
  <2>1. CASE executed' = executed
    BY <1>6, <1>7, <2>1, PhaseWrite
  <2>2. CASE /\ executed' = executed \cup {<<l, request[l].wf, request[l].seq, kind>>}
             /\ kind # "none"
    <3> DEFINE Good(e) ==
          /\ e[1] \in Launches
          /\ pc'[e[1]] # "new"
          /\ e[4] \in {"offline", "broker"} => store[root[e[1]]].state = "frozen"
          /\ \A m \in Seqs :
                 m < (IF e[4] = "broker" THEN PacketPhase ELSE PacketPhase - 2) =>
                     stage[root[e[1]]][m] = "frozen"
    <3>1. \A e \in executed : Good(e)
      <4> SUFFICES ASSUME NEW e \in executed PROVE Good(e)
        OBVIOUS
      <4>1. /\ e[1] \in Launches /\ pc[e[1]] # "new"
            /\ e[4] \in {"offline", "broker"} => store[root[e[1]]].state = "frozen"
            /\ \A m \in Seqs :
                  m < (IF e[4] = "broker" THEN PacketPhase ELSE PacketPhase - 2) =>
                      stage[root[e[1]]][m] = "frozen"
        BY DEF OInv, ExecInv
      <4>2. pc'[e[1]] # "new"
        BY <1>5, <4>1 DEF SameLocals
      <4> QED
        BY <4>1, <4>2
    <3>2. /\ n \in 1..7
          /\ kind = "offline" => n = 3
          /\ kind = "broker" => n = 5
          /\ kind \in {"offline", "broker"}
      <4>1. request[l].seq = n
        BY <1>1, <1>3 DEF InsideInv
      <4>2. kind = ExpectedKind(n)
        BY <1>1, <4>1 DEF ValidAction
      <4>3. n \in 1..7
        BY <1>3, MaxSeqAssumption DEF Seqs
      <4> HIDE DEF n
      <4> QED
        BY <2>2, <4>2, <4>3, KindIsPhase DEF Kinds
    <3>3. store[r].state = "frozen" /\ \A m \in Seqs : m < n => stage[r][m] = "frozen"
      BY <1>3, <3>2 DEF InsideInv, StoreOfPc
    <3>4. Good(<<l, request[l].wf, request[l].seq, kind>>)
      BY <1>5, <3>2, <3>3, PacketPhaseIsFive
    <3>5. \A e \in executed' : Good(e)
      BY <2>2, <3>1, <3>4
    <3> QED
      BY <1>1, <3>5 DEF ExecInv, PacketPhase
  <2> QED
    BY <2>1, <2>2
<1> QED
  BY <1>4, <1>6, <1>7, <1>8, <1>9, PhaseWrite, Together

\* A digest of a well-typed result is well typed.
LEMMA PhaseShaType == \A r \in Results : PhaseSha(r) \in Digests
<1> SUFFICES ASSUME NEW r \in Results PROVE PhaseSha(r) \in Digests
  OBVIOUS
<1>1. r.req \in Requests /\ r.out \in Arts
  BY DEF Results
<1>2. /\ r.req.wf \in WorkflowIds
      /\ r.req.anchor \in Anchors
      /\ r.req.prev \in Digests \cup {NoDigest}
  BY <1>1 DEF Requests
<1> DEFINE before == IF r.req.prev = NoDigest THEN <<>> ELSE r.req.prev.outs
<1>3. before \in Seq(Arts)
  BY <1>2 DEF Digests
<1>4. Append(before, r.out) \in Seq(Arts)
  BY <1>1, <1>3
<1> QED
  BY <1>2, <1>4 DEF PhaseSha, Digests

\* Whatever the coordinator answers to finalize, a reply that is accepted is
\* well typed: a next request only exists before the last phase.
LEMMA ReplyType ==
    ASSUME NEW q \in Requests, NEW f \in Replies(q), ValidFinalized(q, f)
    PROVE  f \in Transitions
<1>1. PICK r \in [req : {q}, out : Arts, snap : Arts \cup {NoDigest},
                  packet : Arts \cup {NoDigest}] :
         \E x \in Successors(r), h \in IF q.seq <= 2 THEN SUBSET Shas ELSE {{}} :
            f = [result |-> r, snaps |-> h, next |-> x]
  BY DEF Replies
<1>2. PICK x \in Successors(r), h \in IF q.seq <= 2 THEN SUBSET Shas ELSE {{}} :
            f = [result |-> r, snaps |-> h, next |-> x]
  BY <1>1
<1>3. r \in Results /\ r.req = q
  BY <1>1 DEF Results
<1>4. h \in SUBSET Shas
  BY <1>2
<1>5. x \in Requests \cup {NoRequest}
  <2>1. CASE q.seq = MaxSeq
    BY <1>2, <2>1 DEF ValidFinalized
  <2>2. CASE q.seq # MaxSeq
    <3> DEFINE y == RightSuccessor(r)
    <3>1. q.seq \in Seqs /\ q.seq + 1 \in Seqs
      BY <2>2, MaxSeqAssumption DEF Requests, Seqs
    <3>2. PhaseSha(r) \in Digests
      BY <1>3, PhaseShaType
    <3>3. y \in Requests
      BY <1>1, <1>3, <3>1, <3>2 DEF RightSuccessor, Requests, Results
    <3> HIDE DEF y
    <3>4. /\ \A w \in WorkflowIds : [y EXCEPT !.wf = w] \in Requests
          /\ \A a \in Anchors : [y EXCEPT !.anchor = a] \in Requests
          /\ \A i \in Arts : [y EXCEPT !.inp = i] \in Requests
          /\ \A i \in Arts \cup {NoDigest} : [y EXCEPT !.snap = i] \in Requests
          /\ \A i \in Arts \cup {NoDigest} : [y EXCEPT !.packet = i] \in Requests
      BY <3>3 DEF Requests
    <3>5. /\ [y EXCEPT !.prev = NoDigest] \in Requests
          /\ [y EXCEPT !.seq = r.req.seq] \in Requests
      BY <1>3, <3>1, <3>3 DEF Requests
    <3> QED
      BY <3>4, <3>5 DEF Successors, y
  <2> QED
    BY <2>1, <2>2
<1> QED
  BY <1>2, <1>3, <1>4, <1>5 DEF Transitions
\* The coordinator's answer to finalize
LEMMA FinalizeCallKeeps ==
    ASSUME OInv, NEW l \in Launches, NEW f \in Replies(request[l]),
           FinalizeCall(l, f)
    PROVE  OInv'
<1> DEFINE r == root[l]
<1> DEFINE n == turn[l]
<1>1. /\ pc[l] = "executed" /\ ValidFinalized(request[l], f) /\ Writes(l)
      /\ stage' = [stage EXCEPT ![r][n] = "finalized"]
      /\ final' = [final EXCEPT ![l] = f]
      /\ pc' = [pc EXCEPT ![l] = "finalized"]
      /\ UNCHANGED <<ledgers, store, committed, root, turn, request, action,
                     executed>>
  BY DEF FinalizeCall, GoTo
<1>2. pc[l] \in Inside
  BY <1>1 DEF Inside
<1>3. /\ r \in Roots /\ n \in Seqs /\ InsideInv(l) /\ request[l] \in Requests
      /\ store[r] \in Stores /\ store[r].state # "absent"
  BY <1>2, InsideFacts
<1>4. author' = author
  BY <1>1, <1>2, WritesNothingNew
<1>5. f \in Transitions
  BY <1>1, <1>3, ReplyType
<1>6. TypeOK'
  BY <1>1, <1>3, <1>4, <1>5 DEF OInv, TypeOK
<1>7. /\ pc'[l] = "finalized" /\ final'[l] = f
      /\ \A m \in Launches \ {l} : SameLocals(m)
  BY <1>1 DEF SameLocals, OInv, TypeOK
<1>8. WritesPhase(l, "finalized", store[r])
  <2>1. store' = [store EXCEPT ![r] = store[r]]
    BY <1>1, <1>3 DEF OInv, TypeOK
  <2> QED
    BY <1>1, <1>2, <1>4, <1>7, <2>1 DEF WritesPhase
<1>9. FairWrite(l, "finalized", store[r])
  BY <1>3 DEF FairWrite
<1>10. LaunchInv(l)'
  <2>1. /\ StoreOfPc("finalized", n, store[r].state)
        /\ StageOfPc("finalized", "finalized")
    BY <1>1, <1>3 DEF InsideInv, StoreOfPc, StageOfPc
  <2>2. /\ request[l].seq = turn[l]
        /\ turn[l] > 1 => committed[root[l]][turn[l] - 1].next = request[l]
    BY <1>1, <1>3 DEF InsideInv
  <2>3. turn'[l] = turn[l] /\ request'[l] = request[l] /\ pc'[l] \in Inside \ {"ready"}
    BY <1>1, <1>7 DEF Inside
  <2> QED
    BY <1>1, <1>5, <1>7, <1>8, <1>9, <2>1, <2>2, <2>3, OwnView
<1> QED
  BY <1>1, <1>6, <1>8, <1>9, <1>10, PhaseWrite, Together

\* The beginning of the commit, behind the comparison with the store
LEMMA CommitBeginKeeps ==
    ASSUME OInv, NEW l \in Launches, CommitBegin(l)
    PROVE  OInv'
<1> DEFINE r == root[l]
<1> DEFINE n == turn[l]
<1>1. /\ pc[l] = "finalized" /\ StoreMatches(n, store[r], final[l]) /\ Writes(l)
      /\ stage' = [stage EXCEPT ![r][n] = "committing"]
      /\ pc' = [pc EXCEPT ![l] = "committing"]
      /\ UNCHANGED <<ledgers, store, committed, root, turn, request, action, final,
                     executed>>
  BY DEF CommitBegin, GoTo
<1>2. pc[l] \in Inside
  BY <1>1 DEF Inside
<1>3. /\ r \in Roots /\ n \in Seqs /\ InsideInv(l) /\ request[l] \in Requests
      /\ store[r] \in Stores /\ store[r].state # "absent"
  BY <1>2, InsideFacts
<1>4. author' = author
  BY <1>1, <1>2, WritesNothingNew
<1>6. TypeOK'
  BY <1>1, <1>3, <1>4 DEF OInv, TypeOK
<1>7. pc'[l] = "committing" /\ \A m \in Launches \ {l} : SameLocals(m)
  BY <1>1 DEF SameLocals, OInv, TypeOK
<1>8. WritesPhase(l, "committing", store[r])
  <2>1. store' = [store EXCEPT ![r] = store[r]]
    BY <1>1, <1>3 DEF OInv, TypeOK
  <2> QED
    BY <1>1, <1>2, <1>4, <1>7, <2>1 DEF WritesPhase
<1>9. FairWrite(l, "committing", store[r])
  BY <1>3 DEF FairWrite
<1>10. LaunchInv(l)'
  <2>1. /\ StoreOfPc("committing", n, store[r].state)
        /\ StageOfPc("committing", "committing")
    BY <1>1, <1>3 DEF InsideInv, StoreOfPc, StageOfPc
  <2>2. /\ request[l].seq = turn[l]
        /\ turn[l] > 1 => committed[root[l]][turn[l] - 1].next = request[l]
        /\ final[l] \in Transitions /\ ValidFinalized(request[l], final[l])
    BY <1>1, <1>3 DEF InsideInv
  <2>3. turn'[l] = turn[l] /\ request'[l] = request[l] /\ final'[l] = final[l]
        /\ pc'[l] \in Inside \ {"ready"}
    BY <1>1, <1>7 DEF Inside
  <2> QED
    BY <1>1, <1>7, <1>8, <1>9, <2>1, <2>2, <2>3, OwnView
<1> QED
  BY <1>1, <1>6, <1>8, <1>9, <1>10, PhaseWrite, Together

\* A reply to finalize that does not parse
LEMMA FinalizeRefusedKeeps ==
    ASSUME OInv, NEW l \in Launches, FinalizeRefused(l)
    PROVE  OInv'
<1> DEFINE r == root[l]
<1>1. /\ pc[l] = "executed"
      /\ stage' = [stage EXCEPT ![r][turn[l]] = "finalized"]
      /\ pc' = [pc EXCEPT ![l] = "stopped"]
      /\ request' = [request EXCEPT ![l] = NoRequest]
      /\ action' = [action EXCEPT ![l] = NoAction]
      /\ final' = [final EXCEPT ![l] = NoTransition]
      /\ UNCHANGED <<ledgers, store, committed, root, turn, author, executed>>
  BY DEF FinalizeRefused, Exit, GoTo
<1>2. pc[l] \in Inside
  BY <1>1 DEF Inside
<1>3. /\ r \in Roots /\ turn[l] \in Seqs
      /\ store[r] \in Stores /\ store[r].state # "absent"
  BY <1>2, InsideFacts
<1>4. TypeOK'
  BY <1>1, <1>3 DEF OInv, TypeOK, Actions
<1>5. pc'[l] = "stopped" /\ \A m \in Launches \ {l} : SameLocals(m)
  BY <1>1 DEF SameLocals, OInv, TypeOK
<1>6. WritesPhase(l, "finalized", store[r])
  <2>1. store' = [store EXCEPT ![r] = store[r]]
    BY <1>1, <1>3 DEF OInv, TypeOK
  <2> QED
    BY <1>1, <1>2, <1>5, <2>1 DEF WritesPhase
<1>7. FairWrite(l, "finalized", store[r])
  BY <1>3 DEF FairWrite
<1>8. LaunchInv(l)'
  BY <1>1, <1>5, OwnExit
<1> QED
  BY <1>1, <1>4, <1>6, <1>7, <1>8, PhaseWrite, Together

\* A launch that is not in the loop yet and writes no file
LEMMA BeforeTheLoop ==
    ASSUME OInv, NEW l \in Launches, pc[l] \in {"new", "launched", "checked"},
           TypeOK', LaunchInv(l)', pc'[l] # "new",
           pc[l] # "new" => root' = root,
           \A m \in Launches \ {l} : SameLocals(m),
           \A x \in Roots : SameFiles(x), executed' = executed
    PROVE  OInv'
<1>1. ASSUME NEW m \in Launches \ {l} PROVE LaunchInv(m)'
  <2>1. LaunchInv(m) /\ SameLocals(m)
    BY DEF OInv, LaunchesInv
  <2>2. pc[m] \in Inside => root[m] \in Roots
    BY InsideFacts
  <2> QED
    BY <2>1, <2>2, SameLaunch
<1>2. ASSUME NEW x \in Roots PROVE RootInv(x)'
  <2>1. RootInv(x) /\ SameFiles(x) /\ author[x] \subseteq Launches
    BY DEF OInv, RootsInv, TypeOK
  <2>2. l \notin author[x]
    BY <2>1 DEF RootInv
  <2>3. \A m \in author[x] : root'[m] = root[m] /\
                             pc'[m] \notin {"new", "launched", "checked"}
    BY <2>1, <2>2 DEF RootInv, SameLocals
  <2> QED
    BY <2>1, <2>3, SameRoot
<1>3. ExecInv'
  <2> SUFFICES ASSUME NEW e \in executed
               PROVE  /\ e[1] \in Launches
                      /\ pc'[e[1]] # "new"
                      /\ e[4] \in {"offline", "broker"} =>
                            store'[root'[e[1]]].state = "frozen"
                      /\ \A n \in Seqs :
                            n < (IF e[4] = "broker" THEN PacketPhase
                                 ELSE PacketPhase - 2) =>
                                stage'[root'[e[1]]][n] = "frozen"
    BY DEF ExecInv, PacketPhase
  <2>1. /\ e[1] \in Launches /\ pc[e[1]] # "new"
        /\ e[4] \in {"offline", "broker"} => store[root[e[1]]].state = "frozen"
        /\ \A n \in Seqs :
              n < (IF e[4] = "broker" THEN PacketPhase ELSE PacketPhase - 2) =>
                  stage[root[e[1]]][n] = "frozen"
    BY DEF OInv, ExecInv
  <2>2. /\ pc'[e[1]] # "new" /\ root'[e[1]] = root[e[1]] /\ root[e[1]] \in Roots
    BY <2>1 DEF SameLocals, OInv, LaunchesInv, LaunchInv
  <2> QED
    BY <2>1, <2>2 DEF SameFiles
<1>4. RootsInv'
  BY <1>2 DEF RootsInv
<1> QED
  BY <1>1, <1>3, <1>4, Together

\* A stop: what was written stays.
LEMMA ExitKeeps ==
    ASSUME OInv, NEW l \in Launches, pc[l] \notin {"new", "done", "stopped"},
           Exit(l), stage' = stage
    PROVE  OInv'
<1> DEFINE r == root[l]
<1>1. /\ pc' = [pc EXCEPT ![l] = "stopped"]
      /\ request' = [request EXCEPT ![l] = NoRequest]
      /\ action' = [action EXCEPT ![l] = NoAction]
      /\ final' = [final EXCEPT ![l] = NoTransition]
      /\ UNCHANGED <<ledgers, store, stage, committed, root, turn, author, executed>>
  BY DEF Exit, GoTo
<1>2. TypeOK'
  BY <1>1 DEF OInv, TypeOK, Actions
<1>3. pc'[l] = "stopped" /\ \A m \in Launches \ {l} : SameLocals(m)
  BY <1>1 DEF SameLocals, OInv, TypeOK
<1>4. LaunchInv(l)'
  BY <1>1, <1>3, OwnExit
<1>5. CASE pc[l] \in Inside
  <2>1. /\ r \in Roots /\ turn[l] \in Seqs
        /\ store[r] \in Stores /\ store[r].state # "absent"
    BY <1>5, InsideFacts
  <2>2. WritesPhase(l, stage[r][turn[l]], store[r])
    <3>1. /\ store' = [store EXCEPT ![r] = store[r]]
          /\ stage' = [stage EXCEPT ![r][turn[l]] = stage[r][turn[l]]]
      BY <1>1, <2>1 DEF OInv, TypeOK
    <3> QED
      BY <1>1, <1>3, <1>5, <3>1 DEF WritesPhase
  <2>3. FairWrite(l, stage[r][turn[l]], store[r])
    BY <2>1 DEF FairWrite
  <2> QED
    BY <1>1, <1>2, <1>4, <2>2, <2>3, PhaseWrite, Together
<1>6. CASE pc[l] \notin Inside
  <2>1. pc[l] \in {"launched", "checked"}
    BY <1>6 DEF Inside, OInv, TypeOK
  <2>2. \A x \in Roots : SameFiles(x)
    BY <1>1 DEF SameFiles
  <2> QED
    BY <1>1, <1>2, <1>3, <1>4, <2>1, <2>2, BeforeTheLoop
<1> QED
  BY <1>5, <1>6
\* A new launch
LEMMA LaunchKeeps ==
    ASSUME OInv, NEW l \in Launches, NEW r \in Roots, NEW b \in Ledgers,
           NEW w \in WorkflowIds, NEW a \in Anchors, Launch(l, r, b, w, a)
    PROVE  OInv'
<1> DEFINE q == [wf |-> w, seq |-> 1, anchor |-> a, prev |-> NoDigest,
                 inp |-> EmptyArts, snap |-> NoDigest, packet |-> NoDigest]
<1>1. /\ pc[l] = "new" /\ ledgers' = ledgers \cup {b}
      /\ root' = [root EXCEPT ![l] = r]
      /\ request' = [request EXCEPT ![l] = q]
      /\ pc' = [pc EXCEPT ![l] = "launched"]
      /\ UNCHANGED <<store, stage, committed, turn, action, final, author, executed>>
  BY DEF Launch, GoTo
<1>2. q \in Requests
  BY MaxSeqAssumption DEF Requests, Seqs
<1> HIDE DEF q
<1>3. TypeOK'
  BY <1>1, <1>2 DEF OInv, TypeOK
<1>4. /\ pc'[l] = "launched" /\ root'[l] = r /\ request'[l] = q
      /\ \A m \in Launches \ {l} : SameLocals(m)
  BY <1>1 DEF SameLocals, OInv, TypeOK
<1>5. turn'[l] = 1
  BY <1>1 DEF OInv, LaunchesInv, LaunchInv
<1>6. LaunchInv(l)'
  BY <1>2, <1>4, <1>5 DEF LaunchInv, Inside
<1>7. \A x \in Roots : SameFiles(x)
  BY <1>1 DEF SameFiles
<1> QED
  BY <1>1, <1>3, <1>4, <1>6, <1>7, BeforeTheLoop

\* The look at the output root
LEMMA CheckRootKeeps ==
    ASSUME OInv, NEW l \in Launches, CheckRoot(l)
    PROVE  OInv'
<1>1. /\ pc[l] = "launched"
      /\ pc' = [pc EXCEPT ![l] = "checked"]
      /\ UNCHANGED <<ledgers, store, stage, committed, author>>
      /\ UNCHANGED <<root, turn, request, action, final, executed>>
  BY DEF CheckRoot, GoTo, files
<1>2. TypeOK'
  BY <1>1 DEF OInv, TypeOK
<1>3. pc'[l] = "checked" /\ \A m \in Launches \ {l} : SameLocals(m)
  BY <1>1 DEF SameLocals, OInv, TypeOK
<1>4. LaunchInv(l)'
  BY <1>1, <1>3 DEF LaunchInv, Inside, OInv, LaunchesInv
<1>5. \A x \in Roots : SameFiles(x)
  BY <1>1 DEF SameFiles
<1> QED
  BY <1>1, <1>2, <1>3, <1>4, <1>5, BeforeTheLoop

\* The mkdir that decides between two launches with the same root
LEMMA MakeStoreKeeps ==
    ASSUME OInv, NEW l \in Launches, MakeStore(l)
    PROVE  OInv'
<1>0. PICK r : r = root[l]
  OBVIOUS
<1>1. /\ pc[l] = "checked" /\ store[r].state = "absent"
      /\ store' = [store EXCEPT ![r].state = "open"]
      /\ author' = [author EXCEPT ![r] = author[r] \cup {l}]
      /\ pc' = [pc EXCEPT ![l] = "ready"]
      /\ UNCHANGED <<ledgers, stage, committed, root, turn, request, action, final,
                     executed>>
  BY <1>0 DEF MakeStore, GoTo, RootIsNew, Writes
<1>2. r \in Roots /\ turn[l] = 1 /\ request[l] \in Requests
  BY <1>0, <1>1 DEF OInv, LaunchesInv, LaunchInv
<1>3. RootInv(r) /\ author[r] = {} /\ \A n \in Seqs : stage[r][n] = "absent"
  BY <1>1, <1>2 DEF OInv, RootsInv, RootInv
<1>4. /\ store'[r] \in Stores /\ store'[r].state = "open"
      /\ store' = [store EXCEPT ![r] = store'[r]]
      /\ author'[r] = {l}
      /\ \A x \in Roots : x # r => SameFiles(x)
  BY <1>1, <1>2, <1>3 DEF OInv, TypeOK, Stores, SameFiles
<1>5. TypeOK'
  <2>1. store' \in [Roots -> Stores]
    BY <1>2, <1>4 DEF OInv, TypeOK
  <2> QED
    BY <1>1, <1>2, <2>1 DEF OInv, TypeOK
<1>6. pc'[l] = "ready" /\ \A m \in Launches \ {l} : SameLocals(m)
  BY <1>1 DEF SameLocals, OInv, TypeOK
<1>7. ASSUME NEW m \in Launches \ {l} PROVE LaunchInv(m)'
  <2>1. LaunchInv(m) /\ SameLocals(m)
    BY <1>6 DEF OInv, LaunchesInv
  <2>2. pc[m] \in Inside => root[m] # r /\ root[m] \in Roots
    BY <1>3, InsideFacts
  <2> QED
    BY <1>4, <2>1, <2>2, SameLaunch
<1>8. LaunchInv(l)'
  <2>1. 1 \in Seqs
    BY MaxSeqAssumption DEF Seqs
  <2>2. root'[l] = r /\ turn'[l] = 1 /\ request'[l] \in Requests
    BY <1>0, <1>1, <1>2
  <2>3. /\ l \in author'[r]
        /\ \A m \in Seqs : ~ (m < 1) /\ stage'[r][m] = "absent"
        /\ StageOfPc("ready", stage'[r][1])
        /\ StoreOfPc("ready", 1, store'[r].state)
    BY <1>1, <1>3, <1>4, <2>1 DEF StageOfPc, StoreOfPc, Seqs
  <2>4. InsideInv(l)'
    BY <1>6, <2>1, <2>2, <2>3 DEF InsideInv
  <2> QED
    BY <1>2, <1>6, <2>2, <2>4 DEF LaunchInv
<1>9. ASSUME NEW x \in Roots, x # r PROVE RootInv(x)'
  <2>1. RootInv(x) /\ SameFiles(x) /\ author[x] \subseteq Launches
    BY <1>4, <1>9 DEF OInv, RootsInv, TypeOK
  <2>2. \A m \in author[x] : root'[m] = root[m] /\
                             pc'[m] \notin {"new", "launched", "checked"}
    BY <1>1, <1>6, <2>1 DEF RootInv, SameLocals
  <2> QED
    BY <2>1, <2>2, SameRoot
<1>10. RootInv(r)'
  <2>1. ASSUME NEW n \in Seqs PROVE RecordInv(r, n)'
    <3>1. stage'[r][n] = "absent" /\ committed'[r][n] = NoTransition
      BY <1>1, <1>3 DEF RootInv, RecordInv
    <3> QED
      BY <3>1 DEF RecordInv
  <2> QED
    BY <1>0, <1>1, <1>4, <1>6, <2>1 DEF RootInv
<1>11. RootsInv'
  BY <1>9, <1>10 DEF RootsInv
<1>12. ExecInv'
  <2> SUFFICES ASSUME NEW e \in executed
               PROVE  /\ e[1] \in Launches
                      /\ pc'[e[1]] # "new"
                      /\ e[4] \in {"offline", "broker"} =>
                            store'[root[e[1]]].state = "frozen"
                      /\ \A n \in Seqs :
                            n < (IF e[4] = "broker" THEN PacketPhase
                                 ELSE PacketPhase - 2) =>
                                stage[root[e[1]]][n] = "frozen"
    BY <1>1 DEF ExecInv, PacketPhase
  <2>1. /\ e[1] \in Launches /\ pc[e[1]] # "new"
        /\ e[4] \in {"offline", "broker"} => store[root[e[1]]].state = "frozen"
        /\ \A n \in Seqs :
              n < (IF e[4] = "broker" THEN PacketPhase ELSE PacketPhase - 2) =>
                  stage[root[e[1]]][n] = "frozen"
    BY DEF OInv, ExecInv
  <2>2. root[e[1]] \in Roots /\ pc'[e[1]] # "new"
    BY <1>6, <2>1 DEF OInv, LaunchesInv, LaunchInv, SameLocals
  <2>3. e[4] \in {"offline", "broker"} => root[e[1]] # r
    BY <1>1, <2>1
  <2> QED
    BY <1>4, <2>1, <2>2, <2>3 DEF SameFiles
<1> QED
  BY <1>5, <1>7, <1>8, <1>11, <1>12, Together

\* The commit: the record of the phase is written and frozen, and the launch
\* goes on with the request the record names.
LEMMA CommitFreezeKeeps ==
    ASSUME OInv, NEW l \in Launches, CommitFreeze(l)
    PROVE  OInv'
<1>0. PICK r, n, f : r = root[l] /\ n = turn[l] /\ f = final[l]
  OBVIOUS
<1>1. /\ pc[l] = "committing" /\ Writes(l)
      /\ committed' = [committed EXCEPT ![r][n] = f]
      /\ stage' = [stage EXCEPT ![r][n] = "frozen"]
      /\ turn' = [turn EXCEPT ![l] = n + 1]
      /\ request' = [request EXCEPT ![l] =
                        IF f.next = NoRequest THEN request[l] ELSE f.next]
      /\ pc' = [pc EXCEPT ![l] = IF n = MaxSeq THEN "done" ELSE "ready"]
      /\ action' = [action EXCEPT ![l] = NoAction]
      /\ final' = [final EXCEPT ![l] = NoTransition]
      /\ UNCHANGED <<ledgers, store, root, executed>>
  BY <1>0 DEF CommitFreeze, Advance, GoTo, OInv, TypeOK
<1>2. pc[l] \in Inside
  BY <1>1 DEF Inside
<1>3. /\ r \in Roots /\ n \in Seqs /\ InsideInv(l) /\ request[l] \in Requests
      /\ store[r] \in Stores /\ store[r].state # "absent"
      /\ stage[r][n] # "frozen"
  BY <1>0, <1>2, InsideFacts
<1>4. author' = author
  BY <1>1, <1>2, WritesNothingNew
<1>5. /\ f \in Transitions /\ ValidFinalized(request[l], f)
      /\ StoreMatches(n, store[r], f) /\ request[l].seq = n
      /\ n > 1 => committed[r][n - 1].next = request[l]
  BY <1>0, <1>1, <1>3 DEF InsideInv
<1>6. /\ \A m \in Seqs : m < n => stage[r][m] = "frozen"
      /\ \A m \in Seqs : m > n => stage[r][m] = "absent"
      /\ StoreOfPc("committing", n, store[r].state)
  BY <1>0, <1>1, <1>3 DEF InsideInv
<1>7. f.next \in Requests \cup {NoRequest} /\ f.result.req = request[l]
  BY <1>5 DEF Transitions, ValidFinalized
<1>8. n # MaxSeq => f.next \in Requests
  BY <1>5, <1>7 DEF ValidFinalized
<1>9. TypeOK'
  <2>1. n + 1 \in 1..(MaxSeq + 1)
    BY <1>3, MaxSeqAssumption DEF Seqs
  <2>2. /\ turn' \in [Launches -> 1..(MaxSeq + 1)]
        /\ request' \in [Launches -> Requests \cup {NoRequest}]
    BY <1>1, <1>3, <1>7, <2>1 DEF OInv, TypeOK
  <2>3. /\ committed' \in [Roots -> [Seqs -> Transitions \cup {NoTransition}]]
        /\ stage' \in [Roots -> [Seqs -> {"absent", "input", "prepared", "finalized",
                                    "committing", "frozen"}]]
    BY <1>1, <1>3, <1>5 DEF OInv, TypeOK
  <2>4. /\ pc' \in [Launches -> {"new", "launched", "checked", "ready", "calling",
                            "moved", "answered", "executed", "finalized",
                            "committing", "done", "stopped"}]
        /\ action' \in [Launches -> Actions]
        /\ final' \in [Launches -> Transitions \cup {NoTransition}]
    BY <1>1 DEF OInv, TypeOK, Actions
  <2> QED
    BY <1>1, <1>4, <2>2, <2>3, <2>4 DEF OInv, TypeOK
<1>10. /\ \A m \in Launches \ {l} : SameLocals(m)
       /\ pc'[l] = IF n = MaxSeq THEN "done" ELSE "ready"
       /\ turn'[l] = n + 1
       /\ n # MaxSeq => request'[l] = f.next
  <2>1. n # MaxSeq => f.next # NoRequest
    BY <1>8, NoDirAssumption
  <2> QED
    BY <1>1, <2>1 DEF SameLocals, OInv, TypeOK
<1>11. /\ \A x \in Roots : x # r => SameFiles(x)
       /\ \A m \in Seqs : stage'[r][m] = IF m = n THEN "frozen" ELSE stage[r][m]
       /\ \A m \in Seqs : committed'[r][m] = IF m = n THEN f ELSE committed[r][m]
  BY <1>1, <1>3, <1>4 DEF SameFiles, OInv, TypeOK
<1>12. ASSUME NEW m \in Launches \ {l} PROVE LaunchInv(m)'
  <2>1. LaunchInv(m) /\ SameLocals(m)
    BY <1>10 DEF OInv, LaunchesInv
  <2>2. pc[m] \in Inside => root[m] # r /\ root[m] \in Roots
    BY <1>0, <1>2, InsideAlone, InsideFacts
  <2> QED
    BY <1>11, <2>1, <2>2, SameLaunch
<1>13. LaunchInv(l)'
  <2>1. CASE n = MaxSeq
    BY <1>0, <1>1, <1>3, <1>10, <2>1 DEF LaunchInv, Inside
  <2>2. CASE n # MaxSeq
    <3>1. n + 1 \in Seqs /\ n \in Nat /\ n >= 1
      BY <1>3, <2>2, MaxSeqAssumption DEF Seqs
    <3>2. /\ \A m \in Seqs : m < n + 1 => stage'[r][m] = "frozen"
          /\ \A m \in Seqs : m > n + 1 => stage'[r][m] = "absent"
          /\ stage'[r][n + 1] = "absent"
      BY <1>6, <1>11, <3>1 DEF Seqs
    <3>3. StageOfPc("ready", stage'[r][n + 1])
      BY <3>2 DEF StageOfPc
    <3>4. StoreOfPc("ready", n + 1, store[r].state)
      BY <1>6, <3>1 DEF StoreOfPc
    <3>5. /\ root'[l] = r /\ turn'[l] = n + 1 /\ pc'[l] = "ready"
          /\ l \in author'[r] /\ store' = store
      BY <1>0, <1>1, <1>3, <1>4, <1>10, <2>2 DEF InsideInv
    <3>6. InsideInv(l)'
      BY <3>1, <3>2, <3>3, <3>4, <3>5 DEF InsideInv
    <3> QED
      BY <1>3, <1>8, <1>10, <2>2, <3>5, <3>6 DEF LaunchInv
  <2> QED
    BY <2>1, <2>2
<1>14. /\ \A x \in Roots : author[x] \subseteq Launches /\ RootInv(x)
       /\ \A x \in Roots : \A m \in author[x] :
             root'[m] = root[m] /\ pc'[m] \notin {"new", "launched", "checked"}
  <2>1. \A x \in Roots : author[x] \subseteq Launches /\ RootInv(x)
    BY DEF OInv, TypeOK, RootsInv
  <2> QED
    BY <1>1, <1>10, <2>1 DEF RootInv, SameLocals
<1>15. ASSUME NEW x \in Roots, x # r PROVE RootInv(x)'
  BY <1>11, <1>14, <1>15, SameRoot
<1>16. RootInv(r)'
  <2>1. ASSUME NEW m \in Seqs PROVE RecordInv(r, m)'
    <3>1. RecordInv(r, m)
      BY <1>3, <1>14 DEF RootInv
    <3>2. CASE m = n
      <4>1. stage'[r][m] = "frozen" /\ committed'[r][m] = f
        BY <1>11, <3>2
      <4>2. m > 1 => /\ m - 1 \in Seqs
                     /\ stage'[r][m - 1] = "frozen"
                     /\ committed'[r][m - 1] = committed[r][m - 1]
        BY <1>3, <1>6, <1>11, <3>2, MaxSeqAssumption DEF Seqs
      <4>3. /\ f.result.req.seq = m /\ ValidFinalized(f.result.req, f)
            /\ m > 1 => f.result.req = committed'[r][m - 1].next
        BY <1>5, <1>7, <3>2, <4>2
      <4>4. /\ m = 1 => store'[r].snapshots = f.snaps
            /\ m = 2 => store'[r].red = f.snaps
        BY <1>1, <1>5, <3>2 DEF StoreMatches
      <4> QED
        BY <1>5, <4>1, <4>2, <4>3, <4>4 DEF RecordInv
    <3>3. CASE m < n
      <4>1. /\ stage'[r][m] = stage[r][m] /\ committed'[r][m] = committed[r][m]
            /\ m > 1 => /\ m - 1 \in Seqs
                        /\ stage'[r][m - 1] = stage[r][m - 1]
                        /\ committed'[r][m - 1] = committed[r][m - 1]
        BY <1>3, <1>11, <3>3, MaxSeqAssumption DEF Seqs
      <4> QED
        BY <1>1, <3>1, <4>1 DEF RecordInv
    <3>4. CASE m > n
      <4>1. /\ stage[r][m] = "absent" /\ stage'[r][m] = "absent"
            /\ committed'[r][m] = committed[r][m]
        BY <1>3, <1>6, <1>11, <3>4 DEF Seqs
      <4> QED
        BY <3>1, <4>1 DEF RecordInv
    <3> QED
      BY <1>3, <3>2, <3>3, <3>4 DEF Seqs
  <2>2. store'[r].state # "absent"
    BY <1>1, <1>3
  <2> QED
    BY <1>1, <1>3, <1>4, <1>14, <2>1, <2>2 DEF RootInv
<1>17. RootsInv'
  BY <1>15, <1>16 DEF RootsInv
<1>18. ExecInv'
  <2>0. store' = store /\ root' = root /\ executed' = executed
    BY <1>1
  <2> SUFFICES ASSUME NEW e \in executed
               PROVE  /\ e[1] \in Launches
                      /\ pc'[e[1]] # "new"
                      /\ e[4] \in {"offline", "broker"} =>
                            store[root[e[1]]].state = "frozen"
                      /\ \A m \in Seqs :
                            m < (IF e[4] = "broker" THEN PacketPhase
                                 ELSE PacketPhase - 2) =>
                                stage'[root[e[1]]][m] = "frozen"
    BY <2>0 DEF ExecInv, PacketPhase
  <2>1. /\ e[1] \in Launches /\ pc[e[1]] # "new"
        /\ e[4] \in {"offline", "broker"} => store[root[e[1]]].state = "frozen"
        /\ \A m \in Seqs :
              m < (IF e[4] = "broker" THEN PacketPhase ELSE PacketPhase - 2) =>
                  stage[root[e[1]]][m] = "frozen"
    BY DEF OInv, ExecInv
  <2>2. root[e[1]] \in Roots /\ pc'[e[1]] # "new"
    BY <1>10, <2>1 DEF OInv, LaunchesInv, LaunchInv, SameLocals
  <2>3. \A x \in Roots, m \in Seqs : stage[x][m] = "frozen" => stage'[x][m] = "frozen"
    BY <1>11 DEF SameFiles
  <2> QED
    BY <2>1, <2>2, <2>3
<1> QED
  BY <1>9, <1>12, <1>13, <1>17, <1>18, Together

-----------------------------------------------------------------------------

\* At the beginning no launch was started and no root has been written to.
LEMMA InitOInv == Init => OInv
<1> SUFFICES ASSUME Init PROVE OInv
  OBVIOUS
<1>1. TypeOK
  BY MaxSeqAssumption DEF Init, TypeOK, NoStore, Stores, Actions, Seqs
<1>2. LaunchesInv
  BY DEF Init, LaunchesInv, LaunchInv, Inside
<1>3. RootsInv
  BY DEF Init, RootsInv, RootInv, RecordInv, NoStore
<1>4. ExecInv
  BY DEF Init, ExecInv
<1> QED
  BY <1>1, <1>2, <1>3, <1>4 DEF OInv

\* Every step of every launch keeps the invariant.
LEMMA NextOInv == OInv /\ [Next]_vars => OInv'
<1> SUFFICES ASSUME OInv, [Next]_vars PROVE OInv'
  OBVIOUS
<1>1. CASE UNCHANGED vars
  <2>1. TypeOK'
    BY <1>1 DEF OInv, TypeOK, vars
  <2>2. LaunchesInv'
    <3>1. \A m \in Launches : LaunchInv(m) /\ SameLocals(m) /\ SameFiles(root[m])
      BY <1>1 DEF OInv, LaunchesInv, SameLocals, SameFiles, vars
    <3> QED
      BY <3>1, SameLaunch DEF LaunchesInv
  <2>3. RootsInv'
    <3>1. \A x \in Roots : RootInv(x) /\ SameFiles(x)
      BY <1>1 DEF OInv, RootsInv, SameFiles, vars
    <3>2. \A x \in Roots : \A l \in author[x] :
             root'[l] = root[l] /\ pc'[l] \notin {"new", "launched", "checked"}
      BY <1>1, <3>1 DEF RootInv, vars
    <3> QED
      BY <3>1, <3>2, SameRoot DEF RootsInv
  <2>4. ExecInv'
    BY <1>1 DEF OInv, ExecInv, vars, PacketPhase
  <2> QED
    BY <2>1, <2>2, <2>3, <2>4 DEF OInv
<1>2. ASSUME NEW l \in Launches, NEW r \in Roots, NEW b \in Ledgers,
             NEW w \in WorkflowIds, NEW a \in Anchors, Launch(l, r, b, w, a)
      PROVE  OInv'
  BY <1>2, LaunchKeeps
<1>3. ASSUME NEW l \in Launches, Step(l) PROVE OInv'
  <2>1. CASE CheckRoot(l)
    BY <2>1, CheckRootKeeps
  <2>2. CASE MakeStore(l)
    BY <2>2, MakeStoreKeeps
  <2>3. CASE PrepareInput(l)
    BY <2>3, PrepareInputKeeps
  <2>4. CASE \E v \in PrepareReplies : PrepareCall(l, v.act, v.dir)
    <3>1. PICK v \in PrepareReplies : PrepareCall(l, v.act, v.dir)
      BY <2>4
    <3>2. v.act \in Actions /\ v.dir \in {NoDir} \cup SUBSET Shas
      BY DEF PrepareReplies
    <3> QED
      BY <3>1, <3>2, PrepareCallKeeps
  <2>5. CASE FreezeStore(l)
    BY <2>5, FreezeStoreKeeps
  <2>6. CASE Dispatch(l)
    <3>1. CASE ExecuteInline(l)
      BY <3>1, DispatchKeeps DEF ExecuteInline, Kinds
    <3>2. CASE ExecuteOutside(l, "offline")
      BY <3>2, DispatchKeeps DEF ExecuteOutside, Kinds
    <3>3. CASE ExecuteOutside(l, "broker")
      BY <3>3, DispatchKeeps DEF ExecuteOutside, Kinds
    <3> QED
      BY <2>6, <3>1, <3>2, <3>3 DEF Dispatch
  <2>7. CASE \E f \in Replies(request[l]) : FinalizeCall(l, f)
    BY <2>7, FinalizeCallKeeps
  <2>8. CASE FinalizeRefused(l)
    BY <2>8, FinalizeRefusedKeeps
  <2>9. CASE CommitBegin(l)
    BY <2>9, CommitBeginKeeps
  <2>10. CASE CommitFreeze(l)
    BY <2>10, CommitFreezeKeeps
  <2>11. CASE Refused(l)
    BY <2>11, ExitKeeps DEF Refused
  <2> QED
    BY <1>3, <2>1, <2>2, <2>3, <2>4, <2>5, <2>6, <2>7, <2>8, <2>9, <2>10, <2>11
    DEF Step
<1>4. ASSUME NEW l \in Launches, Crash(l) PROVE OInv'
  BY <1>4, ExitKeeps DEF Crash
<1> QED
  BY <1>1, <1>2, <1>3, <1>4 DEF Next

\* The inductive invariant holds of the production workflow, whatever number of
\* launches share roots and ledgers, wherever they stop and whatever the
\* coordinator answers.
THEOREM Inductive == Spec => []OInv
<1>1. Init => OInv
  BY InitOInv
<1>2. OInv /\ [Next]_vars => OInv'
  BY NextOInv
<1> QED
  BY <1>1, <1>2, PTL DEF Spec

\* Type correctness; in particular what the coordinator answers is a well-typed
\* transition once parse_finalized_transition has accepted it.
THEOREM TypeCorrect == Spec => []TypeOK
<1>1. OInv => TypeOK
  BY DEF OInv
<1> QED
  BY <1>1, Inductive, PTL

\* Although the look at the root and the first mkdir are two system calls, two
\* launches never both write below one output root.
THEOREM Exclusive == Spec => []OneAuthor
<1>1. OInv => OneAuthor
  <2> SUFFICES ASSUME OInv, NEW r \in Roots PROVE Cardinality(author[r]) <= 1
    BY DEF OneAuthor
  <2>1. \A l, m \in author[r] : l = m
    BY DEF OInv, RootsInv, RootInv
  <2>2. CASE author[r] = {}
    BY <2>2, FS_EmptySet
  <2>3. CASE author[r] # {}
    <3>1. PICK l : author[r] = {l}
      BY <2>1, <2>3
    <3> QED
      BY <3>1, FS_Singleton
  <2> QED
    BY <2>2, <2>3
<1> QED
  BY <1>1, Inductive, PTL

\* The committed phases below a root are one hash-linked chain of one workflow,
\* and a phase directory stands only behind a frozen predecessor.
THEOREM Chain == Spec => []ChainInRoot
<1>1. OInv => ChainInRoot
  <2> SUFFICES ASSUME OInv, NEW r \in Roots, NEW n \in Seqs \ {1},
                      stage[r][n] # "absent"
               PROVE  /\ stage[r][n - 1] = "frozen"
                      /\ committed[r][n] # NoTransition =>
                           LET this == committed[r][n].result
                               previous == committed[r][n - 1].result
                           IN  /\ this.req.wf = previous.req.wf
                               /\ this.req.anchor = previous.req.anchor
                               /\ this.req.prev = PhaseSha(previous)
                               /\ this.req.inp = previous.out
                               /\ this.snap = previous.snap
    BY DEF ChainInRoot
  <2>1. n > 1 /\ n - 1 \in Seqs /\ n - 1 # MaxSeq /\ n # 1
    BY MaxSeqAssumption DEF Seqs
  <2>2. RecordInv(r, n) /\ RecordInv(r, n - 1)
    BY <2>1 DEF OInv, RootsInv, RootInv
  <2>3. stage[r][n - 1] = "frozen"
    BY <2>1, <2>2 DEF RecordInv
  <2>4. ASSUME committed[r][n] # NoTransition
        PROVE  LET this == committed[r][n].result
                   previous == committed[r][n - 1].result
               IN  /\ this.req.wf = previous.req.wf
                   /\ this.req.anchor = previous.req.anchor
                   /\ this.req.prev = PhaseSha(previous)
                   /\ this.req.inp = previous.out
                   /\ this.snap = previous.snap
    <3> DEFINE g == committed[r][n]
    <3> DEFINE p == committed[r][n - 1]
    <3>1. /\ g.result.req.seq = n /\ ValidFinalized(g.result.req, g)
          /\ g.result.req = p.next
      BY <2>1, <2>2, <2>4 DEF RecordInv
    <3>2. p.result.req.seq = n - 1 /\ ValidFinalized(p.result.req, p)
      BY <2>2, <2>3 DEF RecordInv
    <3> HIDE DEF g, p
    <3>3. Chained(p.result.req, p.result, p.next)
      BY <2>1, <3>2 DEF ValidFinalized
    <3>4. g.result.snap = g.result.req.snap
      BY <2>1, <3>1 DEF ValidFinalized, ValidResult
    <3>5. /\ g.result.req.wf = p.result.req.wf
          /\ g.result.req.anchor = p.result.req.anchor
          /\ g.result.req.prev = PhaseSha(p.result)
          /\ g.result.req.inp = p.result.out
          /\ g.result.snap = p.result.snap
      BY <3>1, <3>3, <3>4 DEF Chained
    <3> QED
      BY <3>5 DEF g, p
  <2> QED
    BY <2>3, <2>4
<1> QED
  BY <1>1, Inductive, PTL

\* The snapshots in the store are the ones the committed results name.
THEOREM StoreIsCommitted == Spec => []StoreMatchesCommitted
<1>1. OInv => StoreMatchesCommitted
  <2> SUFFICES ASSUME OInv, NEW r \in Roots
               PROVE  /\ committed[r][1] # NoTransition =>
                            store[r].snapshots = committed[r][1].snaps
                      /\ 2 \in Seqs /\ committed[r][2] # NoTransition =>
                            store[r].red = committed[r][2].snaps
    BY DEF StoreMatchesCommitted
  <2>1. 1 \in Seqs
    BY MaxSeqAssumption DEF Seqs
  <2>2. \A n \in Seqs : RecordInv(r, n)
    BY DEF OInv, RootsInv, RootInv
  <2> QED
    BY <2>1, <2>2 DEF RecordInv
<1> QED
  BY <1>1, Inductive, PTL

\* Snapshot code is executed, and money is spent, only behind the frozen
\* evidence of the phases before.
THEOREM BehindEvidence == Spec => []OuterOnlyBehindEvidence
<1>1. OInv => OuterOnlyBehindEvidence
  BY DEF OInv, ExecInv, OuterOnlyBehindEvidence
<1> QED
  BY <1>1, Inductive, PTL

-----------------------------------------------------------------------------
(***************************************************************************)
(* What is written is not written again.                                   *)
(***************************************************************************)

\* WrittenOnce of one root
RootWrittenOnce(r) ==
    /\ \A n \in Seqs :
          committed[r][n] # NoTransition =>
              committed'[r][n] = committed[r][n] /\ stage'[r][n] = "frozen"
    /\ store[r].snapshots # NoDir => store'[r].snapshots = store[r].snapshots
    /\ store[r].red # NoDir => store'[r].red = store[r].red
    /\ store[r].state = "frozen" => store'[r] = store[r]

\* Launch l changes at most the phase directory and the record of its turn.
OwnCell(l) ==
    \A r \in Roots, n \in Seqs :
        ~ (r = root[l] /\ n = turn[l]) =>
            stage'[r][n] = stage[r][n] /\ committed'[r][n] = committed[r][n]

\* A step fills at most an empty place of a store that is open.
OpenPlace ==
    \A r \in Roots :
        /\ store[r].snapshots # NoDir => store'[r].snapshots = store[r].snapshots
        /\ store[r].red # NoDir => store'[r].red = store[r].red
        /\ store[r].state = "frozen" => store'[r] = store[r]

\* A launch whose own phase directory is not frozen can write it.
LEMMA OneCell ==
    ASSUME OInv, NEW l \in Launches, pc[l] \in Inside, OwnCell(l), OpenPlace
    PROVE  \A r \in Roots : RootWrittenOnce(r)
<1> SUFFICES ASSUME NEW r \in Roots PROVE RootWrittenOnce(r)
  OBVIOUS
<1>1. /\ root[l] \in Roots /\ turn[l] \in Seqs
      /\ stage[root[l]][turn[l]] # "frozen"
  BY InsideFacts
<1>2. \A n \in Seqs : RecordInv(r, n)
  BY DEF OInv, RootsInv, RootInv
<1>3. ASSUME NEW n \in Seqs, committed[r][n] # NoTransition
      PROVE  committed'[r][n] = committed[r][n] /\ stage'[r][n] = "frozen"
  <2>1. stage[r][n] = "frozen"
    BY <1>2, <1>3 DEF RecordInv
  <2>2. ~ (r = root[l] /\ n = turn[l])
    BY <1>1, <2>1
  <2> QED
    BY <2>1, <2>2 DEF OwnCell
<1> QED
  BY <1>3 DEF RootWrittenOnce, OpenPlace

\* Updating that cell of a table of tables leaves the other cells alone.
LEMMA CellOnly ==
    ASSUME NEW S, NEW T, NEW tab \in [Roots -> [Seqs -> S]],
           NEW x \in Roots, NEW k \in Seqs, NEW v,
           T = [tab EXCEPT ![x][k] = v]
    PROVE  \A r \in Roots, n \in Seqs :
              ~ (r = x /\ n = k) => T[r][n] = tab[r][n]
  OBVIOUS

\* The step that writes the phase directory and perhaps the record of its turn
LEMMA OwnCellWrite ==
    ASSUME OInv, NEW l \in Launches, pc[l] \in Inside, NEW s,
           stage' = [stage EXCEPT ![root[l]][turn[l]] = s],
           \/ committed' = committed
           \/ committed' = [committed EXCEPT ![root[l]][turn[l]] = final[l]]
    PROVE  OwnCell(l)
<1>1. root[l] \in Roots /\ turn[l] \in Seqs
  BY InsideFacts
<1>2. \A r \in Roots, n \in Seqs :
         ~ (r = root[l] /\ n = turn[l]) => stage'[r][n] = stage[r][n]
  BY <1>1, CellOnly DEF OInv, TypeOK
<1>3. \A r \in Roots, n \in Seqs :
         ~ (r = root[l] /\ n = turn[l]) => committed'[r][n] = committed[r][n]
  BY <1>1, CellOnly DEF OInv, TypeOK
<1> QED
  BY <1>2, <1>3 DEF OwnCell

\* Files that do not change are not written again.
LEMMA NothingWritten ==
    ASSUME OInv, store' = store, stage' = stage, committed' = committed
    PROVE  \A r \in Roots : RootWrittenOnce(r)
<1>1. \A r \in Roots, n \in Seqs : committed[r][n] # NoTransition =>
                                      stage[r][n] = "frozen"
  BY DEF OInv, RootsInv, RootInv, RecordInv
<1> QED
  BY <1>1 DEF RootWrittenOnce

\* No step of any launch writes what is there.
LEMMA StepWritesOnce ==
    ASSUME OInv, [Next]_vars
    PROVE  \A r \in Roots : RootWrittenOnce(r)
<1>1. CASE UNCHANGED vars
  BY <1>1, NothingWritten DEF vars
<1>2. ASSUME NEW l \in Launches, NEW r \in Roots, NEW b \in Ledgers,
             NEW w \in WorkflowIds, NEW a \in Anchors, Launch(l, r, b, w, a)
      PROVE  \A x \in Roots : RootWrittenOnce(x)
  BY <1>2, NothingWritten DEF Launch
<1>3. ASSUME NEW l \in Launches, Step(l)
      PROVE  \A r \in Roots : RootWrittenOnce(r)
  <2>1. CASE CheckRoot(l)
    BY <2>1, NothingWritten DEF CheckRoot, files
  <2>2. CASE MakeStore(l)
    <3>1. /\ root[l] \in Roots /\ store[root[l]].state = "absent"
          /\ store' = [store EXCEPT ![root[l]].state = "open"]
          /\ stage' = stage /\ committed' = committed
      BY <2>2 DEF MakeStore, RootIsNew, OInv, LaunchesInv, LaunchInv
    <3>2. \A r \in Roots, n \in Seqs : committed[r][n] # NoTransition =>
                                          stage[r][n] = "frozen"
      BY DEF OInv, RootsInv, RootInv, RecordInv
    <3>3. \A r \in Roots : /\ store'[r].snapshots = store[r].snapshots
                           /\ store'[r].red = store[r].red
                           /\ r # root[l] => store'[r] = store[r]
      BY <3>1 DEF OInv, TypeOK, Stores
    <3> QED
      BY <3>1, <3>2, <3>3 DEF RootWrittenOnce
  <2>3. CASE PrepareInput(l)
    <3>1. pc[l] \in Inside /\ OwnCell(l)
      BY <2>3, OwnCellWrite DEF PrepareInput, Inside
    <3> QED
      BY <2>3, <3>1, OneCell DEF PrepareInput, OpenPlace
  <2>4. CASE \E v \in PrepareReplies : PrepareCall(l, v.act, v.dir)
    <3>1. PICK v \in PrepareReplies : PrepareCall(l, v.act, v.dir)
      BY <2>4
    <3> DEFINE r == root[l]
    <3> DEFINE n == turn[l]
    <3> DEFINE st == IF v.dir = NoDir THEN store[r] ELSE Moved(n, store[r], v.dir)
    <3>2. /\ pc[l] = "calling" /\ pc[l] \in Inside
          /\ v.dir # NoDir => DestinationIsNew(n, store[r])
          /\ stage' = [stage EXCEPT ![r][n] = "prepared"]
          /\ committed' = committed
      BY <3>1 DEF PrepareCall, Inside
    <3>3. r \in Roots /\ n \in Seqs /\ InsideInv(l) /\ store[r] \in Stores
      BY <3>2, InsideFacts
    <3>4. store' = [store EXCEPT ![r] = st]
      BY <3>1, <3>3 DEF PrepareCall, OInv, TypeOK
    <3>5. store[r].state = "frozen" => n # 1 /\ n # 2
      BY <3>2, <3>3 DEF InsideInv, StoreOfPc
    <3>6. /\ store[r].snapshots # NoDir => st.snapshots = store[r].snapshots
          /\ store[r].red # NoDir => st.red = store[r].red
          /\ store[r].state = "frozen" => st = store[r]
      <4>1. CASE v.dir = NoDir
        BY <4>1
      <4>2. CASE v.dir # NoDir /\ n = 1
        BY <3>2, <3>3, <3>5, <4>2 DEF Moved, DestinationIsNew, Stores
      <4>3. CASE v.dir # NoDir /\ n = 2
        BY <3>2, <3>3, <3>5, <4>3 DEF Moved, DestinationIsNew, Stores
      <4>4. CASE v.dir # NoDir /\ n # 1 /\ n # 2
        BY <4>4 DEF Moved
      <4> QED
        BY <4>1, <4>2, <4>3, <4>4
    <3> HIDE DEF st
    <3>7. \A x \in Roots : store'[x] = IF x = r THEN st ELSE store[x]
      BY <3>3, <3>4 DEF OInv, TypeOK
    <3>8. OwnCell(l)
      BY <3>2, OwnCellWrite
    <3>9. OpenPlace
      BY <3>6, <3>7 DEF OpenPlace
    <3> QED
      BY <3>2, <3>8, <3>9, OneCell
  <2>5. CASE FreezeStore(l)
    <3>1. pc[l] = "moved" /\ pc[l] \in Inside /\ stage' = stage
          /\ committed' = committed
      BY <2>5 DEF FreezeStore, Inside
    <3>2. root[l] \in Roots /\ InsideInv(l) /\ store[root[l]] \in Stores
      BY <3>1, InsideFacts
    <3>3. CASE turn[l] = 2
      <4> DEFINE st == [store[root[l]] EXCEPT !.state = "frozen"]
      <4>1. store' = [store EXCEPT ![root[l]] = st]
        BY <2>5, <3>2, <3>3 DEF FreezeStore, OInv, TypeOK
      <4>2. store[root[l]].state # "frozen"
        BY <3>1, <3>2, <3>3 DEF InsideInv, StoreOfPc
      <4>3. st.snapshots = store[root[l]].snapshots /\ st.red = store[root[l]].red
        BY <3>2 DEF Stores
      <4> HIDE DEF st
      <4>4. \A x \in Roots : store'[x] = IF x = root[l] THEN st ELSE store[x]
        BY <3>2, <4>1 DEF OInv, TypeOK
      <4>5. OpenPlace
        BY <4>2, <4>3, <4>4 DEF OpenPlace
      <4>6. OwnCell(l)
        BY <3>1 DEF OwnCell
      <4> QED
        BY <3>1, <4>5, <4>6, OneCell
    <3>4. CASE turn[l] # 2
      BY <2>5, <3>1, <3>4, NothingWritten DEF FreezeStore
    <3> QED
      BY <3>3, <3>4
  <2>6. CASE Dispatch(l)
    <3>1. store' = store /\ stage' = stage /\ committed' = committed
      BY <2>6 DEF Dispatch, ExecuteInline, ExecuteOutside, Execute, files
    <3> QED
      BY <3>1, NothingWritten
  <2>7. CASE \E f \in Replies(request[l]) : FinalizeCall(l, f)
    <3>1. PICK f \in Replies(request[l]) : FinalizeCall(l, f)
      BY <2>7
    <3>2. pc[l] \in Inside /\ OwnCell(l)
      BY <3>1, OwnCellWrite DEF FinalizeCall, Inside
    <3> QED
      BY <3>1, <3>2, OneCell DEF FinalizeCall, OpenPlace
  <2>8. CASE FinalizeRefused(l)
    <3>1. pc[l] \in Inside /\ OwnCell(l)
      BY <2>8, OwnCellWrite DEF FinalizeRefused, Exit, Inside
    <3> QED
      BY <2>8, <3>1, OneCell DEF FinalizeRefused, Exit, OpenPlace
  <2>9. CASE CommitBegin(l)
    <3>1. pc[l] \in Inside /\ OwnCell(l)
      BY <2>9, OwnCellWrite DEF CommitBegin, Inside
    <3> QED
      BY <2>9, <3>1, OneCell DEF CommitBegin, OpenPlace
  <2>10. CASE CommitFreeze(l)
    <3>1. pc[l] \in Inside /\ OwnCell(l)
      BY <2>10, OwnCellWrite DEF CommitFreeze, Inside
    <3> QED
      BY <2>10, <3>1, OneCell DEF CommitFreeze, OpenPlace
  <2>11. CASE Refused(l)
    BY <2>11, NothingWritten DEF Refused, Exit
  <2> QED
    BY <1>3, <2>1, <2>2, <2>3, <2>4, <2>5, <2>6, <2>7, <2>8, <2>9, <2>10, <2>11
    DEF Step
<1>4. ASSUME NEW l \in Launches, Crash(l)
      PROVE  \A r \in Roots : RootWrittenOnce(r)
  BY <1>4, NothingWritten DEF Crash, Exit
<1> QED
  BY <1>1, <1>2, <1>3, <1>4 DEF Next

\* What was committed, moved into the store or frozen is never written again, by
\* the same launch or by another one.
THEOREM NeverRewritten == Spec => WrittenOnce
<1>1. OInv /\ [Next]_vars =>
         [\A r \in Roots :
            /\ \A n \in Seqs :
                  committed[r][n] # NoTransition =>
                      committed'[r][n] = committed[r][n] /\ stage'[r][n] = "frozen"
            /\ store[r].snapshots # NoDir =>
                  store'[r].snapshots = store[r].snapshots
            /\ store[r].red # NoDir => store'[r].red = store[r].red
            /\ store[r].state = "frozen" => store'[r] = store[r]]_vars
  BY StepWritesOnce DEF RootWrittenOnce
<1> QED
  BY <1>1, Inductive, PTL DEF Spec, WrittenOnce
=============================================================================
