-------------------------- MODULE OfflineRunnerProofs --------------------------
(* Proofs for OfflineRunner: whatever launches share a container name,        *)
(* whatever the size of pipes and the byte limit, and whatever fails, the     *)
(* evidence of a run is whole and nothing is left behind silently.            *)
(*                                                                            *)
(* The inductive invariant speaks of one executor at a time.  ClientTied      *)
(* ties the client, the container and the control directory to where the      *)
(* executor is; RemovedInTime says when the container counts as removed;      *)
(* StreamsWhole says that a stream that is no longer read has no writer left  *)
(* and was read to its end; Identified excludes a client that found the name  *)
(* in use.                                                                    *)
EXTENDS OfflineRunner, TLAPS

Waiting == {"start", "popen"}
Past == {"cid", "cleanup", "control", "probe", "done", "failed", "unattested"}

\* No client before Popen, one in the loop and none alive after _run_bounded; only a living
\* client makes a container or a cidfile, and only under a control directory, which is gone
\* after a cleanup that succeeded.
ClientTied(e) ==
    /\ pc[e] \in Waiting => client[e] = "none"
    /\ pc[e] = "loop" => client[e] # "none"
    /\ pc[e] \in Past => client[e] \in {"none", "dead"}
    /\ client[e] \in {"none", "starting"} => container # e /\ control[e] # "cid"
    /\ pc[e] = "start" => control[e] = "none"
    /\ pc[e] \in {"probe", "done"} => e \in removed
    /\ pc[e] \in {"probe", "done", "failed"} /\ e \in removed => control[e] = "none"
    /\ pc[e] = "failed" /\ e \notin removed => client[e] = "none"

\* The container counts as removed only after CleanupContainer, and is gone then.
RemovedInTime(e) ==
    /\ e \in removed => pc[e] \notin Waiting \cup {"loop", "cid", "cleanup"}
    /\ e \in removed /\ pc[e] \in Past => container # e
    /\ pc[e] \in {"probe", "done", "failed"} => container # e

\* Without an error so far: what was read is within the limit, and a stream that
\* is not read any more is closed and empty.
StreamsWhole(e) ==
    /\ closed[e] # {} => client[e] \in {"leaving", "dead"}
    /\ e \notin error => Total(taken[e]) =< Limit
    /\ (e \notin error /\ pc[e] \in {"loop", "cid", "cleanup", "control", "probe", "done"})
         => \A s \in Streams \ open[e] : s \in closed[e] /\ taken[e][s] = written[e][s]
    /\ (e \notin error /\ pc[e] \in {"cid", "cleanup", "control", "probe", "done"})
         => open[e] = {}

\* A client that ended has an exit; one that found the name in use left no
\* cidfile; only a run with a cidfile has no error when its client has ended.
Identified(e) ==
    /\ client[e] \in {"leaving", "dead"} => exit[e] # "none"
    /\ exit[e] = "conflict" => client[e] \in {"leaving", "dead"} /\ control[e] # "cid"
    /\ pc[e] = "cid" => client[e] = "dead"
    /\ pc[e] \in {"probe", "done"} => e \notin error
    /\ (e \notin error /\ pc[e] \in {"cleanup", "control", "probe", "done"})
         => exit[e] \in {"own", "killed"}

ExecutorInv(e) == ClientTied(e) /\ RemovedInTime(e) /\ StreamsWhole(e) /\ Identified(e)

RunInv == TypeOK /\ \A e \in Executors : ExecutorInv(e)

------------------------------------------------------------------------------

\* Before the launch nothing exists.
LEMMA InitInv == Init => RunInv
<1> SUFFICES ASSUME Init PROVE RunInv
  OBVIOUS
<1>1. TypeOK
  BY RunnerAssumption DEF Init, TypeOK, Zero, Streams
<1>2. Total(Zero) = 0 /\ 0 =< Limit
  BY RunnerAssumption DEF Total, Zero, Streams
<1>3. ASSUME NEW e \in Executors PROVE ExecutorInv(e)
  BY <1>2, RunnerAssumption
  DEF Init, ExecutorInv, ClientTied, RemovedInTime, StreamsWhole, Identified, Waiting, Past
<1> QED BY <1>1, <1>3 DEF RunInv

\* A counted fault
LEMMA FaultType == ASSUME faults \in Nat, Fault PROVE faults' \in Nat
BY DEF Fault

\* The kill of the process group and the error keep the types.
LEMMA RaiseType ==
    ASSUME TypeOK, NEW e \in Executors, Raise(e)
    PROVE  /\ pc' \in [Executors -> {"start", "popen", "loop", "cid", "cleanup", "control", "probe"}
                                     \cup Final]
           /\ client' \in [Executors -> {"none", "starting", "attached", "leaving", "dead"}]
           /\ exit' \in [Executors -> {"none", "own", "conflict", "killed"}]
           /\ closed' \in [Executors -> SUBSET Streams] /\ open' \in [Executors -> SUBSET Streams]
           /\ error' \subseteq Executors
BY DEF TypeOK, Raise, KillGroup, Goto

\* An executor that raises in _run_bounded has no client left, and its error is
\* known: it promises nothing of its streams.
LEMMA RaiseInv ==
    ASSUME TypeOK, TypeOK', NEW e \in Executors, Raise(e), pc[e] = "loop",
           NEW f \in Executors, ExecutorInv(f), f # e => taken'[f] = taken[f],
           UNCHANGED <<written, control, removed, container>>
    PROVE  ExecutorInv(f)'
<1> USE DEF TypeOK, ExecutorInv, ClientTied, RemovedInTime, StreamsWhole, Identified, Waiting, Past
<1>1. CASE f = e
  BY <1>1 DEF Raise, KillGroup, Goto
<1>2. CASE f # e
  <2>1. /\ pc'[f] = pc[f] /\ client'[f] = client[f] /\ exit'[f] = exit[f]
        /\ closed'[f] = closed[f] /\ open'[f] = open[f] /\ (f \in error' <=> f \in error)
    BY <1>2 DEF Raise, KillGroup, Goto
  <2> QED BY <1>2, <2>1
<1> QED BY <1>1, <1>2

\* Every action keeps the types.
LEMMA TypeStep == ASSUME TypeOK, [Next]_vars PROVE TypeOK'
<1> USE RunnerAssumption DEF TypeOK, process, reader, outcome, runtime, Final, Goto
<1>s. CASE UNCHANGED vars
  BY <1>s DEF vars
<1>1. ASSUME NEW e \in Executors, ClientCreates(e) PROVE TypeOK'
  BY <1>1 DEF ClientCreates
<1>2. ASSUME NEW e \in Executors, ClientDetaches(e) PROVE TypeOK'
  BY <1>2 DEF ClientDetaches
<1>3. ASSUME NEW e \in Executors, ClientExits(e) PROVE TypeOK'
  BY <1>3 DEF ClientExits
<1>4. ASSUME NEW e \in Executors, NEW s \in Streams, CommandWrites(e, s) PROVE TypeOK'
  BY <1>4 DEF CommandWrites, Streams
<1>5. ASSUME NEW e \in Executors, NEW s \in Streams, ClientCloses(e, s) PROVE TypeOK'
  BY <1>5 DEF ClientCloses
<1>6. ASSUME NEW e \in Executors, MakeControl(e) PROVE TypeOK'
  BY <1>6, FaultType DEF MakeControl
<1>7. ASSUME NEW e \in Executors, Popen(e) PROVE TypeOK'
  <2>1. CASE open' = [open EXCEPT ![e] = Streams] /\ client' = [client EXCEPT ![e] = "starting"]
             /\ Goto(e, "loop") /\ UNCHANGED <<error, faults>>
    BY <1>7, <2>1 DEF Popen
  <2>2. CASE Fault /\ error' = error \cup {e} /\ Goto(e, "cleanup") /\ UNCHANGED <<client, open>>
    BY <1>7, <2>2, FaultType DEF Popen
  <2> QED BY <1>7, <2>1, <2>2 DEF Popen
<1>8. ASSUME NEW e \in Executors, Poll(e) PROVE TypeOK'
  <2>1. taken' \in [Executors -> [Streams -> Nat]]
    BY <1>8 DEF Poll
  <2>2. CASE Raise(e)
    BY <1>8, <2>1, <2>2, RaiseType DEF Poll
  <2>3. CASE /\ open' = [open EXCEPT ![e] = StillOpen(e, Ready(e))]
             /\ UNCHANGED <<pc, client, exit, closed, error>>
    BY <1>8, <2>1, <2>3 DEF Poll, StillOpen
  <2> QED BY <1>8, <2>2, <2>3 DEF Poll
<1>9. ASSUME NEW e \in Executors, LoopExpires(e) PROVE TypeOK'
  BY <1>9, RaiseType DEF LoopExpires
<1>10. ASSUME NEW e \in Executors, WaitReturns(e) PROVE TypeOK'
  BY <1>10 DEF WaitReturns
<1>11. ASSUME NEW e \in Executors, WaitExpires(e) PROVE TypeOK'
  BY <1>11, RaiseType DEF WaitExpires
<1>12. ASSUME NEW e \in Executors, ReadContainerId(e) PROVE TypeOK'
  BY <1>12 DEF ReadContainerId
<1>13. ASSUME NEW e \in Executors, CleanupContainer(e) PROVE TypeOK'
  BY <1>13, FaultType DEF CleanupContainer
<1>14. ASSUME NEW e \in Executors, RemoveControl(e) PROVE TypeOK'
  BY <1>14, FaultType DEF RemoveControl
<1>15. ASSUME NEW e \in Executors, Probe(e) PROVE TypeOK'
  BY <1>15, FaultType DEF Probe
<1>16. ASSUME NEW e \in Executors, Expire(e) PROVE TypeOK'
  BY <1>16 DEF Expire
<1>17. ASSUME NEW e \in Executors, Crash(e) PROVE TypeOK'
  BY <1>17, FaultType DEF Crash
<1>18. CASE CommandEnds
  BY <1>18 DEF CommandEnds
<1> QED
  BY <1>s, <1>1, <1>2, <1>3, <1>4, <1>5, <1>6, <1>7, <1>8, <1>9, <1>10, <1>11, <1>12,
     <1>13, <1>14, <1>15, <1>16, <1>17, <1>18
  DEF Next, Execute, Outside

\* Every action keeps what is known of every executor: the acting one and, since
\* they share the container, the others.
LEMMA InvStep == ASSUME RunInv, [Next]_vars PROVE RunInv'
<1>t. TypeOK /\ TypeOK'
  BY TypeStep DEF RunInv
<1>i. \A f \in Executors : ExecutorInv(f)
  BY DEF RunInv
<1> SUFFICES ASSUME NEW f \in Executors PROVE ExecutorInv(f)'
  BY <1>t DEF RunInv
<1>f. ExecutorInv(f)
  BY <1>i
<1> USE RunnerAssumption, <1>t, <1>f
    DEF ExecutorInv, ClientTied, RemovedInTime, StreamsWhole, Identified, Waiting, Past, TypeOK,
        process, reader, outcome, runtime, Goto
<1>s. CASE UNCHANGED vars
  BY <1>s DEF vars
<1>1. ASSUME NEW e \in Executors, ClientCreates(e) PROVE ExecutorInv(f)'
  BY <1>1 DEF ClientCreates
<1>2. ASSUME NEW e \in Executors, ClientDetaches(e) PROVE ExecutorInv(f)'
  BY <1>2 DEF ClientDetaches
<1>3. ASSUME NEW e \in Executors, ClientExits(e) PROVE ExecutorInv(f)'
  BY <1>3 DEF ClientExits
<1>4. ASSUME NEW e \in Executors, NEW s \in Streams, CommandWrites(e, s) PROVE ExecutorInv(f)'
  BY <1>4 DEF CommandWrites
<1>5. ASSUME NEW e \in Executors, NEW s \in Streams, ClientCloses(e, s) PROVE ExecutorInv(f)'
  BY <1>5 DEF ClientCloses
<1>6. ASSUME NEW e \in Executors, MakeControl(e) PROVE ExecutorInv(f)'
  BY <1>6 DEF MakeControl, Fault
<1>7. ASSUME NEW e \in Executors, Popen(e) PROVE ExecutorInv(f)'
  BY <1>7 DEF Popen, Fault
<1>8. ASSUME NEW e \in Executors, Poll(e) PROVE ExecutorInv(f)'
  <2>1. /\ pc[e] = "loop" /\ (f # e => taken'[f] = taken[f])
        /\ UNCHANGED <<written, control, removed, container>>
    BY <1>8 DEF Poll
  <2>2. CASE Raise(e)
    BY <2>1, <2>2, RaiseInv
  <2>3. CASE /\ Total(taken'[e]) =< Limit
             /\ open' = [open EXCEPT ![e] = StillOpen(e, Ready(e))]
             /\ UNCHANGED <<pc, client, exit, closed, error>>
    <3>1. CASE f # e
      BY <2>1, <2>3, <3>1
    <3>2. CASE f = e
      <4>1. \A s \in Streams \ open'[e] : s \notin open[e] \/ (s \in closed[e] /\ s \in Ready(e))
        BY <1>8, <2>3 DEF StillOpen, Ready
      <4>2. \A s \in Streams : taken'[e][s] = IF s \in Ready(e) THEN written[e][s] ELSE taken[e][s]
        BY <1>8 DEF Poll
      <4>3. \A s \in Streams \ open[e] : s \notin Ready(e)
        BY DEF Ready
      <4> QED BY <2>1, <2>3, <3>2, <4>1, <4>2, <4>3
    <3> QED BY <3>1, <3>2
  <2> QED BY <1>8, <2>2, <2>3 DEF Poll
<1>9. ASSUME NEW e \in Executors, LoopExpires(e) PROVE ExecutorInv(f)'
  BY <1>9, RaiseInv DEF LoopExpires
<1>10. ASSUME NEW e \in Executors, WaitReturns(e) PROVE ExecutorInv(f)'
  BY <1>10 DEF WaitReturns
<1>11. ASSUME NEW e \in Executors, WaitExpires(e) PROVE ExecutorInv(f)'
  BY <1>11, RaiseInv DEF WaitExpires
<1>12. ASSUME NEW e \in Executors, ReadContainerId(e) PROVE ExecutorInv(f)'
  BY <1>12 DEF ReadContainerId
<1>13. ASSUME NEW e \in Executors, CleanupContainer(e) PROVE ExecutorInv(f)'
  BY <1>13 DEF CleanupContainer, Fault
<1>14. ASSUME NEW e \in Executors, RemoveControl(e) PROVE ExecutorInv(f)'
  BY <1>14 DEF RemoveControl, Fault
<1>15. ASSUME NEW e \in Executors, Probe(e) PROVE ExecutorInv(f)'
  BY <1>15 DEF Probe, Fault
<1>16. ASSUME NEW e \in Executors, Expire(e) PROVE ExecutorInv(f)'
  BY <1>16 DEF Expire
<1>17. ASSUME NEW e \in Executors, Crash(e) PROVE ExecutorInv(f)'
  BY <1>17 DEF Crash, Fault, Final
<1>18. CASE CommandEnds
  BY <1>18 DEF CommandEnds
<1> QED
  BY <1>s, <1>1, <1>2, <1>3, <1>4, <1>5, <1>6, <1>7, <1>8, <1>9, <1>10, <1>11, <1>12,
     <1>13, <1>14, <1>15, <1>16, <1>17, <1>18
  DEF Next, Execute, Outside

------------------------------------------------------------------------------

\* The inductive invariant holds in every state of a run.
LEMMA AlwaysInv == Spec => []RunInv
BY InitInv, InvStep, PTL DEF Spec

\* Every variable of a run keeps its type.
THEOREM TypeCorrect == Spec => []TypeOK
<1>1. RunInv => TypeOK
  BY DEF RunInv
<1> QED BY <1>1, AlwaysInv, PTL

\* execute_offline: an ordinary end of a run, good or bad, leaves no container of
\* its own and no client, and no control directory but an empty one of a run that
\* was refused before its process was started.
THEOREM RunCleansUp == Spec => []NothingLeft
<1>1. ASSUME RunInv, NEW e \in Executors, pc[e] \in {"probe", "done", "failed"}
      PROVE  /\ container # e /\ client[e] \in {"none", "dead"}
             /\ control[e] # "none" =>
                   client[e] = "none" /\ e \notin removed /\ control[e] = "dir"
  <2>1. ClientTied(e) /\ RemovedInTime(e) /\ control[e] \in {"none", "dir", "cid"}
    BY <1>1 DEF RunInv, ExecutorInv, TypeOK
  <2>2. container # e /\ client[e] \in {"none", "dead"}
    BY <1>1, <2>1 DEF ClientTied, RemovedInTime, Past
  <2>3. ASSUME control[e] # "none" PROVE client[e] = "none" /\ e \notin removed
    BY <1>1, <2>1, <2>3 DEF ClientTied
  <2>4. client[e] = "none" => control[e] # "cid"
    BY <2>1 DEF ClientTied
  <2> QED BY <2>1, <2>2, <2>3, <2>4
<1>2. RunInv => NothingLeft
  BY <1>1 DEF NothingLeft
<1> QED BY <1>2, AlwaysInv, PTL

\* execute_offline and _run_bounded: a log with the command's own exit code is all
\* the command wrote, whatever other launches do to the container's name.
THEOREM WholeEvidence == Spec => []EvidenceIsWhole
<1>1. ASSUME RunInv, NEW e \in Executors, pc[e] \in {"probe", "done"}
      PROVE  /\ exit[e] \in {"own", "killed"}
             /\ taken[e] = written[e] /\ Total(taken[e]) =< Limit
  <2>1. ExecutorInv(e) /\ taken[e] \in [Streams -> Nat] /\ written[e] \in [Streams -> Nat]
    BY <1>1 DEF RunInv, TypeOK
  <2>2. \A s \in Streams : taken[e][s] = written[e][s]
    BY <1>1, <2>1 DEF ExecutorInv, Identified, StreamsWhole
  <2>3. taken[e] = written[e]
    BY <2>1, <2>2
  <2> QED BY <1>1, <2>1, <2>3 DEF ExecutorInv, Identified, StreamsWhole
<1>2. RunInv => EvidenceIsWhole
  BY <1>1 DEF EvidenceIsWhole
<1> QED BY <1>2, AlwaysInv, PTL
==============================================================================
