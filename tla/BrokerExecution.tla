--------------------------- MODULE BrokerExecution ---------------------------
(* The outer executor of AI broker runs (broker_outer_executor.py) and the   *)
(* egress session with the single-run primitive it wraps                     *)
(* (broker_egress_provisioner.py, broker_executor.py), on one container      *)
(* runtime and one reservation ledger.  An executor takes the runs of its    *)
(* prepared batch one after the other.  Each run refuses names in use,       *)
(* creates two networks and a gateway, inspects them, reserves tokens and    *)
(* cost in the ledger, runs the broker container, removes it and takes the   *)
(* boundary down again, resource by resource, after an ownership check.      *)
(*                                                                           *)
(* Names are computed from (packet, request, role, attempt), so executors    *)
(* with the same run use the same names; the random session label is the     *)
(* executor itself.  A runtime command may fail before or after it took      *)
(* effect, and an executor may be killed between any two steps.              *)
EXTENDS Naturals, FiniteSets, Sequences, FiniteSetsExt

CONSTANTS
    Executors,      \* executor processes, each with one prepared batch
    Packets,        \* review packets
    Offered,        \* [executor -> the <<kind, runs>> it may be launched with]
    Tokens,         \* [role -> reserved tokens of a run]
    Cost,           \* [role -> reserved cost of a run]
    TokenLimit,     \* broker_packet_reservation_limit
    CostLimit,      \* broker_packet_cost_limit_microusd
    MaxFaults,      \* bound: commands, processes and probes that may fail
    StoppedHolds,   \* the runtime keeps a network that a stopped container uses
    Nobody

Roles == {"reviewer", "adversary"}
Attempts == 1..2

(* _invocation_values: what every lifecycle name is derived from *)
Invocations == Packets \X Roles \X Attempts
PacketOf(i) == i[1]
RoleOf(i) == i[2]
AttemptOf(i) == i[3]

Parts == {"gateway", "internal", "external"}

(* "outer" executes two roles in order; "session" is the compatibility path: *)
(* one egress session around one execute_isolated_broker                     *)
Kinds == {"outer", "session"}

ASSUME BrokerAssumptions ==
    /\ Tokens \in [Roles -> Nat \ {0}] /\ Cost \in [Roles -> Nat \ {0}]
    /\ TokenLimit \in Nat /\ CostLimit \in Nat /\ MaxFaults \in Nat
    /\ StoppedHolds \in BOOLEAN /\ Nobody \notin Executors
    /\ Offered \in [Executors -> SUBSET (Kinds \X Seq(Invocations))]

VARIABLES
    kind, batch,    \* the executor's path and prepared runs
    owner,          \* [run -> [part -> session label of the resource]]
    linked,         \* runs whose gateway is connected to the internal network
    broker,         \* [run -> state of the broker container]
    rows,           \* committed reservations
    pc, at,         \* control of an executor and its position in the batch
    todo,           \* targets a loop over commands has left
    created,        \* the created_* flags
    attempted,      \* broker_attempted and no broker_cleanup_record yet
    result,         \* what the broker process returned
    failed,         \* failure is not None
    cleanupOk,      \* cleanup_ok
    faults,         \* faults so far
    runner,         \* [run -> who started its broker container], a history
    starts,         \* [run -> how often its broker was started], a history
    frozen          \* [executor -> ledger records in its evidence]

local == <<kind, batch, at, todo, created, attempted, result, failed, cleanupOk>>
runtime == <<owner, linked, broker, runner, starts>>
vars == <<local, runtime, pc, rows, faults, frozen>>

Ended == {"done", "failed", "unattested", "crashed"}
Running(e) == pc[e] \notin Ended
Run(e) == batch[e][at[e]]

(* _parse_prepared_batch: the outer path takes exactly the two roles in      *)
(* order, the compatibility path one run; one packet, within its limits      *)
SumBy(f, is) == FoldSet(LAMBDA i, n : n + f[RoleOf(i)], 0, is)
PreparedBatch(k, b) ==
    /\ IF k = "outer"
       THEN Len(b) = 2 /\ RoleOf(b[1]) = "reviewer" /\ RoleOf(b[2]) = "adversary"
       ELSE Len(b) = 1
    /\ \A j, l \in DOMAIN b : PacketOf(b[j]) = PacketOf(b[l])
    /\ SumBy(Tokens, {b[j] : j \in DOMAIN b}) =< TokenLimit
    /\ SumBy(Cost, {b[j] : j \in DOMAIN b}) =< CostLimit

(* the order in which the finally block takes resources down *)
Targets(c) ==
    LET Only(p) == IF p \in c THEN <<p>> ELSE <<>>
    IN  Only("gateway") \o Only("internal") \o Only("external")

Init ==
    /\ kind \in [Executors -> Kinds]
    /\ batch \in {b \in [Executors -> {o[2] : o \in UNION {Offered[e] : e \in Executors}}] :
                    \A e \in Executors : <<kind[e], b[e]>> \in Offered[e]}
    /\ \A e \in Executors : PreparedBatch(kind[e], batch[e])
    /\ owner = [i \in Invocations |-> [p \in Parts |-> Nobody]]
    /\ linked = {}
    /\ broker = [i \in Invocations |-> "none"]
    /\ rows = {}
    /\ pc = [e \in Executors |-> "probe"] /\ at = [e \in Executors |-> 1]
    /\ todo = [e \in Executors |-> <<>>]
    /\ created = [e \in Executors |-> {}]
    /\ attempted = [e \in Executors |-> FALSE]
    /\ result = [e \in Executors |-> "none"]
    /\ failed = [e \in Executors |-> FALSE]
    /\ cleanupOk = [e \in Executors |-> TRUE]
    /\ faults = 0
    /\ runner = [i \in Invocations |-> Nobody]
    /\ starts = [i \in Invocations |-> 0]
    /\ frozen = [e \in Executors |-> {}]

(* _run, _run_record: a command succeeds, fails without effect, or is cut    *)
(* off (deadline, byte limit) after the runtime has carried it out           *)
Outcome(o) ==
    /\ o \in {"ok", "early", "late"}
    /\ o # "ok" => faults < MaxFaults
    /\ faults' = faults + (IF o = "ok" THEN 0 ELSE 1)

Goto(e, l) == pc' = [pc EXCEPT ![e] = l]

(* the handler "failure = exc" followed by the cleanup of what was created *)
TakeDown(e, cs) ==
    /\ Goto(e, "boundary")
    /\ todo' = [todo EXCEPT ![e] = Targets(cs)]

Abort(e, cs) ==
    /\ TakeDown(e, cs)
    /\ failed' = [failed EXCEPT ![e] = TRUE]

(* _probe_runtime / _detect_exact_backend before the first run *)
Probe(e) ==
    /\ pc[e] = "probe"
    /\ \E o \in {"ok", "early"} :
         /\ Outcome(o)
         /\ Goto(e, IF o = "ok" THEN "absent" ELSE "failed")
         /\ todo' = [todo EXCEPT ![e] = <<"gateway", "internal", "external">>]
    /\ UNCHANGED <<kind, batch, at, created, attempted, result, failed, cleanupOk,
                   runtime, rows, frozen>>

(* the three absence commands; the session runs all three before it judges   *)
(* them, which shows in no state                                             *)
Absent(e) ==
    /\ pc[e] = "absent"
    /\ \E o \in {"ok", "early"} :
         /\ Outcome(o)
         /\ IF o = "ok" /\ owner[Run(e)][Head(todo[e])] = Nobody
            THEN /\ IF Len(todo[e]) > 1
                    THEN /\ todo' = [todo EXCEPT ![e] = Tail(@)] /\ Goto(e, "absent")
                    ELSE /\ todo' = [todo EXCEPT ![e] = <<"internal", "external", "gateway">>]
                         /\ Goto(e, "create")
                 /\ UNCHANGED failed
            ELSE Abort(e, {})
    /\ UNCHANGED <<kind, batch, at, created, attempted, result, cleanupOk,
                   runtime, rows, frozen>>

(* mutant: the created flag is set once the command has succeeded *)
CreateFlagLate(e) ==
    /\ pc[e] = "create"
    /\ LET i == Run(e)
           p == Head(todo[e])
           free == owner[i][p] = Nobody
       IN  \E o \in {"ok", "early", "late"} :
             /\ Outcome(o)
             /\ owner' = IF free /\ o # "early" THEN [owner EXCEPT ![i][p] = e] ELSE owner
             /\ IF o = "ok" /\ free
                THEN /\ todo' = [todo EXCEPT ![e] = Tail(@)]
                     /\ created' = [created EXCEPT ![e] = @ \cup {p}]
                     /\ Goto(e, IF Len(todo[e]) > 1 THEN "create" ELSE "connect")
                     /\ UNCHANGED failed
                ELSE Abort(e, created[e]) /\ UNCHANGED created
    /\ UNCHANGED <<kind, batch, at, attempted, result, cleanupOk, linked, broker, runner,
                   starts, rows, frozen>>

(* network create twice, then the gateway's run: the created flag is set     *)
(* before the command, whatever becomes of it                                *)
Create(e) ==
    /\ pc[e] = "create"
    /\ LET i == Run(e)
           p == Head(todo[e])
           free == owner[i][p] = Nobody
       IN  \E o \in {"ok", "early", "late"} :
             /\ Outcome(o)
             /\ created' = [created EXCEPT ![e] = @ \cup {p}]
             /\ owner' = IF free /\ o # "early" THEN [owner EXCEPT ![i][p] = e] ELSE owner
             /\ IF o = "ok" /\ free
                THEN /\ todo' = [todo EXCEPT ![e] = Tail(@)]
                     /\ Goto(e, IF Len(todo[e]) > 1 THEN "create" ELSE "connect")
                     /\ UNCHANGED failed
                ELSE Abort(e, created'[e])
    /\ UNCHANGED <<kind, batch, at, attempted, result, cleanupOk, linked, broker, runner,
                   starts, rows, frozen>>

(* network connect of the gateway to the internal network *)
Connect(e) ==
    /\ pc[e] = "connect"
    /\ \E o \in {"ok", "early", "late"} :
         /\ Outcome(o)
         /\ linked' = IF o = "early" THEN linked ELSE linked \cup {Run(e)}
         /\ IF o = "ok" THEN Goto(e, "inspect") /\ UNCHANGED <<todo, failed>>
                        ELSE Abort(e, created[e])
    /\ UNCHANGED <<kind, batch, at, created, attempted, result, cleanupOk, owner, broker,
                   runner, starts, rows, frozen>>

(* _validate_network, _validate_gateway: labels of this session, the gateway *)
(* on both networks and the only member of the internal one                  *)
BoundaryIntact(e) ==
    /\ \A p \in Parts : owner[Run(e)][p] = e
    /\ Run(e) \in linked
    /\ broker[Run(e)] # "running"

Inspect(e) ==
    /\ pc[e] = "inspect"
    /\ \E o \in {"ok", "early"} :
         /\ Outcome(o)
         /\ IF o = "ok" /\ BoundaryIntact(e)
            THEN Goto(e, "reserve") /\ UNCHANGED <<todo, failed>>
            ELSE Abort(e, created[e])
    /\ UNCHANGED <<kind, batch, at, created, attempted, result, cleanupOk, runtime, rows, frozen>>

RowsOf(q) == {i \in rows : PacketOf(i) = q}

(* attempts of a role are 1..n without a gap *)
GapFree(is) == \A i \in is : \A n \in 1..AttemptOf(i) : <<PacketOf(i), RoleOf(i), n>> \in is

(* mutants: the limits are compared with the role's own rows; an attempt     *)
(* that is already in the ledger is taken for this executor's own            *)
ReservationAllowedPerRole(i) ==
    LET mine == {r \in RowsOf(PacketOf(i)) : RoleOf(r) = RoleOf(i)}
    IN  /\ GapFree(mine) /\ AttemptOf(i) = Cardinality(mine) + 1
        /\ SumBy(Tokens, mine \cup {i}) =< TokenLimit
        /\ SumBy(Cost, mine \cup {i}) =< CostLimit
ReservationAllowedAgain(i) ==
    LET mine == {r \in RowsOf(PacketOf(i)) : RoleOf(r) = RoleOf(i)}
    IN  /\ GapFree(mine) /\ AttemptOf(i) =< Cardinality(mine) + 1
        /\ SumBy(Tokens, RowsOf(PacketOf(i)) \cup {i}) =< TokenLimit
        /\ SumBy(Cost, RowsOf(PacketOf(i)) \cup {i}) =< CostLimit

(* _reserve, _reserve_attempt: the next attempt of the role, within the      *)
(* packet's remaining tokens and cost                                        *)
ReservationAllowed(i) ==
    LET mine == {r \in RowsOf(PacketOf(i)) : RoleOf(r) = RoleOf(i)}
    IN  /\ GapFree(mine) /\ AttemptOf(i) = Cardinality(mine) + 1
        /\ SumBy(Tokens, RowsOf(PacketOf(i)) \cup {i}) =< TokenLimit
        /\ SumBy(Cost, RowsOf(PacketOf(i)) \cup {i}) =< CostLimit

(* an exception once the boundary stands: the outer path goes straight to    *)
(* its finally block, the session inspects once more on __exit__             *)
Raise(e) ==
    IF kind[e] = "session"
    THEN Goto(e, "post") /\ failed' = [failed EXCEPT ![e] = TRUE] /\ UNCHANGED todo
    ELSE Abort(e, created[e])

(* one IMMEDIATE transaction; the identity of the file is compared again     *)
(* after the commit, so that a refusal may leave the row behind.  The        *)
(* session's evidence holds the rows read in this transaction                *)
Reserve(e) ==
    /\ pc[e] = "reserve"
    /\ \E o \in {"ok", "early", "late"} :
         /\ Outcome(o)
         /\ rows' = IF o # "early" /\ ReservationAllowed(Run(e)) THEN rows \cup {Run(e)} ELSE rows
         /\ IF o = "ok" /\ ReservationAllowed(Run(e))
            THEN /\ Goto(e, "run") /\ UNCHANGED <<todo, failed>>
                 /\ frozen' = IF kind[e] = "session"
                              THEN [frozen EXCEPT ![e] = {i \in rows' : PacketOf(i) = PacketOf(Run(e))}]
                              ELSE frozen
            ELSE Raise(e) /\ UNCHANGED frozen
    /\ UNCHANGED <<kind, batch, at, created, attempted, result, cleanupOk, runtime>>

(* the broker container is started; broker_attempted makes its name this     *)
(* executor's to remove                                                      *)
StartBroker(e) ==
    /\ pc[e] = "run"
    /\ Goto(e, "running")
    /\ attempted' = [attempted EXCEPT ![e] = TRUE]
    /\ IF broker[Run(e)] = "none"
       THEN /\ broker' = [broker EXCEPT ![Run(e)] = "running"]
            /\ runner' = [runner EXCEPT ![Run(e)] = e]
            /\ starts' = [starts EXCEPT ![Run(e)] = @ + 1]
       ELSE UNCHANGED <<broker, runner, starts>>
    /\ UNCHANGED <<kind, batch, at, todo, created, result, failed, cleanupOk, owner, linked,
                   rows, faults, frozen>>

(* the runtime's client returns with exit code 0 and acceptable output       *)
(* ("ok"), returns with another ("early"), or is killed at its deadline or   *)
(* byte limit while the container keeps running ("late")                     *)
EndBroker(e) ==
    /\ pc[e] = "running"
    /\ \E o \in {"ok", "early", "late"} :
         /\ Outcome(o)
         /\ result' = [result EXCEPT ![e] = IF o = "ok" THEN "good" ELSE "bad"]
         /\ broker' = IF o = "late" THEN broker ELSE [broker EXCEPT ![Run(e)] = "exited"]
         /\ failed' = IF o = "late" THEN [failed EXCEPT ![e] = TRUE] ELSE failed
         /\ Goto(e, "clean")
    /\ UNCHANGED <<kind, batch, at, todo, created, attempted, cleanupOk, owner, linked, runner,
                   starts, rows, frozen>>

(* a container whose client is gone ends by itself *)
ContainerExits(i) ==
    /\ broker[i] = "running" /\ pc[runner[i]] # "running"
    /\ broker' = [broker EXCEPT ![i] = "exited"]
    /\ UNCHANGED <<local, pc, owner, linked, runner, starts, rows, faults, frozen>>

(* clean_broker_container: rm -f by name.  In the try block a command that   *)
(* returns non-zero ("early") has its record and is not tried again, one     *)
(* that raises ("late") is tried again in the finally block                  *)
CleanBroker(e) ==
    /\ pc[e] = "clean" /\ kind[e] = "outer"
    /\ \E o \in {"ok", "early", "late"} :
         /\ Outcome(o)
         /\ broker' = IF o = "early" THEN broker ELSE [broker EXCEPT ![Run(e)] = "none"]
         /\ attempted' = IF o = "late" /\ ~failed[e] THEN attempted
                         ELSE [attempted EXCEPT ![e] = FALSE]
         /\ \/ /\ ~failed[e] /\ o = "ok" /\ result[e] = "good"
               /\ Goto(e, "post") /\ UNCHANGED <<failed, cleanupOk, todo>>
            \/ /\ ~failed[e] /\ o # "late" /\ (o = "ok" => result[e] = "bad")
               /\ Abort(e, created[e]) /\ UNCHANGED cleanupOk
            \/ /\ ~failed[e] /\ o = "late"
               /\ Goto(e, "clean") /\ failed' = [failed EXCEPT ![e] = TRUE]
               /\ UNCHANGED <<cleanupOk, todo>>
            \/ /\ failed[e]
               /\ Abort(e, created[e])
               /\ cleanupOk' = IF o = "ok" THEN cleanupOk ELSE [cleanupOk EXCEPT ![e] = FALSE]
    /\ UNCHANGED <<kind, batch, at, created, result, owner, linked, runner, starts, rows, frozen>>

(* execute_isolated_broker: one cleanup whatever happened; a failure of the  *)
(* cleanup, of the runtime's second probe or of the process is raised        *)
CleanIsolated(e) ==
    /\ pc[e] = "clean" /\ kind[e] = "session"
    /\ \E o \in {"ok", "early", "late"} :
         /\ Outcome(o)
         /\ broker' = IF o = "early" THEN broker ELSE [broker EXCEPT ![Run(e)] = "none"]
         /\ failed' = [failed EXCEPT ![e] = @ \/ o # "ok" \/ result[e] = "bad"]
    /\ attempted' = [attempted EXCEPT ![e] = FALSE]
    /\ Goto(e, "post")
    /\ UNCHANGED <<kind, batch, at, todo, created, result, cleanupOk, owner, linked, runner,
                   starts, rows, frozen>>

(* the second inspection: the outer path's on success only, the session's on *)
(* every exit, where a difference counts as a failed cleanup                 *)
PostInspect(e) ==
    /\ pc[e] = "post"
    /\ \E o \in {"ok", "early"} :
         /\ Outcome(o)
         /\ LET same == o = "ok" /\ BoundaryIntact(e)
            IN  /\ failed' = [failed EXCEPT ![e] = @ \/ (kind[e] = "outer" /\ ~same)]
                /\ cleanupOk' = [cleanupOk EXCEPT ![e] = @ /\ (kind[e] = "session" => same)]
         /\ TakeDown(e, created[e])
    /\ UNCHANGED <<kind, batch, at, created, attempted, result, runtime, rows, frozen>>

(* mutant: the session label is not compared *)
InspectOwnedAnySession(e) ==
    /\ pc[e] = "boundary" /\ todo[e] # <<>>
    /\ \E o \in {"ok", "early"} :
         /\ Outcome(o)
         /\ IF o = "ok" /\ owner[Run(e)][Head(todo[e])] # Nobody
            THEN Goto(e, "remove") /\ UNCHANGED <<cleanupOk, todo>>
            ELSE /\ cleanupOk' = [cleanupOk EXCEPT ![e] = FALSE]
                 /\ todo' = [todo EXCEPT ![e] = Tail(@)]
                 /\ UNCHANGED pc
    /\ UNCHANGED <<kind, batch, at, created, attempted, result, failed, runtime, rows, frozen>>

(* the cleanup loop: inspect a created name and check its labels *)
InspectOwned(e) ==
    /\ pc[e] = "boundary" /\ todo[e] # <<>>
    /\ \E o \in {"ok", "early"} :
         /\ Outcome(o)
         /\ IF o = "ok" /\ owner[Run(e)][Head(todo[e])] = e
            THEN Goto(e, "remove") /\ UNCHANGED <<cleanupOk, todo>>
            ELSE /\ cleanupOk' = [cleanupOk EXCEPT ![e] = FALSE]
                 /\ todo' = [todo EXCEPT ![e] = Tail(@)]
                 /\ UNCHANGED pc
    /\ UNCHANGED <<kind, batch, at, created, attempted, result, failed, runtime, rows, frozen>>

(* the runtime removes a container by force, a network only while no         *)
(* container uses it                                                         *)
Holds(i) == broker[i] = "running" \/ (StoppedHolds /\ broker[i] = "exited")
Removable(i, p) ==
    \/ p = "gateway"
    \/ p = "internal" /\ i \notin linked /\ ~Holds(i)
    \/ p = "external" /\ owner[i]["gateway"] = Nobody

(* the remove command by name *)
Remove(e) ==
    /\ pc[e] = "remove"
    /\ LET i == Run(e)
           p == Head(todo[e])
       IN  \E o \in {"ok", "early", "late"} :
             /\ Outcome(o)
             /\ IF o # "early" /\ Removable(i, p)
                THEN /\ owner' = [owner EXCEPT ![i][p] = Nobody]
                     /\ linked' = IF p = "gateway" THEN linked \ {i} ELSE linked
                ELSE UNCHANGED <<owner, linked>>
             /\ cleanupOk' = IF o = "ok" /\ Removable(i, p) THEN cleanupOk
                             ELSE [cleanupOk EXCEPT ![e] = FALSE]
    /\ Goto(e, "boundary")
    /\ todo' = [todo EXCEPT ![e] = Tail(@)]
    /\ UNCHANGED <<kind, batch, at, created, attempted, result, failed, broker, runner, starts,
                   rows, frozen>>

(* the absence loop, once every target has been handled *)
BeginAttest(e) ==
    /\ pc[e] = "boundary" /\ todo[e] = <<>>
    /\ Goto(e, "attest")
    /\ todo' = [todo EXCEPT ![e] = Targets(created[e])]
    /\ UNCHANGED <<kind, batch, at, created, attempted, result, failed, cleanupOk, runtime, rows,
                   faults, frozen>>

Attest(e) ==
    /\ pc[e] = "attest" /\ todo[e] # <<>>
    /\ \E o \in {"ok", "early"} :
         /\ Outcome(o)
         /\ cleanupOk' = [cleanupOk EXCEPT ![e] =
                            @ /\ o = "ok" /\ owner[Run(e)][Head(todo[e])] = Nobody]
    /\ todo' = [todo EXCEPT ![e] = Tail(@)]
    /\ UNCHANGED <<kind, batch, at, created, attempted, result, failed, pc, runtime, rows, frozen>>

(* mutant: a failed run whose cleanup was attested is started again          *)
ConcludeRetries(e) ==
    /\ pc[e] = "attest" /\ todo[e] = <<>>
    /\ Goto(e, IF ~cleanupOk[e] THEN "unattested" ELSE IF failed[e] THEN "absent" ELSE "failed")
    /\ todo' = [todo EXCEPT ![e] = <<"gateway", "internal", "external">>]
    /\ created' = [created EXCEPT ![e] = {}]
    /\ failed' = [failed EXCEPT ![e] = FALSE]
    /\ UNCHANGED <<kind, batch, at, attempted, result, cleanupOk, runtime, rows, faults, frozen>>

(* the end of _execute_one: an unattested cleanup outranks the failure, then *)
(* the failure, then a runtime that is not the one probed first              *)
Conclude(e) ==
    /\ pc[e] = "attest" /\ todo[e] = <<>>
    /\ \E o \in {"ok", "early"} :
         /\ Outcome(o)
         /\ o # "ok" => cleanupOk[e] /\ ~failed[e]
         /\ Goto(e, CASE ~cleanupOk[e] -> "unattested"
                      [] cleanupOk[e] /\ failed[e] -> "failed"
                      [] cleanupOk[e] /\ ~failed[e] /\ o # "ok" ->
                           IF kind[e] = "session" THEN "unattested" ELSE "failed"
                      [] OTHER -> IF kind[e] = "session" THEN "done"
                                  ELSE IF at[e] < Len(batch[e]) THEN "absent" ELSE "freeze")
    /\ IF pc'[e] = "absent"
       THEN /\ at' = [at EXCEPT ![e] = @ + 1]
            /\ todo' = [todo EXCEPT ![e] = <<"gateway", "internal", "external">>]
            /\ created' = [created EXCEPT ![e] = {}]
            /\ result' = [result EXCEPT ![e] = "none"]
       ELSE UNCHANGED <<at, todo, created, result>>
    /\ UNCHANGED <<kind, batch, attempted, failed, cleanupOk, runtime, rows, frozen>>

(* mutant: the evidence has the records of this batch only *)
FreezeOwnRuns(e) ==
    /\ pc[e] = "freeze" /\ UNCHANGED faults
    /\ frozen' = [frozen EXCEPT ![e] = {batch[e][j] : j \in DOMAIN batch[e]}]
    /\ Goto(e, "done")
    /\ UNCHANGED <<local, runtime, rows>>

(* _measure_frozen_ledger: every record of the packet, checked again *)
Freeze(e) ==
    /\ pc[e] = "freeze"
    /\ \E o \in {"ok", "early"} :
         /\ Outcome(o)
         /\ LET records == RowsOf(PacketOf(Run(e)))
                valid == /\ records # {} /\ GapFree(records)
                         /\ SumBy(Tokens, records) =< TokenLimit
                         /\ SumBy(Cost, records) =< CostLimit
            IN  IF o = "ok" /\ valid
                THEN frozen' = [frozen EXCEPT ![e] = records] /\ Goto(e, "done")
                ELSE Goto(e, "failed") /\ UNCHANGED frozen
    /\ UNCHANGED <<local, runtime, rows>>

(* the executor's process is killed *)
Crash(e) ==
    /\ Running(e)
    /\ faults < MaxFaults /\ faults' = faults + 1
    /\ Goto(e, "crashed")
    /\ UNCHANGED <<local, runtime, rows, frozen>>

Provision(e) == Probe(e) \/ Absent(e) \/ Create(e) \/ Connect(e) \/ Inspect(e)
Execute(e) == Reserve(e) \/ StartBroker(e) \/ EndBroker(e) \/ CleanBroker(e) \/ CleanIsolated(e)
Cleanup(e) ==
    \/ PostInspect(e) \/ InspectOwned(e) \/ Remove(e) \/ BeginAttest(e) \/ Attest(e)
    \/ Conclude(e) \/ Freeze(e)
Step(e) == Provision(e) \/ Execute(e) \/ Cleanup(e)

AllEnded == (\A e \in Executors : ~Running(e)) /\ UNCHANGED vars

Next ==
    \/ \E e \in Executors : Step(e) \/ Crash(e)
    \/ \E i \in Invocations : ContainerExits(i)
    \/ AllEnded

(* every command and process has a deadline, so a live executor goes on *)
Spec == Init /\ [][Next]_vars /\ \A e \in Executors : WF_vars(Step(e))

------------------------------------------------------------------------------
TypeOK ==
    /\ kind \in [Executors -> Kinds]
    /\ \A e \in Executors : <<kind[e], batch[e]>> \in Offered[e] /\ at[e] \in DOMAIN batch[e]
    /\ owner \in [Invocations -> [Parts -> Executors \cup {Nobody}]]
    /\ linked \subseteq Invocations /\ rows \subseteq Invocations
    /\ broker \in [Invocations -> {"none", "running", "exited"}]
    /\ pc \in [Executors -> Ended \cup
                 {"probe", "absent", "create", "connect", "inspect", "reserve", "run", "running",
                  "clean", "post", "boundary", "remove", "attest", "freeze"}]
    /\ \A e \in Executors : todo[e] \in Seq(Parts) /\ created[e] \subseteq Parts
    /\ attempted \in [Executors -> BOOLEAN] /\ failed \in [Executors -> BOOLEAN]
    /\ cleanupOk \in [Executors -> BOOLEAN]
    /\ result \in [Executors -> {"none", "good", "bad"}]
    /\ faults \in 0..MaxFaults
    /\ runner \in [Invocations -> Executors \cup {Nobody}] /\ starts \in [Invocations -> Nat]
    /\ frozen \in [Executors -> SUBSET Invocations]

(* The reservations of a packet stay within its token and cost limits with   *)
(* gap-free attempts, however executors, retries and crashes interleave      *)
(* between the check and the insert of _reserve.                             *)
WithinBudget ==
    \A q \in Packets :
      /\ SumBy(Tokens, RowsOf(q)) =< TokenLimit /\ SumBy(Cost, RowsOf(q)) =< CostLimit
      /\ GapFree(RowsOf(q))

(* No broker is run that was not reserved first, and a reservation pays for  *)
(* one run only: a relaunch of a batch that was run, failed or crashed never *)
(* calls the provider again under the same attempt (_execute_one).           *)
EveryRunPaidOnce == \A i \in Invocations : starts[i] =< (IF i \in rows THEN 1 ELSE 0)

(* An execution that reports success has left neither network nor gateway    *)
(* nor broker container behind; one that reports an ordinary failure has     *)
(* left none of the resources that carry its session label, even where a     *)
(* create or remove command failed after it took effect.  Anything else is   *)
(* reported as a cleanup that could not be attested.                         *)
NothingLeftBehind ==
    \A e \in Executors :
      /\ pc[e] \in {"done", "failed"} => \A i \in Invocations, p \in Parts : owner[i][p] # e
      /\ pc[e] = "done" => \A i \in Invocations : runner[i] = e => broker[i] = "none"

(* Networks and gateways disappear by a step of the session that created     *)
(* them, never by that of another executor that found the name in use; and   *)
(* the only broker container removed by name is the executor's own, although *)
(* rm -f in clean_broker_container is not preceded by an ownership check:    *)
(* the exclusive attempt has to guarantee it.                                *)
OnlyOwnRemoved ==
    [][\A i \in Invocations :
         /\ \A p \in Parts :
              owner[i][p] # Nobody /\ owner'[i][p] # owner[i][p] =>
                /\ pc[owner[i][p]] = "remove" /\ Run(owner[i][p]) = i
                /\ owner'[i][p] = Nobody
         /\ broker[i] # "none" /\ broker'[i] = "none" =>
              pc[runner[i]] = "clean" /\ Run(runner[i]) = i]_vars

(* The ledger records in an outer batch's evidence contain every broker run  *)
(* of the packet that any executor has started by then, so that the final    *)
(* validation sees the retries and the runs of other batches too.            *)
EvidenceCoversRuns ==
    [][\A e \in Executors :
         frozen'[e] # frozen[e] =>
           {i \in Invocations : starts[i] > 0 /\ PacketOf(i) = PacketOf(Run(e))} \subseteq frozen'[e]]_vars

(* Every execution that is not killed ends: with evidence, with a failure or *)
(* with a cleanup that could not be attested.                                *)
ExecutionEnds == \A e \in Executors : <>(pc[e] \in Ended)
==============================================================================
