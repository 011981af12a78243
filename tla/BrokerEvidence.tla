---------------------------- MODULE BrokerEvidence ----------------------------
(* What the coordinator prepares for and accepts from the AI broker runs:    *)
(* the two-role batch (broker_phase_protocol.py, phase_execution_adapters.py,*)
(* coordinator_workflow_ops.py), the raw evidence of the outer executor with *)
(* its frozen reservation ledger (broker_executor.py) and the review parsed  *)
(* from a broker's envelope (broker_result.py).  BrokerExecution models how  *)
(* that evidence comes about.                                                *)
EXTENDS OfflineEvidence, FiniteSetsExt

CONSTANTS
    RoleTokens,     \* [role -> reserved tokens]
    RoleCost,       \* [role -> reserved cost]
    TokenCap,       \* broker_packet_reservation_limit of the manifest
    CostCap         \* broker_packet_cost_limit_microusd of the manifest

ReviewRoles == {"reviewer", "adversary"}

ASSUME CapAssumption ==
    /\ RoleTokens \in [ReviewRoles -> Nat \ {0}] /\ RoleCost \in [ReviewRoles -> Nat \ {0}]
    /\ TokenCap \in Nat /\ CostCap \in Nat

\* build_tool_free_responses_request: packet, role prompt, role and attempt
ToolFreeRequest(packet, r, n) == <<packet, r, n>>

\* BrokerBoundaryEvidence of the packet, the candidate and the runtime binding
BoundaryEvidence(packet, cand, rt) == [packet |-> packet, csnap |-> cand, runtime |-> rt]

\* _broker_invocations accepts: the packet is the request's and holds its task
InvocationsValid(q, packet) == packet = q.packet /\ packet.task = q.task

\* PreparedBrokerRun of a role; the coordinator prepares attempt 1
PreparedRun(packet, cand, rt, r) ==
    [role |-> r, attempt |-> 1, packet |-> packet,
     request |-> ToolFreeRequest(packet, r, 1),
     boundary |-> BoundaryEvidence(packet, cand, rt),
     tokens |-> RoleTokens[r], cost |-> RoleCost[r]]

BrokerBatch(q, packet, cand, rt, ledger) ==
    [req |-> RequestSha(q), wf |-> q.wf, task |-> q.task, csnap |-> q.snap, packet |-> q.packet,
     runtime |-> rt, ledger |-> ledger,
     runs |-> [r \in ReviewRoles |-> PreparedRun(packet, cand, rt, r)]]

\* _validate_batch: both roles, one packet, within the packet's limits
BrokerBatchWellFormed(b) ==
    /\ DOMAIN b.runs = ReviewRoles
    /\ \A r \in DOMAIN b.runs : b.runs[r].role = r /\ b.runs[r].packet = b.packet
    /\ MapThenSumSet(LAMBDA r : b.runs[r].tokens, DOMAIN b.runs) =< TokenCap
    /\ MapThenSumSet(LAMBDA r : b.runs[r].cost, DOMAIN b.runs) =< CostCap

\* one row of the reservation ledger
Reservation(run, time) ==
    [packet |-> run.packet, role |-> run.role, attempt |-> run.attempt,
     tokens |-> run.tokens, cost |-> run.cost, time |-> time]

TokenSum(rows) == MapThenSumSet(LAMBDA w : w.tokens, rows)
CostSum(rows) == MapThenSumSet(LAMBDA w : w.cost, rows)
RoleRows(rows, r) == {w \in rows : w.role = r}

\* _build_ledger_evidence: attempts from 1 without a gap, totals within limits
LedgerValid(rows, packet) ==
    /\ \A w \in rows : w.packet = packet /\ w.role \in ReviewRoles /\ w.attempt \in 1..2
    /\ \A r \in ReviewRoles :
         {w.attempt : w \in RoleRows(rows, r)} = 1..Cardinality(RoleRows(rows, r))
    /\ TokenSum(rows) =< TokenCap /\ CostSum(rows) =< CostCap

\* the canonical envelope a broker wrote to stdout
Envelope(run, id, review) == [request |-> run.request, id |-> id, review |-> review]

\* one entry of the outer evidence: the prepared run, the boundary measured
\* before and after it, the ledger as the run's reservation left it, stdout
OuterRun(run, session, rows, time, env) ==
    [desc |-> run, session |-> session, pre |-> session, post |-> session,
     cleaned |-> TRUE, rows |-> rows, time |-> time, env |-> env]

OuterBroker(b, final, runs) ==
    [batch |-> b, ledger |-> b.ledger, final |-> final, runs |-> runs]

\* _decode_frozen_ledger
FrozenLedgerValid(b, outer) ==
    /\ outer.ledger = b.ledger
    /\ outer.final # {} /\ LedgerValid(outer.final, b.packet)

\* _decode_reservation: exactly this run's row, at the time it claims
ReservationDecodes(b, run, raw) ==
    /\ Cardinality({w \in RoleRows(raw.rows, run.role) : w.attempt = run.attempt}) = 1
    /\ Reservation(run, raw.time) \in raw.rows
    /\ LedgerValid(raw.rows, run.packet)

\* _construct_provisioned_evidence: the evidence names the prepared run
RunDescribed(run, raw) == raw.desc = run

\* ... every lifecycle command has the expected arguments and ended well, the
\* removals and the absence checks after them included
LifecycleComplete(raw) == raw.cleaned

\* ... the boundary carries the labels of this session before and after the run
BoundaryUnchanged(raw) == raw.pre = raw.session /\ raw.post = raw.pre

LifecycleValid(run, raw) ==
    RunDescribed(run, raw) /\ LifecycleComplete(raw) /\ BoundaryUnchanged(raw)

\* _construct_provisioned_evidence, the broker process: _parse_canonical_envelope
ProcessValid(run, raw) == raw.env.request = run.request

\* Mutant: the accepted runs are in the final ledger, whatever else is
FinalLedgerContains(b, outer) ==
    \A r \in ReviewRoles : Reservation(b.runs[r], outer.runs[r].time) \in outer.final

\* Mutant: every run has to have seen the final ledger
FinalLedgerSeenByAll(b, outer) ==
    \A r \in ReviewRoles : outer.runs[r].rows = outer.final

\* validate_successful_broker_executions_against_final_ledger: each role stops
\* at its success, nothing else was charged, and the later of the two runs saw
\* the final ledger
FinalLedgerAccounts(b, outer) ==
    LET raws == outer.runs
        total(r) == TokenSum(raws[r].rows)
        latest == CHOOSE r \in ReviewRoles : \A s \in ReviewRoles : total(s) =< total(r)
    IN  /\ \A r \in ReviewRoles :
             LET run == b.runs[r]
             IN  /\ {w.attempt : w \in RoleRows(outer.final, r)} = 1..run.attempt
                 /\ Reservation(run, raws[r].time) \in outer.final
                 /\ raws[r].rows \subseteq outer.final
        /\ total("reviewer") # total("adversary")
        /\ total(latest) = TokenSum(outer.final)
        /\ raws[latest].rows = outer.final

\* _finalize_provisioned_broker_execution
BrokerFinal(b, outer) ==
    /\ BrokerBatchWellFormed(b)
    /\ outer.batch = b
    /\ DOMAIN outer.runs = ReviewRoles
    /\ FrozenLedgerValid(b, outer)
    /\ \A r \in ReviewRoles :
         /\ LifecycleValid(b.runs[r], outer.runs[r])
         /\ ReservationDecodes(b, b.runs[r], outer.runs[r])
         /\ ProcessValid(b.runs[r], outer.runs[r])
    /\ FinalLedgerAccounts(b, outer)

\* _broker_artifact_bytes: the summary committed for a role
BrokerSummary(b, outer, r) ==
    [batch |-> b, outer |-> outer, role |-> r, final |-> outer.final]

\* parse_broker_review: a review is extracted or the envelope is refused; the
\* session id comes from the envelope and the role, not from the model
ReviewParses(run, raw) == raw.env.request = run.request /\ raw.env.review # "invalid"
ParsedReview(run, raw) ==
    [role |-> run.role, session |-> <<"review", raw.env.id, run.role>>, says |-> raw.env.review]
==============================================================================
