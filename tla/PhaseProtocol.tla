--------------------------- MODULE PhaseProtocol ---------------------------
(***************************************************************************)
(* The data contracts of the seven-phase review workflow                   *)
(* (tools/ai_review/phase_protocol.py), shared by the ledger-based driver  *)
(* (PhaseLedger) and the production runtime (OuterWorkflow).               *)
(*                                                                         *)
(* Digests are ideal.  A PhaseResult is built only for a request the chain *)
(* accepted, so its phase_sha256 fixes the workflow, the anchors and the   *)
(* outputs of every phase up to it: that is what PhaseSha returns.  The    *)
(* five anchors that no phase may change (task, runtime manifest, key id,  *)
(* public key, candidate) are one value.                                   *)
(***************************************************************************)
EXTENDS Naturals, Sequences

CONSTANTS
    WorkflowIds,   \* workflow_id values
    Anchors,       \* values of the five constant anchors
    Arts,          \* digests of output artifact sets
    MaxSeq,        \* bound: phases explored, a prefix of PHASE_ORDER
    NoDigest,      \* None as a digest
    EmptyArts,     \* EMPTY_INITIAL_ARTIFACTS_SHA256
    NoRequest,     \* no request held
    NoResult       \* no result held

PHASE_ORDER == <<"snapshot", "red-snapshot", "offline", "review-packet",
                 "broker", "sign", "attested-judge">>

Seqs == 1..MaxSeq

ASSUME MaxSeqAssumption == MaxSeq \in 1..7
ASSUME NoneAssumption ==
    /\ NoDigest \notin Arts
    /\ EmptyArts \notin Arts

\* PHASE_ORDER.index("broker") + 1
PacketPhase == CHOOSE n \in 1..7 : PHASE_ORDER[n] = "broker"

\* Sequence numbers of EXTERNAL_PHASES
ExternalSeqs == {n \in 1..7 : PHASE_ORDER[n] \in {"offline", "broker"}}

Digests == [wf : WorkflowIds, anchor : Anchors, outs : Seq(Arts)]

Requests ==
    [wf : WorkflowIds, seq : Seqs, anchor : Anchors,
     prev : Digests \cup {NoDigest}, inp : Arts \cup {EmptyArts},
     snap : Arts \cup {NoDigest}, packet : Arts \cup {NoDigest}]

Results ==
    [req : Requests, out : Arts,
     snap : Arts \cup {NoDigest}, packet : Arts \cup {NoDigest}]

ASSUME NoResultAssumption == NoResult \notin Results

\* PhaseRequest.validate_contract
ValidRequest(q) ==
    /\ (q.prev = NoDigest) <=> (q.seq = 1)
    /\ q.seq = 1 => q.inp = EmptyArts
    /\ (q.snap = NoDigest) <=> (q.seq = 1)
    /\ (q.packet # NoDigest) <=> (q.seq >= PacketPhase)

\* PhaseResult.validate_contract.  The anchored artifact of the snapshot and
\* review-packet phases stands for the digest of the set that contains it.
ValidResult(r) ==
    /\ r.snap = IF r.req.seq = 1 THEN r.out ELSE r.req.snap
    /\ r.packet = IF r.req.seq = PacketPhase - 1 THEN r.out ELSE r.req.packet

\* PhaseResult.phase_sha256
PhaseSha(r) ==
    [wf |-> r.req.wf, anchor |-> r.req.anchor,
     outs |-> Append(IF r.req.prev = NoDigest THEN <<>> ELSE r.req.prev.outs,
                     r.out)]
=============================================================================
