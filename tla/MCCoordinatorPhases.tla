-------------------------- MODULE MCCoordinatorPhases --------------------------
(* One workflow for task t1 and candidate c1, beside the files of three      *)
(* complete ones: another candidate (2), the same candidate run again (3)    *)
(* and another task with the same base and candidate (4).                    *)
EXTENDS CoordinatorPhases

MCTree ==
    [b |-> [src |-> 0, test |-> 0, more |-> 0], c1 |-> [src |-> 1, test |-> 1, more |-> 1],
     c1a |-> [src |-> 1, test |-> 1, more |-> 1], c2 |-> [src |-> 2, test |-> 1, more |-> 1],
     c3 |-> [src |-> 2, test |-> 2, more |-> 2]]

\* c2 amends c1 and a branch keeps c1; c3 amends c1, which is lost; c1a is an
\* empty commit on top of c1
MCReach ==
    [b |-> {"b"}, c1 |-> {"b", "c1"}, c1a |-> {"b", "c1", "c1a"}, c2 |-> {"b", "c1", "c2"},
     c3 |-> {"b", "c3"}]

MCTaskSpec ==
    [t \in {"t1", "t2"} |->
        [base |-> "b", tests |-> {"T", "U"}, lints |-> IF t = "t1" THEN {"L"} ELSE {},
         paths |-> [T |-> {"test"}, U |-> {"test", "more"}], allowed |-> {"c1", "c2", "c3"}]]

MCRoleTokens == [r \in ReviewRoles |-> 1]

FirstRequest(w, t, c) ==
    [wf |-> w, seq |-> 1, task |-> t, patch |-> Patch(TaskSpec[t].base, c), key |-> "k1",
     prev |-> Absent, snap |-> Absent, packet |-> Absent]

MCStart == FirstRequest(1, "t1", "c1")

Files7(q0, arts, payload, ext, runtime) ==
    LET output == PhaseOutput(q0, arts)
    IN  [result |-> PhaseResult(q0, output, ext), output |-> output, payload |-> payload,
         trans |-> PreparedTransition(q0, payload), ext |-> ext, runtime |-> runtime]

\* The files of a workflow in which everything went well, phase by phase: each
\* operator adds the directories that follow from what it is given.
Signed(w, q6, five) ==
    LET signed == Sign(q6, Bundle(q6, five), w)
    IN  five \o <<Files7(q6, signed, signed, Absent, Absent)>>

Executed(w, q5, four, b5, rows, raws) ==
    LET o5 == OuterBroker(b5, rows.final, raws)
        d5 == Files7(q5, [x \in ReviewRoles |-> BrokerSummary(b5, o5, x)], b5, o5, RuntimeBinding)
    IN  Signed(w, NextRequest(d5.result), four \o <<d5>>)

Reserved(w, q5, four, b5, rows) ==
    Executed(w, q5, four, b5, rows,
             [x \in ReviewRoles |->
                 OuterRun(b5.runs[x], <<w, x>>, rows[x], IF x = "reviewer" THEN 1 ELSE 2,
                          Envelope(b5.runs[x], <<w, x>>, "accept"))])

Batched(w, q5, four, b5) == Reserved(w, q5, four, b5, Rows(b5, "none"))

Packed(w, cand, q4, three, packet) ==
    LET d4 == Files7(q4, packet, packet, Absent, Absent)
        q5 == NextRequest(d4.result)
    IN  Batched(w, q5, three \o <<d4>>, BrokerBatch(q5, packet, cand, RuntimeBinding, w))

Ran(w, base, cand, r, q3, two, b3, runs) ==
    LET d3 == Files7(q3, runs, b3, OuterOffline(b3, runs), Absent)
        q4 == NextRequest(d3.result)
    IN  Packed(w, cand, q4, two \o <<d3>>,
               PacketFrom(q4, two[1].output.arts.policy, runs, base, cand, r))

Planned(w, base, cand, r, log, q3, two, b3) ==
    Ran(w, base, cand, r, q3, two, b3, [k \in DOMAIN b3.runs |-> RunEvidence(b3, k, TRUE, log)])

Tested(w, base, cand, r, log, d1, d2, q3) ==
    Planned(w, base, cand, r, log, q3, <<d1, d2>>, OfflineBatch(q3, cand, r))

Frozen(w, base, cand, r, log, d1, q2) ==
    LET d2 == Files7(q2, [a \in DOMAIN r |-> r[a].snap], r, Absent, Absent)
    IN  Tested(w, base, cand, r, log, d1, d2, NextRequest(d2.result))

Copied(w, t, c, log, base, cand, r) ==
    LET arts1 == [base |-> base, cand |-> cand, policy |-> PolicyReport(t, c)]
        d1 == Files7(FirstRequest(w, t, c), arts1, arts1, Absent, Absent)
    IN  [dir |-> Frozen(w, base, cand, r, log, d1, NextRequest(d1.result)),
         snaps |-> {Entry(base), Entry(cand)},
         reds |-> {Entry(r[a].snap) : a \in DOMAIN r}]

Complete(w, t, c, log) ==
    LET base == Snapshot(TaskSpec[t].base)
        cand == Snapshot(c)
    IN  Copied(w, t, c, log, base, cand, MeasuredReds(t, base, cand))

Says == {"accept", "medium", "blocker", "misbound", "invalid"}

MCOutcomes ==
    {[reviewer |-> "accept", adversary |-> s] : s \in Says}
    \cup {[reviewer |-> "blocker", adversary |-> "accept"]}

MCOthers == [w \in {2, 3, 4} |-> CASE w = 2 -> Complete(2, "t1", "c2", "l1")
                                   [] w = 3 -> Complete(3, "t1", "c1", "l1")
                                   [] w = 4 -> Complete(4, "t2", "c1", "l1")]

\* The task and the candidate of this workflow are among those for which no
\* undisturbed workflow is refused.
ASSUME WorkableAssumption == Workable
==============================================================================
