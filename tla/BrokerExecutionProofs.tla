----------------------- MODULE BrokerExecutionProofs -----------------------
(***************************************************************************)
(* Proofs about BrokerExecution for every number of executors, packets and *)
(* failing commands and for whatever batches the executors are given.      *)
(***************************************************************************)
EXTENDS BrokerExecution, FiniteSetTheorems, TLAPS

\* The sums over ledger rows stay opaque: what matters is that _reserve compares
\* the very sum that holds after the insert.

Labels ==
    Ended \cup {"probe", "absent", "create", "connect", "inspect", "reserve", "run",
               "running", "clean", "post", "boundary", "remove", "attest", "freeze"}

\* Every variable as a function, as the updates of the actions need it
Shape ==
    /\ kind \in [Executors -> Kinds]
    /\ batch \in [Executors -> Seq(Invocations)]
    /\ at \in [Executors -> Nat]
    /\ \A e \in Executors : <<kind[e], batch[e]>> \in Offered[e]
    /\ \A e \in Executors : at[e] \in 1..Len(batch[e])
    /\ owner \in [Invocations -> [Parts -> Executors \cup {Nobody}]]
    /\ linked \subseteq Invocations /\ rows \subseteq Invocations
    /\ broker \in [Invocations -> {"none", "running", "exited"}]
    /\ pc \in [Executors -> Labels]
    /\ todo \in [Executors -> Seq(Parts)]
    /\ created \in [Executors -> SUBSET Parts]
    /\ attempted \in [Executors -> BOOLEAN] /\ failed \in [Executors -> BOOLEAN]
    /\ cleanupOk \in [Executors -> BOOLEAN]
    /\ result \in [Executors -> {"none", "good", "bad"}]
    /\ faults \in 0..MaxFaults
    /\ runner \in [Invocations -> Executors \cup {Nobody}] /\ starts \in [Invocations -> Nat]
    /\ frozen \in [Executors -> SUBSET Invocations]

\* In these places the loop has a target left.
Looping(e) == pc[e] \in {"absent", "create", "remove"} => todo[e] # <<>>

\* A resource with the label of e is of e's current run, and e's created flag is
\* set for it.
OwnsCreated(e) ==
    \A i \in Invocations, p \in Parts :
        owner[i][p] = e => i = Run(e) /\ p \in created[e]

\* Between its runs and after an attested end e owns nothing.
OwnsNothing(e) ==
    pc[e] \in {"probe", "absent", "freeze", "done", "failed"} =>
        \A i \in Invocations, p \in Parts : owner[i][p] # e

\* The absence loop, as long as it has met no objection, has left only what is
\* still to be looked at.
AttestedGone(e) ==
    pc[e] = "attest" /\ cleanupOk[e] =>
        \A p \in created[e] :
            \/ owner[Run(e)][p] # e
            \/ \E j \in 1..Len(todo[e]) : todo[e][j] = p

\* The ownership check is still true when the remove command is sent.
RemovesOwn(e) == pc[e] = "remove" => owner[Run(e)][Head(todo[e])] = e

\* Behind its reservation a run is not started yet; a started one is e's.
Pays(e) ==
    /\ pc[e] = "run" => Run(e) \in rows /\ starts[Run(e)] = 0
    /\ pc[e] \in {"running", "clean"} => runner[Run(e)] = e

\* A broker container that e started and that is still there is the one e is
\* about to remove, or e has failed.
Cleans(e) ==
    \A i \in Invocations :
        runner[i] = e =>
            \/ broker[i] = "none"
            \/ failed[e]
            \/ i = Run(e) /\ pc[e] \in {"running", "clean"}
            \/ pc[e] \in {"crashed", "unattested", "failed"}

\* Only an execution without a failure reports success.
Succeeds(e) == pc[e] \in {"freeze", "done"} => ~failed[e]

ExecutorInv(e) ==
    /\ Looping(e) /\ OwnsCreated(e) /\ OwnsNothing(e) /\ AttestedGone(e)
    /\ RemovesOwn(e) /\ Pays(e) /\ Cleans(e) /\ Succeeds(e)

\* A run is started at most once, with its row in the ledger.
StartInv(i) ==
    /\ starts[i] = 0 => broker[i] = "none" /\ runner[i] = Nobody
    /\ starts[i] # 0 => i \in rows /\ starts[i] = 1

\* Two executors do not both hold the reservation of a run.
HeldOnce ==
    \A e, f \in Executors :
        pc[e] = "run" /\ pc[f] = "run" /\ Run(e) = Run(f) => e = f

PacketInv(q) ==
    /\ SumBy(Tokens, RowsOf(q)) =< TokenLimit
    /\ SumBy(Cost, RowsOf(q)) =< CostLimit
    /\ GapFree(RowsOf(q))

ExecutorsInv == \A e \in Executors : ExecutorInv(e)
StartsInv == \A i \in Invocations : StartInv(i)
PacketsInv == \A q \in Packets : PacketInv(q)

BInv == Shape /\ ExecutorsInv /\ StartsInv /\ HeldOnce /\ PacketsInv
-----------------------------------------------------------------------------
(***************************************************************************)
(* The operators of the model.                                             *)
(***************************************************************************)

\* The sum over no rows
LEMMA SumEmpty == ASSUME NEW w PROVE SumBy(w, {}) = 0
<1> DEFINE x(s) == CHOOSE y \in s : TRUE
<1> DEFINE it == CHOOSE g : g = [s \in SUBSET {} |->
                    IF s = {} THEN 0 ELSE g[s \ {x(s)}] + w[RoleOf(x(s))]]
<1>1. SumBy(w, {}) = it[{}]
  BY Zenon DEF SumBy, FoldSet, MapThenFoldSet
<1> DEFINE h == [s \in SUBSET {} |-> 0]
<1>2. h = [s \in SUBSET {} |->
              IF s = {} THEN 0 ELSE h[s \ {x(s)}] + w[RoleOf(x(s))]]
  OBVIOUS
<1>3. it = [s \in SUBSET {} |->
              IF s = {} THEN 0 ELSE it[s \ {x(s)}] + w[RoleOf(x(s))]]
  BY <1>2, Zenon
<1> HIDE DEF it
<1>4. it[{}] = 0
  BY <1>3
<1> QED
  BY <1>1, <1>4

\* The cleanup has every created resource as a target.
LEMMA TargetsAll ==
    ASSUME NEW c \in SUBSET Parts
    PROVE  /\ Targets(c) \in Seq(Parts)
           /\ \A p \in c : \E j \in 1..Len(Targets(c)) : Targets(c)[j] = p
<1> DEFINE Only(p) == IF p \in c THEN <<p>> ELSE <<>>
<1> DEFINE g == Only("gateway")
<1> DEFINE n == Only("internal")
<1> DEFINE x == Only("external")
<1>1. /\ g \in Seq(Parts) /\ n \in Seq(Parts) /\ x \in Seq(Parts)
      /\ "gateway" \in c => Len(g) = 1 /\ g[1] = "gateway"
      /\ "internal" \in c => Len(n) = 1 /\ n[1] = "internal"
      /\ "external" \in c => Len(x) = 1 /\ x[1] = "external"
  <2>1. /\ <<"gateway">> \in Seq(Parts) /\ <<"internal">> \in Seq(Parts)
        /\ <<"external">> \in Seq(Parts) /\ <<>> \in Seq(Parts)
    BY DEF Parts
  <2>2. \A v : Len(<<v>>) = 1 /\ <<v>>[1] = v
    OBVIOUS
  <2> QED
    BY <2>1, <2>2
<1>2. Targets(c) = (g \o n) \o x
  BY DEF Targets
<1> HIDE DEF g, n, x
<1> DEFINE gn == g \o n
<1>3. /\ gn \in Seq(Parts) /\ Len(gn) = Len(g) + Len(n)
      /\ Len(g) \in Nat /\ Len(n) \in Nat /\ Len(x) \in Nat
      /\ "gateway" \in c => gn[1] = "gateway"
      /\ "internal" \in c => gn[Len(g) + 1] = "internal"
  BY <1>1
<1> HIDE DEF gn
<1>4. /\ Targets(c) \in Seq(Parts) /\ Len(Targets(c)) = Len(gn) + Len(x)
      /\ \A j \in 1..Len(gn) : Targets(c)[j] = gn[j]
      /\ "external" \in c => Targets(c)[Len(gn) + 1] = "external"
  BY <1>1, <1>2, <1>3 DEF gn
<1>5. "gateway" \in c => \E j \in 1..Len(Targets(c)) : Targets(c)[j] = "gateway"
  BY <1>1, <1>3, <1>4
<1>6. "internal" \in c => \E j \in 1..Len(Targets(c)) : Targets(c)[j] = "internal"
  <2> SUFFICES ASSUME "internal" \in c
               PROVE  \E j \in 1..Len(Targets(c)) : Targets(c)[j] = "internal"
    OBVIOUS
  <2>1. Len(gn) = Len(g) + 1 /\ Len(g) \in Nat /\ Len(x) \in Nat
    BY <1>1, <1>3
  <2>2. Len(Targets(c)) = Len(g) + 1 + Len(x)
    BY <1>4, <2>1
  <2>3. Len(g) + 1 \in 1..Len(gn) /\ Len(g) + 1 \in 1..Len(Targets(c))
    BY <2>1, <2>2
  <2> QED
    BY <1>3, <1>4, <2>3
<1>7. "external" \in c => \E j \in 1..Len(Targets(c)) : Targets(c)[j] = "external"
  <2> SUFFICES ASSUME "external" \in c
               PROVE  \E j \in 1..Len(Targets(c)) : Targets(c)[j] = "external"
    OBVIOUS
  <2>0. Len(x) = 1
    BY <1>1
  <2>1. Len(Targets(c)) = Len(gn) + 1 /\ Len(gn) \in Nat
    BY <1>3, <1>4, <2>0
  <2>2. Len(gn) + 1 \in 1..Len(Targets(c))
    BY <2>1
  <2> QED
    BY <1>4, <2>2
<1> QED
  BY <1>4, <1>5, <1>6, <1>7 DEF Parts

\* One element less to look at
LEMMA TailHas ==
    ASSUME NEW S, NEW s \in Seq(S), s # <<>>, NEW j \in 1..Len(s)
    PROVE  /\ Tail(s) \in Seq(S) /\ Head(s) \in S
           /\ s[j] = Head(s) \/ \E k \in 1..Len(Tail(s)) : Tail(s)[k] = s[j]
<1>1. Tail(s) \in Seq(S) /\ Head(s) \in S /\ Len(Tail(s)) = Len(s) - 1 /\ Len(s) \in Nat
  OBVIOUS
<1>2. CASE j = 1
  BY <1>1, <1>2
<1>3. CASE j # 1
  <2>1. j - 1 \in 1..Len(Tail(s)) /\ Tail(s)[j - 1] = s[j]
    BY <1>1, <1>3
  <2> QED
    BY <1>1, <2>1
<1> QED
  BY <1>2, <1>3

\* A set of two
LEMMA PairFinite == ASSUME NEW a, NEW b PROVE IsFiniteSet({a, b})
<1>1. IsFiniteSet({a})
  BY FS_Singleton
<1>2. IsFiniteSet({a} \cup {b})
  BY <1>1, FS_AddElement
<1>3. {a} \cup {b} = {a, b}
  OBVIOUS
<1> QED
  BY <1>2, <1>3

\* The rows of a role of a packet
Mine(i) == {r \in RowsOf(PacketOf(i)) : RoleOf(r) = RoleOf(i)}

\* With gap-free attempts, the next attempt is not in the ledger yet and leaves
\* no gap.
LEMMA NextAttempt ==
    ASSUME rows \subseteq Invocations, NEW i \in Invocations,
           GapFree(Mine(i)), AttemptOf(i) = Cardinality(Mine(i)) + 1
    PROVE  /\ i \notin rows
           /\ \A n \in 1..AttemptOf(i) :
                 <<PacketOf(i), RoleOf(i), n>> \in rows \cup {i}
<1> DEFINE q == PacketOf(i)
<1> DEFINE o == RoleOf(i)
<1> DEFINE t(n) == <<q, o, n>>
<1>1. /\ q \in Packets /\ o \in Roles /\ AttemptOf(i) \in {1, 2}
      /\ i = t(AttemptOf(i))
  BY DEF Invocations, PacketOf, RoleOf, AttemptOf, Attempts
<1>2. \A r \in Mine(i) : r \in rows /\ (r = t(1) \/ r = t(2))
  BY DEF Mine, RowsOf, Invocations, PacketOf, RoleOf, Attempts
<1>3. \A n \in {1, 2} : t(n) \in rows => t(n) \in Mine(i)
  BY DEF Mine, RowsOf, PacketOf, RoleOf
<1>4. t(2) \in Mine(i) => t(1) \in Mine(i)
  BY DEF GapFree, AttemptOf, PacketOf, RoleOf
<1>5. t(1) # t(2)
  OBVIOUS
<1> HIDE DEF t
<1>6. CASE AttemptOf(i) = 1
  <2>1. Cardinality(Mine(i)) = 0
    <3>1. Mine(i) \subseteq {t(1), t(2)}
      BY <1>2
    <3>2. IsFiniteSet(Mine(i))
      BY <3>1, PairFinite, FS_Subset
    <3>3. Cardinality(Mine(i)) \in Nat
      BY <3>2, FS_CardinalityType
    <3> QED
      BY <1>6, <3>3
  <2>2. Mine(i) = {}
    <3>1. Mine(i) \subseteq {t(1), t(2)}
      BY <1>2
    <3>2. IsFiniteSet(Mine(i))
      BY <3>1, PairFinite, FS_Subset
    <3> QED
      BY <2>1, <3>2, FS_EmptySet
  <2>3. t(1) \notin rows
    BY <1>3, <2>2
  <2> QED
    BY <1>1, <1>6, <2>3 DEF t
<1>7. CASE AttemptOf(i) = 2
  <2>1. IsFiniteSet(Mine(i))
    <3>1. Mine(i) \subseteq {t(1), t(2)}
      BY <1>2
    <3> QED
      BY <3>1, PairFinite, FS_Subset
  <2>2. Cardinality(Mine(i)) = 1
    <3>1. Cardinality(Mine(i)) \in Nat
      BY <2>1, FS_CardinalityType
    <3> QED
      BY <1>7, <3>1
  <2>3. PICK r : Mine(i) = {r}
    BY <2>1, <2>2, FS_Singleton
  <2>4. r = t(1)
    BY <1>2, <1>4, <1>5, <2>3
  <2>5. t(1) \in rows /\ t(2) \notin rows
    BY <1>2, <1>3, <1>5, <2>3, <2>4
  <2> QED
    BY <1>1, <1>7, <2>5 DEF t
<1> QED
  BY <1>1, <1>6, <1>7
-----------------------------------------------------------------------------
(***************************************************************************)
(* What the step of one executor leaves alone.                             *)
(***************************************************************************)

\* The locals of executor f do not change.
SameLocals(f) ==
    /\ pc'[f] = pc[f] /\ at'[f] = at[f] /\ batch'[f] = batch[f]
    /\ todo'[f] = todo[f] /\ created'[f] = created[f]
    /\ failed'[f] = failed[f] /\ cleanupOk'[f] = cleanupOk[f]

\* Nor does what f has in the runtime and in the ledger.
SameHoldings(f) ==
    /\ \A i \in Invocations, p \in Parts : (owner'[i][p] = f) <=> (owner[i][p] = f)
    /\ \A i \in Invocations : (runner'[i] = f) <=> (runner[i] = f)
    /\ \A i \in Invocations :
          runner[i] = f /\ broker[i] = "none" => broker'[i] = "none"
    /\ rows \subseteq rows'
    /\ pc[f] = "run" => starts'[Run(f)] = starts[Run(f)]

\* Nobody's holdings change.
SameRuntime ==
    /\ owner' = owner /\ broker' = broker /\ runner' = runner
    /\ starts' = starts /\ rows' = rows

-----------------------------------------------------------------------------

\* The run of an executor is an invocation.
LEMMA RunType ==
    ASSUME Shape, NEW e \in Executors
    PROVE  Run(e) \in Invocations
<1>1. batch[e] \in Seq(Invocations) /\ at[e] \in 1..Len(batch[e])
  BY DEF Shape
<1> QED
  BY <1>1 DEF Run

\* A command counts its fault.
LEMMA OutcomeType ==
    ASSUME Shape, NEW o, Outcome(o)
    PROVE  o \in {"ok", "early", "late"} /\ faults' \in 0..MaxFaults
<1>1. MaxFaults \in Nat /\ faults \in 0..MaxFaults
  BY BrokerAssumptions DEF Shape
<1> QED
  BY <1>1 DEF Outcome

\* The other executors
LEMMA OtherExecutor ==
    ASSUME Shape, NEW f \in Executors, ExecutorInv(f), SameLocals(f), SameHoldings(f)
    PROVE  ExecutorInv(f)'
<1>1. Run(f)' = Run(f) /\ Run(f) \in Invocations
  BY RunType DEF Run, SameLocals
<1>2. Looping(f)'
  BY DEF ExecutorInv, Looping, SameLocals
<1>3. OwnsCreated(f)'
  BY <1>1 DEF ExecutorInv, OwnsCreated, SameLocals, SameHoldings
<1>4. OwnsNothing(f)'
  BY DEF ExecutorInv, OwnsNothing, SameLocals, SameHoldings
<1>5. AttestedGone(f)'
  <2>1. created[f] \subseteq Parts
    BY DEF Shape
  <2> QED
    BY <1>1, <2>1 DEF ExecutorInv, AttestedGone, SameLocals, SameHoldings
<1>6. RemovesOwn(f)'
  <2> SUFFICES ASSUME pc[f] = "remove" PROVE owner'[Run(f)][Head(todo[f])] = f
    BY <1>1 DEF RemovesOwn, SameLocals
  <2>1. Head(todo[f]) \in Parts
    <3>1. todo[f] \in Seq(Parts) /\ todo[f] # <<>>
      BY DEF ExecutorInv, Looping, Shape
    <3> QED
      BY <3>1
  <2> QED
    BY <1>1, <2>1 DEF ExecutorInv, RemovesOwn, SameHoldings
<1>7. Pays(f)'
  BY <1>1 DEF ExecutorInv, Pays, SameLocals, SameHoldings
<1>8. Cleans(f)' /\ Succeeds(f)'
  BY <1>1 DEF ExecutorInv, Cleans, Succeeds, SameLocals, SameHoldings
<1> QED
  BY <1>2, <1>3, <1>4, <1>5, <1>6, <1>7, <1>8 DEF ExecutorInv

\* The step of executor e, put together
LEMMA Together ==
    ASSUME BInv, NEW e \in Executors, Shape', ExecutorInv(e)',
           \A f \in Executors \ {e} : SameLocals(f) /\ SameHoldings(f),
           StartsInv', HeldOnce', PacketsInv'
    PROVE  BInv'
<1>1. \A f \in Executors \ {e} : ExecutorInv(f)'
  BY OtherExecutor DEF BInv, ExecutorsInv
<1> QED
  BY <1>1 DEF BInv, ExecutorsInv

\* A step that touches nobody's holdings: e needs only what it says of itself.
LEMMA QuietStep ==
    ASSUME BInv, NEW e \in Executors, Shape', SameRuntime,
           \A f \in Executors \ {e} : SameLocals(f),
           pc[e] \notin Ended,
           pc'[e] \notin {"run", "running", "clean"},
           pc[e] \in {"running", "clean"} => pc'[e] = "crashed",
           failed[e] => failed'[e],
           \/ Run(e)' = Run(e) /\ created[e] \subseteq created'[e]
           \/ \A i \in Invocations, p \in Parts : owner[i][p] # e,
           Looping(e)', OwnsNothing(e)', AttestedGone(e)', RemovesOwn(e)', Succeeds(e)'
    PROVE  BInv'
<1>1. OwnsCreated(e)'
  BY DEF BInv, ExecutorsInv, ExecutorInv, OwnsCreated, SameRuntime
<1>2. Pays(e)'
  BY DEF Pays
<1>3. Cleans(e)'
  BY DEF BInv, ExecutorsInv, ExecutorInv, Cleans, SameRuntime, Ended
<1>4. ExecutorInv(e)'
  BY <1>1, <1>2, <1>3 DEF ExecutorInv
<1>5. \A f \in Executors \ {e} : SameLocals(f) /\ SameHoldings(f)
  BY DEF SameRuntime, SameHoldings
<1>6. StartsInv'
  BY DEF BInv, StartsInv, StartInv, SameRuntime
<1>7. HeldOnce'
  <2> SUFFICES ASSUME NEW g \in Executors, NEW f \in Executors,
                      pc'[g] = "run", pc'[f] = "run", Run(g)' = Run(f)'
               PROVE  g = f
    BY DEF HeldOnce
  <2>1. g # e /\ f # e
    OBVIOUS
  <2>2. pc[g] = "run" /\ pc[f] = "run" /\ Run(g) = Run(f)
    BY <2>1 DEF SameLocals, Run
  <2> QED
    BY <2>2 DEF BInv, HeldOnce
<1>8. PacketsInv'
  BY DEF BInv, PacketsInv, PacketInv, RowsOf, SameRuntime
<1> QED
  BY <1>4, <1>5, <1>6, <1>7, <1>8, Together
\* e goes to l with the targets t, and changes no other locals but its flags.
Sets(e, l, t, b, c) ==
    /\ pc' = [pc EXCEPT ![e] = l]
    /\ todo' = [todo EXCEPT ![e] = t]
    /\ failed' = [failed EXCEPT ![e] = b]
    /\ cleanupOk' = [cleanupOk EXCEPT ![e] = c]
    /\ UNCHANGED <<kind, batch, at, created>>

\* The flags that a plain step does not look at stay.
PlainStep(e) ==
    /\ SameRuntime /\ linked' \subseteq Invocations /\ faults' \in 0..MaxFaults
    /\ frozen' \in [Executors -> SUBSET Invocations]
    /\ UNCHANGED <<attempted, result>>
    /\ UNCHANGED <<kind, batch, at, created>>

\* Where e may go by a plain step, and with what
MayGo(e, l, t, b, c) ==
    /\ l \in Labels /\ t \in Seq(Parts) /\ b \in BOOLEAN /\ c \in BOOLEAN
    /\ pc[e] \notin Ended
    /\ pc[e] \in {"running", "clean"} => l = "crashed"
    /\ l \notin {"run", "running", "clean"}
    /\ failed[e] => b
    /\ l \in {"absent", "create", "remove"} => t # <<>>
    /\ l \in {"probe", "absent", "freeze", "done", "failed"} =>
          pc[e] \in {"probe", "absent", "freeze"}
    /\ l = "attest" /\ c => \A p \in created[e] :
                              \/ owner[Run(e)][p] # e
                              \/ \E j \in 1..Len(t) : t[j] = p
    /\ l = "remove" => owner[Run(e)][Head(t)] = e
    /\ l \in {"freeze", "done"} => ~b

\* Most steps are of this kind.
LEMMA QuietSets ==
    ASSUME BInv, NEW e \in Executors, NEW l, NEW t, NEW b, NEW c,
           Sets(e, l, t, b, c), PlainStep(e), MayGo(e, l, t, b, c)
    PROVE  BInv'
<1> USE DEF MayGo, PlainStep
<1>1. Shape
  BY DEF BInv
<1>2. /\ pc'[e] = l /\ todo'[e] = t /\ failed'[e] = b /\ cleanupOk'[e] = c
      /\ created' = created /\ owner' = owner /\ Run(e)' = Run(e)
      /\ \A f \in Executors \ {e} : SameLocals(f)
  BY <1>1 DEF Sets, Shape, SameLocals, SameRuntime, Run
<1>3. Shape'
  <2>1. /\ pc' \in [Executors -> Labels] /\ todo' \in [Executors -> Seq(Parts)]
        /\ failed' \in [Executors -> BOOLEAN] /\ cleanupOk' \in [Executors -> BOOLEAN]
    BY <1>1 DEF Sets, Shape
  <2>2. UNCHANGED <<kind, batch, at, created, attempted, result>>
        /\ UNCHANGED <<owner, broker, runner, starts, rows>>
    BY DEF Sets, SameRuntime
  <2> QED
    BY <1>1, <2>1, <2>2 DEF Shape
<1>4. Looping(e)'
  BY <1>2 DEF Looping
<1>5. OwnsNothing(e)'
  BY <1>2 DEF BInv, ExecutorsInv, ExecutorInv, OwnsNothing
<1>6. AttestedGone(e)'
  BY <1>2 DEF AttestedGone
<1>7. RemovesOwn(e)' /\ Succeeds(e)'
  BY <1>2 DEF RemovesOwn, Succeeds
<1> QED
  BY <1>2, <1>3, <1>4, <1>5, <1>6, <1>7, QuietStep

\* A local that is not assigned
LEMMA Unassigned ==
    ASSUME Shape, NEW e \in Executors
    PROVE  /\ pc = [pc EXCEPT ![e] = pc[e]]
           /\ todo = [todo EXCEPT ![e] = todo[e]]
           /\ failed = [failed EXCEPT ![e] = failed[e]]
           /\ cleanupOk = [cleanupOk EXCEPT ![e] = cleanupOk[e]]
           /\ pc[e] \in Labels /\ todo[e] \in Seq(Parts)
           /\ failed[e] \in BOOLEAN /\ cleanupOk[e] \in BOOLEAN
           /\ created[e] \in SUBSET Parts
  BY DEF Shape

\* The orders of the loops
LEMMA Orders ==
    /\ <<"gateway", "internal", "external">> \in Seq(Parts)
    /\ <<"gateway", "internal", "external">> # <<>>
    /\ <<"internal", "external", "gateway">> \in Seq(Parts)
    /\ <<"internal", "external", "gateway">> # <<>>
    /\ {} \in SUBSET Parts
  BY DEF Parts

\* The empty sequence
LEMMA EmptyLength == Len(<<>>) = 0
  OBVIOUS

\* A loop that goes on
LEMMA LoopGoesOn ==
    ASSUME NEW s \in Seq(Parts), s # <<>>
    PROVE  /\ Head(s) \in Parts /\ Tail(s) \in Seq(Parts)
           /\ Len(s) > 1 => Tail(s) # <<>>
<1>1. Head(s) \in Parts /\ Tail(s) \in Seq(Parts) /\ Len(Tail(s)) = Len(s) - 1
      /\ Len(s) \in Nat
  OBVIOUS
<1>2. ASSUME Len(s) > 1, Tail(s) = <<>> PROVE FALSE
  <2>1. Len(Tail(s)) = Len(<<>>)
    BY <1>2, Zenon
  <2>2. Len(<<>>) = 0
    OBVIOUS
  <2>3. Len(s) - 1 = 0
    BY <1>1, <2>1, <2>2
  <2>4. Len(s) \in Nat /\ Len(s) > 1
    BY <1>1, <1>2, Zenon
  <2>5. \A k \in Nat : ~ (k - 1 = 0 /\ k > 1)
    OBVIOUS
  <2> QED
    BY <2>3, <2>4, <2>5, Zenon
<1> QED
  BY <1>1, <1>2

\* The probe of the runtime
LEMMA ProbeKeeps ==
    ASSUME BInv, NEW e \in Executors, Probe(e)
    PROVE  BInv'
<1>1. PICK o \in {"ok", "early"} :
         /\ Outcome(o) /\ pc[e] = "probe"
         /\ pc' = [pc EXCEPT ![e] = IF o = "ok" THEN "absent" ELSE "failed"]
         /\ todo' = [todo EXCEPT ![e] = <<"gateway", "internal", "external">>]
  BY DEF Probe, Goto
<1>2. Shape /\ faults' \in 0..MaxFaults
  BY <1>1, OutcomeType DEF BInv
<1>3. PlainStep(e) /\ UNCHANGED <<failed, cleanupOk>>
  BY <1>2 DEF Probe, PlainStep, SameRuntime, runtime, Shape
<1>4. Sets(e, IF o = "ok" THEN "absent" ELSE "failed",
           <<"gateway", "internal", "external">>, failed[e], cleanupOk[e])
  BY <1>1, <1>2, <1>3, Unassigned DEF Sets, PlainStep
<1>5. MayGo(e, IF o = "ok" THEN "absent" ELSE "failed",
            <<"gateway", "internal", "external">>, failed[e], cleanupOk[e])
  BY <1>1, <1>2, Unassigned, Orders DEF MayGo, Labels, Ended
<1> QED
  BY <1>3, <1>4, <1>5, QuietSets

\* A failing step in front of the broker goes to the cleanup of what was created.
LEMMA AbortKeeps ==
    ASSUME BInv, NEW e \in Executors, NEW cs \in SUBSET Parts, Abort(e, cs),
           PlainStep(e), UNCHANGED cleanupOk,
           pc[e] \notin Ended, pc[e] \notin {"running", "clean"}
    PROVE  BInv'
<1>1. Shape
  BY DEF BInv
<1>2. Targets(cs) \in Seq(Parts)
  BY TargetsAll
<1>3. Sets(e, "boundary", Targets(cs), TRUE, cleanupOk[e])
  BY <1>1, Unassigned DEF Abort, TakeDown, Goto, Sets, PlainStep
<1>4. MayGo(e, "boundary", Targets(cs), TRUE, cleanupOk[e])
  BY <1>1, <1>2, Unassigned DEF MayGo, Labels
<1> QED
  BY <1>3, <1>4, QuietSets

\* The absence commands
LEMMA AbsentKeeps ==
    ASSUME BInv, NEW e \in Executors, Absent(e)
    PROVE  BInv'
<1>1. PICK o \in {"ok", "early"} :
         /\ Outcome(o) /\ pc[e] = "absent"
         /\ IF o = "ok" /\ owner[Run(e)][Head(todo[e])] = Nobody
            THEN /\ IF Len(todo[e]) > 1
                    THEN /\ todo' = [todo EXCEPT ![e] = Tail(@)] /\ Goto(e, "absent")
                    ELSE /\ todo' = [todo EXCEPT ![e] = <<"internal", "external", "gateway">>]
                         /\ Goto(e, "create")
                 /\ UNCHANGED failed
            ELSE Abort(e, {})
  BY DEF Absent
<1>2. Shape /\ faults' \in 0..MaxFaults
  BY <1>1, OutcomeType DEF BInv
<1>3. PlainStep(e) /\ UNCHANGED cleanupOk
  BY <1>2 DEF Absent, PlainStep, SameRuntime, runtime, Shape
<1>4. todo[e] # <<>> /\ todo[e] \in Seq(Parts)
  BY <1>1, <1>2 DEF BInv, ExecutorsInv, ExecutorInv, Looping, Shape
<1>5. CASE Abort(e, {})
  BY <1>1, <1>3, <1>5, Orders, AbortKeeps DEF Ended
<1>6. CASE ~ Abort(e, {}) /\ Len(todo[e]) > 1
  <2>1. Sets(e, "absent", Tail(todo[e]), failed[e], cleanupOk[e])
    BY <1>1, <1>2, <1>3, <1>6, Unassigned DEF Sets, Goto, PlainStep, Shape
  <2>2. MayGo(e, "absent", Tail(todo[e]), failed[e], cleanupOk[e])
    BY <1>1, <1>2, <1>4, <1>6, Unassigned, LoopGoesOn DEF MayGo, Labels, Ended
  <2> QED
    BY <1>3, <2>1, <2>2, QuietSets
<1>7. CASE ~ Abort(e, {}) /\ ~ (Len(todo[e]) > 1)
  <2>1. Sets(e, "create", <<"internal", "external", "gateway">>, failed[e], cleanupOk[e])
    BY <1>1, <1>2, <1>3, <1>7, Unassigned DEF Sets, Goto, PlainStep, Shape
  <2>2. MayGo(e, "create", <<"internal", "external", "gateway">>, failed[e],
              cleanupOk[e])
    BY <1>1, <1>2, Unassigned, Orders DEF MayGo, Labels, Ended
  <2> QED
    BY <1>3, <2>1, <2>2, QuietSets
<1> QED
  BY <1>5, <1>6, <1>7
\* The connection of the gateway
LEMMA ConnectKeeps ==
    ASSUME BInv, NEW e \in Executors, Connect(e)
    PROVE  BInv'
<1>1. PICK o \in {"ok", "early", "late"} :
         /\ Outcome(o) /\ pc[e] = "connect"
         /\ linked' = IF o = "early" THEN linked ELSE linked \cup {Run(e)}
         /\ IF o = "ok" THEN Goto(e, "inspect") /\ UNCHANGED <<todo, failed>>
                        ELSE Abort(e, created[e])
  BY DEF Connect
<1>2. Shape /\ faults' \in 0..MaxFaults
  BY <1>1, OutcomeType DEF BInv
<1>3. PlainStep(e) /\ UNCHANGED cleanupOk
  BY <1>1, <1>2, RunType DEF Connect, PlainStep, SameRuntime, Shape
<1>4. CASE Abort(e, created[e])
  BY <1>1, <1>2, <1>3, <1>4, Unassigned, AbortKeeps DEF Ended
<1>5. CASE ~ Abort(e, created[e])
  <2>1. Sets(e, "inspect", todo[e], failed[e], cleanupOk[e])
    BY <1>1, <1>2, <1>3, <1>5, Unassigned DEF Sets, Goto, PlainStep
  <2>2. MayGo(e, "inspect", todo[e], failed[e], cleanupOk[e])
    BY <1>1, <1>2, Unassigned DEF MayGo, Labels, Ended
  <2> QED
    BY <1>3, <2>1, <2>2, QuietSets
<1> QED
  BY <1>4, <1>5

\* The inspection of the boundary
LEMMA InspectKeeps ==
    ASSUME BInv, NEW e \in Executors, Inspect(e)
    PROVE  BInv'
<1>1. PICK o \in {"ok", "early"} :
         /\ Outcome(o) /\ pc[e] = "inspect"
         /\ IF o = "ok" /\ BoundaryIntact(e)
            THEN Goto(e, "reserve") /\ UNCHANGED <<todo, failed>>
            ELSE Abort(e, created[e])
  BY DEF Inspect
<1>2. Shape /\ faults' \in 0..MaxFaults
  BY <1>1, OutcomeType DEF BInv
<1>3. PlainStep(e) /\ UNCHANGED cleanupOk
  BY <1>2 DEF Inspect, PlainStep, SameRuntime, runtime, Shape
<1>4. CASE Abort(e, created[e])
  BY <1>1, <1>2, <1>3, <1>4, Unassigned, AbortKeeps DEF Ended
<1>5. CASE ~ Abort(e, created[e])
  <2>1. Sets(e, "reserve", todo[e], failed[e], cleanupOk[e])
    BY <1>1, <1>2, <1>3, <1>5, Unassigned DEF Sets, Goto, PlainStep
  <2>2. MayGo(e, "reserve", todo[e], failed[e], cleanupOk[e])
    BY <1>1, <1>2, Unassigned DEF MayGo, Labels, Ended
  <2> QED
    BY <1>3, <2>1, <2>2, QuietSets
<1> QED
  BY <1>4, <1>5

\* The second inspection
LEMMA PostInspectKeeps ==
    ASSUME BInv, NEW e \in Executors, PostInspect(e)
    PROVE  BInv'
<1>1. PICK o \in {"ok", "early"} :
         /\ Outcome(o) /\ pc[e] = "post"
         /\ LET same == o = "ok" /\ BoundaryIntact(e)
            IN  /\ failed' = [failed EXCEPT ![e] = @ \/ (kind[e] = "outer" /\ ~same)]
                /\ cleanupOk' = [cleanupOk EXCEPT ![e] = @ /\ (kind[e] = "session" => same)]
         /\ TakeDown(e, created[e])
  BY DEF PostInspect
<1> DEFINE same == o = "ok" /\ BoundaryIntact(e)
<1> DEFINE b == failed[e] \/ (kind[e] = "outer" /\ ~same)
<1> DEFINE c == cleanupOk[e] /\ (kind[e] = "session" => same)
<1>2. Shape /\ faults' \in 0..MaxFaults
  BY <1>1, OutcomeType DEF BInv
<1>3. PlainStep(e)
  BY <1>2 DEF PostInspect, PlainStep, SameRuntime, runtime, Shape
<1>4. Targets(created[e]) \in Seq(Parts)
  BY <1>2, Unassigned, TargetsAll
<1>5. Sets(e, "boundary", Targets(created[e]), b, c)
  BY <1>1, <1>2, <1>3 DEF Sets, TakeDown, Goto, PlainStep, Shape
<1>6. b \in BOOLEAN /\ c \in BOOLEAN /\ (failed[e] => b)
  BY Zenon
<1> HIDE DEF b, c
<1>7. MayGo(e, "boundary", Targets(created[e]), b, c)
  BY <1>1, <1>2, <1>4, <1>6 DEF MayGo, Labels, Ended
<1> QED
  BY <1>3, <1>5, <1>7, QuietSets

\* The ownership check in front of a removal
LEMMA InspectOwnedKeeps ==
    ASSUME BInv, NEW e \in Executors, InspectOwned(e)
    PROVE  BInv'
<1>1. PICK o \in {"ok", "early"} :
         /\ Outcome(o) /\ pc[e] = "boundary" /\ todo[e] # <<>>
         /\ IF o = "ok" /\ owner[Run(e)][Head(todo[e])] = e
            THEN Goto(e, "remove") /\ UNCHANGED <<cleanupOk, todo>>
            ELSE /\ cleanupOk' = [cleanupOk EXCEPT ![e] = FALSE]
                 /\ todo' = [todo EXCEPT ![e] = Tail(@)]
                 /\ UNCHANGED pc
  BY DEF InspectOwned
<1>2. Shape /\ faults' \in 0..MaxFaults
  BY <1>1, OutcomeType DEF BInv
<1>3. PlainStep(e) /\ UNCHANGED failed
  BY <1>2 DEF InspectOwned, PlainStep, SameRuntime, runtime, Shape
<1>4. Tail(todo[e]) \in Seq(Parts)
  BY <1>1, <1>2, Unassigned, LoopGoesOn
<1>5. CASE o = "ok" /\ owner[Run(e)][Head(todo[e])] = e
  <2>1. Sets(e, "remove", todo[e], failed[e], cleanupOk[e])
    BY <1>1, <1>2, <1>3, <1>5, Unassigned DEF Sets, Goto, PlainStep
  <2>2. MayGo(e, "remove", todo[e], failed[e], cleanupOk[e])
    BY <1>1, <1>2, <1>5, Unassigned DEF MayGo, Labels, Ended
  <2> QED
    BY <1>3, <2>1, <2>2, QuietSets
<1>6. CASE ~ (o = "ok" /\ owner[Run(e)][Head(todo[e])] = e)
  <2>1. Sets(e, "boundary", Tail(todo[e]), failed[e], FALSE)
    BY <1>1, <1>2, <1>3, <1>6, Unassigned DEF Sets, Goto, PlainStep, Shape
  <2>2. MayGo(e, "boundary", Tail(todo[e]), failed[e], FALSE)
    BY <1>1, <1>2, <1>4, Unassigned DEF MayGo, Labels, Ended
  <2> QED
    BY <1>3, <2>1, <2>2, QuietSets
<1> QED
  BY <1>5, <1>6

\* The absence loop begins with every created name.
LEMMA BeginAttestKeeps ==
    ASSUME BInv, NEW e \in Executors, BeginAttest(e)
    PROVE  BInv'
<1>1. /\ pc[e] = "boundary"
      /\ pc' = [pc EXCEPT ![e] = "attest"]
      /\ todo' = [todo EXCEPT ![e] = Targets(created[e])]
  BY DEF BeginAttest, Goto
<1>2. Shape
  BY DEF BInv
<1>3. PlainStep(e) /\ UNCHANGED <<failed, cleanupOk>>
  BY <1>2 DEF BeginAttest, PlainStep, SameRuntime, runtime, Shape
<1>4. /\ Targets(created[e]) \in Seq(Parts)
      /\ \A p \in created[e] :
            \E j \in 1..Len(Targets(created[e])) : Targets(created[e])[j] = p
  BY <1>2, Unassigned, TargetsAll
<1>5. Sets(e, "attest", Targets(created[e]), failed[e], cleanupOk[e])
  BY <1>1, <1>2, <1>3, Unassigned DEF Sets, PlainStep
<1>6. MayGo(e, "attest", Targets(created[e]), failed[e], cleanupOk[e])
  BY <1>1, <1>2, <1>4, Unassigned DEF MayGo, Labels, Ended
<1> QED
  BY <1>3, <1>5, <1>6, QuietSets

\* One absence command of that loop
LEMMA AttestKeeps ==
    ASSUME BInv, NEW e \in Executors, Attest(e)
    PROVE  BInv'
<1>1. PICK o \in {"ok", "early"} :
         /\ Outcome(o) /\ pc[e] = "attest" /\ todo[e] # <<>>
         /\ cleanupOk' = [cleanupOk EXCEPT ![e] =
                            @ /\ o = "ok" /\ owner[Run(e)][Head(todo[e])] = Nobody]
         /\ todo' = [todo EXCEPT ![e] = Tail(@)]
  BY DEF Attest
<1> DEFINE c == cleanupOk[e] /\ o = "ok" /\ owner[Run(e)][Head(todo[e])] = Nobody
<1>2. Shape /\ faults' \in 0..MaxFaults
  BY <1>1, OutcomeType DEF BInv
<1>3. PlainStep(e) /\ UNCHANGED <<failed, pc>>
  BY <1>2 DEF Attest, PlainStep, SameRuntime, runtime, Shape
<1>4. /\ todo[e] \in Seq(Parts) /\ Tail(todo[e]) \in Seq(Parts)
  BY <1>1, <1>2, Unassigned, LoopGoesOn
<1>5. Sets(e, "attest", Tail(todo[e]), failed[e], c)
  BY <1>1, <1>2, <1>3, Unassigned DEF Sets, PlainStep, Shape
<1>6. c \in BOOLEAN /\ (c => cleanupOk[e] /\ owner[Run(e)][Head(todo[e])] = Nobody)
  BY Zenon
<1> HIDE DEF c
<1>7. ASSUME c, NEW p \in created[e]
      PROVE  \/ owner[Run(e)][p] # e
             \/ \E j \in 1..Len(Tail(todo[e])) : Tail(todo[e])[j] = p
  <2>1. CASE \E j \in 1..Len(todo[e]) : todo[e][j] = p
    <3>1. PICK j \in 1..Len(todo[e]) : todo[e][j] = p
      BY <2>1
    <3>2. p = Head(todo[e]) \/ \E k \in 1..Len(Tail(todo[e])) : Tail(todo[e])[k] = p
      BY <1>1, <1>4, <3>1, TailHas
    <3> QED
      BY <1>6, <1>7, <3>2, BrokerAssumptions
  <2>2. CASE owner[Run(e)][p] # e
    BY <2>2
  <2> QED
    BY <1>1, <1>6, <1>7, <2>1, <2>2 DEF BInv, ExecutorsInv, ExecutorInv, AttestedGone
<1>8. MayGo(e, "attest", Tail(todo[e]), failed[e], c)
  BY <1>1, <1>2, <1>4, <1>6, <1>7, Unassigned DEF MayGo, Labels, Ended
<1> QED
  BY <1>3, <1>5, <1>8, QuietSets

\* The evidence
LEMMA FreezeKeeps ==
    ASSUME BInv, NEW e \in Executors, Freeze(e)
    PROVE  BInv'
<1>1. PICK o \in {"ok", "early"} :
         /\ Outcome(o) /\ pc[e] = "freeze"
         /\ \/ /\ frozen' = [frozen EXCEPT ![e] = RowsOf(PacketOf(Run(e)))]
               /\ pc' = [pc EXCEPT ![e] = "done"]
            \/ pc' = [pc EXCEPT ![e] = "failed"] /\ frozen' = frozen
  BY DEF Freeze, Goto
<1>2. Shape /\ faults' \in 0..MaxFaults
  BY <1>1, OutcomeType DEF BInv
<1>3. RowsOf(PacketOf(Run(e))) \subseteq Invocations
  BY <1>2 DEF RowsOf, Shape
<1>4. PlainStep(e) /\ UNCHANGED <<todo, failed, cleanupOk>>
  <2>1. frozen' \in [Executors -> SUBSET Invocations]
    BY <1>1, <1>2, <1>3 DEF Shape
  <2> QED
    BY <1>2, <2>1 DEF Freeze, PlainStep, SameRuntime, local, runtime, Shape
<1>5. PICK l \in {"done", "failed"} : pc' = [pc EXCEPT ![e] = l]
  BY <1>1
<1>6. Sets(e, l, todo[e], failed[e], cleanupOk[e])
  BY <1>2, <1>4, <1>5, Unassigned DEF Sets, PlainStep
<1>7. ~failed[e]
  BY <1>1 DEF BInv, ExecutorsInv, ExecutorInv, Succeeds
<1>8. MayGo(e, l, todo[e], failed[e], cleanupOk[e])
  BY <1>1, <1>2, <1>5, <1>7, Unassigned DEF MayGo, Labels, Ended
<1> QED
  BY <1>4, <1>6, <1>8, QuietSets

\* The end of the process
LEMMA CrashKeeps ==
    ASSUME BInv, NEW e \in Executors, Crash(e)
    PROVE  BInv'
<1>1. pc[e] \notin Ended /\ pc' = [pc EXCEPT ![e] = "crashed"]
      /\ faults < MaxFaults /\ faults' = faults + 1
  BY DEF Crash, Goto, Running
<1>2. Shape
  BY DEF BInv
<1>3. faults' \in 0..MaxFaults
  BY <1>1, <1>2, BrokerAssumptions DEF Shape
<1>4. PlainStep(e) /\ UNCHANGED <<todo, failed, cleanupOk>>
  BY <1>2, <1>3 DEF Crash, PlainStep, SameRuntime, local, runtime, Shape
<1>5. Sets(e, "crashed", todo[e], failed[e], cleanupOk[e])
  BY <1>1, <1>2, <1>4, Unassigned DEF Sets, PlainStep
<1>6. MayGo(e, "crashed", todo[e], failed[e], cleanupOk[e])
  BY <1>1, <1>2, Unassigned DEF MayGo, Labels, Ended
<1> QED
  BY <1>4, <1>5, <1>6, QuietSets
-----------------------------------------------------------------------------
(***************************************************************************)
(* The steps that take or give up something.                               *)
(***************************************************************************)

\* A step of e that does not end behind a reservation makes no second holder.
LEMMA HeldStays ==
    ASSUME HeldOnce, NEW e \in Executors, pc'[e] # "run",
           \A f \in Executors \ {e} : SameLocals(f)
    PROVE  HeldOnce'
<1> SUFFICES ASSUME NEW g \in Executors, NEW f \in Executors,
                    pc'[g] = "run", pc'[f] = "run", Run(g)' = Run(f)'
             PROVE  g = f
  BY DEF HeldOnce
<1>1. g # e /\ f # e
  OBVIOUS
<1>2. pc[g] = "run" /\ pc[f] = "run" /\ Run(g) = Run(f)
  BY <1>1 DEF SameLocals, Run
<1> QED
  BY <1>2 DEF HeldOnce

\* Between two runs: what is left to attest is nothing.
LEMMA AttestedOwnsNothing ==
    ASSUME BInv, NEW e \in Executors, pc[e] = "attest", todo[e] = <<>>, cleanupOk[e]
    PROVE  \A i \in Invocations, p \in Parts : owner[i][p] # e
<1>1. ~ \E j \in 1..Len(todo[e]) : TRUE
  <2>1. Len(todo[e]) = 0
    BY Zenon, EmptyLength
  <2> QED
    BY <2>1
<1>2. \A p \in created[e] : owner[Run(e)][p] # e
  BY <1>1 DEF BInv, ExecutorsInv, ExecutorInv, AttestedGone
<1> QED
  BY <1>2 DEF BInv, ExecutorsInv, ExecutorInv, OwnsCreated

\* The end of a run, of the batch or of the execution
LEMMA ConcludeKeeps ==
    ASSUME BInv, NEW e \in Executors, Conclude(e)
    PROVE  BInv'
<1>0. PICK o \in {"ok", "early"} :
         /\ Outcome(o)
         /\ o # "ok" => cleanupOk[e] /\ ~failed[e]
         /\ Goto(e, CASE ~cleanupOk[e] -> "unattested"
                      [] cleanupOk[e] /\ failed[e] -> "failed"
                      [] cleanupOk[e] /\ ~failed[e] /\ o # "ok" ->
                           IF kind[e] = "session" THEN "unattested" ELSE "failed"
                      [] OTHER -> IF kind[e] = "session" THEN "done"
                                  ELSE IF at[e] < Len(batch[e]) THEN "absent" ELSE "freeze")
  BY DEF Conclude
<1>1. Shape /\ faults' \in 0..MaxFaults /\ pc[e] = "attest" /\ todo[e] = <<>>
  BY <1>0, OutcomeType DEF BInv, Conclude
<1>2. PICK l \in {"unattested", "failed", "done", "absent", "freeze"} :
         /\ pc' = [pc EXCEPT ![e] = l]
         /\ l # "unattested" => cleanupOk[e]
         /\ l = "absent" => at[e] < Len(batch[e])
         /\ l \in {"done", "freeze"} => ~failed[e]
  <2>1. CASE ~cleanupOk[e]
    BY <1>0, <2>1 DEF Goto
  <2>2. CASE cleanupOk[e] /\ failed[e]
    BY <1>0, <2>2 DEF Goto
  <2>3. CASE cleanupOk[e] /\ ~failed[e] /\ o # "ok"
    BY <1>0, <2>3 DEF Goto
  <2>4. CASE cleanupOk[e] /\ ~failed[e] /\ o = "ok"
    BY <1>0, <2>4 DEF Goto
  <2> QED
    BY <2>1, <2>2, <2>3, <2>4
<1>3. UNCHANGED <<kind, batch, attempted, failed, cleanupOk>>
      /\ UNCHANGED <<owner, linked, broker, runner, starts, rows, frozen>>
  BY DEF Conclude, runtime
<1>4. pc'[e] = l
  BY <1>1, <1>2 DEF Shape
<1>5. l # "unattested" => \A i \in Invocations, p \in Parts : owner[i][p] # e
  BY <1>1, <1>2, AttestedOwnsNothing
<1>6. SameRuntime
  BY <1>3 DEF SameRuntime
<1>7. CASE l = "absent"
  <2>1. /\ at' = [at EXCEPT ![e] = at[e] + 1]
        /\ todo' = [todo EXCEPT ![e] = <<"gateway", "internal", "external">>]
        /\ created' = [created EXCEPT ![e] = {}]
        /\ result' = [result EXCEPT ![e] = "none"]
    BY <1>1, <1>4, <1>7 DEF Conclude, Shape
  <2>2. at[e] + 1 \in Nat /\ at[e] + 1 \in 1..Len(batch[e])
    <3>1. at[e] \in 1..Len(batch[e]) /\ at[e] \in Nat /\ Len(batch[e]) \in Nat
      BY <1>1 DEF Shape
    <3> QED
      BY <1>2, <1>7, <3>1
  <2>3. /\ at' \in [Executors -> Nat]
        /\ \A f \in Executors : at'[f] \in 1..Len(batch[f])
        /\ todo' \in [Executors -> Seq(Parts)]
        /\ created' \in [Executors -> SUBSET Parts]
        /\ result' \in [Executors -> {"none", "good", "bad"}]
        /\ pc' \in [Executors -> Labels]
        /\ todo'[e] # <<>>
        /\ \A f \in Executors \ {e} : SameLocals(f)
    BY <1>1, <1>2, <1>3, <1>7, <2>1, <2>2, Orders DEF Shape, Labels, SameLocals
  <2>4. Shape'
    BY <1>1, <1>3, <2>3 DEF Shape
  <2>5. Looping(e)' /\ OwnsNothing(e)' /\ AttestedGone(e)' /\ RemovesOwn(e)'
        /\ Succeeds(e)'
    BY <1>2, <1>3, <1>4, <1>5, <1>7, <2>3
    DEF Looping, OwnsNothing, AttestedGone, RemovesOwn, Succeeds
  <2> QED
    BY <1>1, <1>3, <1>4, <1>5, <1>6, <1>7, <2>3, <2>4, <2>5, QuietStep DEF Ended
<1>8. CASE l # "absent"
  <2>1. UNCHANGED <<at, todo, created, result>>
    BY <1>4, <1>8 DEF Conclude
  <2>2. /\ pc' \in [Executors -> Labels]
        /\ \A f \in Executors \ {e} : SameLocals(f)
    BY <1>1, <1>2, <1>3, <2>1 DEF Shape, Labels, Ended, SameLocals
  <2>3. Shape'
    BY <1>1, <1>3, <2>1, <2>2 DEF Shape
  <2>4. Looping(e)' /\ OwnsNothing(e)' /\ AttestedGone(e)' /\ RemovesOwn(e)'
        /\ Succeeds(e)'
    BY <1>2, <1>3, <1>4, <1>5, <1>8
    DEF Looping, OwnsNothing, AttestedGone, RemovesOwn, Succeeds
  <2>5. Run(e)' = Run(e) /\ created' = created
    BY <1>3, <2>1 DEF Run
  <2> QED
    BY <1>1, <1>3, <1>4, <1>6, <1>8, <2>2, <2>3, <2>4, <2>5, QuietStep DEF Ended
<1> QED
  BY <1>7, <1>8

\* A step that changes at most the label of one resource
LEMMA OwnerStep ==
    ASSUME BInv, NEW e \in Executors, Shape',
           \A f \in Executors \ {e} : SameLocals(f),
           UNCHANGED <<broker, runner, starts, rows>>, Run(e)' = Run(e),
           \A f \in Executors \ {e}, i \in Invocations, p \in Parts :
              (owner'[i][p] = f) <=> (owner[i][p] = f),
           \A i \in Invocations, p \in Parts :
              owner'[i][p] = e => i = Run(e) /\ p \in created'[e],
           pc[e] \in {"create", "remove"}, pc'[e] \in {"create", "connect", "boundary"},
           Looping(e)', failed[e] => failed'[e]
    PROVE  BInv'
<1>1. OwnsCreated(e)'
  BY DEF OwnsCreated
<1>2. OwnsNothing(e)' /\ AttestedGone(e)' /\ RemovesOwn(e)' /\ Pays(e)' /\ Succeeds(e)'
  BY DEF OwnsNothing, AttestedGone, RemovesOwn, Pays, Succeeds
<1>3. Cleans(e)'
  BY DEF BInv, ExecutorsInv, ExecutorInv, Cleans
<1>4. \A f \in Executors \ {e} : SameHoldings(f)
  BY DEF SameHoldings
<1>5. StartsInv' /\ PacketsInv'
  BY DEF BInv, StartsInv, StartInv, PacketsInv, PacketInv, RowsOf
<1>6. HeldOnce'
  BY HeldStays DEF BInv
<1> QED
  BY <1>1, <1>2, <1>3, <1>4, <1>5, <1>6, Together DEF ExecutorInv

\* Creating a resource
LEMMA CreateKeeps ==
    ASSUME BInv, NEW e \in Executors, Create(e)
    PROVE  BInv'
<1>0. PICK i, p : i = Run(e) /\ p = Head(todo[e])
  OBVIOUS
<1>1. PICK o \in {"ok", "early", "late"} :
         /\ Outcome(o)
         /\ created' = [created EXCEPT ![e] = @ \cup {p}]
         /\ owner' = IF owner[i][p] = Nobody /\ o # "early"
                     THEN [owner EXCEPT ![i][p] = e] ELSE owner
         /\ \/ /\ o = "ok"
               /\ todo' = [todo EXCEPT ![e] = Tail(@)]
               /\ pc' = [pc EXCEPT ![e] = IF Len(todo[e]) > 1 THEN "create" ELSE "connect"]
               /\ failed' = failed
            \/ Abort(e, created'[e])
  BY <1>0 DEF Create, Goto
<1>2. /\ Shape /\ faults' \in 0..MaxFaults /\ pc[e] = "create" /\ i \in Invocations
      /\ todo[e] \in Seq(Parts) /\ todo[e] # <<>>
  BY <1>0, <1>1, OutcomeType, RunType, Unassigned
  DEF BInv, Create, ExecutorsInv, ExecutorInv, Looping
<1>3. p \in Parts /\ Tail(todo[e]) \in Seq(Parts) /\ (Len(todo[e]) > 1 => Tail(todo[e]) # <<>>)
  BY <1>0, <1>2, LoopGoesOn
<1>4. UNCHANGED <<kind, batch, at, attempted, result, cleanupOk, linked, broker, runner>>
      /\ UNCHANGED <<starts, rows, frozen>>
  BY DEF Create
<1>5. /\ created' \in [Executors -> SUBSET Parts] /\ created'[e] = created[e] \cup {p}
      /\ created'[e] \in SUBSET Parts
      /\ \A f \in Executors \ {e} : created'[f] = created[f]
  BY <1>1, <1>2, <1>3 DEF Shape
<1>6. /\ owner' \in [Invocations -> [Parts -> Executors \cup {Nobody}]]
      /\ \A j \in Invocations, r \in Parts :
            owner'[j][r] = IF j = i /\ r = p /\ owner[i][p] = Nobody /\ o # "early"
                           THEN e ELSE owner[j][r]
  BY <1>1, <1>2, <1>3 DEF Shape
<1>7. /\ todo' \in [Executors -> Seq(Parts)] /\ pc' \in [Executors -> Labels]
      /\ failed' \in [Executors -> BOOLEAN]
      /\ pc'[e] \in {"create", "connect", "boundary"}
      /\ pc'[e] = "create" => todo'[e] # <<>>
      /\ failed[e] => failed'[e]
      /\ \A f \in Executors \ {e} : SameLocals(f)
  <2>1. CASE Abort(e, created'[e])
    <3>1. Targets(created'[e]) \in Seq(Parts)
      BY <1>5, TargetsAll
    <3>2. /\ pc' = [pc EXCEPT ![e] = "boundary"]
          /\ todo' = [todo EXCEPT ![e] = Targets(created'[e])]
          /\ failed' = [failed EXCEPT ![e] = TRUE]
      BY <2>1 DEF Abort, TakeDown, Goto
    <3> QED
      BY <1>2, <1>4, <1>5, <3>1, <3>2 DEF Shape, Labels, SameLocals
  <2>2. CASE ~ Abort(e, created'[e])
    <3>1. /\ todo' = [todo EXCEPT ![e] = Tail(todo[e])]
          /\ pc' = [pc EXCEPT ![e] = IF Len(todo[e]) > 1 THEN "create" ELSE "connect"]
          /\ failed' = failed
      BY <1>1, <1>2, <2>2 DEF Shape
    <3> QED
      BY <1>2, <1>3, <1>4, <1>5, <3>1 DEF Shape, Labels, SameLocals
  <2> QED
    BY <2>1, <2>2
<1>8. Shape'
  BY <1>2, <1>4, <1>5, <1>6, <1>7 DEF Shape
<1>9. Looping(e)' /\ Run(e)' = Run(e)
  BY <1>4, <1>7 DEF Looping, Run
<1>10. \A f \in Executors \ {e}, j \in Invocations, r \in Parts :
          (owner'[j][r] = f) <=> (owner[j][r] = f)
  BY <1>6, BrokerAssumptions
<1>11. \A j \in Invocations, r \in Parts :
          owner'[j][r] = e => j = Run(e) /\ r \in created'[e]
  BY <1>0, <1>5, <1>6 DEF BInv, ExecutorsInv, ExecutorInv, OwnsCreated
<1> QED
  BY <1>2, <1>4, <1>7, <1>8, <1>9, <1>10, <1>11, OwnerStep

\* Removing a resource: it is still the executor's own.
LEMMA RemoveKeeps ==
    ASSUME BInv, NEW e \in Executors, Remove(e)
    PROVE  BInv'
<1>0. PICK i, p : i = Run(e) /\ p = Head(todo[e])
  OBVIOUS
<1>1. PICK o \in {"ok", "early", "late"} :
         /\ Outcome(o)
         /\ \/ owner' = [owner EXCEPT ![i][p] = Nobody]
            \/ owner' = owner
         /\ linked' \subseteq linked
         /\ cleanupOk' = cleanupOk \/ cleanupOk' = [cleanupOk EXCEPT ![e] = FALSE]
  BY <1>0 DEF Remove
<1>2. /\ Shape /\ faults' \in 0..MaxFaults /\ pc[e] = "remove" /\ i \in Invocations
      /\ todo[e] \in Seq(Parts) /\ todo[e] # <<>> /\ owner[i][p] = e
  BY <1>0, <1>1, OutcomeType, RunType, Unassigned
  DEF BInv, Remove, ExecutorsInv, ExecutorInv, Looping, RemovesOwn
<1>3. p \in Parts /\ Tail(todo[e]) \in Seq(Parts)
  BY <1>0, <1>2, LoopGoesOn
<1>4. /\ pc' = [pc EXCEPT ![e] = "boundary"]
      /\ todo' = [todo EXCEPT ![e] = Tail(todo[e])]
      /\ UNCHANGED <<kind, batch, at, created, attempted, result, failed, broker, runner>>
      /\ UNCHANGED <<starts, rows, frozen>>
  BY <1>2 DEF Remove, Goto, Shape
<1>5. /\ owner' \in [Invocations -> [Parts -> Executors \cup {Nobody}]]
      /\ \A j \in Invocations, r \in Parts :
            \/ owner'[j][r] = owner[j][r]
            \/ j = i /\ r = p /\ owner'[j][r] = Nobody
  <2>1. owner \in [Invocations -> [Parts -> Executors \cup {Nobody}]]
    BY <1>2 DEF Shape
  <2>2. CASE owner' = [owner EXCEPT ![i][p] = Nobody]
    BY <1>2, <1>3, <2>1, <2>2
  <2>3. CASE owner' = owner
    BY <2>1, <2>3
  <2> QED
    BY <1>1, <2>2, <2>3
<1>6. /\ todo' \in [Executors -> Seq(Parts)] /\ pc' \in [Executors -> Labels]
      /\ cleanupOk' \in [Executors -> BOOLEAN] /\ linked' \subseteq Invocations
      /\ pc'[e] = "boundary"
      /\ \A f \in Executors \ {e} : SameLocals(f)
  BY <1>1, <1>2, <1>3, <1>4 DEF Shape, Labels, SameLocals
<1>7. Shape'
  BY <1>2, <1>4, <1>5, <1>6 DEF Shape
<1>8. Looping(e)' /\ Run(e)' = Run(e)
  BY <1>4, <1>6 DEF Looping, Run
<1>9. \A f \in Executors \ {e}, j \in Invocations, r \in Parts :
          (owner'[j][r] = f) <=> (owner[j][r] = f)
  <2>1. \A f \in Executors \ {e} : f # Nobody /\ f # e
    BY BrokerAssumptions
  <2>2. owner[i][p] = e
    BY <1>2
  <2> QED
    BY <1>5, <2>1, <2>2
<1>10. \A j \in Invocations, r \in Parts :
          owner'[j][r] = e => j = Run(e) /\ r \in created'[e]
  <2>1. e # Nobody /\ created' = created
    BY <1>4, BrokerAssumptions
  <2>2. \A j \in Invocations, r \in Parts :
           owner[j][r] = e => j = Run(e) /\ r \in created[e]
    BY DEF BInv, ExecutorsInv, ExecutorInv, OwnsCreated
  <2> QED
    BY <1>5, <2>1, <2>2
<1> QED
  BY <1>2, <1>4, <1>6, <1>7, <1>8, <1>9, <1>10, OwnerStep
\* The rows of the packets once run i is in the ledger
LEMMA ReservedPackets ==
    ASSUME BInv, NEW i \in Invocations, ReservationAllowed(i), rows' = rows \cup {i}
    PROVE  PacketsInv' /\ i \notin rows
<1>1. Shape /\ rows \subseteq Invocations
  BY DEF BInv, Shape
<1>2. /\ GapFree(Mine(i)) /\ AttemptOf(i) = Cardinality(Mine(i)) + 1
      /\ SumBy(Tokens, RowsOf(PacketOf(i)) \cup {i}) =< TokenLimit
      /\ SumBy(Cost, RowsOf(PacketOf(i)) \cup {i}) =< CostLimit
  BY DEF ReservationAllowed, Mine
<1>3. /\ i \notin rows
      /\ \A n \in 1..AttemptOf(i) :
            <<PacketOf(i), RoleOf(i), n>> \in rows \cup {i}
  BY <1>1, <1>2, NextAttempt
<1>4. ASSUME NEW q \in Packets PROVE PacketInv(q)'
  <2>1. PacketInv(q)
    BY DEF BInv, PacketsInv
  <2>2. CASE q # PacketOf(i)
    <3>1. RowsOf(q)' = RowsOf(q)
      BY <2>2 DEF RowsOf
    <3> QED
      BY <2>1, <3>1 DEF PacketInv
  <2>3. CASE q = PacketOf(i)
    <3>1. RowsOf(q)' = RowsOf(q) \cup {i}
      BY <2>3 DEF RowsOf
    <3>2. GapFree(RowsOf(q) \cup {i})
      <4> SUFFICES ASSUME NEW j \in RowsOf(q) \cup {i}, NEW n \in 1..AttemptOf(j)
                   PROVE  <<PacketOf(j), RoleOf(j), n>> \in RowsOf(q) \cup {i}
        BY DEF GapFree
      <4>1. CASE j \in RowsOf(q)
        BY <2>1, <4>1 DEF PacketInv, GapFree
      <4>2. CASE j = i
        <5>1. <<PacketOf(i), RoleOf(i), n>> \in rows \cup {i}
          BY <1>3, <4>2
        <5>2. PacketOf(<<PacketOf(i), RoleOf(i), n>>) = PacketOf(i)
          BY DEF PacketOf
        <5> QED
          BY <2>3, <4>2, <5>1, <5>2 DEF RowsOf
      <4> QED
        BY <4>1, <4>2
    <3> QED
      BY <1>2, <2>3, <3>1, <3>2 DEF PacketInv
  <2> QED
    BY <2>2, <2>3
<1> QED
  BY <1>3, <1>4 DEF PacketsInv

\* The reservation: one transaction
LEMMA ReserveKeeps ==
    ASSUME BInv, NEW e \in Executors, Reserve(e)
    PROVE  BInv'
<1>0. PICK i : i = Run(e)
  OBVIOUS
<1>1. PICK o \in {"ok", "early", "late"} :
         /\ Outcome(o)
         /\ rows' = IF o # "early" /\ ReservationAllowed(i) THEN rows \cup {i} ELSE rows
         /\ IF o = "ok" /\ ReservationAllowed(i)
            THEN /\ Goto(e, "run") /\ UNCHANGED <<todo, failed>>
                 /\ frozen' = IF kind[e] = "session"
                              THEN [frozen EXCEPT ![e] = {j \in rows' : PacketOf(j) = PacketOf(i)}]
                              ELSE frozen
            ELSE Raise(e) /\ UNCHANGED frozen
  BY <1>0 DEF Reserve
<1>2. /\ Shape /\ faults' \in 0..MaxFaults /\ pc[e] = "reserve" /\ i \in Invocations
  BY <1>0, <1>1, OutcomeType, RunType DEF BInv, Reserve
<1>3. /\ UNCHANGED <<kind, batch, at, created, attempted, result, cleanupOk>>
      /\ UNCHANGED <<owner, linked, broker, runner, starts>>
  BY DEF Reserve, runtime
<1>4. /\ rows' \subseteq Invocations /\ rows \subseteq rows'
      /\ frozen' \in [Executors -> SUBSET Invocations]
  <2>1. rows' \subseteq Invocations /\ rows \subseteq rows'
    BY <1>1, <1>2 DEF Shape
  <2>2. frozen \in [Executors -> SUBSET Invocations]
    BY <1>2 DEF Shape
  <2>3. {j \in rows' : PacketOf(j) = PacketOf(i)} \in SUBSET Invocations
    BY <2>1
  <2>4. \/ frozen' = frozen
        \/ frozen' = [frozen EXCEPT ![e] = {j \in rows' : PacketOf(j) = PacketOf(i)}]
    BY <1>1
  <2> QED
    BY <2>1, <2>2, <2>3, <2>4
<1>5. /\ pc' \in [Executors -> Labels] /\ todo' \in [Executors -> Seq(Parts)]
      /\ failed' \in [Executors -> BOOLEAN]
      /\ pc'[e] \in {"run", "post", "boundary"}
      /\ pc'[e] = "run" => o = "ok" /\ ReservationAllowed(i)
      /\ failed[e] => failed'[e]
      /\ \A f \in Executors \ {e} : SameLocals(f)
  <2>1. CASE o = "ok" /\ ReservationAllowed(i)
    BY <1>1, <1>2, <1>3, <2>1 DEF Shape, Goto, Labels, SameLocals
  <2>2. CASE ~ (o = "ok" /\ ReservationAllowed(i)) /\ kind[e] = "session"
    BY <1>1, <1>2, <1>3, <2>2 DEF Raise, Shape, Goto, Labels, SameLocals
  <2>3. CASE ~ (o = "ok" /\ ReservationAllowed(i)) /\ kind[e] # "session"
    <3>1. Targets(created[e]) \in Seq(Parts)
      BY <1>2, Unassigned, TargetsAll
    <3>2. /\ pc' = [pc EXCEPT ![e] = "boundary"]
          /\ todo' = [todo EXCEPT ![e] = Targets(created[e])]
          /\ failed' = [failed EXCEPT ![e] = TRUE]
      BY <1>1, <2>3 DEF Raise, Abort, TakeDown, Goto
    <3> QED
      BY <1>2, <1>3, <3>1, <3>2 DEF Shape, Labels, SameLocals
  <2> QED
    BY <2>1, <2>2, <2>3
<1>6. Shape'
  BY <1>2, <1>3, <1>4, <1>5 DEF Shape
<1>7. Run(e)' = i
  BY <1>0, <1>3 DEF Run
<1>8. PacketsInv'
  <2>1. CASE rows' = rows
    BY <2>1 DEF BInv, PacketsInv, PacketInv, RowsOf
  <2>2. CASE rows' # rows
    BY <1>1, <1>2, <2>2, ReservedPackets
  <2> QED
    BY <2>1, <2>2
<1>9. pc'[e] = "run" => i \notin rows /\ i \in rows'
  BY <1>1, <1>2, <1>5, ReservedPackets
<1>10. StartsInv'
  BY <1>3, <1>4 DEF BInv, StartsInv, StartInv
<1>11. \A f \in Executors \ {e} : SameHoldings(f)
  BY <1>3, <1>4 DEF SameHoldings
<1>12. HeldOnce'
  <2> SUFFICES ASSUME NEW g \in Executors, NEW f \in Executors,
                      pc'[g] = "run", pc'[f] = "run", Run(g)' = Run(f)'
               PROVE  g = f
    BY DEF HeldOnce
  <2>1. \A h \in Executors \ {e} : pc'[h] = pc[h] /\ Run(h)' = Run(h)
    BY <1>5 DEF SameLocals, Run
  <2>2. \A h \in Executors : pc[h] = "run" => Run(h) \in rows
    BY DEF BInv, ExecutorsInv, ExecutorInv, Pays
  <2>3. \A h \in Executors \ {e} : pc'[h] = "run" => ~ (pc'[e] = "run" /\ Run(h)' = i)
    BY <1>9, <2>1, <2>2
  <2>4. g # e /\ f # e => pc[g] = "run" /\ pc[f] = "run" /\ Run(g) = Run(f)
    BY <2>1
  <2> QED
    BY <1>7, <2>3, <2>4 DEF BInv, HeldOnce
<1>13. ExecutorInv(e)'
  <2>1. Looping(e)' /\ OwnsNothing(e)' /\ AttestedGone(e)' /\ RemovesOwn(e)'
        /\ Succeeds(e)'
    BY <1>5 DEF Looping, OwnsNothing, AttestedGone, RemovesOwn, Succeeds
  <2>2. OwnsCreated(e)'
    BY <1>0, <1>3, <1>7 DEF OwnsCreated, BInv, ExecutorsInv, ExecutorInv
  <2>3. pc'[e] = "run" => starts[i] = 0
    BY <1>2, <1>9 DEF BInv, StartsInv, StartInv
  <2>4. Pays(e)'
    BY <1>3, <1>5, <1>7, <1>9, <2>3 DEF Pays
  <2>5. Cleans(e)'
    BY <1>2, <1>3, <1>5 DEF Cleans, BInv, ExecutorsInv, ExecutorInv
  <2> QED
    BY <2>1, <2>2, <2>4, <2>5 DEF ExecutorInv
<1> QED
  BY <1>5, <1>6, <1>8, <1>10, <1>11, <1>12, <1>13, Together

\* The start of the broker container: nobody has started this run before.
LEMMA StartBrokerKeeps ==
    ASSUME BInv, NEW e \in Executors, StartBroker(e)
    PROVE  BInv'
<1>0. PICK i : i = Run(e)
  OBVIOUS
<1>1. Shape /\ pc[e] = "run" /\ i \in Invocations
  BY <1>0, RunType DEF BInv, StartBroker
<1>2. starts[i] = 0 /\ i \in rows
  BY <1>0, <1>1 DEF BInv, ExecutorsInv, ExecutorInv, Pays
<1>3. broker[i] = "none" /\ runner[i] = Nobody
  BY <1>1, <1>2 DEF BInv, StartsInv, StartInv
<1>4. /\ broker' = [broker EXCEPT ![i] = "running"]
      /\ runner' = [runner EXCEPT ![i] = e]
      /\ starts' = [starts EXCEPT ![i] = 1]
      /\ pc' = [pc EXCEPT ![e] = "running"]
      /\ attempted' = [attempted EXCEPT ![e] = TRUE]
      /\ UNCHANGED <<kind, batch, at, todo, created, result, failed, cleanupOk, owner, linked>>
      /\ UNCHANGED <<rows, faults, frozen>>
  <2>1. starts' = [starts EXCEPT ![i] = starts[i] + 1]
    BY <1>0, <1>1, <1>3 DEF StartBroker, Shape
  <2>2. starts[i] + 1 = 1
    BY <1>2
  <2> QED
    BY <1>0, <1>3, <2>1, <2>2 DEF StartBroker, Goto
<1>5. /\ pc'[e] = "running" /\ broker'[i] = "running" /\ runner'[i] = e /\ starts'[i] = 1
      /\ \A j \in Invocations \ {i} : /\ broker'[j] = broker[j] /\ runner'[j] = runner[j]
                                      /\ starts'[j] = starts[j]
      /\ \A f \in Executors \ {e} : SameLocals(f)
  BY <1>1, <1>4 DEF Shape, SameLocals
<1>6. Shape'
  <2>1. /\ pc' \in [Executors -> Labels] /\ attempted' \in [Executors -> BOOLEAN]
        /\ broker' \in [Invocations -> {"none", "running", "exited"}]
        /\ runner' \in [Invocations -> Executors \cup {Nobody}]
        /\ starts' \in [Invocations -> Nat]
    BY <1>1, <1>4 DEF Shape, Labels
  <2> QED
    BY <1>1, <1>4, <2>1 DEF Shape
<1>7. Run(e)' = i
  BY <1>0, <1>4 DEF Run
<1>8. PacketsInv'
  BY <1>4 DEF BInv, PacketsInv, PacketInv, RowsOf
<1>9. StartsInv'
  <2> SUFFICES ASSUME NEW j \in Invocations PROVE StartInv(j)'
    BY DEF StartsInv
  <2>1. StartInv(j)
    BY DEF BInv, StartsInv
  <2>2. CASE j = i
    BY <1>2, <1>4, <1>5, <2>2 DEF StartInv
  <2>3. CASE j # i
    BY <1>4, <1>5, <2>1, <2>3 DEF StartInv
  <2> QED
    BY <2>2, <2>3
<1>10. ASSUME NEW f \in Executors \ {e} PROVE SameHoldings(f)
  <2>1. f # Nobody /\ f # e
    BY BrokerAssumptions
  <2>2. pc[f] = "run" => Run(f) \in Invocations \ {i}
    BY <1>0, <1>1, <2>1, RunType DEF BInv, HeldOnce
  <2> QED
    BY <1>3, <1>4, <1>5, <2>1, <2>2 DEF SameHoldings
<1>11. HeldOnce'
  BY <1>5, HeldStays DEF BInv
<1>12. ExecutorInv(e)'
  <2>1. Looping(e)' /\ OwnsNothing(e)' /\ AttestedGone(e)' /\ RemovesOwn(e)'
        /\ Succeeds(e)'
    BY <1>5 DEF Looping, OwnsNothing, AttestedGone, RemovesOwn, Succeeds
  <2>2. OwnsCreated(e)'
    BY <1>0, <1>4, <1>7 DEF OwnsCreated, BInv, ExecutorsInv, ExecutorInv
  <2>3. Pays(e)'
    BY <1>5, <1>7 DEF Pays
  <2>4. Cleans(e)'
    BY <1>1, <1>4, <1>5, <1>7 DEF Cleans, BInv, ExecutorsInv, ExecutorInv
  <2> QED
    BY <2>1, <2>2, <2>3, <2>4 DEF ExecutorInv
<1> QED
  BY <1>5, <1>6, <1>8, <1>9, <1>10, <1>11, <1>12, Together
\* A step that changes at most the container of e's own run
LEMMA BrokerStep ==
    ASSUME BInv, NEW e \in Executors, Shape', pc[e] \in {"running", "clean"},
           \A f \in Executors \ {e} : SameLocals(f),
           UNCHANGED <<owner, runner, starts, rows, batch, at, created>>,
           \A j \in Invocations : j # Run(e) => broker'[j] = broker[j],
           pc'[e] \in {"clean", "post", "boundary"},
           failed[e] => failed'[e],
           pc'[e] = "clean" \/ broker'[Run(e)] = "none" \/ failed'[e]
    PROVE  BInv'
<1>1. Run(e)' = Run(e) /\ Run(e) \in Invocations /\ runner[Run(e)] = e
  BY RunType DEF Run, BInv, ExecutorsInv, ExecutorInv, Pays
<1>2. StartsInv'
  <2> SUFFICES ASSUME NEW j \in Invocations PROVE StartInv(j)'
    BY DEF StartsInv
  <2>1. StartInv(j)
    BY DEF BInv, StartsInv
  <2>2. e # Nobody
    BY BrokerAssumptions
  <2> QED
    BY <1>1, <2>1, <2>2 DEF StartInv
<1>3. PacketsInv'
  BY DEF BInv, PacketsInv, PacketInv, RowsOf
<1>4. HeldOnce'
  BY HeldStays DEF BInv
<1>5. \A f \in Executors \ {e} : SameHoldings(f)
  BY <1>1 DEF SameHoldings
<1>6. ExecutorInv(e)'
  <2>1. Looping(e)' /\ OwnsNothing(e)' /\ AttestedGone(e)' /\ RemovesOwn(e)'
        /\ Succeeds(e)'
    BY DEF Looping, OwnsNothing, AttestedGone, RemovesOwn, Succeeds
  <2>2. OwnsCreated(e)'
    BY <1>1 DEF OwnsCreated, BInv, ExecutorsInv, ExecutorInv
  <2>3. Pays(e)'
    BY <1>1 DEF Pays
  <2>4. Cleans(e)'
    BY <1>1 DEF Cleans, BInv, ExecutorsInv, ExecutorInv
  <2> QED
    BY <2>1, <2>2, <2>3, <2>4 DEF ExecutorInv
<1> QED
  BY <1>2, <1>3, <1>4, <1>5, <1>6, Together

\* The end of the broker process
LEMMA EndBrokerKeeps ==
    ASSUME BInv, NEW e \in Executors, EndBroker(e)
    PROVE  BInv'
<1>0. PICK i : i = Run(e)
  OBVIOUS
<1>1. PICK o \in {"ok", "early", "late"} :
         /\ Outcome(o)
         /\ result' = [result EXCEPT ![e] = IF o = "ok" THEN "good" ELSE "bad"]
         /\ broker' = IF o = "late" THEN broker ELSE [broker EXCEPT ![i] = "exited"]
         /\ failed' = IF o = "late" THEN [failed EXCEPT ![e] = TRUE] ELSE failed
         /\ pc' = [pc EXCEPT ![e] = "clean"]
  BY <1>0 DEF EndBroker, Goto
<1>2. Shape /\ faults' \in 0..MaxFaults /\ pc[e] = "running" /\ i \in Invocations
  BY <1>0, <1>1, OutcomeType, RunType DEF BInv, EndBroker
<1>3. /\ UNCHANGED <<kind, batch, at, todo, created, attempted, cleanupOk, owner, linked>>
      /\ UNCHANGED <<runner, starts, rows, frozen>>
  BY DEF EndBroker
<1>4. /\ pc' \in [Executors -> Labels] /\ failed' \in [Executors -> BOOLEAN]
      /\ result' \in [Executors -> {"none", "good", "bad"}]
      /\ pc'[e] = "clean" /\ (failed[e] => failed'[e])
      /\ \A f \in Executors \ {e} : SameLocals(f)
  BY <1>1, <1>2, <1>3 DEF Shape, Labels, SameLocals
<1>5. /\ broker' \in [Invocations -> {"none", "running", "exited"}]
      /\ \A j \in Invocations : j # i => broker'[j] = broker[j]
  BY <1>1, <1>2 DEF Shape
<1>6. Shape'
  BY <1>2, <1>3, <1>4, <1>5 DEF Shape
<1> QED
  BY <1>0, <1>2, <1>3, <1>4, <1>5, <1>6, BrokerStep

\* The removal of the broker container by the outer executor
LEMMA CleanBrokerKeeps ==
    ASSUME BInv, NEW e \in Executors, CleanBroker(e)
    PROVE  BInv'
<1>0. PICK i : i = Run(e)
  OBVIOUS
<1>1. PICK o \in {"ok", "early", "late"} :
         /\ Outcome(o)
         /\ broker' = IF o = "early" THEN broker ELSE [broker EXCEPT ![i] = "none"]
         /\ attempted' = IF o = "late" /\ ~failed[e] THEN attempted
                         ELSE [attempted EXCEPT ![e] = FALSE]
         /\ \/ /\ ~failed[e] /\ o = "ok" /\ result[e] = "good"
               /\ Goto(e, "post") /\ UNCHANGED <<failed, cleanupOk, todo>>
            \/ /\ ~failed[e] /\ o # "late" /\ (o = "ok" => result[e] = "bad")
               /\ Abort(e, created[e]) /\ UNCHANGED cleanupOk
            \/ /\ ~failed[e] /\ o = "late"
               /\ Goto(e, "clean") /\ failed' = [failed EXCEPT ![e] = TRUE]
               /\ UNCHANGED <<cleanupOk, todo>>
            \/ /\ failed[e]
               /\ Abort(e, created[e])
               /\ cleanupOk' = IF o = "ok" THEN cleanupOk ELSE [cleanupOk EXCEPT ![e] = FALSE]
  BY <1>0 DEF CleanBroker
<1>2. /\ Shape /\ faults' \in 0..MaxFaults /\ pc[e] = "clean" /\ i \in Invocations
      /\ Targets(created[e]) \in Seq(Parts)
  BY <1>0, <1>1, OutcomeType, RunType, Unassigned, TargetsAll DEF BInv, CleanBroker
<1>3. /\ UNCHANGED <<kind, batch, at, created, result, owner, linked, runner, starts, rows>>
      /\ frozen' = frozen
  BY DEF CleanBroker
<1>4. /\ attempted' \in [Executors -> BOOLEAN] /\ cleanupOk' \in [Executors -> BOOLEAN]
      /\ \A f \in Executors \ {e} : cleanupOk'[f] = cleanupOk[f]
  <2>1. attempted' \in [Executors -> BOOLEAN]
    BY <1>1, <1>2 DEF Shape
  <2>2. cleanupOk' = cleanupOk \/ cleanupOk' = [cleanupOk EXCEPT ![e] = FALSE]
    BY <1>1
  <2> QED
    BY <1>2, <2>1, <2>2 DEF Shape
<1>5. /\ broker' \in [Invocations -> {"none", "running", "exited"}]
      /\ \A j \in Invocations : j # i => broker'[j] = broker[j]
      /\ o = "ok" => broker'[i] = "none"
  BY <1>1, <1>2 DEF Shape
<1>6. /\ pc' \in [Executors -> Labels] /\ failed' \in [Executors -> BOOLEAN]
      /\ todo' \in [Executors -> Seq(Parts)]
      /\ pc'[e] \in {"clean", "post", "boundary"}
      /\ failed[e] => failed'[e]
      /\ pc'[e] = "clean" \/ broker'[i] = "none" \/ failed'[e]
      /\ \A f \in Executors \ {e} : SameLocals(f)
  <2>1. CASE Abort(e, created[e])
    <3>1. /\ pc' = [pc EXCEPT ![e] = "boundary"]
          /\ todo' = [todo EXCEPT ![e] = Targets(created[e])]
          /\ failed' = [failed EXCEPT ![e] = TRUE]
      BY <2>1 DEF Abort, TakeDown, Goto
    <3> QED
      BY <1>2, <1>3, <1>4, <3>1 DEF Shape, Labels, SameLocals
  <2>2. CASE o = "ok" /\ Goto(e, "post") /\ UNCHANGED <<failed, cleanupOk, todo>>
    BY <1>2, <1>3, <1>4, <1>5, <2>2 DEF Shape, Labels, SameLocals, Goto
  <2>3. CASE /\ Goto(e, "clean") /\ failed' = [failed EXCEPT ![e] = TRUE]
             /\ UNCHANGED <<cleanupOk, todo>>
    BY <1>2, <1>3, <1>4, <2>3 DEF Shape, Labels, SameLocals, Goto
  <2> QED
    BY <1>1, <2>1, <2>2, <2>3
<1>7. Shape'
  BY <1>2, <1>3, <1>4, <1>5, <1>6 DEF Shape
<1> QED
  BY <1>0, <1>2, <1>3, <1>5, <1>6, <1>7, BrokerStep

\* The removal of the broker container in the compatibility path
LEMMA CleanIsolatedKeeps ==
    ASSUME BInv, NEW e \in Executors, CleanIsolated(e)
    PROVE  BInv'
<1>0. PICK i : i = Run(e)
  OBVIOUS
<1>1. PICK o \in {"ok", "early", "late"} :
         /\ Outcome(o)
         /\ broker' = IF o = "early" THEN broker ELSE [broker EXCEPT ![i] = "none"]
         /\ failed' = [failed EXCEPT ![e] = @ \/ o # "ok" \/ result[e] = "bad"]
  BY <1>0 DEF CleanIsolated
<1>2. Shape /\ faults' \in 0..MaxFaults /\ pc[e] = "clean" /\ i \in Invocations
  BY <1>0, <1>1, OutcomeType, RunType DEF BInv, CleanIsolated
<1>3. /\ attempted' = [attempted EXCEPT ![e] = FALSE]
      /\ pc' = [pc EXCEPT ![e] = "post"]
      /\ UNCHANGED <<kind, batch, at, todo, created, result, cleanupOk, owner, linked, runner>>
      /\ UNCHANGED <<starts, rows, frozen>>
  BY DEF CleanIsolated, Goto
<1> DEFINE b == failed[e] \/ o # "ok" \/ result[e] = "bad"
<1>4. b \in BOOLEAN /\ (failed[e] => b) /\ (o # "ok" => b)
  BY Zenon
<1>5. failed' = [failed EXCEPT ![e] = b]
  BY <1>1, <1>2 DEF Shape
<1> HIDE DEF b
<1>6. /\ pc' \in [Executors -> Labels] /\ failed' \in [Executors -> BOOLEAN]
      /\ attempted' \in [Executors -> BOOLEAN]
      /\ pc'[e] = "post" /\ failed'[e] = b
      /\ \A f \in Executors \ {e} : SameLocals(f)
  BY <1>2, <1>3, <1>4, <1>5 DEF Shape, Labels, SameLocals
<1>7. /\ broker' \in [Invocations -> {"none", "running", "exited"}]
      /\ \A j \in Invocations : j # i => broker'[j] = broker[j]
      /\ o = "ok" => broker'[i] = "none"
  BY <1>1, <1>2 DEF Shape
<1>8. Shape'
  BY <1>2, <1>3, <1>6, <1>7 DEF Shape
<1> QED
  BY <1>0, <1>2, <1>3, <1>4, <1>6, <1>7, <1>8, BrokerStep

\* A container that ends by itself
LEMMA ContainerExitsKeeps ==
    ASSUME BInv, NEW i \in Invocations, ContainerExits(i)
    PROVE  BInv'
<1>1. /\ broker[i] = "running" /\ broker' = [broker EXCEPT ![i] = "exited"]
      /\ UNCHANGED <<kind, batch, at, todo, created, attempted, result, failed, cleanupOk>>
      /\ UNCHANGED <<pc, owner, linked, runner, starts, rows, faults, frozen>>
  BY DEF ContainerExits, local
<1>2. Shape
  BY DEF BInv
<1>3. /\ broker' \in [Invocations -> {"none", "running", "exited"}]
      /\ \A j \in Invocations : j # i => broker'[j] = broker[j]
      /\ broker'[i] = "exited"
  BY <1>1, <1>2 DEF Shape
<1>4. Shape'
  BY <1>1, <1>2, <1>3 DEF Shape
<1>5. \A f \in Executors : SameLocals(f) /\ SameHoldings(f)
  BY <1>1, <1>3 DEF SameLocals, SameHoldings
<1>6. ExecutorsInv'
  BY <1>2, <1>5, OtherExecutor DEF BInv, ExecutorsInv
<1>7. StartsInv'
  BY <1>1, <1>3 DEF BInv, StartsInv, StartInv
<1>8. HeldOnce' /\ PacketsInv'
  BY <1>1 DEF BInv, HeldOnce, PacketsInv, PacketInv, RowsOf, Run
<1> QED
  BY <1>4, <1>6, <1>7, <1>8 DEF BInv

-----------------------------------------------------------------------------

\* At the beginning nothing exists, and every batch has a first run.
LEMMA InitBInv == Init => BInv
<1> SUFFICES ASSUME Init PROVE BInv
  OBVIOUS
<1>1. Shape
  <2>1. \A e \in Executors : /\ kind[e] \in Kinds /\ batch[e] \in Seq(Invocations)
                             /\ <<kind[e], batch[e]>> \in Offered[e]
    <3>1. \A e \in Executors : <<kind[e], batch[e]>> \in Offered[e] /\ kind[e] \in Kinds
      BY DEF Init
    <3>2. \A e \in Executors : Offered[e] \subseteq Kinds \X Seq(Invocations)
      BY BrokerAssumptions
    <3> QED
      BY <3>1, <3>2
  <2>2. batch \in [Executors -> Seq(Invocations)]
    <3>1. batch = [e \in Executors |-> batch[e]]
      BY DEF Init
    <3> QED
      BY <2>1, <3>1
  <2>3. ASSUME NEW e \in Executors PROVE 1 \in 1..Len(batch[e])
    <3>1. Len(batch[e]) = 2 \/ Len(batch[e]) = 1
      BY DEF Init, PreparedBatch
    <3> QED
      BY <3>1
  <2>4. <<>> \in Seq(Parts) /\ MaxFaults \in Nat
    BY BrokerAssumptions
  <2> QED
    BY <2>1, <2>2, <2>3, <2>4 DEF Init, Shape, Labels
<1>2. \A e \in Executors : /\ pc[e] = "probe"
                           /\ \A i \in Invocations, p \in Parts : owner[i][p] # e
                           /\ \A i \in Invocations : runner[i] # e
  BY BrokerAssumptions DEF Init
<1>3. ExecutorsInv
  BY <1>2 DEF ExecutorsInv, ExecutorInv, Looping, OwnsCreated, OwnsNothing, AttestedGone,
              RemovesOwn, Pays, Cleans, Succeeds
<1>4. StartsInv /\ HeldOnce
  BY <1>2 DEF Init, StartsInv, StartInv, HeldOnce
<1>5. PacketsInv
  <2>1. \A q \in Packets : RowsOf(q) = {}
    BY DEF Init, RowsOf
  <2>2. TokenLimit \in Nat /\ CostLimit \in Nat
    BY BrokerAssumptions
  <2>3. SumBy(Tokens, {}) = 0 /\ SumBy(Cost, {}) = 0 /\ GapFree({})
    BY SumEmpty DEF GapFree
  <2> QED
    BY <2>1, <2>2, <2>3 DEF PacketsInv, PacketInv
<1> QED
  BY <1>1, <1>3, <1>4, <1>5 DEF BInv

\* A step that changes nothing
LEMMA StutterKeeps == BInv /\ UNCHANGED vars => BInv'
<1> SUFFICES ASSUME BInv, UNCHANGED vars PROVE BInv'
  OBVIOUS
<1>1. /\ UNCHANGED <<kind, batch, at, todo, created, attempted, result, failed, cleanupOk>>
      /\ UNCHANGED <<owner, linked, broker, runner, starts, pc, rows, faults, frozen>>
  BY DEF vars, local, runtime
<1>2. Shape /\ Shape'
  BY <1>1 DEF BInv, Shape
<1>3. \A f \in Executors : SameLocals(f) /\ SameHoldings(f)
  BY <1>1 DEF SameLocals, SameHoldings
<1>4. ExecutorsInv'
  BY <1>2, <1>3, OtherExecutor DEF BInv, ExecutorsInv
<1>5. StartsInv' /\ HeldOnce' /\ PacketsInv'
  BY <1>1 DEF BInv, StartsInv, StartInv, HeldOnce, PacketsInv, PacketInv, RowsOf, Run
<1> QED
  BY <1>2, <1>4, <1>5 DEF BInv

\* Every step keeps the invariant.
LEMMA NextBInv == BInv /\ [Next]_vars => BInv'
<1> SUFFICES ASSUME BInv, [Next]_vars PROVE BInv'
  OBVIOUS
<1>1. CASE UNCHANGED vars
  BY <1>1, StutterKeeps
<1>2. ASSUME NEW e \in Executors, Step(e) PROVE BInv'
  <2>1. CASE Provision(e)
    BY <2>1, ProbeKeeps, AbsentKeeps, CreateKeeps, ConnectKeeps, InspectKeeps DEF Provision
  <2>2. CASE Execute(e)
    BY <2>2, ReserveKeeps, StartBrokerKeeps, EndBrokerKeeps, CleanBrokerKeeps,
       CleanIsolatedKeeps DEF Execute
  <2>3. CASE Cleanup(e)
    BY <2>3, PostInspectKeeps, InspectOwnedKeeps, RemoveKeeps, BeginAttestKeeps,
       AttestKeeps, ConcludeKeeps, FreezeKeeps DEF Cleanup
  <2> QED
    BY <1>2, <2>1, <2>2, <2>3 DEF Step
<1>3. ASSUME NEW e \in Executors, Crash(e) PROVE BInv'
  BY <1>3, CrashKeeps
<1>4. ASSUME NEW i \in Invocations, ContainerExits(i) PROVE BInv'
  BY <1>4, ContainerExitsKeeps
<1> QED
  BY <1>1, <1>2, <1>3, <1>4 DEF Next, AllEnded

\* The inductive invariant holds whatever number of executors share the runtime
\* and the ledger, wherever commands fail and processes are killed.
THEOREM Inductive == Spec => []BInv
<1>1. Init => BInv
  BY InitBInv
<1>2. BInv /\ [Next]_vars => BInv'
  BY NextBInv
<1> QED
  BY <1>1, <1>2, PTL DEF Spec

\* Type correctness
THEOREM TypeCorrect == Spec => []TypeOK
<1>1. BInv => TypeOK
  BY DEF BInv, Shape, TypeOK, Labels
<1> QED
  BY <1>1, Inductive, PTL

\* The reservations of a packet stay within its token and cost limits, with
\* gap-free attempts: the check and the insert of _reserve are one transaction.
THEOREM Budget == Spec => []WithinBudget
<1>1. BInv => WithinBudget
  BY DEF BInv, PacketsInv, PacketInv, WithinBudget
<1> QED
  BY <1>1, Inductive, PTL

\* No broker is started without its reservation, and none twice under the same
\* attempt, by whatever executors.
THEOREM PaidOnce == Spec => []EveryRunPaidOnce
<1>1. BInv => EveryRunPaidOnce
  BY DEF BInv, Shape, StartsInv, StartInv, EveryRunPaidOnce
<1> QED
  BY <1>1, Inductive, PTL

\* A reported success or ordinary failure has left nothing behind.
THEOREM LeavesNothing == Spec => []NothingLeftBehind
<1>1. BInv => NothingLeftBehind
  <2> SUFFICES ASSUME BInv, NEW e \in Executors
               PROVE  /\ pc[e] \in {"done", "failed"} =>
                            \A i \in Invocations, p \in Parts : owner[i][p] # e
                      /\ pc[e] = "done" =>
                            \A i \in Invocations : runner[i] = e => broker[i] = "none"
    BY DEF NothingLeftBehind
  <2>1. OwnsNothing(e) /\ Cleans(e) /\ Succeeds(e)
    BY DEF BInv, ExecutorsInv, ExecutorInv
  <2> QED
    BY <2>1 DEF OwnsNothing, Cleans, Succeeds
<1> QED
  BY <1>1, Inductive, PTL
-----------------------------------------------------------------------------
(***************************************************************************)
(* What a step may remove, and what it may put into the evidence.          *)
(***************************************************************************)

\* OnlyOwnRemoved of one run
OwnRemoved(i) ==
    /\ \A p \in Parts :
         owner[i][p] # Nobody /\ owner'[i][p] # owner[i][p] =>
           /\ pc[owner[i][p]] = "remove" /\ Run(owner[i][p]) = i
           /\ owner'[i][p] = Nobody
    /\ broker[i] # "none" /\ broker'[i] = "none" =>
         pc[runner[i]] = "clean" /\ Run(runner[i]) = i

\* EvidenceCoversRuns of one executor
Covers(e) ==
    frozen'[e] # frozen[e] =>
      {i \in Invocations : starts[i] > 0 /\ PacketOf(i) = PacketOf(Run(e))} \subseteq frozen'[e]

\* The commands that remove a container have their own run's name.
LEMMA CleanRemovesOwn ==
    ASSUME BInv, NEW e \in Executors, pc[e] = "clean", owner' = owner,
           broker' = broker \/ broker' = [broker EXCEPT ![Run(e)] = "none"]
    PROVE  \A i \in Invocations : OwnRemoved(i)
<1>1. runner[Run(e)] = e /\ Run(e) \in Invocations /\ Shape
  BY RunType DEF BInv, ExecutorsInv, ExecutorInv, Pays
<1>2. \A i \in Invocations : i # Run(e) => broker'[i] = broker[i]
  BY <1>1 DEF Shape
<1> QED
  BY <1>1, <1>2 DEF OwnRemoved

\* The other steps leave a container's name in use.
LEMMA NamesStay ==
    ASSUME Shape, owner' = owner,
           \A i \in Invocations : broker'[i] = "none" => broker[i] = "none"
    PROVE  \A i \in Invocations : OwnRemoved(i)
  BY DEF OwnRemoved

\* Removing takes the label of this session away, creating takes a free name.
LEMMA LabelSteps ==
    ASSUME BInv, NEW e \in Executors, Create(e) \/ Remove(e)
    PROVE  \A i \in Invocations : OwnRemoved(i)
<1>0. PICK i, p : i = Run(e) /\ p = Head(todo[e])
  OBVIOUS
<1>1. /\ Shape /\ i \in Invocations /\ broker' = broker
      /\ pc[e] \in {"create", "remove"}
      /\ owner \in [Invocations -> [Parts -> Executors \cup {Nobody}]]
  BY <1>0, RunType DEF BInv, Shape, Create, Remove
<1>2. p \in Parts
  <2>1. todo[e] \in Seq(Parts) /\ todo[e] # <<>>
    BY <1>1, Unassigned DEF BInv, ExecutorsInv, ExecutorInv, Looping
  <2> QED
    BY <1>0, <2>1, LoopGoesOn
<1>3. CASE Create(e)
  <2>1. \/ owner' = owner
        \/ owner[i][p] = Nobody /\ owner' = [owner EXCEPT ![i][p] = e]
    BY <1>0, <1>3 DEF Create
  <2>2. \A j \in Invocations, r \in Parts :
           owner[j][r] # Nobody => owner'[j][r] = owner[j][r]
    BY <1>1, <1>2, <2>1
  <2> QED
    BY <1>1, <2>2 DEF OwnRemoved
<1>4. CASE Remove(e)
  <2>1. pc[e] = "remove" /\ owner[i][p] = e
    BY <1>0, <1>4 DEF Remove, BInv, ExecutorsInv, ExecutorInv, RemovesOwn
  <2>2. owner' = owner \/ owner' = [owner EXCEPT ![i][p] = Nobody]
    BY <1>0, <1>4 DEF Remove
  <2>3. \A j \in Invocations, r \in Parts :
           \/ owner'[j][r] = owner[j][r]
           \/ j = i /\ r = p /\ owner'[j][r] = Nobody
    BY <1>1, <1>2, <2>2
  <2> QED
    BY <1>0, <1>1, <2>1, <2>3 DEF OwnRemoved
<1> QED
  BY <1>3, <1>4

\* No step takes away what another executor has in the runtime.
LEMMA StepRemovesOwn ==
    ASSUME BInv, [Next]_vars
    PROVE  \A i \in Invocations : OwnRemoved(i)
<1>0. Shape /\ broker \in [Invocations -> {"none", "running", "exited"}]
  BY DEF BInv, Shape
<1>1. CASE UNCHANGED vars
  BY <1>0, <1>1, NamesStay DEF vars, runtime
<1>2. ASSUME NEW e \in Executors, Step(e) PROVE \A i \in Invocations : OwnRemoved(i)
  <2>1. CASE Probe(e) \/ Absent(e) \/ Connect(e) \/ Inspect(e)
    <3>1. owner' = owner /\ broker' = broker
      BY <2>1 DEF Probe, Absent, Connect, Inspect, runtime
    <3> QED
      BY <1>0, <3>1, NamesStay
  <2>2. CASE PostInspect(e) \/ InspectOwned(e) \/ BeginAttest(e) \/ Attest(e)
             \/ Conclude(e) \/ Freeze(e) \/ Reserve(e)
    <3>1. owner' = owner /\ broker' = broker
      BY <2>2 DEF PostInspect, InspectOwned, BeginAttest, Attest, Conclude, Freeze, Reserve,
                  runtime
    <3> QED
      BY <1>0, <3>1, NamesStay
  <2>3. CASE Create(e) \/ Remove(e)
    BY <2>3, LabelSteps
  <2>4. CASE StartBroker(e)
    <3>1. owner' = owner /\ (broker' = broker \/ broker' = [broker EXCEPT ![Run(e)] = "running"])
      BY <2>4 DEF StartBroker
    <3>2. \A i \in Invocations : broker'[i] = "none" => broker[i] = "none"
      BY <1>0, <3>1
    <3> QED
      BY <1>0, <3>1, <3>2, NamesStay
  <2>5. CASE EndBroker(e)
    <3>1. owner' = owner /\ (broker' = broker \/ broker' = [broker EXCEPT ![Run(e)] = "exited"])
      BY <2>5 DEF EndBroker
    <3>2. \A i \in Invocations : broker'[i] = "none" => broker[i] = "none"
      BY <1>0, <3>1
    <3> QED
      BY <1>0, <3>1, <3>2, NamesStay
  <2>6. CASE CleanBroker(e) \/ CleanIsolated(e)
    <3>1. /\ pc[e] = "clean" /\ owner' = owner
          /\ broker' = broker \/ broker' = [broker EXCEPT ![Run(e)] = "none"]
      BY <2>6 DEF CleanBroker, CleanIsolated
    <3> QED
      BY <3>1, CleanRemovesOwn
  <2> QED
    BY <1>2, <2>1, <2>2, <2>3, <2>4, <2>5, <2>6 DEF Step, Provision, Execute, Cleanup
<1>3. ASSUME NEW e \in Executors, Crash(e) PROVE \A i \in Invocations : OwnRemoved(i)
  BY <1>0, <1>3, NamesStay DEF Crash, runtime
<1>4. ASSUME NEW i \in Invocations, ContainerExits(i)
      PROVE  \A j \in Invocations : OwnRemoved(j)
  <2>1. owner' = owner /\ broker' = [broker EXCEPT ![i] = "exited"]
    BY <1>4 DEF ContainerExits
  <2>2. \A j \in Invocations : broker'[j] = "none" => broker[j] = "none"
    BY <1>0, <2>1
  <2> QED
    BY <1>0, <2>1, <2>2, NamesStay
<1> QED
  BY <1>1, <1>2, <1>3, <1>4 DEF Next, AllEnded

\* Networks, gateways and broker containers disappear by a command of the
\* executor they belong to, although rm -f in clean_broker_container is not
\* preceded by an ownership check.
THEOREM RemovesOnlyOwn == Spec => OnlyOwnRemoved
<1>1. BInv /\ [Next]_vars =>
        [\A i \in Invocations :
         /\ \A p \in Parts :
              owner[i][p] # Nobody /\ owner'[i][p] # owner[i][p] =>
                /\ pc[owner[i][p]] = "remove" /\ Run(owner[i][p]) = i
                /\ owner'[i][p] = Nobody
         /\ broker[i] # "none" /\ broker'[i] = "none" =>
              pc[runner[i]] = "clean" /\ Run(runner[i]) = i]_vars
  BY StepRemovesOwn DEF OwnRemoved
<1> QED
  BY <1>1, Inductive, PTL DEF Spec, OnlyOwnRemoved

\* The ledger records that go into the evidence hold every started run.
LEMMA StepCovers ==
    ASSUME BInv, [Next]_vars
    PROVE  \A e \in Executors : Covers(e)
<1>0. /\ Shape /\ frozen \in [Executors -> SUBSET Invocations]
      /\ \A i \in Invocations : starts[i] > 0 => i \in rows
  BY DEF BInv, Shape, StartsInv, StartInv
<1>1. ASSUME frozen' = frozen PROVE \A e \in Executors : Covers(e)
  BY <1>1 DEF Covers
<1>2. ASSUME NEW e \in Executors, NEW recs, frozen' = [frozen EXCEPT ![e] = recs],
             \A i \in rows : PacketOf(i) = PacketOf(Run(e)) => i \in recs
      PROVE  \A f \in Executors : Covers(f)
  <2>1. \A f \in Executors \ {e} : frozen'[f] = frozen[f]
    BY <1>0, <1>2
  <2>2. frozen'[e] = recs
    BY <1>0, <1>2
  <2>3. {i \in Invocations : starts[i] > 0 /\ PacketOf(i) = PacketOf(Run(e))} \subseteq recs
    BY <1>0, <1>2
  <2> QED
    BY <2>1, <2>2, <2>3 DEF Covers
<1>3. ASSUME NEW e \in Executors, Reserve(e) PROVE \A f \in Executors : Covers(f)
  <2> DEFINE recs == {i \in rows' : PacketOf(i) = PacketOf(Run(e))}
  <2>1. /\ rows \subseteq rows'
        /\ frozen' = frozen \/ frozen' = [frozen EXCEPT ![e] = recs]
    BY <1>3 DEF Reserve
  <2>2. \A i \in rows : PacketOf(i) = PacketOf(Run(e)) => i \in recs
    BY <2>1
  <2> HIDE DEF recs
  <2> QED
    BY <1>1, <1>2, <2>1, <2>2
<1>4. ASSUME NEW e \in Executors, Freeze(e) PROVE \A f \in Executors : Covers(f)
  <2> DEFINE recs == RowsOf(PacketOf(Run(e)))
  <2>1. frozen' = frozen \/ frozen' = [frozen EXCEPT ![e] = recs]
    BY <1>4 DEF Freeze
  <2>2. \A i \in rows : PacketOf(i) = PacketOf(Run(e)) => i \in recs
    BY DEF RowsOf
  <2> HIDE DEF recs
  <2> QED
    BY <1>1, <1>2, <2>1, <2>2
<1>5. ASSUME NEW e \in Executors, Step(e), ~Reserve(e), ~Freeze(e) PROVE frozen' = frozen
  <2>1. CASE Provision(e)
    BY <2>1 DEF Provision, Probe, Absent, Create, Connect, Inspect
  <2>2. CASE Execute(e)
    BY <1>5, <2>2 DEF Execute, StartBroker, EndBroker, CleanBroker, CleanIsolated
  <2>3. CASE Cleanup(e)
    BY <1>5, <2>3 DEF Cleanup, PostInspect, InspectOwned, Remove, BeginAttest, Attest, Conclude
  <2> QED
    BY <1>5, <2>1, <2>2, <2>3 DEF Step
<1>6. ASSUME NEW e \in Executors, Crash(e) PROVE frozen' = frozen
  BY <1>6 DEF Crash
<1>7. ASSUME NEW i \in Invocations, ContainerExits(i) PROVE frozen' = frozen
  BY <1>7 DEF ContainerExits
<1>8. ASSUME UNCHANGED vars PROVE frozen' = frozen
  BY <1>8 DEF vars
<1> QED
  BY <1>1, <1>3, <1>4, <1>5, <1>6, <1>7, <1>8 DEF Next, AllEnded

\* The evidence of an execution has every broker run of its packet that any
\* executor has started by then.
THEOREM EvidenceComplete == Spec => EvidenceCoversRuns
<1>1. BInv /\ [Next]_vars =>
        [\A e \in Executors :
           frozen'[e] # frozen[e] =>
             {i \in Invocations : starts[i] > 0 /\ PacketOf(i) = PacketOf(Run(e))}
                \subseteq frozen'[e]]_vars
  BY StepCovers DEF Covers
<1> QED
  BY <1>1, Inductive, PTL DEF Spec, EvidenceCoversRuns
=============================================================================
