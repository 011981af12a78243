------------------------- MODULE NonceLedgerProofs -------------------------
(***************************************************************************)
(* Proofs for NonceLedger, for every number of judges, nonces and bundles. *)
(* The invariant IInv follows a bundle from its checks to its verdict: the *)
(* one writer holds nonces that are not used yet, the bundles that won are *)
(* disjoint, and a win is turned into at most one acceptance.              *)
(***************************************************************************)
EXTENDS NonceLedger, TLAPS

\* Only the holder of the lock is inside a transaction.
OneWriter == \A j \in Judges : pc[j] \in {"schema", "inserting"} <=> writer = j

\* A judge past the checks holds a bundle that passed them, and what it has
\* inserted is part of that bundle and new.
Inserting ==
    \A j \in Judges :
        /\ pc[j] \in {"verified", "inserting", "closing"} =>
               bundle[j] \in Bundles /\ bundle[j] \in Genuine \ Repeating
        /\ pc[j] = "inserting" =>
               inserted[j] \subseteq NoncesOf[bundle[j]] \ used

WonOnce == \A b \in Bundles : won[b] <= 1

\* A judge that committed its bundle and has not returned yet
Holds(j, b) == pc[j] = "closing" /\ outcome[j] = "reserved" /\ bundle[j] = b

\* Every win is in the hands of one judge, or accepted once, or lost.
OneVerdict ==
    \A b \in Bundles :
        /\ accepted[b] <= 1
        /\ accepted[b] > 0 => won[b] > 0 /\ \A j \in Judges : ~Holds(j, b)
        /\ \A j \in Judges : Holds(j, b) => won[b] > 0
        /\ \A i, j \in Judges : Holds(i, b) /\ Holds(j, b) => i = j

\* The database file is there once a judge has found or made it.
JournalHasFile ==
    /\ journal => db # "absent"
    /\ \A j \in Judges : pc[j] \notin {"idle", "creating"} => db # "absent"

\* Rows exist only inside an open transaction.
NothingInserted == \A j \in Judges : pc[j] # "inserting" => inserted[j] = {}

IInv ==
    /\ TypeOK
    /\ OneWriter
    /\ Inserting
    /\ WholeBundles
    /\ WonOnce
    /\ OneVerdict
    /\ JournalHasFile
    /\ NothingInserted

\* The initial state of an absent ledger satisfies the invariant.
LEMMA InitIInv == Init => IInv
<1> SUFFICES ASSUME Init PROVE IInv
  OBVIOUS
<1> USE BundleAssumption DEF Init
<1>1. TypeOK
  BY DEF TypeOK
<1>2. OneWriter /\ Inserting /\ JournalHasFile /\ NothingInserted
  BY DEF OneWriter, Inserting, JournalHasFile, NothingInserted
<1>3. {b \in Bundles : won[b] > 0} = {}
  OBVIOUS
<1>4. WholeBundles /\ WonOnce
  BY <1>3 DEF WholeBundles, WonOnce
<1>5. OneVerdict
  BY DEF OneVerdict, Holds
<1> QED
  BY <1>1, <1>2, <1>4, <1>5 DEF IInv

\* The table and the counters of wins are only written by CommitNonces.
LEMMA SameTable ==
  ASSUME WholeBundles, WonOnce, used' = used, won' = won
  PROVE  WholeBundles' /\ WonOnce'
BY DEF WholeBundles, WonOnce

\* A step of one judge outside its transaction's end keeps the verdicts.
LEMMA SameVerdicts ==
  ASSUME IInv, NEW j \in Judges, NEW label, label # "closing",
         GoTo(j, label), won' = won, accepted' = accepted,
         \A i \in Judges : i # j => bundle'[i] = bundle[i] /\ outcome'[i] = outcome[i]
  PROVE  OneVerdict'
<1>1. \A i \in Judges, b \in Bundles : Holds(i, b)' => Holds(i, b)
  BY DEF Holds, GoTo, IInv, TypeOK
<1> QED
  BY <1>1 DEF OneVerdict, IInv

\* A judge that ends without accepting keeps everything but its own lock.
LEMMA QuitKeeps ==
  ASSUME IInv, NEW j \in Judges, Quit(j), db' = db, used' = used,
         journal' = journal, won' = won, accepted' = accepted,
         writer' = IF writer = j THEN Nobody ELSE writer
  PROVE  IInv'
<1> USE BundleAssumption
<1>1. TypeOK'
  BY DEF IInv, TypeOK, Quit, GoTo
<1>2. OneWriter'
  BY DEF IInv, TypeOK, OneWriter, Quit, GoTo
<1>3. Inserting'
  BY DEF IInv, TypeOK, Inserting, Quit, GoTo
<1>4. WholeBundles' /\ WonOnce'
  BY SameTable DEF IInv
<1>5. OneVerdict'
  BY SameVerdicts DEF Quit, IInv, TypeOK
<1>6. JournalHasFile'
  BY DEF IInv, TypeOK, JournalHasFile, Quit, GoTo
<1>7. NothingInserted'
  BY DEF IInv, TypeOK, NothingInserted, Quit, GoTo
<1> QED
  BY <1>1, <1>2, <1>3, <1>4, <1>5, <1>6, <1>7 DEF IInv

\* The steps of the constructor and the checks of the bundle
LEMMA OpenKeeps ==
  ASSUME IInv, NEW j \in Judges,
         \/ \E b \in Bundles : Start(j, b)
         \/ CreateFile(j) \/ CreateSchema(j) \/ CreateCommit(j)
         \/ ValidateDirectory(j) \/ ValidateContract(j) \/ Verify(j)
  PROVE  IInv'
<1> USE BundleAssumption
<1> DEFINE Acts == \/ \E b \in Bundles : Start(j, b)
                   \/ CreateFile(j) \/ CreateSchema(j) \/ CreateCommit(j)
                   \/ ValidateDirectory(j) \/ ValidateContract(j) \/ Verify(j)
<1>0. Acts
  OBVIOUS
<1>1. TypeOK'
  BY <1>0 DEF IInv, TypeOK, Start, CreateFile, CreateSchema, CreateCommit,
     ValidateDirectory, ValidateContract, Verify, GoTo, disk
<1>2. OneWriter'
  BY <1>0 DEF IInv, TypeOK, OneWriter, Start, CreateFile, CreateSchema,
     CreateCommit, ValidateDirectory, ValidateContract, Verify, GoTo, disk
<1>3. Inserting'
  BY <1>0 DEF IInv, TypeOK, Inserting, Start, CreateFile, CreateSchema,
     CreateCommit, ValidateDirectory, ValidateContract, Verify, BundleOk, GoTo, disk
<1>4. won' = won /\ used' = used /\ accepted' = accepted
  BY <1>0 DEF Start, CreateFile, CreateSchema, CreateCommit, ValidateDirectory,
     ValidateContract, Verify, disk
<1>5. WholeBundles' /\ WonOnce'
  BY <1>4, SameTable DEF IInv
<1>6. \A i \in Judges : i # j => bundle'[i] = bundle[i] /\ outcome'[i] = outcome[i]
  BY <1>0 DEF IInv, TypeOK, Start, CreateFile, CreateSchema, CreateCommit,
     ValidateDirectory, ValidateContract, Verify
<1>7. \E label \in {"creating", "existing", "created", "schema", "validating",
                    "open", "verified"} : GoTo(j, label)
  BY <1>0 DEF Start, CreateFile, CreateSchema, CreateCommit, ValidateDirectory,
     ValidateContract, Verify
<1>8. OneVerdict'
  <2>1. PICK label \in {"creating", "existing", "created", "schema", "validating",
                        "open", "verified"} : GoTo(j, label)
    BY <1>7
  <2>2. label # "closing"
    OBVIOUS
  <2> QED
    BY <1>4, <1>6, <2>1, <2>2, SameVerdicts
<1>9. JournalHasFile'
  BY <1>0 DEF IInv, TypeOK, JournalHasFile, Start, CreateFile, CreateSchema,
     CreateCommit, ValidateDirectory, ValidateContract, Verify, GoTo, disk
<1>10. NothingInserted'
  BY <1>0 DEF IInv, TypeOK, NothingInserted, Start, CreateFile, CreateSchema,
     CreateCommit, ValidateDirectory, ValidateContract, Verify, GoTo
<1> QED
  BY <1>1, <1>2, <1>3, <1>5, <1>8, <1>9, <1>10 DEF IInv

\* BEGIN IMMEDIATE, by the judge that gets the lock or by one that gives up
LEMMA BeginKeeps ==
  ASSUME IInv, NEW j \in Judges, BeginImmediate(j) \/ BeginBusy(j)
  PROVE  IInv'
<1> USE BundleAssumption
<1>1. TypeOK'
  BY DEF IInv, TypeOK, BeginImmediate, BeginBusy, GoTo, disk
<1>2. OneWriter'
  BY DEF IInv, TypeOK, OneWriter, BeginImmediate, BeginBusy, GoTo, disk
<1>3. Inserting'
  <2>1. \A i \in Judges : pc[i] # "inserting" => inserted[i] = {}
    BY DEF IInv, NothingInserted
  <2> QED
    BY <2>1 DEF IInv, TypeOK, Inserting, BeginImmediate, BeginBusy, GoTo, disk
<1>4. WholeBundles' /\ WonOnce'
  BY SameTable DEF IInv, BeginImmediate, BeginBusy, disk
<1>5. \A i \in Judges, b \in Bundles : Holds(i, b)' => Holds(i, b)
  BY DEF IInv, TypeOK, Holds, BeginImmediate, BeginBusy, GoTo
<1>6. OneVerdict'
  BY <1>5 DEF IInv, OneVerdict, BeginImmediate, BeginBusy
<1>7. JournalHasFile'
  BY DEF IInv, TypeOK, JournalHasFile, BeginImmediate, BeginBusy, GoTo, disk
<1>8. NothingInserted'
  BY DEF IInv, TypeOK, NothingInserted, BeginImmediate, BeginBusy, GoTo
<1> QED
  BY <1>1, <1>2, <1>3, <1>4, <1>6, <1>7, <1>8 DEF IInv

\* One row of executemany
LEMMA InsertKeeps ==
  ASSUME IInv, NEW j \in Judges, NEW n \in Nonces, Insert(j, n)
  PROVE  IInv'
<1> USE BundleAssumption
<1>1. TypeOK'
  BY DEF IInv, TypeOK, Insert
<1>2. OneWriter'
  BY DEF IInv, OneWriter, Insert
<1>3. Inserting'
  BY DEF IInv, TypeOK, Inserting, Insert, CanInsert
<1>4. WholeBundles' /\ WonOnce'
  BY SameTable DEF IInv, Insert
<1>5. OneVerdict'
  BY DEF IInv, OneVerdict, Holds, Insert
<1>6. JournalHasFile'
  BY DEF IInv, JournalHasFile, Insert
<1>7. NothingInserted'
  BY DEF IInv, TypeOK, NothingInserted, Insert
<1> QED
  BY <1>1, <1>2, <1>3, <1>4, <1>5, <1>6, <1>7 DEF IInv

\* The transaction ends without a commit.
LEMMA RollbackKeeps ==
  ASSUME IInv, NEW j \in Judges, NEW how \in {"replay", "error"},
         pc[j] = "inserting", EndTransaction(j, how),
         UNCHANGED <<db, used, bundle, won, accepted>>
  PROVE  IInv'
<1> USE BundleAssumption
<1>1. TypeOK'
  BY DEF IInv, TypeOK, EndTransaction, GoTo
<1>2. OneWriter'
  BY DEF IInv, TypeOK, OneWriter, EndTransaction, GoTo
<1>3. Inserting'
  BY DEF IInv, TypeOK, Inserting, EndTransaction, GoTo
<1>4. WholeBundles' /\ WonOnce'
  BY SameTable DEF IInv
<1>5. \A i \in Judges, b \in Bundles : Holds(i, b)' => Holds(i, b)
  BY DEF IInv, TypeOK, Holds, EndTransaction, GoTo
<1>6. OneVerdict'
  BY <1>5 DEF IInv, OneVerdict
<1>7. JournalHasFile'
  BY DEF IInv, TypeOK, JournalHasFile, EndTransaction, GoTo
<1>8. NothingInserted'
  BY DEF IInv, TypeOK, NothingInserted, EndTransaction, GoTo
<1> QED
  BY <1>1, <1>2, <1>3, <1>4, <1>6, <1>7, <1>8 DEF IInv

\* COMMIT: the bundle was not among the winners, and is disjoint from them.
LEMMA CommitKeeps ==
  ASSUME IInv, NEW j \in Judges, CommitNonces(j)
  PROVE  IInv'
<1> USE BundleAssumption
<1> DEFINE b0 == bundle[j]
           winners == {b \in Bundles : won[b] > 0}
<1>1. /\ b0 \in Bundles /\ b0 \in Genuine \ Repeating
      /\ NoncesOf[b0] \cap used = {} /\ NoncesOf[b0] # {}
      /\ used' = used \cup NoncesOf[b0]
      /\ won' = [won EXCEPT ![b0] = @ + 1]
  BY DEF IInv, TypeOK, Inserting, CommitNonces
<1>2. won \in [Bundles -> Nat] /\ used = UNION {NoncesOf[b] : b \in winners}
  BY DEF IInv, TypeOK, WholeBundles
<1>3. \A b \in winners : NoncesOf[b] \subseteq used
  BY <1>2
<1>4. won[b0] = 0
  BY <1>1, <1>2, <1>3
<1>5. {b \in Bundles : won'[b] > 0} = winners \cup {b0}
  BY <1>1, <1>2
<1>6. WholeBundles'
  <2>1. used' = UNION {NoncesOf[b] : b \in winners \cup {b0}}
    BY <1>1, <1>2
  <2>2. winners \cup {b0} \subseteq Genuine \ Repeating
    BY <1>1 DEF IInv, WholeBundles
  <2>3. \A b, c \in winners \cup {b0} :
           b # c => NoncesOf[b] \cap NoncesOf[c] = {}
    <3>1. \A b, c \in winners : b # c => NoncesOf[b] \cap NoncesOf[c] = {}
      BY DEF IInv, WholeBundles
    <3> QED
      BY <1>1, <1>3, <3>1
  <2> QED
    BY <1>5, <2>1, <2>2, <2>3 DEF WholeBundles
<1>7. WonOnce'
  BY <1>1, <1>2, <1>4 DEF IInv, WonOnce
<1>8. TypeOK'
  <2>1. won' \in [Bundles -> Nat]
    BY <1>1, <1>2
  <2>2. used' \subseteq Nonces
    BY DEF IInv, TypeOK, CommitNonces
  <2> QED
    BY <2>1, <2>2 DEF IInv, TypeOK, CommitNonces, EndTransaction, GoTo
<1>9. OneWriter'
  BY DEF IInv, TypeOK, OneWriter, CommitNonces, EndTransaction, GoTo
<1>10. Inserting'
  <2>1. \A i \in Judges : i # j => pc[i] # "inserting"
    BY DEF IInv, OneWriter, CommitNonces
  <2> QED
    BY <2>1 DEF IInv, TypeOK, Inserting, CommitNonces, EndTransaction, GoTo
<1>11. OneVerdict'
  <2>1. \A i \in Judges, b \in Bundles :
           Holds(i, b)' => Holds(i, b) \/ (i = j /\ b = b0)
    BY DEF IInv, TypeOK, Holds, CommitNonces, EndTransaction, GoTo
  <2>2. accepted' = accepted /\ accepted \in [Bundles -> Nat]
    BY DEF CommitNonces, IInv, TypeOK
  <2>3. accepted[b0] = 0 /\ \A i \in Judges : ~Holds(i, b0)
    BY <1>1, <1>2, <1>4, <2>2 DEF IInv, OneVerdict
  <2>4. won'[b0] > 0 /\ \A b \in Bundles : b # b0 => won'[b] = won[b]
    BY <1>1, <1>2
  <2> QED
    BY <1>1, <2>1, <2>2, <2>3, <2>4 DEF IInv, OneVerdict
<1>12. JournalHasFile'
  BY DEF IInv, TypeOK, JournalHasFile, CommitNonces, EndTransaction, GoTo
<1>13. NothingInserted'
  BY DEF IInv, TypeOK, NothingInserted, CommitNonces, EndTransaction, GoTo
<1> QED
  BY <1>6, <1>7, <1>8, <1>9, <1>10, <1>11, <1>12, <1>13 DEF IInv

\* reserve_many returns True: the win of this judge becomes the acceptance.
LEMMA AcceptKeeps ==
  ASSUME IInv, NEW j \in Judges, Accept(j)
  PROVE  IInv'
<1> USE BundleAssumption
<1> DEFINE b0 == bundle[j]
<1>1. b0 \in Bundles /\ Holds(j, b0)
  BY DEF IInv, Inserting, Accept, Holds
<1>2. accepted \in [Bundles -> Nat] /\ accepted[b0] = 0 /\ won[b0] > 0
  BY <1>1 DEF IInv, TypeOK, OneVerdict
<1>3. accepted' = [accepted EXCEPT ![b0] = 1]
  BY <1>1, <1>2 DEF Accept
<1>4. TypeOK'
  BY <1>1, <1>2, <1>3 DEF IInv, TypeOK, Accept, Quit, GoTo, disk
<1>5. OneWriter'
  BY DEF IInv, TypeOK, OneWriter, Accept, Quit, GoTo, disk
<1>6. Inserting'
  BY DEF IInv, TypeOK, Inserting, Accept, Quit, GoTo, disk
<1>7. WholeBundles' /\ WonOnce'
  BY SameTable DEF IInv, Accept, disk
<1>8. \A i \in Judges, b \in Bundles : Holds(i, b)' => Holds(i, b) /\ i # j
  BY DEF IInv, TypeOK, Holds, Accept, Quit, GoTo
<1>9. OneVerdict'
  BY <1>1, <1>2, <1>3, <1>8 DEF IInv, OneVerdict, Accept
<1>10. JournalHasFile'
  BY DEF IInv, TypeOK, JournalHasFile, Accept, Quit, GoTo, disk
<1>11. NothingInserted'
  BY DEF IInv, TypeOK, NothingInserted, Accept, Quit, GoTo
<1> QED
  BY <1>4, <1>5, <1>6, <1>7, <1>9, <1>10, <1>11 DEF IInv

\* Every step keeps the invariant: one case per action.
LEMMA NextIInv == IInv /\ [Next]_vars => IInv'
<1> SUFFICES ASSUME IInv, [Next]_vars PROVE IInv'
  OBVIOUS
<1> USE BundleAssumption
<1>1. CASE UNCHANGED vars
  <2>1. WholeBundles' /\ WonOnce'
    BY <1>1, SameTable DEF IInv, vars
  <2>2. OneVerdict'
    BY <1>1 DEF IInv, OneVerdict, Holds, vars
  <2> QED
    BY <1>1, <2>1, <2>2 DEF IInv, TypeOK, OneWriter, Inserting, JournalHasFile,
       NothingInserted, vars
<1>2. CASE Next
  <2>1. PICK j \in Judges :
           \/ \E b \in Bundles : Start(j, b)
           \/ Step(j) \/ TransactionFails(j) \/ Crash(j)
    BY <1>2 DEF Next
  <2>2. CASE \/ \E b \in Bundles : Start(j, b)
             \/ CreateFile(j) \/ CreateSchema(j) \/ CreateCommit(j)
             \/ ValidateDirectory(j) \/ ValidateContract(j) \/ Verify(j)
    BY <2>2, OpenKeeps
  <2>3. CASE OpenRefused(j) \/ VerifyRefused(j) \/ Reject(j)
    <3>1. writer # j
      BY <2>3 DEF IInv, OneWriter, OpenRefused, VerifyRefused, Reject
    <3> QED
      BY <2>3, <3>1, QuitKeeps DEF OpenRefused, VerifyRefused, Reject, disk
  <2>4. CASE Crash(j)
    BY <2>4, QuitKeeps DEF Crash
  <2>5. CASE BeginImmediate(j) \/ BeginBusy(j)
    BY <2>5, BeginKeeps
  <2>6. CASE \E n \in Nonces : Insert(j, n)
    BY <2>6, InsertKeeps
  <2>7. CASE InsertDuplicate(j) \/ TransactionFails(j)
    BY <2>7, RollbackKeeps DEF InsertDuplicate, TransactionFails
  <2>8. CASE CommitNonces(j)
    BY <2>8, CommitKeeps
  <2>9. CASE Accept(j)
    BY <2>9, AcceptKeeps
  <2> QED
    BY <2>1, <2>2, <2>3, <2>4, <2>5, <2>6, <2>7, <2>8, <2>9 DEF Step
<1> QED
  BY <1>1, <1>2

\* The invariant holds in every reachable state.
THEOREM Inductive == Spec => []IInv
<1>1. Init => IInv
  BY InitIInv
<1>2. IInv /\ [Next]_vars => IInv'
  BY NextIInv
<1> QED
  BY <1>1, <1>2, PTL DEF Spec

\* Every variable keeps its type, for any number of judges and bundles.
THEOREM TypeCorrect == Spec => []TypeOK
<1>1. IInv => TypeOK
  BY DEF IInv
<1> QED
  BY <1>1, Inductive, PTL

\* verify_attestation_set never lets a nonce through twice.
THEOREM AcceptedOnce == Spec => []NonceAcceptedOnce
<1>1. IInv => NonceAcceptedOnce
  <2> SUFFICES ASSUME IInv PROVE NonceAcceptedOnce
    OBVIOUS
  <2>1. \A b \in Bundles : accepted[b] <= 1 /\ (accepted[b] > 0 => won[b] > 0)
    BY DEF IInv, OneVerdict
  <2> QED
    BY <2>1 DEF IInv, WholeBundles, NonceAcceptedOnce
<1> QED
  BY <1>1, Inductive, PTL

\* What was accepted passed every check and is consumed for good.
THEOREM AcceptedConsumed == Spec => []AcceptedIsConsumed
<1>1. IInv => AcceptedIsConsumed
  <2> SUFFICES ASSUME IInv, NEW b \in Bundles, accepted[b] > 0
               PROVE  b \in Genuine \ Repeating /\ NoncesOf[b] \subseteq used
    BY DEF AcceptedIsConsumed
  <2>1. won[b] > 0
    BY DEF IInv, OneVerdict
  <2>2. b \in {c \in Bundles : won[c] > 0}
    BY <2>1
  <2> QED
    BY <2>2 DEF IInv, WholeBundles
<1> QED
  BY <1>1, Inductive, PTL

\* reserve_many consumes whole bundles or nothing.
THEOREM AllOrNothing == Spec => []WholeBundles
<1>1. IInv => WholeBundles
  BY DEF IInv
<1> QED
  BY <1>1, Inductive, PTL

\* A ledger left behind by a dead judge stays closed.
THEOREM FailsClosed == Spec => CrashFailsClosed
<1>1. IInv /\ [Next]_vars =>
        [Blocked => Blocked' /\ accepted' = accepted /\ used' = used]_vars
  <2> SUFFICES ASSUME IInv, Next, Blocked
               PROVE  Blocked' /\ accepted' = accepted /\ used' = used
    OBVIOUS
  <2>1. PICK j \in Judges :
           \/ \E b \in Bundles : Start(j, b)
           \/ Step(j) \/ TransactionFails(j) \/ Crash(j)
    BY DEF Next
  <2>2. /\ pc[j] \in {"idle", "creating", "existing", "validating"}
        /\ db # "absent"
        /\ db = "ready" => journal
    BY DEF Blocked, Outside, IInv, TypeOK, JournalHasFile
  <2>3. \/ \E b \in Bundles : Start(j, b)
        \/ ValidateDirectory(j) \/ OpenRefused(j) \/ Crash(j)
    BY <2>1, <2>2 DEF Step, TransactionFails, CreateFile, CreateSchema,
       CreateCommit, ValidateContract, DirectoryClean, Verify, VerifyRefused,
       BeginImmediate, BeginBusy, Insert, InsertDuplicate, CommitNonces, Accept,
       Reject
  <2>4. /\ accepted' = accepted /\ used' = used /\ db' = db /\ journal' = journal
        /\ \A i \in Judges : i # j => pc'[i] = pc[i]
        /\ pc'[j] \in {"idle", "creating", "existing", "validating"}
    BY <2>3 DEF IInv, TypeOK, Start, ValidateDirectory, OpenRefused, Crash, Quit,
       GoTo, disk
  <2> QED
    BY <2>4 DEF Blocked, Outside
<1> QED
  BY <1>1, Inductive, PTL DEF Spec, CrashFailsClosed
=============================================================================
