---------------------------- MODULE NonceLedger ----------------------------
(***************************************************************************)
(* The replay guard of the attested judge: SqliteNonceLedger and           *)
(* verify_attestation_set (tools/ai_review/attestation.py) on the database *)
(* contract of tools/ai_review/nonce_ledger.py.                            *)
(*                                                                         *)
(* A judge process opens the ledger, verifies one bundle of signed         *)
(* attestations and reserves its nonces.  Judges share the database, may   *)
(* die between any two steps, and others are started later.  SQLite is     *)
(* external: one writer at a time, an atomic COMMIT, and a -journal file   *)
(* beside the database from the first write of a transaction to its end.   *)
(* A journal whose writer died is hot: the next writer rolls it back.      *)
(***************************************************************************)
EXTENDS Naturals, FiniteSets

CONSTANTS
    Judges,      \* judge processes
    Nonces,      \* nonces of attestation statements
    Bundles,     \* bundles of signed attestations given to judges
    NoncesOf,    \* the nonces of each bundle
    Genuine,     \* bundles that pass the role, session, signature, binding
                 \* and nonce format checks
    Repeating,   \* bundles that contain a nonce twice
    NoBundle,
    Nobody

ASSUME BundleAssumption ==
    /\ NoncesOf \in [Bundles -> (SUBSET Nonces) \ {{}}]
    /\ Genuine \subseteq Bundles
    /\ Repeating \subseteq Bundles
    /\ NoBundle \notin Bundles
    /\ Nobody \notin Judges

VARIABLES
    db,         \* the database file
    used,       \* committed rows of used_nonces
    journal,    \* a -journal file is in the directory
    writer,     \* judge that holds the write lock
    pc,         \* where each judge is
    bundle,     \* the bundle it judges
    inserted,   \* nonces inserted by its open transaction
    outcome,    \* how its reserve_many will end
    won,        \* history: won[b], commits of the nonces of b
    accepted    \* history: accepted[b], runs of verify_attestation_set that returned

disk == <<db, used, journal, writer>>
vars == <<db, used, journal, writer, pc, bundle, inserted, outcome, won, accepted>>

Init ==
    /\ db = "absent"
    /\ used = {}
    /\ journal = FALSE
    /\ writer = Nobody
    /\ pc = [j \in Judges |-> "idle"]
    /\ bundle = [j \in Judges |-> NoBundle]
    /\ inserted = [j \in Judges |-> {}]
    /\ outcome = [j \in Judges |-> "none"]
    /\ won = [b \in Bundles |-> 0]
    /\ accepted = [b \in Bundles |-> 0]

GoTo(j, label) == pc' = [pc EXCEPT ![j] = label]

\* The judge is over: a verdict, an exception, or the death of its process.
Quit(j) ==
    /\ GoTo(j, "idle")
    /\ bundle' = [bundle EXCEPT ![j] = NoBundle]
    /\ inserted' = [inserted EXCEPT ![j] = {}]
    /\ outcome' = [outcome EXCEPT ![j] = "none"]

-----------------------------------------------------------------------------
\* SqliteNonceLedger.__init__

\* absolute.exists() decides between validating and creating.
Start(j, b) ==
    /\ pc[j] = "idle"
    /\ bundle' = [bundle EXCEPT ![j] = b]
    /\ GoTo(j, IF db = "absent" THEN "creating" ELSE "existing")
    /\ UNCHANGED <<disk, inserted, outcome, won, accepted>>

\* any(parent.iterdir()), then O_CREAT | O_EXCL
CreateFile(j) ==
    /\ pc[j] = "creating"
    /\ db = "absent"
    /\ db' = "empty"
    /\ GoTo(j, "created")
    /\ UNCHANGED <<used, journal, writer, bundle, inserted, outcome, won, accepted>>

\* create_nonce_ledger_contract: BEGIN EXCLUSIVE and the schema
CreateSchema(j) ==
    /\ pc[j] = "created"
    /\ writer = Nobody
    /\ writer' = j
    /\ journal' = TRUE
    /\ GoTo(j, "schema")
    /\ UNCHANGED <<db, used, bundle, inserted, outcome, won, accepted>>

\* COMMIT; afterwards __init__ validates the file like an existing one.
CreateCommit(j) ==
    /\ pc[j] = "schema"
    /\ db' = "ready"
    /\ writer' = Nobody
    /\ journal' = FALSE
    /\ GoTo(j, "existing")
    /\ UNCHANGED <<used, bundle, inserted, outcome, won, accepted>>

\* Mutant: sidecars in the directory are not looked at
DirectoryCleanAnything == TRUE

\* validate_nonce_ledger_directory: nothing but the database
DirectoryClean == ~journal

\* validate_existing_nonce_ledger up to the read-only connection
ValidateDirectory(j) ==
    /\ pc[j] = "existing"
    /\ DirectoryClean
    /\ GoTo(j, "validating")
    /\ UNCHANGED <<disk, bundle, inserted, outcome, won, accepted>>

\* The rest of it: validate_nonce_ledger_connection, and the directory again
ValidateContract(j) ==
    /\ pc[j] = "validating"
    /\ db = "ready"
    /\ DirectoryClean
    /\ GoTo(j, "open")
    /\ UNCHANGED <<disk, bundle, inserted, outcome, won, accepted>>

\* A check of the constructor fails; judge_attestation_bundle never starts.
OpenRefused(j) ==
    /\ \/ pc[j] = "creating" /\ db # "absent"
       \/ pc[j] = "existing" /\ ~DirectoryClean
       \/ pc[j] = "validating" /\ (db # "ready" \/ ~DirectoryClean)
    /\ Quit(j)
    /\ UNCHANGED <<disk, won, accepted>>

-----------------------------------------------------------------------------
\* verify_attestation_set and reserve_many

\* Everything verify_attestation_set and reserve_many look at before the ledger
BundleOk(b) == b \in Genuine /\ b \notin Repeating

Verify(j) ==
    /\ pc[j] = "open"
    /\ BundleOk(bundle[j])
    /\ GoTo(j, "verified")
    /\ UNCHANGED <<disk, bundle, inserted, outcome, won, accepted>>

\* A check fails, or the statements are too old or from the future.
VerifyRefused(j) ==
    /\ pc[j] = "open"
    /\ Quit(j)
    /\ UNCHANGED <<disk, won, accepted>>

\* connect_existing_nonce_ledger_rw and BEGIN IMMEDIATE.  The directory is not
\* looked at here, so SQLite rolls back a hot journal that it finds.
BeginImmediate(j) ==
    /\ pc[j] = "verified"
    /\ writer = Nobody
    /\ writer' = j
    /\ journal' = FALSE
    /\ GoTo(j, "inserting")
    /\ UNCHANGED <<db, used, bundle, inserted, outcome, won, accepted>>

\* "database is locked" after the busy timeout: nothing to roll back.
BeginBusy(j) ==
    /\ pc[j] = "verified"
    /\ writer # Nobody
    /\ outcome' = [outcome EXCEPT ![j] = "error"]
    /\ GoTo(j, "closing")
    /\ UNCHANGED <<disk, bundle, inserted, won, accepted>>

CanInsert(j, n) ==
    /\ n \in NoncesOf[bundle[j]] \ inserted[j]
    /\ n \notin used

\* One row of executemany
Insert(j, n) ==
    /\ pc[j] = "inserting"
    /\ CanInsert(j, n)
    /\ inserted' = [inserted EXCEPT ![j] = @ \cup {n}]
    /\ journal' = TRUE
    /\ UNCHANGED <<db, used, writer, pc, bundle, outcome, won, accepted>>

\* ROLLBACK and close
EndTransaction(j, how) ==
    /\ writer' = Nobody
    /\ journal' = FALSE
    /\ inserted' = [inserted EXCEPT ![j] = {}]
    /\ outcome' = [outcome EXCEPT ![j] = how]
    /\ GoTo(j, "closing")

\* Mutant: the IntegrityError of one row is swallowed and the rest committed
InsertDuplicateKeepsRest(j) ==
    /\ pc[j] = "inserting"
    /\ \E n \in NoncesOf[bundle[j]] : n \in used
    /\ used' = used \cup inserted[j]
    /\ EndTransaction(j, "replay")
    /\ UNCHANGED <<db, bundle, won, accepted>>

\* Mutant: a bundle whose nonces are all there already counts as reserved
InsertDuplicateReserved(j) ==
    /\ pc[j] = "inserting"
    /\ NoncesOf[bundle[j]] \subseteq used
    /\ EndTransaction(j, "reserved")
    /\ UNCHANGED <<db, used, bundle, won, accepted>>

\* Mutant: the IntegrityError is taken for a busy database, and the transaction
\* rolled back and tried again
InsertDuplicateRetried(j) ==
    /\ pc[j] = "inserting"
    /\ \E n \in NoncesOf[bundle[j]] : n \in used
    /\ writer' = Nobody
    /\ journal' = FALSE
    /\ inserted' = [inserted EXCEPT ![j] = {}]
    /\ GoTo(j, "verified")
    /\ UNCHANGED <<db, used, bundle, outcome, won, accepted>>

\* sqlite3.IntegrityError: a nonce is used already
InsertDuplicate(j) ==
    /\ pc[j] = "inserting"
    /\ \E n \in NoncesOf[bundle[j]] : n \in used
    /\ EndTransaction(j, "replay")
    /\ UNCHANGED <<db, used, bundle, won, accepted>>

\* Any other sqlite3.Error inside the transaction
TransactionFails(j) ==
    /\ pc[j] = "inserting"
    /\ EndTransaction(j, "error")
    /\ UNCHANGED <<db, used, bundle, won, accepted>>

\* Mutant: reserved is set although COMMIT has not been executed
CommitForgotten(j) ==
    /\ pc[j] = "inserting"
    /\ inserted[j] = NoncesOf[bundle[j]]
    /\ EndTransaction(j, "reserved")
    /\ UNCHANGED <<db, used, bundle, won, accepted>>

\* COMMIT of the whole set
CommitNonces(j) ==
    /\ pc[j] = "inserting"
    /\ inserted[j] = NoncesOf[bundle[j]]
    /\ used' = used \cup inserted[j]
    /\ won' = [won EXCEPT ![bundle[j]] = @ + 1]
    /\ EndTransaction(j, "reserved")
    /\ UNCHANGED <<db, bundle, accepted>>

\* _validate_closed_file passes and reserve_many returns True.
Accept(j) ==
    /\ pc[j] = "closing"
    /\ outcome[j] = "reserved"
    /\ DirectoryClean
    /\ accepted' = [accepted EXCEPT ![bundle[j]] = @ + 1]
    /\ Quit(j)
    /\ UNCHANGED <<disk, won>>

\* False ("attestation replay detected"), the error of the transaction, or a
\* sidecar of somebody else's transaction: the verdict is a fail in each case,
\* in the last one although the nonces are consumed.
Reject(j) ==
    /\ pc[j] = "closing"
    /\ outcome[j] # "reserved" \/ ~DirectoryClean
    /\ Quit(j)
    /\ UNCHANGED <<disk, won, accepted>>

\* The process dies: its lock goes with it, the files stay.
Crash(j) ==
    /\ pc[j] # "idle"
    /\ writer' = IF writer = j THEN Nobody ELSE writer
    /\ Quit(j)
    /\ UNCHANGED <<db, used, journal, won, accepted>>

Step(j) ==
    \/ CreateFile(j)
    \/ CreateSchema(j)
    \/ CreateCommit(j)
    \/ ValidateDirectory(j)
    \/ ValidateContract(j)
    \/ OpenRefused(j)
    \/ Verify(j)
    \/ VerifyRefused(j)
    \/ BeginImmediate(j)
    \/ BeginBusy(j)
    \/ \E n \in Nonces : Insert(j, n)
    \/ InsertDuplicate(j)
    \/ CommitNonces(j)
    \/ Accept(j)
    \/ Reject(j)

Next ==
    \E j \in Judges :
        \/ \E b \in Bundles : Start(j, b)
        \/ Step(j)
        \/ TransactionFails(j)
        \/ Crash(j)

\* A judge is one thread; waiting for the lock is bounded by the busy timeout.
Fairness == \A j \in Judges : WF_vars(Step(j))

Spec == Init /\ [][Next]_vars /\ Fairness

(***************************************************************************)
(* Properties.                                                             *)
(***************************************************************************)

\* Every variable has the type of its row, file or local.
TypeOK ==
    /\ db \in {"absent", "empty", "ready"}
    /\ used \subseteq Nonces
    /\ journal \in BOOLEAN
    /\ writer \in Judges \cup {Nobody}
    /\ pc \in [Judges -> {"idle", "creating", "created", "schema", "existing",
                          "validating", "open", "verified", "inserting",
                          "closing"}]
    /\ bundle \in [Judges -> Bundles \cup {NoBundle}]
    /\ inserted \in [Judges -> SUBSET Nonces]
    /\ outcome \in [Judges -> {"none", "replay", "error", "reserved"}]
    /\ won \in [Bundles -> Nat]
    /\ accepted \in [Bundles -> Nat]

\* "replay detected": whatever bundles are judged, by however many judges, again
\* and again and across crashes, no nonce is behind two accepted judgments.
NonceAcceptedOnce ==
    /\ \A b \in Bundles : accepted[b] <= 1
    /\ \A b, c \in Bundles :
          b # c /\ accepted[b] > 0 /\ accepted[c] > 0 =>
              NoncesOf[b] \cap NoncesOf[c] = {}

\* An accepted bundle has passed every check and all its nonces are durable.
AcceptedIsConsumed ==
    \A b \in Bundles :
        accepted[b] > 0 =>
            b \in Genuine \ Repeating /\ NoncesOf[b] \subseteq used

\* "Atomically reserve all nonces, or return False without reserving any": the
\* table is at every moment the disjoint union of whole bundles that passed every
\* check, so a refused or interrupted bundle consumes nothing.
WholeBundles ==
    LET winners == {b \in Bundles : won[b] > 0} IN
    /\ used = UNION {NoncesOf[b] : b \in winners}
    /\ winners \subseteq Genuine \ Repeating
    /\ \A b, c \in winners : b # c => NoncesOf[b] \cap NoncesOf[c] = {}

\* Judges that are still in the constructor and do not own the file
Outside(j) == pc[j] \in {"idle", "creating", "existing", "validating"}

\* What a judge that died inside a transaction or between the creation of the
\* file and of its schema leaves behind, with nobody past the constructor
Blocked ==
    /\ journal \/ db = "empty"
    /\ \A j \in Judges : Outside(j)

\* After such a crash the ledger fails closed: without an operator no judge
\* accepts anything or touches the database again.
CrashFailsClosed ==
    [][Blocked => Blocked' /\ accepted' = accepted /\ used' = used]_vars

\* A judge that has started comes to an end, whatever the others do.
JudgeEnds == \A j \in Judges : pc[j] # "idle" ~> pc[j] = "idle"
=============================================================================
