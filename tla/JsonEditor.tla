----------------------------- MODULE JsonEditor -----------------------------
(***************************************************************************)
(* How one cache file is replaced and read: write_json and read_json of    *)
(* src/utilities/json_editor.py, called by several processes on the same   *)
(* path without a lock.  A writer may raise inside json.dump or replace    *)
(* (disk full, a value that has no JSON form) or be killed.  The names are *)
(* chosen so that this module can be extended beside SearchPipeline, whose *)
(* caches are such files.                                                  *)
(***************************************************************************)
EXTENDS FiniteSets

CONSTANTS
    Writers,       \* processes that call write_json on the path
    Readers,       \* processes that call read_json on the path
    Documents,     \* JSON documents
    Absent,        \* no file
    Partial        \* the beginning of a document, or an empty file

ASSUME ContentsAssumption ==
    Absent \notin Documents /\ Partial \notin Documents /\ Absent # Partial

Contents == Documents \cup {Absent, Partial}

VARIABLES
    file,          \* the target
    temp,          \* the temporary file of the running call of each writer
    known,         \* temporary_path is set, as the finally clause sees it
    writing,       \* where each writer is in write_json
    document,      \* what it writes
    seen,          \* the last contents each reader got; Absent: OSError
    leftover       \* how calls ended that left their temporary file behind

fileVars == <<file, temp, known, writing, document, seen, leftover>>

FileInit ==
    /\ file = Absent
    /\ temp = [w \in Writers |-> Absent]
    /\ known = [w \in Writers |-> FALSE]
    /\ writing = [w \in Writers |-> "idle"]
    /\ document \in [Writers -> Documents]
    /\ seen = [r \in Readers |-> Absent]
    /\ leftover = {}

WriterAt(w, label) == writing' = [writing EXCEPT ![w] = label]

\* Mutant: path.open("w") truncates the target
OpenTarget(w, d) ==
    /\ writing[w] = "idle"
    /\ document' = [document EXCEPT ![w] = d]
    /\ temp' = [temp EXCEPT ![w] = Partial]
    /\ file' = Partial
    /\ WriterAt(w, "dumping")
    /\ UNCHANGED <<known, seen, leftover>>

\* NamedTemporaryFile(delete=False), under a new name in the same directory
OpenTemp(w, d) ==
    /\ writing[w] = "idle"
    /\ document' = [document EXCEPT ![w] = d]
    /\ temp' = [temp EXCEPT ![w] = Partial]
    /\ WriterAt(w, "dumping")
    /\ UNCHANGED <<file, known, seen, leftover>>

\* json.dump, the newline, flush and fsync; only then temporary_path is set.
Dump(w) ==
    /\ writing[w] = "dumping"
    /\ temp' = [temp EXCEPT ![w] = document[w]]
    /\ known' = [known EXCEPT ![w] = TRUE]
    /\ WriterAt(w, "dumped")
    /\ UNCHANGED <<file, document, seen, leftover>>

\* temporary_path.replace(path)
Replace(w) ==
    /\ writing[w] = "dumped"
    /\ file' = temp[w]
    /\ temp' = [temp EXCEPT ![w] = Absent]
    /\ WriterAt(w, "returning")
    /\ UNCHANGED <<known, document, seen, leftover>>

\* json.dump, flush, fsync or replace raises.
Raise(w) ==
    /\ writing[w] \in {"dumping", "dumped"}
    /\ WriterAt(w, "raising")
    /\ UNCHANGED <<file, temp, known, document, seen, leftover>>

\* finally: unlink the temporary file if temporary_path is set
Finally(w) ==
    /\ writing[w] \in {"returning", "raising"}
    /\ leftover' = IF known[w] \/ temp[w] = Absent THEN leftover
                   ELSE leftover \cup {writing[w]}
    /\ temp' = [temp EXCEPT ![w] = Absent]
    /\ known' = [known EXCEPT ![w] = FALSE]
    /\ WriterAt(w, "idle")
    /\ UNCHANGED <<file, document, seen>>

\* The process is killed: no finally clause runs.
Kill(w) ==
    /\ writing[w] # "idle"
    /\ leftover' = IF temp[w] = Absent THEN leftover
                   ELSE leftover \cup {"killed"}
    /\ temp' = [temp EXCEPT ![w] = Absent]
    /\ known' = [known EXCEPT ![w] = FALSE]
    /\ WriterAt(w, "idle")
    /\ UNCHANGED <<file, document, seen>>

\* read_json: read_text of the path as it is now
Read(r) ==
    /\ seen' = [seen EXCEPT ![r] = file]
    /\ UNCHANGED <<file, temp, known, writing, document, leftover>>

FileNext ==
    \/ \E w \in Writers :
          \/ \E d \in Documents : OpenTemp(w, d)
          \/ Dump(w)
          \/ Replace(w)
          \/ Raise(w)
          \/ Finally(w)
          \/ Kill(w)
    \/ \E r \in Readers : Read(r)

FileSpec == FileInit /\ [][FileNext]_fileVars

(***************************************************************************)
(* Properties.                                                             *)
(***************************************************************************)

\* Files hold documents or beginnings of documents; locals have their types.
FileTypeOK ==
    /\ file \in Contents
    /\ temp \in [Writers -> Contents]
    /\ known \in [Writers -> BOOLEAN]
    /\ writing \in [Writers -> {"idle", "dumping", "dumped", "returning", "raising"}]
    /\ document \in [Writers -> Documents]
    /\ seen \in [Readers -> Contents]
    /\ leftover \subseteq {"returning", "raising", "killed"}

\* "JSON is replaced atomically" (docs/REQUIREMENTS.md DATA-005): with writers
\* racing, raising and dying, a reader gets no file or a whole document, and
\* once there was a document it never gets less.
ReadersSeeWhole ==
    /\ \A r \in Readers : seen[r] # Partial
    /\ file = Absent => \A r \in Readers : seen[r] = Absent

\* "A temporary file that remains after a failure is removed"
\* (docs/DB-SCHEMA.md:254): a call of write_json that raised leaves none.
FailureLeavesNoTemp == "raising" \notin leftover
=============================================================================
