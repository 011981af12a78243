----------------------------- MODULE OfflineRunner -----------------------------
(* One gate, RED or GREEN run (offline_runner.py, execute_offline): the      *)
(* container runtime's client is started with two pipes, its output is       *)
(* collected under a deadline and a byte limit (_run_bounded), and the       *)
(* container is removed by its name whatever happened (_cleanup_container).  *)
(*                                                                           *)
(* The name of a container is the session id of the run, which is the same   *)
(* in every launch of a workflow: the executors here are launches of one     *)
(* workflow, at the same time or after a crash, and share that name.         *)
(*                                                                           *)
(* The runtime and the command in the container are external: the command    *)
(* writes to both streams and ends when it likes or never, the client may    *)
(* linger after closing its streams, and a command may fail before or after  *)
(* its effect.  Output is counted in units of one write.                     *)
EXTENDS Naturals, FiniteSets

CONSTANTS
    Executors,   \* launches that execute the run
    PipeCap,     \* units a pipe holds
    Limit,       \* max_output_bytes, over both streams
    MaxWrites,   \* bound: units written to a stream
    MaxFaults,   \* bound: crashes and failing commands
    Nobody

ASSUME RunnerAssumption ==
    /\ Nobody \notin Executors
    /\ {PipeCap, Limit, MaxWrites} \subseteq Nat \ {0} /\ MaxFaults \in Nat

Streams == {"stdout", "stderr"}

VARIABLES
    pc,         \* where each executor is
    client,     \* the process it started: none, starting, attached, leaving, dead
    exit,       \* how that process ended: none, own, conflict, killed
    written,    \* [executor -> [stream -> units written to the pipe]]
    taken,      \* [executor -> [stream -> units read from the pipe]]
    closed,     \* [executor -> streams without a writer]
    open,       \* [executor -> streams registered in the selector]
    expired,    \* executors whose deadline has passed
    control,    \* what is in the control directory: none, dir, cid
    error,      \* executors with an execution_error
    removed,    \* executors whose cleanup succeeded so far
    container,  \* owner of the container with the run's name, or Nobody
    ended,      \* whether the command in the container has ended
    faults

process == <<client, exit, written, closed>>
reader == <<taken, open, expired>>
outcome == <<control, error, removed>>
runtime == <<container, ended>>
vars == <<pc, process, reader, outcome, runtime, faults>>

Zero == [s \in Streams |-> 0]
Total(units) == units["stdout"] + units["stderr"]
Final == {"done", "failed", "unattested", "crashed"}

Goto(e, label) == pc' = [pc EXCEPT ![e] = label]

Init ==
    /\ pc = [e \in Executors |-> "start"]
    /\ client = [e \in Executors |-> "none"] /\ exit = [e \in Executors |-> "none"]
    /\ written = [e \in Executors |-> Zero] /\ taken = [e \in Executors |-> Zero]
    /\ closed = [e \in Executors |-> {}] /\ open = [e \in Executors |-> {}]
    /\ expired = {} /\ control = [e \in Executors |-> "none"]
    /\ error = {} /\ removed = {}
    /\ container = Nobody /\ ended = FALSE /\ faults = 0

\* one more fault, where the bound allows it
Fault == faults < MaxFaults /\ faults' = faults + 1

----------------------------------------------------------------------------
(* The runtime's client and the command in the container *)

\* the client creates the named container and writes the cidfile; a name in use
\* makes it end with an error and without a cidfile
ClientCreates(e) ==
    /\ client[e] = "starting"
    /\ \/ /\ container = Nobody
          /\ container' = e /\ ended' = FALSE
          /\ control' = [control EXCEPT ![e] = IF @ = "none" THEN @ ELSE "cid"]
          /\ client' = [client EXCEPT ![e] = "attached"]
          /\ UNCHANGED exit
       \/ /\ container # Nobody
          /\ client' = [client EXCEPT ![e] = "leaving"]
          /\ exit' = [exit EXCEPT ![e] = "conflict"]
          /\ UNCHANGED <<container, ended, control>>
    /\ UNCHANGED <<pc, written, closed, reader, error, removed, faults>>

\* the command writes; a full pipe blocks it
CommandWrites(e, s) ==
    /\ client[e] = "attached" /\ container = e /\ ~ended
    /\ written[e][s] < MaxWrites /\ written[e][s] - taken[e][s] < PipeCap
    /\ written' = [written EXCEPT ![e][s] = @ + 1]
    /\ UNCHANGED <<pc, client, exit, closed, reader, outcome, runtime, faults>>

CommandEnds ==
    /\ container # Nobody /\ ~ended
    /\ ended' = TRUE
    /\ UNCHANGED <<pc, process, reader, outcome, container, faults>>

\* the client notices that its container ended or was removed under it
ClientDetaches(e) ==
    /\ client[e] = "attached"
    /\ \/ container = e /\ ended /\ exit' = [exit EXCEPT ![e] = "own"]
       \/ container # e /\ exit' = [exit EXCEPT ![e] = "killed"]
    /\ client' = [client EXCEPT ![e] = "leaving"]
    /\ UNCHANGED <<pc, written, closed, reader, outcome, runtime, faults>>

ClientCloses(e, s) ==
    /\ client[e] = "leaving" /\ s \notin closed[e]
    /\ closed' = [closed EXCEPT ![e] = @ \cup {s}]
    /\ UNCHANGED <<pc, client, exit, written, reader, outcome, runtime, faults>>

ClientExits(e) ==
    /\ client[e] = "leaving"
    /\ client' = [client EXCEPT ![e] = "dead"]
    /\ closed' = [closed EXCEPT ![e] = Streams]
    /\ UNCHANGED <<pc, exit, written, reader, outcome, runtime, faults>>

Outside(e) ==
    \/ ClientCreates(e) \/ ClientDetaches(e) \/ ClientExits(e)
    \/ \E s \in Streams : CommandWrites(e, s) \/ ClientCloses(e, s)

----------------------------------------------------------------------------
(* execute_offline up to the process *)

\* mkdtemp, chmod and the command line.  The run is refused with an ordinary error
\* when one of them raises: without a directory, or with one whose chmod failed or
\* whose removal after a refused command line failed, which is ignored
MakeControl(e) ==
    /\ pc[e] = "start"
    /\ \/ control' = [control EXCEPT ![e] = "dir"] /\ Goto(e, "popen") /\ UNCHANGED faults
       \/ /\ Fault /\ Goto(e, "failed")
          /\ control' \in {control, [control EXCEPT ![e] = "dir"]}
    /\ UNCHANGED <<process, reader, error, removed, runtime>>

Popen(e) ==
    /\ pc[e] = "popen"
    /\ \/ /\ client' = [client EXCEPT ![e] = "starting"]
          /\ open' = [open EXCEPT ![e] = Streams]
          /\ Goto(e, "loop")
          /\ UNCHANGED <<error, faults>>
       \/ /\ Fault
          /\ error' = error \cup {e} /\ Goto(e, "cleanup")
          /\ UNCHANGED <<client, open>>
    /\ UNCHANGED <<exit, written, closed, taken, expired, control, removed, runtime>>

----------------------------------------------------------------------------
(* _run_bounded *)

\* _kill_process_group, and the finally clause.  Only the client dies: the
\* container belongs to the runtime
KillGroup(e) ==
    /\ client' = [client EXCEPT ![e] = IF @ = "none" THEN @ ELSE "dead"]
    /\ exit' = [exit EXCEPT ![e] = IF @ = "none" THEN "killed" ELSE @]
    /\ closed' = [closed EXCEPT ![e] = Streams]
    /\ open' = [open EXCEPT ![e] = {}]

Raise(e) ==
    /\ KillGroup(e)
    /\ error' = error \cup {e}
    /\ Goto(e, "cleanup")

Ready(e) == {s \in open[e] : written[e][s] > taken[e][s] \/ s \in closed[e]}

\* a stream is unregistered when it is empty and has no writer left
StillOpen(e, ready) == {s \in open[e] : ~(s \in ready /\ written[e][s] = taken[e][s])}

\* one round of select: everything in the ready pipes is read
Poll(e) ==
    /\ pc[e] = "loop" /\ open[e] # {} /\ e \notin expired /\ Ready(e) # {}
    /\ taken' = [taken EXCEPT ![e] = [s \in Streams |-> IF s \in Ready(e) THEN written[e][s]
                                                        ELSE taken[e][s]]]
    /\ \/ /\ Total(taken'[e]) =< Limit
          /\ open' = [open EXCEPT ![e] = StillOpen(e, Ready(e))]
          /\ UNCHANGED <<pc, client, exit, closed, error>>
       \/ Total(taken'[e]) > Limit /\ Raise(e)
    /\ UNCHANGED <<written, expired, control, removed, runtime, faults>>

\* the check at the head of the loop
LoopExpires(e) ==
    /\ pc[e] = "loop" /\ open[e] # {} /\ e \in expired
    /\ Raise(e)
    /\ UNCHANGED <<written, taken, expired, control, removed, runtime, faults>>

\* Mutant: the loop runs until the process has ended
WaitReturnsAtExit(e) ==
    /\ pc[e] = "loop" /\ client[e] = "dead"
    /\ Goto(e, "cid")
    /\ UNCHANGED <<process, reader, outcome, runtime, faults>>

\* process.wait after the last stream, which still waits 0.1 s when the deadline
\* has passed
WaitReturns(e) ==
    /\ pc[e] = "loop" /\ open[e] = {} /\ client[e] = "dead"
    /\ Goto(e, "cid")
    /\ UNCHANGED <<process, reader, outcome, runtime, faults>>

\* Mutant: process.wait has no timeout
WaitExpiresNever(e) ==
    /\ pc[e] = "loop" /\ open[e] = {} /\ client[e] = "dead" /\ e \in expired
    /\ Raise(e)
    /\ UNCHANGED <<written, taken, expired, control, removed, runtime, faults>>

WaitExpires(e) ==
    /\ pc[e] = "loop" /\ open[e] = {} /\ client[e] # "dead" /\ e \in expired
    /\ Raise(e)
    /\ UNCHANGED <<written, taken, expired, control, removed, runtime, faults>>

\* time goes on
Expire(e) ==
    /\ pc[e] = "loop" /\ e \notin expired
    /\ expired' = expired \cup {e}
    /\ UNCHANGED <<pc, process, taken, open, outcome, runtime, faults>>

----------------------------------------------------------------------------
(* Cleanup and evidence *)

\* _read_container_id
ReadContainerId(e) ==
    /\ pc[e] = "cid"
    /\ Goto(e, "cleanup")
    /\ error' = IF control[e] = "cid" THEN error ELSE error \cup {e}
    /\ UNCHANGED <<process, reader, control, removed, runtime, faults>>

\* Mutant: there is something to remove only when the run was successful
CleanupContainerOfResult(e) ==
    /\ pc[e] = "cleanup"
    /\ removed' = removed \cup {e}
    /\ container' = IF e \in error THEN container ELSE Nobody
    /\ Goto(e, "control")
    /\ UNCHANGED <<process, reader, control, error, ended, faults>>

\* _cleanup_container: rm -f by name, without a look at whose container it is;
\* a runtime may report a missing container as an error.  On a fault it fails,
\* or its answer is lost after it took effect
CleanupContainer(e) ==
    /\ pc[e] = "cleanup"
    /\ \/ container' = Nobody /\ removed' = removed \cup {e} /\ UNCHANGED faults
       \/ container = Nobody /\ UNCHANGED <<container, removed, faults>>
       \/ Fault /\ container' \in {container, Nobody} /\ UNCHANGED removed
    /\ Goto(e, "control")
    /\ UNCHANGED <<process, reader, control, error, ended>>

\* the cidfile and the control directory, and which error is raised; the directory
\* may stay with or without the cidfile
RemoveControl(e) ==
    /\ pc[e] = "control"
    /\ \/ /\ control' = [control EXCEPT ![e] = "none"]
          /\ Goto(e, CASE e \notin removed -> "unattested"
                       [] e \in removed /\ e \in error -> "failed"
                       [] OTHER -> "probe")
          /\ UNCHANGED faults
       \/ /\ Fault /\ Goto(e, "unattested")
          /\ control' \in {control, [control EXCEPT ![e] = "dir"]}
    /\ UNCHANGED <<process, reader, error, removed, runtime>>

\* the second _probe_backend, then OfflineRunEvidence
Probe(e) ==
    /\ pc[e] = "probe"
    /\ \/ Goto(e, "done") /\ UNCHANGED faults
       \/ Fault /\ Goto(e, "failed")
    /\ UNCHANGED <<process, reader, outcome, runtime>>

\* the executor is killed; client (a session of its own) and container go on
Crash(e) ==
    /\ pc[e] \notin Final \cup {"start"}
    /\ Fault /\ Goto(e, "crashed")
    /\ UNCHANGED <<process, reader, outcome, runtime>>

Execute(e) ==
    \/ MakeControl(e) \/ Popen(e)
    \/ Poll(e) \/ LoopExpires(e) \/ WaitReturns(e) \/ WaitExpires(e)
    \/ ReadContainerId(e) \/ CleanupContainer(e) \/ RemoveControl(e) \/ Probe(e)

Next ==
    \/ \E e \in Executors : Execute(e) \/ Expire(e) \/ Outside(e) \/ Crash(e)
    \/ CommandEnds

\* the executor is one thread and time passes; nothing is assumed of the command,
\* the client or the container
Fairness == \A e \in Executors : WF_vars(Execute(e)) /\ WF_vars(Expire(e))

Spec == Init /\ [][Next]_vars /\ Fairness

----------------------------------------------------------------------------
(* Properties *)

\* Types of the variables
TypeOK ==
    /\ pc \in [Executors -> {"start", "popen", "loop", "cid", "cleanup", "control", "probe"}
                             \cup Final]
    /\ client \in [Executors -> {"none", "starting", "attached", "leaving", "dead"}]
    /\ exit \in [Executors -> {"none", "own", "conflict", "killed"}]
    /\ written \in [Executors -> [Streams -> Nat]]
    /\ taken \in [Executors -> [Streams -> Nat]]
    /\ closed \in [Executors -> SUBSET Streams] /\ open \in [Executors -> SUBSET Streams]
    /\ expired \subseteq Executors
    /\ control \in [Executors -> {"none", "dir", "cid"}]
    /\ error \subseteq Executors /\ removed \subseteq Executors
    /\ container \in Executors \cup {Nobody} /\ ended \in BOOLEAN /\ faults \in Nat

\* Evidence is only made of a run in the executor's own container; when it has
\* the command's own exit code, the command ended by itself and its log is all
\* that was written to both streams, within the limit.  A container that another
\* launch removed by name in between never looks like one that ended.
EvidenceIsWhole ==
    \A e \in Executors :
        pc[e] \in {"probe", "done"} =>
            /\ exit[e] \in {"own", "killed"}
            /\ exit[e] = "own" => taken[e] = written[e] /\ Total(taken[e]) =< Limit

\* "always remove its explicitly named container": after a run that ended, well
\* or with an ordinary error, neither its container nor its client is left, nor
\* its control directory unless the run was refused before its process was started
\* and the directory is empty; anything else is reported as a cleanup that could
\* not be attested.
NothingLeft ==
    \A e \in Executors :
        pc[e] \in {"probe", "done", "failed"} =>
            /\ container # e /\ client[e] \in {"none", "dead"}
            /\ control[e] # "none" =>
                  client[e] = "none" /\ e \notin removed /\ control[e] = "dir"

\* A run ends whatever the command, the client and other launches do: also when
\* a process writes for ever, never closes its pipes, or closes them and stays.
RunEnds == \A e \in Executors : <>(pc[e] \in Final)
==============================================================================
