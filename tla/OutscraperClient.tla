-------------------------- MODULE OutscraperClient --------------------------
(***************************************************************************)
(* fetch_amazon_products of src/clients/outscraper_client.py against a     *)
(* provider that may answer anything or not at all: the creation of the    *)
(* search task, the retries of _request_json, the check of the result URL  *)
(* and the polling loop.  Every attempt carries the API key.               *)
(***************************************************************************)
EXTENDS Naturals

CONSTANTS
    MaxAttempts,   \* outscraper_max_attempts
    MaxPolls,      \* outscraper_max_polls
    Endpoint,      \* origin (https, host, port) of the configured endpoint
    Origins,       \* origins a results_location can name
    NoLocation,    \* results_location is missing or empty
    BadLocation    \* ... not a string, not a URL, not https, or with a user

ASSUME LimitAssumption == MaxAttempts \in Nat \ {0} /\ MaxPolls \in Nat \ {0}
ASSUME OriginAssumption ==
    /\ Endpoint \in Origins
    /\ NoLocation \notin Origins
    /\ BadLocation \notin Origins
    /\ NoLocation # BadLocation

\* A JSON object: the class of its normalized status, its "data" and its
\* "results_location".
Objects ==
    [status : {"processing", "failed", "success", "other"},
     data : {"none", "list", "other"},
     location : Origins \cup {NoLocation, BadLocation}]

\* What one requests.get comes to, other than a JSON object
Failures == {"unreachable", "redirect", "transient", "refused", "not json"}

Transient == {"unreachable", "transient"}

NoObject == [status |-> "other", data |-> "none", location |-> NoLocation]

VARIABLES
    pc,            \* "create", "created", "poll", "polled", "done"
    attempt,       \* attempt of the running _request_json
    poll,          \* poll_count
    target,        \* origin of the URL of the running requests
    answer,        \* the last JSON object
    outcome,       \* what fetch_amazon_products returned or raised
    sent,          \* history: origins the API key was sent to
    requests,      \* history: requests sent
    tasks,         \* history: tasks the provider created
    waiting        \* history: polls answered with "still processing"

vars == <<pc, attempt, poll, target, answer, outcome, sent, requests, tasks,
          waiting>>

\* Mutant: "data" wins over a status that says the task failed
task_state_data_first(o) ==
    CASE o.status = "processing" -> "pending"
      [] o.status = "success" \/ o.data # "none" -> "success"
      [] o.status = "failed" -> "failed"
      [] OTHER -> "unknown"

task_state(o) ==
    CASE o.status = "processing" -> "pending"
      [] o.status = "failed" -> "failed"
      [] o.status = "success" -> "success"
      [] OTHER -> IF o.data # "none" THEN "success" ELSE "unknown"

Init ==
    /\ pc = "create"
    /\ attempt = 1
    /\ poll = 0
    /\ target = Endpoint
    /\ answer = NoObject
    /\ outcome = "none"
    /\ sent = {}
    /\ requests = 0
    /\ tasks = 0
    /\ waiting = 0

\* Bounds of the histories: what one call may cost.  Each of them counts one above
\* its bound and no further.
MaxRequests == MaxAttempts * (1 + MaxPolls)

Counted(n, bound) == IF n <= bound THEN n + 1 ELSE n

End(how) ==
    /\ pc' = "done"
    /\ outcome' = how

\* One requests.get with the API key in its header, redirects not followed.  The
\* provider may have created a task although its answer is lost or an error.
Send ==
    /\ pc \in {"create", "poll"}
    /\ sent' = sent \cup {target}
    /\ requests' = Counted(requests, MaxRequests)
    /\ tasks' \in IF pc = "create" THEN {tasks, Counted(tasks, MaxAttempts)}
                 ELSE {tasks}

\* Mutant: off by one
RetryOnceMore(f) ==
    /\ Send
    /\ f \in Transient
    /\ attempt <= MaxAttempts
    /\ attempt' = attempt + 1
    /\ UNCHANGED <<pc, poll, target, answer, outcome, waiting>>

\* A timeout, no connection, 429 or 5xx, and there are attempts left
Retry(f) ==
    /\ Send
    /\ f \in Transient
    /\ attempt < MaxAttempts
    /\ attempt' = attempt + 1
    /\ UNCHANGED <<pc, poll, target, answer, outcome, waiting>>

\* The last attempt, a redirect, another 4xx, or no JSON object
GiveUp(f) ==
    /\ Send
    /\ f \in Transient => attempt = MaxAttempts
    /\ End(CASE f = "redirect" -> "security error"
             [] f = "not json" -> "response error"
             [] OTHER -> "request error")
    /\ UNCHANGED <<attempt, poll, target, answer, waiting>>

Answered(o) ==
    /\ Send
    /\ answer' = o
    /\ attempt' = 1
    /\ pc' = IF pc = "create" THEN "created" ELSE "polled"
    /\ waiting' = IF pc = "poll" /\ task_state(o) = "pending"
                    THEN Counted(waiting, MaxPolls) ELSE waiting
    /\ UNCHANGED <<poll, target, outcome>>

\* _validated_completed_result
Completed(o) ==
    End(IF o.data = "list" THEN "result" ELSE "response error")

\* The answer to the creation ends the call.
CreatedEnds ==
    /\ pc = "created"
    /\ \/ /\ task_state(answer) = "failed"
          /\ End("task failed")
       \/ /\ task_state(answer) # "failed"
          /\ answer.location = NoLocation
          /\ IF task_state(answer) = "success" THEN Completed(answer)
             ELSE End("response error")
    /\ UNCHANGED <<attempt, poll, target, answer, sent, requests, tasks, waiting>>

\* Mutant: every well-formed result URL is polled
SameOriginAnything(location) == location \in Origins

\* validate_results_location
SameOrigin(location) == location = Endpoint

\* ... a location that is refused; a value that is not a string is a response
\* error, everything else a security error.
LocationRefused ==
    /\ pc = "created"
    /\ task_state(answer) # "failed"
    /\ answer.location # NoLocation
    /\ ~SameOrigin(answer.location)
    /\ \/ End("security error")
       \/ answer.location = BadLocation /\ End("response error")
    /\ UNCHANGED <<attempt, poll, target, answer, sent, requests, tasks, waiting>>

\* ... or the first poll
StartPolling ==
    /\ pc = "created"
    /\ task_state(answer) # "failed"
    /\ SameOrigin(answer.location)
    /\ pc' = "poll"
    /\ poll' = 1
    /\ target' = answer.location
    /\ UNCHANGED <<attempt, answer, outcome, sent, requests, tasks, waiting>>

\* Mutant: the loop polls while the task is processing, without a count
PollAgainUncounted ==
    /\ pc = "polled"
    /\ task_state(answer) = "pending"
    /\ pc' = "poll"
    /\ UNCHANGED <<attempt, poll, target, answer, outcome, sent, requests, tasks,
                   waiting>>

\* The task is still processing: sleep and poll again, or give up.
PollAgain ==
    /\ pc = "polled"
    /\ task_state(answer) = "pending"
    /\ IF poll < MaxPolls
         THEN pc' = "poll" /\ poll' = poll + 1 /\ UNCHANGED outcome
         ELSE End("timeout") /\ UNCHANGED poll
    /\ UNCHANGED <<attempt, target, answer, sent, requests, tasks, waiting>>

PollEnds ==
    /\ pc = "polled"
    /\ \/ task_state(answer) = "failed" /\ End("task failed")
       \/ task_state(answer) = "success" /\ Completed(answer)
       \/ task_state(answer) = "unknown" /\ End("response error")
    /\ UNCHANGED <<attempt, poll, target, answer, sent, requests, tasks, waiting>>

Next ==
    \/ \E f \in Failures : Retry(f) \/ GiveUp(f)
    \/ \E o \in Objects : Answered(o)
    \/ CreatedEnds
    \/ LocationRefused
    \/ StartPolling
    \/ PollAgain
    \/ PollEnds

\* Every request has a timeout and every sleep an end, so the call goes on.
Spec == Init /\ [][Next]_vars /\ WF_vars(Next)

(***************************************************************************)
(* Properties.                                                             *)
(***************************************************************************)

Outcomes ==
    {"none", "result", "task failed", "timeout", "request error",
     "response error", "security error"}

\* Every variable has its type.
TypeOK ==
    /\ pc \in {"create", "created", "poll", "polled", "done"}
    /\ attempt \in 1..MaxAttempts
    /\ poll \in 0..MaxPolls
    /\ target \in Origins
    /\ answer \in Objects
    /\ outcome \in Outcomes
    /\ sent \subseteq Origins
    /\ requests \in Nat
    /\ tasks \in Nat
    /\ waiting \in Nat

\* "Before the API key is sent the result URL is checked to have the origin of
\* the Outscraper endpoint" (validate_results_location): whatever the provider
\* answers, no request carries the key anywhere else.
KeyStaysWithEndpoint == sent \subseteq {Endpoint}

\* The cost of one call is bounded: no series of timeouts, errors and pending
\* answers leads to more requests than max_attempts for the creation and for
\* each poll, nor to more tasks than max_attempts.
CostBounded ==
    /\ requests <= MaxRequests
    /\ tasks <= MaxAttempts

\* The outcome says what the provider said: a result is a completed list and
\* never the data of a task reported as failed, and OutscraperTaskTimeoutError
\* means that all max_polls polls were answered with "still processing".
OutcomeIsHonest ==
    /\ outcome = "result" =>
          answer.data = "list" /\ answer.status \notin {"failed", "processing"}
    /\ outcome = "task failed" => answer.status = "failed"
    /\ outcome = "timeout" <=> (pc = "done" /\ waiting = MaxPolls)

\* The call ends, whatever the provider does.
FetchEnds == <>(pc = "done")
=============================================================================
