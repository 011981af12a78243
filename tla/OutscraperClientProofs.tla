----------------------- MODULE OutscraperClientProofs -----------------------
(***************************************************************************)
(* What holds of fetch_amazon_products for every number of attempts and of *)
(* polls and every set of origins: the API key goes to the configured      *)
(* endpoint only, the cost of a call is bounded and its outcome says what  *)
(* the provider said.                                                      *)
(***************************************************************************)
EXTENDS OutscraperClient, TLAPS

(***************************************************************************)
(* The inductive invariant.                                                *)
(***************************************************************************)

\* The running request, and every one before it, goes to the endpoint.
Keyed == target = Endpoint /\ sent \subseteq {Endpoint}

\* Requests paid for so far, by the place in the call: the attempts before this
\* one, on top of a full series for the creation and for every poll before.
Cost ==
    /\ pc = "create" => requests <= attempt - 1 /\ tasks <= attempt - 1
    /\ pc = "created" => requests <= MaxAttempts
    /\ pc = "poll" => requests <= MaxAttempts * poll + attempt - 1
    /\ pc = "polled" => requests <= MaxAttempts * poll + MaxAttempts
    /\ pc = "done" => requests <= MaxAttempts * MaxPolls + MaxAttempts
    /\ tasks <= MaxAttempts

\* Polls are numbered from 1, and every one before the running one was answered
\* with "still processing".
Polling ==
    /\ pc \in {"create", "created"} => poll = 0 /\ waiting = 0
    /\ pc \in {"poll", "polled"} => poll >= 1
    /\ pc = "poll" => waiting = poll - 1
    /\ pc = "polled" =>
          waiting = IF task_state(answer) = "pending" THEN poll ELSE poll - 1
    /\ pc \in {"created", "polled"} => attempt = 1

\* The outcome is set by the step that ends the call.
Ended ==
    /\ pc # "done" => outcome = "none"
    /\ pc = "done" => outcome # "none"
    /\ pc = "done" => waiting <= MaxPolls
    /\ OutcomeIsHonest

CInv == TypeOK /\ Keyed /\ Cost /\ Polling /\ Ended

(***************************************************************************)
(* Lemmas about the operators.                                             *)
(***************************************************************************)

\* Attempts times polls is a number that grows with the polls; this is the only
\* multiplication of the argument.
LEMMA Product ==
    ASSUME NEW p \in Nat, p <= MaxPolls
    PROVE  /\ MaxAttempts * p \in Nat
           /\ MaxAttempts * p <= MaxAttempts * MaxPolls
           /\ MaxAttempts * (p + 1) = MaxAttempts * p + MaxAttempts
           /\ MaxAttempts * 1 = MaxAttempts
           /\ MaxAttempts * (1 + MaxPolls) = MaxAttempts * MaxPolls + MaxAttempts
  <1>1. MaxAttempts \in Nat /\ MaxPolls \in Nat
    BY LimitAssumption
  <1>2. \A a, q, r \in Nat : q <= r => a * q <= a * r
    BY SMT
  <1> QED BY <1>1, <1>2

\* What _task_state can say, and on which ground.
LEMMA States ==
    ASSUME NEW o \in Objects
    PROVE  /\ task_state(o) \in {"pending", "failed", "success", "unknown"}
           /\ task_state(o) = "pending" <=> o.status = "processing"
           /\ task_state(o) = "failed" <=> o.status = "failed"
           /\ task_state(o) = "success" =>
                 o.status \notin {"failed", "processing"}
  BY DEF task_state, Objects

\* The counters are numbers within their limits.
LEMMA Numbers ==
    ASSUME CInv
    PROVE  /\ MaxAttempts \in Nat /\ MaxAttempts >= 1
           /\ MaxPolls \in Nat /\ MaxPolls >= 1
           /\ attempt \in Nat /\ attempt >= 1 /\ attempt <= MaxAttempts
           /\ poll \in Nat /\ poll <= MaxPolls
           /\ requests \in Nat /\ tasks \in Nat /\ waiting \in Nat
  BY LimitAssumption DEF CInv, TypeOK

\* Sending a request costs one request, at most one task, and shows the key to
\* the endpoint only.
LEMMA SendCosts ==
    ASSUME CInv, Send
    PROVE  /\ requests' <= requests + 1 /\ requests' \in Nat
           /\ tasks' \in Nat
           /\ pc = "create" => tasks' <= tasks + 1
           /\ pc # "create" => tasks' = tasks
           /\ sent' \subseteq {Endpoint}
           /\ sent' \subseteq Origins
  <1>1. requests \in Nat /\ tasks \in Nat
    BY DEF CInv, TypeOK
  <1>2. ASSUME NEW n \in Nat, NEW bound
        PROVE  Counted(n, bound) \in {n, n + 1}
    BY DEF Counted
  <1>3. requests' \in {requests, requests + 1}
    BY <1>1, <1>2 DEF Send
  <1>4. tasks' \in {tasks, tasks + 1} /\ (pc # "create" => tasks' = tasks)
    BY <1>1, <1>2 DEF Send
  <1>5. sent' \subseteq {Endpoint}
    BY DEF CInv, Keyed, Send
  <1> QED BY <1>1, <1>3, <1>4, <1>5, OriginAssumption

\* Nothing has been sent before the first attempt.
LEMMA InitHolds == Init => CInv
  BY LimitAssumption, OriginAssumption
  DEF Init, CInv, TypeOK, Keyed, Cost, Polling, Ended, OutcomeIsHonest, NoObject,
      Objects, Outcomes

\* Another attempt of the same request.
LEMMA RetryKeeps ==
    ASSUME CInv, NEW f \in Failures, Retry(f) PROVE CInv'
  <1>1. MaxAttempts \in Nat /\ MaxPolls \in Nat /\ poll \in Nat /\ poll <= MaxPolls
        /\ attempt \in Nat /\ pc \in {"create", "poll"}
    BY LimitAssumption DEF CInv, TypeOK, Retry, Send
  <1>2. MaxAttempts * poll \in Nat
    BY <1>1, Product
  <1>3. TypeOK' /\ Keyed'
    BY <1>1, SendCosts DEF CInv, TypeOK, Keyed, Retry
  <1>4. Cost'
    BY <1>1, <1>2, SendCosts DEF CInv, TypeOK, Cost, Retry
  <1>5. Polling' /\ Ended'
    BY <1>1 DEF CInv, TypeOK, Polling, Ended, OutcomeIsHonest, Retry
  <1> QED BY <1>3, <1>4, <1>5 DEF CInv

\* A request that fails for good ends the call with an error.
LEMMA GiveUpKeeps ==
    ASSUME CInv, NEW f \in Failures, GiveUp(f) PROVE CInv'
  <1>1. pc \in {"create", "poll"} /\ Send
    BY DEF GiveUp, Send
  <1>2. MaxAttempts * poll \in Nat /\ MaxAttempts * MaxPolls \in Nat
        /\ MaxAttempts * poll <= MaxAttempts * MaxPolls
    BY Numbers, Product
  <1>3. /\ pc' = "done"
        /\ outcome' \in {"security error", "response error", "request error"}
        /\ UNCHANGED <<attempt, poll, target, answer, waiting>>
    BY DEF GiveUp, End
  <1>4. TypeOK' /\ Keyed'
    BY <1>1, <1>3, SendCosts DEF CInv, TypeOK, Keyed, Outcomes
  <1>5. Cost'
    <2>1. requests' <= requests + 1 /\ requests' \in Nat /\ (pc = "create" => tasks' <= tasks + 1)
          /\ (pc # "create" => tasks' = tasks) /\ tasks' \in Nat
      BY <1>1, SendCosts
    <2>2. requests + 1 <= MaxAttempts * MaxPolls + MaxAttempts
      <3>1. CASE pc = "create"
        <4>1. requests <= attempt - 1
          BY <3>1 DEF CInv, Cost
        <4> QED BY <4>1, <1>2, Numbers
      <3>2. CASE pc = "poll"
        <4>1. requests <= MaxAttempts * poll + attempt - 1
          BY <3>2 DEF CInv, Cost
        <4> QED BY <4>1, <1>2, Numbers
      <3> QED BY <3>1, <3>2, <1>1
    <2>3. tasks' <= MaxAttempts
      BY <1>1, <2>1, Numbers DEF CInv, Cost
    <2>4. requests' <= MaxAttempts * MaxPolls + MaxAttempts
      BY <1>2, <2>1, <2>2, Numbers
    <2> QED BY <1>3, <2>3, <2>4 DEF Cost
  <1>6. waiting < MaxPolls
    BY <1>1, Numbers DEF CInv, Polling
  <1>7. waiting # MaxPolls /\ waiting <= MaxPolls
    BY <1>6, Numbers
  <1>8. waiting' # MaxPolls /\ waiting' <= MaxPolls
    BY <1>3, <1>7
  <1>9. outcome' \notin {"none", "result", "task failed", "timeout"}
    BY <1>3
  <1>10. Polling' /\ Ended'
    BY <1>3, <1>8, <1>9 DEF Polling, Ended, OutcomeIsHonest
  <1> QED BY <1>4, <1>5, <1>10 DEF CInv

\* A JSON object came back.
LEMMA AnsweredKeeps ==
    ASSUME CInv, NEW o \in Objects, Answered(o) PROVE CInv'
  <1>1. MaxAttempts \in Nat \ {0} /\ MaxPolls \in Nat \ {0} /\ poll \in Nat
        /\ poll <= MaxPolls /\ attempt \in Nat /\ attempt <= MaxAttempts
        /\ pc \in {"create", "poll"} /\ waiting \in Nat /\ requests \in Nat
    BY LimitAssumption DEF CInv, TypeOK, Answered, Send
  <1>2. MaxAttempts * poll \in Nat
    BY <1>1, Product
  <1>3. TypeOK' /\ Keyed'
    BY <1>1, SendCosts DEF CInv, TypeOK, Keyed, Answered, Counted
  <1>4. Cost'
    BY <1>1, <1>2, SendCosts DEF CInv, TypeOK, Cost, Answered
  <1>5. task_state(o) = task_state(answer')
    BY DEF Answered
  <1>6. Polling'
    BY <1>1, <1>5 DEF CInv, Polling, Answered, Counted
  <1>7. Ended'
    BY <1>1 DEF CInv, Ended, OutcomeIsHonest, Answered, Counted
  <1> QED BY <1>3, <1>4, <1>6, <1>7 DEF CInv

\* The answer to the creation, or to a poll, ends the call, and not with a
\* timeout.
AnswerEnds ==
    /\ pc \in {"created", "polled"}
    /\ pc' = "done"
    /\ \/ outcome' = "task failed" /\ answer.status = "failed"
       \/ outcome' \in {"response error", "security error"}
       \/ /\ outcome' = "result"
          /\ answer.data = "list"
          /\ answer.status \notin {"failed", "processing"}
    /\ pc = "polled" => task_state(answer) # "pending"
    /\ UNCHANGED <<attempt, poll, target, answer, sent, requests, tasks, waiting>>

\* Every such end keeps the invariant.
LEMMA AnswerEndsKeeps == ASSUME CInv, AnswerEnds PROVE CInv'
  <1>1. /\ pc \in {"created", "polled"}
        /\ pc' = "done"
        /\ UNCHANGED <<attempt, poll, target, answer, sent, requests, tasks, waiting>>
    BY DEF AnswerEnds
  <1>2. MaxAttempts * poll \in Nat /\ MaxAttempts * MaxPolls \in Nat
        /\ MaxAttempts * poll <= MaxAttempts * MaxPolls
    BY Numbers, Product
  <1>3. TypeOK' /\ Keyed'
    BY DEF CInv, TypeOK, Keyed, AnswerEnds, Outcomes
  <1>4. Cost'
    <2>1. requests <= MaxAttempts * MaxPolls + MaxAttempts
      BY <1>1, <1>2, Numbers DEF CInv, Cost
    <2> QED BY <1>1, <2>1 DEF CInv, Cost
  <1>5. waiting < MaxPolls
    <2>1. CASE pc = "created"
      BY <2>1, Numbers DEF CInv, Polling
    <2>2. CASE pc = "polled"
      <3>1. task_state(answer) # "pending"
        BY <2>2 DEF AnswerEnds
      <3>2. waiting = poll - 1
        BY <2>2, <3>1 DEF CInv, Polling
      <3> QED BY <3>2, Numbers
    <2> QED BY <1>1, <2>1, <2>2
  <1>6. Polling'
    BY <1>1 DEF Polling
  <1>7. Ended'
    <2>0. waiting # MaxPolls /\ waiting <= MaxPolls
      BY <1>5, Numbers
    <2>1. outcome' \notin {"timeout", "none"} /\ waiting' # MaxPolls
          /\ waiting' <= MaxPolls
      BY <1>1, <2>0 DEF AnswerEnds
    <2>2. (outcome' = "result" => answer'.data = "list"
                  /\ answer'.status \notin {"failed", "processing"})
          /\ (outcome' = "task failed" => answer'.status = "failed")
      BY DEF AnswerEnds
    <2> QED BY <1>1, <2>1, <2>2 DEF Ended, OutcomeIsHonest
  <1> QED BY <1>3, <1>4, <1>6, <1>7 DEF CInv

\* The answer to the creation ends the call: it failed, it is complete, or it
\* has no result URL.
LEMMA CreatedEndsKeeps == ASSUME CInv, CreatedEnds PROVE CInv'
  <1>1. answer \in Objects
    BY DEF CInv, TypeOK
  <1>2. AnswerEnds
    BY <1>1, States DEF CreatedEnds, AnswerEnds, Completed, End
  <1> QED BY <1>2, AnswerEndsKeeps

\* A result URL of another origin ends it.
LEMMA LocationRefusedKeeps == ASSUME CInv, LocationRefused PROVE CInv'
  <1>1. AnswerEnds
    BY DEF LocationRefused, AnswerEnds, End
  <1> QED BY <1>1, AnswerEndsKeeps

\* A poll that says anything but "still processing" ends it.
LEMMA PollEndsKeeps == ASSUME CInv, PollEnds PROVE CInv'
  <1>1. answer \in Objects
    BY DEF CInv, TypeOK
  <1>2. AnswerEnds
    BY <1>1, States DEF PollEnds, AnswerEnds, Completed, End
  <1> QED BY <1>2, AnswerEndsKeeps

\* The first poll goes to the endpoint: this is what the check of the result URL
\* is for.
LEMMA StartPollingKeeps == ASSUME CInv, StartPolling PROVE CInv'
  <1>1. MaxAttempts \in Nat /\ MaxPolls \in Nat \ {0} /\ requests \in Nat
        /\ waiting \in Nat /\ attempt = 1
    BY LimitAssumption DEF CInv, TypeOK, Polling, StartPolling
  <1>2. target' = Endpoint
    BY DEF StartPolling, SameOrigin
  <1>3. TypeOK' /\ Keyed'
    BY <1>1, <1>2, OriginAssumption DEF CInv, TypeOK, Keyed, StartPolling
  <1>4. MaxAttempts * 1 = MaxAttempts
    BY <1>1
  <1>5. Cost'
    BY <1>1, <1>4 DEF CInv, Cost, StartPolling
  <1>6. Polling' /\ Ended'
    BY <1>1 DEF CInv, Polling, Ended, OutcomeIsHonest, StartPolling
  <1> QED BY <1>3, <1>5, <1>6 DEF CInv

\* Still processing: the next poll, or the timeout after the last one.
LEMMA PollAgainKeeps == ASSUME CInv, PollAgain PROVE CInv'
  <1>1. MaxAttempts \in Nat /\ MaxPolls \in Nat \ {0} /\ requests \in Nat
        /\ poll \in Nat /\ poll <= MaxPolls /\ waiting = poll /\ attempt = 1
        /\ pc = "polled"
    BY LimitAssumption DEF CInv, TypeOK, Polling, PollAgain
  <1>2. MaxAttempts * (poll + 1) = MaxAttempts * poll + MaxAttempts
        /\ MaxAttempts * poll \in Nat
    BY <1>1, Product
  <1>3. CASE poll < MaxPolls
    <2>1. TypeOK' /\ Keyed'
      BY <1>1, <1>3 DEF CInv, TypeOK, Keyed, PollAgain
    <2>2. requests <= MaxAttempts * poll + MaxAttempts
      BY <1>1 DEF CInv, Cost
    <2>3. requests' <= MaxAttempts * poll' + attempt' - 1
      <3>1. poll' = poll + 1 /\ requests' = requests /\ attempt' = 1
        BY <1>1, <1>3 DEF PollAgain
      <3>2. MaxAttempts * poll' = MaxAttempts * poll + MaxAttempts
        BY <1>2, <3>1
      <3> QED BY <1>1, <1>2, <2>2, <3>1, <3>2
    <2>4. pc' = "poll" /\ tasks' = tasks
      BY <1>3 DEF PollAgain
    <2>5. Cost'
      BY <2>3, <2>4 DEF CInv, Cost
    <2>6. Polling' /\ Ended'
      BY <1>1, <1>3 DEF CInv, Polling, Ended, OutcomeIsHonest, PollAgain
    <2> QED BY <2>1, <2>5, <2>6 DEF CInv
  <1>4. CASE ~(poll < MaxPolls)
    <2>1. poll = MaxPolls
      BY <1>1, <1>4
    <2>2. TypeOK' /\ Keyed'
      BY <1>4 DEF CInv, TypeOK, Keyed, PollAgain, End, Outcomes
    <2>3. Cost'
      BY <1>1, <1>2, <1>4, <2>1 DEF CInv, Cost, PollAgain, End
    <2>4. Polling' /\ Ended'
      BY <1>1, <1>4, <2>1 DEF CInv, Polling, Ended, OutcomeIsHonest, PollAgain, End
    <2> QED BY <2>2, <2>3, <2>4 DEF CInv
  <1> QED BY <1>3, <1>4

\* Every step of the call keeps the invariant.
LEMMA NextKeeps == CInv /\ [Next]_vars => CInv'
  <1> SUFFICES ASSUME CInv, [Next]_vars PROVE CInv'
    OBVIOUS
  <1>1. ASSUME NEW f \in Failures, Retry(f) PROVE CInv'
    BY <1>1, RetryKeeps
  <1>2. ASSUME NEW f \in Failures, GiveUp(f) PROVE CInv'
    BY <1>2, GiveUpKeeps
  <1>3. ASSUME NEW o \in Objects, Answered(o) PROVE CInv'
    BY <1>3, AnsweredKeeps
  <1>4. CASE CreatedEnds
    BY <1>4, CreatedEndsKeeps
  <1>5. CASE LocationRefused
    BY <1>5, LocationRefusedKeeps
  <1>6. CASE StartPolling
    BY <1>6, StartPollingKeeps
  <1>7. CASE PollAgain
    BY <1>7, PollAgainKeeps
  <1>8. CASE PollEnds
    BY <1>8, PollEndsKeeps
  <1>9. CASE UNCHANGED vars
    BY <1>9 DEF vars, CInv, TypeOK, Keyed, Cost, Polling, Ended, OutcomeIsHonest
  <1> QED BY <1>1, <1>2, <1>3, <1>4, <1>5, <1>6, <1>7, <1>8, <1>9 DEF Next

(***************************************************************************)
(* Theorems.                                                               *)
(***************************************************************************)

\* The invariant holds in every state of every call.
THEOREM Inductive == Spec => []CInv
  BY InitHolds, NextKeeps, PTL DEF Spec

\* Every variable of the call keeps its type; attempts and polls stay within
\* their limits.
THEOREM TypeCorrect == Spec => []TypeOK
  <1>1. CInv => TypeOK
    BY DEF CInv
  <1> QED BY <1>1, Inductive, PTL

\* Whatever the provider answers, validate_results_location keeps every request
\* that carries the API key at the origin of the configured endpoint.
THEOREM KeyConfined == Spec => []KeyStaysWithEndpoint
  <1>1. CInv => KeyStaysWithEndpoint
    BY DEF CInv, Keyed, KeyStaysWithEndpoint
  <1> QED BY <1>1, Inductive, PTL

\* One call sends at most max_attempts requests for the creation and for each of
\* max_polls polls, and creates at most max_attempts tasks.
THEOREM Bounded == Spec => []CostBounded
  <1>1. ASSUME CInv PROVE CostBounded
    <2>1. MaxAttempts \in Nat /\ MaxPolls \in Nat /\ poll \in Nat
          /\ poll <= MaxPolls /\ requests \in Nat /\ attempt \in Nat
          /\ attempt <= MaxAttempts
          /\ pc \in {"create", "created", "poll", "polled", "done"}
      BY <1>1, LimitAssumption DEF CInv, TypeOK
    <2>2. /\ MaxAttempts * poll \in Nat
          /\ MaxAttempts * poll <= MaxAttempts * MaxPolls
          /\ MaxAttempts * MaxPolls \in Nat
          /\ MaxAttempts * (1 + MaxPolls) = MaxAttempts * MaxPolls + MaxAttempts
      BY <2>1, Product
    <2>3. requests <= MaxAttempts * MaxPolls + MaxAttempts
      BY <1>1, <2>1, <2>2 DEF CInv, Cost
    <2> QED BY <1>1, <2>2, <2>3 DEF CInv, Cost, CostBounded, MaxRequests
  <1> QED BY <1>1, Inductive, PTL

\* A result is a completed list, a failed task was reported as failed, and a
\* timeout means that every one of max_polls polls said "still processing".
THEOREM Honest == Spec => []OutcomeIsHonest
  <1>1. CInv => OutcomeIsHonest
    BY DEF CInv, Ended
  <1> QED BY <1>1, Inductive, PTL
=============================================================================
