---------------------------- MODULE LlmSendProofs ----------------------------
(***************************************************************************)
(* Proofs about LLMService.send() for any set of calls, any retry budget,  *)
(* any backoff base and any set of provider failures.                      *)
(***************************************************************************)
EXTENDS LlmSend, TLAPS

\* classifyError yields an LlmError whatever the provider failed with.
LEMMA ClassifyYieldsLlmError ==
    ASSUME NEW f \in Failure
    PROVE  classifyError(f) \in LlmErrorNames
  BY DEF classifyError, Failure, MappedErrors, LlmErrorNames, ErrorClass

\* No LlmError is mistaken for another way to settle, or for Unset.
LEMMA OutcomesDistinct ==
    /\ Unset \notin LlmErrorNames
    /\ Unset \notin Settled
    /\ Settled \cap LlmErrorNames = {}
  BY DEF LlmErrorNames, ErrorClass, Settled, Unset

\* The arithmetic of waitBeforeRetry: a delay is a number, at least the n-th
\* exponential backoff and less than the next one.
LEMMA BackoffBounds ==
    ASSUME NEW n \in 0..MaxRetries, NEW j \in Jitters
    PROVE  /\ backoff(n, j) \in Nat
           /\ BackoffBase * 2^n \in Nat
           /\ backoff(n, j) >= BackoffBase * 2^n
           /\ backoff(n, j) < BackoffBase * 2^(n + 1)
<1> DEFINE p == 2^n
<1>1. p \in Nat \ {0} /\ 2^(n + 1) = 2 * p
  BY PowersOfTwo
<1>2. j \in Nat /\ j < BackoffBase /\ BackoffBase \in Nat \ {0}
  BY ConfigAssumption
<1> HIDE DEF p
<1>3. BackoffBase * p \in Nat /\ BackoffBase * p >= BackoffBase
  BY <1>1, <1>2
<1>4. BackoffBase * (2 * p) = BackoffBase * p + BackoffBase * p
  BY <1>1, <1>2
<1>5. /\ BackoffBase * p + j \in Nat
      /\ BackoffBase * p + j >= BackoffBase * p
      /\ BackoffBase * p + j < BackoffBase * (2 * p)
  BY <1>2, <1>3, <1>4
<1>6. QED
  BY <1>1, <1>3, <1>5 DEF backoff, p

-----------------------------------------------------------------------------
\* A step that leaves the variables of a call alone leaves its invariant alone.
LEMMA CallInvFrame ==
    ASSUME NEW d \in Calls,
           CallInv(d),
           pc'[d] = pc[d], attempt'[d] = attempt[d],
           classified'[d] = classified[d], delay'[d] = delay[d],
           outcome'[d] = outcome[d], errors'[d] = errors[d]
    PROVE  CallInv(d)'
  BY DEF CallInv

LEMMA InitEstablishesInv == Init => SendInv
<1> SUFFICES ASSUME Init PROVE SendInv
  OBVIOUS
<1>1. TypeOK
  BY DEF Init, TypeOK
<1>2. ASSUME NEW c \in Calls PROVE CallInv(c)
  <2>1. 2^0 \in Nat \ {0}
    BY ConfigAssumption, PowersOfTwo
  <2>2. BackoffBase * 2^0 > 0
    BY <2>1, ConfigAssumption
  <2>3. QED
    BY <2>2, ConfigAssumption DEF Init, CallInv
<1>3. QED
  BY <1>1, <1>2 DEF SendInv

LEMMA StartKeepsInv ==
    ASSUME SendInv, NEW c \in Calls, Start(c)
    PROVE  SendInv'
<1>1. TypeOK'
  BY DEF SendInv, TypeOK, Start
<1>2. ASSUME NEW d \in Calls PROVE CallInv(d)'
  <2>1. CASE d = c
    BY <2>1 DEF SendInv, TypeOK, CallInv, Start
  <2>2. CASE d # c
    BY <2>2, CallInvFrame DEF SendInv, TypeOK, Start
  <2>3. QED
    BY <2>1, <2>2
<1>3. QED
  BY <1>1, <1>2 DEF SendInv

\* Succeed and RejectResponse settle the call alike.
LEMMA ResolveKeepsInv ==
    ASSUME SendInv, NEW c \in Calls, Succeed(c) \/ RejectResponse(c)
    PROVE  SendInv'
<1>1. TypeOK'
  BY DEF SendInv, TypeOK, Succeed, RejectResponse, Settle, Settled
<1>2. ASSUME NEW d \in Calls PROVE CallInv(d)'
  <2>1. CASE d = c
    BY <2>1 DEF SendInv, TypeOK, CallInv, Succeed, RejectResponse, Settle
  <2>2. CASE d # c
    BY <2>2, CallInvFrame DEF SendInv, TypeOK, Succeed, RejectResponse, Settle
  <2>3. QED
    BY <2>1, <2>2
<1>3. QED
  BY <1>1, <1>2 DEF SendInv

LEMMA FailKeepsInv ==
    ASSUME SendInv, NEW c \in Calls, NEW f \in Failures, Fail(c, f)
    PROVE  SendInv'
<1> DEFINE e == IF classified[c] = Unset THEN classifyError(f) ELSE classified[c]
<1>1. f \in Failure /\ classifyError(f) \in LlmErrorNames
  BY FailuresAssumption, ClassifyYieldsLlmError
<1>2. e \in LlmErrorNames /\ e # Unset
  BY <1>1, OutcomesDistinct DEF SendInv, TypeOK
<1> HIDE DEF e
<1>3. /\ pc[c] = "awaiting"
      /\ classified' = [classified EXCEPT ![c] = e]
      /\ errors' = [errors EXCEPT ![c] = Append(@, f)]
      /\ failedAt' = [failedAt EXCEPT ![c] = now]
      /\ UNCHANGED <<attempt, now>>
  BY DEF Fail, e
<1>4. \/ /\ attempt[c] = MaxRetries \/ ~ retryable(e)
         /\ pc' = [pc EXCEPT ![c] = "done"]
         /\ outcome' = [outcome EXCEPT ![c] = e]
         /\ UNCHANGED delay
      \/ /\ attempt[c] # MaxRetries /\ retryable(e)
         /\ \E j \in Jitters : delay' = [delay EXCEPT ![c] = backoff(attempt[c], j)]
         /\ pc' = [pc EXCEPT ![c] = "sleeping"]
         /\ UNCHANGED outcome
  BY DEF Fail, Settle, e
<1>5. attempt[c] \in 0..MaxRetries
  BY ConfigAssumption DEF SendInv, TypeOK, CallInv
<1>6. TypeOK'
  <2>1. delay' \in [Calls -> Nat]
    <3>1. \A j \in Jitters : backoff(attempt[c], j) \in Nat
      BY <1>5, BackoffBounds
    <3>2. QED
      BY <3>1, <1>4 DEF SendInv, TypeOK
  <2>2. errors' \in [Calls -> Seq(Failure)]
    BY <1>1, <1>3 DEF SendInv, TypeOK
  <2>3. QED
    BY <1>2, <1>3, <1>4, <2>1, <2>2 DEF SendInv, TypeOK
<1>7. ASSUME NEW d \in Calls PROVE CallInv(d)'
  <2>1. CASE d # c
    BY <2>1, <1>3, <1>4, CallInvFrame DEF SendInv, TypeOK
  <2>2. CASE d = c
    <3>1. /\ errors[c] \in Seq(Failure)
          /\ errors'[c] = Append(errors[c], f)
          /\ Len(errors[c]) = attempt[c]
          /\ classified'[c] = e
          /\ attempt'[c] = attempt[c]
      BY <1>3 DEF SendInv, TypeOK, CallInv
    <3>2. /\ errors'[c] # << >>
          /\ Len(errors'[c]) = attempt[c] + 1
          /\ errors[c] = << >> => errors'[c][1] = f
          /\ errors[c] # << >> => errors'[c][1] = errors[c][1]
      BY <3>1, <1>1
    <3>3. e = classifyError(errors'[c][1])
      <4>1. CASE errors[c] = << >>
        BY <4>1, <3>2 DEF SendInv, CallInv, e
      <4>2. CASE errors[c] # << >>
        <5>1. classified[c] = classifyError(errors[c][1]) /\ errors[c][1] \in Failure
          BY <4>2, <3>1 DEF SendInv, CallInv
        <5>2. classified[c] # Unset
          BY <5>1, ClassifyYieldsLlmError, OutcomesDistinct
        <5>3. QED
          BY <5>1, <5>2, <3>2, <4>2 DEF e
      <4>3. QED
        BY <4>1, <4>2
    \* A failure that is not retryable is the first one.
    <3>4. ~ retryable(e) => attempt[c] = 0
      <4>1. errors[c] # << >> => retryable(classified[c]) /\ classified[c] = e
        BY <1>3, <3>1, <3>2, <3>3 DEF SendInv, CallInv
      <4>2. QED
        BY <4>1, <3>1
    <3>5. CASE pc'[c] = "done"
      <4>1. /\ outcome'[c] = e
            /\ attempt[c] = IF retryable(e) THEN MaxRetries ELSE 0
        BY <3>5, <3>4, <1>3, <1>4 DEF SendInv, TypeOK
      <4>2. QED
        BY <2>2, <3>1, <3>2, <3>3, <3>5, <4>1, <1>2, <1>5 DEF CallInv
    <3>6. CASE pc'[c] # "done"
      <4>1. /\ pc'[c] = "sleeping" /\ outcome'[c] = Unset
            /\ attempt[c] < MaxRetries /\ retryable(e)
            /\ \E j \in Jitters : delay'[c] = backoff(attempt[c], j)
        BY <3>6, <1>3, <1>4, <1>5, ConfigAssumption DEF SendInv, TypeOK, CallInv
      <4>2. QED
        BY <2>2, <3>1, <3>2, <3>3, <4>1, <1>5, ConfigAssumption DEF CallInv
    <3>7. QED
      BY <3>5, <3>6
  <2>3. QED
    BY <2>1, <2>2
<1>8. QED
  BY <1>6, <1>7 DEF SendInv

LEMMA WakeKeepsInv ==
    ASSUME SendInv, NEW c \in Calls, Wake(c)
    PROVE  SendInv'
<1>1. /\ pc[c] = "sleeping"
      /\ attempt[c] \in Nat /\ attempt[c] < MaxRetries
      /\ Len(errors[c]) = attempt[c] + 1
      /\ \E j \in Jitters : delay[c] = backoff(attempt[c], j)
  BY DEF SendInv, TypeOK, CallInv, Wake
<1>2. /\ attempt' = [attempt EXCEPT ![c] = @ + 1]
      /\ pc' = [pc EXCEPT ![c] = "awaiting"]
      /\ UNCHANGED <<classified, delay, failedAt, outcome, errors, now>>
  BY <1>1, ConfigAssumption DEF Wake
<1>3. TypeOK'
  BY <1>1, <1>2 DEF SendInv, TypeOK
<1>4. ASSUME NEW d \in Calls PROVE CallInv(d)'
  <2>1. CASE d # c
    BY <2>1, <1>2, CallInvFrame DEF SendInv, TypeOK
  <2>2. CASE d = c
    <3>1. delay[c] < BackoffBase * 2^(attempt[c] + 1)
      <4>1. PICK j \in Jitters : delay[c] = backoff(attempt[c], j)
        BY <1>1
      <4>2. attempt[c] \in 0..MaxRetries
        BY <1>1, ConfigAssumption
      <4>3. QED
        BY <4>1, <4>2, BackoffBounds
    <3>2. pc'[c] = "awaiting" /\ attempt'[c] = attempt[c] + 1 /\ delay'[c] = delay[c]
      BY <1>2 DEF SendInv, TypeOK
    <3>3. QED
      BY <2>2, <3>1, <3>2, <1>1, <1>2, ConfigAssumption DEF SendInv, CallInv
  <2>3. QED
    BY <2>1, <2>2
<1>5. QED
  BY <1>3, <1>4 DEF SendInv

LEMMA ElapseKeepsInv ==
    ASSUME SendInv, Elapse
    PROVE  SendInv'
<1>1. PICK c \in Calls :
        /\ now' = wakeAt(c)
        /\ UNCHANGED <<pc, attempt, classified, delay, failedAt, outcome, errors>>
  BY DEF Elapse
<1>2. wakeAt(c) \in Nat
  BY ConfigAssumption DEF SendInv, TypeOK, wakeAt, timer
<1>3. TypeOK'
  BY <1>1, <1>2 DEF SendInv, TypeOK
<1>4. ASSUME NEW d \in Calls PROVE CallInv(d)'
  BY <1>1, CallInvFrame DEF SendInv
<1>5. QED
  BY <1>3, <1>4 DEF SendInv

\* The inductive invariant of send() holds in every reachable state.
THEOREM SendInvariant == Spec => []SendInv
<1>1. Init => SendInv
  BY InitEstablishesInv
<1>2. SendInv /\ [Next]_vars => SendInv'
  <2> SUFFICES ASSUME SendInv, [Next]_vars PROVE SendInv'
    OBVIOUS
  <2>1. CASE UNCHANGED vars
    <3>1. TypeOK'
      BY <2>1 DEF SendInv, TypeOK, vars
    <3>2. ASSUME NEW d \in Calls PROVE CallInv(d)'
      BY <2>1, CallInvFrame DEF SendInv, vars
    <3>3. QED
      BY <3>1, <3>2 DEF SendInv
  <2>2. ASSUME NEW c \in Calls, Start(c) PROVE SendInv'
    BY <2>2, StartKeepsInv
  <2>3. ASSUME NEW c \in Calls, Answer(c) PROVE SendInv'
    BY <2>3, ResolveKeepsInv, FailKeepsInv DEF Answer
  <2>4. ASSUME NEW c \in Calls, Wake(c) PROVE SendInv'
    BY <2>4, WakeKeepsInv
  <2>5. CASE Elapse
    BY <2>5, ElapseKeepsInv
  <2>6. QED
    BY <2>1, <2>2, <2>3, <2>4, <2>5 DEF Next
<1>3. QED
  BY <1>1, <1>2, PTL DEF Spec

-----------------------------------------------------------------------------
\* TypeOK for every instance.
THEOREM TypeCorrect == Spec => []TypeOK
<1>1. SendInv => TypeOK
  BY DEF SendInv
<1>2. QED
  BY <1>1, SendInvariant, PTL

\* A call contacts the provider at most MaxRetries + 1 times, and the loop of
\* send() never runs off its end.
THEOREM RetryBudgetHolds == Spec => []RetryBudget
<1>1. SendInv => RetryBudget
  <2> SUFFICES ASSUME SendInv, NEW c \in Calls
               PROVE  /\ Len(errors[c]) <= MaxRetries + 1
                      /\ pc[c] \in {"awaiting", "sleeping"} => attempt[c] <= MaxRetries
                      /\ outcome[c] # "UnexpectedEnd"
    BY DEF RetryBudget
  <2>1. attempt[c] \in Nat /\ attempt[c] <= MaxRetries /\ MaxRetries \in Nat
    BY ConfigAssumption DEF SendInv, TypeOK, CallInv
  <2>2. Len(errors[c]) <= attempt[c] + 1
    BY <2>1 DEF SendInv, TypeOK, CallInv
  <2>3. outcome[c] # "UnexpectedEnd"
    BY OutcomesDistinct DEF SendInv, TypeOK, CallInv, Settled, Unset
  <2>4. QED
    BY <2>1, <2>2, <2>3
<1>2. QED
  BY <1>1, SendInvariant, PTL

\* The LlmError a call throws is the classification of its own first failure.
THEOREM OutcomeIsOwn == Spec => []OutcomeIsOwnFirstFailure
<1>1. SendInv => OutcomeIsOwnFirstFailure
  <2> SUFFICES ASSUME SendInv, NEW c \in Calls, outcome[c] \in LlmErrorNames
               PROVE  errors[c] # << >> /\ outcome[c] = classifyError(errors[c][1])
    BY DEF OutcomeIsOwnFirstFailure
  <2>1. pc[c] = "done"
    BY OutcomesDistinct DEF SendInv, CallInv
  <2>2. /\ outcome[c] = classified[c]
        /\ Len(errors[c]) = attempt[c] + 1
    BY <2>1, OutcomesDistinct DEF SendInv, CallInv, Settled
  <2>3. errors[c] # << >>
    BY <2>2 DEF SendInv, TypeOK
  <2>4. QED
    BY <2>2, <2>3 DEF SendInv, CallInv
<1>2. QED
  BY <1>1, SendInvariant, PTL

\* A retryable LlmError is thrown only after MaxRetries + 1 failures.
THEOREM GivesUpLate == Spec => []GivesUpOnlyWhenSpent
<1>1. SendInv => GivesUpOnlyWhenSpent
  <2> SUFFICES ASSUME SendInv, NEW c \in Calls,
                      outcome[c] \in LlmErrorNames, retryable(outcome[c])
               PROVE  Len(errors[c]) = MaxRetries + 1
    BY DEF GivesUpOnlyWhenSpent
  <2>1. pc[c] = "done"
    BY OutcomesDistinct DEF SendInv, CallInv
  <2>2. QED
    BY <2>1, OutcomesDistinct DEF SendInv, CallInv, Settled
<1>2. QED
  BY <1>1, SendInvariant, PTL

\* A call whose first failure is not retryable ends with it.
THEOREM FailsFast == Spec => []PermanentFirstFailsFast
<1>1. SendInv => PermanentFirstFailsFast
  <2> SUFFICES ASSUME SendInv, NEW c \in Calls, errors[c] # << >>,
                      ~ retryable(classifyError(errors[c][1]))
               PROVE  pc[c] = "done" /\ Len(errors[c]) = 1
    BY DEF PermanentFirstFailsFast
  <2>1. ~ retryable(classified[c])
    BY DEF SendInv, CallInv
  <2>2. pc[c] = "done"
    BY <2>1 DEF SendInv, CallInv
  <2>3. /\ outcome[c] = classified[c]
        /\ Len(errors[c]) = attempt[c] + 1
        /\ attempt[c] = IF retryable(outcome[c]) THEN MaxRetries ELSE 0
    BY <2>1, <2>2 DEF SendInv, CallInv
  <2>4. attempt[c] = 0
    BY <2>1, <2>3
  <2>5. QED
    BY <2>2, <2>3, <2>4
<1>2. QED
  BY <1>1, SendInvariant, PTL

\* If no backoff exceeds what a timer can wait, every retry waits it out.
THEOREM BackoffIsHonoured ==
    ASSUME BackoffFits
    PROVE  Spec => BackoffHonoured
<1> DEFINE A == \A c \in Calls :
                   (pc[c] = "sleeping" /\ pc'[c] = "awaiting") =>
                       now - failedAt[c] >= BackoffBase * 2^attempt[c]
<1>1. ASSUME SendInv, [Next]_vars PROVE [A]_vars
  <2> SUFFICES ASSUME NEW c \in Calls, Next, pc[c] = "sleeping", pc'[c] = "awaiting"
               PROVE  now - failedAt[c] >= BackoffBase * 2^attempt[c]
    BY <1>1
  <2>1. Wake(c)
    <3>1. ASSUME NEW d \in Calls, Start(d) \/ Answer(d) \/ Wake(d), ~ Wake(c)
          PROVE  FALSE
      <4>1. CASE d = c
        BY <3>1, <4>1 DEF Start, Answer, Succeed, RejectResponse, Fail
      <4>2. CASE d # c
        BY <3>1, <4>2, <1>1 DEF Start, Answer, Succeed, RejectResponse, Fail, Settle,
                                Wake, SendInv, TypeOK
      <4>3. QED
        BY <4>1, <4>2
    <3>2. ~ Elapse
      BY DEF Elapse
    <3>3. QED
      BY <3>1, <3>2 DEF Next
  <2>2. PICK j \in Jitters : delay[c] = backoff(attempt[c], j)
    BY <1>1 DEF SendInv, CallInv
  <2>3. attempt[c] \in 0..MaxRetries /\ failedAt[c] \in Nat /\ now \in Nat
    BY <1>1, ConfigAssumption DEF SendInv, TypeOK, CallInv
  <2>4. /\ delay[c] \in Nat
        /\ BackoffBase * 2^attempt[c] \in Nat
        /\ delay[c] >= BackoffBase * 2^attempt[c]
        /\ delay[c] <= TimerMax
    BY <1>1, <2>2, <2>3, BackoffBounds DEF BackoffFits
  <2>5. timer(delay[c]) = delay[c]
    BY <2>4, ConfigAssumption DEF timer
  <2>6. now >= failedAt[c] + delay[c]
    BY <2>1, <2>5 DEF Wake, wakeAt
  <2>7. QED
    BY <2>3, <2>4, <2>6
<1>2. QED
  BY <1>1, SendInvariant, PTL DEF Spec, BackoffHonoured

\* If no backoff exceeds what a timer can wait, every wait of a call is longer than the
\* one before, whatever the jitter.
THEOREM BackoffAlwaysGrows ==
    ASSUME BackoffFits
    PROVE  Spec => BackoffGrows
<1> DEFINE A == \A c \in Calls :
                   (pc[c] = "awaiting" /\ pc'[c] = "sleeping") =>
                       timer(delay'[c]) > timer(delay[c])
<1>1. ASSUME SendInv, [Next]_vars PROVE [A]_vars
  <2> SUFFICES ASSUME NEW c \in Calls, Next, pc[c] = "awaiting", pc'[c] = "sleeping"
               PROVE  timer(delay'[c]) > timer(delay[c])
    BY <1>1
  <2>1. \E f \in Failures : Fail(c, f)
    <3>1. ASSUME NEW d \in Calls, Start(d) \/ Answer(d) \/ Wake(d), d # c
          PROVE  FALSE
      BY <3>1, <1>1 DEF Start, Answer, Succeed, RejectResponse, Fail, Settle,
                        Wake, SendInv, TypeOK
    <3>2. ~ Start(c) /\ ~ Wake(c) /\ ~ Succeed(c) /\ ~ RejectResponse(c)
      BY <1>1 DEF Start, Wake, Succeed, RejectResponse, Settle, SendInv, TypeOK
    <3>3. ~ Elapse
      BY DEF Elapse
    <3>4. QED
      BY <3>1, <3>2, <3>3 DEF Next, Answer
  <2>2. \E j \in Jitters : delay' = [delay EXCEPT ![c] = backoff(attempt[c], j)]
    BY <2>1, <1>1 DEF Fail, Settle, SendInv, TypeOK
  <2>3. PICK j \in Jitters : delay'[c] = backoff(attempt[c], j)
    BY <2>2, <1>1 DEF SendInv, TypeOK
  <2>4. attempt[c] \in 0..MaxRetries /\ delay[c] \in Nat
    BY <1>1, ConfigAssumption DEF SendInv, TypeOK, CallInv
  <2>5. /\ backoff(attempt[c], j) \in Nat
        /\ BackoffBase * 2^attempt[c] \in Nat
        /\ backoff(attempt[c], j) >= BackoffBase * 2^attempt[c]
    BY <2>4, BackoffBounds
  <2>6. delay[c] < BackoffBase * 2^attempt[c]
    BY <1>1 DEF SendInv, CallInv
  <2>7. backoff(attempt[c], j) <= TimerMax /\ delay'[c] > delay[c] /\ TimerMax \in Nat
    BY <2>3, <2>4, <2>5, <2>6, ConfigAssumption DEF BackoffFits
  <2>8. timer(delay'[c]) = delay'[c] /\ timer(delay[c]) = delay[c]
    BY <2>3, <2>4, <2>5, <2>7 DEF timer
  <2>9. QED
    BY <2>7, <2>8
<1>2. QED
  BY <1>1, SendInvariant, PTL DEF Spec, BackoffGrows

-----------------------------------------------------------------------------
\* How many steps a call can still take: two for every attempt left (its answer and
\* its timer), less the timer of the last attempt.
StepsLeft(c) ==
    CASE pc[c] = "idle"     -> 2 * MaxRetries + 2
      [] pc[c] = "awaiting" -> 2 * (MaxRetries - attempt[c]) + 1
      [] pc[c] = "sleeping" -> 2 * (MaxRetries - attempt[c])
      [] pc[c] = "done"     -> 0

StepsBounded ==
    \A c \in Calls :
        /\ StepsLeft(c) \in 0..(2 * MaxRetries + 2)
        /\ StepsLeft(c) = 0 <=> pc[c] = "done"

Progresses(c) == Start(c) \/ Answer(c) \/ Wake(c)

\* Every step of a call brings it closer to its end, and no step of another call, nor
\* the clock, takes it further away.
NothingSetsBack ==
    \A c \in Calls :
        /\ StepsLeft(c)' <= StepsLeft(c)
        /\ Progresses(c) => StepsLeft(c)' < StepsLeft(c)

\* A timer that is due stays due until it fires: neither the other calls nor the clock
\* move it.
DueStaysDue ==
    \A c \in Calls :
        (pc[c] = "sleeping" /\ now >= wakeAt(c)) =>
            Wake(c) \/ (pc'[c] = "sleeping" /\ now' >= wakeAt(c)')

LEMMA StepsLeftOf ==
    ASSUME SendInv, NEW c \in Calls
    PROVE  /\ StepsLeft(c) \in 0..(2 * MaxRetries + 2)
           /\ pc[c] = "idle" => StepsLeft(c) = 2 * MaxRetries + 2
           /\ pc[c] = "awaiting" => StepsLeft(c) = 2 * (MaxRetries - attempt[c]) + 1
           /\ pc[c] = "sleeping" => /\ StepsLeft(c) = 2 * (MaxRetries - attempt[c])
                                    /\ StepsLeft(c) > 0
           /\ StepsLeft(c) = 0 <=> pc[c] = "done"
<1>1. /\ pc[c] \in {"idle", "awaiting", "sleeping", "done"}
      /\ attempt[c] \in Nat /\ attempt[c] <= MaxRetries /\ MaxRetries \in Nat
      /\ pc[c] = "sleeping" => attempt[c] < MaxRetries
  BY ConfigAssumption DEF SendInv, TypeOK, CallInv
<1>2. QED
  BY <1>1 DEF StepsLeft

\* What a step of a call does to the call itself.
LEMMA OwnStepProgresses ==
    ASSUME SendInv, SendInv', NEW c \in Calls, Progresses(c)
    PROVE  StepsLeft(c)' < StepsLeft(c)
<1>1. /\ attempt[c] \in Nat /\ attempt[c] <= MaxRetries /\ MaxRetries \in Nat
      /\ pc \in [Calls -> {"idle", "awaiting", "sleeping", "done"}]
      /\ attempt \in [Calls -> Nat]
  BY ConfigAssumption DEF SendInv, TypeOK, CallInv
<1>2. /\ (pc[c] = "idle")' => StepsLeft(c)' = 2 * MaxRetries + 2
      /\ (pc[c] = "awaiting")' => StepsLeft(c)' = 2 * (MaxRetries - attempt'[c]) + 1
      /\ (pc[c] = "sleeping")' => StepsLeft(c)' = 2 * (MaxRetries - attempt'[c])
      /\ (pc[c] = "done")' => StepsLeft(c)' = 0
  BY DEF StepsLeft
<1>3. CASE Start(c)
  <2>1. pc[c] = "idle" /\ pc'[c] = "awaiting" /\ attempt'[c] = 0
    BY <1>1, <1>3 DEF Start, SendInv, CallInv
  <2>2. QED
    BY <2>1, <1>1, <1>2, StepsLeftOf
<1>4. CASE Answer(c)
  <2>1. pc[c] = "awaiting" /\ pc'[c] \in {"sleeping", "done"} /\ attempt'[c] = attempt[c]
    BY <1>1, <1>4 DEF Answer, Succeed, RejectResponse, Fail, Settle
  <2>2. QED
    BY <2>1, <1>1, <1>2, StepsLeftOf
<1>5. CASE Wake(c)
  <2>1. pc[c] = "sleeping" /\ pc'[c] \in {"awaiting", "done"} /\ attempt'[c] = attempt[c] + 1
    BY <1>1, <1>5 DEF Wake, Settle
  <2>2. QED
    BY <2>1, <1>1, <1>2, StepsLeftOf
<1>6. QED
  BY <1>3, <1>4, <1>5 DEF Progresses

\* What a step of a call, or of the clock, leaves alone.
LEMMA OthersAreLeftAlone ==
    ASSUME SendInv, NEW c \in Calls, [Next]_vars, ~ Progresses(c)
    PROVE  /\ pc'[c] = pc[c] /\ attempt'[c] = attempt[c]
           /\ failedAt'[c] = failedAt[c] /\ delay'[c] = delay[c]
           /\ now' >= now
<1>1. now \in Nat
  BY DEF SendInv, TypeOK
<1>2. CASE UNCHANGED vars
  BY <1>1, <1>2 DEF vars
<1>3. ASSUME NEW d \in Calls, Progresses(d), d # c
      PROVE  /\ pc'[c] = pc[c] /\ attempt'[c] = attempt[c]
             /\ failedAt'[c] = failedAt[c] /\ delay'[c] = delay[c]
             /\ now' = now
  BY <1>3 DEF Progresses, Start, Answer, Succeed, RejectResponse, Fail, Settle, Wake,
              SendInv, TypeOK
<1>4. CASE Elapse
  <2>1. PICK d \in Calls : now < wakeAt(d) /\ now' = wakeAt(d)
    BY <1>4 DEF Elapse
  <2>2. wakeAt(d) \in Nat
    BY ConfigAssumption DEF SendInv, TypeOK, wakeAt, timer
  <2>3. QED
    BY <2>1, <2>2, <1>1, <1>4 DEF Elapse
<1>5. QED
  BY <1>1, <1>2, <1>3, <1>4 DEF Next, Progresses

\* A call of send() takes at most 2 * MaxRetries + 2 steps, whatever the provider
\* answers and whatever the other calls do: it has so many left at first, each of its
\* own uses one up, and none is ever added.
THEOREM SendsAreBounded ==
    Spec => []StepsBounded /\ [][NothingSetsBack]_vars
<1>1. SendInv => StepsBounded
  BY StepsLeftOf DEF StepsBounded
<1>2. SendInv' => StepsBounded'
  BY <1>1, PTL
<1>3. ASSUME SendInv, SendInv', [Next]_vars PROVE [NothingSetsBack]_vars
  <2> SUFFICES ASSUME NEW c \in Calls
               PROVE  /\ StepsLeft(c)' <= StepsLeft(c)
                      /\ Progresses(c) => StepsLeft(c)' < StepsLeft(c)
    BY DEF NothingSetsBack
  <2>1. StepsLeft(c) \in Int
    BY <1>3, StepsLeftOf
  <2>2. CASE Progresses(c)
    <3>1. StepsLeft(c)' < StepsLeft(c) /\ StepsLeft(c)' \in Int
      <4>1. StepsLeft(c)' < StepsLeft(c)
        BY <1>3, <2>2, OwnStepProgresses
      <4>2. (StepsLeft(c) \in Int)'
        BY <1>2, <1>3, ConfigAssumption DEF StepsBounded
      <4>3. QED
        BY <4>1, <4>2
    <3>2. QED
      BY <2>1, <3>1
  <2>3. CASE ~ Progresses(c)
    <3>1. pc'[c] = pc[c] /\ attempt'[c] = attempt[c]
      BY <1>3, <2>3, OthersAreLeftAlone
    <3>2. StepsLeft(c)' = StepsLeft(c)
      BY <3>1 DEF StepsLeft
    <3>3. QED
      BY <2>1, <2>3, <3>2
  <2>4. QED
    BY <2>2, <2>3
<1>4. QED
  BY <1>1, <1>3, SendInvariant, PTL DEF Spec

\* The timer of a call that is due stays due until it fires.
THEOREM TimersStayDue == Spec => [][DueStaysDue]_vars
<1>1. ASSUME SendInv, [Next]_vars PROVE [DueStaysDue]_vars
  <2> SUFFICES ASSUME NEW c \in Calls, pc[c] = "sleeping", now >= wakeAt(c), ~ Wake(c)
               PROVE  pc'[c] = "sleeping" /\ now' >= wakeAt(c)'
    BY DEF DueStaysDue
  <2>1. ~ Progresses(c)
    BY DEF Progresses, Start, Answer, Succeed, RejectResponse, Fail
  <2>2. /\ pc'[c] = pc[c] /\ failedAt'[c] = failedAt[c] /\ delay'[c] = delay[c]
        /\ now' >= now
    BY <1>1, <2>1, OthersAreLeftAlone
  <2>3. wakeAt(c)' = wakeAt(c) /\ wakeAt(c) \in Nat /\ now \in Nat
    BY <1>1, <2>2, ConfigAssumption DEF wakeAt, timer, SendInv, TypeOK
  <2>4. now' \in Int
    BY <1>1, ConfigAssumption
       DEF SendInv, TypeOK, Next, vars, Start, Answer, Succeed, RejectResponse, Fail, Wake,
           Elapse, wakeAt, timer
  <2>5. QED
    BY <2>2, <2>3, <2>4
<1>2. QED
  BY <1>1, SendInvariant, PTL DEF Spec

-----------------------------------------------------------------------------
\* The contract knows the same error classes.
LEMMA SameErrorClasses ==
    /\ Contract!LlmErrorNames = LlmErrorNames
    /\ \A e : Contract!retryable(e) = retryable(e)
  BY DEF LlmErrorNames, Contract!LlmErrorNames, retryable, Contract!retryable,
         ErrorClass, Contract!ErrorClass, RateLimitError,
         Contract!RateLimitError, ResourceExhaustedError,
         Contract!ResourceExhaustedError, ProviderServerError,
         Contract!ProviderServerError, AuthenticationError,
         Contract!AuthenticationError, ContentFilteredError,
         Contract!ContentFilteredError, NetworkError, Contract!NetworkError,
         ContextLengthExceededError, Contract!ContextLengthExceededError,
         InvalidRequestError, Contract!InvalidRequestError, LlmServiceError,
         Contract!LlmServiceError

\* Seen through tries and outcome, every step of send() is a step of the contract
\* or leaves it alone.
LEMMA StepRefines ==
    ASSUME SendInv, SendInv', [Next]_vars
    PROVE  [Contract!Next]_(Contract!cvars)
<1> USE DEF Contract!cvars
<1>1. CASE UNCHANGED vars
  BY <1>1 DEF vars, tries
<1>2. ASSUME NEW c \in Calls, Start(c) PROVE Contract!Try(c)
  <2>1. /\ pc[c] = "idle" /\ attempt[c] = 0 /\ outcome[c] = Unset
        /\ pc' = [pc EXCEPT ![c] = "awaiting"]
        /\ UNCHANGED <<attempt, outcome>>
    BY <1>2 DEF Start, SendInv, CallInv
  <2>2. \A d \in Calls : tries'[d] = IF d = c THEN tries[c] + 1 ELSE tries[d]
    BY <2>1 DEF tries, SendInv, TypeOK
  <2>3. tries' = [tries EXCEPT ![c] = @ + 1]
    BY <2>2 DEF tries
  <2>4. tries[c] = 0
    BY <2>1 DEF tries
  <2>5. QED
    BY <2>1, <2>3, <2>4, ConfigAssumption DEF Contract!Try, Contract!Pending, Unset
<1>3. ASSUME NEW c \in Calls, Wake(c) PROVE Contract!Try(c)
  <2>1. /\ pc[c] = "sleeping" /\ attempt[c] < MaxRetries /\ outcome[c] = Unset
        /\ attempt[c] \in Nat
    BY <1>3 DEF Wake, SendInv, TypeOK, CallInv
  <2>2. pc' = [pc EXCEPT ![c] = "awaiting"] /\ UNCHANGED outcome
    BY <2>1, <1>3, ConfigAssumption DEF Wake
  <2>3. \A d \in Calls : tries'[d] = IF d = c THEN tries[c] + 1 ELSE tries[d]
    BY <2>1, <2>2, <1>3 DEF Wake, tries, SendInv, TypeOK
  <2>4. tries' = [tries EXCEPT ![c] = @ + 1]
    BY <2>3 DEF tries
  <2>5. tries[c] <= MaxRetries
    BY <2>1, ConfigAssumption DEF tries
  <2>6. QED
    BY <2>1, <2>2, <2>4, <2>5 DEF Contract!Try, Contract!Pending, Unset
<1>4. ASSUME NEW c \in Calls, Succeed(c) \/ RejectResponse(c) PROVE Contract!Resolve(c)
  BY <1>4 DEF Succeed, RejectResponse, Settle, Contract!Resolve, Contract!Pending,
     tries, SendInv, TypeOK, CallInv, Unset
<1>5. ASSUME NEW c \in Calls, NEW f \in Failures, Fail(c, f), pc'[c] = "done"
      PROVE  Contract!GiveUp(c)
  <2>1. /\ pc[c] = "awaiting" /\ outcome[c] = Unset /\ attempt[c] \in Nat
        /\ attempt'[c] = attempt[c] /\ UNCHANGED attempt
    BY <1>5 DEF Fail, SendInv, TypeOK, CallInv
  <2>2. PICK e : /\ pc' = [pc EXCEPT ![c] = "done"]
                 /\ outcome' = [outcome EXCEPT ![c] = e]
                 /\ e \in LlmErrorNames
    BY <1>5, ClassifyYieldsLlmError, FailuresAssumption
       DEF Fail, Settle, SendInv, TypeOK
  <2>3. attempt[c] = IF retryable(e) THEN MaxRetries ELSE 0
    <3>1. pc'[c] = "done" /\ outcome'[c] = e /\ attempt'[c] = attempt[c]
      BY <2>1, <2>2 DEF SendInv, TypeOK
    <3>2. outcome'[c] \notin {"LlmResponse", "ZodError"}
      BY <3>1, <2>2, OutcomesDistinct DEF Settled
    <3>3. attempt'[c] = IF retryable(outcome'[c]) THEN MaxRetries' ELSE 0
      BY <3>1, <3>2 DEF SendInv, CallInv
    <3>4. QED
      BY <3>1, <3>3
  <2>4. tries' = tries /\ tries[c] = attempt[c] + 1
    BY <2>1, <2>2 DEF tries, SendInv, TypeOK
  <2>5. tries[c] = IF retryable(e) THEN MaxRetries + 1 ELSE 1
    BY <2>3, <2>4
  <2>6. e \in Contract!LlmErrorNames
    BY <2>2, SameErrorClasses
  <2>7. tries[c] = IF Contract!retryable(e) THEN MaxRetries + 1 ELSE 1
    BY <2>5, SameErrorClasses, Zenon
  <2>8. QED
    BY <2>1, <2>2, <2>4, <2>6, <2>7 DEF Contract!GiveUp, Contract!Pending, Unset
<1>6. ASSUME NEW c \in Calls, NEW f \in Failures, Fail(c, f), pc'[c] # "done"
      PROVE  UNCHANGED <<tries, outcome>>
  BY <1>6 DEF Fail, Settle, tries, SendInv, TypeOK
<1>7. CASE Elapse
  BY <1>7 DEF Elapse, tries
<1>8. QED
  BY <1>1, <1>2, <1>3, <1>4, <1>5, <1>6, <1>7
     DEF Next, Answer, Contract!Next, Contract!Step

\* send() implements the safety part of the contract its callers rely on.
THEOREM ImplementsContractSafety == Spec => Contract!Safety
<1>1. Init => Contract!Init
  BY DEF Init, Contract!Init, Contract!Pending, tries, Unset
<1>2. QED
  BY <1>1, StepRefines, SendInvariant, PTL DEF Spec, Contract!Safety
==============================================================================
