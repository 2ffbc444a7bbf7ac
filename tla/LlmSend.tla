------------------------------- MODULE LlmSend -------------------------------
(***************************************************************************)
(* LLMService.send(): the retry loop every provider inherits, run by       *)
(* several concurrent calls of one service instance.  The code between two *)
(* awaits runs without interruption, so each action goes from one await to *)
(* the next.  The provider's SDK is the environment: it settles the        *)
(* promise of _sendInternal with a response or with one of Failures.       *)
(***************************************************************************)
EXTENDS Integers, Sequences, LlmErrors

CONSTANTS Calls,         \* the send() calls in flight
          MaxRetries,    \* LLM_MAX_RETRIES
          BackoffBase,   \* LLM_BACKOFF_BASE_MS
          Jitters,       \* the values of randomInt(0, 100) considered
          TimerMax,      \* the longest delay setTimeout honours, in ms
          Failures       \* the rejections of _sendInternal considered

\* _sendInternal rejects with an error mapError() recognises (named by the
\* LlmError it maps to), one it does not recognise or throws on, or the
\* BadRequestException of JsonParserUtility.  The ZodError of LlmResponseSchema
\* has an action of its own.
Failure == MappedErrors \cup {"unmapped", "mapErrorThrows", "BadRequest"}

\* LLM_BACKOFF_BASE_MS is at least 100 and randomInt(0, 100) below 100.
ASSUME ConfigAssumption ==
    /\ MaxRetries \in Nat
    /\ BackoffBase \in Nat \ {0}
    /\ Jitters \subseteq 0..(BackoffBase - 1)
    /\ TimerMax \in Nat \ {0}

\* Two laws of arithmetic the provers have no theory for.
ASSUME PowersOfTwo ==
    \A n \in 0..MaxRetries : 2^n \in Nat \ {0} /\ 2^(n + 1) = 2 * 2^n

ASSUME FailuresAssumption == Failures \subseteq Failure

VARIABLES pc,         \* where the call stands
          attempt,    \* the loop counter
          classified, \* the local classifiedError, or Unset
          delay,      \* the delay waitBeforeRetry computed last, in ms
          failedAt,   \* when the last attempt failed
          outcome,    \* how the promise of send() settled, or Unset
          errors,     \* history: what the provider failed the call with so far
          now         \* the clock, in ms

vars == <<pc, attempt, classified, delay, failedAt, outcome, errors, now>>

Unset == "unset"
Settled == {"LlmResponse", "ZodError", "UnexpectedEnd"}

-----------------------------------------------------------------------------
(* Variants of the definitions below, each with a plausible bug.  No        *)
(* specification uses them; each shows that some property can fail.         *)

\* The backoff lacks its exponential part on the first retry.
backoffJitterOnly(n, jitter) == IF n = 0 THEN jitter ELSE BackoffBase * 2^n + jitter

\* A timer that is found overdue never fires.
WakeOnTheDot(c) ==
    /\ pc[c] = "sleeping"
    /\ now = failedAt[c] + delay[c]
    /\ attempt' = [attempt EXCEPT ![c] = @ + 1]
    /\ pc' = [pc EXCEPT ![c] = "awaiting"]
    /\ UNCHANGED <<classified, delay, failedAt, outcome, errors, now>>

\* Fail, with the three choices a bug could make: which classification is thrown
\* (class), which calls see it (sharers), and when to give up (stop).
FailWith(c, f, class, sharers, stop) ==
    /\ pc[c] = "awaiting"
    /\ classified' = [d \in Calls |-> IF d \in sharers THEN class ELSE classified[d]]
    /\ errors' = [errors EXCEPT ![c] = Append(@, f)]
    /\ failedAt' = [failedAt EXCEPT ![c] = now]
    /\ IF stop
       THEN /\ pc' = [pc EXCEPT ![c] = "done"]
            /\ outcome' = [outcome EXCEPT ![c] = class]
            /\ UNCHANGED delay
       ELSE /\ \E j \in Jitters :
                 delay' = [delay EXCEPT ![c] = BackoffBase * 2^attempt[c] + j]
            /\ pc' = [pc EXCEPT ![c] = "sleeping"]
            /\ UNCHANGED outcome
    /\ UNCHANGED <<attempt, now>>

FirstClass(c, f) ==
    IF classified[c] # Unset THEN classified[c]
    ELSE IF f \in MappedErrors THEN f ELSE "LlmServiceError"

\* classifiedError is a field of the service instead of a local of send().
FailSharedField(c, f) ==
    FailWith(c, f, FirstClass(c, f), Calls,
             attempt[c] = MaxRetries \/ ~ retryable(FirstClass(c, f)))

\* A rate limit is thrown without being retried.
FailOnRateLimit(c, f) ==
    FailWith(c, f, FirstClass(c, f), {c},
             \/ attempt[c] = MaxRetries
             \/ ~ retryable(FirstClass(c, f))
             \/ FirstClass(c, f) = "RateLimitError")

-----------------------------------------------------------------------------
\* classifyError, with wrapUnclassified: what mapError() does not turn into an
\* LlmError becomes an LlmServiceError.
classifyError(f) == IF f \in MappedErrors THEN f ELSE "LlmServiceError"

\* waitBeforeRetry's delay.
backoff(n, jitter) == BackoffBase * 2^n + jitter

\* sleep(): Node fires a timer longer than TimerMax after 1 ms.
timer(ms) == IF ms > TimerMax THEN 1 ELSE ms

wakeAt(c) == failedAt[c] + timer(delay[c])

-----------------------------------------------------------------------------
Init ==
    /\ pc = [c \in Calls |-> "idle"]
    /\ attempt = [c \in Calls |-> 0]
    /\ classified = [c \in Calls |-> Unset]
    /\ delay = [c \in Calls |-> 0]
    /\ failedAt = [c \in Calls |-> 0]
    /\ outcome = [c \in Calls |-> Unset]
    /\ errors = [c \in Calls |-> << >>]
    /\ now = 0

\* send() is called and dispatches its first attempt.
Start(c) ==
    /\ pc[c] = "idle"
    /\ pc' = [pc EXCEPT ![c] = "awaiting"]
    /\ UNCHANGED <<attempt, classified, delay, failedAt, outcome, errors, now>>

Settle(c, result) ==
    /\ pc' = [pc EXCEPT ![c] = "done"]
    /\ outcome' = [outcome EXCEPT ![c] = result]

\* sendAttempt resolves, and send() returns the response.
Succeed(c) ==
    /\ pc[c] = "awaiting"
    /\ Settle(c, "LlmResponse")
    /\ UNCHANGED <<attempt, classified, delay, failedAt, errors, now>>

\* The response does not satisfy LlmResponseSchema: the ZodError is thrown on.
RejectResponse(c) ==
    /\ pc[c] = "awaiting"
    /\ Settle(c, "ZodError")
    /\ UNCHANGED <<attempt, classified, delay, failedAt, errors, now>>

\* The catch block for any other error: only the first failure is classified.
\* The call gives up or starts to wait.
Fail(c, f) ==
    LET e == IF classified[c] = Unset THEN classifyError(f) ELSE classified[c]
    IN  /\ pc[c] = "awaiting"
        /\ classified' = [classified EXCEPT ![c] = e]
        /\ errors' = [errors EXCEPT ![c] = Append(@, f)]
        /\ failedAt' = [failedAt EXCEPT ![c] = now]
        /\ IF attempt[c] = MaxRetries \/ ~ retryable(e)
           THEN Settle(c, e) /\ UNCHANGED delay
           ELSE /\ \E j \in Jitters :
                     delay' = [delay EXCEPT ![c] = backoff(attempt[c], j)]
                /\ pc' = [pc EXCEPT ![c] = "sleeping"]
                /\ UNCHANGED outcome
        /\ UNCHANGED <<attempt, now>>

\* The timer of sleep() fires; the loop dispatches the next attempt if its
\* bound allows, else send() runs off its end.
Wake(c) ==
    /\ pc[c] = "sleeping"
    /\ now >= wakeAt(c)
    /\ attempt' = [attempt EXCEPT ![c] = @ + 1]
    /\ IF attempt[c] + 1 <= MaxRetries
       THEN pc' = [pc EXCEPT ![c] = "awaiting"] /\ UNCHANGED outcome
       ELSE Settle(c, "UnexpectedEnd")
    /\ UNCHANGED <<classified, delay, failedAt, errors, now>>

\* Time passes until some pending timer is due.  The others may by then be
\* overdue: a timer fires no sooner than asked, but perhaps later.
Elapse ==
    \E c \in Calls :
        /\ pc[c] = "sleeping"
        /\ now < wakeAt(c)
        /\ now' = wakeAt(c)
        /\ UNCHANGED <<pc, attempt, classified, delay, failedAt, outcome, errors>>

\* The provider answers call c one way or another.
Answer(c) == Succeed(c) \/ RejectResponse(c) \/ \E f \in Failures : Fail(c, f)

Next ==
    \/ \E c \in Calls : Start(c) \/ Answer(c) \/ Wake(c)
    \/ Elapse

Spec == Init /\ [][Next]_vars

\* Timers fire and called code runs.  That the SDK settles every promise is the
\* one assumption on the environment: send() sets no timeout of its own.
Fairness ==
    /\ WF_vars(Elapse)
    /\ \A c \in Calls : WF_vars(Start(c)) /\ WF_vars(Answer(c)) /\ WF_vars(Wake(c))

FairSpec == Spec /\ Fairness

-----------------------------------------------------------------------------
TypeOK ==
    /\ pc \in [Calls -> {"idle", "awaiting", "sleeping", "done"}]
    /\ attempt \in [Calls -> Nat]
    /\ classified \in [Calls -> LlmErrorNames \cup {Unset}]
    /\ delay \in [Calls -> Nat]
    /\ failedAt \in [Calls -> Nat]
    /\ outcome \in [Calls -> LlmErrorNames \cup Settled \cup {Unset}]
    /\ errors \in [Calls -> Seq(Failure)]
    /\ now \in Nat

\* The provider is contacted at most MaxRetries + 1 times for one call, and the
\* loop never runs off its end (the throw after it is dead code).
RetryBudget ==
    \A c \in Calls :
        /\ Len(errors[c]) <= MaxRetries + 1
        /\ pc[c] \in {"awaiting", "sleeping"} => attempt[c] <= MaxRetries
        /\ outcome[c] # "UnexpectedEnd"

\* An LlmError a call throws is the classification of its own first failure,
\* whatever failed later and whatever the other calls met meanwhile.
OutcomeIsOwnFirstFailure ==
    \A c \in Calls :
        outcome[c] \in LlmErrorNames =>
            /\ errors[c] # << >>
            /\ outcome[c] = classifyError(errors[c][1])

\* A call throws a retryable LlmError only when every attempt of its budget has
\* failed: a transient failure is never given up early.
GivesUpOnlyWhenSpent ==
    \A c \in Calls :
        (outcome[c] \in LlmErrorNames /\ retryable(outcome[c])) =>
            Len(errors[c]) = MaxRetries + 1

\* A call whose first failure is not retryable (among them all that mapError()
\* does not recognise or throws on) ends there: no second attempt, no timer.
PermanentFirstFailsFast ==
    \A c \in Calls :
        (errors[c] # << >> /\ ~ retryable(classifyError(errors[c][1]))) =>
            /\ pc[c] = "done"
            /\ Len(errors[c]) = 1

\* The configured backoffs are all within what setTimeout can wait.
BackoffFits == \A n \in 0..MaxRetries : \A j \in Jitters : backoff(n, j) <= TimerMax

\* A step that dispatches a retry comes no sooner after the failed attempt n
\* than the n-th exponential backoff.
BackoffHonoured ==
    [][\A c \in Calls :
          (pc[c] = "sleeping" /\ pc'[c] = "awaiting") =>
              now - failedAt[c] >= BackoffBase * 2^attempt[c]]_vars

\* Every timer a call sets is longer than the one before, jitter included: the
\* jitter never outweighs the doubling.
BackoffGrows ==
    [][\A c \in Calls :
          (pc[c] = "awaiting" /\ pc'[c] = "sleeping") => timer(delay'[c]) > timer(delay[c])]_vars

\* Every send() settles, if the provider's SDK settles each of its promises.
EverySendSettles == \A c \in Calls : <>(pc[c] = "done")

-----------------------------------------------------------------------------
\* What holds of each call in every control state: the loop counter counts the
\* failures so far, classified is the class of the first of them, and a call that
\* goes on has a retryable one.
CallInv(c) ==
    /\ attempt[c] <= MaxRetries
    /\ errors[c] = << >> => classified[c] = Unset
    /\ errors[c] # << >> => classified[c] = classifyError(errors[c][1])
    /\ pc[c] # "done" /\ errors[c] # << >> => retryable(classified[c])
    /\ pc[c] # "done" => outcome[c] = Unset
    /\ pc[c] = "idle" => attempt[c] = 0 /\ errors[c] = << >>
    /\ pc[c] = "awaiting" => Len(errors[c]) = attempt[c]
    /\ pc[c] \in {"idle", "awaiting"} => delay[c] < BackoffBase * 2^attempt[c]
    /\ pc[c] = "sleeping" =>
          /\ attempt[c] < MaxRetries
          /\ Len(errors[c]) = attempt[c] + 1
          /\ \E j \in Jitters : delay[c] = backoff(attempt[c], j)
    /\ pc[c] = "done" =>
          \/ /\ outcome[c] \in {"LlmResponse", "ZodError"}
             /\ Len(errors[c]) = attempt[c]
             /\ errors[c] # << >> => retryable(classified[c])
          \/ /\ outcome[c] \in LlmErrorNames
             /\ outcome[c] = classified[c]
             /\ Len(errors[c]) = attempt[c] + 1
             /\ attempt[c] = IF retryable(outcome[c]) THEN MaxRetries ELSE 0

\* The inductive invariant behind the safety properties of send().
SendInv == TypeOK /\ \A c \in Calls : CallInv(c)

-----------------------------------------------------------------------------
\* send() implements the contract its callers see; tries counts the attempts
\* dispatched so far.
tries == [c \in Calls |-> IF pc[c] = "idle" THEN 0 ELSE attempt[c] + 1]

Contract == INSTANCE SendContract WITH tries <- tries, result <- outcome

\* The refinement: every behaviour of send() is, seen through tries and
\* outcome, a behaviour of SendContract, liveness included.
ImplementsContract == Contract!Spec
==============================================================================
