---------------------------- MODULE SendContract ----------------------------
(***************************************************************************)
(* What a caller of LLMService.send() may rely on, with no timers, caches  *)
(* or error history: a call contacts the provider at least once and at     *)
(* most MaxRetries + 1 times, settles once, and throws a retryable         *)
(* LlmError only when the budget is spent, any other after one attempt.    *)
(***************************************************************************)
EXTENDS Naturals, LlmErrors

CONSTANTS Calls, MaxRetries

VARIABLES tries,   \* how often the call has contacted the provider
          result   \* how it settled, or Pending

cvars == <<tries, result>>

Pending == "unset"

Init ==
    /\ tries = [c \in Calls |-> 0]
    /\ result = [c \in Calls |-> Pending]

Try(c) ==
    /\ result[c] = Pending
    /\ tries[c] <= MaxRetries
    /\ tries' = [tries EXCEPT ![c] = @ + 1]
    /\ UNCHANGED result

Resolve(c) ==
    /\ result[c] = Pending
    /\ tries[c] > 0
    /\ \E r \in {"LlmResponse", "ZodError"} : result' = [result EXCEPT ![c] = r]
    /\ UNCHANGED tries

GiveUp(c) ==
    /\ result[c] = Pending
    /\ \E e \in LlmErrorNames :
          /\ tries[c] = IF retryable(e) THEN MaxRetries + 1 ELSE 1
          /\ result' = [result EXCEPT ![c] = e]
    /\ UNCHANGED tries

Step(c) == Try(c) \/ Resolve(c) \/ GiveUp(c)

Next == \E c \in Calls : Step(c)

Safety == Init /\ [][Next]_cvars

Spec == Safety /\ \A c \in Calls : WF_cvars(Step(c))
=============================================================================
