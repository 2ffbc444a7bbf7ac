------------------------------ MODULE MCLlmSend ------------------------------
(* Instances of LlmSend for TLC. *)
EXTENDS LlmSend

\* Two retryable failures to tell apart, and one that is wrapped and not retried.
MixedFailures == {"RateLimitError", "NetworkError", "BadRequest"}

\* The ends of randomInt(0, 100).
JitterEnds == {0, 99}
==============================================================================
