------------------------------ MODULE LlmErrors ------------------------------
(***************************************************************************)
(* The error hierarchy of common/errors: every LlmError subclass fixes the *)
(* HTTP status the client is answered with and whether LLMService.send()   *)
(* may retry it.  Messages, stacks and originalError are left out.  An     *)
(* error is known by the name of its class.                                *)
(***************************************************************************)

RateLimitError             == [status |-> 429, retryable |-> TRUE]
ResourceExhaustedError     == [status |-> 503, retryable |-> FALSE]
ProviderServerError        == [status |-> 502, retryable |-> TRUE]
AuthenticationError        == [status |-> 502, retryable |-> FALSE]
ContentFilteredError       == [status |-> 400, retryable |-> FALSE]
NetworkError               == [status |-> 502, retryable |-> TRUE]
ContextLengthExceededError == [status |-> 400, retryable |-> FALSE]
InvalidRequestError        == [status |-> 400, retryable |-> FALSE]
LlmServiceError            == [status |-> 500, retryable |-> FALSE]

ErrorClass ==
    [RateLimitError             |-> RateLimitError,
     ResourceExhaustedError     |-> ResourceExhaustedError,
     ProviderServerError        |-> ProviderServerError,
     AuthenticationError        |-> AuthenticationError,
     ContentFilteredError       |-> ContentFilteredError,
     NetworkError               |-> NetworkError,
     ContextLengthExceededError |-> ContextLengthExceededError,
     InvalidRequestError        |-> InvalidRequestError,
     LlmServiceError            |-> LlmServiceError]

\* The names of what send() can throw, besides a ZodError, and of what
\* mapError() can return, besides undefined.
LlmErrorNames == DOMAIN ErrorClass
MappedErrors  == LlmErrorNames \ {"LlmServiceError"}

retryable(name)  == ErrorClass[name].retryable
statusCode(name) == ErrorClass[name].status
==============================================================================
