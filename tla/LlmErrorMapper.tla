--------------------------- MODULE LlmErrorMapper ---------------------------
(***************************************************************************)
(* How a provider's raw error becomes an LlmError: the probes of Gemini    *)
(* and Mistral, the shared cascade classifyLlmError, and the fallback of   *)
(* LLMService.classifyError.                                               *)
(*                                                                         *)
(* A raw error is a record:                                                *)
(*   at       the value found at each property path that may hold a status *)
(*   message  the patterns its message (with Mistral's body) matches       *)
(*   name     error.name, as far as a probe looks at it, or the class      *)
(*            BadRequestException of the service's own JSON parser         *)
(***************************************************************************)
EXTENDS Integers, Sequences, LlmErrors

CONSTANT RawErrors

Providers == {"gemini", "mistral"}

Paths == {"status", "statusCode", "code", "response.status", "error.status", "error.code"}

Patterns == {"resourceExhausted", "rateLimit", "contentFiltered", "contextLength", "network"}

\* JavaScript values found at a path.  num is Number(value), or NoCode if that
\* is NaN or the value is neither a number nor a string.  NaN itself and negative numbers
\* are codes that no rule knows, as are many positive ones, which stand for them.
NoCode == -1

ASSUME RawErrorsAssumption ==
    \A e \in RawErrors : \A p \in Paths : e.at[p].num \in Nat \cup {NoCode}

VARIABLES provider, raw, mapped, thrown

mapperVars == <<provider, raw, mapped, thrown>>

-----------------------------------------------------------------------------
Undefined == [type |-> "undefined", num |-> NoCode, text |-> ""]
NumberValue(n) == [type |-> "number", num |-> n, text |-> ""]
StringValue(text, n) == [type |-> "string", num |-> n, text |-> text]

normaliseStatusCode(v) == IF v.num = 0 THEN NoCode ELSE v.num

GEMINI_STATUS_PATHS ==
    <<"status", "statusCode", "code", "response.status", "error.status", "error.code">>

\* A path forgotten: a refactoring keeps only what ApiError carries.
MistralPathsShort == <<"statusCode", "code">>

MISTRAL_STATUS_PATHS == <<"statusCode", "status", "code", "response.status">>

firstOf(indices) == CHOOSE i \in indices : \A j \in indices : i <= j

\* The first path that yields a status code wins.
probeStatusCode(e, paths) ==
    LET coded == {i \in DOMAIN paths : normaliseStatusCode(e.at[paths[i]]) # NoCode}
    IN  IF coded = {} THEN NoCode ELSE normaliseStatusCode(e.at[paths[firstOf(coded)]])

extractStatusCode(p, e) ==
    probeStatusCode(e, IF p = "gemini" THEN GEMINI_STATUS_PATHS ELSE MISTRAL_STATUS_PATHS)

\* Mistral's probe is constantly false.
hasStringStatus(p, e, text) ==
    /\ p = "gemini"
    /\ \E path \in {"status", "code", "error.status", "error.code"} :
          e.at[path].type = "string" /\ e.at[path].text = text

\* Names of the Mistral SDK's HTTPClientError subclasses.
isHttpClientError(p, e) == p = "mistral" /\ e.name = "HttpClientError"

-----------------------------------------------------------------------------
isResourceExhausted(p, s, e) ==
    \/ hasStringStatus(p, e, "resource_exhausted")
    \/ s = 429 /\ "resourceExhausted" \in e.message

isRateLimit(p, s, e) ==
    \/ hasStringStatus(p, e, "rate_limit_exceeded")
    \/ hasStringStatus(p, e, "429")
    \/ s = 429
    \/ "rateLimit" \in e.message

\* The classes in the order classifyLlmError tries them ...
priority ==
    <<"ResourceExhaustedError", "RateLimitError", "AuthenticationError",
      "ContentFilteredError", "ContextLengthExceededError", "InvalidRequestError",
      "ProviderServerError", "NetworkError">>

\* ... and whether an error may be of a class.
applies(class, p, e) ==
    LET s == extractStatusCode(p, e)
    IN  \/ class = "ResourceExhaustedError" /\ isResourceExhausted(p, s, e)
        \/ class = "RateLimitError" /\ isRateLimit(p, s, e)
        \/ class = "AuthenticationError" /\ s \in {401, 403}
        \/ class = "ContentFilteredError" /\ s = 400 /\ "contentFiltered" \in e.message
        \/ class = "ContextLengthExceededError" /\ s = 400 /\ "contextLength" \in e.message
        \/ class = "InvalidRequestError" /\ s >= 400 /\ s < 500
        \/ class = "ProviderServerError" /\ s >= 500
        \/ /\ class = "NetworkError" /\ s = NoCode
           /\ isHttpClientError(p, e) \/ "network" \in e.message

hits(p, e) == {i \in DOMAIN priority : applies(priority[i], p, e)}

\* Transport errors are looked at before the status.
classifyNetworkFirst(p, e) ==
    CASE isHttpClientError(p, e) \/ "network" \in e.message -> "NetworkError"
      [] hits(p, e) = {} -> "undefined"
      [] OTHER -> priority[firstOf(hits(p, e))]

\* An error that is no object reads like one in which nothing is found.
classifyLlmError(p, e) ==
    IF hits(p, e) = {} THEN "undefined" ELSE priority[firstOf(hits(p, e))]

-----------------------------------------------------------------------------
MapperInit ==
    /\ provider \in Providers
    /\ raw \in RawErrors
    /\ mapped = "unset"
    /\ thrown = "unset"

\* An answer in which JsonParserUtility found no JSON.  Like any HttpException it
\* carries a status.
isUnparseable(e) == e.name = "BadRequestException"

\* The JSON parser's exception is mapped like what the SDK throws.
mapErrorOfParser ==
    /\ mapped = "unset"
    /\ mapped' = classifyLlmError(provider, raw)
    /\ UNCHANGED <<provider, raw, thrown>>

\* mapError() of the provider's service, which classifyError() calls for all but
\* unparseable answers.
mapError ==
    /\ mapped = "unset" /\ ~ isUnparseable(raw)
    /\ mapped' = classifyLlmError(provider, raw)
    /\ UNCHANGED <<provider, raw, thrown>>

\* classifyError(): an unparseable answer and an undefined mapping are wrapped.
classifyError ==
    /\ mapped # "unset" \/ isUnparseable(raw)
    /\ thrown = "unset"
    /\ thrown' = IF mapped \in {"unset", "undefined"} THEN "LlmServiceError" ELSE mapped
    /\ UNCHANGED <<provider, raw, mapped>>

MapperNext == mapError \/ classifyError

MapperSpec == MapperInit /\ [][MapperNext]_mapperVars

-----------------------------------------------------------------------------
Classified == thrown # "unset"
Status == extractStatusCode(provider, raw)

MapperTypeOK ==
    /\ provider \in Providers
    /\ raw \in RawErrors
    /\ mapped \in MappedErrors \cup {"undefined", "unset"}
    /\ thrown \in LlmErrorNames \cup {"unset"}

\* An upstream 4xx never turns into an HTTP 500 of this service, whatever else the
\* error carries (decision #11 of the error-handling guide), and an answer that cannot
\* be parsed never into a 4xx, though its exception carries 400 as well.
ClientErrorNeverBecomes500 ==
    Classified /\ Status \in 400..499 => (statusCode(thrown) = 500 <=> isUnparseable(raw))

\* Retried is exactly what may pass by itself: rate limits, a provider's 5xx, and
\* transport failures of requests that got no status, where a zero is none.  An
\* exhausted quota is not, though it may look like a rate limit as well, nor is a
\* refusal whose message sounds like a network failure.
probed == IF provider = "gemini" THEN Paths ELSE Paths \ {"error.status", "error.code"}
NoStatus == \A p \in probed : raw.at[p].num \in {NoCode, 0}

RetriedExactlyIfTransient ==
    Classified /\ ~ isUnparseable(raw) =>
        (retryable(thrown) <=>
            /\ ~ isResourceExhausted(provider, Status, raw)
            /\ \/ isRateLimit(provider, Status, raw)
               \/ Status >= 500
               \/ NoStatus /\ (isHttpClientError(provider, raw) \/ "network" \in raw.message))

\* Both providers classify alike an error they can both read: no string status,
\* no SDK class name, and one status, at a path both probe.
ProvidersAgree ==
    LET p == CHOOSE q \in Providers : q # provider
        present == {q \in Paths : raw.at[q] # Undefined}
    IN  (/\ Classified /\ ~ isUnparseable(raw)
         /\ present \subseteq {"status", "statusCode", "code", "response.status"}
         /\ \A q, r \in present : q = r
         /\ \A q \in present : raw.at[q].type = "number"
         /\ raw.name # "HttpClientError") => mapped = classifyLlmError(p, raw)
=============================================================================
