---------------------------- MODULE RequestPipeline ----------------------------
(***************************************************************************)
(* The life of an HTTP request: body parser, throttler guard, API key      *)
(* guard, validation, templates, send(), and the exception filter that     *)
(* turns whatever was thrown on the way into the reply.  Many requests are *)
(* under way at once and share the throttler's counters.                   *)
(*                                                                         *)
(* Components with a module of their own appear by what they promise:      *)
(* send() by SendContract, the counters of the throttler by                *)
(* ThrottleContract, the templates (PromptTemplates) by succeeding or      *)
(* failing, the images (ImageRequest) by the stage that rejects them.      *)
(***************************************************************************)
EXTENDS Naturals, FiniteSets, LlmErrors

CONSTANTS Requests,             \* the requests a run of the server receives
          Profiles,             \* what each of them may look like
          Tokens, Addresses,    \* what is sent as a token, and client addresses
          WellFormed,           \* the tokens with the prefix and body of an API key
          ApiKeys,              \* API_KEYS
          UnauthenticatedLimit, \* UNAUTHENTICATED_THROTTLER_LIMIT
          AuthenticatedLimit,   \* AUTHENTICATED_THROTTLER_LIMIT
          MaxRetries,           \* LLM_MAX_RETRIES
          Production            \* whether NODE_ENV is production

Routes == {"assessor", "health"}
NoToken == "none"

\* The bodies the parser makes nothing of: too large, no JSON, or in a charset, an
\* encoding or of a length it does not take.
Unparsed == {"tooLarge", "notJson", "unreadable"}

\* A request may carry a token in three places: in the Authorization header, and as
\* access_token in the query or the body.  The scheme is what stands before the token
\* of the header, if there is one: "Bearer ", "bearer " or some other word, or "Bearer "
\* and one more space.
Places == {"token", "query", "posted"}

Profile ==
    [ route : Routes, ip : Addresses,
      scheme : {"none", "Bearer", "bearer", "Bearer_"}, token : Tokens \cup {NoToken},
      query : Tokens \cup {NoToken}, posted : Tokens \cup {NoToken},
      body : {"text", "image", "badImage", "oddImage", "invalid"} \cup Unparsed ]

\* A token may be spelled like an address.  One with the form of an API key may not: it
\* ends in 32 characters without dot or colon.  The schemas of the body are strict, so
\* that a body with an access_token is invalid.
ASSUME PipelineAssumption ==
    /\ IsFiniteSet(Requests)
    /\ Profiles \in [Requests -> SUBSET Profile]
    /\ \A r \in Requests : \A p \in Profiles[r] :
          /\ (p.scheme = "none") = (p.token = NoToken)
          /\ p.posted # NoToken => p.body = "invalid"
    /\ WellFormed \cap Addresses = {} /\ NoToken \notin ApiKeys
    /\ UnauthenticatedLimit \in Nat /\ AuthenticatedLimit \in Nat /\ MaxRetries \in Nat
    /\ Production \in BOOLEAN

VARIABLES pc,         \* the stage the request has reached
          req,        \* its profile
          hits,       \* the throttler's storage: the requests each counter counts
          blocked,    \* the counters that are blocked
          tries,      \* the contract of send(): attempts so far ...
          result,     \* ... and outcome
          thrown,     \* the exception on its way to the filter
          reply,      \* what the client was answered
          earlier     \* history: the requests that reached the throttler before

vars == <<pc, req, hits, blocked, tries, result, thrown, reply, earlier>>

Send == INSTANCE SendContract WITH Calls <- Requests

None == "none"
NoProfile == [route |-> None, ip |-> None, scheme |-> None, token |-> None,
              query |-> None, posted |-> None, body |-> None]
NoReply == [status |-> 0, message |-> None, issues |-> None, retryAfter |-> FALSE]
Counters == Routes \X (Tokens \cup Addresses)
Exceptions ==
    {"PayloadTooLarge", "BodyError", "BadRequest", "ValidationFailed", "Throttled",
     "Unauthorized", "TemplateError", "ZodError"} \cup LlmErrorNames

-----------------------------------------------------------------------------
(* Variants with plausible bugs, which no specification uses.               *)

\* The default tracker of @nestjs/throttler.
getTrackerDefault(p) == p.ip

\* The controller lacks its @Throttle().
limitOfGlobal(route) == UnauthenticatedLimit

\* The two limits are mixed up.
limitMixedUp(route) == IF route = "assessor" THEN UnauthenticatedLimit ELSE AuthenticatedLimit

\* ApiKeyStrategy.validate does not look at the header again, so that what passport
\* accepts and the throttler does not take for a token is let in.
authenticatesAnyCase(p) ==
    \E place \in Places :
        /\ p.scheme # "Bearer_" /\ {q \in Places : p[q] # NoToken} = {place}
        /\ p[place] \in WellFormed /\ p[place] \in ApiKeys

\* A body that is too large has no branch of its own in the filter.
statusForgetsTooLarge(e) ==
    CASE e \in LlmErrorNames -> statusCode(e)
      [] e \in {"BadRequest", "ValidationFailed"} -> 400
      [] e = "Unauthorized" -> 401
      [] e = "Throttled" -> 429
      [] OTHER -> 500

\* Only statuses above 500 are masked.
messageLeaks500(e) ==
    IF \/ e \in {"BodyError", "TemplateError", "ZodError"}
       \/ Production /\ e \in LlmErrorNames /\ statusCode(e) > 500
    THEN "generic" ELSE "own"

\* The branch for a body that is too large forgets to answer.
CatchForgetsTooLarge(r) ==
    /\ pc[r] = "catch" /\ thrown[r] # "PayloadTooLarge"
    /\ pc' = [pc EXCEPT ![r] = "answered"]
    /\ reply' = [reply EXCEPT ![r] =
                    [status |-> statusForgetsTooLarge(thrown[r]), message |-> "generic",
                     issues |-> None, retryAfter |-> FALSE]]
    /\ UNCHANGED <<req, hits, blocked, tries, result, thrown, earlier>>

-----------------------------------------------------------------------------
\* ApiKeyThrottlerGuard.getTracker: the trimmed token after "Bearer ", else the address.
getTracker(p) == IF p.scheme \in {"Bearer", "Bearer_"} THEN p.token ELSE p.ip

counter(p) == <<p.route, getTracker(p)>>

\* ThrottlerGuard takes the limit of a route, unless it is 0, before the global one.
AssessorLimit == IF AuthenticatedLimit # 0 THEN AuthenticatedLimit ELSE UnauthenticatedLimit

\* throttlerConfig for every route, authenticatedThrottler for the assessor.
limitOf(route) == IF route = "assessor" THEN AssessorLimit ELSE UnauthenticatedLimit

\* The bearer strategy of passport hands over the one token it finds, in a header of two
\* words whatever the case of the first, or as access_token; ApiKeyStrategy.validate
\* insists on "Bearer " if there is a header, and ApiKeyService.validate on form and
\* membership.
authenticates(p) ==
    /\ p.scheme \in {"none", "Bearer"}
    /\ \E place \in Places :
          /\ {q \in Places : p[q] # NoToken} = {place}
          /\ p[place] \in WellFormed /\ p[place] \in ApiKeys

\* HttpExceptionFilter: the status of what was caught.  The errors of the body parser are
\* no HttpExceptions; it only knows the one for bodies that are too large.
status(e) ==
    CASE e = "PayloadTooLarge" -> 413
      [] e \in LlmErrorNames -> statusCode(e)
      [] e \in {"BadRequest", "ValidationFailed"} -> 400
      [] e = "Unauthorized" -> 401
      [] e = "Throttled" -> 429
      [] OTHER -> 500

\* Its message: the exception's own, unless it is no HttpException or is masked.
message(e) ==
    IF e \in {"BodyError", "TemplateError", "ZodError"} \/ (Production /\ status(e) >= 500)
    THEN "generic" ELSE "own"

\* The errors array, which ZodValidationPipe already masked in production.
issues(e) ==
    IF e # "ValidationFailed" THEN None ELSE IF Production THEN "masked" ELSE "detailed"

-----------------------------------------------------------------------------
Init ==
    /\ pc = [r \in Requests |-> "unsent"]
    /\ req = [r \in Requests |-> NoProfile]
    /\ hits = [k \in Counters |-> {}]
    /\ blocked = {}
    /\ Send!Init
    /\ thrown = [r \in Requests |-> None]
    /\ reply = [r \in Requests |-> NoReply]
    /\ earlier = [r \in Requests |-> {}]

Advance(r, stage) == pc' = [pc EXCEPT ![r] = stage] /\ UNCHANGED thrown
Throw(r, e) == pc' = [pc EXCEPT ![r] = "catch"] /\ thrown' = [thrown EXCEPT ![r] = e]

\* The request arrives.  The JSON body parser comes before all guards; Nest turns a
\* SyntaxError of it into a BadRequestException.
Receive(r, p) ==
    /\ pc[r] = "unsent"
    /\ req' = [req EXCEPT ![r] = p]
    /\ CASE p.body = "tooLarge"   -> Throw(r, "PayloadTooLarge")
         [] p.body = "notJson"    -> Throw(r, "BadRequest")
         [] p.body = "unreadable" -> Throw(r, "BodyError")
         [] OTHER                 -> Advance(r, "throttle")
    /\ UNCHANGED <<hits, blocked, tries, result, reply, earlier>>

\* The requests that have been through the throttler guard.
Passed ==
    {q \in Requests : /\ pc[q] \notin {"unsent", "throttle"}
                      /\ req[q].body \notin Unparsed}

\* The global guard: the storage counts the request, unless the counter is blocked,
\* and the counter is blocked once it has more hits than the route's limit.
Throttle(r) ==
    LET k == counter(req[r])
        counted == IF k \in blocked THEN hits[k] ELSE hits[k] \cup {r}
        full == k \in blocked \/ Cardinality(counted) > limitOf(req[r].route)
    IN  /\ pc[r] = "throttle"
        /\ hits' = [hits EXCEPT ![k] = counted]
        /\ blocked' = IF full THEN blocked \cup {k} ELSE blocked
        /\ IF full THEN Throw(r, "Throttled")
           ELSE Advance(r, IF req[r].route = "assessor" THEN "authenticate" ELSE "handle")
        /\ earlier' = [earlier EXCEPT ![r] =
                          IF full THEN Passed ELSE {}]
        /\ UNCHANGED <<req, tries, result, reply>>

\* THROTTLER_TTL after it was counted, a hit no longer counts, in a block or not.
Expire(k) ==
    /\ \E r \in hits[k] : hits' = [hits EXCEPT ![k] = @ \ {r}]
    /\ UNCHANGED <<pc, req, blocked, tries, result, thrown, reply, earlier>>

\* THROTTLER_TTL after it was blocked, a counter starts afresh.
Unblock(k) ==
    /\ k \in blocked
    /\ blocked' = blocked \ {k}
    /\ hits' = [hits EXCEPT ![k] = {}]
    /\ UNCHANGED <<pc, req, tries, result, thrown, reply, earlier>>

Respond(r, code) ==
    /\ pc' = [pc EXCEPT ![r] = "answered"]
    /\ reply' = [reply EXCEPT ![r] = [NoReply EXCEPT !.status = code]]

\* The status routes have no other guard.
Handle(r) ==
    /\ pc[r] = "handle"
    /\ Respond(r, 200)
    /\ UNCHANGED <<req, hits, blocked, tries, result, thrown, earlier>>

\* ApiKeyGuard.
Authenticate(r) ==
    /\ pc[r] = "authenticate"
    /\ IF authenticates(req[r]) THEN Advance(r, "validate") ELSE Throw(r, "Unauthorized")
    /\ UNCHANGED <<req, hits, blocked, tries, result, reply, earlier>>

\* create(): the DTO schema, then the images.
Validate(r) ==
    /\ pc[r] = "validate"
    /\ CASE req[r].body = "invalid"  -> Throw(r, "ValidationFailed")
         [] req[r].body = "badImage" -> Throw(r, "BadRequest")
         [] OTHER                    -> Advance(r, "template")
    /\ UNCHANGED <<req, hits, blocked, tries, result, reply, earlier>>

\* createAssessment: the prompt and its payload.
Build(r) ==
    /\ pc[r] = "template"
    /\ \/ Throw(r, "TemplateError")
       \/ req[r].body = "oddImage" /\ Throw(r, "BadRequest")
       \/ req[r].body # "oddImage" /\ Advance(r, "send")
    /\ UNCHANGED <<req, hits, blocked, tries, result, reply, earlier>>

\* send(), as its contract has it.
Sending(r) ==
    /\ pc[r] = "send"
    /\ Send!Step(r)
    /\ UNCHANGED <<pc, req, hits, blocked, thrown, reply, earlier>>

\* createAssessment returns the response, or send() has thrown.
Return(r) ==
    /\ pc[r] = "send"
    /\ result[r] # Send!Pending
    /\ IF result[r] = "LlmResponse"
       THEN Respond(r, 201) /\ UNCHANGED thrown
       ELSE Throw(r, result[r]) /\ UNCHANGED reply
    /\ UNCHANGED <<req, hits, blocked, tries, result, earlier>>

\* HttpExceptionFilter.catch.  The throttler guard has set Retry-After before it threw.
Catch(r) ==
    /\ pc[r] = "catch"
    /\ pc' = [pc EXCEPT ![r] = "answered"]
    /\ reply' = [reply EXCEPT ![r] =
                    [status |-> status(thrown[r]), message |-> message(thrown[r]),
                     issues |-> issues(thrown[r]), retryAfter |-> thrown[r] = "Throttled"]]
    /\ UNCHANGED <<req, hits, blocked, tries, result, thrown, earlier>>

Step(r) ==
    \/ Throttle(r) \/ Handle(r) \/ Authenticate(r) \/ Validate(r) \/ Build(r)
    \/ Sending(r) \/ Return(r) \/ Catch(r)

Next ==
    \/ \E r \in Requests : Step(r) \/ \E p \in Profiles[r] : Receive(r, p)
    \/ \E k \in Counters : Expire(k) \/ Unblock(k)

Spec == Init /\ [][Next]_vars

\* Continuations run, files are read and send() settles (see LlmSend).
FairSpec == Spec /\ \A r \in Requests : WF_vars(Step(r))

-----------------------------------------------------------------------------
Replies ==
    [ status : {0, 200, 201} \cup {status(e) : e \in Exceptions},
      message : {None, "own", "generic"}, issues : {None, "masked", "detailed"},
      retryAfter : BOOLEAN ]

TypeOK ==
    /\ pc \in [Requests -> {"unsent", "throttle", "handle", "authenticate", "validate",
                            "template", "send", "catch", "answered"}]
    /\ req \in [Requests -> Profile \cup {NoProfile}]
    /\ hits \in [Counters -> SUBSET Requests]
    /\ blocked \subseteq Counters
    /\ tries \in [Requests -> 0..(MaxRetries + 1)]
    /\ result \in [Requests -> {Send!Pending, "LlmResponse", "ZodError"} \cup LlmErrorNames]
    /\ thrown \in [Requests -> Exceptions \cup {None}]
    /\ reply \in [Requests -> Replies]
    /\ earlier \in [Requests -> SUBSET Requests]

\* Only who presents a configured API key, in one place and nothing beside it, has a
\* file read or a provider contacted for him, however his requests mix with those of
\* others; and if he presents it in a header, the throttler has counted him by that key:
\* passport, the strategy and the throttler agree on what the header says.
StrangersCauseNoWork ==
    \A r \in Requests :
        (pc[r] \in {"validate", "template", "send"} \/ tries[r] > 0 \/ reply[r].status = 201) =>
            \E place \in Places :
                /\ req[r][place] \in ApiKeys
                /\ \A other \in Places \ {place} : req[r][other] = NoToken
                /\ req[r].scheme # "none" => place = "token" /\ getTracker(req[r]) = req[r].token

\* What counts against the sender of p: a request on the same route with the same token
\* in its header or, both without one, from the same address.  A token that cannot be an
\* API key also counts against the address it is spelled like.
CountsAgainst(q, p) ==
    LET bearer(x) == x.scheme \in {"Bearer", "Bearer_"}
        spells(x, y) == bearer(x) /\ ~ bearer(y) /\ x.token = y.ip /\ x.token \notin WellFormed
    IN  /\ q.route = p.route
        /\ \/ bearer(p) /\ bearer(q) /\ q.token = p.token
           \/ ~ bearer(p) /\ ~ bearer(q) /\ q.ip = p.ip
           \/ spells(p, q) \/ spells(q, p)

\* A request is throttled only after as many requests as its limit that count against
\* its sender: who sends an API key in the header never pays for another key behind the
\* same address nor for requests without one, nobody pays for an API key, and nobody for
\* what was asked of another route.
ThrottledForOwnRequestsOnly ==
    \A r \in Requests : thrown[r] = "Throttled" =>
        Cardinality({q \in earlier[r] : CountsAgainst(req[q], req[r])})
            >= (IF req[r].route = "assessor" THEN AssessorLimit ELSE UnauthenticatedLimit)

\* The attempts that those of some requests which count in a present window have made.
attempts(rs) ==
    {x \in rs \X (1..(MaxRetries + 1)) :
        x[2] <= tries[x[1]] /\ \E k \in Counters : x[1] \in hits[k]}

\* Throttler and retries together bound the load: the requests that count in a present
\* window have contacted the provider at most limit * (MaxRetries + 1) times for one API
\* key in the header, and as often for all the keys that are sent from one address as
\* access_token.
ProviderLoadIsBounded ==
    LET most == AssessorLimit * (MaxRetries + 1)
    IN  /\ \A t \in ApiKeys : Cardinality(attempts({r \in Requests : req[r].token = t})) <= most
        /\ \A a \in Addresses :
              Cardinality(attempts({r \in Requests : req[r].scheme = "none" /\ req[r].ip = a}))
                  <= most

Good(p) == p.body \in {"text", "image"} /\ authenticates(p)
Blamed == {"RateLimitError", "ContentFilteredError", "ContextLengthExceededError",
           "InvalidRequestError"}

\* The status tells whose fault it was.  What is wrong with the request is answered
\* with a 4xx, whatever stage finds out, unless the templates are missing or, the one
\* mistake of a client that is taken for the server's, its body was in a charset, an
\* encoding or of a length that the parser refuses.  A good request is answered with a
\* 4xx only if it came too often or the provider found fault with it or its frequency.
StatusTellsWhoseFault ==
    \A r \in Requests : pc[r] = "answered" /\ req[r].route = "assessor" =>
        /\ ~ Good(req[r]) =>
              IF req[r].body = "unreadable" THEN reply[r].status = 500
              ELSE reply[r].status \in 400..499 \/ thrown[r] = "TemplateError"
        /\ Good(req[r]) /\ reply[r].status \in 400..499 =>
              thrown[r] = "Throttled" \/ result[r] \in Blamed
        /\ reply[r].status = 201 => Good(req[r]) /\ result[r] = "LlmResponse"

\* What the counters do while requests come and go, in any order of arrivals, expiries
\* and ends of blocks, is what Throttler implements, each route with its own limit.
limits ==
    [k \in Counters |-> IF k[1] = "assessor" THEN AssessorLimit ELSE UnauthenticatedLimit]
counts == [k \in Counters |-> Cardinality(hits[k])]

Throttling == INSTANCE ThrottleContract WITH limit <- limits, count <- counts

ThrottlesByContract == Throttling!Spec

\* In production no reply tells the message of a server error, or which field of a
\* body failed the schema.
ProductionTellsNoInternals ==
    Production =>
        \A r \in Requests :
            /\ reply[r].status >= 500 => reply[r].message = "generic"
            /\ reply[r].issues # "detailed"

\* "Rate-limited responses include a Retry-After header indicating when requests can
\* resume" (docs/api/error-codes.md).
Every429SaysWhenToRetry ==
    \A r \in Requests : reply[r].status = 429 => reply[r].retryAfter

\* Every request is answered, if the provider's SDK settles its promises.
EveryRequestAnswered ==
    \A r \in Requests : (pc[r] # "unsent") ~> (pc[r] = "answered")

-----------------------------------------------------------------------------
\* What the stage of a request says about it.
StageInv(r) ==
    /\ pc[r] \notin {"send", "catch", "answered"} => tries[r] = 0 /\ result[r] = Send!Pending
    /\ pc[r] # "unsent" => req[r] \in Profiles[r]
    /\ pc[r] \notin {"catch", "answered"} => thrown[r] = None
    /\ pc[r] # "answered" => reply[r] = NoReply
    /\ pc[r] = "handle" => req[r].route = "health"
    /\ pc[r] \in {"throttle", "handle", "authenticate", "validate", "template", "send"} =>
          req[r].body \notin Unparsed
    /\ pc[r] \in {"validate", "template", "send"} => authenticates(req[r])
    /\ pc[r] \in {"template", "send"} => req[r].body \notin {"invalid", "badImage"}
    /\ pc[r] = "send" => req[r].body # "oddImage"
    /\ result[r] # Send!Pending \/ tries[r] > 0 => Good(req[r])

\* What was thrown, and what was replied, has its cause in the request.
CauseInv(r) ==
    /\ thrown[r] = "PayloadTooLarge" => req[r].body = "tooLarge"
    /\ thrown[r] = "BodyError" <=> thrown[r] # None /\ req[r].body = "unreadable"
    /\ thrown[r] = "BadRequest" => req[r].body \in {"notJson", "badImage", "oddImage"}
    /\ thrown[r] = "Unauthorized" => ~ authenticates(req[r])
    /\ thrown[r] = "ValidationFailed" => req[r].body = "invalid"
    /\ thrown[r] \in {"ZodError"} \cup LlmErrorNames => result[r] = thrown[r]
    /\ pc[r] = "catch" => thrown[r] # None
    /\ pc[r] = "answered" =>
          \/ /\ thrown[r] = None /\ reply[r].issues = None
             /\ \/ req[r].route = "health" /\ reply[r].status = 200
                \/ result[r] = "LlmResponse" /\ reply[r].status = 201
          \/ /\ thrown[r] # None
             /\ reply[r].status = status(thrown[r])
             /\ reply[r].message = message(thrown[r])
             /\ reply[r].issues = issues(thrown[r])
             /\ reply[r].retryAfter <=> thrown[r] = "Throttled"

\* A counter counts requests of its own that passed, and is blocked only after more
\* of them than its limit.
Own(k) == {q \in Passed : counter(req[q]) = k}

CounterInv ==
    /\ \A k \in Counters : hits[k] \subseteq Own(k)
    /\ \A k \in blocked : Cardinality(Own(k)) > limitOf(k[1])
    /\ \A r \in Requests : earlier[r] \subseteq Passed

\* The inductive invariant of the pipeline.
PipelineInv ==
    /\ TypeOK
    /\ \A r \in Requests : StageInv(r) /\ CauseInv(r)
    /\ CounterInv
    /\ ThrottledForOwnRequestsOnly
================================================================================
