------------------------- MODULE RequestPipelineProofs -------------------------
(* Proofs of the safety properties of RequestPipeline, for any finite set of   *)
(* requests, any profiles, keys and limits, in production and outside it.      *)
EXTENDS RequestPipeline, FiniteSetTheorems, TLAPS

\* What the filter makes of an exception.
LEMMA StatusTable ==
    /\ status("PayloadTooLarge") = 413 /\ status("BadRequest") = 400
    /\ status("ValidationFailed") = 400 /\ status("Unauthorized") = 401
    /\ status("Throttled") = 429 /\ status("TemplateError") = 500 /\ status("ZodError") = 500
    /\ status("BodyError") = 500
  BY DEF status, LlmErrorNames, ErrorClass

\* The LlmErrors, and the statuses below 500 among them: the ones for which the
\* provider found fault with the request.
LEMMA LlmStatusTable ==
    ASSUME NEW e \in LlmErrorNames
    PROVE  /\ status(e) \in {400, 429, 500, 502, 503}
           /\ status(e) \in 400..499 => e \in Blamed
           /\ status(e) = 429 => e = "RateLimitError"
<1>1. status(e) = statusCode(e)
  BY DEF status, LlmErrorNames, ErrorClass
<1>2. e \in {"RateLimitError", "ResourceExhaustedError", "ProviderServerError",
             "AuthenticationError", "ContentFilteredError", "NetworkError",
             "ContextLengthExceededError", "InvalidRequestError", "LlmServiceError"}
  BY DEF LlmErrorNames, ErrorClass
<1> QED
  BY <1>1, <1>2 DEF statusCode, Blamed, ErrorClass, RateLimitError, ResourceExhaustedError,
       ProviderServerError, AuthenticationError, ContentFilteredError, NetworkError,
       ContextLengthExceededError, InvalidRequestError, LlmServiceError

\* No exception is mistaken for another outcome, and none is answered with 20x.
LEMMA ExceptionsDistinct ==
    /\ None \notin Exceptions /\ Send!Pending \notin Exceptions /\ "LlmResponse" \notin Exceptions
    /\ \A e \in LlmErrorNames \cup {"ZodError"} :
          e \in Exceptions /\ e \notin {"PayloadTooLarge", "BadRequest", "ValidationFailed",
                                        "Throttled", "Unauthorized", "TemplateError",
                                        "BodyError"}
  BY DEF Exceptions, None, Send!Pending, LlmErrorNames, ErrorClass

\* The contract of send() throws the same errors.
LEMMA SameErrors == Send!LlmErrorNames = LlmErrorNames
  BY DEF Send!LlmErrorNames, Send!ErrorClass, LlmErrorNames, ErrorClass

LEMMA NoExceptionIsSuccess == \A e \in Exceptions : status(e) \notin {0, 200, 201}
  BY StatusTable, LlmStatusTable DEF Exceptions

\* A request counts against the sender of every other request of its counter, for no
\* API key is spelled like an address.
LEMMA CounterIsSender ==
    ASSUME NEW q \in Requests, NEW r \in Requests,
           NEW p1 \in Profiles[q], NEW p2 \in Profiles[r], counter(p1) = counter(p2)
    PROVE  CountsAgainst(p1, p2)
<1>1. p1 \in Profile /\ p2 \in Profile
  BY PipelineAssumption
<1>2. p1.route = p2.route /\ getTracker(p1) = getTracker(p2)
  BY DEF counter
<1>3. p1.ip \in Addresses /\ p2.ip \in Addresses
  BY <1>1 DEF Profile
<1> QED
  BY <1>2, <1>3, PipelineAssumption DEF getTracker, CountsAgainst

\* A counter is one of Counters.
LEMMA CounterType ==
    ASSUME NEW r \in Requests, NEW p \in Profiles[r]
    PROVE  counter(p) \in Counters /\ counter(p)[1] = p.route
<1>1. p \in Profile /\ (p.scheme = "none") = (p.token = NoToken)
  BY PipelineAssumption
<1> QED
  BY <1>1 DEF Profile, counter, Counters, getTracker, Routes, NoToken

-----------------------------------------------------------------------------
\* A step leaves alone what holds of the requests it does not touch.
LEMMA OthersKeepInv ==
    ASSUME NEW q \in Requests, StageInv(q), CauseInv(q),
           pc'[q] = pc[q], req'[q] = req[q], tries'[q] = tries[q], result'[q] = result[q],
           thrown'[q] = thrown[q], reply'[q] = reply[q]
    PROVE  StageInv(q)' /\ CauseInv(q)'
  BY DEF StageInv, CauseInv, Good, authenticates, Places, NoReply

\* A step that adds no request to the passed ones and throttles none leaves the
\* counters and what was said of the throttled ones as they are.
LEMMA CountersKeepInv ==
    ASSUME PipelineInv, UNCHANGED <<hits, blocked, earlier>>,
           Passed' = Passed, \A q \in Passed : req'[q] = req[q],
           \A q \in Requests : thrown'[q] = "Throttled" =>
                                  thrown[q] = "Throttled" /\ req'[q] = req[q]
    PROVE  CounterInv' /\ ThrottledForOwnRequestsOnly'
<1>1. \A k : Own(k)' = Own(k)
  BY DEF Own, counter, getTracker
<1>2. CounterInv'
  BY <1>1 DEF PipelineInv, CounterInv, limitOf
<1>3. ASSUME NEW r \in Requests, thrown'[r] = "Throttled"
      PROVE  {q \in earlier'[r] : CountsAgainst(req'[q], req'[r])}
                = {q \in earlier[r] : CountsAgainst(req[q], req[r])}
  BY <1>3 DEF PipelineInv, CounterInv, CountsAgainst
<1>4. ThrottledForOwnRequestsOnly'
  BY <1>3 DEF PipelineInv, ThrottledForOwnRequestsOnly
<1> QED
  BY <1>2, <1>4

LEMMA InitPipelineInv == Init => PipelineInv
<1> SUFFICES ASSUME Init PROVE PipelineInv
  OBVIOUS
<1>1. TypeOK
  BY PipelineAssumption DEF Init, Send!Init, TypeOK, Replies, NoReply, None
<1>2. ASSUME NEW r \in Requests PROVE StageInv(r) /\ CauseInv(r)
  BY ExceptionsDistinct DEF Init, Send!Init, StageInv, CauseInv, None, LlmErrorNames, ErrorClass
<1>3. CounterInv
  BY DEF Init, CounterInv
<1>4. ThrottledForOwnRequestsOnly
  BY DEF Init, ThrottledForOwnRequestsOnly, None
<1> QED
  BY <1>1, <1>2, <1>3, <1>4 DEF PipelineInv

-----------------------------------------------------------------------------
\* One lemma per action: it preserves the invariant.
LEMMA ReceiveKeepsInv ==
    ASSUME PipelineInv, NEW r \in Requests, NEW p \in Profiles[r], Receive(r, p)
    PROVE  PipelineInv'
<1> USE DEF Advance, Throw
<1>1. /\ pc[r] = "unsent" /\ req' = [req EXCEPT ![r] = p]
      /\ UNCHANGED <<hits, blocked, tries, result, reply, earlier>>
      /\ \/ /\ p.body = "tooLarge" /\ pc' = [pc EXCEPT ![r] = "catch"]
            /\ thrown' = [thrown EXCEPT ![r] = "PayloadTooLarge"]
         \/ /\ p.body = "notJson" /\ pc' = [pc EXCEPT ![r] = "catch"]
            /\ thrown' = [thrown EXCEPT ![r] = "BadRequest"]
         \/ /\ p.body = "unreadable" /\ pc' = [pc EXCEPT ![r] = "catch"]
            /\ thrown' = [thrown EXCEPT ![r] = "BodyError"]
         \/ /\ p.body \notin Unparsed /\ pc' = [pc EXCEPT ![r] = "throttle"]
            /\ thrown' = thrown
  BY DEF Receive, Unparsed
<1>2. TypeOK /\ StageInv(r) /\ CauseInv(r) /\ p \in Profile
  BY PipelineAssumption DEF PipelineInv
<1>3. TypeOK'
  BY <1>1, <1>2 DEF TypeOK, Exceptions
<1>4. StageInv(r)' /\ CauseInv(r)'
  <2>1. /\ tries[r] = 0 /\ thrown[r] = None /\ reply[r] = NoReply
        /\ result[r] = Send!Pending
    BY <1>1, <1>2 DEF StageInv, Good, TypeOK
  <2> QED
    BY <1>1, <1>2, <2>1, ExceptionsDistinct DEF StageInv, CauseInv, TypeOK, None, Unparsed
<1>5. \A q \in Requests \ {r} : StageInv(q)' /\ CauseInv(q)'
  BY <1>1, <1>2, OthersKeepInv DEF PipelineInv, TypeOK
<1>6. Passed' = Passed /\ \A q \in Passed : req'[q] = req[q]
  BY <1>1, <1>2 DEF Passed, TypeOK, Unparsed
<1>7. \A q \in Requests : thrown'[q] = "Throttled" => thrown[q] = "Throttled" /\ req'[q] = req[q]
  <2>1. thrown[r] = None
    BY <1>1, <1>2 DEF StageInv
  <2> QED
    BY <1>1, <1>2, <2>1 DEF TypeOK, None
<1>8. CounterInv' /\ ThrottledForOwnRequestsOnly'
  BY <1>1, <1>6, <1>7, CountersKeepInv
<1> QED
  BY <1>3, <1>4, <1>5, <1>8 DEF PipelineInv

LEMMA HandleKeepsInv ==
    ASSUME PipelineInv, NEW r \in Requests, Handle(r)
    PROVE  PipelineInv'
<1> USE DEF Advance, Throw, Respond
<1>1. /\ UNCHANGED <<req, hits, blocked, earlier>>
      /\ UNCHANGED <<tries, result, thrown>>
      /\ pc[r] = "handle" /\ pc' = [pc EXCEPT ![r] = "answered"]
      /\ reply' = [reply EXCEPT ![r] = [NoReply EXCEPT !.status = 200]]
  BY DEF Handle
<1>2. TypeOK /\ StageInv(r) /\ CauseInv(r)
  BY DEF PipelineInv
<1>3. TypeOK'
  BY <1>1, <1>2, ExceptionsDistinct DEF TypeOK, Exceptions, None, NoReply, Replies
<1>4. StageInv(r)' /\ CauseInv(r)'
  BY <1>1, <1>2, ExceptionsDistinct
     DEF StageInv, CauseInv, TypeOK, None, Good, NoReply
<1>5. \A q \in Requests \ {r} : StageInv(q)' /\ CauseInv(q)'
  BY <1>1, <1>2, OthersKeepInv DEF PipelineInv, TypeOK
<1>6. Passed' = Passed
  BY <1>1, <1>2 DEF Passed, TypeOK
<1>7. \A q \in Requests : thrown'[q] = "Throttled" => thrown[q] = "Throttled"
  BY <1>1, <1>2, ExceptionsDistinct DEF TypeOK, None
<1>8. CounterInv' /\ ThrottledForOwnRequestsOnly'
  BY <1>1, <1>6, <1>7, CountersKeepInv
<1> QED
  BY <1>3, <1>4, <1>5, <1>8 DEF PipelineInv

LEMMA AuthenticateKeepsInv ==
    ASSUME PipelineInv, NEW r \in Requests, Authenticate(r)
    PROVE  PipelineInv'
<1> USE DEF Advance, Throw, Respond
<1>1. /\ UNCHANGED <<req, hits, blocked, earlier>>
      /\ UNCHANGED <<tries, result, reply>>
      /\ pc[r] = "authenticate"
      /\ \/ /\ authenticates(req[r]) /\ pc' = [pc EXCEPT ![r] = "validate"]
            /\ thrown' = thrown
         \/ /\ ~ authenticates(req[r]) /\ pc' = [pc EXCEPT ![r] = "catch"]
            /\ thrown' = [thrown EXCEPT ![r] = "Unauthorized"]
  BY DEF Authenticate
<1>2. TypeOK /\ StageInv(r) /\ CauseInv(r)
  BY DEF PipelineInv
<1>3. TypeOK'
  BY <1>1, <1>2, ExceptionsDistinct DEF TypeOK, Exceptions, None, NoReply
<1>4. StageInv(r)' /\ CauseInv(r)'
  BY <1>1, <1>2, ExceptionsDistinct
     DEF StageInv, CauseInv, TypeOK, None, Good, NoReply, Unparsed
<1>5. \A q \in Requests \ {r} : StageInv(q)' /\ CauseInv(q)'
  BY <1>1, <1>2, OthersKeepInv DEF PipelineInv, TypeOK
<1>6. Passed' = Passed
  BY <1>1, <1>2 DEF Passed, TypeOK
<1>7. \A q \in Requests : thrown'[q] = "Throttled" => thrown[q] = "Throttled"
  BY <1>1, <1>2, ExceptionsDistinct DEF TypeOK, None
<1>8. CounterInv' /\ ThrottledForOwnRequestsOnly'
  BY <1>1, <1>6, <1>7, CountersKeepInv
<1> QED
  BY <1>3, <1>4, <1>5, <1>8 DEF PipelineInv

LEMMA ValidateKeepsInv ==
    ASSUME PipelineInv, NEW r \in Requests, Validate(r)
    PROVE  PipelineInv'
<1> USE DEF Advance, Throw, Respond
<1>1. /\ UNCHANGED <<req, hits, blocked, earlier>>
      /\ UNCHANGED <<tries, result, reply>>
      /\ pc[r] = "validate"
      /\ \/ /\ req[r].body = "invalid" /\ pc' = [pc EXCEPT ![r] = "catch"]
            /\ thrown' = [thrown EXCEPT ![r] = "ValidationFailed"]
         \/ /\ req[r].body = "badImage" /\ pc' = [pc EXCEPT ![r] = "catch"]
            /\ thrown' = [thrown EXCEPT ![r] = "BadRequest"]
         \/ /\ req[r].body \notin {"invalid", "badImage"}
            /\ pc' = [pc EXCEPT ![r] = "template"] /\ thrown' = thrown
  BY DEF Validate
<1>2. TypeOK /\ StageInv(r) /\ CauseInv(r)
  BY DEF PipelineInv
<1>3. TypeOK'
  <2>1. thrown' \in [Requests -> Exceptions \cup {None}]
    BY <1>1, <1>2 DEF TypeOK, Exceptions
  <2>2. /\ pc' \in [Requests -> {"unsent", "throttle", "handle", "authenticate", "validate",
                                 "template", "send", "catch", "answered"}]
    BY <1>1, <1>2 DEF TypeOK
  <2> QED
    BY <1>1, <1>2, <2>1, <2>2 DEF TypeOK
<1>4. StageInv(r)' /\ CauseInv(r)'
  BY <1>1, <1>2, ExceptionsDistinct
     DEF StageInv, CauseInv, TypeOK, None, Good, NoReply
<1>5. \A q \in Requests \ {r} : StageInv(q)' /\ CauseInv(q)'
  BY <1>1, <1>2, OthersKeepInv DEF PipelineInv, TypeOK
<1>6. Passed' = Passed
  BY <1>1, <1>2 DEF Passed, TypeOK
<1>7. \A q \in Requests : thrown'[q] = "Throttled" => thrown[q] = "Throttled"
  BY <1>1, <1>2, ExceptionsDistinct DEF TypeOK, None
<1>8. CounterInv' /\ ThrottledForOwnRequestsOnly'
  BY <1>1, <1>6, <1>7, CountersKeepInv
<1> QED
  BY <1>3, <1>4, <1>5, <1>8 DEF PipelineInv

LEMMA BuildKeepsInv ==
    ASSUME PipelineInv, NEW r \in Requests, Build(r)
    PROVE  PipelineInv'
<1> USE DEF Advance, Throw, Respond
<1>1. /\ UNCHANGED <<req, hits, blocked, earlier>>
      /\ UNCHANGED <<tries, result, reply>>
      /\ pc[r] = "template"
      /\ \/ /\ pc' = [pc EXCEPT ![r] = "catch"]
            /\ thrown' = [thrown EXCEPT ![r] = "TemplateError"]
         \/ /\ req[r].body = "oddImage" /\ pc' = [pc EXCEPT ![r] = "catch"]
            /\ thrown' = [thrown EXCEPT ![r] = "BadRequest"]
         \/ /\ req[r].body # "oddImage" /\ pc' = [pc EXCEPT ![r] = "send"]
            /\ thrown' = thrown
  BY DEF Build
<1>2. TypeOK /\ StageInv(r) /\ CauseInv(r)
  BY DEF PipelineInv
<1>3. TypeOK'
  BY <1>1, <1>2, ExceptionsDistinct DEF TypeOK, Exceptions, None, NoReply
<1>4. StageInv(r)' /\ CauseInv(r)'
  BY <1>1, <1>2, ExceptionsDistinct
     DEF StageInv, CauseInv, TypeOK, None, Good, NoReply, Unparsed
<1>5. \A q \in Requests \ {r} : StageInv(q)' /\ CauseInv(q)'
  BY <1>1, <1>2, OthersKeepInv DEF PipelineInv, TypeOK
<1>6. Passed' = Passed
  BY <1>1, <1>2 DEF Passed, TypeOK
<1>7. \A q \in Requests : thrown'[q] = "Throttled" => thrown[q] = "Throttled"
  BY <1>1, <1>2, ExceptionsDistinct DEF TypeOK, None
<1>8. CounterInv' /\ ThrottledForOwnRequestsOnly'
  BY <1>1, <1>6, <1>7, CountersKeepInv
<1> QED
  BY <1>3, <1>4, <1>5, <1>8 DEF PipelineInv

LEMMA SendingKeepsInv ==
    ASSUME PipelineInv, NEW r \in Requests, Sending(r)
    PROVE  PipelineInv'
<1> USE DEF Advance, Throw, Respond
<1>1. /\ UNCHANGED <<req, hits, blocked, earlier>>
      /\ UNCHANGED <<pc, thrown, reply>>
      /\ pc[r] = "send" /\ result[r] = Send!Pending
      /\ \/ /\ tries[r] <= MaxRetries /\ tries' = [tries EXCEPT ![r] = @ + 1]
            /\ result' = result
         \/ /\ \E e \in {"LlmResponse", "ZodError"} \cup LlmErrorNames :
                  result' = [result EXCEPT ![r] = e]
            /\ tries' = tries
  <2>1. /\ UNCHANGED <<req, hits, blocked, earlier>> /\ UNCHANGED <<pc, thrown, reply>>
        /\ pc[r] = "send" /\ Send!Step(r)
    BY DEF Sending
  <2>2. CASE Send!Try(r)
    BY <2>1, <2>2 DEF Send!Try
  <2>3. CASE Send!Resolve(r)
    BY <2>1, <2>3 DEF Send!Resolve
  <2>4. CASE Send!GiveUp(r)
    <3>1. /\ result[r] = Send!Pending /\ tries' = tries
          /\ \E e \in LlmErrorNames : result' = [result EXCEPT ![r] = e]
      BY <2>4, SameErrors DEF Send!GiveUp
    <3> QED
      BY <2>1, <3>1
  <2>5. Send!Try(r) \/ Send!Resolve(r) \/ Send!GiveUp(r)
    BY <2>1 DEF Send!Step
  <2> QED
    BY <2>2, <2>3, <2>4, <2>5
<1>2. TypeOK /\ StageInv(r) /\ CauseInv(r) /\ PipelineInv
  BY DEF PipelineInv
<1>3. TypeOK'
  <2>1. tries' \in [Requests -> 0..(MaxRetries + 1)]
    BY <1>1, <1>2, PipelineAssumption DEF TypeOK
  <2>2. result' \in [Requests -> {Send!Pending, "LlmResponse", "ZodError"} \cup LlmErrorNames]
    BY <1>1, <1>2 DEF TypeOK
  <2> QED
    BY <1>1, <1>2, <2>1, <2>2 DEF TypeOK
<1>4. StageInv(r)' /\ CauseInv(r)'
  <2>1. thrown[r] = None /\ Good(req[r])
    BY <1>1, <1>2, PipelineAssumption DEF StageInv, Good, Profile
  <2>2. StageInv(r)'
    BY <1>1, <1>2, <2>1 DEF StageInv, Good, authenticates, NoReply
  <2>3. CauseInv(r)'
    BY <1>1, <2>1, ExceptionsDistinct DEF CauseInv, None, LlmErrorNames, ErrorClass
  <2> QED
    BY <2>2, <2>3
<1>5. \A q \in Requests \ {r} : StageInv(q)' /\ CauseInv(q)'
  BY <1>1, <1>2, OthersKeepInv DEF PipelineInv, TypeOK
<1>6. Passed' = Passed
  BY <1>1, <1>2 DEF Passed, TypeOK
<1>7. \A q \in Requests : thrown'[q] = "Throttled" => thrown[q] = "Throttled"
  BY <1>1, <1>2, ExceptionsDistinct DEF TypeOK, None
<1>8. CounterInv' /\ ThrottledForOwnRequestsOnly'
  BY <1>1, <1>6, <1>7, CountersKeepInv
<1> QED
  BY <1>3, <1>4, <1>5, <1>8 DEF PipelineInv

LEMMA ReturnKeepsInv ==
    ASSUME PipelineInv, NEW r \in Requests, Return(r)
    PROVE  PipelineInv'
<1> USE DEF Advance, Throw, Respond
<1>1. /\ UNCHANGED <<req, hits, blocked, earlier>>
      /\ UNCHANGED <<tries, result>>
      /\ pc[r] = "send" /\ result[r] # Send!Pending
      /\ \/ /\ result[r] = "LlmResponse" /\ thrown' = thrown
            /\ pc' = [pc EXCEPT ![r] = "answered"]
            /\ reply' = [reply EXCEPT ![r] = [NoReply EXCEPT !.status = 201]]
         \/ /\ result[r] # "LlmResponse" /\ reply' = reply
            /\ pc' = [pc EXCEPT ![r] = "catch"]
            /\ thrown' = [thrown EXCEPT ![r] = result[r]]
  BY DEF Return
<1>2. TypeOK /\ StageInv(r) /\ CauseInv(r) /\ PipelineInv
  BY DEF PipelineInv
<1>3. TypeOK'
  <2>1. thrown' \in [Requests -> Exceptions \cup {None}]
    <3>1. result[r] \in {Send!Pending, "LlmResponse", "ZodError"} \cup LlmErrorNames
      BY <1>2 DEF TypeOK
    <3> QED
      BY <1>1, <1>2, <3>1 DEF TypeOK, Exceptions
  <2>2. reply' \in [Requests -> Replies]
    <3>1. [NoReply EXCEPT !.status = 201] \in Replies
      BY DEF NoReply, Replies
    <3> QED
      BY <1>1, <1>2, <3>1 DEF TypeOK
  <2> QED
    BY <1>1, <1>2, <2>1, <2>2 DEF TypeOK
<1>4. StageInv(r)' /\ CauseInv(r)'
  <2>1. thrown[r] = None /\ reply[r] = NoReply /\ Good(req[r])
    BY <1>1, <1>2 DEF StageInv
  <2>2. result[r] \in {"LlmResponse", "ZodError"} \cup LlmErrorNames
    BY <1>1, <1>2 DEF TypeOK
  <2>3. StageInv(r)'
    BY <1>1, <1>2, <2>1 DEF StageInv, TypeOK, Good, authenticates
  <2>4. CauseInv(r)'
    BY <1>1, <1>2, <2>1, <2>2, ExceptionsDistinct DEF CauseInv, TypeOK, None, NoReply, Good, Unparsed
  <2> QED
    BY <2>3, <2>4
<1>5. \A q \in Requests \ {r} : StageInv(q)' /\ CauseInv(q)'
  BY <1>1, <1>2, OthersKeepInv DEF PipelineInv, TypeOK
<1>6. Passed' = Passed
  BY <1>1, <1>2 DEF Passed, TypeOK
<1>7. \A q \in Requests : thrown'[q] = "Throttled" => thrown[q] = "Throttled"
  BY <1>1, <1>2, ExceptionsDistinct DEF TypeOK, None
<1>8. CounterInv' /\ ThrottledForOwnRequestsOnly'
  BY <1>1, <1>6, <1>7, CountersKeepInv
<1> QED
  BY <1>3, <1>4, <1>5, <1>8 DEF PipelineInv

LEMMA CatchKeepsInv ==
    ASSUME PipelineInv, NEW r \in Requests, Catch(r)
    PROVE  PipelineInv'
<1> USE DEF Advance, Throw, Respond
<1>1. /\ UNCHANGED <<req, hits, blocked, earlier>>
      /\ UNCHANGED <<tries, result, thrown>>
      /\ pc[r] = "catch" /\ pc' = [pc EXCEPT ![r] = "answered"]
      /\ reply' = [reply EXCEPT ![r] =
                      [status |-> status(thrown[r]), message |-> message(thrown[r]),
                       issues |-> issues(thrown[r]), retryAfter |-> thrown[r] = "Throttled"]]
  BY DEF Catch
<1>2. TypeOK /\ StageInv(r) /\ CauseInv(r) /\ PipelineInv
  BY DEF PipelineInv
<1>0. thrown[r] \in Exceptions
  BY <1>1, <1>2 DEF CauseInv, TypeOK
<1>3. TypeOK'
  <2>1. /\ message(thrown[r]) \in {None, "own", "generic"}
        /\ issues(thrown[r]) \in {None, "masked", "detailed"}
        /\ (thrown[r] = "Throttled") \in BOOLEAN
        /\ status(thrown[r]) \in {status(e) : e \in Exceptions}
    BY <1>0 DEF message, issues
  <2>2. reply' \in [Requests -> Replies]
    <3> DEFINE new == [status |-> status(thrown[r]), message |-> message(thrown[r]),
                       issues |-> issues(thrown[r]), retryAfter |-> thrown[r] = "Throttled"]
    <3>1. new \in Replies
      BY <2>1 DEF Replies
    <3> QED
      BY <1>1, <1>2, <3>1 DEF TypeOK
  <2> QED
    BY <1>1, <1>2, <2>2 DEF TypeOK
<1>4. StageInv(r)' /\ CauseInv(r)'
  <2>1. StageInv(r)'
    BY <1>1, <1>2 DEF StageInv, TypeOK, Good, authenticates
  <2>2. /\ pc'[r] = "answered" /\ reply'[r].status = status(thrown[r])
        /\ reply'[r].message = message(thrown[r]) /\ reply'[r].issues = issues(thrown[r])
        /\ reply'[r].retryAfter = (thrown[r] = "Throttled")
        /\ thrown'[r] = thrown[r]
    BY <1>1, <1>2 DEF TypeOK
  <2>3. /\ thrown'[r] # None /\ reply'[r].status = status(thrown'[r])
        /\ reply'[r].message = message(thrown'[r]) /\ reply'[r].issues = issues(thrown'[r])
        /\ reply'[r].retryAfter <=> thrown'[r] = "Throttled"
    BY <1>1, <1>2, <1>0, <2>2 DEF CauseInv
  <2>4. CauseInv(r)'
    BY <1>1, <1>2, <2>3 DEF CauseInv, authenticates, status, message, issues
  <2> QED
    BY <2>1, <2>4
<1>5. \A q \in Requests \ {r} : StageInv(q)' /\ CauseInv(q)'
  BY <1>1, <1>2, OthersKeepInv DEF PipelineInv, TypeOK
<1>6. Passed' = Passed
  BY <1>1, <1>2 DEF Passed, TypeOK
<1>7. \A q \in Requests : thrown'[q] = "Throttled" => thrown[q] = "Throttled"
  BY <1>1, <1>2, ExceptionsDistinct DEF TypeOK, None
<1>8. CounterInv' /\ ThrottledForOwnRequestsOnly'
  BY <1>1, <1>6, <1>7, CountersKeepInv
<1> QED
  BY <1>3, <1>4, <1>5, <1>8 DEF PipelineInv

LEMMA UnblockKeepsInv ==
    ASSUME PipelineInv, NEW k \in Counters, Unblock(k)
    PROVE  PipelineInv'
<1>1. /\ UNCHANGED <<pc, req, tries, result, thrown, reply, earlier>>
      /\ blocked' = blocked \ {k} /\ hits' = [hits EXCEPT ![k] = {}]
  BY DEF Unblock
<1>2. TypeOK /\ CounterInv
  BY DEF PipelineInv
<1>3. TypeOK'
  BY <1>1, <1>2 DEF TypeOK
<1>4. \A r \in Requests : StageInv(r)' /\ CauseInv(r)'
  BY <1>1, OthersKeepInv DEF PipelineInv
<1>5. Passed' = Passed /\ \A j : Own(j)' = Own(j)
  BY <1>1 DEF Passed, Own, counter, getTracker
<1>6. CounterInv'
  BY <1>1, <1>2, <1>5 DEF TypeOK, CounterInv, limitOf
<1>7. ThrottledForOwnRequestsOnly'
  BY <1>1 DEF PipelineInv, ThrottledForOwnRequestsOnly, CountsAgainst
<1> QED
  BY <1>3, <1>4, <1>6, <1>7 DEF PipelineInv

LEMMA ExpireKeepsInv ==
    ASSUME PipelineInv, NEW k \in Counters, Expire(k)
    PROVE  PipelineInv'
<1>1. /\ UNCHANGED <<pc, req, blocked, tries, result, thrown, reply, earlier>>
      /\ \E r \in hits[k] : hits' = [hits EXCEPT ![k] = hits[k] \ {r}]
  BY DEF Expire
<1>2. TypeOK /\ CounterInv
  BY DEF PipelineInv
<1>3. TypeOK'
  BY <1>1, <1>2 DEF TypeOK
<1>4. \A r \in Requests : StageInv(r)' /\ CauseInv(r)'
  BY <1>1, OthersKeepInv DEF PipelineInv
<1>5. Passed' = Passed /\ \A j : Own(j)' = Own(j)
  BY <1>1 DEF Passed, Own, counter, getTracker
<1>6. CounterInv'
  BY <1>1, <1>2, <1>5 DEF TypeOK, CounterInv, limitOf
<1>7. ThrottledForOwnRequestsOnly'
  BY <1>1 DEF PipelineInv, ThrottledForOwnRequestsOnly, CountsAgainst
<1> QED
  BY <1>3, <1>4, <1>6, <1>7 DEF PipelineInv

\* The throttler is the only step that counts: the counter gains the request and no
\* other counter loses anything it is known by.
LEMMA ThrottleKeepsInv ==
    ASSUME PipelineInv, NEW r \in Requests, Throttle(r)
    PROVE  PipelineInv'
<1>0. PICK k : k = counter(req[r])
  OBVIOUS
<1> DEFINE counted == IF k \in blocked THEN hits[k] ELSE hits[k] \cup {r}
           full == k \in blocked \/ Cardinality(counted) > limitOf(req[r].route)
<1>1. /\ UNCHANGED <<req, tries, result, reply>>
      /\ pc[r] = "throttle" /\ hits' = [hits EXCEPT ![k] = counted]
      /\ blocked' = IF full THEN blocked \cup {k} ELSE blocked
      /\ earlier' = [earlier EXCEPT ![r] = IF full THEN Passed ELSE {}]
      /\ \/ /\ full /\ pc' = [pc EXCEPT ![r] = "catch"]
            /\ thrown' = [thrown EXCEPT ![r] = "Throttled"]
         \/ /\ ~ full /\ thrown' = thrown /\ req[r].route = "assessor"
            /\ pc' = [pc EXCEPT ![r] = "authenticate"]
         \/ /\ ~ full /\ thrown' = thrown /\ req[r].route # "assessor"
            /\ pc' = [pc EXCEPT ![r] = "handle"]
  BY <1>0 DEF Throttle, Advance, Throw
<1>2. TypeOK /\ StageInv(r) /\ CauseInv(r) /\ CounterInv
  BY DEF PipelineInv
<1>3. /\ req[r] \in Profiles[r] /\ req[r] \in Profile
      /\ k \in Counters /\ k[1] = req[r].route
      /\ thrown[r] = None /\ reply[r] = NoReply
  BY <1>0, <1>1, <1>2, CounterType, PipelineAssumption DEF StageInv
<1> HIDE DEF counted, full
<1>4. TypeOK'
  <2>1. counted \in SUBSET Requests
    BY <1>2, <1>3 DEF TypeOK, counted
  <2>2. Passed \in SUBSET Requests
    BY DEF Passed
  <2>3. /\ hits' \in [Counters -> SUBSET Requests] /\ earlier' \in [Requests -> SUBSET Requests]
        /\ blocked' \subseteq Counters
    BY <1>1, <1>2, <1>3, <2>1, <2>2 DEF TypeOK
  <2>4. thrown' \in [Requests -> Exceptions \cup {None}]
    BY <1>1, <1>2 DEF TypeOK, Exceptions
  <2>5. pc' \in [Requests -> {"unsent", "throttle", "handle", "authenticate", "validate",
                              "template", "send", "catch", "answered"}]
    BY <1>1, <1>2 DEF TypeOK
  <2> QED
    BY <1>1, <1>2, <2>3, <2>4, <2>5 DEF TypeOK
<1>5. StageInv(r)' /\ CauseInv(r)'
  <2>1. req[r].route \in {"assessor", "health"}
    BY <1>3 DEF Profile, Routes
  <2>2. StageInv(r)'
    BY <1>1, <1>2, <1>3, <2>1 DEF StageInv, TypeOK, Good, authenticates
  <2>3. CauseInv(r)'
    <3>1. req[r].body # "unreadable" /\ req'[r] = req[r]
      BY <1>1, <1>2 DEF StageInv, Unparsed
    <3>2. pc'[r] \notin {"answered"} /\ thrown'[r] \in {None, "Throttled"}
          /\ (pc'[r] = "catch" => thrown'[r] = "Throttled")
      BY <1>1, <1>2, <1>3 DEF TypeOK
    <3> QED
      BY <3>1, <3>2, ExceptionsDistinct DEF CauseInv, None
  <2> QED
    BY <2>2, <2>3
<1>6. \A q \in Requests \ {r} : StageInv(q)' /\ CauseInv(q)'
  BY <1>1, <1>2, OthersKeepInv DEF PipelineInv, TypeOK
<1>7. r \notin Passed /\ Passed' = Passed \cup {r}
  BY <1>1, <1>2 DEF Passed, TypeOK, StageInv
<1>8. /\ Own(k)' = Own(k) \cup {r} /\ r \notin Own(k)
      /\ \A j : j # k => Own(j)' = Own(j)
  BY <1>0, <1>1, <1>7 DEF Own, counter, getTracker
<1>9. IsFiniteSet(Requests) /\ IsFiniteSet(Passed)
  BY PipelineAssumption, FS_Subset DEF Passed
<1>10. \A S \in SUBSET Requests : IsFiniteSet(S) /\ Cardinality(S) \in Nat
  BY <1>9, FS_Subset, FS_CardinalityType
<1>11. counted \subseteq Own(k) \cup {r} /\ hits[k] \subseteq Own(k)
  BY <1>2, <1>3 DEF CounterInv, counted
<1>12. limitOf(req[r].route) \in Nat
  BY PipelineAssumption DEF limitOf, AssessorLimit
\* A request that is throttled has at least as many of its own before it as the limit.
<1>13. ASSUME full
       PROVE  Cardinality(Own(k)) >= limitOf(req[r].route)
  <2>1. Own(k) \in SUBSET Requests /\ hits[k] \in SUBSET Requests
    BY <1>2, <1>3 DEF Own, Passed, TypeOK
  <2>2. CASE k \in blocked
    BY <1>2, <1>3, <1>10, <1>12, <2>1, <2>2 DEF CounterInv
  <2>3. CASE k \notin blocked
    <3>1. counted = hits[k] \cup {r} /\ Cardinality(counted) > limitOf(req[r].route)
      BY <1>13, <2>3 DEF counted, full
    <3>2. Cardinality(hits[k] \cup {r}) <= Cardinality(hits[k]) + 1
      BY <1>10, <2>1, FS_AddElement
    <3>3. Cardinality(hits[k]) <= Cardinality(Own(k))
      BY <1>10, <1>11, <2>1, FS_Subset
    <3>4. Cardinality(hits[k] \cup {r}) \in Nat
      BY <1>10, <2>1
    <3> QED
      BY <1>10, <1>12, <2>1, <3>1, <3>2, <3>3, <3>4
  <2> QED
    BY <2>2, <2>3
<1>14. full => Cardinality(Own(k)') > limitOf(req[r].route)
  <2>1. Own(k) \in SUBSET Requests
    BY DEF Own, Passed
  <2>2. Cardinality(Own(k) \cup {r}) = Cardinality(Own(k)) + 1
    BY <1>8, <1>10, <2>1, FS_AddElement
  <2> QED
    BY <1>8, <1>10, <1>12, <1>13, <2>1, <2>2
<1>15. CounterInv'
  <2>1. \A j \in Counters : hits'[j] \subseteq Own(j)'
    <3>1. ASSUME NEW j \in Counters, j # k PROVE hits'[j] = hits[j]
      BY <1>1, <1>2, <3>1 DEF TypeOK
    <3>2. hits'[k] = counted
      BY <1>1, <1>2, <1>3 DEF TypeOK
    <3> QED
      BY <1>2, <1>3, <1>8, <1>11, <3>1, <3>2 DEF CounterInv
  <2>2. \A j \in blocked' : Cardinality(Own(j)') > limitOf(j[1])
    <3>1. ASSUME NEW j \in blocked', j # k PROVE Cardinality(Own(j)') > limitOf(j[1])
      BY <1>1, <1>2, <1>8, <3>1 DEF CounterInv
    <3>2. k \in blocked' => full
      BY <1>1 DEF full
    <3>3. ASSUME k \in blocked' PROVE Cardinality(Own(k)') > limitOf(k[1])
      BY <1>3, <1>14, <3>2, <3>3
    <3>4. SUFFICES ASSUME NEW j \in blocked' PROVE Cardinality(Own(j)') > limitOf(j[1])
      OBVIOUS
    <3>5. CASE j = k
      BY <3>3, <3>5
    <3> QED
      BY <3>1, <3>5
  <2>3. \A q \in Requests : earlier'[q] \subseteq Passed'
    BY <1>1, <1>2, <1>7 DEF CounterInv, TypeOK
  <2> QED
    BY <2>1, <2>2, <2>3 DEF CounterInv, limitOf
<1>16. ThrottledForOwnRequestsOnly'
  <2> SUFFICES ASSUME NEW q \in Requests, thrown'[q] = "Throttled"
               PROVE  Cardinality({p \in earlier'[q] : CountsAgainst(req[p], req[q])})
                         >= limitOf(req[q].route)
    BY <1>1 DEF ThrottledForOwnRequestsOnly, limitOf
  <2>1. CASE q # r
    BY <1>1, <1>2, <2>1 DEF PipelineInv, ThrottledForOwnRequestsOnly, TypeOK, limitOf
  <2>2. CASE q = r
    <3>1. full /\ earlier'[r] = Passed
      BY <1>1, <1>2, <1>3, <2>2 DEF TypeOK, None
    <3>2. \A p \in Passed : p \in Requests /\ req[p] \in Profiles[p]
      BY DEF PipelineInv, StageInv, Passed
    <3>3. Own(k) \subseteq {p \in Passed : CountsAgainst(req[p], req[r])}
      BY <1>0, <1>3, <3>2, CounterIsSender DEF Own
    <3>4. {p \in Passed : CountsAgainst(req[p], req[r])} \in SUBSET Requests
      BY DEF Passed
    <3>5. Own(k) \in SUBSET Requests
      BY DEF Own, Passed
    <3>6. Cardinality(Own(k)) <= Cardinality({p \in Passed : CountsAgainst(req[p], req[r])})
      BY <1>10, <3>3, <3>4, FS_Subset
    <3> QED
      BY <1>10, <1>12, <1>13, <2>2, <3>1, <3>4, <3>5, <3>6
  <2> QED
    BY <2>1, <2>2
<1> QED
  BY <1>4, <1>5, <1>6, <1>15, <1>16 DEF PipelineInv

LEMMA StepPipelineInv == PipelineInv /\ [Next]_vars => PipelineInv'
<1> SUFFICES ASSUME PipelineInv, [Next]_vars PROVE PipelineInv'
  OBVIOUS
<1>1. ASSUME NEW r \in Requests, NEW p \in Profiles[r], Receive(r, p) PROVE PipelineInv'
  BY <1>1, ReceiveKeepsInv
<1>2. ASSUME NEW r \in Requests, Step(r) PROVE PipelineInv'
  BY <1>2, ThrottleKeepsInv, HandleKeepsInv, AuthenticateKeepsInv, ValidateKeepsInv,
     BuildKeepsInv, SendingKeepsInv, ReturnKeepsInv, CatchKeepsInv DEF Step
<1>3. ASSUME NEW k \in Counters, Expire(k) \/ Unblock(k) PROVE PipelineInv'
  BY <1>3, ExpireKeepsInv, UnblockKeepsInv
<1>4. CASE UNCHANGED vars
  <2>1. /\ UNCHANGED <<pc, req, tries, result, thrown, reply>>
        /\ UNCHANGED <<hits, blocked, earlier>>
    BY <1>4 DEF vars
  <2>2. TypeOK'
    BY <2>1 DEF PipelineInv, TypeOK
  <2>3. \A r \in Requests : StageInv(r)' /\ CauseInv(r)'
    BY <2>1, OthersKeepInv DEF PipelineInv
  <2>4. Passed' = Passed
    BY <2>1 DEF Passed
  <2>5. CounterInv' /\ ThrottledForOwnRequestsOnly'
    BY <2>1, <2>4, CountersKeepInv
  <2> QED
    BY <2>2, <2>3, <2>5 DEF PipelineInv
<1> QED
  BY <1>1, <1>2, <1>3, <1>4 DEF Next

-----------------------------------------------------------------------------
\* The inductive invariant: what the stage of a request says about its headers and
\* body, what an exception and a reply say about their cause, and that a counter
\* counts requests that name it, by token or by address, and is blocked only after more
\* of them than its limit.
THEOREM PipelineInvariant == Spec => []PipelineInv
<1> QED
  BY InitPipelineInv, StepPipelineInv, PTL DEF Spec

\* Whoever does not present a configured API key, in one place and with nothing beside
\* it, has no file read and no provider contacted for him; and whoever presents it in a
\* header has been counted by that key (ApiKeyThrottlerGuard and ApiKeyGuard before
\* AssessorController.create).
THEOREM StrangersAreKeptOut == Spec => []StrangersCauseNoWork
<1>1. ASSUME PipelineInv, NEW r \in Requests,
             pc[r] \in {"validate", "template", "send"} \/ tries[r] > 0 \/ reply[r].status = 201
      PROVE  authenticates(req[r]) /\ req[r] \in Profiles[r]
  <2>1. TypeOK /\ StageInv(r) /\ CauseInv(r)
    BY <1>1 DEF PipelineInv
  <2>2. pc[r] # "unsent"
    BY <1>1, <2>1 DEF StageInv, NoReply
  <2>3. CASE pc[r] \in {"validate", "template", "send"} \/ tries[r] > 0
    BY <2>1, <2>2, <2>3 DEF StageInv, Good
  <2>4. CASE reply[r].status = 201
    <3>1. pc[r] = "answered"
      BY <2>1, <2>4 DEF StageInv, NoReply
    <3>2. thrown[r] \in Exceptions => reply[r].status # status(thrown[r])
      BY <2>4, NoExceptionIsSuccess
    <3>3. thrown[r] \in Exceptions \/ thrown[r] = None
      BY <2>1 DEF TypeOK
    <3>4. result[r] = "LlmResponse"
      BY <2>1, <2>4, <3>1, <3>2, <3>3 DEF CauseInv
    <3> QED
      BY <2>1, <2>2, <3>4, ExceptionsDistinct DEF StageInv, Good, Send!Pending
  <2> QED
    BY <1>1, <2>3, <2>4
<1>2. ASSUME NEW r \in Requests, NEW p \in Profiles[r], authenticates(p)
      PROVE  \E place \in Places :
                /\ p[place] \in ApiKeys
                /\ \A other \in Places \ {place} : p[other] = NoToken
                /\ p.scheme # "none" => place = "token" /\ getTracker(p) = p.token
  <2>1. PICK place \in Places :
           /\ p.scheme \in {"none", "Bearer"} /\ {q \in Places : p[q] # NoToken} = {place}
           /\ p[place] \in ApiKeys
    BY <1>2 DEF authenticates
  <2>2. \A other \in Places \ {place} : p[other] = NoToken
    BY <2>1
  <2>3. p.scheme # "none" => p.token # NoToken
    BY PipelineAssumption
  <2>4. p.scheme # "none" => place = "token"
    BY <2>2, <2>3 DEF Places
  <2>5. p.scheme # "none" => getTracker(p) = p.token
    BY <2>1 DEF getTracker
  <2> QED
    BY <2>1, <2>2, <2>4, <2>5
<1>3. PipelineInv => StrangersCauseNoWork
  BY <1>1, <1>2 DEF StrangersCauseNoWork
<1> QED
  BY <1>3, PipelineInvariant, PTL

\* Nobody is throttled before as many requests as the limit of the route count against
\* him: those with his token or, without one, from his address, and those whose token
\* is no API key and spelled like the address (ApiKeyThrottlerGuard.getTracker and the
\* limits of the routes).
THEOREM ThrottlingIsFair == Spec => []ThrottledForOwnRequestsOnly
<1>1. PipelineInv => ThrottledForOwnRequestsOnly
  BY DEF PipelineInv
<1> QED
  BY <1>1, PipelineInvariant, PTL

\* The status of an assessment tells whose fault it was (HttpExceptionFilter).
THEOREM StatusIsRight == Spec => []StatusTellsWhoseFault
<1>1. ASSUME PipelineInv, NEW r \in Requests, pc[r] = "answered", req[r].route = "assessor"
      PROVE  /\ ~ Good(req[r]) =>
                   IF req[r].body = "unreadable" THEN reply[r].status = 500
                   ELSE reply[r].status \in 400..499 \/ thrown[r] = "TemplateError"
             /\ Good(req[r]) /\ reply[r].status \in 400..499 =>
                   thrown[r] = "Throttled" \/ result[r] \in Blamed
             /\ reply[r].status = 201 => Good(req[r]) /\ result[r] = "LlmResponse"
  <2>1. TypeOK /\ StageInv(r) /\ CauseInv(r)
    BY <1>1 DEF PipelineInv
  <2>2. CASE thrown[r] = None
    <3>1. result[r] = "LlmResponse" /\ reply[r].status = 201
      BY <1>1, <2>1, <2>2 DEF CauseInv
    <3>2. Good(req[r])
      BY <2>1, <3>1 DEF StageInv, Send!Pending
    <3> QED
      BY <3>1, <3>2
  <2>3. CASE thrown[r] \in LlmErrorNames \cup {"ZodError"}
    <3>1. result[r] = thrown[r] /\ reply[r].status = status(thrown[r])
      BY <1>1, <2>1, <2>3, ExceptionsDistinct DEF CauseInv
    <3>2. Good(req[r])
      BY <2>1, <2>3, <3>1, ExceptionsDistinct DEF StageInv
    <3>3. reply[r].status \in 400..499 => result[r] \in Blamed
      BY <2>3, <3>1, StatusTable, LlmStatusTable
    <3>4. reply[r].status # 201
      BY <2>3, <3>1, ExceptionsDistinct, NoExceptionIsSuccess
    <3> QED
      BY <3>2, <3>3, <3>4
  <2>4. CASE thrown[r] = "BodyError"
    <3>1. reply[r].status = 500 /\ ~ Good(req[r]) /\ req[r].body = "unreadable"
      BY <1>1, <2>1, <2>4, StatusTable DEF CauseInv, None, Good
    <3> QED
      BY <3>1
  <2>5. CASE thrown[r] \in {"PayloadTooLarge", "BadRequest", "ValidationFailed", "Throttled",
                            "Unauthorized", "TemplateError"}
    <3>1. reply[r].status = status(thrown[r]) /\ thrown[r] # None
          /\ req[r].body # "unreadable"
      BY <1>1, <2>1, <2>5 DEF CauseInv, None
    <3>2. reply[r].status \in 400..499 \/ thrown[r] = "TemplateError"
      BY <2>5, <3>1, StatusTable
    <3>3. Good(req[r]) => thrown[r] \in {"Throttled", "TemplateError"}
      BY <2>1, <2>5 DEF CauseInv, Good
    <3>4. thrown[r] = "TemplateError" => reply[r].status = 500
      BY <3>1, StatusTable
    <3>5. reply[r].status # 201
      BY <2>5, <3>1, StatusTable
    <3> QED
      BY <3>1, <3>2, <3>3, <3>4, <3>5
  <2> QED
    BY <2>1, <2>2, <2>3, <2>4, <2>5 DEF TypeOK, Exceptions
<1>2. PipelineInv => StatusTellsWhoseFault
  BY <1>1 DEF StatusTellsWhoseFault
<1> QED
  BY <1>2, PipelineInvariant, PTL

\* In production the replies tell no internals (HttpExceptionFilter, ZodValidationPipe).
THEOREM InternalsAreMasked == Spec => []ProductionTellsNoInternals
<1>1. ASSUME PipelineInv, Production, NEW r \in Requests
      PROVE  /\ reply[r].status >= 500 => reply[r].message = "generic"
             /\ reply[r].issues # "detailed"
  <2>1. StageInv(r) /\ CauseInv(r)
    BY <1>1 DEF PipelineInv
  <2>2. CASE pc[r] # "answered"
    BY <2>1, <2>2 DEF StageInv, NoReply, None
  <2>3. CASE pc[r] = "answered" /\ thrown[r] = None
    BY <2>1, <2>3 DEF CauseInv, None
  <2>4. CASE pc[r] = "answered" /\ thrown[r] # None
    <3>1. /\ reply[r].status = status(thrown[r]) /\ reply[r].message = message(thrown[r])
          /\ reply[r].issues = issues(thrown[r])
      BY <2>1, <2>4 DEF CauseInv
    <3>2. status(thrown[r]) >= 500 => message(thrown[r]) = "generic"
      BY <1>1 DEF message
    <3>3. issues(thrown[r]) # "detailed"
      BY <1>1 DEF issues, None
    <3> QED
      BY <3>1, <3>2, <3>3
  <2> QED
    BY <2>2, <2>3, <2>4
<1>2. PipelineInv => ProductionTellsNoInternals
  BY <1>1 DEF ProductionTellsNoInternals
<1> QED
  BY <1>2, PipelineInvariant, PTL

-----------------------------------------------------------------------------
(* The load of the providers.  It is not enough to know how many requests a *)
(* counter counts, for a blocked one counts more than its limit: those that *)
(* were let in are within it.                                               *)

Admitted(k) == {r \in hits[k] : thrown[r] # "Throttled"}

LoadInv(r) ==
    /\ pc[r] \in {"authenticate", "validate", "template", "send"} \/ tries[r] > 0 =>
          req[r].route = "assessor"
    /\ thrown[r] = "Throttled" => tries[r] = 0

WindowInv ==
    /\ \A r \in Requests : LoadInv(r)
    /\ \A k \in Counters : Cardinality(Admitted(k)) <= limitOf(k[1])

LEMMA AdmittedIsFinite ==
    ASSUME TypeOK, NEW k \in Counters
    PROVE  IsFiniteSet(Admitted(k)) /\ IsFiniteSet(hits[k])
<1>1. hits[k] \subseteq Requests /\ Admitted(k) \subseteq hits[k]
  BY DEF TypeOK, Admitted
<1> QED
  BY <1>1, FS_Subset, PipelineAssumption

LEMMA LimitType == ASSUME NEW route PROVE limitOf(route) \in Nat
  BY PipelineAssumption DEF limitOf, AssessorLimit

\* A counter that admits nobody new stays within its limit.
LEMMA FewerAdmitted ==
    ASSUME TypeOK, WindowInv, NEW k \in Counters, Admitted(k)' \subseteq Admitted(k)
    PROVE  Cardinality(Admitted(k)') <= limitOf(k[1])
<1> DEFINE before == Admitted(k)
           after == Admitted(k)'
<1>1. after \subseteq before
  OBVIOUS
<1>2. IsFiniteSet(before) /\ Cardinality(before) <= limitOf(k[1])
  BY AdmittedIsFinite DEF WindowInv
<1> HIDE DEF before, after
<1>3. IsFiniteSet(after) /\ Cardinality(after) <= Cardinality(before)
  BY <1>1, <1>2, FS_Subset
<1>4. Cardinality(after) \in Nat /\ Cardinality(before) \in Nat /\ limitOf(k[1]) \in Nat
  BY <1>2, <1>3, FS_CardinalityType, LimitType
<1> QED
  BY <1>2, <1>3, <1>4 DEF after

LEMMA InitWindowInv == Init => WindowInv
<1> SUFFICES ASSUME Init PROVE WindowInv
  OBVIOUS
<1>1. \A r \in Requests : LoadInv(r)
  BY DEF Init, Send!Init, LoadInv, None
<1>2. \A k \in Counters : Admitted(k) = {}
  BY DEF Init, Admitted
<1>3. \A k \in Counters : limitOf(k[1]) \in Nat
  BY LimitType
<1> QED
  BY <1>1, <1>2, <1>3, FS_EmptySet DEF WindowInv

LEMMA ThrottleKeepsWindow ==
    ASSUME PipelineInv, PipelineInv', WindowInv, NEW r \in Requests, Throttle(r)
    PROVE  WindowInv'
<1>1. PICK k \in Counters : k = counter(req[r]) /\ k[1] = req[r].route
  BY CounterType DEF PipelineInv, StageInv, Throttle
<1> DEFINE counted == IF k \in blocked THEN hits[k] ELSE hits[k] \cup {r}
           full == k \in blocked \/ Cardinality(counted) > limitOf(req[r].route)
<1>2. /\ UNCHANGED <<req, tries>> /\ pc[r] = "throttle"
      /\ hits' = [hits EXCEPT ![k] = counted]
      /\ \/ /\ full /\ pc' = [pc EXCEPT ![r] = "catch"]
            /\ thrown' = [thrown EXCEPT ![r] = "Throttled"]
         \/ /\ ~ full /\ thrown' = thrown /\ req[r].route = "assessor"
            /\ pc' = [pc EXCEPT ![r] = "authenticate"]
         \/ /\ ~ full /\ thrown' = thrown /\ req[r].route # "assessor"
            /\ pc' = [pc EXCEPT ![r] = "handle"]
  BY <1>1 DEF Throttle, Throw, Advance
<1>3. TypeOK /\ TypeOK' /\ tries[r] = 0
  BY <1>2 DEF PipelineInv, StageInv
<1>4. \A q \in Requests : LoadInv(q)'
  BY <1>2, <1>3 DEF WindowInv, LoadInv, TypeOK
<1>5. /\ thrown \in [Requests -> Exceptions \cup {None}] /\ hits \in [Counters -> SUBSET Requests]
      /\ hits' \in [Counters -> SUBSET Requests]
  BY <1>3 DEF TypeOK
<1>6. \A q \in Requests : thrown[q] = "Throttled" => thrown'[q] = "Throttled"
  BY <1>2, <1>5
<1>7. \A j \in Counters \ {k} : Cardinality(Admitted(j)') <= limitOf(j[1])
  <2>1. \A j \in Counters \ {k} : Admitted(j)' \subseteq Admitted(j)
    BY <1>2, <1>5, <1>6 DEF Admitted
  <2> QED
    BY <2>1, <1>3, FewerAdmitted
<1>8. Cardinality(Admitted(k)') <= limitOf(k[1])
  <2>1. CASE k \in blocked
    <3>1. Admitted(k)' \subseteq Admitted(k)
      BY <2>1, <1>2, <1>5, <1>6 DEF Admitted
    <3> QED
      BY <3>1, <1>3, FewerAdmitted
  <2>2. CASE k \notin blocked /\ full
    <3>1. thrown'[r] = "Throttled" /\ hits'[k] = hits[k] \cup {r}
      BY <2>2, <1>2, <1>5
    <3>2. Admitted(k)' \subseteq Admitted(k)
      BY <3>1, <1>5, <1>6 DEF Admitted
    <3> QED
      BY <3>2, <1>3, FewerAdmitted
  <2>3. CASE k \notin blocked /\ ~ full
    <3>1. hits'[k] = counted /\ ~ (Cardinality(counted) > limitOf(k[1]))
      BY <2>3, <1>1, <1>2, <1>5
    <3> DEFINE after == Admitted(k)'
    <3>2. after \subseteq counted
      BY <3>1 DEF Admitted
    <3>3. counted \subseteq Requests
      BY <1>5
    <3> HIDE DEF after, counted
    <3>4. IsFiniteSet(counted)
      BY <3>3, FS_Subset, PipelineAssumption
    <3>5. IsFiniteSet(after) /\ Cardinality(after) <= Cardinality(counted)
      BY <3>2, <3>4, FS_Subset
    <3>6. Cardinality(after) \in Nat /\ Cardinality(counted) \in Nat /\ limitOf(k[1]) \in Nat
      BY <3>4, <3>5, FS_CardinalityType, LimitType
    <3> QED
      BY <3>1, <3>5, <3>6 DEF after
  <2> QED
    BY <2>1, <2>2, <2>3
<1>9. \A j \in Counters : Cardinality(Admitted(j)') <= limitOf(j[1])
  BY <1>7, <1>8
<1> QED
  BY <1>4, <1>9 DEF WindowInv, limitOf

\* The other steps count nothing, and none of them takes back that one was throttled.
LEMMA StepWindowInv == PipelineInv /\ PipelineInv' /\ WindowInv /\ [Next]_vars => WindowInv'
<1> SUFFICES ASSUME PipelineInv, PipelineInv', WindowInv, [Next]_vars PROVE WindowInv'
  OBVIOUS
<1>1. TypeOK /\ TypeOK' /\ \A r \in Requests : StageInv(r)
  BY DEF PipelineInv
<1>2. ASSUME \A k \in Counters : hits'[k] \subseteq hits[k],
             \A r \in Requests : thrown[r] = "Throttled" => thrown'[r] = "Throttled",
             \A r \in Requests : LoadInv(r)'
      PROVE  WindowInv'
  <2>1. \A k \in Counters : Admitted(k)' \subseteq Admitted(k)
    BY <1>1, <1>2 DEF Admitted, TypeOK
  <2>2. \A k \in Counters : Cardinality(Admitted(k)') <= limitOf(k[1])
    BY <2>1, <1>1, FewerAdmitted
  <2> QED
    BY <1>2, <2>2 DEF WindowInv, limitOf
<1>3. ASSUME NEW r \in Requests, NEW p \in Profiles[r], Receive(r, p) PROVE WindowInv'
  <2>1. /\ pc[r] = "unsent" /\ hits' = hits /\ tries' = tries
        /\ req' = [req EXCEPT ![r] = p] /\ pc'[r] \in {"catch", "throttle"}
        /\ tries[r] = 0 /\ thrown[r] # "Throttled"
        /\ \A q \in Requests \ {r} : pc'[q] = pc[q] /\ thrown'[q] = thrown[q] /\ req'[q] = req[q]
    BY <1>1, <1>3 DEF Receive, Throw, Advance, TypeOK, StageInv, None
  <2>2. \A q \in Requests : LoadInv(q)'
    BY <2>1, <1>1 DEF WindowInv, LoadInv, TypeOK
  <2> QED
    BY <1>2, <2>1, <2>2
<1>4. ASSUME NEW r \in Requests, Throttle(r) PROVE WindowInv'
  BY <1>4, ThrottleKeepsWindow
<1>5. ASSUME NEW r \in Requests,
             Handle(r) \/ Authenticate(r) \/ Validate(r) \/ Build(r) \/ Return(r)
      PROVE  WindowInv'
  <2>1. UNCHANGED <<req, hits, tries>>
    BY <1>5 DEF Handle, Authenticate, Validate, Build, Return
  <2>2. \A q \in Requests \ {r} : pc'[q] = pc[q] /\ thrown'[q] = thrown[q]
    BY <1>1, <1>5 DEF Handle, Authenticate, Validate, Build, Return, Throw, Advance, Respond, TypeOK
  <2>3. /\ pc[r] \notin {"catch", "answered"} /\ thrown[r] # "Throttled"
        /\ pc'[r] # "authenticate"
        /\ pc'[r] \in {"validate", "template", "send"} =>
              pc[r] \in {"authenticate", "validate", "template"}
    BY <1>1, <1>5 DEF Handle, Authenticate, Validate, Build, Return, Throw, Advance, Respond,
       TypeOK, StageInv, None
  <2>4. thrown'[r] # "Throttled"
    <3>1. CASE Return(r)
      BY <1>1, <2>3, <3>1, ExceptionsDistinct, SameErrors DEF Return, Throw, Respond, TypeOK,
         Send!Pending
    <3>2. CASE Handle(r) \/ Authenticate(r) \/ Validate(r) \/ Build(r)
      BY <1>1, <2>3, <3>2 DEF Handle, Authenticate, Validate, Build, Throw, Advance, Respond,
         TypeOK
    <3> QED
      BY <1>5, <3>1, <3>2
  <2>5. \A q \in Requests : LoadInv(q)'
    BY <2>1, <2>2, <2>3, <2>4 DEF WindowInv, LoadInv
  <2> QED
    BY <1>1, <1>2, <2>1, <2>2, <2>3, <2>5
<1>6. ASSUME NEW r \in Requests, Sending(r) PROVE WindowInv'
  <2>1. /\ UNCHANGED <<pc, req, hits, thrown>> /\ pc[r] = "send" /\ thrown[r] # "Throttled"
        /\ \A q \in Requests \ {r} : tries'[q] = tries[q]
    BY <1>1, <1>6 DEF Sending, Send!Step, Send!Try, Send!Resolve, Send!GiveUp, TypeOK, StageInv, None
  <2>2. \A q \in Requests : LoadInv(q)'
    BY <2>1, <1>1 DEF WindowInv, LoadInv, TypeOK
  <2> QED
    BY <1>2, <2>1, <2>2
<1>7. ASSUME NEW r \in Requests, Catch(r) PROVE WindowInv'
  <2>1. /\ UNCHANGED <<req, hits, tries, thrown>> /\ pc'[r] = "answered"
        /\ \A q \in Requests \ {r} : pc'[q] = pc[q]
    BY <1>1, <1>7 DEF Catch, TypeOK
  <2>2. \A q \in Requests : LoadInv(q)'
    BY <2>1, <1>1 DEF WindowInv, LoadInv, TypeOK
  <2> QED
    BY <1>2, <2>1, <2>2
<1>8. ASSUME NEW k \in Counters, Expire(k) \/ Unblock(k) PROVE WindowInv'
  <2>1. /\ UNCHANGED <<pc, req, tries, thrown>>
        /\ \A j \in Counters : hits'[j] \subseteq hits[j]
    BY <1>1, <1>8 DEF Expire, Unblock, TypeOK
  <2>2. \A q \in Requests : LoadInv(q)'
    BY <2>1 DEF WindowInv, LoadInv
  <2> QED
    BY <1>2, <2>1, <2>2
<1>9. CASE UNCHANGED vars
  BY <1>2, <1>9 DEF vars, WindowInv, LoadInv
<1> QED
  BY <1>3, <1>4, <1>5, <1>6, <1>7, <1>8, <1>9 DEF Next, Step

\* Requests whose attempts all fall to one counter of the assessor make no more than its
\* limit times the tries of one request.
LEMMA CounterBoundsAttempts ==
    ASSUME PipelineInv, WindowInv, NEW S \in SUBSET Requests, NEW t,
           \A r \in S : tries[r] > 0 => counter(req[r]) = <<"assessor", t>>
    PROVE  Cardinality(attempts(S)) <= AssessorLimit * (MaxRetries + 1)
<1>1. AssessorLimit \in Nat /\ MaxRetries \in Nat
  BY PipelineAssumption DEF AssessorLimit
<1>2. CASE attempts(S) = {}
  BY <1>1, <1>2, FS_EmptySet
<1>3. CASE attempts(S) # {}
  <2> DEFINE k == <<"assessor", t>>
             tried == 1..(MaxRetries + 1)
             most == Admitted(k) \X tried
  <2>1. ASSUME NEW x \in attempts(S)
        PROVE  /\ x[1] \in Requests /\ x[2] \in tried /\ x = <<x[1], x[2]>>
               /\ k \in Counters /\ x[1] \in Admitted(k)
    <3>1. /\ x \in S \X tried /\ x[2] <= tries[x[1]]
          /\ \E j \in Counters : x[1] \in hits[j]
      BY <2>1 DEF attempts
    <3>2. PICK r \in Requests : r = x[1] /\ r \in S
      BY <3>1
    <3>3. tries[r] \in Nat /\ tries[r] > 0
      BY <1>1, <3>1, <3>2 DEF PipelineInv, TypeOK
    <3>4. thrown[r] # "Throttled" /\ counter(req[r]) = k
      BY <3>2, <3>3 DEF WindowInv, LoadInv
    <3>5. PICK j \in Counters : r \in hits[j]
      BY <3>1, <3>2
    <3>6. counter(req[r]) = j
      BY <3>5 DEF PipelineInv, CounterInv, Own
    <3> QED
      BY <3>1, <3>2, <3>4, <3>5, <3>6 DEF Admitted
  <2>2. k \in Counters
    BY <1>3, <2>1
  <2>3. IsFiniteSet(Admitted(k)) /\ Cardinality(Admitted(k)) <= AssessorLimit
    BY <2>2, AdmittedIsFinite DEF PipelineInv, WindowInv, limitOf
  <2>4. IsFiniteSet(tried) /\ Cardinality(tried) = MaxRetries + 1
    BY <1>1, FS_Interval
  <2>5. IsFiniteSet(most) /\ Cardinality(most) = Cardinality(Admitted(k)) * Cardinality(tried)
    BY <2>3, <2>4, FS_Product
  <2>6. attempts(S) \subseteq most
    BY <2>1
  <2>7. /\ Cardinality(attempts(S)) <= Cardinality(most)
        /\ Cardinality(attempts(S)) \in Nat /\ Cardinality(most) \in Nat
        /\ Cardinality(Admitted(k)) \in Nat
    BY <2>3, <2>5, <2>6, FS_Subset, FS_CardinalityType
  <2>8. \A m, n, b \in Nat : m <= n => m * (b + 1) <= n * (b + 1)
    OBVIOUS
  <2>9. Cardinality(Admitted(k)) * (MaxRetries + 1) <= AssessorLimit * (MaxRetries + 1)
    BY <1>1, <2>3, <2>7, <2>8
  <2>10. Cardinality(most) = Cardinality(Admitted(k)) * (MaxRetries + 1)
    BY <2>4, <2>5
  <2> HIDE DEF most
  <2>11. /\ Cardinality(Admitted(k)) * (MaxRetries + 1) \in Nat
         /\ AssessorLimit * (MaxRetries + 1) \in Nat
    BY <1>1, <2>7
  <2> QED
    BY <2>7, <2>9, <2>10, <2>11
<1> QED
  BY <1>2, <1>3

\* Whatever the keys, the limits and the number of requests: one key in the header, or one
\* address that sends keys without a header, costs the provider no more attempts in a
\* window than the limit of the assessor times the tries of one request.
THEOREM LoadIsBounded == Spec => []ProviderLoadIsBounded
<1>1. PipelineInv /\ WindowInv => ProviderLoadIsBounded
  <2> SUFFICES ASSUME PipelineInv, WindowInv PROVE ProviderLoadIsBounded
    OBVIOUS
  <2>1. ASSUME NEW r \in Requests, tries[r] > 0
        PROVE  /\ req[r].route = "assessor" /\ req[r].scheme \in {"none", "Bearer"}
               /\ req[r].scheme = "none" <=> req[r].token = NoToken
    <3>1. pc[r] # "unsent" /\ authenticates(req[r]) /\ req[r].route = "assessor"
      BY <2>1 DEF PipelineInv, StageInv, WindowInv, LoadInv, Good
    <3>2. req[r] \in Profiles[r]
      BY <3>1 DEF PipelineInv, StageInv
    <3> QED
      BY <3>1, <3>2, PipelineAssumption DEF authenticates
  <2>2. ASSUME NEW t \in ApiKeys
        PROVE  Cardinality(attempts({r \in Requests : req[r].token = t}))
                  <= AssessorLimit * (MaxRetries + 1)
    <3> DEFINE S == {r \in Requests : req[r].token = t}
    <3>1. ASSUME NEW r \in S, tries[r] > 0 PROVE counter(req[r]) = <<"assessor", t>>
      BY <2>1, <2>2, <3>1, PipelineAssumption DEF counter, getTracker
    <3> QED
      BY <3>1, CounterBoundsAttempts
  <2>3. ASSUME NEW a \in Addresses
        PROVE  Cardinality(attempts({r \in Requests : req[r].scheme = "none" /\ req[r].ip = a}))
                  <= AssessorLimit * (MaxRetries + 1)
    <3> DEFINE S == {r \in Requests : req[r].scheme = "none" /\ req[r].ip = a}
    <3>1. ASSUME NEW r \in S, tries[r] > 0 PROVE counter(req[r]) = <<"assessor", a>>
      BY <2>1, <3>1 DEF counter, getTracker
    <3> QED
      BY <3>1, CounterBoundsAttempts
  <2> QED
    BY <2>2, <2>3 DEF ProviderLoadIsBounded
<1>2. Init => PipelineInv /\ WindowInv
  BY InitPipelineInv, InitWindowInv
<1>3. (PipelineInv /\ WindowInv) /\ [Next]_vars => (PipelineInv /\ WindowInv)'
  BY StepPipelineInv, StepWindowInv
<1> QED
  BY <1>1, <1>2, <1>3, PTL DEF Spec

-----------------------------------------------------------------------------
(* The contracts of the components that a request passes.                   *)

LEMMA LimitsAre == \A k \in Counters : limits[k] = limitOf(k[1]) /\ limits[k] \in Nat
  BY PipelineAssumption DEF limits, limitOf, AssessorLimit

\* Only the throttler's own steps touch the counters.
LEMMA CountersUntouched ==
    ASSUME UNCHANGED <<hits, blocked>>
    PROVE  UNCHANGED <<limits, counts, blocked>>
  BY DEF limits, counts

LEMMA ThrottleRefines ==
    ASSUME PipelineInv, NEW r \in Requests, Throttle(r)
    PROVE  Throttling!Next \/ UNCHANGED <<limits, counts, blocked>>
<1>1. PICK k \in Counters : k = counter(req[r]) /\ k[1] = req[r].route
  BY CounterType DEF PipelineInv, StageInv, Throttle
<1> DEFINE counted == IF k \in blocked THEN hits[k] ELSE hits[k] \cup {r}
           full == k \in blocked \/ Cardinality(counted) > limitOf(req[r].route)
<1>2. /\ hits' = [hits EXCEPT ![k] = counted]
      /\ blocked' = IF full THEN blocked \cup {k} ELSE blocked
      /\ pc[r] = "throttle"
  BY <1>1 DEF Throttle
<1>3. /\ hits \in [Counters -> SUBSET Requests] /\ r \notin hits[k] /\ limits' = limits
  BY <1>1, <1>2 DEF PipelineInv, TypeOK, CounterInv, Own, Passed, limits
<1>4. IsFiniteSet(hits[k]) /\ Cardinality(hits[k]) \in Nat
  BY <1>3, PipelineAssumption, FS_Subset, FS_CardinalityType
<1>5. CASE k \in blocked
  <2>1. hits' = hits /\ blocked' = blocked
    BY <1>2, <1>3, <1>5
  <2> QED
    BY <2>1, CountersUntouched
<1>6. CASE k \notin blocked
  <2>1. Cardinality(counted) = Cardinality(hits[k]) + 1
    BY <1>3, <1>4, <1>6, FS_AddElement
  <2>2. counts' = [counts EXCEPT ![k] = counts[k] + 1]
    BY <1>2, <1>3, <2>1 DEF counts
  <2>3. counts[k] = Cardinality(hits[k]) /\ limits[k] = limitOf(req[r].route) /\ limits[k] \in Nat
    BY <1>1, LimitsAre DEF counts
  <2>4. full <=> counts[k] >= limits[k]
    BY <1>4, <1>6, <2>1, <2>3
  <2> HIDE DEF full
  <2>5. CASE full
    <3>1. Throttling!Refuse(k)
      BY <1>2, <1>3, <1>6, <2>2, <2>4, <2>5 DEF Throttling!Refuse
    <3> QED
      BY <3>1 DEF Throttling!Next
  <2>6. CASE ~ full
    <3>1. counts[k] < limits[k]
      BY <1>4, <2>3, <2>4, <2>6
    <3>2. Throttling!Admit(k)
      BY <1>2, <1>3, <1>6, <2>2, <2>6, <3>1 DEF Throttling!Admit
    <3> QED
      BY <3>2 DEF Throttling!Next
  <2> QED
    BY <2>5, <2>6
<1> QED
  BY <1>5, <1>6

LEMMA ExpireRefines ==
    ASSUME PipelineInv, NEW k \in Counters, Expire(k)
    PROVE  Throttling!Forget(k)
<1>1. PICK r \in hits[k] : hits' = [hits EXCEPT ![k] = hits[k] \ {r}]
  BY DEF Expire
<1>2. hits \in [Counters -> SUBSET Requests] /\ blocked' = blocked /\ limits' = limits
  BY DEF PipelineInv, TypeOK, Expire, limits
<1>3. IsFiniteSet(hits[k])
  BY <1>2, PipelineAssumption, FS_Subset
<1>4. Cardinality(hits[k] \ {r}) = Cardinality(hits[k]) - 1 /\ Cardinality(hits[k]) \in Nat
      /\ Cardinality(hits[k] \ {r}) \in Nat
  BY <1>3, FS_RemoveElement, FS_CardinalityType
<1>5. counts[k] = Cardinality(hits[k]) /\ counts[k] > 0
  BY <1>4 DEF counts
<1>6. counts'[k] = counts[k] - 1
  BY <1>1, <1>2, <1>4 DEF counts
<1>7. \A j \in Counters \ {k} : counts'[j] = counts[j]
  BY <1>1, <1>2 DEF counts
<1>8. counts' = [counts EXCEPT ![k] = counts[k] - 1]
  BY <1>6, <1>7 DEF counts
<1> QED
  BY <1>2, <1>5, <1>8 DEF Throttling!Forget

LEMMA UnblockRefines ==
    ASSUME PipelineInv, NEW k \in Counters, Unblock(k)
    PROVE  Throttling!Release({k})
<1>1. /\ k \in blocked /\ blocked' = blocked \ {k} /\ hits' = [hits EXCEPT ![k] = {}]
      /\ limits' = limits
  BY DEF Unblock, limits
<1>2. hits \in [Counters -> SUBSET Requests]
  BY DEF PipelineInv, TypeOK
<1>3. counts' = [j \in Counters |-> IF j \in {k} THEN 0 ELSE counts[j]]
  BY <1>1, <1>2, FS_EmptySet DEF counts
<1> QED
  BY <1>1, <1>3 DEF Throttling!Release

\* A step of the pipeline is a step of the throttler's contract or leaves it alone.
LEMMA StepThrottles ==
    PipelineInv /\ [Next]_vars => [Throttling!Next]_(Throttling!throttleVars)
<1> SUFFICES ASSUME PipelineInv, [Next]_vars
             PROVE  Throttling!Next \/ UNCHANGED <<limits, counts, blocked>>
  BY DEF Throttling!throttleVars
<1>1. ASSUME NEW r \in Requests, NEW p \in Profiles[r], Receive(r, p)
      PROVE  UNCHANGED <<limits, counts, blocked>>
  BY <1>1, CountersUntouched DEF Receive
<1>2. ASSUME NEW r \in Requests,
             Handle(r) \/ Authenticate(r) \/ Validate(r) \/ Build(r) \/ Sending(r) \/ Return(r)
                \/ Catch(r)
      PROVE  UNCHANGED <<limits, counts, blocked>>
  BY <1>2, CountersUntouched DEF Handle, Authenticate, Validate, Build, Sending, Return, Catch
<1>3. ASSUME NEW k \in Counters, Expire(k) \/ Unblock(k) PROVE Throttling!Next
  BY <1>3, ExpireRefines, UnblockRefines DEF Throttling!Next
<1>4. CASE UNCHANGED vars
  BY <1>4, CountersUntouched DEF vars
<1> QED
  BY <1>1, <1>2, <1>3, <1>4, ThrottleRefines DEF Next, Step

\* The requests of any number of clients, in any order, use the throttler by its
\* contract: the same one that Throttler implements with its clock and timers.
THEOREM CountersKeepContract == Spec => ThrottlesByContract
<1>1. Init => Throttling!Init
  BY LimitsAre, FS_EmptySet DEF Init, Throttling!Init, limits, counts
<1> QED
  BY <1>1, StepThrottles, PipelineInvariant, PTL DEF Spec, ThrottlesByContract, Throttling!Spec

\* And what they ask of send() is within its contract, which LlmSend implements.
THEOREM SendsByContract == Spec => Send!Safety
<1>1. [Next]_vars => [Send!Next]_(Send!cvars)
  <2> SUFFICES ASSUME [Next]_vars PROVE Send!Next \/ UNCHANGED <<tries, result>>
    BY DEF Send!cvars
  <2> QED
    BY DEF Next, Step, vars, Receive, Throttle, Expire, Unblock, Handle, Authenticate, Validate,
       Build, Sending, Return, Catch, Send!Next
<1> QED
  BY <1>1, PTL DEF Spec, Init, Send!Safety

-----------------------------------------------------------------------------
\* A 429 tells when to try again unless it passes on a rate limit of the provider: those
\* of the throttler itself always do.
OnlyTheProvidersAreSilent ==
    \A r \in Requests :
        (reply[r].status = 429 /\ ~ reply[r].retryAfter) =>
            thrown[r] = "RateLimitError" /\ result[r] = thrown[r]

THEOREM ThrottledSaysWhen == Spec => []OnlyTheProvidersAreSilent
<1>1. PipelineInv => OnlyTheProvidersAreSilent
  <2> SUFFICES ASSUME PipelineInv, NEW r \in Requests,
                      reply[r].status = 429, ~ reply[r].retryAfter
               PROVE  thrown[r] = "RateLimitError" /\ result[r] = thrown[r]
    BY DEF OnlyTheProvidersAreSilent
  <2>1. TypeOK /\ StageInv(r) /\ CauseInv(r)
    BY DEF PipelineInv
  <2>2. pc[r] = "answered"
    BY <2>1 DEF StageInv, NoReply
  <2>3. thrown[r] # None /\ status(thrown[r]) = 429 /\ ~ (thrown[r] = "Throttled")
    BY <2>1, <2>2 DEF CauseInv
  <2>4. thrown[r] \in Exceptions
    BY <2>1, <2>3 DEF TypeOK
  <2>5. thrown[r] \in LlmErrorNames
    BY <2>3, <2>4, StatusTable DEF Exceptions
  <2>6. thrown[r] = "RateLimitError"
    BY <2>3, <2>5, LlmStatusTable
  <2>7. result[r] = thrown[r]
    BY <2>1, <2>5 DEF CauseInv
  <2> QED
    BY <2>6, <2>7
<1> QED
  BY <1>1, PipelineInvariant, PTL
-----------------------------------------------------------------------------
(* How far a request is from its reply.                                     *)

\* The attempts and the outcome a request may still ask of send().
SendLeft(r) == IF result[r] = Send!Pending THEN MaxRetries + 2 - tries[r] ELSE 0

\* The stages, last ones first; each throw leads to the filter, which is one.
StepsLeft(r) ==
    CASE pc[r] = "answered"     -> 0
      [] pc[r] = "catch"        -> 1
      [] pc[r] = "handle"       -> 1
      [] pc[r] = "send"         -> SendLeft(r) + 2
      [] pc[r] = "template"     -> MaxRetries + 5
      [] pc[r] = "validate"     -> MaxRetries + 6
      [] pc[r] = "authenticate" -> MaxRetries + 7
      [] pc[r] = "throttle"     -> MaxRetries + 8
      [] pc[r] = "unsent"       -> MaxRetries + 9

StepsBounded ==
    \A r \in Requests :
        /\ StepsLeft(r) \in 0..(MaxRetries + 9)
        /\ StepsLeft(r) = 0 <=> pc[r] = "answered"

Progresses(r) == Step(r) \/ \E p \in Profiles[r] : Receive(r, p)

\* Every step of a request brings it closer to its reply, and no other request, no timer
\* of the throttler and no end of a block takes it further away.
NothingSetsBack ==
    \A r \in Requests :
        /\ StepsLeft(r)' <= StepsLeft(r)
        /\ Progresses(r) => StepsLeft(r)' < StepsLeft(r)

\* Once a request is answered nothing is done for it any more: no attempt is made, and
\* no second reply is sent.
AnswersAreFinal ==
    \A r \in Requests :
        pc[r] = "answered" =>
            /\ pc'[r] = "answered" /\ reply'[r] = reply[r]
            /\ tries'[r] = tries[r] /\ result'[r] = result[r] /\ thrown'[r] = thrown[r]

LEMMA SendLeftType ==
    ASSUME PipelineInv, NEW r \in Requests
    PROVE  SendLeft(r) \in 0..(MaxRetries + 2)
           /\ (pc[r] \notin {"send", "catch", "answered"} => SendLeft(r) = MaxRetries + 2)
<1>1. TypeOK /\ StageInv(r)
  BY DEF PipelineInv
<1> QED
  BY <1>1, PipelineAssumption DEF SendLeft, TypeOK, StageInv

LEMMA BoundedSteps == PipelineInv => StepsBounded
<1> SUFFICES ASSUME PipelineInv, NEW r \in Requests
             PROVE  /\ StepsLeft(r) \in 0..(MaxRetries + 9)
                    /\ StepsLeft(r) = 0 <=> pc[r] = "answered"
  BY DEF StepsBounded
<1>1. pc[r] \in {"unsent", "throttle", "handle", "authenticate", "validate", "template",
                 "send", "catch", "answered"}
  BY DEF PipelineInv, TypeOK
<1>2. SendLeft(r) \in 0..(MaxRetries + 2) /\ MaxRetries \in Nat
  BY SendLeftType, PipelineAssumption
<1>3. /\ pc[r] = "answered" => StepsLeft(r) = 0
      /\ pc[r] \in {"catch", "handle"} => StepsLeft(r) = 1
      /\ pc[r] = "send" => StepsLeft(r) = SendLeft(r) + 2
      /\ pc[r] = "template" => StepsLeft(r) = MaxRetries + 5
      /\ pc[r] = "validate" => StepsLeft(r) = MaxRetries + 6
      /\ pc[r] = "authenticate" => StepsLeft(r) = MaxRetries + 7
      /\ pc[r] = "throttle" => StepsLeft(r) = MaxRetries + 8
      /\ pc[r] = "unsent" => StepsLeft(r) = MaxRetries + 9
  BY DEF StepsLeft
<1>4. StepsLeft(r) \in 0..(MaxRetries + 9)
  BY <1>1, <1>2, <1>3
<1>5. pc[r] # "answered" => StepsLeft(r) > 0
  BY <1>1, <1>2, <1>3
<1> QED
  BY <1>3, <1>4, <1>5

\* An attempt uses up one of those that are left, an outcome all of them.
LEMMA SendingProgresses ==
    ASSUME PipelineInv, NEW r \in Requests, Sending(r)
    PROVE  pc'[r] = "send" /\ SendLeft(r)' < SendLeft(r)
<1>1. /\ TypeOK /\ pc[r] = "send" /\ pc' = pc /\ MaxRetries \in Nat /\ tries[r] \in Nat
      /\ tries[r] <= MaxRetries + 1
  BY PipelineAssumption DEF Sending, PipelineInv, TypeOK
<1>2. result[r] = Send!Pending
  BY DEF Sending, Send!Step, Send!Try, Send!Resolve, Send!GiveUp
<1>3. SendLeft(r) = MaxRetries + 2 - tries[r]
  BY <1>2 DEF SendLeft
<1>4. CASE Send!Try(r)
  BY <1>1, <1>2, <1>3, <1>4 DEF Send!Try, SendLeft, TypeOK
<1>5. CASE Send!Resolve(r)
  <2>1. result'[r] # Send!Pending
    BY <1>1, <1>5 DEF Send!Resolve, Send!Pending, TypeOK
  <2> QED
    BY <1>1, <1>3, <2>1 DEF SendLeft
<1>6. CASE Send!GiveUp(r)
  <2>1. result'[r] \in LlmErrorNames
    BY <1>1, <1>6, SameErrors DEF Send!GiveUp, TypeOK
  <2>2. result'[r] # Send!Pending
    BY <2>1, ExceptionsDistinct DEF Send!Pending
  <2> QED
    BY <1>1, <1>3, <2>2 DEF SendLeft
<1> QED
  BY <1>1, <1>4, <1>5, <1>6 DEF Sending, Send!Step

\* What a step of a request does to the request itself.
LEMMA OwnStepProgresses ==
    ASSUME PipelineInv, NEW r \in Requests, Progresses(r)
    PROVE  StepsLeft(r)' < StepsLeft(r)
<1>1. TypeOK /\ MaxRetries \in Nat /\ SendLeft(r) \in 0..(MaxRetries + 2)
  BY SendLeftType, PipelineAssumption DEF PipelineInv
<1>2. /\ pc'[r] = "answered" => StepsLeft(r)' = 0
      /\ pc'[r] = "catch" => StepsLeft(r)' = 1
      /\ pc'[r] = "handle" => StepsLeft(r)' = 1
      /\ pc'[r] = "send" => StepsLeft(r)' = SendLeft(r)' + 2
      /\ pc'[r] = "template" => StepsLeft(r)' = MaxRetries + 5
      /\ pc'[r] = "validate" => StepsLeft(r)' = MaxRetries + 6
      /\ pc'[r] = "authenticate" => StepsLeft(r)' = MaxRetries + 7
      /\ pc'[r] = "throttle" => StepsLeft(r)' = MaxRetries + 8
  BY DEF StepsLeft
<1>3. ASSUME NEW p \in Profiles[r], Receive(r, p) PROVE StepsLeft(r)' < StepsLeft(r)
  <2>1. pc[r] = "unsent" /\ pc'[r] \in {"catch", "throttle"}
    BY <1>1, <1>3 DEF Receive, Throw, Advance, TypeOK
  <2> QED
    BY <1>1, <1>2, <2>1 DEF StepsLeft
<1>4. CASE Throttle(r)
  <2>1. pc[r] = "throttle" /\ pc'[r] \in {"catch", "authenticate", "handle"}
    BY <1>1, <1>4 DEF Throttle, Throw, Advance, TypeOK
  <2> QED
    BY <1>1, <1>2, <2>1 DEF StepsLeft
<1>5. CASE Handle(r)
  <2>1. pc[r] = "handle" /\ pc'[r] = "answered"
    BY <1>1, <1>5 DEF Handle, Respond, TypeOK
  <2> QED
    BY <1>1, <1>2, <2>1 DEF StepsLeft
<1>6. CASE Authenticate(r)
  <2>1. pc[r] = "authenticate" /\ pc'[r] \in {"catch", "validate"}
    BY <1>1, <1>6 DEF Authenticate, Throw, Advance, TypeOK
  <2> QED
    BY <1>1, <1>2, <2>1 DEF StepsLeft
<1>7. CASE Validate(r)
  <2>1. pc[r] = "validate" /\ pc'[r] \in {"catch", "template"}
    BY <1>1, <1>7 DEF Validate, Throw, Advance, TypeOK
  <2> QED
    BY <1>1, <1>2, <2>1 DEF StepsLeft
<1>8. CASE Build(r)
  <2>1. pc[r] = "template" /\ pc'[r] \in {"catch", "send"}
    BY <1>1, <1>8 DEF Build, Throw, Advance, TypeOK
  <2>2. SendLeft(r)' = SendLeft(r)
    BY <1>8 DEF Build, SendLeft
  <2> QED
    BY <1>1, <1>2, <2>1, <2>2 DEF StepsLeft
<1>9. CASE Sending(r)
  <2>1. pc[r] = "send" /\ pc'[r] = "send" /\ SendLeft(r)' < SendLeft(r)
    BY <1>9, SendingProgresses DEF Sending
  <2>2. SendLeft(r)' \in Int
    BY <1>1, <1>9, PipelineAssumption
       DEF Sending, Send!Step, Send!Try, Send!Resolve, Send!GiveUp, SendLeft, TypeOK
  <2> QED
    BY <1>1, <1>2, <2>1, <2>2 DEF StepsLeft
<1>10. CASE Return(r)
  <2>1. pc[r] = "send" /\ pc'[r] \in {"catch", "answered"}
    BY <1>1, <1>10 DEF Return, Throw, Respond, TypeOK
  <2> QED
    BY <1>1, <1>2, <2>1 DEF StepsLeft
<1>11. CASE Catch(r)
  <2>1. pc[r] = "catch" /\ pc'[r] = "answered"
    BY <1>1, <1>11 DEF Catch, TypeOK
  <2> QED
    BY <1>1, <1>2, <2>1 DEF StepsLeft
<1> QED
  BY <1>3, <1>4, <1>5, <1>6, <1>7, <1>8, <1>9, <1>10, <1>11 DEF Progresses, Step

\* What the steps of others leave alone.
LEMMA OthersAreLeftAlone ==
    ASSUME PipelineInv, NEW r \in Requests, [Next]_vars, ~ Progresses(r)
    PROVE  /\ pc'[r] = pc[r] /\ tries'[r] = tries[r] /\ result'[r] = result[r]
           /\ thrown'[r] = thrown[r] /\ reply'[r] = reply[r]
<1>1. TypeOK
  BY DEF PipelineInv
<1>2. ASSUME NEW q \in Requests, q # r, NEW p \in Profiles[q], Receive(q, p)
      PROVE  /\ pc'[r] = pc[r] /\ UNCHANGED <<tries, result, reply>> /\ thrown'[r] = thrown[r]
  BY <1>1, <1>2 DEF Receive, Throw, Advance, TypeOK
<1>3. ASSUME NEW q \in Requests, q # r, Throttle(q)
      PROVE  /\ pc'[r] = pc[r] /\ UNCHANGED <<tries, result, reply>> /\ thrown'[r] = thrown[r]
  BY <1>1, <1>3 DEF Throttle, Throw, Advance, TypeOK
<1>4. ASSUME NEW q \in Requests, q # r, Handle(q) \/ Catch(q)
      PROVE  pc'[r] = pc[r] /\ UNCHANGED <<tries, result, thrown>> /\ reply'[r] = reply[r]
  BY <1>1, <1>4 DEF Handle, Catch, Respond, TypeOK
<1>5. ASSUME NEW q \in Requests, q # r, Authenticate(q) \/ Validate(q) \/ Build(q)
      PROVE  /\ pc'[r] = pc[r] /\ UNCHANGED <<tries, result, reply>> /\ thrown'[r] = thrown[r]
  BY <1>1, <1>5 DEF Authenticate, Validate, Build, Throw, Advance, TypeOK
<1>6. ASSUME NEW q \in Requests, q # r, Sending(q)
      PROVE  UNCHANGED <<pc, thrown, reply>> /\ tries'[r] = tries[r] /\ result'[r] = result[r]
  BY <1>1, <1>6 DEF Sending, Send!Step, Send!Try, Send!Resolve, Send!GiveUp, TypeOK
<1>7. ASSUME NEW q \in Requests, q # r, Return(q)
      PROVE  /\ pc'[r] = pc[r] /\ UNCHANGED <<tries, result>>
             /\ thrown'[r] = thrown[r] /\ reply'[r] = reply[r]
  BY <1>1, <1>7 DEF Return, Throw, Respond, TypeOK
<1>8. ASSUME NEW k \in Counters, Expire(k) \/ Unblock(k)
      PROVE  UNCHANGED <<pc, tries, result, thrown, reply>>
  BY <1>8 DEF Expire, Unblock
<1>9. CASE UNCHANGED vars
  BY <1>9 DEF vars
<1> QED
  BY <1>2, <1>3, <1>4, <1>5, <1>6, <1>7, <1>8, <1>9 DEF Next, Step, Progresses

\* A request takes at most MaxRetries + 9 steps from its arrival to its reply, whatever
\* it runs into and whatever the others do.
THEOREM RequestsAreBounded == Spec => []StepsBounded /\ [][NothingSetsBack]_vars
<1>1. PipelineInv' => StepsBounded'
  BY BoundedSteps, PTL
<1>2. ASSUME PipelineInv, PipelineInv', [Next]_vars PROVE [NothingSetsBack]_vars
  <2> SUFFICES ASSUME NEW r \in Requests
               PROVE  /\ StepsLeft(r)' <= StepsLeft(r)
                      /\ Progresses(r) => StepsLeft(r)' < StepsLeft(r)
    BY DEF NothingSetsBack
  <2>1. StepsLeft(r) \in Int /\ StepsLeft(r)' \in Int
    BY <1>1, <1>2, BoundedSteps, PipelineAssumption DEF StepsBounded
  <2>2. CASE Progresses(r)
    BY <1>2, <2>1, <2>2, OwnStepProgresses
  <2>3. CASE ~ Progresses(r)
    <3>1. pc'[r] = pc[r] /\ tries'[r] = tries[r] /\ result'[r] = result[r]
      BY <1>2, <2>3, OthersAreLeftAlone
    <3>2. StepsLeft(r)' = StepsLeft(r)
      BY <3>1 DEF StepsLeft, SendLeft
    <3> QED
      BY <2>1, <2>3, <3>2
  <2> QED
    BY <2>2, <2>3
<1> QED
  BY BoundedSteps, <1>2, PipelineInvariant, PTL DEF Spec

\* The reply to a request is its last step: nobody is answered twice, and no provider is
\* contacted for who was answered already.
THEOREM RepliesAreFinal == Spec => [][AnswersAreFinal]_vars
<1>1. PipelineInv' => StepsBounded'
  BY BoundedSteps, PTL
<1>2. ASSUME PipelineInv, PipelineInv', [Next]_vars PROVE [AnswersAreFinal]_vars
  <2> SUFFICES ASSUME NEW r \in Requests, pc[r] = "answered"
               PROVE  /\ pc'[r] = "answered" /\ reply'[r] = reply[r]
                      /\ tries'[r] = tries[r] /\ result'[r] = result[r]
                      /\ thrown'[r] = thrown[r]
    BY DEF AnswersAreFinal
  <2>1. StepsLeft(r) = 0 /\ StepsLeft(r)' \in Nat
    BY <1>1, <1>2, BoundedSteps DEF StepsBounded
  <2>2. ~ Progresses(r)
    BY <1>2, <2>1, OwnStepProgresses
  <2> QED
    BY <1>2, <2>2, OthersAreLeftAlone
<1> QED
  BY <1>2, PipelineInvariant, PTL DEF Spec
================================================================================
