# TLA+ models of the AssessmentBot LLM service

This directory holds TLA+ models of the service under `src/` (a NestJS server
that turns assessment requests into LLM calls), the TLC configurations that
check them on small instances, and TLAPS proofs of the main safety properties
for every instance of them. `PROJECT.json` lists, for each definition, the source lines
it stands for; for each property, a plausible bug that breaks it; and the hazards
of the code with the properties aimed at each.

Paths below are relative to `src/src/` unless they start with `src/` or `docs/`.

## 1. Inventory

| Component | State | Operations | Interacts with | Hard behaviour | What makes it correct |
| --- | --- | --- | --- | --- | --- |
| Retry loop, `llm/llm.service.interface.ts` | per call: loop counter, `classifiedError`, delay | `send`, `classifyError`, `waitBeforeRetry` | provider SDK (awaits), `mapError`, timers, config | concurrent calls, failures that change from attempt to attempt, timer limits | attempts within budget; the call's own first failure decides; transient failures retried, permanent ones not; backoff honoured; settles |
| Error classes, `common/errors/` | none | status and `retryable` of each class | retry loop, exception filter | none | the table |
| Error mapper, `llm/llm-error-mapper.ts` with the probes in `gemini.service.ts`, `mistral.service.ts` | none | `normaliseStatusCode`, `probeStatusCode`, `classifyLlmError`, `mapError` | retry loop | order of rules, zero and string statuses, two providers with different probes | no upstream 4xx becomes a 500; quota never retried; only transient errors retried |
| Providers, `gemini.service.ts`, `mistral.service.ts` | cached SDK client | `_sendInternal`, payload to SDK request, SDK result to response | router, SDK, JSON parser | client built lazily at the first request; five shapes of payload, four families of models, chunked answers | the key is there when it is needed; nothing of a payload is lost, reordered or said by somebody else; the model and effort are the server's |
| Prompts, `prompt/`, `common/file-utilities.ts` | `templateCache`, shared | `create`, `buildMessage`, `readMarkdown` | file system | concurrent misses, faults half way, two candidate directories | right templates; failures stay local; a warm cache needs no disk |
| Startup, `main.ts`, `bootstrap.ts`, `config/`, `llm/model-registry.ts`, `llm/routing-llm.service.ts` | `process.env`, `ConfigService.config`, resolved routes, throttler constants | load `.env`, import, validate, resolve, route | operator, shell, all of the above | order of import and load; `.env` read twice; stale values | a listening process can serve every payload, by one route |
| Images, `common/pipes/image-validation.pipe.ts`, `prompt/image.prompt.ts`, `llm/multi-part-prompt.schema.ts` | none | validate, extract, schema | controller, prompts | three examinations that must agree at the size limit | a client mistake is never a server error; only validated images leave, under the right label |
| Assessor endpoint, `v1/assessor/` | none | `create`, `createAssessment` | guards, pipes, prompts, `send` | everything is awaited in sequence, many requests at once | nothing is done for a rejected request; the reply is what `send` settled with |
| Authentication, `auth/api-key*.ts` | the key set | `validate` | passport, throttler (same header) | three readers of one header, two other places for a key | only configured keys get in |
| Throttling, `auth/api-key-throttler.guard.ts`, `config/throttler.config.ts`, `app.module.ts` | counters per handler and tracker, settings read at import | import, count, block, expire | all requests, before authentication | shared counters, windows over time, blocks, late timers, limits of 0 | who sends an API key in the header pays for nobody else; no window admits more than its limit; nobody is shut out for good; the load on the provider is bounded |
| Exception filter, `common/http-exception.filter.ts` | none | `catch` | everything that throws | errors far from their reply | the status tells whose fault it was; production tells no internals |
| JSON repair, `common/json-parser.utility.ts` | none | `parse`, then validation of what it returned | providers | brace scan with strings and escapes, answers in chunks, cut-off answers | exactly the object is taken; what is returned is the first assessment in it, or an error |
| Status endpoints, `status/` | none | `getHello`, `getHealth`, `testError` | throttler | share the throttler | answer without a key |
| E2E harness, `src/test/utils/`, `src/vitest.e2e.setup.ts` | child processes, their log files, one port | `startApp`, `checkLog`, `stopApp`, `killLingeringTestApps` | operating system, the application | processes that die early, late or not at all; signals not waited for; one log and port for many sessions | a start is taken for its own application's; the port is free; the suite ends |
| Logging and redaction, DI modules, key generator | | | | | not modelled, see section 8 |

A request runs: body parser, throttler guard (global), API key guard, `create()`
(schema, images), `createAssessment()` (prompt templates, payload), router,
`send()` of a provider, reply; whatever is thrown on the way ends in the
exception filter. Requests share the throttler's counters, the template cache
and the services; the code between two `await`s runs without interruption.

## 2. Modules

| Module | Models | Extends / instantiates |
| --- | --- | --- |
| `LlmErrors` | the nine error classes: status, retryability | |
| `SendContract` | abstract: what a caller of `send()` may rely on | `LlmErrors` |
| `LlmSend` | `send()`, any number of concurrent calls, a clock and timers | `LlmErrors`; refines `SendContract` |
| `LlmErrorMapper` | probes of both providers, the rules of `classifyLlmError`, `classifyError` | `LlmErrors` |
| `PromptTemplates` | template reads through the shared cache | |
| `Startup` | `.env` to served request: configuration, API keys, registry, router, clients | |
| `ImageRequest` | an image request through pipe, prompt and schema | |
| `RequestPipeline` | a request from body parser to reply, sharing the throttler | `LlmErrors`; instantiates `SendContract` for `send()`; its counters refine `ThrottleContract` |
| `ProviderRequest` | submission, conversation or legacy payload to the request of the provider's SDK | |
| `JsonExtract` | the SDK's result to the validated response: text, brace scan, validation | |
| `ThrottleContract` | abstract: what the rest of the service may rely on from the throttler | |
| `Throttler` | settings, counters, blocks and windows over time | refines `ThrottleContract` |
| `AppLifecycle` | start and stop of the application by the E2E suite | |
| `LlmSendProofs`, `PromptTemplatesProofs`, `StartupProofs`, `ImageRequestProofs`, `RequestPipelineProofs`, `ThrottlerProofs`, `AppLifecycleProofs` | theorems | the module they are about |
| `ProviderProofs` | theorems about the provider layer: requests, responses and errors | `ProviderRequest`, `JsonExtract`, `LlmErrorMapper` |
| `MC...` | the constants TLC uses | the module they instantiate |

How state and actions correspond to the code:

- **LlmSend.** `attempt`, `classified` and `delay` are the locals of `send()` and
  `waitBeforeRetry()`. `Start` runs to the first `await _sendInternal`;
  `Succeed`, `RejectResponse` (a `ZodError`) and `Fail` are the continuations of
  that await, each running to the next await or to the end of the call; `Wake` is
  the continuation of `sleep()`. `Elapse` is the clock. `errors`, `failedAt` and
  `now` record what the properties speak about.
- **SendContract** knows only how often a call contacted the provider and how it
  settled. `LlmSend` implements it with `tries` = attempts dispatched.
- **LlmErrorMapper.** A raw error says which value stands at each probed path,
  which patterns its message matches, and what its class is. `priority` lists the
  classes in the order `classifyLlmError` tries them, `applies` is the condition of
  each, and the first that applies wins; `mapError` and `classifyError` are the two
  steps from the raw error to the one `send()` throws.
  An answer without JSON (a `BadRequestException`) never reaches `mapError`.
- **PromptTemplates.** A file stands for its own text, so a wrong file is a wrong
  text. `Begin` is the entry of `create()`, `Hit` and `Miss` the two ways through
  `readMarkdown`, `ReadOk`, `ReadMissing` (ENOENT, next candidate) and `ReadError`
  how `readFile` may settle, `Store` the continuation that fills the cache.
- **Startup.** One action per step of the boot: `LoadDotenv` (main.ts),
  `ImportThrottler` (module evaluation), `ConstructConfig`, `ConstructRouter`,
  then `Serve`. `Edit` is the operator, who may change `.env` between the two
  reads of it. An API key is a token known by the prefixes it starts with and by
  those after which its rest is sound.
- **ImageRequest.** A data URI is a record of what the three examiners look at.
  `pipeAccepts`, `uriMatches` and `schemaAccepts` are the three; `Validate` is one
  run of the pipe, `Build` the prompt and the schema.
- **RequestPipeline.** `pc` is the stage of a request, `req` what it looks like (the
  token of its header, those it sends as `access_token`, its body as the stages see it),
  `hits` and `blocked` the storage of the throttler, `tries` and `result` the
  contract of `send()`, `thrown` the exception under way, `reply` the answer. One
  action per guard, handler or await; `Catch` is the filter. `earlier` records
  who had been through the throttler when a request was throttled.
- **ProviderRequest.** A text is the sequence of the headings, labels and tasks it
  says. `Build` is `PromptFactory` and the prompt, `Construct` any other caller of
  `buildMultiPartPromptPayload`, `Hand` a caller with a legacy payload; `Route` is
  `RoutingLLMService.send`, `Dispatch` the `_sendInternal` of the model's provider
  up to the SDK call.
- **JsonExtract.** `Receive` puts the text of a result together, `TakeBlock` takes a
  fenced object, `FindStart`, `Scan` and `GiveUp` cut one out of prose, and
  `Validate` checks what it means. `index`, `depth`, `inString` and `escaped` are
  the locals of the scan; one `Scan` step is one round of its loop.
- **Throttler.** `Import` evaluates `throttler.config.ts`. `Admit`, `Block` and
  `Reject` are the three decisions on a request of a counter; `Expire` is a timer
  of the storage, at its time or later; `Tick` is a millisecond. Events are known
  by their ages up to `Cap`, so that time may go on for ever in a finite model.
- **ThrottleContract** knows neither clock nor timers: of each counter its limit, how
  many requests it counts and whether it blocks. A request is admitted below the
  limit and refused at it; a counted one may be forgotten at any time; the end of
  a block forgets all. `Throttler` implements it with the limits it parsed and the
  number of ages it keeps; there a block that is over is none (`counts`,
  `blocks`), though the storage resets the counter only with the next request, and
  one tick may end several blocks. In `RequestPipeline`, `hits` and `blocked`
  implement it; the requests refused during a block leave it alone in both.
- **AppLifecycle.** A session is one `startApp()`, its tests and its `stopApp()`.
  `Setup`, `Start`, `StartMissing`, `CheckLog`, `CheckLogFails`, `EarlyExit` and
  `Stop` are the suite, `ForceKill` the kill timer, and `Log`, `Listen` and `Die` the
  applications, of which 0 is left over from an earlier run. `pending` holds the
  signals sent and not yet acted on, `killed` is `ChildProcess.killed`.

Definitions that precede the model in a module under the heading "variants" are
deliberate bugs, one per property, which no specification uses. Substituting one
for the definition it varies makes TLC find the property violated.

## 3. Runs

| Run | Shows | Instance |
| --- | --- | --- |
| `LlmSend` | retry, classification and backoff rules hold in any order of answers and timers; every `send()` settles; `send()` implements `SendContract`, liveness included | 2 calls, 2 retries, 3 kinds of failure, jitter 0 or 99 |
| `LlmErrorMapper` | client errors stay client errors, exactly transient errors are retried, both providers agree | every error with values at up to 2 of 6 paths, 15 values, 7 message classes |
| `PromptTemplates` | right prompts, local failures, warm cache, every request settles | 3 requests, 2 task types, 6 deployments, any fault |
| `Startup` | what listens can serve, by one route, throttles as configured and lets in exactly the holders of its keys | 82 environments (models, provider keys, limits, API-key lists with prefixes), 3 shells, 1 edit at any moment, 5 payload shapes |
| `ImageRequest` | the three examinations agree | 3 fields, two of them arbitrary, every size and padding around the limit |
| `RequestPipeline` | who gets through, who is throttled, what load the provider gets, what each request is answered; the shared counters keep to `ThrottleContract`; every request is answered | 3 requests, one of 16 kinds (2 keys, a stranger, keys in the header, the query and the body, a token spelled like the address, all kinds of bodies), the others of 3 and 1; limits 1 and 2, 1 retry, production |
| `RequestPipeline_retryAfter` | finding 1 | as above |
| `ProviderRequest` | every payload reaches every family of models as it was meant, with the model, effort and cache key that belong to it | conversations of up to 3 messages and 2 parts, legacy payloads with up to 2 images, 12 submissions, 64 configurations |
| `JsonExtract` | exactly the object is cut out, nothing of a truncated one; the first assessment in it is returned, or an error | objects with up to two strings of up to two units and two levels, prose before and after, chunks with the model's thinking between |
| `Throttler` | no window admits more than its limit; the counters, with their ages and timers, implement `ThrottleContract`; whoever keeps asking is admitted again and again | 29 settings, 27 of them valid, 2 counters, limits 0 to 3, windows of 0, 2 and 3 |
| `Throttler_seconds` | finding 2 | as above, a second of 2 units |
| `AppLifecycle` | each start is its own application's and finds the port free, unless a stubborn application of its own spec file is there; the suite ends | 4 sessions in 2 spec files, a left-over, applications 0, 1 and 3 stubborn, 2 polls |

Why the bounds are enough. In `LlmSend` a call interacts with another only
through the shared service, so two calls show any mixing; two retries give a
first, a middle and a last attempt, and the three failures are two different
retryable ones and one that `mapError` does not recognise, which is wrapped and
permanent. In
`LlmErrorMapper` the first path with a status wins, so a second value shows
every masking; the numbers are the edges of the rules, and a 19, a code no rule
knows, stands for NaN and negative numbers too. In `PromptTemplates`
three requests let one fill the cache while another misses and a third
comes warm. `Startup` has at least one deployment for each way the validation
and the router, or the list of keys and their prefix, could disagree; `.env` is
read twice, so one edit separates the two reads. In `ImageRequest` the limit of 4
bytes has the residue of 1 MiB modulo 3, and the sizes run over it with each
padding. `RequestPipeline` fills the authenticated limit with one request and
exceeds it with the next, and three requests exceed the unauthenticated one; the
first of them is of every kind, the second competes with it for a key, for the
address (with a key in the query) or for a status route. In
`ProviderRequest` three messages put a system message first, between and last;
the tasks include an empty one and one that looks like a heading and a tag of the
template. The units of `JsonExtract` are all the characters the scan tells apart,
in and out of strings. In `Throttler` an age never matters once it exceeds the
window (`CapAssumption`), and limits up to 3 over windows of up to 3 let a
window be full, slide and be blocked half way; in `Throttler_seconds` the cap is
twice the longest window. In `AppLifecycle` the first spec file has one session and
the second three, after a left-over of an earlier run: that shows what an application
does to its successors within its file and beyond it. Both files belong to the `e2e`
project, the only one with the setup file (`src/vitest.config.ts:33`); the `e2e-live`
sessions have no setup and are not modelled.

Every cfg says `CHECK_DEADLOCK FALSE` because a finite number of calls, requests
or sessions comes to an end; in `Throttler` because a process whose settings are
malformed stops.

## 4. Fairness

Weak fairness of the continuations (Node runs a callback that is ready), of
timers, of file reads and of the provider's answer. `send()` sets no timeout, so
that the SDK settles its promises is an assumption on the environment, not a
fact of this code. In `RequestPipeline` nothing is assumed of the throttler's
windows, of the operator or of clients; `EveryRequestAnswered` and
`EveryRequestSettles` start from a request that has arrived. `Throttler` assumes
that the module is imported, that time goes on and that every client keeps
asking: `EveryoneIsAdmittedAgain` is about one who does. It does not assume that a
timer of the storage ever fires, for a block that is over resets the counter by itself.
`AppLifecycle` assumes that the suite goes on (`Setup`, `Start`, `CheckLog`,
`Stop`) and nothing of the applications, which may hang, ignore signals or die
at any moment.

## 5. What is proved

TLAPS checks these for every value of the constants that satisfies the named
assumptions of the modules (`ConfigAssumption`, `FailuresAssumption` of `LlmSend`;
`RawErrorsAssumption` of `LlmErrorMapper`; `StringsAssumption`,
`ConfigurationsAssumption`, `SubmissionsAssumption`, `PayloadsAssumption`,
`FamiliesAssumption` of `ProviderRequest`; `AnswersAssumption` of `JsonExtract`;
`TaskTypesAssumption`, `FileSetsAssumption` of `PromptTemplates`;
`ModelsAssumption`, `TokensAssumption`, `ListsAssumption`, `PayloadsAssumption` of
`Startup`; `LimitsAssumption`, `TypesAssumption`, `BodiesAssumption` of
`ImageRequest`; `PipelineAssumption` of `RequestPipeline`; `CountersAssumption`,
`SettingsAssumption`, `CapAssumption` of `Throttler`; `SessionsAssumption` of
`AppLifecycle`). They say of what kind the constants are, and these something
more. `PipelineAssumption`: a token with the form of an API key is spelled like no
address (it ends in 32 characters without a dot or a colon; any other token may be),
a body with an `access_token` is invalid (the schemas are strict), and no key is the
empty one. `AnswersAssumption`: an object in an answer is well-formed, if perhaps cut
off, and no brace stands in the prose before it; malformed JSON, which `jsonrepair`
mends, is outside. `PayloadsAssumption` of `ProviderRequest`: a legacy payload with
messages has another field too, for one of messages alone comes from
`buildMultiPartPromptPayload`. `ConfigAssumption`: the jitter is below the base, as it is
drawn. `CapAssumption`: no window is longer than the ages that are told apart;
`SessionsAssumption`: the sessions of one spec file share a log. `PowersOfTwo` states two
laws of arithmetic about `2^n` for which the provers have no theory. TLC evaluates all of them in the runs.

- **send()** (`LlmSendProofs`): `SendInv` is inductive. `RetryBudget` and the
  others alone are not: that a call stops in time needs that the loop
  counter counts the failures (`CallInv`), that it throws the class of its own
  first failure needs that `classified` is that class from the first failure on,
  and `BackoffGrows` needs that the last delay is below the next doubling.
  `BackoffHonoured` and `BackoffGrows` are proved under `BackoffFits`, that is, where the
  configured delays fit into a timer; both are about the time the timer really runs.
  `ImplementsContractSafety` maps every step to a step or a stutter of the contract. `SendsAreBounded` counts the steps a call has left, and
  `TimersStayDue` says that a retry whose time has come waits for nothing but its timer.
- **Error mapper** (`ProviderProofs`): `MapperInv` says what is known of the
  error at each of the two steps. The work is in the lemmas about the probe (what
  `probeStatusCode` returns is the value of a path with a status, and of no earlier
  one) and about the order of the rules (the class is one that applies, and none
  before it does); the three properties follow by the range of the status.
- **Provider requests** (`ProviderProofs`): `RequestInv` says which payloads may be on
  their way: those of the two prompts, word for word (`BuiltText`, `BuiltImage`), and
  those of other callers. `NothingLostNorMisattributed` compares two conversations
  of any length, the one the payload means and the one the SDK's request is heard
  as; they are put together differently (system messages apart, images in one
  message, roles renamed), so the proof goes through a common form, a sequence of
  speeches, and shows that what is flattened piece by piece agrees when the pieces
  do (`AlikeConcat`, `FlattenAlike`, `HeardConversation`, `HeardAsMeant`).
  `TasksUnderTheirHeadings` and `CacheKeyMeansPrefix` need the words of a built
  request one by one (`DispatchedWords`); from there a heading's task is what stands
  right below it (`BelowIts`), and two requests have equal keys exactly if their
  references are equal (`KeyMeansPrefix`).
- **JSON extraction** (`ProviderProofs`): `ExtractInv` holds of every phase,
  `ScanInv` of the scan: at each position the scan's `inString` says whether it is
  inside one of the object's strings (`In`), `escaped` whether behind a backslash
  (`Escaped`), and `depth` is the number of braces opened and not yet closed
  (`Open`). Since the first brace encloses all others, the depth is 0 only where the
  object ends (`BraceStep`), for objects of any length and nesting. That the text the
  scan sees is the text that was written, however the answer is cut into chunks, is
  `TextOfResult`.
- **Templates** (`PromptTemplatesProofs`): `TemplatesInv` needs `CacheInv`: whatever
  is cached under a name is the text the deployment means by it. Without it a hit
  could yield anything; with it, two requests may store the same name in any order.
  `WarmRequestsNeverFail` needs that the cache only grows (`RequestInv`). That it
  does not change either, though requests that read at once store a name several
  times, is `StoresAreIdempotent`; `ReadsAreBounded` counts the reads and lookups left.
- **Startup** (`StartupProofs`): `StartupInv` relates each phase to the ones before:
  what the throttler parsed to the environment at import (`LimitInv`), the
  configuration to the one that was validated (`ConfigInv`), the routes to the
  configuration (`RouterInv`), what was served to the routes (`ServedInv`). An edit
  of `.env` disturbs none of them, which is what the four theorems come from.
- **Images** (`ImageRequestProofs`): `ImageInv` says which runs of the pipe an
  unfinished request has passed. The arithmetic core is
  `DecodedLengthsAgree`: what `Buffer.from` decodes and what the schema computes
  from length and padding are the same number. From it, what the pipe accepts the
  schema accepts, so no image is a server error.
- **Pipeline** (`RequestPipelineProofs`): `PipelineInv` ties the stage of a request
  to its headers and body (`StageInv`), every exception and reply to its cause
  (`CauseInv`), and every counter to the requests that name it
  (`CounterInv`). A counter that blocks has had more of its own requests than its limit.
  Tokens and addresses name counters in one space, so these need not be of one sender:
  `CountsAgainst` says which requests count against whom, `CounterIsSender` that
  those of one counter do, which gives `ThrottledForOwnRequestsOnly`. An API key cannot
  be spelled like an address, so whoever sends one in the header pays for nobody else.
  `ProviderLoadIsBounded` has an induction of its own: it is not enough to know how
  many requests a counter counts, for one that blocks counts more than its limit;
  `WindowInv` says that those it admitted are within it, so their attempts number
  at most the limit times the budget of `send()` (`CounterBoundsAttempts`), for a key in
  the header and for an address that sends keys as `access_token`. `SendsByContract` and
  `CountersKeepContract` show that the two contracts the pipeline is built on are
  kept by the composition: no guard, handler or filter touches the attempts of a
  request or the counters in a way they do not allow. `ThrottledSaysWhen` is what
  remains true of finding 1: a 429 without `Retry-After` always comes from a
  provider. `RequestsAreBounded` counts the stages and attempts a request has left;
  since one that is answered has none, `RepliesAreFinal` follows: no second reply,
  and no attempt at a provider after the first.
- **Throttler** (`ThrottlerProofs`): `ThrottlerInv` says that an open counter counts
  exactly the latest admissions, that those it has forgotten are as old as the
  window, and that a blocking one has admitted nothing since it began to
  block. Hence the admission that would be one too many is at least a window
  younger than the first of them (`WindowIsBounded`), however late the timers are.
  `ImplementsThrottleContract` maps every step to the contract: a tick to the end
  of all blocks it completes, an `Expire` to a forgotten request or, if the block
  it fell into is over, to nothing. It needs that a process that is up throttles by what it
  parsed (`SettingsInv`); the counters before the import stand for empty ones.
  `BlocksAreBounded` says that a block is not prolonged by what its client asks in
  vain, that every tick brings its end closer, and that the first request after it is
  admitted unless the limit is 0.
- **E2E harness** (`AppLifecycleProofs`): `LifecycleInv` says which applications of
  earlier sessions may still write a log or take the port: those of the current
  spec file that do not go when asked (`Survivors`), because the setup of a file
  leaves a SIGKILL pending for all others; `StartedIsOwnApp` and `PortIsFree` are
  consequences. `TimerInv` says that the timer of `stopApp()` runs only for an
  application that was sent the SIGTERM or has gone, hence `ForceKillsAreIdle`.
  `SuiteIsBounded` counts the steps the sessions have left, polls of the log included.

`SendsAreBounded`, `RequestsAreBounded`, `ReadsAreBounded`, `SuiteIsBounded` and
`BlocksAreBounded` have one form: a measure over the naturals that each step of its own
component decreases and no other step, of another call, of the environment or of the
clock, increases. They are what a liveness argument needs besides fairness, and rule out
endless retries, polls and waits for any number of calls, where the liveness
runs have a few.

Where these proofs need induction over data (what flattening a sequence of
sequences yields, for instance), it is done without the library's induction
theorems, whose operator parameters the provers cannot instantiate: `LeastNatural`
gives the least member of a set of naturals from the well-foundedness of `<`, and
the set of counterexamples is shown to have none (`NaturalsOf`, `SequencesOf`).

Only model-checked: liveness (`EverySendSettles`, `EveryRequestSettles`,
`EveryRequestAnswered`, `EveryoneIsAdmittedAgain`, `SuiteEnds`) and the liveness part
of the refinement `ImplementsContract`. What is missing from the bounds above to them is
that the fair actions are enabled until the end is reached, and `ENABLED` is out of the
provers' reach. Every
invariant and every action property of the passing runs is proved.

## 6. Findings

1. `Every429SaysWhenToRetry`: `docs/api/error-codes.md` promises a `Retry-After`
   header with every rate-limited response; a 429 that stems from the provider's
   rate limit has none.
2. `WindowIsInSeconds`: `.env.example:76` gives `THROTTLER_TTL` in seconds, with 60;
   `docs/configuration/environment.md:48` and the code take milliseconds. Who follows
   the example has windows a thousand times too short.

Observed while modelling, and built into the models as the code has it:

- Only the first failure of a call is classified (`llm/llm.service.interface.ts:230`).
  After a rate limit, a permanent failure is retried to the end of the budget and
  reported as a rate limit, though the docstring of `send()` says that non-retryable
  errors are thrown immediately.
- The backoff has no upper bound; beyond 2^31-1 ms `setTimeout` fires after 1 ms,
  which is why `BackoffHonoured` is stated for delays that fit.
- A numeric `code` that is no HTTP status, such as a `DOMException`'s, hides a network
  failure from the mapper, which then takes it for an unknown one.
- A limit set to nothing counts as 0. For the limit of the unauthenticated routes that
  shuts everybody out; for that of the assessor it does not, since the `ThrottlerGuard` of
  `@nestjs/throttler` takes the limit of a route only if it is not 0 and the global one
  otherwise (`limitOf` and `lockedOut` in `Throttler`; the library is not in this tree,
  and this is how its version 6 does it).
- A key is also accepted as `access_token` in the query or the body of a request without
  an `Authorization` header: the strategy of passport finds it there, and
  `auth/api-key.strategy.ts:48` looks at the header only if there is one.
  `docs/modules/guards.md:38` speaks of the header only, and the test at
  `src/test/pentesting.e2e-spec.ts:168` tries a parameter of another name. Such a request is
  counted by its address, so the load one key may cause is bounded for each key in the
  header and for each address, not for a key wherever it stands (`ProviderLoadIsBounded`).
  One in the body goes no further than the validation.
- `getTracker` names counters by raw tokens and raw addresses alike, before any key is
  checked: a bearer token spelled like an address counts against those who come from
  there without a token (`CountsAgainst`).
- Errors of the body parser other than for bodies that are too large or no JSON (a
  charset, an encoding or a length it refuses) are no `HttpException`, and
  `common/http-exception.filter.ts:134-141` answers them with 500, though the client made
  the mistake; `StatusTellsWhoseFault` names this exception.
- `stopApp()` never sends its SIGKILL: `killed` is true as soon as the SIGTERM was
  sent (`src/test/utils/app-lifecycle.ts:292`); `ForceKillsAreIdle` proves it. `disturbed` in `AppLifecycle` says
  what this costs: the later sessions of the same spec file share log and port with
  an application that did not go.

## 7. Plan

Done, in this order: `LlmErrors`, `SendContract`, `LlmSend` and its proofs,
`LlmErrorMapper`, `PromptTemplates`, `Startup`, `ImageRequest` and its proofs,
`RequestPipeline` and its proofs, `JsonExtract`; then `Throttler` with its proofs,
`ProviderRequest`, `AppLifecycle` with its proofs, validation in `JsonExtract`, API
keys in `Startup`, and the proofs for `LlmErrorMapper`, `PromptTemplates` and
`Startup` and of `ProviderLoadIsBounded`; then the proofs for `ProviderRequest` and
`JsonExtract`, and `ThrottleContract` with the proofs that the throttler and the
pipeline implement it; then the bounds on the steps of calls, requests, reads, blocks and
sessions.

Next:

1. `LlmSend` and `PromptTemplates` under `RequestPipeline`: the pipeline with the
   detailed `send()` implements the pipeline with its contract.
2. `NODE_ENV=test` with its `.test.env`, and the remaining configuration variables.

## 8. Not modelled

- Provider SDKs, Express, NestJS, passport, the storage of `@nestjs/throttler`,
  zod, `jsonrepair`, Mustache: modelled from how this code uses them, or left to
  the environment.
- The temperature, `safePrompt` and the response format in the requests to the
  providers: constants of every request.
- `NODE_ENV=test` and its `.test.env`, and the configuration variables that
  neither route, throttle, authenticate nor retry.
- The checks of template file names: the names come from a fixed table.
- What the status endpoints report, and `/test-error`, a route that always throws.
- In `AppLifecycle`, the mock of the LLM and the environment of the application; and
  a process boots for so long that those killed before it have gone when it
  listens, which `Listen` assumes.
- The error `describePayload` throws for a payload of no known kind
  (`llm/llm.service.interface.ts:206`, 441-455): the router has told the kinds apart before.
- Malformed JSON in an answer, and what `jsonrepair` makes of it.
- Logging, redaction, DI wiring, the key generator: no effect on control.
