---------------------------- MODULE ProviderRequest ----------------------------
(***************************************************************************)
(* What reaches a provider.  A submission is made into a payload by its    *)
(* prompt, or a trusted caller hands a payload to send(); the router       *)
(* decides on model and reasoning effort; GeminiService or MistralService  *)
(* translates the payload into the request of its SDK.                     *)
(*                                                                         *)
(* A text or image is known by what it says, a sequence of fragments: a    *)
(* rendered template says its headings and the tasks below them.           *)
(***************************************************************************)
EXTENDS Naturals, Sequences, SequencesExt

CONSTANTS Strings,        \* what texts and images are made of, and the names of models
          Submissions,    \* the validated DTOs
          Conversations,  \* what callers give to buildMultiPartPromptPayload
          LegacyPayloads, \* the payloads callers hand to send() unvalidated
          Configurations, \* what the router read from the configuration
          FamilyOf        \* the family of each configured model

Families == {"mistral", "gemini-2.0", "gemini-2.5", "gemini-3"}
Efforts == <<"off", "low", "high", "max">>
EffortNames == {"off", "low", "high", "max"}

Words == Seq(Strings)
Part == [kind : {"text", "image"}, what : Words]
Payload ==
    [has : SUBSET {"system", "user", "images", "messages"},
     system : Words, user : Words,
     images : Seq([what : Words, data : BOOLEAN, mimeType : BOOLEAN]),
     messages : Seq([role : {"system", "user", "assistant"}, parts : Seq(Part)]),
     promptCacheKey : Words, model : Strings, effort : EffortNames \cup {"unset"}]

\* Those of the program's own.
ASSUME StringsAssumption ==
    {"system prompt", "TEXT", "TABLE", "IMAGE", "sha256", "unset",
     "Reference Task", "Template Task", "Student Task", "Template", "Student Submission",
     "Assess these images per your system instructions."} \subseteq Strings
ASSUME ConfigurationsAssumption ==
    \A c \in Configurations :
        /\ {c.textModel, c.imageModel} \subseteq DOMAIN FamilyOf
        /\ {c.textEffort, c.imageEffort} \subseteq EffortNames
ASSUME SubmissionsAssumption ==
    Submissions \subseteq [taskType : {"TEXT", "TABLE", "IMAGE"}, reference : Words,
                           template : Words, studentResponse : Words]
\* A payload of messages alone comes from buildMultiPartPromptPayload.
ASSUME PayloadsAssumption ==
    /\ \A p \in Conversations : p \in Payload /\ p.has = {"messages"}
    /\ \A p \in LegacyPayloads :
          p \in Payload /\ ("messages" \in p.has => p.has \cap {"images", "user"} # {})
ASSUME FamiliesAssumption == \A m \in DOMAIN FamilyOf : m \in Strings /\ FamilyOf[m] \in Families

VARIABLES phase,     \* how far the assessment is
          config,    \* the RoutingLLMService's fields
          dto,       \* the submission it began with, if any
          payload,   \* what send() is given
          resolved,  \* what the router hands to the provider
          request    \* what the SDK is given

requestVars == <<phase, config, dto, payload, resolved, request>>

Nothing == [has |-> {}]
NoRequest == [turns |-> << >>]

Text(what) == [kind |-> "text", what |-> what]
Image(what) == [kind |-> "image", what |-> what]
Message(role, parts) == [role |-> role, parts |-> parts]

\* A payload: has is the set of its discriminating properties.
NewPayload ==
    [has |-> {}, system |-> << >>, user |-> << >>, images |-> << >>, messages |-> << >>,
     promptCacheKey |-> << >>, model |-> "unset", effort |-> "unset"]

-----------------------------------------------------------------------------
(* Variants with plausible bugs, which no specification uses.               *)

\* The factory mixes up two tasks.
inputsSwapped(d) ==
    [referenceTask |-> d.reference, studentTask |-> d.template, emptyTask |-> d.studentResponse]

\* The student's task is part of the key.
buildPromptCacheKeyOfAll(inputs) == <<"sha256">> \o inputs.referenceTask \o inputs.studentTask

\* A payload's own model wins.
resolveForCaller(c, p) ==
    [p EXCEPT !.model = IF p.model # "unset" THEN p.model ELSE c.textModel,
              !.effort = c.textEffort]

\* "off" leaves the thinking configuration out.
thinkingConfigOmitted(m, effort) ==
    CASE FamilyOf[m] = "gemini-2.0" \/ effort = "off" -> [param |-> "none"]
      [] FamilyOf[m] = "gemini-2.5" ->
            [param |-> "budget",
             value |-> CASE effort = "high" -> 1024 [] effort = "max" -> 8192 [] OTHER -> 0]
      [] OTHER ->
            [param |-> "level",
             value |-> CASE effort = "low" -> "LOW" [] effort = "high" -> "MEDIUM"
                         [] effort = "max" -> "HIGH" [] OTHER -> "MINIMAL"]

\* Every system message is moved into the system instruction.
mapConversationGeminiHoists(p) ==
    LET isSystem(m) == m.role = "system"
        turn(m) == [role |-> IF m.role = "assistant" THEN "model" ELSE "user", parts |-> m.parts]
        turns == SelectSeq(p.messages, LAMBDA m : ~ isSystem(m))
    IN  [system |-> FlattenSeq([i \in DOMAIN p.messages |->
                        IF isSystem(p.messages[i]) THEN p.messages[i].parts ELSE << >>]),
         turns |-> [i \in DOMAIN turns |-> turn(turns[i])]]

\* A conversation of system messages alone is accepted.
conversationAcceptedAny(ms) ==
    /\ ms # << >>
    /\ \A i \in DOMAIN ms :
          /\ ms[i].parts # << >>
          /\ ms[i].role = "system" => \A j \in DOMAIN ms[i].parts : ms[i].parts[j].kind = "text"

-----------------------------------------------------------------------------
(* The prompt layer.                                                        *)

\* PromptFactory.create: the DTO's fields under the names of the templates.
inputs(d) ==
    [referenceTask |-> d.reference, studentTask |-> d.studentResponse, emptyTask |-> d.template]

\* text.user.prompt.md and table.user.prompt.md: headings and the tags below them.
UserTemplate ==
    << [heading |-> "Reference Task", tag |-> "referenceTask"],
       [heading |-> "Template Task", tag |-> "emptyTask"],
       [heading |-> "Student Task", tag |-> "studentTask"] >>

\* Mustache fills the tags of the template in one pass: a tag within a task stays
\* text.
render(template, in) ==
    FlattenSeq([i \in DOMAIN template |-> <<template[i].heading>> \o in[template[i].tag]])

buildPromptCacheKey(in) == <<"sha256">> \o in.referenceTask

\* Prompt.buildMessage of TextPrompt and TablePrompt.
buildTextMessage(d) ==
    [NewPayload EXCEPT
        !.has = {"system", "user"},
        !.system = <<"system prompt", d.taskType>>,
        !.user = render(UserTemplate, inputs(d)),
        !.promptCacheKey = buildPromptCacheKey(inputs(d))]

\* ImagePrompt.buildUserParts: each image follows its label.
buildUserParts(in) ==
    << Text(<<"Reference Task">>), Image(in.referenceTask),
       Text(<<"Template">>), Image(in.emptyTask),
       Text(<<"Student Submission">>), Image(in.studentTask) >>

\* MultiPartPrompt.buildMessage.
buildMultiPartMessage(d) ==
    [NewPayload EXCEPT
        !.has = {"messages"},
        !.messages = << Message("system", <<Text(<<"system prompt", d.taskType>>)>>),
                        Message("user", buildUserParts(inputs(d))) >>,
        !.promptCacheKey = buildPromptCacheKey(inputs(d))]

buildMessage(d) ==
    IF d.taskType = "IMAGE" THEN buildMultiPartMessage(d) ELSE buildTextMessage(d)

\* MultiPartPromptPayloadSchema, the contents of images aside.
conversationAccepted(ms) ==
    /\ ms # << >>
    /\ \A i \in DOMAIN ms :
          /\ ms[i].parts # << >>
          /\ ms[i].role = "system" => \A j \in DOMAIN ms[i].parts : ms[i].parts[j].kind = "text"
    /\ \E i \in DOMAIN ms : ms[i].role # "system"

-----------------------------------------------------------------------------
(* The router and the shared dispatch.                                      *)

containsImagePart(p) ==
    \E i \in DOMAIN p.messages : \E j \in DOMAIN p.messages[i].parts :
        p.messages[i].parts[j].kind = "image"

isImage(p) ==
    \/ "images" \in p.has
    \/ "user" \notin p.has /\ "messages" \in p.has /\ containsImagePart(p)

\* RoutingLLMService.send: a copy with the server's model and effort.
resolve(c, p) ==
    [p EXCEPT !.model = IF isImage(p) THEN c.imageModel ELSE c.textModel,
              !.effort = IF isImage(p) THEN c.imageEffort ELSE c.textEffort]

\* mapPayload and getPayloadTypeName.
payloadTypeName(p) ==
    CASE "images" \in p.has -> "image"
      [] "images" \notin p.has /\ "user" \in p.has -> "text"
      [] p.has \cap {"images", "user"} = {} /\ "messages" \in p.has -> "conversation"
      [] OTHER -> "unknown"

\* An image of a legacy payload whose data or media type is no string is dropped.
completeImages(p) ==
    FlattenSeq([i \in DOMAIN p.images |->
        IF p.images[i].data /\ p.images[i].mimeType THEN <<Image(p.images[i].what)>> ELSE << >>])

-----------------------------------------------------------------------------
(* Gemini.                                                                  *)

mapThinkingBudget(effort) == CASE effort = "high" -> 1024 [] effort = "max" -> 8192 [] OTHER -> 0

mapThinkingLevel(effort) ==
    CASE effort = "low" -> "LOW" [] effort = "high" -> "MEDIUM" [] effort = "max" -> "HIGH"
      [] OTHER -> "MINIMAL"

buildThinkingConfig(m, effort) ==
    CASE FamilyOf[m] = "gemini-2.0" -> [param |-> "none"]
      [] FamilyOf[m] = "gemini-2.5" -> [param |-> "budget", value |-> mapThinkingBudget(effort)]
      [] OTHER -> [param |-> "level", value |-> mapThinkingLevel(effort)]

\* A leading system message becomes the system instruction; any other one speaks
\* as the user, for Gemini knows only user and model.
mapConversationGemini(p) ==
    LET leads == p.messages[1].role = "system"
        rest == IF leads THEN Tail(p.messages) ELSE p.messages
        turn(m) == [role |-> IF m.role = "assistant" THEN "model" ELSE "user", parts |-> m.parts]
    IN  [system |-> IF leads THEN p.messages[1].parts ELSE << >>,
         turns |-> [i \in DOMAIN rest |-> turn(rest[i])]]

\* The contents of a legacy payload are loose parts, which the SDK takes for one
\* turn of the user.
geminiView(p) ==
    CASE payloadTypeName(p) = "image" ->
            [system |-> <<Text(p.system)>>,
             turns |-> <<[role |-> "user", parts |-> completeImages(p)]>>]
      [] payloadTypeName(p) = "text" ->
            [system |-> <<Text(p.system)>>,
             turns |-> <<[role |-> "user", parts |-> <<Text(p.user)>>]>>]
      [] OTHER -> mapConversationGemini(p)

geminiRequest(p) ==
    [model |-> p.model, system |-> geminiView(p).system, turns |-> geminiView(p).turns,
     thinking |-> buildThinkingConfig(p.model, p.effort), promptCacheKey |-> << >>]

-----------------------------------------------------------------------------
(* Mistral.                                                                 *)

Instruction == Text(<<"Assess these images per your system instructions.">>)

\* Mistral knows all three roles.
mapConversationMistral(p) ==
    [i \in DOMAIN p.messages |->
        [role |-> p.messages[i].role, parts |-> p.messages[i].parts]]

buildMessages(p) ==
    CASE payloadTypeName(p) = "image" ->
            << [role |-> "system", parts |-> <<Text(p.system)>>],
               [role |-> "user", parts |-> <<Instruction>> \o completeImages(p)] >>
      [] payloadTypeName(p) = "text" ->
            << [role |-> "system", parts |-> <<Text(p.system)>>],
               [role |-> "user", parts |-> <<Text(p.user)>>] >>
      [] OTHER -> mapConversationMistral(p)

\* Reasoning is left out where it is off, and small models know only two levels.
mapReasoningEffort(effort) ==
    CASE effort \in {"unset", "off"} -> [param |-> "none"]
      [] effort = "low" -> [param |-> "effort", value |-> "none"]
      [] OTHER -> [param |-> "effort", value |-> "high"]

mistralRequest(p) ==
    [model |-> p.model, system |-> << >>, turns |-> buildMessages(p),
     thinking |-> mapReasoningEffort(p.effort), promptCacheKey |-> p.promptCacheKey]

sdkRequest(p) == IF FamilyOf[p.model] = "mistral" THEN mistralRequest(p) ELSE geminiRequest(p)

-----------------------------------------------------------------------------
RequestInit ==
    /\ phase = "idle"
    /\ config \in Configurations
    /\ dto = Nothing
    /\ payload = Nothing
    /\ resolved = Nothing
    /\ request = NoRequest

\* An assessment: the factory makes the prompt, and the prompt the payload.
Build(d) ==
    /\ phase = "idle"
    /\ dto' = d
    /\ payload' = buildMessage(d)
    /\ phase' = "built"
    /\ UNCHANGED <<config, resolved, request>>

\* buildMultiPartPromptPayload for any other caller: parsed, or a ZodError.
Construct(p) ==
    /\ phase = "idle"
    /\ IF conversationAccepted(p.messages)
       THEN payload' = p /\ phase' = "built"
       ELSE phase' = "ZodError" /\ UNCHANGED payload
    /\ UNCHANGED <<config, dto, resolved, request>>

\* A caller hands over a legacy payload, which nothing validates.
Hand(p) ==
    /\ phase = "idle"
    /\ payload' = p
    /\ phase' = "built"
    /\ UNCHANGED <<config, dto, resolved, request>>

\* RoutingLLMService.send.
Route ==
    /\ phase = "built"
    /\ resolved' = resolve(config, payload)
    /\ phase' = "routed"
    /\ UNCHANGED <<config, dto, payload, request>>

\* _sendInternal up to the call of the SDK; mapPayload throws on an unknown shape.
Dispatch ==
    /\ phase = "routed"
    /\ IF payloadTypeName(resolved) = "unknown"
       THEN phase' = "unsupported" /\ UNCHANGED request
       ELSE phase' = "dispatched" /\ request' = sdkRequest(resolved)
    /\ UNCHANGED <<config, dto, payload, resolved>>

RequestNext ==
    \/ \E d \in Submissions : Build(d)
    \/ \E p \in Conversations : Construct(p)
    \/ \E p \in LegacyPayloads : Hand(p)
    \/ Route \/ Dispatch

RequestSpec == RequestInit /\ [][RequestNext]_requestVars

-----------------------------------------------------------------------------
Dispatched == phase = "dispatched"
ToGemini == FamilyOf[request.model] # "mistral"

Speech(who, parts) == [i \in DOMAIN parts |-> [who |-> who, what |-> parts[i]]]

\* What a request says to the model, and who says it, in order.
HeardIn(req) ==
    LET who(role) == IF role = "model" THEN "assistant" ELSE role
    IN  Speech("system", req.system)
        \o FlattenSeq([i \in DOMAIN req.turns |->
              Speech(who(req.turns[i].role), req.turns[i].parts)])

Heard == HeardIn(request)

\* The words of it.
WordsOf(req) == LET heard == HeardIn(req) IN FlattenSeq([i \in DOMAIN heard |-> heard[i].what.what])

\* What the payload says.  To Mistral, legacy images are shown with an instruction.
Meant ==
    CASE payloadTypeName(payload) = "conversation" ->
            FlattenSeq([i \in DOMAIN payload.messages |->
                Speech(payload.messages[i].role, payload.messages[i].parts)])
      [] payloadTypeName(payload) = "text" ->
            Speech("system", <<Text(payload.system)>>) \o Speech("user", <<Text(payload.user)>>)
      [] OTHER ->
            Speech("system", <<Text(payload.system)>>)
            \o Speech("user", (IF ToGemini THEN << >> ELSE <<Instruction>>) \o completeImages(payload))

\* Whatever was meant is said once, in its order, and by whom it was meant; only
\* Gemini hears a system message that does not lead as the user's.  In particular
\* nothing of a user or an assistant ever becomes a system instruction.
NothingLostNorMisattributed ==
    Dispatched =>
        /\ Len(Heard) = Len(Meant)
        /\ \A i \in DOMAIN Heard :
              /\ Heard[i].what = Meant[i].what
              /\ \/ Heard[i].who = Meant[i].who
                 \/ ToGemini /\ Meant[i].who = "system" /\ Heard[i].who = "user"
        /\ (payload.has = {"messages"} /\ ToGemini /\ payload.messages[1].role = "system") =>
              Heard[1].who = "system"

\* No request is one the APIs reject for being empty: there is a turn beside the
\* system's, and every turn has parts.  A legacy payload whose images are all
\* incomplete is the exception, with Gemini.
NoEmptyRequest ==
    (/\ Dispatched
     /\ (payloadTypeName(payload) = "image" /\ ToGemini) => completeImages(payload) # << >>) =>
        /\ \E i \in DOMAIN request.turns : request.turns[i].role # "system"
        /\ \A i \in DOMAIN request.turns : request.turns[i].parts # << >>

\* How much the model thinks: left out, it does what its provider documents.
thinks(m, t) ==
    CASE t.param = "budget" -> t.value
      [] t.param = "level" -> CASE t.value = "MINIMAL" -> 0 [] t.value = "LOW" -> 1
                                [] t.value = "MEDIUM" -> 2 [] OTHER -> 3
      [] t.param = "effort" -> IF t.value = "high" THEN 1 ELSE 0
      [] OTHER -> IF FamilyOf[m] \in {"gemini-2.5", "gemini-3"} THEN 2 ELSE 0

\* More effort never means less thinking, "off" means none or the least there is, and a
\* model is only given the parameter its family accepts.
EffortIsMonotone ==
    Dispatched =>
        /\ request.thinking.param \in
              CASE FamilyOf[request.model] = "gemini-2.0" -> {"none"}
                [] FamilyOf[request.model] = "gemini-2.5" -> {"budget"}
                [] FamilyOf[request.model] = "gemini-3"   -> {"level"}
                [] OTHER -> {"none", "effort"}
        /\ LET amount(e) ==
                  thinks(request.model, sdkRequest([resolved EXCEPT !.effort = e]).thinking)
           IN  /\ \A i \in 1..3 : amount(Efforts[i]) <= amount(Efforts[i + 1])
               /\ amount("off") = 0
               /\ thinks(request.model, request.thinking) = amount(resolved.effort)

\* The server decides: whatever a caller asks for, the model is a configured one, and
\* an image is only ever shown to the model configured for images.
ImagesMeetTheImageModel ==
    Dispatched =>
        /\ request.model \in {config.textModel, config.imageModel}
        /\ (\E i \in DOMAIN Heard : Heard[i].what.kind = "image") =>
              request.model = config.imageModel

\* A student's work is never graded as the reference: in whatever reaches the model,
\* each task stands right below its own heading or label, and only there.
TasksUnderTheirHeadings ==
    LET words == WordsOf(request)
        image == dto.taskType = "IMAGE"
        below(heading, task) ==
            \E i \in 1..(Len(words) - Len(task)) :
                words[i] = heading /\ SubSeq(words, i + 1, i + Len(task)) = task
    IN  (Dispatched /\ dto # Nothing) =>
            /\ below("Reference Task", dto.reference)
            /\ below(IF image THEN "Template" ELSE "Template Task", dto.template)
            /\ below(IF image THEN "Student Submission" ELSE "Student Task", dto.studentResponse)
            /\ Len(words) = 5 + Len(dto.reference) + Len(dto.template) + Len(dto.studentResponse)

\* Submissions of one kind share the cache key exactly when they share the reference
\* task, and then what the model hears is the same up to the end of that task: the
\* prefix the provider has cached is the right one, and every student's work finds it.
CacheKeyMeansPrefix ==
    LET other(d) == sdkRequest(resolve(config, buildMessage(d)))
        end == 3 + Len(dto.reference)
    IN  (Dispatched /\ dto # Nothing /\ ~ ToGemini) =>
            \A d \in {x \in Submissions : x.taskType = dto.taskType} :
                /\ d.reference = dto.reference => other(d).promptCacheKey = request.promptCacheKey
                /\ other(d).promptCacheKey = request.promptCacheKey =>
                      SubSeq(WordsOf(other(d)), 1, end) = SubSeq(WordsOf(request), 1, end)
================================================================================
