-------------------------------- MODULE Startup --------------------------------
(***************************************************************************)
(* From the environment to a served request: main.ts loads .env into       *)
(* process.env, importing the application parses the throttler limit, the  *)
(* ConfigService validates everything, the RoutingLLMService resolves the  *)
(* configured models to providers, and each request is then routed by what *)
(* was resolved.  The operator may edit .env at any time, also while the   *)
(* process boots, and may start the process again.                         *)
(***************************************************************************)
EXTENDS Naturals, FiniteSets, Sequences

CONSTANTS Models,       \* the model names an environment may configure
          PrefixesOf,   \* the registered prefixes each of them starts with
          Tokens,       \* the API keys that clients may present, and those in a list
          KeysIn,       \* what a value of API_KEYS lists, split at commas and trimmed
          StartsWith,   \* the API_KEY_PREFIXes that a token starts with
          SoundAfter,   \* those whose length leaves 32 base64url characters of it
          Environments, \* the contents of .env considered
          Shells,       \* the environments the process may be launched in
          Payloads,     \* the payloads callers send
          MaxEdits      \* bound: how often the operator edits .env

Keys == {"DEFAULT_TEXT_TABLE_MODEL", "DEFAULT_IMAGE_MODEL",
         "GEMINI_API_KEY", "MISTRAL_API_KEY", "AUTHENTICATED_THROTTLER_LIMIT",
         "API_KEYS", "API_KEY_PREFIX"}

\* An absent variable; a blank value is not empty but trims to the empty one.
Absent == "absent"
Empty == ""
Blank == "blank"
DefaultModel == "mistral-small-latest"
DefaultPrefix == "abt_"

\* SUPPORTED_MODELS: the first entry whose prefix the name starts with decides.
SUPPORTED_MODELS ==
    << [provider |-> "gemini",  prefix |-> "gemini-flash-latest"],
       [provider |-> "gemini",  prefix |-> "gemini-2.5-flash"],
       [provider |-> "gemini",  prefix |-> "gemini-2.0-flash"],
       [provider |-> "mistral", prefix |-> "mistral-small-latest"],
       [provider |-> "mistral", prefix |-> "pixtral-"],
       [provider |-> "mistral", prefix |-> "open-mistral-"] >>

Providers == {"gemini", "mistral"}
KeyOf == [gemini |-> "GEMINI_API_KEY", mistral |-> "MISTRAL_API_KEY"]

ASSUME ModelsAssumption ==
    /\ DefaultModel \in Models
    /\ PrefixesOf \in [Models -> SUBSET {SUPPORTED_MODELS[i].prefix : i \in DOMAIN SUPPORTED_MODELS}]
ASSUME TokensAssumption ==
    /\ \A list \in DOMAIN KeysIn : KeysIn[list] \subseteq Tokens
    /\ DOMAIN StartsWith = Tokens /\ DOMAIN SoundAfter = Tokens
ASSUME ListsAssumption ==
    \A env \in Environments \cup Shells : env["API_KEYS"] \in {Absent} \cup DOMAIN KeysIn
ASSUME PayloadsAssumption ==
    \A p \in Payloads : p.fields \subseteq {"images", "user", "messages"} /\ p.imagePart \in BOOLEAN

VARIABLES dotEnv,    \* the .env file
          shell,     \* the environment the process is launched in
          phase,     \* how far the process is
          process,   \* process.env
          limit,     \* the throttler limit @Throttle() was given
          config,    \* ConfigService.config
          router,    \* what the RoutingLLMService resolved, per kind of task
          clients,   \* the key each provider's cached SDK client was built with
          served,    \* history: the requests this run of the process served
          edits      \* history: the number of edits of .env

vars == <<dotEnv, shell, phase, process, limit, config, router, clients, served, edits>>

Unresolved == "unresolved"
NoConfig == [k \in Keys |-> Absent]
NoRouter == [task \in {"text", "image"} |-> [provider |-> Unresolved, model |-> Unresolved]]

Matching(m) == {i \in DOMAIN SUPPORTED_MODELS : SUPPORTED_MODELS[i].prefix \in PrefixesOf[m]}

\* resolveProvider, with Unresolved for its error.
resolveProvider(m) ==
    IF Matching(m) = {} THEN Unresolved
    ELSE SUPPORTED_MODELS[CHOOSE i \in Matching(m) : \A j \in Matching(m) : i <= j].provider

\* { ...loadedEnvironment, ...process.env }
merge(file, env) == [k \in Keys |-> IF env[k] # Absent THEN env[k] ELSE file[k]]

-----------------------------------------------------------------------------
(* Variants with plausible bugs, which no specification uses.               *)

\* Only the model for text and tables makes a key required.
requiredProvidersTextOnly(c) ==
    {resolveProvider(c["DEFAULT_TEXT_TABLE_MODEL"])} \ {Unresolved}

\* The throttler's limit is parsed before .env is loaded.
ImportThrottlerEarly ==
    /\ phase = "loaded"
    /\ limit' = IF shell["AUTHENTICATED_THROTTLER_LIMIT"] = Absent THEN "90"
                ELSE shell["AUTHENTICATED_THROTTLER_LIMIT"]
    /\ phase' = "imported"
    /\ UNCHANGED <<dotEnv, shell, process, config, router, clients, served, edits>>

\* Configured keys are held against the default prefix.
apiKeysValidDefault(c) ==
    c["API_KEYS"] = Absent \/
        \A k \in KeysIn[c["API_KEYS"]] : DefaultPrefix \in StartsWith[k] \cap SoundAfter[k]

\* The environment is read again for every request.
routedModelLive(p, task) ==
    LET v == merge(dotEnv, shell)[IF task = "image" THEN "DEFAULT_IMAGE_MODEL"
                                  ELSE "DEFAULT_TEXT_TABLE_MODEL"]
    IN  IF v = Absent THEN DefaultModel ELSE v

-----------------------------------------------------------------------------
\* The number schema of a limit: absent is the default, empty coerces to 0, and
\* what is no number is an error.
parseLimit(v) ==
    CASE v = Absent -> "90"
      [] v \in {Empty, Blank} -> "0"
      [] OTHER -> v

invalidLimit(v) == v = "many"

\* The pattern of API_KEY_PREFIX.
invalidPrefix(v) == v \in {Empty, Blank}

\* The defaults of configObjectSchema.
withDefaults(env) ==
    [k \in Keys |->
        CASE k \in {"DEFAULT_TEXT_TABLE_MODEL", "DEFAULT_IMAGE_MODEL"} ->
                IF env[k] = Absent THEN DefaultModel ELSE env[k]
          [] k = "AUTHENTICATED_THROTTLER_LIMIT" -> parseLimit(env[k])
          [] k = "API_KEY_PREFIX" -> IF env[k] = Absent THEN DefaultPrefix ELSE env[k]
          [] OTHER -> env[k]]

\* validateProviderKeys: a name that resolves to no provider requires no key.
requiredProviders(c) ==
    {resolveProvider(c[k]) : k \in {"DEFAULT_TEXT_TABLE_MODEL", "DEFAULT_IMAGE_MODEL"}}
        \ {Unresolved}

\* Its test of a key: !data.KEY?.trim() is an issue.
keyIsSet(v) == v \notin {Absent, Empty, Blank}

keysValid(c) == \A p \in requiredProviders(c) : keyIsSet(c[KeyOf[p]])

\* validateApiKeyFormat: each listed key has the prefix and a sound body after it.
apiKeysValid(c) ==
    c["API_KEYS"] = Absent \/
        \A k \in KeysIn[c["API_KEYS"]] : c["API_KEY_PREFIX"] \in StartsWith[k] \cap SoundAfter[k]

\* configSchema, given the environment and what its defaults make of it.
valid(env, c) ==
    /\ ~ invalidLimit(env["AUTHENTICATED_THROTTLER_LIMIT"])
    /\ ~ invalidPrefix(env["API_KEY_PREFIX"])
    /\ apiKeysValid(c)
    /\ keysValid(c)

\* ApiKeyService: the keys it was given, and the token it lets in.
apiKeys == IF config["API_KEYS"] = Absent THEN {} ELSE KeysIn[config["API_KEYS"]]
authenticates(token) ==
    /\ config["API_KEY_PREFIX"] \in StartsWith[token]
    /\ config["API_KEY_PREFIX"] \in SoundAfter[token]
    /\ token \in apiKeys

badNames(c) ==
    {m \in {c["DEFAULT_TEXT_TABLE_MODEL"], c["DEFAULT_IMAGE_MODEL"]} :
        resolveProvider(m) = Unresolved}

\* How the router classifies a payload: the legacy discriminators come first.
isImage(p) ==
    \/ "images" \in p.fields
    \/ "user" \notin p.fields /\ "messages" \in p.fields /\ p.imagePart

\* The model the router writes into the payload, whatever the caller put there.
routedModel(p, task) == router[task].model

-----------------------------------------------------------------------------
Init ==
    /\ dotEnv \in Environments
    /\ shell \in Shells
    /\ phase = "off"
    /\ process = NoConfig
    /\ limit = Unresolved
    /\ config = NoConfig
    /\ router = NoRouter
    /\ clients = [p \in Providers |-> Absent]
    /\ served = {}
    /\ edits = 0

\* The operator changes .env.
Edit(env) ==
    /\ edits < MaxEdits
    /\ dotEnv' = env
    /\ edits' = edits + 1
    /\ UNCHANGED <<shell, phase, process, limit, config, router, clients, served>>

\* The process is started, for the first time or again, and dotenv adds to
\* process.env the variables of .env that it lacks.
LoadDotenv ==
    /\ phase \in {"off", "listening", "failed"}
    /\ process' = merge(dotEnv, shell)
    /\ phase' = "loaded"
    /\ limit' = Unresolved
    /\ config' = NoConfig
    /\ router' = NoRouter
    /\ clients' = [p \in Providers |-> Absent]
    /\ served' = {}
    /\ UNCHANGED <<dotEnv, shell, edits>>

\* bootstrap.js is imported, and with it throttler.config.ts.
ImportThrottler ==
    LET v == process["AUTHENTICATED_THROTTLER_LIMIT"]
    IN  /\ phase = "loaded"
        /\ IF invalidLimit(v)
           THEN phase' = "failed" /\ UNCHANGED limit
           ELSE phase' = "imported" /\ limit' = parseLimit(v)
        /\ UNCHANGED <<dotEnv, shell, process, config, router, clients, served, edits>>

\* The ConfigService reads .env once more and validates.
ConstructConfig ==
    LET env == merge(dotEnv, process)
        c == withDefaults(env)
    IN  /\ phase = "imported"
        /\ IF valid(env, c)
           THEN config' = c /\ phase' = "configured"
           ELSE phase' = "failed" /\ UNCHANGED config
        /\ UNCHANGED <<dotEnv, shell, process, limit, router, clients, served, edits>>

Resolved(m) == [provider |-> resolveProvider(m), model |-> m]

\* The RoutingLLMService resolves both models or throws; then the server listens.
ConstructRouter ==
    /\ phase = "configured"
    /\ IF badNames(config) # {}
       THEN phase' = "failed" /\ UNCHANGED router
       ELSE /\ router' = [text |-> Resolved(config["DEFAULT_TEXT_TABLE_MODEL"]),
                          image |-> Resolved(config["DEFAULT_IMAGE_MODEL"])]
            /\ phase' = "listening"
    /\ UNCHANGED <<dotEnv, shell, process, limit, config, clients, served, edits>>

\* getClient of the provider's service: the key of the client built on first use, or
\* the one to build it with.
getClient(provider) ==
    IF clients[provider] # Absent THEN clients[provider] ELSE config[KeyOf[provider]]

\* RoutingLLMService.send: the request reaches the provider, unless the key is missing.
Serve(p) ==
    LET task == IF isImage(p) THEN "image" ELSE "text"
        provider == router[task].provider
        key == getClient(provider)
        keyless == key \in {Absent, Empty}
    IN  /\ phase = "listening"
        /\ served' = served \cup
              {[payload |-> p, task |-> task, provider |-> provider,
                model |-> routedModel(p, task), keyless |-> keyless]}
        /\ clients' = IF keyless THEN clients ELSE [clients EXCEPT ![provider] = key]
        /\ UNCHANGED <<dotEnv, shell, phase, process, limit, config, router, edits>>

Next ==
    \/ \E env \in Environments : Edit(env)
    \/ LoadDotenv \/ ImportThrottler \/ ConstructConfig \/ ConstructRouter
    \/ \E p \in Payloads : Serve(p)

Spec == Init /\ [][Next]_vars

-----------------------------------------------------------------------------
\* A process that listens never meets a missing API key at request time: the
\* schema asks for exactly the keys of the providers the router will pick, for
\* every payload kind and whatever .env looked like when it was read.
NoRequestLacksItsKey == \A s \in served : ~ s.keyless

\* Edits of .env have no effect after startup: one run of the process sends all
\* requests of one kind to the same provider with the same model.
OneRoutePerRun ==
    \A s, t \in served :
        s.task = t.task => s.provider = t.provider /\ s.model = t.model

\* The decorators throttle by the very value ConfigService validated, provided .env
\* held that value at launch: loading it comes before the import.
LimitIsConfigured ==
    (phase = "listening" /\ process["AUTHENTICATED_THROTTLER_LIMIT"] # Absent) =>
        limit = config["AUTHENTICATED_THROTTLER_LIMIT"]

\* The two format rules, of the schema and of the service, agree: whoever has one of
\* the keys a listening process was configured with is let in, and nobody else.
ConfiguredKeysLetIn ==
    phase = "listening" =>
        {token \in Tokens : authenticates(token)} =
            (IF config["API_KEYS"] = Absent THEN {} ELSE KeysIn[config["API_KEYS"]])
==============================================================================
