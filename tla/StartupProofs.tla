----------------------------- MODULE StartupProofs -----------------------------
(* What holds of every process that Startup describes, for any models,      *)
(* environments, keys, payloads and number of edits.                        *)
EXTENDS Startup, TLAPS

Limit == "AUTHENTICATED_THROTTLER_LIMIT"
Text == "DEFAULT_TEXT_TABLE_MODEL"
ImageModel == "DEFAULT_IMAGE_MODEL"

\* The lists of API keys a process may meet are ones whose keys are known.
Known(env) == env["API_KEYS"] \in {Absent} \cup DOMAIN KeysIn

\* Until it listens a process serves nothing; a failed one never did.
FilesInv ==
    /\ dotEnv \in Environments /\ shell \in Shells
    /\ Known(process) /\ Known(config)
    /\ phase \in {"off", "loaded", "imported", "configured", "listening", "failed"}
    /\ phase # "listening" => served = {}
    /\ phase \in {"loaded", "imported", "configured"} =>
          clients = [p \in Providers |-> Absent]

\* The throttler's limit and the ConfigService's come from the same variable.
LimitInv ==
    /\ phase = "imported" => limit = parseLimit(process[Limit])
    /\ phase \in {"configured", "listening"} =>
          (process[Limit] # Absent => limit = config[Limit])

\* What was validated stays valid, for the configuration never changes.
ConfigInv ==
    phase \in {"configured", "listening"} => keysValid(config) /\ apiKeysValid(config)

\* The routes are those of the configured models, which a provider is found for; the
\* clients were built with the configured keys.
RouterInv ==
    phase = "listening" =>
        /\ badNames(config) = {}
        /\ router = [text |-> Resolved(config[Text]), image |-> Resolved(config[ImageModel])]
        /\ clients \in [Providers -> {Absent, config["GEMINI_API_KEY"], config["MISTRAL_API_KEY"]}]
        /\ \A p \in Providers : clients[p] \in {Absent, config[KeyOf[p]]}

ServedInv ==
    \A s \in served :
        /\ s.task \in {"text", "image"}
        /\ s.provider = router[s.task].provider
        /\ s.model = router[s.task].model
        /\ s.keyless = FALSE

StartupInv == FilesInv /\ LimitInv /\ ConfigInv /\ RouterInv /\ ServedInv

-----------------------------------------------------------------------------
\* A name is resolved to one of the two providers or to none.
LEMMA ResolvesToProvider ==
    ASSUME NEW m, resolveProvider(m) # Unresolved
    PROVE  resolveProvider(m) \in Providers
<1>1. Matching(m) # {} /\ Matching(m) \subseteq 1..6
  BY DEF resolveProvider, Matching, SUPPORTED_MODELS
<1>2. \E i \in Matching(m) : \A j \in Matching(m) : i <= j
  BY <1>1, SMTT(30)
<1>3. PICK i \in 1..6 : resolveProvider(m) = SUPPORTED_MODELS[i].provider
  <2> DEFINE first == CHOOSE i \in Matching(m) : \A j \in Matching(m) : i <= j
  <2>1. first \in Matching(m)
    BY <1>2
  <2>2. resolveProvider(m) = SUPPORTED_MODELS[first].provider
    BY <1>1 DEF resolveProvider
  <2> QED BY <2>1, <2>2, <1>1
<1> QED BY <1>3 DEF SUPPORTED_MODELS, Providers

\* Both of the models a router resolves go to a provider whose key is set.
LEMMA RoutedProviderHasKey ==
    ASSUME NEW c, keysValid(c), badNames(c) = {}, NEW k \in {Text, ImageModel}
    PROVE  /\ resolveProvider(c[k]) \in Providers
           /\ keyIsSet(c[KeyOf[resolveProvider(c[k])]])
<1>1. resolveProvider(c[k]) # Unresolved
  BY DEF badNames, Text, ImageModel
<1>2. resolveProvider(c[k]) \in Providers
  BY <1>1, ResolvesToProvider
<1>3. resolveProvider(c[k]) \in requiredProviders(c)
  BY <1>1 DEF requiredProviders, Text, ImageModel
<1> QED BY <1>2, <1>3 DEF keysValid

-----------------------------------------------------------------------------
LEMMA InitEstablishes == Init => StartupInv
BY ListsAssumption DEF Init, StartupInv, FilesInv, LimitInv, ConfigInv, RouterInv, ServedInv,
   Known, NoConfig, Keys

LEMMA EditPreserves ==
    ASSUME StartupInv, NEW env \in Environments, Edit(env)
    PROVE  StartupInv'
<1> USE DEF Edit
<1>1. FilesInv'
  BY DEF StartupInv, FilesInv, Known
<1>2. LimitInv'
  BY DEF StartupInv, LimitInv, parseLimit
<1>3. ConfigInv'
  BY DEF StartupInv, ConfigInv, keysValid, apiKeysValid, requiredProviders
<1>4. RouterInv'
  BY DEF StartupInv, RouterInv, badNames
<1>5. ServedInv'
  BY DEF StartupInv, ServedInv
<1> QED BY <1>1, <1>2, <1>3, <1>4, <1>5 DEF StartupInv

LEMMA LoadDotenvPreserves == ASSUME StartupInv, LoadDotenv PROVE StartupInv'
<1>1. Known(merge(dotEnv, shell))
  BY ListsAssumption DEF StartupInv, FilesInv, Known, merge, Keys
<1>2. FilesInv'
  BY <1>1, ListsAssumption DEF LoadDotenv, StartupInv, FilesInv, Known, NoConfig, Keys
<1> QED
  BY <1>2 DEF LoadDotenv, StartupInv, LimitInv, ConfigInv, RouterInv, ServedInv

LEMMA ImportPreserves == ASSUME StartupInv, ImportThrottler PROVE StartupInv'
<1> USE DEF ImportThrottler
<1>1. FilesInv'
  BY DEF StartupInv, FilesInv, Known
<1>2. LimitInv'
  BY DEF LimitInv, parseLimit, Limit
<1> QED
  BY <1>1, <1>2 DEF StartupInv, ConfigInv, RouterInv, ServedInv, FilesInv

LEMMA ConfigPreserves == ASSUME StartupInv, ConstructConfig PROVE StartupInv'
<1> DEFINE env == merge(dotEnv, process)
<1>1. FilesInv'
  <2>1. Known(env) /\ Known(withDefaults(env))
    BY ListsAssumption DEF StartupInv, FilesInv, Known, merge, withDefaults, Keys
  <2> QED BY <2>1 DEF ConstructConfig, StartupInv, FilesInv, Known
<1>2. LimitInv'
  <2>1. CASE phase' = "configured"
    <3>1. config' = withDefaults(env) /\ limit' = limit /\ process' = process /\ phase = "imported"
      BY <2>1 DEF ConstructConfig
    <3>2. process[Limit] # Absent => withDefaults(env)[Limit] = parseLimit(process[Limit])
      BY DEF withDefaults, merge, Limit, Keys
    <3> QED BY <2>1, <3>1, <3>2 DEF StartupInv, LimitInv
  <2>2. CASE phase' = "failed"
    BY <2>2 DEF LimitInv
  <2> QED BY <2>1, <2>2 DEF ConstructConfig
<1>3. ConfigInv'
  BY DEF ConstructConfig, ConfigInv, valid, keysValid, apiKeysValid, requiredProviders
<1> QED
  BY <1>1, <1>2, <1>3 DEF ConstructConfig, StartupInv, RouterInv, ServedInv, FilesInv

LEMMA RouterPreserves == ASSUME StartupInv, ConstructRouter PROVE StartupInv'
<1> USE DEF ConstructRouter
<1>1. FilesInv'
  BY DEF StartupInv, FilesInv, Known
<1>2. LimitInv'
  BY DEF StartupInv, LimitInv
<1>3. ConfigInv'
  BY DEF StartupInv, ConfigInv, keysValid, apiKeysValid, requiredProviders
<1>4. RouterInv'
  <2>1. CASE phase' = "listening"
    <3>1. badNames(config) = {} /\ config' = config /\ clients' = clients /\ phase = "configured"
      BY <2>1
    <3>2. router' = [text |-> Resolved(config[Text]), image |-> Resolved(config[ImageModel])]
      BY <3>1 DEF Text, ImageModel
    <3>3. clients = [p \in Providers |-> Absent]
      BY <3>1 DEF StartupInv, FilesInv
    <3> QED BY <3>1, <3>2, <3>3 DEF RouterInv, badNames
  <2>2. CASE phase' = "failed"
    BY <2>2 DEF RouterInv
  <2> QED BY <2>1, <2>2
<1>5. ServedInv'
  BY DEF StartupInv, FilesInv, ServedInv
<1> QED BY <1>1, <1>2, <1>3, <1>4, <1>5 DEF StartupInv

LEMMA ServePreserves ==
    ASSUME StartupInv, NEW p \in Payloads, Serve(p)
    PROVE  StartupInv'
<1> DEFINE task == IF isImage(p) THEN "image" ELSE "text"
           k == IF isImage(p) THEN ImageModel ELSE Text
           provider == router[task].provider
           key == getClient(provider)
<1>1. /\ phase = "listening" /\ phase' = phase /\ config' = config /\ router' = router
      /\ process' = process /\ limit' = limit /\ dotEnv' = dotEnv /\ shell' = shell
  BY DEF Serve
<1>2. task \in {"text", "image"} /\ router[task] = Resolved(config[k]) /\ k \in {Text, ImageModel}
  BY <1>1 DEF StartupInv, RouterInv
<1>3. provider = resolveProvider(config[k]) /\ router[task].model = config[k]
  BY <1>2 DEF Resolved
<1>4. provider \in Providers /\ keyIsSet(config[KeyOf[provider]])
  BY <1>1, <1>2, <1>3, RoutedProviderHasKey DEF StartupInv, RouterInv, ConfigInv
<1>5. key = config[KeyOf[provider]]
  BY <1>1, <1>4 DEF StartupInv, RouterInv, getClient
<1>6. key \notin {Absent, Empty}
  BY <1>4, <1>5 DEF keyIsSet
<1>7. served' = served \cup {[payload |-> p, task |-> task, provider |-> provider,
                             model |-> router[task].model, keyless |-> FALSE]}
  <2>1. served' = served \cup {[payload |-> p, task |-> task, provider |-> provider,
                                model |-> router[task].model,
                                keyless |-> key \in {Absent, Empty}]}
    BY ZenonT(30) DEF Serve, routedModel
  <2>2. (key \in {Absent, Empty}) = FALSE
    BY <1>6
  <2> HIDE DEF task, provider, key
  <2> QED BY <2>1, <2>2, Zenon
<1>8. clients' = [clients EXCEPT ![provider] = config[KeyOf[provider]]]
  BY <1>5, <1>6 DEF Serve
<1>9. FilesInv'
  BY <1>1 DEF StartupInv, FilesInv, Known
<1>10. LimitInv' /\ ConfigInv'
  BY <1>1 DEF StartupInv, LimitInv, ConfigInv, keysValid, apiKeysValid, requiredProviders
<1>11. RouterInv'
  <2>1. config[KeyOf[provider]] \in {config["GEMINI_API_KEY"], config["MISTRAL_API_KEY"]}
    BY <1>4 DEF Providers, KeyOf
  <2>2. clients' \in [Providers -> {Absent, config["GEMINI_API_KEY"], config["MISTRAL_API_KEY"]}]
    BY <1>1, <1>4, <1>8, <2>1 DEF StartupInv, RouterInv
  <2>3. \A q \in Providers : clients'[q] \in {Absent, config[KeyOf[q]]}
    BY <1>1, <1>4, <1>8 DEF StartupInv, RouterInv
  <2> QED BY <1>1, <2>2, <2>3 DEF StartupInv, RouterInv, badNames
<1>12. ServedInv'
  BY <1>1, <1>2, <1>7 DEF StartupInv, ServedInv
<1> QED BY <1>9, <1>10, <1>11, <1>12 DEF StartupInv

LEMMA StutterPreserves == ASSUME StartupInv, UNCHANGED vars PROVE StartupInv'
BY DEF vars, StartupInv, FilesInv, LimitInv, ConfigInv, RouterInv, ServedInv, Known, parseLimit,
   keysValid, apiKeysValid, requiredProviders, badNames

-----------------------------------------------------------------------------
\* The invariant of a process from its launch on, over any number of restarts.
THEOREM StartupInvariant == Spec => []StartupInv
<1>1. Init => StartupInv
  BY InitEstablishes
<1>2. StartupInv /\ [Next]_vars => StartupInv'
  BY EditPreserves, LoadDotenvPreserves, ImportPreserves, ConfigPreserves, RouterPreserves,
     ServePreserves, StutterPreserves DEF Next
<1> QED BY <1>1, <1>2, PTL DEF Spec

\* A process that listens has the key of every provider it routes a request to: the
\* schema's rule and the router's agree, however .env changes while it boots.
THEOREM KeysAreThere == Spec => []NoRequestLacksItsKey
<1>1. StartupInv => NoRequestLacksItsKey
  BY DEF StartupInv, ServedInv, NoRequestLacksItsKey
<1> QED BY <1>1, StartupInvariant, PTL

\* One run of the process sends all requests of one kind by one route.
THEOREM RoutesAreFixed == Spec => []OneRoutePerRun
<1>1. StartupInv => OneRoutePerRun
  BY DEF StartupInv, ServedInv, OneRoutePerRun
<1> QED BY <1>1, StartupInvariant, PTL

\* A process throttles by the limit its ConfigService validated, if .env or the shell
\* had one at launch.
THEOREM LimitsAgree == Spec => []LimitIsConfigured
<1>1. StartupInv => LimitIsConfigured
  BY DEF StartupInv, LimitInv, LimitIsConfigured, Limit
<1> QED BY <1>1, StartupInvariant, PTL

\* Exactly the holders of configured keys are let in.
THEOREM KeysLetIn == Spec => []ConfiguredKeysLetIn
<1>1. StartupInv => ConfiguredKeysLetIn
  <2> SUFFICES ASSUME StartupInv, phase = "listening", config["API_KEYS"] # Absent
               PROVE  {token \in Tokens : authenticates(token)} = KeysIn[config["API_KEYS"]]
    BY DEF ConfiguredKeysLetIn, authenticates, apiKeys
  <2>1. KeysIn[config["API_KEYS"]] \subseteq Tokens
    BY TokensAssumption DEF StartupInv, FilesInv, Known
  <2>2. apiKeysValid(config)
    BY DEF StartupInv, ConfigInv
  <2> QED BY <2>1, <2>2 DEF apiKeysValid, authenticates, apiKeys
<1> QED BY <1>1, StartupInvariant, PTL
=============================================================================
