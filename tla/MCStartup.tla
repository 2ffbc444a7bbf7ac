------------------------------- MODULE MCStartup -------------------------------
EXTENDS Startup, TLC

ModelNames == {"mistral-small-latest", "gemini-2.5-flash-lite", "gpt-4o", "claude"}

ModelPrefixes ==
    [m \in ModelNames |->
        CASE m = "mistral-small-latest"  -> {"mistral-small-latest"}
          [] m = "gemini-2.5-flash-lite" -> {"gemini-2.5-flash"}
          [] OTHER -> {}]

\* Keys of two prefixes of one length, one of a longer prefix, one cut short, and
\* the empty one that an empty list amounts to.
MCTokens == {"abt_K1", "abt_K2", "key_K3", "abt_x_K4", "abt_short", Empty}
MCKeysIn ==
    ("two" :> {"abt_K1", "abt_K2"}) @@ ("renamed" :> {"key_K3"}) @@ ("longer" :> {"abt_x_K4"})
    @@ ("mixed" :> {"abt_K1", "key_K3"}) @@ ("cut" :> {"abt_short"}) @@ (Empty :> {Empty})
MCStartsWith ==
    [t \in MCTokens |-> CASE t = "key_K3" -> {"key_"} [] t = "abt_x_K4" -> {"abt_", "abt_x_"}
                           [] t = Empty -> {} [] OTHER -> {"abt_"}]
MCSoundAfter ==
    [t \in MCTokens |-> CASE t \in {"abt_short", Empty} -> {} [] t = "abt_x_K4" -> {"abt_x_"}
                           [] OTHER -> {"abt_", "key_"}]

\* What .env may set: each model to a name of either provider or to an unsupported
\* one, and the keys to nothing, blanks or a key.  In some deployments, with both
\* keys, the limit is set badly or to nothing, or there are API keys and a prefix.
DotEnvs ==
    LET env(text, image, gemini, mistral, bound) ==
            [k \in Keys |-> CASE k = "DEFAULT_TEXT_TABLE_MODEL" -> text
                              [] k = "DEFAULT_IMAGE_MODEL" -> image
                              [] k = "GEMINI_API_KEY" -> gemini
                              [] k = "MISTRAL_API_KEY" -> mistral
                              [] k = "AUTHENTICATED_THROTTLER_LIMIT" -> bound
                              [] OTHER -> Absent]
        withKeys(list, prefix) ==
            [env(Absent, Absent, Empty, "key", Absent)
                EXCEPT !["API_KEYS"] = list, !["API_KEY_PREFIX"] = prefix]
    IN  { env(t, i, g, m, Absent) :
              t \in {Absent, "gemini-2.5-flash-lite", "gpt-4o"},
              i \in {Absent, "gemini-2.5-flash-lite", "claude"},
              g \in {Empty, "key"}, m \in {Absent, Blank, "key"} }
          \cup { env(t, Absent, "key", "key", b) :
                    t \in {Absent, "gemini-2.5-flash-lite"}, b \in {Empty, "many"} }
          \cup { withKeys(l, p) : l \in DOMAIN MCKeysIn, p \in {Absent, Empty, "key_", "abt_x_"} }

\* The shell sets nothing, or the limit, or a Mistral key.
LaunchShells ==
    { NoConfig,
      [NoConfig EXCEPT !["AUTHENTICATED_THROTTLER_LIMIT"] = "1"],
      [NoConfig EXCEPT !["MISTRAL_API_KEY"] = "key"] }

\* Legacy text and images, conversations with and without an image, and legacy
\* payloads with messages beside; one caller asks for a model of its own.
SomePayloads ==
    { [fields |-> {"user"}, imagePart |-> FALSE, model |-> Absent],
      [fields |-> {"images"}, imagePart |-> FALSE, model |-> Absent],
      [fields |-> {"messages"}, imagePart |-> FALSE, model |-> "gemini-2.5-flash-lite"],
      [fields |-> {"messages"}, imagePart |-> TRUE, model |-> Absent],
      [fields |-> {"user", "messages"}, imagePart |-> TRUE, model |-> Absent] }
==============================================================================
