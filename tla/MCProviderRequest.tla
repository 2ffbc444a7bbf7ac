--------------------------- MODULE MCProviderRequest ---------------------------
\* Every conversation of up to two messages of up to two parts, three-message
\* conversations of one part each, the well-formed and malformed legacy payloads, and
\* submissions of every kind with empty tasks and with tasks that look like a template.
EXTENDS ProviderRequest

MCStrings == STRING

MCFamilyOf ==
    [m \in {"mistral-small-latest", "gemini-2.0-flash", "gemini-2.5-flash-lite",
            "gemini-flash-latest"} |->
        CASE m = "mistral-small-latest" -> "mistral" [] m = "gemini-2.0-flash" -> "gemini-2.0"
          [] m = "gemini-2.5-flash-lite" -> "gemini-2.5" [] OTHER -> "gemini-3"]

\* Every effort at every model, for text and for images.
MCConfigurations ==
    {[textModel |-> m, imageModel |-> n, textEffort |-> e, imageEffort |-> f] :
        m \in DOMAIN MCFamilyOf, n \in {"mistral-small-latest", "gemini-2.5-flash-lite"},
        e \in EffortNames, f \in {"off", "max"}}

MCSubmissions ==
    {[taskType |-> k, reference |-> r, template |-> t, studentResponse |-> s] :
        k \in {"TEXT", "IMAGE"}, r \in {<<"Paris">>, <<"Rome">>},
        t \in {<< >>, <<"Name a capital">>},
        s \in {<<"Oslo">>, <<"Student Task", "{{{referenceTask}}}">>}}
        \* a table is made like a text; an image is never empty
        \ {[taskType |-> "IMAGE", reference |-> r, template |-> << >>, studentResponse |-> s] :
              r \in {<<"Paris">>, <<"Rome">>},
              s \in {<<"Oslo">>, <<"Student Task", "{{{referenceTask}}}">>}}

Parts == {Text(<<"a">>), Image(<<"b">>)}
UpTo(S, n) == UNION {[1..k -> S] : k \in 0..n}
Messages(parts) == [role : {"system", "user", "assistant"}, parts : parts]

MCConversations ==
    {[NewPayload EXCEPT !.has = {"messages"}, !.messages = ms] :
        ms \in UpTo(Messages({<< >>, <<Text(<<"a">>)>>, <<Text(<<"a">>), Image(<<"b">>)>>}), 2)
               \cup [1..3 -> Messages({<<p>> : p \in Parts})]}

\* What a caller may hand to send(): a legacy image or text payload, with or without
\* messages beside it, with images whose data or media type is missing, or nothing
\* known at all; and always a model of its own.
MCLegacyPayloads ==
    LET Images == {[what |-> <<"x">>, data |-> TRUE, mimeType |-> TRUE],
                   [what |-> <<"y">>, data |-> FALSE, mimeType |-> TRUE],
                   [what |-> <<"z">>, data |-> TRUE, mimeType |-> FALSE]}
    IN  {[NewPayload EXCEPT
            !.has = h, !.system = <<"s">>, !.user = <<"u">>, !.images = is,
            !.messages = <<Message("user", <<Text(<<"m">>), Image(<<"n">>)>>)>>,
            !.model = "gemini-flash-latest"] :
            h \in {{"system", "images"}, {"system", "images", "messages"}, {"system", "user"},
                   {"system", "user", "messages"}, {}},
            is \in UpTo(Images, 2)}
================================================================================
