------------------------------ MODULE JsonExtract ------------------------------
(***************************************************************************)
(* From what an SDK returns to the assessment a provider service returns:  *)
(* the text is put together, JsonParserUtility.parse(text, true) cuts the  *)
(* JSON out of it, and the schema decides.  A fenced block is taken as it  *)
(* is; else the text is scanned from its first brace to the matching one.  *)
(* A text is a sequence of characters, "x" standing for every character    *)
(* the scan does not look at; what the cut-out text means, once repaired   *)
(* and parsed, comes with the answer, and so does the anatomy of its       *)
(* object, which the code has to find out.                                 *)
(***************************************************************************)
EXTENDS Integers, Sequences, SequencesExt, FiniteSets

CONSTANT Answers   \* what the LLM answers: an object with prose around it

Characters == {"{", "}", "quote", "backslash", "x"}
Criteria == {"completeness", "accuracy", "spag"}

\* What a criterion of an assessment says.  Scores are counted in halves, for the LLM
\* may write any number, and a reason may be empty.
Criterion == [halves : Int, reasoned : BOOLEAN]

\* Position k of the object is in one of its strings, whose quotes count.
Quoted(a, k) == \E s \in a.strings : k \in s[1]..s[2]

\* A JSON object, its syntax between strings and braces aside: strings are the spans
\* from quote to quote, escapes the backslashes in them that take the next character's
\* meaning, and pairs the braces outside of them with the ones that close them.
isObject(a) ==
    LET o == a.object
    IN  /\ a.strings \cup a.pairs \subseteq {p \in (DOMAIN o) \X (DOMAIN o) : p[1] < p[2]}
        /\ \A s \in a.strings :
              /\ o[s[1]] = "quote" /\ o[s[2]] = "quote" /\ s[2] - 1 \notin a.escapes
              /\ \A k \in (s[1] + 1)..(s[2] - 1) :
                    /\ k \in a.escapes <=> o[k] = "backslash" /\ k - 1 \notin a.escapes
                    /\ o[k] = "quote" => k - 1 \in a.escapes
              /\ \A t \in a.strings : t # s => t[2] < s[1] \/ s[2] < t[1]
        /\ \A k \in a.escapes : \E s \in a.strings : k \in (s[1] + 1)..(s[2] - 1)
        /\ \A k \in DOMAIN o :
              /\ o[k] = "quote" => Quoted(a, k)
              /\ o[k] = "{" /\ ~ Quoted(a, k) => \E p \in a.pairs : p[1] = k
              /\ o[k] = "}" /\ ~ Quoted(a, k) => \E p \in a.pairs : p[2] = k
        /\ \A p \in a.pairs :
              /\ o[p[1]] = "{" /\ ~ Quoted(a, p[1])
              /\ o[p[2]] = "}" /\ ~ Quoted(a, p[2])
              /\ \A q \in a.pairs : q # p => q[1] # p[1] /\ q[2] # p[2]
        /\ <<1, Len(o)>> \in a.pairs

\* Of a truncated answer only the first characters of the object arrive.
truncated(a) == a.cut < Len(a.object)
written(a) == a.before \o SubSeq(a.object, 1, a.cut) \o a.after

\* Where the SDK puts the answer: in one string, in the text chunks amid others, each of
\* which goes on, up to its end, where the one before ended, or nowhere.
isResult(r, whole) ==
    \/ r.kind = "string" /\ r.text = whole
    \/ /\ r.kind = "chunks"
       /\ r.chunks \in Seq([type : {"text", "thinking"}, text : Seq(Characters),
                            end : 0..Len(whole)])
       /\ \A i \in DOMAIN r.chunks :
             LET c == r.chunks[i]
                 begin == IF i = 1 THEN 0 ELSE r.chunks[i - 1].end
             IN  IF c.type = "text"
                 THEN begin <= c.end /\ c.text = SubSeq(whole, begin + 1, c.end)
                 ELSE c.end = begin
       /\ IF r.chunks = << >> THEN whole = << >> ELSE Last(r.chunks).end = Len(whole)
    \/ r.kind = "none"

\* means is what the object parses to: one assessment, a list of them, or a bare
\* string.  What is in a fenced block need be no object, and where there is neither,
\* there is no brace.
isAnswer(a) ==
    /\ {a.before, a.object, a.after} \subseteq Seq(Characters)
    /\ ~ Contains(a.before, "{")
    /\ a.object = << >> => ~ Contains(a.after, "{")
    /\ a.fenced \in BOOLEAN
    /\ a.fenced \/ a.object = << >> \/ isObject(a)
    /\ a.cut \in 0..Len(a.object)
    /\ truncated(a) => a.after = << >> /\ ~ a.fenced
    /\ isResult(a.result, written(a))
    /\ a.means.kind \in {"object", "list", "scalar"}
    /\ a.means.kind # "scalar" =>
          \A i \in DOMAIN a.means.assessments :
              LET assessment == a.means.assessments[i]
              IN  /\ DOMAIN assessment \subseteq Criteria
                  /\ \A c \in DOMAIN assessment : assessment[c] \in Criterion

ASSUME AnswersAssumption == \A a \in Answers : isAnswer(a)

VARIABLES answer,    \* the answer being parsed
          text,      \* responseText
          index,     \* the scan's position
          depth,     \* how many braces are open
          inString,  \* whether the scan is inside a string
          escaped,   \* whether the last character escapes the next one
          content,   \* jsonContent, or how else the scan stands
          outcome    \* what _sendInternal returns or throws

extractVars == <<answer, text, index, depth, inString, escaped, content, outcome>>

Waiting == <<"waiting">>
Scanning == <<"scanning">>
BadRequest == <<"BadRequest">>

-----------------------------------------------------------------------------
(* Variants with plausible bugs, which no specification uses.               *)

\* A quote toggles inString even if it is escaped.
scanIgnoresEscapes(ch) ==
    /\ escaped' = FALSE
    /\ inString' = IF ch = "quote" THEN ~ inString ELSE inString
    /\ depth' = IF inString THEN depth
                ELSE CASE ch = "{" -> depth + 1 [] ch = "}" -> depth - 1 [] OTHER -> depth

\* Every chunk with a text counts.
extractEveryChunk(r) ==
    CASE r.kind = "string" -> r.text
      [] r.kind = "chunks" -> FlattenSeq([i \in DOMAIN r.chunks |-> r.chunks[i].text])
      [] OTHER -> << >>

-----------------------------------------------------------------------------
\* scanBraceChar: what one character does to the three flags.
scanBraceChar(ch) ==
    /\ escaped' = (~ escaped /\ inString /\ ch = "backslash")
    /\ inString' = IF ch = "quote" /\ ~ escaped THEN ~ inString ELSE inString
    /\ depth' = IF inString \/ escaped THEN depth
                ELSE CASE ch = "{" -> depth + 1 [] ch = "}" -> depth - 1 [] OTHER -> depth

\* Mistral's extractResponseText, and Gemini's result.text ?? ''.
extractResponseText(r) ==
    CASE r.kind = "string" -> r.text
      [] r.kind = "chunks" ->
            FlattenSeq([i \in DOMAIN r.chunks |->
                IF r.chunks[i].type = "text" THEN r.chunks[i].text ELSE << >>])
      [] OTHER -> << >>

\* LlmResponseSchema.
validCriterion(c) == c.halves % 2 = 0 /\ c.halves \in 0..10 /\ c.reasoned
validAssessment(a) == Criteria \subseteq DOMAIN a /\ \A c \in Criteria : validCriterion(a[c])

\* text.indexOf('{')
start == SelectInSeq(text, LAMBDA ch : ch = "{")

ExtractInit ==
    /\ answer \in Answers
    /\ text = << >>
    /\ index = 0
    /\ depth = 0
    /\ inString = FALSE
    /\ escaped = FALSE
    /\ content = Waiting
    /\ outcome = << >>

\* The call of the SDK returns.
Receive ==
    /\ content = Waiting
    /\ text' = extractResponseText(answer.result)
    /\ content' = Scanning
    /\ UNCHANGED <<answer, index, depth, inString, escaped, outcome>>

\* The regular expression for a fenced block comes first: it takes what is inside,
\* unless the block or the answer is empty.
blockFound == answer.fenced /\ answer.object # << >> /\ text # << >>

TakeBlock ==
    /\ content = Scanning /\ index = 0
    /\ blockFound
    /\ content' = answer.object
    /\ UNCHANGED <<answer, text, index, depth, inString, escaped, outcome>>

\* Else the scan starts at the first brace, if there is one.
FindStart ==
    /\ content = Scanning /\ index = 0
    /\ ~ blockFound
    /\ IF start = 0
       THEN content' = BadRequest /\ UNCHANGED index
       ELSE index' = start /\ UNCHANGED content
    /\ UNCHANGED <<answer, text, depth, inString, escaped, outcome>>

\* One round of the loop.  The brace that closes the first one ends it.
Scan ==
    /\ content = Scanning /\ index \in 1..Len(text)
    /\ scanBraceChar(text[index])
    /\ index' = index + 1
    /\ content' = IF text[index] = "}" /\ depth' = 0 /\ depth = 1
                  THEN SubSeq(text, start, index) ELSE Scanning
    /\ UNCHANGED <<answer, text, outcome>>

\* The text ends inside the object.
GiveUp ==
    /\ content = Scanning /\ index > Len(text)
    /\ content' = BadRequest
    /\ UNCHANGED <<answer, text, index, depth, inString, escaped, outcome>>

\* The parser throws, on a bare string too; of a list the first element counts, and an
\* empty one has none.
Validate ==
    /\ content \notin {Waiting, Scanning} /\ outcome = << >>
    /\ outcome' =
          CASE content = BadRequest -> BadRequest
            [] content # BadRequest /\ answer.means.kind = "scalar" -> BadRequest
            [] OTHER ->
                  LET list == answer.means.assessments
                  IN  IF list # << >> /\ validAssessment(list[1])
                      THEN <<"response", list[1]>> ELSE <<"ZodError">>
    /\ UNCHANGED <<answer, text, index, depth, inString, escaped, content>>

ExtractNext == Receive \/ TakeBlock \/ FindStart \/ Scan \/ GiveUp \/ Validate

ExtractSpec == ExtractInit /\ [][ExtractNext]_extractVars

-----------------------------------------------------------------------------
\* An answer that arrived whole.
Whole == ~ truncated(answer) /\ answer.object # << >> /\ answer.result.kind # "none"

\* What reaches JSON.parse is exactly the object the LLM wrote, whatever braces,
\* quotes and backslashes its strings contain and whatever prose comes before (with
\* no brace) and after; of a truncated object nothing is taken.
ExtractsExactlyTheObject ==
    content \notin {Waiting, Scanning} =>
        content = IF Whole THEN answer.object ELSE BadRequest

\* What the service returns depends on what the LLM answered and not on how it arrived,
\* in one string or in pieces amid the model's thinking, fenced or not: the first
\* assessment it wrote if all three criteria have a whole score from 0 to 5 and a
\* reason, and else an error.
OutcomeIsOfTheFirstAssessment ==
    outcome # << >> =>
        IF Whole /\ answer.means.kind # "scalar"
        THEN LET list == answer.means.assessments
             IN  IF list # << >> /\ validAssessment(list[1])
                 THEN outcome = <<"response", list[1]>>
                 ELSE outcome = <<"ZodError">>
        ELSE outcome = BadRequest
================================================================================
