----------------------------- MODULE MCJsonExtract -----------------------------
EXTENDS JsonExtract

\* The objects of a small grammar, with their anatomy: strings with braces and escapes
\* in them, and objects in objects.
Piece(o, es) == [object |-> o, strings |-> {}, escapes |-> es, pairs |-> {}]
Shifted(spans, n) == {<<s[1] + n, s[2] + n>> : s \in spans}
a ++ b ==
    LET n == Len(a.object)
    IN  [object |-> a.object \o b.object,
         strings |-> a.strings \cup Shifted(b.strings, n),
         escapes |-> a.escapes \cup {k + n : k \in b.escapes},
         pairs |-> a.pairs \cup Shifted(b.pairs, n)]

Empty == Piece(<< >>, {})
Letter == Piece(<<"x">>, {})
String(p) ==
    LET q == Piece(<<"quote">>, {}) s == q ++ p ++ q
    IN  [s EXCEPT !.strings = {<<1, Len(s.object)>>}]
Curly(p) ==
    LET s == Piece(<<"{">>, {}) ++ p ++ Piece(<<"}">>, {})
    IN  [s EXCEPT !.pairs = @ \cup {<<1, Len(s.object)>>}]

Units ==
    { Letter, Piece(<<"{">>, {}), Piece(<<"}">>, {}), Piece(<<"backslash", "quote">>, {1}),
      Piece(<<"backslash", "backslash">>, {1}) }
Strings == { String(p) : p \in {Empty} \cup Units \cup {u ++ v : u \in Units, v \in Units} }
Braced(ps) == { Curly(p) : p \in ps }
Flat == Braced({Empty} \cup Strings \cup {s ++ Letter ++ t : s \in Strings, t \in Strings})
Nested ==
    Braced({s ++ o : s \in Strings, o \in Braced(Strings)}
           \cup {o ++ Letter ++ o : o \in Braced(Strings)})

Before == { << >>, <<"x", "quote">>, <<"}", "backslash">> }
After == { << >>, <<"}">>, <<"quote", "{">> }

\* Assessments: good, with one criterion at or beyond a limit, and with one missing.
Good == [c \in Criteria |-> [halves |-> 10, reasoned |-> TRUE]]
Lists ==
    { <<[Good EXCEPT !.spag.halves = h]>> : h \in {-2, 0, 5, 12} }
      \cup { << >>, <<Good>>, <<[Good EXCEPT !.accuracy.reasoned = FALSE]>>,
             <<[c \in Criteria \ {"spag"} |-> Good[c]]>>, <<[c \in {} |-> c], Good>>,
             <<Good, [c \in {} |-> c]>> }
Object == [kind |-> "object", assessments |-> <<Good>>]
Meanings ==
    { [kind |-> "list", assessments |-> l] : l \in Lists }
      \cup { [kind |-> "object", assessments |-> l] : l \in {k \in Lists : Len(k) = 1} }
      \cup { [kind |-> "scalar"] }

Plain(b, p, c, a) ==
    [fenced |-> FALSE, cut |-> c, before |-> b, object |-> p.object, after |-> a,
     strings |-> p.strings, escapes |-> p.escapes, pairs |-> p.pairs, means |-> Object,
     result |-> [kind |-> "string", text |-> b \o SubSeq(p.object, 1, c) \o a]]

\* The texts: whole, fenced, empty, cut off after a character or before the last.
Written ==
    { Plain(b, p, Len(p.object), a) : b \in Before, p \in Flat \cup Nested, a \in After }
      \cup { [Plain(b, p, Len(p.object), << >>) EXCEPT !.fenced = TRUE] :
                b \in Before, p \in {Empty} \cup Braced(Strings) }
      \cup { Plain(b, p, c, << >>) : b \in Before, p \in Braced(Strings), c \in 0..1 }
      \cup { Plain(b, p, Len(p.object) - 1, << >>) : b \in Before, p \in Nested }

\* A text in two chunks with the model's thinking before and between, which may have
\* braces and quotes of its own.
Chunk(type, s, e) == [type |-> type, text |-> s, end |-> e]
InChunks(a, n, thought) ==
    LET whole == a.result.text
    IN  [a EXCEPT !.result =
            [kind |-> "chunks",
             chunks |-> << Chunk("thinking", thought, 0), Chunk("text", SubSeq(whole, 1, n), n),
                           Chunk("thinking", thought, n),
                           Chunk("text", SubSeq(whole, n + 1, Len(whole)), Len(whole)) >>]]

\* Whatever an unfenced text means, it is no bare string, for it begins with a brace.
MCAnswers ==
    LET short == { a \in Written : Len(a.object) <= 4 /\ Len(a.after) <= 1 }
    IN  Written
          \cup { [a EXCEPT !.means = m] :
                    a \in {w \in short : w.fenced /\ w.before = << >>}, m \in Meanings }
          \cup { [a EXCEPT !.means = m] :
                    a \in {w \in short : ~ w.fenced /\ w.before = << >>},
                    m \in {n \in Meanings : n.kind = "object"} }
          \cup { InChunks(a, n, th) : a \in {w \in short : Len(w.result.text) >= 2}, n \in 0..2,
                    th \in {<<"x">>, <<"{">>, <<"quote">>, <<"}">>} }
          \cup { [a EXCEPT !.result = [kind |-> "none"]] : a \in short }
================================================================================
