----------------------------- MODULE MCImageRequest -----------------------------
EXTENDS ImageRequest

\* image/x_y is a type an operator may allow though its name is no token for the
\* code; image/gif is one the operator does not allow.
Types == {"image/png", "image/x_y", "image/gif"}

\* Payloads around the limit of 4 bytes, which like 1 MiB is 1 modulo 3: its
\* largest image ends in two "=".
Payloads ==
    { <<0, 0>>, <<2, 2>>, <<3, 1>>, <<4, 0>>, <<5, 0>>, <<6, 2>>, <<6, 0>>, <<7, 1>>, <<8, 0>>, <<5, 3>> }

Uri(prefix, mime, params, comma, payload, dirt) ==
    [ prefix |-> prefix, mime |-> mime, params |-> params, comma |-> comma,
      chars |-> payload[1], pad |-> payload[2], dirt |-> dirt ]

Good == Uri("data:image/", "image/png", <<"base64">>, TRUE, <<6, 2>>, "none")

\* Any type with any payload, and a good image with one flaw.
Uris ==
    { Uri("data:image/", m, <<"base64">>, TRUE, p, "none") : m \in Types, p \in Payloads }
      \cup { [Good EXCEPT !.params = q] :
                q \in {<< >>, <<"other", "base64">>, <<"base64", "other">>} }
      \cup { [Good EXCEPT !.prefix = "data:"], [Good EXCEPT !.prefix = "other"],
             [Good EXCEPT !.comma = FALSE], [Good EXCEPT !.dirt = "junk"],
             [Good EXCEPT !.dirt = "newline"], [Good EXCEPT !.chars = 22] }

\* Two of the fields may be arbitrary at a time, the third one is good.
ImageBodies ==
    LET pairs == Uris \X Uris
    IN  { [reference |-> p[1], template |-> p[2], studentResponse |-> Good] : p \in pairs }
          \cup { [reference |-> Good, template |-> p[1], studentResponse |-> p[2]] : p \in pairs }
=================================================================================
