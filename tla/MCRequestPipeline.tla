--------------------------- MODULE MCRequestPipeline ---------------------------
EXTENDS RequestPipeline

Post(scheme, token, body) ==
    [route |-> "assessor", ip |-> "addr", scheme |-> scheme, token |-> token,
     query |-> NoToken, posted |-> NoToken, body |-> body]
Plain(body) == Post("none", NoToken, body)
Health(p) == [p EXCEPT !.route = "health"]

\* One request of any kind: two customers and a stranger behind one address, every
\* header, parameter and body, health checks with and without a token, which is spelled
\* like the address ...
AnyKind ==
    { Post("Bearer", "key1", b) :
          b \in {"text", "oddImage", "badImage", "tooLarge", "notJson", "unreadable"} }
      \cup { Post("Bearer", "key2", "invalid"), Post("Bearer", "stray", "text"),
             Post("bearer", "key1", "text"), Post("Bearer_", "key1", "text"), Plain("text"),
             [Plain("text") EXCEPT !.query = "key1"],
             [Plain("invalid") EXCEPT !.posted = "key1"],
             [Post("Bearer", "key1", "text") EXCEPT !.query = "key1"] }
      \cup { Health(Plain("text")), Health(Post("Bearer", "addr", "text")) }

\* ... beside one that competes with it, for a key, the address or a status route, and a
\* third for which the limit of two is needed.
MCProfiles ==
    [ r1 |-> AnyKind,
      r2 |-> {Post("Bearer", "key1", "image"), [Plain("image") EXCEPT !.query = "key1"],
              Health(Plain("text"))},
      r3 |-> {Health(Plain("text"))} ]
================================================================================
