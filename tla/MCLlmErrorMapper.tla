-------------------------- MODULE MCLlmErrorMapper --------------------------
(* Raw errors for TLC: up to two paths hold a value. *)
EXTENDS LlmErrorMapper

\* HTTP codes at the edges of the rules, 0, a DOMException's code (19), the
\* empty string, numeric strings and gRPC-style names.
Values ==
    {NumberValue(n) : n \in {0, 19, 400, 403, 404, 429, 499, 500, 503}}
    \cup {StringValue("", 0), StringValue("429", 429), StringValue("503", 503),
          StringValue("resource_exhausted", NoCode), StringValue("unavailable", NoCode),
          StringValue("rate_limit_exceeded", NoCode)}

Messages ==
    {{}, {"network"}, {"rateLimit"}, {"resourceExhausted"}, {"resourceExhausted", "rateLimit"},
     {"contentFiltered", "contextLength"}, {"contextLength", "network"}}

Names == {"Error", "HttpClientError"}

NoField == [p \in Paths |-> Undefined]

TwoFields ==
    {[e EXCEPT ![p] = v] :
        p \in Paths, v \in Values \cup {Undefined},
        e \in {[NoField EXCEPT ![q] = w] : q \in Paths, w \in Values \cup {Undefined}}}

Unparseable ==
    [at |-> [NoField EXCEPT !["status"] = NumberValue(400)], message |-> {},
     name |-> "BadRequestException"]

MCRawErrors == [at : TwoFields, message : Messages, name : Names] \cup {Unparseable}
=============================================================================
