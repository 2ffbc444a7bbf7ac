----------------------------- MODULE MCThrottler -----------------------------
EXTENDS Throttler

Number(n) == [is |-> "number", n |-> n]
Other(kind) == [is |-> kind, n |-> 0]

\* The defaults scaled down.
MCDefaults == [s \in Settings |-> CASE s = "ttl" -> 2 [] s = "unauthenticated" -> 1 [] OTHER -> 3]

\* Each limit absent, empty, none, one or two, with a window that is absent, empty or
\* given; and malformed values.
MCEnvironments ==
    LET environment(t, u, a) ==
            [s \in Settings |-> CASE s = "ttl" -> t [] s = "unauthenticated" -> u [] OTHER -> a]
    IN  { environment(t, u, a) :
              t \in {Other("absent"), Other("empty"), Number(3)},
              u \in {Other("absent"), Other("empty"), Number(2)},
              a \in {Other("absent"), Number(0), Number(1)} }
        \cup { environment(Other("malformed"), Number(2), Number(2)),
               environment(Number(1), Other("malformed"), Number(2)) }
==============================================================================
