------------------------------- MODULE Throttler -------------------------------
(***************************************************************************)
(* The rate limits over time: throttler.config.ts parses three variables   *)
(* when it is imported, and the ThrottlerGuard counts the requests of each *)
(* route and tracker with the window and the limit it was given.  What     *)
(* happened is known by its age, so that time may go on for ever: an age   *)
(* beyond Cap is not told from Cap.                                        *)
(*                                                                         *)
(* The storage of @nestjs/throttler is external: every counted request is  *)
(* forgotten when it is ttl old, and a counter that exceeds its limit      *)
(* blocks for ttl and then starts anew.                                    *)
(***************************************************************************)
EXTENDS Integers, Sequences

CONSTANTS Counters,       \* a counter for each route and tracker
          Authenticated,  \* those of the routes with @Throttle(authenticatedThrottler)
          Environments,   \* what process.env may say of the three variables
          Defaults,       \* the defaults of the schema
          Second,         \* how many units of time, milliseconds, a second has
          Cap             \* bound: the greatest age that is told from greater ones

Settings == {"ttl", "unauthenticated", "authenticated"}

\* A variable is absent, empty, malformed (or negative), or a number.
Raw == [is : {"absent", "empty", "malformed", "number"}, n : Nat]

parse(raw, default) ==
    CASE raw.is = "absent" -> default
      [] raw.is = "empty"  -> 0
      [] OTHER             -> raw.n

\* A variant with a plausible bug, which no specification uses: coercion comes before
\* the default, so that an absent variable is an empty one.
parsedCoercesFirst(e) ==
    [s \in Settings |-> IF e[s].is = "absent" THEN 0 ELSE parse(e[s], Defaults[s])]

parsed(e) == [s \in Settings |-> parse(e[s], Defaults[s])]

ASSUME CountersAssumption == Authenticated \subseteq Counters
ASSUME SettingsAssumption ==
    /\ Defaults \in [Settings -> Nat]
    /\ Environments \subseteq [Settings -> Raw]
ASSUME CapAssumption == Cap \in Nat /\ \A e \in Environments : parsed(e)["ttl"] <= Cap

VARIABLES env,         \* the variables in process.env
          phase,       \* "off", "up" or "failed"
          config,      \* throttlerConfig and authenticatedThrottler
          counted,     \* of each counter, the ages of the counted requests, oldest first
          blockedFor,  \* how long it has been blocking, or NotBlocked
          admitted,    \* history: the ages of its last admissions, as many as its limit
          event        \* history: the request the last step decided on, and how

vars == <<env, phase, config, counted, blockedFor, admitted, event>>

NotBlocked == -1
NoEvent == << >>
NoConfig == [s \in Settings |-> 0]

-----------------------------------------------------------------------------
(* Variants with plausible bugs, which no specification uses.               *)

\* The controller forgets its @Throttle().
limitOfDefault(k) == config["unauthenticated"]

\* The two limits are mixed up.
ImportMixedUp ==
    /\ phase = "off"
    /\ phase' = "up"
    /\ config' = [parsed(env) EXCEPT !["authenticated"] = parsed(env)["unauthenticated"],
                                     !["unauthenticated"] = parsed(env)["authenticated"]]
    /\ UNCHANGED <<env, counted, blockedFor, admitted, event>>

-----------------------------------------------------------------------------
\* ThrottlerGuard takes the limit of a route, unless it is 0, before the global one.
limitOf(k) ==
    IF k \in Authenticated /\ config["authenticated"] # 0
    THEN config["authenticated"] ELSE config["unauthenticated"]

valid(e) == \A s \in Settings : e[s].is # "malformed"

older(age) == IF age < Cap THEN age + 1 ELSE age
aged(ages) == [i \in DOMAIN ages |-> older(ages[i])]

\* The last n of the admissions and the one just made.
remember(ages, n) == IF Len(ages) < n THEN Append(ages, 0) ELSE Append(Tail(ages), 0)

Init ==
    /\ env \in Environments
    /\ phase = "off"
    /\ config = NoConfig
    /\ counted = [k \in Counters |-> << >>]
    /\ blockedFor = [k \in Counters |-> NotBlocked]
    /\ admitted = [k \in Counters |-> << >>]
    /\ event = NoEvent

\* throttler.config.ts is imported; what is malformed keeps the process from starting.
Import ==
    /\ phase = "off"
    /\ IF valid(env)
       THEN config' = parsed(env) /\ phase' = "up"
       ELSE phase' = "failed" /\ UNCHANGED config
    /\ UNCHANGED <<env, counted, blockedFor, admitted, event>>

\* The counted requests a new one is added to: none once a block is over.
base(k) == IF blockedFor[k] >= config["ttl"] THEN << >> ELSE counted[k]
blocking(k) == blockedFor[k] \in 0..(config["ttl"] - 1)
fits(k) == Len(base(k)) < limitOf(k)

\* A request is let through and counted.
Admit(k) ==
    /\ phase = "up" /\ ~ blocking(k) /\ fits(k)
    /\ counted' = [counted EXCEPT ![k] = Append(base(k), 0)]
    /\ blockedFor' = [blockedFor EXCEPT ![k] = NotBlocked]
    /\ admitted' = [admitted EXCEPT ![k] = remember(@, limitOf(k))]
    /\ event' = <<k, "admitted">>
    /\ UNCHANGED <<env, phase, config>>

\* A request exceeds the limit: it is counted too, and blocks.
Block(k) ==
    /\ phase = "up" /\ ~ blocking(k) /\ ~ fits(k)
    /\ counted' = [counted EXCEPT ![k] = Append(base(k), 0)]
    /\ blockedFor' = [blockedFor EXCEPT ![k] = 0]
    /\ event' = <<k, "rejected">>
    /\ UNCHANGED <<env, phase, config, admitted>>

\* A request that comes during a block is not counted.
Reject(k) ==
    /\ phase = "up" /\ blocking(k)
    /\ event' = <<k, "rejected">>
    /\ UNCHANGED <<env, phase, config, counted, blockedFor, admitted>>

Ask(k) == Admit(k) \/ Block(k) \/ Reject(k)

\* The timer of the oldest counted request forgets it, at its time or later.
Expire(k) ==
    /\ phase = "up"
    /\ counted[k] # << >> /\ Head(counted[k]) >= config["ttl"]
    /\ counted' = [counted EXCEPT ![k] = Tail(@)]
    /\ event' = NoEvent
    /\ UNCHANGED <<env, phase, config, blockedFor, admitted>>

Tick ==
    /\ phase = "up"
    /\ counted' = [k \in Counters |-> aged(counted[k])]
    /\ blockedFor' = [k \in Counters |->
                        IF blockedFor[k] = NotBlocked THEN NotBlocked ELSE older(blockedFor[k])]
    /\ admitted' = [k \in Counters |-> aged(admitted[k])]
    /\ event' = NoEvent
    /\ UNCHANGED <<env, phase, config>>

Next == Import \/ Tick \/ \E k \in Counters : Ask(k) \/ Expire(k)

Spec == Init /\ [][Next]_vars

\* Time goes on, and every client asks again and again.
Fairness == WF_vars(Import) /\ WF_vars(Tick) /\ \A k \in Counters : WF_vars(Ask(k))

FairSpec == Spec /\ Fairness

-----------------------------------------------------------------------------
\* What the documentation calls the limit of a route; 0 for the assessor is as good as none.
documentedLimit(k) ==
    LET own == config[IF k \in Authenticated THEN "authenticated" ELSE "unauthenticated"]
    IN  IF own = 0 THEN config["unauthenticated"] ELSE own

\* The invariant: an open counter counts the latest admissions and has forgotten only
\* such as are ttl old, and a blocking one has admitted nothing since.
Remembers(k) ==
    LET n == Len(admitted[k])  m == Len(counted[k])
    IN  /\ n <= documentedLimit(k)
        /\ blockedFor[k] = NotBlocked =>
              /\ m <= n
              /\ \A j \in 1..m : counted[k][j] = admitted[k][n - m + j]
              /\ \A i \in 1..(n - m) : admitted[k][i] >= config["ttl"]
        /\ blockedFor[k] # NotBlocked => \A i \in 1..n : admitted[k][i] >= blockedFor[k]

ThrottlerInv ==
    /\ env \in Environments
    /\ phase \in {"off", "up", "failed"}
    /\ config \in [Settings -> Nat] /\ config["ttl"] <= Cap
    /\ counted \in [Counters -> Seq(0..Cap)]
    /\ blockedFor \in [Counters -> (0..Cap) \cup {NotBlocked}]
    /\ admitted \in [Counters -> Seq(0..Cap)]
    /\ \A k \in Counters : Remembers(k)

\* When a request is admitted, the one as many admissions before it as the limit says
\* is at least so old.
SpacedBy(width) ==
    \A k \in Counters :
        LET limit == documentedLimit(k)  n == Len(admitted[k])
        IN  event' = <<k, "admitted">> =>
                /\ limit # 0
                /\ n >= limit => admitted[k][n - limit + 1] >= width

\* No window of ttl, wherever it begins, has more admissions of one counter than its
\* limit, whatever blocks, late timers and other counters come between.
WindowIsBounded == [][SpacedBy(config["ttl"])]_vars

\* The same of a window of as many seconds.
WindowIsInSeconds == [][SpacedBy(Second * config["ttl"])]_vars

\* A limit a deployment sets to nothing counts as 0, and 0 for the assessor leaves it
\* with the limit of the other routes.
lockedOut(k) ==
    LET nothing(s) == env[s].is = "empty" \/ (env[s].is = "number" /\ env[s].n = 0)
    IN  nothing("unauthenticated") /\ (k \in Authenticated => nothing("authenticated"))

\* Nobody is shut out for good: a client that asks for ever, also in vain and also
\* during a block, is let through again and again, whatever the limits and the window,
\* unless its limit, and for the assessor that of the other routes too, is set to 0 or to
\* nothing.
EveryoneIsAdmittedAgain ==
    \A k \in Counters :
        (valid(env) /\ ~ lockedOut(k)) => []<>(event = <<k, "admitted">>)

-----------------------------------------------------------------------------
\* What the rest of the service sees of the counters.  A block that is over is none,
\* and nothing is counted then, though the storage finds out with the next request.
limits ==
    [k \in Counters |->
        parsed(env)[IF k \in Authenticated /\ parsed(env)["authenticated"] # 0
                    THEN "authenticated" ELSE "unauthenticated"]]
counts == [k \in Counters |-> IF phase = "up" THEN Len(base(k)) ELSE 0]
blocks == {k \in Counters : phase = "up" /\ blocking(k)}

Contract == INSTANCE ThrottleContract WITH limit <- limits, count <- counts, blocked <- blocks

\* The throttler with its ages, windows and late timers implements the contract, with
\* the limits the process was started with.
ThrottlesByContract == Contract!Spec
================================================================================
