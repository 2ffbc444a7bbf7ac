---------------------------- MODULE ThrottlerProofs ----------------------------
(***************************************************************************)
(* Why no window ever has more admissions than its limit, for any set of   *)
(* counters, any environments and any defaults.  The invariant relates     *)
(* what the storage counts to the admissions that were made.               *)
(***************************************************************************)
EXTENDS Throttler, TLAPS

USE DEF Settings, NotBlocked

Ages == 0..Cap

-----------------------------------------------------------------------------
(* Lemmas about ages.                                                       *)

\* What is older is no younger than anything was by as much.
LEMMA OlderKeepsOrder ==
    ASSUME NEW a \in Ages, NEW b \in Ages, a >= b
    PROVE  older(a) \in Ages /\ older(a) >= older(b) /\ older(a) >= b /\ older(a) >= a
BY CapAssumption DEF older, Ages

\* Ageing a sequence keeps its length.
LEMMA AgedSequence ==
    ASSUME NEW s \in Seq(Ages)
    PROVE  /\ aged(s) \in Seq(Ages)
           /\ Len(aged(s)) = Len(s)
           /\ \A i \in 1..Len(s) : aged(s)[i] = older(s[i])
<1>1. ASSUME NEW i \in 1..Len(s) PROVE older(s[i]) \in Ages
    <2>1. s[i] \in Ages
        OBVIOUS
    <2>. QED  BY <2>1, CapAssumption DEF older, Ages
<1>. QED  BY <1>1 DEF aged

\* Where the last m of n elements stand.
LEMMA LastPositions ==
    ASSUME NEW n \in Nat, NEW m \in Nat, m <= n
    PROVE  /\ \A j \in 1..m : n - m + j \in 1..n
           /\ \A i \in 1..(n - m) : i \in 1..n
           /\ \A j \in 1..(m - 1) : j + 1 \in 1..m /\ n - m + (j + 1) = n - (m - 1) + j
           /\ \A i \in 1..(n - (m - 1)) : i \in 1..(n - m) \/ i = n - m + 1
OBVIOUS

\* A parsed environment is a configuration.
LEMMA ParsedIsConfig ==
    ASSUME NEW e \in Environments
    PROVE  parsed(e) \in [Settings -> Nat] /\ parsed(e)["ttl"] <= Cap
<1>1. \A s \in Settings : e[s] \in Raw
    BY SettingsAssumption
<1>2. \A s \in Settings : Defaults[s] \in Nat
    BY SettingsAssumption
<1>3. \A s \in Settings : parse(e[s], Defaults[s]) \in Nat
    BY <1>1, <1>2 DEF parse, Raw
<1>. QED  BY <1>3, CapAssumption DEF parsed

-----------------------------------------------------------------------------
\* The initial states satisfy the invariant.
LEMMA InitInv == Init => ThrottlerInv
<1>. SUFFICES ASSUME Init PROVE ThrottlerInv
    OBVIOUS
<1>1. config \in [Settings -> Nat] /\ config["ttl"] <= Cap
    BY CapAssumption DEF Init, NoConfig
<1>2. /\ counted \in [Counters -> Seq(0..Cap)]
      /\ blockedFor \in [Counters -> (0..Cap) \cup {NotBlocked}]
      /\ admitted \in [Counters -> Seq(0..Cap)]
    BY DEF Init
<1>3. ASSUME NEW k \in Counters PROVE Remembers(k)
    BY <1>1 DEF Init, Remembers, documentedLimit
<1>. QED  BY <1>1, <1>2, <1>3 DEF Init, ThrottlerInv

\* Before the import nothing has been counted, so that any limit will do.
ColdInv ==
    phase = "off" =>
        /\ event = NoEvent
        /\ \A k \in Counters :
              admitted[k] = << >> /\ counted[k] = << >> /\ blockedFor[k] = NotBlocked

LEMMA InitCold == Init => ColdInv
BY DEF Init, ColdInv

LEMMA StepCold == ColdInv /\ [Next]_vars => ColdInv'
BY DEF ColdInv, Next, vars, Import, Ask, Admit, Block, Reject, Expire, Tick

\* The import keeps the invariant.
LEMMA ImportInv == ThrottlerInv /\ ColdInv /\ Import => ThrottlerInv'
<1>. SUFFICES ASSUME ThrottlerInv, ColdInv, Import PROVE ThrottlerInv'
    OBVIOUS
<1>1. config' \in [Settings -> Nat] /\ config'["ttl"] <= Cap
    BY ParsedIsConfig DEF Import, ThrottlerInv
<1>2. ASSUME NEW k \in Counters PROVE Remembers(k)'
    <2>1. admitted'[k] = << >> /\ counted'[k] = << >> /\ blockedFor'[k] = NotBlocked
        BY DEF Import, ColdInv
    <2>. QED  BY <1>1, <2>1 DEF Remembers, documentedLimit
<1>. QED  BY <1>1, <1>2 DEF Import, ThrottlerInv

-----------------------------------------------------------------------------
\* What the history looks like after an admission.
LEMMA RememberSequence ==
    ASSUME NEW s \in Seq(Ages), NEW n \in Nat, n # 0, Len(s) <= n
    PROVE  /\ remember(s, n) \in Seq(Ages)
           /\ Len(remember(s, n)) = IF Len(s) < n THEN Len(s) + 1 ELSE n
           /\ remember(s, n)[Len(remember(s, n))] = 0
           /\ Len(s) < n => \A i \in 1..Len(s) : remember(s, n)[i] = s[i]
           /\ Len(s) = n => \A i \in 1..(n - 1) : remember(s, n)[i] = s[i + 1]
<1>1. 0 \in Ages
    BY CapAssumption DEF Ages
<1>2. CASE Len(s) < n
    BY <1>1, <1>2 DEF remember
<1>3. CASE Len(s) = n
    <2>1. s # << >>
        BY <1>3
    <2>2. Tail(s) \in Seq(Ages) /\ Len(Tail(s)) = n - 1
        BY <1>3, <2>1
    <2>3. \A i \in 1..(n - 1) : Tail(s)[i] = s[i + 1]
        BY <1>3, <2>1
    <2>. QED  BY <1>1, <1>3, <2>2, <2>3 DEF remember
<1>. QED  BY <1>2, <1>3

\* What a counter tells at the moment it admits: all it has forgotten of the
\* admissions it made is ttl old.
LEMMA ForgottenIsOld ==
    ASSUME ThrottlerInv, NEW k \in Counters, ~ blocking(k)
    PROVE  /\ base(k) \in Seq(Ages)
           /\ Len(base(k)) <= Len(admitted[k])
           /\ \A j \in 1..Len(base(k)) :
                 base(k)[j] = admitted[k][Len(admitted[k]) - Len(base(k)) + j]
           /\ \A i \in 1..(Len(admitted[k]) - Len(base(k))) : admitted[k][i] >= config["ttl"]
<1>. DEFINE T == config["ttl"]
<1>0. T \in Nat
    BY DEF ThrottlerInv
<1>1. admitted[k] \in Seq(Ages) /\ counted[k] \in Seq(Ages)
      /\ blockedFor[k] \in Ages \cup {-1} /\ Remembers(k)
    BY DEF ThrottlerInv, Ages
<1>2. CASE blockedFor[k] = -1
    <2>1. base(k) = counted[k]
        BY <1>0, <1>2 DEF base
    <2>. QED  BY <1>1, <1>2, <2>1 DEF Remembers
<1>3. CASE blockedFor[k] # -1
    <2>1. blockedFor[k] >= T
        BY <1>0, <1>1, <1>3 DEF blocking, Ages
    <2>2. base(k) = << >>
        BY <2>1 DEF base
    <2>3. \A i \in 1..Len(admitted[k]) : admitted[k][i] \in Ages /\ admitted[k][i] >= blockedFor[k]
        BY <1>1, <1>3 DEF Remembers
    <2>4. \A i \in 1..Len(admitted[k]) : admitted[k][i] >= T
        BY <1>0, <1>1, <1>3, <2>1, <2>3 DEF Ages
    <2>. QED  BY <1>1, <1>3, <2>2, <2>4
<1>. QED  BY <1>2, <1>3
-----------------------------------------------------------------------------
\* What a step leaves of the other counters.
LEMMA OthersRemember ==
    ASSUME ThrottlerInv, NEW k \in Counters,
           counted'[k] = counted[k], blockedFor'[k] = blockedFor[k], admitted'[k] = admitted[k],
           config' = config
    PROVE  Remembers(k)'
BY DEF ThrottlerInv, Remembers, documentedLimit, limitOf

\* An admission keeps the invariant.
LEMMA AdmitInv == \A k \in Counters : ThrottlerInv /\ Admit(k) => ThrottlerInv'
<1>. SUFFICES ASSUME NEW k \in Counters, ThrottlerInv, Admit(k) PROVE ThrottlerInv'
    OBVIOUS
<1>. DEFINE old == admitted[k]
            limit == limitOf(k)
<1>0. /\ old \in Seq(Ages) /\ limit \in Nat /\ config["ttl"] \in Nat
      /\ Len(old) <= limit /\ Remembers(k) /\ 0 \in Ages
    BY CapAssumption DEF ThrottlerInv, Remembers, documentedLimit, limitOf, Ages
<1>1. /\ base(k) \in Seq(Ages)
      /\ Len(base(k)) <= Len(old)
      /\ \A j \in 1..Len(base(k)) : base(k)[j] = old[Len(old) - Len(base(k)) + j]
      /\ \A i \in 1..(Len(old) - Len(base(k))) : old[i] >= config["ttl"]
    BY ForgottenIsOld DEF Admit
<1>2. Len(base(k)) < limit
    BY DEF Admit, fits
<1>3. limit # 0
    BY <1>0, <1>1, <1>2
<1>4. /\ counted' = [counted EXCEPT ![k] = Append(base(k), 0)]
      /\ blockedFor' = [blockedFor EXCEPT ![k] = NotBlocked]
      /\ admitted' = [admitted EXCEPT ![k] = remember(old, limit)]
    BY DEF Admit
<1>5. /\ remember(old, limit) \in Seq(Ages)
      /\ Len(remember(old, limit)) = IF Len(old) < limit THEN Len(old) + 1 ELSE limit
      /\ remember(old, limit)[Len(remember(old, limit))] = 0
      /\ Len(old) < limit => \A i \in 1..Len(old) : remember(old, limit)[i] = old[i]
      /\ Len(old) = limit => \A i \in 1..(limit - 1) : remember(old, limit)[i] = old[i + 1]
    BY <1>0, <1>3, RememberSequence
<1>6. /\ counted' \in [Counters -> Seq(0..Cap)]
      /\ blockedFor' \in [Counters -> (0..Cap) \cup {NotBlocked}]
      /\ admitted' \in [Counters -> Seq(0..Cap)]
    BY <1>0, <1>1, <1>4, <1>5 DEF ThrottlerInv, Ages
<1>7. /\ counted'[k] = Append(base(k), 0)
      /\ blockedFor'[k] = NotBlocked
      /\ admitted'[k] = remember(old, limit)
    BY <1>4 DEF ThrottlerInv
<1>8. config' = config
    BY DEF Admit
<1>9. Remembers(k)'
    <2>. DEFINE new == remember(old, limit)
                hits == Append(base(k), 0)
                n == Len(new)
                m == Len(hits)
    <2>1. m = Len(base(k)) + 1 /\ m <= n /\ n <= limit /\ n \in Nat /\ m \in Nat
        BY <1>0, <1>1, <1>2, <1>5
    <2>2. ASSUME NEW j \in 1..m PROVE hits[j] = new[n - m + j]
        <3>1. CASE j = m
            <4>1. hits[j] = 0
                BY <1>1, <2>1, <3>1
            <4>2. n - m + j = n
                BY <2>1, <3>1
            <4>. QED  BY <1>5, <4>1, <4>2
        <3>2. CASE j # m
            <4>1. j \in 1..Len(base(k)) /\ hits[j] = base(k)[j]
                BY <1>1, <2>1, <3>2
            <4>2. hits[j] = old[Len(old) - Len(base(k)) + j]
                BY <1>1, <4>1
            <4>3. CASE Len(old) < limit
                <5>1. n - m + j = Len(old) - Len(base(k)) + j
                    BY <1>0, <1>1, <1>5, <2>1, <4>3
                <5>2. n - m + j \in 1..Len(old)
                    <6>1. Len(old) \in Nat /\ Len(base(k)) \in Nat /\ Len(base(k)) <= Len(old)
                        BY <1>0, <1>1
                    <6>2. Len(old) - Len(base(k)) + j \in 1..Len(old)
                        BY <4>1, <6>1, LastPositions
                    <6>. QED  BY <5>1, <6>2
                <5>3. new[n - m + j] = old[n - m + j]
                    BY <1>5, <4>3, <5>2
                <5>. QED  BY <4>2, <5>1, <5>3
            <4>4. CASE Len(old) = limit
                <5>1. n - m + j \in 1..(limit - 1)
                    BY <1>0, <1>1, <1>2, <1>5, <2>1, <4>1, <4>4
                <5>2. new[n - m + j] = old[(n - m + j) + 1]
                    BY <1>5, <4>4, <5>1
                <5>. QED  BY <1>0, <1>1, <1>5, <2>1, <4>1, <4>2, <4>4, <5>2
            <4>. QED  BY <1>0, <4>3, <4>4
        <3>. QED  BY <3>1, <3>2
    <2>3. ASSUME NEW i \in 1..(n - m) PROVE new[i] >= config["ttl"]
        <3>1. CASE Len(old) < limit
            BY <1>0, <1>1, <1>5, <2>1, <3>1
        <3>2. CASE Len(old) = limit
            <4>1. i \in 1..(limit - 1) /\ i + 1 \in 1..(Len(old) - Len(base(k)))
                BY <1>0, <1>1, <1>2, <1>5, <2>1, <3>2
            <4>2. new[i] = old[i + 1]
                BY <1>5, <3>2, <4>1
            <4>. QED  BY <1>1, <4>1, <4>2
        <3>. QED  BY <1>0, <3>1, <3>2
    <2>4. documentedLimit(k)' = limit
        BY <1>8 DEF documentedLimit, limitOf
    <2>. QED  BY <1>7, <1>8, <2>1, <2>2, <2>3, <2>4 DEF Remembers
<1>10. ASSUME NEW c \in Counters, c # k PROVE Remembers(c)'
    BY <1>4, <1>8, <1>10, OthersRemember DEF ThrottlerInv
<1>11. \A c \in Counters : Remembers(c)'
    BY <1>9, <1>10
<1>. QED  BY <1>6, <1>8, <1>11 DEF Admit, ThrottlerInv

\* The request that starts a block keeps it.
LEMMA BlockInv == \A k \in Counters : ThrottlerInv /\ Block(k) => ThrottlerInv'
<1>. SUFFICES ASSUME NEW k \in Counters, ThrottlerInv, Block(k) PROVE ThrottlerInv'
    OBVIOUS
<1>0. 0 \in Ages /\ admitted[k] \in Seq(Ages)
    BY CapAssumption DEF ThrottlerInv, Ages
<1>1. base(k) \in Seq(Ages)
    BY ForgottenIsOld DEF Block
<1>2. /\ counted' = [counted EXCEPT ![k] = Append(base(k), 0)]
      /\ blockedFor' = [blockedFor EXCEPT ![k] = 0]
      /\ admitted' = admitted /\ config' = config
    BY DEF Block
<1>3. /\ counted' \in [Counters -> Seq(0..Cap)]
      /\ blockedFor' \in [Counters -> (0..Cap) \cup {NotBlocked}]
    BY <1>0, <1>1, <1>2 DEF ThrottlerInv, Ages
<1>4. Remembers(k)'
    <2>1. blockedFor'[k] = 0 /\ admitted'[k] = admitted[k]
        BY <1>2 DEF ThrottlerInv
    <2>2. \A i \in 1..Len(admitted[k]) : admitted[k][i] \in Ages
        BY <1>0
    <2>3. \A i \in 1..Len(admitted[k]) : admitted[k][i] >= 0
        BY <2>2, CapAssumption DEF Ages
    <2>4. Len(admitted[k]) <= documentedLimit(k)'
        BY <1>2 DEF ThrottlerInv, Remembers, documentedLimit
    <2>. QED  BY <2>1, <2>3, <2>4 DEF Remembers
<1>5. ASSUME NEW c \in Counters, c # k PROVE Remembers(c)'
    BY <1>2, <1>5, OthersRemember DEF ThrottlerInv
<1>6. \A c \in Counters : Remembers(c)'
    BY <1>4, <1>5
<1>. QED  BY <1>2, <1>3, <1>6 DEF Block, ThrottlerInv

\* So does a rejection.
LEMMA RejectInv == \A k \in Counters : ThrottlerInv /\ Reject(k) => ThrottlerInv'
<1>. SUFFICES ASSUME NEW k \in Counters, ThrottlerInv, Reject(k) PROVE ThrottlerInv'
    OBVIOUS
<1>1. \A c \in Counters : Remembers(c)'
    BY OthersRemember DEF Reject
<1>. QED  BY <1>1 DEF Reject, ThrottlerInv

\* And a timer: what it forgets was the oldest of what was counted.
LEMMA ExpireInv == \A k \in Counters : ThrottlerInv /\ Expire(k) => ThrottlerInv'
<1>. SUFFICES ASSUME NEW k \in Counters, ThrottlerInv, Expire(k) PROVE ThrottlerInv'
    OBVIOUS
<1>0. /\ counted[k] \in Seq(Ages) /\ counted[k] # << >> /\ Remembers(k)
      /\ admitted[k] \in Seq(Ages) /\ Head(counted[k]) >= config["ttl"]
    BY DEF Expire, ThrottlerInv, Ages
<1>1. /\ counted' = [counted EXCEPT ![k] = Tail(counted[k])]
      /\ blockedFor' = blockedFor /\ admitted' = admitted /\ config' = config
    BY DEF Expire
<1>2. /\ Tail(counted[k]) \in Seq(Ages)
      /\ Len(Tail(counted[k])) = Len(counted[k]) - 1
      /\ Head(counted[k]) = counted[k][1]
      /\ \A j \in 1..(Len(counted[k]) - 1) : Tail(counted[k])[j] = counted[k][j + 1]
    BY <1>0
<1>3. counted' \in [Counters -> Seq(0..Cap)]
    BY <1>1, <1>2 DEF ThrottlerInv, Ages
<1>4. counted'[k] = Tail(counted[k])
    BY <1>1 DEF ThrottlerInv
<1>5. Remembers(k)'
    <2>0. PICK n \in Nat, m \in Nat \ {0} : n = Len(admitted[k]) /\ m = Len(counted[k])
        BY <1>0
    <2>1. ASSUME blockedFor[k] = NotBlocked
          PROVE  /\ m - 1 <= n
                 /\ \A j \in 1..(m - 1) : Tail(counted[k])[j] = admitted[k][n - (m - 1) + j]
                 /\ \A i \in 1..(n - (m - 1)) : admitted[k][i] >= config["ttl"]
        <3>1. /\ m <= n
              /\ \A j \in 1..m : counted[k][j] = admitted[k][n - m + j]
              /\ \A i \in 1..(n - m) : admitted[k][i] >= config["ttl"]
            BY <1>0, <2>0, <2>1 DEF Remembers
        <3>0. n \in Nat /\ m \in Nat /\ m <= n
            BY <3>1
        <3>2. ASSUME NEW j \in 1..(m - 1)
              PROVE  Tail(counted[k])[j] = admitted[k][n - (m - 1) + j]
            <4>1. j + 1 \in 1..m /\ n - m + (j + 1) = n - (m - 1) + j
                BY <3>0, LastPositions
            <4>. QED  BY <1>2, <2>0, <3>1, <4>1
        <3>3. admitted[k][n - m + 1] >= config["ttl"]
            <4>1. 1 \in 1..m
                OBVIOUS
            <4>2. counted[k][1] = admitted[k][n - m + 1]
                BY <3>1, <4>1
            <4>. QED  BY <1>0, <1>2, <4>2
        <3>4. ASSUME NEW i \in 1..(n - (m - 1)) PROVE admitted[k][i] >= config["ttl"]
            <4>1. i \in 1..(n - m) \/ i = n - m + 1
                BY <3>0, LastPositions
            <4>. QED  BY <3>1, <3>3, <4>1
        <3>5. m - 1 <= n
            BY <3>0
        <3>. QED  BY <3>2, <3>4, <3>5
    <2>2. /\ n <= documentedLimit(k)
          /\ blockedFor[k] # NotBlocked => \A i \in 1..n : admitted[k][i] >= blockedFor[k]
        BY <1>0, <2>0 DEF Remembers
    <2>3. documentedLimit(k)' = documentedLimit(k)
        BY <1>1 DEF documentedLimit
    <2>. QED  BY <1>1, <1>2, <1>4, <2>0, <2>1, <2>2, <2>3 DEF Remembers
<1>6. ASSUME NEW c \in Counters, c # k PROVE Remembers(c)'
    BY <1>1, <1>6, OthersRemember DEF ThrottlerInv
<1>7. \A c \in Counters : Remembers(c)'
    BY <1>5, <1>6
<1>. QED  BY <1>1, <1>3, <1>7 DEF Expire, ThrottlerInv

\* And time.
LEMMA TickInv == ThrottlerInv /\ Tick => ThrottlerInv'
<1>. SUFFICES ASSUME ThrottlerInv, Tick PROVE ThrottlerInv'
    OBVIOUS
<1>1. /\ counted \in [Counters -> Seq(Ages)]
      /\ blockedFor \in [Counters -> Ages \cup {-1}]
      /\ admitted \in [Counters -> Seq(Ages)]
      /\ config["ttl"] \in Nat /\ config' = config
    BY DEF ThrottlerInv, Tick, Ages
<1>2. ASSUME NEW k \in Counters
      PROVE  /\ counted'[k] = aged(counted[k])
             /\ admitted'[k] = aged(admitted[k])
             /\ blockedFor'[k] = IF blockedFor[k] = -1 THEN -1 ELSE older(blockedFor[k])
    BY DEF Tick
<1>3. \A a \in Ages : older(a) \in Ages /\ older(a) >= a
    BY CapAssumption DEF older, Ages
<1>4. /\ counted' \in [Counters -> Seq(0..Cap)]
      /\ admitted' \in [Counters -> Seq(0..Cap)]
    BY <1>1, AgedSequence DEF Tick, Ages
<1>5. blockedFor' \in [Counters -> (0..Cap) \cup {NotBlocked}]
    BY <1>1, <1>3 DEF Tick, Ages
<1>6. ASSUME NEW k \in Counters PROVE Remembers(k)'
    <2>0. PICK n \in Nat, m \in Nat :
             n = Len(admitted[k]) /\ m = Len(counted[k]) /\ Remembers(k)
        BY <1>1 DEF ThrottlerInv
    <2>1. /\ Len(counted'[k]) = m /\ Len(admitted'[k]) = n
          /\ \A j \in 1..m : counted'[k][j] = older(counted[k][j])
          /\ \A i \in 1..n : admitted'[k][i] = older(admitted[k][i])
        BY <1>1, <1>2, <2>0, AgedSequence
    <2>2. \A i \in 1..n : admitted[k][i] \in Ages
        BY <1>1, <2>0
    <2>3. ASSUME blockedFor'[k] = -1
          PROVE  /\ m <= n
                 /\ \A j \in 1..m : counted'[k][j] = admitted'[k][n - m + j]
                 /\ \A i \in 1..(n - m) : admitted'[k][i] >= config["ttl"]
        <3>1. blockedFor[k] = -1
            BY <1>1, <1>2, <1>3, <2>3 DEF Ages
        <3>2. /\ m <= n
              /\ \A j \in 1..m : counted[k][j] = admitted[k][n - m + j]
              /\ \A i \in 1..(n - m) : admitted[k][i] >= config["ttl"]
            BY <2>0, <3>1 DEF Remembers
        <3>0. n \in Nat /\ m \in Nat /\ m <= n
            BY <3>2
        <3>3. ASSUME NEW j \in 1..m PROVE counted'[k][j] = admitted'[k][n - m + j]
            <4>1. n - m + j \in 1..n
                BY <3>0, LastPositions
            <4>. QED  BY <2>1, <3>2, <4>1
        <3>4. ASSUME NEW i \in 1..(n - m) PROVE admitted'[k][i] >= config["ttl"]
            <4>0. i \in 1..n
                BY <3>0, LastPositions
            <4>1. admitted[k][i] \in Ages /\ older(admitted[k][i]) >= admitted[k][i]
                BY <1>3, <2>2, <4>0
            <4>2. older(admitted[k][i]) \in Ages /\ admitted[k][i] >= config["ttl"]
                BY <1>3, <3>2, <4>1
            <4>. QED  BY <1>1, <2>1, <4>0, <4>1, <4>2, CapAssumption DEF Ages
        <3>. QED  BY <3>2, <3>3, <3>4
    <2>4. ASSUME blockedFor'[k] # -1, NEW i \in 1..n PROVE admitted'[k][i] >= blockedFor'[k]
        <3>1. blockedFor[k] # -1 /\ blockedFor[k] \in Ages /\ blockedFor'[k] = older(blockedFor[k])
            BY <1>1, <1>2, <2>4
        <3>2. admitted[k][i] >= blockedFor[k]
            BY <2>0, <3>1 DEF Remembers
        <3>. QED  BY <2>1, <2>2, <3>1, <3>2, OlderKeepsOrder
    <2>5. n <= documentedLimit(k) /\ documentedLimit(k)' = documentedLimit(k)
        BY <1>1, <2>0 DEF Remembers, documentedLimit
    <2>. QED  BY <1>1, <2>0, <2>1, <2>3, <2>4, <2>5 DEF Remembers
<1>. QED  BY <1>4, <1>5, <1>6 DEF Tick, ThrottlerInv

-----------------------------------------------------------------------------
\* Every step keeps the invariant.
LEMMA StepInv == ThrottlerInv /\ ColdInv /\ [Next]_vars => ThrottlerInv'
<1>1. ASSUME ThrottlerInv, UNCHANGED vars PROVE ThrottlerInv'
    BY <1>1 DEF ThrottlerInv, vars, Remembers, documentedLimit
<1>. QED  BY <1>1, ImportInv, AdmitInv, BlockInv, RejectInv, ExpireInv, TickInv DEF Next, Ask

\* What the storage counts and for how long it has been blocking agrees with the
\* admissions made, at all times.
THEOREM ThrottlerInvariant == Spec => [](ThrottlerInv /\ ColdInv)
<1>. QED  BY InitInv, InitCold, StepInv, StepCold, PTL DEF Spec

\* An admission comes at least a window after the one as many before it as the limit.
LEMMA AdmissionsAreSpaced ==
    ThrottlerInv /\ ColdInv /\ [Next]_vars => [SpacedBy(config["ttl"])]_vars
<1>. SUFFICES ASSUME ThrottlerInv, ColdInv, Next, NEW k \in Counters, event' = <<k, "admitted">>
              PROVE  /\ documentedLimit(k) # 0
                     /\ Len(admitted[k]) >= documentedLimit(k) =>
                           admitted[k][Len(admitted[k]) - documentedLimit(k) + 1] >= config["ttl"]
    BY DEF SpacedBy
<1>1. Admit(k)
    <2>1. <<k, "admitted">> # NoEvent /\ \A c \in Counters : <<k, "admitted">> # <<c, "rejected">>
        BY DEF NoEvent
    <2>2. ~ Import
        BY <2>1 DEF Import, ColdInv
    <2>3. ~ Tick /\ \A c \in Counters : ~ Expire(c) /\ ~ Block(c) /\ ~ Reject(c)
        BY <2>1 DEF Tick, Expire, Block, Reject
    <2>4. PICK c \in Counters : Admit(c)
        BY <2>2, <2>3 DEF Next, Ask
    <2>5. c = k
        BY <2>4 DEF Admit
    <2>. QED  BY <2>4, <2>5
<1>2. /\ admitted[k] \in Seq(Ages) /\ documentedLimit(k) \in Nat
      /\ limitOf(k) = documentedLimit(k) /\ Len(admitted[k]) <= documentedLimit(k)
    BY DEF ThrottlerInv, Remembers, documentedLimit, limitOf, Ages
<1>3. /\ base(k) \in Seq(Ages)
      /\ \A i \in 1..(Len(admitted[k]) - Len(base(k))) : admitted[k][i] >= config["ttl"]
    BY <1>1, ForgottenIsOld DEF Admit
<1>4. Len(base(k)) < documentedLimit(k)
    BY <1>1, <1>2 DEF Admit, fits
<1>. QED  BY <1>2, <1>3, <1>4

\* Whatever limits and windows are configured, no window has more admissions of one
\* counter than its limit.
THEOREM WindowsAreBounded == Spec => WindowIsBounded
<1>. QED  BY ThrottlerInvariant, AdmissionsAreSpaced, PTL DEF Spec, WindowIsBounded

-----------------------------------------------------------------------------
(* The throttler implements its contract.                                   *)

\* The settings in use are those of the environment.
SettingsInv == phase = "up" => config = parsed(env)

LEMMA SettingsHold == Spec => []SettingsInv
<1>1. Init => SettingsInv
    BY DEF Init, SettingsInv
<1>2. SettingsInv /\ [Next]_vars => SettingsInv'
    BY DEF SettingsInv, Next, vars, Import, Ask, Admit, Block, Reject, Expire, Tick
<1>. QED  BY <1>1, <1>2, PTL DEF Spec

\* What callers see of a counter that is up.
LEMMA Seen ==
    ASSUME ThrottlerInv, SettingsInv, phase = "up", NEW k \in Counters
    PROVE  /\ counts[k] = Len(base(k)) /\ base(k) \in Seq(Ages)
           /\ k \in blocks <=> blocking(k)
           /\ limits[k] = limitOf(k) /\ limits[k] \in Nat
           /\ blockedFor[k] >= config["ttl"] => counts[k] = 0
           /\ blockedFor[k] < config["ttl"] => base(k) = counted[k]
<1>1. config \in [Settings -> Nat] /\ counted[k] \in Seq(Ages) /\ blockedFor[k] \in Ages \cup {-1}
    BY DEF ThrottlerInv, Ages
<1>2. limits[k] = limitOf(k) /\ limits[k] \in Nat
    BY <1>1 DEF limits, limitOf, SettingsInv
<1>3. counts[k] = Len(base(k)) /\ base(k) \in Seq(Ages)
    BY <1>1 DEF counts, base
<1>4. k \in blocks <=> blocking(k)
    BY DEF blocks
<1>5. /\ blockedFor[k] >= config["ttl"] => base(k) = << >>
      /\ blockedFor[k] < config["ttl"] => base(k) = counted[k]
    BY <1>1, CapAssumption DEF base, Ages
<1>. QED  BY <1>2, <1>3, <1>4, <1>5

\* A counter a step leaves alone is seen as before.
LEMMA SeenAsBefore ==
    ASSUME UNCHANGED <<env, phase, config>>, NEW k \in Counters,
           counted'[k] = counted[k], blockedFor'[k] = blockedFor[k]
    PROVE  counts'[k] = counts[k] /\ (k \in blocks' <=> k \in blocks)
BY DEF counts, blocks, base, blocking

\* Nothing is seen before the import, nor after one that fails.
LEMMA ImportRefines ==
    ASSUME ThrottlerInv, ColdInv, Import
    PROVE  UNCHANGED <<limits, counts, blocks>>
<1>1. /\ phase = "off" /\ env' = env /\ counted' = counted /\ blockedFor' = blockedFor
      /\ \A k \in Counters : counted[k] = << >> /\ blockedFor[k] = -1
    BY DEF Import, ColdInv
<1>2. ASSUME NEW k \in Counters PROVE Len(base(k)') = 0 /\ ~ (blocking(k)')
    BY <1>1 DEF base, blocking
<1>3. counts' = [k \in Counters |-> 0] /\ blocks' = {}
    BY <1>2 DEF counts, blocks
<1>4. counts = [k \in Counters |-> 0] /\ blocks = {}
    BY <1>1 DEF counts, blocks
<1>5. limits' = limits
    BY <1>1 DEF limits
<1>. QED  BY <1>3, <1>4, <1>5

LEMMA AdmitRefines ==
    ASSUME ThrottlerInv, ThrottlerInv', SettingsInv, NEW k \in Counters, Admit(k)
    PROVE  Contract!Admit(k)
<1>1. /\ phase = "up" /\ UNCHANGED <<env, phase, config>>
      /\ counted' = [counted EXCEPT ![k] = Append(base(k), 0)]
      /\ blockedFor' = [blockedFor EXCEPT ![k] = NotBlocked]
      /\ ~ blocking(k) /\ fits(k)
    BY DEF Admit
<1>2. SettingsInv' /\ phase' = "up" /\ limits' = limits
    BY <1>1 DEF SettingsInv, limits
<1>3. k \notin blocks /\ counts[k] < limits[k]
    BY <1>1, Seen DEF fits
<1>4. ThrottlerInv => config["ttl"] \in Nat
    BY DEF ThrottlerInv
<1>5. counts'[k] = counts[k] + 1 /\ k \notin blocks'
    <2>1. counted'[k] = Append(base(k), 0) /\ blockedFor'[k] = -1
        BY <1>1 DEF ThrottlerInv
    <2>2. base(k)' = Append(base(k), 0) /\ ~ (blocking(k)')
        BY <1>1, <1>4, <2>1 DEF base, blocking
    <2>3. base(k) \in Seq(Ages) /\ counts[k] = Len(base(k))
        BY <1>1, Seen
    <2>4. Len(Append(base(k), 0)) = Len(base(k)) + 1
        BY <2>3, CapAssumption DEF Ages
    <2>. QED  BY <1>1, <2>2, <2>3, <2>4 DEF counts, blocks
<1>6. ASSUME NEW c \in Counters, c # k PROVE counts'[c] = counts[c] /\ (c \in blocks' <=> c \in blocks)
    <2>1. counted'[c] = counted[c] /\ blockedFor'[c] = blockedFor[c]
        BY <1>1, <1>6 DEF ThrottlerInv
    <2>. QED  BY <1>1, <2>1, SeenAsBefore
<1>7. blocks' = blocks
    BY <1>3, <1>5, <1>6 DEF blocks
<1>8. counts' = [counts EXCEPT ![k] = counts[k] + 1]
    BY <1>5, <1>6 DEF counts
<1>. QED  BY <1>2, <1>3, <1>7, <1>8 DEF Contract!Admit

LEMMA BlockRefines ==
    ASSUME ThrottlerInv, ThrottlerInv', SettingsInv, NEW k \in Counters, Block(k)
    PROVE  Contract!Refuse(k)
<1>1. /\ phase = "up" /\ UNCHANGED <<env, phase, config>>
      /\ counted' = [counted EXCEPT ![k] = Append(base(k), 0)]
      /\ blockedFor' = [blockedFor EXCEPT ![k] = 0]
      /\ ~ blocking(k) /\ ~ fits(k)
    BY DEF Block
<1>2. limits' = limits
    BY <1>1 DEF limits
<1>3. k \notin blocks /\ counts[k] >= limits[k]
    <2>1. /\ counts[k] = Len(base(k)) /\ base(k) \in Seq(Ages) /\ k \notin blocks
          /\ limits[k] = limitOf(k) /\ limits[k] \in Nat
        BY <1>1, Seen
    <2>2. ~ (Len(base(k)) < limitOf(k))
        BY <1>1 DEF fits
    <2>. QED  BY <2>1, <2>2
<1>4. config["ttl"] \in Nat
    BY DEF ThrottlerInv
<1>5. ASSUME NEW c \in Counters, c # k PROVE counts'[c] = counts[c] /\ (c \in blocks' <=> c \in blocks)
    <2>1. counted'[c] = counted[c] /\ blockedFor'[c] = blockedFor[c]
        BY <1>1, <1>5 DEF ThrottlerInv
    <2>. QED  BY <1>1, <2>1, SeenAsBefore
<1>6. counted'[k] = Append(base(k), 0) /\ blockedFor'[k] = 0
    BY <1>1 DEF ThrottlerInv
<1>7. CASE config["ttl"] = 0
    <2>1. base(k)' = << >> /\ ~ (blocking(k)')
        BY <1>1, <1>6, <1>7 DEF base, blocking
    <2>2. counts'[k] = 0 /\ k \notin blocks'
        BY <1>1, <2>1 DEF counts, blocks
    <2>3. counts' = [counts EXCEPT ![k] = 0]
        BY <2>2, <1>5 DEF counts
    <2>4. blocks' = blocks
        BY <2>2, <1>3, <1>5 DEF blocks
    <2>. QED  BY <1>2, <1>3, <2>3, <2>4 DEF Contract!Refuse
<1>8. CASE config["ttl"] # 0
    <2>1. base(k)' = Append(base(k), 0) /\ blocking(k)'
        BY <1>1, <1>4, <1>6, <1>8 DEF base, blocking
    <2>2. base(k) \in Seq(Ages) /\ counts[k] = Len(base(k))
        BY <1>1, Seen
    <2>3. Len(Append(base(k), 0)) = Len(base(k)) + 1
        BY <2>2, CapAssumption DEF Ages
    <2>4. counts'[k] = counts[k] + 1 /\ k \in blocks'
        BY <1>1, <2>1, <2>2, <2>3 DEF counts, blocks
    <2>5. counts' = [counts EXCEPT ![k] = counts[k] + 1]
        BY <2>4, <1>5 DEF counts
    <2>6. blocks' = blocks \cup {k}
        BY <2>4, <1>5 DEF blocks
    <2>. QED  BY <1>2, <1>3, <2>5, <2>6 DEF Contract!Refuse
<1>. QED  BY <1>7, <1>8

\* A timer is seen unless the block of its counter is over.
LEMMA ExpireRefines ==
    ASSUME ThrottlerInv, ThrottlerInv', SettingsInv, NEW k \in Counters, Expire(k)
    PROVE  Contract!Forget(k) \/ UNCHANGED <<limits, counts, blocks>>
<1>1. /\ phase = "up" /\ UNCHANGED <<env, phase, config, blockedFor>>
      /\ counted' = [counted EXCEPT ![k] = Tail(counted[k])]
      /\ counted[k] # << >>
    BY DEF Expire
<1>2. limits' = limits
    BY <1>1 DEF limits
<1>3. blocks' = blocks
    BY <1>1 DEF blocks, blocking
<1>4. ASSUME NEW c \in Counters, c # k PROVE counts'[c] = counts[c]
    <2>1. counted'[c] = counted[c]
        BY <1>1, <1>4 DEF ThrottlerInv
    <2>. QED  BY <1>1, <2>1, SeenAsBefore
<1>5. counted'[k] = Tail(counted[k]) /\ counted[k] \in Seq(Ages)
    BY <1>1 DEF ThrottlerInv, Ages
<1>6. CASE blockedFor[k] >= config["ttl"]
    <2>1. base(k) = << >> /\ base(k)' = << >>
        BY <1>1, <1>6 DEF base
    <2>2. counts'[k] = counts[k]
        BY <1>1, <2>1 DEF counts
    <2>3. counts' = counts
        BY <2>2, <1>4 DEF counts
    <2>. QED  BY <1>2, <1>3, <2>3
<1>7. CASE ~ (blockedFor[k] >= config["ttl"])
    <2>1. base(k) = counted[k] /\ base(k)' = Tail(counted[k])
        BY <1>1, <1>5, <1>7 DEF base
    <2>2. Len(Tail(counted[k])) = Len(counted[k]) - 1 /\ Len(counted[k]) > 0
        BY <1>1, <1>5
    <2>3. counts[k] > 0 /\ counts'[k] = counts[k] - 1
        BY <1>1, <2>1, <2>2 DEF counts
    <2>4. counts' = [counts EXCEPT ![k] = counts[k] - 1]
        BY <2>3, <1>4 DEF counts
    <2>. QED  BY <1>2, <1>3, <2>3, <2>4 DEF Contract!Forget
<1>. QED  BY <1>6, <1>7

\* A millisecond ends the blocks that are as old as the window, all at once.
LEMMA TickRefines ==
    ASSUME ThrottlerInv, ThrottlerInv', SettingsInv, Tick
    PROVE  \E S \in SUBSET Counters : Contract!Release(S)
<1>. DEFINE over == blocks \ blocks'
<1>1. /\ phase = "up" /\ UNCHANGED <<env, phase, config>>
      /\ config["ttl"] \in 0..Cap
    BY CapAssumption DEF Tick, ThrottlerInv
<1>2. limits' = limits
    BY <1>1 DEF limits
<1>3. ASSUME NEW k \in Counters
      PROVE  /\ k \in blocks' => k \in blocks
             /\ counts'[k] = IF k \in over THEN 0 ELSE counts[k]
    <2>1. /\ counted'[k] = aged(counted[k]) /\ counted[k] \in Seq(Ages)
          /\ blockedFor[k] \in Ages \cup {-1}
          /\ blockedFor'[k] = IF blockedFor[k] = -1 THEN -1 ELSE older(blockedFor[k])
        BY DEF Tick, ThrottlerInv, Ages
    <2>2. Len(aged(counted[k])) = Len(counted[k])
        BY <2>1, AgedSequence
    <2>3. blockedFor'[k] >= blockedFor[k]
          /\ (blockedFor[k] = -1 => blockedFor'[k] = -1)
          /\ (blockedFor[k] # -1 => blockedFor'[k] \in Ages)
        BY <2>1, CapAssumption DEF older, Ages
    <2>4. k \in blocks <=> blockedFor[k] \in 0..(config["ttl"] - 1)
        BY <1>1 DEF blocks, blocking
    <2>5. k \in blocks' <=> blockedFor'[k] \in 0..(config["ttl"] - 1)
        BY <1>1 DEF blocks, blocking
    <2>6. k \in blocks' => k \in blocks
        BY <1>1, <2>1, <2>3, <2>4, <2>5 DEF Ages
    <2>7. CASE blockedFor[k] >= config["ttl"]
        <3>1. blockedFor'[k] >= config["ttl"]
            BY <1>1, <2>1, <2>3, <2>7 DEF Ages
        <3>2. base(k) = << >> /\ base(k)' = << >>
            BY <1>1, <2>7, <3>1 DEF base
        <3>3. k \notin blocks
            BY <1>1, <2>1, <2>4, <2>7 DEF Ages
        <3>. QED  BY <1>1, <2>6, <3>2, <3>3 DEF counts
    <2>8. CASE blockedFor[k] < config["ttl"] /\ blockedFor'[k] >= config["ttl"]
        <3>1. blockedFor[k] # -1
            BY <1>1, <2>3, <2>8
        <3>2. k \in blocks /\ k \notin blocks'
            BY <1>1, <2>1, <2>3, <2>4, <2>5, <2>8, <3>1 DEF Ages
        <3>3. base(k)' = << >>
            BY <1>1, <2>8 DEF base
        <3>. QED  BY <1>1, <2>6, <3>2, <3>3 DEF counts
    <2>9. CASE blockedFor[k] < config["ttl"] /\ blockedFor'[k] < config["ttl"]
        <3>1. k \in blocks <=> k \in blocks'
            BY <1>1, <2>1, <2>3, <2>4, <2>5, <2>9 DEF Ages
        <3>2. ~ (blockedFor[k] >= config["ttl"]) /\ ~ (blockedFor'[k] >= config["ttl"])
            BY <1>1, <2>1, <2>3, <2>9 DEF Ages
        <3>3. base(k) = counted[k] /\ base(k)' = aged(counted[k])
            BY <1>1, <2>1, <3>2 DEF base
        <3>. QED  BY <1>1, <2>2, <2>6, <3>1, <3>3 DEF counts
    <2>10. blockedFor[k] \in Int /\ blockedFor'[k] \in Int /\ config["ttl"] \in Int
        BY <1>1, <2>1, <2>3, CapAssumption DEF Ages
    <2>. QED  BY <2>6, <2>7, <2>8, <2>9, <2>10
<1>4. blocks \subseteq Counters /\ blocks' \subseteq Counters
    BY DEF blocks
<1>5. over \subseteq blocks /\ blocks' = blocks \ over
    BY <1>3, <1>4
<1>6. counts' = [k \in Counters |-> IF k \in over THEN 0 ELSE counts[k]]
    BY <1>3 DEF counts
<1>7. Contract!Release(over)
    BY <1>2, <1>5, <1>6 DEF Contract!Release
<1>. QED  BY <1>4, <1>5, <1>7

\* Each step of the throttler is a step of the contract, or is not seen.
LEMMA StepRefines ==
    ThrottlerInv /\ ThrottlerInv' /\ ColdInv /\ SettingsInv /\ [Next]_vars
        => [Contract!Next]_(Contract!throttleVars)
<1>. SUFFICES ASSUME ThrottlerInv, ThrottlerInv', ColdInv, SettingsInv, [Next]_vars
              PROVE  Contract!Next \/ UNCHANGED <<limits, counts, blocks>>
    BY DEF Contract!throttleVars
<1>1. CASE UNCHANGED vars
    BY <1>1 DEF vars, limits, counts, blocks, base, blocking
<1>2. ASSUME NEW k \in Counters, Reject(k) PROVE UNCHANGED <<limits, counts, blocks>>
    BY <1>2 DEF Reject, limits, counts, blocks, base, blocking
<1>. QED  BY <1>1, <1>2, ImportRefines, AdmitRefines, BlockRefines, ExpireRefines, TickRefines
          DEF Next, Ask, Contract!Next

\* For any settings and timings, what callers see of the throttler is its contract.
THEOREM ImplementsThrottleContract == Spec => ThrottlesByContract
<1>1. Init => Contract!Init
    <2>. SUFFICES ASSUME Init PROVE Contract!Init
        OBVIOUS
    <2>1. \A k \in Counters : limits[k] \in Nat
        BY ParsedIsConfig DEF Init, limits
    <2>. QED  BY <2>1 DEF Init, Contract!Init, limits, counts, blocks
<1>. QED  BY <1>1, SettingsHold, ThrottlerInvariant, StepRefines, PTL DEF Spec, ThrottlesByContract, Contract!Spec

-----------------------------------------------------------------------------
\* How much longer a counter blocks.
BlockLeft(k) == IF blocking(k) THEN config["ttl"] - blockedFor[k] ELSE 0

\* Nothing prolongs a block, neither what its client asks meanwhile nor what others do,
\* and time brings it to its end; the first request after it is admitted, unless the
\* limit is 0.
BlocksEnd ==
    \A k \in Counters :
        /\ blocking(k) =>
              /\ BlockLeft(k)' <= BlockLeft(k)
              /\ Tick => BlockLeft(k)' < BlockLeft(k)
        /\ (blockedFor[k] # NotBlocked /\ ~ blocking(k) /\ limitOf(k) > 0 /\ Ask(k)) =>
              event' = <<k, "admitted">>

\* A client that is refused is let in again when the window has passed once more, however
\* often it asks in vain until then.
THEOREM BlocksAreBounded == Spec => [][BlocksEnd]_vars
<1>1. ASSUME ThrottlerInv, ColdInv, [Next]_vars PROVE [BlocksEnd]_vars
  <2> SUFFICES ASSUME NEW k \in Counters, Next
               PROVE  /\ blocking(k) =>
                            /\ BlockLeft(k)' <= BlockLeft(k)
                            /\ Tick => BlockLeft(k)' < BlockLeft(k)
                      /\ (blockedFor[k] # NotBlocked /\ ~ blocking(k) /\ limitOf(k) > 0 /\ Ask(k))
                            => event' = <<k, "admitted">>
    BY <1>1 DEF BlocksEnd
  <2>1. /\ config \in [Settings -> Nat] /\ config["ttl"] \in Nat /\ config["ttl"] <= Cap
        /\ blockedFor \in [Counters -> Ages \cup {NotBlocked}] /\ Cap \in Nat
        /\ counted \in [Counters -> Seq(Ages)]
    BY <1>1, CapAssumption DEF ThrottlerInv, Ages, Settings
  <2>2. ASSUME blocking(k) PROVE BlockLeft(k)' <= BlockLeft(k) /\ (Tick => BlockLeft(k)' < BlockLeft(k))
    <3>1. blockedFor[k] \in Nat /\ blockedFor[k] < config["ttl"]
          /\ BlockLeft(k) = config["ttl"] - blockedFor[k]
      BY <2>1, <2>2 DEF blocking, BlockLeft
    <3>2. phase # "off"
      BY <1>1, <3>1 DEF ColdInv, NotBlocked
    <3>3. CASE Tick
      <4>1. blockedFor'[k] = blockedFor[k] + 1 /\ config' = config
        BY <2>1, <3>1, <3>3 DEF Tick, older, NotBlocked
      <4>2. BlockLeft(k)' = IF blockedFor[k] + 1 \in 0..(config["ttl"] - 1)
                            THEN config["ttl"] - (blockedFor[k] + 1) ELSE 0
        BY <4>1 DEF BlockLeft, blocking
      <4> QED BY <2>1, <3>1, <4>2
    <3>4. CASE ~ Tick
      <4>1. blockedFor'[k] = blockedFor[k] /\ config' = config
        <5>1. ~ Import
          BY <3>2 DEF Import
        <5>2. PICK j \in Counters : Ask(j) \/ Expire(j)
          BY <3>4, <5>1 DEF Next
        <5>3. CASE j = k
          BY <2>2, <5>2, <5>3 DEF Ask, Admit, Block, Reject, Expire
        <5>4. CASE j # k
          BY <2>1, <5>2, <5>4 DEF Ask, Admit, Block, Reject, Expire
        <5> QED BY <5>3, <5>4
      <4>2. BlockLeft(k)' = BlockLeft(k)
        BY <4>1 DEF BlockLeft, blocking
      <4> QED BY <2>1, <3>1, <3>4, <4>2
    <3> QED BY <3>3, <3>4
  <2>3. ASSUME blockedFor[k] # NotBlocked, ~ blocking(k), limitOf(k) > 0, Ask(k)
        PROVE  event' = <<k, "admitted">>
    <3>1. blockedFor[k] >= config["ttl"]
      BY <2>1, <2>3 DEF blocking, Ages
    <3>2. fits(k)
      BY <2>3, <3>1 DEF fits, base
    <3> QED BY <2>3, <3>2 DEF Ask, Admit, Block, Reject
  <2> QED BY <2>2, <2>3
<1> QED BY <1>1, ThrottlerInvariant, PTL DEF Spec
================================================================================
