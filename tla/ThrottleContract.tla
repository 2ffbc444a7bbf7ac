---------------------------- MODULE ThrottleContract ----------------------------
(***************************************************************************)
(* What the rest of the service may rely on from the throttler, with no    *)
(* clock and no timers: a counter lets requests through while it counts    *)
(* fewer than its limit, blocks with the first one beyond, and once the    *)
(* block is over has forgotten all of them.  How long that takes, and when *)
(* a request is forgotten, is left open.                                   *)
(***************************************************************************)
EXTENDS Naturals

CONSTANT Counters

VARIABLES limit,    \* of each counter; never changes
          count,    \* how many requests it counts
          blocked   \* the counters that block

throttleVars == <<limit, count, blocked>>

Init ==
    /\ limit \in [Counters -> Nat]
    /\ count = [k \in Counters |-> 0]
    /\ blocked = {}

\* A request is let through.
Admit(k) ==
    /\ k \notin blocked
    /\ count[k] < limit[k]
    /\ count' = [count EXCEPT ![k] = @ + 1]
    /\ UNCHANGED <<limit, blocked>>

\* A request is one too many.  The block it starts may be over at once.
Refuse(k) ==
    /\ k \notin blocked
    /\ count[k] >= limit[k]
    /\ \/ count' = [count EXCEPT ![k] = @ + 1] /\ blocked' = blocked \cup {k}
       \/ count' = [count EXCEPT ![k] = 0] /\ UNCHANGED blocked
    /\ UNCHANGED limit

\* The oldest request no longer counts, blocked or not.
Forget(k) ==
    /\ count[k] > 0
    /\ count' = [count EXCEPT ![k] = @ - 1]
    /\ UNCHANGED <<limit, blocked>>

\* Some blocks are over.
Release(S) ==
    /\ S \subseteq blocked
    /\ blocked' = blocked \ S
    /\ count' = [k \in Counters |-> IF k \in S THEN 0 ELSE count[k]]
    /\ UNCHANGED limit

Next ==
    \/ \E k \in Counters : Admit(k) \/ Refuse(k) \/ Forget(k)
    \/ \E S \in SUBSET Counters : Release(S)

Spec == Init /\ [][Next]_throttleVars

================================================================================
