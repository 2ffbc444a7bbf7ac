---------------------------- MODULE MCAppLifecycle ----------------------------
\* Two spec files, of which the second has three sessions; the file of the first session
\* is also the one the leftover of an earlier run writes.
EXTENDS AppLifecycle

MCLogOf == [i \in 0..N |-> IF i <= 1 THEN "first" ELSE "second"]
===============================================================================
