---------------------------- MODULE MCSessionActor ----------------------------
(* TLC instance of SessionActor: one session, calls of every risk class. *)
EXTENDS SessionActor

CONSTANTS ask1, ask2, safe, banned, k1

MCRisk == [c \in Calls |-> IF c \in {ask1, ask2} THEN "ask" ELSE IF c = safe THEN "allow" ELSE "deny"]
MCKeyOf == [c \in Calls |-> k1]

\* Two calls under one policy key, a call that needs no approval, a denied one.
MCBatches == {<<ask1, ask2>>, <<safe>>, <<banned>>}
\* A user's call among others, for the runs with several turns.
Small == {<<safe, ask1>>, <<banned>>}
One == {<<ask1>>}

Symmetric == Permutations(Turns) \union Permutations(Approvals)
===============================================================================
