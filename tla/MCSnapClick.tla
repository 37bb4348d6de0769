----------------------------- MODULE MCSnapClick ----------------------------
\* Configurations of two pairs for TLC.
EXTENDS SnapClick

CONSTANTS kA, kD, kW, kS

Pair(t, a, b) == [type |-> t, key0 |-> a, key1 |-> b]
Off           == Pair("none", kA, kA)
TwoPairs(p, q) == [i \in Pairs |-> IF i = 1 THEN p ELSE q]

\* A and D of every type, with W and S of three types or without them, and D and
\* W with a second pair of the same key twice
DisjointConfigs ==
    {TwoPairs(Pair(t, kA, kD), q) : t \in Types \ {"none"},
        q \in {Off} \cup {Pair(u, kW, kS) : u \in {"regular", "neutral", "first_key"}}}
    \cup {TwoPairs(Pair(t, kD, kW), Pair("last_input", kS, kS)) : t \in Types}

\* A is in both pairs
SharedKeyConfigs == {TwoPairs(Pair("last_input", kA, kD), Pair("last_input", kA, kW))}
=============================================================================
