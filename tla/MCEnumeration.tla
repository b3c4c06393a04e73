---------------------------- MODULE MCEnumeration ---------------------------
(* Enumeration for TLC: two suites or groups a round, and every server that *)
(* likes some of them in some order.                                        *)
EXTENDS Enumeration

\* The sequences over S without repetition.
Orders(S) ==
    {s \in UNION {[1..n -> S] : n \in 0..Cardinality(S)} :
        \A i, k \in DOMAIN s : s[i] = s[k] => i = k}

\* With two versions: one order for each, one of groups, and some schemes.
MCServers ==
    {[likes |-> <<tls13, legacy, groups>>, signs |-> schemes] :
        tls13 \in Orders(Tls13Suites), legacy \in Orders(LegacySuites),
        groups \in Orders(Groups), schemes \in SUBSET Schemes}
=============================================================================
