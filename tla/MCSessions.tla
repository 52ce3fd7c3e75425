----------------------------- MODULE MCSessions -----------------------------
(* Threads, ports and session pairs for Sessions.                          *)
EXTENDS Sessions, TLC

CONSTANTS c1, c2, s1, lle, hle, p1, p2

TwoClients == {c1, c2}
OneServer  == {s1}
BothPorts  == {lle, hle}
OneHle     == {hle}
TwoPairs   == {p1, p2}

Symmetric == Permutations(TwoClients) \cup Permutations(TwoPairs)

=============================================================================
