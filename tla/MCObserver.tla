----------------------------- MODULE MCObserver -----------------------------
EXTENDS Observer, TLC

SomeTraffic == {m \in EventMessages : m.type # "other"}
Policy(body, total, on) == [maxBody |-> body, maxTotal |-> total, httpBodies |-> on]
MCPolicies == {Policy(2, 3, TRUE), Policy(2, 4, TRUE), Policy(2, 4, FALSE), Policy(2, 1, TRUE)}
MCBodySizes == {1, 3}
Symmetry == Permutations(Requests)
=============================================================================
