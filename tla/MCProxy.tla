------------------------------- MODULE MCProxy -------------------------------
(* Instances of the proxy: requests r1 and r2 share the backend b1 and r3 has *)
(* its own; all ask for one key, or r3 for a second one.                      *)
EXTENDS Proxy

CONSTANTS r1, r2, r3, b1, b2, k1, k2, h1, h2

OneKey == [r \in Reqs |-> k1]
TwoKeys == [r \in Reqs |-> IF r = r3 THEN k2 ELSE k1]
TwoBackends == [r \in Reqs |-> IF r = r3 THEN b2 ELSE b1]
Separate == [k \in Keys |-> IF k = k2 THEN h2 ELSE h1]
Colliding == [k \in Keys |-> h1]

\* r1 and r3 are alike: each has a backend of its own and asks for the same key.
Alike == Permutations({r1, r3})
=============================================================================
