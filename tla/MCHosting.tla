----------------------------- MODULE MCHosting -----------------------------
(* Two radios with two ports each, two identities and two web requests.    *)
EXTENDS Hosting, TLC

CONSTANTS a1, a2, k1, k2

Symmetry == Permutations({a1, a2}) \cup Permutations({k1, k2})
=============================================================================
