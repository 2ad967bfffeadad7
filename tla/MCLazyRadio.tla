----------------------------- MODULE MCLazyRadio -----------------------------
EXTENDS LazyRadio
CONSTANTS s1, s2, d1, d2, r1
=============================================================================
