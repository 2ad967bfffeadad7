----------------------------- MODULE MCNodeLink -----------------------------
(* Two settings, two goroutines waiting, one change of the settings. *)
EXTENDS NodeLink
CONSTANTS s1, s2
MCSettings == {s1, s2}
=============================================================================
