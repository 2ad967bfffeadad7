------------------------------- MODULE MCSite -------------------------------
(* Three radios on one mast: LongFast and MediumFast overlap, the narrow    *)
(* channel above them does not.                                             *)
EXTENDS Site, TLC

CONSTANTS h1, h2, h3

LongFast == [lo |-> 0, hi |-> 4]
MediumFast == [lo |-> 2, hi |-> 6]
Narrow == [lo |-> 6, hi |-> 7]

MCSpans == {LongFast, MediumFast, Narrow}
MCInitSpan == (h1 :> LongFast) @@ (h2 :> MediumFast) @@ (h3 :> Narrow)
=============================================================================
