--------------------------- MODULE MCMountControl ---------------------------
(* Small instances of MountControl for TLC. *)
EXTENDS MountControl, TLC

Both(x, y) == [a \in Axis |-> IF a = "m1" THEN x ELSE y]

\* Limits 0 .. 1 on both axes, and beyond them on the first only.
Zero == Both(0, 0)
One == Both(1, 1)
Short == Both(2, 1)

\* Limits 0 .. 2 and 0 .. 1, one count beyond on both; 0 .. 2 and one beyond.
WideHi == Both(2, 1)
Wide == Both(3, 2)
Two == Both(2, 2)
Four == Both(4, 4)

\* Starting points: anywhere inside the limits; the lower limits.
Anywhere == {Both(x, y) : x \in Lo["m1"] .. Hi["m1"], y \in Lo["m2"] .. Hi["m2"]}
LowerLimits == {Lo}

\* Targets: the upper limits; two that differ in the altitude only; none.
UpperLimits == {Hi}
TwoAltitudes == {Both(0, 0), Both(0, Hi["m2"])}
NoGoals == {}

Symmetric == Permutations(Req) \cup Permutations(Token)
=============================================================================
