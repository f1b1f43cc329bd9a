------------------------------ MODULE MCInstalls ------------------------------
(* Instances of Installs for TLC. *)
EXTENDS Installs, TLC

CONSTANTS org, ref, q1, q2, p1, p2, x, y, mine

OneRef == {ref}
TwoProcesses == {q1, q2}
TwoPaths == {p1, p2}
ThreeContents == {x, y, mine}
UsersOwn == {mine}

\* The org's unit loses a file in its second version; the published skill has
\* another content of the one, and the same of the other, and then changes it.
Versions ==
    (org :> <<(p1 :> x @@ p2 :> x), (p1 :> y @@ p2 :> Absent)>>) @@
    (ref :> <<(p1 :> y @@ p2 :> x), (p1 :> y @@ p2 :> y)>>)

ProcessSymmetry == Permutations(Processes)
=============================================================================
