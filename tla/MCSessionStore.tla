--------------------------- MODULE MCSessionStore ---------------------------
(* Instances of SessionStore for TLC. *)
EXTENDS SessionStore, TLC

CONSTANTS k1, k2, a1, a2, a3, x, y, z

OneKey == {k1}
TwoKeys == {k1, k2}
TwoArchives == {a1, a2}
ThreeArchives == {a1, a2, a3}
ThreeRequests == {x, y, z}
Limits == {1, NoLimit}
Unlimited == {NoLimit}
=============================================================================
