---------------------------- MODULE MCSkillSync -----------------------------
(* Instances of SkillSync for TLC. *)
EXTENDS SkillSync, TLC

CONSTANTS m1, d1, c1, w, p1, p2, x, y

OneMachine == {m1}
OneDaemon == {d1}
OneCommand == {c1}
OnePage == {w}
TwoPaths == {p1, p2}
TwoContents == {x, y}
UserScope == {"user"}
BothScopes == {"user", "org"}
None == {}
Symmetric == Permutations(TwoContents) \cup Permutations(TwoPaths)
HostOf(q) == m1
=============================================================================
