----------------------------- MODULE MCMembers ------------------------------
(* Instances of Members for TLC. *)
EXTENDS Members, TLC

CONSTANTS a, b, p, root, n, envToken, t1, x, y

ThreeUsers == {a, b, p}
OneProviderUser == {p}
TwoNames == {root, n}
OneName == {n}
TwoTokens == {envToken, t1}
TwoRequests == {x, y}
OneClaim == {"no claim"}
Symmetry == Permutations({a, b}) \cup Permutations({x, y})
Limits == {2, NoLimit}
=============================================================================
