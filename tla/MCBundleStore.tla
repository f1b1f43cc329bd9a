--------------------------- MODULE MCBundleStore ---------------------------
(* Instances of BundleStore for TLC. *)
EXTENDS BundleStore, TLC

CONSTANTS u1, u2, ann, bob, s1, r1, r2, r3

\* One unit, all the races on it.
OneUnit == {u1}
TwoUnits == {u1, u2}
OneUser == {bob}
TwoUsers == {ann, bob}
OnlyAnn == {ann}
Nobody == {}
OneSha == {s1}
EmptyOrOne == {{}, {s1}}
TwoRequests == {r1, r2}
ThreeRequests == {r1, r2, r3}

ZeroOrOne == {0, 1}
OneOrNone == {1, NoLimit}
OtherUnit == {u2}
LimitsToTry == {1, 2, NoLimit}
Unlimited == {NoLimit}

RequestSymmetry == Permutations(Requests)
=============================================================================
