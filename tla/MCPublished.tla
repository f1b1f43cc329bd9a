---------------------------- MODULE MCPublished ----------------------------
(* Instances of Published for TLC. *)
EXTENDS Published, TLC

CONSTANTS acme, beta, deploy, review, unit1, unit2, A, B, r1, r2, r3,
          slugA, slugB

TwoOrgs == {acme, beta}
OneName == {deploy}
TwoSources == {unit1, unit2}
TwoFiles == {A, B}
ThreeSlugs == {DefaultSlug, slugA, slugB}
ThreeRequests == {r1, r2, r3}

RequestSymmetry == Permutations(Requests)
=============================================================================
