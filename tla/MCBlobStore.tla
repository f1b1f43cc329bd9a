---------------------------- MODULE MCBlobStore ----------------------------
(* Instances of BlobStore for TLC. *)
EXTENDS BlobStore, TLC

CONSTANTS f1, f2, f3, x, y

\* f1 and f2 have one length, f3 another, which MaxBlob forbids.
ThreeFiles == {f1, f2, f3}
Sizes == [f \in Files |-> IF f = f3 THEN 2 ELSE 1]
TwoUploads == {x, y}
ZeroOrOne == {0, 1}
=============================================================================
