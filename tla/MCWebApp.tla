------------------------------ MODULE MCWebApp ------------------------------
(* Instances of WebApp for TLC. *)
EXTENDS WebApp, TLC

CONSTANTS u, v, c

TokenUser == {u}
TwoUsers == {u, v}
OneClick == {c}
SomeKeys == {"whoami", "members"}
SomeScreens == {"login", "pickOrg", "members", "skills"}
=============================================================================
