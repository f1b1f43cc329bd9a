--------------------------- MODULE MCSessionSync ----------------------------
(* Instances of SessionSync for TLC. *)
EXTENDS SessionSync, TLC

CONSTANTS h1, h2, c, log

TwoHosts == {h1, h2}
OneFile == {log}
OneCommand == {c}
HostOfProcess(q) == IF q = c THEN h2 ELSE q
=============================================================================
