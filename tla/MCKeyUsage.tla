----------------------------- MODULE MCKeyUsage -----------------------------
(* Instances of KeyUsage for TLC.                                          *)
EXTENDS KeyUsage

Unlimited == {NoLimits}
SomeAndNone == {[rpm |-> 2, tpm |-> 0], [rpm |-> 2, tpm |-> 3], NoLimits}
=============================================================================
