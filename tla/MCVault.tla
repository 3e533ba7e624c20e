------------------------------- MODULE MCVault -------------------------------
(* Instances of Vault for TLC.                                             *)
EXTENDS Vault, TLC

CONSTANTS r1, r2, w1, w2, n1, n2

TwoResolvers == {r1, r2}
TwoWriters == {w1, w2}
OneWriter == {w1}
TwoNames == {n1, n2}
OneName == {n1}
=============================================================================
