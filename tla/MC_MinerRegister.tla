-------------------------- MODULE MC_MinerRegister --------------------------
EXTENDS MinerRegister

CONSTANTS c1, c2, w1, w2

MCCallers == {c1, c2}
MCPrincipals == {w1, w2}
=============================================================================
