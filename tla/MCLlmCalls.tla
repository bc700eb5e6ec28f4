----------------------------- MODULE MCLlmCalls -----------------------------
EXTENDS LlmCalls

CONSTANTS c1, c2, k1, k2, k3

MCKeys  == <<k1, k2, k3>>
MCCap   == [p \in Pools |-> 1]
MCHash  == [c \in Calls |-> IF c = c1 THEN 1 ELSE Nil]
=============================================================================
