------------------------------ MODULE MCUpgrade ------------------------------
EXTENDS UpgradeSystem, TLC

CONSTANTS a1, a2, m1, d1, x1

MCDeviceOf == [c \in Conns |-> d1]
MCAppOf == [m \in AppConns |-> x1]
ConnSymmetry == Permutations(AgentConns)
=============================================================================
