--------------------------- MODULE MCCodexBridge ---------------------------
EXTENDS CodexBridge, TLC

Symmetric == Permutations(Clients)
=============================================================================
