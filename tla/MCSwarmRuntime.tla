--------------------------- MODULE MCSwarmRuntime ---------------------------
EXTENDS SwarmRuntime, TLC

CONSTANTS w0, w1, w2, bot
=============================================================================
