----------------------------- MODULE MCRegistry -----------------------------
EXTENDS Registry, TLC

CONSTANTS lobby, tor, rogue, none, ann, bob, cyd, red, blue
=============================================================================
