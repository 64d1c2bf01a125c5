------------------------- MODULE MCGmailConnection -------------------------
EXTENDS GmailConnectionProperties, TLC

Symmetric == Permutations(Flow \ {First}) \cup Permutations(Stop)
=============================================================================
