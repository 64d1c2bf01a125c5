------------------------- MODULE MCGmailImport ---------------------------
EXTENDS GmailImportProperties, TLC

EmptyFirst == <<{}, {"t1"}>>
Symmetric == Permutations(Caller)
=============================================================================
