---------------------------- MODULE MCGmailSync ----------------------------
EXTENDS GmailSyncProperties, TLC

Symmetric == Permutations(Thread) \cup Permutations(Worker)

\* A history in which mail is removed or the mailbox moves, and not both.
OneTrouble == Cardinality(deleted) + mailbox.rev <= 1
=============================================================================
