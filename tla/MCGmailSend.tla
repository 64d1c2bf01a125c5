----------------------------- MODULE MCGmailSend -----------------------------
(***************************************************************************)
(* Small instances of the Gmail send queue.                                *)
(***************************************************************************)
EXTENDS GmailSendProperties, TLC

CONSTANTS u1, u2, h1, r1, k1, k2, w1, w2

Pitch(h, r) == [kind |-> "pitch", hotel |-> h, itemHotel |-> None, recipient |-> r, thread |-> 0]
Reply(h, item, r) ==
  [kind |-> "reply", hotel |-> h, itemHotel |-> item, recipient |-> r, thread |-> 0]

PitchOnly == {Pitch(h1, r1)}
NoRequest == {}
Replies == {Pitch(h1, r1), Reply(None, h1, r1)}

NoneBefore == <<>>
OneBefore == <<SentPitch(u1, h1, r1)>>

Swaps == Permutations(Worker) \cup Permutations(Key)
=============================================================================
