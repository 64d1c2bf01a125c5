--------------------- MODULE GmailConnectionProperties ---------------------
EXTENDS GmailConnection

\* The rows of mail_accounts, in the shapes that the table checks (0035:353-374).
Mails ==
  {m \in [state : States, scopes : {"none", "read", "send"}, consent : {"none", "read", "send"},
          cred : Token \cup {None}, rev : Nat, intent : Nat] :
     /\ m.state \in {"disconnected", "deletion_pending"} => m.scopes = "none"
     /\ m.state \in {"absent", "reauth_required", "disconnected", "deletion_pending"}
          => m.cred = None}

Flows == [at : {"new", "begun", "back", "granted", "superseded", "stored", "unstored",
                "revoked", "done"},
          purpose : {"connect", "reconnect", "grant_send"}, rev : Nat, seq : Nat,
          scopes : {"none", "read", "send"}, under : Nat]
Stops == [at : {"new", "prepared", "revoked", "done"}, intent : Nat, cred : Token \cup {None}]
Calls == [at : {"idle", "loaded", "rotated", "dead", "fresh", "told"},
          token : Token \cup {None}, told : States \cup Outcomes]

\* Type invariant of the mailbox, its flows, Disconnects and callers. A caller holds a
\* token while it uses one.
TypeOK ==
  /\ mail \in Mails /\ blocked \in BOOLEAN /\ seq \in Nat
  /\ flow \in [Flow -> Flows] /\ stop \in [Stop -> Stops] /\ caller \in [Caller -> Calls]
  /\ \A c \in Caller : caller[c].at \in {"loaded", "rotated", "dead", "fresh"}
                        => caller[c].token # None
  /\ alive \subseteq Token /\ dropped \subseteq Token

\* A mailbox that works does so with the grant of a flow begun after the last
\* Disconnect: no old callback undoes the creator's decision (0036:1126, 1240).
DisconnectStands ==
  mail.state \in {"connected", "consent_required"}
    => mail.cred # None /\ flow[mail.cred.flow].seq > mail.intent

\* A mailbox is worked on only under a consent for exactly the scopes it holds,
\* whatever flows, forms and Disconnects overlapped (0036:1336, 0089:262, 0101:80).
ConsentCovers ==
  mail.state = "connected" => mail.consent = mail.scopes /\ mail.scopes # "none"

\* When the creator is told that the mailbox is disconnected, Google honours no
\* token, except one whose holder has still to answer for it or gave it up
\* (0036:2052, connection.server.ts:660).
RevokedUnlessLost ==
  mail.state = "disconnected" =>
    \A t \in alive : \/ flow[t.flow].at \in {"granted", "superseded", "unstored"}
                     \/ \E c \in Caller : caller[c].at = "rotated" /\ t.flow = caller[c].token.flow
                     \/ t \in dropped

\* The credential is taken away only when Google no longer honours it, or when the
\* account is closed (connection.server.ts:865, 0036:1766).
HonouredStays ==
  [][mail.cred # None /\ mail'.cred = None /\ ~blocked' => mail.cred \notin alive]_connVars

\* What a Disconnect keeps for its retry is replaced only by a token that can end
\* the grant: "the retained credential, if any, is the OLD one the Disconnect
\* already tried to revoke" (0036:2270).
RetryMaterialStays ==
  [][mail.state = "disconnecting" /\ mail.cred \in alive /\ mail'.cred # mail.cred
       => mail'.cred \in alive]_connVars
=============================================================================
