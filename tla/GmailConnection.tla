-------------------------- MODULE GmailConnection --------------------------
\* One mailbox and its grant at Google: the authorization flows, the Disconnect,
\* and the callers of getFreshGmailAccessToken. Each step is one SQL function
\* (it locks the mail_accounts row) or one call to Google; between two steps of a
\* flow, a Disconnect or a caller anything else can happen, and its process can die.
EXTENDS Naturals

CONSTANTS
  Flow,          \* authorization flows; each is begun at most once
  Stop,          \* presses of Disconnect; each is made at most once
  Caller,        \* processes that ask for an access token
  First,         \* the flow that connected the mailbox before, or None,
  FirstScopes,   \* with these scopes, and a consent for them
  Purposes,      \* what the creator may begin: "connect", "reconnect", "grant_send"
  MaxTurn,       \* bound: how often Google rotates the token of one grant
  Deletable,     \* whether the account may be closed
  None

ASSUME ConnectionAssumption ==
  /\ First \in Flow \cup {None} /\ FirstScopes \in {"read", "send"}
  /\ Purposes \subseteq {"connect", "reconnect", "grant_send"}
  /\ MaxTurn \in Nat
  /\ Deletable \in BOOLEAN
  /\ None \notin Flow /\ None \notin [flow : Flow, turn : Nat]

VARIABLES
  mail,      \* the row of mail_accounts, its consent, its credential
  blocked,   \* account_gmail_blocked
  flow,      \* oauth transactions and the callbacks that carry them out
  stop,      \* Disconnects under way
  caller,    \* access-token calls under way
  seq,       \* mail_account_lifecycle_intent_seq
  alive,     \* refresh tokens that Google honours
  dropped    \* history: tokens given up unrevoked, or replaced in the row

connVars == <<mail, blocked, flow, stop, caller, seq, alive, dropped>>

Token == [flow : Flow, turn : Nat]
Issued(f) == [flow |-> f, turn |-> 0]

States == {"absent", "consent_required", "connected", "reauth_required",
           "disconnecting", "disconnected", "deletion_pending"}
Outcomes == {"none", "ok", "unknown", "consent_missing", "provider_unavailable",
             "credential_storage_failed", "state_changed"}
Reconnectable == {"disconnected", "reauth_required", "consent_required"}

\* `under` is the Disconnect in whose place a superseded flow revokes.
Unused == [at |-> "new", purpose |-> "connect", rev |-> 0, seq |-> 0,
           scopes |-> "none", under |-> 0]
\* A flow that is over; a token of its grant may still be about, so when it was
\* begun still counts.
Over(f) == [Unused EXCEPT !.at = "done", !.seq = flow[f].seq]

Finished == [at |-> "done", intent |-> 0, cred |-> None]

ConnInit ==
  /\ mail = IF First = None
            THEN [state |-> "absent", scopes |-> "none", consent |-> "none",
                  cred |-> None, rev |-> 0, intent |-> 0]
            ELSE [state |-> "connected", scopes |-> FirstScopes, consent |-> FirstScopes,
                  cred |-> Issued(First), rev |-> 1, intent |-> 0]
  /\ blocked = FALSE
  /\ flow = [f \in Flow |-> IF f = First THEN [Unused EXCEPT !.at = "done", !.seq = 1]
                              ELSE Unused]
  /\ stop = [d \in Stop |-> [Finished EXCEPT !.at = "new"]]
  /\ caller = [c \in Caller |-> [at |-> "idle", token |-> None, told |-> "none"]]
  /\ seq = IF First = None THEN 0 ELSE 1
  /\ alive = IF First = None THEN {} ELSE {Issued(First)}
  /\ dropped = {}

-----------------------------------------------------------------------------
\* Authorization flows

\* gmail_oauth_begin: reconnect and grant_send pin the revision of their target.
Begin(f, p) ==
  /\ flow[f].at = "new" /\ p \in Purposes /\ ~blocked
  /\ p = "reconnect" => mail.state \in Reconnectable
  /\ p = "grant_send" => mail.state = "connected"
  /\ seq' = seq + 1
  /\ flow' = [flow EXCEPT ![f] = [at |-> "begun", purpose |-> p, rev |-> mail.rev,
                                  seq |-> seq', scopes |-> "none", under |-> 0]]
  /\ UNCHANGED <<mail, blocked, stop, caller, alive, dropped>>

\* gmail_oauth_consume_transaction, before anything else is looked at.
Consume(f) ==
  /\ flow[f].at = "begun"
  /\ flow' = [flow EXCEPT ![f].at = "back"]
  /\ UNCHANGED <<mail, blocked, stop, caller, seq, alive, dropped>>

\* exchangeCode: a new grant; Google says which scopes it holds.
Exchange(f, scopes) ==
  /\ flow[f].at = "back"
  /\ flow' = [flow EXCEPT ![f].at = "granted", ![f].scopes = scopes]
  /\ alive' = alive \cup {Issued(f)}
  /\ UNCHANGED <<mail, blocked, stop, caller, seq, dropped>>

\* The human declines, the transaction expires, a check of the answer fails
\* (scopes, identity, nonce, profile), a call fails, or the process dies: all that
\* the flow holds is forgotten, and nothing is revoked.
GiveUp(f) ==
  /\ flow[f].at \notin {"new", "done"}
  /\ flow' = [flow EXCEPT ![f] = Over(f)]
  /\ dropped' = IF flow[f].at \in {"granted", "superseded", "unstored"}
                THEN dropped \cup {Issued(f)} ELSE dropped
  /\ UNCHANGED <<mail, blocked, stop, caller, seq, alive>>

\* gmail_flow_superseded_by_disconnect
Superseded(m, f) ==
  m.state \in {"disconnecting", "disconnected"} /\ flow[f].seq < m.intent

\* Fault: a reconnect lands on any version of its target.
LandsUnpinned(f) ==
  CASE flow[f].purpose = "connect" -> mail.state = "absent"
    [] flow[f].purpose = "reconnect" -> mail.state \in Reconnectable \cup {"disconnecting"}
    [] OTHER -> mail.state = "connected" /\ flow[f].scopes = "send"
\* Whether gmail_connection_persist or gmail_send_scope_persist writes for f,
\* once Superseded has been ruled out.
Lands(f) ==
  CASE flow[f].purpose = "connect" -> mail.state = "absent"
    [] flow[f].purpose = "reconnect" -> mail.state \in Reconnectable
                                        /\ mail.rev = flow[f].rev
    [] OTHER -> mail.state = "connected" /\ mail.rev = flow[f].rev
                /\ flow[f].scopes = "send"

\* Fault: any consent will do.
ConnectedByAnyConsent(m, f) ==
  [m EXCEPT !.state = IF m.consent # "none" THEN "connected" ELSE "consent_required",
            !.scopes = flow[f].scopes, !.cred = Issued(f), !.rev = m.rev + 1]
\* What both write: connected only under a consent for exactly these scopes.
Landed(m, f) ==
  [m EXCEPT !.state = IF m.consent = flow[f].scopes THEN "connected" ELSE "consent_required",
            !.scopes = flow[f].scopes, !.cred = Issued(f), !.rev = m.rev + 1]

\* A credential is not written while the account is closing (0093).
PersistLands(f) ==
  /\ flow[f].at = "granted" /\ ~Superseded(mail, f) /\ Lands(f) /\ ~blocked
  /\ mail' = Landed(mail, f)
  /\ flow' = [flow EXCEPT ![f] = Over(f)]
  /\ dropped' = dropped \cup ({mail.cred} \ {None})
  /\ UNCHANGED <<blocked, stop, caller, seq, alive>>

PersistRefused(f) ==
  /\ flow[f].at = "granted" /\ ~Superseded(mail, f) /\ (Lands(f) => blocked)
  /\ flow' = [flow EXCEPT ![f] = Over(f)]
  /\ dropped' = dropped \cup {Issued(f)}
  /\ UNCHANGED <<mail, blocked, stop, caller, seq, alive>>

PersistSuperseded(f) ==
  /\ flow[f].at = "granted" /\ Superseded(mail, f)
  /\ flow' = [flow EXCEPT ![f].at = "superseded"]
  /\ UNCHANGED <<mail, blocked, stop, caller, seq, alive, dropped>>

\* gmail_record_superseded_disconnect_credential: the token is made durable before
\* it is revoked, in place of what the row held. `heard` is whether the callback got
\* the answer; without it, it revokes and does not finalize.
Store(f, heard) ==
  /\ flow[f].at = "superseded" /\ Superseded(mail, f)
  /\ mail' = [mail EXCEPT !.state = "disconnecting", !.cred = Issued(f),
                          !.rev = IF mail.state = "disconnecting" THEN @ ELSE @ + 1]
  /\ flow' = [flow EXCEPT ![f].at = IF heard THEN "stored" ELSE "unstored",
                          ![f].under = mail.intent]
  /\ dropped' = dropped \cup ({mail.cred} \ {None})
  /\ UNCHANGED <<blocked, stop, caller, seq, alive>>

StoreRefused(f) ==
  /\ flow[f].at = "superseded" /\ ~Superseded(mail, f)
  /\ flow' = [flow EXCEPT ![f] = Over(f)]
  /\ dropped' = dropped \cup {Issued(f)}
  /\ UNCHANGED <<mail, blocked, stop, caller, seq, alive>>

StoreFails(f) ==
  /\ flow[f].at = "superseded"
  /\ flow' = [flow EXCEPT ![f].at = "unstored"]
  /\ UNCHANGED <<mail, blocked, stop, caller, seq, alive, dropped>>

\* Fault: a Disconnect answers for whatever credential is stored by then.
FinalizableForAny(intent, cred) ==
  mail.state = "disconnecting" /\ mail.intent = intent
\* The two comparisons of gmail_disconnect_finalize.
Finalizable(intent, cred) ==
  mail.state = "disconnecting" /\ mail.intent = intent /\ mail.cred = cred

\* Fault: the scopes of the grant stay in the row.
FinalizeScoped(intent, cred) ==
  mail' = IF Finalizable(intent, cred)
          THEN [mail EXCEPT !.state = "disconnected", !.cred = None, !.rev = @ + 1]
          ELSE mail
\* gmail_disconnect_finalize
Finalize(intent, cred) ==
  mail' = IF Finalizable(intent, cred)
          THEN [mail EXCEPT !.state = "disconnected", !.scopes = "none",
                            !.cred = None, !.rev = @ + 1]
          ELSE mail

\* A revoke at Google of any token that still works ends the whole grant; for a
\* token that does not it answers invalid_token, which callers take as success.
Revoke(token) == alive' = IF token \in alive THEN {} ELSE alive

\* revokeSupersededGrant. Without a stored token there is nothing to finalize.
RevokeFlow(f) ==
  /\ flow[f].at \in {"stored", "unstored"}
  /\ Revoke(Issued(f))
  /\ flow' = [flow EXCEPT ![f] = IF @.at = "stored" THEN [@ EXCEPT !.at = "revoked"] ELSE Over(f)]
  /\ UNCHANGED <<mail, blocked, stop, caller, seq, dropped>>

\* The revoke fails, or its answer is lost: disconnect_incomplete.
RevokeFlowFails(f, applied) ==
  /\ flow[f].at \in {"stored", "unstored"}
  /\ IF applied THEN Revoke(Issued(f)) ELSE UNCHANGED alive
  /\ flow' = [flow EXCEPT ![f] = Over(f)]
  /\ dropped' = IF flow[f].at = "unstored" THEN dropped \cup {Issued(f)} ELSE dropped
  /\ UNCHANGED <<mail, blocked, stop, caller, seq>>

FinalizeFlow(f) ==
  /\ flow[f].at = "revoked"
  /\ Finalize(flow[f].under, Issued(f))
  /\ flow' = [flow EXCEPT ![f] = Over(f)]
  /\ UNCHANGED <<blocked, stop, caller, seq, alive, dropped>>

-----------------------------------------------------------------------------
\* Consent, Disconnect, the end of the account

\* gmail_grant_private_processing_consent: the form showed the text for `shown`.
Consent(shown) ==
  /\ mail.state = "consent_required" /\ mail.cred # None /\ mail.scopes = shown
  /\ mail' = [mail EXCEPT !.state = "connected", !.consent = mail.scopes, !.rev = @ + 1]
  /\ UNCHANGED <<blocked, flow, stop, caller, seq, alive, dropped>>

Unconsumed(purposes) == {f \in Flow : flow[f].at = "begun" /\ flow[f].purpose \in purposes}
Cancelled(fs) == [f \in Flow |-> IF f \in fs THEN Over(f) ELSE flow[f]]

\* gmail_disconnect_prepare: a flow that named the mailbox and has not come back
\* is cancelled; a generic connect cannot be found here.
Prepare(d) ==
  /\ stop[d].at = "new"
  /\ mail.state \notin {"absent", "disconnected", "deletion_pending"}
  /\ seq' = seq + 1
  /\ mail' = [mail EXCEPT !.state = "disconnecting", !.intent = seq', !.rev = @ + 1]
  /\ flow' = Cancelled(Unconsumed({"reconnect", "grant_send"}))
  /\ stop' = [stop EXCEPT ![d] = [at |-> IF mail.cred = None THEN "revoked" ELSE "prepared",
                                  intent |-> seq', cred |-> mail.cred]]
  /\ UNCHANGED <<blocked, caller, alive, dropped>>

RevokeStop(d) ==
  /\ stop[d].at = "prepared"
  /\ Revoke(stop[d].cred)
  /\ stop' = [stop EXCEPT ![d].at = "revoked"]
  /\ UNCHANGED <<mail, blocked, flow, caller, seq, dropped>>

RevokeStopFails(d, applied) ==
  /\ stop[d].at = "prepared"
  /\ IF applied THEN Revoke(stop[d].cred) ELSE UNCHANGED alive
  /\ stop' = [stop EXCEPT ![d] = Finished]
  /\ UNCHANGED <<mail, blocked, flow, caller, seq, dropped>>

FinalizeStop(d) ==
  /\ stop[d].at = "revoked"
  /\ Finalize(stop[d].intent, stop[d].cred)
  /\ stop' = [stop EXCEPT ![d] = Finished]
  /\ UNCHANGED <<blocked, flow, caller, seq, alive, dropped>>

StopDies(d) ==
  /\ stop[d].at \in {"prepared", "revoked"}
  /\ stop' = [stop EXCEPT ![d] = Finished]
  /\ UNCHANGED <<mail, blocked, flow, caller, seq, alive, dropped>>

\* account_deletion_stop_gmail (0088) with the request it belongs to: the local
\* rows go, Google is not called.
CloseAccount ==
  /\ Deletable /\ ~blocked
  /\ blocked' = TRUE
  /\ mail' = IF mail.state = "absent" THEN mail
             ELSE [mail EXCEPT !.state = "deletion_pending", !.scopes = "none",
                               !.cred = None, !.rev = @ + 1]
  /\ flow' = Cancelled(Unconsumed({"connect", "reconnect", "grant_send"}))
  /\ dropped' = dropped \cup ({mail.cred} \ {None})
  /\ UNCHANGED <<stop, caller, seq, alive>>

\* The creator removes the application in the Google account, or the grant lapses.
RemovedAtGoogle ==
  /\ alive # {}
  /\ alive' = {}
  /\ UNCHANGED <<mail, blocked, flow, stop, caller, seq, dropped>>

-----------------------------------------------------------------------------
\* getFreshGmailAccessToken

\* mail_account_has_consent does not look at scopes.
Permitted == mail.state = "connected" /\ mail.consent # "none"

\* Fault: the credential is not compared.
CurrentForAny(token) == Permitted /\ mail.cred # None
\* What replace, currentness and mark_reauth_required ask before they act.
Current(token) == Permitted /\ mail.cred = token

Told(c, what) ==
  caller' = [caller EXCEPT ![c] = [at |-> "told", token |-> None, told |-> what]]

\* Without a usable credential the caller is told the state the mailbox is in.
Load(c) ==
  /\ caller[c].at = "idle"
  /\ IF Permitted /\ mail.cred # None
     THEN caller' = [caller EXCEPT ![c] = [at |-> "loaded", token |-> mail.cred, told |-> "none"]]
     ELSE Told(c, CASE mail.state # "connected" -> mail.state
                    [] mail.state = "connected" /\ mail.consent = "none" -> "consent_missing"
                    [] OTHER -> "unknown")
  /\ UNCHANGED <<mail, blocked, flow, stop, seq, alive, dropped>>

RefreshOk(c) ==
  /\ caller[c].at = "loaded" /\ caller[c].token \in alive
  /\ caller' = [caller EXCEPT ![c].at = "fresh"]
  /\ UNCHANGED <<mail, blocked, flow, stop, seq, alive, dropped>>

\* Google hands back a replacement, and the old token stops working.
RefreshRotates(c) ==
  LET old == caller[c].token  new == [old EXCEPT !.turn = @ + 1] IN
  /\ caller[c].at = "loaded" /\ old \in alive /\ old.turn < MaxTurn
  /\ alive' = (alive \ {old}) \cup {new}
  /\ caller' = [caller EXCEPT ![c].at = "rotated"]
  /\ UNCHANGED <<mail, blocked, flow, stop, seq, dropped>>

\* gmail_credential_replace: a compare-and-swap on the credential that was loaded.
Replace(c) ==
  LET old == caller[c].token  new == [old EXCEPT !.turn = @ + 1] IN
  /\ caller[c].at = "rotated"
  /\ IF Current(old)
     THEN /\ mail' = [mail EXCEPT !.cred = new]
          /\ caller' = [caller EXCEPT ![c].at = "fresh", ![c].token = new]
          /\ UNCHANGED dropped
     ELSE /\ Told(c, "state_changed")
          /\ dropped' = dropped \cup {new}
          /\ UNCHANGED mail
  /\ UNCHANGED <<blocked, flow, stop, seq, alive>>

\* The call fails: the replacement is lost, the old token may still be stored.
ReplaceFails(c) ==
  /\ caller[c].at = "rotated"
  /\ Told(c, "credential_storage_failed")
  /\ dropped' = dropped \cup {[caller[c].token EXCEPT !.turn = @ + 1]}
  /\ UNCHANGED <<mail, blocked, flow, stop, seq, alive>>

\* invalid_grant, and gmail_mark_reauth_required for the token that failed.
RefreshDead(c) ==
  /\ caller[c].at = "loaded" /\ caller[c].token \notin alive
  /\ caller' = [caller EXCEPT ![c].at = "dead"]
  /\ UNCHANGED <<mail, blocked, flow, stop, seq, alive, dropped>>

MarkReauth(c) ==
  /\ caller[c].at = "dead"
  /\ IF Current(caller[c].token)
     THEN /\ mail' = [mail EXCEPT !.state = "reauth_required", !.cred = None, !.rev = @ + 1]
          /\ Told(c, "reauth_required")
     ELSE Told(c, "state_changed") /\ UNCHANGED mail
  /\ UNCHANGED <<blocked, flow, stop, seq, alive, dropped>>

\* gmail_credential_currentness, the last look before the token is handed over.
HandOver(c) ==
  /\ caller[c].at = "fresh"
  /\ Told(c, IF Current(caller[c].token) THEN "ok" ELSE "state_changed")
  /\ UNCHANGED <<mail, blocked, flow, stop, seq, alive, dropped>>

\* A call to Google or the database fails.
CallFails(c) ==
  /\ caller[c].at \in {"idle", "loaded", "dead", "fresh"}
  /\ Told(c, "provider_unavailable")
  /\ UNCHANGED <<mail, blocked, flow, stop, seq, alive, dropped>>

\* The caller has its answer, or dies with what it holds.
Leave(c) ==
  /\ caller[c].at # "idle"
  /\ caller' = [caller EXCEPT ![c] = [at |-> "idle", token |-> None, told |-> "none"]]
  /\ dropped' = IF caller[c].at = "rotated"
                THEN dropped \cup {[caller[c].token EXCEPT !.turn = @ + 1]} ELSE dropped
  /\ UNCHANGED <<mail, blocked, flow, stop, seq, alive>>

-----------------------------------------------------------------------------
FlowNext == \E f \in Flow :
  \/ \E p \in {"connect", "reconnect", "grant_send"} : Begin(f, p)
  \/ Consume(f) \/ GiveUp(f)
  \/ \E s \in {"read", "send"} : Exchange(f, s)
  \/ PersistLands(f) \/ PersistRefused(f) \/ PersistSuperseded(f)
  \/ \E heard \in BOOLEAN : Store(f, heard)
  \/ StoreRefused(f) \/ StoreFails(f)
  \/ RevokeFlow(f) \/ FinalizeFlow(f)
  \/ \E applied \in BOOLEAN : RevokeFlowFails(f, applied)

StopNext == \E d \in Stop :
  \/ Prepare(d) \/ RevokeStop(d) \/ FinalizeStop(d) \/ StopDies(d)
  \/ \E applied \in BOOLEAN : RevokeStopFails(d, applied)

OwnerNext == (\E s \in {"read", "send"} : Consent(s)) \/ CloseAccount \/ RemovedAtGoogle

CallerNext(c) ==
  \/ Load(c) \/ RefreshOk(c) \/ RefreshRotates(c) \/ RefreshDead(c)
  \/ Replace(c) \/ ReplaceFails(c) \/ MarkReauth(c) \/ HandOver(c) \/ CallFails(c)

ConnNext ==
  FlowNext \/ StopNext \/ OwnerNext \/ (\E c \in Caller : CallerNext(c) \/ Leave(c))

ConnSpec == ConnInit /\ [][ConnNext]_connVars
=============================================================================
