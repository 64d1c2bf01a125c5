----------------------- MODULE GmailConnectionProofs -----------------------
(***************************************************************************)
(* Proofs about the connection: its types, that no old callback undoes a   *)
(* Disconnect, that a mailbox works under a consent for the scopes it      *)
(* holds, and that a credential outlives the grant it stands for.          *)
(*                                                                         *)
(* The invariant orders flows and Disconnects by their numbers and says    *)
(* where a token can be: of the tokens of one flow Google honours the last *)
(* at most, and what was revoked or refused does not work again.           *)
(***************************************************************************)
EXTENDS GmailConnectionProperties, TLAPS

Early == {"new", "begun", "back"}
Live == {"connected", "consent_required"}

\* The tokens that somebody could still present.
Held == {t \in Token : \/ t = mail.cred \/ t \in alive
                       \/ \E d \in Stop : t = stop[d].cred
                       \/ \E c \in Caller : t = caller[c].token}

\* Flows and Disconnects are numbered in the order they were begun; a flow that has the
\* revision of the mailbox was begun after the last Disconnect.
Order ==
  /\ mail.intent <= seq
  /\ mail.state = "absent" => mail.intent = 0
  /\ \A f \in Flow : flow[f].at # "new" => flow[f].seq > 0 /\ flow[f].seq <= seq
  /\ \A f \in Flow : flow[f].at \notin {"new", "done"} =>
       flow[f].rev <= mail.rev /\ (flow[f].rev = mail.rev => flow[f].seq > mail.intent)

\* A grant says which scopes it holds.
Granted == \A f \in Flow : flow[f].at = "granted" => flow[f].scopes # "none"

\* A token belongs to a flow that has come back from Google.
Fresh == \A t \in Held : flow[t.flow].at \notin Early

\* Of the tokens of one flow, Google honours the last at most.
Turns ==
  /\ \A t \in alive, k \in Held : k.flow = t.flow => k.turn <= t.turn
  /\ \A c \in Caller, t \in alive :
       caller[c].at = "rotated" /\ t.flow = caller[c].token.flow => caller[c].token.turn < t.turn

\* What was revoked, or refused by Google, is not honoured again.
Dead ==
  /\ \A d \in Stop : stop[d].at = "revoked" => stop[d].cred \notin alive
  /\ \A f \in Flow : flow[f].at = "revoked" => Issued(f) \notin alive
  /\ \A c \in Caller : caller[c].at = "dead" => caller[c].token \notin alive

IInv == TypeOK /\ Order /\ DisconnectStands /\ ConsentCovers /\ Granted /\ Fresh /\ Turns /\ Dead

\* The steps that write the row of the mailbox, and those that move a flow.
MailMoves ==
  \/ \E f \in Flow : PersistLands(f) \/ FinalizeFlow(f) \/ \E heard \in BOOLEAN : Store(f, heard)
  \/ \E d \in Stop : Prepare(d) \/ FinalizeStop(d)
  \/ \E s \in {"read", "send"} : Consent(s)
  \/ CloseAccount
  \/ \E c \in Caller : Replace(c) \/ MarkReauth(c)


\* Every step keeps the types.
LEMMA TypeStep == ASSUME TypeOK, ConnNext PROVE TypeOK'
<1>1. /\ mail \in Mails /\ mail.rev + 1 \in Nat /\ mail.intent \in Nat
      /\ seq + 1 \in Nat /\ flow \in [Flow -> Flows]
  BY DEF TypeOK, Mails
<1>2. ASSUME NEW f \in Flow, NEW p \in {"connect", "reconnect", "grant_send"}, Begin(f, p)
      PROVE  TypeOK'
  <2>1. flow' \in [Flow -> Flows]
    BY <1>2 DEF Begin, TypeOK, Flows, Mails
  <2>2. seq' \in Nat
    BY <1>2 DEF Begin, TypeOK
  <2>3. QED BY <1>2, <2>1, <2>2 DEF Begin, TypeOK
<1>3. ASSUME NEW f \in Flow, Consume(f)
      PROVE  TypeOK'
  <2>1. flow' \in [Flow -> Flows]
    BY <1>3 DEF Consume, TypeOK, Flows
  <2>2. QED BY <1>3, <2>1 DEF Consume, TypeOK
<1>4. ASSUME NEW f \in Flow, GiveUp(f)
      PROVE  TypeOK'
  <2>1. flow' \in [Flow -> Flows]
    BY <1>4 DEF GiveUp, TypeOK, Flows, Over, Unused
  <2>2. dropped' \subseteq Token
    BY <1>4 DEF GiveUp, TypeOK, Mails, Token, Issued
  <2>3. QED BY <1>4, <2>1, <2>2 DEF GiveUp, TypeOK
<1>5. ASSUME NEW f \in Flow, NEW s \in {"read", "send"}, Exchange(f, s)
      PROVE  TypeOK'
  <2>1. flow' \in [Flow -> Flows]
    <3>1. [flow[f] EXCEPT !.at = "granted", !.scopes = s] \in Flows
      BY <1>1, <1>5 DEF Flows
    <3>2. QED BY <1>1, <1>5, <3>1 DEF Exchange
  <2>2. alive' \subseteq Token
    BY <1>5 DEF Exchange, TypeOK, Token, Issued
  <2>3. QED BY <1>5, <2>1, <2>2 DEF Exchange, TypeOK
<1>6. ASSUME NEW f \in Flow, PersistLands(f)
      PROVE  TypeOK'
  <2>1. flow' \in [Flow -> Flows]
    BY <1>6 DEF PersistLands, TypeOK, Flows, Over, Unused
  <2>2. mail' \in Mails
    BY <1>6, <1>1 DEF PersistLands, Mails, States, Landed, Issued, Token, Flows
  <2>3. dropped' \subseteq Token
    BY <1>6 DEF PersistLands, TypeOK, Mails, Token
  <2>4. QED BY <1>6, <2>1, <2>2, <2>3 DEF PersistLands, TypeOK
<1>7. ASSUME NEW f \in Flow, PersistRefused(f)
      PROVE  TypeOK'
  <2>1. flow' \in [Flow -> Flows]
    BY <1>7 DEF PersistRefused, TypeOK, Flows, Over, Unused
  <2>2. dropped' \subseteq Token
    BY <1>7 DEF PersistRefused, TypeOK, Mails, Token, Issued
  <2>3. QED BY <1>7, <2>1, <2>2 DEF PersistRefused, TypeOK
<1>8. ASSUME NEW f \in Flow, PersistSuperseded(f)
      PROVE  TypeOK'
  <2>1. flow' \in [Flow -> Flows]
    BY <1>8 DEF PersistSuperseded, TypeOK, Flows
  <2>2. QED BY <1>8, <2>1 DEF PersistSuperseded, TypeOK
<1>9. ASSUME NEW f \in Flow, NEW heard \in BOOLEAN, Store(f, heard)
      PROVE  TypeOK'
  <2>1. flow' \in [Flow -> Flows]
    <3>1. ASSUME NEW at \in {"stored", "unstored"}
          PROVE  [flow[f] EXCEPT !.at = at, !.under = mail.intent] \in Flows
      BY <1>1 DEF Flows
    <3>2. QED BY <1>1, <1>9, <3>1 DEF Store
  <2>2. mail' \in Mails
    BY <1>9, <1>1 DEF Store, Mails, States, Issued, Token
  <2>3. dropped' \subseteq Token
    BY <1>9 DEF Store, TypeOK, Mails, Token
  <2>4. QED BY <1>9, <2>1, <2>2, <2>3 DEF Store, TypeOK
<1>10. ASSUME NEW f \in Flow, StoreRefused(f)
      PROVE  TypeOK'
  <2>1. flow' \in [Flow -> Flows]
    BY <1>10 DEF StoreRefused, TypeOK, Flows, Over, Unused
  <2>2. dropped' \subseteq Token
    BY <1>10 DEF StoreRefused, TypeOK, Mails, Token, Issued
  <2>3. QED BY <1>10, <2>1, <2>2 DEF StoreRefused, TypeOK
<1>11. ASSUME NEW f \in Flow, StoreFails(f)
      PROVE  TypeOK'
  <2>1. flow' \in [Flow -> Flows]
    BY <1>11 DEF StoreFails, TypeOK, Flows
  <2>2. QED BY <1>11, <2>1 DEF StoreFails, TypeOK
<1>12. ASSUME NEW f \in Flow, RevokeFlow(f)
      PROVE  TypeOK'
  <2>1. flow' \in [Flow -> Flows]
    <3>1. Over(f) \in Flows /\ [flow[f] EXCEPT !.at = "revoked"] \in Flows
      BY <1>1 DEF Flows, Over, Unused
    <3>2. QED BY <1>1, <1>12, <3>1 DEF RevokeFlow
  <2>2. alive' \subseteq Token
    BY <1>12 DEF RevokeFlow, TypeOK, Token, Revoke
  <2>3. QED BY <1>12, <2>1, <2>2 DEF RevokeFlow, TypeOK
<1>13. ASSUME NEW f \in Flow, FinalizeFlow(f)
      PROVE  TypeOK'
  <2>1. flow' \in [Flow -> Flows]
    BY <1>13 DEF FinalizeFlow, TypeOK, Flows, Over, Unused
  <2>2. mail' \in Mails
    BY <1>13, <1>1 DEF FinalizeFlow, Mails, States, Finalize
  <2>3. QED BY <1>13, <2>1, <2>2 DEF FinalizeFlow, TypeOK
<1>14. ASSUME NEW f \in Flow, NEW applied \in BOOLEAN, RevokeFlowFails(f, applied)
      PROVE  TypeOK'
  <2>1. flow' \in [Flow -> Flows]
    BY <1>14 DEF RevokeFlowFails, TypeOK, Flows, Over, Unused
  <2>2. alive' \subseteq Token
    BY <1>14 DEF RevokeFlowFails, TypeOK, Token, Revoke
  <2>3. dropped' \subseteq Token
    BY <1>14 DEF RevokeFlowFails, TypeOK, Mails, Token, Issued
  <2>4. QED BY <1>14, <2>1, <2>2, <2>3 DEF RevokeFlowFails, TypeOK
<1>15. ASSUME NEW d \in Stop, Prepare(d)
      PROVE  TypeOK'
  <2>1. seq' \in Nat
    BY <1>15 DEF Prepare, TypeOK
  <2>2. mail' \in Mails
    BY <1>15, <1>1 DEF Prepare, Mails, States
  <2>3. flow' \in [Flow -> Flows]
    BY <1>15 DEF Prepare, TypeOK, Flows, Cancelled, Over, Unused
  <2>4. stop' \in [Stop -> Stops]
    BY <1>15 DEF Prepare, TypeOK, Stops, Mails
  <2>5. QED BY <1>15, <2>1, <2>2, <2>3, <2>4 DEF Prepare, TypeOK
<1>16. ASSUME NEW d \in Stop, RevokeStop(d)
      PROVE  TypeOK'
  <2>1. stop' \in [Stop -> Stops]
    BY <1>16 DEF RevokeStop, TypeOK, Stops
  <2>2. alive' \subseteq Token
    BY <1>16 DEF RevokeStop, TypeOK, Token, Revoke
  <2>3. QED BY <1>16, <2>1, <2>2 DEF RevokeStop, TypeOK
<1>17. ASSUME NEW d \in Stop, FinalizeStop(d)
      PROVE  TypeOK'
  <2>1. mail' \in Mails
    BY <1>17, <1>1 DEF FinalizeStop, Mails, States, Finalize
  <2>2. stop' \in [Stop -> Stops]
    BY <1>17 DEF FinalizeStop, TypeOK, Stops, Finished
  <2>3. QED BY <1>17, <2>1, <2>2 DEF FinalizeStop, TypeOK
<1>18. ASSUME NEW d \in Stop, StopDies(d)
      PROVE  TypeOK'
  <2>1. stop' \in [Stop -> Stops]
    BY <1>18 DEF StopDies, TypeOK, Stops, Finished
  <2>2. QED BY <1>18, <2>1 DEF StopDies, TypeOK
<1>19. ASSUME NEW d \in Stop, NEW applied \in BOOLEAN, RevokeStopFails(d, applied)
      PROVE  TypeOK'
  <2>1. stop' \in [Stop -> Stops]
    BY <1>19 DEF RevokeStopFails, TypeOK, Stops, Finished
  <2>2. alive' \subseteq Token
    BY <1>19 DEF RevokeStopFails, TypeOK, Token, Revoke
  <2>3. QED BY <1>19, <2>1, <2>2 DEF RevokeStopFails, TypeOK
<1>20. ASSUME NEW s \in {"read", "send"}, Consent(s)
      PROVE  TypeOK'
  <2>1. mail' \in Mails
    BY <1>20, <1>1 DEF Consent, Mails, States
  <2>2. QED BY <1>20, <2>1 DEF Consent, TypeOK
<1>21. ASSUME CloseAccount
      PROVE  TypeOK'
  <2>1. mail' \in Mails
    BY <1>21, <1>1 DEF CloseAccount, Mails, States
  <2>2. flow' \in [Flow -> Flows]
    BY <1>21 DEF CloseAccount, TypeOK, Flows, Cancelled, Over, Unused
  <2>3. dropped' \subseteq Token
    BY <1>21 DEF CloseAccount, TypeOK, Mails, Token
  <2>4. QED BY <1>21, <2>1, <2>2, <2>3 DEF CloseAccount, TypeOK
<1>22. ASSUME RemovedAtGoogle
      PROVE  TypeOK'
  <2>1. alive' \subseteq Token
    BY <1>22 DEF RemovedAtGoogle, TypeOK, Token
  <2>2. QED BY <1>22, <2>1 DEF RemovedAtGoogle, TypeOK
<1>23. ASSUME NEW c \in Caller, Load(c)
      PROVE  TypeOK'
  <2>1. caller' \in [Caller -> Calls]
    BY <1>23 DEF Load, TypeOK, Calls, States, Outcomes, Told, Mails, Token
  <2>2. \A d \in Caller : caller'[d].at \in {"loaded", "rotated", "dead", "fresh"}
                                => caller'[d].token # None
    BY <1>23, ConnectionAssumption DEF Load, TypeOK, Calls, Token, Told, Mails, States
  <2>3. QED BY <1>23, <2>1, <2>2 DEF Load, TypeOK
<1>24. ASSUME NEW c \in Caller, RefreshOk(c)
      PROVE  TypeOK'
  <2>1. caller' \in [Caller -> Calls]
    BY <1>24 DEF RefreshOk, TypeOK, Calls, States, Outcomes
  <2>2. \A d \in Caller : caller'[d].at \in {"loaded", "rotated", "dead", "fresh"}
                                => caller'[d].token # None
    BY <1>24, ConnectionAssumption DEF RefreshOk, TypeOK, Calls, Token
  <2>3. QED BY <1>24, <2>1, <2>2 DEF RefreshOk, TypeOK
<1>25. ASSUME NEW c \in Caller, RefreshRotates(c)
      PROVE  TypeOK'
  <2>1. alive' \subseteq Token
    BY <1>25 DEF RefreshRotates, TypeOK, Token, Calls
  <2>2. caller' \in [Caller -> Calls]
    BY <1>25 DEF RefreshRotates, TypeOK, Calls, States, Outcomes
  <2>3. \A d \in Caller : caller'[d].at \in {"loaded", "rotated", "dead", "fresh"}
                                => caller'[d].token # None
    BY <1>25, ConnectionAssumption DEF RefreshRotates, TypeOK, Calls, Token
  <2>4. QED BY <1>25, <2>1, <2>2, <2>3 DEF RefreshRotates, TypeOK
<1>26. ASSUME NEW c \in Caller, RefreshDead(c)
      PROVE  TypeOK'
  <2>1. caller' \in [Caller -> Calls]
    BY <1>26 DEF RefreshDead, TypeOK, Calls, States, Outcomes
  <2>2. \A d \in Caller : caller'[d].at \in {"loaded", "rotated", "dead", "fresh"}
                                => caller'[d].token # None
    BY <1>26, ConnectionAssumption DEF RefreshDead, TypeOK, Calls, Token
  <2>3. QED BY <1>26, <2>1, <2>2 DEF RefreshDead, TypeOK
<1>27. ASSUME NEW c \in Caller, Replace(c)
      PROVE  TypeOK'
  <2>1. mail' \in Mails
    BY <1>27 DEF Replace, TypeOK, Mails, States, Token, Calls, Permitted, Current
  <2>2. caller' \in [Caller -> Calls]
    BY <1>27 DEF Replace, TypeOK, Calls, States, Outcomes, Token, Told
  <2>3. dropped' \subseteq Token
    BY <1>27 DEF Replace, TypeOK, Mails, Token, Calls
  <2>4. \A d \in Caller : caller'[d].at \in {"loaded", "rotated", "dead", "fresh"}
                                => caller'[d].token # None
    BY <1>27, ConnectionAssumption DEF Replace, TypeOK, Calls, Token, Told
  <2>5. QED BY <1>27, <2>1, <2>2, <2>3, <2>4 DEF Replace, TypeOK
<1>28. ASSUME NEW c \in Caller, ReplaceFails(c)
      PROVE  TypeOK'
  <2>1. caller' \in [Caller -> Calls]
    BY <1>28 DEF ReplaceFails, TypeOK, Calls, States, Outcomes, Told
  <2>2. dropped' \subseteq Token
    BY <1>28 DEF ReplaceFails, TypeOK, Mails, Token, Calls
  <2>3. \A d \in Caller : caller'[d].at \in {"loaded", "rotated", "dead", "fresh"}
                                => caller'[d].token # None
    BY <1>28, ConnectionAssumption DEF ReplaceFails, TypeOK, Calls, Token, Told
  <2>4. QED BY <1>28, <2>1, <2>2, <2>3 DEF ReplaceFails, TypeOK
<1>29. ASSUME NEW c \in Caller, MarkReauth(c)
      PROVE  TypeOK'
  <2>1. mail' \in Mails
    BY <1>29, <1>1 DEF MarkReauth, Mails, States, Permitted, Current
  <2>2. caller' \in [Caller -> Calls]
    BY <1>29 DEF MarkReauth, TypeOK, Calls, States, Outcomes, Told
  <2>3. \A d \in Caller : caller'[d].at \in {"loaded", "rotated", "dead", "fresh"}
                                => caller'[d].token # None
    BY <1>29, ConnectionAssumption DEF MarkReauth, TypeOK, Calls, Token, Told
  <2>4. QED BY <1>29, <2>1, <2>2, <2>3 DEF MarkReauth, TypeOK
<1>30. ASSUME NEW c \in Caller, HandOver(c)
      PROVE  TypeOK'
  <2>1. caller' \in [Caller -> Calls]
    BY <1>30 DEF HandOver, TypeOK, Calls, States, Outcomes, Told
  <2>2. \A d \in Caller : caller'[d].at \in {"loaded", "rotated", "dead", "fresh"}
                                => caller'[d].token # None
    BY <1>30, ConnectionAssumption DEF HandOver, TypeOK, Calls, Token, Told
  <2>3. QED BY <1>30, <2>1, <2>2 DEF HandOver, TypeOK
<1>31. ASSUME NEW c \in Caller, CallFails(c)
      PROVE  TypeOK'
  <2>1. caller' \in [Caller -> Calls]
    BY <1>31 DEF CallFails, TypeOK, Calls, States, Outcomes, Told
  <2>2. \A d \in Caller : caller'[d].at \in {"loaded", "rotated", "dead", "fresh"}
                                => caller'[d].token # None
    BY <1>31, ConnectionAssumption DEF CallFails, TypeOK, Calls, Token, Told
  <2>3. QED BY <1>31, <2>1, <2>2 DEF CallFails, TypeOK
<1>32. ASSUME NEW c \in Caller, Leave(c)
      PROVE  TypeOK'
  <2>1. caller' \in [Caller -> Calls]
    BY <1>32 DEF Leave, TypeOK, Calls, States, Outcomes
  <2>2. dropped' \subseteq Token
    BY <1>32 DEF Leave, TypeOK, Mails, Token, Calls
  <2>3. \A d \in Caller : caller'[d].at \in {"loaded", "rotated", "dead", "fresh"}
                                => caller'[d].token # None
    BY <1>32, ConnectionAssumption DEF Leave, TypeOK, Calls, Token
  <2>4. QED BY <1>32, <2>1, <2>2, <2>3 DEF Leave, TypeOK
<1>33. QED
  BY <1>2, <1>3, <1>4, <1>5, <1>6, <1>7, <1>8, <1>9, <1>10, <1>11, <1>12, <1>13, <1>14,
     <1>15, <1>16, <1>17, <1>18, <1>19, <1>20, <1>21, <1>22, <1>23, <1>24, <1>25, <1>26,
     <1>27, <1>28, <1>29, <1>30, <1>31, <1>32
  DEF ConnNext, FlowNext, StopNext, OwnerNext, CallerNext

\* Every other step leaves the mailbox alone.
LEMMA MailStill == ASSUME ConnNext PROVE mail' = mail \/ MailMoves
<1>1. CASE FlowNext
  BY <1>1 DEF FlowNext, MailMoves, Begin, Consume, GiveUp, Exchange, PersistRefused,
      PersistSuperseded, StoreRefused, StoreFails, RevokeFlow, RevokeFlowFails
<1>2. CASE StopNext
  BY <1>2 DEF StopNext, MailMoves, RevokeStop, RevokeStopFails, StopDies
<1>3. CASE OwnerNext
  BY <1>3 DEF OwnerNext, MailMoves, RemovedAtGoogle
<1>4. CASE \E c \in Caller : CallerNext(c) \/ Leave(c)
  BY <1>4 DEF CallerNext, MailMoves, Load, RefreshOk, RefreshRotates, RefreshDead,
      ReplaceFails, HandOver, CallFails, Leave
<1>5. QED BY <1>1, <1>2, <1>3, <1>4 DEF ConnNext

\* A flow as a step leaves it, unless the step begins it.
GoesOn(f) ==
  \/ flow'[f] = flow[f]
  \/ /\ flow[f].at \notin {"new", "done"} /\ flow'[f].at # "new" /\ flow'[f].seq = flow[f].seq
     /\ flow'[f].at = "done" \/ flow'[f].rev = flow[f].rev

AllGoOn == \A g \in Flow : GoesOn(g)

\* One flow is taken further.
LEMMA Moved ==
  ASSUME NEW f \in Flow, NEW x, flow \in [Flow -> Flows], flow' = [flow EXCEPT ![f] = x],
         flow[f].at \notin {"new", "done"}, x.at # "new", x.seq = flow[f].seq,
         x.at = "done" \/ x.rev = flow[f].rev
  PROVE  AllGoOn
BY DEF AllGoOn, GoesOn

\* One flow is over.
LEMMA Ended ==
  ASSUME NEW f \in Flow, flow \in [Flow -> Flows], flow' = [flow EXCEPT ![f] = Over(f)],
         flow[f].at \notin {"new", "done"}
  PROVE  AllGoOn
<1>1. Over(f).at = "done" /\ Over(f).seq = flow[f].seq
  BY DEF Over, Unused
<1>2. QED BY <1>1, Moved

\* Flows that have not come back are cancelled.
LEMMA CancelGoesOn ==
  ASSUME NEW ps, flow' = Cancelled(Unconsumed(ps)) PROVE AllGoOn
BY DEF AllGoOn, GoesOn, Cancelled, Unconsumed, Over, Unused

\* Whatever is not a beginning only takes flows further.
LEMMA FlowsGoOn ==
  ASSUME TypeOK, ConnNext
  PROVE  (\E f \in Flow, p \in {"connect", "reconnect", "grant_send"} : Begin(f, p)) \/ AllGoOn
<1>1. ASSUME NEW f \in Flow, Consume(f) PROVE AllGoOn
  BY <1>1 DEF AllGoOn, GoesOn, TypeOK, Consume, Flows
<1>2. ASSUME NEW f \in Flow,
             \/ GiveUp(f) \/ PersistLands(f) \/ PersistRefused(f)
             \/ StoreRefused(f) \/ FinalizeFlow(f)
      PROVE AllGoOn
  BY <1>2, Ended DEF TypeOK, GiveUp, PersistLands, PersistRefused, StoreRefused, FinalizeFlow
<1>3. ASSUME NEW f \in Flow, PersistSuperseded(f) \/ StoreFails(f)
      PROVE AllGoOn
  BY <1>3 DEF AllGoOn, GoesOn, TypeOK, PersistSuperseded, StoreFails, Flows
<1>4. ASSUME NEW f \in Flow, RevokeFlow(f) PROVE AllGoOn
  BY <1>4, Ended DEF AllGoOn, GoesOn, TypeOK, RevokeFlow, Flows
<1>5. ASSUME NEW f \in Flow, NEW s \in {"read", "send"}, Exchange(f, s) PROVE AllGoOn
  BY <1>5 DEF AllGoOn, GoesOn, TypeOK, Exchange, Flows
<1>6. ASSUME NEW f \in Flow, NEW heard \in BOOLEAN, Store(f, heard) PROVE AllGoOn
  BY <1>6 DEF AllGoOn, GoesOn, TypeOK, Store, Flows
<1>7. ASSUME NEW f \in Flow, NEW applied \in BOOLEAN, RevokeFlowFails(f, applied) PROVE AllGoOn
  BY <1>7, Ended DEF TypeOK, RevokeFlowFails
<1>8. ASSUME CloseAccount \/ \E d \in Stop : Prepare(d)
      PROVE AllGoOn
  BY <1>8, CancelGoesOn DEF CloseAccount, Prepare
<1>9. flow' = flow => AllGoOn
  BY DEF AllGoOn, GoesOn
<1>10. CASE FlowNext
  BY <1>1, <1>2, <1>3, <1>4, <1>5, <1>6, <1>7, <1>10 DEF FlowNext
<1>11. CASE StopNext
  BY <1>8, <1>9, <1>11 DEF StopNext, RevokeStop, RevokeStopFails, FinalizeStop, StopDies
<1>12. CASE OwnerNext
  BY <1>8, <1>9, <1>12 DEF OwnerNext, Consent, RemovedAtGoogle
<1>13. CASE \E c \in Caller : CallerNext(c) \/ Leave(c)
  BY <1>9, <1>13 DEF CallerNext, Load, RefreshOk, RefreshRotates, RefreshDead, Replace,
      ReplaceFails, MarkReauth, HandOver, CallFails, Leave
<1>14. QED BY <1>10, <1>11, <1>12, <1>13 DEF ConnNext

\* Only a beginning and a Disconnect take a number.
LEMMA SeqStill ==
  ASSUME ConnNext
  PROVE  \/ seq' = seq
         \/ \E f \in Flow, p \in {"connect", "reconnect", "grant_send"} : Begin(f, p)
         \/ \E d \in Stop : Prepare(d)
<1>1. CASE FlowNext
  BY <1>1 DEF FlowNext, Consume, GiveUp, Exchange, PersistLands, PersistRefused,
      PersistSuperseded, Store, StoreRefused, StoreFails, RevokeFlow, RevokeFlowFails,
      FinalizeFlow
<1>2. CASE StopNext
  BY <1>2 DEF StopNext, RevokeStop, RevokeStopFails, FinalizeStop, StopDies
<1>3. CASE OwnerNext
  BY <1>3 DEF OwnerNext, Consent, CloseAccount, RemovedAtGoogle
<1>4. CASE \E c \in Caller : CallerNext(c) \/ Leave(c)
  BY <1>4 DEF CallerNext, Load, RefreshOk, RefreshRotates, RefreshDead, Replace, ReplaceFails,
      MarkReauth, HandOver, CallFails, Leave
<1>5. QED BY <1>1, <1>2, <1>3, <1>4 DEF ConnNext

\* The mailbox after a step that is no Disconnect: its revision grows, and it does not
\* come to work unless a flow lands.
MailGoesOn ==
  /\ mail'.intent = mail.intent /\ mail'.rev >= mail.rev
  /\ mail'.state = "absent" => mail.state = "absent"
StaysLive ==
  mail'.state \in Live => /\ mail.state \in Live /\ mail'.cred # None
                          /\ mail'.cred.flow = mail.cred.flow /\ mail'.intent = mail.intent

\* One step of the mailbox.
LEMMA MailStep ==
  ASSUME TypeOK, DisconnectStands, ConnNext
  PROVE  /\ MailGoesOn \/ \E d \in Stop : Prepare(d)
         /\ StaysLive \/ \E f \in Flow : PersistLands(f)
<1>1. mail \in Mails /\ mail.rev \in Nat
  BY DEF TypeOK, Mails
<1>2. ASSUME NEW f \in Flow, PersistLands(f) PROVE MailGoesOn
  BY <1>1, <1>2 DEF PersistLands, Landed, MailGoesOn, Mails
<1>3. ASSUME NEW intent, NEW cred, Finalize(intent, cred) PROVE MailGoesOn /\ StaysLive
  BY <1>1, <1>3 DEF Finalize, Finalizable, MailGoesOn, StaysLive, Mails, Live,
      DisconnectStands
<1>4. ASSUME NEW f \in Flow, NEW heard \in BOOLEAN, Store(f, heard) PROVE MailGoesOn /\ StaysLive
  BY <1>1, <1>4 DEF Store, MailGoesOn, StaysLive, Mails, Live
<1>5. ASSUME NEW d \in Stop, Prepare(d) PROVE StaysLive
  BY <1>1, <1>5 DEF Prepare, StaysLive, Mails, Live
<1>6. ASSUME NEW s, Consent(s) PROVE MailGoesOn /\ StaysLive
  BY <1>1, <1>6 DEF Consent, MailGoesOn, StaysLive, Mails, Live
<1>7. ASSUME CloseAccount PROVE MailGoesOn /\ StaysLive
  BY <1>1, <1>7 DEF CloseAccount, MailGoesOn, StaysLive, Mails, Live
<1>8. ASSUME NEW c \in Caller, Replace(c) PROVE MailGoesOn /\ StaysLive
  <2>1. \/ mail' = mail
        \/ /\ mail' = [mail EXCEPT !.cred = [caller[c].token EXCEPT !.turn = @ + 1]]
           /\ mail.cred = caller[c].token
    <3>1. CASE Current(caller[c].token)
      BY <1>8, <3>1 DEF Replace, Current
    <3>2. CASE ~Current(caller[c].token)
      BY <1>8, <3>2 DEF Replace
    <3>3. QED BY <3>1, <3>2
  <2>2. caller[c].token \in Token
    BY <1>8 DEF Replace, TypeOK, Calls
  <2>3. /\ [caller[c].token EXCEPT !.turn = @ + 1] \in Token
        /\ [caller[c].token EXCEPT !.turn = @ + 1].flow = caller[c].token.flow
    BY <2>2 DEF Token
  <2>4. QED BY <1>1, <1>8, <2>1, <2>2, <2>3, ConnectionAssumption DEF Replace, Current,
      Permitted, MailGoesOn, StaysLive, Mails, Live, DisconnectStands, Token
<1>9. ASSUME NEW c \in Caller, MarkReauth(c) PROVE MailGoesOn /\ StaysLive
  <2>1. CASE Current(caller[c].token)
    <3>1. mail' = [mail EXCEPT !.state = "reauth_required", !.cred = None, !.rev = @ + 1]
      BY <1>9, <2>1 DEF MarkReauth
    <3>2. QED BY <1>1, <3>1 DEF MailGoesOn, StaysLive, Mails, Live
  <2>2. CASE ~Current(caller[c].token)
    BY <1>1, <1>9, <2>2 DEF MarkReauth, MailGoesOn, StaysLive, Live, DisconnectStands
  <2>3. QED BY <2>1, <2>2
<1>10. mail' = mail => MailGoesOn /\ StaysLive
  BY <1>1 DEF MailGoesOn, StaysLive, Live, DisconnectStands
<1>11. QED BY <1>2, <1>3, <1>4, <1>5, <1>6, <1>7, <1>8, <1>9, <1>10, MailStill DEF MailMoves,
    FinalizeFlow, FinalizeStop

\* What the order says of one flow.
LEMMA OrderOf ==
  ASSUME Order, NEW f \in Flow
  PROVE  /\ flow[f].at # "new" => flow[f].seq > 0 /\ flow[f].seq <= seq
         /\ flow[f].at \notin {"new", "done"} =>
              flow[f].rev <= mail.rev /\ (flow[f].rev = mail.rev => flow[f].seq > mail.intent)
BY DEF Order

\* Numbers and revisions stay in order.
LEMMA OrderStep ==
  ASSUME TypeOK, Order, DisconnectStands, ConnNext
  PROVE  Order'
<1>1. mail.rev \in Nat /\ mail.intent \in Nat /\ seq \in Nat
      /\ \A f \in Flow : flow[f].rev \in Nat /\ flow[f].seq \in Nat
  BY DEF TypeOK, Mails, Flows
<1>2. mail'.rev \in Nat /\ mail'.intent \in Nat /\ seq' \in Nat
      /\ \A f \in Flow : flow'[f].rev \in Nat /\ flow'[f].seq \in Nat
  BY TypeStep DEF TypeOK, Mails, Flows
<1>3. ASSUME NEW f \in Flow, NEW p, Begin(f, p) PROVE Order'
  <2>1. /\ flow'[f].at = "begun" /\ flow'[f].rev = mail.rev /\ flow'[f].seq = seq + 1
        /\ \A g \in Flow \ {f} : flow'[g] = flow[g]
        /\ mail' = mail /\ seq' = seq + 1
    BY <1>3 DEF Begin, TypeOK
  <2>2. QED BY <1>1, <2>1 DEF Order
<1>4. ASSUME NEW d \in Stop, Prepare(d) PROVE Order'
  <2>1. AllGoOn
    BY <1>4, CancelGoesOn DEF Prepare
  <2>2. /\ mail'.intent = seq + 1 /\ mail'.rev = mail.rev + 1
        /\ mail'.state = "disconnecting" /\ seq' = seq + 1
    BY <1>4 DEF Prepare, TypeOK, Mails
  <2>3. ASSUME NEW f \in Flow
        PROVE  /\ flow'[f].at # "new" => flow'[f].seq > 0 /\ flow'[f].seq <= seq'
               /\ flow'[f].at \notin {"new", "done"} => flow'[f].rev < mail'.rev
    <3>1. /\ flow[f].rev \in Nat /\ flow[f].seq \in Nat
          /\ flow[f].at # "new" => flow[f].seq > 0 /\ flow[f].seq <= seq
          /\ flow[f].at \notin {"new", "done"} =>
               flow[f].rev <= mail.rev /\ (flow[f].rev = mail.rev => flow[f].seq > mail.intent)
      BY <1>1, OrderOf
    <3>2. \/ flow'[f].at = flow[f].at /\ flow'[f].seq = flow[f].seq /\ flow'[f].rev = flow[f].rev
          \/ /\ flow[f].at \notin {"new", "done"} /\ flow'[f].at # "new" /\ flow'[f].seq = flow[f].seq
             /\ flow'[f].at = "done" \/ flow'[f].rev = flow[f].rev
      BY <2>1 DEF AllGoOn, GoesOn
    <3>3. QED BY <1>1, <2>2, <3>1, <3>2
  <2>4. QED BY <1>1, <1>2, <2>2, <2>3 DEF Order
<1>5. CASE seq' = seq /\ AllGoOn /\ MailGoesOn
  <2>1. ASSUME NEW f \in Flow
        PROVE  /\ flow'[f].at # "new" => flow'[f].seq > 0 /\ flow'[f].seq <= seq'
               /\ flow'[f].at \notin {"new", "done"} =>
                    flow'[f].rev <= mail'.rev /\ (flow'[f].rev = mail'.rev => flow'[f].seq > mail'.intent)
    <3>1. /\ flow[f].rev \in Nat /\ flow[f].seq \in Nat
          /\ flow[f].at # "new" => flow[f].seq > 0 /\ flow[f].seq <= seq
          /\ flow[f].at \notin {"new", "done"} =>
               flow[f].rev <= mail.rev /\ (flow[f].rev = mail.rev => flow[f].seq > mail.intent)
      BY <1>1, OrderOf
    <3>2. \/ flow'[f].at = flow[f].at /\ flow'[f].seq = flow[f].seq /\ flow'[f].rev = flow[f].rev
          \/ /\ flow[f].at \notin {"new", "done"} /\ flow'[f].at # "new" /\ flow'[f].seq = flow[f].seq
             /\ flow'[f].at = "done" \/ flow'[f].rev = flow[f].rev
      BY <1>5 DEF AllGoOn, GoesOn
    <3>3. mail'.intent = mail.intent /\ mail'.rev >= mail.rev
      BY <1>5 DEF MailGoesOn
    <3>4. QED BY <1>1, <1>2, <1>5, <3>1, <3>2, <3>3
  <2>2. QED BY <1>5, <2>1 DEF Order, MailGoesOn
<1>6. QED BY <1>3, <1>4, <1>5, SeqStill, FlowsGoOn, MailStep

\* No old callback undoes a Disconnect.
LEMMA StandsStep ==
  ASSUME TypeOK, Order, DisconnectStands, Fresh, ConnNext
  PROVE  DisconnectStands'
<1>1. mail \in Mails /\ flow \in [Flow -> Flows] /\ mail.intent \in Nat
  BY DEF TypeOK, Mails
<1>2. ASSUME NEW f \in Flow, PersistLands(f) PROVE DisconnectStands'
  <2>1. mail'.cred = Issued(f) /\ mail'.intent = mail.intent /\ flow'[f].seq = flow[f].seq
    BY <1>1, <1>2 DEF PersistLands, Landed, Over, Unused, Mails, Flows
  <2>2. flow[f].seq > mail.intent
    <3>1. flow[f].at = "granted" /\ Lands(f)
      BY <1>2 DEF PersistLands
    <3>2. flow[f].seq > 0
      BY <3>1, OrderOf
    <3>3. CASE mail.state = "absent"
      BY <3>2, <3>3 DEF Order
    <3>4. CASE mail.rev = flow[f].rev
      BY <3>1, <3>4, OrderOf
    <3>5. QED BY <3>1, <3>3, <3>4 DEF Lands
  <2>3. mail'.cred # None /\ mail'.cred.flow = f
    BY <2>1, ConnectionAssumption DEF Issued
  <2>4. QED BY <2>1, <2>2, <2>3 DEF DisconnectStands
<1>3. ASSUME StaysLive PROVE DisconnectStands'
  <2> SUFFICES ASSUME mail'.state \in Live
               PROVE  mail'.cred # None /\ flow'[mail'.cred.flow].seq > mail'.intent
    BY DEF DisconnectStands, Live
  <2> DEFINE g == mail.cred.flow
  <2>1. mail.state \in Live /\ mail'.cred # None /\ mail'.cred.flow = g /\ mail'.intent = mail.intent
    BY <1>3 DEF StaysLive
  <2>2. mail.cred # None /\ flow[g].seq > mail.intent
    BY <2>1 DEF DisconnectStands, Live
  <2>3. mail.cred \in Token
    BY <1>1, <2>2 DEF Mails
  <2>4. g \in Flow /\ flow[g].at \notin Early
    BY <2>2, <2>3 DEF Token, Fresh, Held
  <2>5. flow'[g].seq = flow[g].seq
    <3>1. ASSUME NEW f \in Flow, NEW p, Begin(f, p) PROVE flow'[g] = flow[g]
      BY <1>1, <2>4, <3>1 DEF Begin, Early
    <3>2. QED BY <2>4, <3>1, FlowsGoOn DEF AllGoOn, GoesOn
  <2>6. QED BY <2>1, <2>2, <2>5
<1>4. QED BY <1>2, <1>3, MailStep

\* A mailbox comes to work only under a consent for its scopes.
LEMMA CoversStep ==
  ASSUME TypeOK, ConsentCovers, Granted, ConnNext
  PROVE  ConsentCovers'
<1>1. mail \in Mails
  BY DEF TypeOK
<1>2. ASSUME NEW f \in Flow, PersistLands(f) PROVE ConsentCovers'
  BY <1>1, <1>2 DEF PersistLands, Landed, Mails, ConsentCovers, Granted
<1>3. ASSUME NEW intent, NEW cred, Finalize(intent, cred) PROVE ConsentCovers'
  BY <1>1, <1>3 DEF Finalize, Finalizable, Mails, ConsentCovers
<1>4. ASSUME NEW f \in Flow, NEW heard \in BOOLEAN, Store(f, heard) PROVE ConsentCovers'
  BY <1>1, <1>4 DEF Store, Mails, ConsentCovers
<1>5. ASSUME NEW d \in Stop, Prepare(d) PROVE ConsentCovers'
  BY <1>1, <1>5 DEF Prepare, Mails, ConsentCovers
<1>6. ASSUME NEW s \in {"read", "send"}, Consent(s) PROVE ConsentCovers'
  BY <1>1, <1>6 DEF Consent, Mails, ConsentCovers
<1>7. ASSUME CloseAccount PROVE ConsentCovers'
  BY <1>1, <1>7 DEF CloseAccount, Mails, ConsentCovers
<1>8. ASSUME NEW c \in Caller, Replace(c) PROVE ConsentCovers'
  BY <1>1, <1>8 DEF Replace, Mails, ConsentCovers
<1>9. ASSUME NEW c \in Caller, MarkReauth(c) PROVE ConsentCovers'
  BY <1>1, <1>9 DEF MarkReauth, Mails, ConsentCovers
<1>10. QED BY <1>2, <1>3, <1>4, <1>5, <1>6, <1>7, <1>8, <1>9, MailStill DEF MailMoves,
    FinalizeFlow, FinalizeStop, ConsentCovers

-----------------------------------------------------------------------------
(* Tokens.                                                                 *)

\* The token that Google hands back in place of the one a caller holds.
Renewed(c) == [caller[c].token EXCEPT !.turn = @ + 1]

\* It is a token of the same flow, one turn later.
LEMMA RenewedIs ==
  ASSUME TypeOK, NEW c \in Caller, caller[c].at \in {"loaded", "rotated", "dead", "fresh"}
  PROVE  /\ caller[c].token \in Held /\ Renewed(c) \in Token
         /\ Renewed(c).flow = caller[c].token.flow
         /\ Renewed(c).turn = caller[c].token.turn + 1
<1>1. caller[c].token \in Token
  BY DEF TypeOK, Calls
<1>2. QED BY <1>1 DEF Renewed, Token, Held

\* The credential in the row after a step: a new one is that of a flow, or a renewed one.
LEMMA MailCred ==
  ASSUME TypeOK, ConnNext
  PROVE  \/ mail'.cred = mail.cred \/ mail'.cred = None
         \/ \E f \in Flow : /\ PersistLands(f) \/ \E heard \in BOOLEAN : Store(f, heard)
                            /\ mail'.cred = Issued(f)
         \/ \E c \in Caller : Replace(c) /\ mail'.cred = Renewed(c)
<1>1. mail \in Mails
  BY DEF TypeOK
<1>2. ASSUME NEW f \in Flow, PersistLands(f) PROVE mail'.cred = Issued(f)
  BY <1>1, <1>2 DEF PersistLands, Landed, Mails
<1>3. ASSUME NEW f \in Flow, NEW heard \in BOOLEAN, Store(f, heard) PROVE mail'.cred = Issued(f)
  BY <1>1, <1>3 DEF Store, Mails
<1>4. ASSUME NEW intent, NEW cred, Finalize(intent, cred) PROVE mail'.cred \in {mail.cred, None}
  BY <1>1, <1>4 DEF Finalize, Mails
<1>5. ASSUME NEW c \in Caller, Replace(c) PROVE mail'.cred \in {mail.cred, Renewed(c)}
  BY <1>1, <1>5 DEF Replace, Mails, Renewed
<1>6. ASSUME \/ \E d \in Stop : Prepare(d)
             \/ \E s \in {"read", "send"} : Consent(s)
             \/ CloseAccount
             \/ \E c \in Caller : MarkReauth(c)
      PROVE mail'.cred \in {mail.cred, None}
  BY <1>1, <1>6 DEF Prepare, Consent, CloseAccount, MarkReauth, Mails
<1>7. QED BY <1>2, <1>3, <1>4, <1>5, <1>6, MailStill DEF MailMoves, FinalizeFlow, FinalizeStop

\* Google honours a new token after an exchange and a rotation only.
LEMMA AliveStep ==
  ASSUME ConnNext
  PROVE  \/ alive' \subseteq alive
         \/ \E f \in Flow, s \in {"read", "send"} : Exchange(f, s)
         \/ \E c \in Caller : RefreshRotates(c)
<1>1. ASSUME NEW t, Revoke(t) PROVE alive' \subseteq alive
  BY <1>1 DEF Revoke
<1>2. CASE FlowNext
  BY <1>1, <1>2 DEF FlowNext, Begin, Consume, GiveUp, PersistLands, PersistRefused,
      PersistSuperseded, Store, StoreRefused, StoreFails, RevokeFlow, RevokeFlowFails,
      FinalizeFlow
<1>3. CASE StopNext
  BY <1>1, <1>3 DEF StopNext, Prepare, RevokeStop, RevokeStopFails, FinalizeStop, StopDies
<1>4. CASE OwnerNext
  BY <1>4 DEF OwnerNext, Consent, CloseAccount, RemovedAtGoogle
<1>5. CASE \E c \in Caller : CallerNext(c) \/ Leave(c)
  BY <1>5 DEF CallerNext, Load, RefreshOk, RefreshDead, Replace, ReplaceFails, MarkReauth,
      HandOver, CallFails, Leave
<1>6. QED BY <1>2, <1>3, <1>4, <1>5 DEF ConnNext

\* A Disconnect keeps its credential, or takes that of the row; one that is revoked no longer works.
LEMMA StopStep ==
  ASSUME TypeOK, ConnNext, NEW d \in Stop
  PROVE  /\ stop'[d].cred \in {stop[d].cred, mail.cred, None}
         /\ stop'[d].at = "revoked" => \/ stop'[d] = stop[d]
                                       \/ stop'[d].cred \notin alive'
<1>1. stop \in [Stop -> Stops] /\ None \notin alive
  BY ConnectionAssumption DEF TypeOK, Token
<1>2. stop' = stop \/ StopNext
  <2>1. CASE FlowNext
    BY <2>1 DEF FlowNext, Begin, Consume, GiveUp, Exchange, PersistLands, PersistRefused,
        PersistSuperseded, Store, StoreRefused, StoreFails, RevokeFlow, RevokeFlowFails,
        FinalizeFlow
  <2>2. CASE OwnerNext
    BY <2>2 DEF OwnerNext, Consent, CloseAccount, RemovedAtGoogle
  <2>3. CASE \E c \in Caller : CallerNext(c) \/ Leave(c)
    BY <2>3 DEF CallerNext, Load, RefreshOk, RefreshRotates, RefreshDead, Replace,
        ReplaceFails, MarkReauth, HandOver, CallFails, Leave
  <2>4. QED BY <2>1, <2>2, <2>3 DEF ConnNext
<1>3. ASSUME NEW e \in Stop, Prepare(e)
      PROVE  /\ stop'[d].cred \in {stop[d].cred, mail.cred, None}
             /\ stop'[d].at = "revoked" => stop'[d] = stop[d] \/ stop'[d].cred \notin alive'
  BY <1>1, <1>3 DEF Prepare
<1>4. ASSUME NEW e \in Stop, RevokeStop(e)
      PROVE  /\ stop'[d].cred \in {stop[d].cred, mail.cred, None}
             /\ stop'[d].at = "revoked" => stop'[d] = stop[d] \/ stop'[d].cred \notin alive'
  BY <1>1, <1>4 DEF RevokeStop, Revoke, Stops
<1>5. ASSUME NEW e \in Stop, stop' = [stop EXCEPT ![e] = Finished]
      PROVE  /\ stop'[d].cred \in {stop[d].cred, mail.cred, None}
             /\ stop'[d].at = "revoked" => stop'[d] = stop[d] \/ stop'[d].cred \notin alive'
  BY <1>1, <1>5 DEF Finished
<1>6. QED BY <1>2, <1>3, <1>4, <1>5 DEF StopNext, RevokeStopFails, FinalizeStop, StopDies

\* How far a flow is after a step.
Advances(f) ==
  /\ flow'[f].at \in Early => flow[f].at \in Early
  /\ flow'[f].at = "granted" => flow'[f] = flow[f] \/ flow'[f].scopes # "none"
  /\ flow'[f].at = "revoked" => flow'[f] = flow[f] \/ Issued(f) \notin alive'
AllAdvance == \A f \in Flow : Advances(f)

\* A flow does not go back, its grant has scopes, and what it revoked no longer works.
LEMMA FlowStep == ASSUME TypeOK, ConnNext PROVE AllAdvance
<1>1. flow \in [Flow -> Flows]
  BY DEF TypeOK
<1>2. ASSUME NEW f \in Flow, NEW s \in {"read", "send"}, Exchange(f, s) PROVE AllAdvance
  BY <1>1, <1>2 DEF Exchange, AllAdvance, Advances, Early, Flows
<1>3. ASSUME NEW f \in Flow, NEW p, Begin(f, p) PROVE AllAdvance
  BY <1>1, <1>3 DEF Begin, AllAdvance, Advances, Early
<1>4. ASSUME NEW f \in Flow, NEW x, flow' = [flow EXCEPT ![f] = x],
             x.at \notin Early \cup {"granted", "revoked"} PROVE AllAdvance
  BY <1>1, <1>4 DEF AllAdvance, Advances, Early
<1>5. ASSUME NEW f \in Flow PROVE Over(f).at = "done"
  BY DEF Over, Unused
<1>6. ASSUME NEW ps, flow' = Cancelled(Unconsumed(ps)) PROVE AllAdvance
  BY <1>6 DEF AllAdvance, Advances, Early, Cancelled, Unconsumed, Over, Unused
<1>7. CASE FlowNext
  <2>1. ASSUME NEW f \in Flow, Consume(f) PROVE AllAdvance
    BY <1>1, <2>1 DEF Consume, AllAdvance, Advances, Early, Flows
  <2>2. ASSUME NEW f \in Flow, PersistSuperseded(f) \/ StoreFails(f) PROVE AllAdvance
    BY <1>1, <2>2 DEF PersistSuperseded, StoreFails, AllAdvance, Advances, Early, Flows
  <2>3. ASSUME NEW f \in Flow, RevokeFlow(f) PROVE AllAdvance
    BY <1>1, <1>4, <1>5, <2>3 DEF RevokeFlow, Revoke, AllAdvance, Advances, Early, Flows
  <2>4. ASSUME NEW f \in Flow, NEW heard \in BOOLEAN, Store(f, heard) PROVE AllAdvance
    BY <1>1, <2>4 DEF Store, AllAdvance, Advances, Early, Flows
  <2>5. ASSUME NEW f \in Flow, flow' = [flow EXCEPT ![f] = Over(f)] PROVE AllAdvance
    BY <1>4, <1>5, <2>5 DEF Early
  <2>6. QED BY <1>2, <1>3, <1>7, <2>1, <2>2, <2>3, <2>4, <2>5 DEF FlowNext, GiveUp,
      PersistLands, PersistRefused, StoreRefused, RevokeFlowFails, FinalizeFlow
<1>8. flow' = flow => AllAdvance
  BY DEF AllAdvance, Advances, Early
<1>9. CASE StopNext
  BY <1>6, <1>8, <1>9 DEF StopNext, Prepare, RevokeStop, RevokeStopFails, FinalizeStop,
      StopDies
<1>10. CASE OwnerNext
  BY <1>6, <1>8, <1>10 DEF OwnerNext, Consent, CloseAccount, RemovedAtGoogle
<1>11. CASE \E c \in Caller : CallerNext(c) \/ Leave(c)
  BY <1>8, <1>11 DEF CallerNext, Load, RefreshOk, RefreshRotates, RefreshDead, Replace,
      ReplaceFails, MarkReauth, HandOver, CallFails, Leave
<1>12. QED BY <1>7, <1>9, <1>10, <1>11 DEF ConnNext


\* A grant is recorded with its scopes.
LEMMA GrantedStep == ASSUME TypeOK, Granted, ConnNext PROVE Granted'
BY FlowStep DEF Granted, AllAdvance, Advances

\* A caller keeps its token, loads that of the row, or has stored the renewed one.
LEMMA CallerStep ==
  ASSUME TypeOK, ConnNext, NEW c \in Caller
  PROVE  /\ \/ caller'[c].token \in {caller[c].token, mail.cred, None}
            \/ Replace(c) /\ caller'[c].token = Renewed(c)
         /\ caller'[c].at = "rotated" => caller'[c] = caller[c]
                                         \/ (RefreshRotates(c) /\ caller'[c].token = caller[c].token)
         /\ caller'[c].at = "dead" => caller'[c] = caller[c] \/ caller'[c].token \notin alive'
<1>1. caller \in [Caller -> Calls]
  BY DEF TypeOK
<1> DEFINE Goal ==
         /\ \/ caller'[c].token \in {caller[c].token, mail.cred, None}
            \/ Replace(c) /\ caller'[c].token = Renewed(c)
         /\ caller'[c].at = "rotated" => caller'[c] = caller[c]
                                         \/ (RefreshRotates(c) /\ caller'[c].token = caller[c].token)
         /\ caller'[c].at = "dead" => caller'[c] = caller[c] \/ caller'[c].token \notin alive'
<1> SUFFICES Goal
  OBVIOUS
<1>2. caller' = caller => Goal
  OBVIOUS
<1>3. ASSUME NEW e \in Caller, NEW what, Told(e, what) PROVE Goal
  BY <1>1, <1>3 DEF Told
<1>4. ASSUME NEW e \in Caller, Load(e) PROVE Goal
  BY <1>1, <1>4 DEF Load, Told
<1>5. ASSUME NEW e \in Caller, RefreshOk(e) \/ RefreshDead(e) PROVE Goal
  BY <1>1, <1>5 DEF RefreshOk, RefreshDead, Calls
<1>6. ASSUME NEW e \in Caller, RefreshRotates(e) PROVE Goal
  <2>1. caller' = [caller EXCEPT ![e].at = "rotated"]
    BY <1>6 DEF RefreshRotates
  <2>2. CASE e = c
    BY <1>1, <1>6, <2>1, <2>2 DEF Calls
  <2>3. CASE e # c
    BY <1>1, <2>1, <2>3
  <2>4. QED BY <2>2, <2>3
<1>7. ASSUME NEW e \in Caller, Replace(e) PROVE Goal
  <2>1. \/ caller' = [caller EXCEPT ![e].at = "fresh", ![e].token = Renewed(e)]
        \/ Told(e, "state_changed")
    BY <1>7 DEF Replace, Renewed
  <2>2. CASE e = c
    BY <1>1, <1>3, <1>7, <2>1, <2>2 DEF Calls
  <2>3. CASE e # c
    BY <1>1, <1>3, <2>1, <2>3
  <2>4. QED BY <2>2, <2>3
<1>8. ASSUME NEW e \in Caller, Leave(e) PROVE Goal
  BY <1>1, <1>8 DEF Leave
<1> HIDE DEF Goal
<1>9. CASE FlowNext
  BY <1>2, <1>9 DEF FlowNext, Begin, Consume, GiveUp, Exchange, PersistLands, PersistRefused,
      PersistSuperseded, Store, StoreRefused, StoreFails, RevokeFlow, RevokeFlowFails,
      FinalizeFlow
<1>10. CASE StopNext
  BY <1>2, <1>10 DEF StopNext, Prepare, RevokeStop, RevokeStopFails, FinalizeStop, StopDies
<1>11. CASE OwnerNext
  BY <1>2, <1>11 DEF OwnerNext, Consent, CloseAccount, RemovedAtGoogle
<1>12. ASSUME NEW e \in Caller, CallerNext(e) \/ Leave(e) PROVE Goal
  <2>1. ReplaceFails(e) \/ MarkReauth(e) \/ HandOver(e) \/ CallFails(e) => Goal
    BY <1>3 DEF ReplaceFails, MarkReauth, HandOver, CallFails
  <2>2. QED BY <1>4, <1>5, <1>6, <1>7, <1>8, <1>12, <2>1 DEF CallerNext
<1>13. QED BY <1>9, <1>10, <1>11, <1>12 DEF ConnNext

\* A token that could not be presented before is that of a flow that has come back, or
\* a renewed one.
LEMMA HeldStep ==
  ASSUME TypeOK, ConnNext, NEW t \in Held', t \notin Held
  PROVE  \/ \E f \in Flow : t = Issued(f) /\ flow'[f].at \notin Early
         \/ \E c \in Caller : t = Renewed(c) /\ (Replace(c) \/ RefreshRotates(c))
<1>1. mail.cred \in Token \cup {None} /\ None \notin Token
  BY ConnectionAssumption DEF TypeOK, Mails, Token
<1>2. ASSUME NEW u \in Token, u \in {mail.cred, None} PROVE u \in Held
  BY <1>1, <1>2 DEF Held
<1>3. CASE t = mail'.cred
  <2>1. ASSUME NEW f \in Flow, PersistLands(f) PROVE flow'[f].at \notin Early
    BY <2>1 DEF PersistLands, TypeOK, Over, Unused, Early
  <2>2. ASSUME NEW f \in Flow, NEW heard \in BOOLEAN, Store(f, heard) PROVE flow'[f].at \notin Early
    BY <2>2 DEF Store, TypeOK, Flows, Early
  <2>3. QED BY <1>2, <1>3, <2>1, <2>2, MailCred DEF Held
<1>4. CASE t \in alive'
  <2>1. ASSUME NEW f \in Flow, NEW s, Exchange(f, s), t \notin alive
        PROVE  t = Issued(f) /\ flow'[f].at \notin Early
    BY <1>4, <2>1 DEF Exchange, TypeOK, Flows, Early
  <2>2. ASSUME NEW c \in Caller, RefreshRotates(c), t \notin alive PROVE t = Renewed(c)
    BY <1>4, <2>2 DEF RefreshRotates, Renewed
  <2>3. t \notin alive
    BY DEF Held
  <2>4. QED BY <1>4, <2>1, <2>2, <2>3, AliveStep
<1>5. ASSUME NEW d \in Stop, t = stop'[d].cred PROVE FALSE
  BY <1>2, <1>5, StopStep DEF Held
<1>6. ASSUME NEW c \in Caller, t = caller'[c].token
      PROVE  \E e \in Caller : t = Renewed(e) /\ Replace(e)
  BY <1>2, <1>6, CallerStep DEF Held
<1>7. QED BY <1>3, <1>4, <1>5, <1>6 DEF Held

\* Where a token that Google honours after a step comes from.
LEMMA AliveFrom ==
  ASSUME TypeOK, ConnNext, NEW t \in alive'
  PROVE  \/ t \in alive
         \/ \E f \in Flow : t = Issued(f) /\ flow[f].at = "back"
         \/ \E c \in Caller : t = Renewed(c) /\ RefreshRotates(c)
<1>1. ASSUME NEW f \in Flow, NEW s, Exchange(f, s)
      PROVE  t \in alive \/ (t = Issued(f) /\ flow[f].at = "back")
  BY <1>1 DEF Exchange
<1>2. ASSUME NEW c \in Caller, RefreshRotates(c) PROVE t \in alive \/ t = Renewed(c)
  BY <1>2 DEF RefreshRotates, Renewed
<1>3. QED BY <1>1, <1>2, AliveStep

\* A flow that is still to come back has no token.
LEMMA NoneYet ==
  ASSUME Fresh, NEW f \in Flow, flow[f].at \in Early, NEW t \in Held
  PROVE  t.flow # f
BY DEF Fresh

\* The token whose rotation or replacement c is at.
LEMMA AtWork ==
  ASSUME TypeOK, NEW c \in Caller, Replace(c) \/ RefreshRotates(c)
  PROVE  /\ caller[c].token \in Held /\ Renewed(c) \in Token
         /\ Renewed(c).flow = caller[c].token.flow
         /\ Renewed(c).turn = caller[c].token.turn + 1
         /\ RefreshRotates(c) => /\ caller[c].token \in alive
                                 /\ alive' = (alive \ {caller[c].token}) \cup {Renewed(c)}
         /\ Replace(c) => caller[c].at = "rotated"
<1>1. caller[c].at \in {"loaded", "rotated", "dead", "fresh"}
  BY DEF Replace, RefreshRotates
<1>2. RefreshRotates(c) => /\ caller[c].token \in alive
                           /\ alive' = (alive \ {caller[c].token}) \cup {Renewed(c)}
  BY DEF RefreshRotates, Renewed
<1>3. Replace(c) => caller[c].at = "rotated"
  BY DEF Replace
<1>4. QED BY <1>1, <1>2, <1>3, RenewedIs

\* Tokens stay those of flows that have come back.
LEMMA FreshStep == ASSUME TypeOK, Fresh, ConnNext PROVE Fresh'
<1> SUFFICES ASSUME NEW t \in Held' PROVE flow'[t.flow].at \notin Early
  BY DEF Fresh
<1>1. ASSUME NEW f \in Flow, flow[f].at \notin Early PROVE flow'[f].at \notin Early
  BY <1>1, FlowStep DEF AllAdvance, Advances
<1>2. ASSUME NEW u \in Held PROVE u.flow \in Flow /\ flow'[u.flow].at \notin Early
  <2>1. u.flow \in Flow
    BY DEF Held, Token
  <2>2. QED BY <1>1, <2>1 DEF Fresh
<1>3. CASE t \in Held
  BY <1>2, <1>3
<1>4. CASE t \notin Held
  <2>1. ASSUME NEW f \in Flow, t = Issued(f), flow'[f].at \notin Early PROVE flow'[t.flow].at \notin Early
    BY <2>1 DEF Issued
  <2>2. ASSUME NEW c \in Caller, t = Renewed(c), Replace(c) \/ RefreshRotates(c)
        PROVE  flow'[t.flow].at \notin Early
    BY <1>2, <2>2, AtWork
  <2>3. QED BY <1>4, <2>1, <2>2, HeldStep
<1>5. QED BY <1>3, <1>4

\* Of the tokens of one flow that Google honours there is one.
LEMMA OneAlive ==
  ASSUME TypeOK, Turns, NEW t \in alive, NEW u \in alive, t.flow = u.flow
  PROVE  t = u
<1>1. t \in Token /\ u \in Token /\ t \in Held /\ u \in Held
  BY DEF TypeOK, Held
<1>2. t.turn <= u.turn /\ u.turn <= t.turn
  BY <1>1 DEF Turns
<1>3. t.turn \in Nat /\ u.turn \in Nat /\ t = [flow |-> t.flow, turn |-> t.turn]
      /\ u = [flow |-> u.flow, turn |-> u.turn]
  BY <1>1 DEF Token
<1>4. t.turn = u.turn
  BY <1>2, <1>3
<1>5. QED BY <1>3, <1>4

\* Tokens only grow older.
LEMMA TurnsStep == ASSUME TypeOK, Fresh, Turns, ConnNext PROVE Turns'
<1>1. ASSUME NEW t \in Held PROVE t \in Token /\ t.flow \in Flow /\ t.turn \in Nat
  BY DEF Held, Token
<1>2. alive \subseteq Held
  BY DEF TypeOK, Held
<1>3. ASSUME NEW f \in Flow PROVE Issued(f).flow = f /\ Issued(f).turn = 0
  BY DEF Issued
<1>4. ASSUME NEW t \in alive', NEW k \in Held', k.flow = t.flow
      PROVE  k.turn <= t.turn
  <2>1. CASE t \in alive
    <3>1. CASE k \in Held
      BY <1>4, <2>1, <3>1 DEF Turns
    <3>2. ASSUME NEW f \in Flow, k = Issued(f) PROVE k.turn <= t.turn
      BY <1>1, <1>2, <1>3, <2>1, <3>2
    <3>3. ASSUME NEW c \in Caller, k = Renewed(c), Replace(c) PROVE k.turn <= t.turn
      <4>1. caller[c].token.turn < t.turn
        BY <1>4, <2>1, <3>3, AtWork DEF Turns
      <4>2. QED BY <1>1, <1>2, <2>1, <3>3, <4>1, AtWork
    <3>4. ASSUME NEW c \in Caller, k = Renewed(c), RefreshRotates(c) PROVE k.turn <= t.turn
      <4>1. CASE t = caller[c].token
        BY <1>4, <3>4, <4>1, AtWork, <1>1
      <4>2. CASE t # caller[c].token
        BY <1>4, <2>1, <3>4, <4>2, AtWork, OneAlive
      <4>3. QED BY <4>1, <4>2
    <3>5. QED BY <3>1, <3>2, <3>3, <3>4, HeldStep
  <2>2. ASSUME NEW f \in Flow, t = Issued(f), flow[f].at = "back" PROVE k.turn <= t.turn
    <3>1. k \notin Held
      BY <1>3, <1>4, <2>2, NoneYet DEF Early
    <3>2. ASSUME NEW c \in Caller, k = Renewed(c), Replace(c) \/ RefreshRotates(c) PROVE FALSE
      BY <1>3, <1>4, <2>2, <3>2, AtWork, NoneYet DEF Early
    <3>3. QED BY <1>3, <2>2, <3>1, <3>2, HeldStep
  <2>3. ASSUME NEW c \in Caller, t = Renewed(c), RefreshRotates(c) PROVE k.turn <= t.turn
    <3>1. caller[c].token \in alive /\ t.flow = caller[c].token.flow
          /\ t.turn = caller[c].token.turn + 1 /\ caller[c].token.turn \in Nat
      BY <1>1, <2>3, AtWork
    <3>2. CASE k \in Held
      <4>1. k.turn <= caller[c].token.turn
        BY <1>4, <3>1, <3>2 DEF Turns
      <4>2. QED BY <1>1, <3>1, <3>2, <4>1
    <3>3. ASSUME NEW f \in Flow, k = Issued(f) PROVE k.turn <= t.turn
      BY <1>3, <3>1, <3>3
    <3>4. ASSUME NEW e \in Caller, k = Renewed(e), Replace(e) \/ RefreshRotates(e) PROVE k.turn <= t.turn
      <4>1. caller[e].token \in Held /\ caller[e].token.flow = caller[c].token.flow
            /\ k.turn = caller[e].token.turn + 1
        BY <1>4, <3>1, <3>4, AtWork
      <4>2. caller[e].token.turn <= caller[c].token.turn
        BY <3>1, <4>1 DEF Turns
      <4>3. QED BY <1>1, <3>1, <4>1, <4>2
    <3>5. QED BY <3>2, <3>3, <3>4, HeldStep
  <2>4. QED BY <2>1, <2>2, <2>3, AliveFrom
<1>5. ASSUME NEW c \in Caller, NEW t \in alive', caller'[c].at = "rotated",
             t.flow = caller'[c].token.flow
      PROVE  caller'[c].token.turn < t.turn
  <2> DEFINE tok == caller[c].token
  <2>1. CASE caller'[c] = caller[c]
    <3>1. tok \in Held /\ caller[c].at = "rotated"
      BY <1>5, <2>1, RenewedIs
    <3>2. CASE t \in alive
      BY <1>5, <2>1, <3>1, <3>2 DEF Turns
    <3>3. ASSUME NEW f \in Flow, t = Issued(f), flow[f].at = "back" PROVE FALSE
      BY <1>3, <1>5, <2>1, <3>1, <3>3, NoneYet DEF Early
    <3>4. ASSUME NEW e \in Caller, t = Renewed(e), RefreshRotates(e) PROVE tok.turn < t.turn
      <4>1. caller[e].token \in alive /\ caller[e].token.flow = tok.flow /\ t.turn = caller[e].token.turn + 1
        BY <1>5, <2>1, <3>4, AtWork
      <4>2. tok.turn < caller[e].token.turn
        BY <3>1, <4>1 DEF Turns
      <4>3. QED BY <1>1, <1>2, <3>1, <4>1, <4>2
    <3>5. QED BY <2>1, <3>2, <3>3, <3>4, AliveFrom
  <2>2. CASE RefreshRotates(c) /\ caller'[c].token = tok
    <3>1. tok \in alive /\ alive' = (alive \ {tok}) \cup {Renewed(c)} /\ Renewed(c).turn = tok.turn + 1
      BY <2>2, AtWork
    <3>2. t = Renewed(c)
      BY <1>5, <2>2, <3>1, OneAlive
    <3>3. QED BY <1>1, <1>2, <2>2, <3>1, <3>2
  <2>3. QED BY <1>5, <2>1, <2>2, CallerStep
<1>6. QED BY <1>4, <1>5 DEF Turns

\* What no longer works does not come back: only new tokens do.
LEMMA StaysDead ==
  ASSUME TypeOK, Fresh, Turns, ConnNext, NEW t \in Held, t \notin alive
  PROVE  t \notin alive'
<1>1. t \in Token /\ t.turn \in Nat
  BY DEF Held, Token
<1>2. ASSUME NEW f \in Flow, t = Issued(f), flow[f].at = "back" PROVE FALSE
  BY <1>2, NoneYet DEF Issued, Early
<1>3. ASSUME NEW c \in Caller, t = Renewed(c), RefreshRotates(c) PROVE FALSE
  <2>1. caller[c].token \in alive /\ t.flow = caller[c].token.flow /\ t.turn = caller[c].token.turn + 1
    BY <1>3, AtWork
  <2>2. t.turn <= caller[c].token.turn /\ caller[c].token.turn \in Nat
    BY <2>1 DEF Turns, TypeOK, Token
  <2>3. QED BY <2>1, <2>2
<1>4. QED BY <1>2, <1>3, AliveFrom

\* What is revoked stays so.
LEMMA DeadStep == ASSUME TypeOK, Fresh, Turns, Dead, ConnNext PROVE Dead'
<1>1. TypeOK'
  BY TypeStep
<1>2. ASSUME NEW d \in Stop, stop'[d].at = "revoked" PROVE stop'[d].cred \notin alive'
  <2>1. CASE stop'[d] = stop[d]
    <3>1. stop[d].cred \notin alive /\ stop[d].cred \in Token \cup {None}
      BY <1>2, <2>1 DEF Dead, TypeOK, Stops
    <3>2. CASE stop[d].cred \in Token
      BY <2>1, <3>1, <3>2, StaysDead DEF Held
    <3>3. CASE stop[d].cred = None
      BY <1>1, <2>1, <3>3, ConnectionAssumption DEF TypeOK, Token
    <3>4. QED BY <3>1, <3>2, <3>3
  <2>2. QED BY <1>2, <2>1, StopStep
<1>3. ASSUME NEW f \in Flow, flow'[f].at = "revoked" PROVE Issued(f) \notin alive'
  <2>1. CASE flow'[f] = flow[f]
    <3>1. flow[f].at = "revoked" /\ Issued(f) \notin alive
      BY <1>3, <2>1 DEF Dead
    <3>2. ASSUME NEW g \in Flow, Issued(f) = Issued(g), flow[g].at = "back" PROVE FALSE
      BY <3>1, <3>2 DEF Issued
    <3>3. ASSUME NEW c \in Caller, Issued(f) = Renewed(c), RefreshRotates(c) PROVE FALSE
      <4>1. caller[c].token.turn \in Nat /\ Renewed(c).turn = caller[c].token.turn + 1
        BY <3>3, AtWork DEF Held, Token
      <4>2. QED BY <3>3, <4>1 DEF Issued
    <3>4. QED BY <3>1, <3>2, <3>3, AliveFrom
  <2>2. QED BY <1>3, <2>1, FlowStep DEF AllAdvance, Advances
<1>4. ASSUME NEW c \in Caller, caller'[c].at = "dead" PROVE caller'[c].token \notin alive'
  <2>1. CASE caller'[c] = caller[c]
    BY <1>4, <2>1, StaysDead, RenewedIs DEF Dead
  <2>2. QED BY <1>4, <2>1, CallerStep
<1>5. QED BY <1>2, <1>3, <1>4 DEF Dead

\* The credential that a step takes away is one that Google no longer honours.
LEMMA HonouredStep ==
  ASSUME TypeOK, Dead, ConnNext, mail.cred # None, mail'.cred = None, ~blocked'
  PROVE  mail.cred \notin alive
<1>1. mail \in Mails
  BY DEF TypeOK
<1>2. ASSUME NEW intent, NEW cred, Finalize(intent, cred) PROVE mail.cred = cred
  BY <1>2 DEF Finalize, Finalizable
<1>3. ASSUME NEW f \in Flow, FinalizeFlow(f) PROVE mail.cred \notin alive
  BY <1>2, <1>3 DEF FinalizeFlow, Dead
<1>4. ASSUME NEW d \in Stop, FinalizeStop(d) PROVE mail.cred \notin alive
  BY <1>2, <1>4 DEF FinalizeStop, Dead
<1>5. ASSUME NEW c \in Caller, MarkReauth(c) PROVE mail.cred \notin alive
  BY <1>5 DEF MarkReauth, Current, Dead
<1>6. ASSUME NEW f \in Flow, PersistLands(f) \/ \E heard \in BOOLEAN : Store(f, heard) PROVE FALSE
  <2>1. Issued(f) # None
    BY ConnectionAssumption DEF Issued
  <2>2. PersistLands(f) => mail'.cred = Issued(f)
    BY <1>1 DEF PersistLands, Landed, Mails
  <2>3. ASSUME NEW heard \in BOOLEAN, Store(f, heard) PROVE mail'.cred = Issued(f)
    BY <1>1, <2>3 DEF Store, Mails
  <2>4. QED BY <1>6, <2>1, <2>2, <2>3
<1>7. ASSUME NEW c \in Caller, Replace(c) PROVE FALSE
  <2>1. Renewed(c) # None
    BY <1>7, AtWork, ConnectionAssumption DEF Token
  <2>2. mail'.cred \in {mail.cred, Renewed(c)}
    BY <1>1, <1>7 DEF Replace, Renewed, Mails
  <2>3. QED BY <2>1, <2>2
<1>8. ASSUME \/ \E d \in Stop : Prepare(d)
             \/ \E s \in {"read", "send"} : Consent(s)
      PROVE FALSE
  BY <1>1, <1>8 DEF Prepare, Consent, Mails
<1>9. ~CloseAccount
  BY DEF CloseAccount
<1>10. QED BY <1>3, <1>4, <1>5, <1>6, <1>7, <1>8, <1>9, MailStill DEF MailMoves

\* The tokens that somebody answers for: the row holds it, a flow or a caller has still
\* to store or revoke it, or it was given up.
Accounted == \A t \in alive :
  \/ t = mail.cred
  \/ t \in dropped
  \/ flow[t.flow].at \in {"granted", "superseded", "unstored"} /\ t = Issued(t.flow)
  \/ \E c \in Caller : caller[c].at = "rotated" /\ t = Renewed(c)

\* What was given up stays so.
LEMMA DroppedGrows == ASSUME ConnNext PROVE dropped \subseteq dropped'
<1>1. CASE FlowNext
  BY <1>1 DEF FlowNext, Begin, Consume, GiveUp, Exchange, PersistLands, PersistRefused,
      PersistSuperseded, Store, StoreRefused, StoreFails, RevokeFlow, RevokeFlowFails,
      FinalizeFlow
<1>2. CASE StopNext
  BY <1>2 DEF StopNext, Prepare, RevokeStop, RevokeStopFails, FinalizeStop, StopDies
<1>3. CASE OwnerNext
  BY <1>3 DEF OwnerNext, Consent, CloseAccount, RemovedAtGoogle
<1>4. CASE \E c \in Caller : CallerNext(c) \/ Leave(c)
  BY <1>4 DEF CallerNext, Load, RefreshOk, RefreshRotates, RefreshDead, Replace, ReplaceFails,
      MarkReauth, HandOver, CallFails, Leave
<1>5. QED BY <1>1, <1>2, <1>3, <1>4 DEF ConnNext

\* A credential that Google honours leaves the row only to be given up.
LEMMA CredAccounted ==
  ASSUME TypeOK, Turns, Dead, ConnNext, mail.cred \in alive
  PROVE  mail'.cred = mail.cred \/ mail.cred \in dropped'
<1>1. mail \in Mails /\ mail.cred # None
  BY ConnectionAssumption DEF TypeOK, Token
<1>2. ASSUME NEW f \in Flow, PersistLands(f) PROVE mail.cred \in dropped'
  BY <1>1, <1>2 DEF PersistLands
<1>3. ASSUME NEW f \in Flow, NEW heard \in BOOLEAN, Store(f, heard) PROVE mail.cred \in dropped'
  BY <1>1, <1>3 DEF Store
<1>4. CloseAccount => mail.cred \in dropped'
  BY <1>1 DEF CloseAccount
<1>5. ASSUME NEW intent, NEW cred, Finalize(intent, cred) PROVE mail'.cred = mail.cred \/ mail.cred = cred
  BY <1>5 DEF Finalize, Finalizable
<1>6. ASSUME NEW f \in Flow, FinalizeFlow(f) PROVE mail'.cred = mail.cred
  BY <1>5, <1>6 DEF FinalizeFlow, Dead
<1>7. ASSUME NEW d \in Stop, FinalizeStop(d) PROVE mail'.cred = mail.cred
  BY <1>5, <1>7 DEF FinalizeStop, Dead
<1>8. ASSUME NEW c \in Caller, MarkReauth(c) PROVE mail'.cred = mail.cred
  BY <1>8 DEF MarkReauth, Current, Dead
<1>9. ASSUME NEW c \in Caller, Replace(c) PROVE mail'.cred = mail.cred
  <2>1. CASE Current(caller[c].token)
    <3>1. mail.cred = caller[c].token /\ caller[c].at = "rotated"
      BY <1>9, <2>1 DEF Replace, Current
    <3>2. caller[c].token.turn < mail.cred.turn /\ mail.cred.turn \in Nat
      BY <3>1 DEF Turns, TypeOK, Token
    <3>3. QED BY <3>1, <3>2
  <2>2. CASE ~Current(caller[c].token)
    BY <1>9, <2>2 DEF Replace
  <2>3. QED BY <2>1, <2>2
<1>10. ASSUME (\E d \in Stop : Prepare(d)) \/ \E s \in {"read", "send"} : Consent(s)
       PROVE  mail'.cred = mail.cred
  BY <1>1, <1>10 DEF Prepare, Consent, Mails
<1>11. QED BY <1>2, <1>3, <1>4, <1>6, <1>7, <1>8, <1>9, <1>10, MailStill DEF MailMoves

\* A flow that holds a token keeps it, stores it, revokes it, or gives it up.
LEMMA FlowAccounted ==
  ASSUME TypeOK, ConnNext, NEW f \in Flow, flow[f].at \in {"granted", "superseded", "unstored"}
  PROVE  \/ flow'[f].at \in {"granted", "superseded", "unstored"}
         \/ mail'.cred = Issued(f) \/ Issued(f) \in dropped' \/ Issued(f) \notin alive'
<1> DEFINE Goal == \/ flow'[f].at \in {"granted", "superseded", "unstored"}
                   \/ mail'.cred = Issued(f) \/ Issued(f) \in dropped' \/ Issued(f) \notin alive'
<1> SUFFICES Goal
  OBVIOUS
<1>1. mail \in Mails /\ flow \in [Flow -> Flows]
  BY DEF TypeOK
<1>2. flow'[f] = flow[f] => Goal
  OBVIOUS
<1>3. ASSUME NEW g \in Flow, NEW x, flow' = [flow EXCEPT ![g] = x], g # f PROVE Goal
  BY <1>1, <1>2, <1>3
<1>4. ASSUME NEW g \in Flow, GiveUp(g) \/ PersistRefused(g) \/ StoreRefused(g) PROVE Goal
  BY <1>1, <1>4 DEF GiveUp, PersistRefused, StoreRefused
<1>5. ASSUME NEW g \in Flow, PersistLands(g) PROVE Goal
  <2>1. mail'.cred = Issued(g)
    BY <1>1, <1>5 DEF PersistLands, Landed, Mails
  <2>2. QED BY <1>3, <1>5, <2>1 DEF PersistLands
<1>6. ASSUME NEW g \in Flow, PersistSuperseded(g) \/ StoreFails(g) PROVE Goal
  BY <1>1, <1>6 DEF PersistSuperseded, StoreFails, Flows
<1>7. ASSUME NEW g \in Flow, NEW heard \in BOOLEAN, Store(g, heard) PROVE Goal
  <2>1. mail'.cred = Issued(g)
    BY <1>1, <1>7 DEF Store, Mails
  <2>2. CASE g = f
    BY <2>1, <2>2
  <2>3. CASE g # f
    BY <1>1, <1>7, <2>3 DEF Store
  <2>4. QED BY <2>2, <2>3
<1>8. ASSUME NEW g \in Flow, RevokeFlow(g) PROVE Goal
  <2>1. CASE g = f
    BY <1>8, <2>1 DEF RevokeFlow, Revoke
  <2>2. CASE g # f
    BY <1>1, <1>8, <2>2 DEF RevokeFlow
  <2>3. QED BY <2>1, <2>2
<1>9. ASSUME NEW g \in Flow, NEW applied \in BOOLEAN, RevokeFlowFails(g, applied) PROVE Goal
  BY <1>1, <1>9 DEF RevokeFlowFails
<1>10. ASSUME NEW g \in Flow, \/ FinalizeFlow(g) \/ Consume(g)
                              \/ \E p \in {"connect", "reconnect", "grant_send"} : Begin(g, p)
                              \/ \E s \in {"read", "send"} : Exchange(g, s)
       PROVE  Goal
  BY <1>1, <1>10 DEF FinalizeFlow, Consume, Begin, Exchange
<1>11. ASSUME NEW ps, flow' = Cancelled(Unconsumed(ps)) PROVE Goal
  BY <1>11 DEF Cancelled, Unconsumed
<1> HIDE DEF Goal
<1>12. CASE FlowNext
  BY <1>4, <1>5, <1>6, <1>7, <1>8, <1>9, <1>10, <1>12 DEF FlowNext
<1>13. CASE StopNext
  BY <1>2, <1>11, <1>13 DEF StopNext, Prepare, RevokeStop, RevokeStopFails, FinalizeStop, StopDies
<1>14. CASE OwnerNext
  BY <1>2, <1>11, <1>14 DEF OwnerNext, Consent, CloseAccount, RemovedAtGoogle
<1>15. CASE \E c \in Caller : CallerNext(c) \/ Leave(c)
  BY <1>2, <1>15 DEF CallerNext, Load, RefreshOk, RefreshRotates, RefreshDead, Replace,
      ReplaceFails, MarkReauth, HandOver, CallFails, Leave
<1>16. QED BY <1>12, <1>13, <1>14, <1>15 DEF ConnNext

\* A caller with a token in its hands keeps it, stores it, or gives it up.
LEMMA CallerAccounted ==
  ASSUME TypeOK, ConnNext, NEW c \in Caller, caller[c].at = "rotated"
  PROVE  caller'[c] = caller[c] \/ mail'.cred = Renewed(c) \/ Renewed(c) \in dropped'
<1> DEFINE Goal == caller'[c] = caller[c] \/ mail'.cred = Renewed(c) \/ Renewed(c) \in dropped'
<1> SUFFICES Goal
  OBVIOUS
<1>1. mail \in Mails /\ caller \in [Caller -> Calls]
  BY DEF TypeOK
<1>2. caller' = caller => Goal
  OBVIOUS
<1>3. ASSUME NEW e \in Caller, NEW what, Told(e, what), e # c PROVE Goal
  BY <1>1, <1>3 DEF Told
<1>4. ASSUME NEW e \in Caller, Load(e) \/ RefreshOk(e) \/ RefreshRotates(e) \/ RefreshDead(e) PROVE Goal
  <2>1. e # c
    BY <1>4 DEF Load, RefreshOk, RefreshRotates, RefreshDead
  <2>2. QED BY <1>1, <1>4, <2>1 DEF Load, Told, RefreshOk, RefreshRotates, RefreshDead
<1>5. ASSUME NEW e \in Caller, MarkReauth(e) \/ HandOver(e) \/ CallFails(e) PROVE Goal
  <2>1. e # c
    BY <1>5 DEF MarkReauth, HandOver, CallFails
  <2>2. QED BY <1>3, <1>5, <2>1 DEF MarkReauth, HandOver, CallFails
<1>6. ASSUME NEW e \in Caller, Replace(e) PROVE Goal
  <2>1. CASE e = c
    <3>1. CASE Current(caller[c].token)
      BY <1>1, <1>6, <2>1, <3>1 DEF Replace, Renewed, Mails
    <3>2. CASE ~Current(caller[c].token)
      BY <1>6, <2>1, <3>2 DEF Replace, Renewed
    <3>3. QED BY <3>1, <3>2
  <2>2. CASE e # c
    BY <1>1, <1>3, <1>6, <2>2 DEF Replace
  <2>3. QED BY <2>1, <2>2
<1>7. ASSUME NEW e \in Caller, ReplaceFails(e) PROVE Goal
  BY <1>3, <1>7 DEF ReplaceFails, Renewed
<1>8. ASSUME NEW e \in Caller, Leave(e) PROVE Goal
  BY <1>1, <1>8 DEF Leave, Renewed
<1> HIDE DEF Goal
<1>9. CASE FlowNext
  BY <1>2, <1>9 DEF FlowNext, Begin, Consume, GiveUp, Exchange, PersistLands, PersistRefused,
      PersistSuperseded, Store, StoreRefused, StoreFails, RevokeFlow, RevokeFlowFails,
      FinalizeFlow
<1>10. CASE StopNext
  BY <1>2, <1>10 DEF StopNext, Prepare, RevokeStop, RevokeStopFails, FinalizeStop, StopDies
<1>11. CASE OwnerNext
  BY <1>2, <1>11 DEF OwnerNext, Consent, CloseAccount, RemovedAtGoogle
<1>12. ASSUME NEW e \in Caller, CallerNext(e) \/ Leave(e) PROVE Goal
  BY <1>4, <1>5, <1>6, <1>7, <1>8, <1>12 DEF CallerNext
<1>13. QED BY <1>9, <1>10, <1>11, <1>12 DEF ConnNext

\* A token that Google has just issued is in the hands of whoever asked for it.
LEMMA NewAccounted ==
  ASSUME TypeOK, ConnNext, NEW t \in alive', t \notin alive
  PROVE  \/ flow'[t.flow].at \in {"granted", "superseded", "unstored"} /\ t = Issued(t.flow)
         \/ \E c \in Caller : caller'[c].at = "rotated" /\ caller'[c].token = caller[c].token
                              /\ t = Renewed(c)
<1>1. flow \in [Flow -> Flows] /\ caller \in [Caller -> Calls]
  BY DEF TypeOK
<1>2. ASSUME NEW f \in Flow, NEW s, Exchange(f, s)
      PROVE  flow'[t.flow].at = "granted" /\ t = Issued(t.flow)
  <2>1. t = Issued(f) /\ t.flow = f
    BY <1>2 DEF Exchange, Issued
  <2>2. flow'[f].at = "granted"
    BY <1>1, <1>2 DEF Exchange, Flows
  <2>3. QED BY <2>1, <2>2
<1>3. ASSUME NEW c \in Caller, RefreshRotates(c)
      PROVE  caller'[c].at = "rotated" /\ caller'[c].token = caller[c].token /\ t = Renewed(c)
  <2>1. t = Renewed(c)
    BY <1>3 DEF RefreshRotates, Renewed
  <2>2. caller'[c].at = "rotated" /\ caller'[c].token = caller[c].token
    BY <1>1, <1>3 DEF RefreshRotates, Calls
  <2>3. QED BY <2>1, <2>2
<1>4. QED BY <1>2, <1>3, AliveStep

\* Every token that Google honours has somebody who answers for it, or was given up.
LEMMA AccountedStep == ASSUME TypeOK, Turns, Dead, Accounted, ConnNext PROVE Accounted'
<1> SUFFICES ASSUME NEW t \in alive'
             PROVE  \/ t = mail'.cred \/ t \in dropped'
                    \/ flow'[t.flow].at \in {"granted", "superseded", "unstored"} /\ t = Issued(t.flow)
                    \/ \E c \in Caller : caller'[c].at = "rotated" /\ t = Renewed(c)'
  BY DEF Accounted, Issued
<1>1. ASSUME NEW c \in Caller, caller'[c].token = caller[c].token PROVE Renewed(c)' = Renewed(c)
  BY <1>1 DEF Renewed
<1>2. CASE t \notin alive
  BY <1>1, <1>2, NewAccounted
<1>3. CASE t \in alive
  <2>1. t.flow \in Flow
    BY <1>3 DEF TypeOK, Token
  <2>2. CASE t = mail.cred
    BY <1>3, <2>2, CredAccounted
  <2>3. CASE t \in dropped
    BY <2>3, DroppedGrows
  <2>4. CASE flow[t.flow].at \in {"granted", "superseded", "unstored"} /\ t = Issued(t.flow)
    BY <2>1, <2>4, FlowAccounted
  <2>5. ASSUME NEW c \in Caller, caller[c].at = "rotated", t = Renewed(c)
        PROVE  t = mail'.cred \/ t \in dropped' \/ (caller'[c].at = "rotated" /\ t = Renewed(c)')
    BY <1>1, <2>5, CallerAccounted
  <2>6. QED BY <1>3, <2>2, <2>3, <2>4, <2>5 DEF Accounted
<1>4. QED BY <1>2, <1>3

-----------------------------------------------------------------------------
(* The theorems.                                                           *)

\* Every mailbox starts in order: none is connected, or one is with a grant under a consent.
LEMMA InitIInv == ConnInit => IInv
<1> SUFFICES ASSUME ConnInit PROVE IInv
  OBVIOUS
<1>1. CASE First = None
  <2>1. TypeOK
    BY <1>1, ConnectionAssumption DEF ConnInit, TypeOK, Mails, Flows, Stops, Calls, Unused,
        Finished, States, Outcomes
  <2>2. Held = {}
    BY <1>1, ConnectionAssumption DEF ConnInit, Held, Finished, Token
  <2>3. QED BY <1>1, <2>1, <2>2, ConnectionAssumption DEF ConnInit, IInv, Order,
      DisconnectStands, ConsentCovers, Granted, Fresh, Turns, Dead, Unused, Finished
<1>2. CASE First \in Flow
  <2>1. First # None /\ Issued(First) # None /\ Issued(First) \in Token
        /\ Issued(First).flow = First
    BY <1>2, ConnectionAssumption DEF Issued, Token
  <2>2. TypeOK
    <3>1. mail \in Mails
      BY <2>1, ConnectionAssumption DEF ConnInit, Mails, States
    <3>2. flow \in [Flow -> Flows] /\ stop \in [Stop -> Stops] /\ caller \in [Caller -> Calls]
      BY DEF ConnInit, Flows, Stops, Calls, Unused, Finished, Outcomes
    <3>3. QED BY <2>1, <3>1, <3>2 DEF ConnInit, TypeOK
  <2>3. Held = {Issued(First)}
    BY <2>1, ConnectionAssumption DEF ConnInit, Held, Finished, Token
  <2>4. Order /\ Granted
    BY <2>1 DEF ConnInit, Order, Granted, Unused
  <2>5. DisconnectStands /\ ConsentCovers
    <3>1. mail = [state |-> "connected", scopes |-> FirstScopes, consent |-> FirstScopes,
                  cred |-> Issued(First), rev |-> 1, intent |-> 0]
      BY <2>1 DEF ConnInit
    <3>2. flow[First].seq = 1
      BY <1>2, <2>1 DEF ConnInit, Unused
    <3>3. FirstScopes # "none"
      BY ConnectionAssumption
    <3>4. mail.cred = Issued(First) /\ mail.intent = 0 /\ mail.scopes = FirstScopes
          /\ mail.consent = FirstScopes
      BY <3>1
    <3>5. DisconnectStands
      BY <2>1, <3>2, <3>4 DEF DisconnectStands
    <3>6. QED BY <3>3, <3>4, <3>5 DEF ConsentCovers
  <2>6. Fresh
    BY <1>2, <2>1, <2>3 DEF ConnInit, Fresh, Early, Unused
  <2>7. Turns
    BY <2>1, <2>3 DEF ConnInit, Turns, Issued
  <2>8. Dead
    BY <2>1 DEF ConnInit, Dead, Unused, Finished
  <2>9. QED BY <2>2, <2>4, <2>5, <2>6, <2>7, <2>8 DEF IInv
<1>3. QED BY <1>1, <1>2, ConnectionAssumption

\* A step that leaves the connection alone leaves the invariant alone.
LEMMA IInvStill == ASSUME IInv, UNCHANGED connVars PROVE IInv'
BY DEF IInv, connVars, TypeOK, Order, DisconnectStands, ConsentCovers, Granted, Fresh, Turns,
    Dead, Held, Issued, Token

\* The inductive invariant is one.
LEMMA IInvStep == ASSUME IInv, [ConnNext]_connVars PROVE IInv'
<1>1. CASE ConnNext
  BY <1>1, TypeStep, OrderStep, StandsStep, CoversStep, GrantedStep, FreshStep, TurnsStep,
      DeadStep DEF IInv
<1>2. QED BY <1>1, IInvStill

\* The order of flows and Disconnects, what consents cover, where tokens come from and
\* which of them still work (0036, connection.server.ts).
THEOREM ConnectionInvariant == ConnSpec => []IInv
<1>1. QED BY InitIInv, IInvStep, PTL DEF ConnSpec

\* Rows, flows, Disconnects and callers keep their types, and the row its shapes (0035:353).
THEOREM ConnectionTypes == ConnSpec => []TypeOK
<1>1. IInv => TypeOK
  BY DEF IInv
<1>2. QED BY <1>1, ConnectionInvariant, PTL

\* A mailbox works with the grant of a flow begun after the last Disconnect (0036:1126).
THEOREM DisconnectsStand == ConnSpec => []DisconnectStands
<1>1. IInv => DisconnectStands
  BY DEF IInv
<1>2. QED BY <1>1, ConnectionInvariant, PTL

\* A mailbox works under a consent for the scopes it holds (0036:1336, 0089:262, 0101:80).
THEOREM ConsentsCover == ConnSpec => []ConsentCovers
<1>1. IInv => ConsentCovers
  BY DEF IInv
<1>2. QED BY <1>1, ConnectionInvariant, PTL

\* A credential that Google honours is taken away by the end of the account only
\* (connection.server.ts:865, 0036:1766).
THEOREM HonouredStay == ConnSpec => HonouredStays
<1>1. IInv /\ [ConnNext]_connVars
        => [mail.cred # None /\ mail'.cred = None /\ ~blocked' => mail.cred \notin alive]_connVars
  BY HonouredStep DEF IInv
<1>2. QED BY <1>1, ConnectionInvariant, PTL DEF ConnSpec, HonouredStays

\* Of what Google still honours nothing is without somebody who answers for it, so that a
\* finished Disconnect leaves only what is still at work or was given up (0036:2052,
\* connection.server.ts:660).
THEOREM RevokedUnlessGivenUp == ConnSpec => []RevokedUnlessLost
<1>1. ConnInit => Accounted
  BY DEF ConnInit, Accounted
<1>2. IInv /\ Accounted /\ [ConnNext]_connVars => Accounted'
  <2>1. ASSUME IInv, Accounted, UNCHANGED connVars PROVE Accounted'
    BY <2>1 DEF Accounted, connVars, Issued, Renewed
  <2>2. QED BY <2>1, AccountedStep DEF IInv
<1>3. IInv /\ Accounted => RevokedUnlessLost
  <2> SUFFICES ASSUME TypeOK, Accounted, mail.state = "disconnected", NEW t \in alive
               PROVE  \/ flow[t.flow].at \in {"granted", "superseded", "unstored"}
                      \/ \E c \in Caller : caller[c].at = "rotated" /\ t.flow = caller[c].token.flow
                      \/ t \in dropped
    BY DEF IInv, RevokedUnlessLost
  <2>1. t # mail.cred
    BY ConnectionAssumption DEF TypeOK, Mails, Token
  <2>2. ASSUME NEW c \in Caller, caller[c].at = "rotated", t = Renewed(c)
        PROVE  t.flow = caller[c].token.flow
    BY <2>2, RenewedIs
  <2>3. QED BY <2>1, <2>2 DEF Accounted
<1>4. QED BY <1>1, <1>2, <1>3, ConnectionInvariant, PTL DEF ConnSpec
=============================================================================
