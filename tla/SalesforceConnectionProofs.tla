---------------------- MODULE SalesforceConnectionProofs ----------------------
(***************************************************************************)
(* Proofs of the safety properties of SalesforceConnection, for any number *)
(* of flows, administrators and requests and any bound on the tokens.      *)
(***************************************************************************)
EXTENDS SalesforceConnection, TLAPS

\* A connect deletes only rows that it has seen expired.
OldIsExpired == \A f \in Flow : old[f] \in expired \cup {NoFlow}

\* Before the row of the connection exists nobody has got past its insert, and afterwards
\* nobody does.
Granted == {"secrets", "consume"}
NoRowNoGrant ==
  status = "absent" => secrets.phase = "none" /\ \A f \in Flow : flowAt[f] \notin Granted
StoredOnce == \A f \in Flow : flowAt[f] = "secrets" => secrets.phase = "none"

\* A request that wants to refresh has read the row, at a version that is not ahead of it;
\* while the version is the same, its token is newer than the stored one.
Holds(r) == reqAt[r] \in {"fetch", "refresh", "update"}
ReadersSawRow == \A r \in Requester : Holds(r) => secrets.phase # "none"
VersionsSeen ==
  \A r \in Requester : Holds(r) /\ secrets.phase = "stored" => version[r] <= secrets.version
TokensIssued == secrets.access <= issued /\ \A r \in Requester : token[r] <= issued
TokenIsNewer ==
  \A r \in Requester :
    reqAt[r] = "update" /\ secrets.phase = "stored" /\ version[r] = secrets.version
      => secrets.access < token[r]

FlowInv == OldIsExpired /\ NoRowNoGrant /\ StoredOnce /\ OneGrantStored
TokenInv == ReadersSawRow /\ VersionsSeen /\ TokensIssued /\ TokenIsNewer
IInv == TypeOK /\ FlowInv /\ TokenInv

USE DEF Requester, Holds, Granted, flowVars, reqVars, salesforceVars

-----------------------------------------------------------------------------
LEMMA InitInv == Init => IInv
<1> SUFFICES ASSUME Init PROVE IInv
  OBVIOUS
<1>1. TypeOK
  BY DEF Init, TypeOK, NoSecrets, Secrets
<1>2. FlowInv
  BY DEF Init, FlowInv, OldIsExpired, NoRowNoGrant, StoredOnce, OneGrantStored, NoSecrets
<1>3. TokenInv
  BY DEF Init, TokenInv, ReadersSawRow, VersionsSeen, TokensIssued, TokenIsNewer, NoSecrets
<1> QED BY <1>1, <1>2, <1>3 DEF IInv

\* The requests are not concerned with the steps of others that leave the secrets alone.
LEMMA TokenInvKept ==
  ASSUME IInv, UNCHANGED <<secrets, reqVars, issued>>
  PROVE  TokenInv'
BY DEF IInv, TokenInv, ReadersSawRow, VersionsSeen, TokensIssued, TokenIsNewer

\* The flows are not concerned with the steps of others that keep the row of the connection
\* and do not store secrets.
LEMMA FlowInvKept ==
  ASSUME IInv, UNCHANGED <<expired, flowVars>>,
         status' = "absent" => status = "absent",
         secrets'.phase = "none" <=> secrets.phase = "none"
  PROVE  FlowInv'
BY DEF IInv, FlowInv, OldIsExpired, NoRowNoGrant, StoredOnce, OneGrantStored

LEMMA ConnectPreserves ==
  ASSUME IInv, NEW f \in Flow,
         FlowExpires(f) \/ CheckStatus(f) \/ FindLive(f) \/ FindPending(f) \/ Supersede(f)
         \/ InsertFlow(f)
  PROVE  IInv'
<1>1. UNCHANGED <<status, secrets, adminAt, reqVars, salesforceVars>>
  BY DEF FlowExpires, CheckStatus, FindLive, Free, FindPending, Supersede, InsertFlow
<1>2. TokenInv'
  BY <1>1, TokenInvKept
<1>3. TypeOK' /\ OldIsExpired'
  <2>1. CASE FlowExpires(f)
    BY <2>1, <1>1 DEF FlowExpires, IInv, TypeOK, FlowInv, OldIsExpired
  <2>2. CASE CheckStatus(f)
    BY <2>2, <1>1 DEF CheckStatus, FlowGoes, IInv, TypeOK, FlowInv, OldIsExpired
  <2>3. CASE FindLive(f)
    BY <2>3, <1>1 DEF FindLive, FlowGoes, IInv, TypeOK, FlowInv, OldIsExpired
  <2>4. CASE FindPending(f)
    BY <2>4, <1>1 DEF FindPending, Free, FlowGoes, IInv, TypeOK, FlowInv, OldIsExpired
  <2>5. CASE Supersede(f)
    BY <2>5, <1>1 DEF Supersede, DeleteByNonce, FlowGoes, IInv, TypeOK, FlowInv, OldIsExpired
  <2>6. CASE InsertFlow(f)
    BY <2>6, <1>1 DEF InsertFlow, FlowGoes, IInv, TypeOK, FlowInv, OldIsExpired
  <2> QED BY <2>1, <2>2, <2>3, <2>4, <2>5, <2>6
<1>4. \A g \in Flow : flowAt'[g] \in Granted => flowAt'[g] = flowAt[g]
  BY DEF FlowExpires, CheckStatus, FindLive, Free, FindPending, Supersede, InsertFlow,
     FlowGoes, IInv, TypeOK
<1> QED
  BY <1>1, <1>2, <1>3, <1>4
  DEF IInv, FlowInv, NoRowNoGrant, StoredOnce, OneGrantStored

LEMMA CallbackPreserves ==
  ASSUME IInv, NEW f \in Flow,
         \/ FindFlow(f) \/ ExchangeCode(f) \/ ConsumeFlow(f) \/ Audit(f) \/ Activate(f)
         \/ FlowDies(f) \/ Forget(f)
  PROVE  IInv'
<1>1. /\ UNCHANGED <<secrets, adminAt, reqVars, salesforceVars>>
      /\ status' \in {status, "active"}
  BY DEF FindFlow, ExchangeCode, ConsumeFlow, Audit, Activate, FlowDies, Forget
<1>2. TokenInv'
  BY <1>1, TokenInvKept
<1>3. TypeOK' /\ OldIsExpired'
  <2>1. CASE FindFlow(f) \/ ExchangeCode(f) \/ ConsumeFlow(f) \/ Audit(f) \/ Activate(f)
    BY <2>1, <1>1 DEF FindFlow, ExchangeCode, ConsumeFlow, Audit, Activate, DeleteByNonce,
       FlowGoes, IInv, TypeOK, FlowInv, OldIsExpired
  <2>2. CASE FlowDies(f)
    BY <2>2, <1>1 DEF FlowDies, FlowGoes, IInv, TypeOK, FlowInv, OldIsExpired
  <2>3. CASE Forget(f)
    BY <2>3, <1>1, ConnectionAssumption
    DEF Forget, FlowGoes, IInv, TypeOK, FlowInv, OldIsExpired
  <2> QED BY <2>1, <2>2, <2>3
<1>4. \A g \in Flow : flowAt'[g] \in Granted => flowAt'[g] = flowAt[g]
  BY DEF FindFlow, ExchangeCode, ConsumeFlow, Audit, Activate, FlowDies, Forget, FlowGoes,
     IInv, TypeOK
<1> QED
  BY <1>1, <1>2, <1>3, <1>4
  DEF IInv, FlowInv, NoRowNoGrant, StoredOnce, OneGrantStored

\* The insert of the connection lets one flow through, once.
LEMMA CreatePreserves ==
  ASSUME IInv, NEW f \in Flow, CreateConnection(f)
  PROVE  IInv'
<1>1. TokenInv'
  BY TokenInvKept DEF CreateConnection
<1>2. TypeOK' /\ OldIsExpired'
  BY DEF CreateConnection, FlowGoes, IInv, TypeOK, FlowInv, OldIsExpired
<1>3. NoRowNoGrant' /\ StoredOnce' /\ OneGrantStored'
  BY DEF CreateConnection, FlowGoes, IInv, TypeOK, FlowInv, NoRowNoGrant, StoredOnce,
     OneGrantStored
<1> QED BY <1>1, <1>2, <1>3 DEF IInv, FlowInv

\* Nobody has read secrets before they are stored.
LEMMA StorePreserves ==
  ASSUME IInv, NEW f \in Flow, StoreSecrets(f)
  PROVE  IInv'
<1>1. secrets.phase = "none" /\ status # "absent" /\ \A r \in Requester : ~Holds(r)
  BY DEF StoreSecrets, IInv, FlowInv, TokenInv, StoredOnce, NoRowNoGrant, ReadersSawRow
<1>2. TypeOK' /\ OldIsExpired'
  BY DEF StoreSecrets, FlowGoes, IInv, TypeOK, Secrets, FlowInv, OldIsExpired
<1>3. NoRowNoGrant' /\ StoredOnce' /\ OneGrantStored'
  BY <1>1 DEF StoreSecrets, FlowGoes, IInv, TypeOK, FlowInv, StoredOnce, NoRowNoGrant,
     OneGrantStored
<1>4. TokenInv'
  BY <1>1 DEF StoreSecrets, IInv, TypeOK, TokenInv, ReadersSawRow, VersionsSeen, TokensIssued,
     TokenIsNewer
<1> QED BY <1>2, <1>3, <1>4 DEF IInv, FlowInv

LEMMA AdminPreserves ==
  ASSUME IInv, NEW a \in Admin, AdminStep(a)
  PROVE  IInv'
<1>1. /\ UNCHANGED <<pending, expired, flowVars, reqVars, issued>>
      /\ secrets' \in {secrets, Deleted} /\ (secrets' = secrets \/ secrets.phase = "stored")
      /\ status' \in {status, "disconnected"}
  BY DEF AdminStep, BeginDisconnect, ReadForRevoke, Revoke, DeleteSecrets, MarkDisconnected,
     DisconnectDies
<1>2. TypeOK'
  <2>1. adminAt' \in [Admin -> {"idle", "secrets", "revoke", "delete", "mark"}]
        /\ revoked' \in BOOLEAN
    BY DEF AdminStep, BeginDisconnect, ReadForRevoke, Revoke, DeleteSecrets, MarkDisconnected,
       DisconnectDies, AdminGoes, IInv, TypeOK
  <2> QED BY <1>1, <2>1 DEF IInv, TypeOK, Secrets, Deleted
<1>3. FlowInv'
  BY <1>1, FlowInvKept DEF Deleted
<1>4. TokenInv'
  BY <1>1 DEF Deleted, IInv, TypeOK, Secrets, TokenInv, ReadersSawRow, VersionsSeen, TokensIssued,
     TokenIsNewer
<1> QED BY <1>2, <1>3, <1>4 DEF IInv

\* The steps of a test or refresh that neither read nor write the secrets.
LEMMA RequestPreserves ==
  ASSUME IInv, NEW r \in Requester,
         \/ BeginTest(r) \/ BeginRefresh(r) \/ TestCall(r) \/ RetryCall(r)
         \/ ReportHealth(r) \/ RequestDies(r)
  PROVE  IInv'
<1>1. /\ UNCHANGED <<secrets, pending, expired, flowVars, adminAt, salesforceVars>>
      /\ status' \in {status, "active", "error"}
  BY DEF BeginTest, BeginRefresh, TestCall, RetryCall, ReportHealth, RequestDies
<1>2. /\ reqAt' \in [Requester -> {"idle", "secrets", "fetch", "refresh", "update", "retry",
                                   "healthy", "unhealthy"}]
      /\ version' \in [Requester -> Nat] /\ token' \in [Requester -> Nat]
      /\ \A q \in Requester : token'[q] \in {token[q], 0}
      /\ \A q \in Requester : Holds(q)' => Holds(q) /\ version'[q] = version[q]
      /\ \A q \in Requester : reqAt'[q] = "update" => reqAt[q] = "update" /\ token'[q] = token[q]
  BY DEF BeginTest, BeginRefresh, TestCall, RetryCall, ReportHealth, RequestDies, Fails, ReqGoes,
     IInv, TypeOK
<1>3. TypeOK'
  BY <1>1, <1>2 DEF IInv, TypeOK
<1>4. FlowInv'
  BY <1>1, FlowInvKept
<1>5. TokenInv'
  BY <1>1, <1>2
  DEF IInv, TypeOK, TokenInv, ReadersSawRow, VersionsSeen, TokensIssued, TokenIsNewer
<1> QED BY <1>3, <1>4, <1>5 DEF IInv

LEMMA ReadPreserves ==
  ASSUME IInv, NEW r \in Requester, ReadSecrets(r)
  PROVE  IInv'
<1>1. UNCHANGED <<status, secrets, pending, expired, flowVars, adminAt, salesforceVars>>
  BY DEF ReadSecrets
<1>2. TypeOK'
  BY <1>1 DEF ReadSecrets, Fails, ReqGoes, IInv, TypeOK, Secrets
<1>3. FlowInv'
  BY <1>1, FlowInvKept
<1>4. TokenInv'
  BY <1>1 DEF ReadSecrets, Fails, ReqGoes, IInv, TypeOK, Secrets, TokenInv, ReadersSawRow,
     VersionsSeen, TokensIssued, TokenIsNewer
<1> QED BY <1>2, <1>3, <1>4 DEF IInv

\* A new access token is newer than every stored one.
LEMMA RefreshPreserves ==
  ASSUME IInv, NEW r \in Requester, RefreshToken(r)
  PROVE  IInv'
<1>1. UNCHANGED <<status, secrets, pending, expired, flowVars, adminAt, revoked>>
  BY DEF RefreshToken
<1>2. TypeOK'
  BY <1>1 DEF RefreshToken, Fails, ReqGoes, IInv, TypeOK
<1>3. FlowInv'
  BY <1>1, FlowInvKept
<1>4. TokenInv'
  BY <1>1 DEF RefreshToken, Fails, ReqGoes, IInv, TypeOK, Secrets, TokenInv, ReadersSawRow,
     VersionsSeen, TokensIssued, TokenIsNewer
<1> QED BY <1>2, <1>3, <1>4 DEF IInv

\* The version goes up, so that everybody who has read an older one holds a stale version.
LEMMA UpdatePreserves ==
  ASSUME IInv, NEW r \in Requester, UpdateTokens(r)
  PROVE  IInv'
<1>1. UNCHANGED <<status, pending, expired, flowVars, adminAt, salesforceVars>>
  BY DEF UpdateTokens
<1>2. /\ secrets' \in Secrets /\ secrets'.phase = secrets.phase
      /\ \/ secrets' = secrets
         \/ secrets'.version = secrets.version + 1 /\ secrets'.access = token[r]
  BY DEF UpdateTokens, WriteIfUnchanged, IInv, TypeOK, Secrets
<1>3. TypeOK'
  BY <1>1, <1>2 DEF UpdateTokens, ReqGoes, IInv, TypeOK
<1>4. FlowInv'
  BY <1>1, <1>2, FlowInvKept
<1>5. TokenInv'
  BY <1>1, <1>2 DEF UpdateTokens, ReqGoes, IInv, TypeOK, Secrets, TokenInv, ReadersSawRow,
     VersionsSeen, TokensIssued, TokenIsNewer
<1> QED BY <1>3, <1>4, <1>5 DEF IInv

LEMMA CleanupPreserves ==
  ASSUME IInv, Cleanup
  PROVE  IInv'
<1>1. TypeOK'
  BY DEF Cleanup, IInv, TypeOK
<1>2. FlowInv' /\ TokenInv'
  BY FlowInvKept, TokenInvKept DEF Cleanup
<1> QED BY <1>1, <1>2 DEF IInv

LEMMA NextInv == IInv /\ [Next]_vars => IInv'
<1> SUFFICES ASSUME IInv, [Next]_vars PROVE IInv'
  OBVIOUS
<1>1. ASSUME NEW f \in Flow, FlowStep(f) PROVE IInv'
  BY <1>1, ConnectPreserves, CallbackPreserves, CreatePreserves, StorePreserves DEF FlowStep
<1>2. ASSUME NEW r \in Requester, RequestStep(r) PROVE IInv'
  BY <1>2, RequestPreserves, ReadPreserves, RefreshPreserves, UpdatePreserves DEF RequestStep
<1>3. CASE UNCHANGED vars
  <2>1. TypeOK'
    BY <1>3 DEF vars, IInv, TypeOK
  <2> QED BY <1>3, <2>1, FlowInvKept, TokenInvKept DEF vars, IInv
<1> QED BY <1>1, <1>2, <1>3, AdminPreserves, CleanupPreserves DEF Next

LEMMA Invariance == Spec => []IInv
BY InitInv, NextInv, PTL DEF Spec

-----------------------------------------------------------------------------
(* The theorems.                                                           *)

\* Type correctness: the connection, its secrets, its pending flow and the requests keep to
\* their states, whatever overlaps.
THEOREM ConnectionTypeCorrect == Spec => []TypeOK
BY Invariance, PTL DEF IInv

\* Of overlapping authorizations one at most becomes the connection and stores its grant.
THEOREM ConnectionOneGrant == Spec => []OneGrantStored
BY Invariance, PTL DEF IInv, FlowInv

\* Cleanups, connects that found an older row and late callbacks leave a live flow alone.
THEOREM ConnectionLiveFlowKept == Spec => LiveFlowKept
<1> DEFINE Kept(f) == pending = f /\ pending' # f => flowAt[f] = "consume" /\ flowAt'[f] = "audit"
<1>1. IInv /\ [Next]_vars => [\A f \in Flow \ expired : Kept(f)]_vars
  <2> SUFFICES ASSUME IInv, Next, NEW f \in Flow \ expired, pending = f, pending' # f
               PROVE  flowAt[f] = "consume" /\ flowAt'[f] = "audit"
    OBVIOUS
  <2>1. CASE Cleanup
    BY <2>1 DEF Cleanup
  <2>2. ASSUME NEW g \in Flow, FlowStep(g)
        PROVE  flowAt[f] = "consume" /\ flowAt'[f] = "audit"
    <3>1. CASE Supersede(g)
      BY <3>1, ConnectionAssumption DEF Supersede, DeleteByNonce, IInv, FlowInv, OldIsExpired
    <3>2. CASE InsertFlow(g)
      BY <3>2, ConnectionAssumption DEF InsertFlow
    <3>3. CASE ConsumeFlow(g)
      BY <3>3 DEF ConsumeFlow, DeleteByNonce, FlowGoes, IInv, TypeOK
    <3> QED
      BY <2>2, <3>1, <3>2, <3>3
      DEF FlowStep, FlowExpires, CheckStatus, FindLive, Free, FindPending, FindFlow, ExchangeCode,
          CreateConnection, StoreSecrets, Audit, Activate, FlowDies, Forget
  <2>3. ASSUME NEW a \in Admin, AdminStep(a) PROVE pending' = pending
    BY <2>3 DEF AdminStep, BeginDisconnect, ReadForRevoke, Revoke, DeleteSecrets,
       MarkDisconnected, DisconnectDies
  <2>4. ASSUME NEW r \in Requester, RequestStep(r) PROVE pending' = pending
    BY <2>4 DEF RequestStep, BeginTest, BeginRefresh, ReadSecrets, TestCall, RefreshToken,
       UpdateTokens, RetryCall, ReportHealth, RequestDies
  <2> QED BY <2>1, <2>2, <2>3, <2>4 DEF Next
<1> QED BY <1>1, Invariance, PTL DEF Spec, LiveFlowKept

\* The credentials implement a TokenStore: racing refreshes never put an older access token
\* over a newer one, and no refresh in flight brings deleted credentials back.
THEOREM ConnectionKeepsTokens == Spec => TokensKept
<1>1. Init => Tokens!Init
  BY DEF Init, NoSecrets, Tokens!Init
<1>2. IInv /\ [Next]_vars => [Tokens!Next]_<<secrets.phase, secrets.access>>
  <2> SUFFICES ASSUME IInv, [Next]_vars
               PROVE  Tokens!Next \/ UNCHANGED <<secrets.phase, secrets.access>>
    OBVIOUS
  <2>1. CASE UNCHANGED secrets
    BY <2>1
  <2>2. ASSUME NEW f \in Flow, StoreSecrets(f) PROVE Tokens!Store
    BY <2>2 DEF StoreSecrets, IInv, TypeOK, FlowInv, StoredOnce, Tokens!Store
  <2>3. ASSUME NEW a \in Admin, DeleteSecrets(a) PROVE Tokens!Delete \/ UNCHANGED secrets
    BY <2>3 DEF DeleteSecrets, Deleted, Tokens!Delete
  <2>4. ASSUME NEW r \in Requester, UpdateTokens(r) PROVE Tokens!Replace \/ UNCHANGED secrets
    BY <2>4 DEF UpdateTokens, WriteIfUnchanged, IInv, TypeOK, Secrets, TokenInv, TokenIsNewer,
       Tokens!Replace
  <2>5. ASSUME NEW f \in Flow, FlowStep(f) PROVE StoreSecrets(f) \/ UNCHANGED secrets
    BY <2>5 DEF FlowStep, FlowExpires, CheckStatus, FindLive, Free, FindPending, Supersede, InsertFlow, FindFlow,
       ExchangeCode, CreateConnection, ConsumeFlow, Audit, Activate, FlowDies, Forget
  <2>6. ASSUME NEW a \in Admin, AdminStep(a) PROVE DeleteSecrets(a) \/ UNCHANGED secrets
    BY <2>6 DEF AdminStep, BeginDisconnect, ReadForRevoke, Revoke, MarkDisconnected,
       DisconnectDies
  <2>7. ASSUME NEW r \in Requester, RequestStep(r) PROVE UpdateTokens(r) \/ UNCHANGED secrets
    BY <2>7 DEF RequestStep, BeginTest, BeginRefresh, ReadSecrets, TestCall, RefreshToken,
       RetryCall, ReportHealth, RequestDies
  <2> QED
    BY <2>1, <2>2, <2>3, <2>4, <2>5, <2>6, <2>7 DEF Next, Cleanup, Tokens!Next, vars
<1> QED BY <1>1, <1>2, Invariance, PTL DEF Spec, TokensKept, Tokens!Spec
=============================================================================
