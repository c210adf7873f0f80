------------------------- MODULE SalesforceConnection -------------------------
(***************************************************************************)
(* The connection of one project to Salesforce in one role: the row of     *)
(* salesforce_connections, the row of its secrets, the row of its pending  *)
(* OAuth flow, and the requests that write them - connect, the callback    *)
(* of the browser, disconnect, test, and the refresh that the worker       *)
(* delegates to the server.  There are no transactions: each await is a    *)
(* step of its own, and a process may die between any two.                 *)
(*                                                                         *)
(* Access tokens are numbered in the order in which Salesforce issues      *)
(* them.  Logs, rate limits and the metadata of the connection, which      *)
(* are only displayed, are left out.                                       *)
(***************************************************************************)
EXTENDS Naturals

CONSTANTS
  Flow,       \* authorizations, each with its nonce
  NoFlow,
  Admin,      \* requests POST .../disconnect
  Tester,     \* requests POST .../test
  Delegate,   \* requests POST /internal/salesforce/refresh
  MaxTokens   \* bound on the access tokens Salesforce issues

Requester == Tester \cup Delegate

ASSUME ConnectionAssumption ==
  /\ NoFlow \notin Flow
  /\ Tester \cap Delegate = {}
  /\ MaxTokens \in Nat \ {0}

VARIABLES
  status,     \* of the connection; "absent": there is no row
  secrets,    \* phase of the row (none yet, stored, deleted), access token, tokenVersion
  pending,    \* the flow that has the row of the project and role
  expired,    \* flows whose expiresAt has passed
  flowAt,     \* per flow: the next await of its connect or callback
  old,        \* per flow: the expired row that its connect has found
  adminAt,    \* per disconnect: its next await
  reqAt,      \* per test or refresh: its next await
  version,    \* per test or refresh: tokenVersion as read
  token,      \* per test or refresh: the access token it has got
  issued,     \* Salesforce: access tokens issued
  revoked     \* Salesforce: the refresh token was revoked

salesforceVars == <<issued, revoked>>
flowVars == <<flowAt, old>>
reqVars == <<reqAt, version, token>>
vars == <<status, secrets, pending, expired, flowVars, adminAt, reqVars, salesforceVars>>

Secrets == [phase : {"none", "stored", "deleted"}, access : Nat, version : Nat]

NoSecrets == [phase |-> "none", access |-> 0, version |-> 0]
Deleted == [phase |-> "deleted", access |-> 0, version |-> 0]

TypeOK ==
  /\ status \in {"absent", "active", "error", "disconnected"}
  /\ secrets \in Secrets
  /\ pending \in Flow \cup {NoFlow} /\ expired \subseteq Flow
  /\ flowAt \in [Flow -> {"new", "live", "find", "supersede", "insert", "browser",
                          "exchange", "create", "secrets", "consume", "audit", "activate",
                          "ended", "threw"}]
  /\ old \in [Flow -> Flow \cup {NoFlow}]
  /\ adminAt \in [Admin -> {"idle", "secrets", "revoke", "delete", "mark"}]
  /\ reqAt \in [Requester -> {"idle", "secrets", "fetch", "refresh", "update", "retry",
                              "healthy", "unhealthy"}]
  /\ version \in [Requester -> Nat] /\ token \in [Requester -> Nat]
  /\ issued \in Nat /\ revoked \in BOOLEAN

Init ==
  /\ status = "absent" /\ secrets = NoSecrets
  /\ pending = NoFlow /\ expired = {}
  /\ flowAt = [f \in Flow |-> "new"] /\ old = [f \in Flow |-> NoFlow]
  /\ adminAt = [a \in Admin |-> "idle"]
  /\ reqAt = [r \in Requester |-> "idle"]
  /\ version = [r \in Requester |-> 0] /\ token = [r \in Requester |-> 0]
  /\ issued = 0 /\ revoked = FALSE

-----------------------------------------------------------------------------
(* The pending flow.  There is one row per project and role.               *)

FlowGoes(f, place) == flowAt' = [flowAt EXCEPT ![f] = place]

FlowExpires(f) ==
  /\ pending = f /\ f \notin expired
  /\ expired' = expired \cup {f}
  /\ UNCHANGED <<status, secrets, pending, flowVars, adminAt, reqVars, salesforceVars>>

\* Mutant: the row is deleted by project and role.
DeleteByProject(n) == pending' = NoFlow

DeleteByNonce(n) == pending' = IF pending = n THEN NoFlow ELSE pending

\* cleanupExpired(), at startup and then every hour.
Cleanup ==
  /\ pending \in expired /\ pending' = NoFlow
  /\ UNCHANGED <<status, secrets, expired, flowVars, adminAt, reqVars, salesforceVars>>

-----------------------------------------------------------------------------
(* Connect.                                                                *)

CheckStatus(f) ==
  /\ flowAt[f] = "new" /\ status # "active"
  /\ FlowGoes(f, "live")
  /\ UNCHANGED <<status, secrets, pending, expired, old, adminAt, reqVars, salesforceVars>>

Free == pending = NoFlow \/ pending \in expired

\* The route looks for a live row, which ends the request ...
FindLive(f) ==
  /\ flowAt[f] = "live"
  /\ FlowGoes(f, IF Free THEN "find" ELSE "ended")
  /\ UNCHANGED <<status, secrets, pending, expired, old, adminAt, reqVars, salesforceVars>>

\* ... and upsertForProject() reads the row again, and remembers an expired one.
FindPending(f) ==
  /\ flowAt[f] = "find"
  /\ IF Free
       THEN FlowGoes(f, "supersede") /\ old' = [old EXCEPT ![f] = pending]
       ELSE FlowGoes(f, "ended") /\ UNCHANGED old
  /\ UNCHANGED <<status, secrets, pending, expired, adminAt, reqVars, salesforceVars>>

Supersede(f) ==
  /\ flowAt[f] = "supersede"
  /\ IF old[f] = NoFlow THEN UNCHANGED pending ELSE DeleteByNonce(old[f])
  /\ FlowGoes(f, "insert") /\ old' = [old EXCEPT ![f] = NoFlow]
  /\ UNCHANGED <<status, secrets, expired, adminAt, reqVars, salesforceVars>>

InsertFlow(f) ==
  /\ flowAt[f] = "insert"
  /\ IF pending = NoFlow
       THEN pending' = f /\ FlowGoes(f, "browser")
       ELSE UNCHANGED pending /\ FlowGoes(f, "ended")
  /\ UNCHANGED <<status, secrets, expired, old, adminAt, reqVars, salesforceVars>>

-----------------------------------------------------------------------------
(* The callback.  The signed state expires with the row, give or take a    *)
(* second, and only the state is looked at: an expired flow may come back. *)
(* Salesforce accepts a code once, so that of two callbacks of a flow one  *)
(* gets past the exchange at most, and it stands for both.                 *)

FindFlow(f) ==
  /\ flowAt[f] = "browser"
  /\ FlowGoes(f, IF pending = f THEN "exchange" ELSE "ended")
  /\ UNCHANGED <<status, secrets, pending, expired, old, adminAt, reqVars, salesforceVars>>

ExchangeCode(f) ==
  /\ flowAt[f] = "exchange"
  /\ FlowGoes(f, "create") \/ FlowGoes(f, "ended")
  /\ UNCHANGED <<status, secrets, pending, expired, old, adminAt, reqVars, salesforceVars>>

\* Mutant: the insert becomes an upsert, so that one can connect again.
UpsertConnection(f) ==
  /\ flowAt[f] = "create"
  /\ status' = "active" /\ FlowGoes(f, "secrets")
  /\ UNCHANGED <<secrets, pending, expired, old, adminAt, reqVars, salesforceVars>>

\* A plain insert: the row of an earlier connection makes it throw.
CreateConnection(f) ==
  /\ flowAt[f] = "create"
  /\ IF status = "absent"
       THEN status' = "active" /\ FlowGoes(f, "secrets")
       ELSE UNCHANGED status /\ FlowGoes(f, "threw")
  /\ UNCHANGED <<secrets, pending, expired, old, adminAt, reqVars, salesforceVars>>

\* Salesforce issued the token with the exchange.  It is numbered here: only one
\* flow gets this far, and a grant is not refreshed before it is stored.
StoreSecrets(f) ==
  /\ flowAt[f] = "secrets"
  /\ secrets.phase # "stored"
  /\ issued' = issued + 1
  /\ secrets' = [phase |-> "stored", access |-> issued + 1, version |-> 1]
  /\ FlowGoes(f, "consume")
  /\ UNCHANGED <<status, pending, expired, old, adminAt, reqVars, revoked>>

ConsumeFlow(f) ==
  /\ flowAt[f] = "consume"
  /\ DeleteByNonce(f)
  /\ FlowGoes(f, "audit")
  /\ UNCHANGED <<status, secrets, expired, old, adminAt, reqVars, salesforceVars>>

\* The audit calls Salesforce.  It may fail, or find no version of the API.
Audit(f) ==
  /\ flowAt[f] = "audit"
  /\ FlowGoes(f, "activate") \/ FlowGoes(f, "ended")
  /\ UNCHANGED <<status, secrets, pending, expired, old, adminAt, reqVars, salesforceVars>>

Activate(f) ==
  /\ flowAt[f] = "activate"
  /\ status' = "active" /\ FlowGoes(f, "ended")
  /\ UNCHANGED <<secrets, pending, expired, old, adminAt, reqVars, salesforceVars>>

\* An error of the database, or the process dies.
FlowDies(f) ==
  /\ flowAt[f] \notin {"new", "browser", "ended", "threw"}
  /\ FlowGoes(f, "ended") /\ old' = [old EXCEPT ![f] = NoFlow]
  /\ UNCHANGED <<status, secrets, pending, expired, adminAt, reqVars, salesforceVars>>

\* The name of a flow that nobody remembers stands for another one.
Forget(f) ==
  /\ flowAt[f] \in {"ended", "threw"} /\ pending # f /\ \A g \in Flow : old[g] # f
  /\ FlowGoes(f, "new") /\ expired' = expired \ {f}
  /\ UNCHANGED <<status, secrets, pending, old, adminAt, reqVars, salesforceVars>>

-----------------------------------------------------------------------------
(* Disconnect.                                                             *)

AdminGoes(a, place) == adminAt' = [adminAt EXCEPT ![a] = place]

BeginDisconnect(a) ==
  /\ adminAt[a] = "idle" /\ status \notin {"absent", "disconnected"}
  /\ AdminGoes(a, "secrets")
  /\ UNCHANGED <<status, secrets, pending, expired, flowVars, reqVars, salesforceVars>>

ReadForRevoke(a) ==
  /\ adminAt[a] = "secrets"
  /\ AdminGoes(a, IF secrets.phase = "stored" THEN "revoke" ELSE "mark")
  /\ UNCHANGED <<status, secrets, pending, expired, flowVars, reqVars, salesforceVars>>

\* Best effort.
Revoke(a) ==
  /\ adminAt[a] = "revoke"
  /\ revoked' \in {TRUE, revoked}
  /\ AdminGoes(a, "delete")
  /\ UNCHANGED <<status, secrets, pending, expired, flowVars, reqVars, issued>>

DeleteSecrets(a) ==
  /\ adminAt[a] = "delete"
  /\ secrets' = IF secrets.phase = "stored" THEN Deleted ELSE secrets
  /\ AdminGoes(a, "mark")
  /\ UNCHANGED <<status, pending, expired, flowVars, reqVars, salesforceVars>>

\* The connection keeps its row.
MarkDisconnected(a) ==
  /\ adminAt[a] = "mark"
  /\ status' = "disconnected" /\ AdminGoes(a, "idle")
  /\ UNCHANGED <<secrets, pending, expired, flowVars, reqVars, salesforceVars>>

DisconnectDies(a) ==
  /\ adminAt[a] # "idle"
  /\ AdminGoes(a, "idle")
  /\ UNCHANGED <<status, secrets, pending, expired, flowVars, reqVars, salesforceVars>>

-----------------------------------------------------------------------------
(* Test, and the refresh for the worker.                                   *)

\* Version and token are dropped where nothing uses them any more.
ReqGoes(r, place) ==
  /\ reqAt' = [reqAt EXCEPT ![r] = place]
  /\ version' = [version EXCEPT ![r] = 0] /\ token' = [token EXCEPT ![r] = 0]

BeginTest(r) ==
  /\ r \in Tester /\ reqAt[r] = "idle" /\ status = "active"
  /\ ReqGoes(r, "secrets")
  /\ UNCHANGED <<status, secrets, pending, expired, flowVars, adminAt, salesforceVars>>

\* The run that asks for the refresh holds the connection.
BeginRefresh(r) ==
  /\ r \in Delegate /\ reqAt[r] = "idle" /\ status # "absent"
  /\ ReqGoes(r, "secrets")
  /\ UNCHANGED <<status, secrets, pending, expired, flowVars, adminAt, salesforceVars>>

\* A delegated refresh answers with an error, a test reports one.
Fails(r) == ReqGoes(r, IF r \in Tester THEN "unhealthy" ELSE "idle")

ReadSecrets(r) ==
  /\ reqAt[r] = "secrets"
  /\ IF secrets.phase = "stored"
       THEN /\ version' = [version EXCEPT ![r] = secrets.version]
            /\ reqAt' = [reqAt EXCEPT ![r] = IF r \in Tester THEN "fetch" ELSE "refresh"]
            /\ UNCHANGED token
       ELSE Fails(r)
  /\ UNCHANGED <<status, secrets, pending, expired, flowVars, adminAt, salesforceVars>>

\* Access tokens expire at any time, and with the refresh token at the latest.
TestCall(r) ==
  /\ reqAt[r] = "fetch"
  /\ \/ ~revoked /\ ReqGoes(r, "healthy")
     \/ reqAt' = [reqAt EXCEPT ![r] = "refresh"] /\ UNCHANGED <<version, token>>
     \/ Fails(r)
  /\ UNCHANGED <<status, secrets, pending, expired, flowVars, adminAt, salesforceVars>>

\* Salesforce is asked for an access token.
RefreshToken(r) ==
  /\ reqAt[r] = "refresh"
  /\ \/ /\ ~revoked /\ issued < MaxTokens
        /\ issued' = issued + 1
        /\ token' = [token EXCEPT ![r] = issued + 1]
        /\ reqAt' = [reqAt EXCEPT ![r] = "update"]
        /\ UNCHANGED version
     \/ Fails(r) /\ UNCHANGED issued
  /\ UNCHANGED <<status, secrets, pending, expired, flowVars, adminAt, revoked>>

\* Mutant: the version is not compared.
WriteTokens(r) ==
  secrets' = IF secrets.phase = "stored"
               THEN [secrets EXCEPT !.access = token[r], !.version = @ + 1] ELSE secrets

\* updateTokens(): UPDATE ... WHERE tokenVersion is the one that was read.
WriteIfUnchanged(r) ==
  secrets' = IF secrets.phase = "stored" /\ secrets.version = version[r]
               THEN [phase |-> "stored", access |-> token[r], version |-> secrets.version + 1]
               ELSE secrets

\* Nobody looks at whether the row was updated.
UpdateTokens(r) ==
  /\ reqAt[r] = "update"
  /\ WriteIfUnchanged(r)
  /\ ReqGoes(r, IF r \in Tester THEN "retry" ELSE "idle")
  /\ UNCHANGED <<status, pending, expired, flowVars, adminAt, salesforceVars>>

RetryCall(r) ==
  /\ reqAt[r] = "retry"
  /\ (~revoked /\ ReqGoes(r, "healthy")) \/ Fails(r)
  /\ UNCHANGED <<status, secrets, pending, expired, flowVars, adminAt, salesforceVars>>

\* Mutant: the health is written as the status.
ReportHealthAsStatus(r) ==
  /\ reqAt[r] \in {"healthy", "unhealthy"}
  /\ status' = reqAt[r]
  /\ ReqGoes(r, "idle")
  /\ UNCHANGED <<secrets, pending, expired, flowVars, adminAt, salesforceVars>>

\* Whatever the status is by now.
ReportHealth(r) ==
  /\ reqAt[r] \in {"healthy", "unhealthy"}
  /\ status' = IF reqAt[r] = "healthy" THEN "active" ELSE "error"
  /\ ReqGoes(r, "idle")
  /\ UNCHANGED <<secrets, pending, expired, flowVars, adminAt, salesforceVars>>

RequestDies(r) ==
  /\ reqAt[r] # "idle"
  /\ ReqGoes(r, "idle")
  /\ UNCHANGED <<status, secrets, pending, expired, flowVars, adminAt, salesforceVars>>

-----------------------------------------------------------------------------
FlowStep(f) ==
  \/ FlowExpires(f)
  \/ CheckStatus(f) \/ FindLive(f) \/ FindPending(f) \/ Supersede(f) \/ InsertFlow(f)
  \/ FindFlow(f) \/ ExchangeCode(f) \/ CreateConnection(f) \/ StoreSecrets(f)
  \/ ConsumeFlow(f) \/ Audit(f) \/ Activate(f) \/ FlowDies(f) \/ Forget(f)

AdminStep(a) ==
  \/ BeginDisconnect(a) \/ ReadForRevoke(a) \/ Revoke(a) \/ DeleteSecrets(a)
  \/ MarkDisconnected(a) \/ DisconnectDies(a)

RequestStep(r) ==
  \/ BeginTest(r) \/ BeginRefresh(r) \/ ReadSecrets(r) \/ TestCall(r) \/ RefreshToken(r)
  \/ UpdateTokens(r) \/ RetryCall(r) \/ ReportHealth(r) \/ RequestDies(r)

Next ==
  \/ Cleanup
  \/ \E f \in Flow : FlowStep(f)
  \/ \E a \in Admin : AdminStep(a)
  \/ \E r \in Requester : RequestStep(r)

Spec == Init /\ [][Next]_vars

-----------------------------------------------------------------------------
(* Properties.                                                             *)

\* Two authorizations never both become the connection, however their callbacks and the
\* connects before them overlap, so that stored credentials are those of the row.
OneGrantStored ==
  \A f, g \in Flow :
    flowAt[f] \in {"secrets", "consume"} /\ flowAt[g] \in {"secrets", "consume"} => f = g

\* A pending flow that has not expired is consumed by its own callback and by nothing else:
\* neither the cleanup, nor a connect that found an older row, nor the late callback of an
\* older flow takes the ground from under a user who is logging in.
LiveFlowKept ==
  [][\A f \in Flow \ expired :
       pending = f /\ pending' # f => flowAt[f] = "consume" /\ flowAt'[f] = "audit"]_vars

\* The credentials behave like a TokenStore: stored once, each access token newer than the
\* one it replaces, and gone for good once they are deleted.
Tokens == INSTANCE TokenStore WITH phase <- secrets.phase, access <- secrets.access
TokensKept == Tokens!Spec

\* "Reconnect when ready" (docs, of the status disconnected), "Please reconnect" (the test,
\* of the status error): an authorization is turned down only for an active connection.
ReconnectWorks ==
  [][\A f \in Flow : flowAt[f] = "create" /\ flowAt'[f] = "threw" => status = "active"]_vars
=============================================================================
