--------------------------- MODULE SalesforceClient ---------------------------
(***************************************************************************)
(* The requests that concurrent collectors send to one of Salesforce's     *)
(* APIs: request() of the worker's client with its retries, the circuit    *)
(* breaker around it, and the token refresh that all of them share.        *)
(*                                                                         *)
(* Delays (throttle, back-off) are time only.  The worker sets no budget   *)
(* of calls.  The breakers of the four APIs are independent; requests of   *)
(* another API matter here only because they share the refresh, so that    *)
(* the callers stand for those of one API.  The tries of a delegated       *)
(* refresh are one step, and resetCircuitBreakers() is for scripts.        *)
(***************************************************************************)
EXTENDS Naturals, FiniteSets

CONSTANTS
  Caller,      \* collectors that have a request under way
  NoCaller,
  Threshold,   \* failures that open the breaker
  MaxRetry     \* retries of one request

ASSUME ClientAssumption ==
  /\ IsFiniteSet(Caller)
  /\ NoCaller \notin Caller
  /\ Threshold \in Nat \ {0}
  /\ MaxRetry \in Nat \ {0}

VARIABLES
  breaker,     \* its state
  failures,    \* counted up to Threshold: nothing tells higher counts apart
  cooled,      \* more than resetTimeout has passed since openedAt
  pc,          \* per caller: its next await
  retry,       \* argument retryCount of the innermost doRequestWithRetry()
  reason,      \* why the caller wants a refresh
  loaded,      \* tokens is not null
  refresher,   \* who started the refresh that refreshPromise stands for
  fetches,     \* history: calls of fetch() in the present request
  forced       \* history: 401 answers in the present request that led to a refresh

breakerVars == <<breaker, failures, cooled>>
authVars    == <<reason, loaded, refresher>>
callVars    == <<pc, retry, fetches, forced>>
vars == <<breakerVars, authVars, callVars>>

TypeOK ==
  /\ breaker \in {"closed", "open", "half-open"}
  /\ failures \in 0..Threshold
  /\ cooled \in BOOLEAN
  /\ pc \in [Caller -> {"idle", "token", "loading", "refreshing", "waiting", "fetch"}]
  /\ retry \in [Caller -> 0..MaxRetry]
  /\ reason \in [Caller -> {"proactive", "forced"}]
  /\ loaded \in BOOLEAN
  /\ refresher \in Caller \cup {NoCaller}
  /\ fetches \in [Caller -> Nat]
  /\ forced \in [Caller -> Nat]

Init ==
  /\ breaker = "closed" /\ failures = 0 /\ cooled = FALSE
  /\ pc = [c \in Caller |-> "idle"]
  /\ retry = [c \in Caller |-> 0]
  /\ reason = [c \in Caller |-> "proactive"]
  /\ loaded = FALSE
  /\ refresher = NoCaller
  /\ fetches = [c \in Caller |-> 0]
  /\ forced = [c \in Caller |-> 0]

-----------------------------------------------------------------------------
(* The circuit breaker.                                                    *)

OnSuccess ==
  /\ failures' = 0 /\ breaker' = "closed"
  /\ UNCHANGED cooled

\* Mutant: a fresh start for every new phase of the breaker.
OnFailureAfresh ==
  LET count == IF breaker = "half-open" THEN 1 ELSE failures + 1 IN
  IF count >= Threshold
    THEN failures' = Threshold /\ breaker' = "open" /\ cooled' = FALSE
    ELSE failures' = count /\ UNCHANGED <<breaker, cooled>>

\* A late failure, of a request that began before the breaker opened, sets openedAt
\* again.
OnFailure ==
  IF failures + 1 >= Threshold
    THEN failures' = Threshold /\ breaker' = "open" /\ cooled' = FALSE
    ELSE failures' = failures + 1 /\ UNCHANGED <<breaker, cooled>>

\* execute() lets a request through, and the first of them after the pause makes
\* the breaker half-open.  The others end with a CircuitOpenError at once.
Admits == breaker = "open" => cooled

ResetTimeoutPasses ==
  /\ breaker = "open" /\ ~cooled
  /\ cooled' = TRUE
  /\ UNCHANGED <<breaker, failures, authVars, callVars>>

-----------------------------------------------------------------------------
(* One request.                                                            *)

Goto(c, place) == pc' = [pc EXCEPT ![c] = place]

Begin(c) ==
  /\ pc[c] = "idle"
  /\ Admits
  /\ breaker' = IF breaker = "open" THEN "half-open" ELSE breaker
  /\ Goto(c, "token")
  /\ UNCHANGED <<failures, cooled, retry, fetches, forced, authVars>>

\* The request is answered, with an error or not.
Ends(c) ==
  /\ Goto(c, "idle")
  /\ retry' = [retry EXCEPT ![c] = 0]
  /\ fetches' = [fetches EXCEPT ![c] = 0]
  /\ forced' = [forced EXCEPT ![c] = 0]

Fails(c) ==
  /\ Ends(c)
  /\ OnFailure

\* Every retry is a call of doRequestWithRetry() with a greater argument.
Again(c) ==
  /\ Goto(c, "token")
  /\ retry' = [retry EXCEPT ![c] = @ + 1]

\* Whoever finds no tokens reads them from the database, several callers at once.
BeginLoad(c) ==
  /\ pc[c] = "token" /\ ~loaded
  /\ Goto(c, "loading")
  /\ UNCHANGED <<breakerVars, authVars, retry, fetches, forced>>

\* An error ends the request, also when another caller has loaded the tokens meanwhile.
LoadTokens(c) ==
  /\ pc[c] = "loading"
  /\ \/ /\ loaded' = TRUE /\ Goto(c, "token")
        /\ UNCHANGED <<breakerVars, retry, fetches, forced>>
     \/ /\ Fails(c)
        /\ UNCHANGED loaded
  /\ UNCHANGED <<reason, refresher>>

\* Mutant: the promise is only looked at, not shared, by forceRefresh().
WantRefreshAlone(c, why) ==
  /\ reason' = [reason EXCEPT ![c] = why]
  /\ IF refresher = NoCaller \/ why = "forced"
       THEN refresher' = c /\ Goto(c, "refreshing")
       ELSE Goto(c, "waiting") /\ UNCHANGED refresher

\* refresh(): one at a time, the others wait for its result.
WantRefresh(c, why) ==
  /\ reason' = [reason EXCEPT ![c] = why]
  /\ IF refresher = NoCaller
       THEN refresher' = c /\ Goto(c, "refreshing")
       ELSE Goto(c, "waiting") /\ UNCHANGED refresher

Fetch(C) == fetches' = [c \in Caller |-> IF c \in C THEN fetches[c] + 1 ELSE fetches[c]]

\* The age of the tokens decides.
UseTokens(c) ==
  /\ pc[c] = "token" /\ loaded
  /\ \/ Goto(c, "fetch") /\ Fetch({c}) /\ UNCHANGED <<reason, refresher>>
     \/ WantRefresh(c, "proactive") /\ Fetch({})
  /\ UNCHANGED <<breakerVars, retry, forced, loaded>>

Awaiting(why) == {c \in Caller : pc[c] \in {"refreshing", "waiting"} /\ reason[c] = why}

\* refreshPromise settles for everybody who waits for it.  Whether it succeeds makes no
\* difference here: a proactive refresh that failed is ignored, and a forced one
\* that failed is retried like an error of the network.
Settle(P, F) ==
  /\ pc' = [c \in Caller |-> IF c \in P THEN "fetch" ELSE IF c \in F THEN "token" ELSE pc[c]]
  /\ Fetch(P)
  /\ retry' = [c \in Caller |-> IF c \in F THEN retry[c] + 1 ELSE retry[c]]

\* Mutant: a caller whose proactive refresh failed looks at the age of its tokens again.
RefreshUntilFresh(c) ==
  /\ pc[c] = "refreshing"
  /\ refresher' = NoCaller
  /\ pc' = [d \in Caller |-> IF pc[d] \in {"refreshing", "waiting"} THEN "token" ELSE pc[d]]
  /\ retry' = [d \in Caller |-> IF d \in Awaiting("forced") THEN retry[d] + 1 ELSE retry[d]]
  /\ UNCHANGED <<breakerVars, fetches, forced, reason, loaded>>

RefreshEnds(c) ==
  /\ pc[c] = "refreshing"
  /\ refresher' = NoCaller
  /\ Settle(Awaiting("proactive"), Awaiting("forced"))
  /\ UNCHANGED <<breakerVars, forced, reason, loaded>>

-----------------------------------------------------------------------------
(* The answer to fetch().                                                  *)

AnswerOk(c) ==
  /\ pc[c] = "fetch"
  /\ Ends(c)
  /\ OnSuccess
  /\ UNCHANGED authVars

\* A 401 refreshes the tokens, once per request.
Unauthorized(c) ==
  /\ pc[c] = "fetch" /\ retry[c] = 0
  /\ forced' = [forced EXCEPT ![c] = @ + 1]
  /\ WantRefresh(c, "forced")
  /\ UNCHANGED <<breakerVars, retry, fetches, loaded>>

\* Mutant: one retry too many.
TryOnceMore(c) ==
  /\ pc[c] = "fetch" /\ retry[c] <= MaxRetry
  /\ Again(c)
  /\ UNCHANGED <<breakerVars, fetches, forced, authVars>>

\* 429, 503, a page of HTML, a locked row, an exhausted daily limit (an Error that the
\* catch block takes for one of the network), an error of the network.
TryLater(c) ==
  /\ pc[c] = "fetch" /\ retry[c] < MaxRetry
  /\ Again(c)
  /\ UNCHANGED <<breakerVars, fetches, forced, authVars>>

\* Mutant: with "return await" the outer calls catch the error and retry, too.
GiveUpNested(c) ==
  /\ pc[c] = "fetch"
  /\ \/ Fails(c)
     \/ /\ retry[c] > 0
        /\ Goto(c, "token")
        /\ UNCHANGED <<breakerVars, retry, fetches, forced>>
  /\ UNCHANGED authVars

\* The last retry failed, the request was aborted, or the error is one of the server
\* that is not retried.
GiveUp(c) ==
  /\ pc[c] = "fetch"
  /\ Fails(c)
  /\ UNCHANGED authVars

\* A client error is none of the breaker's business.
Rejected(c) ==
  /\ pc[c] = "fetch"
  /\ Ends(c)
  /\ UNCHANGED <<breakerVars, authVars>>

Answer(c) == AnswerOk(c) \/ Unauthorized(c) \/ TryLater(c) \/ GiveUp(c) \/ Rejected(c)

RequestStep(c) == BeginLoad(c) \/ LoadTokens(c) \/ UseTokens(c) \/ RefreshEnds(c) \/ Answer(c)

Next ==
  \/ ResetTimeoutPasses
  \/ \E c \in Caller : Begin(c) \/ RequestStep(c)

Spec == Init /\ [][Next]_vars

\* Every await ends: the request of a collector carries its abort signal, which a timeout
\* aborts; the preflight request, which carries none, ends with the timeouts of fetch() or
\* with the task; and every try of a delegated refresh has a timeout of its own.
Fairness == \A c \in Caller : WF_vars(RequestStep(c))

FairSpec == Spec /\ Fairness

-----------------------------------------------------------------------------
(* Properties.                                                             *)

\* The breaker never forgets why it opened: until a request succeeds it stays one
\* failure away from being open, whatever late answers and client errors arrive.  So a
\* half-open breaker opens again at the first failure, although onFailure() does
\* not look at the state.
BreakerRemembers == breaker = "closed" <=> failures < Threshold

\* A request costs at most MaxRetry + 1 calls and one forced refresh, also when kinds
\* of errors alternate: the retries nest, and no outer call retries what an inner
\* one has given up.
EffortIsBounded == \A c \in Caller : fetches[c] <= MaxRetry + 1 /\ forced[c] <= 1

\* There is one refresh at a time, and nobody waits for one that nobody performs.
RefreshIsShared ==
  /\ \A c \in Caller : pc[c] = "refreshing" <=> refresher = c
  /\ \A c \in Caller : pc[c] = "waiting" => refresher \in Caller \ {c}

\* Every request comes to an end, although callers wait for each other's refresh.
RequestsEnd == \A c \in Caller : pc[c] # "idle" ~> pc[c] = "idle"
=============================================================================
