------------------------ MODULE SalesforceClientProofs ------------------------
(***************************************************************************)
(* Proofs about SalesforceClient, for any number of callers, any threshold *)
(* and any number of retries.                                              *)
(***************************************************************************)
EXTENDS SalesforceClient, TLAPS

\* Where a caller stands with its present call: it has not been sent yet.
Unsent(c) ==
  \/ pc[c] \in {"token", "loading"}
  \/ pc[c] \in {"refreshing", "waiting"} /\ reason[c] = "proactive"

\* A retry is one call of fetch(), and a forced refresh is for a call without retry.
EffortOf(c) ==
  /\ fetches[c] <= retry[c] + 1
  /\ Unsent(c) => fetches[c] <= retry[c]
  /\ pc[c] = "idle" => fetches[c] = 0 /\ retry[c] = 0 /\ forced[c] = 0
  /\ forced[c] <= 1
  /\ retry[c] = 0 /\ (Unsent(c) \/ pc[c] = "fetch") => forced[c] = 0
  /\ pc[c] \in {"refreshing", "waiting"} /\ reason[c] = "forced" => retry[c] = 0

Effort == \A c \in Caller : EffortOf(c)

IInv == TypeOK /\ BreakerRemembers /\ RefreshIsShared /\ Effort

LEMMA Constants == /\ Threshold \in Nat /\ Threshold > 0
                   /\ MaxRetry \in Nat /\ MaxRetry > 0
                   /\ NoCaller \notin Caller
BY ClientAssumption

LEMMA InitInvariant == Init => IInv
<1> SUFFICES ASSUME Init PROVE IInv
  OBVIOUS
<1>1. TypeOK
  <2>1. 0 \in Nat /\ 0 \in 0..Threshold /\ 0 \in 0..MaxRetry
    BY Constants
  <2> QED
    BY <2>1, Zenon DEF Init, TypeOK
<1>2. BreakerRemembers /\ RefreshIsShared
  BY Constants DEF Init, BreakerRemembers, RefreshIsShared
<1>3. Effort
  BY DEF Init, Effort, EffortOf, Unsent
<1> QED
  BY <1>1, <1>2, <1>3 DEF IInv

LEMMA BoundFollows == IInv => EffortIsBounded
BY Constants DEF IInv, TypeOK, Effort, EffortOf, EffortIsBounded

-----------------------------------------------------------------------------
(* The breaker.                                                            *)

LEMMA FailureKeepsBreaker ==
  ASSUME TypeOK, BreakerRemembers, OnFailure
  PROVE  /\ breaker' \in {"closed", "open", "half-open"}
         /\ failures' \in 0..Threshold /\ cooled' \in BOOLEAN
         /\ BreakerRemembers'
<1>1. cooled' \in BOOLEAN
  BY DEF TypeOK, OnFailure
<1>2. CASE failures + 1 >= Threshold
  <2>1. failures' = Threshold /\ breaker' = "open"
    BY <1>2 DEF OnFailure
  <2> QED
    BY <1>1, <2>1, Constants DEF BreakerRemembers
<1>3. CASE ~(failures + 1 >= Threshold)
  <2>1. failures' = failures + 1 /\ breaker' = breaker
    BY <1>3 DEF OnFailure
  <2> QED
    BY <1>1, <1>3, <2>1, Constants DEF TypeOK, BreakerRemembers
<1> QED
  BY <1>2, <1>3

LEMMA SuccessKeepsBreaker ==
  ASSUME TypeOK, OnSuccess
  PROVE  /\ breaker' \in {"closed", "open", "half-open"}
         /\ failures' \in 0..Threshold /\ cooled' \in BOOLEAN
         /\ BreakerRemembers'
BY Constants DEF TypeOK, BreakerRemembers, OnSuccess

\* A request that ends leaves nothing behind.
LEMMA EndsKeepsCalls ==
  ASSUME IInv, NEW c \in Caller, pc[c] \in {"loading", "fetch"}, Ends(c), UNCHANGED authVars
  PROVE  /\ pc' \in [Caller -> {"idle", "token", "loading", "refreshing", "waiting", "fetch"}]
         /\ retry' \in [Caller -> 0..MaxRetry]
         /\ fetches' \in [Caller -> Nat] /\ forced' \in [Caller -> Nat]
         /\ RefreshIsShared' /\ Effort'
<1> USE Constants DEF IInv, TypeOK, Ends, Goto, authVars
<1>1. RefreshIsShared'
  BY DEF RefreshIsShared
<1>2. Effort'
  BY DEF Effort, EffortOf, Unsent
<1> QED
  BY <1>1, <1>2

-----------------------------------------------------------------------------
(* The steps.                                                              *)

LEMMA WantRefreshKeeps ==
  ASSUME IInv, NEW c \in Caller, pc[c] \in {"token", "fetch"},
         NEW why \in {"proactive", "forced"}, WantRefresh(c, why),
         UNCHANGED <<breakerVars, retry, fetches, loaded>>,
         forced' \in [Caller -> Nat],
         \A d \in Caller \ {c} : forced'[d] = forced[d],
         why = "proactive" => pc[c] = "token" /\ forced'[c] = forced[c],
         why = "forced" => retry[c] = 0 /\ pc[c] = "fetch" /\ forced'[c] = forced[c] + 1
  PROVE  IInv'
<1> USE Constants DEF IInv, TypeOK, WantRefresh, Goto, breakerVars
<1>1. TypeOK' /\ BreakerRemembers'
  <2>1. BreakerRemembers'
    BY DEF BreakerRemembers
  <2>2. /\ pc' \in [Caller -> {"idle", "token", "loading", "refreshing", "waiting", "fetch"}]
        /\ reason' \in [Caller -> {"proactive", "forced"}]
        /\ refresher' \in Caller \cup {NoCaller}
    OBVIOUS
  <2> QED
    BY <2>1, <2>2
<1>2. RefreshIsShared'
  BY DEF RefreshIsShared
<1>3. ASSUME NEW d \in Caller PROVE EffortOf(d)'
  <2>1. CASE d = c
    <3>1. reason'[c] = why /\ pc'[c] \in {"refreshing", "waiting"}
      OBVIOUS
    <3>2. EffortOf(c)
      BY DEF Effort
    <3>3. fetches' = fetches /\ retry' = retry
      OBVIOUS
    <3>4. CASE why = "proactive"
      BY <2>1, <3>1, <3>2, <3>3, <3>4 DEF EffortOf, Unsent
    <3>5. CASE why = "forced"
      BY <2>1, <3>1, <3>2, <3>3, <3>5 DEF EffortOf, Unsent
    <3> QED
      BY <3>4, <3>5
  <2>2. CASE d # c
    <3>1. pc'[d] = pc[d] /\ reason'[d] = reason[d] /\ forced'[d] = forced[d]
      BY <2>2
    <3> QED
      BY <3>1 DEF Effort, EffortOf, Unsent
  <2> QED
    BY <2>1, <2>2
<1> QED
  BY <1>1, <1>2, <1>3 DEF Effort

LEMMA BeginKeeps ==
  ASSUME IInv, NEW c \in Caller, Begin(c)
  PROVE  IInv'
<1> USE Constants DEF IInv, TypeOK, Begin, Admits, Goto, authVars
<1>1. TypeOK' /\ BreakerRemembers'
  BY DEF BreakerRemembers
<1>2. RefreshIsShared'
  BY DEF RefreshIsShared
<1>3. Effort'
  BY DEF Effort, EffortOf, Unsent
<1> QED
  BY <1>1, <1>2, <1>3

LEMMA LoadKeeps ==
  ASSUME IInv, NEW c \in Caller, LoadTokens(c)
  PROVE  IInv'
<1>1. CASE loaded' = TRUE /\ Goto(c, "token") /\ UNCHANGED <<breakerVars, retry, fetches, forced>>
  BY <1>1 DEF LoadTokens, Goto, IInv, TypeOK, BreakerRemembers, RefreshIsShared, Effort, EffortOf,
              Unsent, breakerVars
<1>2. CASE Fails(c) /\ UNCHANGED loaded
  BY <1>2, FailureKeepsBreaker, EndsKeepsCalls DEF LoadTokens, Fails, IInv, TypeOK, authVars
<1> QED
  BY <1>1, <1>2 DEF LoadTokens

LEMMA BeginLoadKeeps ==
  ASSUME IInv, NEW c \in Caller, BeginLoad(c)
  PROVE  IInv'
BY DEF BeginLoad, Goto, IInv, TypeOK, BreakerRemembers, RefreshIsShared, Effort, EffortOf, Unsent,
       breakerVars, authVars

LEMMA UseKeeps ==
  ASSUME IInv, NEW c \in Caller, UseTokens(c)
  PROVE  IInv'
<1>1. CASE Goto(c, "fetch") /\ Fetch({c}) /\ UNCHANGED <<reason, refresher>>
  <2> USE <1>1, Constants DEF UseTokens, Goto, Fetch, IInv, TypeOK, breakerVars
  <2>1. TypeOK' /\ BreakerRemembers'
    <3>1. BreakerRemembers'
      BY DEF BreakerRemembers
    <3>2. pc' \in [Caller -> {"idle", "token", "loading", "refreshing", "waiting", "fetch"}]
      OBVIOUS
    <3>3. fetches' \in [Caller -> Nat]
      OBVIOUS
    <3> QED
      BY <3>1, <3>2, <3>3
  <2>2. RefreshIsShared'
    BY DEF RefreshIsShared
  <2>3. ASSUME NEW d \in Caller PROVE EffortOf(d)'
    <3>1. CASE d = c
      <4>1. pc'[c] = "fetch" /\ fetches'[c] = fetches[c] + 1
        OBVIOUS
      <4>2. EffortOf(c) /\ Unsent(c)
        BY DEF Effort, Unsent
      <4>3. retry' = retry /\ forced' = forced /\ fetches[c] \in Nat /\ retry[c] \in Nat
        OBVIOUS
      <4> QED
        BY <3>1, <4>1, <4>2, <4>3 DEF EffortOf, Unsent
    <3>2. CASE d # c
      <4>1. pc'[d] = pc[d] /\ fetches'[d] = fetches[d]
        BY <3>2
      <4> QED
        BY <4>1 DEF Effort, EffortOf, Unsent
    <3> QED
      BY <3>1, <3>2
  <2> QED
    BY <2>1, <2>2, <2>3 DEF Effort
<1>2. CASE WantRefresh(c, "proactive") /\ Fetch({})
  <2>1. fetches' = fetches
    BY <1>2 DEF Fetch, IInv, TypeOK
  <2> QED
    BY <1>2, <2>1, WantRefreshKeeps DEF UseTokens, IInv, TypeOK
<1> QED
  BY <1>1, <1>2 DEF UseTokens

LEMMA RefreshEndsKeeps ==
  ASSUME IInv, NEW c \in Caller, RefreshEnds(c)
  PROVE  IInv'
<1> DEFINE P == Awaiting("proactive")
           F == Awaiting("forced")
<1> USE Constants DEF IInv, TypeOK, RefreshEnds, Settle, Fetch, breakerVars
<1>1. /\ \A d \in Caller : d \in P <=> pc[d] \in {"refreshing", "waiting"} /\ reason[d] = "proactive"
      /\ \A d \in Caller : d \in F <=> pc[d] \in {"refreshing", "waiting"} /\ reason[d] = "forced"
  BY DEF Awaiting
<1>2. /\ pc' = [d \in Caller |-> IF d \in P THEN "fetch" ELSE IF d \in F THEN "token" ELSE pc[d]]
      /\ fetches' = [d \in Caller |-> IF d \in P THEN fetches[d] + 1 ELSE fetches[d]]
      /\ retry' = [d \in Caller |-> IF d \in F THEN retry[d] + 1 ELSE retry[d]]
  OBVIOUS
<1> HIDE DEF P, F
<1>3. TypeOK'
  BY <1>1, <1>2 DEF Effort, EffortOf
<1>4. BreakerRemembers'
  BY DEF BreakerRemembers
<1>5. RefreshIsShared'
  BY <1>1, <1>2 DEF RefreshIsShared
<1>6. Effort'
  <2> SUFFICES ASSUME NEW d \in Caller PROVE EffortOf(d)'
    BY DEF Effort
  <2>1. CASE d \in P
    BY <1>1, <1>2, <2>1 DEF Effort, EffortOf, Unsent
  <2>2. CASE d \in F
    BY <1>1, <1>2, <2>2 DEF Effort, EffortOf, Unsent
  <2>3. CASE d \notin P \cup F
    BY <1>1, <1>2, <2>3 DEF Effort, EffortOf, Unsent
  <2> QED
    BY <2>1, <2>2, <2>3
<1> QED
  BY <1>3, <1>4, <1>5, <1>6

LEMMA AnswerKeeps ==
  ASSUME IInv, NEW c \in Caller, Answer(c)
  PROVE  IInv'
<1>1. CASE AnswerOk(c)
  BY <1>1, SuccessKeepsBreaker, EndsKeepsCalls DEF AnswerOk, IInv, TypeOK, authVars
<1>2. CASE Unauthorized(c)
  BY <1>2, WantRefreshKeeps DEF Unauthorized, IInv, TypeOK
<1>3. CASE TryLater(c)
  <2> USE <1>3, Constants DEF TryLater, Again, Goto, IInv, TypeOK, breakerVars, authVars
  <2>1. TypeOK' /\ BreakerRemembers'
    BY DEF BreakerRemembers
  <2>2. RefreshIsShared'
    BY DEF RefreshIsShared
  <2>3. Effort'
    BY DEF Effort, EffortOf, Unsent
  <2> QED
    BY <2>1, <2>2, <2>3
<1>4. CASE GiveUp(c)
  BY <1>4, FailureKeepsBreaker, EndsKeepsCalls DEF GiveUp, Fails, IInv, TypeOK, authVars
<1>5. CASE Rejected(c)
  <2>1. BreakerRemembers'
    BY <1>5 DEF Rejected, IInv, BreakerRemembers, breakerVars
  <2> QED
    BY <1>5, <2>1, EndsKeepsCalls DEF Rejected, IInv, TypeOK, authVars, breakerVars
<1> QED
  BY <1>1, <1>2, <1>3, <1>4, <1>5 DEF Answer

LEMMA StepKeeps == IInv /\ [Next]_vars => IInv'
<1> SUFFICES ASSUME IInv, [Next]_vars PROVE IInv'
  OBVIOUS
<1>1. CASE ResetTimeoutPasses
  BY <1>1 DEF ResetTimeoutPasses, IInv, TypeOK, BreakerRemembers, RefreshIsShared, Effort, EffortOf,
              Unsent, authVars, callVars
<1>2. CASE UNCHANGED vars
  BY <1>2 DEF vars, breakerVars, authVars, callVars, IInv, TypeOK, BreakerRemembers,
              RefreshIsShared, Effort, EffortOf, Unsent
<1> QED
  BY <1>1, <1>2, BeginKeeps, BeginLoadKeeps, LoadKeeps, UseKeeps, RefreshEndsKeeps, AnswerKeeps
     DEF Next, RequestStep

-----------------------------------------------------------------------------
LEMMA Invariant == Spec => []IInv
BY InitInvariant, StepKeeps, PTL DEF Spec

\* The state of the breaker, the refresh and the callers keeps its type.
THEOREM ClientTypeCorrect == Spec => []TypeOK
<1>1. IInv => TypeOK
  BY DEF IInv
<1> QED
  BY <1>1, Invariant, PTL

\* The breaker stays one failure away from being open until a request succeeds.
THEOREM ClientBreakerRemembers == Spec => []BreakerRemembers
<1>1. IInv => BreakerRemembers
  BY DEF IInv
<1> QED
  BY <1>1, Invariant, PTL

\* The calls and the forced refreshes of a request are bounded.
THEOREM ClientEffortIsBounded == Spec => []EffortIsBounded
BY BoundFollows, Invariant, PTL

\* There is one refresh at a time, and whoever waits for one will be told.
THEOREM ClientRefreshIsShared == Spec => []RefreshIsShared
<1>1. IInv => RefreshIsShared
  BY DEF IInv
<1> QED
  BY <1>1, Invariant, PTL
===============================================================================
