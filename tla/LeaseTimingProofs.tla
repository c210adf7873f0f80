-------------------------- MODULE LeaseTimingProofs --------------------------
(***************************************************************************)
(* Proofs about LeaseTiming for all durations that satisfy its assumption. *)
(* The argument: the age of the lease is bounded by the time since the     *)
(* last timer callback, unless a renewal is under way, and then by the     *)
(* time that renewal has taken, which its three tries bound.               *)
(***************************************************************************)
EXTENDS LeaseTiming, TLAPS

Busy(s) == pc[s] # "idle"

\* Renewals that have not written the lease in their current try.
Unrenewed(s) == Busy(s) /\ ~(pc[s] = "sent" /\ stmt[s] = "matched")

\* Upper bound on the time since the callback of the renewal in slot s.
TriesBefore(n) == IF n = 0 THEN 0 ELSE IF n = 1 THEN QueryMax + BackOff
                                            ELSE 2 * QueryMax + 3 * BackOff
Elapsed(s) == TriesBefore(try[s]) + clock[s] + (IF pc[s] = "waiting" THEN QueryMax ELSE 0)

TriesAreBounded ==
  \A s \in Slot : /\ pc[s] = "sent" => clock[s] <= QueryMax
                  /\ pc[s] = "waiting" => \/ try[s] = 0 /\ clock[s] <= BackOff
                                          \/ try[s] = 1 /\ clock[s] <= 2 * BackOff

NotAliveNotBusy == worker \notin {"alive", "closing"} => \A s \in Slot : ~Busy(s)

SweptInTime == row = "running" => since <= Lease + Buffer + (Period - next)

LeaseIsYoung ==
  /\ worker = "starting" => since <= SetupMax
  /\ worker = "alive" =>
       \/ since <= SetupMax + Interval - beat
       \/ \E s \in Slot : Unrenewed(s) /\ since <= SetupMax + Interval + Lag + Elapsed(s)

\* Callbacks are Interval apart.
CallbacksAreSpaced ==
  worker = "alive" =>
    /\ \A s \in Slot : Busy(s) => Elapsed(s) >= Interval - beat
    /\ (\A s \in Slot : Busy(s)) => \E s \in Slot : Elapsed(s) >= 2 * Interval - beat

IInv == /\ TypeOK /\ TriesAreBounded /\ NotAliveNotBusy
        /\ SweptInTime /\ LeaseIsYoung /\ CallbacksAreSpaced

-----------------------------------------------------------------------------
LEMMA Durations ==
  /\ Lease \in Nat /\ Interval \in Nat /\ BackOff \in Nat /\ Buffer \in Nat
  /\ Period \in Nat /\ QueryMax \in Nat /\ Lag \in Nat /\ SetupMax \in Nat
  /\ Interval > 0 /\ Period > 0
  /\ 3 * QueryMax + 3 * BackOff < 2 * Interval
BY TimingAssumption DEF RoundMax

LEMMA BackOffs == BackOff * (0 + 1) = BackOff /\ BackOff * (1 + 1) = 2 * BackOff
BY Durations

LEMMA InitInvariant == Init => IInv
BY Durations
DEF Init, IInv, TypeOK, TriesAreBounded, NotAliveNotBusy, SweptInTime, LeaseIsYoung,
    CallbacksAreSpaced, Busy, Slot

\* The age a renewal can have, from the bounds on its tries.
LEMMA RenewalTakesRoundMax ==
  ASSUME TypeOK, TriesAreBounded, NEW s \in Slot, Busy(s)
  PROVE  Elapsed(s) \in Nat /\ Elapsed(s) <= RoundMax
<1>1. try[s] \in 0..2 /\ clock[s] \in Nat /\ pc[s] \in {"idle", "sent", "waiting"}
  BY DEF TypeOK
<1>2. CASE pc[s] = "sent"
  BY <1>1, <1>2, Durations DEF TriesAreBounded, Elapsed, TriesBefore, RoundMax
<1>3. CASE pc[s] = "waiting"
  BY <1>1, <1>3, Durations DEF TriesAreBounded, Elapsed, TriesBefore, RoundMax
<1>4. QED
  BY <1>1, <1>2, <1>3 DEF Busy

\* The process ends: only the sweeper's clock goes on.
LEMMA EndStep ==
  ASSUME IInv, NEW how \in {"crashed", "exited"}, Ends(how)
  PROVE  IInv'
BY DEF IInv, Ends, TypeOK, TriesAreBounded, NotAliveNotBusy, SweptInTime, LeaseIsYoung,
       CallbacksAreSpaced, Busy, Slot

LEMMA StartStep ==
  ASSUME IInv, StartHeartbeat
  PROVE  IInv'
<1>1. \A s \in Slot : ~Busy(s)
  BY DEF IInv, NotAliveNotBusy, StartHeartbeat
<1>2. TypeOK'
  BY Durations DEF IInv, TypeOK, StartHeartbeat
<1>3. LeaseIsYoung'
  BY Durations DEF IInv, TypeOK, LeaseIsYoung, StartHeartbeat
<1>4. CallbacksAreSpaced'
  BY <1>1 DEF CallbacksAreSpaced, StartHeartbeat, Busy, Slot
<1>5. QED
  BY <1>1, <1>2, <1>3, <1>4
  DEF IInv, StartHeartbeat, TriesAreBounded, NotAliveNotBusy, SweptInTime, Busy

\* A callback starts a renewal of age 0.
LEMMA HeartbeatStep ==
  ASSUME IInv, NEW s \in Slot, Heartbeat(s)
  PROVE  IInv'
<1>1. /\ pc'[s] = "sent" /\ try'[s] = 0 /\ clock'[s] = 0 /\ stmt'[s] = "pending"
      /\ \A u \in Slot \ {s} : /\ pc'[u] = pc[u] /\ try'[u] = try[u]
                               /\ clock'[u] = clock[u] /\ stmt'[u] = stmt[u]
      /\ beat' = Interval /\ beat <= 0 /\ beat \in (-Lag)..Interval
      /\ worker = "alive" /\ UNCHANGED <<row, since, next, worker>>
  BY DEF Heartbeat, Send, IInv, TypeOK
<1>2. TypeOK'
  BY <1>1, Durations DEF Heartbeat, Send, IInv, TypeOK
<1>3. TriesAreBounded' /\ NotAliveNotBusy' /\ SweptInTime'
  BY <1>1, Durations DEF IInv, TriesAreBounded, NotAliveNotBusy, SweptInTime
<1>4. Elapsed(s)' = 0 /\ \A u \in Slot \ {s} : Elapsed(u)' = Elapsed(u)
  BY <1>1 DEF Elapsed, TriesBefore
<1>5. LeaseIsYoung'
  <2>1. Unrenewed(s)' /\ \A u \in Slot \ {s} : Unrenewed(u)' <=> Unrenewed(u)
    BY <1>1 DEF Unrenewed, Busy
  <2>2. CASE since <= SetupMax + Interval - beat
    BY <1>1, <1>4, <2>1, <2>2, Durations DEF LeaseIsYoung, IInv, TypeOK
  <2>3. CASE \E u \in Slot : Unrenewed(u) /\ since <= SetupMax + Interval + Lag + Elapsed(u)
    BY <1>1, <1>4, <2>1, <2>3 DEF LeaseIsYoung, Heartbeat, Unrenewed, Busy
  <2>4. QED
    BY <1>1, <2>2, <2>3 DEF IInv, LeaseIsYoung
<1>6. CallbacksAreSpaced'
  <2>1. \A u \in Slot \ {s} : Busy(u) => Elapsed(u) \in Nat /\ Elapsed(u) >= Interval
    BY <1>1, Durations, RenewalTakesRoundMax DEF IInv, CallbacksAreSpaced
  <2>2. \E u \in Slot : u # s
    BY DEF Slot
  <2>3. QED
    BY <1>1, <1>4, <2>1, <2>2, Durations DEF CallbacksAreSpaced, Busy
<1>7. QED
  BY <1>2, <1>3, <1>5, <1>6 DEF IInv

\* A statement of a renewal is executed; if it matches, the lease is new.
LEMMA ExecuteStep ==
  ASSUME IInv, NEW s \in Slot, Execute(s)
  PROVE  IInv'
<1>1. /\ stmt' \in [Slot -> {"pending", "matched", "unmatched"}]
      /\ \A u \in Slot \ {s} : stmt'[u] = stmt[u]
      /\ UNCHANGED <<row, next, worker, beat, pc, try, clock>>
      /\ \/ since' = 0
         \/ since' = since /\ stmt'[s] = "unmatched"
  BY DEF Execute, IInv, TypeOK
<1>2. TypeOK'
  BY <1>1 DEF IInv, TypeOK
<1>3. TriesAreBounded' /\ NotAliveNotBusy' /\ CallbacksAreSpaced'
  BY <1>1 DEF IInv, TriesAreBounded, NotAliveNotBusy, CallbacksAreSpaced, Busy, Elapsed
<1>4. SweptInTime'
  BY <1>1, <1>2, Durations DEF IInv, SweptInTime, TypeOK
<1>5. LeaseIsYoung'
  <2>1. CASE since' = 0
    BY <1>1, <2>1, Durations DEF IInv, TypeOK, LeaseIsYoung
  <2>2. CASE since' = since /\ stmt'[s] = "unmatched"
    <3>1. \A u \in Slot : /\ Unrenewed(u) => Unrenewed(u)'
                          /\ Elapsed(u)' = Elapsed(u)
      BY <1>1, <2>2 DEF Unrenewed, Busy, Elapsed
    <3>2. QED
      BY <1>1, <2>2, <3>1 DEF IInv, LeaseIsYoung
  <2>3. QED
    BY <1>1, <2>1, <2>2
<1>6. QED
  BY <1>2, <1>3, <1>4, <1>5 DEF IInv

\* A renewal whose statement matched ends.
LEMMA RenewedStep ==
  ASSUME IInv, NEW s \in Slot, Renewed(s)
  PROVE  IInv'
<1>1. /\ pc'[s] = "idle" /\ pc' \in [Slot -> {"idle", "sent", "waiting"}]
      /\ \A u \in Slot \ {s} : pc'[u] = pc[u]
      /\ UNCHANGED <<row, since, next, worker, beat, try, clock, stmt>>
  BY DEF Renewed, IInv, TypeOK
<1>2. TypeOK' /\ TriesAreBounded' /\ NotAliveNotBusy' /\ SweptInTime'
  BY <1>1 DEF IInv, TypeOK, TriesAreBounded, NotAliveNotBusy, SweptInTime, Busy
<1>3. ~Unrenewed(s)
  BY DEF Renewed, Unrenewed
<1>4. ASSUME NEW u \in Slot \ {s}
      PROVE  /\ Elapsed(u)' = Elapsed(u)
             /\ Busy(u)' <=> Busy(u)
             /\ Unrenewed(u)' <=> Unrenewed(u)
  <2>1. pc'[u] = pc[u] /\ try' = try /\ clock' = clock /\ stmt' = stmt
    BY <1>1
  <2>2. Elapsed(u)' = Elapsed(u)
    BY <2>1 DEF Elapsed, TriesBefore
  <2>3. (Busy(u)' <=> Busy(u)) /\ (Unrenewed(u)' <=> Unrenewed(u))
    BY <2>1 DEF Busy, Unrenewed
  <2>4. QED
    BY <2>2, <2>3
<1>5. LeaseIsYoung'
  <2>1. CASE since <= SetupMax + Interval - beat
    BY <1>1, <2>1 DEF IInv, LeaseIsYoung
  <2>2. ASSUME NEW u \in Slot, Unrenewed(u), since <= SetupMax + Interval + Lag + Elapsed(u)
        PROVE  LeaseIsYoung'
    <3>1. u \in Slot \ {s}
      BY <1>3, <2>2
    <3>2. Unrenewed(u)' /\ Elapsed(u)' = Elapsed(u)
      BY <1>4, <2>2, <3>1
    <3>3. QED
      BY <1>1, <2>2, <3>2 DEF IInv, LeaseIsYoung
  <2>3. QED
    BY <1>1, <2>1, <2>2 DEF IInv, LeaseIsYoung
<1>6. CallbacksAreSpaced'
  <2>1. \A u \in Slot : Busy(u)' => u \in Slot \ {s}
    BY <1>1 DEF Busy
  <2>2. QED
    BY <1>1, <1>4, <2>1 DEF IInv, CallbacksAreSpaced
<1>7. QED
  BY <1>2, <1>5, <1>6 DEF IInv

\* A failed try is counted with its full time.
LEMMA TryFailsStep ==
  ASSUME IInv, NEW s \in Slot, TryFails(s)
  PROVE  IInv'
<1>1. /\ pc[s] = "sent" /\ pc'[s] = "waiting" /\ clock'[s] = 0 /\ try[s] \in {0, 1}
      /\ pc' \in [Slot -> {"idle", "sent", "waiting"}] /\ clock' \in [Slot -> Nat]
      /\ \A u \in Slot \ {s} : pc'[u] = pc[u] /\ clock'[u] = clock[u]
      /\ UNCHANGED <<row, since, next, worker, beat, try, stmt>>
  BY DEF TryFails, IInv, TypeOK
<1>2. TypeOK'
  BY <1>1 DEF IInv, TypeOK
<1>3. TriesAreBounded' /\ NotAliveNotBusy' /\ SweptInTime'
  BY <1>1, Durations DEF IInv, TriesAreBounded, NotAliveNotBusy, SweptInTime, Busy
<1>4. \A u \in Slot : /\ Busy(u)' <=> Busy(u)
                      /\ Unrenewed(u) => Unrenewed(u)'
                      /\ Elapsed(u) \in Int /\ Elapsed(u)' \in Int /\ Elapsed(u)' >= Elapsed(u)
  <2>1. clock[s] \in Nat /\ clock[s] <= QueryMax
    BY <1>1 DEF IInv, TypeOK, TriesAreBounded
  <2>2. \A u \in Slot : TriesBefore(try[u]) \in Nat
    BY Durations DEF TriesBefore, IInv, TypeOK
  <2>3. \A u \in Slot \ {s} : Elapsed(u)' = Elapsed(u) /\ Elapsed(u) \in Int
    BY <1>1, <2>2, Durations DEF Elapsed, IInv, TypeOK
  <2>4. /\ Elapsed(s) = TriesBefore(try[s]) + clock[s]
        /\ Elapsed(s)' = TriesBefore(try[s]) + QueryMax
    BY <1>1, <2>1, <2>2, Durations DEF Elapsed
  <2>5. \A u \in Slot : (Busy(u)' <=> Busy(u)) /\ (Unrenewed(u) => Unrenewed(u)')
    BY <1>1 DEF Busy, Unrenewed
  <2>6. QED
    BY <2>1, <2>2, <2>3, <2>4, <2>5, Durations
<1>5. LeaseIsYoung'
  BY <1>1, <1>4, Durations DEF IInv, TypeOK, LeaseIsYoung
<1>6. CallbacksAreSpaced'
  BY <1>1, <1>4, Durations DEF IInv, TypeOK, CallbacksAreSpaced
<1>7. QED
  BY <1>2, <1>3, <1>5, <1>6 DEF IInv

\* The next try begins when the pause is over.
LEMMA TryAgainStep ==
  ASSUME IInv, NEW s \in Slot, TryAgain(s)
  PROVE  IInv'
<1>1. /\ pc[s] = "waiting" /\ clock[s] = BackOff * (try[s] + 1)
      /\ pc'[s] = "sent" /\ try'[s] = try[s] + 1 /\ clock'[s] = 0 /\ stmt'[s] = "pending"
      /\ \A u \in Slot \ {s} : /\ pc'[u] = pc[u] /\ try'[u] = try[u]
                               /\ clock'[u] = clock[u] /\ stmt'[u] = stmt[u]
      /\ UNCHANGED <<row, since, next, worker, beat>>
  BY DEF TryAgain, Send, IInv, TypeOK
<1>2. try[s] \in {0, 1}
  BY <1>1 DEF IInv, TriesAreBounded
<1>3. TypeOK'
  BY <1>1, <1>2 DEF TryAgain, Send, IInv, TypeOK
<1>4. TriesAreBounded' /\ NotAliveNotBusy' /\ SweptInTime'
  BY <1>1, Durations DEF IInv, TriesAreBounded, NotAliveNotBusy, SweptInTime, Busy
<1>5. \A u \in Slot : /\ Busy(u)' <=> Busy(u)
                      /\ Unrenewed(u) => Unrenewed(u)'
                      /\ Elapsed(u)' = Elapsed(u)
  <2>1. \A u \in Slot \ {s} : Elapsed(u)' = Elapsed(u)
    BY <1>1 DEF Elapsed, TriesBefore
  <2>2. Elapsed(s)' = Elapsed(s)
    <3>1. CASE try[s] = 0
      BY <1>1, <3>1, BackOffs, Durations DEF Elapsed, TriesBefore
    <3>2. CASE try[s] = 1
      BY <1>1, <3>2, BackOffs, Durations DEF Elapsed, TriesBefore
    <3>3. QED
      BY <1>2, <3>1, <3>2
  <2>3. \A u \in Slot : (Busy(u)' <=> Busy(u)) /\ (Unrenewed(u) => Unrenewed(u)')
    BY <1>1 DEF Busy, Unrenewed
  <2>4. QED
    BY <2>1, <2>2, <2>3
<1>6. LeaseIsYoung' /\ CallbacksAreSpaced'
  BY <1>1, <1>5 DEF IInv, LeaseIsYoung, CallbacksAreSpaced
<1>7. QED
  BY <1>3, <1>4, <1>6 DEF IInv

\* What the release changes matters to the sweeper only.
LEMMA ReleaseStep ==
  ASSUME IInv, Release
  PROVE  IInv'
<1>1. TypeOK' /\ SweptInTime'
  BY DEF Release, IInv, TypeOK, SweptInTime
<1>2. QED
  BY <1>1 DEF Release, IInv, TriesAreBounded, NotAliveNotBusy, LeaseIsYoung, CallbacksAreSpaced

LEMMA SweepStep ==
  ASSUME IInv, Sweep
  PROVE  IInv'
<1>1. TypeOK' /\ SweptInTime'
  BY Durations DEF Sweep, IInv, TypeOK, SweptInTime, workerVars
<1>2. QED
  BY <1>1 DEF Sweep, workerVars, IInv, TriesAreBounded, NotAliveNotBusy, LeaseIsYoung,
    CallbacksAreSpaced, Busy, Unrenewed, Elapsed

\* All clocks advance together.
LEMMA TickStep ==
  ASSUME IInv, Tick
  PROVE  IInv'
<1>1. /\ next' = next - 1 /\ next > 0
      /\ since' = (IF row = "running" \/ worker \in {"starting", "alive"}
                     THEN since + 1 ELSE since)
      /\ beat' = IF worker = "alive" THEN beat - 1 ELSE beat
      /\ worker = "alive" => beat > -Lag
      /\ \A s \in Slot : clock'[s] = IF pc[s] = "idle" THEN clock[s] ELSE clock[s] + 1
      /\ UNCHANGED <<row, worker, pc, try, stmt>>
  BY DEF Tick
<1>2. TypeOK'
  BY Durations DEF Tick, IInv, TypeOK
<1>3. TriesAreBounded'
  <2> SUFFICES ASSUME NEW s \in Slot
               PROVE  /\ pc[s] = "sent" => clock'[s] <= QueryMax
                      /\ pc[s] = "waiting" => \/ try[s] = 0 /\ clock'[s] <= BackOff
                                              \/ try[s] = 1 /\ clock'[s] <= 2 * BackOff
    BY <1>1 DEF TriesAreBounded
  <2>1. clock[s] \in Nat
    BY DEF IInv, TypeOK
  <2>2. CASE pc[s] = "sent"
    BY <1>1, <2>1, <2>2, Durations DEF Tick
  <2>3. CASE pc[s] = "waiting"
    <3>1. clock[s] < BackOff * (try[s] + 1) /\ clock'[s] = clock[s] + 1
      BY <1>1, <2>3 DEF Tick
    <3>2. CASE try[s] = 0
      BY <2>1, <2>3, <3>1, <3>2, BackOffs, Durations
    <3>3. CASE try[s] = 1
      BY <2>1, <2>3, <3>1, <3>3, BackOffs, Durations
    <3>4. QED
      BY <2>3, <3>2, <3>3 DEF IInv, TriesAreBounded
  <2>4. QED
    BY <2>2, <2>3
<1>4. NotAliveNotBusy' /\ SweptInTime'
  BY <1>1, Durations DEF IInv, TypeOK, NotAliveNotBusy, SweptInTime, Busy
<1>5. \A s \in Slot : /\ Busy(s)' <=> Busy(s)
                      /\ Unrenewed(s)' <=> Unrenewed(s)
                      /\ Elapsed(s) \in Int
                      /\ Busy(s) => Elapsed(s)' = Elapsed(s) + 1
  <2>1. \A s \in Slot : TriesBefore(try[s]) \in Nat /\ clock[s] \in Nat
    BY Durations DEF TriesBefore, IInv, TypeOK
  <2>2. \A s \in Slot : Elapsed(s) \in Int /\ (Busy(s) => Elapsed(s)' = Elapsed(s) + 1)
    BY <1>1, <2>1, Durations DEF Elapsed, Busy
  <2>3. QED
    BY <1>1, <2>2 DEF Busy, Unrenewed
<1>6. LeaseIsYoung'
  <2>1. CASE worker = "starting"
    BY <1>1, <2>1, Durations DEF Tick, LeaseIsYoung, IInv, TypeOK
  <2>2. CASE worker = "alive"
    <3>1. since' = since + 1 /\ beat' = beat - 1
      BY <1>1, <2>2
    <3>2. QED
      BY <1>1, <1>5, <2>2, <3>1, Durations DEF IInv, TypeOK, LeaseIsYoung, Unrenewed
  <2>3. QED
    BY <1>1, <2>1, <2>2 DEF LeaseIsYoung
<1>7. CallbacksAreSpaced'
  <2>1. CASE worker = "alive"
    BY <1>1, <1>5, <2>1, Durations DEF IInv, TypeOK, CallbacksAreSpaced
  <2>2. QED
    BY <1>1, <2>1 DEF CallbacksAreSpaced
<1>8. QED
  BY <1>2, <1>3, <1>4, <1>6, <1>7 DEF IInv

LEMMA NextInvariant == IInv /\ [Next]_vars => IInv'
<1>1. ASSUME IInv, Next PROVE IInv'
  <2>1. CASE StartHeartbeat \/ Release \/ Sweep \/ Tick
    BY <1>1, <2>1, StartStep, ReleaseStep, SweepStep, TickStep
  <2>2. CASE Crash \/ Exit
    BY <1>1, <2>2, EndStep DEF Crash, Exit
  <2>3. ASSUME NEW s \in Slot, LeaseLost(s) \/ RenewalFails(s) PROVE IInv'
    BY <1>1, <2>3, EndStep DEF LeaseLost, RenewalFails
  <2>4. ASSUME NEW s \in Slot,
               \/ Heartbeat(s) \/ Execute(s) \/ Renewed(s)
               \/ TryFails(s) \/ TryAgain(s)
        PROVE  IInv'
    BY <1>1, <2>4, HeartbeatStep, ExecuteStep, RenewedStep, TryFailsStep, TryAgainStep
  <2>5. QED
    BY <1>1, <2>1, <2>2, <2>3, <2>4 DEF Next
<1>2. ASSUME IInv, UNCHANGED vars PROVE IInv'
  BY <1>2 DEF vars, workerVars, IInv, TypeOK, TriesAreBounded, NotAliveNotBusy, SweptInTime,
    LeaseIsYoung, CallbacksAreSpaced, Busy, Unrenewed, Elapsed
<1>3. QED
  BY <1>1, <1>2

LEMMA Invariance == Spec => []IInv
<1>1. QED
  BY InitInvariant, NextInvariant, PTL DEF Spec

\* For all durations, ages, timers and tries keep their ranges.
THEOREM TypeCorrect == Spec => []TypeOK
<1>1. IInv => TypeOK
  BY DEF IInv
<1>2. QED
  BY <1>1, Invariance, PTL

\* For all durations, a running row is never older than lease, buffer and one
\* period of the sweeper.
THEOREM Detection == Spec => []DetectedInTime
<1>1. IInv => DetectedInTime
  BY Durations DEF IInv, TypeOK, SweptInTime, DetectedInTime
<1>2. QED
  BY <1>1, Invariance, PTL

LEMMA YoungLease == IInv => GivesUpInTime
<1> SUFFICES ASSUME IInv, worker \in {"starting", "alive"} PROVE since <= RenewalGap
  BY DEF GivesUpInTime
<1>1. since \in Nat /\ beat \in (-Lag)..Interval /\ RoundMax \in Nat
  BY Durations DEF IInv, TypeOK, RoundMax
<1>2. CASE worker = "starting"
  BY <1>1, <1>2, Durations DEF IInv, LeaseIsYoung, RenewalGap
<1>3. CASE worker = "alive"
  <2>1. CASE since <= SetupMax + Interval - beat
    BY <1>1, <2>1, Durations DEF RenewalGap
  <2>2. ASSUME NEW s \in Slot, Unrenewed(s), since <= SetupMax + Interval + Lag + Elapsed(s)
        PROVE  since <= RenewalGap
    <3>1. Elapsed(s) \in Nat /\ Elapsed(s) <= RoundMax
      BY <2>2, RenewalTakesRoundMax DEF IInv, Unrenewed
    <3>2. QED
      BY <1>1, <2>2, <3>1, Durations DEF RenewalGap
  <2>3. QED
    BY <1>3, <2>1, <2>2 DEF IInv, LeaseIsYoung
<1>4. QED
  BY <1>2, <1>3

\* For all durations, a process that does not manage to renew ends in time.
THEOREM GivingUp == Spec => []GivesUpInTime
<1>1. QED
  BY YoungLease, Invariance, PTL

\* If a full renewal fits into lease and buffer, a run is taken away from dead
\* workers only.  The strict comparison of the sweeper makes "fits" exact.
THEOREM Exclusive == ASSUME LeaseOutlastsRenewal PROVE Spec => []SelfFencing
<1>1. Init => SelfFencing
  BY DEF Init, SelfFencing
<1>2. IInv /\ SelfFencing /\ [Next]_vars => SelfFencing'
  <2> SUFFICES ASSUME IInv, SelfFencing, [Next]_vars, row' = "stalled"
               PROVE  worker' \notin {"starting", "alive"}
    BY DEF SelfFencing
  <2>1. CASE Sweep /\ row # "stalled"
    <3>1. since > Lease + Buffer /\ UNCHANGED worker
      BY <2>1 DEF Sweep, workerVars
    <3>2. since \in Nat /\ RenewalGap \in Nat
      BY Durations DEF IInv, TypeOK, RenewalGap, RoundMax
    <3>3. worker \notin {"starting", "alive"}
      BY <3>1, <3>2, YoungLease, Durations DEF GivesUpInTime, LeaseOutlastsRenewal
    <3>4. QED
      BY <3>1, <3>3
  <2>2. CASE row = "stalled"
    <3>1. worker \notin {"starting", "alive"}
      BY <2>2 DEF SelfFencing
    <3>2. QED
      BY <3>1 DEF Next, vars, workerVars, StartHeartbeat, Release, Exit, Crash, Ends, Sweep, Tick,
        Heartbeat, Execute, Renewed, LeaseLost, TryFails, TryAgain, RenewalFails
  <2>3. QED
    BY <2>1, <2>2 DEF Next, vars, StartHeartbeat, Release, Exit, Crash, Ends, Sweep, Tick,
      Heartbeat, Execute, Renewed, LeaseLost, TryFails, TryAgain, RenewalFails
<1>3. QED
  BY <1>1, <1>2, Invariance, PTL DEF Spec

\* Two renewals may overlap, never three: a due callback finds a free slot.
THEOREM TwoSlotsSuffice ==
  Spec => [](worker = "alive" /\ beat <= 0 => \E s \in Slot : pc[s] = "idle")
<1>1. ASSUME IInv, worker = "alive", beat <= 0 PROVE \E s \in Slot : pc[s] = "idle"
  <2> SUFFICES ASSUME \A s \in Slot : Busy(s) PROVE FALSE
    BY DEF Busy
  <2>1. PICK s \in Slot : Elapsed(s) >= 2 * Interval - beat
    BY <1>1 DEF IInv, CallbacksAreSpaced
  <2>2. Elapsed(s) \in Nat /\ Elapsed(s) <= RoundMax
    BY <1>1, RenewalTakesRoundMax DEF IInv
  <2>3. QED
    BY <1>1, <2>1, <2>2, Durations DEF IInv, TypeOK, RoundMax
<1>2. IInv => (worker = "alive" /\ beat <= 0 => \E s \in Slot : pc[s] = "idle")
  BY <1>1
<1>3. QED
  BY <1>2, Invariance, PTL
==============================================================================
