-------------------------- MODULE SyncPolling_proofs --------------------------
(* SyncPolling for every threshold and every number of overlapping cycles. *)
EXTENDS SyncPolling, TLAPS

\* What makes the invariants inductive: a device that gave up counted at most the
\* failures of an active one, one more for a missing endpoint, and those of the
\* cycles still in progress.
SyncOK(s) ==
  /\ s \in SyncRecord
  /\ s.inProgress <= MaxCycles
  /\ s.state = "active" => s.failures < Threshold
  /\ s.failures + s.inProgress <= Threshold + MaxCycles

PollInv ==
  /\ SyncOK(sync)
  /\ connected \in BOOLEAN
  /\ enabled \in BOOLEAN
  /\ endpoint \in BOOLEAN
  /\ sync.state = "noNetwork" => ~connected

-----------------------------------------------------------------------------

LEMMA Bounds == Threshold \in Nat /\ MaxCycles \in Nat /\ Threshold > 0 /\ MaxCycles > 0
BY ThresholdAssumption, MaxCyclesAssumption

LEMMA SyncOKFields ==
  ASSUME NEW s, SyncOK(s)
  PROVE  /\ s \in SyncRecord /\ s.failures \in Nat /\ s.inProgress \in Nat
         /\ s.state \in SyncState
BY DEF SyncOK, SyncRecord

\* The four ways in which the record changes.  Back to active, with a new count.
LEMMA ResetOK ==
  ASSUME NEW s, SyncOK(s), NEW t, t = [s EXCEPT !.state = "active", !.failures = 0]
  PROVE  SyncOK(t) /\ t.inProgress = s.inProgress /\ t.state = "active"
<1>1. s \in SyncRecord /\ s.inProgress \in Nat /\ s.inProgress <= MaxCycles
  BY DEF SyncOK, SyncRecord
<1>2. t \in SyncRecord
  BY <1>1 DEF SyncRecord, SyncState
<1>3. t.inProgress = s.inProgress /\ t.failures = 0 /\ t.state = "active"
  BY <1>1 DEF SyncRecord
<1>4. t.failures + t.inProgress <= Threshold + MaxCycles
  BY <1>1, <1>3, Bounds
<1> QED
  BY <1>1, <1>2, <1>3, <1>4, Bounds DEF SyncOK

\* Out of active.
LEMMA LeaveOK ==
  ASSUME NEW s, SyncOK(s), NEW x \in SyncState \ {"active"}, NEW t,
         t = [s EXCEPT !.state = x]
  PROVE  SyncOK(t) /\ t.inProgress = s.inProgress /\ t.state = x
<1>1. s \in SyncRecord
  BY DEF SyncOK
<1>2. t \in SyncRecord
  BY <1>1 DEF SyncRecord
<1>3. t.inProgress = s.inProgress /\ t.failures = s.failures /\ t.state = x
  BY <1>1 DEF SyncRecord
<1> QED
  BY <1>2, <1>3 DEF SyncOK

LEMMA RecordFailureFields ==
  ASSUME NEW s, s \in SyncRecord
  PROVE  /\ RecordFailure(s) \in SyncRecord
         /\ RecordFailure(s).failures = s.failures + 1
         /\ RecordFailure(s).inProgress = s.inProgress
         /\ RecordFailure(s).state = IF s.state = "active" /\ s.failures + 1 >= Threshold
                                       THEN "manualOnly" ELSE s.state
<1> DEFINE x == IF s.state = "active" /\ s.failures + 1 >= Threshold
                  THEN "manualOnly" ELSE s.state
           n == s.failures + 1
<1>1. x \in SyncState /\ n \in Nat
  BY DEF SyncRecord, SyncState
<1>2. RecordFailure(s) = [s EXCEPT !.failures = n, !.state = x]
  BY DEF RecordFailure, SyncRecord
<1> HIDE DEF x, n
<1>3. /\ RecordFailure(s) \in SyncRecord
      /\ RecordFailure(s).failures = n
      /\ RecordFailure(s).inProgress = s.inProgress
      /\ RecordFailure(s).state = x
  BY <1>1, <1>2 DEF SyncRecord
<1> QED
  BY <1>3 DEF x, n

\* A failure, of a cycle that ends with it or that never started.
LEMMA FailureOK ==
  ASSUME NEW s, SyncOK(s), NEW t, t \in SyncRecord,
         t.state = RecordFailure(s).state, t.failures = s.failures + 1,
         t.inProgress <= s.inProgress,
         s.state # "active" => t.inProgress + 1 <= s.inProgress
  PROVE  SyncOK(t)
<1>1. /\ s \in SyncRecord /\ s.failures \in Nat /\ s.inProgress \in Nat
      /\ t.failures \in Nat /\ t.inProgress \in Nat
  BY DEF SyncOK, SyncRecord
<1>2. t.state = IF s.state = "active" /\ s.failures + 1 >= Threshold
                  THEN "manualOnly" ELSE s.state
  BY <1>1, RecordFailureFields
<1>3. CASE s.state = "active"
  <2>1. s.failures < Threshold /\ s.inProgress <= MaxCycles
    BY <1>3 DEF SyncOK
  <2>2. t.failures + t.inProgress <= Threshold + MaxCycles
    BY <1>1, <2>1, Bounds
  <2>3. t.state = "active" => t.failures < Threshold
    BY <1>1, <1>2, <1>3, <2>1, Bounds
  <2> QED
    BY <1>1, <2>2, <2>3, Bounds DEF SyncOK
<1>4. CASE s.state # "active"
  <2>1. s.failures + s.inProgress <= Threshold + MaxCycles
    BY DEF SyncOK
  <2>2. t.failures + t.inProgress <= Threshold + MaxCycles
    BY <1>1, <1>4, <2>1, Bounds
  <2> QED
    BY <1>1, <1>2, <1>4, <2>2, Bounds DEF SyncOK
<1> QED
  BY <1>3, <1>4

\* A cycle begins.
LEMMA LaunchOK ==
  ASSUME NEW s, SyncOK(s), s.state = "active", Launch(s).inProgress <= MaxCycles
  PROVE  SyncOK(Launch(s)) /\ Launch(s).state = "active"
<1> DEFINE t == Launch(s)
<1>1. s \in SyncRecord /\ s.failures \in Nat /\ s.inProgress \in Nat /\ s.failures < Threshold
  BY DEF SyncOK, SyncRecord
<1>2. t \in SyncRecord
  BY <1>1 DEF SyncRecord, Launch
<1>3. t.inProgress = s.inProgress + 1 /\ t.failures = s.failures /\ t.state = "active"
  BY <1>1 DEF SyncRecord, Launch
<1>4. t.inProgress <= MaxCycles
  OBVIOUS
<1> HIDE DEF t
<1>5. t.failures + t.inProgress <= Threshold + MaxCycles
  BY <1>1, <1>3, <1>4, Bounds
<1>6. SyncOK(t)
  BY <1>1, <1>2, <1>3, <1>4, <1>5 DEF SyncOK
<1> QED
  BY <1>3, <1>6 DEF t

LEMMA TimerOK ==
  ASSUME NEW s, SyncOK(s), NEW on \in BOOLEAN
  PROVE  LET t == [s EXCEPT !.timer = on] IN SyncOK(t) /\ t.inProgress = s.inProgress
BY DEF SyncOK, SyncRecord

-----------------------------------------------------------------------------

\* SyncStateNotifier keeps the counter in its bounds, whatever it is told.
LEMMA ConnectivityChangedOK ==
  ASSUME NEW s, NEW up \in BOOLEAN, SyncOK(s)
  PROVE  /\ SyncOK(ConnectivityChanged(s, up))
         /\ ConnectivityChanged(s, up).inProgress = s.inProgress
         /\ up => ConnectivityChanged(s, up).state # "noNetwork"
<1>1. CASE up /\ s.state = "noNetwork"
  <2>1. ConnectivityChanged(s, up) = [s EXCEPT !.state = "active", !.failures = 0]
    BY <1>1 DEF ConnectivityChanged
  <2> QED
    BY <2>1, ResetOK
<1>2. CASE ~up /\ s.state # "disabled"
  <2>1. ConnectivityChanged(s, up) = [s EXCEPT !.state = "noNetwork"]
    BY <1>2 DEF ConnectivityChanged
  <2>2. "noNetwork" \in SyncState \ {"active"}
    BY DEF SyncState
  <2> QED
    BY <2>1, <2>2, <1>2, LeaveOK
<1>3. CASE ~(up /\ s.state = "noNetwork") /\ ~(~up /\ s.state # "disabled")
  <2>1. ConnectivityChanged(s, up) = s
    BY <1>3 DEF ConnectivityChanged
  <2> QED
    BY <2>1, <1>3
<1> QED
  BY <1>1, <1>2, <1>3

LEMMA SetSyncEnabledOK ==
  ASSUME NEW s, NEW on \in BOOLEAN, SyncOK(s)
  PROVE  /\ SyncOK(SetSyncEnabled(s, on))
         /\ SetSyncEnabled(s, on).inProgress = s.inProgress
         /\ SetSyncEnabled(s, on).state # "noNetwork"
<1>1. CASE on
  <2>1. SetSyncEnabled(s, on) = [s EXCEPT !.state = "active", !.failures = 0]
    BY <1>1 DEF SetSyncEnabled
  <2> QED
    BY <2>1, ResetOK
<1>2. CASE ~on
  <2>1. SetSyncEnabled(s, on) = [s EXCEPT !.state = "disabled"]
    BY <1>2 DEF SetSyncEnabled
  <2>2. "disabled" \in SyncState \ {"active"}
    BY DEF SyncState
  <2> QED
    BY <2>1, <2>2, LeaveOK
<1> QED
  BY <1>1, <1>2

\* A sync cycle that starts, or does not, keeps the counter in its bounds.
LEMMA RunSyncCycleOK ==
  ASSUME NEW s, NEW net \in BOOLEAN, SyncOK(s), endpoint \in BOOLEAN,
         RunSyncCycle(s, net).inProgress <= MaxCycles
  PROVE  /\ SyncOK(RunSyncCycle(s, net))
         /\ RunSyncCycle(s, net).state = "noNetwork" => ~net
<1> DEFINE t == ConnectivityChanged(s, TRUE)
           u == ConnectivityChanged(s, FALSE)
<1>1. SyncOK(t) /\ t.inProgress = s.inProgress /\ t.state # "noNetwork"
  BY ConnectivityChangedOK
<1>2. SyncOK(u) /\ u.inProgress = s.inProgress
  BY ConnectivityChangedOK
<1>3. CASE s.state = "disabled"
  BY <1>3 DEF RunSyncCycle
<1>4. CASE s.state # "disabled" /\ ~net
  BY <1>2, <1>4 DEF RunSyncCycle
<1>5. CASE s.state # "disabled" /\ net /\ t.state = "manualOnly"
  BY <1>1, <1>5 DEF RunSyncCycle
<1>6. CASE s.state # "disabled" /\ net /\ t.state # "manualOnly"
  <2>1. t.state = "active"
    BY <1>6, SyncOKFields DEF ConnectivityChanged, SyncRecord, SyncState
  <2>2. t \in SyncRecord
    BY <1>1 DEF SyncOK
  <2>3. CASE ~endpoint
    <3>1. RunSyncCycle(s, net) = RecordFailure(t)
      BY <1>6, <2>3 DEF RunSyncCycle
    <3> HIDE DEF t
    <3>2. /\ RecordFailure(t) \in SyncRecord
          /\ RecordFailure(t).failures = t.failures + 1
          /\ RecordFailure(t).inProgress = t.inProgress
          /\ RecordFailure(t).state \in {"active", "manualOnly"}
      BY <2>1, <2>2, RecordFailureFields
    <3>3. SyncOK(RecordFailure(t))
      <4>1. RecordFailure(t).inProgress <= t.inProgress
        BY <1>1, <3>2, SyncOKFields
      <4> QED
        BY <1>1, <2>1, <3>2, <4>1, FailureOK
    <3> QED
      BY <3>1, <3>2, <3>3
  <2>4. CASE endpoint
    <3>1. RunSyncCycle(s, net) = Launch(t)
      BY <1>6, <2>4 DEF RunSyncCycle
    <3> HIDE DEF t
    <3> QED
      BY <1>1, <2>1, <2>4, <3>1, LaunchOK
  <2> QED
    BY <2>3, <2>4
<1> QED
  BY <1>3, <1>4, <1>5, <1>6

-----------------------------------------------------------------------------

LEMMA InitPollInv == Init => PollInv
<1> SUFFICES ASSUME Init PROVE PollInv
  OBVIOUS
<1>1. /\ sync \in SyncRecord /\ sync.failures = 0 /\ sync.inProgress \in {0, 1}
      /\ sync.state \in {"active", "disabled"}
      /\ connected \in BOOLEAN /\ enabled \in BOOLEAN /\ endpoint \in BOOLEAN
      BY DEF Init, SyncRecord, SyncState
<1>2. SyncOK(sync)
  <2>1. /\ sync.inProgress <= MaxCycles /\ sync.failures < Threshold
        /\ sync.failures + sync.inProgress <= Threshold + MaxCycles
    BY <1>1, Bounds
  <2> QED
    BY <1>1, <2>1 DEF SyncOK
<1> QED
  BY <1>1, <1>2 DEF PollInv

LEMMA NextPollInv == PollInv /\ [Next]_vars => PollInv'
<1> SUFFICES ASSUME PollInv, [Next]_vars PROVE PollInv'
  OBVIOUS
<1>1. CASE Tick
  <2>1. sync' = RunSyncCycle(sync, connected) /\ sync'.inProgress <= MaxCycles
        /\ UNCHANGED <<connected, enabled, endpoint>>
    BY <1>1 DEF Tick, Bounded
  <2>2. SyncOK(sync') /\ (sync'.state = "noNetwork" => ~connected)
    BY <2>1, RunSyncCycleOK DEF PollInv
  <2> QED
    BY <2>1, <2>2 DEF PollInv, SyncOK
<1>2. CASE ManualSync
  <2>1. sync' = RunSyncCycle(sync, connected) /\ sync'.inProgress <= MaxCycles
        /\ UNCHANGED <<connected, enabled, endpoint>>
    BY <1>2 DEF ManualSync, Bounded, PollInv
  <2>2. SyncOK(sync') /\ (sync'.state = "noNetwork" => ~connected)
    BY <2>1, RunSyncCycleOK DEF PollInv
  <2> QED
    BY <2>1, <2>2 DEF PollInv, SyncOK
<1>3. CASE Login
  BY <1>3 DEF Login, PollInv, SyncOK
<1>4. ASSUME NEW given \in BOOLEAN, SetServerEndpoint(given) PROVE PollInv'
  BY <1>4 DEF SetServerEndpoint, PollInv, SyncOK
<1>5. ASSUME NEW on \in BOOLEAN, Toggle(on) PROVE PollInv'
  <2> DEFINE t == SetSyncEnabled(sync, on)
             u == IF on THEN StartTimer(t, connected) ELSE StopPolling(t)
  <2>1. /\ sync' = SetSyncEnabled(u, on) /\ sync'.inProgress <= MaxCycles
        /\ enabled' = on /\ UNCHANGED <<connected, endpoint>>
    BY <1>5 DEF Toggle, Bounded, OnSyncToggle
  <2>2. SyncOK(t) /\ t.inProgress = sync.inProgress
    BY SetSyncEnabledOK DEF PollInv
  <2>3. sync'.inProgress = u.inProgress
    BY <2>1 DEF SetSyncEnabled
  <2>4. SyncOK(u)
    <3>1. CASE on
      <4> DEFINE w == [t EXCEPT !.timer = TRUE]
      <4>1. SyncOK(w) /\ w.inProgress = sync.inProgress
        BY <2>2 DEF SyncOK, SyncRecord
      <4>2. u = RunSyncCycle(w, connected)
        BY <3>1 DEF StartTimer
      <4> HIDE DEF t, u, w
      <4> QED
        BY <4>1, <4>2, <2>1, <2>3, RunSyncCycleOK DEF PollInv
    <3>2. CASE ~on
      <4>1. u = [t EXCEPT !.timer = FALSE]
        BY <3>2 DEF StopPolling
      <4> HIDE DEF t, u
      <4> QED
        BY <4>1, <2>2 DEF SyncOK, SyncRecord, PollInv
    <3> QED
      BY <3>1, <3>2
  <2>5. SyncOK(sync') /\ sync'.inProgress = u.inProgress /\ sync'.state # "noNetwork"
    <3> HIDE DEF u
    <3> QED
      BY <2>1, <2>4, SetSyncEnabledOK
  <2> QED
    BY <2>1, <2>4, <2>5 DEF PollInv, SyncOK
<1>6. ASSUME NEW up \in BOOLEAN, NetworkChanges(up) PROVE PollInv'
  <2> DEFINE t == ConnectivityChanged(sync, up)
  <2>1. /\ connected' = up /\ sync'.inProgress <= MaxCycles
        /\ UNCHANGED <<enabled, endpoint>>
        /\ \/ up /\ sync' = StartTimer(t, TRUE)
           \/ up /\ sync' = t
           \/ ~up /\ sync' = StopPolling(t)
    BY <1>6 DEF NetworkChanges, Bounded
  <2>2. SyncOK(t) /\ t.inProgress = sync.inProgress /\ (up => t.state # "noNetwork")
    BY ConnectivityChangedOK DEF PollInv
  <2> HIDE DEF t
  <2>3. CASE up /\ sync' = StartTimer(t, TRUE)
    <3> DEFINE w == [t EXCEPT !.timer = TRUE]
    <3>1. SyncOK(w) /\ w.inProgress = sync.inProgress
      BY <2>2 DEF SyncOK, SyncRecord
    <3>2. sync' = RunSyncCycle(w, TRUE)
      BY <2>3 DEF StartTimer
    <3> HIDE DEF w
    <3>3. SyncOK(sync') /\ sync'.state # "noNetwork"
      BY <3>1, <3>2, <2>1, RunSyncCycleOK DEF PollInv
    <3> QED
      BY <2>1, <2>3, <3>3 DEF PollInv, SyncOK
  <2>4. CASE up /\ sync' = t
    BY <2>1, <2>2, <2>4 DEF PollInv, SyncOK
  <2>5. CASE ~up /\ sync' = StopPolling(t)
    <3>1. SyncOK(sync') /\ sync'.inProgress = sync.inProgress
      BY <2>2, <2>5 DEF StopPolling, SyncOK, SyncRecord
    <3> QED
      BY <2>1, <2>5, <3>1 DEF PollInv, SyncOK
  <2> QED
    BY <2>1, <2>3, <2>4, <2>5
<1>7. CASE CycleSucceeds
  <2>1. /\ sync.inProgress > 0 /\ sync \in SyncRecord
        /\ sync' = [RecordSuccess(sync) EXCEPT !.inProgress = @ - 1]
        /\ UNCHANGED <<connected, enabled, endpoint>>
    BY <1>7 DEF CycleSucceeds, PollInv, SyncOK
  <2>2. /\ sync' \in SyncRecord /\ sync'.failures = 0 /\ sync'.state = sync.state
        /\ sync'.inProgress = sync.inProgress - 1 /\ sync.inProgress \in Nat
    <3> DEFINE r == RecordSuccess(sync)
    <3>1. /\ r \in SyncRecord /\ r.failures = 0 /\ r.state = sync.state
          /\ r.inProgress = sync.inProgress
      BY <2>1 DEF RecordSuccess, SyncRecord
    <3>2. sync' = [r EXCEPT !.inProgress = r.inProgress - 1] /\ r.inProgress > 0
      BY <2>1, <3>1
    <3> HIDE DEF r
    <3>3. /\ sync' \in SyncRecord /\ sync'.failures = r.failures /\ sync'.state = r.state
          /\ sync'.inProgress = r.inProgress - 1 /\ r.inProgress \in Nat
      BY <3>1, <3>2 DEF SyncRecord
    <3> QED
      BY <3>1, <3>3
  <2>3. sync.inProgress <= MaxCycles
    BY DEF PollInv, SyncOK
  <2>4. /\ sync'.inProgress <= MaxCycles
        /\ sync'.failures + sync'.inProgress <= Threshold + MaxCycles
    BY <2>1, <2>2, <2>3, Bounds
  <2>5. SyncOK(sync')
    BY <2>2, <2>4, Bounds DEF SyncOK
  <2> QED
    BY <2>1, <2>2, <2>5 DEF PollInv
<1>8. CASE CycleFails
  <2>1. /\ sync.inProgress > 0 /\ sync \in SyncRecord
        /\ sync' = [RecordFailure(sync) EXCEPT !.inProgress = @ - 1]
        /\ UNCHANGED <<connected, enabled, endpoint>>
    BY <1>8 DEF CycleFails, PollInv, SyncOK
  <2>2. /\ sync' \in SyncRecord /\ sync'.failures = sync.failures + 1
        /\ sync'.state = RecordFailure(sync).state
        /\ sync'.inProgress = sync.inProgress - 1 /\ sync.inProgress \in Nat
    <3> DEFINE r == RecordFailure(sync)
    <3>1. r \in SyncRecord /\ r.failures = sync.failures + 1 /\ r.inProgress = sync.inProgress
      BY <2>1, RecordFailureFields
    <3>2. sync' = [r EXCEPT !.inProgress = r.inProgress - 1] /\ r.inProgress > 0
      BY <2>1, <3>1
    <3> HIDE DEF r
    <3>3. /\ sync' \in SyncRecord /\ sync'.failures = r.failures /\ sync'.state = r.state
          /\ sync'.inProgress = r.inProgress - 1 /\ r.inProgress \in Nat
      BY <3>1, <3>2 DEF SyncRecord
    <3> QED
      BY <3>1, <3>3 DEF r
  <2>3. sync.inProgress <= MaxCycles
    BY DEF PollInv, SyncOK
  <2>4. SyncOK(sync')
    <3>1. /\ sync'.inProgress <= sync.inProgress
          /\ sync'.inProgress + 1 <= sync.inProgress
      BY <2>2, <2>3, Bounds
    <3>2. SyncOK(sync)
      BY DEF PollInv
    <3> QED
      BY <2>2, <3>1, <3>2, FailureOK
  <2>5. sync'.state = "noNetwork" => sync.state = "noNetwork"
    BY <2>1, <2>2, RecordFailureFields
  <2> QED
    BY <2>1, <2>2, <2>4, <2>5 DEF PollInv
<1>9. CASE UNCHANGED vars
  BY <1>9 DEF vars, PollInv, SyncOK
<1> QED
  BY <1>1, <1>2, <1>3, <1>4, <1>5, <1>6, <1>7, <1>8, <1>9 DEF Next

THEOREM AlwaysPollInv == Spec => []PollInv
<1>1. Init => PollInv
  BY InitPollInv
<1>2. PollInv /\ [Next]_vars => PollInv'
  BY NextPollInv
<1> QED
  BY <1>1, <1>2, PTL DEF Spec

\* The failure counter never passes the threshold by more than the cycles that may
\* be in progress together.
THEOREM PollingTypeCorrect == Spec => []TypeOK
<1>1. PollInv => TypeOK
  <2> SUFFICES ASSUME PollInv PROVE TypeOK
    OBVIOUS
  <2>1. /\ sync.failures \in Nat /\ sync.inProgress \in Nat
        /\ sync.failures <= Threshold + MaxCycles
        /\ sync.inProgress <= MaxCycles
    BY Bounds DEF PollInv, SyncOK, SyncRecord
  <2> QED
    BY <2>1, Bounds DEF PollInv, SyncOK, SyncRecord, TypeOK
<1> QED
  BY <1>1, AlwaysPollInv, PTL

\* Whatever overlapping cycles do, an active device has failures left, so that the
\* next threshold of failures in a row is needed to stop it.
THEOREM ActiveHasFailuresLeft == Spec => []ActiveBelowThreshold
<1>1. PollInv => ActiveBelowThreshold
  BY DEF PollInv, SyncOK, ActiveBelowThreshold
<1> QED
  BY <1>1, AlwaysPollInv, PTL

\* A device believes to be offline only while ConnectivityState says so.
THEOREM OfflineOnlyWithoutNetwork == Spec => []NoNetworkIsTrue
<1>1. PollInv => NoNetworkIsTrue
  BY DEF PollInv, NoNetworkIsTrue
<1> QED
  BY <1>1, AlwaysPollInv, PTL

-----------------------------------------------------------------------------
\* What a step does to the transfers and to the timer

LEMMA ConnectivityFields ==
  ASSUME NEW s \in SyncRecord, NEW up \in BOOLEAN
  PROVE  /\ ConnectivityChanged(s, up) \in SyncRecord
         /\ ConnectivityChanged(s, up).inProgress = s.inProgress
         /\ ConnectivityChanged(s, up).timer = s.timer
         /\ ConnectivityChanged(s, up).state =
              IF up THEN (IF s.state = "noNetwork" THEN "active" ELSE s.state)
                    ELSE (IF s.state = "disabled" THEN "disabled" ELSE "noNetwork")
BY DEF ConnectivityChanged, SyncRecord, SyncState

\* runSyncCycle transfers only online and in the state active, does not touch the timer,
\* and makes a device active only when the network is back.
LEMMA RunSyncCycleFields ==
  ASSUME NEW s \in SyncRecord, NEW net \in BOOLEAN
  PROVE  /\ RunSyncCycle(s, net) \in SyncRecord
         /\ RunSyncCycle(s, net).timer = s.timer
         /\ RunSyncCycle(s, net).inProgress > s.inProgress =>
              net /\ RunSyncCycle(s, net).state = "active"
         /\ RunSyncCycle(s, net).state = "active" /\ s.state # "active" =>
              net /\ s.state = "noNetwork"
<1>1. PICK t \in SyncRecord : /\ t = ConnectivityChanged(s, TRUE)
                              /\ t.inProgress = s.inProgress /\ t.timer = s.timer
                              /\ t.state = IF s.state = "noNetwork" THEN "active" ELSE s.state
  BY ConnectivityFields
<1>2. s.inProgress \in Nat /\ t.inProgress \in Nat /\ s.state \in SyncState
  BY DEF SyncRecord
<1>3. CASE s.state = "disabled"
  BY <1>2, <1>3 DEF RunSyncCycle
<1>4. CASE s.state # "disabled" /\ ~net
  <2>1. RunSyncCycle(s, net) = ConnectivityChanged(s, FALSE)
    BY <1>4 DEF RunSyncCycle
  <2>2. PICK u \in SyncRecord : /\ u = ConnectivityChanged(s, FALSE)
                                /\ u.inProgress = s.inProgress /\ u.timer = s.timer
                                /\ u.state # "active"
    BY <1>4, ConnectivityFields
  <2>3. RunSyncCycle(s, net) = u
    BY <2>1, <2>2
  <2>4. ~(u.inProgress > s.inProgress)
    <3>1. u.inProgress = s.inProgress
      BY <2>2
    <3> QED
      BY <1>2, <3>1
  <2> QED
    BY <2>2, <2>3, <2>4
<1>5. CASE s.state # "disabled" /\ net /\ t.state = "manualOnly"
  <2>1. RunSyncCycle(s, net) = t
    BY <1>1, <1>5 DEF RunSyncCycle
  <2>2. ~(t.inProgress > s.inProgress)
    <3>1. t.inProgress = s.inProgress
      BY <1>1
    <3> QED
      BY <1>2, <3>1
  <2> QED
    BY <1>1, <1>5, <2>1, <2>2
<1>6. CASE s.state # "disabled" /\ net /\ t.state # "manualOnly" /\ ~endpoint
  <2>1. RunSyncCycle(s, net) = RecordFailure(t)
    BY <1>1, <1>6 DEF RunSyncCycle
  <2>2. /\ RecordFailure(t) \in SyncRecord /\ RecordFailure(t).inProgress = t.inProgress
        /\ RecordFailure(t).state \in {t.state, "manualOnly"}
    BY RecordFailureFields
  <2>3. RecordFailure(t).timer = t.timer
    BY DEF RecordFailure, SyncRecord
  <2>4. PICK u \in SyncRecord : /\ u = RecordFailure(t)
                                /\ u.inProgress = s.inProgress /\ u.timer = s.timer
                                /\ u.state \in {t.state, "manualOnly"}
    BY <1>1, <2>2, <2>3
  <2>5. RunSyncCycle(s, net) = u
    BY <2>1, <2>4
  <2>6. ~(u.inProgress > s.inProgress)
    BY <1>2, <2>4
  <2>7. u.state = "active" /\ s.state # "active" => s.state = "noNetwork"
    BY <1>1, <2>4
  <2> QED
    BY <1>6, <2>4, <2>5, <2>6, <2>7
<1>7. CASE s.state # "disabled" /\ net /\ t.state # "manualOnly" /\ endpoint
  <2>1. RunSyncCycle(s, net) = Launch(t)
    BY <1>1, <1>7 DEF RunSyncCycle
  <2>2. Launch(t) \in SyncRecord /\ Launch(t).timer = t.timer /\ Launch(t).state = t.state
    BY DEF Launch, SyncRecord
  <2>3. t.state = "active"
    BY <1>1, <1>2, <1>7 DEF SyncState
  <2>4. PICK u \in SyncRecord : /\ u = Launch(t)
                                /\ u.timer = s.timer /\ u.state = t.state
    BY <1>1, <2>2
  <2>5. RunSyncCycle(s, net) = u
    BY <2>1, <2>4
  <2>6. u.state = "active" /\ s.state # "active" => s.state = "noNetwork"
    BY <1>1, <2>4
  <2> QED
    BY <1>7, <2>3, <2>4, <2>5, <2>6
<1> QED
  BY <1>3, <1>4, <1>5, <1>6, <1>7

\* The same of a timer that starts.
LEMMA StartTimerFields ==
  ASSUME NEW s \in SyncRecord, NEW net \in BOOLEAN
  PROVE  /\ StartTimer(s, net) \in SyncRecord
         /\ StartTimer(s, net).timer
         /\ StartTimer(s, net).inProgress > s.inProgress =>
              net /\ StartTimer(s, net).state = "active"
<1>0. [s EXCEPT !.timer = TRUE] \in SyncRecord
  BY DEF SyncRecord
<1>1. PICK w \in SyncRecord : w = [s EXCEPT !.timer = TRUE]
  BY <1>0
<1>3. w.timer = TRUE /\ w.inProgress = s.inProgress
  BY <1>1 DEF SyncRecord
<1>2. StartTimer(s, net) = RunSyncCycle(w, net)
  BY <1>1 DEF StartTimer
<1>4. PICK u \in SyncRecord : /\ u = RunSyncCycle(w, net) /\ u.timer = w.timer
                              /\ u.inProgress > w.inProgress => net /\ u.state = "active"
  BY RunSyncCycleFields
<1> QED
  BY <1>2, <1>3, <1>4, Zenon

LEMMA SetSyncEnabledFields ==
  ASSUME NEW s \in SyncRecord, NEW on \in BOOLEAN
  PROVE  /\ SetSyncEnabled(s, on) \in SyncRecord
         /\ SetSyncEnabled(s, on).inProgress = s.inProgress
         /\ SetSyncEnabled(s, on).timer = s.timer
         /\ SetSyncEnabled(s, on).state = IF on THEN "active" ELSE "disabled"
BY DEF SetSyncEnabled, SyncRecord, SyncState

LEMMA StopPollingFields ==
  ASSUME NEW s \in SyncRecord
  PROVE  /\ StopPolling(s) \in SyncRecord
         /\ StopPolling(s).inProgress = s.inProgress /\ StopPolling(s).state = s.state
BY DEF StopPolling, SyncRecord

Polls == sync.state # "active" /\ sync'.state = "active" => sync'.timer

LEMMA StepFacts == PollInv /\ [Next]_vars => Polls
<1> SUFFICES ASSUME PollInv, [Next]_vars PROVE Polls
  OBVIOUS
<1>0. /\ sync \in SyncRecord /\ sync.inProgress \in Nat
      /\ connected \in BOOLEAN /\ (sync.state = "noNetwork" => ~connected)
  BY DEF PollInv, SyncOK, SyncRecord
<1>1. CASE Tick \/ ManualSync
  <2>1. sync' = RunSyncCycle(sync, connected) /\ connected' = connected
    BY <1>1 DEF Tick, ManualSync
  <2> QED
    BY <1>0, <2>1, RunSyncCycleFields DEF Polls
<1>2. CASE Login \/ (\E given \in BOOLEAN : SetServerEndpoint(given)) \/ UNCHANGED vars
  BY <1>0, <1>2 DEF Login, SetServerEndpoint, vars, Polls
<1>3. ASSUME NEW on \in BOOLEAN, Toggle(on) PROVE Polls
  <2>1. PICK t \in SyncRecord : t = SetSyncEnabled(sync, on) /\ t.inProgress = sync.inProgress
    BY <1>0, SetSyncEnabledFields
  <2>2. CASE on
    <3>1. sync' = SetSyncEnabled(StartTimer(t, connected), on) /\ connected' = connected
      BY <1>3, <2>1, <2>2 DEF Toggle, OnSyncToggle
    <3>2. PICK u \in SyncRecord : /\ u = StartTimer(t, connected) /\ u.timer
                                  /\ u.inProgress > t.inProgress => connected
      BY <1>0, StartTimerFields
    <3>3. sync'.inProgress = u.inProgress /\ sync'.timer = u.timer /\ sync'.state = "active"
      BY <2>2, <3>1, <3>2, SetSyncEnabledFields
    <3> QED
      BY <2>1, <3>1, <3>2, <3>3 DEF Polls
  <2>3. CASE ~on
    <3>1. sync' = SetSyncEnabled(StopPolling(t), on)
      BY <1>3, <2>1, <2>3 DEF Toggle, OnSyncToggle
    <3>2. sync'.inProgress = sync.inProgress /\ sync'.state = "disabled"
      BY <2>1, <2>3, <3>1, StopPollingFields, SetSyncEnabledFields
    <3> QED
      BY <1>0, <3>2 DEF Polls
  <2> QED
    BY <2>2, <2>3
<1>4. ASSUME NEW up \in BOOLEAN, NetworkChanges(up) PROVE Polls
  <2>1. PICK t \in SyncRecord : /\ t = ConnectivityChanged(sync, up)
                                /\ t.inProgress = sync.inProgress
                                /\ ~up => t.state # "active"
    BY <1>0, ConnectivityFields
  <2>2. CASE up /\ sync' = StartTimer(t, TRUE)
    BY <2>1, <2>2, StartTimerFields DEF Polls
  <2>3. CASE up /\ t.state # "active" /\ sync' = t
    BY <2>3 DEF Polls
  <2>4. CASE ~up /\ sync' = StopPolling(t)
    BY <1>0, <2>1, <2>4, StopPollingFields DEF Polls
  <2> QED
    BY <1>4, <2>1, <2>2, <2>3, <2>4 DEF NetworkChanges
<1>5. CASE CycleSucceeds \/ CycleFails
  <2>1. PICK r \in SyncRecord : /\ sync' = [r EXCEPT !.inProgress = r.inProgress - 1]
                                /\ r.inProgress = sync.inProgress
                                /\ r.state = "active" => sync.state = "active"
    <3>1. /\ RecordSuccess(sync) \in SyncRecord
          /\ RecordSuccess(sync).inProgress = sync.inProgress
          /\ RecordSuccess(sync).state = sync.state
      BY <1>0 DEF RecordSuccess, SyncRecord
    <3>2. /\ RecordFailure(sync) \in SyncRecord
          /\ RecordFailure(sync).inProgress = sync.inProgress
          /\ RecordFailure(sync).state \in {sync.state, "manualOnly"}
      BY <1>0, RecordFailureFields
    <3> QED
      BY <1>5, <3>1, <3>2 DEF CycleSucceeds, CycleFails
  <2>2. sync'.inProgress = sync.inProgress - 1 /\ sync'.state = r.state
    BY <2>1 DEF SyncRecord
  <2> QED
    BY <1>0, <2>1, <2>2 DEF Polls
<1> QED
  BY <1>1, <1>2, <1>3, <1>4, <1>5 DEF Next

\* A device that becomes active has its timer running: SyncStateNotifier's state and
\* SyncService's timer do not drift apart.
THEOREM ActiveAlwaysPollsAgain == Spec => ActivePollsAgain
<1>1. PollInv /\ [Next]_vars => Polls
  BY StepFacts
<1> QED
  BY <1>1, AlwaysPollInv, PTL DEF Spec, ActivePollsAgain, Polls
=============================================================================
