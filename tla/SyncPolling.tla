----------------------------- MODULE SyncPolling -----------------------------
(***************************************************************************)
(* When a sync cycle runs: SyncStateNotifier, the poll timer and the entry *)
(* points of SyncService, and what reaches them from the settings screen,  *)
(* the login screen, the sync buttons and ConnectivityState.  What a cycle *)
(* does is in NoteSync; here it is in progress until it succeeds or fails. *)
(*                                                                         *)
(* Nothing in the code keeps a cycle from starting while another one is in *)
(* progress, so inProgress is a number.                                    *)
(***************************************************************************)
EXTENDS Naturals

CONSTANTS
  Threshold,   \* TimingConstants.failureBackoffThreshold
  MaxCycles    \* bound: cycles in progress at once

ASSUME ThresholdAssumption == Threshold \in Nat \ {0}
ASSUME MaxCyclesAssumption == MaxCycles \in Nat \ {0}

VARIABLES
  sync,           \* SyncStateNotifier and SyncService, see SyncRecord
  connected,      \* ConnectivityState.isConnected
  enabled,        \* settings.syncEnabled
  endpoint        \* settings.hasEndpoint

vars == <<sync, connected, enabled, endpoint>>

SyncState == {"active", "manualOnly", "noNetwork", "disabled"}
SyncRecord == [state : SyncState, failures : Nat, timer : BOOLEAN, inProgress : Nat]

-----------------------------------------------------------------------------
\* SyncStateNotifier, as functions of the record

RecordSuccess(s) == [s EXCEPT !.failures = 0]

\* Mutant: the threshold is passed before the state changes.
RecordFailureLate(s) ==
  [s EXCEPT !.failures = @ + 1,
            !.state = IF s.state = "active" /\ s.failures >= Threshold
                        THEN "manualOnly" ELSE @]

RecordFailure(s) ==
  [s EXCEPT !.failures = @ + 1,
            !.state = IF s.state = "active" /\ s.failures + 1 >= Threshold
                        THEN "manualOnly" ELSE @]

ConnectivityChanged(s, up) ==
  IF up /\ s.state = "noNetwork" THEN [s EXCEPT !.state = "active", !.failures = 0]
  ELSE IF ~up /\ s.state # "disabled" THEN [s EXCEPT !.state = "noNetwork"]
  ELSE s

SetSyncEnabled(s, on) ==
  IF on THEN [s EXCEPT !.state = "active", !.failures = 0]
        ELSE [s EXCEPT !.state = "disabled"]

-----------------------------------------------------------------------------
\* SyncService

Launch(s) == [s EXCEPT !.inProgress = @ + 1]

\* runSyncCycle up to its first await, given ConnectivityState.isConnected.
RunSyncCycle(s, net) ==
  LET t == ConnectivityChanged(s, TRUE)
  IN IF s.state = "disabled" THEN s
     ELSE IF ~net THEN ConnectivityChanged(s, FALSE)
     ELSE IF t.state = "manualOnly" THEN t
     ELSE IF ~endpoint THEN RecordFailure(t)
     ELSE Launch(t)

StartTimer(s, net) == RunSyncCycle([s EXCEPT !.timer = TRUE], net)
StopPolling(s) == [s EXCEPT !.timer = FALSE]

\* onSyncToggle, and the setSyncEnabled the settings screen calls after it.
OnSyncToggle(s, on) ==
  LET t == SetSyncEnabled(s, on)
  IN SetSyncEnabled(IF on THEN StartTimer(t, connected) ELSE StopPolling(t), on)

-----------------------------------------------------------------------------
\* The app

\* _StonepadAppState.initState: ConnectivityState assumes a network, and polling
\* starts with a first cycle if there is an endpoint.
Init ==
  /\ enabled \in BOOLEAN
  /\ endpoint \in BOOLEAN
  /\ connected = TRUE
  /\ sync = [state |-> IF enabled THEN "active" ELSE "disabled", failures |-> 0,
             timer |-> enabled /\ endpoint,
             inProgress |-> IF enabled /\ endpoint THEN 1 ELSE 0]

Bounded == sync'.inProgress <= MaxCycles

Tick ==
  /\ sync.timer
  /\ sync' = RunSyncCycle(sync, connected)
  /\ Bounded
  /\ UNCHANGED <<connected, enabled, endpoint>>

ManualSync ==
  /\ sync' = RunSyncCycle(sync, connected)
  /\ Bounded
  /\ UNCHANGED <<connected, enabled, endpoint>>

Toggle(on) ==
  /\ enabled' = on
  /\ sync' = OnSyncToggle(sync, on)
  /\ Bounded
  /\ UNCHANGED <<connected, endpoint>>

\* The login screen stores the settings and tells neither service of them.
Login ==
  /\ endpoint' = TRUE
  /\ enabled' = TRUE
  /\ UNCHANGED <<sync, connected>>

\* The endpoint field of the settings screen, which may be emptied.
SetServerEndpoint(given) ==
  /\ endpoint' = given
  /\ UNCHANGED <<sync, connected, enabled>>

\* Mutant: the timer is not started again.
NetworkChangesNoRestart(up) ==
  /\ up # connected
  /\ connected' = up
  /\ sync' = IF up THEN ConnectivityChanged(sync, TRUE)
                   ELSE StopPolling(ConnectivityChanged(sync, FALSE))
  /\ UNCHANGED <<enabled, endpoint>>

\* Mutant: a lost network stops the timer, a network that is back goes unnoticed.
NetworkChangesOneWay(up) ==
  /\ up # connected
  /\ connected' = up
  /\ sync' = IF up THEN sync ELSE StopPolling(ConnectivityChanged(sync, FALSE))
  /\ UNCHANGED <<enabled, endpoint>>

\* ConnectivityState's listener, SyncService.onConnectivityChanged.
NetworkChanges(up) ==
  LET t == ConnectivityChanged(sync, up)
  IN /\ up # connected
     /\ connected' = up
     /\ \/ up /\ t.state = "active" /\ sync' = StartTimer(t, TRUE)
        \/ up /\ t.state # "active" /\ sync' = t
        \/ ~up /\ sync' = StopPolling(t)
     /\ Bounded
     /\ UNCHANGED <<enabled, endpoint>>

CycleSucceeds ==
  /\ sync.inProgress > 0
  /\ sync' = [RecordSuccess(sync) EXCEPT !.inProgress = @ - 1]
  /\ UNCHANGED <<connected, enabled, endpoint>>

CycleFails ==
  /\ sync.inProgress > 0
  /\ sync' = [RecordFailure(sync) EXCEPT !.inProgress = @ - 1]
  /\ UNCHANGED <<connected, enabled, endpoint>>

Next ==
  \/ Tick \/ ManualSync \/ Login \/ CycleSucceeds \/ CycleFails
  \/ \E b \in BOOLEAN : Toggle(b) \/ NetworkChanges(b) \/ SetServerEndpoint(b)

Spec == Init /\ [][Next]_vars

-----------------------------------------------------------------------------
\* The failure counter stays within the threshold and what cycles in progress
\* can still add to it.
TypeOK ==
  /\ sync \in [state : SyncState, failures : 0 .. Threshold + MaxCycles,
              timer : BOOLEAN, inProgress : 0 .. MaxCycles]
  /\ connected \in BOOLEAN
  /\ enabled \in BOOLEAN
  /\ endpoint \in BOOLEAN

\* An active device has not used up its failures: whichever overlapping cycles
\* fail, in whichever state, coming back to active starts the count again.
ActiveBelowThreshold == sync.state = "active" => sync.failures < Threshold

\* noNetwork is left when the network is back.  It must be: the timer is stopped
\* in that state, so nothing else would ever leave it.
NoNetworkIsTrue == sync.state = "noNetwork" => ~connected

\* A device that becomes active polls: the state and the timer, kept by different
\* classes, do not drift apart.
ActivePollsAgain ==
  [][sync.state # "active" /\ sync'.state = "active" => sync'.timer]_vars
=============================================================================
