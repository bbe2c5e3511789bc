------------------------------ MODULE Location ------------------------------
(***************************************************************************)
(* DKDeferredLocation: a location manager whose second update is the       *)
(* answer, and a timer that gives up on it.                                *)
(***************************************************************************)
EXTENDS RunLoop

CONSTANTS
  Locations,
  MaxUpdates    \* bound: the updates one manager sends

ASSUME LocationAssumption == MaxUpdates \in Nat

VARIABLES
  manager,     \* manager[l]: made yet, and updating
  updates,
  failed,
  timer        \* timer[l]: the callLater: of l is pending

locationVars == <<manager, updates, failed, timer>>

LocationTypeOK ==
  /\ manager \in [Locations -> {"none", "updating", "stopped"}]
  /\ updates \in [Locations -> 0..MaxUpdates]
  /\ failed \in [Locations -> BOOLEAN]
  /\ timer \in [Locations -> BOOLEAN]

LocationInit ==
  /\ manager = [l \in Locations |-> "none"]
  /\ updates = [l \in Locations |-> 0]
  /\ failed = [l \in Locations |-> FALSE]
  /\ timer = [l \in Locations |-> FALSE]

-----------------------------------------------------------------------------

\* Mutant of Stopped: a manager that has sent an update is left as it is.
StoppedUnheard(l) == IF updates[l] = 0 THEN [manager EXCEPT ![l] = "stopped"] ELSE manager

\* stopUpdatingLocation
Stopped(l) == [manager EXCEPT ![l] = "stopped"]

\* getLocation
GetLocation(l) ==
  /\ ClientRuns
  /\ manager[l] = "none"
  /\ manager' = [manager EXCEPT ![l] = "updating"]
  /\ timer' = [timer EXCEPT ![l] = TRUE]
  /\ UNCHANGED <<updates, failed, loopVars>>

\* The manager calls its delegate while it updates, and with "late" once more.
Reports(l) ==
  /\ Spinning
  /\ manager[l] = "updating" \/ ("late" \in Liberties /\ manager[l] = "stopped")

\* updates > 1, of the updates before this one
Enough(l) == updates[l] >= 1

\* locationManager:didUpdateToLocation:fromLocation:
DidUpdate(l) ==
  /\ Reports(l)
  /\ updates[l] < MaxUpdates
  /\ updates' = [updates EXCEPT ![l] = @ + 1]
  /\ IF Enough(l)
     THEN /\ manager' = Stopped(l)
          /\ IF failed[l] THEN UNCHANGED loopVars ELSE Answer(l, 0, stack)
     ELSE UNCHANGED <<manager, loopVars>>
  /\ UNCHANGED <<failed, timer>>

\* locationManager:didFailWithError:
LocationFails(l) ==
  /\ Reports(l)
  /\ manager' = Stopped(l)
  /\ Answer(l, 1, stack)
  /\ UNCHANGED <<updates, failed, timer>>

\* Mutant of TimedOut: the timer gives up only on a silent manager.
TimedOutUnheard(l) == fired[l] = -1 /\ updates[l] = 0

TimedOut(l) == fired[l] = -1

\* _timeout:
Timeout(l) ==
  /\ Spinning
  /\ timer[l]
  /\ timer' = [timer EXCEPT ![l] = FALSE]
  /\ IF TimedOut(l)
     THEN /\ manager' = Stopped(l)
          /\ failed' = [failed EXCEPT ![l] = TRUE]
          /\ Answer(l, 1, stack)
     ELSE UNCHANGED <<manager, failed, loopVars>>
  /\ UNCHANGED updates

LocationNext(l) == DidUpdate(l) \/ LocationFails(l) \/ Timeout(l)

-----------------------------------------------------------------------------
(* Properties *)

\* The manager is stopped by the time there is an answer, unless the answer
\* was the client's cancel: getLocation makes a deferred without a canceller,
\* and the timer that finds it fired leaves the manager updating.
LocationStops ==
  \A l \in Locations :
    fired[l] # -1 /\ manager[l] = "updating" => l \in cancelled
=============================================================================
