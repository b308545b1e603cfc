------------------------------ MODULE OpenApp ------------------------------
(***************************************************************************)
(* The devices of Sync where the app is open, and what starts their runs:   *)
(* autoSync, the recovery screen and the user.  The app is taken to be in   *)
(* view and online; one that is not only does less (SyncShell follows that, *)
(* in several tabs).                                                        *)
(***************************************************************************)
EXTENDS Sync

CONSTANTS
  OpenApps,    \* the devices with the app open; the others may stop at any time
  MaxCutShort  \* bound: how often a run of an open app is cut short

ASSUME OpenAppsAssumption == OpenApps \subseteq Device /\ MaxCutShort \in Nat

VARIABLES
  timer,    \* autoSync of an open app has its timer set or a check under way
  cutShort  \* number of runs of open apps cut short

appVars == <<vars, timer, cutShort>>

AppInit == Init /\ timer = [d \in OpenApps |-> TRUE] /\ cutShort = 0

\* check of autoSync, which clears the timer first.  With an error on record it
\* returns and sets none; otherwise a run starts, or it is not time for one, or one is
\* under way, and the timer is set again.
check(d) ==
  /\ timer' = [timer EXCEPT ![d] = ~meta[d].error]
  /\ UNCHANGED vars \/ AutoSync(d)
  /\ UNCHANGED cutShort

TimerFires(d) == timer[d] /\ check(d)

\* The app comes into view or online again, or its session changes.
handleWake(d) == check(d)

\* A reload or a new session ends the run.
CutShort(d) ==
  /\ abandon(d)
  /\ d \in OpenApps => cutShort < MaxCutShort
  /\ cutShort' = IF d \in OpenApps THEN cutShort + 1 ELSE cutShort
  /\ UNCHANGED timer

AppNext ==
  \/ Act /\ UNCHANGED <<timer, cutShort>>
  \/ \E d \in Device : CutShort(d)
  \/ \E d \in OpenApps : TimerFires(d)
  \/ \E d \in OpenApps : handleWake(d)

\* What a run awaits settles, a timer that is set fires, and the recovery screen
\* resumes an interrupted restore when the lock is its.  Nothing makes the user
\* act and nothing wakes an app that has no timer.
FairSpec ==
  /\ AppInit /\ [][AppNext]_appVars
  /\ \A d \in OpenApps :
       /\ WF_appVars(Step(d) /\ UNCHANGED <<timer, cutShort>>)
       /\ WF_appVars(TimerFires(d))
       /\ SF_appVars(/\ meta[d].operation = "restoring" /\ resumeRestore(d)
                      /\ UNCHANGED <<timer, cutShort>>)

-----------------------------------------------------------------------------
(* Properties *)

\* Once the user makes no more edits, a device with the app open and the timer of
\* autoSync set empties its queue and comes to the server's state, whatever the other
\* devices do or leave undone, unless it shows an error or is being restored.  The timer
\* is lost where a check has met an error and nothing has woken the app since: the Retry
\* that clears the error does not set it again.
DevicesConverge ==
  \A d \in OpenApps :
    []<>(\/ outbox[d] = {} /\ \A i \in Id : IsCanonical(ents[d][i], i, Len(log))
         \/ meta[d].error \/ meta[d].operation # "idle"
         \/ ~timer[d])

\* Where the app is open, a restore that was cut short is resumed and ends.
RestoreEnds == \A d \in OpenApps : meta[d].operation = "restoring" ~> meta[d].operation # "restoring"
=============================================================================
