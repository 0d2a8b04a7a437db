---------------------------- MODULE SlotRecovery ----------------------------
(***************************************************************************)
(* Quiet recovery of the camera in one role: how a lost camera is          *)
(* suspended, reopened by a supervisor or given up, while the observer     *)
(* connects and disconnects.                                               *)
(*                                                                         *)
(* Sources: session/src/camera/{recovery,reconnect}.rs, the teardown of    *)
(* lifecycle/disconnect.rs, the connect of lifecycle/mod.rs, and the       *)
(* Recovery state of state/camera_slot.rs.                                 *)
(*                                                                         *)
(* Three kinds of task interleave.  A reporter is a capture loop, a guide  *)
(* loop or a monitor that lost its handle; a client is one Connect or      *)
(* Disconnect request; a supervisor reopens.  A step ends where the code   *)
(* lets go of a lock or awaits.                                            *)
(***************************************************************************)
EXTENDS Integers, FiniteSets

CONSTANTS
    Camera, NoCamera,
    Reporter, Client, Supervisor,
    NoTask,         \* nobody holds camera_connect_lock
    MaxFaults,      \* bound on the faults reported
    MaxRequests,    \* bound on requests and settings edits
    MaxAttempts     \* reopens that start inside TOTAL_BUDGET

Task == Reporter \cup Client \cup Supervisor

ASSUME TaskAssumption ==
    /\ NoCamera \notin Camera
    /\ NoTask \notin Task
    /\ Reporter \cap Client = {}
    /\ Reporter \cap Supervisor = {}
    /\ Client \cap Supervisor = {}

ASSUME BoundAssumption ==
    MaxFaults \in Nat /\ MaxRequests \in Nat /\ MaxAttempts \in Nat \ {0}

VARIABLES
    entry,          \* the roster's camera in this role
    recovery,       \* the slot's Recovery state
    inFlight,       \* reconnect_in_flight
    lock,           \* who holds camera_connect_lock
    autoReconnect,  \* the setting
    status,         \* what recovery has told the clients
    pc, cam, cause, \* each task's place, the camera it is about, the cause
    want,           \* the camera a Connect is for
    attempts,       \* reopens the supervisor in flight has started
    opened,         \* cameras that have had a handle to lose
    faults, requests,
    gone,           \* history: cameras the observer disconnected
    strayed         \* history: a suspension began with no entry behind it

slotVars == <<entry, recovery, inFlight, lock, autoReconnect, status>>
taskVars == <<pc, cam, cause, want>>
histVars == <<opened, faults, requests, gone, strayed>>
vars == <<slotVars, taskVars, attempts, histVars>>

Recoveries == {"none", "suspended", "installing", "refaulted"}
Causes == {"requested", "device_fault", "recovery_failed"}
Places == {"idle", "finalizing", "suspending", "detaching", "ending", "removing",
           "reporting", "queueing", "connecting", "opening", "starting",
           "attempting", "reopening", "checking", "claiming", "installing",
           "finishing", "resuming", "retrying", "failing", "releasing",
           "rechecking"}

TypeOK ==
    /\ entry \in Camera \cup {NoCamera}
    /\ recovery \in Recoveries
    /\ inFlight \in BOOLEAN
    /\ lock \in Task \cup {NoTask}
    /\ autoReconnect \in BOOLEAN
    /\ status \in {"none", "reconnecting", "failed"}
    /\ pc \in [Task -> Places]
    /\ cam \in [Task -> Camera \cup {NoCamera}]
    /\ cause \in [Task -> Causes]
    /\ want \in [Task -> Camera \cup {NoCamera}]
    /\ attempts \in 0 .. MaxAttempts
    /\ opened \subseteq Camera
    /\ faults \in 0 .. MaxFaults
    /\ requests \in 0 .. MaxRequests
    /\ gone \subseteq Camera
    /\ strayed \in BOOLEAN

Init ==
    /\ entry = NoCamera
    /\ recovery = "none"
    /\ inFlight = FALSE
    /\ lock = NoTask
    /\ autoReconnect = TRUE
    /\ status = "none"
    /\ pc = [t \in Task |-> "idle"]
    /\ cam = [t \in Task |-> NoCamera]
    /\ cause = [t \in Task |-> "requested"]
    /\ want = [t \in Task |-> NoCamera]
    /\ attempts = 0
    /\ opened = {}
    /\ faults = 0
    /\ requests = 0
    /\ gone = {}
    /\ strayed = FALSE

IsRecovering == recovery # "none"

\* "Whether `recorded` is still the camera suspended in its role."
StillRecovering(s) == recovery = "suspended" /\ entry = cam[s]

\* A task that is over keeps nothing.
Goto(t, place) ==
    /\ pc' = [pc EXCEPT ![t] = place]
    /\ cam' = IF place = "idle" THEN [cam EXCEPT ![t] = NoCamera] ELSE cam
    /\ want' = IF place = "idle" THEN [want EXCEPT ![t] = NoCamera] ELSE want
    /\ cause' = IF place = "idle" THEN [cause EXCEPT ![t] = "requested"] ELSE cause

Become(t, place, c, w, why) ==
    /\ pc' = [pc EXCEPT ![t] = place]
    /\ cam' = [cam EXCEPT ![t] = c]
    /\ want' = [want EXCEPT ![t] = w]
    /\ cause' = [cause EXCEPT ![t] = why]

Unlock(t) == lock' = IF lock = t THEN NoTask ELSE lock

-----------------------------------------------------------------------------
(* Starting a supervisor: a compare-and-set on reconnect_in_flight.  The   *)
(* caller is done.                                                         *)

Handover(t, s, c) ==
    /\ pc' = [pc EXCEPT ![t] = "idle", ![s] = "starting"]
    /\ cam' = [cam EXCEPT ![t] = NoCamera, ![s] = c]
    /\ want' = [want EXCEPT ![t] = NoCamera]
    /\ cause' = [cause EXCEPT ![t] = "requested", ![s] = "recovery_failed"]

\* Mutant: the flag is set without looking at it.
SpawnUnguarded(t, c) ==
    \E s \in Supervisor :
        /\ pc[s] = "idle" \/ s = t
        /\ inFlight' = TRUE
        /\ attempts' = 0
        /\ Handover(t, s, c)

Spawn(t, c) ==
    \/ /\ inFlight
       /\ Goto(t, "idle")
       /\ UNCHANGED <<inFlight, attempts>>
    \/ /\ ~inFlight
       /\ \E s \in Supervisor :
            /\ pc[s] = "idle" \/ s = t
            /\ inFlight' = TRUE
            /\ attempts' = 0
            /\ Handover(t, s, c)

-----------------------------------------------------------------------------
(* finalize_disconnect, run by all three kinds of task.                    *)

\* Where a task goes when its teardown is over.
AfterTeardown(t) ==
    CASE t \in Supervisor /\ cause[t] = "recovery_failed" -> "releasing"
      [] t \in Supervisor /\ cause[t] # "recovery_failed" -> "retrying"
      [] t \in Client /\ want[t] # NoCamera -> "opening"
      [] OTHER -> "idle"

\* A Connect that vacated the role keeps the lock for the open that follows.
LeaveTeardown(t, place) ==
    /\ Goto(t, place)
    /\ IF t \in Client /\ want[t] # NoCamera THEN UNCHANGED lock ELSE Unlock(t)

\* A report about a camera the role no longer holds is dropped; a device
\* fault of the one it holds is suspended when reconnecting is on.
FinalizeName(t) ==
    /\ pc[t] = "finalizing"
    /\ IF entry \notin {NoCamera, cam[t]}
         THEN LeaveTeardown(t, AfterTeardown(t))
         ELSE /\ Goto(t, IF cause[t] = "device_fault" /\ autoReconnect /\ entry = cam[t]
                           THEN "suspending" ELSE "ending")
              /\ UNCHANGED lock
    /\ UNCHANGED <<entry, recovery, inFlight, autoReconnect, status, attempts, histVars>>

EndRecovery(t) ==
    /\ pc[t] = "ending"
    /\ recovery' = "none"
    /\ Goto(t, "removing")
    /\ UNCHANGED <<entry, inFlight, lock, autoReconnect, status, attempts, histVars>>

\* Entry and phase leave in one transaction.  A fault that was not suspended
\* goes on to have the supervisor report it.
Remove(t) ==
    /\ pc[t] = "removing"
    /\ entry' = IF entry = cam[t] THEN NoCamera ELSE entry
    /\ status' = IF cause[t] = "requested" THEN "none" ELSE status
    /\ gone' = IF t \in Client THEN gone \cup {cam[t]} ELSE gone
    /\ LeaveTeardown(t, IF cause[t] = "device_fault" /\ entry = cam[t]
                          THEN "reporting" ELSE AfterTeardown(t))
    /\ UNCHANGED <<recovery, inFlight, autoReconnect, attempts, opened, faults, requests, strayed>>

-----------------------------------------------------------------------------
(* A device fault.                                                         *)

ReportFault(r, c) ==
    /\ pc[r] = "idle"
    /\ faults < MaxFaults
    /\ c \in opened
    /\ faults' = faults + 1
    /\ Become(r, "finalizing", c, NoCamera, "device_fault")
    /\ UNCHANGED <<slotVars, attempts, opened, requests, gone, strayed>>

\* Nothing keeps the entry in place between the check above and this.
Strays == entry = NoCamera \/ \E t \in Task : pc[t] = "removing"

BeginSuspend(r) ==
    /\ pc[r] = "suspending"
    /\ recovery' = CASE recovery = "none" -> "suspended"
                     [] recovery = "installing" -> "refaulted"
                     [] OTHER -> recovery
    /\ Goto(r, IF recovery = "none" THEN "detaching" ELSE "idle")
    /\ strayed' = (strayed \/ (recovery = "none" /\ Strays))
    /\ UNCHANGED <<entry, inFlight, lock, autoReconnect, status, attempts, opened, faults, requests, gone>>

\* The lost handle and its monitor are dropped, then the supervisor started.
DetachAndSpawn(r) ==
    /\ pc[r] = "detaching"
    /\ Spawn(r, cam[r])
    /\ UNCHANGED <<entry, recovery, lock, autoReconnect, status, histVars>>

\* Reconnecting is off: the supervisor is there to say so.
ReportRemoved(r) ==
    /\ pc[r] = "reporting"
    /\ Spawn(r, cam[r])
    /\ UNCHANGED <<entry, recovery, lock, autoReconnect, status, histVars>>

-----------------------------------------------------------------------------
(* The observer.                                                           *)

Request(k, c, w, place) ==
    /\ pc[k] = "idle"
    /\ requests < MaxRequests
    /\ requests' = requests + 1
    /\ Become(k, place, c, w, "requested")
    /\ UNCHANGED <<slotVars, attempts, opened, faults, gone, strayed>>

Connect(k, c) == Request(k, NoCamera, c, "connecting")

Disconnect(k, c) ==
    /\ entry = c
    /\ Request(k, c, NoCamera, IF IsRecovering THEN "queueing" ELSE "finalizing")

\* The reopen is over.  The camera may have come back meanwhile: then it is
\* disconnected the ordinary way, the lock let go.
QueuedDisconnect(k) ==
    /\ pc[k] = "queueing"
    /\ lock = NoTask
    /\ lock' = IF IsRecovering THEN k ELSE NoTask
    /\ Goto(k, "finalizing")
    /\ UNCHANGED <<entry, recovery, inFlight, autoReconnect, status, attempts, histVars>>

\* Connected already; or the role is empty; or it is vacated, unless busy.
ConnectLocked(k) ==
    /\ pc[k] = "connecting"
    /\ lock = NoTask
    /\ \/ /\ entry = want[k]
          /\ Goto(k, "idle")
          /\ UNCHANGED lock
       \/ /\ entry = NoCamera
          /\ Goto(k, "opening")
          /\ lock' = k
       \/ /\ entry \notin {NoCamera, want[k]}
          /\ \/ /\ Become(k, "finalizing", entry, want[k], "requested")
                /\ lock' = k
             \/ /\ Goto(k, "idle")
                /\ UNCHANGED lock
    /\ UNCHANGED <<entry, recovery, inFlight, autoReconnect, status, attempts, histVars>>

ConnectInstall(k) ==
    /\ pc[k] = "opening"
    /\ lock = k
    /\ entry' = want[k]
    /\ status' = "none"
    /\ opened' = opened \cup {want[k]}
    /\ gone' = gone \ {want[k]}
    /\ lock' = NoTask
    /\ Goto(k, "idle")
    /\ UNCHANGED <<recovery, inFlight, autoReconnect, attempts, faults, requests, strayed>>

ConnectFails(k) ==
    /\ pc[k] = "opening"
    /\ Unlock(k)
    /\ Goto(k, "idle")
    /\ UNCHANGED <<entry, recovery, inFlight, autoReconnect, status, attempts, histVars>>

ToggleAutoReconnect ==
    /\ requests < MaxRequests
    /\ requests' = requests + 1
    /\ autoReconnect' = ~autoReconnect
    /\ UNCHANGED <<entry, recovery, inFlight, lock, status, taskVars, attempts, opened, faults, gone, strayed>>

\* The observer closes the notice of a recovery that failed.
DismissFailure ==
    /\ status = "failed"
    /\ status' = "none"
    /\ UNCHANGED <<entry, recovery, inFlight, lock, autoReconnect, taskVars, attempts, histVars>>

-----------------------------------------------------------------------------
(* The supervisor.                                                         *)

SupStep(s, from, to) ==
    /\ pc[s] = from
    /\ Goto(s, to)
    /\ UNCHANGED <<autoReconnect, faults, requests, gone, strayed>>

\* Before any attempt: reconnecting may be off; the wait for abandoned calls.
Start(s) ==
    /\ SupStep(s, "starting", IF autoReconnect THEN "attempting" ELSE "failing")
    /\ status' = IF autoReconnect THEN status ELSE "failed"
    /\ UNCHANGED <<entry, recovery, inFlight, lock, attempts, opened>>

\* Switched off, or out of budget: record it, then tear the session down.
GiveUp(s) ==
    /\ SupStep(s, "attempting", "failing")
    /\ status' = "failed"
    /\ UNCHANGED <<entry, recovery, inFlight, lock, attempts, opened>>

\* Mutant: the notice is left up.
AbandonSilently(s) ==
    /\ autoReconnect /\ ~StillRecovering(s)
    /\ SupStep(s, "attempting", "releasing")
    /\ UNCHANGED <<status, entry, recovery, inFlight, lock, attempts, opened>>

Abandon(s) ==
    /\ autoReconnect /\ ~StillRecovering(s)
    /\ SupStep(s, "attempting", "releasing")
    /\ status' = "none"
    /\ UNCHANGED <<entry, recovery, inFlight, lock, attempts, opened>>

\* Mutant: the budget is not looked at.
AttemptUnbudgeted(s) ==
    /\ autoReconnect /\ StillRecovering(s)
    /\ SupStep(s, "attempting", "reopening")
    /\ attempts' = attempts + 1
    /\ UNCHANGED <<status, entry, recovery, inFlight, lock, opened>>

Attempt(s) ==
    /\ autoReconnect /\ StillRecovering(s)
    /\ attempts < MaxAttempts
    /\ SupStep(s, "attempting", "reopening")
    /\ attempts' = attempts + 1
    /\ UNCHANGED <<status, entry, recovery, inFlight, lock, opened>>

\* The connect lock is held from here to the end of the install.
Reopen(s) ==
    /\ lock = NoTask
    /\ SupStep(s, "reopening", IF StillRecovering(s) THEN "checking" ELSE "retrying")
    /\ lock' = IF StillRecovering(s) THEN s ELSE NoTask
    /\ UNCHANGED <<status, entry, recovery, inFlight, attempts, opened>>

OpenFails(s) ==
    /\ SupStep(s, "checking", "retrying")
    /\ Unlock(s)
    /\ UNCHANGED <<status, entry, recovery, inFlight, attempts, opened>>

\* The device is open: is it still wanted?
CheckOpened(s) ==
    /\ SupStep(s, "checking", IF StillRecovering(s) THEN "claiming" ELSE "retrying")
    /\ IF StillRecovering(s) THEN UNCHANGED lock ELSE Unlock(s)
    /\ UNCHANGED <<status, entry, recovery, inFlight, attempts, opened>>

BeginInstall(s) ==
    /\ SupStep(s, "claiming", IF recovery = "suspended" THEN "installing" ELSE "retrying")
    /\ recovery' = IF recovery = "suspended" THEN "installing" ELSE recovery
    /\ IF recovery = "suspended" THEN UNCHANGED lock ELSE Unlock(s)
    /\ UNCHANGED <<status, entry, inFlight, attempts, opened>>

\* Mutant: the slot is left as it is when the setup does not return.
InstallFailsKeepingClaim(s) ==
    /\ SupStep(s, "installing", "retrying")
    /\ Unlock(s)
    /\ UNCHANGED <<status, recovery, entry, inFlight, attempts, opened>>

\* The hardware setup did not return: `abandon_install`.
InstallFails(s) ==
    /\ SupStep(s, "installing", "retrying")
    /\ recovery' = IF recovery \in {"installing", "refaulted"} THEN "suspended" ELSE recovery
    /\ Unlock(s)
    /\ UNCHANGED <<status, entry, inFlight, attempts, opened>>

Install(s) ==
    /\ SupStep(s, "installing", "finishing")
    /\ entry' = cam[s]
    /\ opened' = opened \cup {cam[s]}
    /\ UNCHANGED <<status, recovery, inFlight, lock, attempts>>

\* Mutant: a recovery ended meanwhile counts as a healthy install.
FinishInstallIgnoringEnd(s) ==
    /\ pc[s] = "finishing"
    /\ recovery' = CASE recovery = "installing" -> "none"
                     [] recovery = "refaulted" -> "suspended"
                     [] OTHER -> recovery
    /\ Goto(s, IF recovery = "refaulted" THEN "retrying" ELSE "resuming")
    /\ Unlock(s)
    /\ UNCHANGED <<entry, inFlight, autoReconnect, status, attempts, histVars>>

\* Healthy; failed again meanwhile; or recovery was ended, and what was
\* installed is disconnected.
FinishInstall(s) ==
    /\ pc[s] = "finishing"
    /\ \/ /\ recovery = "installing"
          /\ recovery' = "none"
          /\ Goto(s, "resuming")
       \/ /\ recovery = "refaulted"
          /\ recovery' = "suspended"
          /\ Goto(s, "retrying")
       \/ /\ recovery \in {"none", "suspended"}
          /\ Become(s, "finalizing", cam[s], NoCamera, "requested")
          /\ UNCHANGED recovery
    /\ Unlock(s)
    /\ UNCHANGED <<entry, inFlight, autoReconnect, status, attempts, histVars>>

\* The camera is back; its capture resumes.
Resume(s) ==
    /\ SupStep(s, "resuming", "releasing")
    /\ status' = "none"
    /\ UNCHANGED <<entry, recovery, inFlight, lock, attempts, opened>>

\* The wait after a failed attempt, past NOTICE_AFTER with a notice.
Retry(s) ==
    /\ SupStep(s, "retrying", "attempting")
    /\ status' \in {status, "reconnecting"}
    /\ UNCHANGED <<entry, recovery, inFlight, lock, attempts, opened>>

TearDown(s) ==
    /\ pc[s] = "failing"
    /\ Become(s, IF StillRecovering(s) THEN "finalizing" ELSE "releasing",
              cam[s], NoCamera, "recovery_failed")
    /\ UNCHANGED <<slotVars, attempts, histVars>>

\* Mutant: checked first, cleared second.
ReleaseAfterCheck(s) ==
    /\ pc[s] = "releasing"
    /\ IF recovery = "suspended" /\ entry # NoCamera
         THEN /\ Become(s, "starting", entry, NoCamera, "recovery_failed")
              /\ attempts' = 0
         ELSE /\ Goto(s, "rechecking")
              /\ UNCHANGED attempts
    /\ UNCHANGED <<slotVars, histVars>>

\* Mutant: nobody looks for a fault that was refused a supervisor.
ReleaseUnchecked(s) ==
    /\ SupStep(s, "releasing", "idle")
    /\ inFlight' = FALSE
    /\ UNCHANGED <<status, entry, recovery, lock, attempts, opened>>

\* "Cleared first and checked second."
ReleaseFlight(s) ==
    /\ SupStep(s, "releasing", "rechecking")
    /\ inFlight' = FALSE
    /\ UNCHANGED <<status, entry, recovery, lock, attempts, opened>>

RecheckOrphan(s) ==
    /\ pc[s] = "rechecking"
    /\ IF recovery = "suspended" /\ entry # NoCamera
         THEN Spawn(s, entry)
         ELSE Goto(s, "idle") /\ UNCHANGED <<inFlight, attempts>>
    /\ UNCHANGED <<entry, recovery, lock, autoReconnect, status, histVars>>

-----------------------------------------------------------------------------
Teardown(t) == FinalizeName(t) \/ EndRecovery(t) \/ Remove(t)

ReporterStep(r) ==
    \/ BeginSuspend(r) \/ DetachAndSpawn(r) \/ ReportRemoved(r) \/ Teardown(r)

ClientStep(k) ==
    \/ QueuedDisconnect(k) \/ ConnectLocked(k)
    \/ ConnectInstall(k) \/ ConnectFails(k) \/ Teardown(k)

SupervisorStep(s) ==
    \/ Start(s) \/ GiveUp(s) \/ Abandon(s) \/ Attempt(s)
    \/ Reopen(s) \/ OpenFails(s) \/ CheckOpened(s) \/ BeginInstall(s)
    \/ InstallFails(s) \/ Install(s) \/ FinishInstall(s) \/ Resume(s) \/ Retry(s)
    \/ TearDown(s) \/ ReleaseFlight(s) \/ RecheckOrphan(s) \/ Teardown(s)

Next ==
    \/ \E r \in Reporter : ReporterStep(r) \/ \E c \in Camera : ReportFault(r, c)
    \/ \E k \in Client : ClientStep(k) \/ \E c \in Camera : Connect(k, c) \/ Disconnect(k, c)
    \/ \E s \in Supervisor : SupervisorStep(s)
    \/ ToggleAutoReconnect \/ DismissFailure

Spec == Init /\ [][Next]_vars

\* Every task that has begun goes on, and the FIFO of a tokio mutex lets each
\* waiter in: the strong fairness is for the two that wait for the lock.
Fairness ==
    /\ \A r \in Reporter : WF_vars(ReporterStep(r))
    /\ \A k \in Client : WF_vars(ClientStep(k))
                            /\ SF_vars(QueuedDisconnect(k) \/ ConnectLocked(k))
    /\ \A s \in Supervisor : WF_vars(SupervisorStep(s)) /\ SF_vars(Reopen(s))

FairSpec == Spec /\ Fairness

-----------------------------------------------------------------------------
(* Properties.                                                             *)

\* "The single-flight guard": between taking reconnect_in_flight and clearing
\* it, one supervisor at most drives the slot, so two of them never open one
\* device at once.
OneSupervisor ==
    \A s, t \in Supervisor :
        (pc[s] \notin {"idle", "rechecking"} /\ pc[t] \notin {"idle", "rechecking"})
            => s = t

\* A slot that reads Installing has a supervisor inside its install, holding
\* the connect lock: on no path is the slot left claimed, where every later
\* begin_install would refuse it and no fault would suspend it.
InstallIsAttended ==
    recovery \in {"installing", "refaulted"} =>
        \E s \in Supervisor : pc[s] \in {"installing", "finishing"} /\ lock = s

\* A suspended camera has somebody to bring it back: a supervisor in flight,
\* one about to look again, or the reporter about to start one.  Excepts a
\* suspension that began while its entry was being removed.
SuspensionIsAttended ==
    (recovery = "suspended" /\ entry # NoCamera /\ ~strayed) =>
        \/ inFlight
        \/ \E t \in Task : pc[t] \in {"detaching", "rechecking"}

\* What Recovery::Suspended says (camera_slot.rs:101): "the camera stays
\* registered and a supervisor reopens it", without the exception.
EverySuspensionIsAttended ==
    (recovery = "suspended" /\ entry # NoCamera) =>
        \/ inFlight
        \/ \E t \in Task : pc[t] \in {"detaching", "rechecking"}

\* A camera the observer disconnected is not brought back by a reopen that
\* was under way: it is registered again only while the supervisor that did
\* so is about to find its recovery ended, or is taking it down again.
DisconnectIsFinal ==
    (entry \in gone /\ ~strayed) =>
        \E s \in Supervisor :
            \/ pc[s] = "finishing" /\ recovery \in {"none", "suspended"}
            \/ pc[s] \in {"finalizing", "ending", "removing"} /\ cam[s] = entry

\* "Reconnecting" is shown only while a supervisor is in flight to take it
\* down, so no sync restates it for good.
NoticeHasASupervisor == status = "reconnecting" => inFlight

\* A dropout ends: the slot is healthy again with the camera back, or its
\* session is over.  The budget is what ends it when the camera never answers.
DropoutEnds == (recovery = "suspended") ~> (recovery = "none" \/ strayed)

=============================================================================
