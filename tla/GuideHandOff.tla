---------------------------- MODULE GuideHandOff ----------------------------
(***************************************************************************)
(* The handle of the guide camera and the tasks that pass it around: the   *)
(* monitor that polls it, the guide loop that exposes with it, and the     *)
(* observer's requests, which end by closing it.                           *)
(*                                                                         *)
(* Sources: session/src/camera/lifecycle/hand_off.rs and mod.rs,           *)
(* camera/monitor/mod.rs and ffi_worker.rs, state/guide_loop.rs,           *)
(* capture/guide_task/mod.rs, and what touches the handle in               *)
(* camera/install.rs and lifecycle/disconnect.rs.                          *)
(*                                                                         *)
(* The setting is automatic reconnection off, so that every teardown is a  *)
(* finalize_disconnect; SlotRecovery has the slot that is suspended and    *)
(* reopened.  The camera is uncooled: it is never warmed up.  It is the    *)
(* same camera each time, since a reconnect of it is the hard case: a name *)
(* does not tell an old owner from a new one.                              *)
(*                                                                         *)
(* The handle is a Box that one owner has at a time; the slot's mutex is   *)
(* held only to take it or to put it back.  A step ends at such a mutex,   *)
(* at an await, or where a command is sent to another thread.              *)
(***************************************************************************)
EXTENDS Integers, FiniteSets

CONSTANTS
    Handle, NoHandle,   \* opened devices; a value is used again once dropped
    Monitor, Loop, Client,
    NoTask,
    MaxFaults,          \* bound on calls that never return and devices lost
    MaxRequests         \* bound on the observer's requests

Task == Monitor \cup Loop \cup Client

ASSUME TaskAssumption ==
    /\ NoHandle \notin Handle
    /\ NoTask \notin Task
    /\ Monitor \cap Loop = {} /\ Monitor \cap Client = {} /\ Loop \cap Client = {}

ASSUME BoundAssumption == MaxFaults \in Nat /\ MaxRequests \in Nat

VARIABLES
    connected, phase,   \* the roster's entry and its phase
    handle,             \* the handle in the slot
    newest, alive,      \* the handle opened last, and whether it is still open
    current, tx,        \* the monitor of the newest epoch; the one commands reach
    paused,             \* whether that one is paused_for_capture
    registered, running, cancel,  \* GuideLoops, and the switches that are set
    pc, holds,          \* each task's place and its handle
    after, waits,       \* what follows its stop, and the loop it waits for
    faults, requests,
    odd                 \* history: the races that have been run into

slotVars == <<connected, phase, handle, newest, alive>>
monVars == <<current, tx, paused>>
loopVars == <<registered, running, cancel>>
stopVars == <<after, waits>>
countVars == <<faults, requests, odd>>
vars == <<slotVars, monVars, loopVars, pc, holds, stopVars, countVars>>

Places == {"idle", "watching", "out", "putting",
           "queued", "waiting", "held", "taken", "exposing", "returning", "parking", "resuming",
           "opening", "installing", "starting",
           "retiring", "stopping", "awaiting", "closing", "removing"}

\* Three races the properties below except, each marked where it happens: a
\* stop gives up on a loop inside a vendor call, or finds in the slot a handle
\* the loop is still to take; what a hand-off tells the
\* monitor or the roster, which is never in one step with the move of the
\* handle, reaches a slot that has moved on; a handle is put back behind a
\* teardown, or its phase set, or the camera is connected again behind one.
Races == {"late", "crossed", "behind"}

TypeOK ==
    /\ connected \in BOOLEAN /\ phase \in {"disconnected", "idle", "guiding"}
    /\ handle \in Handle \cup {NoHandle}
    /\ newest \in Handle \cup {NoHandle} /\ alive \in BOOLEAN
    /\ current \in Monitor \cup {NoTask} /\ tx \in Monitor \cup {NoTask}
    /\ paused \in BOOLEAN
    /\ registered \in Loop \cup {NoTask} /\ running \in BOOLEAN /\ cancel \subseteq Loop
    /\ pc \in [Task -> Places]
    /\ holds \in [Task -> Handle \cup {NoHandle}]
    /\ after \in [Task -> {"idle", "retiring", "closing"}]
    /\ waits \in [Task -> Loop \cup {NoTask}]
    /\ faults \in 0 .. MaxFaults /\ requests \in 0 .. MaxRequests
    /\ odd \subseteq Races

Init ==
    /\ connected = FALSE /\ phase = "disconnected"
    /\ handle = NoHandle /\ newest = NoHandle /\ alive = FALSE
    /\ current = NoTask /\ tx = NoTask /\ paused = FALSE
    /\ registered = NoTask /\ running = FALSE /\ cancel = {}
    /\ pc = [t \in Task |-> "idle"]
    /\ holds = [t \in Task |-> NoHandle]
    /\ after = [t \in Task |-> "idle"]
    /\ waits = [t \in Task |-> NoTask]
    /\ faults = 0 /\ requests = 0 /\ odd = {}

Goto(t, place) == pc' = [pc EXCEPT ![t] = place]
Holds(t, h) == holds' = [holds EXCEPT ![t] = h]

\* Closing or dropping a handle closes the device only if no newer handle
\* has been opened since (DeviceLease).
Drop(h) == alive' = (alive /\ h # newest)

Fault == faults < MaxFaults /\ faults' = faults + 1

\* Another loop is after the handle, or has it.
Contended(l) ==
    \E k \in Loop \ {l} : pc[k] \in {"waiting", "held", "taken", "exposing"}

MarkIf(race, happens) == odd' = IF happens THEN odd \cup {race} ELSE odd

-----------------------------------------------------------------------------
(* The monitor.  Commands are read before the next poll, so a command is   *)
(* its effect: a shut-down monitor is the one tx no longer names.          *)

Rest(m) == IF m = tx THEN "watching" ELSE "idle"

\* monitor_call_since is set.
HasOut(m) == pc[m] \in {"out", "putting"}

Polls(m) == pc[m] = "watching" /\ ~paused

Poll(m) ==
    /\ Polls(m)
    /\ handle # NoHandle
    /\ Holds(m, handle) /\ handle' = NoHandle
    /\ Goto(m, "out")
    /\ UNCHANGED <<connected, phase, newest, alive, monVars, loopVars, stopVars, countVars>>

\* The call has not returned in time: the handle stays with it.  A camera
\* that has failed often enough is given up.
Overrun(m) ==
    /\ pc[m] = "out"
    /\ Fault
    /\ Drop(holds[m]) /\ Holds(m, NoHandle)
    /\ \E place \in {Rest(m), "retiring"} : Goto(m, place)
    /\ UNCHANGED <<connected, phase, handle, newest, monVars, loopVars, stopVars, requests, odd>>

\* Mutant: the phase alone tells whether the slot wants the handle back.
JudgeByPhase(m) ==
    /\ pc[m] = "out"
    /\ IF phase = "disconnected"
         THEN Goto(m, Rest(m)) /\ Drop(holds[m]) /\ Holds(m, NoHandle)
         ELSE Goto(m, "putting") /\ UNCHANGED <<alive, holds>>
    /\ UNCHANGED <<connected, phase, handle, newest, monVars, loopVars, stopVars, countVars>>

Judge(m) ==
    /\ pc[m] = "out"
    /\ IF phase = "disconnected" \/ m # current
         THEN Goto(m, Rest(m)) /\ Drop(holds[m]) /\ Holds(m, NoHandle)
         ELSE Goto(m, "putting") /\ UNCHANGED <<alive, holds>>
    /\ UNCHANGED <<connected, phase, handle, newest, monVars, loopVars, stopVars, countVars>>

Put(m) ==
    /\ pc[m] = "putting"
    /\ Goto(m, Rest(m)) /\ Holds(m, NoHandle)
    /\ IF handle = NoHandle THEN handle' = holds[m] /\ UNCHANGED alive
                            ELSE Drop(holds[m]) /\ UNCHANGED handle
    /\ MarkIf("behind", \E t \in Task : pc[t] = "removing")
    /\ UNCHANGED <<connected, phase, newest, monVars, loopVars, stopVars, faults, requests>>

\* A task on its way to putting the handle back within a poll's time.
Returning(t) == pc[t] \in {"out", "putting", "held", "taken", "returning", "parking"}

\* note_missing_handle: MISSING_HANDLE_TICKS polls, 2 s apart, outlast every
\* task that is about to return the handle.
MissHandle(m) ==
    /\ Polls(m)
    /\ handle = NoHandle /\ ~\E t \in Task : Returning(t)
    /\ Goto(m, "retiring")
    /\ UNCHANGED <<slotVars, monVars, loopVars, holds, stopVars, countVars>>

-----------------------------------------------------------------------------
(* The registry of guide loops.                                            *)

Register(l) ==
    /\ pc[l] = "idle" /\ registered = NoTask
    /\ registered' = l
    /\ cancel' = cancel \ {l}
    /\ UNCHANGED running

\* Mutant: whichever loop is registered is unregistered.
FinishAny(l) == registered' = NoTask /\ running' = FALSE

\* Mutant: a loop stays registered when it ends on its own.
FinishNever(l) == UNCHANGED <<registered, running>>

Finish(l) ==
    IF registered = l THEN registered' = NoTask /\ running' = FALSE
                      ELSE UNCHANGED <<registered, running>>

MarkRunning(l) == running' = (running \/ registered = l)

-----------------------------------------------------------------------------
(* The guide loop.                                                         *)

SendPause == paused' = (tx # NoTask)
SendResume == paused' = FALSE

\* A stop that landed before the take ends the loop here.
Take(l) ==
    /\ pc[l] = "queued"
    /\ IF l \in cancel
         THEN Goto(l, "idle") /\ UNCHANGED paused
         ELSE Goto(l, IF phase = "guiding" THEN "held" ELSE "waiting") /\ SendPause
    /\ UNCHANGED <<slotVars, current, tx, loopVars, holds, stopVars, countVars>>

\* Mutant: the phase is that of the imaging camera.
TakeHandleAsCapture(l) ==
    /\ pc[l] \in {"waiting", "held"}
    /\ handle # NoHandle
    /\ Holds(l, handle) /\ handle' = NoHandle
    /\ phase' = "capturing"
    /\ Goto(l, "taken")
    /\ MarkIf("crossed", ~paused)
    /\ UNCHANGED <<connected, newest, alive, monVars, loopVars, stopVars, faults, requests>>

TakeHandle(l) ==
    /\ pc[l] \in {"waiting", "held"}
    /\ handle # NoHandle
    /\ Holds(l, handle) /\ handle' = NoHandle
    /\ phase' = "guiding"
    /\ Goto(l, "taken")
    /\ MarkIf("crossed", ~paused)
    /\ UNCHANGED <<connected, newest, alive, monVars, loopVars, stopVars, faults, requests>>

\* abandon_hand_off.  HANDLE_WAIT_TIMEOUT (3.5 s) outlasts every return but
\* that of an exposure and of a slow poll.
WaitIsOver(l) == handle = NoHandle /\ ~\E t \in Task \ {l} : Returning(t)

\* The phase said that another loop has the handle: the monitor stays paused.
TakeRefused(l) ==
    /\ pc[l] = "held" /\ WaitIsOver(l)
    /\ Finish(l) /\ Goto(l, "idle")
    /\ UNCHANGED <<slotVars, monVars, cancel, holds, stopVars, countVars>>

\* A poll is still inside the driver: the handle is the monitor's.
TakeFindsBusy(l) ==
    /\ pc[l] = "waiting" /\ handle = NoHandle
    /\ \E m \in Monitor : HasOut(m)
    /\ SendResume
    /\ Finish(l) /\ Goto(l, "idle")
    /\ MarkIf("crossed", Contended(l))
    /\ UNCHANGED <<slotVars, current, tx, cancel, holds, stopVars, faults, requests>>

\* Nobody has it: it is lost.
TakeFails(l) ==
    /\ pc[l] = "waiting" /\ WaitIsOver(l)
    /\ SendResume
    /\ Finish(l) /\ Goto(l, "retiring")
    /\ MarkIf("crossed", Contended(l))
    /\ UNCHANGED <<slotVars, current, tx, cancel, holds, stopVars, faults, requests>>

RunLoop(l) ==
    /\ pc[l] = "taken"
    /\ MarkRunning(l)
    /\ Goto(l, "exposing")
    /\ UNCHANGED <<slotVars, monVars, registered, cancel, holds, stopVars, countVars>>

\* Between exposures, once told to stop.
EndLoop(l) ==
    /\ pc[l] = "exposing" /\ l \in cancel
    /\ Finish(l)
    /\ Goto(l, "returning")
    /\ UNCHANGED <<slotVars, monVars, cancel, holds, stopVars, countVars>>

\* The handle went with a call that never returned, or with its device.
LoseLoop(l) ==
    /\ pc[l] = "exposing"
    /\ Fault
    /\ Drop(holds[l]) /\ Holds(l, NoHandle)
    /\ Finish(l)
    /\ Goto(l, "retiring")
    /\ UNCHANGED <<connected, phase, handle, newest, monVars, cancel, stopVars, requests, odd>>

\* Mutant: the roster's entry is not looked at.
SupersededByHandle == handle # NoHandle

Superseded == ~connected \/ handle # NoHandle

GiveBack(l) ==
    /\ pc[l] = "returning"
    /\ IF Superseded THEN Goto(l, "idle") /\ Drop(holds[l]) /\ Holds(l, NoHandle)
                     ELSE Goto(l, "parking") /\ UNCHANGED <<alive, holds>>
    /\ UNCHANGED <<connected, phase, handle, newest, monVars, loopVars, stopVars, countVars>>

\* Whatever is in the slot is dropped.
Park(l) ==
    /\ pc[l] = "parking"
    /\ handle' = holds[l] /\ Holds(l, NoHandle)
    /\ IF handle = NoHandle THEN UNCHANGED alive ELSE Drop(handle)
    /\ Goto(l, "resuming")
    /\ MarkIf("behind", \E t \in Task : pc[t] = "removing")
    /\ UNCHANGED <<connected, phase, newest, monVars, loopVars, stopVars, faults, requests>>

ResumeMonitor(l) ==
    /\ pc[l] = "resuming"
    /\ phase' = "idle"
    /\ SendResume
    /\ Goto(l, "idle")
    /\ MarkIf("crossed", Contended(l))
    /\ UNCHANGED <<connected, handle, newest, alive, current, tx, loopVars, holds, stopVars, faults, requests>>

-----------------------------------------------------------------------------
(* guide_task::stop, and finalize_disconnect around it.                    *)

TearingDown(t) ==
    pc[t] \in {"retiring", "stopping", "awaiting", "closing", "removing"}

\* The monitor is told to go, and no command reaches it any more.
Retire(t) ==
    /\ pc[t] = "retiring"
    /\ tx' = NoTask
    /\ after' = [after EXCEPT ![t] = "closing"]
    /\ pc' = [u \in Task |-> CASE u = t -> "stopping"
                               [] u = tx /\ pc[u] = "watching" -> "idle"
                               [] OTHER -> pc[u]]
    /\ UNCHANGED <<slotVars, current, paused, loopVars, holds, waits, countVars>>

\* Unregistered first, so that a loop never waits for itself.
StopLoop(t) ==
    /\ pc[t] = "stopping"
    /\ registered' = NoTask /\ running' = FALSE
    /\ cancel' = IF registered = NoTask THEN cancel ELSE cancel \cup {registered}
    /\ waits' = [waits EXCEPT ![t] = registered]
    /\ Goto(t, "awaiting")
    /\ UNCHANGED <<slotVars, monVars, holds, after, countVars>>

\* The slot holds a handle again, the loop has ended, or it has been inside
\* a vendor call, or a teardown of its own, for the whole budget.
StopIsOver(t) ==
    handle # NoHandle \/ \A l \in Loop :
        l = waits[t] => pc[l] \in {"idle", "exposing"} \/ TearingDown(l)

StopReturns(t) ==
    /\ pc[t] = "awaiting" /\ StopIsOver(t)
    /\ Goto(t, after[t])
    /\ after' = [after EXCEPT ![t] = "idle"] /\ waits' = [waits EXCEPT ![t] = NoTask]
    /\ MarkIf("late", \E l \in Loop :
           l = waits[t] /\ pc[l] \in {"waiting", "held", "taken", "exposing"})
    /\ UNCHANGED <<slotVars, monVars, loopVars, holds, faults, requests>>

CloseHandle(t) ==
    /\ pc[t] = "closing"
    /\ handle' = NoHandle
    /\ IF handle = NoHandle THEN UNCHANGED alive ELSE Drop(handle)
    /\ Goto(t, "removing")
    /\ UNCHANGED <<connected, phase, newest, monVars, loopVars, holds, stopVars, countVars>>

\* Entry and phase leave together.
Remove(t) ==
    /\ pc[t] = "removing"
    /\ connected' = FALSE /\ phase' = "disconnected"
    /\ Goto(t, "idle")
    /\ MarkIf("behind", \E u \in Task : pc[u] \in {"putting", "parking", "resuming"})
    /\ UNCHANGED <<handle, newest, alive, monVars, loopVars, holds, stopVars, faults, requests>>

-----------------------------------------------------------------------------
(* The observer's requests.                                                *)

Request(k) ==
    /\ pc[k] = "idle"
    /\ requests < MaxRequests /\ requests' = requests + 1
    /\ UNCHANGED <<slotVars, monVars, holds, waits, faults, odd>>

\* One connect at a time: camera_connect_lock.
Connect(k) ==
    /\ ~connected /\ \A c \in Client : pc[c] \notin {"opening", "installing", "starting"}
    /\ Request(k)
    /\ Goto(k, "opening")
    /\ UNCHANGED <<loopVars, after>>

\* The loop is stopped before the teardown, which looks for one again.
Disconnect(k) ==
    /\ connected
    /\ Request(k)
    /\ after' = [after EXCEPT ![k] = "retiring"]
    /\ Goto(k, "stopping")
    /\ UNCHANGED loopVars

StopGuide(k) ==
    /\ registered # NoTask
    /\ Request(k)
    /\ Goto(k, "stopping")
    /\ UNCHANGED <<loopVars, after>>

StartGuide(k, l) ==
    /\ connected
    /\ Request(k)
    /\ Register(l)
    /\ Goto(l, "queued")
    /\ UNCHANGED after

\* Opening a device takes far longer than from one mutex to the next.
Open(k) ==
    /\ pc[k] = "opening"
    /\ \A t \in Task : pc[t] \notin {"putting", "returning", "parking", "resuming"}
    /\ \E h \in Handle :
        /\ h # handle /\ \A t \in Task : holds[t] # h
        /\ newest' = h /\ alive' = TRUE /\ Holds(k, h)
    /\ Goto(k, "installing")
    /\ UNCHANGED <<connected, phase, handle, monVars, loopVars, stopVars, countVars>>

\* Entry, handle, phase, and a monitor of a new epoch.  A handle found in the
\* slot is closed, a monitor found there is told to go.
Install(k) ==
    /\ pc[k] = "installing"
    /\ connected' = TRUE /\ phase' = "idle"
    /\ handle' = holds[k] /\ Holds(k, NoHandle)
    /\ \E m \in Monitor :
        /\ pc[m] = "idle"
        /\ current' = m /\ tx' = m /\ paused' = FALSE
        /\ pc' = [u \in Task |-> CASE u = k -> "starting"
                                   [] u = m -> "watching"
                                   [] u = tx /\ pc[u] = "watching" -> "idle"
                                   [] OTHER -> pc[u]]
    /\ MarkIf("behind", \E t \in Task : TearingDown(t))
    /\ UNCHANGED <<newest, alive, loopVars, stopVars, faults, requests>>

\* The guide loop starts with the connection, unless one is registered.
StartLoop(k) ==
    /\ pc[k] = "starting"
    /\ \/ /\ registered # NoTask
          /\ Goto(k, "idle")
          /\ UNCHANGED loopVars
       \/ \E l \in Loop :
            /\ Register(l)
            /\ pc' = [pc EXCEPT ![k] = "idle", ![l] = "queued"]
    /\ UNCHANGED <<slotVars, monVars, holds, stopVars, countVars>>

-----------------------------------------------------------------------------
TearDown(t) ==
    Retire(t) \/ StopLoop(t) \/ StopReturns(t) \/ CloseHandle(t) \/ Remove(t)

MonitorStep(m) ==
    Poll(m) \/ Overrun(m) \/ Judge(m) \/ Put(m) \/ MissHandle(m)

LoopStep(l) ==
    \/ Take(l) \/ TakeHandle(l) \/ TakeRefused(l) \/ TakeFindsBusy(l)
    \/ TakeFails(l) \/ RunLoop(l) \/ EndLoop(l) \/ LoseLoop(l) \/ GiveBack(l) \/ Park(l) \/ ResumeMonitor(l)

ConnectStep(k) == Open(k) \/ Install(k) \/ StartLoop(k)

RequestStep(k) ==
    Connect(k) \/ Disconnect(k) \/ StopGuide(k) \/ \E l \in Loop : StartGuide(k, l)

Next ==
    \/ \E m \in Monitor : MonitorStep(m)
    \/ \E l \in Loop : LoopStep(l)
    \/ \E k \in Client : RequestStep(k) \/ ConnectStep(k)
    \/ \E t \in Task : TearDown(t)

Spec == Init /\ [][Next]_vars

-----------------------------------------------------------------------------
(* Properties.                                                             *)

\* Nobody is between two steps.
AtRest ==
    \A t \in Task : \/ pc[t] \in {"idle", "watching"}
                    \/ pc[t] = "out" /\ t = tx
                    \/ pc[t] = "exposing" /\ t \notin cancel

\* What all the hand-offs come to: a connected camera at rest is either exposed
\* by the registered loop, with the newest handle and the monitor paused, or
\* polled by the monitor, which also notices a handle that is lost.
ConnectedCameraIsReachable ==
    (connected /\ AtRest /\ odd = {}) =>
        /\ tx # NoTask /\ tx = current
        /\ IF registered # NoTask
             THEN holds[registered] = newest /\ alive /\ paused /\ phase = "guiding"
             ELSE /\ ~paused /\ phase = "idle"
                  /\ handle # NoHandle => handle = newest /\ alive

\* ... and one that has left has no device open, no loop and no monitor: what
\* finalize_disconnect waits and closes for.
DisconnectedCameraIsClosed ==
    (~connected /\ AtRest /\ odd \subseteq {"late"}) =>
        /\ ~alive /\ handle = NoHandle
        /\ registered = NoTask /\ tx = NoTask /\ phase = "disconnected"

\* The device of a connected camera is closed by a teardown of it, or with the
\* call or the device that failed, never by an owner that comes back late with
\* the handle of an earlier connection (hand_off.rs, ffi_worker.rs).
LiveDeviceIsKept ==
    [][(alive /\ ~alive' /\ connected /\ odd' = {}) =>
            \/ faults' # faults
            \/ \E t \in Task : TearingDown(t)]_vars

\* A loop that ends with its handle lost tears the slot down itself, and never
\* waits in it for itself (guide_task, hand_back_lost_handle).
NoLoopAwaitsItself == \A l \in Loop : waits[l] # l

=============================================================================
