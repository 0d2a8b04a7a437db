--------------------------- MODULE CaptureControl ---------------------------
(***************************************************************************)
(* Capture control: how Start, Stop, Disconnect, the capture pipeline and  *)
(* the supervisor of a lost camera share one capture state, one cancel     *)
(* switch and one resume record, while the camera handle moves between the *)
(* slot and the pipeline.                                                  *)
(*                                                                         *)
(* Sources: session/src/services/capture_service.rs, capture/task.rs,      *)
(* state/session.rs (CaptureControl, CaptureResume), end_capture_state and *)
(* end_paused_capture of state/mod.rs, the resume of camera/reconnect.rs   *)
(* and the pause of camera/recovery.rs.                                    *)
(*                                                                         *)
(* One step is one compare-and-set, one lock or one flag: the code guards  *)
(* each with a lock of its own and no task holds two.  A teardown          *)
(* (finalize_disconnect) is therefore several steps, whichever of its      *)
(* three callers runs it.  Reads that lead to one decision are one step.   *)
(* The recovery of the slot (module SlotRecovery) is here only the state   *)
(* the capture sees.                                                       *)
(***************************************************************************)
EXTENDS Integers, FiniteSets

CONSTANTS
    Pipe,           \* pipelines that can be alive at once
    Operator,       \* clients that start and stop, one request at a time each
    Rigger,         \* clients that disconnect and connect
    MaxStarts,      \* bound on the observations
    Beyond          \* whether to go on after captures have overlapped

Client == Operator \cup Rigger
Supervisor == "supervisor"
Task == Pipe \cup Client \cup {Supervisor}

ASSUME TaskAssumption == Pipe \cap Client = {} /\ Supervisor \notin Pipe \cup Client
ASSUME BoundAssumption == MaxStarts \in Nat \ {0} /\ Beyond \in BOOLEAN

\* An observation is what one Start begins, across every resume of it.
Observation == 1 .. MaxStarts
None == 0

VARIABLES
    capture,        \* CaptureControl.state
    cancelled,      \* CaptureControl.cancel
    plan, stack,    \* CaptureResume: the observation each belongs to
    slot,           \* the role: empty, its camera up, or its camera recovering
    atHome,         \* the slot holds the camera handle
    held,           \* pipelines that hold one
    ppc, obs,       \* a pipeline's place and its observation
    resumes,        \* it was spawned by a resume
    lost,           \* it hands back no handle
    paused,         \* what end_capture_state read before it decides
    cpc, ofStart,   \* a client's place, and the observation its Start began
    leaving,        \* its Stop is part of a Disconnect
    spc, sobs,      \* the supervisor's place, and the plan it read
    ended,          \* tasks whose teardown ended a recovery
    behind,         \* history: a camera came back behind a teardown under way
    current,        \* history: the newest observation
    stopped,        \* history: observations the observer ended
    crossed,        \* history: a pause was decided on what was no longer so
    amid            \* history: a capture began before the last had let go

ctl == <<capture, cancelled, plan, stack>>
cam == <<slot, atHome, held>>
pipes == <<ppc, obs, resumes, lost, paused>>
clients == <<cpc, ofStart, leaving>>
sup == <<spc, sobs>>
down == <<ended, behind>>
hist == <<current, stopped, crossed, amid>>
vars == <<ctl, cam, pipes, clients, sup, down, hist>>

TeardownPlaces == {"finalizing", "emptying", "removing", "ending", "sweeping"}
PipePlaces == {"unused", "beginning", "recording", "taking", "checking",
               "probing", "carrying", "running", "parking", "returning", "putting", "detaching",
               "planning", "pausing", "calling", "reading", "deciding", "clearing"}
                  \cup TeardownPlaces
ClientPlaces == {"idle", "resetting", "spawning", "cancelling",
                 "forgetting", "disconnecting", "unpausing", "stopping", "waiting"}
                    \cup TeardownPlaces
SupPlaces == {"idle", "reopening", "finding", "choosing", "resuming", "resetting",
              "spawning", "unpausing", "clearing", "releasing"} \cup TeardownPlaces
Working == {"checking", "probing", "carrying", "running"}
Running == {"starting", "capturing", "stopping"}

TypeOK ==
    /\ capture \in Running \cup {"idle", "recovering"}
    /\ cancelled \in BOOLEAN
    /\ plan \in Observation \cup {None}
    /\ stack \in Observation \cup {None}
    /\ slot \in {"none", "up", "recovering"}
    /\ atHome \in BOOLEAN
    /\ held \subseteq {p \in Pipe : ~lost[p] /\ ppc[p] \in Working \cup {"parking", "returning", "putting"}}
    /\ ppc \in [Pipe -> PipePlaces]
    /\ obs \in [Pipe -> Observation \cup {None}]
    /\ resumes \in [Pipe -> BOOLEAN]
    /\ lost \in [Pipe -> BOOLEAN]
    /\ paused \in [Pipe -> BOOLEAN]
    /\ cpc \in [Client -> ClientPlaces]
    /\ ofStart \in [Client -> Observation \cup {None}]
    /\ leaving \in [Client -> BOOLEAN]
    /\ spc \in SupPlaces
    /\ sobs \in Observation \cup {None}
    /\ ended \subseteq Task
    /\ current \in Observation \cup {None}
    /\ stopped \subseteq Observation
    /\ crossed \in BOOLEAN
    /\ amid \in BOOLEAN
    /\ behind \in BOOLEAN

\* A camera is connected and nothing runs.
Init ==
    /\ capture = "idle"
    /\ cancelled = FALSE
    /\ plan = None /\ stack = None
    /\ slot = "up" /\ atHome = TRUE /\ held = {}
    /\ ppc = [p \in Pipe |-> "unused"]
    /\ obs = [p \in Pipe |-> None]
    /\ resumes = [p \in Pipe |-> FALSE]
    /\ lost = [p \in Pipe |-> FALSE]
    /\ paused = [p \in Pipe |-> FALSE]
    /\ cpc = [k \in Client |-> "idle"]
    /\ ofStart = [k \in Client |-> None]
    /\ leaving = [k \in Client |-> FALSE]
    /\ spc = "idle" /\ sobs = None
    /\ ended = {}
    /\ current = None
    /\ stopped = {}
    /\ crossed = FALSE
    /\ amid = FALSE
    /\ behind = FALSE

-----------------------------------------------------------------------------
(* What the tasks share.                                                   *)

\* Nothing a capture read or left behind has met a later one.
Undisturbed == ~crossed /\ ~amid /\ ~behind

\* Every step is taken only so far: what follows is explored on request.
Goes == Undisturbed \/ Beyond

PipeAt(p, place) == Goes /\ ppc' = [ppc EXCEPT ![p] = place]

\* A pipeline that is over keeps nothing.
PipeOver(p) ==
    /\ Goes
    /\ ppc' = [ppc EXCEPT ![p] = "unused"]
    /\ obs' = [obs EXCEPT ![p] = None]
    /\ resumes' = [resumes EXCEPT ![p] = FALSE]
    /\ lost' = [lost EXCEPT ![p] = FALSE]
    /\ paused' = [paused EXCEPT ![p] = FALSE]

\* Which of the free ones a spawned pipeline is makes no difference.
FreePipe == CHOOSE p \in Pipe : ppc[p] = "unused"

\* spawn_capture
SpawnPipe(o, resume) ==
    \E p \in Pipe :
        /\ ppc[p] = "unused" /\ p = FreePipe
        /\ ppc' = [ppc EXCEPT ![p] = "beginning"]
        /\ obs' = [obs EXCEPT ![p] = o]
        /\ resumes' = [resumes EXCEPT ![p] = resume]
        /\ UNCHANGED <<lost, paused>>

\* CaptureResume::clear
ForgetResume == plan' = None /\ stack' = None

\* The observer ends what runs: it must never come back by itself.
Ends == stopped' = stopped \cup ({current} \ {None})

\* Some teardown is at one of these places.
TearingDown(places) ==
    \/ \E p \in Pipe : ppc[p] \in places
    \/ \E k \in Client : cpc[k] \in places
    \/ spc \in places

\* The capture before has not let go: a pipeline winds up, an end has moved the
\* state and not yet dropped the record, or a resume is being decided.
Unfinished(place) ==
    \/ \E p \in Pipe : ppc[p] # "unused"
    \/ \E k \in Client : cpc[k] \in {"cancelling", "forgetting", "unpausing"}
    \/ TearingDown({"sweeping"})
    \/ spc \in {"finding", "choosing", "resuming", "unpausing", "clearing"} \ {place}
BeginsAmid(place) ==
    amid' = (amid \/ (capture \in {"idle", "recovering"} /\ Unfinished(place)))

ClientAt(k, place) ==
    /\ Goes
    /\ cpc' = [cpc EXCEPT ![k] = place]
    /\ ofStart' = IF place = "idle" THEN [ofStart EXCEPT ![k] = None] ELSE ofStart
    /\ leaving' = IF place = "idle" THEN [leaving EXCEPT ![k] = FALSE] ELSE leaving

SupAt(place) ==
    /\ Goes
    /\ spc' = place
    /\ sobs' = IF place = "releasing" THEN None ELSE sobs

-----------------------------------------------------------------------------
(* finalize_disconnect, a teardown: of a client's Disconnect, of a         *)
(* pipeline that lost its handle with reconnecting off, or of a supervisor *)
(* that gives up.  The camera is the same each time, so its name stops     *)
(* none of them.  A suspension that lands before the entry leaves is the   *)
(* slot's and outlives it (SlotRecovery's `strayed`): no camera recovers   *)
(* here, so it leaves with the entry.                                      *)

Moves(t, from, to) ==
    \/ t \in Client /\ cpc[t] = from /\ ClientAt(t, to) /\ UNCHANGED <<pipes, sup>>
    \/ t \in Pipe /\ ppc[t] = from /\ PipeAt(t, to) /\ UNCHANGED <<obs, resumes, lost, paused, clients, sup>>
    \/ t = Supervisor /\ spc = from /\ SupAt(to) /\ UNCHANGED <<pipes, clients>>

\* Where a teardown leaves its task.
Over(t) == CASE t \in Client -> "idle" [] t \in Pipe -> "reading" [] OTHER -> "releasing"

EndRecovery(t) ==
    /\ Moves(t, "finalizing", "emptying")
    /\ slot' = IF slot = "recovering" THEN "up" ELSE slot
    /\ ended' = IF slot = "recovering" THEN ended \cup {t} ELSE ended
    /\ UNCHANGED <<ctl, atHome, held, hist, behind>>

\* What is in the slot is taken and closed.
EmptySlot(t) ==
    /\ Moves(t, "emptying", "removing")
    /\ atHome' = FALSE
    /\ UNCHANGED <<ctl, slot, held, down, hist>>

\* The entry goes, perhaps under a hand-off that has found it there.
RemoveEntry(t) ==
    /\ Moves(t, "removing", IF t \in ended THEN "ending" ELSE Over(t))
    /\ slot' = "none"
    /\ ended' = ended \ {t}
    /\ behind' = (behind \/ \E p \in Pipe : ppc[p] = "putting")
    /\ UNCHANGED <<ctl, atHome, held, hist>>

\* end_paused_capture: a compare-and-set, and the record dropped in a step of
\* its own.
EndPausedOf(t) ==
    /\ IF capture = "recovering"
         THEN capture' = "idle" /\ Ends /\ Moves(t, "ending", "sweeping")
         ELSE UNCHANGED <<capture, stopped>> /\ Moves(t, "ending", Over(t))
    /\ UNCHANGED <<cancelled, plan, stack, cam, down, current, crossed, amid>>

ForgetPausedOf(t) ==
    /\ Moves(t, "sweeping", Over(t))
    /\ ForgetResume
    /\ UNCHANGED <<capture, cancelled, cam, down, hist>>

TeardownStep(t) ==
    EndRecovery(t) \/ EmptySlot(t) \/ RemoveEntry(t) \/ EndPausedOf(t) \/ ForgetPausedOf(t)

-----------------------------------------------------------------------------
(* The observer: Start.                                                    *)

\* A client is free, and the observer still asks.
Asks(k) == Goes /\ cpc[k] = "idle"

Begins(k) ==
    /\ Asks(k)
    /\ slot # "none"
    /\ current < MaxStarts
    /\ capture' = "starting"
    /\ current' = current + 1
    /\ cpc' = [cpc EXCEPT ![k] = "resetting"]
    /\ ofStart' = [ofStart EXCEPT ![k] = current + 1]
    /\ BeginsAmid("none")
    /\ UNCHANGED <<cancelled, plan, stack, cam, pipes, leaving, sup, stopped, crossed, down>>

\* The compare-and-set from `Idle`.
Start(k) == capture = "idle" /\ Begins(k)

\* The cancel switch is reset, and a stack parked for a reconnect dropped.
StartResets(k) ==
    /\ cpc[k] = "resetting"
    /\ cancelled' = FALSE
    /\ stack' = None
    /\ ClientAt(k, "spawning")
    /\ UNCHANGED <<capture, plan, cam, pipes, sup, hist, down>>

StartSpawns(k) ==
    /\ cpc[k] = "spawning"
    /\ SpawnPipe(ofStart[k], FALSE)
    /\ ClientAt(k, "idle")
    /\ UNCHANGED <<ctl, cam, sup, hist, down>>

-----------------------------------------------------------------------------
(* The observer: Stop, alone or inside a Disconnect.                       *)

\* Mutant: the capture reads `Idle` before its pipeline has ended.
StopAtOnce ==
    /\ capture # "idle"
    /\ capture' = "idle"
    /\ Ends

\* A paused capture has no pipeline left to report `Idle`.
StopMoves ==
    /\ capture # "idle"
    /\ capture' = IF capture = "recovering" THEN "idle" ELSE "stopping"
    /\ Ends

Stop(k) ==
    /\ Asks(k)
    /\ StopMoves
    /\ ClientAt(k, "cancelling")
    /\ UNCHANGED <<cancelled, plan, stack, cam, pipes, sup, current, crossed, amid, down>>

\* Mutant: the state says it all.
StopWithoutCancel(k) ==
    /\ cpc[k] = "cancelling"
    /\ ClientAt(k, "forgetting")
    /\ UNCHANGED <<ctl, cam, pipes, sup, hist, down>>

StopCancels(k) ==
    /\ cpc[k] = "cancelling"
    /\ cancelled' = TRUE
    /\ ClientAt(k, "forgetting")
    /\ UNCHANGED <<capture, plan, stack, cam, pipes, sup, current, stopped, crossed, amid, down>>

StopForgets(k) ==
    /\ cpc[k] = "forgetting"
    /\ ForgetResume
    /\ ClientAt(k, IF leaving[k] THEN "waiting" ELSE "idle")
    /\ UNCHANGED <<capture, cancelled, cam, pipes, sup, current, stopped, crossed, amid, down>>

-----------------------------------------------------------------------------
(* The observer: Disconnect and Connect.                                   *)

Disconnect(k) ==
    /\ Asks(k)
    /\ slot # "none"
    /\ cpc' = [cpc EXCEPT ![k] = "disconnecting"]
    /\ leaving' = [leaving EXCEPT ![k] = TRUE]
    /\ UNCHANGED <<ctl, cam, pipes, ofStart, sup, hist, down>>

DisconnectEndsPause(k) ==
    /\ cpc[k] = "disconnecting"
    /\ IF capture = "recovering"
         THEN capture' = "idle" /\ Ends /\ ClientAt(k, "unpausing")
         ELSE UNCHANGED <<capture, stopped>> /\ ClientAt(k, "stopping")
    /\ UNCHANGED <<cancelled, plan, stack, cam, pipes, sup, current, crossed, amid, down>>

DisconnectForgets(k) ==
    /\ cpc[k] = "unpausing"
    /\ ForgetResume
    /\ ClientAt(k, "finalizing")
    /\ UNCHANGED <<capture, cancelled, cam, pipes, sup, current, stopped, crossed, amid, down>>

DisconnectStops(k) ==
    /\ cpc[k] = "stopping"
    /\ IF capture \in Running
         THEN StopMoves /\ ClientAt(k, "cancelling")
         ELSE UNCHANGED <<capture, stopped>> /\ ClientAt(k, "finalizing")
    /\ UNCHANGED <<cancelled, plan, stack, cam, pipes, sup, current, crossed, amid, down>>

\* The wait for the pipeline is bounded: it may still be winding down after.
DisconnectWaits(k) ==
    /\ cpc[k] = "waiting"
    /\ ClientAt(k, "finalizing")
    /\ UNCHANGED <<ctl, cam, pipes, sup, hist, down>>

\* Registered and put in the slot; another task may still be tearing down the
\* camera it was before.
Connect(k) ==
    /\ Asks(k)
    /\ slot = "none"
    /\ slot' = "up"
    /\ atHome' = TRUE
    /\ behind' = (behind \/ TearingDown({"removing"}))
    /\ UNCHANGED <<ctl, held, pipes, clients, sup, ended, hist>>

-----------------------------------------------------------------------------
(* The pipeline: run_capture_loop.                                         *)

\* begin_session: the camera is gone, the disk refuses or a Stop came first; or
\* `Starting` becomes `Capturing`.
BeginSession(p) ==
    /\ ppc[p] = "beginning"
    /\ \/ PipeAt(p, "reading") /\ UNCHANGED capture
       \/ /\ slot # "none" /\ capture = "starting"
          /\ capture' = "capturing"
          /\ PipeAt(p, "recording")
    /\ UNCHANGED <<cancelled, plan, stack, cam, obs, resumes, lost, paused, clients, sup, hist, down>>

Record(p) ==
    /\ ppc[p] = "recording"
    /\ plan' = obs[p]
    /\ PipeAt(p, "taking")
    /\ UNCHANGED <<capture, cancelled, stack, cam, obs, resumes, lost, paused, clients, sup, hist, down>>

\* Recovering, gone or held elsewhere: the capture ends.  Held by nobody: a
\* device fault.
Take(p) ==
    /\ ppc[p] = "taking"
    /\ \/ /\ slot = "up" /\ atHome
          /\ atHome' = FALSE
          /\ held' = held \cup {p}
          /\ PipeAt(p, "checking")
          /\ UNCHANGED lost
       \/ /\ slot = "up" /\ ~atHome /\ held = {}
          /\ lost' = [lost EXCEPT ![p] = TRUE]
          /\ PipeAt(p, "returning")
          /\ UNCHANGED <<atHome, held>>
       \/ /\ slot # "up" \/ (~atHome /\ held # {})
          /\ PipeAt(p, "reading")
          /\ UNCHANGED <<atHome, held, lost>>
    /\ UNCHANGED <<ctl, slot, obs, resumes, paused, clients, sup, hist, down>>

Check(p) ==
    /\ ppc[p] = "checking"
    /\ PipeAt(p, IF cancelled THEN "returning" ELSE "probing")
    /\ UNCHANGED <<ctl, cam, obs, resumes, lost, paused, clients, sup, hist, down>>

\* Mutant: the lost handle is not released.
FaultsKeeping(p, place) ==
    /\ lost' = [lost EXCEPT ![p] = TRUE]
    /\ PipeAt(p, place)
    /\ UNCHANGED held

\* The device is lost: the handle is released, not handed back.
Faults(p, place) ==
    /\ held' = held \ {p}
    /\ lost' = [lost EXCEPT ![p] = TRUE]
    /\ PipeAt(p, place)

\* The first frame: it arrives, fails, or the camera faults on it.
Probe(p) ==
    /\ ppc[p] = "probing"
    /\ \/ PipeAt(p, "carrying") /\ UNCHANGED <<held, lost>>
       \/ PipeAt(p, "returning") /\ UNCHANGED <<held, lost>>
       \/ Faults(p, "returning")
    /\ UNCHANGED <<ctl, slot, atHome, obs, resumes, paused, clients, sup, hist, down>>

\* A resume takes the parked stack.
Carry(p) ==
    /\ ppc[p] = "carrying"
    /\ stack' = IF resumes[p] THEN None ELSE stack
    /\ PipeAt(p, "running")
    /\ UNCHANGED <<capture, cancelled, plan, cam, obs, resumes, lost, paused, clients, sup, hist, down>>

\* The capture thread ends: cancelled, or stopped by an error; or by a fault.
RunEnds(p) ==
    /\ ppc[p] = "running"
    /\ \/ PipeAt(p, "parking") /\ UNCHANGED <<held, lost>>
       \/ Faults(p, "parking")
    /\ UNCHANGED <<ctl, slot, atHome, obs, resumes, paused, clients, sup, hist, down>>

RunCancelled(p) ==
    /\ ppc[p] = "running"
    /\ cancelled
    /\ PipeAt(p, "parking")
    /\ UNCHANGED <<ctl, cam, obs, resumes, lost, paused, clients, sup, hist, down>>

\* The stacking task's last act, if it stacked anything.
Park(p) ==
    /\ ppc[p] = "parking"
    /\ stack' \in {obs[p], None}
    /\ PipeAt(p, "returning")
    /\ UNCHANGED <<capture, cancelled, plan, cam, obs, resumes, lost, paused, clients, sup, hist, down>>

-----------------------------------------------------------------------------
(* return_from_capture.                                                    *)

\* Mutant: parked whatever the slot has become.
JudgeNothing(p) ==
    /\ ppc[p] = "returning" /\ ~lost[p]
    /\ PipeAt(p, "putting")
    /\ UNCHANGED <<ctl, cam, obs, resumes, lost, paused, clients, sup, hist, down>>

\* Superseded, as its role is empty, holds a handle or recovers: closed.
\* Otherwise to be put back.
Judge(p) ==
    /\ ppc[p] = "returning" /\ ~lost[p]
    /\ IF slot = "up" /\ ~atHome
         THEN PipeAt(p, "putting") /\ UNCHANGED held
         ELSE PipeAt(p, "reading") /\ held' = held \ {p}
    /\ UNCHANGED <<ctl, slot, atHome, obs, resumes, lost, paused, clients, sup, hist, down>>

Put(p) ==
    /\ ppc[p] = "putting"
    /\ held' = held \ {p}
    /\ atHome' = TRUE
    /\ behind' = (behind \/ TearingDown({"removing"}))
    /\ PipeAt(p, "reading")
    /\ UNCHANGED <<ctl, slot, obs, resumes, lost, paused, clients, sup, ended, hist>>

\* No handle: the camera is suspended, unless it is already; or its session ends,
\* when reconnecting is off or the role is empty.
ReturnNothing(p) ==
    /\ ppc[p] = "returning" /\ lost[p]
    /\ \/ /\ slot = "up"
          /\ slot' = "recovering"
          /\ behind' = (behind \/ TearingDown({"emptying", "removing"}))
          /\ PipeAt(p, "detaching")
       \/ slot = "recovering" /\ PipeAt(p, "reading") /\ UNCHANGED <<slot, behind>>
       \/ PipeAt(p, "finalizing") /\ UNCHANGED <<slot, behind>>
    /\ UNCHANGED <<ctl, atHome, held, obs, resumes, lost, paused, clients, sup, ended, hist>>

Detach(p) ==
    /\ ppc[p] = "detaching"
    /\ atHome' = FALSE
    /\ PipeAt(p, "planning")
    /\ UNCHANGED <<ctl, slot, held, obs, resumes, lost, paused, clients, sup, hist, down>>

\* pause_capture_for_recovery reads the plan, then moves the state.
LookForPlan(p) ==
    /\ ppc[p] = "planning"
    /\ PipeAt(p, IF plan # None THEN "pausing" ELSE "calling")
    /\ UNCHANGED <<ctl, cam, obs, resumes, lost, paused, clients, sup, hist, down>>

Pause(p) ==
    /\ ppc[p] = "pausing"
    /\ IF capture \in {"starting", "capturing"}
         THEN capture' = "recovering" /\ crossed' = (crossed \/ slot # "recovering")
         ELSE UNCHANGED <<capture, crossed>>
    /\ PipeAt(p, "calling")
    /\ UNCHANGED <<cancelled, plan, stack, cam, obs, resumes, lost, paused, clients, sup, current, stopped, amid, down>>

\* The supervisor, unless the slot has one.
CallSupervisor(p) ==
    /\ ppc[p] = "calling"
    /\ spc' = IF spc = "idle" THEN "reopening" ELSE spc
    /\ PipeAt(p, "reading")
    /\ UNCHANGED <<ctl, cam, obs, resumes, lost, paused, clients, sobs, hist, down>>

-----------------------------------------------------------------------------
(* end_capture_state: the slot and the plan are read, then the state moved, *)
(* then the resume record dropped.                                         *)

ReadEnd(p) ==
    /\ ppc[p] = "reading"
    /\ paused' = [paused EXCEPT ![p] = (slot = "recovering" /\ plan # None)]
    /\ PipeAt(p, "deciding")
    /\ UNCHANGED <<ctl, cam, obs, resumes, lost, clients, sup, hist, down>>

\* What p read is no longer so, or somebody has ended the capture.
Outdated(p) == paused[p] /\ (capture = "idle" \/ slot # "recovering")

Decides(p, kept) ==
    /\ ppc[p] = "deciding"
    /\ crossed' = (crossed \/ (capture # "recovering" /\ Outdated(p)))
    /\ IF capture = "recovering" \/ kept
         THEN capture' = "recovering" /\ PipeOver(p)
         ELSE capture' = "idle" /\ PipeAt(p, "clearing") /\ UNCHANGED <<obs, resumes, lost, paused>>
    /\ UNCHANGED <<cancelled, plan, stack, cam, clients, sup, current, stopped, amid, down>>

\* Mutant: a capture being stopped is paused like any other.
DecideForgettingStop(p) == Decides(p, paused[p])

Decide(p) == Decides(p, paused[p] /\ capture # "stopping")

\* Mutant: the plan and the parked stack are left behind.
EndKeeping(p) ==
    /\ ppc[p] = "clearing"
    /\ PipeOver(p)
    /\ UNCHANGED <<ctl, cam, clients, sup, hist, down>>

EndForgets(p) ==
    /\ ppc[p] = "clearing"
    /\ ForgetResume
    /\ PipeOver(p)
    /\ UNCHANGED <<capture, cancelled, cam, clients, sup, hist, down>>

-----------------------------------------------------------------------------
(* The supervisor of a camera that recovers.                               *)

SupReopens ==
    /\ spc = "reopening" /\ slot = "recovering"
    /\ slot' = "up"
    /\ atHome' = TRUE
    /\ SupAt("finding")
    /\ UNCHANGED <<ctl, held, pipes, clients, hist, down>>

SupAbandons ==
    /\ spc = "reopening" /\ slot # "recovering"
    /\ SupAt("releasing")
    /\ UNCHANGED <<ctl, cam, pipes, clients, hist, down>>

\* Out of budget, and still recovering: the session is torn down.
SupGivesUp ==
    /\ spc = "reopening" /\ slot = "recovering"
    /\ SupAt("finalizing")
    /\ UNCHANGED <<ctl, cam, pipes, clients, hist, down>>

\* resume_capture_if_planned: failed again; no plan; or a plan to resume.
SupFinds ==
    /\ spc = "finding"
    /\ IF slot = "recovering" THEN SupAt("releasing")
       ELSE Goes /\ sobs' = plan /\ spc' = IF plan = None THEN "unpausing" ELSE "choosing"
    /\ UNCHANGED <<ctl, cam, pipes, clients, hist, down>>

\* Resuming may be switched off, and the capture may be ended.
SupChooses ==
    /\ spc = "choosing"
    /\ \/ SupAt("unpausing")
       \/ SupAt(IF capture = "recovering" THEN "resuming" ELSE "releasing")
    /\ UNCHANGED <<ctl, cam, pipes, clients, hist, down>>

\* The compare-and-set from `Recovering`.
Resume ==
    /\ spc = "resuming"
    /\ IF slot # "none" /\ capture = "recovering"
         THEN capture' = "starting" /\ BeginsAmid("resuming") /\ SupAt("resetting")
         ELSE /\ SupAt(IF slot # "none" /\ capture \in {"idle", "stopping"}
                         THEN "releasing" ELSE "unpausing")
              /\ UNCHANGED <<capture, amid>>
    /\ UNCHANGED <<cancelled, plan, stack, cam, pipes, clients, current, stopped, crossed, down>>

ResumeResets ==
    /\ spc = "resetting"
    /\ cancelled' = FALSE
    /\ SupAt("spawning")
    /\ UNCHANGED <<capture, plan, stack, cam, pipes, clients, hist, down>>

ResumeSpawns ==
    /\ spc = "spawning"
    /\ SpawnPipe(sobs, TRUE)
    /\ SupAt("releasing")
    /\ UNCHANGED <<ctl, cam, clients, hist, down>>

SupEndsPause ==
    /\ spc = "unpausing"
    /\ IF capture = "recovering"
         THEN capture' = "idle" /\ Ends /\ SupAt("clearing")
         ELSE UNCHANGED <<capture, stopped>> /\ SupAt("releasing")
    /\ UNCHANGED <<cancelled, plan, stack, cam, pipes, clients, current, crossed, amid, down>>

SupForgets ==
    /\ spc = "clearing"
    /\ ForgetResume
    /\ SupAt("releasing")
    /\ UNCHANGED <<capture, cancelled, cam, pipes, clients, current, stopped, crossed, amid, down>>

\* release_flight: a fault meanwhile is recovered in turn.
SupReleases ==
    /\ spc = "releasing"
    /\ Goes
    /\ spc' = IF slot = "recovering" THEN "reopening" ELSE "idle"
    /\ UNCHANGED <<ctl, cam, pipes, clients, sobs, hist, down>>

-----------------------------------------------------------------------------
\* A request, once made, is carried through.
RequestStep(k) ==
    \/ StartResets(k) \/ StartSpawns(k)
    \/ StopCancels(k) \/ StopForgets(k)
    \/ DisconnectEndsPause(k) \/ DisconnectForgets(k) \/ DisconnectStops(k)
    \/ DisconnectWaits(k) \/ TeardownStep(k)

\* Every step of a pipeline but the end of a run nobody cancelled.
PipeStep(p) ==
    \/ BeginSession(p) \/ Record(p) \/ Take(p) \/ Check(p) \/ Probe(p)
    \/ Carry(p) \/ RunCancelled(p) \/ Park(p)
    \/ Judge(p) \/ Put(p) \/ ReturnNothing(p) \/ Detach(p) \/ LookForPlan(p) \/ Pause(p)
    \/ CallSupervisor(p) \/ TeardownStep(p) \/ ReadEnd(p) \/ Decide(p) \/ EndForgets(p)

SupStep ==
    \/ SupReopens \/ SupAbandons \/ SupGivesUp \/ SupFinds \/ SupChooses
    \/ Resume \/ ResumeResets \/ ResumeSpawns \/ SupEndsPause \/ SupForgets
    \/ TeardownStep(Supervisor) \/ SupReleases

Next ==
    \/ \E k \in Operator : Start(k) \/ Stop(k)
    \/ \E k \in Rigger : Disconnect(k) \/ Connect(k)
    \/ \E k \in Client : RequestStep(k)
    \/ \E p \in Pipe : PipeStep(p) \/ RunEnds(p)
    \/ SupStep

\* Requests are carried through by tasks of their own, blocking calls are
\* bounded by the capture watchdog, and a supervisor's attempts by its budget.
Fairness ==
    /\ \A k \in Client : WF_vars(RequestStep(k))
    /\ \A p \in Pipe : WF_vars(PipeStep(p))
    /\ WF_vars(SupStep)

Spec == Init /\ [][Next]_vars
FairSpec == Spec /\ Fairness

-----------------------------------------------------------------------------
(* Properties.  Captures that overlap are the findings' business: the rest  *)
(* holds until they do.                                                    *)

Quiet ==
    /\ \A p \in Pipe : ppc[p] = "unused"
    /\ \A k \in Client : cpc[k] = "idle"
    /\ spc = "idle"

\* Two pipelines never have a handle to the imaging camera at once, though a
\* Disconnect that gave up waiting may have reconnected it meanwhile; and
\* while one works the camera the clients see a capture, never `Idle`, behind
\* which a second one would be let in.
OneHolderIsShown == Undisturbed =>
    \A p \in held :
        /\ \A q \in held : p = q
        /\ ppc[p] # "returning" => capture \in {"capturing", "stopping"}

\* An open device is never parked in a role whose camera has left: a hand-off
\* judges by the slot, though a Disconnect that gave up, a reconnect and another
\* capture may have come between.  Excepted: what comes back `behind` a teardown
\* that has emptied the slot and not yet dropped the entry.
NoHandleInAnEmptyRole == ~behind => (atHome => slot # "none")

\* No plan and no full-resolution stack outlives its observation, to be resumed
\* by a later one or by the next recovery of an idle camera; and with every
\* task over, no capture is left starting, stopping or paused.
NothingLeftBehind ==
    Undisturbed =>
        /\ plan \in {None, current} /\ stack \in {None, current}
        /\ Quiet => capture = "idle" /\ plan = None /\ stack = None

\* The one step that brings an ended capture back: a pipeline read, before the
\* observer's Stop, that its camera recovers, and moves the state on that.
Revives(p) == paused[p] /\ capture = "idle" /\ Decide(p)

\* "A Stop or Disconnect that ends the pause first" is final: a capture the
\* observer ended neither pauses, starts nor runs again, whatever reads, writes
\* and resumes cross the Stop, but by a pipeline that Revives it.
StopIsFinal ==
    [][Undisturbed /\ capture' # capture /\ capture' \in {"starting", "capturing", "recovering"}
        => current' \notin stopped' \/ \E p \in Pipe : Revives(p)]_vars

\* A Stop ends the capture it found, and a pause ends: resumed, given up or
\* ended by the observer.
StopsAndPausesEnd ==
    /\ capture = "stopping" ~> capture # "stopping" \/ ~Undisturbed
    /\ capture = "recovering" ~> capture # "recovering" \/ ~Undisturbed

\* What start_capture's comment rules out: a run that would "capture on behind an
\* `Idle` state".
NoCaptureBehindIdle == \A p \in Pipe : ppc[p] = "running" => capture # "idle"
=============================
