------------------------------ MODULE DiskSync ------------------------------
(***************************************************************************)
(* What a camera has saved, from the writer's queue to the storage device, *)
(* and what the observer is told about it: the disk writer and its sync    *)
(* thread, the two ends of a capture that feed them, and the verdict each  *)
(* camera's last sync leaves on screen.                                    *)
(*                                                                         *)
(* Sources: core/src/disk_writer/handle.rs, worker.rs and sync.rs,         *)
(* session/src/state/storage_sync.rs, capture/storage.rs, capture/task.rs  *)
(* and capture/guide_task/mod.rs.                                          *)
(*                                                                         *)
(* A capture of the imaging camera runs to its end, its sync included,     *)
(* before the next one may start.  Guide loops need not: the next one may  *)
(* start while the sync of the one before is still out, or, when a stop    *)
(* gave up on that one, while it is still saving.                          *)
(*                                                                         *)
(* A frame is complete in the OS's cache when it is "written": all of it   *)
(* for a FITS, counted by the header for a frame of a SER container.  The  *)
(* model syncs nothing that the code does not sync, although a kernel may. *)
(* A run has fewer frames than COUNT_REFRESH_FRAMES, so that only a flush  *)
(* or a finalize counts those of a container.  Containers are the imaging  *)
(* camera's: a guide loop saves FITS.  One of the modes films.  A frame    *)
(* that a full queue turns away leaves no trace here.  A stack stands for  *)
(* its FITS and its PNG, and never takes an earlier one's name.  A message *)
(* stays in the queue while it is handled.                                 *)
(***************************************************************************)
EXTENDS Integers, Sequences, FiniteSets

CONSTANTS
    MaxCaptures, MaxLoops,      \* bounds on captures and on guide loops
    MaxFrames,                  \* bound on frames and stacks saved
    MaxSession, SerSession,     \* session folders, and those that film
    MaxQueue,                   \* DiskWriterConfig::max_queue_size
    MaxFaults                   \* bound on writes, syncs and devices failing

ASSUME BoundAssumption ==
    /\ MaxCaptures \in Nat /\ MaxLoops \in Nat /\ MaxFrames \in Nat
    /\ MaxSession \in Nat /\ SerSession \subseteq 1..MaxSession
    /\ MaxQueue \in Nat \ {0} /\ MaxFaults \in Nat

Capture == 1..MaxCaptures
Loop == {-n : n \in 1..MaxLoops}
Saver == Capture \cup Loop
Frame == 1..MaxFrames
Session == 1..MaxSession

Group == {"Shared", "Owned"}
GroupOf(s) == IF s \in Capture THEN "Shared" ELSE "Owned"

NoSaver == 0
NoSession == 0
NoFile == <<0, 0>>
NoContainer == NoFile

VARIABLES
    pc, threads,        \* each saver's place; the capture's saving threads
    session, plan,      \* the handle's session, and the resume plan's folder
    issued,             \* session folders handed out
    queue,              \* the writer's messages
    hung,               \* the threads stuck in a call on the device
    container, sers,    \* the open SER container, and the containers created
    pending,            \* what each group wrote since its last sync
    jobs,               \* the sync thread's jobs
    stage, owner, dir, file,    \* each frame: how far it got, whose it is,
                                \* the session it is stamped with, its file
    entry,              \* StorageSync: each role's status and run
    asked,              \* the run a saver's sync is for
    verdict,            \* what a saver's sync came to
    faults,
    overlap,            \* history: a loop began before an earlier one's sync
                        \* was queued
    unheard             \* history: the files whose sync failed in a job that
                        \* nobody waited for any more

saverVars == <<pc, threads>>
sessionVars == <<session, plan, issued>>
workerVars == <<container, sers, pending>>
frameVars == <<stage, owner, dir, file>>
syncVars == <<entry, asked, verdict>>
vars == <<saverVars, sessionVars, queue, hung, workerVars, jobs, frameVars,
          syncVars, faults, overlap, unheard>>

Stages == {"none", "queued", "failed", "buffered", "written",
           "synced", "durable", "lost"}
Files == (0..MaxSession) \X (0..MaxFrames)
Messages ==
    [kind : {"raw", "stack"}, of : Frame] \cup [kind : {"end", "finish"}, of : {0}]
        \cup [kind : {"sync"}, of : Saver]

TypeOK ==
    /\ pc \in [Saver -> {"none", "saving", "ended", "asking", "waiting", "told", "done"}]
    /\ threads \subseteq {"storage", "stacking"}
    /\ session \in Session \cup {NoSession} /\ plan \in Session \cup {NoSession}
    /\ issued \subseteq Session
    /\ queue \in Seq(Messages) /\ Len(queue) <= MaxQueue
    /\ hung \subseteq {"writer", "syncer"}
    /\ container \in sers \cup {NoContainer} /\ sers \subseteq Files
    /\ pending \in [Group -> [files : SUBSET Files, failed : BOOLEAN]]
    /\ jobs \in Seq([of : Saver, files : SUBSET Files, done : SUBSET Files, failed : BOOLEAN])
    /\ stage \in [Frame -> Stages] /\ owner \in [Frame -> Saver \cup {NoSaver}]
    /\ dir \in [Frame -> Session \cup {NoSession} \cup Loop] /\ file \in [Frame -> Files]
    /\ entry \in [Group -> [state : {"idle", "syncing", "synced", "failed"},
                            run : 0..(MaxCaptures + MaxLoops)]]
    /\ asked \in [Saver -> Nat]
    /\ verdict \in [Saver -> {"none", "idle", "synced", "failed"}]
    /\ faults \in 0..MaxFaults /\ overlap \in BOOLEAN /\ unheard \subseteq Files

Init ==
    /\ pc = [s \in Saver |-> "none"] /\ threads = {}
    /\ session = NoSession /\ plan = NoSession /\ issued = {}
    /\ queue = <<>> /\ hung = {}
    /\ container = NoContainer /\ sers = {}
    /\ pending = [g \in Group |-> [files |-> {}, failed |-> FALSE]]
    /\ jobs = <<>>
    /\ stage = [f \in Frame |-> "none"] /\ owner = [f \in Frame |-> NoSaver]
    /\ dir = [f \in Frame |-> NoSession] /\ file = [f \in Frame |-> NoFile]
    /\ entry = [g \in Group |-> [state |-> "idle", run |-> 0]]
    /\ asked = [s \in Saver |-> 0]
    /\ verdict = [s \in Saver |-> "none"]
    /\ faults = 0 /\ overlap = FALSE /\ unheard = {}

-----------------------------------------------------------------------------
Goto(s, place) == pc' = [pc EXCEPT ![s] = place]

(* A step of which each call on the device in outcomes went well or not. *)
Calls(outcomes) ==
    /\ faults' = faults + Cardinality({c \in DOMAIN outcomes : ~outcomes[c]})
    /\ faults' <= MaxFaults

(* Nothing the writer or its sync thread does moves any more, which is     *)
(* what a wait on them is patient about.                                   *)
Stalled ==
    /\ hung # {}
    /\ "writer" \in hung \/ queue = <<>>
    /\ "syncer" \in hung \/ jobs = <<>>

Full == Len(queue) >= MaxQueue
(* Mutant: a full queue takes one more.                                    *)
SendAnyway(m) == queue' = Append(queue, m)

Send(m) == ~Full /\ queue' = Append(queue, m)
GiveUp == Full /\ Stalled /\ UNCHANGED queue

(* send_patiently, for a message whose loss is only logged. *)
Tell(m) == Send(m) \/ GiveUp

(* The next frame s queues, stamped with the session that is open.         *)
Queue(kind, s, d) ==
    LET f == Cardinality({x \in Frame : owner[x] # NoSaver}) + 1 IN
    /\ f \in Frame
    /\ Send([kind |-> kind, of |-> f])
    /\ owner' = [owner EXCEPT ![f] = s]
    /\ dir' = [dir EXCEPT ![f] = d]
    /\ stage' = [stage EXCEPT ![f] = "queued"]
    /\ UNCHANGED file

-----------------------------------------------------------------------------
(* StorageSync.                                                            *)

Reset(s) ==
    LET g == GroupOf(s) IN
    /\ entry' = [entry EXCEPT ![g] = [state |-> "idle", run |-> @.run + 1]]
    /\ UNCHANGED <<asked, verdict>>

(* sync: the wait is announced, and the run it is for read, under a lock.  *)
AskSync(s) ==
    /\ pc[s] = IF s \in Capture THEN "ended" ELSE "saving"
    /\ entry' = [entry EXCEPT ![GroupOf(s)].state = "syncing"]
    /\ asked' = [asked EXCEPT ![s] = entry[GroupOf(s)].run]
    /\ Goto(s, "asking")
    /\ UNCHANGED <<threads, sessionVars, queue, hung, workerVars, jobs, frameVars,
                   verdict, faults, overlap, unheard>>

Conclude(s, v) ==
    /\ verdict' = [verdict EXCEPT ![s] = v]
    /\ Goto(s, "told")

SendSync(s) ==
    /\ pc[s] = "asking"
    /\ \/ Send([kind |-> "sync", of |-> s]) /\ Goto(s, "waiting") /\ UNCHANGED verdict
       \/ GiveUp /\ Conclude(s, "failed")
    /\ UNCHANGED <<threads, sessionVars, hung, workerVars, jobs, frameVars, entry,
                   asked, faults, overlap, unheard>>

(* Mutant: the answer is waited for however long.                          *)
WaitForever(s) == FALSE

GiveUpOnAnswer(s) ==
    /\ pc[s] = "waiting" /\ Stalled
    /\ Conclude(s, "failed")
    /\ UNCHANGED <<threads, sessionVars, queue, hung, workerVars, jobs, frameVars, entry,
                   asked, faults, overlap, unheard>>

(* Mutant: the run is not compared.                                        *)
AnnounceAlways(s) ==
    /\ pc[s] = "told"
    /\ entry' = [entry EXCEPT ![GroupOf(s)].state = verdict[s]]
    /\ Goto(s, "done")
    /\ UNCHANGED <<threads, sessionVars, queue, hung, workerVars, jobs, frameVars,
                   asked, verdict, faults, overlap, unheard>>

Announce(s) ==
    /\ pc[s] = "told"
    /\ entry' = IF entry[GroupOf(s)].run = asked[s]
                THEN [entry EXCEPT ![GroupOf(s)].state = verdict[s]]
                ELSE entry
    /\ Goto(s, "done")
    /\ UNCHANGED <<threads, sessionVars, queue, hung, workerVars, jobs, frameVars,
                   asked, verdict, faults, overlap, unheard>>

-----------------------------------------------------------------------------
(* The session: initialize_capture_session, sync_disk_session.             *)

Films(d) == d \in SerSession

(* start_session hands out a folder it has not handed out before.          *)
Fresh(films) ==
    {d \in Session \ issued :
        /\ Films(d) = films
        /\ \A e \in Session \ issued : Films(e) = films => d <= e}

Open(d) ==
    /\ session' = d /\ plan' = d
    /\ issued' = issued \cup ({d} \ {NoSession})

(* A capture begins with nothing to save, in a folder of its own, or in    *)
(* the one its resume plan names.                                          *)
StartCapture(s) ==
    /\ s \in Capture /\ pc[s] = "none"
    /\ \A r \in 1..(s - 1) : pc[r] = "done"
    /\ \E films \in BOOLEAN :
          \E d \in {NoSession} \cup Fresh(films) \cup {e \in {plan} \ {NoSession} : Films(e) = films} :
             Open(d)
    /\ threads' = {"storage", "stacking"}
    /\ Reset(s)
    /\ Goto(s, "saving")
    /\ UNCHANGED <<queue, hung, workerVars, jobs, frameVars, faults, overlap, unheard>>

(* A settings update that found the capture running: it still may be, or   *)
(* have ended without the state saying so yet.  A folder of another mode   *)
(* is abandoned, and one opened if the mode saves and none is.             *)
UpdateSettings(films, saves) ==
    /\ \E s \in Capture : pc[s] \notin {"none", "done"}
    /\ LET kept == session # NoSession /\ Films(session) = films IN
       \E d \in IF kept THEN {session} ELSE IF saves THEN Fresh(films) ELSE {NoSession} :
          Open(d)
    /\ UNCHANGED <<saverVars, queue, hung, workerVars, jobs, frameVars, syncVars, faults, overlap, unheard>>

-----------------------------------------------------------------------------
(* What the savers queue.                                                  *)

StartLoop(s) ==
    /\ s \in Loop /\ pc[s] = "none"
    /\ \A r \in Loop : r > s => pc[r] # "none"
    /\ overlap' = (overlap \/ \E r \in Loop : r > s /\ pc[r] \in {"saving", "asking"})
    /\ Reset(s)
    /\ Goto(s, "saving")
    /\ UNCHANGED <<threads, sessionVars, queue, hung, workerVars, jobs, frameVars, faults, unheard>>

QueueRaw(s) ==
    /\ pc[s] = "saving"
    /\ IF s \in Capture THEN "storage" \in threads /\ Queue("raw", s, session)
                         ELSE Queue("raw", s, s)
    /\ UNCHANGED <<saverVars, sessionVars, hung, workerVars, jobs, syncVars, faults, overlap, unheard>>

(* The storage thread ends: the container's last frame is queued.          *)
FinishContainer(s) ==
    /\ s \in Capture /\ pc[s] = "saving" /\ "storage" \in threads
    /\ threads' = threads \ {"storage"}
    /\ IF session = NoSession THEN UNCHANGED queue ELSE Tell([kind |-> "finish", of |-> 0])
    /\ UNCHANGED <<pc, sessionVars, hung, workerVars, jobs, frameVars, syncVars, faults, overlap, unheard>>

(* The stacking thread ends, with a stack to save, or with none or one     *)
(* that a stalled writer had no room for.                                  *)
SaveStack(s) ==
    /\ s \in Capture /\ pc[s] = "saving" /\ "stacking" \in threads
    /\ threads' = threads \ {"stacking"}
    /\ Queue("stack", s, session) \/ UNCHANGED <<queue, frameVars>>
    /\ UNCHANGED <<pc, sessionVars, hung, workerVars, jobs, syncVars, faults, overlap, unheard>>

EndSession(s) ==
    /\ s \in Capture /\ pc[s] = "saving" /\ threads = {}
    /\ session' = NoSession
    /\ IF session = NoSession THEN UNCHANGED queue ELSE Tell([kind |-> "end", of |-> 0])
    /\ Goto(s, "ended")
    /\ UNCHANGED <<threads, plan, issued, hung, workerVars, jobs, frameVars, syncVars,
                   faults, overlap, unheard>>

-----------------------------------------------------------------------------
(* The writer.                                                             *)

Outcome(called) == IF called THEN BOOLEAN ELSE {TRUE}

Takes(kinds) ==
    /\ "writer" \notin hung
    /\ queue # <<>> /\ Head(queue).kind \in kinds
    /\ queue' = Tail(queue)
    /\ UNCHANGED <<saverVars, sessionVars, hung, syncVars, overlap, unheard, owner, dir>>

Subject == Head(queue).of

(* What a group wrote, or failed to, since its last sync.                  *)
Record(g, files, ok) ==
    pending' = [pending EXCEPT ![g] = [files |-> @.files \cup files, failed |-> @.failed \/ ~ok]]

(* The frames buffered in c, once it was flushed or failed to be.          *)
Flushed(c, ok) ==
    [f \in Frame |-> IF stage[f] = "buffered" /\ file[f] = c
                     THEN IF ok THEN "written" ELSE "failed"
                     ELSE stage[f]]

(* process_fits_raw, process_fits_stacked                                  *)
WriteFits ==
    LET f == Subject  g == GroupOf(owner[f]) IN
    /\ Takes({"raw", "stack"})
    /\ Head(queue).kind = "raw" => ~Films(dir[f])
    /\ \E ok \in BOOLEAN :
          /\ IF Head(queue).kind = "raw" /\ dir[f] = NoSession
             THEN ~ok /\ UNCHANGED faults           \* "No active session"
             ELSE Calls(<<ok>>)
          /\ stage' = [stage EXCEPT ![f] = IF ok THEN "written" ELSE "failed"]
          /\ file' = IF ok THEN [file EXCEPT ![f] = <<0, f>>] ELSE file
          /\ Record(g, IF ok THEN {<<0, f>>} ELSE {}, ok)
    /\ UNCHANGED <<container, sers, jobs>>

(* Mutant: the container is always capture.ser.                            *)
OneSerPath(d) == <<d, 1>>

(* next_ser_path *)
SerPath(d) == CHOOSE p \in {<<d, k>> : k \in Frame} \ sers :
                 \A q \in {<<d, k>> : k \in Frame} \ sers : p[2] <= q[2]

(* Mutant: a frame goes into whichever container is open.                  *)
NeverRolls(d) == FALSE

Rolls(d) == container # NoContainer /\ container[1] # d

(* process_ser_frame: close a container of another folder, create one if   *)
(* none is open, append.  Creating over a name empties it.                 *)
WriteSer ==
    LET f == Subject
        d == dir[f]
        creates == container = NoContainer \/ Rolls(d)
        path == IF creates THEN SerPath(d) ELSE container
    IN
    /\ Takes({"raw"}) /\ Films(d)
    /\ \E closed \in Outcome(Rolls(d)), created \in Outcome(creates) :
       \E added \in Outcome(created) :
          LET ok == created /\ added IN
          /\ Calls(<<closed, created, added>>)
          /\ container' = IF created THEN path ELSE NoContainer
          /\ sers' = sers \cup (IF created THEN {path} ELSE {})
          /\ stage' = [x \in Frame |->
                IF x = f THEN IF ok THEN "buffered" ELSE "failed"
                ELSE IF Rolls(d) /\ file[x] = container THEN Flushed(container, closed)[x]
                ELSE IF creates /\ created /\ file[x] = path THEN "lost"
                ELSE stage[x]]
          /\ file' = IF ok THEN [file EXCEPT ![f] = path] ELSE file
          /\ Record("Shared", IF creates /\ created THEN {path} ELSE {}, closed /\ ok)
    /\ UNCHANGED jobs

(* FinishContainer and EndSession: finalize_ser *)
CloseContainer ==
    /\ Takes({"finish", "end"})
    /\ \E closed \in Outcome(container # NoContainer) :
          /\ Calls(<<closed>>)
          /\ stage' = Flushed(container, closed)
          /\ Record("Shared", {}, closed)
    /\ container' = NoContainer
    /\ UNCHANGED <<sers, jobs, file>>

(* take_for_sync: an open container is flushed and stays recorded for the  *)
(* next sync.                                                              *)
Takeover(flushes, keeps) ==
    LET s == Subject
        g == GroupOf(s)
        open == g = "Shared" /\ container # NoContainer
    IN
    /\ Takes({"sync"})
    /\ \E flushed \in Outcome(open /\ flushes) :
          /\ Calls(<<flushed>>)
          /\ stage' = IF open /\ flushes /\ flushed THEN Flushed(container, TRUE) ELSE stage
          /\ jobs' = Append(jobs, [of |-> s, files |-> pending[g].files, done |-> {},
                                   failed |-> pending[g].failed \/ ~flushed])
    /\ pending' = [pending EXCEPT ![g] = [files |-> IF open /\ keeps THEN {container} ELSE {},
                                         failed |-> FALSE]]
    /\ UNCHANGED <<container, sers, file>>

(* Mutants: the container is not flushed; it is not recorded again.        *)
TakeUnflushed == Takeover(FALSE, TRUE)
TakeForgetting == Takeover(TRUE, FALSE)

TakeForSync == Takeover(TRUE, TRUE)

Writer == WriteFits \/ WriteSer \/ CloseContainer \/ TakeForSync

-----------------------------------------------------------------------------
(* The sync thread: sync_with, every file and then the directories.        *)

(* Nobody waits for the head job any more to hear that it failed at files. *)
Unheard(files) == IF pc[Head(jobs).of] = "waiting" THEN {} ELSE files

SyncFile ==
    /\ "syncer" \notin hung /\ jobs # <<>>
    /\ \E p \in Head(jobs).files, ok \in BOOLEAN :
          /\ Calls(<<ok>>)
          /\ stage' = [f \in Frame |-> IF file[f] = p /\ stage[f] = "written"
                                       THEN IF ok THEN "synced" ELSE "failed"
                                       ELSE stage[f]]
          /\ unheard' = unheard \cup (IF ok THEN {} ELSE Unheard({p}))
          /\ jobs' = [jobs EXCEPT ![1].files = @ \ {p},
                                  ![1].done = @ \cup (IF ok THEN {p} ELSE {}),
                                  ![1].failed = @ \/ ~ok]
    /\ UNCHANGED <<saverVars, sessionVars, queue, hung, workerVars, owner, dir, file>>
    /\ UNCHANGED <<syncVars, overlap>>

(* Mutant: a save of which something was synced is "synced".               *)
LenientReport(job) == IF job.done # {} THEN "synced" ELSE IF job.failed THEN "failed" ELSE "idle"

Report(job) == IF job.failed THEN "failed" ELSE IF job.done = {} THEN "idle" ELSE "synced"

(* Mutant: a report that comes late is taken all the same.                 *)
ReplyLate(job) == Conclude(job.of, Report(job))

(* The report, to a saver that still waits for it.                         *)
Reply(job) ==
    IF pc[job.of] = "waiting" THEN Conclude(job.of, Report(job)) ELSE UNCHANGED <<pc, verdict>>

SyncDirs ==
    LET job == Head(jobs) IN
    /\ "syncer" \notin hung /\ jobs # <<>> /\ job.files = {}
    /\ \E ok \in Outcome(job.done # {}) :
          /\ Calls(<<ok>>)
          /\ stage' = [f \in Frame |-> IF file[f] \in job.done /\ stage[f] = "synced"
                                       THEN IF ok THEN "durable" ELSE "failed"
                                       ELSE stage[f]]
          /\ unheard' = unheard \cup (IF ok THEN {} ELSE Unheard(job.done))
          /\ Reply([job EXCEPT !.failed = @ \/ ~ok])
    /\ jobs' = Tail(jobs)
    /\ UNCHANGED <<threads, sessionVars, queue, hung, workerVars, owner, dir, file, entry,
                   asked, overlap>>

Syncer == SyncFile \/ SyncDirs

(* A call on the device that does not return, until it does.               *)
Hang(t) ==
    /\ t \notin hung /\ faults < MaxFaults
    /\ hung' = hung \cup {t} /\ faults' = faults + 1
    /\ UNCHANGED <<saverVars, sessionVars, queue, workerVars, jobs, frameVars, syncVars, overlap, unheard>>

Recover(t) ==
    /\ t \in hung
    /\ hung' = hung \ {t}
    /\ UNCHANGED <<saverVars, sessionVars, queue, workerVars, jobs, frameVars>>
    /\ UNCHANGED <<syncVars, faults, overlap, unheard>>

-----------------------------------------------------------------------------
Ending(s) == FinishContainer(s) \/ SaveStack(s) \/ EndSession(s)
Syncing(s) == AskSync(s) \/ SendSync(s) \/ GiveUpOnAnswer(s) \/ Announce(s)

Next ==
    \/ \E s \in Saver : StartCapture(s) \/ StartLoop(s) \/ QueueRaw(s) \/ Ending(s) \/ Syncing(s)
    \/ \E films, saves \in BOOLEAN : UpdateSettings(films, saves)
    \/ Writer \/ Syncer
    \/ \E t \in {"writer", "syncer"} : Hang(t) \/ Recover(t)

(* The threads run on unless the device holds them; a capture's end runs   *)
(* to its end once its threads are joined.  Nobody owes a stop.            *)
Fairness ==
    /\ WF_vars(Writer) /\ WF_vars(Syncer)
    /\ \A s \in Capture : WF_vars(EndSession(s)) /\ WF_vars(AskSync(s))
    /\ \A s \in Saver : WF_vars(SendSync(s)) /\ WF_vars(GiveUpOnAnswer(s)) /\ WF_vars(Announce(s))

Spec == Init /\ [][Next]_vars /\ Fairness

-----------------------------------------------------------------------------
(* "Synced" on screen means that every file the camera's captures saved    *)
(* is on the device, but for those of a capture that was told of a         *)
(* failure (storage_sync.rs, StorageSyncState::Synced).  Two have no such  *)
(* promise: a guide loop that began over an earlier one's sync, and a      *)
(* frame added to the container of an earlier capture, when the sync which *)
(* that capture gave up on fails there (sync_with forgets what failed).    *)
SyncedMeansDurable ==
    \A g \in Group :
        entry[g].state = "synced" /\ (g = "Owned" => ~overlap) =>
            \A f \in Frame :
                owner[f] # NoSaver /\ GroupOf(owner[f]) = g =>
                    \/ stage[f] = "durable" \/ verdict[owner[f]] = "failed"
                    \/ stage[f] = "failed" /\ file[f] \in unheard

(* A camera that is saving again shows no verdict and no sync of the run   *)
(* before (storage_sync.rs, reset and the run compared in sync).           *)
NoVerdictOverASavingCamera ==
    \A s \in Saver :
        pc[s] = "saving" /\ (s \in Loop => ~overlap) => entry[GroupOf(s)].state = "idle"

(* Until it is on the device, every frame the writer has taken and not     *)
(* failed is in a file some sync has still to cover, and none is lost to a *)
(* container created over it (worker.rs, take_for_sync, next_ser_path).    *)
NothingIsForgotten ==
    \A f \in Frame :
        LET g == GroupOf(owner[f]) IN
        /\ stage[f] \in {"buffered", "written"} =>
              \/ file[f] \in pending[g].files
              \/ stage[f] = "written" /\ \E j \in DOMAIN jobs : file[f] \in jobs[j].files
        /\ stage[f] = "synced" => \E j \in DOMAIN jobs : file[f] \in jobs[j].done
        /\ stage[f] # "lost"

(* A container holds frames of its own folder only (worker.rs,             *)
(* process_ser_frame).                                                     *)
OneFolderPerContainer ==
    \A f \in Frame : file[f][1] # 0 => file[f][1] = dir[f]

(* A capture whose threads have ended, and a saver that has asked for its  *)
(* sync, come to a verdict, hung device or not, once the other camera's    *)
(* frames no longer move the writer (handle.rs, Patience).                 *)
SyncSettles ==
    \A s \in Saver :
        (\/ pc[s] \in {"ended", "asking", "waiting", "told"}
         \/ s \in Capture /\ pc[s] = "saving" /\ threads = {}) ~> pc[s] = "done"

(* While a capture that has ended syncs, its resume plan never moves to    *)
(* another folder of the same mode: resumed after a device fault, it goes  *)
(* on in the folder it was filing into (storage.rs:137-139).               *)
EndedFolderIsKept ==
    [][\A s \in Capture :
          /\ pc[s] \in {"ended", "asking", "waiting", "told"}
          /\ plan # NoSession /\ plan' # NoSession /\ Films(plan') = Films(plan)
          => plan' = plan]_vars

-----------------------------------------------------------------------------
(* The imaging camera's captures and their frames, as SavePromise sees     *)
(* them.                                                                   *)

Phase(s) ==
    CASE pc[s] \in {"none", "done"} -> pc[s]
      [] pc[s] \in {"saving", "ended"} -> "saving"
      [] pc[s] \in {"asking", "waiting", "told"} -> "syncing"

OfCamera(f) == owner[f] \in Capture

Fate(f) ==
    IF ~OfCamera(f) THEN "none"
    ELSE IF stage[f] = "durable" THEN "kept"
    ELSE IF stage[f] \in {"failed", "lost"} THEN "lost" ELSE "pending"

Promised == INSTANCE SavePromise WITH
    Nobody <- NoSaver,
    phase <- [s \in Capture |-> Phase(s)],
    shown <- entry["Shared"].state,
    told <- [s \in Capture |-> verdict[s]],
    owner <- [f \in Frame |-> IF OfCamera(f) THEN owner[f] ELSE NoSaver],
    fate <- [f \in Frame |-> Fate(f)],
    silent <- {f \in Frame : OfCamera(f) /\ stage[f] = "failed" /\ file[f] \in unheard}

(* The saver keeps SavePromise's promise: the screen follows the capture   *)
(* that runs or ran last, what was durable or failed stays so, and a       *)
(* capture hears good news only when all it saved is durable, but for what *)
(* was lost in silence after a capture was told a failure.                 *)
KeepsItsPromise == Promised!Promise

=============================================================================
