# Night Amplifier, modelled in TLA+

Night Amplifier is a live-stacking server for astronomy cameras: it drives an imaging
camera and a guide camera through vendor SDKs, stacks and renders their frames, saves them
to disk and shows them to browsers. The image processing is sequential numerics. What is
hard is around it: calls into vendor libraries that may never return, handles passed between
threads, cameras that drop out and are reopened while the observer presses buttons, and a
disk that is slower than the camera and loses power seconds after a Stop.

This project models that part. Each module says in its header which sources it stands for;
`PROJECT.json` names the lines of every definition. Below, `core/` is `src/crates/core/src/`
and `session/` is `src/crates/session/src/`.

Contents: [system](#the-system) · [modules](#modules-and-the-code) · [runs](#runs) ·
[proofs](#proofs) · [what the models found](#where-code-and-comments-disagree) ·
[not modelled](#not-modelled) · [plan](#plan)

## The system

| Component | State | Operations | Hard because |
|---|---|---|---|
| Lease table (`core/camera/device_lease.rs`) | per vendor index: generation, open, device claimed | acquire, acquire unique, claim, begin close | handles abandoned inside SDK calls close late |
| Vendor shims (`core/camera/*/shim.rs`) | SDK handles and pointers | open, describe, close, drop | no lock spans an SDK call and the table |
| Slot recovery (`session/camera/{recovery,reconnect}.rs`, `lifecycle/disconnect.rs`, `state/camera_slot.rs`) | roster entry, recovery state, single-flight flag, notice | suspend, reopen, install, give up, tear down, connect, disconnect | faults, supervisors and requests on one slot |
| Handle hand-off (`lifecycle/hand_off.rs`, `monitor/`, `guide_loop.rs`, `guide_task/`) | handle in the slot, monitor epoch, registered loop | poll, take, give back, stop, retire, install | one handle, three kinds of owner, stuck calls |
| Disk writer and storage sync (`core/disk_writer/`, `storage_sync.rs`, `capture/storage.rs`) | bounded queue, session, SER container, pending files, sync jobs, verdicts | queue, write, roll, finish, end, sync, announce | full queue, failing or hung device, rolled sessions |
| Capture control (`services/capture_service.rs`, `state/mod.rs`) | capture state, cancel flag, resume plan | start, stop, pause, resume, end | compare-and-set on one variable, three more beside it |
| Sibling isolation, health (`recovery.rs`, `reopen_hold.rs`, `health.rs`) | in-flight vendor calls per role, reopen hold, fault streaks | drain, hold, release, report | two cameras on one SDK |
| Frame pipeline (`capture/{task,channel,capture_thread,stacking_task,render_task,storage}.rs`) | three bounded channels and their depths, the stack, one parked | probe, send, drop, stack, park, render, drain, join | drops, display copies, Stop's bound, panics |
| Frame streams (`state/frame_stream.rs`, `stream_viewers.rs`, `server/ws/image_stream.rs`) | version, payloads, viewers, what each page was sent | publish, encode on demand, clear, wake, send | encodes race the producer, wake-ups race the look |
| Event sync (`events/sync.rs`, `state/sync.rs`) | topics and broadcast | announce, restate | lagging clients |
| Settings (`settings_store.rs`, `settings_persistence.rs`, `settings_service.rs`, `focus_mode.rs`) | snapshot, file, profile | update, apply, save | concurrent requests, crash while saving |

How they interact. A *connect* opens a device through a shim, which takes a lease, and
installs the handle in its role's slot with a monitor. A capture or the guide loop takes the
handle out and brings it back; a call that outlives its patience is abandoned with the
handle inside it. A lost handle is *reported*: with automatic reconnection the slot is
suspended and a supervisor reopens, otherwise `finalize_disconnect` takes everything down.
A capture is moved between
its states by the observer, by its own pipeline and by the supervisor of a lost camera. Its four
threads hand frames on through bounded channels: to the stack, whose pictures go to the stream the
pages watch, and to the disk writer's bounded queue; when a camera stops, its files are synced by
a thread of their own and the verdict is announced. The order of properties that make the
whole correct: never close a device somebody else uses; never lose a handle or a slot; never
restart what the observer ended; never say "saved" of what a power cut would take.

## Modules and the code

### DeviceLease
`slots` is the map behind the table's mutex and `lease` each `DeviceLease`'s own fields; one
action per critical section. One provider only, since the key is (provider, index) and no
operation reads another provider's slots. Wrap-around of the 64-bit generation is not
modelled.

### VendorShims
EXTENDS DeviceLease with the SDK's own state and a stage per handle, and composes three
protocols: index-addressed (ZWO, PlayerOne, SVBony), claimed and pointer-addressed (QHY),
pointer-addressed (ToupTek). A vendor call and a critical section of the table are separate
steps. `Zwo` and `PlayerOne` say whose shim an index has, the rest being SVBony's: PlayerOne's
closes a device whose Init failed; ZWO's, the only one whose discovery opens, leaves it open with no handle to
close it (`zwo/shim.rs:136-148`). `leaked` is the
history of that, and the one exception `NothingIsLeftOpen` names. The SDKs are external and modelled
from how the shims use them: opening and closing an index acts on whoever has it open.

### SlotRecovery
One role's slot. Tasks are reporters (a capture loop, a guide loop or a monitor that lost its
handle), clients (one request each) and supervisors; a step ends at an await or an unlocked
gap. `entry` is the roster's, `recovery` the slot's `Recovery`, `inFlight`
`reconnect_in_flight`, `lock` `camera_connect_lock`, `status` what clients were last told.
`gone`, `strayed` are history. The time budget of a recovery is `MaxAttempts` reopens.

### GuideHandOff
The guide camera's handle among monitor, guide loop and requests, automatic reconnection off
(SlotRecovery has it on) and no cooler. It is the same camera each time: a name does not tell
its connections apart. `odd` marks three races that the code loses by its own timeouts and
that the strong properties except by name: *late* (a stop gave up on a loop, which then parks the
handle of an earlier connection while the new monitor has the new one out, `hand_off.rs:144`),
*crossed* (what a hand-off tells the monitor or the roster reaches a slot that has moved on), *behind*
(a status call that returns between a teardown's close and its removal of the entry parks an open
handle, `disconnect.rs:394`).

### SavePromise and DiskSync
The two ends of a capture that feed the writer, the writer, its sync thread and
`StorageSync`. Each frame has a stage: queued, buffered in a SER container, written (complete
in the OS's cache), synced (its file), durable (its directories too), or failed. `queue`,
`container`, `pending`, `jobs` are the writer's fields; `entry`, `asked`, `verdict` are
`StorageSync`'s entries, the run each sync compares and what came of it. Captures are numbered
upwards and guide loops downwards from zero; a capture runs to the end of its sync before the
next, guide loops do not. A device that hangs stops the writer or the sync thread (`hung`), and
a wait is given up on only when nothing moves (`Stalled`), which is what `Patience` measures.
Abstractions: the write in progress still counts in the queue; a stack stands for its FITS and
its PNG and has a name of its own; a full queue's refusal of a raw frame leaves no trace. `overlap`
and `unheard` are history: a guide loop began before an earlier one's sync was queued; a file's sync
failed in a job whose caller had given up, so that nobody heard of it. The
32-frame refresh of a container's count never comes up; one mode films, so a folder's mode and
container type are one fact.

SavePromise is what the imaging camera's saver promises, with no queue, container, job or thread in it: captures
one after the other, frames kept or lost for good, one verdict for each capture, good only if all it saved is kept, and a
screen that shows the verdict of the capture that ended last and nothing of it once the next begins. The refinement maps a frame
durable to *kept*, failed to *lost*, anything before to *pending*, and a frame that failed in an
`unheard` file to one lost in *silence*, which the promise allows only once a capture was told a
failure. A guide loop's frames and verdicts are mapped to nothing: its steps are stutters, which is what
the two groups of `SyncGroup` are for.

### CaptureControl
The imaging camera's capture state, its cancel flag and its resume record (`plan`, `stack`), each
behind a lock of its own in the code, so each touched in a step of its own; the slot with the
handle; and the tasks that touch them: operators (Start, Stop), riggers (Disconnect, Connect),
pipelines and the supervisor of a lost camera. An *observation* is what one Start begins, across
every resume of it. Recovery is here only the state of the slot that the capture sees;
SlotRecovery has the rest. A teardown (`finalize_disconnect`) is five steps, one per lock, whoever of its three callers
runs it: the recovery ends, the handle is taken, the entry goes, the pause ends, the record is dropped. A hand-off judges
by the slot (`Judge`) and parks (`Put`) in two. Three history flags mark orders in which the code acts on what is no longer so:
`crossed`, a pause was decided on a state read before the observer ended the capture; `amid`, a capture
began while the one before had an act of its end still to do (a pipeline winding up, a record not yet dropped);
`behind`, a camera came back, or a lost one was suspended, between a teardown's taking of the handle and its removal
of the entry. `Undisturbed` is that none of the three has happened. `NoHandleInAnEmptyRole` excepts only what came
`behind`; `StopIsFinal` what is no longer `Undisturbed` *before* the step, and the
one step `Revives`, in which a pipeline that read "recovering" before a Stop pauses the capture that Stop ended.
`Beyond` says whether a run goes on past the three; what the code does there is told below.

### LiveView and FrameStream
LiveView is what a stream promises: a page shows no picture older than the version it was sent,
its versions only grow, and once the stream rests every page shows it as it is. FrameStream is the
code: `story` is every frame the producer set and every clear, and the counter counts the versions
claimed for them, so a version and a picture compare as numbers. The handler of a
socket is modelled from `serve` to `payload_for_client`, one step per watch operation, lock or slot. The
refinement maps a page's `floor` to the version it was sent last, and `ordered` to `InOrder`.

A clear may begin at any time: a Disconnect that gave up waiting for the pipeline
(`disconnect.rs:163-164`, `257-260`) clears the stream beside a frame under way (`:392`). The producer and the
clear then claim and send versions in either order. `met` is the history that they did; `astray`
holds the versions claimed for a picture that was no longer the newest; the stream is `InOrder` when the newest
version was sent and is not astray, which it always is until they meet, and again from the next
undisturbed frame or clear. The promise leaves out a version astray and a stream out of order, and only a clear
can bring about either; what the code does there is told below.

Two more things the model shows of the code, and the promise allows for: an encode on demand reads the version
before the frame, so it may file a *newer* picture under its version (the page may show it and then, under the next
version, the same or one before it, never one older than the version); and a page keeps the
picture it has when a clear is followed by a frame that no encoder takes. The two
roles' streams and the two payload families share nothing, so one of each is modelled.

### FramePipeline
The orchestrator (`run_capture_loop`) and the four threads. Frames have no numbers: one frame of an
observation, any of them, is marked and followed (`inStack`, `onDisk`, `seen`), and a capture has no
bound on its length. A message's settings snapshot is whether stacking was on. `stack` says
whether the accumulator holds the marked frame, and `parked` is `CaptureResume`'s. Only the render
channel's depth is modelled: the capture channels' are reported and never read. Registration,
conversion and rendering are choices: a frame joins, is rejected, or fails. A panic may end any thread at any point,
and takes what it holds and its channel's contents along. A change of stacking mode in mid-capture is
the switch going off and on, as both reset the stack. Left out: the counters, the admission
gate's retraction of frames it admitted, and what a frame shows besides whether a stack
change is in it.

### MC modules
`MCVendorShims` adds symmetry sets for handles, `MCGuideHandOff` for
handles, monitors and loops (interchangeable: no action orders them and no temporal property
needs them apart; its one action property is symmetric). The runs that check liveness use no
symmetry.

## Runs

| Run | Asks | Bounds |
|---|---|---|
| `vendor_shims` | one close per lease; open tells the newest handle; exclusive owners; no freed pointer is closed; whatever is open or claimed has somebody to let go of it | 4 handles on a ZWO index, a PlayerOne index and one QHY device |
| `slot_recovery` | one supervisor; Installing and Suspended are attended; a disconnect is final; no notice is left up; every dropout ends | 2 cameras, a reporter, a client, 2 supervisors, 2 faults, 3 requests |
| `guide_hand_off` | at rest, the handle is where its next user finds it; after a disconnect nothing is open; no late owner closes a live device | 2 handles, monitors and loops, 4 requests, 1 fault |
| `disk_sync` | the saver implements SavePromise; nothing written is forgotten; containers never mix folders; every Stop settles | 2 captures, 2 frames or stacks, 2 folders that film, queue of 2, 1 fault |
| `guide_sync` | "synced" means durable, for two loops beside a capture; no verdict over a saving camera | 2 loops, 1 capture, 2 frames, queue of 2, 2 faults |
| `capture_control` | one pipeline at the camera, and shown; no handle in an empty role; nothing left to resume; a Stop is final; a Stop and a pause end | 2 pipelines, an operator, a rigger, 2 observations |
| `frame_stream` | no payload older than its version; nothing missed at rest; the stream implements LiveView, its liveness included; a clear beside a frame under way | 2 pages, one of which follows the camera viewed, 2 pictures and clears in all |
| `frame_pipeline` | channels within their capacity; the render count is true; nothing accepted is lost; the view follows; every pipeline ends | channels of 2, 1 and 1, 1 failure, panic or switch at a time, 2 messages behind the renderer |
| `index_shim_close`, `stray_suspension`, `ended_folder`, `capture_behind_idle` | a sentence of the code's own comments, violated | as small as shows it |

Why these bounds. Four handles are an owner, one stuck from before, one opening and discovery's. Two
supervisors are the one in flight and the one a fault spawns as it lets go; two cameras are
one that leaves and one that comes. Two monitors and two loops are an old and a new one of each.
Two pipelines are one that winds
up and one that begins. Two pictures are one a page has and one it may miss, or a frame and the clear it meets;
the invariants of `frame_stream` also hold with three (27 million states, too many for its liveness). The storage and render channels
of one slot are below the two the code never goes under, so that full channels come up sooner;
the proofs have every size. Two frames are one before and one after a roll, a resume or a sync; one fault is a write, a
sync, a directory, a finalize or a hung thread, anywhere, and two are a thread that hangs and a call that
fails behind it. More of each is the proofs' part. Deadlock is checked in `frame_pipeline`, where an idle pipeline can
always start again; not elsewhere, because each model stops where its bounds are used up and nobody owes
another request.

Fairness. `SlotRecovery!FairSpec`: every task that has begun goes on (tokio runs what is
ready), strongly for the two waits on `camera_connect_lock`, a FIFO tokio mutex; none for
faults and requests. `DiskSync!Spec`: the writer and the sync thread run unless the device
holds them; a capture whose threads have ended goes on to its end; a patient wait is retried
or given up. No fairness for stops, frames or a hung device's recovery. `CaptureControl`: a request goes on once made,
a pipeline and the supervisor go on; nobody need start, stop or end a healthy run, so that a Stop alone must end it.
`FrameStream`: the producer and a clear finish what
they began, and each handler goes on, strongly as it waits for the encode lock, a FIFO tokio mutex; no frame, clear or
page need come. `FramePipeline`: each thread goes on (a
failing exposure is bounded, a blocked one is the watchdog's) and five seconds pass. `SyncSettles` holds
once the other camera's frames no longer move the writer, as they do run out in the model: the
code's patience counts any progress of the writer, so while the other camera saves, a
sync whose own job is stuck is not given up (`handle.rs:485`).

What the liveness properties leave open. `DropoutEnds` has finitely many faults: a camera that answers and
faults again without end is not covered. `TheViewFollows` is released when the capture thread ends: what is then in
the stack is shown by no later picture. `StopsAndPausesEnd` is released once a run is disturbed, so a pause stuck after
a `crossed` decision is not ruled out. And `LiveDeviceIsKept` excepts *late*, the half of
`hand_off.rs:144` in which an old loop parks over the new monitor's camera.

## Proofs

TLAPS proves, for every value of the constants under the modules' named assumptions:

- `DeviceLeaseProofs`: `TypeCorrect`, `OneClose`, `OpenIsTruthful`, `Exclusive`,
  `StaleForGood`. The properties are not inductive alone. `LeaseInv` adds that every slot in the
  map was claimed (`SlotsWereClaimed`), that no issued lease is ahead of its slot
  (`LeasesWereClaimed`), that a stamp is on one lease only (`StampsAreDistinct`), and that closes
  are counted by the closed flag (`ClosesAreCounted`). `ClaimInv` and `CloseInv` carry it
  over the steps. `StaleForGood` follows because generations only grow on a vendor slot, and the
  index of a unique slot, which leaves the map when it closes, is never given out again.
- `SlotRecoveryProofs`: `TypeCorrect`, `OneSupervisorAtATime`, `InstallsAreAttended`,
  `SuspensionsAreAttended`, `DisconnectsAreFinal`, `NoticesComeDown`. The invariant has a
  part per idea: `Single` ties the flag to one driving supervisor, `Locked` the lock to the
  places that hold it; `Settled` says an entry goes only from a slot whose recovery has ended;
  `Quiet` that a supervisor about to go has taken its notice down; `Wanted` that what is about to
  be installed has not been sent away. Each part has a lemma that every step preserves it, from
  the parts it needs; `Invariance` puts them together.
- `FrameStreamProofs`: `TypeCorrect`, `PayloadsAreNotOlder`, `NothingIsMissed`,
  `ImplementsLiveView`, for any set of pages, any story and any meeting of clears and frames. `StageInv` says how far
  counter and story are apart at each stage of the producer and of a clear; `MetInv` that nothing is astray or out of
  order until the two meet, which takes a clear; `VersionInv` whose picture the last version is of while a frame is being
  encoded; `PayloadInv` that no tag passes the counter; the
  handlers' parts compare the version and the picture in hand; `BehindInv` that the version some page has
  still to be sent was encoded for it unless no encoder takes it; `QuietInv` what a handler with no wake-up
  pending knows of a stream at rest and in order. The refinement is the safety half: Init
  maps to LiveView's, and every step to one of its steps or to none.
- `FramePipelineProofs`: `InductiveInvariant`, `TypeCorrect`, `GateIsTrue`, `AcceptedIsKept`, for channels of
  every size, any number of failures and panics, and any number of resumes. `Places` says which threads there are
  when, and that one not running owes the render count nothing; `Orderly` that without a panic
  the renderer outlives the stacker; `Marks` where a queued marked frame is; `Carried` that a stack, wherever it is kept,
  was built with the switch where it stands, so that no resume takes it for a fresh one. One lemma per
  action keeps them.
- `VendorShimsProofs`: `UsesTheTable`, that every step of the shims is a step of DeviceLease or
  leaves the table alone, so that its results hold here too (`TableIsRight`); `ShimTypeCorrect`;
  `NoFreedPointerIsClosed`; and `NothingStaysOpen`, for any split of the indices among the three vendors, with ZWO's
  leak the one exception. Its invariant says of every stage of a handle which device, claim and lease it answers for.
- `CaptureControlProofs`: `InductiveInvariant`, `TypeCorrect`, `OneHolder`, `EmptyRoles`, `NothingLeft`,
  `AStopIsFinal`, for any number of pipelines, operators, riggers and observations. `LostLate`, `EndedBegan`,
  `Attended` and `NoHandleInAnEmptyRole` hold whatever is `crossed` or `amid`. `AStopIsFinal` shows more than the
  run: that `Revives` is the only step that brings an ended capture back in an undisturbed run. The rest is `Calm`, what holds while
  neither has happened: one Start, resume or pipeline at most brings a capture on (`OneCarrier`), the state says
  so (`Shown`), a pause is a supervisor's or a Disconnect's to end (`Pauses`), an idle capture's record is dropped or about
  to be (`Dropped`), an observation that was ended neither runs nor is paused (`Final`), and the record is
  the newest observation's (`Own`).
- `DiskSyncProofs`: `InductiveInvariant`, `TypeCorrect`, `SyncedIsDurable`, `NothingForgotten`, `OneFolder`,
  `NoVerdictWhileSaving`, for any number of captures, loops, frames, folders and faults, and any queue. A camera's
  savers have turns (`Turns`): unless a loop overlapped, one with its sync still to send is the newest, and its
  run is the entry's. Queue and jobs keep the turns (`Line`, `SyncLine`, `JobLine`), so a saver's sync is behind all
  its frames and ahead of any later saver's (`Held`), and a job that is waited for covers nothing of a later
  one (`JobOwn`). `Account` then follows a saver's frames: recorded for the next sync, in its job, durable at its
  verdict, or a failure counted at each. `AnsweredInTurn`, that no saver still waits when a later one has been
  told, makes the newest verdict speak for all. `Numbered`, that a folder's containers are numbered without a
  gap and are no more than the frames written, gives `next_ser_path` a free name, so that no container is
  created over another. `KeepsPromise` is the refinement of SavePromise, whole: every step is one of its steps or none.
  It takes two more invariants: a capture told good news has no sync on its way (`Answered`), and a file of the captures
  fails unheard only once one of them was told a failure (`Silenced`). The writer's and the sync thread's
  steps, and a capture's giving up, are all `Device` (`DeviceMaps`), by what they may not touch: the place of a
  capture, and a frame that is durable or failed.
- `GuideHandOffProofs`: `InductiveInvariant`, `TypeCorrect`, `NoSelfWait`, `ConnectedIsReachable`,
  `DisconnectedIsClosed`, `LiveDeviceKept`, for any number of handles, monitors, loops, clients, faults and
  requests. The invariant has three layers, as the races do. Whatever happens, a handle has one owner and an open
  device's is somewhere (`Owned`), a loop at work is registered or told to stop (`Enlisted`), only the newest connection's monitor polls,
  and an old one has no new handle (`Watched`). Unless something came in *behind* a
  teardown, or a hand-off *crossed* one, `Gone` says what each stage of a teardown has already taken away, so that the
  entry leaves nothing open; a *late* stop does not disturb it. With no race at all, `Calm` has every handle
  in hand be the newest connection's, and whoever told a loop to stop still wait for it. That is why the next
  Install finds no loop of the connection before, and why a returning owner that finds the slot full,
  or its camera gone, drops nothing that is in use.

The only hypotheses are the assumptions on the constants. Every safety property
of the passing runs is proved. Only model-checked: the liveness properties `DropoutEnds`, `SyncSettles`, `StopsAndPausesEnd`,
`TheViewFollows`, `ThePipelineEnds` and LiveView's, since liveness under fairness is outside the prover's reach.

## Where code and comments disagree

Each is a run that ends in a counterexample; `PROJECT.json` quotes the lines.

1. `index_shim_close`: between `begin_close` and the SDK close of an abandoned handle, a
   reconnect can open the index and take its lease; the close then lands on the new handle.
2. `stray_suspension`: a fault that was checked before a teardown and suspends after it leaves
   an empty slot suspended, which the next camera inherits.
3. `ended_folder`: a settings update between a faulted capture's `end_session` and the end of
   its sync opens a new folder and points the resume plan at it, so one session interrupted by a
   fault ends up in two folders.
4. `capture_behind_idle`: a Stop or Disconnect of a paused capture reads Idle while the pipeline
   that paused has still to run its own `end_capture_state`. A Start let in then is moved to
   Idle by it, and captures on behind that.

Found while proving, and not filed as a run: `StorageSyncState::Synced` says "Every file the capture saved is
on the device", and `SyncedMeansDurable` without its last exception does not hold. A hung device makes a Stop give up on its
messages, so that the container stays open, and on its sync. The next capture resumes the folder and
adds a frame to that container; then the abandoned job syncs the file and fails. `SyncJob::run` sends its report to nobody,
and `sync_with` has forgotten the file it failed on; the new capture's own sync of it succeeds, and reads Synced,
over a frame whose bytes the failed sync may have dropped. It takes three faults (2 captures, 3 frames, a folder that
films); `unheard` names it, and the proof shows that there is no other way.

Seen while modelling, and not filed as runs. Those a property excepts by name:

- *VendorShims* (`leaked`): ZWO's shim returns from a failed Init without closing what it opened
  (`zwo/shim.rs:136-141`, `146-148`). The device stays open until a later handle on its index is closed.
- *CaptureControl* (`behind`): after a Disconnect that gave up waiting, the pipeline's handle may come back when the
  teardown has found none to take (`disconnect.rs:395`) and has not yet removed the entry (`:415`). It is parked, and stays in
  the emptied role until the next connect displaces it (`install.rs:326-329`), though the comment at
  `disconnect.rs:412-414` has that window closed. A Start in the same window finds the handle missing, is suspended and
  paused, and stays paused until a Stop, as the entry then goes and the supervisor abandons.
- *CaptureControl* (`Revives`): `end_capture_state` reads that the slot recovers, a Stop then ends the paused capture, and
  the update pauses it again (`state/mod.rs:440-443`), which `capture_service.rs:265-267` says cannot be.
- *FrameStream* (`astray`, `InOrder`), each after a Disconnect that gave up: a clear between a frame's arrival
  (`render_task.rs:195`) and its version (`:198`) leaves the gone camera's frame published, its payload filed, under a later version than
  the clear's; a frame set once a clear has taken its picture down is up until the next one, against
  `frame_stream.rs:157-162`; and `publish_frame` loads the counter and sends it in two steps (`:83`), so that a
  clear's send between them is followed by an earlier version, and a page that was sent that one takes the clear for nothing new.
- *GuideHandOff*: the races *late* and *behind*, above.
- *DiskSync* (`overlap`): a guide loop that begins before the sync of the one
  before it was queued may read Syncing, then Synced, while it saves (the
  fix in `storage_sync.rs` compares runs but reads the run only when the sync begins).

And those outside the properties: QHY gives its claim back
before the SDK closes the device, so a connect may open it beside the first handle
(`qhy/shim.rs:140`); `reset_counters` may fall between
a frame's `delivered` and its `dropped`, and leave a drop rate above one (`state/session.rs:150`); and
a comment of `frame_stream.rs` has a payload filed under its own frame's version, where one encoded on demand may
be newer.

## Not modelled

- Sibling isolation, event sync and settings, which are in the plan.
- Of the pipeline: the counters, the wanderer's and the frame gate's statistics, what a rebuilt stack takes back.
- Cooler ramps and warm-up, discovery, INDI, installs: timing over minutes, parsing, or calls
  out of the repository.
- Stacking, registration, planetary, render and plate solving: floating-point numerics of one
  thread, or a plugin kept elsewhere.
- HTTP, WebSocket transport and the web client: conversions around the services.
- Frame names and numbers, file formats, disk-space warnings and failure notices.

## Plan

In order; a later module reuses the conventions above (one action per step between locks or
awaits, named race flags, mutants beside what they change, no recursion in what is proved).

1. **SiblingIsolation**: in-flight vendor calls per role, the reopen hold and its deadline,
   two roles on one SDK. Bounds: two roles, two supervisors. Liveness: a held reopen runs.
2. **CaptureControl with SlotRecovery**: the two composed through pause and resume.
3. **EventSync**: recorded before announced; a lagging client converges.
4. **Settings**: concurrent updates, the profile swapped with the camera, focus mode, the saved file.
5. **FrameAdmission**: the frame gate's probation, retraction and re-base, with the counters.
