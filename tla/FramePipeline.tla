---------------------------- MODULE FramePipeline ----------------------------
(***************************************************************************)
(* The four threads a capture of the imaging camera runs on               *)
(* (crates/session/src/capture/): the capture thread hands each frame to  *)
(* the stacking and to the storage channel, the stacking thread hands a    *)
(* picture to the render channel, and the orchestrator (task.rs) feeds the *)
(* probe frame in, spawns them, joins them and ends the disk session.      *)
(*                                                                         *)
(* Frames have no contents and no numbers here.  One frame of each         *)
(* observation, any of them, is marked and followed: what holds of it      *)
(* holds of every frame, and a capture may be as long as it likes.         *)
(***************************************************************************)
EXTENDS Naturals, Sequences

CONSTANTS
    StackCap, StoreCap, RenderCap,  \* slots of the three channels
    DrainCap,     \* bound: messages the renderer can be behind at once
    MaxEvents     \* bound: failed exposures, conversions and renders, panics,
                  \* and times the observer switches stacking on or off

ASSUME CapAssumption ==
    /\ StackCap \in Nat \ {0} /\ StoreCap \in Nat \ {0} /\ RenderCap \in Nat \ {0}
    /\ DrainCap \in Nat /\ RenderCap < DrainCap
    /\ MaxEvents \in Nat

VARIABLES
    main,               \* the orchestrator
    cap, stk, ren, sto, \* the threads: capture, stacking, render, storage
    stackQ, storeQ, renderQ,
    depth,              \* QueueDepth of the render channel
    shot,               \* the capture thread's frame: is it the marked one
    sub, picture,       \* the stacking thread's frame, and what it sends
    latest, owed,       \* the render thread's picture, and messages uncounted
    stack, parked,      \* the accumulators: the stacking thread's, CaptureResume's
    wasOn,              \* was_stacking_enabled
    stacking,           \* the observer's setting
    since,              \* cancelled_for: no Stop, within the drain, past it
    lost,               \* the capture thread came back without a handle
    inStack, onDisk, seen,          \* what became of the marked frame
    events, toggled, panicked

threads == <<cap, stk, ren, sto>>
queues == <<stackQ, storeQ, renderQ>>
fate == <<inStack, onDisk, seen>>
story == <<events, toggled, panicked>>
rendering == <<latest, owed>>
accum == <<stack, parked, wasOn>>
vars == <<main, threads, queues, depth, shot, sub, picture, rendering, accum,
          stacking, since, lost, fate, story>>

Stack == {"none", "bare", "marked"}     \* no stack, one without and with the marked frame
Frame == [mark : BOOLEAN, on : BOOLEAN] \* a captured frame and its settings snapshot
Ended == "done"

UpTo(S, n) == {q \in Seq(S) : Len(q) <= n}

\* Every thread is somewhere on its way, and every channel within its capacity:
\* the memory the frames in flight were budgeted for (channel.rs:63).
TypeOK ==
    /\ main \in {"idle", "paused", "probing", "probeStack", "probeStore",
                 "spawnCapture", "spawnStages", "joining", "closing"}
    /\ cap \in {"off", "loop", "offered", Ended}
    /\ stk \in {"off", "recv", "work", "claimed", "leaving", Ended}
    /\ ren \in {"off", "recv", "draining", "counting", Ended}
    /\ sto \in {"off", "recv", Ended}
    /\ stackQ \in UpTo(Frame, StackCap)
    /\ storeQ \in UpTo(BOOLEAN, StoreCap)
    /\ renderQ \in UpTo(BOOLEAN, RenderCap)
    /\ depth \in Nat /\ owed \in Nat
    /\ shot \in BOOLEAN /\ sub \in Frame /\ picture \in BOOLEAN /\ latest \in BOOLEAN
    /\ stack \in Stack /\ parked \in Stack
    /\ wasOn \in BOOLEAN /\ stacking \in BOOLEAN
    /\ since \in {"none", "recent", "past"}
    /\ lost \in BOOLEAN
    /\ inStack \in {"none", "queued", "joined", "passed", "gone"}
    /\ onDisk \in {"none", "queued", "settled"}
    /\ seen \in BOOLEAN
    /\ events \in 0..MaxEvents /\ toggled \in BOOLEAN /\ panicked \in BOOLEAN

NoFrame == [mark |-> FALSE, on |-> FALSE]

Init ==
    /\ main = "idle"
    /\ cap = "off" /\ stk = "off" /\ ren = "off" /\ sto = "off"
    /\ stackQ = <<>> /\ storeQ = <<>> /\ renderQ = <<>>
    /\ depth = 0 /\ shot = FALSE /\ sub = NoFrame /\ picture = FALSE
    /\ latest = FALSE /\ owed = 0
    /\ stack = "none" /\ parked = "none" /\ wasOn = FALSE
    /\ stacking \in BOOLEAN
    /\ since = "none" /\ lost = FALSE
    /\ inStack = "none" /\ onDisk = "none" /\ seen = FALSE
    /\ events = 0 /\ toggled = FALSE /\ panicked = FALSE

Event == events < MaxEvents /\ events' = events + 1

\* Mutant: the loops do not see the flag.
CancelUnseen == FALSE

\* is_cancelled.
Cancelled == since # "none"

Forgotten == inStack' = "none" /\ onDisk' = "none" /\ seen' = FALSE

\* Mutant: one slot too many.
RoomOver(q, n) == Len(q) <= n

Room(q, n) == Len(q) < n

-----------------------------------------------------------------------------
\* The orchestrator.

\* A fresh start: the cancel is reset and the stack parked by an earlier
\* capture dropped.
Start ==
    /\ main = "idle"
    /\ main' = "probing"
    /\ parked' = "none"
    /\ since' = "none"
    /\ lost' = FALSE /\ panicked' = FALSE /\ toggled' = FALSE
    /\ Forgotten
    /\ UNCHANGED <<threads, queues, depth, shot, sub, picture, rendering, stack, wasOn,
                   stacking, events>>

\* Recovery reopened the camera; the capture a fault interrupted goes on.
Resume ==
    /\ main = "paused"
    /\ main' = "probing"
    /\ lost' = FALSE
    /\ UNCHANGED <<threads, queues, depth, shot, sub, picture, rendering, accum, stacking,
                   since, fate, story>>

\* The recovery gives up, or the observer stops the paused capture.
GiveUp ==
    /\ main = "paused"
    /\ main' = "idle"
    /\ parked' = "none"
    /\ Forgotten
    /\ UNCHANGED <<threads, queues, depth, shot, sub, picture, rendering, stack, wasOn,
                   stacking, since, lost, story>>

\* No first frame: a fault pauses the capture, anything else ends it.
ProbeFails ==
    /\ main = "probing"
    /\ \/ ~Cancelled /\ main' = "paused" /\ UNCHANGED <<parked, fate>>
       \/ main' = "idle" /\ parked' = "none" /\ Forgotten
    /\ UNCHANGED <<threads, queues, depth, shot, sub, picture, rendering, stack, wasOn,
                   stacking, since, lost, story>>

\* The first frame sizes the channels, which begin empty with their counts.
ProbeArrives ==
    /\ main = "probing"
    /\ \E mark \in BOOLEAN : (mark => inStack = "none") /\ shot' = mark
    /\ main' = "probeStack"
    /\ depth' = 0
    /\ UNCHANGED <<threads, queues, sub, picture, rendering, accum, stacking, since, lost,
                   fate, story>>

\* Both sends block, and nobody is there to receive yet.
ProbeToStack ==
    /\ main = "probeStack"
    /\ Room(stackQ, StackCap)
    /\ stackQ' = Append(stackQ, [mark |-> shot, on |-> stacking])
    /\ inStack' = IF shot THEN "queued" ELSE inStack
    /\ main' = "probeStore"
    /\ UNCHANGED <<threads, storeQ, renderQ, depth, shot, sub, picture, rendering, accum,
                   stacking, since, lost, onDisk, seen, story>>

ProbeToStore ==
    /\ main = "probeStore"
    /\ Room(storeQ, StoreCap)
    /\ storeQ' = Append(storeQ, shot)
    /\ onDisk' = IF shot THEN "queued" ELSE onDisk
    /\ main' = "spawnCapture" /\ shot' = FALSE
    /\ UNCHANGED <<threads, stackQ, renderQ, depth, sub, picture, rendering, accum,
                   stacking, since, lost, inStack, seen, story>>

SpawnCapture ==
    /\ main = "spawnCapture"
    /\ main' = "spawnStages"
    /\ cap' = "loop"
    /\ UNCHANGED <<stk, ren, sto, queues, depth, shot, sub, picture, rendering, accum,
                   stacking, since, lost, fate, story>>

\* Mutant: the detector starts as in a new capture.
DetectorOff(carried) == FALSE

\* reset_detector_start: a stack carried over counts as stacking already on.
DetectorStart(carried) == carried # "none"

\* A resume takes the parked stack over; after a fresh start there is none.
SpawnStages ==
    /\ main = "spawnStages"
    /\ main' = "joining"
    /\ stk' = "recv" /\ ren' = "recv" /\ sto' = "recv"
    /\ stack' = parked /\ parked' = "none"
    /\ wasOn' = DetectorStart(parked)
    /\ UNCHANGED <<cap, queues, depth, shot, sub, picture, rendering, stacking, since, lost,
                   fate, story>>

AllJoined == cap = Ended /\ stk = Ended /\ ren = Ended /\ sto = Ended

\* join_pipeline, then the disk session is ended behind the last queued frame.
EndSession ==
    /\ main = "joining" /\ AllJoined
    /\ main' = "closing"
    /\ UNCHANGED <<threads, queues, depth, shot, sub, picture, rendering, accum, stacking,
                   since, lost, fate, story>>

\* The handle goes back and the capture's state ends: paused when the camera
\* was lost and nobody asked for a Stop, else over for good (end_capture_state).
HandBack ==
    /\ main = "closing"
    /\ cap' = "off" /\ stk' = "off" /\ ren' = "off" /\ sto' = "off"
    /\ IF lost /\ ~Cancelled
         THEN main' = "paused" /\ UNCHANGED <<parked, fate>>
         ELSE main' = "idle" /\ parked' = "none" /\ Forgotten
    /\ UNCHANGED <<queues, depth, shot, sub, picture, rendering, stack, wasOn, stacking,
                   since, lost, story>>

-----------------------------------------------------------------------------
\* The observer: a Stop (request_cancel, which stamps its time), the five
\* seconds of the drain, and the stacking switch.

Stop ==
    /\ main \notin {"idle", "paused"} /\ since = "none"
    /\ since' = "recent"
    /\ UNCHANGED <<main, threads, queues, depth, shot, sub, picture, rendering, accum,
                   stacking, lost, fate, story>>

DrainRunsOut ==
    /\ since = "recent"
    /\ since' = "past"
    /\ UNCHANGED <<main, threads, queues, depth, shot, sub, picture, rendering, accum,
                   stacking, lost, fate, story>>

ToggleStacking ==
    /\ Event /\ toggled' = TRUE
    /\ stacking' = ~stacking
    /\ UNCHANGED <<main, threads, queues, depth, shot, sub, picture, rendering, accum,
                   since, lost, fate, panicked>>

-----------------------------------------------------------------------------
\* The capture thread.

\* try_send: a full channel, or one whose receiver is gone, drops the frame.
\* A frame whose exposure a Stop cut into is let go (the second check), which
\* is CaptureEnds; one the Stop was too late for is as good as before it.
Deliver(mark) ==
    /\ cap = "loop" /\ ~Cancelled
    /\ mark => inStack = "none"
    /\ cap' = "offered"
    /\ shot' = mark
    /\ IF stk # Ended /\ Room(stackQ, StackCap)
         THEN /\ stackQ' = Append(stackQ, [mark |-> mark, on |-> stacking])
              /\ inStack' = IF mark THEN "queued" ELSE inStack
         ELSE /\ inStack' = IF mark THEN "gone" ELSE inStack
              /\ UNCHANGED stackQ
    /\ UNCHANGED <<main, stk, ren, sto, storeQ, renderQ, depth, sub, picture, rendering,
                   accum, stacking, since, lost, onDisk, seen, story>>

\* AfterFailure::Next.
ExposureFails ==
    /\ cap = "loop" /\ ~Cancelled
    /\ Event /\ UNCHANGED <<toggled, panicked>>
    /\ UNCHANGED <<main, threads, queues, depth, shot, sub, picture, rendering, accum,
                   stacking, since, lost, fate>>

\* Cancelled, at either check; or the camera is gone, stalled or refuses once
\* too often.  The senders drop.
CaptureEnds ==
    /\ cap = "loop"
    /\ lost' \in BOOLEAN
    /\ cap' = Ended
    /\ UNCHANGED <<main, stk, ren, sto, queues, depth, shot, sub, picture, rendering, accum,
                   stacking, since, fate, story>>

OfferToStore ==
    /\ cap = "offered"
    /\ cap' = "loop" /\ shot' = FALSE
    /\ \/ /\ sto # Ended /\ Room(storeQ, StoreCap)
          /\ storeQ' = Append(storeQ, shot)
          /\ onDisk' = IF shot THEN "queued" ELSE onDisk
       \/ /\ onDisk' = IF shot THEN "settled" ELSE onDisk  \* full, or saving is off
          /\ UNCHANGED storeQ
    /\ UNCHANGED <<main, stk, ren, sto, stackQ, renderQ, depth, sub, picture, rendering,
                   accum, stacking, since, lost, inStack, seen, story>>

SendersGone == cap = Ended

-----------------------------------------------------------------------------
\* The stacking thread.

\* One frame off the channel; a Stop's drain that ran out lets it go unstacked.
TakeFrame ==
    /\ stk = "recv" /\ stackQ # <<>>
    /\ stackQ' = Tail(stackQ)
    /\ IF since = "past"
         THEN /\ inStack' = IF Head(stackQ).mark THEN "gone" ELSE inStack
              /\ UNCHANGED <<stk, sub>>
         ELSE /\ stk' = "work" /\ sub' = Head(stackQ)
              /\ UNCHANGED inStack
    /\ UNCHANGED <<main, cap, ren, sto, storeQ, renderQ, depth, shot, picture, rendering,
                   accum, stacking, since, lost, onDisk, seen, story>>

Unconvertible ==
    /\ stk = "work"
    /\ Event /\ UNCHANGED <<toggled, panicked>>
    /\ stk' = "recv" /\ sub' = NoFrame
    /\ inStack' = IF sub.mark THEN "gone" ELSE inStack
    /\ UNCHANGED <<main, cap, ren, sto, queues, depth, shot, picture, rendering, accum,
                   stacking, since, lost, onDisk, seen>>

MustReset == sub.on /\ ~wasOn

\* What is left of the marked frame when its stack is thrown away on purpose.
Discarded == IF inStack = "joined" THEN "passed" ELSE inStack

\* pipeline::stack_frame: what `base` and the frame make of the stack.  The
\* first frame is the reference, and joins; a later one joins or is rejected.
Joined(base) == IF sub.mark \/ base = "marked" THEN "marked" ELSE "bare"

\* A copy of the stack is made for display only when the render count reads
\* zero; a single frame is always shown.
WantDisplay == depth = 0

\* send_to_render counts its message before it sends it.
Shows(display) ==
    /\ stk' = IF display THEN "claimed" ELSE "recv"
    /\ depth' = IF display THEN depth + 1 ELSE depth
    /\ picture' = (display /\ inStack' \in {"joined", "passed"})

\* One frame through the stack.  `fresh`: the frame's geometry is not the
\* stack's; `wander`: Wanderer mode takes the rejection for a new field.  A
\* frame the stack refused with an error is shown raw whatever the count.
StackFrame(fresh, joins, wander) ==
    /\ stk = "work"
    /\ wasOn' = sub.on
    /\ LET base == IF MustReset \/ fresh THEN "none" ELSE stack
           kept == IF fresh THEN Discarded ELSE inStack
           own(new) == IF sub.mark THEN new ELSE kept
       IN  \/ /\ ~sub.on /\ ~joins /\ ~wander
              /\ stack' = base /\ inStack' = own("passed")
              /\ Shows(TRUE)
           \/ /\ sub.on /\ joins /\ ~wander
              /\ stack' = Joined(base) /\ inStack' = own("joined")
              /\ Shows(base = "none" \/ WantDisplay)
           \/ /\ sub.on /\ ~joins /\ ~wander
              /\ stack' = base /\ inStack' = own("passed")
              /\ \E raw \in BOOLEAN : Shows(raw \/ base = "none" \/ WantDisplay)
           \/ /\ sub.on /\ ~joins /\ wander
              /\ stack' = "none"
              /\ inStack' = IF sub.mark THEN "passed" ELSE Discarded
              /\ Shows(TRUE)
    /\ sub' = NoFrame
    /\ UNCHANGED <<main, cap, ren, sto, queues, shot, rendering, parked,
                   stacking, since, lost, onDisk, seen, story>>

Less(n, k) == IF n > k THEN n - k ELSE 0       \* saturating_sub

\* Mutant: the slot of a send that did not happen is kept.
SlotKept == UNCHANGED depth

GivenBack == depth' = Less(depth, 1)

\* try_send: a full channel costs the picture, a receiver that is
\* gone ends the thread; the slot claimed for either is given back.
TrySend ==
    /\ stk = "claimed"
    /\ Len(renderQ) + owed < DrainCap
    /\ picture' = FALSE
    /\ \/ /\ ren # Ended /\ Room(renderQ, RenderCap)
          /\ renderQ' = Append(renderQ, picture)
          /\ stk' = "recv"
          /\ UNCHANGED depth
       \/ /\ ren # Ended /\ ~Room(renderQ, RenderCap)
          /\ stk' = "recv"
          /\ GivenBack /\ UNCHANGED renderQ
       \/ /\ ren = Ended
          /\ stk' = "leaving"
          /\ GivenBack /\ UNCHANGED renderQ
    /\ UNCHANGED <<main, cap, ren, sto, stackQ, storeQ, shot, sub, rendering, accum,
                   stacking, since, lost, fate, story>>

\* The channel is drained and its senders gone, or nobody renders any more:
\* the result is saved and the stack parked.  What is still queued is lost.
StackerEnds ==
    /\ \/ stk = "recv" /\ stackQ = <<>> /\ SendersGone
       \/ stk = "leaving"
    /\ stk' = Ended
    /\ stackQ' = <<>>
    /\ parked' = stack /\ stack' = "none" /\ wasOn' = FALSE
    /\ UNCHANGED <<main, cap, ren, sto, storeQ, renderQ, depth, shot, sub, picture, rendering,
                   stacking, since, lost, fate, story>>

-----------------------------------------------------------------------------
\* The render thread.

TakePicture ==
    /\ ren = "recv" /\ renderQ # <<>>
    /\ ren' = "draining"
    /\ latest' = Head(renderQ) /\ renderQ' = Tail(renderQ)
    /\ owed' = 1
    /\ UNCHANGED <<main, cap, stk, sto, stackQ, storeQ, depth, shot, sub, picture, accum,
                   stacking, since, lost, fate, story>>

\* drain_to_latest: a newer picture replaces the one in hand.
SkipToLatest ==
    /\ ren = "draining"
    /\ IF renderQ # <<>>
         THEN /\ latest' = Head(renderQ) /\ renderQ' = Tail(renderQ)
              /\ owed' = owed + 1
              /\ UNCHANGED ren
         ELSE /\ ren' = "counting" /\ UNCHANGED <<latest, owed, renderQ>>
    /\ UNCHANGED <<main, cap, stk, sto, stackQ, storeQ, depth, shot, sub, picture, accum,
                   stacking, since, lost, fate, story>>

\* Mutant: once per picture drawn.
TakenOnce(n) == depth' = Less(depth, 1)

\* The count goes down once per message taken off the channel.
Taken(n) == depth' = Less(depth, n)

\* Counted, then drawn and published, unless the render fails.
Draw ==
    /\ ren = "counting"
    /\ ren' = "recv"
    /\ Taken(owed)
    /\ owed' = 0 /\ latest' = FALSE
    /\ \/ seen' = (seen \/ latest) /\ UNCHANGED story
       \/ Event /\ UNCHANGED <<seen, toggled, panicked>>
    /\ UNCHANGED <<main, cap, stk, sto, queues, shot, sub, picture, accum, stacking,
                   since, lost, inStack, onDisk>>

RendererEnds ==
    /\ ren = "recv" /\ renderQ = <<>> /\ stk = Ended
    /\ ren' = Ended
    /\ UNCHANGED <<main, cap, stk, sto, queues, depth, shot, sub, picture, rendering, accum,
                   stacking, since, lost, fate, story>>

-----------------------------------------------------------------------------
\* The storage thread: a frame is handed to the writer unless raw saving was
\* switched off meanwhile.  It drains whole, Stop or not.

StoreFrame ==
    /\ sto = "recv" /\ storeQ # <<>>
    /\ storeQ' = Tail(storeQ)
    /\ onDisk' = IF Head(storeQ) THEN "settled" ELSE onDisk
    /\ UNCHANGED <<main, threads, stackQ, renderQ, depth, shot, sub, picture, rendering,
                   accum, stacking, since, lost, inStack, seen, story>>

StorerEnds ==
    /\ sto = "recv" /\ storeQ = <<>> /\ SendersGone
    /\ sto' = Ended
    /\ UNCHANGED <<main, cap, stk, ren, queues, depth, shot, sub, picture, rendering, accum,
                   stacking, since, lost, fate, story>>

-----------------------------------------------------------------------------
\* A thread panics: what it holds and what its channel holds are gone, and
\* join_pipeline logs it.  The others notice by their channels alone.

At(pc) == pc \notin {"off", Ended}

Panics ==
    /\ Event /\ panicked' = TRUE /\ UNCHANGED toggled
    /\ \/ /\ At(cap) /\ cap' = Ended /\ lost' = TRUE /\ shot' = FALSE
          /\ UNCHANGED <<stk, ren, sto, queues, sub, picture, rendering, stack, wasOn>>
       \/ /\ At(stk) /\ stk' = Ended /\ stackQ' = <<>> /\ sub' = NoFrame /\ picture' = FALSE
          /\ stack' = "none" /\ wasOn' = FALSE
          /\ UNCHANGED <<cap, ren, sto, storeQ, renderQ, shot, rendering, lost>>
       \/ /\ At(ren) /\ ren' = Ended /\ renderQ' = <<>> /\ owed' = 0 /\ latest' = FALSE
          /\ UNCHANGED <<cap, stk, sto, stackQ, storeQ, shot, sub, picture, stack, wasOn, lost>>
       \/ /\ At(sto) /\ sto' = Ended /\ storeQ' = <<>>
          /\ UNCHANGED <<cap, stk, ren, stackQ, renderQ, shot, sub, picture, rendering, stack,
                         wasOn, lost>>
    /\ UNCHANGED <<main, depth, parked, stacking, since, fate>>

-----------------------------------------------------------------------------

Orchestrate ==
    \/ ProbeFails \/ ProbeArrives \/ ProbeToStack \/ ProbeToStore
    \/ SpawnCapture \/ SpawnStages \/ EndSession \/ HandBack

CaptureThread ==
    \/ ExposureFails \/ CaptureEnds \/ OfferToStore
    \/ \E mark \in BOOLEAN : Deliver(mark)

StackingThread ==
    \/ TakeFrame \/ Unconvertible \/ TrySend \/ StackerEnds
    \/ \E fresh, joins, wander \in BOOLEAN : StackFrame(fresh, joins, wander)

RenderThread == TakePicture \/ SkipToLatest \/ Draw \/ RendererEnds

StorageThread == StoreFrame \/ StorerEnds

Outside ==
    \/ Start \/ Resume \/ GiveUp
    \/ Stop \/ DrainRunsOut \/ ToggleStacking \/ Panics

Next ==
    \/ Orchestrate \/ CaptureThread \/ StackingThread \/ RenderThread \/ StorageThread
    \/ Outside

Spec == Init /\ [][Next]_vars

\* Threads are scheduled, exposures and renders end, time passes.
\* Nobody need ever start, stop or resume.
Fairness ==
    /\ WF_vars(Orchestrate) /\ WF_vars(CaptureThread) /\ WF_vars(StackingThread)
    /\ WF_vars(RenderThread) /\ WF_vars(StorageThread)
    /\ WF_vars(DrainRunsOut)

FairSpec == Spec /\ Fairness

-----------------------------------------------------------------------------
\* Properties.

\* While the render thread lives, the render count is exactly the messages in
\* its channel, those it took and has not counted, and a claim not yet sent.
\* A count left above that closes the stacking thread's display gate for the
\* rest of the session (channel.rs:22).
TheGateTellsTheTruth ==
    (At(ren) /\ (At(stk) \/ ~panicked)) =>
        depth = Len(renderQ) + owed + (IF stk = "claimed" THEN 1 ELSE 0)

\* Unless a thread panicked: when the disk session is ended, every frame a
\* channel accepted has been stacked, refused or let go, and written; and a
\* frame that joined the stack is in it or in the parked one, through faults
\* and resumes, for as long as the observer leaves the stacking switch alone.
WhatIsAcceptedIsKept ==
    ~panicked =>
        /\ main = "closing" => inStack # "queued" /\ onDisk # "queued"
        /\ inStack = "joined" /\ ~toggled => "marked" \in {stack, parked}

\* What a frame did to the stack is on screen, in its picture or a later one,
\* before the camera stops delivering.
TheViewFollows ==
    (inStack \in {"joined", "passed"}) ~> (seen \/ cap \in {"off", Ended} \/ panicked)

\* A Stop, a fault and a capture thread that died all end the pipeline, with
\* every thread joined, whatever else panicked.
ThePipelineEnds ==
    (since # "none" \/ cap = Ended) ~> (main \in {"idle", "paused"})

=============================================================================
