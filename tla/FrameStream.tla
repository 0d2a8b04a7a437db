---------------------------- MODULE FrameStream ----------------------------
(***************************************************************************)
(* One camera's stream of rendered frames, its producer, its clear, and    *)
(* the pages that watch it: session/src/state/frame_stream.rs,             *)
(* stream_viewers.rs, capture/stream_encoding.rs, the publishing ends of   *)
(* render_task.rs and guide_task/output.rs, and server/ws/image_stream.rs. *)
(*                                                                         *)
(* Each camera role has a stream of its own and no step touches two: one   *)
(* is modelled, and a page attached to the other is away.  So is one of    *)
(* its two payload families, whose slot, lock and viewers are its own.  A  *)
(* picture is its place in the stream's story: every frame the producer    *)
(* set and, as "none", every clear.  "refused" is a frame no encoder       *)
(* takes.  One step is one lock, one atomic or one watch operation.  A     *)
(* clear may begin at any time: a disconnect that gave up waiting for the  *)
(* pipeline or the guide loop clears beside a frame under way.  One clear  *)
(* runs at a time: a request's teardown or its Start, never both.          *)
(***************************************************************************)
EXTENDS Integers, Sequences

CONSTANTS
    Client,         \* image sockets of one payload family
    Follower,       \* those of the eyepiece pages, which follow the camera viewed
    Nobody,
    MaxPictures     \* bound on the story

ASSUME ClientAssumption ==
    Follower \subseteq Client /\ Nobody \notin Client
ASSUME BoundAssumption == MaxPictures \in Nat

Writer == {"producer", "clear"}

VARIABLES
    story,          \* latest_raw_frame is its last picture
    counter,        \* frame_counter
    ready,          \* frame_ready, the version last published
    payload,        \* the family's slot of payloads
    lock,           \* on_demand_encodes: who holds it
    stage,          \* where the producer is, and the clear
    place,          \* the picture each is at work on
    version,        \* the version each claimed or, about to send, publishes
    astray,         \* history: versions claimed for a picture no longer the newest
    met,            \* history: a clear and a frame have been under way at once
    pc,             \* where each socket's handler is
    fresh,          \* its watch receiver holds a version it has not seen
    want, got,      \* the version it read, and the picture it is about to send
    last,           \* last_sent
    seen            \* what its page shows

writers == <<stage, place, version, astray, met>>
producer == <<story, counter, ready, writers>>
shared == <<payload, lock>>
sockets == <<pc, fresh, want, got, last, seen>>
vars == <<producer, shared, sockets>>

Stages == {"resting", "claiming", "counting", "encoding", "publishing", "dropping", "sending"}
Places == {"away", "registering", "asking", "looking", "queueing", "reading",
           "encoding", "sending", "watching", "matching", "holding"}

NoPayload == [tag |-> 0, picture |-> 0]
Newest == Len(story)

\* What a page shows besides pictures: nothing, or the other camera's.
Blank == 0
Foreign == -1

\* holds_frame, and what get_latest_raw_frame answers.
Holds == Newest > 0 /\ story[Newest] # "none"

\* viewer_count: a guard lives from its handler's attach to its leave.
Watchers == {c \in Client : pc[c] # "away"}

Hit(c) == payload.picture > 0 /\ payload.tag = want[c]

HasLock(c) == lock = c

TypeOK ==
    /\ story \in Seq({"frame", "refused", "none"})
    /\ counter \in 0 .. Newest /\ ready \in 0 .. counter
    /\ payload \in [tag : Nat, picture : Nat]
    /\ lock \in Client \cup {Nobody}
    /\ stage \in [Writer -> Stages]
    /\ place \in [Writer -> 0 .. Newest]
    /\ version \in [Writer -> 0 .. counter]
    /\ astray \subseteq 1 .. counter
    /\ met \in BOOLEAN
    /\ pc \in [Client -> Places]
    /\ fresh \in [Client -> BOOLEAN]
    /\ want \in [Client -> Nat] /\ got \in [Client -> Nat] /\ last \in [Client -> Nat]
    /\ seen \in [Client -> Nat \cup {Foreign}]

Init ==
    /\ story = <<>>
    /\ counter = 0 /\ ready = 0
    /\ payload = NoPayload
    /\ lock = Nobody
    /\ stage = [w \in Writer |-> "resting"]
    /\ place = [w \in Writer |-> 0] /\ version = [w \in Writer |-> 0]
    /\ astray = {} /\ met = FALSE
    /\ pc = [c \in Client |-> "away"]
    /\ fresh = [c \in Client |-> FALSE]
    /\ want = [c \in Client |-> 0] /\ got = [c \in Client |-> 0] /\ last = [c \in Client |-> 0]
    /\ seen = [c \in Client |-> Blank]

-----------------------------------------------------------------------------
(* The producer of a stream, and its clear.                                *)

StageIs(w, from, to) == stage[w] = from /\ stage' = [stage EXCEPT ![w] = to]

\* The latest frame is replaced, or dropped.
Turn(w, p) ==
    /\ Newest < MaxPictures
    /\ story' = Append(story, p)
    /\ place' = [place EXCEPT ![w] = Newest + 1]
    /\ met' = (met \/ \E o \in Writer \ {w} : stage[o] # "resting")

\* set_latest_raw_frame.  The guide loop renders only for the watchers it
\* counted before it converted the frame; they may be gone by now.
SetLatest ==
    /\ StageIs("producer", "resting", "claiming")
    /\ \E p \in {"frame", "refused"} : Turn("producer", p)
    /\ UNCHANGED <<counter, ready, version, astray, shared, sockets>>

BeginFrame(w) ==
    /\ StageIs(w, "claiming", IF w = "clear" THEN "sending" ELSE "counting")
    /\ counter' = counter + 1
    /\ version' = [version EXCEPT ![w] = counter + 1]
    /\ astray' = IF place[w] = Newest THEN astray ELSE astray \cup {counter + 1}
    /\ UNCHANGED <<story, ready, place, met, shared, sockets>>

\* A family nobody watches is not encoded.
Count ==
    /\ StageIs("producer", "counting", IF Watchers = {} THEN "publishing" ELSE "encoding")
    /\ UNCHANGED <<story, counter, ready, place, version, astray, met, shared, sockets>>

\* set_payload: never over a newer one.
Stored(v, p) ==
    payload' = IF payload.picture > 0 /\ payload.tag > v THEN payload
                 ELSE [tag |-> v, picture |-> p]

EncodeFamily ==
    /\ StageIs("producer", "encoding", "publishing")
    /\ IF story[place["producer"]] = "refused" THEN UNCHANGED payload
         ELSE Stored(version["producer"], place["producer"])
    /\ UNCHANGED <<story, counter, ready, place, version, astray, met, lock, sockets>>

\* Mutant: it publishes a version nobody has claimed.
PublishNext ==
    /\ StageIs("producer", "publishing", "sending")
    /\ version' = [version EXCEPT !["producer"] = counter + 1]
    /\ UNCHANGED <<story, counter, ready, place, astray, met, shared, sockets>>

\* publish_frame reads the counter, a clear's version perhaps, and then sends it.
PublishFrame ==
    /\ StageIs("producer", "publishing", "sending")
    /\ version' = [version EXCEPT !["producer"] = counter]
    /\ UNCHANGED <<story, counter, ready, place, astray, met, shared, sockets>>

\* Mutant: only the handlers that wait at this instant are woken.
WakesWaiting == fresh' = [c \in Client |-> fresh[c] \/ pc[c] = "watching"]

\* A watch latches what nobody polls for.
Wakes == fresh' = [c \in Client |-> fresh[c] \/ pc[c] \notin {"away", "registering"}]

\* send_replace: whatever was published before.
Send(w) ==
    /\ StageIs(w, "sending", "resting")
    /\ ready' = version[w]
    /\ Wakes
    /\ place' = [place EXCEPT ![w] = 0] /\ version' = [version EXCEPT ![w] = 0]
    /\ UNCHANGED <<story, counter, astray, met, shared, pc, want, got, last, seen>>

Clear ==
    /\ StageIs("clear", "resting", "dropping")
    /\ Turn("clear", "none")
    /\ UNCHANGED <<counter, ready, version, astray, shared, sockets>>

\* Mutant: a clear is no version of its own.
DropQuietly ==
    /\ StageIs("clear", "dropping", "resting")
    /\ payload' = NoPayload
    /\ UNCHANGED <<story, counter, ready, place, version, astray, met, lock, sockets>>

DropPayload ==
    /\ StageIs("clear", "dropping", "claiming")
    /\ payload' = NoPayload
    /\ UNCHANGED <<story, counter, ready, place, version, astray, met, lock, sockets>>

-----------------------------------------------------------------------------
(* A socket's handler.                                                     *)

Goto(c, to) == pc' = [pc EXCEPT ![c] = to]
Unlock(c) == lock' = IF HasLock(c) THEN Nobody ELSE lock

\* Attachment::new, the viewer first; subscribing marks the current version
\* seen.
Connect(c) ==
    /\ pc[c] = "away"
    /\ Goto(c, "registering")
    /\ UNCHANGED <<producer, shared, fresh, want, got, last, seen>>

\* A page that follows the viewed camera comes from the other one's stream,
\* whose picture it shows.
SwitchHere(c) ==
    /\ pc[c] = "away" /\ c \in Follower
    /\ Goto(c, "registering")
    /\ seen' = [seen EXCEPT ![c] = Foreign]
    /\ UNCHANGED <<producer, shared, fresh, want, got, last>>

Subscribe(c) ==
    /\ pc[c] = "registering"
    /\ Goto(c, "asking")
    /\ fresh' = [fresh EXCEPT ![c] = FALSE]
    /\ UNCHANGED <<producer, shared, want, got, last, seen>>

\* payload_for_client: the version, its payload, and under the family's
\* lock both again before the latest frame.
Ask(c) ==
    /\ pc[c] = "asking"
    /\ Goto(c, "looking")
    /\ want' = [want EXCEPT ![c] = counter]
    /\ UNCHANGED <<producer, shared, fresh, got, last, seen>>

Look(c) ==
    /\ pc[c] = "looking"
    /\ \/ /\ Hit(c)
          /\ Goto(c, "sending")
          /\ got' = [got EXCEPT ![c] = payload.picture]
          /\ Unlock(c)
          /\ UNCHANGED want
       \/ /\ ~Hit(c) /\ HasLock(c)
          /\ Goto(c, "reading")
          /\ UNCHANGED <<want, got, lock>>
       \/ /\ ~Hit(c) /\ ~HasLock(c)
          /\ Goto(c, "queueing")
          /\ want' = [want EXCEPT ![c] = 0]
          /\ UNCHANGED <<got, lock>>
    /\ UNCHANGED <<producer, payload, fresh, last, seen>>

TakeLock(c) ==
    /\ pc[c] = "queueing"
    /\ lock = Nobody
    /\ lock' = c
    /\ Goto(c, "asking")
    /\ UNCHANGED <<producer, payload, fresh, want, got, last, seen>>

\* A page that just opened is blank as it is; one that switched still shows
\* the other camera's picture, and is told to drop it.
NothingToSend(c, p) ==
    /\ Unlock(c)
    /\ want' = [want EXCEPT ![c] = 0]
    /\ IF seen[c] = Foreign
         THEN /\ Goto(c, "sending")
              /\ got' = [got EXCEPT ![c] = p]
              /\ UNCHANGED seen
         ELSE /\ Goto(c, "watching")
              /\ seen' = [seen EXCEPT ![c] = p]
              /\ got' = [got EXCEPT ![c] = 0]

ReadLatest(c) ==
    /\ pc[c] = "reading"
    /\ IF Holds
         THEN /\ Goto(c, "encoding")
              /\ got' = [got EXCEPT ![c] = Newest]
              /\ UNCHANGED <<want, seen, lock>>
         ELSE NothingToSend(c, Newest)
    /\ UNCHANGED <<producer, payload, fresh, last>>

\* Mutant: the version is read with the payload ready, not before the frame.
EncodeUnderLatest(c) ==
    /\ pc[c] = "encoding"
    /\ IF story[got[c]] = "refused"
         THEN NothingToSend(c, got[c]) /\ UNCHANGED payload
         ELSE /\ Stored(counter, got[c])
              /\ Unlock(c)
              /\ Goto(c, "sending")
              /\ want' = [want EXCEPT ![c] = counter]
              /\ UNCHANGED <<got, seen>>
    /\ UNCHANGED <<producer, fresh, last>>

EncodeOnDemand(c) ==
    /\ pc[c] = "encoding"
    /\ IF story[got[c]] = "refused"
         THEN NothingToSend(c, got[c]) /\ UNCHANGED payload
         ELSE /\ Stored(want[c], got[c])
              /\ Unlock(c)
              /\ Goto(c, "sending")
              /\ UNCHANGED <<want, got, seen>>
    /\ UNCHANGED <<producer, fresh, last>>

\* The page has it: a frame or, where got holds none, NO_FRAME.
Sent(c) ==
    /\ pc[c] = "sending"
    /\ Goto(c, "watching")
    /\ seen' = [seen EXCEPT ![c] = got[c]]
    /\ last' = [last EXCEPT ![c] = want[c]]
    /\ want' = [want EXCEPT ![c] = 0] /\ got' = [got EXCEPT ![c] = 0]
    /\ UNCHANGED <<producer, shared, fresh>>

Wake(c) ==
    /\ pc[c] = "watching" /\ fresh[c]
    /\ fresh' = [fresh EXCEPT ![c] = FALSE]
    /\ IF ready <= last[c] THEN UNCHANGED <<pc, want>>
         ELSE Goto(c, "matching") /\ want' = [want EXCEPT ![c] = ready]
    /\ UNCHANGED <<producer, shared, got, last, seen>>

\* Missing when the producer moved on, when its encode failed, or when the
\* stream was cleared.
Match(c) ==
    /\ pc[c] = "matching"
    /\ IF Hit(c)
         THEN Goto(c, "sending") /\ got' = [got EXCEPT ![c] = payload.picture]
         ELSE Goto(c, "holding") /\ UNCHANGED got
    /\ UNCHANGED <<producer, shared, fresh, want, last, seen>>

\* Mutant: a missing payload always means the producer moved on.
HoldOn(c) ==
    /\ pc[c] = "holding" /\ Goto(c, "watching")
    /\ UNCHANGED <<producer, shared, fresh, want, got, last, seen>>

Hold(c) ==
    /\ pc[c] = "holding"
    /\ IF Holds
         THEN Goto(c, "watching") /\ want' = [want EXCEPT ![c] = 0] /\ UNCHANGED got
         ELSE Goto(c, "sending") /\ got' = [got EXCEPT ![c] = Newest] /\ UNCHANGED want
    /\ UNCHANGED <<producer, shared, fresh, last, seen>>

\* The page closed or a send failed, or the page follows the viewed camera to
\* the other stream: what the handler kept of this one is gone.
Leave(c) ==
    /\ pc[c] = "watching" \/ pc[c] = "sending"
    /\ Goto(c, "away")
    /\ fresh' = [fresh EXCEPT ![c] = FALSE]
    /\ want' = [want EXCEPT ![c] = 0] /\ got' = [got EXCEPT ![c] = 0]
    /\ last' = [last EXCEPT ![c] = 0]
    /\ seen' = [seen EXCEPT ![c] = Blank]
    /\ UNCHANGED <<producer, shared>>

-----------------------------------------------------------------------------
Produces == BeginFrame("producer") \/ Count \/ EncodeFamily \/ PublishFrame \/ Send("producer")
Clears == DropPayload \/ BeginFrame("clear") \/ Send("clear")

Serves(c) ==
    \/ Subscribe(c) \/ Ask(c) \/ Look(c) \/ TakeLock(c) \/ ReadLatest(c) \/ EncodeOnDemand(c)
    \/ Sent(c) \/ Wake(c) \/ Match(c) \/ Hold(c)

Next ==
    \/ SetLatest \/ Produces
    \/ Clear \/ Clears
    \/ \E c \in Client : Connect(c) \/ SwitchHere(c) \/ Leave(c) \/ Serves(c)

Spec == Init /\ [][Next]_vars

\* A render or a clear in progress is finished, a handler is polled, its sends
\* end, and the on-demand lock is first come, first served.
Fairness ==
    /\ WF_vars(Produces) /\ WF_vars(Clears)
    /\ \A c \in Client : SF_vars(Serves(c))

FairSpec == Spec /\ Fairness

-----------------------------------------------------------------------------
(* PayloadIsNotOlder: a payload shows a picture at least as new as the     *)
(* version it is filed under.  Newer it may be: a client that encodes      *)
(* between the producer's set_latest_raw_frame and its begin_frame files   *)
(* the next frame under this version.  Older would stay on the page, and   *)
(* is so only under a version gone astray: the producer claimed it when a  *)
(* clear had taken its picture down already.                               *)
PayloadIsNotOlder ==
    payload.picture > 0 =>
        /\ payload.tag <= payload.picture \/ payload.tag \in astray
        /\ payload.picture <= Newest
        /\ story[payload.picture] = "frame"

(* Where a clear has met a frame under way, what each leaves depends on    *)
(* which came last: in order is a stream whose last version is out and     *)
(* is the newest picture's.  Where none has, a stream is always in order.  *)
InOrder == met => ready = counter /\ counter \notin astray

(* NothingMissed: a handler with nothing left to do, over a stream at rest *)
(* and in order, has its page show what the stream shows: no wake-up was   *)
(* lost, no payload was missing for good, and a gone camera's picture is   *)
(* down.                                                                   *)
Settled(c) ==
    /\ pc[c] = "watching" /\ ~fresh[c]
    /\ \A w \in Writer : stage[w] = "resting"
    /\ InOrder
    /\ Newest > 0 => story[Newest] # "refused"

NothingMissed == \A c \in Client : Settled(c) => seen[c] = Newest

(* Implements: the pages see what LiveView promises: never a picture older *)
(* than its version, never an earlier version, and in the end the newest.  *)
Promised == INSTANCE LiveView WITH
    watching <- {c \in Client : pc[c] # "away"},
    floor <- last,
    ordered <- InOrder

Implements == Promised!View

=============================================================================
