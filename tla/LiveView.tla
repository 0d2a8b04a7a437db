------------------------------ MODULE LiveView ------------------------------
(***************************************************************************)
(* What a camera's stream promises the pages that watch it, whatever its   *)
(* versions, payloads and on-demand encodes do: a page is never shown a    *)
(* picture older than the version it was sent, versions only grow, and     *)
(* once the stream rests its pages show it as it is.  A clear that meets a *)
(* frame under way may send a version astray and leave the stream out of   *)
(* order: the promise is then as good again once it is back in order.      *)
(*                                                                         *)
(* Module FrameStream is shown to implement it.  The promises are those of *)
(* FrameStream (session/src/state/frame_stream.rs) and of serve            *)
(* (server/ws/image_stream.rs).                                            *)
(***************************************************************************)
EXTENDS Integers, Sequences

CONSTANT Client

VARIABLES
    story,      \* every picture the stream has held, "none" for none at all
    astray,     \* versions whose picture was not the newest when they had it
    ordered,    \* the stream's last version is its newest picture's
    watching,   \* the pages attached to it
    floor,      \* the version each was sent last
    seen        \* the picture on the page, by its place in the story

stream == <<story, astray, ordered>>
pages == <<watching, floor, seen>>
viewVars == <<stream, pages>>

Newest == Len(story)

\* A blank page, and one that still shows the other camera.
Blank == 0
Foreign == -1

Init ==
    /\ story = <<>> /\ astray = {} /\ ordered = TRUE
    /\ watching = {}
    /\ floor = [c \in Client |-> 0]
    /\ seen = [c \in Client |-> Blank]

\* Only a clear sends a version astray or leaves the stream out of order.
Cleared == \E i \in 1 .. Newest : story[i] = "none"
Orderly ==
    /\ ordered' \in BOOLEAN
    /\ ~Cleared' => astray' = {} /\ ordered'

\* The camera delivers a frame, or goes and takes its picture with it.
Turn ==
    /\ \E p \in {"frame", "refused", "none"} : story' = Append(story, p)
    /\ Orderly
    /\ UNCHANGED <<astray, pages>>

\* A version is claimed or published.
Version ==
    /\ astray \subseteq astray' /\ astray' \ astray \subseteq 1 .. Newest
    /\ Orderly
    /\ UNCHANGED <<story, pages>>

\* A page opens, or comes from the other camera.
Join(c) ==
    /\ c \notin watching
    /\ watching' = watching \cup {c}
    /\ \E p \in {Blank, Foreign} : seen' = [seen EXCEPT ![c] = p]
    /\ UNCHANGED <<stream, floor>>

\* Not older than its version, but for one astray, and a later version than the
\* last.
Update(c, p) ==
    /\ c \in watching
    /\ \E v \in (0 .. p) \cup astray :
        /\ v > floor[c] \/ floor[c] = 0
        /\ floor' = [floor EXCEPT ![c] = v]
    /\ seen' = [seen EXCEPT ![c] = p]
    /\ UNCHANGED <<stream, watching>>

Part(c) ==
    /\ c \in watching
    /\ watching' = watching \ {c}
    /\ floor' = [floor EXCEPT ![c] = 0]
    /\ seen' = [seen EXCEPT ![c] = Blank]
    /\ UNCHANGED stream

Next ==
    \/ Turn \/ Version
    \/ \E c \in Client : Join(c) \/ Part(c)
    \/ \E c \in Client : \E p \in 0 .. Newest : Update(c, p)

SafeView == Init /\ [][Next]_viewVars

-----------------------------------------------------------------------------
(* A page should have the newest picture, unless no encoder takes it: then *)
(* it keeps the one it has, or the stream is out of order.                 *)

Encodable == Newest > 0 => story[Newest] # "refused"

CatchUp(c) ==
    /\ Encodable /\ ordered
    /\ seen[c] # Newest
    /\ Update(c, Newest)

View == SafeView /\ \A c \in Client : WF_viewVars(CatchUp(c))

=============================================================================
