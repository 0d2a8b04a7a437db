------------------------ MODULE CaptureControlProofs ------------------------
(***************************************************************************)
(* What CaptureControl keeps for any number of pipelines, clients and      *)
(* observations: one pipeline at the camera, shown to the clients; no      *)
(* handle in an empty role, but for one that came back `behind` a teardown *)
(* under way; nothing left to resume once everybody is done; and a Stop    *)
(* that is final, but for the one step that Revives what it ended.         *)
(*                                                                         *)
(* As long as no capture has met a later one, one carrier at most brings a *)
(* capture on: a Start or a resume about to spawn, or a pipeline           *)
(* (OneCarrier).  Where it is says what the state can be, and a state that *)
(* runs has one (Shown).  A pause is somebody's to end (Pauses), and so is *)
(* what a resume would need (Dropped), which is the newest observation's,  *)
(* as is whatever anybody is at work on (Own).                             *)
(***************************************************************************)
EXTENDS CaptureControl, TLAPS

\* The type invariant in groups: the shared state, what a pipeline and a
\* client have of their own, and who can hold a handle.

Shared ==
    /\ capture \in Running \cup {"idle", "recovering"}
    /\ cancelled \in BOOLEAN
    /\ slot \in {"none", "up", "recovering"}
    /\ atHome \in BOOLEAN
    /\ spc \in SupPlaces
    /\ ended \subseteq Task
    /\ crossed \in BOOLEAN
    /\ amid \in BOOLEAN
    /\ behind \in BOOLEAN

Numbers ==
    /\ plan \in 0 .. MaxStarts /\ stack \in 0 .. MaxStarts
    /\ sobs \in 0 .. MaxStarts
    /\ current \in 0 .. MaxStarts
    /\ obs \in [Pipe -> 0 .. MaxStarts]
    /\ ofStart \in [Client -> 0 .. MaxStarts]

Tasks ==
    /\ ppc \in [Pipe -> PipePlaces]
    /\ resumes \in [Pipe -> BOOLEAN]
    /\ lost \in [Pipe -> BOOLEAN]
    /\ paused \in [Pipe -> BOOLEAN]
    /\ cpc \in [Client -> ClientPlaces]
    /\ leaving \in [Client -> BOOLEAN]

Holders ==
    /\ held \subseteq Pipe
    /\ \A p \in held : ~lost[p] /\ ppc[p] \in Working \cup {"parking", "returning", "putting"}

Types == Shared /\ Numbers /\ Tasks /\ Holders

\* The handle is gone for good once it is lost.
Late == {"parking", "returning", "detaching", "planning", "pausing",
         "calling", "reading", "deciding", "clearing"} \cup TeardownPlaces

LostLate == \A p \in Pipe : lost[p] => ppc[p] \in Late

\* What the observer ended has begun.
EndedBegan == stopped \subseteq 1 .. current

\* Until something comes back behind a teardown, what it has emptied stays so.
Emptied ==
    ~behind =>
        /\ atHome => slot # "none" /\ ~TearingDown({"removing"})
        /\ slot = "recovering" => ~TearingDown({"emptying", "removing"})
        /\ \A p \in Pipe : ppc[p] = "putting" => slot # "none"

\* A camera that recovers has a supervisor, or is about to call one.
Attended ==
    slot = "recovering" /\ spc = "idle" =>
        \E p \in Pipe : ppc[p] \in {"detaching", "planning", "pausing", "calling"}

Alive(p) == ppc[p] # "unused"
Spawns(k) == cpc[k] \in {"resetting", "spawning"}
SupSpawns == spc \in {"resetting", "spawning"}

\* One carrier of a capture at most.
OneCarrier ==
    /\ \A p, q \in Pipe : Alive(p) /\ Alive(q) => p = q
    /\ \A k, l \in Client : Spawns(k) /\ Spawns(l) => k = l
    /\ \A k \in Client : Spawns(k) => ~SupSpawns /\ \A p \in Pipe : ~Alive(p)
    /\ SupSpawns => \A p \in Pipe : ~Alive(p)

\* What the state is at each place of the carrier, and that a capture which
\* runs has one.
Shown ==
    /\ \A k \in Client : Spawns(k) => capture \in {"starting", "stopping"}
    /\ SupSpawns => capture \in {"starting", "stopping"}
    /\ \A p \in Pipe :
          /\ ppc[p] = "beginning" => capture \in {"starting", "stopping"}
          /\ ppc[p] \in Working \cup {"recording", "taking", "parking", "returning", "putting",
                                      "detaching", "planning", "pausing",
                                      "finalizing", "emptying", "removing", "ending"}
                => capture \in {"capturing", "stopping"}
          /\ ppc[p] # "sweeping"
          /\ ppc[p] = "clearing" => capture = "idle"
    /\ capture \in Running =>
          \/ \E k \in Client : Spawns(k)
          \/ SupSpawns
          \/ \E p \in Pipe : Alive(p) /\ ppc[p] # "clearing"

\* A teardown that ended a recovery.
Owes(t) ==
    /\ t \in ended
    /\ \/ t \in Client /\ cpc[t] \in {"emptying", "removing"}
       \/ t \in Pipe /\ ppc[t] \in {"emptying", "removing"}
       \/ t = Supervisor /\ spc \in {"emptying", "removing"}

\* Whose a pause is to end: the supervisor's, before or after it has reopened
\* the camera, or a teardown's.
Pauses ==
    capture = "recovering" =>
        \/ slot = "recovering"
        \/ \E t \in Task : Owes(t)
        \/ TearingDown({"ending"})
        \/ spc \in {"finding", "choosing", "resuming", "unpausing"}

\* Whose the record is to drop.
Dropped ==
    plan # None \/ stack # None =>
        \/ capture # "idle"
        \/ \E p \in Pipe : Alive(p)
        \/ \E k \in Client : cpc[k] \in {"cancelling", "forgetting", "unpausing"}
        \/ TearingDown({"sweeping"})
        \/ spc = "clearing"

\* A capture the observer ended is not coming back.
Final == capture \in {"starting", "capturing", "recovering"} => current \notin stopped

\* Everything at work is at work on the newest observation, and what is kept
\* for a resume is of it.
Own ==
    /\ plan \in {None, current} /\ stack \in {None, current}
    /\ \A p \in Pipe : Alive(p) => obs[p] = current
    /\ \A k \in Client : Spawns(k) => ofStart[k] = current
    /\ spc \in {"choosing", "resuming"} \/ SupSpawns => sobs = current

Calm == Undisturbed => OneCarrier /\ Shown /\ Pauses /\ Dropped /\ Final /\ Own

IInv == Types /\ LostLate /\ EndedBegan /\ Attended /\ Emptied /\ Calm

-----------------------------------------------------------------------------
\* The steps, one lemma each.

USE DEF ctl, cam, pipes, clients, sup, down, hist, Goes, PipeAt, PipeOver, SpawnPipe, ForgetResume,
        Ends, Asks, ClientAt, SupAt, None, Observation, Running, Working, TeardownPlaces, Late, Alive, Spawns,
        SupSpawns, Undisturbed

\* The observer's end of a capture is of one that began.
LEMMA EndsBegan ==
    ASSUME BoundAssumption, Numbers, EndedBegan, current' = current,
           stopped' = stopped \/ stopped' = stopped \cup ({current} \ {None})
    PROVE  EndedBegan'
<1>1. current \in Nat
  BY BoundAssumption DEF Numbers
<1>2. ASSUME NEW o \in stopped' PROVE o \in 1 .. current'
  <2>1. CASE o \in stopped
    BY <2>1 DEF EndedBegan
  <2>2. CASE o = current /\ o # None
    BY <1>1, <2>2
  <2> QED
    BY <2>1, <2>2
<1> QED
  BY <1>2 DEF EndedBegan

LEMMA StartStep == ASSUME BoundAssumption, IInv, NEW k \in Client, Start(k) PROVE IInv'
<1>1. Shared' /\ Tasks'
  BY DEF Start, Begins, BeginsAmid, Unfinished, IInv, Types, Shared, Tasks, PipePlaces, ClientPlaces, SupPlaces
<1>2. Numbers'
  BY BoundAssumption DEF Start, Begins, BeginsAmid, Unfinished, IInv, Types, Numbers
<1>3. Holders' /\ LostLate' /\ Emptied'
  BY DEF Start, Begins, BeginsAmid, Unfinished, IInv, Types, Tasks, Holders, LostLate, Emptied, TearingDown
<1>4. EndedBegan'
  BY BoundAssumption DEF Start, Begins, BeginsAmid, Unfinished, IInv, Types, Numbers, EndedBegan
<1>5. Attended'
  BY DEF Start, Begins, BeginsAmid, Unfinished, IInv, Types, Tasks, Attended
<1>6. Undisturbed' => Undisturbed /\ OneCarrier /\ Shown /\ Pauses /\ Dropped /\ Final /\ Own
  BY DEF Start, Begins, BeginsAmid, Unfinished, IInv, Calm
<1>7. Undisturbed' => OneCarrier'
  BY <1>6 DEF Start, Begins, BeginsAmid, Unfinished, IInv, Types, Tasks, OneCarrier, Shown
<1>8. Undisturbed' => Shown'
  BY <1>6 DEF Start, Begins, BeginsAmid, Unfinished, IInv, Types, Tasks, OneCarrier, Shown
<1>9. Undisturbed' => Pauses'
  BY <1>6 DEF Start, Begins, BeginsAmid, Unfinished, IInv, Types, Tasks, Pauses, TearingDown, Owes
<1>10. Undisturbed' => Dropped'
  BY <1>6 DEF Start, Begins, BeginsAmid, Unfinished, IInv, Types, Tasks, Shown, Dropped, TearingDown
<1>11. Undisturbed' => Final'
  BY <1>6 DEF Start, Begins, BeginsAmid, Unfinished, IInv, Types, Numbers, EndedBegan, Final
<1>12. Undisturbed' => Own'
  BY <1>6 DEF Start, Begins, BeginsAmid, Unfinished, IInv, Types, Shared, Numbers, Tasks, Shown, Dropped, Own, TearingDown
<1> QED
  BY <1>1, <1>2, <1>3, <1>4, <1>5, <1>7, <1>8, <1>9, <1>10, <1>11, <1>12 DEF IInv, Types, Calm

LEMMA StartResetsStep == ASSUME BoundAssumption, IInv, NEW k \in Client, StartResets(k) PROVE IInv'
<1>1. Shared' /\ Tasks'
  <2>1. Shared'
    <3>1. Shared /\ cancelled' = FALSE
            /\ UNCHANGED <<capture, slot, atHome, spc, ended, crossed, amid, behind>>
      BY DEF StartResets, IInv, Types
    <3> QED
      BY <3>1 DEF Shared
  <2>2. Tasks'
    BY DEF StartResets, IInv, Types, Tasks, PipePlaces, ClientPlaces, SupPlaces
  <2> QED
    BY <2>1, <2>2
<1>2. Numbers'
  BY BoundAssumption DEF StartResets, IInv, Types, Numbers
<1>3. Holders' /\ LostLate' /\ Emptied'
  BY DEF StartResets, IInv, Types, Tasks, Holders, LostLate, Emptied, TearingDown
<1>4. EndedBegan'
  BY BoundAssumption DEF StartResets, IInv, Types, Numbers, EndedBegan
<1>5. Attended'
  BY DEF StartResets, IInv, Types, Tasks, Attended
<1>6. Undisturbed' => Undisturbed /\ OneCarrier /\ Shown /\ Pauses /\ Dropped /\ Final /\ Own
  BY DEF StartResets, IInv, Calm
<1>7. Undisturbed' => OneCarrier'
  BY <1>6 DEF StartResets, IInv, Types, Tasks, OneCarrier, Shown
<1>8. Undisturbed' => Shown'
  BY <1>6 DEF StartResets, IInv, Types, Tasks, OneCarrier, Shown
<1>9. Undisturbed' => Pauses'
  BY <1>6 DEF StartResets, IInv, Types, Tasks, Pauses, TearingDown, Owes
<1>10. Undisturbed' => Dropped'
  BY <1>6 DEF StartResets, IInv, Types, Tasks, Shown, Dropped, TearingDown
<1>11. Undisturbed' => Final'
  BY <1>6 DEF StartResets, IInv, Types, Numbers, EndedBegan, Final
<1>12. Undisturbed' => Own'
  BY <1>6 DEF StartResets, IInv, Types, Shared, Numbers, Tasks, Shown, Dropped, Own, TearingDown
<1> QED
  BY <1>1, <1>2, <1>3, <1>4, <1>5, <1>7, <1>8, <1>9, <1>10, <1>11, <1>12 DEF IInv, Types, Calm

LEMMA StartSpawnsStep == ASSUME BoundAssumption, IInv, NEW k \in Client, StartSpawns(k) PROVE IInv'
<1>1. Types'
  BY BoundAssumption DEF StartSpawns, IInv, Types, Shared, Numbers, Tasks, Holders, LostLate, PipePlaces, ClientPlaces, SupPlaces
<1>2. LostLate' /\ EndedBegan' /\ Attended' /\ Emptied'
  BY BoundAssumption DEF StartSpawns, IInv, Types, Numbers, Tasks, LostLate, EndedBegan, Attended, Emptied, TearingDown
<1>3. Calm'
  BY DEF StartSpawns, IInv, Types, Shared, Numbers, Tasks, EndedBegan, Calm, OneCarrier, Shown, Pauses, Dropped, Final, Own, TearingDown, Owes
<1> QED
  BY <1>1, <1>2, <1>3 DEF IInv

LEMMA StopStep == ASSUME BoundAssumption, IInv, NEW k \in Client, Stop(k) PROVE IInv'
<1>1. Types'
  BY BoundAssumption DEF Stop, StopMoves, IInv, Types, Shared, Numbers, Tasks, Holders, LostLate, PipePlaces, ClientPlaces, SupPlaces
<1>2. LostLate' /\ EndedBegan' /\ Attended' /\ Emptied'
  BY BoundAssumption DEF Stop, StopMoves, IInv, Types, Numbers, Tasks, LostLate, EndedBegan, Attended, Emptied, TearingDown
<1>3. Calm'
  BY DEF Stop, StopMoves, IInv, Types, Shared, Numbers, Tasks, EndedBegan, Calm, OneCarrier, Shown, Pauses, Dropped, Final, Own, TearingDown, Owes
<1> QED
  BY <1>1, <1>2, <1>3 DEF IInv

LEMMA StopCancelsStep == ASSUME BoundAssumption, IInv, NEW k \in Client, StopCancels(k) PROVE IInv'
<1>1. Types'
  BY BoundAssumption DEF StopCancels, IInv, Types, Shared, Numbers, Tasks, Holders, LostLate, PipePlaces, ClientPlaces, SupPlaces
<1>2. LostLate' /\ EndedBegan' /\ Attended' /\ Emptied'
  BY BoundAssumption DEF StopCancels, IInv, Types, Numbers, Tasks, LostLate, EndedBegan, Attended, Emptied, TearingDown
<1>3. Calm'
  BY DEF StopCancels, IInv, Types, Shared, Numbers, Tasks, EndedBegan, Calm, OneCarrier, Shown, Pauses, Dropped, Final, Own, TearingDown, Owes
<1> QED
  BY <1>1, <1>2, <1>3 DEF IInv

LEMMA StopForgetsStep == ASSUME BoundAssumption, IInv, NEW k \in Client, StopForgets(k) PROVE IInv'
<1>1. Types'
  BY BoundAssumption DEF StopForgets, IInv, Types, Shared, Numbers, Tasks, Holders, LostLate, PipePlaces, ClientPlaces, SupPlaces
<1>2. LostLate' /\ EndedBegan' /\ Attended' /\ Emptied'
  BY BoundAssumption DEF StopForgets, IInv, Types, Numbers, Tasks, LostLate, EndedBegan, Attended, Emptied, TearingDown
<1>3. Calm'
  BY DEF StopForgets, IInv, Types, Shared, Numbers, Tasks, EndedBegan, Calm, OneCarrier, Shown, Pauses, Dropped, Final, Own, TearingDown, Owes
<1> QED
  BY <1>1, <1>2, <1>3 DEF IInv

LEMMA DisconnectStep == ASSUME BoundAssumption, IInv, NEW k \in Client, Disconnect(k) PROVE IInv'
<1>1. Types'
  BY BoundAssumption DEF Disconnect, IInv, Types, Shared, Numbers, Tasks, Holders, LostLate, PipePlaces, ClientPlaces, SupPlaces
<1>2. LostLate' /\ EndedBegan' /\ Attended' /\ Emptied'
  BY BoundAssumption DEF Disconnect, IInv, Types, Numbers, Tasks, LostLate, EndedBegan, Attended, Emptied, TearingDown
<1>3. Calm'
  BY DEF Disconnect, IInv, Types, Shared, Numbers, Tasks, EndedBegan, Calm, OneCarrier, Shown, Pauses, Dropped, Final, Own, TearingDown, Owes
<1> QED
  BY <1>1, <1>2, <1>3 DEF IInv

LEMMA DisconnectEndsPauseStep == ASSUME BoundAssumption, IInv, NEW k \in Client, DisconnectEndsPause(k) PROVE IInv'
<1>1. Shared' /\ Tasks'
  BY DEF DisconnectEndsPause, IInv, Types, Shared, Tasks, PipePlaces, ClientPlaces, SupPlaces
<1>2. Numbers'
  BY BoundAssumption DEF DisconnectEndsPause, IInv, Types, Numbers
<1>3. Holders' /\ LostLate' /\ Emptied'
  BY DEF DisconnectEndsPause, IInv, Types, Tasks, Holders, LostLate, Emptied, TearingDown
<1>4. EndedBegan'
  <2>1. current' = current /\ (stopped' = stopped \/ stopped' = stopped \cup ({current} \ {None}))
    BY DEF DisconnectEndsPause
  <2> QED
    BY <2>1, BoundAssumption, EndsBegan DEF IInv, Types
<1>5. Attended'
  BY DEF DisconnectEndsPause, IInv, Types, Tasks, Attended
<1>6. Undisturbed' => Undisturbed /\ OneCarrier /\ Shown /\ Pauses /\ Dropped /\ Final /\ Own
  BY DEF DisconnectEndsPause, IInv, Calm
<1>7. Undisturbed' => OneCarrier'
  BY <1>6 DEF DisconnectEndsPause, IInv, Types, Tasks, OneCarrier, Shown
<1>8. Undisturbed' => Shown'
  BY <1>6 DEF DisconnectEndsPause, IInv, Types, Tasks, OneCarrier, Shown
<1>9. Undisturbed' => Pauses'
  BY <1>6 DEF DisconnectEndsPause, IInv, Types, Tasks, Pauses, TearingDown, Owes
<1>10. Undisturbed' => Dropped'
  BY <1>6 DEF DisconnectEndsPause, IInv, Types, Tasks, Shown, Dropped, TearingDown
<1>11. Undisturbed' => Final'
  BY <1>6 DEF DisconnectEndsPause, IInv, Types, Numbers, EndedBegan, Final
<1>12. Undisturbed' => Own'
  BY <1>6 DEF DisconnectEndsPause, IInv, Types, Shared, Numbers, Tasks, Shown, Dropped, Own, TearingDown
<1> QED
  BY <1>1, <1>2, <1>3, <1>4, <1>5, <1>7, <1>8, <1>9, <1>10, <1>11, <1>12 DEF IInv, Types, Calm

LEMMA DisconnectForgetsStep == ASSUME BoundAssumption, IInv, NEW k \in Client, DisconnectForgets(k) PROVE IInv'
<1>1. Types'
  BY BoundAssumption DEF DisconnectForgets, IInv, Types, Shared, Numbers, Tasks, Holders, LostLate, PipePlaces, ClientPlaces, SupPlaces
<1>2. LostLate' /\ EndedBegan' /\ Attended' /\ Emptied'
  BY BoundAssumption DEF DisconnectForgets, IInv, Types, Numbers, Tasks, LostLate, EndedBegan, Attended, Emptied, TearingDown
<1>3. Calm'
  BY DEF DisconnectForgets, IInv, Types, Shared, Numbers, Tasks, EndedBegan, Calm, OneCarrier, Shown, Pauses, Dropped, Final, Own, TearingDown, Owes
<1> QED
  BY <1>1, <1>2, <1>3 DEF IInv

LEMMA DisconnectStopsStep == ASSUME BoundAssumption, IInv, NEW k \in Client, DisconnectStops(k) PROVE IInv'
<1>1. Shared' /\ Tasks'
  BY DEF DisconnectStops, StopMoves, IInv, Types, Shared, Tasks, PipePlaces, ClientPlaces, SupPlaces
<1>2. Numbers'
  BY BoundAssumption DEF DisconnectStops, StopMoves, IInv, Types, Numbers
<1>3. Holders' /\ LostLate' /\ Emptied'
  BY DEF DisconnectStops, StopMoves, IInv, Types, Tasks, Holders, LostLate, Emptied, TearingDown
<1>4. EndedBegan'
  <2>1. current' = current /\ (stopped' = stopped \/ stopped' = stopped \cup ({current} \ {None}))
    BY DEF DisconnectStops, StopMoves
  <2> QED
    BY <2>1, BoundAssumption, EndsBegan DEF IInv, Types
<1>5. Attended'
  BY DEF DisconnectStops, StopMoves, IInv, Types, Tasks, Attended
<1>6. Undisturbed' => Undisturbed /\ OneCarrier /\ Shown /\ Pauses /\ Dropped /\ Final /\ Own
  BY DEF DisconnectStops, StopMoves, IInv, Calm
<1>7. Undisturbed' => OneCarrier'
  BY <1>6 DEF DisconnectStops, StopMoves, IInv, Types, Tasks, OneCarrier, Shown
<1>8. Undisturbed' => Shown'
  BY <1>6 DEF DisconnectStops, StopMoves, IInv, Types, Tasks, OneCarrier, Shown
<1>9. Undisturbed' => Pauses'
  BY <1>6 DEF DisconnectStops, StopMoves, IInv, Types, Tasks, Pauses, TearingDown, Owes
<1>10. Undisturbed' => Dropped'
  BY <1>6 DEF DisconnectStops, StopMoves, IInv, Types, Tasks, Shown, Dropped, TearingDown
<1>11. Undisturbed' => Final'
  BY <1>6 DEF DisconnectStops, StopMoves, IInv, Types, Numbers, EndedBegan, Final
<1>12. Undisturbed' => Own'
  BY <1>6 DEF DisconnectStops, StopMoves, IInv, Types, Shared, Numbers, Tasks, Shown, Dropped, Own, TearingDown
<1> QED
  BY <1>1, <1>2, <1>3, <1>4, <1>5, <1>7, <1>8, <1>9, <1>10, <1>11, <1>12 DEF IInv, Types, Calm

LEMMA DisconnectWaitsStep == ASSUME BoundAssumption, IInv, NEW k \in Client, DisconnectWaits(k) PROVE IInv'
<1>1. Types'
  BY BoundAssumption DEF DisconnectWaits, IInv, Types, Shared, Numbers, Tasks, Holders, LostLate, PipePlaces, ClientPlaces, SupPlaces
<1>2. LostLate' /\ EndedBegan' /\ Attended' /\ Emptied'
  BY BoundAssumption DEF DisconnectWaits, IInv, Types, Numbers, Tasks, LostLate, EndedBegan, Attended, Emptied, TearingDown
<1>3. Calm'
  BY DEF DisconnectWaits, IInv, Types, Shared, Numbers, Tasks, EndedBegan, Calm, OneCarrier, Shown, Pauses, Dropped, Final, Own, TearingDown, Owes
<1> QED
  BY <1>1, <1>2, <1>3 DEF IInv

\* Where a teardown leaves its task.
LEMMA OverOf ==
    ASSUME TaskAssumption, NEW t \in Task
    PROVE  /\ t \in Client => Over(t) = "idle"
           /\ t \in Pipe => Over(t) = "reading"
           /\ t = Supervisor => Over(t) = "releasing"
BY TaskAssumption DEF Over, Task

LEMMA EndRecoveryStep == ASSUME BoundAssumption, TaskAssumption, IInv, NEW t \in Task, EndRecovery(t) PROVE IInv'
<1>1. Shared' /\ Tasks'
  <2>1. Shared'
    BY TaskAssumption DEF EndRecovery, Moves, Task, IInv, Types, Shared, PipePlaces, ClientPlaces, SupPlaces
  <2>2. Tasks'
    BY TaskAssumption DEF EndRecovery, Moves, Task, IInv, Types, Tasks, PipePlaces, ClientPlaces, SupPlaces
  <2> QED
    BY <2>1, <2>2
<1>2. Numbers'
  BY TaskAssumption, BoundAssumption DEF EndRecovery, Moves, Task, IInv, Types, Numbers
<1>3. Holders'
  BY TaskAssumption DEF EndRecovery, Moves, Task, IInv, Types, Tasks, Holders
<1>4. LostLate'
  BY TaskAssumption DEF EndRecovery, Moves, Task, IInv, Types, Tasks, LostLate
<1>5. EndedBegan'
  <2>1. current' = current /\ (stopped' = stopped \/ stopped' = stopped \cup ({current} \ {None}))
    BY DEF EndRecovery, Moves, Task
  <2> QED
    BY <2>1, BoundAssumption, EndsBegan DEF IInv, Types
<1>6. Attended'
  BY TaskAssumption DEF EndRecovery, Moves, Task, IInv, Types, Shared, Tasks, Attended, SupPlaces
<1>7. Emptied'
  BY TaskAssumption DEF EndRecovery, Moves, Task, IInv, Types, Tasks, Emptied, TearingDown
<1>8. Undisturbed' => Undisturbed /\ OneCarrier /\ Shown /\ Pauses /\ Dropped /\ Final /\ Own /\ Emptied
  BY DEF EndRecovery, Moves, Task, IInv, Calm
<1>9. Undisturbed' => OneCarrier'
  BY TaskAssumption, <1>8 DEF EndRecovery, Moves, Task, IInv, Types, Tasks, OneCarrier, Shown
<1>10. Undisturbed' => Shown'
  BY TaskAssumption, <1>8 DEF EndRecovery, Moves, Task, IInv, Types, Tasks, OneCarrier, Shown
<1>11. Undisturbed' => Pauses'
  BY TaskAssumption, <1>8 DEF EndRecovery, Moves, Task, IInv, Types, Shared, Tasks, Emptied, Pauses, Owes, TearingDown
<1>12. Undisturbed' => Dropped'
  BY TaskAssumption, <1>8 DEF EndRecovery, Moves, Task, IInv, Types, Shared, Tasks, Shown, Dropped, TearingDown
<1>13. Undisturbed' => Final'
  BY TaskAssumption, <1>8 DEF EndRecovery, Moves, Task, IInv, Types, Numbers, EndedBegan, Final
<1>14. Undisturbed' => Own'
  BY TaskAssumption, <1>8 DEF EndRecovery, Moves, Task, IInv, Types, Shared, Numbers, Tasks, Shown, Dropped, TearingDown, Own
<1> QED
  BY <1>1, <1>2, <1>3, <1>4, <1>5, <1>6, <1>7, <1>9, <1>10, <1>11, <1>12, <1>13, <1>14 DEF IInv, Types, Calm

(* A task that moves to a place of its kind keeps its type.                *)
LEMMA MovesTyped ==
    ASSUME Shared, Tasks, NEW t, NEW from, NEW to, Moves(t, from, to),
           t \in Client => to \in ClientPlaces, t \in Pipe => to \in PipePlaces,
           t = Supervisor => to \in SupPlaces
    PROVE  Tasks' /\ spc' \in SupPlaces
<1>1. CASE t \in Client /\ ClientAt(t, to) /\ UNCHANGED <<pipes, sup>>
  BY <1>1 DEF Shared, Tasks
<1>2. CASE t \in Pipe /\ PipeAt(t, to) /\ UNCHANGED <<obs, resumes, lost, paused, clients, sup>>
  BY <1>2 DEF Shared, Tasks
<1>3. CASE t = Supervisor /\ SupAt(to) /\ UNCHANGED <<pipes, clients>>
  BY <1>3 DEF Tasks
<1> QED
  BY <1>1, <1>2, <1>3 DEF Moves

LEMMA EmptySlotStep == ASSUME BoundAssumption, TaskAssumption, IInv, NEW t \in Task, EmptySlot(t) PROVE IInv'
<1>1. Shared' /\ Tasks'
  <2>1. Shared'
    <3>1. Shared /\ atHome' = FALSE
            /\ UNCHANGED <<capture, cancelled, slot, ended, crossed, amid, behind>>
      BY DEF EmptySlot, IInv, Types
    <3>2. spc' \in SupPlaces
      BY DEF EmptySlot, Moves, IInv, Types, Shared, SupPlaces
    <3> QED
      BY <3>1, <3>2 DEF Shared
  <2>2. Tasks'
    BY TaskAssumption DEF EmptySlot, Moves, Task, IInv, Types, Tasks, PipePlaces, ClientPlaces, SupPlaces
  <2> QED
    BY <2>1, <2>2
<1>2. Numbers'
  BY TaskAssumption, BoundAssumption DEF EmptySlot, Moves, Task, IInv, Types, Numbers
<1>3. Holders'
  BY TaskAssumption DEF EmptySlot, Moves, Task, IInv, Types, Tasks, Holders
<1>4. LostLate'
  BY TaskAssumption DEF EmptySlot, Moves, Task, IInv, Types, Tasks, LostLate
<1>5. EndedBegan'
  <2>1. current' = current /\ (stopped' = stopped \/ stopped' = stopped \cup ({current} \ {None}))
    BY DEF EmptySlot, Moves, Task
  <2> QED
    BY <2>1, BoundAssumption, EndsBegan DEF IInv, Types
<1>6. Attended'
  BY TaskAssumption DEF EmptySlot, Moves, Task, IInv, Types, Shared, Tasks, Attended, SupPlaces
<1>7. Emptied'
  BY TaskAssumption DEF EmptySlot, Moves, Task, IInv, Types, Tasks, Emptied, TearingDown
<1>8. Undisturbed' => Undisturbed /\ OneCarrier /\ Shown /\ Pauses /\ Dropped /\ Final /\ Own /\ Emptied
  BY DEF EmptySlot, Moves, Task, IInv, Calm
<1>9. Undisturbed' => OneCarrier'
  BY TaskAssumption, <1>8 DEF EmptySlot, Moves, Task, IInv, Types, Tasks, OneCarrier, Shown
<1>10. Undisturbed' => Shown'
  BY TaskAssumption, <1>8 DEF EmptySlot, Moves, Task, IInv, Types, Tasks, OneCarrier, Shown
<1>11. Undisturbed' => Pauses'
  BY TaskAssumption, <1>8 DEF EmptySlot, Moves, Task, IInv, Types, Shared, Tasks, Emptied, Pauses, Owes, TearingDown
<1>12. Undisturbed' => Dropped'
  BY TaskAssumption, <1>8 DEF EmptySlot, Moves, Task, IInv, Types, Shared, Tasks, Shown, Dropped, TearingDown
<1>13. Undisturbed' => Final'
  BY TaskAssumption, <1>8 DEF EmptySlot, Moves, Task, IInv, Types, Numbers, EndedBegan, Final
<1>14. Undisturbed' => Own'
  BY TaskAssumption, <1>8 DEF EmptySlot, Moves, Task, IInv, Types, Shared, Numbers, Tasks, Shown, Dropped, TearingDown, Own
<1> QED
  BY <1>1, <1>2, <1>3, <1>4, <1>5, <1>6, <1>7, <1>9, <1>10, <1>11, <1>12, <1>13, <1>14 DEF IInv, Types, Calm

LEMMA RemoveEntryStep == ASSUME BoundAssumption, TaskAssumption, IInv, NEW t \in Task, RemoveEntry(t) PROVE IInv'
<1>1. Shared' /\ Tasks'
  <2>1. Shared'
    BY TaskAssumption, OverOf DEF RemoveEntry, Moves, Task, IInv, Types, Shared, PipePlaces, ClientPlaces, SupPlaces
  <2>2. Tasks'
    <3>1. Shared /\ Tasks /\ Moves(t, "removing", IF t \in ended THEN "ending" ELSE Over(t))
      BY DEF RemoveEntry, IInv, Types
    <3>2. /\ t \in Client => Over(t) = "idle"
          /\ t \in Pipe => Over(t) = "reading"
          /\ t = Supervisor => Over(t) = "releasing"
      BY TaskAssumption, OverOf
    <3> QED
      BY <3>1, <3>2, MovesTyped DEF PipePlaces, ClientPlaces, SupPlaces
  <2> QED
    BY <2>1, <2>2
<1>2. Numbers'
  BY TaskAssumption, OverOf, BoundAssumption DEF RemoveEntry, Moves, Task, IInv, Types, Numbers
<1>3. Holders'
  BY TaskAssumption, OverOf DEF RemoveEntry, Moves, Task, IInv, Types, Tasks, Holders
<1>4. LostLate'
  BY TaskAssumption, OverOf DEF RemoveEntry, Moves, Task, IInv, Types, Tasks, LostLate
<1>5. EndedBegan'
  <2>1. current' = current /\ (stopped' = stopped \/ stopped' = stopped \cup ({current} \ {None}))
    BY DEF RemoveEntry, Moves, Task
  <2> QED
    BY <2>1, BoundAssumption, EndsBegan DEF IInv, Types
<1>6. Attended'
  BY TaskAssumption, OverOf DEF RemoveEntry, Moves, Task, IInv, Types, Shared, Tasks, Attended, SupPlaces
<1>7. Emptied'
  BY TaskAssumption, OverOf DEF RemoveEntry, Moves, Task, IInv, Types, Tasks, Emptied, TearingDown
<1>8. Undisturbed' => Undisturbed /\ OneCarrier /\ Shown /\ Pauses /\ Dropped /\ Final /\ Own /\ Emptied
  BY DEF RemoveEntry, Moves, Task, IInv, Calm
<1>9. Undisturbed' => OneCarrier'
  BY TaskAssumption, OverOf, <1>8 DEF RemoveEntry, Moves, Task, IInv, Types, Tasks, OneCarrier, Shown
<1>10. Undisturbed' => Shown'
  BY TaskAssumption, OverOf, <1>8 DEF RemoveEntry, Moves, Task, IInv, Types, Tasks, OneCarrier, Shown
<1>11. Undisturbed' => Pauses'
  BY TaskAssumption, OverOf, <1>8 DEF RemoveEntry, Moves, Task, IInv, Types, Shared, Tasks, Emptied, Pauses, Owes, TearingDown
<1>12. Undisturbed' => Dropped'
  BY TaskAssumption, OverOf, <1>8 DEF RemoveEntry, Moves, Task, IInv, Types, Shared, Tasks, Shown, Dropped, TearingDown
<1>13. Undisturbed' => Final'
  BY TaskAssumption, OverOf, <1>8 DEF RemoveEntry, Moves, Task, IInv, Types, Numbers, EndedBegan, Final
<1>14. Undisturbed' => Own'
  BY TaskAssumption, OverOf, <1>8 DEF RemoveEntry, Moves, Task, IInv, Types, Shared, Numbers, Tasks, Shown, Dropped, TearingDown, Own
<1> QED
  BY <1>1, <1>2, <1>3, <1>4, <1>5, <1>6, <1>7, <1>9, <1>10, <1>11, <1>12, <1>13, <1>14 DEF IInv, Types, Calm

LEMMA EndPausedOfStep == ASSUME BoundAssumption, TaskAssumption, IInv, NEW t \in Task, EndPausedOf(t) PROVE IInv'
<1>1. Shared' /\ Tasks'
  <2>1. Shared'
    BY TaskAssumption, OverOf DEF EndPausedOf, Moves, Task, IInv, Types, Shared, PipePlaces, ClientPlaces, SupPlaces
  <2>2. Tasks'
    <3>1. Shared /\ Tasks /\ \E to \in {"sweeping", Over(t)} : Moves(t, "ending", to)
      BY DEF EndPausedOf, IInv, Types
    <3>2. /\ t \in Client => Over(t) = "idle"
          /\ t \in Pipe => Over(t) = "reading"
          /\ t = Supervisor => Over(t) = "releasing"
      BY TaskAssumption, OverOf
    <3> QED
      BY <3>1, <3>2, MovesTyped DEF PipePlaces, ClientPlaces, SupPlaces
  <2> QED
    BY <2>1, <2>2
<1>2. Numbers'
  BY TaskAssumption, OverOf, BoundAssumption DEF EndPausedOf, Moves, Task, IInv, Types, Numbers
<1>3. Holders'
  BY TaskAssumption, OverOf DEF EndPausedOf, Moves, Task, IInv, Types, Tasks, Holders
<1>4. LostLate'
  BY TaskAssumption, OverOf DEF EndPausedOf, Moves, Task, IInv, Types, Tasks, LostLate
<1>5. EndedBegan'
  <2>1. current' = current /\ (stopped' = stopped \/ stopped' = stopped \cup ({current} \ {None}))
    BY DEF EndPausedOf, Moves, Task
  <2> QED
    BY <2>1, BoundAssumption, EndsBegan DEF IInv, Types
<1>6. Attended'
  BY TaskAssumption, OverOf DEF EndPausedOf, Moves, Task, IInv, Types, Shared, Tasks, Attended, SupPlaces
<1>7. Emptied'
  BY TaskAssumption, OverOf DEF EndPausedOf, Moves, Task, IInv, Types, Tasks, Emptied, TearingDown
<1>8. Undisturbed' => Undisturbed /\ OneCarrier /\ Shown /\ Pauses /\ Dropped /\ Final /\ Own /\ Emptied
  BY DEF EndPausedOf, Moves, Task, IInv, Calm
<1>9. Undisturbed' => OneCarrier'
  BY TaskAssumption, OverOf, <1>8 DEF EndPausedOf, Moves, Task, IInv, Types, Tasks, OneCarrier, Shown
<1>10. Undisturbed' => Shown'
  BY TaskAssumption, OverOf, <1>8 DEF EndPausedOf, Moves, Task, IInv, Types, Tasks, OneCarrier, Shown
<1>11. Undisturbed' => Pauses'
  BY TaskAssumption, OverOf, <1>8 DEF EndPausedOf, Moves, Task, IInv, Types, Shared, Tasks, Emptied, Pauses, Owes, TearingDown
<1>12. Undisturbed' => Dropped'
  BY TaskAssumption, OverOf, <1>8 DEF EndPausedOf, Moves, Task, IInv, Types, Shared, Tasks, Shown, Dropped, TearingDown
<1>13. Undisturbed' => Final'
  BY TaskAssumption, OverOf, <1>8 DEF EndPausedOf, Moves, Task, IInv, Types, Numbers, EndedBegan, Final
<1>14. Undisturbed' => Own'
  BY TaskAssumption, OverOf, <1>8 DEF EndPausedOf, Moves, Task, IInv, Types, Shared, Numbers, Tasks, Shown, Dropped, TearingDown, Own
<1> QED
  BY <1>1, <1>2, <1>3, <1>4, <1>5, <1>6, <1>7, <1>9, <1>10, <1>11, <1>12, <1>13, <1>14 DEF IInv, Types, Calm

LEMMA ForgetPausedOfStep == ASSUME BoundAssumption, TaskAssumption, IInv, NEW t \in Task, ForgetPausedOf(t) PROVE IInv'
<1>1. Shared' /\ Tasks'
  <2>1. Shared'
    BY TaskAssumption, OverOf DEF ForgetPausedOf, Moves, Task, IInv, Types, Shared, PipePlaces, ClientPlaces, SupPlaces
  <2>2. Tasks'
    BY TaskAssumption, OverOf DEF ForgetPausedOf, Moves, Task, IInv, Types, Tasks, PipePlaces, ClientPlaces, SupPlaces
  <2> QED
    BY <2>1, <2>2
<1>2. Numbers'
  BY TaskAssumption, OverOf, BoundAssumption DEF ForgetPausedOf, Moves, Task, IInv, Types, Numbers
<1>3. Holders'
  BY TaskAssumption, OverOf DEF ForgetPausedOf, Moves, Task, IInv, Types, Tasks, Holders
<1>4. LostLate'
  BY TaskAssumption, OverOf DEF ForgetPausedOf, Moves, Task, IInv, Types, Tasks, LostLate
<1>5. EndedBegan'
  <2>1. current' = current /\ (stopped' = stopped \/ stopped' = stopped \cup ({current} \ {None}))
    BY DEF ForgetPausedOf, Moves, Task
  <2> QED
    BY <2>1, BoundAssumption, EndsBegan DEF IInv, Types
<1>6. Attended'
  BY TaskAssumption, OverOf DEF ForgetPausedOf, Moves, Task, IInv, Types, Shared, Tasks, Attended, SupPlaces
<1>7. Emptied'
  BY TaskAssumption, OverOf DEF ForgetPausedOf, Moves, Task, IInv, Types, Tasks, Emptied, TearingDown
<1>8. Undisturbed' => Undisturbed /\ OneCarrier /\ Shown /\ Pauses /\ Dropped /\ Final /\ Own /\ Emptied
  BY DEF ForgetPausedOf, Moves, Task, IInv, Calm
<1>9. Undisturbed' => OneCarrier'
  BY TaskAssumption, OverOf, <1>8 DEF ForgetPausedOf, Moves, Task, IInv, Types, Tasks, OneCarrier, Shown
<1>10. Undisturbed' => Shown'
  BY TaskAssumption, OverOf, <1>8 DEF ForgetPausedOf, Moves, Task, IInv, Types, Tasks, OneCarrier, Shown
<1>11. Undisturbed' => Pauses'
  BY TaskAssumption, OverOf, <1>8 DEF ForgetPausedOf, Moves, Task, IInv, Types, Shared, Tasks, Emptied, Pauses, Owes, TearingDown
<1>12. Undisturbed' => Dropped'
  BY TaskAssumption, OverOf, <1>8 DEF ForgetPausedOf, Moves, Task, IInv, Types, Shared, Tasks, Shown, Dropped, TearingDown
<1>13. Undisturbed' => Final'
  BY TaskAssumption, OverOf, <1>8 DEF ForgetPausedOf, Moves, Task, IInv, Types, Numbers, EndedBegan, Final
<1>14. Undisturbed' => Own'
  BY TaskAssumption, OverOf, <1>8 DEF ForgetPausedOf, Moves, Task, IInv, Types, Shared, Numbers, Tasks, Shown, Dropped, TearingDown, Own
<1> QED
  BY <1>1, <1>2, <1>3, <1>4, <1>5, <1>6, <1>7, <1>9, <1>10, <1>11, <1>12, <1>13, <1>14 DEF IInv, Types, Calm

LEMMA ConnectStep == ASSUME BoundAssumption, IInv, NEW k \in Client, Connect(k) PROVE IInv'
<1>1. Types'
  BY BoundAssumption DEF Connect, IInv, Types, Shared, Numbers, Tasks, Holders, LostLate, PipePlaces, ClientPlaces, SupPlaces
<1>2. LostLate' /\ EndedBegan' /\ Attended' /\ Emptied'
  BY BoundAssumption DEF Connect, IInv, Types, Numbers, Tasks, LostLate, EndedBegan, Attended, Emptied, TearingDown
<1>3. Calm'
  BY DEF Connect, IInv, Types, Shared, Numbers, Tasks, EndedBegan, Calm, OneCarrier, Shown, Pauses, Dropped, Final, Own, TearingDown, Owes
<1> QED
  BY <1>1, <1>2, <1>3 DEF IInv

LEMMA BeginSessionStep == ASSUME BoundAssumption, IInv, NEW p \in Pipe, BeginSession(p) PROVE IInv'
<1>1. Types'
  BY BoundAssumption DEF BeginSession, IInv, Types, Shared, Numbers, Tasks, Holders, LostLate, PipePlaces, ClientPlaces, SupPlaces
<1>2. LostLate' /\ EndedBegan' /\ Attended' /\ Emptied'
  BY BoundAssumption DEF BeginSession, IInv, Types, Numbers, Tasks, LostLate, EndedBegan, Attended, Emptied, TearingDown
<1>3. Calm'
  BY DEF BeginSession, IInv, Types, Shared, Numbers, Tasks, EndedBegan, Calm, OneCarrier, Shown, Pauses, Dropped, Final, Own, TearingDown, Owes
<1> QED
  BY <1>1, <1>2, <1>3 DEF IInv

LEMMA RecordStep == ASSUME BoundAssumption, IInv, NEW p \in Pipe, Record(p) PROVE IInv'
<1>1. Types'
  BY BoundAssumption DEF Record, IInv, Types, Shared, Numbers, Tasks, Holders, LostLate, PipePlaces, ClientPlaces, SupPlaces
<1>2. LostLate' /\ EndedBegan' /\ Attended' /\ Emptied'
  BY BoundAssumption DEF Record, IInv, Types, Numbers, Tasks, LostLate, EndedBegan, Attended, Emptied, TearingDown
<1>3. Calm'
  BY DEF Record, IInv, Types, Shared, Numbers, Tasks, EndedBegan, Calm, OneCarrier, Shown, Pauses, Dropped, Final, Own, TearingDown, Owes
<1> QED
  BY <1>1, <1>2, <1>3 DEF IInv

LEMMA TakeStep == ASSUME BoundAssumption, IInv, NEW p \in Pipe, Take(p) PROVE IInv'
<1>1. Shared' /\ Tasks'
  <2>1. Shared'
    BY DEF Take, IInv, Types, Shared
  <2>2. Tasks'
    BY DEF Take, IInv, Types, Tasks, PipePlaces, ClientPlaces
  <2> QED
    BY <2>1, <2>2
<1>2. Numbers'
  BY BoundAssumption DEF Take, IInv, Types, Numbers
<1>3. Holders' /\ LostLate' /\ Emptied'
  BY DEF Take, IInv, Types, Tasks, Holders, LostLate, Emptied, TearingDown
<1>4. EndedBegan'
  BY BoundAssumption DEF Take, IInv, Types, Numbers, EndedBegan
<1>5. Attended'
  BY DEF Take, IInv, Types, Tasks, Attended
<1>6. Undisturbed' => Undisturbed /\ OneCarrier /\ Shown /\ Pauses /\ Dropped /\ Final /\ Own
  BY DEF Take, IInv, Calm
<1>7. Undisturbed' => OneCarrier'
  BY <1>6 DEF Take, IInv, Types, Tasks, OneCarrier, Shown
<1>8. Undisturbed' => Shown'
  BY <1>6 DEF Take, IInv, Types, Tasks, OneCarrier, Shown
<1>9. Undisturbed' => Pauses'
  BY <1>6 DEF Take, IInv, Types, Tasks, Pauses, TearingDown, Owes
<1>10. Undisturbed' => Dropped'
  BY <1>6 DEF Take, IInv, Types, Tasks, Shown, Dropped, TearingDown
<1>11. Undisturbed' => Final'
  BY <1>6 DEF Take, IInv, Types, Numbers, EndedBegan, Final
<1>12. Undisturbed' => Own'
  BY <1>6 DEF Take, IInv, Types, Shared, Numbers, Tasks, Shown, Dropped, Own, TearingDown
<1> QED
  BY <1>1, <1>2, <1>3, <1>4, <1>5, <1>7, <1>8, <1>9, <1>10, <1>11, <1>12 DEF IInv, Types, Calm

LEMMA CheckStep == ASSUME BoundAssumption, IInv, NEW p \in Pipe, Check(p) PROVE IInv'
<1>1. Types'
  BY BoundAssumption DEF Check, IInv, Types, Shared, Numbers, Tasks, Holders, LostLate, PipePlaces, ClientPlaces, SupPlaces
<1>2. LostLate' /\ EndedBegan' /\ Attended' /\ Emptied'
  BY BoundAssumption DEF Check, IInv, Types, Numbers, Tasks, LostLate, EndedBegan, Attended, Emptied, TearingDown
<1>3. Calm'
  BY DEF Check, IInv, Types, Shared, Numbers, Tasks, EndedBegan, Calm, OneCarrier, Shown, Pauses, Dropped, Final, Own, TearingDown, Owes
<1> QED
  BY <1>1, <1>2, <1>3 DEF IInv

LEMMA ProbeStep == ASSUME BoundAssumption, IInv, NEW p \in Pipe, Probe(p) PROVE IInv'
<1>1. Shared' /\ Tasks'
  <2>1. Shared'
    BY DEF Probe, Faults, IInv, Types, Shared, PipePlaces, ClientPlaces, SupPlaces
  <2>2. Tasks'
    BY DEF Probe, Faults, IInv, Types, Tasks, PipePlaces, ClientPlaces
  <2> QED
    BY <2>1, <2>2
<1>2. Numbers'
  BY BoundAssumption DEF Probe, Faults, IInv, Types, Numbers
<1>3. Holders' /\ LostLate' /\ Emptied'
  BY DEF Probe, Faults, IInv, Types, Tasks, Holders, LostLate, Emptied, TearingDown
<1>4. EndedBegan'
  BY BoundAssumption DEF Probe, Faults, IInv, Types, Numbers, EndedBegan
<1>5. Attended'
  BY DEF Probe, Faults, IInv, Types, Tasks, Attended
<1>6. Undisturbed' => Undisturbed /\ OneCarrier /\ Shown /\ Pauses /\ Dropped /\ Final /\ Own
  BY DEF Probe, Faults, IInv, Calm
<1>7. Undisturbed' => OneCarrier'
  BY <1>6 DEF Probe, Faults, IInv, Types, Tasks, OneCarrier, Shown
<1>8. Undisturbed' => Shown'
  BY <1>6 DEF Probe, Faults, IInv, Types, Tasks, OneCarrier, Shown
<1>9. Undisturbed' => Pauses'
  BY <1>6 DEF Probe, Faults, IInv, Types, Tasks, Pauses, TearingDown, Owes
<1>10. Undisturbed' => Dropped'
  BY <1>6 DEF Probe, Faults, IInv, Types, Tasks, Shown, Dropped, TearingDown
<1>11. Undisturbed' => Final'
  BY <1>6 DEF Probe, Faults, IInv, Types, Numbers, EndedBegan, Final
<1>12. Undisturbed' => Own'
  BY <1>6 DEF Probe, Faults, IInv, Types, Shared, Numbers, Tasks, Shown, Dropped, Own, TearingDown
<1> QED
  BY <1>1, <1>2, <1>3, <1>4, <1>5, <1>7, <1>8, <1>9, <1>10, <1>11, <1>12 DEF IInv, Types, Calm

LEMMA CarryStep == ASSUME BoundAssumption, IInv, NEW p \in Pipe, Carry(p) PROVE IInv'
<1>1. Types'
  BY BoundAssumption DEF Carry, IInv, Types, Shared, Numbers, Tasks, Holders, LostLate, PipePlaces, ClientPlaces, SupPlaces
<1>2. LostLate' /\ EndedBegan' /\ Attended' /\ Emptied'
  BY BoundAssumption DEF Carry, IInv, Types, Numbers, Tasks, LostLate, EndedBegan, Attended, Emptied, TearingDown
<1>3. Calm'
  BY DEF Carry, IInv, Types, Shared, Numbers, Tasks, EndedBegan, Calm, OneCarrier, Shown, Pauses, Dropped, Final, Own, TearingDown, Owes
<1> QED
  BY <1>1, <1>2, <1>3 DEF IInv

LEMMA RunEndsStep == ASSUME BoundAssumption, IInv, NEW p \in Pipe, RunEnds(p) PROVE IInv'
<1>1. Shared' /\ Tasks'
  <2>1. Shared'
    BY DEF RunEnds, Faults, IInv, Types, Shared, PipePlaces, ClientPlaces, SupPlaces
  <2>2. Tasks'
    BY DEF RunEnds, Faults, IInv, Types, Tasks, PipePlaces, ClientPlaces
  <2> QED
    BY <2>1, <2>2
<1>2. Numbers'
  BY BoundAssumption DEF RunEnds, Faults, IInv, Types, Numbers
<1>3. Holders' /\ LostLate' /\ Emptied'
  BY DEF RunEnds, Faults, IInv, Types, Tasks, Holders, LostLate, Emptied, TearingDown
<1>4. EndedBegan'
  BY BoundAssumption DEF RunEnds, Faults, IInv, Types, Numbers, EndedBegan
<1>5. Attended'
  BY DEF RunEnds, Faults, IInv, Types, Tasks, Attended
<1>6. Undisturbed' => Undisturbed /\ OneCarrier /\ Shown /\ Pauses /\ Dropped /\ Final /\ Own
  BY DEF RunEnds, Faults, IInv, Calm
<1>7. Undisturbed' => OneCarrier'
  BY <1>6 DEF RunEnds, Faults, IInv, Types, Tasks, OneCarrier, Shown
<1>8. Undisturbed' => Shown'
  BY <1>6 DEF RunEnds, Faults, IInv, Types, Tasks, OneCarrier, Shown
<1>9. Undisturbed' => Pauses'
  BY <1>6 DEF RunEnds, Faults, IInv, Types, Tasks, Pauses, TearingDown, Owes
<1>10. Undisturbed' => Dropped'
  BY <1>6 DEF RunEnds, Faults, IInv, Types, Tasks, Shown, Dropped, TearingDown
<1>11. Undisturbed' => Final'
  BY <1>6 DEF RunEnds, Faults, IInv, Types, Numbers, EndedBegan, Final
<1>12. Undisturbed' => Own'
  BY <1>6 DEF RunEnds, Faults, IInv, Types, Shared, Numbers, Tasks, Shown, Dropped, Own, TearingDown
<1> QED
  BY <1>1, <1>2, <1>3, <1>4, <1>5, <1>7, <1>8, <1>9, <1>10, <1>11, <1>12 DEF IInv, Types, Calm

LEMMA RunCancelledStep == ASSUME BoundAssumption, IInv, NEW p \in Pipe, RunCancelled(p) PROVE IInv'
<1>1. Types'
  BY BoundAssumption DEF RunCancelled, IInv, Types, Shared, Numbers, Tasks, Holders, LostLate, PipePlaces, ClientPlaces, SupPlaces
<1>2. LostLate' /\ EndedBegan' /\ Attended' /\ Emptied'
  BY BoundAssumption DEF RunCancelled, IInv, Types, Numbers, Tasks, LostLate, EndedBegan, Attended, Emptied, TearingDown
<1>3. Calm'
  BY DEF RunCancelled, IInv, Types, Shared, Numbers, Tasks, EndedBegan, Calm, OneCarrier, Shown, Pauses, Dropped, Final, Own, TearingDown, Owes
<1> QED
  BY <1>1, <1>2, <1>3 DEF IInv

LEMMA ParkStep == ASSUME BoundAssumption, IInv, NEW p \in Pipe, Park(p) PROVE IInv'
<1>1. Types'
  BY BoundAssumption DEF Park, IInv, Types, Shared, Numbers, Tasks, Holders, LostLate, PipePlaces, ClientPlaces, SupPlaces
<1>2. LostLate' /\ EndedBegan' /\ Attended' /\ Emptied'
  BY BoundAssumption DEF Park, IInv, Types, Numbers, Tasks, LostLate, EndedBegan, Attended, Emptied, TearingDown
<1>3. Calm'
  BY DEF Park, IInv, Types, Shared, Numbers, Tasks, EndedBegan, Calm, OneCarrier, Shown, Pauses, Dropped, Final, Own, TearingDown, Owes
<1> QED
  BY <1>1, <1>2, <1>3 DEF IInv

LEMMA JudgeStep == ASSUME BoundAssumption, IInv, NEW p \in Pipe, Judge(p) PROVE IInv'
<1>1. Shared' /\ Tasks'
  <2>1. Shared'
    BY DEF Judge, IInv, Types, Shared, PipePlaces, ClientPlaces, SupPlaces
  <2>2. Tasks'
    BY DEF Judge, IInv, Types, Tasks, PipePlaces, ClientPlaces, SupPlaces
  <2> QED
    BY <2>1, <2>2
<1>2. Numbers'
  BY BoundAssumption DEF Judge, IInv, Types, Numbers
<1>3. Holders'
  BY DEF Judge, IInv, Types, Tasks, Holders
<1>4. LostLate'
  BY DEF Judge, IInv, Types, Tasks, LostLate
<1>5. EndedBegan'
  <2>1. current' = current /\ (stopped' = stopped \/ stopped' = stopped \cup ({current} \ {None}))
    BY DEF Judge
  <2> QED
    BY <2>1, BoundAssumption, EndsBegan DEF IInv, Types
<1>6. Attended'
  BY DEF Judge, IInv, Types, Shared, Tasks, Attended, SupPlaces
<1>7. Emptied'
  BY DEF Judge, IInv, Types, Tasks, Emptied, TearingDown
<1>8. Undisturbed' => Undisturbed /\ OneCarrier /\ Shown /\ Pauses /\ Dropped /\ Final /\ Own /\ Emptied
  BY DEF Judge, IInv, Calm
<1>9. Undisturbed' => OneCarrier'
  BY <1>8 DEF Judge, IInv, Types, Tasks, OneCarrier, Shown
<1>10. Undisturbed' => Shown'
  BY <1>8 DEF Judge, IInv, Types, Tasks, OneCarrier, Shown
<1>11. Undisturbed' => Pauses'
  BY <1>8 DEF Judge, IInv, Types, Shared, Tasks, Emptied, Pauses, Owes, TearingDown
<1>12. Undisturbed' => Dropped'
  BY <1>8 DEF Judge, IInv, Types, Shared, Tasks, Shown, Dropped, TearingDown
<1>13. Undisturbed' => Final'
  BY <1>8 DEF Judge, IInv, Types, Numbers, EndedBegan, Final
<1>14. Undisturbed' => Own'
  BY <1>8 DEF Judge, IInv, Types, Shared, Numbers, Tasks, Shown, Dropped, TearingDown, Own
<1> QED
  BY <1>1, <1>2, <1>3, <1>4, <1>5, <1>6, <1>7, <1>9, <1>10, <1>11, <1>12, <1>13, <1>14 DEF IInv, Types, Calm

LEMMA PutStep == ASSUME BoundAssumption, IInv, NEW p \in Pipe, Put(p) PROVE IInv'
<1>1. Shared' /\ Tasks'
  <2>1. Shared'
    BY DEF Put, IInv, Types, Shared, PipePlaces, ClientPlaces, SupPlaces
  <2>2. Tasks'
    BY DEF Put, IInv, Types, Tasks, PipePlaces, ClientPlaces, SupPlaces
  <2> QED
    BY <2>1, <2>2
<1>2. Numbers'
  BY BoundAssumption DEF Put, IInv, Types, Numbers
<1>3. Holders'
  BY DEF Put, IInv, Types, Tasks, Holders
<1>4. LostLate'
  BY DEF Put, IInv, Types, Tasks, LostLate
<1>5. EndedBegan'
  <2>1. current' = current /\ (stopped' = stopped \/ stopped' = stopped \cup ({current} \ {None}))
    BY DEF Put
  <2> QED
    BY <2>1, BoundAssumption, EndsBegan DEF IInv, Types
<1>6. Attended'
  BY DEF Put, IInv, Types, Shared, Tasks, Attended, SupPlaces
<1>7. Emptied'
  BY DEF Put, IInv, Types, Tasks, Emptied, TearingDown
<1>8. Undisturbed' => Undisturbed /\ OneCarrier /\ Shown /\ Pauses /\ Dropped /\ Final /\ Own /\ Emptied
  BY DEF Put, IInv, Calm
<1>9. Undisturbed' => OneCarrier'
  BY <1>8 DEF Put, IInv, Types, Tasks, OneCarrier, Shown
<1>10. Undisturbed' => Shown'
  BY <1>8 DEF Put, IInv, Types, Tasks, OneCarrier, Shown
<1>11. Undisturbed' => Pauses'
  BY <1>8 DEF Put, IInv, Types, Shared, Tasks, Emptied, Pauses, Owes, TearingDown
<1>12. Undisturbed' => Dropped'
  BY <1>8 DEF Put, IInv, Types, Shared, Tasks, Shown, Dropped, TearingDown
<1>13. Undisturbed' => Final'
  BY <1>8 DEF Put, IInv, Types, Numbers, EndedBegan, Final
<1>14. Undisturbed' => Own'
  BY <1>8 DEF Put, IInv, Types, Shared, Numbers, Tasks, Shown, Dropped, TearingDown, Own
<1> QED
  BY <1>1, <1>2, <1>3, <1>4, <1>5, <1>6, <1>7, <1>9, <1>10, <1>11, <1>12, <1>13, <1>14 DEF IInv, Types, Calm

LEMMA ReturnNothingStep == ASSUME BoundAssumption, IInv, NEW p \in Pipe, ReturnNothing(p) PROVE IInv'
<1>1. Shared' /\ Tasks'
  <2>1. Shared'
    <3>1. Shared /\ UNCHANGED <<capture, cancelled, atHome, spc, ended, crossed, amid>>
      BY DEF ReturnNothing, IInv, Types
    <3>2. slot' \in {slot, "recovering"} /\ behind' \in BOOLEAN
      BY <3>1 DEF ReturnNothing, Shared
    <3> QED
      BY <3>1, <3>2 DEF Shared
  <2>2. Tasks'
    BY DEF ReturnNothing, IInv, Types, Tasks, PipePlaces, ClientPlaces
  <2> QED
    BY <2>1, <2>2
<1>2. Numbers'
  BY BoundAssumption DEF ReturnNothing, IInv, Types, Numbers
<1>3. Holders' /\ LostLate' /\ Emptied'
  BY DEF ReturnNothing, IInv, Types, Tasks, Holders, LostLate, Emptied, TearingDown
<1>4. EndedBegan'
  BY BoundAssumption DEF ReturnNothing, IInv, Types, Numbers, EndedBegan
<1>5. Attended'
  BY DEF ReturnNothing, IInv, Types, Tasks, Attended
<1>6. Undisturbed' => Undisturbed /\ OneCarrier /\ Shown /\ Pauses /\ Dropped /\ Final /\ Own
  BY DEF ReturnNothing, IInv, Calm
<1>7. Undisturbed' => OneCarrier'
  BY <1>6 DEF ReturnNothing, IInv, Types, Tasks, OneCarrier, Shown
<1>8. Undisturbed' => Shown'
  BY <1>6 DEF ReturnNothing, IInv, Types, Tasks, OneCarrier, Shown
<1>9. Undisturbed' => Pauses'
  BY <1>6 DEF ReturnNothing, IInv, Types, Tasks, Pauses, TearingDown, Owes
<1>10. Undisturbed' => Dropped'
  BY <1>6 DEF ReturnNothing, IInv, Types, Tasks, Shown, Dropped, TearingDown
<1>11. Undisturbed' => Final'
  BY <1>6 DEF ReturnNothing, IInv, Types, Numbers, EndedBegan, Final
<1>12. Undisturbed' => Own'
  BY <1>6 DEF ReturnNothing, IInv, Types, Shared, Numbers, Tasks, Shown, Dropped, Own, TearingDown
<1> QED
  BY <1>1, <1>2, <1>3, <1>4, <1>5, <1>7, <1>8, <1>9, <1>10, <1>11, <1>12 DEF IInv, Types, Calm

LEMMA DetachStep == ASSUME BoundAssumption, IInv, NEW p \in Pipe, Detach(p) PROVE IInv'
<1>1. Types'
  <2>1. Shared'
    <3>1. Shared /\ atHome' = FALSE
            /\ UNCHANGED <<capture, cancelled, slot, spc, ended, crossed, amid, behind>>
      BY DEF Detach, IInv, Types
    <3> QED
      BY <3>1 DEF Shared
  <2>2. Numbers'
    BY BoundAssumption DEF Detach, IInv, Types, Numbers
  <2>3. Tasks'
    BY DEF Detach, IInv, Types, Tasks, PipePlaces, ClientPlaces, SupPlaces
  <2>4. Holders'
    BY DEF Detach, IInv, Types, Shared, Tasks, Holders, LostLate, PipePlaces
  <2> QED
    BY <2>1, <2>2, <2>3, <2>4 DEF Types
<1>2. LostLate' /\ EndedBegan' /\ Attended' /\ Emptied'
  BY BoundAssumption DEF Detach, IInv, Types, Numbers, Tasks, LostLate, EndedBegan, Attended, Emptied, TearingDown
<1>3. Calm'
  BY DEF Detach, IInv, Types, Shared, Numbers, Tasks, EndedBegan, Calm, OneCarrier, Shown, Pauses, Dropped, Final, Own, TearingDown, Owes
<1> QED
  BY <1>1, <1>2, <1>3 DEF IInv

LEMMA LookForPlanStep == ASSUME BoundAssumption, IInv, NEW p \in Pipe, LookForPlan(p) PROVE IInv'
<1>1. Types'
  BY BoundAssumption DEF LookForPlan, IInv, Types, Shared, Numbers, Tasks, Holders, LostLate, PipePlaces, ClientPlaces, SupPlaces
<1>2. LostLate' /\ EndedBegan' /\ Attended' /\ Emptied'
  BY BoundAssumption DEF LookForPlan, IInv, Types, Numbers, Tasks, LostLate, EndedBegan, Attended, Emptied, TearingDown
<1>3. Calm'
  BY DEF LookForPlan, IInv, Types, Shared, Numbers, Tasks, EndedBegan, Calm, OneCarrier, Shown, Pauses, Dropped, Final, Own, TearingDown, Owes
<1> QED
  BY <1>1, <1>2, <1>3 DEF IInv

LEMMA PauseStep == ASSUME BoundAssumption, IInv, NEW p \in Pipe, Pause(p) PROVE IInv'
<1>1. Types'
  <2>1. Shared'
    <3>1. Shared /\ UNCHANGED <<cancelled, slot, atHome, spc, ended, amid, behind>>
      BY DEF Pause, PipeAt, IInv, Types
    <3>2. capture' \in Running \cup {"idle", "recovering"} /\ crossed' \in BOOLEAN
      BY <3>1 DEF Pause, Shared
    <3> QED
      BY <3>1, <3>2 DEF Shared
  <2>2. Numbers'
    BY BoundAssumption DEF Pause, IInv, Types, Numbers
  <2>3. Tasks'
    BY DEF Pause, IInv, Types, Tasks, PipePlaces, ClientPlaces, SupPlaces
  <2>4. Holders'
    BY DEF Pause, IInv, Types, Shared, Tasks, Holders, LostLate, PipePlaces
  <2> QED
    BY <2>1, <2>2, <2>3, <2>4 DEF Types
<1>2. LostLate' /\ EndedBegan' /\ Attended' /\ Emptied'
  BY BoundAssumption DEF Pause, IInv, Types, Numbers, Tasks, LostLate, EndedBegan, Attended, Emptied, TearingDown
<1>3. Calm'
  <2>1. Undisturbed' => Undisturbed /\ OneCarrier /\ Shown /\ Pauses /\ Dropped /\ Final /\ Own
    BY DEF Pause, IInv, Calm
  <2>2. Undisturbed' => OneCarrier' /\ Shown'
    BY <2>1 DEF Pause, IInv, Types, Tasks, OneCarrier, Shown
  <2>3. Undisturbed' => Pauses'
    BY <2>1 DEF Pause, IInv, Types, Shared, Tasks, Pauses, TearingDown, Owes
  <2>4. Undisturbed' => Dropped'
    BY <2>1 DEF Pause, IInv, Types, Tasks, Shown, Dropped, TearingDown
  <2>5. Undisturbed' => Final'
    BY <2>1 DEF Pause, IInv, Types, Numbers, EndedBegan, Final
  <2>6. Undisturbed' => Own'
    BY <2>1 DEF Pause, IInv, Types, Shared, Numbers, Tasks, Shown, Dropped, Own, TearingDown
  <2> QED
    BY <2>2, <2>3, <2>4, <2>5, <2>6 DEF Calm
<1> QED
  BY <1>1, <1>2, <1>3 DEF IInv

LEMMA CallSupervisorStep == ASSUME BoundAssumption, IInv, NEW p \in Pipe, CallSupervisor(p) PROVE IInv'
<1>1. Types'
  BY BoundAssumption DEF CallSupervisor, IInv, Types, Shared, Numbers, Tasks, Holders, LostLate, PipePlaces, ClientPlaces, SupPlaces
<1>2. LostLate' /\ EndedBegan' /\ Attended' /\ Emptied'
  BY BoundAssumption DEF CallSupervisor, IInv, Types, Numbers, Tasks, LostLate, EndedBegan, Attended, Emptied, TearingDown
<1>3. Calm'
  BY DEF CallSupervisor, IInv, Types, Shared, Numbers, Tasks, EndedBegan, Calm, OneCarrier, Shown, Pauses, Dropped, Final, Own, TearingDown, Owes
<1> QED
  BY <1>1, <1>2, <1>3 DEF IInv

LEMMA ReadEndStep == ASSUME BoundAssumption, IInv, NEW p \in Pipe, ReadEnd(p) PROVE IInv'
<1>1. Types'
  BY BoundAssumption DEF ReadEnd, IInv, Types, Shared, Numbers, Tasks, Holders, LostLate, PipePlaces, ClientPlaces, SupPlaces
<1>2. LostLate' /\ EndedBegan' /\ Attended' /\ Emptied'
  BY BoundAssumption DEF ReadEnd, IInv, Types, Numbers, Tasks, LostLate, EndedBegan, Attended, Emptied, TearingDown
<1>3. Calm'
  BY DEF ReadEnd, IInv, Types, Shared, Numbers, Tasks, EndedBegan, Calm, OneCarrier, Shown, Pauses, Dropped, Final, Own, TearingDown, Owes
<1> QED
  BY <1>1, <1>2, <1>3 DEF IInv

LEMMA DecideStep == ASSUME BoundAssumption, IInv, NEW p \in Pipe, Decide(p) PROVE IInv'
<1>1. Shared' /\ Tasks'
  <2>1. Shared'
    BY DEF Decide, Decides, Outdated, IInv, Types, Shared, PipePlaces, ClientPlaces, SupPlaces
  <2>2. Tasks'
    BY DEF Decide, Decides, Outdated, IInv, Types, Tasks, PipePlaces, ClientPlaces, SupPlaces
  <2> QED
    BY <2>1, <2>2
<1>2. Numbers'
  BY BoundAssumption DEF Decide, Decides, Outdated, IInv, Types, Numbers
<1>3. Holders' /\ LostLate' /\ Emptied'
  BY DEF Decide, Decides, Outdated, IInv, Types, Tasks, Holders, LostLate, Emptied, TearingDown
<1>4. EndedBegan'
  BY BoundAssumption DEF Decide, Decides, Outdated, IInv, Types, Numbers, EndedBegan
<1>5. Attended'
  BY DEF Decide, Decides, Outdated, IInv, Types, Tasks, Attended
<1>6. Undisturbed' => Undisturbed /\ OneCarrier /\ Shown /\ Pauses /\ Dropped /\ Final /\ Own
  BY DEF Decide, Decides, Outdated, IInv, Calm
<1>7. Undisturbed' => OneCarrier'
  BY <1>6 DEF Decide, Decides, Outdated, IInv, Types, Tasks, OneCarrier, Shown
<1>8. Undisturbed' => Shown'
  BY <1>6 DEF Decide, Decides, Outdated, IInv, Types, Tasks, OneCarrier, Shown
<1>9. Undisturbed' => Pauses'
  BY <1>6 DEF Decide, Decides, Outdated, IInv, Types, Tasks, Pauses, TearingDown, Owes
<1>10. Undisturbed' => Dropped'
  BY <1>6 DEF Decide, Decides, Outdated, IInv, Types, Tasks, Shown, Dropped, TearingDown
<1>11. Undisturbed' => Final'
  BY <1>6 DEF Decide, Decides, Outdated, IInv, Types, Shared, Numbers, EndedBegan, Final
<1>12. Undisturbed' => Own'
  BY <1>6 DEF Decide, Decides, Outdated, IInv, Types, Shared, Numbers, Tasks, Shown, Dropped, Own, TearingDown
<1> QED
  BY <1>1, <1>2, <1>3, <1>4, <1>5, <1>7, <1>8, <1>9, <1>10, <1>11, <1>12 DEF IInv, Types, Calm

LEMMA EndForgetsStep == ASSUME BoundAssumption, IInv, NEW p \in Pipe, EndForgets(p) PROVE IInv'
<1>1. Types'
  BY BoundAssumption DEF EndForgets, IInv, Types, Shared, Numbers, Tasks, Holders, LostLate, PipePlaces, ClientPlaces, SupPlaces
<1>2. LostLate' /\ EndedBegan' /\ Attended' /\ Emptied'
  BY BoundAssumption DEF EndForgets, IInv, Types, Numbers, Tasks, LostLate, EndedBegan, Attended, Emptied, TearingDown
<1>3. Calm'
  BY DEF EndForgets, IInv, Types, Shared, Numbers, Tasks, EndedBegan, Calm, OneCarrier, Shown, Pauses, Dropped, Final, Own, TearingDown, Owes
<1> QED
  BY <1>1, <1>2, <1>3 DEF IInv

LEMMA SupReopensStep == ASSUME BoundAssumption, IInv, SupReopens PROVE IInv'
<1>1. Types'
  BY BoundAssumption DEF SupReopens, IInv, Types, Shared, Numbers, Tasks, Holders, LostLate, PipePlaces, ClientPlaces, SupPlaces
<1>2. LostLate' /\ EndedBegan' /\ Attended' /\ Emptied'
  BY BoundAssumption DEF SupReopens, IInv, Types, Numbers, Tasks, LostLate, EndedBegan, Attended, Emptied, TearingDown
<1>3. Calm'
  BY DEF SupReopens, IInv, Types, Shared, Numbers, Tasks, EndedBegan, Calm, OneCarrier, Shown, Pauses, Dropped, Final, Own, TearingDown, Owes
<1> QED
  BY <1>1, <1>2, <1>3 DEF IInv

LEMMA SupAbandonsStep == ASSUME BoundAssumption, IInv, SupAbandons PROVE IInv'
<1>1. Types'
  BY BoundAssumption DEF SupAbandons, IInv, Types, Shared, Numbers, Tasks, Holders, LostLate, PipePlaces, ClientPlaces, SupPlaces
<1>2. LostLate' /\ EndedBegan' /\ Attended' /\ Emptied'
  BY BoundAssumption DEF SupAbandons, IInv, Types, Numbers, Tasks, LostLate, EndedBegan, Attended, Emptied, TearingDown
<1>3. Calm'
  BY DEF SupAbandons, IInv, Types, Shared, Numbers, Tasks, EndedBegan, Calm, OneCarrier, Shown, Pauses, Dropped, Final, Own, TearingDown, Owes
<1> QED
  BY <1>1, <1>2, <1>3 DEF IInv

LEMMA SupGivesUpStep == ASSUME BoundAssumption, IInv, SupGivesUp PROVE IInv'
<1>1. Types'
  BY BoundAssumption DEF SupGivesUp, IInv, Types, Shared, Numbers, Tasks, Holders, LostLate, PipePlaces, ClientPlaces, SupPlaces
<1>2. LostLate' /\ EndedBegan' /\ Attended' /\ Emptied'
  BY BoundAssumption DEF SupGivesUp, IInv, Types, Numbers, Tasks, LostLate, EndedBegan, Attended, Emptied, TearingDown
<1>3. Calm'
  BY DEF SupGivesUp, IInv, Types, Shared, Numbers, Tasks, EndedBegan, Calm, OneCarrier, Shown, Pauses, Dropped, Final, Own, TearingDown, Owes
<1> QED
  BY <1>1, <1>2, <1>3 DEF IInv

LEMMA SupFindsStep == ASSUME BoundAssumption, IInv, SupFinds PROVE IInv'
<1>1. Types'
  BY BoundAssumption DEF SupFinds, IInv, Types, Shared, Numbers, Tasks, Holders, LostLate, PipePlaces, ClientPlaces, SupPlaces
<1>2. LostLate' /\ EndedBegan' /\ Attended' /\ Emptied'
  BY BoundAssumption DEF SupFinds, IInv, Types, Numbers, Tasks, LostLate, EndedBegan, Attended, Emptied, TearingDown
<1>3. Calm'
  BY DEF SupFinds, IInv, Types, Shared, Numbers, Tasks, EndedBegan, Calm, OneCarrier, Shown, Pauses, Dropped, Final, Own, TearingDown, Owes
<1> QED
  BY <1>1, <1>2, <1>3 DEF IInv

LEMMA SupChoosesStep == ASSUME BoundAssumption, IInv, SupChooses PROVE IInv'
<1>1. Types'
  BY BoundAssumption DEF SupChooses, IInv, Types, Shared, Numbers, Tasks, Holders, LostLate, PipePlaces, ClientPlaces, SupPlaces
<1>2. LostLate' /\ EndedBegan' /\ Attended' /\ Emptied'
  BY BoundAssumption DEF SupChooses, IInv, Types, Numbers, Tasks, LostLate, EndedBegan, Attended, Emptied, TearingDown
<1>3. Calm'
  BY DEF SupChooses, IInv, Types, Shared, Numbers, Tasks, EndedBegan, Calm, OneCarrier, Shown, Pauses, Dropped, Final, Own, TearingDown, Owes
<1> QED
  BY <1>1, <1>2, <1>3 DEF IInv

LEMMA ResumeStep == ASSUME BoundAssumption, IInv, Resume PROVE IInv'
<1>1. Shared' /\ Tasks'
  <2>1. Shared /\ Tasks /\ UNCHANGED <<cancelled, slot, atHome, ended, crossed, behind, pipes, clients>>
    BY DEF Resume, IInv, Types
  <2>2. capture' \in {capture, "starting"} /\ spc' \in SupPlaces
    BY DEF Resume, SupPlaces
  <2>3. amid' \in BOOLEAN
    BY <2>1 DEF Resume, BeginsAmid, Unfinished, Shared
  <2> QED
    BY <2>1, <2>2, <2>3 DEF Shared, Tasks
<1>2. Numbers'
  BY BoundAssumption DEF Resume, BeginsAmid, Unfinished, IInv, Types, Numbers
<1>3. Holders' /\ LostLate' /\ Emptied'
  BY DEF Resume, BeginsAmid, Unfinished, IInv, Types, Tasks, Holders, LostLate, Emptied, TearingDown
<1>4. EndedBegan'
  BY BoundAssumption DEF Resume, BeginsAmid, Unfinished, IInv, Types, Numbers, EndedBegan
<1>5. Attended'
  BY DEF Resume, BeginsAmid, Unfinished, IInv, Types, Tasks, Attended
<1>6. Undisturbed' => Undisturbed /\ OneCarrier /\ Shown /\ Pauses /\ Dropped /\ Final /\ Own
  BY DEF Resume, BeginsAmid, Unfinished, IInv, Calm
<1>7. Undisturbed' => OneCarrier'
  BY <1>6 DEF Resume, BeginsAmid, Unfinished, IInv, Types, Tasks, OneCarrier, Shown
<1>8. Undisturbed' => Shown'
  BY <1>6 DEF Resume, BeginsAmid, Unfinished, IInv, Types, Tasks, OneCarrier, Shown
<1>9. Undisturbed' => Pauses'
  BY <1>6 DEF Resume, BeginsAmid, Unfinished, IInv, Types, Tasks, Pauses, TearingDown, Owes
<1>10. Undisturbed' => Dropped'
  BY <1>6 DEF Resume, BeginsAmid, Unfinished, IInv, Types, Tasks, Shown, Dropped, TearingDown
<1>11. Undisturbed' => Final'
  BY <1>6 DEF Resume, BeginsAmid, Unfinished, IInv, Types, Numbers, EndedBegan, Final
<1>12. Undisturbed' => Own'
  BY <1>6 DEF Resume, BeginsAmid, Unfinished, IInv, Types, Shared, Numbers, Tasks, Shown, Dropped, Own, TearingDown
<1> QED
  BY <1>1, <1>2, <1>3, <1>4, <1>5, <1>7, <1>8, <1>9, <1>10, <1>11, <1>12 DEF IInv, Types, Calm

LEMMA ResumeResetsStep == ASSUME BoundAssumption, IInv, ResumeResets PROVE IInv'
<1>1. Types'
  BY BoundAssumption DEF ResumeResets, IInv, Types, Shared, Numbers, Tasks, Holders, LostLate, PipePlaces, ClientPlaces, SupPlaces
<1>2. LostLate' /\ EndedBegan' /\ Attended' /\ Emptied'
  BY BoundAssumption DEF ResumeResets, IInv, Types, Numbers, Tasks, LostLate, EndedBegan, Attended, Emptied, TearingDown
<1>3. Calm'
  BY DEF ResumeResets, IInv, Types, Shared, Numbers, Tasks, EndedBegan, Calm, OneCarrier, Shown, Pauses, Dropped, Final, Own, TearingDown, Owes
<1> QED
  BY <1>1, <1>2, <1>3 DEF IInv

LEMMA ResumeSpawnsStep == ASSUME BoundAssumption, IInv, ResumeSpawns PROVE IInv'
<1>1. Types'
  BY BoundAssumption DEF ResumeSpawns, IInv, Types, Shared, Numbers, Tasks, Holders, LostLate, PipePlaces, ClientPlaces, SupPlaces
<1>2. LostLate' /\ EndedBegan' /\ Attended' /\ Emptied'
  BY BoundAssumption DEF ResumeSpawns, IInv, Types, Numbers, Tasks, LostLate, EndedBegan, Attended, Emptied, TearingDown
<1>3. Calm'
  BY DEF ResumeSpawns, IInv, Types, Shared, Numbers, Tasks, EndedBegan, Calm, OneCarrier, Shown, Pauses, Dropped, Final, Own, TearingDown, Owes
<1> QED
  BY <1>1, <1>2, <1>3 DEF IInv

LEMMA SupEndsPauseStep == ASSUME BoundAssumption, IInv, SupEndsPause PROVE IInv'
<1>1. Shared' /\ Tasks'
  BY DEF SupEndsPause, IInv, Types, Shared, Tasks, PipePlaces, ClientPlaces, SupPlaces
<1>2. Numbers'
  BY BoundAssumption DEF SupEndsPause, IInv, Types, Numbers
<1>3. Holders' /\ LostLate' /\ Emptied'
  BY DEF SupEndsPause, IInv, Types, Tasks, Holders, LostLate, Emptied, TearingDown
<1>4. EndedBegan'
  <2>1. current' = current /\ (stopped' = stopped \/ stopped' = stopped \cup ({current} \ {None}))
    BY DEF SupEndsPause
  <2> QED
    BY <2>1, BoundAssumption, EndsBegan DEF IInv, Types
<1>5. Attended'
  BY DEF SupEndsPause, IInv, Types, Tasks, Attended
<1>6. Undisturbed' => Undisturbed /\ OneCarrier /\ Shown /\ Pauses /\ Dropped /\ Final /\ Own
  BY DEF SupEndsPause, IInv, Calm
<1>7. Undisturbed' => OneCarrier'
  BY <1>6 DEF SupEndsPause, IInv, Types, Tasks, OneCarrier, Shown
<1>8. Undisturbed' => Shown'
  BY <1>6 DEF SupEndsPause, IInv, Types, Tasks, OneCarrier, Shown
<1>9. Undisturbed' => Pauses'
  BY <1>6 DEF SupEndsPause, IInv, Types, Tasks, Pauses, TearingDown, Owes
<1>10. Undisturbed' => Dropped'
  BY <1>6 DEF SupEndsPause, IInv, Types, Tasks, Shown, Dropped, TearingDown
<1>11. Undisturbed' => Final'
  BY <1>6 DEF SupEndsPause, IInv, Types, Numbers, EndedBegan, Final
<1>12. Undisturbed' => Own'
  BY <1>6 DEF SupEndsPause, IInv, Types, Shared, Numbers, Tasks, Shown, Dropped, Own, TearingDown
<1> QED
  BY <1>1, <1>2, <1>3, <1>4, <1>5, <1>7, <1>8, <1>9, <1>10, <1>11, <1>12 DEF IInv, Types, Calm

LEMMA SupForgetsStep == ASSUME BoundAssumption, IInv, SupForgets PROVE IInv'
<1>1. Types'
  BY BoundAssumption DEF SupForgets, IInv, Types, Shared, Numbers, Tasks, Holders, LostLate, PipePlaces, ClientPlaces, SupPlaces
<1>2. LostLate' /\ EndedBegan' /\ Attended' /\ Emptied'
  BY BoundAssumption DEF SupForgets, IInv, Types, Numbers, Tasks, LostLate, EndedBegan, Attended, Emptied, TearingDown
<1>3. Calm'
  BY DEF SupForgets, IInv, Types, Shared, Numbers, Tasks, EndedBegan, Calm, OneCarrier, Shown, Pauses, Dropped, Final, Own, TearingDown, Owes
<1> QED
  BY <1>1, <1>2, <1>3 DEF IInv

LEMMA SupReleasesStep == ASSUME BoundAssumption, IInv, SupReleases PROVE IInv'
<1>1. Types'
  BY BoundAssumption DEF SupReleases, IInv, Types, Shared, Numbers, Tasks, Holders, LostLate, PipePlaces, ClientPlaces, SupPlaces
<1>2. LostLate' /\ EndedBegan' /\ Attended' /\ Emptied'
  BY BoundAssumption DEF SupReleases, IInv, Types, Numbers, Tasks, LostLate, EndedBegan, Attended, Emptied, TearingDown
<1>3. Calm'
  BY DEF SupReleases, IInv, Types, Shared, Numbers, Tasks, EndedBegan, Calm, OneCarrier, Shown, Pauses, Dropped, Final, Own, TearingDown, Owes
<1> QED
  BY <1>1, <1>2, <1>3 DEF IInv

-----------------------------------------------------------------------------

LEMMA InitHolds == BoundAssumption /\ Init => IInv
<1> SUFFICES ASSUME BoundAssumption, Init PROVE IInv
  OBVIOUS
<1>1. Shared /\ Tasks
  BY DEF Init, Shared, Tasks, PipePlaces, ClientPlaces, SupPlaces
<1>2. Numbers
  BY DEF Init, BoundAssumption, Numbers
<1>3. Holders /\ LostLate /\ EndedBegan /\ Attended /\ Emptied
  BY DEF Init, Holders, LostLate, EndedBegan, Attended, Emptied, TearingDown
<1>4. Calm
  BY DEF Init, Calm, OneCarrier, Shown, Pauses, Dropped, Final, Own, TearingDown, Owes
<1> QED
  BY <1>1, <1>2, <1>3, <1>4 DEF IInv, Types

LEMMA TeardownSteps == ASSUME BoundAssumption, TaskAssumption, IInv, NEW t \in Task, TeardownStep(t) PROVE IInv'
BY EndRecoveryStep, EmptySlotStep, RemoveEntryStep, EndPausedOfStep, ForgetPausedOfStep DEF TeardownStep

LEMMA Step == BoundAssumption /\ TaskAssumption /\ IInv /\ [Next]_vars => IInv'
<1> SUFFICES ASSUME BoundAssumption, TaskAssumption, IInv, [Next]_vars PROVE IInv'
  OBVIOUS
<1>1. ASSUME NEW k \in Client, Start(k) \/ Stop(k) \/ Disconnect(k) \/ Connect(k) PROVE IInv'
  BY <1>1, StartStep, StopStep, DisconnectStep, ConnectStep
<1>2. ASSUME NEW k \in Client, RequestStep(k) PROVE IInv'
  BY <1>2, StartResetsStep, StartSpawnsStep, StopCancelsStep, StopForgetsStep,
     DisconnectEndsPauseStep, DisconnectForgetsStep, DisconnectStopsStep, DisconnectWaitsStep,
     TeardownSteps DEF RequestStep, Task
<1>3. ASSUME NEW p \in Pipe, PipeStep(p) \/ RunEnds(p) PROVE IInv'
  BY <1>3, BeginSessionStep, RecordStep, TakeStep, CheckStep, ProbeStep, CarryStep, RunEndsStep,
     RunCancelledStep, ParkStep, JudgeStep, PutStep, ReturnNothingStep, DetachStep, LookForPlanStep,
     PauseStep, CallSupervisorStep, ReadEndStep, DecideStep, EndForgetsStep,
     TeardownSteps DEF PipeStep, Task
<1>4. ASSUME SupStep PROVE IInv'
  BY <1>4, SupReopensStep, SupAbandonsStep, SupGivesUpStep, SupFindsStep, SupChoosesStep, ResumeStep,
     ResumeResetsStep, ResumeSpawnsStep, SupEndsPauseStep, SupForgetsStep, SupReleasesStep,
     TeardownSteps DEF SupStep, Task
<1>5. CASE UNCHANGED vars
  BY <1>5 DEF vars, IInv, Types, Shared, Numbers, Tasks, Holders, LostLate, EndedBegan, Attended,
     Emptied, TearingDown, Calm, OneCarrier, Shown, Pauses, Owes, Dropped, Final, Own
<1> QED
  BY <1>1, <1>2, <1>3, <1>4, <1>5 DEF Next, Client

\* IInv holds in every reachable state, overlapping captures or not.
THEOREM InductiveInvariant == Spec => []IInv
BY BoundAssumption, TaskAssumption, InitHolds, Step, PTL DEF Spec

-----------------------------------------------------------------------------

\* Everything keeps its type, and a pipeline that holds a handle is at a place
\* where it may.
THEOREM TypeCorrect == Spec => []TypeOK
<1>1. IInv => TypeOK
  <2> SUFFICES ASSUME IInv PROVE TypeOK
    OBVIOUS
  <2>1. 0 .. MaxStarts = Observation \cup {None}
    BY BoundAssumption DEF BoundAssumption
  <2>2. stopped \subseteq Observation
    BY BoundAssumption DEF BoundAssumption, IInv, Types, Numbers, EndedBegan
  <2>3. held \subseteq {p \in Pipe : ~lost[p] /\ ppc[p] \in Working \cup {"parking", "returning", "putting"}}
    BY DEF IInv, Types, Holders
  <2> HIDE DEF Observation, None, Working, Running
  <2>4. Numbers => /\ plan \in Observation \cup {None} /\ stack \in Observation \cup {None}
                   /\ sobs \in Observation \cup {None} /\ current \in Observation \cup {None}
                   /\ obs \in [Pipe -> Observation \cup {None}]
                   /\ ofStart \in [Client -> Observation \cup {None}]
    BY <2>1 DEF Numbers
  <2> QED
    BY <2>2, <2>3, <2>4 DEF IInv, Types, Shared, Tasks, TypeOK
<1> QED
  BY <1>1, InductiveInvariant, PTL

\* Until captures overlap, one pipeline at most has a handle to the imaging
\* camera, and the clients see a capture while one works it.
THEOREM OneHolder == Spec => []OneHolderIsShown
<1>1. IInv => OneHolderIsShown
  <2> SUFFICES ASSUME IInv, Undisturbed, NEW p \in held
               PROVE  /\ \A q \in held : p = q
                      /\ ppc[p] # "returning" => capture \in {"capturing", "stopping"}
    BY DEF OneHolderIsShown
  <2>1. \A q \in held : q \in Pipe /\ ppc[q] \in Working \cup {"parking", "returning", "putting"}
    BY DEF IInv, Types, Holders
  <2>2. \A q \in held : p = q
    BY <2>1 DEF IInv, Calm, OneCarrier
  <2>3. capture \in {"capturing", "stopping"}
    BY <2>1 DEF IInv, Calm, Shown
  <2> QED
    BY <2>2, <2>3
<1> QED
  BY <1>1, InductiveInvariant, PTL

\* An open device is never parked in a role whose camera has left, overlapping
\* captures or not, unless it comes back behind a teardown under way.
THEOREM EmptyRoles == Spec => []NoHandleInAnEmptyRole
<1>1. IInv => NoHandleInAnEmptyRole
  BY DEF IInv, Emptied, NoHandleInAnEmptyRole
<1> QED
  BY <1>1, InductiveInvariant, PTL

\* What is kept for a resume is the newest observation's; once every task is over
\* no capture runs or is paused, and nothing is left to resume.
THEOREM NothingLeft == Spec => []NothingLeftBehind
<1>1. IInv => NothingLeftBehind
  <2> SUFFICES ASSUME IInv, Undisturbed
               PROVE  /\ plan \in {None, current} /\ stack \in {None, current}
                      /\ Quiet => capture = "idle" /\ plan = None /\ stack = None
    BY DEF NothingLeftBehind
  <2>1. plan \in {None, current} /\ stack \in {None, current}
    BY DEF IInv, Calm, Own
  <2>2. ASSUME Quiet PROVE capture = "idle" /\ plan = None /\ stack = None
    <3>1. capture \notin Running
      BY <2>2 DEF IInv, Calm, Shown, Quiet
    <3>2. slot # "recovering"
      BY <2>2 DEF IInv, Attended, Quiet
    <3>3. capture # "recovering"
      BY <2>2, <3>2 DEF IInv, Calm, Pauses, Owes, TearingDown, Quiet
    <3>4. capture = "idle"
      BY <3>1, <3>3 DEF IInv, Types, Shared
    <3> QED
      BY <2>2, <3>4 DEF IInv, Calm, Dropped, TearingDown, Quiet
  <2> QED
    BY <2>1, <2>2
<1> QED
  BY <1>1, InductiveInvariant, PTL

\* What brings a capture on: a Start, a pipeline that revives it, or what runs or
\* is paused already.
LEMMA BroughtOn ==
    ASSUME Shared, [Next]_vars, capture' # capture, capture' \in {"starting", "capturing", "recovering"}
    PROVE  \/ \E k \in Client : Start(k)
           \/ \E p \in Pipe : Revives(p)
           \/ /\ capture \in {"starting", "capturing", "recovering"}
              /\ current' = current /\ stopped' = stopped
<1> DEFINE Goal == \/ \E k \in Client : Start(k)
                   \/ \E p \in Pipe : Revives(p)
                   \/ /\ capture \in {"starting", "capturing", "recovering"}
                      /\ current' = current /\ stopped' = stopped
<1>1. ASSUME NEW k \in Client, Start(k) \/ Stop(k) \/ Disconnect(k) \/ Connect(k) PROVE Goal
  BY <1>1 DEF Stop, StopMoves, Disconnect, Connect
<1>2. ASSUME NEW t \in Task, TeardownStep(t) PROVE Goal
  BY <1>2 DEF TeardownStep, EndRecovery, EmptySlot, RemoveEntry, EndPausedOf, ForgetPausedOf
<1>3. ASSUME NEW k \in Client, RequestStep(k) PROVE Goal
  BY <1>2, <1>3 DEF Task, RequestStep, StartResets, StartSpawns, StopCancels, StopForgets,
     DisconnectEndsPause, DisconnectForgets, DisconnectStops, StopMoves, DisconnectWaits
<1>4. ASSUME NEW p \in Pipe, PipeStep(p) \/ RunEnds(p) PROVE Goal
  <2>1. ASSUME BeginSession(p) \/ Pause(p) PROVE Goal
    BY <2>1 DEF BeginSession, Pause
  <2>2. ASSUME Decide(p) PROVE Goal
    <3>1. capture # "idle" => capture \in {"starting", "capturing", "recovering"} \/ ~(paused[p] /\ capture # "stopping")
      BY DEF Shared
    <3> QED
      BY <2>2, <3>1 DEF Decide, Decides, Revives
  <2> QED
    BY <1>2, <1>4, <2>1, <2>2 DEF Task, PipeStep, Record, Take, Check, Probe, Carry, RunEnds,
       RunCancelled, Park, Judge, Put, ReturnNothing, Detach, LookForPlan, CallSupervisor, ReadEnd,
       EndForgets
<1>5. ASSUME SupStep PROVE Goal
  BY <1>2, <1>5 DEF Task, SupStep, SupReopens, SupAbandons, SupGivesUp, SupFinds, SupChooses,
     Resume, ResumeResets, ResumeSpawns, SupEndsPause, SupForgets, SupReleases
<1>6. ~UNCHANGED vars
  BY DEF vars
<1> QED
  BY <1>1, <1>3, <1>4, <1>5, <1>6 DEF Next, Client

\* A capture the observer ended neither pauses, starts nor runs again, but by a
\* pipeline that read before the Stop that its camera recovers.
THEOREM AStopIsFinal == Spec => StopIsFinal
<1>1. ASSUME IInv, [Next]_vars, Undisturbed, capture' # capture,
             capture' \in {"starting", "capturing", "recovering"}
      PROVE  current' \notin stopped' \/ \E p \in Pipe : Revives(p)
  <2>1. ASSUME NEW k \in Client, Start(k) PROVE current' \notin stopped'
    BY <1>1, <2>1, BoundAssumption DEF Start, Begins, IInv, Types, Numbers, EndedBegan
  <2> QED
    BY <1>1, <2>1, BroughtOn DEF IInv, Types, Calm, Final
<1>2. IInv /\ [Next]_vars =>
        [Undisturbed /\ capture' # capture /\ capture' \in {"starting", "capturing", "recovering"}
            => current' \notin stopped' \/ \E p \in Pipe : Revives(p)]_vars
  BY <1>1
<1> QED
  BY <1>2, InductiveInvariant, PTL DEF Spec, StopIsFinal

=============================================================================
