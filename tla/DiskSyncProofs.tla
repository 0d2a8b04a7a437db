--------------------------- MODULE DiskSyncProofs ---------------------------
(***************************************************************************)
(* What DiskSync keeps for any number of captures, guide loops, frames and *)
(* faults: "synced" means durable, no frame is forgotten, a container      *)
(* holds one folder's frames, and no verdict covers a camera that saves.   *)
(*                                                                         *)
(* Savers of a camera have turns, and unless a guide loop began over an    *)
(* earlier one's sync, a saver that still saves is the newest (Turns).     *)
(* The queue and the jobs keep the turns (Line, JobLine), so a sync takes  *)
(* up every frame of its own saver and none of a later one's.  What became *)
(* of a saver's frames is accounted for at each stage of its sync: before  *)
(* the writer takes it up, in the job, and in the verdict (Account).       *)
(*                                                                         *)
(* Last, the imaging camera's saver implements SavePromise: each step is a *)
(* step of it or one that it does not see (KeepsPromise).                  *)
(***************************************************************************)
EXTENDS DiskSync, FiniteSetTheorems, TLAPS

\* The type invariant in groups.

Job == [of : Saver, files : SUBSET Files, done : SUBSET Files, failed : BOOLEAN]

Savers ==
    /\ pc \in [Saver -> {"none", "saving", "ended", "asking", "waiting", "told", "done"}]
    /\ asked \in [Saver -> Nat]
    /\ verdict \in [Saver -> {"none", "idle", "synced", "failed"}]
    /\ threads \subseteq {"storage", "stacking"} /\ overlap \in BOOLEAN

Sessions ==
    /\ session \in Session \cup {NoSession} /\ plan \in Session \cup {NoSession}
    /\ issued \subseteq Session
    /\ hung \subseteq {"writer", "syncer"} /\ faults \in 0..MaxFaults

Messaged == queue \in Seq(Messages) /\ Len(queue) <= MaxQueue

Device ==
    /\ container \in sers \cup {NoContainer} /\ sers \subseteq Files
    /\ pending \in [Group -> [files : SUBSET Files, failed : BOOLEAN]]
    /\ unheard \subseteq Files

Jobs == jobs \in Seq(Job)

Kept ==
    /\ stage \in [Frame -> Stages] /\ owner \in [Frame -> Saver \cup {NoSaver}]
    /\ dir \in [Frame -> Session \cup {NoSession} \cup Loop] /\ file \in [Frame -> Files]

Shown == entry \in [Group -> [state : {"idle", "syncing", "synced", "failed"}, run : Nat]]

Types == Savers /\ Sessions /\ Messaged /\ Device /\ Jobs /\ Kept /\ Shown

-----------------------------------------------------------------------------
\* Whose turn it is.

Turn(s) == IF s \in Capture THEN s ELSE -s
InTurn(s) == s \in Loop => ~overlap
Run(s) == entry[GroupOf(s)].run
Earlier(r, s) == GroupOf(r) = GroupOf(s) /\ Turn(r) < Turn(s)

\* A camera's savers begin one after the other.
Begun == \A s \in Saver : pc[s] # "none" <=> Turn(s) <= Run(s)

\* Only the newest saves or has yet to send its sync.
Behind ==
    \A s \in Saver : InTurn(s) /\ Turn(s) < Run(s) =>
        pc[s] \in {"waiting", "told", "done"} /\ (s \in Capture => pc[s] = "done")

AskedInTurn ==
    \A s \in Saver : InTurn(s) /\ pc[s] \in {"asking", "waiting", "told", "done"} =>
        asked[s] = Turn(s)

\* What the observer sees is of the newest.
Screen ==
    \A s \in Saver : InTurn(s) /\ Turn(s) = Run(s) =>
        /\ pc[s] \in {"saving", "ended"} => entry[GroupOf(s)].state = "idle"
        /\ pc[s] \in {"asking", "waiting", "told"} => entry[GroupOf(s)].state = "syncing"
        /\ pc[s] = "done" => entry[GroupOf(s)].state = verdict[s]

Concluded ==
    \A s \in Saver :
        /\ pc[s] \in {"told", "done"} <=> verdict[s] # "none"
        /\ pc[s] = "ended" => s \in Capture

Counted ==
    /\ \A g \in Group : entry[g].run = 0 => entry[g].state = "idle"
    /\ entry["Shared"].run <= MaxCaptures /\ entry["Owned"].run <= MaxLoops

Turns == Begun /\ Behind /\ AskedInTurn /\ Screen /\ Concluded /\ Counted

-----------------------------------------------------------------------------
\* Where each frame is.

Processed == {f \in Frame : stage[f] \notin {"none", "queued"}}

Dense == \E n \in 0..MaxFrames : \A f \in Frame : owner[f] # NoSaver <=> f <= n

Belongs ==
    \A f \in Frame :
        /\ owner[f] = NoSaver <=> stage[f] = "none"
        /\ owner[f] \in Saver => pc[owner[f]] # "none"
        /\ owner[f] \in Loop => dir[f] = owner[f]
        /\ owner[f] \in Capture => dir[f] \in Session \cup {NoSession}

Filed ==
    \A f \in Frame :
        /\ stage[f] \in {"none", "queued"} => file[f] = NoFile
        /\ stage[f] \in {"buffered", "written", "synced", "durable"} => file[f] # NoFile
        /\ \/ file[f] \in {NoFile, <<0, f>>}
           \/ file[f] \in sers /\ file[f][1] = dir[f] /\ owner[f] \in Capture
        /\ stage[f] = "buffered" => file[f] = container /\ container # NoContainer
        /\ stage[f] # "lost"

Frames == Dense /\ Belongs /\ Filed

\* The containers: the open one is recorded for the next sync, and those of a
\* folder are numbered without a gap, one per frame at most.
Containers ==
    /\ container # NoContainer => container \in pending["Shared"].files /\ container \in sers
    /\ \A p \in sers : p[1] \in SerSession /\ p[2] \in Frame

Numbered ==
    \A d \in SerSession : \E n \in 0..MaxFrames :
        n <= Cardinality(Processed) /\ \A k \in Frame : <<d, k>> \in sers <=> k <= n

\* What a sync of a camera covers is that camera's.
OfGroup(p, g) ==
    \/ p[1] = 0 /\ p[2] \in Processed /\ GroupOf(owner[p[2]]) = g
    \/ p \in sers /\ g = "Shared"

Grouped ==
    /\ \A g \in Group : \A p \in pending[g].files : OfGroup(p, g)
    /\ \A k \in DOMAIN jobs : \A p \in jobs[k].files \cup jobs[k].done :
          OfGroup(p, GroupOf(jobs[k].of))

Covered ==
    \A f \in Frame :
        /\ stage[f] = "written" =>
              \/ file[f] \in pending[GroupOf(owner[f])].files
              \/ \E j \in DOMAIN jobs : file[f] \in jobs[j].files
        /\ stage[f] = "synced" => \E j \in DOMAIN jobs : file[f] \in jobs[j].done

-----------------------------------------------------------------------------
\* The queue and the jobs, in turn.

IsFrame(m) == m.kind \in {"raw", "stack"}
IsSync(m) == m.kind = "sync"

QueuedOnce ==
    /\ \A i \in DOMAIN queue : IsFrame(queue[i]) => stage[queue[i].of] = "queued"
    /\ \A i, j \in DOMAIN queue :
          IsFrame(queue[i]) /\ IsFrame(queue[j]) /\ queue[i].of = queue[j].of => i = j
    /\ \A f \in Frame : stage[f] = "queued" =>
          \E i \in DOMAIN queue : IsFrame(queue[i]) /\ queue[i].of = f

SyncSent ==
    \A i \in DOMAIN queue : IsSync(queue[i]) => pc[queue[i].of] \in {"waiting", "told", "done"}

\* A sync is behind the frames of its saver, and ahead of a later one's.
Line ==
    \A i, j \in DOMAIN queue :
        IsSync(queue[i]) /\ IsFrame(queue[j]) /\ InTurn(queue[i].of) =>
            /\ i < j => owner[queue[j].of] # queue[i].of
            /\ j < i => ~Earlier(queue[i].of, owner[queue[j].of])

SyncLine ==
    \A i, j \in DOMAIN queue :
        IsSync(queue[i]) /\ IsSync(queue[j]) /\ i < j /\ InTurn(queue[i].of) =>
            queue[i].of # queue[j].of /\ ~Earlier(queue[j].of, queue[i].of)

\* Until a sync is taken up, the frames of later savers are queued.
Held ==
    \A i \in DOMAIN queue, f \in Frame :
        IsSync(queue[i]) /\ InTurn(queue[i].of) /\ owner[f] \in Saver
            /\ Earlier(queue[i].of, owner[f]) => stage[f] = "queued"

JobSent == \A k \in DOMAIN jobs : pc[jobs[k].of] \in {"waiting", "told", "done"}

JobLine ==
    /\ \A k \in DOMAIN jobs, i \in DOMAIN queue : IsSync(queue[i]) /\ InTurn(jobs[k].of) =>
          jobs[k].of # queue[i].of /\ ~Earlier(queue[i].of, jobs[k].of)
    /\ \A j, k \in DOMAIN jobs : j < k /\ InTurn(jobs[j].of) =>
          jobs[j].of # jobs[k].of /\ ~Earlier(jobs[k].of, jobs[j].of)

\* Whoever waits has a sync on its way.
Awaited ==
    \A s \in Saver : pc[s] = "waiting" =>
        \/ \E i \in DOMAIN queue : IsSync(queue[i]) /\ queue[i].of = s
        \/ \E k \in DOMAIN jobs : jobs[k].of = s

\* A job that is waited for covers nothing of a later saver.
JobOwn ==
    \A k \in DOMAIN jobs, f \in Frame :
        /\ pc[jobs[k].of] = "waiting" /\ InTurn(jobs[k].of) /\ owner[f] \in Saver
        /\ file[f] \in jobs[k].files \cup jobs[k].done
        => ~Earlier(jobs[k].of, owner[f])

AnsweredInTurn ==
    \A r, s \in Saver :
        Earlier(r, s) /\ InTurn(s) /\ verdict[s] \in {"idle", "synced"} => pc[r] # "waiting"

Ordered ==
    /\ QueuedOnce /\ SyncSent /\ Line /\ SyncLine /\ Held
    /\ JobSent /\ JobLine /\ Awaited /\ JobOwn /\ AnsweredInTurn

-----------------------------------------------------------------------------
\* What became of a saver's frames, before the writer takes its sync up, in
\* the job, and once it has a verdict that is no failure.

Missed(f) == stage[f] = "failed" /\ file[f] \in unheard

Untaken(s) ==
    \/ pc[s] \in {"saving", "ended", "asking"}
    \/ \E i \in DOMAIN queue : IsSync(queue[i]) /\ queue[i].of = s

KeptFor(s) ==
    pending[GroupOf(s)].failed \/ \A f \in Frame : owner[f] = s =>
        \/ stage[f] \in {"queued", "synced", "durable"}
        \/ stage[f] \in {"buffered", "written"} /\ file[f] \in pending[GroupOf(s)].files
        \/ Missed(f)

InJob(k) ==
    jobs[k].failed \/ \A f \in Frame : owner[f] = jobs[k].of =>
        \/ stage[f] = "durable" \/ Missed(f)
        \/ stage[f] = "written" /\ file[f] \in jobs[k].files
        \/ stage[f] = "synced" /\ \E j \in 1..k : file[f] \in jobs[j].done

AccountOpen == \A s \in Saver : InTurn(s) /\ Untaken(s) => KeptFor(s)
AccountInJob == \A k \in DOMAIN jobs : InTurn(jobs[k].of) => InJob(k)
AccountTold ==
    \A s \in Saver : InTurn(s) /\ verdict[s] \in {"idle", "synced"} =>
        \A f \in Frame : owner[f] = s => stage[f] = "durable" \/ Missed(f)

Account == AccountOpen /\ AccountInJob /\ AccountTold

IInv ==
    /\ Types /\ Turns /\ Frames /\ Containers /\ Numbered /\ Grouped /\ Covered
    /\ Ordered /\ Account

-----------------------------------------------------------------------------

\* Turns.

USE DEF saverVars, sessionVars, workerVars, frameVars, syncVars, NoSaver, NoSession, NoFile,
        NoContainer, Group

LEMMA SaverFacts ==
    ASSUME BoundAssumption, NEW s \in Saver
    PROVE  /\ Turn(s) \in Nat \ {0} /\ s # NoSaver /\ GroupOf(s) \in Group
           /\ s \in Capture => GroupOf(s) = "Shared" /\ Turn(s) = s /\ s \notin Loop
           /\ s \notin Capture => s \in Loop /\ GroupOf(s) = "Owned"
           /\ s \in Capture => Turn(s) <= MaxCaptures /\ s \in Nat
           /\ s \in Loop => Turn(s) <= MaxLoops /\ Turn(s) = -s /\ -s \in Nat /\ s \notin Nat
BY DEF BoundAssumption, Saver, Capture, Loop, Turn, GroupOf

LEMMA InOrder ==
    ASSUME BoundAssumption, NEW r \in Saver, NEW s \in Saver
    PROVE  /\ ~Earlier(s, s)
           /\ GroupOf(r) = GroupOf(s) /\ r # s => Earlier(r, s) \/ Earlier(s, r)
           /\ Earlier(r, s) => ~Earlier(s, r) /\ GroupOf(r) = GroupOf(s)
           /\ GroupOf(r) = GroupOf(s) => (r \in Capture <=> s \in Capture)
           /\ GroupOf(r) = GroupOf(s) => (InTurn(r) <=> InTurn(s))
BY DEF BoundAssumption, Saver, Capture, Loop, Turn, GroupOf, Earlier, InTurn

\* A saver with its sync still to send is the newest, and those before it
\* have sent theirs.
LEMMA Newest ==
    ASSUME BoundAssumption, Savers, Shown, Turns, NEW s \in Saver, InTurn(s),
           pc[s] \in {"saving", "ended", "asking"}
    PROVE  /\ Turn(s) = Run(s)
           /\ \A r \in Saver : pc[r] # "none" => ~Earlier(s, r)
           /\ \A r \in Saver : Earlier(r, s) => pc[r] \in {"waiting", "told", "done"}
           /\ s \in Capture => \A r \in Saver : Earlier(r, s) => pc[r] = "done"
<1>1. Turn(s) \in Nat /\ Run(s) \in Nat
  BY SaverFacts DEF Shown, Run
<1>2. Turn(s) = Run(s)
  BY <1>1 DEF Turns, Begun, Behind
<1>3. ASSUME NEW r \in Saver, pc[r] # "none", Earlier(s, r) PROVE FALSE
  <2>1. Turn(r) \in Nat /\ Run(r) = Run(s)
    BY <1>3, SaverFacts DEF Earlier, Run
  <2>2. Turn(r) <= Run(s)
    BY <1>3, <2>1 DEF Turns, Begun
  <2> QED
    BY <1>1, <1>2, <1>3, <2>1, <2>2 DEF Earlier
<1>4. ASSUME NEW r \in Saver, Earlier(r, s)
      PROVE  pc[r] \in {"waiting", "told", "done"} /\ (s \in Capture => pc[r] = "done")
  <2>1. Turn(r) < Run(r) /\ InTurn(r) /\ (r \in Capture <=> s \in Capture)
    BY <1>2, <1>4, InOrder DEF Earlier, Run
  <2> QED
    BY <2>1 DEF Turns, Behind
<1> QED
  BY <1>2, <1>3, <1>4

\* An earlier saver of a later one that has begun.
LEMMA Elder ==
    ASSUME BoundAssumption, Savers, Shown, Turns, NEW r \in Saver, NEW s \in Saver,
           Earlier(r, s), InTurn(s), pc[s] # "none"
    PROVE  pc[r] \in {"waiting", "told", "done"} /\ (r \in Capture => pc[r] = "done")
<1>1. Turn(r) \in Nat /\ Turn(s) \in Nat /\ Run(s) \in Nat /\ Run(r) = Run(s) /\ InTurn(r)
  BY SaverFacts, InOrder DEF Shown, Run, Earlier
<1>2. Turn(s) <= Run(s)
  BY DEF Turns, Begun
<1> QED
  BY <1>1, <1>2 DEF Earlier, Turns, Behind

-----------------------------------------------------------------------------
\* Sequences, sets and faults.

LEMMA Appended ==
    ASSUME NEW S, NEW q \in Seq(S), NEW m \in S
    PROVE  /\ Append(q, m) \in Seq(S) /\ Len(q) \in Nat
           /\ DOMAIN q = 1..Len(q) /\ DOMAIN Append(q, m) = 1..(Len(q) + 1)
           /\ Len(Append(q, m)) = Len(q) + 1
           /\ \A i \in DOMAIN q : q[i] \in S /\ Append(q, m)[i] = q[i]
           /\ Append(q, m)[Len(q) + 1] = m
  OBVIOUS

LEMMA Popped ==
    ASSUME NEW S, NEW q \in Seq(S), q # <<>>
    PROVE  /\ Tail(q) \in Seq(S) /\ Head(q) = q[1] /\ q[1] \in S
           /\ Len(q) \in Nat /\ Len(q) > 0 /\ Len(Tail(q)) = Len(q) - 1
           /\ DOMAIN q = 1..Len(q) /\ DOMAIN Tail(q) = 1..(Len(q) - 1)
           /\ \A i \in DOMAIN q : q[i] \in S
           /\ \A i \in DOMAIN Tail(q) : i + 1 \in DOMAIN q /\ Tail(q)[i] = q[i + 1]
  OBVIOUS

\* What the queue and the jobs are made of.
LEMMA Members ==
    ASSUME Types
    PROVE  /\ DOMAIN queue = 1..Len(queue) /\ Len(queue) \in Nat
           /\ DOMAIN jobs = 1..Len(jobs) /\ Len(jobs) \in Nat
           /\ \A i \in DOMAIN queue :
                 /\ queue[i] \in Messages
                 /\ IsFrame(queue[i]) => queue[i].of \in Frame
                 /\ IsSync(queue[i]) => queue[i].of \in Saver
           /\ \A k \in DOMAIN jobs :
                 /\ jobs[k].of \in Saver /\ jobs[k].failed \in BOOLEAN
                 /\ jobs[k].files \subseteq Files /\ jobs[k].done \subseteq Files
<1>1. queue \in Seq(Messages) /\ jobs \in Seq(Job)
  BY DEF Types, Messaged, Jobs
<1>2. \A k \in DOMAIN jobs : jobs[k] \in Job
  BY <1>1
<1>3. \A i \in DOMAIN queue : queue[i] \in Messages
  BY <1>1
<1>4. \A k \in DOMAIN jobs : /\ jobs[k].of \in Saver /\ jobs[k].failed \in BOOLEAN
                             /\ jobs[k].files \subseteq Files /\ jobs[k].done \subseteq Files
  BY <1>2 DEF Job
<1> QED
  BY <1>1, <1>3, <1>4 DEF Messages, IsFrame, IsSync

LEMMA CallsCount ==
    ASSUME BoundAssumption, faults \in Nat, NEW o, IsFiniteSet(DOMAIN o), Calls(o)
    PROVE  faults' \in 0..MaxFaults
<1>1. Cardinality({c \in DOMAIN o : ~o[c]}) \in Nat
  BY FS_Subset, FS_CardinalityType
<1> QED
  BY <1>1 DEF Calls, BoundAssumption

LEMMA FrameFacts ==
    ASSUME BoundAssumption
    PROVE  /\ IsFiniteSet(Frame) /\ Cardinality(Frame) = MaxFrames /\ Frame \subseteq Nat \ {0}
           /\ IsFiniteSet(1..1) /\ IsFiniteSet(1..3)
<1>1. \A n \in Nat : IsFiniteSet(1..n) /\ Cardinality(1..n) = IF 1 > n THEN 0 ELSE n - 1 + 1
  BY FS_Interval
<1>2. MaxFrames \in Nat
  BY BoundAssumption
<1>3. IsFiniteSet(Frame) /\ Cardinality(Frame) = MaxFrames
  BY <1>1, <1>2 DEF Frame
<1>4. Frame \subseteq Nat \ {0}
  BY <1>2 DEF Frame
<1>5. IsFiniteSet(1..1) /\ IsFiniteSet(1..3)
  BY <1>1
<1> QED
  BY <1>3, <1>4, <1>5

-----------------------------------------------------------------------------
\* A saver moves on, and nothing but a message about the container may enter
\* the queue: what the writer, the sync thread and the accounts hold stays.

Longer ==
    /\ \A i \in DOMAIN queue : i \in DOMAIN queue' /\ queue'[i] = queue[i]
    /\ \A i \in DOMAIN queue' : i \notin DOMAIN queue => ~IsFrame(queue'[i]) /\ ~IsSync(queue'[i])

Moves(s, place) ==
    /\ pc' = [pc EXCEPT ![s] = place] /\ place \notin {"none", "waiting"}
    /\ pc[s] \in {"waiting", "told", "done"} => place \in {"told", "done"}
    /\ verdict' = verdict \/ verdict' = [verdict EXCEPT ![s] = "failed"]
    /\ overlap => overlap'

Devices == <<container, sers, pending, jobs, stage, owner, dir, file, unheard>>

LEMMA FramesStay ==
    ASSUME IInv, UNCHANGED Devices, \A s \in Saver : pc[s] # "none" => pc'[s] # "none"
    PROVE  Frames' /\ Containers' /\ Numbered' /\ Grouped' /\ Covered'
<1>1. Dense' /\ Belongs' /\ Filed'
  BY DEF IInv, Devices, Frames, Dense, Belongs, Filed
<1>2. Containers' /\ Grouped' /\ Covered'
  BY DEF IInv, Devices, Containers, Grouped, OfGroup, Covered, Processed
<1>3. Numbered'
  BY DEF IInv, Devices, Numbered, Processed
<1> QED
  BY <1>1, <1>2, <1>3 DEF Frames

LEMMA MoveOrdered ==
    ASSUME BoundAssumption, IInv, NEW s \in Saver, NEW place, Moves(s, place), UNCHANGED Devices, Longer
    PROVE  Ordered'
<1>1. \A r \in Saver : InTurn(r)' => InTurn(r)
  BY DEF Moves, InTurn
<1>2. \A r \in Saver :
        /\ pc[r] \in {"waiting", "told", "done"} => pc'[r] \in {"waiting", "told", "done"}
        /\ pc'[r] = "waiting" => pc[r] = "waiting"
        /\ verdict'[r] \in {"idle", "synced"} => verdict'[r] = verdict[r]
  BY DEF Moves, IInv, Types, Savers
<1>4. \A i \in DOMAIN queue' : IsFrame(queue'[i]) \/ IsSync(queue'[i]) => i \in DOMAIN queue /\ queue'[i] = queue[i]
  BY DEF Longer
<1>5. \A i \in DOMAIN queue : IsSync(queue[i]) => queue[i].of \in Saver
  BY Members DEF IInv
<1>6. \A k \in DOMAIN jobs : jobs[k].of \in Saver
  BY Members DEF IInv
<1>7. \A a, b \in Saver : Earlier(a, b)' <=> Earlier(a, b)
  BY DEF Earlier
<1>8. QueuedOnce'
  BY <1>4 DEF IInv, Ordered, QueuedOnce, Devices, Longer
<1>9. SyncSent' /\ JobSent'
  BY <1>2, <1>4, <1>5, <1>6 DEF IInv, Ordered, SyncSent, JobSent, Devices
<1>10. Line'
  BY <1>1, <1>4, <1>5 DEF IInv, Ordered, Line, Devices, Earlier
<1>11. SyncLine'
  BY <1>1, <1>4, <1>5 DEF IInv, Ordered, SyncLine, Earlier
<1>12. Held'
  BY <1>1, <1>4, <1>5 DEF IInv, Ordered, Held, Devices, Earlier
<1>13. JobLine'
  BY <1>1, <1>4, <1>5, <1>6 DEF IInv, Ordered, JobLine, Devices, Earlier
<1>14. Awaited'
  BY <1>2 DEF IInv, Ordered, Awaited, Devices, Longer
<1>15. JobOwn'
  BY <1>1, <1>2, <1>6 DEF IInv, Ordered, JobOwn, Devices, Earlier
<1>16. AnsweredInTurn'
  BY <1>1, <1>2, <1>7 DEF IInv, Ordered, AnsweredInTurn
<1> QED
  BY <1>8, <1>9, <1>10, <1>11, <1>12, <1>13, <1>14, <1>15, <1>16 DEF Ordered

LEMMA MoveAccount ==
    ASSUME BoundAssumption, IInv, NEW s \in Saver, NEW place, Moves(s, place), UNCHANGED Devices, Longer
    PROVE  Account'
<1>1. \A r \in Saver : InTurn(r)' => InTurn(r)
  BY DEF Moves, InTurn
<1>2. \A k \in DOMAIN jobs : jobs[k].of \in Saver
  BY Members DEF IInv
<1>3. \A f \in Frame : Missed(f)' <=> Missed(f)
  BY DEF Missed, Devices
<1>4. AccountOpen'
  <2>1. ASSUME NEW r \in Saver, InTurn(r)', Untaken(r)' PROVE KeptFor(r)'
    <3>1. CASE Untaken(r)
      <4>1. KeptFor(r)
        BY <1>1, <2>1, <3>1 DEF IInv, Account, AccountOpen
      <4> QED
        BY <4>1, <1>3 DEF KeptFor, Devices
    <3>2. CASE ~Untaken(r)
      <4>1. r = s /\ pc[s] = "none"
        BY <2>1, <3>2 DEF Untaken, Moves, Longer, IInv, Types, Savers
      <4>2. \A f \in Frame : owner[f] # r
        BY <4>1 DEF IInv, Frames, Belongs
      <4> QED
        BY <4>2 DEF KeptFor, Devices
    <3> QED
      BY <3>1, <3>2
  <2> QED
    BY <2>1 DEF AccountOpen
<1>5. AccountInJob'
  <2>1. ASSUME NEW k \in DOMAIN jobs, InTurn(jobs[k].of)' PROVE InJob(k)'
    <3>1. InJob(k)
      BY <2>1 DEF Devices, Moves, InTurn, IInv, Account, AccountInJob
    <3> QED
      BY <3>1, <1>3 DEF InJob, Devices
  <2> QED
    BY <2>1 DEF AccountInJob, Devices, InTurn
<1>6. AccountTold'
  BY <1>1, <1>3 DEF IInv, Types, Savers, Moves, Account, AccountTold, Devices
<1> QED
  BY <1>4, <1>5, <1>6 DEF Account

LEMMA MoveStep ==
    ASSUME BoundAssumption, IInv, NEW s \in Saver, NEW place, Moves(s, place), UNCHANGED Devices, Longer,
           Types', Turns'
    PROVE  IInv'
<1>1. \A r \in Saver : pc[r] # "none" => pc'[r] # "none"
  BY DEF Moves, IInv, Types, Savers
<1>4. Frames' /\ Containers' /\ Numbered' /\ Grouped' /\ Covered'
  BY <1>1, FramesStay
<1>2. Ordered'
  BY MoveOrdered
<1>3. Account'
  BY MoveAccount
<1> QED
  BY <1>2, <1>3, <1>4 DEF IInv

LEMMA AskSyncStep == ASSUME BoundAssumption, IInv, NEW s \in Saver, AskSync(s) PROVE IInv'
<1>1. Moves(s, "asking") /\ UNCHANGED Devices /\ Longer
  BY DEF AskSync, Goto, Moves, Devices, Longer
<1>2. Run(s) \in Nat /\ Savers /\ Shown /\ Turns /\ GroupOf(s) \in Group
  BY SaverFacts DEF IInv, Types, Shown, Run
<1>3. Types'
  <2>1. Savers'
    BY <1>2 DEF AskSync, Goto, Run, Savers, Shown
  <2>2. Shown'
    BY <1>2 DEF AskSync, Shown
  <2>3. Sessions' /\ Messaged' /\ Device' /\ Jobs' /\ Kept'
    BY DEF AskSync, IInv, Types, Sessions, Messaged, Device, Jobs, Kept, sessionVars, workerVars, frameVars
  <2> QED
    BY <2>1, <2>2, <2>3 DEF Types
<1>4. InTurn(s) => Turn(s) = Run(s)
  BY <1>2, Newest DEF AskSync
<1>5. Begun' /\ Concluded' /\ Counted'
  <2>1. Run(s) # 0
    BY <1>2, SaverFacts DEF AskSync, Turns, Begun
  <2>2. Begun' /\ Concluded'
    BY <1>2 DEF AskSync, Goto, Savers, Shown, Run, Turns, Begun, Concluded
  <2>3. Counted'
    BY <1>2, <2>1 DEF AskSync, Shown, Run, Turns, Counted
  <2> QED
    BY <2>2, <2>3
<1>6. Behind'
  BY <1>2, <1>4 DEF AskSync, Goto, Savers, Shown, Run, Turns, Behind, InTurn
<1>7. AskedInTurn'
  BY <1>2, <1>4 DEF AskSync, Goto, Savers, Run, Turns, AskedInTurn, InTurn
<1>8. Screen'
  <2>1. ASSUME NEW r \in Saver, InTurn(r)', (Turn(r) = Run(r))', r # s, GroupOf(r) = GroupOf(s)
        PROVE  FALSE
    <3>1. InTurn(s) /\ Run(r)' = Run(s) /\ Turn(r) = Turn(s)
      BY <1>2, <1>4, <2>1, InOrder DEF AskSync, InTurn, Run, Shown
    <3> QED
      BY <2>1, <3>1, InOrder, SaverFacts DEF Earlier
  <2>2. ASSUME NEW r \in Saver, InTurn(r), GroupOf(r) # GroupOf(s)
        PROVE  Run(r)' = Run(r) /\ pc'[r] = pc[r] /\ entry'[GroupOf(r)] = entry[GroupOf(r)]
    BY <1>2, <2>2, SaverFacts DEF AskSync, Goto, Run, Shown, Savers
  <2> QED
    BY <1>2, <2>1, <2>2 DEF AskSync, Goto, Savers, Shown, Turns, Screen, InTurn
<1> QED
  BY <1>1, <1>3, <1>5, <1>6, <1>7, <1>8, MoveStep DEF Turns

\* A saver goes on from one place to the next, of which the status says the same.
Onward == {<<"saving", "ended">>, <<"asking", "waiting">>, <<"asking", "told">>, <<"waiting", "told">>}

LEMMA SameTurns ==
    ASSUME BoundAssumption, IInv, NEW s \in Saver, NEW place, Savers',
           UNCHANGED <<entry, asked, overlap>>,
           pc' = [pc EXCEPT ![s] = place], <<pc[s], place>> \in Onward,
           place = "ended" => s \in Capture,
           \A r \in Saver : r # s => verdict'[r] = verdict[r],
           IF place = "told" THEN verdict'[s] # "none" ELSE verdict'[s] = verdict[s]
    PROVE  Turns'
<1>1. Savers /\ Turns
  BY DEF IInv, Types
<1>2. \A r \in Saver : r # s => pc'[r] = pc[r] /\ verdict'[r] = verdict[r]
  BY <1>1 DEF Savers
<1>3. pc'[s] = place
  BY <1>1 DEF Savers
<1>9. /\ pc[s] \notin {"none", "told", "done"} /\ pc'[s] \notin {"none", "done"}
      /\ pc[s] = "saving" <=> pc'[s] = "ended"
      /\ pc[s] # "saving" => pc[s] # "ended" /\ pc'[s] \in {"waiting", "told"} /\ pc'[s] # "saving"
  BY <1>3 DEF Onward
<1>4. Begun' /\ Counted'
  BY <1>1, <1>2, <1>9 DEF Turns, Begun, Counted, Run
<1>5. Behind'
  BY <1>1, <1>2, <1>9 DEF Turns, Behind, Run, InTurn
<1>6. AskedInTurn'
  BY <1>1, <1>2, <1>9 DEF Savers, Turns, AskedInTurn, InTurn
<1>7. Screen'
  BY <1>1, <1>2, <1>9 DEF Savers, Turns, Screen, Run, InTurn
<1>8. Concluded'
  BY <1>1, <1>2, <1>3, <1>9 DEF Savers, Turns, Concluded
<1> QED
  BY <1>4, <1>5, <1>6, <1>7, <1>8 DEF Turns

LEMMA GiveUpOnAnswerStep == ASSUME BoundAssumption, IInv, NEW s \in Saver, GiveUpOnAnswer(s) PROVE IInv'
<1>1. Moves(s, "told") /\ UNCHANGED Devices /\ Longer
  BY DEF GiveUpOnAnswer, Conclude, Goto, Moves, Devices, Longer
<1>2. Types'
  BY DEF GiveUpOnAnswer, Conclude, Goto, IInv, Types, Savers, Sessions, Messaged, Device, Jobs, Kept, Shown
<1>3. Turns'
  <2>1. \A r \in Saver : r # s => verdict'[r] = verdict[r]
    BY DEF GiveUpOnAnswer, Conclude, IInv, Types, Savers
  <2>2. verdict'[s] = "failed"
    BY DEF GiveUpOnAnswer, Conclude, IInv, Types, Savers
  <2>3. <<pc[s], "told">> \in Onward /\ pc' = [pc EXCEPT ![s] = "told"] /\ UNCHANGED <<entry, asked, overlap>>
    BY DEF GiveUpOnAnswer, Conclude, Goto, Onward
  <2> QED
    BY <1>2, <2>1, <2>2, <2>3, SameTurns DEF Types
<1> QED
  BY <1>1, <1>2, <1>3, MoveStep

LEMMA AnnounceStep == ASSUME BoundAssumption, IInv, NEW s \in Saver, Announce(s) PROVE IInv'
<1>1. Moves(s, "done") /\ UNCHANGED Devices /\ Longer
  BY DEF Announce, Goto, Moves, Devices, Longer
<1>2. Run(s) \in Nat /\ Savers /\ Shown /\ Turns /\ GroupOf(s) \in Group
  BY SaverFacts DEF IInv, Types, Shown, Run
<1>3. verdict[s] \in {"idle", "synced", "failed"}
  BY <1>2 DEF Announce, Savers, Turns, Concluded
<1>4. Types'
  <2>1. Savers'
    BY <1>2 DEF Announce, Goto, Savers
  <2>2. Shown'
    BY <1>2, <1>3 DEF Announce, Shown
  <2>3. Sessions' /\ Messaged' /\ Device' /\ Jobs' /\ Kept'
    BY DEF Announce, IInv, Types, Sessions, Messaged, Device, Jobs, Kept, sessionVars, workerVars, frameVars
  <2> QED
    BY <2>1, <2>2, <2>3 DEF Types
<1>5. \A r \in Saver : Run(r)' = Run(r)
  BY <1>2, SaverFacts DEF Announce, Run, Shown
<1>6. Run(s) # 0
  BY <1>2, SaverFacts DEF Announce, Turns, Begun
<1>7. Begun' /\ Concluded' /\ Counted'
  <2>1. Begun' /\ Concluded'
    BY <1>2, <1>5 DEF Announce, Goto, Savers, Turns, Begun, Concluded
  <2>2. Counted'
    BY <1>2, <1>6 DEF Announce, Goto, Shown, Run, Turns, Counted
  <2> QED
    BY <2>1, <2>2
<1>8. Behind'
  <2>1. s \in Capture /\ InTurn(s) /\ Turn(s) < Run(s) => pc[s] = "done"
    BY <1>2 DEF Turns, Behind
  <2> QED
    BY <1>2, <1>5 DEF Announce, Goto, Savers, Turns, Behind, InTurn
<1>9. AskedInTurn'
  BY <1>2 DEF Announce, Goto, Savers, Turns, AskedInTurn, InTurn
<1>10. Screen'
  <2>1. InTurn(s) => asked[s] = Turn(s)
    BY <1>2 DEF Announce, Turns, AskedInTurn
  <2>2. ASSUME NEW r \in Saver, r # s, InTurn(r), Turn(r) = Run(r)
        PROVE  entry'[GroupOf(r)] = entry[GroupOf(r)] /\ pc'[r] = pc[r]
    <3>1. CASE GroupOf(r) = GroupOf(s)
      <4>1. Turn(r) # Turn(s) /\ InTurn(s) /\ Run(s) = Run(r)
        BY <2>2, <3>1, InOrder, SaverFacts DEF Earlier, Run
      <4> QED
        BY <1>2, <2>1, <2>2, <4>1 DEF Announce, Goto, Run, Savers
    <3>2. CASE GroupOf(r) # GroupOf(s)
      BY <1>2, <2>2, <3>2, SaverFacts DEF Announce, Goto, Shown, Savers
    <3> QED
      BY <3>1, <3>2
  <2>3. InTurn(s) /\ Turn(s) = Run(s) => entry'[GroupOf(s)].state = verdict[s] /\ pc'[s] = "done"
    BY <1>2, <2>1 DEF Announce, Goto, Run, Shown, Savers
  <2>4. SUFFICES ASSUME NEW r \in Saver, InTurn(r)', Turn(r) = Run(r)'
                 PROVE  /\ pc'[r] \in {"saving", "ended"} => entry'[GroupOf(r)].state = "idle"
                        /\ pc'[r] \in {"asking", "waiting", "told"} => entry'[GroupOf(r)].state = "syncing"
                        /\ pc'[r] = "done" => entry'[GroupOf(r)].state = verdict'[r]
    BY DEF Screen
  <2>5. InTurn(r) /\ Turn(r) = Run(r) /\ verdict' = verdict
    BY <1>5, <2>4 DEF Announce, InTurn
  <2>6. CASE r = s
    BY <2>3, <2>5, <2>6
  <2>7. CASE r # s
    <3>1. entry'[GroupOf(r)] = entry[GroupOf(r)] /\ pc'[r] = pc[r]
      BY <2>2, <2>5, <2>7
    <3> QED
      BY <1>2, <2>5, <3>1 DEF Turns, Screen
  <2> QED
    BY <2>6, <2>7
<1> QED
  BY <1>1, <1>4, <1>7, <1>8, <1>9, <1>10, MoveStep DEF Turns

LEMMA TellLonger ==
    ASSUME BoundAssumption, Types, NEW m \in Messages, ~IsFrame(m), ~IsSync(m), Tell(m)
    PROVE  Messaged' /\ Longer
<1>1. CASE Send(m)
  <2>1. queue \in Seq(Messages) /\ queue' = Append(queue, m) /\ Len(queue) < MaxQueue /\ MaxQueue \in Nat
    BY <1>1, BoundAssumption DEF Types, Messaged, Send, Full
  <2> QED
    BY <2>1, Appended DEF Messaged, Longer
<1>2. CASE GiveUp
  BY <1>2 DEF GiveUp, Types, Messaged, Longer
<1> QED
  BY <1>1, <1>2 DEF Tell

LEMMA FinishContainerStep == ASSUME BoundAssumption, IInv, NEW s \in Saver, FinishContainer(s) PROVE IInv'
<1>1. Messaged' /\ Longer
  <2>1. CASE session = NoSession
    BY <2>1 DEF FinishContainer, IInv, Types, Messaged, Longer
  <2>2. CASE session # NoSession
    <3>1. [kind |-> "finish", of |-> 0] \in Messages
      BY DEF Messages
    <3> QED
      BY <2>2, <3>1, TellLonger DEF FinishContainer, IInv, IsFrame, IsSync
  <2> QED
    BY <2>1, <2>2
<1>2. Moves(s, "saving") /\ UNCHANGED Devices
  BY DEF FinishContainer, Moves, Devices, IInv, Types, Savers
<1>3. Types'
  BY <1>1 DEF FinishContainer, IInv, Types, Savers, Sessions, Device, Jobs, Kept, Shown
<1>4. Turns'
  BY DEF FinishContainer, IInv, Turns, Begun, Behind, AskedInTurn, Screen, Concluded, Counted, Run, InTurn
<1> QED
  BY <1>1, <1>2, <1>3, <1>4, MoveStep

LEMMA EndSessionStep == ASSUME BoundAssumption, IInv, NEW s \in Saver, EndSession(s) PROVE IInv'
<1>1. Messaged' /\ Longer
  <2>1. CASE session = NoSession
    BY <2>1 DEF EndSession, IInv, Types, Messaged, Longer
  <2>2. CASE session # NoSession
    <3>1. [kind |-> "end", of |-> 0] \in Messages
      BY DEF Messages
    <3> QED
      BY <2>2, <3>1, TellLonger DEF EndSession, IInv, IsFrame, IsSync
  <2> QED
    BY <2>1, <2>2
<1>2. Moves(s, "ended") /\ UNCHANGED Devices
  BY DEF EndSession, Goto, Moves, Devices
<1>3. Types'
  BY <1>1 DEF EndSession, Goto, IInv, Types, Savers, Sessions, Device, Jobs, Kept, Shown
<1>4. Turns'
  <2>1. <<pc[s], "ended">> \in Onward /\ s \in Capture /\ pc' = [pc EXCEPT ![s] = "ended"]
    BY DEF EndSession, Goto, Onward
  <2>2. UNCHANGED <<entry, asked, overlap, verdict>>
    BY DEF EndSession
  <2> QED
    BY <1>3, <2>1, <2>2, SameTurns DEF Types
<1> QED
  BY <1>1, <1>2, <1>3, <1>4, MoveStep

\* What no invariant but the types reads.
LEMMA StillStep ==
    ASSUME BoundAssumption, IInv, Types', UNCHANGED <<pc, queue, Devices, entry, asked, verdict, overlap>>
    PROVE  IInv'
<1>1. Turns'
  BY DEF IInv, Turns, Begun, Behind, AskedInTurn, Screen, Concluded, Counted, Run, InTurn
<1>2. Frames' /\ Containers' /\ Numbered' /\ Grouped' /\ Covered'
  BY DEF IInv, Devices, Frames, Dense, Belongs, Filed, Containers, Numbered, Grouped, OfGroup,
         Covered, Processed
<1>3. Ordered'
  BY DEF IInv, Devices, Ordered, QueuedOnce, SyncSent, Line, SyncLine, Held, JobSent, JobLine,
         Awaited, JobOwn, AnsweredInTurn, InTurn, Earlier
<1>4. Account'
  BY DEF IInv, Devices, Account, AccountOpen, AccountInJob, AccountTold, Untaken, KeptFor, InJob,
         Missed, InTurn
<1> QED
  BY <1>1, <1>2, <1>3, <1>4 DEF IInv

LEMMA FreshFacts == ASSUME NEW films, NEW d \in Fresh(films) PROVE d \in Session /\ d \notin issued
BY DEF Fresh

LEMMA UpdateSettingsStep ==
    ASSUME BoundAssumption, IInv, NEW films \in BOOLEAN, NEW saves \in BOOLEAN, UpdateSettings(films, saves)
    PROVE  IInv'
<1>1. PICK d \in Session \cup {NoSession} : Open(d)
  BY FreshFacts DEF UpdateSettings, IInv, Types, Sessions
<1>2. Types'
  BY <1>1 DEF UpdateSettings, Open, IInv, Types, Savers, Sessions, Messaged, Device, Jobs, Kept, Shown
<1> QED
  BY <1>2, StillStep DEF UpdateSettings, Devices

LEMMA HangStep == ASSUME BoundAssumption, IInv, NEW t \in {"writer", "syncer"}, Hang(t) \/ Recover(t) PROVE IInv'
<1>1. Types'
  <2>1. Sessions'
    <3>1. faults \in Nat /\ faults <= MaxFaults /\ MaxFaults \in Nat
      BY BoundAssumption DEF IInv, Types, Sessions
    <3>2. CASE Hang(t)
      BY <3>1, <3>2 DEF Hang, IInv, Types, Sessions
    <3>3. CASE Recover(t)
      BY <3>3 DEF Recover, IInv, Types, Sessions
    <3> QED
      BY <3>2, <3>3
  <2> QED
    BY <2>1 DEF Hang, Recover, IInv, Types, Savers, Messaged, Device, Jobs, Kept, Shown
<1> QED
  BY <1>1, StillStep DEF Hang, Recover, Devices

LEMMA StutterStep == ASSUME BoundAssumption, IInv, UNCHANGED vars PROVE IInv'
<1>1. Types'
  BY DEF vars, IInv, Types, Savers, Sessions, Messaged, Device, Jobs, Kept, Shown
<1> QED
  BY <1>1, StillStep DEF vars, Devices

-----------------------------------------------------------------------------
\* A saver begins.

LEMMA StartTurns ==
    ASSUME BoundAssumption, IInv, NEW s \in Saver, pc[s] = "none", Reset(s), pc' = [pc EXCEPT ![s] = "saving"],
           overlap => overlap', Turn(s) = Run(s) + 1,
           \A r \in Saver : Earlier(r, s) /\ InTurn(s)' =>
               pc[r] \in {"waiting", "told", "done"} /\ (r \in Capture => pc[r] = "done")
    PROVE  Turns' /\ Shown'
<1>1. Run(s) \in Nat /\ Savers /\ Shown /\ Turns /\ GroupOf(s) \in Group
  BY SaverFacts DEF IInv, Types, Shown, Run
<1>2. entry' = [entry EXCEPT ![GroupOf(s)] = [state |-> "idle", run |-> Turn(s)]]
      /\ asked' = asked /\ verdict' = verdict
  BY DEF Reset, Run
<1>3. Shown'
  BY <1>1, <1>2, SaverFacts DEF Shown
<1>4. \A r \in Saver : r # s => pc'[r] = pc[r]
  BY <1>1 DEF Savers
<1>5. pc'[s] = "saving" /\ Run(s)' = Turn(s) /\ entry'[GroupOf(s)].state = "idle"
  BY <1>1, <1>2 DEF Savers, Run, Shown
<1>6. ASSUME NEW r \in Saver, r # s, GroupOf(r) = GroupOf(s)
      PROVE  /\ Run(r)' = Turn(s) /\ Run(r) = Turn(s) - 1 /\ Turn(r) # Turn(s) /\ Turn(r) \in Nat
             /\ Turn(r) < Turn(s) => Earlier(r, s)
  BY <1>1, <1>2, <1>6, SaverFacts, InOrder DEF Run, Shown, Earlier
<1>7. ASSUME NEW r \in Saver, GroupOf(r) # GroupOf(s)
      PROVE  Run(r)' = Run(r) /\ entry'[GroupOf(r)] = entry[GroupOf(r)] /\ r # s
  BY <1>1, <1>2, <1>7, SaverFacts DEF Run, Shown
<1>8. \A r \in Saver : InTurn(r)' => InTurn(r)
  BY DEF InTurn
<1>9. Begun'
  <2>1. ASSUME NEW r \in Saver PROVE pc'[r] # "none" <=> Turn(r) <= Run(r)'
    <3>1. CASE r = s
      BY <1>5, <3>1, SaverFacts
    <3>2. CASE r # s /\ GroupOf(r) = GroupOf(s)
      <4>1. pc[r] # "none" <=> Turn(r) <= Run(r)
        BY <1>1 DEF Turns, Begun
      <4> QED
        BY <1>1, <1>4, <1>6, <3>2, <4>1, SaverFacts
    <3>3. CASE GroupOf(r) # GroupOf(s)
      BY <1>1, <1>4, <1>7, <3>3 DEF Turns, Begun
    <3> QED
      BY <3>1, <3>2, <3>3
  <2> QED
    BY <2>1 DEF Begun
<1>10. Behind'
  <2>1. ASSUME NEW r \in Saver, InTurn(r)', Turn(r) < Run(r)'
        PROVE  pc'[r] \in {"waiting", "told", "done"} /\ (r \in Capture => pc'[r] = "done")
    <3>1. CASE r = s
      BY <1>5, <2>1, <3>1, SaverFacts
    <3>2. CASE r # s /\ GroupOf(r) = GroupOf(s)
      <4>1. Earlier(r, s) /\ InTurn(s)'
        BY <1>6, <2>1, <3>2, InOrder, SaverFacts DEF InTurn
      <4> QED
        BY <1>4, <3>2, <4>1
    <3>3. CASE GroupOf(r) # GroupOf(s)
      BY <1>1, <1>4, <1>7, <1>8, <2>1, <3>3 DEF Turns, Behind
    <3> QED
      BY <3>1, <3>2, <3>3
  <2> QED
    BY <2>1 DEF Behind
<1>11. AskedInTurn' /\ Concluded'
  BY <1>1, <1>2, <1>4, <1>5, <1>8 DEF Turns, AskedInTurn, Concluded, Savers
<1>12. Screen'
  <2>1. ASSUME NEW r \in Saver, r # s, InTurn(r)', Turn(r) = Run(r)'
        PROVE  entry'[GroupOf(r)] = entry[GroupOf(r)] /\ pc'[r] = pc[r] /\ Turn(r) = Run(r) /\ InTurn(r)
    BY <1>4, <1>6, <1>7, <1>8, <2>1
  <2> QED
    BY <1>1, <1>2, <1>5, <2>1 DEF Turns, Screen
<1>13. Counted'
  <2>1. Turn(s) # 0 /\ (s \in Capture => Turn(s) <= MaxCaptures /\ GroupOf(s) = "Shared")
                    /\ (s \notin Capture => Turn(s) <= MaxLoops /\ GroupOf(s) = "Owned")
    BY SaverFacts
  <2> QED
    BY <1>1, <1>2, <2>1 DEF Turns, Counted, Shown
<1> QED
  BY <1>3, <1>9, <1>10, <1>11, <1>12, <1>13 DEF Turns

LEMMA StartCaptureStep == ASSUME BoundAssumption, IInv, NEW s \in Saver, StartCapture(s) PROVE IInv'
<1>1. s \in Capture /\ pc[s] = "none" /\ \A r \in 1..(s - 1) : pc[r] = "done"
  BY DEF StartCapture
<1>2. s \in Nat /\ s > 0 /\ Turn(s) = s /\ Run(s) \in Nat /\ GroupOf(s) = "Shared"
  BY <1>1, SaverFacts DEF IInv, Types, Shown, Run
<1>3. Turn(s) = Run(s) + 1
  <2>1. ~(s <= Run(s))
    BY <1>1, <1>2 DEF IInv, Turns, Begun
  <2>2. s - 1 <= Run(s)
    <3>1. CASE s = 1
      BY <1>2, <3>1
    <3>2. CASE s # 1
      <4>1. s - 1 \in Capture /\ pc[s - 1] = "done"
        BY <1>1, <1>2, <3>2 DEF Capture
      <4>2. Turn(s - 1) <= Run(s - 1) /\ s - 1 \in Saver
        BY <4>1 DEF IInv, Turns, Begun, Saver
      <4> QED
        BY <1>2, <4>1, <4>2, SaverFacts DEF Run
    <3> QED
      BY <3>1, <3>2
  <2> QED
    BY <1>2, <2>1, <2>2
<1>4. ASSUME NEW r \in Saver, Earlier(r, s) PROVE pc[r] = "done"
  <2>1. r \in Capture /\ r < s
    BY <1>1, <1>4, SaverFacts, InOrder DEF Earlier
  <2> QED
    BY <1>1, <1>2, <2>1 DEF Capture
<1>5. pc' = [pc EXCEPT ![s] = "saving"] /\ Reset(s) /\ overlap' = overlap
  BY DEF StartCapture, Goto
<1>6. Turns' /\ Shown'
  BY <1>1, <1>3, <1>4, <1>5, StartTurns
<1>7. PICK d \in Session \cup {NoSession} : Open(d)
  BY FreshFacts DEF StartCapture, IInv, Types, Sessions
<1>8. Types'
  BY <1>6, <1>7 DEF StartCapture, Goto, Reset, Open, IInv, Types, Savers, Sessions, Messaged, Device, Jobs, Kept
<1>9. Moves(s, "saving") /\ UNCHANGED Devices /\ Longer
  BY <1>1 DEF StartCapture, Goto, Reset, Moves, Devices, Longer
<1> QED
  BY <1>6, <1>8, <1>9, MoveStep

LEMMA StartLoopStep == ASSUME BoundAssumption, IInv, NEW s \in Saver, StartLoop(s) PROVE IInv'
<1>1. s \in Loop /\ pc[s] = "none" /\ \A r \in Loop : r > s => pc[r] # "none"
  BY DEF StartLoop
<1>2. /\ s \in Int /\ s < 0 /\ -s <= MaxLoops /\ MaxLoops \in Nat
      /\ Turn(s) = -s /\ Run(s) \in Nat /\ GroupOf(s) = "Owned" /\ s \notin Capture
  BY <1>1, SaverFacts, BoundAssumption DEF IInv, Types, Shown, Run, Loop
<1>3. Turn(s) = Run(s) + 1
  <2>1. ~(-s <= Run(s))
    BY <1>1, <1>2 DEF IInv, Turns, Begun
  <2>2. -s - 1 <= Run(s)
    <3>1. CASE s = -1
      BY <1>2, <3>1
    <3>2. CASE s # -1
      <4>1. -s - 1 \in 1..MaxLoops /\ s + 1 = -(-s - 1)
        BY <1>2, <3>2
      <4>2. s + 1 \in Loop /\ s + 1 \in Saver /\ pc[s + 1] # "none"
        BY <1>1, <1>2, <4>1 DEF Loop, Saver
      <4>3. Turn(s + 1) <= Run(s + 1) /\ Turn(s + 1) = -(s + 1) /\ GroupOf(s + 1) = "Owned"
        BY <4>2, SaverFacts DEF IInv, Turns, Begun
      <4> QED
        BY <1>2, <4>3 DEF Run
    <3> QED
      BY <3>1, <3>2
  <2> QED
    BY <1>2, <2>1, <2>2
<1>4. ASSUME NEW r \in Saver, Earlier(r, s), InTurn(s)'
      PROVE  pc[r] \in {"waiting", "told", "done"} /\ (r \in Capture => pc[r] = "done")
  <2>1. r \in Loop /\ r > s /\ r \notin Capture
    BY <1>1, <1>2, <1>4, SaverFacts, InOrder DEF Earlier, Loop
  <2>2. pc[r] \notin {"none", "saving", "asking", "ended"}
    BY <1>1, <1>4, <2>1 DEF StartLoop, InTurn, IInv, Turns, Concluded
  <2> QED
    BY <2>1, <2>2 DEF IInv, Types, Savers
<1>5. pc' = [pc EXCEPT ![s] = "saving"] /\ Reset(s) /\ (overlap => overlap')
  BY DEF StartLoop, Goto
<1>6. Turns' /\ Shown'
  BY <1>1, <1>3, <1>4, <1>5, StartTurns
<1>7. Types'
  BY <1>6 DEF StartLoop, Goto, Reset, IInv, Types, Savers, Sessions, Messaged, Device, Jobs, Kept
<1>8. Moves(s, "saving") /\ UNCHANGED Devices /\ Longer
  BY <1>1 DEF StartLoop, Goto, Reset, Moves, Devices, Longer
<1> QED
  BY <1>6, <1>7, <1>8, MoveStep

-----------------------------------------------------------------------------
\* A sync enters the queue: its saver is the newest.

\* What SendSync does when there is room.
Sends(s) ==
    /\ pc[s] = "asking" /\ pc' = [pc EXCEPT ![s] = "waiting"]
    /\ queue' = Append(queue, [kind |-> "sync", of |-> s])
    /\ UNCHANGED Devices /\ UNCHANGED <<verdict, overlap>>

LEMMA SendOrdered == ASSUME BoundAssumption, IInv, NEW s \in Saver, Sends(s) PROVE Ordered'
<1> DEFINE n == Len(queue) + 1
<1>1. /\ DOMAIN queue = 1..Len(queue) /\ Len(queue) \in Nat /\ DOMAIN queue' = 1..n
      /\ \A i \in DOMAIN queue : queue'[i] = queue[i]
      /\ queue'[n] = [kind |-> "sync", of |-> s]
  <2>1. queue \in Seq(Messages) /\ [kind |-> "sync", of |-> s] \in Messages
    BY DEF IInv, Types, Messaged, Messages
  <2> QED
    BY <2>1, Appended DEF Sends
<1>2. n \notin DOMAIN queue /\ n \in DOMAIN queue' /\ \A i \in DOMAIN queue' : i \in DOMAIN queue \/ i = n
  BY <1>1
<1>3. IsSync(queue'[n]) /\ ~IsFrame(queue'[n]) /\ queue'[n].of = s
  BY <1>1 DEF IsSync, IsFrame
<1>4. /\ \A i \in DOMAIN queue : IsSync(queue[i]) => queue[i].of \in Saver
      /\ \A i \in DOMAIN queue : IsFrame(queue[i]) => queue[i].of \in Frame
      /\ \A k \in DOMAIN jobs : jobs[k].of \in Saver
  BY Members DEF IInv
<1>5. /\ \A r \in Saver : r # s => pc'[r] = pc[r]
      /\ pc'[s] = "waiting" /\ pc[s] = "asking"
  BY DEF Sends, IInv, Types, Savers
<1>6. InTurn(s) => \A r \in Saver : pc[r] # "none" => ~Earlier(s, r)
  BY Newest DEF Sends, IInv, Types
<1>7. \A r \in Saver : InTurn(r)' <=> InTurn(r)
  BY DEF Sends, InTurn
<1>8. \A f \in Frame : owner[f] \in Saver => pc[owner[f]] # "none"
  BY DEF IInv, Frames, Belongs
<1>9. \A q, r \in Saver : Earlier(q, r) => (InTurn(q) <=> InTurn(r))
  BY InOrder
<1>10. QueuedOnce'
  BY <1>1, <1>2, <1>3 DEF IInv, Ordered, QueuedOnce, Sends, Devices
<1>11. SyncSent' /\ JobSent'
  BY <1>1, <1>2, <1>3, <1>4, <1>5 DEF IInv, Ordered, SyncSent, JobSent, Sends, Devices
<1>12. Line'
  <2>1. ASSUME NEW i \in DOMAIN queue', NEW j \in DOMAIN queue', IsSync(queue'[i]), IsFrame(queue'[j]), InTurn(queue'[i].of)
        PROVE  /\ i < j => owner[queue'[j].of] # queue'[i].of
               /\ j < i => ~Earlier(queue'[i].of, owner[queue'[j].of])
    <3>1. j \in DOMAIN queue /\ queue'[j] = queue[j]
      BY <1>1, <1>2, <1>3, <2>1
    <3>2. CASE i \in DOMAIN queue
      BY <1>1, <2>1, <3>1, <3>2 DEF IInv, Ordered, Line
    <3>3. CASE i = n
      <4>1. queue[j].of \in Frame /\ stage[queue[j].of] = "queued"
        BY <1>4, <2>1, <3>1 DEF IInv, Ordered, QueuedOnce
      <4>2. owner[queue[j].of] \in Saver
        BY <4>1 DEF IInv, Types, Kept, Frames, Belongs
      <4>3. ~Earlier(s, owner[queue[j].of])
        BY <1>3, <1>6, <1>8, <2>1, <3>3, <4>1, <4>2
      <4> QED
        BY <1>1, <1>3, <3>1, <3>3, <4>3
    <3> QED
      BY <1>2, <3>2, <3>3
  <2> QED
    BY <2>1 DEF Line, Earlier, Sends, Devices, InTurn
<1>13. SyncLine'
  <2>1. ASSUME NEW i \in DOMAIN queue', NEW j \in DOMAIN queue', IsSync(queue'[i]), IsSync(queue'[j]), i < j, InTurn(queue'[i].of)
        PROVE  queue'[i].of # queue'[j].of /\ ~Earlier(queue'[j].of, queue'[i].of)
    <3>1. i \in DOMAIN queue /\ queue'[i] = queue[i]
      BY <1>1, <2>1
    <3>2. CASE j \in DOMAIN queue
      BY <1>1, <2>1, <3>1, <3>2 DEF IInv, Ordered, SyncLine
    <3>3. CASE j = n
      <4>1. queue[i].of \in Saver /\ pc[queue[i].of] \in {"waiting", "told", "done"}
        BY <1>4, <2>1, <3>1 DEF IInv, Ordered, SyncSent
      <4> QED
        BY <1>3, <1>5, <1>6, <1>9, <2>1, <3>1, <3>3, <4>1
    <3> QED
      BY <1>2, <3>2, <3>3
  <2> QED
    BY <2>1 DEF SyncLine, Earlier, Sends, InTurn
<1>14. Held'
  <2>1. ASSUME NEW i \in DOMAIN queue', NEW f \in Frame, IsSync(queue'[i]), InTurn(queue'[i].of), owner[f] \in Saver,
               Earlier(queue'[i].of, owner[f])
        PROVE  stage[f] = "queued"
    <3>1. CASE i \in DOMAIN queue
      BY <1>1, <2>1, <3>1 DEF IInv, Ordered, Held
    <3>2. CASE i = n
      BY <1>3, <1>6, <1>8, <2>1, <3>2
    <3> QED
      BY <1>2, <3>1, <3>2
  <2> QED
    BY <2>1 DEF Held, Earlier, Sends, Devices, InTurn
<1>15. JobLine'
  <2>1. ASSUME NEW k \in DOMAIN jobs, NEW i \in DOMAIN queue', IsSync(queue'[i]), InTurn(jobs[k].of)
        PROVE  jobs[k].of # queue'[i].of /\ ~Earlier(queue'[i].of, jobs[k].of)
    <3>1. CASE i \in DOMAIN queue
      BY <1>1, <2>1, <3>1 DEF IInv, Ordered, JobLine
    <3>2. CASE i = n
      <4>1. jobs[k].of \in Saver /\ pc[jobs[k].of] \in {"waiting", "told", "done"}
        BY <1>4 DEF IInv, Ordered, JobSent
      <4> QED
        BY <1>3, <1>5, <1>6, <1>9, <2>1, <3>2, <4>1
    <3> QED
      BY <1>2, <3>1, <3>2
  <2>2. \A j, k \in DOMAIN jobs : j < k /\ InTurn(jobs[j].of) =>
            jobs[j].of # jobs[k].of /\ ~Earlier(jobs[k].of, jobs[j].of)
    BY DEF IInv, Ordered, JobLine
  <2> QED
    BY <2>1, <2>2 DEF JobLine, Earlier, Sends, Devices, InTurn
<1>16. Awaited'
  BY <1>1, <1>2, <1>3, <1>5 DEF IInv, Ordered, Awaited, Sends, Devices
<1>17. JobOwn'
  <2>1. \A k \in DOMAIN jobs : jobs[k].of \in Saver /\ jobs[k].of # s
    BY <1>4, <1>5 DEF IInv, Ordered, JobSent
  <2> QED
    BY <1>5, <2>1 DEF IInv, Ordered, JobOwn, Earlier, Sends, Devices, InTurn
<1>18. AnsweredInTurn'
  <2>1. ASSUME NEW r \in Saver, Earlier(s, r), InTurn(r), verdict[r] \in {"idle", "synced"} PROVE FALSE
    <3>1. pc[r] # "none"
      BY <2>1 DEF IInv, Turns, Concluded
    <3> QED
      BY <1>6, <1>9, <2>1, <3>1
  <2> QED
    BY <1>5, <2>1 DEF IInv, Ordered, AnsweredInTurn, Earlier, Sends, InTurn
<1> QED
  BY <1>10, <1>11, <1>12, <1>13, <1>14, <1>15, <1>16, <1>17, <1>18 DEF Ordered

LEMMA SendAccount == ASSUME BoundAssumption, IInv, NEW s \in Saver, Sends(s) PROVE Account'
<1>1. /\ DOMAIN queue = 1..Len(queue) /\ Len(queue) \in Nat /\ DOMAIN queue' = 1..(Len(queue) + 1)
      /\ \A i \in DOMAIN queue : queue'[i] = queue[i]
      /\ queue'[Len(queue) + 1].of = s
  <2>1. queue \in Seq(Messages) /\ [kind |-> "sync", of |-> s] \in Messages
    BY DEF IInv, Types, Messaged, Messages
  <2> QED
    BY <2>1, Appended DEF Sends
<1>2. \A i \in DOMAIN queue' : i \in DOMAIN queue \/ queue'[i].of = s
  BY <1>1
<1>3. \A r \in Saver : Untaken(r)' => Untaken(r)
  BY <1>1, <1>2 DEF Untaken, Sends, IInv, Types, Savers
<1>4. \A f \in Frame : Missed(f)' <=> Missed(f)
  BY DEF Missed, Sends, Devices
<1>5. AccountOpen'
  BY <1>3, <1>4 DEF IInv, Account, AccountOpen, KeptFor, Sends, Devices, InTurn
<1>6. AccountInJob'
  BY <1>4 DEF IInv, Account, AccountInJob, InJob, Sends, Devices, InTurn
<1>7. AccountTold'
  BY <1>4 DEF IInv, Account, AccountTold, Sends, Devices, InTurn
<1> QED
  BY <1>5, <1>6, <1>7 DEF Account

LEMMA SendSyncStep == ASSUME BoundAssumption, IInv, NEW s \in Saver, SendSync(s) PROVE IInv'
<1>1. CASE Send([kind |-> "sync", of |-> s]) /\ Goto(s, "waiting") /\ UNCHANGED verdict
  <2>1. Sends(s)
    BY <1>1 DEF SendSync, Send, Goto, Sends, Devices
  <2>2. Messaged'
    <3>1. queue \in Seq(Messages) /\ [kind |-> "sync", of |-> s] \in Messages /\ MaxQueue \in Nat
          /\ queue' = Append(queue, [kind |-> "sync", of |-> s]) /\ Len(queue) < MaxQueue
      BY <1>1, BoundAssumption DEF IInv, Types, Messaged, Messages, Send, Full
    <3> QED
      BY <3>1, Appended DEF Messaged
  <2>3. Types'
    BY <1>1, <2>2 DEF SendSync, Goto, IInv, Types, Savers, Sessions, Device, Jobs, Kept, Shown
  <2>4. Turns'
    <3>1. <<pc[s], "waiting">> \in Onward /\ pc' = [pc EXCEPT ![s] = "waiting"]
          /\ UNCHANGED <<entry, asked, overlap, verdict>>
      BY <1>1 DEF SendSync, Goto, Onward
    <3> QED
      BY <2>3, <3>1, SameTurns DEF Types
  <2>5. \A r \in Saver : pc[r] # "none" => pc'[r] # "none"
    BY <2>1 DEF Sends, IInv, Types, Savers
  <2>6. Frames' /\ Containers' /\ Numbered' /\ Grouped' /\ Covered'
    BY <2>1, <2>5, FramesStay DEF Sends
  <2> QED
    BY <2>1, <2>3, <2>4, <2>6, SendOrdered, SendAccount DEF IInv
<1>2. CASE GiveUp /\ Conclude(s, "failed")
  <2>1. Moves(s, "told") /\ UNCHANGED Devices /\ Longer
    BY <1>2 DEF SendSync, GiveUp, Conclude, Goto, Moves, Devices, Longer
  <2>2. Types'
    BY <1>2 DEF SendSync, GiveUp, Conclude, Goto, IInv, Types, Savers, Sessions, Messaged, Device, Jobs, Kept, Shown
  <2>3. Turns'
    <3>1. \A r \in Saver : r # s => verdict'[r] = verdict[r]
      BY <1>2 DEF Conclude, IInv, Types, Savers
    <3>2. verdict'[s] = "failed"
      BY <1>2 DEF Conclude, IInv, Types, Savers
    <3>3. <<pc[s], "told">> \in Onward /\ pc' = [pc EXCEPT ![s] = "told"] /\ UNCHANGED <<entry, asked, overlap>>
      BY <1>2 DEF SendSync, Conclude, Goto, Onward
    <3> QED
      BY <2>2, <3>1, <3>2, <3>3, SameTurns DEF Types
  <2> QED
    BY <2>1, <2>2, <2>3, MoveStep
<1> QED
  BY <1>1, <1>2 DEF SendSync

-----------------------------------------------------------------------------
\* A frame enters the queue: it is new, and its saver still saves.

\* What Queue does, with f the frame.
Enqueues(f, m, s, d) ==
    /\ f \in Frame /\ owner[f] = NoSaver /\ m.of = f /\ IsFrame(m) /\ m \in Messages
    /\ pc[s] = "saving" /\ d \in Session \cup {NoSession} \cup Loop
    /\ IF s \in Capture THEN d \in Session \cup {NoSession} ELSE d = s
    /\ queue' = Append(queue, m) /\ Len(queue) < MaxQueue
    /\ owner' = [owner EXCEPT ![f] = s]
    /\ dir' = [dir EXCEPT ![f] = d]
    /\ stage' = [stage EXCEPT ![f] = "queued"]
    /\ UNCHANGED <<file, pc, container, sers, pending, jobs, entry, asked, verdict, overlap, unheard>>

LEMMA QueueNext ==
    ASSUME BoundAssumption, IInv, NEW kind \in {"raw", "stack"}, NEW s \in Saver, NEW d, Queue(kind, s, d)
    PROVE  LET f == Cardinality({x \in Frame : owner[x] # NoSaver}) + 1
           IN  f \in Frame /\ owner[f] = NoSaver /\ Dense'
<1> DEFINE f == Cardinality({x \in Frame : owner[x] # NoSaver}) + 1
<1>1. PICK n \in 0..MaxFrames : \A x \in Frame : owner[x] # NoSaver <=> x <= n
  BY DEF IInv, Frames, Dense
<1>2. n \in Nat /\ n <= MaxFrames /\ MaxFrames \in Nat
  BY BoundAssumption
<1>3. {x \in Frame : owner[x] # NoSaver} = 1..n
  BY <1>1, <1>2 DEF Frame
<1>4. Cardinality(1..n) = n
  BY <1>2, FS_Interval
<1>5. f = n + 1 /\ f \in Frame
  BY <1>3, <1>4 DEF Queue
<1>6. owner[f] = NoSaver
  BY <1>1, <1>2, <1>5
<1>7. owner' = [owner EXCEPT ![f] = s] /\ s # NoSaver /\ f <= MaxFrames
  BY <1>2, <1>5, SaverFacts DEF Queue, Frame
<1>8. \A x \in Frame : owner'[x] # NoSaver <=> x <= n + 1
  BY <1>1, <1>2, <1>5, <1>7 DEF IInv, Types, Kept, Frame
<1>9. Dense'
  BY <1>2, <1>5, <1>7, <1>8 DEF Dense
<1> QED
  BY <1>5, <1>6, <1>9

LEMMA EnqueueFrames ==
    ASSUME BoundAssumption, IInv, NEW f, NEW m, NEW s \in Saver, NEW d, Enqueues(f, m, s, d)
    PROVE  Belongs' /\ Filed' /\ Containers' /\ Numbered' /\ Grouped' /\ Covered'
<1>1. f \in Frame /\ stage[f] = "none" /\ file[f] = NoFile /\ s # NoSaver
  BY SaverFacts DEF Enqueues, IInv, Frames, Belongs, Filed
<1>2. /\ \A x \in Frame : x # f => stage'[x] = stage[x] /\ owner'[x] = owner[x] /\ dir'[x] = dir[x]
      /\ stage'[f] = "queued" /\ owner'[f] = s /\ dir'[f] = d /\ file' = file
  BY <1>1 DEF Enqueues, IInv, Types, Kept
<1>3. Belongs'
  BY <1>1, <1>2, SaverFacts DEF Enqueues, IInv, Frames, Belongs
<1>4. Filed'
  <2>1. container' = container /\ sers' = sers
    BY DEF Enqueues
  <2>2. ASSUME NEW x \in Frame
        PROVE  /\ stage'[x] \in {"none", "queued"} => file'[x] = NoFile
               /\ stage'[x] \in {"buffered", "written", "synced", "durable"} => file'[x] # NoFile
               /\ \/ file'[x] \in {NoFile, <<0, x>>}
                  \/ file'[x] \in sers' /\ file'[x][1] = dir'[x] /\ owner'[x] \in Capture
               /\ stage'[x] = "buffered" => file'[x] = container' /\ container' # NoContainer
               /\ stage'[x] # "lost"
    <3>1. CASE x = f
      BY <1>1, <1>2, <3>1
    <3>2. CASE x # f
      BY <1>2, <2>1, <3>2 DEF IInv, Frames, Filed
    <3> QED
      BY <3>1, <3>2
  <2> QED
    BY <2>2 DEF Filed
<1>5. Processed' = Processed /\ f \notin Processed
  BY <1>1, <1>2 DEF Processed
<1>6. Containers' /\ Numbered'
  BY <1>5 DEF Enqueues, IInv, Containers, Numbered
<1>7. \A p \in Files, g \in Group : OfGroup(p, g) => OfGroup(p, g)'
  BY <1>2, <1>5 DEF OfGroup, Enqueues, Processed
<1>8. /\ \A g \in Group : pending[g].files \subseteq Files
      /\ \A k \in DOMAIN jobs : jobs[k].of \in Saver /\ jobs[k].files \cup jobs[k].done \subseteq Files
                                /\ GroupOf(jobs[k].of) \in Group
  BY Members, SaverFacts DEF IInv, Types, Device
<1>9. Grouped'
  BY <1>7, <1>8 DEF IInv, Grouped, Enqueues
<1>10. Covered'
  BY <1>1, <1>2 DEF IInv, Covered, Enqueues
<1> QED
  BY <1>3, <1>4, <1>6, <1>9, <1>10

LEMMA NotFiled == ASSUME BoundAssumption, IInv
                  PROVE  /\ \A k \in DOMAIN jobs : NoFile \notin jobs[k].files \cup jobs[k].done
                         /\ \A g \in Group : NoFile \notin pending[g].files
<1>1. \A g : ~OfGroup(NoFile, g)
  <2>1. NoFile[1] = 0 /\ NoFile[2] = 0 /\ 0 \notin Frame /\ 0 \notin SerSession
    BY FrameFacts, BoundAssumption
  <2> QED
    BY <2>1 DEF OfGroup, Processed, IInv, Containers
<1> QED
  BY <1>1 DEF IInv, Grouped

LEMMA EnqueueOrdered ==
    ASSUME BoundAssumption, IInv, NEW f, NEW m, NEW s \in Saver, NEW d, Enqueues(f, m, s, d)
    PROVE  Ordered'
<1> DEFINE n == Len(queue) + 1
<1>1. /\ DOMAIN queue = 1..Len(queue) /\ Len(queue) \in Nat /\ DOMAIN queue' = 1..n
      /\ \A i \in DOMAIN queue : queue'[i] = queue[i]
      /\ queue'[n] = m
  <2>1. queue \in Seq(Messages) /\ m \in Messages
    BY DEF IInv, Types, Messaged, Enqueues
  <2> QED
    BY <2>1, Appended DEF Enqueues
<1>2. n \notin DOMAIN queue /\ n \in DOMAIN queue' /\ \A i \in DOMAIN queue' : i \in DOMAIN queue \/ i = n
  BY <1>1
<1>3. ~IsSync(queue'[n]) /\ IsFrame(queue'[n]) /\ queue'[n].of = f
  BY <1>1 DEF Enqueues, IsSync, IsFrame
<1>4. /\ \A i \in DOMAIN queue : IsSync(queue[i]) => queue[i].of \in Saver
      /\ \A i \in DOMAIN queue : IsFrame(queue[i]) => queue[i].of \in Frame
      /\ \A k \in DOMAIN jobs : jobs[k].of \in Saver
  BY Members DEF IInv
<1>5. f \in Frame /\ stage[f] = "none" /\ file[f] = NoFile /\ s # NoSaver
  BY SaverFacts DEF Enqueues, IInv, Frames, Belongs, Filed
<1>6. /\ \A x \in Frame : x # f => stage'[x] = stage[x] /\ owner'[x] = owner[x]
      /\ stage'[f] = "queued" /\ owner'[f] = s /\ file' = file
  BY <1>5 DEF Enqueues, IInv, Types, Kept
<1>7. \A i \in DOMAIN queue : IsFrame(queue[i]) => queue[i].of # f
  BY <1>4, <1>5 DEF IInv, Ordered, QueuedOnce
<1>8. \A i \in DOMAIN queue : IsSync(queue[i]) => queue[i].of # s
  BY DEF IInv, Ordered, SyncSent, Enqueues
<1>9. QueuedOnce'
  <2>1. \A i \in DOMAIN queue' : IsFrame(queue'[i]) => stage'[queue'[i].of] = "queued"
    BY <1>1, <1>2, <1>3, <1>4, <1>6, <1>7 DEF IInv, Ordered, QueuedOnce
  <2>2. \A i, j \in DOMAIN queue' :
            IsFrame(queue'[i]) /\ IsFrame(queue'[j]) /\ queue'[i].of = queue'[j].of => i = j
    BY <1>1, <1>2, <1>3, <1>7 DEF IInv, Ordered, QueuedOnce
  <2>3. \A x \in Frame : stage'[x] = "queued" => \E i \in DOMAIN queue' : IsFrame(queue'[i]) /\ queue'[i].of = x
    BY <1>1, <1>2, <1>3, <1>6 DEF IInv, Ordered, QueuedOnce
  <2> QED
    BY <2>1, <2>2, <2>3 DEF QueuedOnce
<1>10. SyncSent' /\ JobSent'
  BY <1>1, <1>2, <1>3 DEF IInv, Ordered, SyncSent, JobSent, Enqueues
<1>11. Line'
  <2>1. ASSUME NEW i \in DOMAIN queue', NEW j \in DOMAIN queue', IsSync(queue'[i]), IsFrame(queue'[j]), InTurn(queue'[i].of)
        PROVE  /\ i < j => owner'[queue'[j].of] # queue'[i].of
               /\ j < i => ~Earlier(queue'[i].of, owner'[queue'[j].of])
    <3>1. i \in DOMAIN queue /\ queue'[i] = queue[i]
      BY <1>1, <1>2, <1>3, <2>1
    <3>2. CASE j \in DOMAIN queue
      <4>1. queue'[j] = queue[j] /\ owner'[queue[j].of] = owner[queue[j].of]
        BY <1>1, <1>4, <1>6, <1>7, <2>1, <3>2
      <4> QED
        BY <2>1, <3>1, <3>2, <4>1 DEF IInv, Ordered, Line
    <3>3. CASE j = n
      BY <1>1, <1>3, <1>6, <1>8, <2>1, <3>1, <3>3
    <3> QED
      BY <1>2, <3>2, <3>3
  <2> QED
    BY <2>1 DEF Line, Earlier, Enqueues, InTurn
<1>12. SyncLine'
  BY <1>1, <1>2, <1>3 DEF IInv, Ordered, SyncLine, Earlier, Enqueues, InTurn
<1>13. Held'
  BY <1>1, <1>2, <1>3, <1>6 DEF IInv, Ordered, Held, Earlier, Enqueues, InTurn
<1>14. JobLine'
  BY <1>1, <1>2, <1>3 DEF IInv, Ordered, JobLine, Earlier, Enqueues, InTurn
<1>15. Awaited'
  BY <1>1, <1>2 DEF IInv, Ordered, Awaited, Enqueues
<1>16. JobOwn'
  <2>1. ASSUME NEW k \in DOMAIN jobs, NEW x \in Frame, pc[jobs[k].of] = "waiting", InTurn(jobs[k].of),
               owner'[x] \in Saver, file[x] \in jobs[k].files \cup jobs[k].done
        PROVE  ~Earlier(jobs[k].of, owner'[x])
    <3>1. x # f
      BY <1>5, <2>1, NotFiled
    <3> QED
      BY <1>6, <2>1, <3>1 DEF IInv, Ordered, JobOwn
  <2> QED
    BY <1>6, <2>1 DEF JobOwn, Earlier, Enqueues, InTurn
<1>17. AnsweredInTurn'
  BY DEF IInv, Ordered, AnsweredInTurn, Earlier, Enqueues, InTurn
<1> QED
  BY <1>9, <1>10, <1>11, <1>12, <1>13, <1>14, <1>15, <1>16, <1>17 DEF Ordered

LEMMA EnqueueAccount ==
    ASSUME BoundAssumption, IInv, NEW f, NEW m, NEW s \in Saver, NEW d, Enqueues(f, m, s, d)
    PROVE  Account'
<1>1. f \in Frame /\ stage[f] = "none" /\ pc[s] = "saving"
  BY DEF Enqueues, IInv, Frames, Belongs
<1>2. /\ \A x \in Frame : x # f => stage'[x] = stage[x] /\ owner'[x] = owner[x]
      /\ stage'[f] = "queued" /\ owner'[f] = s /\ file' = file
  BY <1>1 DEF Enqueues, IInv, Types, Kept
<1>3. \A x \in Frame : x # f => (Missed(x)' <=> Missed(x))
  BY <1>2 DEF Missed, Enqueues
<1>4. \A r \in Saver : Untaken(r)' => Untaken(r)
  <2>1. queue \in Seq(Messages) /\ m \in Messages
    BY DEF IInv, Types, Messaged, Enqueues
  <2>2. \A i \in DOMAIN queue' : IsSync(queue'[i]) => i \in DOMAIN queue /\ queue'[i] = queue[i]
    BY <2>1, Appended DEF Enqueues, IsFrame, IsSync
  <2> QED
    BY <2>2 DEF Untaken, Enqueues
<1>5. AccountOpen'
  BY <1>2, <1>3, <1>4 DEF IInv, Account, AccountOpen, KeptFor, Enqueues, InTurn
<1>6. AccountInJob'
  <2>1. \A k \in DOMAIN jobs : jobs[k].of # s
    BY <1>1 DEF IInv, Ordered, JobSent
  <2> QED
    BY <1>2, <1>3, <2>1 DEF IInv, Account, AccountInJob, InJob, Enqueues, InTurn
<1>7. AccountTold'
  <2>1. verdict[s] = "none"
    BY <1>1 DEF IInv, Turns, Concluded
  <2> QED
    BY <1>2, <1>3, <2>1 DEF IInv, Account, AccountTold, Enqueues, InTurn
<1> QED
  BY <1>5, <1>6, <1>7 DEF Account

LEMMA EnqueueStep ==
    ASSUME BoundAssumption, IInv, NEW f, NEW m, NEW s \in Saver, NEW d, Enqueues(f, m, s, d),
           Dense', Savers', Sessions'
    PROVE  IInv'
<1>1. Messaged'
  <2>1. queue \in Seq(Messages) /\ m \in Messages /\ queue' = Append(queue, m) /\ Len(queue) < MaxQueue /\ MaxQueue \in Nat
    BY BoundAssumption DEF IInv, Types, Messaged, Enqueues
  <2> QED
    BY <2>1, Appended DEF Messaged
<1>2. Kept'
  BY DEF Enqueues, IInv, Types, Kept, Stages
<1>3. Types'
  BY <1>1, <1>2 DEF Enqueues, IInv, Types, Device, Jobs, Shown
<1>4. Turns'
  BY DEF Enqueues, IInv, Turns, Begun, Behind, AskedInTurn, Screen, Concluded, Counted, Run, InTurn
<1> QED
  BY <1>3, <1>4, EnqueueFrames, EnqueueOrdered, EnqueueAccount DEF IInv, Frames

LEMMA QueueRawStep == ASSUME BoundAssumption, IInv, NEW s \in Saver, QueueRaw(s) PROVE IInv'
<1> DEFINE d == IF s \in Capture THEN session ELSE s
           f == Cardinality({x \in Frame : owner[x] # NoSaver}) + 1
<1>1. pc[s] = "saving" /\ Queue("raw", s, d)
  BY DEF QueueRaw
<1>2. f \in Frame /\ owner[f] = NoSaver /\ Dense'
  BY <1>1, QueueNext
<1>3. Enqueues(f, [kind |-> "raw", of |-> f], s, d)
  BY <1>1, <1>2, SaverFacts DEF QueueRaw, Queue, Send, Full, Enqueues, Messages, IsFrame, IInv, Types, Messaged,
        Sessions
<1>4. Savers' /\ Sessions'
  BY DEF QueueRaw, IInv, Types, Savers, Sessions
<1> QED
  BY <1>2, <1>3, <1>4, EnqueueStep

LEMMA SaveStackStep == ASSUME BoundAssumption, IInv, NEW s \in Saver, SaveStack(s) PROVE IInv'
<1> DEFINE f == Cardinality({x \in Frame : owner[x] # NoSaver}) + 1
<1>1. Savers' /\ Sessions'
  BY DEF SaveStack, IInv, Types, Savers, Sessions
<1>2. CASE Queue("stack", s, session)
  <2>1. f \in Frame /\ owner[f] = NoSaver /\ Dense'
    BY <1>2, QueueNext
  <2>2. Enqueues(f, [kind |-> "stack", of |-> f], s, session)
    BY <1>2, <2>1, SaverFacts DEF SaveStack, Queue, Send, Full, Enqueues, Messages, IsFrame, IInv, Types, Messaged,
          Sessions
  <2> QED
    BY <1>1, <2>1, <2>2, EnqueueStep
<1>3. CASE UNCHANGED <<queue, frameVars>>
  <2>1. Types'
    BY <1>1, <1>3 DEF SaveStack, IInv, Types, Messaged, Device, Jobs, Kept, Shown
  <2> QED
    BY <1>3, <2>1, StillStep DEF SaveStack, Devices
<1> QED
  BY <1>2, <1>3 DEF SaveStack

-----------------------------------------------------------------------------
\* The writer takes a message that is no sync: the frame in it lands somewhere,
\* and buffered frames may be flushed, or fail to be.

Lands(x) ==
    \/ stage'[x] = "failed" /\ file'[x] = NoFile /\ pending'[GroupOf(owner[x])].failed
    \/ /\ stage'[x] = "written" /\ file'[x] = <<0, x>>
       /\ <<0, x>> \in pending'[GroupOf(owner[x])].files
    \/ /\ stage'[x] = "buffered" /\ file'[x] = container' /\ container' # NoContainer
       /\ container' \in sers' /\ container'[1] = dir[x] /\ owner[x] \in Capture
       /\ container' \in pending'["Shared"].files

Keeps(x) ==
    /\ file'[x] = file[x]
    /\ IF stage[x] = "buffered"
       THEN \/ stage'[x] = "buffered" /\ container' = container
            \/ stage'[x] = "written"
            \/ stage'[x] = "failed" /\ pending'["Shared"].failed
       ELSE stage'[x] = stage[x]

Handles(x) == IsFrame(queue[1]) /\ queue[1].of = x

Writes ==
    /\ queue # <<>> /\ ~IsSync(queue[1]) /\ queue' = Tail(queue)
    /\ UNCHANGED <<pc, owner, dir, overlap, verdict, entry, asked, jobs, unheard>>
    /\ sers \subseteq sers'
    /\ \A g \in Group :
          /\ pending[g].files \subseteq pending'[g].files
          /\ pending[g].failed => pending'[g].failed
          /\ \A p \in pending'[g].files : p \in pending[g].files \/ OfGroup(p, g)'
    /\ \A x \in Frame : IF Handles(x) THEN Lands(x) ELSE Keeps(x)

LEMMA BufferedFacts ==
    ASSUME BoundAssumption, IInv, NEW x \in Frame, stage[x] = "buffered"
    PROVE  /\ file[x] = container /\ container # NoContainer /\ container \in sers
           /\ container \in pending["Shared"].files
           /\ owner[x] \in Capture /\ GroupOf(owner[x]) = "Shared" /\ file[x][1] = dir[x]
<1>1. file[x] = container /\ container # NoContainer /\ container \in sers /\ container \in pending["Shared"].files
  BY DEF IInv, Frames, Filed, Containers
<1>2. container[1] \in SerSession /\ 0 \notin SerSession
  BY <1>1, BoundAssumption DEF IInv, Containers
<1>3. file[x] \notin {NoFile, <<0, x>>}
  BY <1>1, <1>2
<1>4. owner[x] \in Capture /\ file[x][1] = dir[x]
  BY <1>3 DEF IInv, Frames, Filed
<1> QED
  BY <1>1, <1>4 DEF GroupOf

\* The frame at the head of the queue.
LEMMA HandledFacts ==
    ASSUME BoundAssumption, IInv, queue # <<>>, NEW x \in Frame, Handles(x)
    PROVE  /\ stage[x] = "queued" /\ file[x] = NoFile /\ owner[x] \in Saver /\ x \notin Processed
           /\ pc[owner[x]] # "none" /\ GroupOf(owner[x]) \in Group
<1>1. 1 \in DOMAIN queue
  <2>1. queue \in Seq(Messages)
    BY DEF IInv, Types, Messaged
  <2> QED
    BY <2>1, Popped
<1>2. stage[x] = "queued"
  BY <1>1 DEF Handles, IInv, Ordered, QueuedOnce
<1>3. owner[x] \in Saver /\ file[x] = NoFile /\ pc[owner[x]] # "none"
  BY <1>2 DEF IInv, Types, Kept, Frames, Belongs, Filed
<1> QED
  BY <1>2, <1>3, SaverFacts DEF Processed

\* The queue moves up.
LEMMA PopQueue ==
    ASSUME BoundAssumption, IInv, queue # <<>>, queue' = Tail(queue), UNCHANGED <<pc, owner, overlap>>,
           \A x \in Frame : stage'[x] = "queued" <=> stage[x] = "queued" /\ ~Handles(x)
    PROVE  QueuedOnce' /\ SyncSent' /\ Line' /\ SyncLine' /\ Held'
<1>1. /\ DOMAIN queue = 1..Len(queue) /\ Len(queue) \in Nat /\ Len(queue) > 0
      /\ DOMAIN queue' = 1..(Len(queue) - 1)
      /\ \A i \in DOMAIN queue' : i + 1 \in DOMAIN queue /\ queue'[i] = queue[i + 1]
  <2>1. queue \in Seq(Messages)
    BY DEF IInv, Types, Messaged
  <2> QED
    BY <2>1, Popped
<1>2. \A i \in DOMAIN queue' : i \in Nat /\ i + 1 # 1
  BY <1>1
<1>3. 1 \in DOMAIN queue
  BY <1>1
<1>4. /\ \A i \in DOMAIN queue : IsSync(queue[i]) => queue[i].of \in Saver
      /\ \A i \in DOMAIN queue : IsFrame(queue[i]) => queue[i].of \in Frame
  BY Members DEF IInv
<1>5. QueuedOnce'
  <2>1. ASSUME NEW i \in DOMAIN queue', IsFrame(queue'[i]) PROVE stage'[queue'[i].of] = "queued"
    <3>1. queue[i + 1].of \in Frame /\ stage[queue[i + 1].of] = "queued"
      BY <1>1, <1>4, <2>1 DEF IInv, Ordered, QueuedOnce
    <3>2. ~Handles(queue[i + 1].of)
      BY <1>1, <1>2, <1>3, <2>1 DEF Handles, IInv, Ordered, QueuedOnce
    <3> QED
      BY <1>1, <3>1, <3>2
  <2>2. ASSUME NEW i \in DOMAIN queue', NEW j \in DOMAIN queue', IsFrame(queue'[i]), IsFrame(queue'[j]),
               queue'[i].of = queue'[j].of
        PROVE  i = j
    <3>1. i + 1 = j + 1
      BY <1>1, <2>2 DEF IInv, Ordered, QueuedOnce
    <3> QED
      BY <1>2, <3>1
  <2>3. ASSUME NEW x \in Frame, stage'[x] = "queued" PROVE \E i \in DOMAIN queue' : IsFrame(queue'[i]) /\ queue'[i].of = x
    <3>1. PICK i \in DOMAIN queue : IsFrame(queue[i]) /\ queue[i].of = x
      BY <2>3 DEF IInv, Ordered, QueuedOnce
    <3>2. i # 1
      BY <2>3, <3>1 DEF Handles
    <3>3. i - 1 \in DOMAIN queue' /\ (i - 1) + 1 = i
      BY <1>1, <3>1, <3>2
    <3> QED
      BY <1>1, <3>1, <3>3
  <2> QED
    BY <2>1, <2>2, <2>3 DEF QueuedOnce
<1>6. SyncSent'
  BY <1>1 DEF IInv, Ordered, SyncSent
<1>7. Line'
  <2>1. ASSUME NEW i \in DOMAIN queue', NEW j \in DOMAIN queue', IsSync(queue'[i]), IsFrame(queue'[j]), InTurn(queue'[i].of)
        PROVE  /\ i < j => owner[queue'[j].of] # queue'[i].of
               /\ j < i => ~Earlier(queue'[i].of, owner[queue'[j].of])
    <3>1. /\ i + 1 \in DOMAIN queue /\ j + 1 \in DOMAIN queue /\ queue'[i] = queue[i + 1] /\ queue'[j] = queue[j + 1]
          /\ i < j => i + 1 < j + 1
          /\ j < i => j + 1 < i + 1
      BY <1>1, <1>2
    <3> QED
      BY <2>1, <3>1 DEF IInv, Ordered, Line
  <2> QED
    BY <2>1 DEF Line, Earlier, InTurn
<1>8. SyncLine'
  <2>1. ASSUME NEW i \in DOMAIN queue', NEW j \in DOMAIN queue', IsSync(queue'[i]), IsSync(queue'[j]), i < j, InTurn(queue'[i].of)
        PROVE  queue'[i].of # queue'[j].of /\ ~Earlier(queue'[j].of, queue'[i].of)
    <3>1. /\ i + 1 \in DOMAIN queue /\ j + 1 \in DOMAIN queue /\ queue'[i] = queue[i + 1] /\ queue'[j] = queue[j + 1]
          /\ i + 1 < j + 1
      BY <1>1, <1>2, <2>1
    <3> QED
      BY <2>1, <3>1 DEF IInv, Ordered, SyncLine
  <2> QED
    BY <2>1 DEF SyncLine, Earlier, InTurn
<1>9. Held'
  <2>1. ASSUME NEW i \in DOMAIN queue', NEW x \in Frame, IsSync(queue'[i]), InTurn(queue'[i].of), owner[x] \in Saver,
               Earlier(queue'[i].of, owner[x])
        PROVE  stage'[x] = "queued"
    <3>1. i + 1 \in DOMAIN queue /\ queue'[i] = queue[i + 1] /\ 1 < i + 1
      BY <1>1
    <3>2. stage[x] = "queued"
      BY <2>1, <3>1 DEF IInv, Ordered, Held
    <3>3. ~Handles(x)
      BY <1>3, <2>1, <3>1 DEF Handles, IInv, Ordered, Line
    <3> QED
      BY <3>2, <3>3
  <2> QED
    BY <2>1 DEF Held, Earlier, InTurn
<1> QED
  BY <1>5, <1>6, <1>7, <1>8, <1>9

LEMMA WritesFrames ==
    ASSUME BoundAssumption, IInv, Writes
    PROVE  Frames' /\ Grouped' /\ Covered' /\ Processed \subseteq Processed'
<1>1. ASSUME NEW x \in Frame, stage[x] \notin {"none", "queued"} PROVE stage'[x] \notin {"none", "queued"}
  <2>1. ~Handles(x)
    BY <1>1, HandledFacts DEF Writes
  <2> QED
    BY <1>1, <2>1 DEF Writes, Keeps
<1>2. Processed \subseteq Processed'
  BY <1>1 DEF Processed
<1>3. Dense'
  BY DEF Writes, IInv, Frames, Dense
<1>4. Belongs'
  <2>1. ASSUME NEW x \in Frame PROVE stage'[x] = "none" <=> stage[x] = "none"
    <3>1. CASE Handles(x)
      BY <3>1, HandledFacts DEF Writes, Lands
    <3>2. CASE ~Handles(x)
      BY <3>2 DEF Writes, Keeps
    <3> QED
      BY <3>1, <3>2
  <2> QED
    BY <2>1 DEF Writes, IInv, Frames, Belongs
<1>5. Filed'
  <2>1. ASSUME NEW x \in Frame
        PROVE  /\ stage'[x] \in {"none", "queued"} => file'[x] = NoFile
               /\ stage'[x] \in {"buffered", "written", "synced", "durable"} => file'[x] # NoFile
               /\ \/ file'[x] \in {NoFile, <<0, x>>}
                  \/ file'[x] \in sers' /\ file'[x][1] = dir[x] /\ owner[x] \in Capture
               /\ stage'[x] = "buffered" => file'[x] = container' /\ container' # NoContainer
               /\ stage'[x] # "lost"
    <3>1. CASE Handles(x)
      <4>1. <<0, x>> # NoFile
        BY FrameFacts
      <4> QED
        BY <3>1, <4>1 DEF Writes, Lands
    <3>2. CASE ~Handles(x) /\ stage[x] = "buffered"
      <4>1. file'[x] = container /\ container # NoContainer /\ container \in sers' /\ file'[x][1] = dir[x] /\ owner[x] \in Capture
        BY <3>2, BufferedFacts DEF Writes, Keeps
      <4> QED
        BY <3>2, <4>1 DEF Writes, Keeps
    <3>3. CASE ~Handles(x) /\ stage[x] # "buffered"
      <4>1. stage'[x] = stage[x] /\ file'[x] = file[x] /\ sers \subseteq sers'
        BY <3>3 DEF Writes, Keeps
      <4> QED
        BY <3>3, <4>1 DEF IInv, Frames, Filed
    <3> QED
      BY <3>1, <3>2, <3>3
  <2> QED
    BY <2>1 DEF Filed, Writes
<1>6. \A p \in Files, g \in Group : OfGroup(p, g) => OfGroup(p, g)'
  BY <1>2 DEF OfGroup, Writes
<1>7. /\ \A g \in Group : pending[g].files \subseteq Files
      /\ \A k \in DOMAIN jobs : jobs[k].of \in Saver /\ jobs[k].files \cup jobs[k].done \subseteq Files
                                /\ GroupOf(jobs[k].of) \in Group
  BY Members, SaverFacts DEF IInv, Types, Device
<1>8. Grouped'
  <2>1. \A g \in Group : \A p \in pending'[g].files : OfGroup(p, g)'
    BY <1>6, <1>7 DEF IInv, Grouped, Writes
  <2>2. \A k \in DOMAIN jobs : \A p \in jobs[k].files \cup jobs[k].done : OfGroup(p, GroupOf(jobs[k].of))'
    BY <1>6, <1>7 DEF IInv, Grouped, Writes, OfGroup
  <2> QED
    BY <2>1, <2>2 DEF Grouped, Writes, OfGroup
<1>9. Covered'
  <2>1. ASSUME NEW x \in Frame
        PROVE  /\ stage'[x] = "written" =>
                     \/ file'[x] \in pending'[GroupOf(owner[x])].files
                     \/ \E j \in DOMAIN jobs : file'[x] \in jobs[j].files
               /\ stage'[x] = "synced" => \E j \in DOMAIN jobs : file'[x] \in jobs[j].done
    <3>1. CASE Handles(x)
      BY <3>1 DEF Writes, Lands
    <3>2. CASE ~Handles(x) /\ stage[x] = "buffered"
      <4>1. file'[x] \in pending'["Shared"].files /\ GroupOf(owner[x]) = "Shared"
        BY <3>2, BufferedFacts DEF Writes, Keeps
      <4> QED
        BY <3>2, <4>1 DEF Writes, Keeps
    <3>3. CASE ~Handles(x) /\ stage[x] # "buffered"
      <4>1. stage'[x] = stage[x] /\ file'[x] = file[x]
        BY <3>3 DEF Writes, Keeps
      <4>2. stage[x] = "written" => owner[x] \in Saver
        BY DEF IInv, Types, Kept, Frames, Belongs
      <4>3. stage[x] = "written" => pending[GroupOf(owner[x])].files \subseteq pending'[GroupOf(owner[x])].files
        BY <4>2, SaverFacts DEF Writes
      <4> QED
        BY <4>1, <4>3 DEF IInv, Covered
    <3> QED
      BY <3>1, <3>2, <3>3
  <2> QED
    BY <2>1 DEF Covered, Writes
<1> QED
  BY <1>2, <1>3, <1>4, <1>5, <1>8, <1>9 DEF Frames

LEMMA WritesOrdered == ASSUME BoundAssumption, IInv, Writes PROVE Ordered'
<1>1. \A x \in Frame : stage'[x] = "queued" <=> stage[x] = "queued" /\ ~Handles(x)
  <2>1. ASSUME NEW x \in Frame PROVE stage'[x] = "queued" <=> stage[x] = "queued" /\ ~Handles(x)
    <3>1. CASE Handles(x)
      BY <3>1 DEF Writes, Lands
    <3>2. CASE ~Handles(x)
      BY <3>2 DEF Writes, Keeps
    <3> QED
      BY <3>1, <3>2
  <2> QED
    BY <2>1
<1>2. QueuedOnce' /\ SyncSent' /\ Line' /\ SyncLine' /\ Held'
  BY <1>1, PopQueue DEF Writes
<1>3. /\ DOMAIN queue = 1..Len(queue) /\ Len(queue) \in Nat /\ Len(queue) > 0
      /\ DOMAIN queue' = 1..(Len(queue) - 1)
      /\ \A i \in DOMAIN queue' : i + 1 \in DOMAIN queue /\ queue'[i] = queue[i + 1]
  <2>1. queue \in Seq(Messages)
    BY DEF IInv, Types, Messaged
  <2> QED
    BY <2>1, Popped DEF Writes
<1>4. JobSent' /\ AnsweredInTurn'
  BY DEF Writes, IInv, Ordered, JobSent, AnsweredInTurn, Earlier, InTurn
<1>5. JobLine'
  BY <1>3 DEF Writes, IInv, Ordered, JobLine, Earlier, InTurn
<1>6. Awaited'
  <2>1. ASSUME NEW i \in DOMAIN queue, IsSync(queue[i]) PROVE i - 1 \in DOMAIN queue' /\ queue'[i - 1] = queue[i]
    <3>1. i # 1
      BY <2>1 DEF Writes
    <3>2. i - 1 \in DOMAIN queue' /\ (i - 1) + 1 = i
      BY <1>3, <3>1
    <3> QED
      BY <1>3, <3>2
  <2> QED
    BY <2>1 DEF Writes, IInv, Ordered, Awaited
<1>7. JobOwn'
  <2>1. ASSUME NEW k \in DOMAIN jobs, NEW x \in Frame, pc[jobs[k].of] = "waiting", InTurn(jobs[k].of),
               owner[x] \in Saver, file'[x] \in jobs[k].files \cup jobs[k].done
        PROVE  ~Earlier(jobs[k].of, owner[x])
    <3>1. CASE ~Handles(x)
      BY <2>1, <3>1 DEF Writes, Keeps, IInv, Ordered, JobOwn
    <3>2. CASE Handles(x) /\ Earlier(jobs[k].of, owner[x])
      <4>1. jobs[k].of \in Saver /\ pc[owner[x]] # "none" /\ x \notin Processed
        BY <3>2, Members, HandledFacts DEF IInv, Writes
      <4>2. InTurn(owner[x])
        BY <2>1, <3>2, <4>1, InOrder
      <4>3. jobs[k].of \notin Capture
        BY <2>1, <3>2, <4>1, <4>2, Elder DEF IInv, Types
      <4>4. GroupOf(jobs[k].of) = "Owned" /\ owner[x] \notin Capture
        BY <2>1, <3>2, <4>1, <4>3, SaverFacts, InOrder
      <4>5. OfGroup(file'[x], "Owned")
        BY <2>1, <4>4 DEF IInv, Grouped
      <4>6. file'[x] \in {NoFile, <<0, x>>}
        BY <3>2, <4>4 DEF Writes, Lands
      <4>7. 0 \notin SerSession /\ 0 \notin Frame
        BY BoundAssumption, FrameFacts
      <4> QED
        BY <4>1, <4>5, <4>6, <4>7 DEF OfGroup, Processed
    <3> QED
      BY <3>1, <3>2
  <2> QED
    BY <2>1 DEF Writes, JobOwn, Earlier, InTurn
<1> QED
  BY <1>2, <1>4, <1>5, <1>6, <1>7 DEF Ordered

LEMMA WritesAccount == ASSUME BoundAssumption, IInv, Writes PROVE Account'
<1>1. /\ \A i \in DOMAIN queue' : i + 1 \in DOMAIN queue /\ queue'[i] = queue[i + 1]
  <2>1. queue \in Seq(Messages)
    BY DEF IInv, Types, Messaged
  <2> QED
    BY <2>1, Popped DEF Writes
<1>2. \A r \in Saver : Untaken(r)' => Untaken(r)
  BY <1>1 DEF Untaken, Writes
<1>3. ASSUME NEW x \in Frame, Missed(x) PROVE Missed(x)'
  <2>1. ~Handles(x)
    BY <1>3, HandledFacts DEF Missed, Writes
  <2> QED
    BY <1>3, <2>1 DEF Missed, Writes, Keeps
<1>4. AccountOpen'
  <2>1. ASSUME NEW r \in Saver, InTurn(r), Untaken(r)', ~pending'[GroupOf(r)].failed,
               NEW x \in Frame, owner[x] = r
        PROVE  \/ stage'[x] \in {"queued", "synced", "durable"}
               \/ stage'[x] \in {"buffered", "written"} /\ file'[x] \in pending'[GroupOf(r)].files
               \/ Missed(x)'
    <3>1. GroupOf(r) \in Group /\ (r \in Capture => GroupOf(r) = "Shared")
      BY SaverFacts
    <3>2. \/ stage[x] \in {"queued", "synced", "durable"}
          \/ stage[x] \in {"buffered", "written"} /\ file[x] \in pending[GroupOf(r)].files
          \/ Missed(x)
      BY <1>2, <2>1, <3>1 DEF IInv, Account, AccountOpen, KeptFor, Writes
    <3>3. CASE Handles(x)
      BY <2>1, <3>1, <3>3 DEF Writes, Lands
    <3>4. CASE ~Handles(x) /\ stage[x] = "buffered"
      <4>1. GroupOf(r) = "Shared" /\ file[x] \in pending["Shared"].files
        BY <2>1, <3>4, BufferedFacts
      <4> QED
        BY <2>1, <3>1, <3>4, <4>1 DEF Writes, Keeps
    <3>5. CASE ~Handles(x) /\ stage[x] # "buffered"
      <4>1. stage'[x] = stage[x] /\ file'[x] = file[x]
        BY <3>5 DEF Writes, Keeps
      <4> QED
        BY <1>3, <3>1, <3>2, <3>5, <4>1 DEF Writes
    <3> QED
      BY <3>3, <3>4, <3>5
  <2> QED
    BY <2>1 DEF AccountOpen, KeptFor, Writes, InTurn
<1>5. AccountInJob'
  <2>1. ASSUME NEW k \in DOMAIN jobs, InTurn(jobs[k].of), ~jobs[k].failed, NEW x \in Frame, owner[x] = jobs[k].of
        PROVE  \/ stage'[x] = "durable" \/ Missed(x)'
               \/ stage'[x] = "written" /\ file'[x] \in jobs[k].files
               \/ stage'[x] = "synced" /\ \E j \in 1..k : file'[x] \in jobs[j].done
    <3>1. \/ stage[x] = "durable" \/ Missed(x)
          \/ stage[x] = "written" /\ file[x] \in jobs[k].files
          \/ stage[x] = "synced" /\ \E j \in 1..k : file[x] \in jobs[j].done
      BY <2>1 DEF IInv, Account, AccountInJob, InJob
    <3>2. ~Handles(x) /\ stage[x] # "buffered"
      BY <3>1, HandledFacts DEF Writes, Missed
    <3>3. stage'[x] = stage[x] /\ file'[x] = file[x]
      BY <3>2 DEF Writes, Keeps
    <3> QED
      BY <1>3, <3>1, <3>3
  <2> QED
    BY <2>1 DEF AccountInJob, InJob, Writes, InTurn
<1>6. AccountTold'
  <2>1. ASSUME NEW r \in Saver, InTurn(r), verdict[r] \in {"idle", "synced"}, NEW x \in Frame, owner[x] = r
        PROVE  stage'[x] = "durable" \/ Missed(x)'
    <3>1. stage[x] = "durable" \/ Missed(x)
      BY <2>1 DEF IInv, Account, AccountTold
    <3>2. ~Handles(x) /\ stage[x] # "buffered"
      BY <3>1, HandledFacts DEF Writes, Missed
    <3>3. stage'[x] = stage[x]
      BY <3>2 DEF Writes, Keeps
    <3> QED
      BY <1>3, <3>1, <3>3
  <2> QED
    BY <2>1 DEF AccountTold, Writes, InTurn
<1> QED
  BY <1>4, <1>5, <1>6 DEF Account

LEMMA WritesStep ==
    ASSUME BoundAssumption, IInv, Writes, Types', Containers', Numbered'
    PROVE  IInv'
<1>1. Turns'
  BY DEF Writes, IInv, Turns, Begun, Behind, AskedInTurn, Screen, Concluded, Counted, Run, InTurn
<1> QED
  BY <1>1, WritesFrames, WritesOrdered, WritesAccount DEF IInv

-----------------------------------------------------------------------------
\* The writer's actions.

LEMMA TakesFacts ==
    ASSUME BoundAssumption, IInv, NEW kinds, Takes(kinds)
    PROVE  /\ queue # <<>> /\ Head(queue) = queue[1] /\ queue[1].kind \in kinds /\ 1 \in DOMAIN queue
           /\ IsFrame(queue[1]) => Subject \in Frame
           /\ IsSync(queue[1]) => Subject \in Saver
           /\ queue' = Tail(queue) /\ Messaged' /\ Savers' /\ Shown'
           /\ UNCHANGED <<pc, threads, session, plan, issued, hung, entry, asked, verdict, overlap, unheard, owner, dir>>
<1>1. queue # <<>> /\ queue' = Tail(queue) /\ Head(queue).kind \in kinds
  BY DEF Takes
<1>2. queue \in Seq(Messages) /\ Len(queue) <= MaxQueue /\ MaxQueue \in Nat
  BY BoundAssumption DEF IInv, Types, Messaged
<1>3. Tail(queue) \in Seq(Messages) /\ Head(queue) = queue[1] /\ 1 \in DOMAIN queue /\ Len(Tail(queue)) <= MaxQueue
  BY <1>1, <1>2, Popped
<1>4. UNCHANGED <<pc, threads, session, plan, issued, hung, entry, asked, verdict, overlap, unheard, owner, dir>>
  BY DEF Takes
<1>5. Savers' /\ Shown' /\ Messaged'
  BY <1>1, <1>3, <1>4 DEF IInv, Types, Savers, Shown, Messaged
<1> QED
  BY <1>1, <1>3, <1>4, <1>5, Members DEF IInv, Subject

LEMMA NumberedStays ==
    ASSUME BoundAssumption, Types, Numbered, sers' = sers, Processed \subseteq Processed'
    PROVE  Numbered'
<1>1. IsFiniteSet(Processed') /\ Cardinality(Processed) <= Cardinality(Processed')
      /\ Cardinality(Processed) \in Nat /\ Cardinality(Processed') \in Nat
  <2>1. IsFiniteSet(Frame) /\ Processed' \subseteq Frame
    BY FrameFacts DEF Processed
  <2> QED
    BY <2>1, FS_Subset, FS_CardinalityType
<1> QED
  BY <1>1 DEF Numbered

LEMMA WriteFitsStep == ASSUME BoundAssumption, IInv, WriteFits PROVE IInv' /\ Writes
<1> DEFINE f == Subject
           g == GroupOf(owner[f])
<1>1. /\ queue # <<>> /\ Head(queue) = queue[1] /\ queue[1].kind \in {"raw", "stack"} /\ f \in Frame
      /\ queue' = Tail(queue) /\ Messaged' /\ Savers' /\ Shown'
      /\ UNCHANGED <<pc, threads, session, plan, issued, hung, entry, asked, verdict, overlap, unheard, owner, dir>>
  BY TakesFacts DEF WriteFits, IsFrame
<1>2. Handles(f) /\ ~IsSync(queue[1]) /\ \A x \in Frame : Handles(x) => x = f
  BY <1>1 DEF Handles, IsFrame, IsSync, Subject
<1>3. /\ stage[f] = "queued" /\ file[f] = NoFile /\ owner[f] \in Saver /\ g \in Group
  BY <1>1, <1>2, HandledFacts
<1>4. PICK ok \in BOOLEAN :
        /\ Calls(<<ok>>) \/ UNCHANGED faults
        /\ stage' = [stage EXCEPT ![f] = IF ok THEN "written" ELSE "failed"]
        /\ file' = IF ok THEN [file EXCEPT ![f] = <<0, f>>] ELSE file
        /\ Record(g, IF ok THEN {<<0, f>>} ELSE {}, ok)
        /\ UNCHANGED <<container, sers, jobs>>
  BY DEF WriteFits
<1>5. <<0, f>> \in Files
  BY <1>1, BoundAssumption DEF Files, Frame
<1>6. Types'
  <2>1. faults \in Nat /\ IsFiniteSet(DOMAIN <<ok>>)
    BY FrameFacts, BoundAssumption DEF IInv, Types, Sessions
  <2>2. faults' \in 0..MaxFaults
    BY <1>4, <2>1, CallsCount DEF IInv, Types, Sessions
  <2>3. Sessions'
    BY <1>1, <2>2 DEF IInv, Types, Sessions
  <2>4. Device' /\ Jobs' /\ Kept'
    BY <1>1, <1>3, <1>4, <1>5 DEF Record, IInv, Types, Device, Jobs, Kept, Stages
  <2> QED
    BY <1>1, <2>3, <2>4 DEF Types
<1>7. Lands(f)
  BY <1>1, <1>3, <1>4 DEF Lands, Record, IInv, Types, Device, Kept
<1>8. \A x \in Frame : x # f => Keeps(x)
  BY <1>1, <1>4 DEF Keeps, IInv, Types, Kept
<1>9. /\ \A h \in Group : /\ pending[h].files \subseteq pending'[h].files
                          /\ pending[h].failed => pending'[h].failed
      /\ \A h \in Group : \A p \in pending'[h].files : p \in pending[h].files \/ (h = g /\ ok /\ p = <<0, f>>)
  BY <1>3, <1>4 DEF Record, IInv, Types, Device
<1>11. \A h \in Group : \A p \in pending'[h].files : p \in pending[h].files \/ OfGroup(p, h)'
  <2>1. ASSUME NEW h \in Group, NEW p \in pending'[h].files, p \notin pending[h].files PROVE OfGroup(p, h)'
    <3>1. h = g /\ ok /\ p = <<0, f>>
      BY <1>9, <2>1
    <3> QED
      BY <3>1, <1>1, <1>4 DEF OfGroup, Processed, IInv, Types, Kept
  <2> QED
    BY <2>1
<1>12. Writes
  BY <1>1, <1>2, <1>4, <1>7, <1>8, <1>9, <1>11 DEF Writes
<1>13. Containers'
  BY <1>4, <1>9 DEF IInv, Containers
<1>14. Numbered'
  BY <1>4, <1>12, WritesFrames, NumberedStays DEF IInv
<1> QED
  BY <1>6, <1>12, <1>13, <1>14, WritesStep

LEMMA CloseContainerStep == ASSUME BoundAssumption, IInv, CloseContainer PROVE IInv' /\ Writes
<1>1. /\ queue # <<>> /\ Head(queue) = queue[1] /\ queue[1].kind \in {"finish", "end"}
      /\ queue' = Tail(queue) /\ Messaged' /\ Savers' /\ Shown'
      /\ UNCHANGED <<pc, threads, session, plan, issued, hung, entry, asked, verdict, overlap, unheard, owner, dir>>
  BY TakesFacts DEF CloseContainer
<1>2. ~IsSync(queue[1]) /\ \A x \in Frame : ~Handles(x)
  BY <1>1 DEF Handles, IsFrame, IsSync
<1>3. PICK closed \in BOOLEAN :
        /\ Calls(<<closed>>)
        /\ stage' = Flushed(container, closed)
        /\ Record("Shared", {}, closed)
        /\ container' = NoContainer
        /\ UNCHANGED <<sers, jobs, file>>
  BY DEF CloseContainer, Outcome
<1>4. Types'
  <2>1. faults \in Nat /\ IsFiniteSet(DOMAIN <<closed>>)
    BY FrameFacts, BoundAssumption DEF IInv, Types, Sessions
  <2>2. faults' \in 0..MaxFaults
    BY <1>3, <2>1, CallsCount
  <2>3. Sessions'
    BY <1>1, <2>2 DEF IInv, Types, Sessions
  <2>4. Device' /\ Jobs' /\ Kept'
    BY <1>1, <1>3 DEF Record, Flushed, IInv, Types, Device, Jobs, Kept, Stages
  <2> QED
    BY <1>1, <2>3, <2>4 DEF Types
<1>5. ~closed => pending'["Shared"].failed
  BY <1>3 DEF Record, IInv, Types, Device
<1>6. \A x \in Frame : Keeps(x)
  <2>1. ASSUME NEW x \in Frame PROVE Keeps(x)
    <3>1. stage[x] = "buffered" => file[x] = container
      BY BufferedFacts
    <3> QED
      BY <1>3, <1>5, <3>1 DEF Keeps, Flushed
  <2> QED
    BY <2>1
<1>7. \A h \in Group : /\ pending'[h].files = pending[h].files
                       /\ pending[h].failed => pending'[h].failed
  BY <1>3 DEF Record, IInv, Types, Device
<1>8. Writes
  BY <1>1, <1>2, <1>3, <1>6, <1>7 DEF Writes
<1>9. Containers'
  BY <1>3 DEF IInv, Containers
<1>10. Numbered'
  BY <1>3, <1>8, WritesFrames, NumberedStays DEF IInv
<1> QED
  BY <1>4, <1>8, <1>9, <1>10, WritesStep

\* The next container's name is the first that is free.
LEMMA SerPathFacts ==
    ASSUME BoundAssumption, IInv, NEW f \in Frame, f \notin Processed, NEW d \in SerSession
    PROVE  \E n \in 0..(MaxFrames - 1) :
              /\ \A k \in Frame : <<d, k>> \in sers <=> k <= n
              /\ SerPath(d) = <<d, n + 1>> /\ n + 1 \in Frame /\ n <= Cardinality(Processed)
<1>1. Cardinality(Processed) \in Nat /\ Cardinality(Processed) + 1 <= MaxFrames
  <2>1. IsFiniteSet(Frame) /\ Cardinality(Frame) = MaxFrames /\ Processed \subseteq Frame /\ Processed \cup {f} \subseteq Frame
    BY FrameFacts DEF Processed
  <2>2. IsFiniteSet(Processed) /\ Cardinality(Processed \cup {f}) <= MaxFrames
    BY <2>1, FS_Subset
  <2>3. Cardinality(Processed \cup {f}) = Cardinality(Processed) + 1
    BY <2>2, FS_AddElement
  <2> QED
    BY <2>2, <2>3, FS_CardinalityType
<1>2. PICK n \in 0..MaxFrames : n <= Cardinality(Processed) /\ \A k \in Frame : <<d, k>> \in sers <=> k <= n
  BY DEF IInv, Numbered
<1>3. n \in 0..(MaxFrames - 1) /\ n + 1 \in Frame /\ n \in Nat /\ MaxFrames \in Nat
  BY <1>1, <1>2, BoundAssumption DEF Frame
<1> DEFINE free == {<<d, k>> : k \in Frame} \ sers
<1>4. \A p \in free : \E k \in Frame : p = <<d, k>> /\ k >= n + 1
  BY <1>2, <1>3 DEF Frame
<1>5. <<d, n + 1>> \in free /\ \A q \in free : <<d, n + 1>>[2] <= q[2]
  <2>1. ~(n + 1 <= n)
    BY <1>3
  <2>2. <<d, n + 1>> \in free
    BY <1>2, <1>3, <2>1
  <2>3. \A q \in free : <<d, n + 1>>[2] <= q[2]
    BY <1>4
  <2> QED
    BY <2>2, <2>3
<1>6. \A p \in free : (\A q \in free : p[2] <= q[2]) => p = <<d, n + 1>>
  <2>1. ASSUME NEW p \in free, \A q \in free : p[2] <= q[2] PROVE p = <<d, n + 1>>
    <3>1. PICK k \in Frame : p = <<d, k>> /\ k >= n + 1
      BY <1>4
    <3>2. k <= n + 1
      BY <1>5, <2>1, <3>1
    <3>3. k = n + 1
      BY <1>3, <3>1, <3>2 DEF Frame
    <3> QED
      BY <3>1, <3>3
  <2> QED
    BY <2>1
<1> HIDE DEF free
<1>7. SerPath(d) = CHOOSE p \in free : \A q \in free : p[2] <= q[2]
  BY DEF SerPath, free
<1>8. SerPath(d) = <<d, n + 1>>
  BY <1>5, <1>6, <1>7
<1> QED
  BY <1>2, <1>3, <1>8

LEMMA WriteSerStep == ASSUME BoundAssumption, IInv, WriteSer PROVE IInv' /\ Writes
<1> DEFINE f == Subject
           d == dir[f]
           creates == container = NoContainer \/ Rolls(d)
           path == IF creates THEN SerPath(d) ELSE container
<1>1. /\ queue # <<>> /\ Head(queue) = queue[1] /\ queue[1].kind = "raw" /\ f \in Frame
      /\ queue' = Tail(queue) /\ Messaged' /\ Savers' /\ Shown'
      /\ UNCHANGED <<pc, threads, session, plan, issued, hung, entry, asked, verdict, overlap, unheard, owner, dir>>
  BY TakesFacts DEF WriteSer, IsFrame
<1>2. Handles(f) /\ ~IsSync(queue[1]) /\ \A x \in Frame : Handles(x) => x = f
  BY <1>1 DEF Handles, IsFrame, IsSync, Subject
<1>3. stage[f] = "queued" /\ file[f] = NoFile /\ owner[f] \in Saver /\ f \notin Processed
  BY <1>1, <1>2, HandledFacts
<1>4. d \in SerSession
  BY DEF WriteSer, Films
<1>5. owner[f] \in Capture /\ GroupOf(owner[f]) = "Shared"
  <2>1. owner[f] \in Loop => d = owner[f]
    BY <1>1 DEF IInv, Frames, Belongs
  <2>2. \A c \in SerSession : c \in Nat
    BY BoundAssumption
  <2> QED
    BY <1>3, <1>4, <2>1, <2>2, SaverFacts
<1>6. PICK n \in 0..(MaxFrames - 1) :
         /\ \A k \in Frame : <<d, k>> \in sers <=> k <= n
         /\ SerPath(d) = <<d, n + 1>> /\ n + 1 \in Frame /\ n <= Cardinality(Processed)
  BY <1>1, <1>3, <1>4, SerPathFacts
<1> DEFINE Done(closed, created, added) ==
         /\ Calls(<<closed, created, added>>)
         /\ container' = IF created THEN path ELSE NoContainer
         /\ sers' = sers \cup (IF created THEN {path} ELSE {})
         /\ stage' = [x \in Frame |->
               IF x = f THEN IF created /\ added THEN "buffered" ELSE "failed"
               ELSE IF Rolls(d) /\ file[x] = container THEN Flushed(container, closed)[x]
               ELSE IF creates /\ created /\ file[x] = path THEN "lost"
               ELSE stage[x]]
         /\ file' = IF created /\ added THEN [file EXCEPT ![f] = path] ELSE file
         /\ Record("Shared", IF creates /\ created THEN {path} ELSE {}, closed /\ created /\ added)
<1>17. \E closed \in Outcome(Rolls(d)), created \in Outcome(creates) : \E added \in Outcome(created) :
          Done(closed, created, added)
  BY DEF WriteSer
<1>7. PICK closed \in BOOLEAN, created \in BOOLEAN, added \in BOOLEAN :
         closed \in Outcome(Rolls(d)) /\ created \in Outcome(creates) /\ Done(closed, created, added) /\ UNCHANGED jobs
  <2>1. (\A b \in BOOLEAN : Outcome(b) \subseteq BOOLEAN) /\ Rolls(d) \in BOOLEAN /\ creates \in BOOLEAN /\ UNCHANGED jobs
    BY DEF Outcome, Rolls, WriteSer
  <2> HIDE DEF Done, creates
  <2> QED
    BY <1>17, <2>1
<1>8. /\ ~creates => created /\ container # NoContainer /\ container \in sers /\ container[1] = d
                     /\ container \in pending["Shared"].files
      /\ ~Rolls(d) => closed
      /\ path # NoFile /\ path[1] = d /\ path \in Files
      /\ creates => path = <<d, n + 1>> /\ path \notin sers
  <2>1. ~creates => /\ container # NoContainer /\ container \in sers /\ container[1] = d /\ container \in Files
                    /\ container \in pending["Shared"].files
    BY DEF Rolls, IInv, Types, Device, Containers
  <2>2. (~creates => created) /\ (~Rolls(d) => closed)
    BY <1>7 DEF Outcome
  <2>3. d \in 1..MaxSession
    BY <1>4, BoundAssumption
  <2>4. <<d, n + 1>> # NoFile /\ <<d, n + 1>> \in Files
    BY <1>6, <2>3, BoundAssumption DEF Files, Frame
  <2>5. <<d, n + 1>> \notin sers
    <3>1. ~(n + 1 <= n)
      OBVIOUS
    <3> QED
      BY <1>6, <3>1
  <2> QED
    BY <1>6, <2>1, <2>2, <2>4, <2>5
<1>9. Types'
  <2>1. faults \in Nat /\ IsFiniteSet(DOMAIN <<closed, created, added>>)
    BY FrameFacts, BoundAssumption DEF IInv, Types, Sessions
  <2>2. faults' \in 0..MaxFaults
    BY <1>7, <2>1, CallsCount
  <2>3. Sessions'
    BY <1>1, <2>2 DEF IInv, Types, Sessions
  <2>4. Device'
    BY <1>1, <1>7, <1>8 DEF Record, IInv, Types, Device
  <2>5. Jobs' /\ Kept'
    BY <1>1, <1>7, <1>8 DEF Flushed, IInv, Types, Jobs, Kept, Stages
  <2> QED
    BY <1>1, <2>3, <2>4, <2>5 DEF Types
<1>10. /\ pending'["Shared"].files = pending["Shared"].files \cup (IF creates /\ created THEN {path} ELSE {})
       /\ ~(closed /\ created /\ added) => pending'["Shared"].failed
       /\ pending["Shared"].failed => pending'["Shared"].failed
       /\ pending'["Owned"] = pending["Owned"]
  BY <1>7 DEF Record, IInv, Types, Device
<1>11. Lands(f)
  BY <1>1, <1>3, <1>5, <1>7, <1>8, <1>10 DEF Lands, IInv, Types, Kept
<1>12. \A x \in Frame : x # f => Keeps(x)
  <2>1. ASSUME NEW x \in Frame, x # f PROVE Keeps(x)
    <3>1. file'[x] = file[x]
      BY <1>1, <1>7, <2>1 DEF IInv, Types, Kept
    <3>2. creates => file[x] # path
      <4>1. 0 # d
        BY <1>4, BoundAssumption
      <4> QED
        BY <1>8, <4>1 DEF IInv, Frames, Filed
    <3>3. stage'[x] = IF Rolls(d) /\ file[x] = container THEN Flushed(container, closed)[x] ELSE stage[x]
      BY <1>7, <2>1, <3>2
    <3>4. CASE stage[x] = "buffered"
      <4>1. file[x] = container
        BY <3>4, BufferedFacts
      <4>2. ~Rolls(d) => container' = container
        BY <1>7, <1>8, <3>4, BufferedFacts
      <4> QED
        BY <1>10, <3>1, <3>3, <3>4, <4>1, <4>2 DEF Keeps, Flushed
    <3>5. CASE stage[x] # "buffered"
      BY <3>1, <3>3, <3>5 DEF Keeps, Flushed
    <3> QED
      BY <3>4, <3>5
  <2> QED
    BY <2>1
<1>13. \A h \in Group : \A p \in pending'[h].files : p \in pending[h].files \/ OfGroup(p, h)'
  BY <1>7, <1>10 DEF OfGroup
<1>14. Writes
  <2>1. sers \subseteq sers'
    BY <1>7
  <2>2. \A h \in Group : /\ pending[h].files \subseteq pending'[h].files
                         /\ pending[h].failed => pending'[h].failed
    BY <1>10
  <2> QED
    BY <1>1, <1>2, <1>7, <1>11, <1>12, <1>13, <2>1, <2>2 DEF Writes
<1>15. Containers'
  <2>1. container' # NoContainer => container' \in pending'["Shared"].files /\ container' \in sers'
    BY <1>7, <1>8, <1>10
  <2>2. \A p \in sers' : p[1] \in SerSession /\ p[2] \in Frame
    BY <1>4, <1>6, <1>7, <1>8 DEF IInv, Containers
  <2> QED
    BY <2>1, <2>2 DEF Containers
<1>16. Numbered'
  <2>1. Cardinality(Processed) \in Nat /\ Cardinality(Processed') \in Nat /\ Cardinality(Processed) + 1 <= Cardinality(Processed')
    <3>1. f \in Processed'
      BY <1>1, <1>7 DEF Processed
    <3>2. IsFiniteSet(Frame) /\ Processed \subseteq Frame /\ Processed' \subseteq Frame /\ Processed \cup {f} \subseteq Processed'
      BY <1>14, <3>1, FrameFacts, WritesFrames DEF Processed
    <3>3. IsFiniteSet(Processed) /\ IsFiniteSet(Processed') /\ Cardinality(Processed \cup {f}) <= Cardinality(Processed')
      BY <3>2, FS_Subset
    <3>4. Cardinality(Processed \cup {f}) = Cardinality(Processed) + 1
      BY <1>3, <3>3, FS_AddElement
    <3> QED
      BY <3>3, <3>4, FS_CardinalityType
  <2>2. CASE sers' = sers
    BY <2>1, <2>2 DEF IInv, Numbered
  <2>3. CASE sers' # sers
    <3>1. sers' = sers \cup {<<d, n + 1>>}
      BY <1>7, <1>8, <2>3
    <3>2. ASSUME NEW c \in SerSession
          PROVE  \E m \in 0..MaxFrames : m <= Cardinality(Processed') /\ \A k \in Frame : <<c, k>> \in sers' <=> k <= m
      <4>1. CASE c = d
        <5>1. n + 1 \in 0..MaxFrames /\ n + 1 <= Cardinality(Processed')
          BY <1>6, <2>1, BoundAssumption
        <5>2. \A k \in Frame : <<d, k>> \in sers' <=> k <= n + 1
          BY <1>6, <3>1, BoundAssumption DEF Frame
        <5> QED
          BY <4>1, <5>1, <5>2
      <4>2. CASE c # d
        <5>1. \A k \in Frame : <<c, k>> \in sers' <=> <<c, k>> \in sers
          BY <3>1, <4>2
        <5>2. PICK m \in 0..MaxFrames : m <= Cardinality(Processed) /\ \A k \in Frame : <<c, k>> \in sers <=> k <= m
          BY DEF IInv, Numbered
        <5>3. m <= Cardinality(Processed')
          BY <2>1, <5>2
        <5> QED
          BY <5>1, <5>2, <5>3
      <4> QED
        BY <4>1, <4>2
    <3> QED
      BY <3>2 DEF Numbered
  <2> QED
    BY <2>2, <2>3
<1> QED
  BY <1>9, <1>14, <1>15, <1>16, WritesStep

-----------------------------------------------------------------------------
\* The writer takes a sync up: what its camera wrote becomes a job.

TakenUp(s, J) ==
    /\ queue # <<>> /\ IsSync(queue[1]) /\ queue[1].of = s /\ queue' = Tail(queue)
    /\ UNCHANGED <<pc, owner, dir, file, overlap, verdict, entry, asked, container, sers, unheard>>
    /\ J \in Job /\ J.of = s /\ J.files = pending[GroupOf(s)].files /\ J.done = {}
    /\ pending[GroupOf(s)].failed => J.failed
    /\ jobs' = Append(jobs, J)
    /\ \A g \in Group : /\ pending'[g].files \subseteq pending[g].files
                        /\ g # GroupOf(s) => pending'[g] = pending[g]
    /\ container # NoContainer => container \in pending'["Shared"].files
    /\ \A x \in Frame :
          IF stage[x] = "buffered" /\ GroupOf(s) = "Shared"
          THEN stage'[x] = "written" \/ (stage'[x] = "buffered" /\ J.failed)
          ELSE stage'[x] = stage[x]

LEMMA TakenUpFacts ==
    ASSUME BoundAssumption, IInv, NEW s \in Saver, NEW J, TakenUp(s, J)
    PROVE  /\ DOMAIN queue = 1..Len(queue) /\ Len(queue) \in Nat /\ Len(queue) > 0 /\ 1 \in DOMAIN queue
           /\ DOMAIN queue' = 1..(Len(queue) - 1)
           /\ \A i \in DOMAIN queue' : i + 1 \in DOMAIN queue /\ 1 < i + 1 /\ queue'[i] = queue[i + 1]
           /\ DOMAIN jobs = 1..Len(jobs) /\ Len(jobs) \in Nat /\ DOMAIN jobs' = 1..(Len(jobs) + 1)
           /\ \A k \in DOMAIN jobs : k \in DOMAIN jobs' /\ jobs'[k] = jobs[k] /\ jobs[k].of \in Saver
           /\ \A k \in DOMAIN jobs' : k \in DOMAIN jobs \/ k = Len(jobs) + 1
           /\ jobs'[Len(jobs) + 1] = J /\ Len(jobs) + 1 \in DOMAIN jobs'
           /\ pc[s] \in {"waiting", "told", "done"} /\ GroupOf(s) \in Group
<1>1. queue \in Seq(Messages) /\ jobs \in Seq(Job)
  BY DEF IInv, Types, Messaged, Jobs
<1>2. /\ DOMAIN queue = 1..Len(queue) /\ Len(queue) \in Nat /\ Len(queue) > 0
      /\ DOMAIN queue' = 1..(Len(queue) - 1)
      /\ \A i \in DOMAIN queue' : i + 1 \in DOMAIN queue /\ queue'[i] = queue[i + 1]
  BY <1>1, Popped DEF TakenUp
<1>3. /\ DOMAIN jobs = 1..Len(jobs) /\ Len(jobs) \in Nat /\ DOMAIN jobs' = 1..(Len(jobs) + 1)
      /\ \A k \in DOMAIN jobs : jobs'[k] = jobs[k]
      /\ jobs'[Len(jobs) + 1] = J
  BY <1>1, Appended DEF TakenUp
<1>4. 1 \in DOMAIN queue /\ \A i \in DOMAIN queue' : 1 < i + 1
  BY <1>2
<1>5. pc[s] \in {"waiting", "told", "done"}
  BY <1>4 DEF TakenUp, IInv, Ordered, SyncSent
<1>6. \A k \in DOMAIN jobs : jobs[k].of \in Saver
  BY Members DEF IInv
<1>7. /\ \A k \in DOMAIN jobs : k \in DOMAIN jobs'
      /\ \A k \in DOMAIN jobs' : k \in DOMAIN jobs \/ k = Len(jobs) + 1
      /\ Len(jobs) + 1 \in DOMAIN jobs'
  BY <1>3
<1> QED
  BY <1>2, <1>3, <1>4, <1>5, <1>6, <1>7, SaverFacts

LEMMA TakenUpFrames ==
    ASSUME BoundAssumption, IInv, NEW s \in Saver, NEW J, TakenUp(s, J)
    PROVE  Frames' /\ Containers' /\ Numbered' /\ Grouped' /\ Covered'
<1>1. /\ \A x \in Frame : stage[x] # "buffered" => stage'[x] = stage[x]
      /\ \A x \in Frame : stage[x] = "buffered" => stage'[x] \in {"buffered", "written"}
  BY DEF TakenUp
<1>2. Processed' = Processed
  BY <1>1 DEF Processed
<1>3. Dense' /\ Belongs' /\ Filed'
  BY <1>1 DEF TakenUp, IInv, Frames, Dense, Belongs, Filed
<1>4. Containers' /\ Numbered'
  BY <1>2 DEF TakenUp, IInv, Containers, Numbered
<1>5. \A p, g : OfGroup(p, g)' <=> OfGroup(p, g)
  BY <1>2 DEF OfGroup, TakenUp
<1>6. Grouped'
  <2>1. \A g \in Group : \A p \in pending'[g].files : OfGroup(p, g)
    BY DEF TakenUp, IInv, Grouped
  <2>2. ASSUME NEW k \in DOMAIN jobs', NEW p \in jobs'[k].files \cup jobs'[k].done
        PROVE  OfGroup(p, GroupOf(jobs'[k].of))
    <3>1. CASE k \in DOMAIN jobs
      BY <2>2, <3>1, TakenUpFacts DEF IInv, Grouped
    <3>2. CASE k = Len(jobs) + 1
      BY <2>2, <3>2, TakenUpFacts DEF TakenUp, IInv, Grouped
    <3> QED
      BY <3>1, <3>2, TakenUpFacts
  <2> QED
    BY <1>5, <2>1, <2>2 DEF Grouped
<1>7. Covered'
  <2>1. ASSUME NEW x \in Frame, stage'[x] = "written"
        PROVE  \/ file[x] \in pending'[GroupOf(owner[x])].files
               \/ \E j \in DOMAIN jobs' : file[x] \in jobs'[j].files
    <3>1. CASE stage[x] = "buffered"
      BY <3>1, BufferedFacts DEF TakenUp
    <3>2. CASE stage[x] # "buffered"
      <4>1. stage[x] = "written" /\ owner[x] \in Saver
        BY <1>1, <2>1, <3>2 DEF IInv, Types, Kept, Frames, Belongs
      <4>2. CASE \E j \in DOMAIN jobs : file[x] \in jobs[j].files
        BY <4>2, TakenUpFacts
      <4>3. CASE file[x] \in pending[GroupOf(owner[x])].files
        <5>1. CASE GroupOf(owner[x]) = GroupOf(s)
          BY <4>3, <5>1, TakenUpFacts DEF TakenUp
        <5>2. CASE GroupOf(owner[x]) # GroupOf(s)
          BY <4>1, <4>3, <5>2, SaverFacts DEF TakenUp
        <5> QED
          BY <5>1, <5>2
      <4> QED
        BY <4>1, <4>2, <4>3 DEF IInv, Covered
    <3> QED
      BY <3>1, <3>2
  <2>2. ASSUME NEW x \in Frame, stage'[x] = "synced" PROVE \E j \in DOMAIN jobs' : file[x] \in jobs'[j].done
    BY <1>1, <2>2, TakenUpFacts DEF IInv, Covered
  <2> QED
    BY <2>1, <2>2 DEF Covered, TakenUp
<1> QED
  BY <1>3, <1>4, <1>6, <1>7 DEF Frames

LEMMA TakenUpOrdered ==
    ASSUME BoundAssumption, IInv, NEW s \in Saver, NEW J, TakenUp(s, J)
    PROVE  Ordered'
<1>1. \A x \in Frame : ~Handles(x)
  BY DEF Handles, TakenUp, IsFrame, IsSync
<1>2. \A x \in Frame : stage'[x] = "queued" <=> stage[x] = "queued" /\ ~Handles(x)
  BY <1>1 DEF TakenUp
<1>3. QueuedOnce' /\ SyncSent' /\ Line' /\ SyncLine' /\ Held'
  BY <1>2, PopQueue DEF TakenUp
<1>4. UNCHANGED <<pc, owner, file, overlap, verdict>> /\ J.of = s
  BY DEF TakenUp
<1>5. JobSent'
  BY <1>4, TakenUpFacts DEF IInv, Ordered, JobSent
<1>6. JobLine'
  <2>1. ASSUME NEW k \in DOMAIN jobs', NEW i \in DOMAIN queue', IsSync(queue'[i]), InTurn(jobs'[k].of)
        PROVE  jobs'[k].of # queue'[i].of /\ ~Earlier(queue'[i].of, jobs'[k].of)
    <3>1. i + 1 \in DOMAIN queue /\ queue'[i] = queue[i + 1] /\ 1 < i + 1 /\ 1 \in DOMAIN queue
      BY TakenUpFacts
    <3>2. CASE k \in DOMAIN jobs
      BY <2>1, <3>1, <3>2, TakenUpFacts DEF IInv, Ordered, JobLine
    <3>3. CASE k = Len(jobs) + 1
      <4>1. jobs'[k].of = s
        BY <1>4, <3>3, TakenUpFacts
      <4> QED
        BY <2>1, <3>1, <4>1 DEF TakenUp, IInv, Ordered, SyncLine
    <3> QED
      BY <3>2, <3>3, TakenUpFacts
  <2>2. ASSUME NEW j \in DOMAIN jobs', NEW k \in DOMAIN jobs', j < k, InTurn(jobs'[j].of)
        PROVE  jobs'[j].of # jobs'[k].of /\ ~Earlier(jobs'[k].of, jobs'[j].of)
    <3>1. j \in DOMAIN jobs
      BY <2>2, TakenUpFacts
    <3>2. CASE k \in DOMAIN jobs
      BY <2>2, <3>1, <3>2, TakenUpFacts DEF IInv, Ordered, JobLine
    <3>3. CASE k = Len(jobs) + 1
      <4>1. jobs'[k].of = s /\ jobs'[j] = jobs[j] /\ 1 \in DOMAIN queue
        BY <1>4, <3>1, <3>3, TakenUpFacts
      <4> QED
        BY <2>2, <3>1, <4>1 DEF TakenUp, IInv, Ordered, JobLine
    <3> QED
      BY <3>2, <3>3, TakenUpFacts
  <2> QED
    BY <1>4, <2>1, <2>2 DEF JobLine, Earlier, InTurn
<1>7. Awaited'
  <2>1. ASSUME NEW r \in Saver, pc[r] = "waiting"
        PROVE  \/ \E i \in DOMAIN queue' : IsSync(queue'[i]) /\ queue'[i].of = r
               \/ \E k \in DOMAIN jobs' : jobs'[k].of = r
    <3>1. CASE \E k \in DOMAIN jobs : jobs[k].of = r
      BY <3>1, TakenUpFacts
    <3>2. ASSUME NEW i \in DOMAIN queue, IsSync(queue[i]), queue[i].of = r
          PROVE  \/ \E ii \in DOMAIN queue' : IsSync(queue'[ii]) /\ queue'[ii].of = r
                 \/ \E k \in DOMAIN jobs' : jobs'[k].of = r
      <4>1. CASE i = 1
        BY <1>4, <3>2, <4>1, TakenUpFacts DEF TakenUp
      <4>2. CASE i # 1
        <5>1. i - 1 \in DOMAIN queue' /\ (i - 1) + 1 = i
          BY <4>2, TakenUpFacts
        <5>2. queue'[i - 1] = queue[i]
          BY <5>1, TakenUpFacts
        <5> QED
          BY <3>2, <5>1, <5>2
      <4> QED
        BY <4>1, <4>2
    <3> QED
      BY <2>1, <3>1, <3>2 DEF IInv, Ordered, Awaited
  <2> QED
    BY <1>4, <2>1 DEF Awaited
<1>8. JobOwn'
  <2>1. ASSUME NEW k \in DOMAIN jobs', NEW x \in Frame, pc[jobs'[k].of] = "waiting", InTurn(jobs'[k].of),
               owner[x] \in Saver, file[x] \in jobs'[k].files \cup jobs'[k].done
        PROVE  ~Earlier(jobs'[k].of, owner[x])
    <3>1. CASE k \in DOMAIN jobs
      BY <2>1, <3>1, TakenUpFacts DEF IInv, Ordered, JobOwn
    <3>2. CASE k = Len(jobs) + 1 /\ Earlier(s, owner[x])
      <4>1. jobs'[k] = J /\ InTurn(s) /\ 1 \in DOMAIN queue /\ GroupOf(s) \in Group
        BY <1>4, <2>1, <3>2, TakenUpFacts
      <4>2. stage[x] = "queued"
        BY <2>1, <3>2, <4>1 DEF TakenUp, IInv, Ordered, Held
      <4>3. file[x] = NoFile /\ file[x] \in pending[GroupOf(s)].files
        BY <2>1, <4>1, <4>2 DEF TakenUp, IInv, Frames, Filed
      <4> QED
        BY <4>1, <4>3, NotFiled
    <3>3. CASE k = Len(jobs) + 1 /\ ~Earlier(s, owner[x])
      BY <1>4, <3>3, TakenUpFacts
    <3> QED
      BY <3>1, <3>2, <3>3, TakenUpFacts
  <2> QED
    BY <1>4, <2>1 DEF JobOwn, Earlier, InTurn
<1>9. AnsweredInTurn'
  BY <1>4 DEF IInv, Ordered, AnsweredInTurn, Earlier, InTurn
<1> QED
  BY <1>3, <1>5, <1>6, <1>7, <1>8, <1>9 DEF Ordered

LEMMA TakenUpAccount ==
    ASSUME BoundAssumption, IInv, NEW s \in Saver, NEW J, TakenUp(s, J)
    PROVE  Account'
<1>1. \A x \in Frame : stage[x] # "buffered" => stage'[x] = stage[x]
  BY DEF TakenUp
<1>2. UNCHANGED <<pc, owner, file, overlap, verdict, unheard>> /\ J.of = s
  BY DEF TakenUp
<1>3. \A x \in Frame : Missed(x) => Missed(x)'
  BY <1>1, <1>2 DEF Missed
<1>4. ASSUME NEW r \in Saver, InTurn(r), Untaken(r)' PROVE KeptFor(r)'
  <2>1. Untaken(r)
    BY <1>2, <1>4, TakenUpFacts DEF Untaken
  <2>2. r # s
    <3>1. CASE pc[r] \in {"saving", "ended", "asking"}
      BY <3>1, TakenUpFacts
    <3>2. ASSUME NEW i \in DOMAIN queue', IsSync(queue'[i]), queue'[i].of = r PROVE r # s
      <4>1. i + 1 \in DOMAIN queue /\ queue'[i] = queue[i + 1] /\ 1 < i + 1 /\ 1 \in DOMAIN queue
        BY TakenUpFacts
      <4> QED
        BY <1>4, <3>2, <4>1 DEF TakenUp, IInv, Ordered, SyncLine
    <3> QED
      BY <1>2, <1>4, <3>1, <3>2 DEF Untaken
  <2>3. CASE GroupOf(r) = GroupOf(s)
    <3>1. InTurn(s)
      BY <1>4, <2>3, InOrder
    <3>2. Earlier(s, r)
      <4>1. CASE pc[r] \in {"saving", "ended", "asking"}
        <5>1. ~Earlier(r, s)
          BY <1>4, <4>1, Newest, TakenUpFacts DEF IInv, Types
        <5> QED
          BY <2>2, <2>3, <5>1, InOrder
      <4>2. ASSUME NEW i \in DOMAIN queue', IsSync(queue'[i]), queue'[i].of = r PROVE Earlier(s, r)
        <5>1. i + 1 \in DOMAIN queue /\ queue'[i] = queue[i + 1] /\ 1 < i + 1 /\ 1 \in DOMAIN queue
          BY TakenUpFacts
        <5>2. ~Earlier(r, s)
          BY <3>1, <4>2, <5>1 DEF TakenUp, IInv, Ordered, SyncLine
        <5> QED
          BY <2>2, <2>3, <5>2, InOrder
      <4> QED
        BY <1>2, <1>4, <4>1, <4>2 DEF Untaken
    <3>3. ASSUME NEW x \in Frame, owner[x] = r PROVE stage'[x] = "queued"
      <4>2. 1 \in DOMAIN queue /\ IsSync(queue[1]) /\ queue[1].of = s
        BY TakenUpFacts DEF TakenUp
      <4>1. stage[x] = "queued"
        BY <3>1, <3>2, <3>3, <4>2 DEF IInv, Ordered, Held
      <4> QED
        BY <1>1, <4>1
    <3> QED
      BY <1>2, <3>3 DEF KeptFor
  <2>4. CASE GroupOf(r) # GroupOf(s)
    <3>1. pending'[GroupOf(r)] = pending[GroupOf(r)]
      BY <2>4, SaverFacts DEF TakenUp
    <3>2. KeptFor(r)
      BY <1>4, <2>1 DEF IInv, Account, AccountOpen
    <3>3. \A x \in Frame : stage[x] = "buffered" => stage'[x] \in {"buffered", "written"}
      BY DEF TakenUp
    <3> QED
      BY <1>1, <1>2, <1>3, <3>1, <3>2, <3>3 DEF KeptFor
  <2> QED
    BY <2>3, <2>4
<1>5. ASSUME NEW k \in DOMAIN jobs', InTurn(jobs'[k].of), ~jobs'[k].failed, NEW x \in Frame, owner[x] = jobs'[k].of
      PROVE  \/ stage'[x] = "durable" \/ Missed(x)'
             \/ stage'[x] = "written" /\ file[x] \in jobs'[k].files
             \/ stage'[x] = "synced" /\ \E j \in 1..k : file[x] \in jobs'[j].done
  <2>1. CASE k \in DOMAIN jobs
    <3>1. \/ stage[x] = "durable" \/ Missed(x)
          \/ stage[x] = "written" /\ file[x] \in jobs[k].files
          \/ stage[x] = "synced" /\ \E j \in 1..k : file[x] \in jobs[j].done
      BY <1>5, <2>1, TakenUpFacts DEF IInv, Account, AccountInJob, InJob
    <3>2. stage'[x] = stage[x]
      BY <1>1, <3>1 DEF Missed
    <3>3. \A j \in 1..k : jobs'[j] = jobs[j]
      BY <2>1, TakenUpFacts
    <3>4. jobs'[k] = jobs[k]
      BY <2>1, TakenUpFacts
    <3> QED
      BY <1>3, <3>1, <3>2, <3>3, <3>4
  <2>2. CASE k = Len(jobs) + 1
    <3>1. jobs'[k] = J /\ owner[x] = s /\ InTurn(s) /\ ~J.failed /\ 1 \in DOMAIN queue
      BY <1>2, <1>5, <2>2, TakenUpFacts
    <3>2. Untaken(s)
      BY <3>1 DEF TakenUp, Untaken
    <3>3. J.files = pending[GroupOf(s)].files /\ ~pending[GroupOf(s)].failed
      BY <3>1 DEF TakenUp
    <3>4. \/ stage[x] \in {"queued", "synced", "durable"}
          \/ stage[x] \in {"buffered", "written"} /\ file[x] \in pending[GroupOf(s)].files
          \/ Missed(x)
      BY <3>1, <3>2, <3>3 DEF IInv, Account, AccountOpen, KeptFor
    <3>5. stage[x] # "queued"
      <4>1. ASSUME stage[x] = "queued" PROVE FALSE
        <5>1. PICK j \in DOMAIN queue : IsFrame(queue[j]) /\ queue[j].of = x
          BY <4>1 DEF IInv, Ordered, QueuedOnce
        <5>2. j # 1
          BY <5>1 DEF TakenUp, IsFrame, IsSync
        <5>3. 1 < j
          BY <5>1, <5>2, TakenUpFacts
        <5> QED
          BY <3>1, <5>1, <5>3 DEF TakenUp, IInv, Ordered, Line
      <4> QED
        BY <4>1
    <3>6. CASE stage[x] = "buffered"
      <4>1. GroupOf(s) = "Shared"
        BY <3>1, <3>6, BufferedFacts
      <4> QED
        BY <3>1, <3>3, <3>4, <3>6, <4>1 DEF TakenUp, Missed
    <3>7. CASE stage[x] = "synced"
      <4>1. PICK j \in DOMAIN jobs : file[x] \in jobs[j].done
        BY <3>7 DEF IInv, Covered
      <4>2. j \in 1..k /\ jobs'[j] = jobs[j]
        BY <2>2, <4>1, TakenUpFacts
      <4> QED
        BY <1>1, <3>7, <4>1, <4>2
    <3>8. CASE stage[x] \notin {"buffered", "synced"}
      BY <1>1, <1>3, <3>1, <3>3, <3>4, <3>5, <3>8
    <3> QED
      BY <3>6, <3>7, <3>8
  <2> QED
    BY <2>1, <2>2, TakenUpFacts
<1>6. AccountOpen'
  BY <1>2, <1>4 DEF AccountOpen, InTurn
<1>7. AccountInJob'
  BY <1>2, <1>5 DEF AccountInJob, InJob, InTurn
<1>8. AccountTold'
  <2>1. ASSUME NEW r \in Saver, InTurn(r), verdict[r] \in {"idle", "synced"}, NEW x \in Frame, owner[x] = r
        PROVE  stage'[x] = "durable" \/ Missed(x)'
    <3>1. stage[x] = "durable" \/ Missed(x)
      BY <2>1 DEF IInv, Account, AccountTold
    <3> QED
      BY <1>1, <1>3, <3>1
  <2> QED
    BY <1>2, <2>1 DEF AccountTold, InTurn
<1> QED
  BY <1>6, <1>7, <1>8 DEF Account

LEMMA TakeForSyncStep ==
    ASSUME BoundAssumption, IInv, TakeForSync
    PROVE  IInv' /\ \E s \in Saver : \E J \in Job : TakenUp(s, J)
<1> DEFINE s == Subject
           g == GroupOf(s)
           open == g = "Shared" /\ container # NoContainer
<1>1. /\ queue # <<>> /\ Head(queue) = queue[1] /\ queue[1].kind = "sync" /\ s \in Saver
      /\ queue' = Tail(queue) /\ Messaged' /\ Savers' /\ Shown'
      /\ UNCHANGED <<pc, threads, session, plan, issued, hung, entry, asked, verdict, overlap, unheard, owner, dir>>
  BY TakesFacts DEF TakeForSync, Takeover, IsSync
<1>2. g \in Group
  BY <1>1, SaverFacts
<1> DEFINE J(flushed) == [of |-> s, files |-> pending[g].files, done |-> {},
                          failed |-> pending[g].failed \/ ~flushed]
<1>3. PICK flushed \in BOOLEAN :
        /\ Calls(<<flushed>>)
        /\ open \/ flushed
        /\ stage' = IF open /\ flushed THEN Flushed(container, TRUE) ELSE stage
        /\ jobs' = Append(jobs, J(flushed))
        /\ pending' = [pending EXCEPT ![g] = [files |-> IF open THEN {container} ELSE {}, failed |-> FALSE]]
        /\ UNCHANGED <<container, sers, file>>
  BY DEF TakeForSync, Takeover, Outcome
<1>4. J(flushed) \in Job
  BY <1>1, <1>2 DEF Job, IInv, Types, Device
<1>5. Types'
  <2>1. faults \in Nat /\ IsFiniteSet(DOMAIN <<flushed>>)
    BY FrameFacts, BoundAssumption DEF IInv, Types, Sessions
  <2>2. faults' \in 0..MaxFaults
    BY <1>3, <2>1, CallsCount
  <2>3. Sessions'
    BY <1>1, <2>2 DEF IInv, Types, Sessions
  <2>4. Jobs'
    BY <1>3, <1>4, Appended DEF IInv, Types, Jobs
  <2>5. Device' /\ Kept'
    BY <1>1, <1>2, <1>3 DEF Flushed, IInv, Types, Device, Kept, Stages
  <2> QED
    BY <1>1, <2>3, <2>4, <2>5 DEF Types
<1>6. container # NoContainer => container \in pending["Shared"].files
  BY DEF IInv, Containers
<1>7. /\ \A h \in Group : /\ pending'[h].files \subseteq pending[h].files
                          /\ h # g => pending'[h] = pending[h]
      /\ container # NoContainer => container \in pending'["Shared"].files
  BY <1>2, <1>3, <1>6 DEF IInv, Types, Device
<1>8. ASSUME NEW x \in Frame
      PROVE  IF stage[x] = "buffered" /\ g = "Shared"
             THEN stage'[x] = "written" \/ (stage'[x] = "buffered" /\ J(flushed).failed)
             ELSE stage'[x] = stage[x]
  <2>1. stage[x] = "buffered" => file[x] = container /\ container # NoContainer
    BY BufferedFacts
  <2> QED
    BY <1>3, <2>1 DEF Flushed
<1>9. pending[g].failed => J(flushed).failed
  OBVIOUS
<1>10. TakenUp(s, J(flushed))
  <2>1. IsSync(queue[1]) /\ queue[1].of = s /\ J(flushed).of = s /\ J(flushed).files = pending[g].files /\ J(flushed).done = {}
    BY <1>1 DEF IsSync, Subject
  <2>2. jobs' = Append(jobs, J(flushed)) /\ UNCHANGED <<container, sers, file>>
    BY <1>3
  <2>3. \A x \in Frame :
          IF stage[x] = "buffered" /\ GroupOf(s) = "Shared"
          THEN stage'[x] = "written" \/ (stage'[x] = "buffered" /\ J(flushed).failed)
          ELSE stage'[x] = stage[x]
    BY <1>8
  <2>4. /\ \A h \in Group : /\ pending'[h].files \subseteq pending[h].files
                            /\ h # GroupOf(s) => pending'[h] = pending[h]
        /\ container # NoContainer => container \in pending'["Shared"].files
    BY <1>7
  <2>5. /\ queue # <<>> /\ queue' = Tail(queue) /\ J(flushed) \in Job
        /\ pending[GroupOf(s)].failed => J(flushed).failed
        /\ UNCHANGED <<pc, owner, dir, file, overlap, verdict, entry, asked, container, sers, unheard>>
    BY <1>1, <1>4, <1>9, <2>2
  <2> HIDE DEF J, s
  <2> QED
    BY <2>1, <2>2, <2>3, <2>4, <2>5 DEF TakenUp
<1>11. Turns'
  BY <1>1 DEF IInv, Turns, Begun, Behind, AskedInTurn, Screen, Concluded, Counted, Run, InTurn
<1>12. \E r \in Saver : \E K \in Job : TakenUp(r, K)
  <2> HIDE DEF J, s
  <2> QED
    BY <1>1, <1>4, <1>10
<1>13. IInv'
  BY <1>1, <1>5, <1>10, <1>11, TakenUpFrames, TakenUpOrdered, TakenUpAccount DEF IInv
<1> QED
  BY <1>12, <1>13

-----------------------------------------------------------------------------
\* The sync thread's actions: both touch what the head job covers, and nothing
\* else.

LEMMA SameLine ==
    ASSUME IInv, UNCHANGED <<queue, owner, overlap>>,
           \A x \in Frame : stage'[x] = "queued" <=> stage[x] = "queued",
           \A r \in Saver : pc[r] \in {"waiting", "told", "done"} => pc'[r] \in {"waiting", "told", "done"}
    PROVE  QueuedOnce' /\ SyncSent' /\ Line' /\ SyncLine' /\ Held'
<1>1. /\ \A i \in DOMAIN queue : IsSync(queue[i]) => queue[i].of \in Saver
      /\ \A i \in DOMAIN queue : IsFrame(queue[i]) => queue[i].of \in Frame
  BY Members DEF IInv
<1>2. QueuedOnce' /\ SyncSent'
  BY <1>1 DEF IInv, Ordered, QueuedOnce, SyncSent
<1>3. Line' /\ SyncLine' /\ Held'
  BY DEF IInv, Ordered, Line, SyncLine, Held, Earlier, InTurn
<1> QED
  BY <1>2, <1>3

LEMMA HeadFacts ==
    ASSUME BoundAssumption, IInv, jobs # <<>>
    PROVE  /\ 1 \in DOMAIN jobs /\ Head(jobs) = jobs[1] /\ jobs[1] \in Job /\ jobs[1].of \in Saver
           /\ DOMAIN jobs = 1..Len(jobs) /\ Len(jobs) \in Nat
           /\ pc[jobs[1].of] \in {"waiting", "told", "done"}
<1>1. jobs \in Seq(Job)
  BY DEF IInv, Types, Jobs
<1>2. 1 \in DOMAIN jobs /\ Head(jobs) = jobs[1] /\ jobs[1] \in Job /\ DOMAIN jobs = 1..Len(jobs) /\ Len(jobs) \in Nat
  BY <1>1, Popped
<1> QED
  BY <1>2 DEF Job, IInv, Ordered, JobSent

\* A job that is waited for covers no frame of a saver whose own sync is still
\* to come.
LEMMA Covers ==
    ASSUME BoundAssumption, IInv, jobs # <<>>, pc[jobs[1].of] = "waiting",
           NEW x \in Frame, owner[x] \in Saver, InTurn(owner[x]),
           file[x] \in jobs[1].files \cup jobs[1].done
    PROVE  ~Untaken(owner[x]) /\ \A k \in DOMAIN jobs : k # 1 => jobs[k].of # owner[x]
<1> DEFINE s == jobs[1].of
           r == owner[x]
<1>1. /\ s \in Saver /\ pc[s] = "waiting" /\ 1 \in DOMAIN jobs
      /\ \A k \in DOMAIN jobs : k # 1 => 1 < k
  BY HeadFacts
<1>2. GroupOf(r) = GroupOf(s)
  <2>1. OfGroup(file[x], GroupOf(s)) /\ file[x] # NoFile
    BY <1>1, NotFiled DEF IInv, Grouped
  <2>2. CASE file[x] = <<0, x>>
    <3>1. \A p \in sers : p[1] # 0
      BY BoundAssumption DEF IInv, Containers
    <3> QED
      BY <2>1, <2>2, <3>1 DEF OfGroup
  <2>3. CASE file[x] # <<0, x>>
    <3>1. file[x] \in sers /\ r \in Capture
      BY <2>1, <2>3 DEF IInv, Frames, Filed
    <3>2. \A p \in sers : p[1] # 0
      BY BoundAssumption DEF IInv, Containers
    <3> QED
      BY <2>1, <3>1, <3>2 DEF OfGroup, GroupOf
  <2> QED
    BY <2>2, <2>3
<1>3. InTurn(s) /\ (r # s => Earlier(r, s) \/ Earlier(s, r))
  BY <1>1, <1>2, InOrder
<1>4. ~Earlier(s, r)
  BY <1>1, <1>3 DEF IInv, Ordered, JobOwn
<1>5. ASSUME pc[r] \in {"saving", "ended", "asking"} PROVE FALSE
  <2>1. ~Earlier(r, s) /\ r # s
    BY <1>1, <1>5, Newest DEF IInv, Types
  <2> QED
    BY <1>3, <1>4, <2>1
<1>6. ASSUME NEW i \in DOMAIN queue, IsSync(queue[i]), queue[i].of = r PROVE FALSE
  <2>1. s # r /\ ~Earlier(r, s)
    BY <1>1, <1>3, <1>6 DEF IInv, Ordered, JobLine
  <2> QED
    BY <1>3, <1>4, <2>1
<1>7. ASSUME NEW k \in DOMAIN jobs, k # 1, jobs[k].of = r PROVE FALSE
  <2>1. s # r /\ ~Earlier(r, s)
    BY <1>1, <1>3, <1>7 DEF IInv, Ordered, JobLine
  <2> QED
    BY <1>3, <1>4, <2>1
<1> QED
  BY <1>5, <1>6, <1>7 DEF Untaken

LEMMA SyncFileStep == ASSUME BoundAssumption, IInv, SyncFile PROVE IInv'
<1>1. jobs # <<>>
  BY DEF SyncFile
<1> DEFINE J == jobs[1]
<1>2. /\ 1 \in DOMAIN jobs /\ Head(jobs) = J /\ J \in Job /\ J.of \in Saver
      /\ DOMAIN jobs = 1..Len(jobs) /\ Len(jobs) \in Nat
  BY <1>1, HeadFacts
<1>3. PICK p \in J.files, ok \in BOOLEAN :
        /\ Calls(<<ok>>)
        /\ stage' = [f \in Frame |-> IF file[f] = p /\ stage[f] = "written"
                                     THEN IF ok THEN "synced" ELSE "failed"
                                     ELSE stage[f]]
        /\ unheard' = unheard \cup (IF ok THEN {} ELSE Unheard({p}))
        /\ jobs' = [jobs EXCEPT ![1].files = @ \ {p},
                                ![1].done = @ \cup (IF ok THEN {p} ELSE {}),
                                ![1].failed = @ \/ ~ok]
  BY <1>2 DEF SyncFile
<1>4. UNCHANGED <<pc, threads, session, plan, issued, queue, hung, container, sers, pending, owner, dir, file,
                  entry, asked, verdict, overlap>>
  BY DEF SyncFile
<1> DEFINE JJ == [J EXCEPT !.files = @ \ {p}, !.done = @ \cup (IF ok THEN {p} ELSE {}), !.failed = @ \/ ~ok]
<1>5. /\ JJ \in Job /\ JJ.of = J.of /\ JJ.files = J.files \ {p}
      /\ JJ.done = J.done \cup (IF ok THEN {p} ELSE {}) /\ JJ.failed = (J.failed \/ ~ok)
  BY <1>2, <1>3 DEF Job
<1>6. jobs \in Seq(Job)
  BY DEF IInv, Types, Jobs
<1>7. /\ DOMAIN jobs' = DOMAIN jobs /\ jobs'[1] = JJ /\ \A k \in DOMAIN jobs : k # 1 => jobs'[k] = jobs[k]
      /\ jobs' \in Seq(Job)
  <2>1. jobs' = [jobs EXCEPT ![1] = JJ]
    BY <1>2, <1>3, <1>6
  <2> HIDE DEF JJ
  <2> QED
    BY <1>2, <1>5, <1>6, <2>1
<1> HIDE DEF JJ
<1>8. /\ \A k \in DOMAIN jobs : jobs'[k].of = jobs[k].of /\ jobs[k].of \in Saver
      /\ \A k \in DOMAIN jobs : jobs[k].done \subseteq jobs'[k].done
      /\ \A k \in DOMAIN jobs : \A q \in jobs[k].files : q # p => q \in jobs'[k].files
      /\ \A k \in DOMAIN jobs : jobs'[k].files \cup jobs'[k].done \subseteq jobs[k].files \cup jobs[k].done
      /\ ok => p \in jobs'[1].done
      /\ ~ok => jobs'[1].failed
      /\ \A k \in DOMAIN jobs : jobs[k].failed => jobs'[k].failed
  <2>1. \A k \in DOMAIN jobs : jobs'[k].of = jobs[k].of /\ jobs[k].of \in Saver
    BY <1>5, <1>7, Members DEF IInv
  <2>2. \A k \in DOMAIN jobs : jobs[k].done \subseteq jobs'[k].done
    BY <1>5, <1>7
  <2>3. \A k \in DOMAIN jobs : \A q \in jobs[k].files : q # p => q \in jobs'[k].files
    BY <1>5, <1>7
  <2>4. \A k \in DOMAIN jobs : jobs'[k].files \cup jobs'[k].done \subseteq jobs[k].files \cup jobs[k].done
    BY <1>3, <1>5, <1>7
  <2>5. (ok => p \in jobs'[1].done) /\ (~ok => jobs'[1].failed)
    BY <1>5, <1>7
  <2>6. \A k \in DOMAIN jobs : jobs[k].failed => jobs'[k].failed
    <3>1. jobs[1].failed => jobs'[1].failed
      BY <1>5, <1>7
    <3> QED
      BY <1>7, <3>1
  <2> QED
    BY <2>1, <2>2, <2>3, <2>4, <2>5, <2>6
<1>9. /\ \A x \in Frame : stage[x] # "written" => stage'[x] = stage[x]
      /\ \A x \in Frame : stage[x] = "written" =>
            IF file[x] = p THEN IF ok THEN stage'[x] = "synced" ELSE stage'[x] = "failed"
            ELSE stage'[x] = "written"
  BY <1>3
<1>10. /\ unheard \subseteq unheard'
       /\ ~ok /\ pc[J.of] # "waiting" => p \in unheard'
  BY <1>2, <1>3 DEF Unheard
<1>11. Types'
  <2>1. faults \in Nat /\ IsFiniteSet(DOMAIN <<ok>>)
    BY FrameFacts, BoundAssumption DEF IInv, Types, Sessions
  <2>2. faults' \in 0..MaxFaults
    BY <1>3, <2>1, CallsCount
  <2>3. Savers' /\ Sessions' /\ Messaged' /\ Shown'
    BY <1>4, <2>2 DEF IInv, Types, Savers, Sessions, Messaged, Shown
  <2>4. p \in Files
    BY <1>2, <1>3 DEF Job
  <2>5. Device' /\ Jobs'
    BY <1>3, <1>4, <1>7, <2>4 DEF Unheard, IInv, Types, Device, Jobs
  <2>6. Kept'
    BY <1>3, <1>4 DEF IInv, Types, Kept, Stages
  <2> QED
    BY <2>3, <2>5, <2>6 DEF Types
<1>12. Turns'
  BY <1>4 DEF IInv, Turns, Begun, Behind, AskedInTurn, Screen, Concluded, Counted, Run, InTurn
<1>13. Processed' = Processed
  BY <1>9 DEF Processed
<1>14. Frames' /\ Containers' /\ Numbered'
  <2>1. Dense' /\ Belongs'
    BY <1>4, <1>9 DEF IInv, Frames, Dense, Belongs
  <2>2. Filed'
    BY <1>4, <1>9 DEF IInv, Frames, Filed
  <2> QED
    BY <1>4, <1>13, <2>1, <2>2 DEF IInv, Frames, Containers, Numbered
<1>15. Grouped'
  <2>1. \A q, g : OfGroup(q, g)' <=> OfGroup(q, g)
    BY <1>4, <1>13 DEF OfGroup
  <2>2. \A k \in DOMAIN jobs' : \A q \in jobs'[k].files \cup jobs'[k].done : OfGroup(q, GroupOf(jobs'[k].of))
    BY <1>7, <1>8 DEF IInv, Grouped
  <2> QED
    BY <1>4, <2>1, <2>2 DEF IInv, Grouped
<1>16. Covered'
  <2>1. ASSUME NEW x \in Frame, stage'[x] = "written"
        PROVE  \/ file[x] \in pending[GroupOf(owner[x])].files
               \/ \E j \in DOMAIN jobs : file[x] \in jobs'[j].files
    BY <1>8, <1>9, <2>1 DEF IInv, Covered
  <2>2. ASSUME NEW x \in Frame, stage'[x] = "synced" PROVE \E j \in DOMAIN jobs : file[x] \in jobs'[j].done
    <3>1. CASE stage[x] = "synced"
      BY <1>8, <3>1 DEF IInv, Covered
    <3>2. CASE stage[x] # "synced"
      BY <1>2, <1>8, <1>9, <2>2, <3>2
    <3> QED
      BY <3>1, <3>2
  <2> QED
    BY <1>4, <1>7, <2>1, <2>2 DEF Covered
<1>17. Ordered'
  <2>1. \A x \in Frame : stage'[x] = "queued" <=> stage[x] = "queued"
    BY <1>9
  <2>2. QueuedOnce' /\ SyncSent' /\ Line' /\ SyncLine' /\ Held'
    BY <1>4, <2>1, SameLine
  <2>3. JobSent' /\ JobLine' /\ Awaited' /\ AnsweredInTurn'
    BY <1>4, <1>7, <1>8 DEF IInv, Ordered, JobSent, JobLine, Awaited, AnsweredInTurn, Earlier, InTurn
  <2>4. JobOwn'
    <3>1. ASSUME NEW k \in DOMAIN jobs, NEW x \in Frame, pc[jobs'[k].of] = "waiting", InTurn(jobs'[k].of),
                 owner[x] \in Saver, file[x] \in jobs'[k].files \cup jobs'[k].done
          PROVE  ~Earlier(jobs'[k].of, owner[x])
      <4>1. file[x] \in jobs[k].files \cup jobs[k].done
        BY <1>8, <3>1
      <4> QED
        BY <1>8, <3>1, <4>1 DEF IInv, Ordered, JobOwn
    <3> QED
      BY <1>4, <1>7, <3>1 DEF JobOwn, Earlier, InTurn
  <2> QED
    BY <2>2, <2>3, <2>4 DEF Ordered
<1>18. \A x \in Frame : Missed(x) => Missed(x)'
  BY <1>4, <1>9, <1>10 DEF Missed
<1>19. Account'
  <2>1. ASSUME NEW r \in Saver, InTurn(r), Untaken(r) PROVE KeptFor(r)'
    <3>1. KeptFor(r)
      BY <2>1 DEF IInv, Account, AccountOpen
    <3>2. ASSUME NEW x \in Frame, owner[x] = r, stage[x] = "written", file[x] = p, ~ok PROVE Missed(x)'
      <4>1. pc[J.of] # "waiting"
        BY <1>1, <1>3, <2>1, <3>2, Covers
      <4> QED
        BY <1>4, <1>9, <1>10, <3>2, <4>1 DEF Missed
    <3> QED
      BY <1>4, <1>9, <1>18, <3>1, <3>2 DEF KeptFor
  <2>2. AccountOpen'
    BY <1>4, <2>1 DEF AccountOpen, InTurn, Untaken
  <2>3. ASSUME NEW k \in DOMAIN jobs, InTurn(jobs[k].of), ~jobs'[k].failed, NEW x \in Frame, owner[x] = jobs[k].of
        PROVE  \/ stage'[x] = "durable" \/ Missed(x)'
               \/ stage'[x] = "written" /\ file[x] \in jobs'[k].files
               \/ stage'[x] = "synced" /\ \E j \in 1..k : file[x] \in jobs'[j].done
    <3>1. \/ stage[x] = "durable" \/ Missed(x)
          \/ stage[x] = "written" /\ file[x] \in jobs[k].files
          \/ stage[x] = "synced" /\ \E j \in 1..k : file[x] \in jobs[j].done
      BY <1>8, <2>3 DEF IInv, Account, AccountInJob, InJob
    <3>2. CASE stage[x] # "written"
      <4>1. \A j \in 1..k : j \in DOMAIN jobs
        BY <1>2
      <4> QED
        BY <1>8, <1>9, <1>18, <3>1, <3>2, <4>1
    <3>3. CASE stage[x] = "written" /\ file[x] # p
      BY <1>8, <1>9, <3>1, <3>3 DEF Missed
    <3>4. CASE stage[x] = "written" /\ file[x] = p /\ ok
      <4>1. 1 \in 1..k
        BY <1>2
      <4> QED
        BY <1>8, <1>9, <3>4, <4>1
    <3>5. CASE stage[x] = "written" /\ file[x] = p /\ ~ok
      <4>1. k # 1
        BY <1>8, <2>3, <3>5
      <4>2. pc[J.of] # "waiting"
        BY <1>1, <1>3, <1>8, <2>3, <3>5, <4>1, Covers
      <4> QED
        BY <1>4, <1>9, <1>10, <3>5, <4>2 DEF Missed
    <3> QED
      BY <3>2, <3>3, <3>4, <3>5
  <2>4. AccountInJob'
    BY <1>4, <1>7, <1>8, <2>3 DEF AccountInJob, InJob, InTurn
  <2>5. AccountTold'
    BY <1>4, <1>9, <1>18 DEF IInv, Account, AccountTold, InTurn
  <2> QED
    BY <2>2, <2>4, <2>5 DEF Account
<1> QED
  BY <1>11, <1>12, <1>14, <1>15, <1>16, <1>17, <1>19 DEF IInv

LEMMA SyncDirsStep == ASSUME BoundAssumption, IInv, SyncDirs PROVE IInv'
<1>1. jobs # <<>> /\ jobs' = Tail(jobs)
  BY DEF SyncDirs
<1> DEFINE J == jobs[1]
           s == J.of
<1>2. /\ 1 \in DOMAIN jobs /\ Head(jobs) = J /\ J \in Job /\ s \in Saver
      /\ DOMAIN jobs = 1..Len(jobs) /\ Len(jobs) \in Nat /\ pc[s] \in {"waiting", "told", "done"}
  BY <1>1, HeadFacts
<1>3. PICK ok \in BOOLEAN :
        /\ ok \in Outcome(J.done # {}) /\ Calls(<<ok>>)
        /\ stage' = [f \in Frame |-> IF file[f] \in J.done /\ stage[f] = "synced"
                                     THEN IF ok THEN "durable" ELSE "failed"
                                     ELSE stage[f]]
        /\ unheard' = unheard \cup (IF ok THEN {} ELSE Unheard(J.done))
        /\ Reply([J EXCEPT !.failed = @ \/ ~ok])
  <2>1. \A b \in BOOLEAN : Outcome(b) \subseteq BOOLEAN
    BY DEF Outcome
  <2> QED
    BY <1>2, <2>1 DEF SyncDirs
<1>4. /\ J.files = {}
      /\ UNCHANGED <<threads, session, plan, issued, queue, hung, container, sers, pending, owner, dir, file,
                     entry, asked, overlap>>
  BY <1>2 DEF SyncDirs
<1>5. /\ \A r \in Saver : r # s => pc'[r] = pc[r] /\ verdict'[r] = verdict[r]
      /\ pc[s] # "waiting" => UNCHANGED <<pc, verdict>>
      /\ pc[s] = "waiting" =>
            /\ pc' = [pc EXCEPT ![s] = "told"]
            /\ pc'[s] = "told" /\ verdict'[s] \in {"idle", "synced", "failed"}
            /\ verdict'[s] \in {"idle", "synced"} => ok /\ ~J.failed
      /\ Savers'
  <2> DEFINE report == Report([J EXCEPT !.failed = @ \/ ~ok])
  <2>1. [J EXCEPT !.failed = @ \/ ~ok].of = s /\ [J EXCEPT !.failed = @ \/ ~ok].failed = (J.failed \/ ~ok)
    BY <1>2 DEF Job
  <2>2. report \in {"idle", "synced", "failed"} /\ (report \in {"idle", "synced"} => ok /\ ~J.failed)
    BY <2>1 DEF Report
  <2>3. IF pc[s] = "waiting" THEN Conclude(s, report) ELSE UNCHANGED <<pc, verdict>>
    BY <1>3, <2>1 DEF Reply
  <2> HIDE DEF report
  <2>4. pc \in [Saver -> {"none", "saving", "ended", "asking", "waiting", "told", "done"}]
        /\ verdict \in [Saver -> {"none", "idle", "synced", "failed"}]
    BY DEF IInv, Types, Savers
  <2>5. CASE pc[s] = "waiting"
    <3>1. pc' = [pc EXCEPT ![s] = "told"] /\ verdict' = [verdict EXCEPT ![s] = report]
      BY <2>3, <2>5 DEF Conclude, Goto
    <3> QED
      BY <1>2, <1>4, <2>2, <2>4, <2>5, <3>1 DEF IInv, Types, Savers
  <2>6. CASE pc[s] # "waiting"
    BY <1>4, <2>3, <2>6 DEF IInv, Types, Savers
  <2> QED
    BY <2>5, <2>6
<1>6. /\ DOMAIN jobs' = 1..(Len(jobs) - 1) /\ jobs' \in Seq(Job)
      /\ \A k \in DOMAIN jobs' : /\ k + 1 \in DOMAIN jobs /\ k + 1 # 1 /\ k \in Nat /\ jobs'[k] = jobs[k + 1]
                                 /\ jobs[k + 1].of \in Saver
      /\ \A k \in DOMAIN jobs : k # 1 => k - 1 \in DOMAIN jobs' /\ jobs'[k - 1] = jobs[k]
  <2>1. jobs \in Seq(Job)
    BY DEF IInv, Types, Jobs
  <2>2. /\ Tail(jobs) \in Seq(Job) /\ DOMAIN jobs' = 1..(Len(jobs) - 1)
        /\ \A k \in DOMAIN jobs' : k + 1 \in DOMAIN jobs /\ jobs'[k] = jobs[k + 1]
    BY <1>1, <2>1, Popped
  <2>3. \A k \in DOMAIN jobs' : k + 1 # 1 /\ k \in Nat
    BY <1>2, <2>2
  <2>4. ASSUME NEW k \in DOMAIN jobs, k # 1 PROVE k - 1 \in DOMAIN jobs' /\ jobs'[k - 1] = jobs[k]
    <3>1. k - 1 \in DOMAIN jobs' /\ (k - 1) + 1 = k
      BY <1>2, <2>2, <2>4
    <3> QED
      BY <2>2, <3>1
  <2>5. \A k \in DOMAIN jobs : jobs[k].of \in Saver
    BY Members DEF IInv
  <2> QED
    BY <1>1, <2>2, <2>3, <2>4, <2>5
<1>7. /\ \A x \in Frame : stage[x] # "synced" => stage'[x] = stage[x]
      /\ \A x \in Frame : stage[x] = "synced" =>
            IF file[x] \in J.done THEN IF ok THEN stage'[x] = "durable" ELSE stage'[x] = "failed"
            ELSE stage'[x] = "synced"
  BY <1>3
<1>8. /\ unheard \subseteq unheard'
      /\ ~ok /\ pc[s] # "waiting" => J.done \subseteq unheard'
  BY <1>2, <1>3 DEF Unheard
<1>9. Types'
  <2>1. faults \in Nat /\ IsFiniteSet(DOMAIN <<ok>>)
    BY FrameFacts, BoundAssumption DEF IInv, Types, Sessions
  <2>2. faults' \in 0..MaxFaults
    BY <1>3, <2>1, CallsCount
  <2>3. Sessions' /\ Messaged' /\ Shown'
    BY <1>4, <2>2 DEF IInv, Types, Sessions, Messaged, Shown
  <2>4. Device' /\ Jobs'
    BY <1>2, <1>3, <1>4, <1>6 DEF Unheard, IInv, Types, Device, Jobs, Job
  <2>5. Kept'
    BY <1>3, <1>4 DEF IInv, Types, Kept, Stages
  <2> QED
    BY <1>5, <2>3, <2>4, <2>5 DEF Types
<1>10. Turns'
  <2>1. CASE pc[s] # "waiting"
    BY <1>4, <1>5, <2>1 DEF IInv, Turns, Begun, Behind, AskedInTurn, Screen, Concluded, Counted, Run, InTurn
  <2>2. CASE pc[s] = "waiting"
    <3>1. <<pc[s], "told">> \in Onward /\ verdict'[s] # "none" /\ "told" # "ended"
      BY <1>5, <2>2 DEF Onward
    <3> QED
      BY <1>2, <1>4, <1>5, <2>2, <3>1, SameTurns
  <2> QED
    BY <2>1, <2>2
<1>11. /\ \A r \in Saver : pc'[r] = "waiting" => pc[r] = "waiting" /\ r # s
       /\ \A r \in Saver : pc[r] # "none" => pc'[r] # "none"
       /\ \A r \in Saver : pc[r] \in {"waiting", "told", "done"} <=> pc'[r] \in {"waiting", "told", "done"}
       /\ \A r \in Saver : pc'[r] \in {"saving", "ended", "asking"} => pc[r] = pc'[r]
  <2>1. CASE pc[s] = "waiting"
    BY <1>5, <2>1
  <2>2. CASE pc[s] # "waiting"
    BY <1>5, <2>2
  <2> QED
    BY <2>1, <2>2
<1>12. Processed' = Processed
  BY <1>7 DEF Processed
<1>13. Frames' /\ Containers' /\ Numbered'
  <2>1. Dense' /\ Belongs'
    BY <1>4, <1>7, <1>11 DEF IInv, Frames, Dense, Belongs
  <2>2. Filed'
    BY <1>4, <1>7 DEF IInv, Frames, Filed
  <2> QED
    BY <1>4, <1>12, <2>1, <2>2 DEF IInv, Frames, Containers, Numbered
<1>14. Grouped'
  <2>1. \A q, g : OfGroup(q, g)' <=> OfGroup(q, g)
    BY <1>4, <1>12 DEF OfGroup
  <2>2. \A k \in DOMAIN jobs' : \A q \in jobs'[k].files \cup jobs'[k].done : OfGroup(q, GroupOf(jobs'[k].of))
    BY <1>6 DEF IInv, Grouped
  <2> QED
    BY <1>4, <2>1, <2>2 DEF IInv, Grouped
<1>15. Covered'
  <2>1. ASSUME NEW x \in Frame, stage'[x] = "written"
        PROVE  \/ file[x] \in pending[GroupOf(owner[x])].files
               \/ \E j \in DOMAIN jobs' : file[x] \in jobs'[j].files
    <3>1. stage[x] = "written"
      BY <1>7, <2>1
    <3>2. ASSUME NEW j \in DOMAIN jobs, file[x] \in jobs[j].files PROVE \E i \in DOMAIN jobs' : file[x] \in jobs'[i].files
      BY <1>4, <1>6, <3>2
    <3> QED
      BY <3>1, <3>2 DEF IInv, Covered
  <2>2. ASSUME NEW x \in Frame, stage'[x] = "synced" PROVE \E j \in DOMAIN jobs' : file[x] \in jobs'[j].done
    <3>1. stage[x] = "synced" /\ file[x] \notin J.done
      BY <1>7, <2>2
    <3>2. PICK j \in DOMAIN jobs : file[x] \in jobs[j].done
      BY <3>1 DEF IInv, Covered
    <3> QED
      BY <1>6, <3>1, <3>2
  <2> QED
    BY <1>4, <2>1, <2>2 DEF Covered
<1>16. Ordered'
  <2>1. \A x \in Frame : stage'[x] = "queued" <=> stage[x] = "queued"
    BY <1>7
  <2>2. QueuedOnce' /\ SyncSent' /\ Line' /\ SyncLine' /\ Held'
    BY <1>4, <1>11, <2>1, SameLine
  <2>3. JobSent'
    BY <1>6, <1>11 DEF IInv, Ordered, JobSent
  <2>4. JobLine'
    <3>1. ASSUME NEW k \in DOMAIN jobs', NEW i \in DOMAIN queue, IsSync(queue[i]), InTurn(jobs'[k].of)
          PROVE  jobs'[k].of # queue[i].of /\ ~Earlier(queue[i].of, jobs'[k].of)
      BY <1>6, <3>1 DEF IInv, Ordered, JobLine
    <3>2. ASSUME NEW j \in DOMAIN jobs', NEW k \in DOMAIN jobs', j < k, InTurn(jobs'[j].of)
          PROVE  jobs'[j].of # jobs'[k].of /\ ~Earlier(jobs'[k].of, jobs'[j].of)
      <4>1. j + 1 \in DOMAIN jobs /\ k + 1 \in DOMAIN jobs /\ j + 1 < k + 1
            /\ jobs'[j] = jobs[j + 1] /\ jobs'[k] = jobs[k + 1]
        BY <1>6, <3>2
      <4> QED
        BY <3>2, <4>1 DEF IInv, Ordered, JobLine
    <3> QED
      BY <1>4, <3>1, <3>2 DEF JobLine, Earlier, InTurn
  <2>5. Awaited'
    <3>1. ASSUME NEW r \in Saver, pc'[r] = "waiting", NEW k \in DOMAIN jobs, jobs[k].of = r
          PROVE  \E i \in DOMAIN jobs' : jobs'[i].of = r
      <4>1. k # 1
        BY <1>11, <3>1
      <4> QED
        BY <1>6, <3>1, <4>1
    <3> QED
      BY <1>4, <1>11, <3>1 DEF IInv, Ordered, Awaited
  <2>6. JobOwn'
    <3>1. ASSUME NEW k \in DOMAIN jobs', NEW x \in Frame, pc'[jobs'[k].of] = "waiting", InTurn(jobs'[k].of),
                 owner[x] \in Saver, file[x] \in jobs'[k].files \cup jobs'[k].done
          PROVE  ~Earlier(jobs'[k].of, owner[x])
      <4>1. k + 1 \in DOMAIN jobs /\ jobs'[k] = jobs[k + 1] /\ pc[jobs[k + 1].of] = "waiting"
        BY <1>6, <1>11, <3>1
      <4> QED
        BY <3>1, <4>1 DEF IInv, Ordered, JobOwn
    <3> QED
      BY <1>4, <3>1 DEF JobOwn, Earlier, InTurn
  <2>7. AnsweredInTurn'
    <3>1. ASSUME NEW r \in Saver, NEW q \in Saver, Earlier(r, q), InTurn(q), verdict'[q] \in {"idle", "synced"},
                 pc'[r] = "waiting"
          PROVE  FALSE
      <4>1. pc[r] = "waiting" /\ r # s
        BY <1>11, <3>1
      <4>2. CASE q # s \/ pc[s] # "waiting"
        <5>1. verdict'[q] = verdict[q]
          BY <1>5, <4>2
        <5> QED
          BY <3>1, <4>1, <5>1 DEF IInv, Ordered, AnsweredInTurn
      <4>3. CASE q = s
        <5>1. ASSUME NEW i \in DOMAIN queue, IsSync(queue[i]), queue[i].of = r PROVE FALSE
          BY <1>2, <3>1, <4>3, <5>1 DEF IInv, Ordered, JobLine
        <5>2. ASSUME NEW k \in DOMAIN jobs, jobs[k].of = r PROVE FALSE
          <6>1. k # 1 /\ 1 < k
            BY <1>2, <4>1, <5>2
          <6> QED
            BY <1>2, <3>1, <4>3, <5>2, <6>1 DEF IInv, Ordered, JobLine
        <5> QED
          BY <4>1, <5>1, <5>2 DEF IInv, Ordered, Awaited
      <4> QED
        BY <4>2, <4>3
    <3> QED
      BY <1>4, <3>1 DEF AnsweredInTurn, Earlier, InTurn
  <2> QED
    BY <2>2, <2>3, <2>4, <2>5, <2>6, <2>7 DEF Ordered
<1>17. \A x \in Frame : Missed(x) => Missed(x)'
  BY <1>4, <1>7, <1>8 DEF Missed
<1>18. Account'
  <2>1. ASSUME NEW r \in Saver, InTurn(r), Untaken(r)' PROVE KeptFor(r)'
    <3>1. Untaken(r)
      BY <1>4, <1>11, <2>1 DEF Untaken
    <3>2. KeptFor(r)
      BY <2>1, <3>1 DEF IInv, Account, AccountOpen
    <3>3. ASSUME NEW x \in Frame, owner[x] = r, stage[x] = "synced", file[x] \in J.done, ~ok PROVE Missed(x)'
      <4>1. pc[s] # "waiting"
        BY <1>1, <2>1, <3>1, <3>3, Covers
      <4> QED
        BY <1>4, <1>7, <1>8, <3>3, <4>1 DEF Missed
    <3> QED
      BY <1>4, <1>7, <1>17, <3>2, <3>3 DEF KeptFor
  <2>2. AccountOpen'
    BY <1>4, <2>1 DEF AccountOpen, InTurn
  <2>3. ASSUME NEW k \in DOMAIN jobs', InTurn(jobs'[k].of), ~jobs'[k].failed, NEW x \in Frame, owner[x] = jobs'[k].of
        PROVE  \/ stage'[x] = "durable" \/ Missed(x)'
               \/ stage'[x] = "written" /\ file[x] \in jobs'[k].files
               \/ stage'[x] = "synced" /\ \E j \in 1..k : file[x] \in jobs'[j].done
    <3>1. k + 1 \in DOMAIN jobs /\ k + 1 # 1 /\ jobs'[k] = jobs[k + 1]
      BY <1>6
    <3>2. \/ stage[x] = "durable" \/ Missed(x)
          \/ stage[x] = "written" /\ file[x] \in jobs[k + 1].files
          \/ stage[x] = "synced" /\ \E j \in 1..(k + 1) : file[x] \in jobs[j].done
      BY <2>3, <3>1 DEF IInv, Account, AccountInJob, InJob
    <3>3. CASE stage[x] # "synced"
      BY <1>7, <1>17, <3>1, <3>2, <3>3
    <3>4. CASE stage[x] = "synced" /\ file[x] \in J.done /\ ok
      BY <1>7, <3>4
    <3>5. CASE stage[x] = "synced" /\ file[x] \in J.done /\ ~ok
      <4>1. pc[s] # "waiting"
        BY <1>1, <1>6, <2>3, <3>1, <3>5, Covers
      <4> QED
        BY <1>4, <1>7, <1>8, <3>5, <4>1 DEF Missed
    <3>6. CASE stage[x] = "synced" /\ file[x] \notin J.done
      <4>1. PICK j \in 1..(k + 1) : file[x] \in jobs[j].done
        BY <3>2, <3>6 DEF Missed
      <4>2. j # 1 /\ j \in DOMAIN jobs /\ j - 1 \in 1..k
        BY <1>2, <1>6, <3>1, <3>6, <4>1
      <4> QED
        BY <1>6, <1>7, <3>6, <4>1, <4>2
    <3> QED
      BY <3>3, <3>4, <3>5, <3>6
  <2>4. AccountInJob'
    BY <1>4, <2>3 DEF AccountInJob, InJob, InTurn
  <2>5. AccountTold'
    <3>1. ASSUME NEW r \in Saver, InTurn(r), verdict'[r] \in {"idle", "synced"}, NEW x \in Frame, owner[x] = r
          PROVE  stage'[x] = "durable" \/ Missed(x)'
      <4>1. CASE r # s \/ pc[s] # "waiting"
        <5>1. verdict'[r] = verdict[r]
          BY <1>5, <4>1
        <5>2. stage[x] = "durable" \/ Missed(x)
          BY <3>1, <5>1 DEF IInv, Account, AccountTold
        <5> QED
          BY <1>7, <1>17, <5>2
      <4>2. CASE r = s /\ pc[s] = "waiting"
        <5>1. ok /\ ~J.failed
          BY <1>5, <3>1, <4>2
        <5>2. \/ stage[x] = "durable" \/ Missed(x)
              \/ stage[x] = "synced" /\ \E j \in 1..1 : file[x] \in jobs[j].done
          BY <1>2, <1>4, <3>1, <4>2, <5>1 DEF IInv, Account, AccountInJob, InJob
        <5> QED
          BY <1>7, <1>17, <5>1, <5>2
      <4> QED
        BY <4>1, <4>2
    <3> QED
      BY <1>4, <3>1 DEF AccountTold, InTurn
  <2> QED
    BY <2>2, <2>4, <2>5 DEF Account
<1> QED
  BY <1>9, <1>10, <1>13, <1>14, <1>15, <1>16, <1>18 DEF IInv

-----------------------------------------------------------------------------

LEMMA InitStep == ASSUME BoundAssumption, Init PROVE IInv
<1>1. Types
  <2>1. 0 \in 0..MaxFaults /\ <<0, 0>> \in Files /\ 0 <= MaxQueue
    BY BoundAssumption DEF Files
  <2>2. Savers /\ Sessions
    BY <2>1 DEF Init, Savers, Sessions
  <2>4. Messaged
    <3>1. Len(queue) = 0 /\ queue \in Seq(Messages)
      BY DEF Init
    <3> QED
      BY <2>1, <3>1 DEF Messaged
  <2>3. Device /\ Jobs /\ Kept /\ Shown
    BY <2>1 DEF Init, Device, Jobs, Kept, Shown, Stages
  <2> QED
    BY <2>2, <2>3, <2>4 DEF Types
<1>2. Turns
  <2>1. \A s \in Saver : Turn(s) \in Nat \ {0} /\ Run(s) = 0 /\ pc[s] = "none" /\ verdict[s] = "none"
    BY SaverFacts DEF Init, Run
  <2>2. Begun /\ Behind /\ AskedInTurn /\ Screen /\ Concluded
    BY <2>1 DEF Begun, Behind, AskedInTurn, Screen, Concluded
  <2>3. Counted
    BY BoundAssumption DEF Init, Counted
  <2> QED
    BY <2>2, <2>3 DEF Turns
<1>3. Processed = {}
  BY DEF Init, Processed
<1>4. Frames
  <2>1. Dense
    <3>1. 0 \in 0..MaxFrames /\ \A f \in Frame : ~(f <= 0)
      BY BoundAssumption DEF Frame
    <3> QED
      BY <3>1 DEF Init, Dense
  <2>2. Belongs
    BY SaverFacts DEF Init, Belongs, Saver
  <2>3. Filed
    BY DEF Init, Filed
  <2> QED
    BY <2>1, <2>2, <2>3 DEF Frames
<1>5. Containers
  BY DEF Init, Containers
<1>6. Numbered
  <2>1. 0 \in 0..MaxFrames /\ \A f \in Frame : ~(f <= 0)
    BY BoundAssumption DEF Frame
  <2>2. Cardinality(Processed) = 0
    BY <1>3, FS_EmptySet
  <2> QED
    BY <2>1, <2>2 DEF Init, Numbered
<1>7. Grouped /\ Covered
  BY DEF Init, Grouped, Covered
<1>8. Ordered
  <2>1. QueuedOnce /\ SyncSent /\ Line /\ SyncLine /\ Held /\ JobSent /\ JobLine /\ JobOwn
    BY DEF Init, QueuedOnce, SyncSent, Line, SyncLine, Held, JobSent, JobLine, JobOwn
  <2>2. Awaited /\ AnsweredInTurn
    BY DEF Init, Awaited, AnsweredInTurn
  <2> QED
    BY <2>1, <2>2 DEF Ordered
<1>9. Account
  <2>1. AccountOpen /\ AccountInJob
    BY DEF Init, AccountOpen, Untaken, AccountInJob
  <2>2. AccountTold
    BY DEF Init, AccountTold
  <2> QED
    BY <2>1, <2>2 DEF Account
<1> QED
  BY <1>1, <1>2, <1>4, <1>5, <1>6, <1>7, <1>8, <1>9 DEF IInv

LEMMA NextStep == ASSUME BoundAssumption, IInv, [Next]_vars PROVE IInv'
<1>1. ASSUME NEW s \in Saver, StartCapture(s) \/ StartLoop(s) \/ QueueRaw(s) PROVE IInv'
  BY <1>1, StartCaptureStep, StartLoopStep, QueueRawStep
<1>2. ASSUME NEW s \in Saver, Ending(s) PROVE IInv'
  BY <1>2, FinishContainerStep, SaveStackStep, EndSessionStep DEF Ending
<1>3. ASSUME NEW s \in Saver, Syncing(s) PROVE IInv'
  BY <1>3, AskSyncStep, SendSyncStep, GiveUpOnAnswerStep, AnnounceStep DEF Syncing
<1>4. ASSUME NEW films \in BOOLEAN, NEW saves \in BOOLEAN, UpdateSettings(films, saves) PROVE IInv'
  BY <1>4, UpdateSettingsStep
<1>5. CASE Writer
  BY <1>5, WriteFitsStep, WriteSerStep, CloseContainerStep, TakeForSyncStep DEF Writer
<1>6. CASE Syncer
  BY <1>6, SyncFileStep, SyncDirsStep DEF Syncer
<1>7. ASSUME NEW t \in {"writer", "syncer"}, Hang(t) \/ Recover(t) PROVE IInv'
  BY <1>7, HangStep
<1>8. CASE UNCHANGED vars
  BY <1>8, StutterStep
<1> QED
  BY <1>1, <1>2, <1>3, <1>4, <1>5, <1>6, <1>7, <1>8 DEF Next

\* The invariant the properties below follow from, for every number of captures,
\* loops, frames and faults, and whatever the queue holds.
THEOREM InductiveInvariant == Spec => []IInv
<1>1. Init => IInv
  BY InitStep, BoundAssumption
<1>2. IInv /\ [Next]_vars => IInv'
  BY NextStep, BoundAssumption
<1> QED
  BY <1>1, <1>2, PTL DEF Spec

\* Every variable keeps its type, and the queue its bound.
THEOREM TypeCorrect == Spec => []TypeOK
<1>1. IInv => TypeOK
  <2> SUFFICES ASSUME IInv PROVE TypeOK
    OBVIOUS
  <2>1. /\ MaxCaptures \in Nat /\ MaxLoops \in Nat
        /\ entry["Shared"].run <= MaxCaptures /\ entry["Owned"].run <= MaxLoops
    BY BoundAssumption DEF IInv, Turns, Counted
  <2>2. entry \in [Group -> [state : {"idle", "syncing", "synced", "failed"},
                             run : 0..(MaxCaptures + MaxLoops)]]
    BY <2>1 DEF IInv, Types, Shown
  <2> QED
    BY <2>2 DEF IInv, Types, Savers, Sessions, Messaged, Device, Jobs, Job, Kept, TypeOK
<1> QED
  BY <1>1, InductiveInvariant, PTL

\* "Synced" covers every file of the camera but those of a capture that was told
\* of a failure, and those whose sync failed unheard: what the screen shows is the
\* newest saver's verdict, and the earlier ones were answered before it.
THEOREM SyncedIsDurable == Spec => []SyncedMeansDurable
<1>1. IInv => SyncedMeansDurable
  <2> SUFFICES ASSUME IInv, NEW g \in Group, entry[g].state = "synced", g = "Owned" => ~overlap,
                      NEW f \in Frame, owner[f] # NoSaver, GroupOf(owner[f]) = g
               PROVE  \/ stage[f] = "durable" \/ verdict[owner[f]] = "failed"
                      \/ stage[f] = "failed" /\ file[f] \in unheard
    BY DEF SyncedMeansDurable
  <2> DEFINE r == owner[f]
  <2>1. r \in Saver /\ pc[r] # "none" /\ Savers /\ Shown /\ Turns
    BY DEF IInv, Types, Kept, Frames, Belongs
  <2>2. InTurn(r)
    <3>1. r \in Loop => GroupOf(r) = "Owned"
      BY <2>1, SaverFacts, BoundAssumption
    <3> QED
      BY <3>1 DEF InTurn
  <2>3. Turn(r) <= Run(r) /\ Run(r) = entry[g].run /\ Run(r) \in Nat /\ Turn(r) \in Nat \ {0}
    BY <2>1, SaverFacts, BoundAssumption DEF Turns, Begun, Run, Shown
  <2>4. PICK s \in Saver : GroupOf(s) = g /\ Turn(s) = entry[g].run
    <3>1. CASE g = "Shared"
      <4>1. entry[g].run \in Capture /\ entry[g].run \in Saver
        BY <2>1, <2>3, <3>1, BoundAssumption DEF Turns, Counted, Capture, Saver
      <4> QED
        BY <3>1, <4>1, SaverFacts, BoundAssumption
    <3>2. CASE g = "Owned"
      <4>1. -(entry[g].run) \in Loop /\ -(entry[g].run) \in Saver /\ -(-(entry[g].run)) = entry[g].run
        BY <2>1, <2>3, <3>2, BoundAssumption DEF Turns, Counted, Loop, Saver
      <4>2. -(entry[g].run) \notin Capture
        BY <4>1, SaverFacts, BoundAssumption
      <4> QED
        BY <3>2, <4>1, <4>2, SaverFacts, BoundAssumption
    <3> QED
      BY <3>1, <3>2
  <2>5. InTurn(s) /\ Turn(s) = Run(s) /\ pc[s] # "none"
    BY <2>1, <2>2, <2>3, <2>4, InOrder, BoundAssumption DEF Turns, Begun, Run
  <2>6. pc[s] = "done" /\ verdict[s] = "synced"
    BY <2>1, <2>4, <2>5 DEF Turns, Screen, Savers
  <2>7. CASE verdict[r] \in {"idle", "synced"}
    BY <2>1, <2>2, <2>7 DEF IInv, Account, AccountTold, Missed
  <2>8. CASE verdict[r] = "none"
    <3>1. r # s /\ GroupOf(r) = GroupOf(s) /\ Turn(r) <= Turn(s)
      BY <2>3, <2>4, <2>6, <2>8
    <3>5. Turn(r) \in Nat /\ Turn(s) \in Nat
      BY <2>1, SaverFacts, BoundAssumption
    <3>6. Earlier(r, s) \/ Earlier(s, r)
      BY <2>1, <3>1, InOrder, BoundAssumption
    <3>2. Earlier(r, s)
      BY <3>1, <3>5, <3>6 DEF Earlier
    <3>3. pc[r] \in {"waiting", "told", "done"}
      BY <2>1, <2>5, <3>2, Elder, BoundAssumption
    <3>4. pc[r] # "waiting"
      BY <2>1, <2>5, <2>6, <3>2 DEF IInv, Ordered, AnsweredInTurn
    <3> QED
      BY <2>1, <2>8, <3>3, <3>4 DEF Turns, Concluded
  <2> QED
    BY <2>1, <2>7, <2>8 DEF Savers
<1> QED
  BY <1>1, InductiveInvariant, PTL

\* No frame the writer took and did not fail drops out of what is still to be
\* synced, and none is emptied by a container created over it.
THEOREM NothingForgotten == Spec => []NothingIsForgotten
<1>1. IInv => NothingIsForgotten
  <2> SUFFICES ASSUME IInv, NEW f \in Frame
               PROVE  /\ stage[f] \in {"buffered", "written"} =>
                            \/ file[f] \in pending[GroupOf(owner[f])].files
                            \/ stage[f] = "written" /\ \E j \in DOMAIN jobs : file[f] \in jobs[j].files
                      /\ stage[f] = "synced" => \E j \in DOMAIN jobs : file[f] \in jobs[j].done
                      /\ stage[f] # "lost"
    BY DEF NothingIsForgotten
  <2>1. stage[f] = "buffered" => file[f] \in pending[GroupOf(owner[f])].files
    BY BufferedFacts, BoundAssumption
  <2> QED
    BY <2>1 DEF IInv, Covered, Frames, Filed
<1> QED
  BY <1>1, InductiveInvariant, PTL

\* The frames of a container are stamped with the folder it is in.
THEOREM OneFolder == Spec => []OneFolderPerContainer
<1>1. IInv => OneFolderPerContainer
  <2> SUFFICES ASSUME IInv, NEW f \in Frame, file[f][1] # 0 PROVE file[f][1] = dir[f]
    BY DEF OneFolderPerContainer
  <2>1. file[f] \notin {NoFile, <<0, f>>}
    OBVIOUS
  <2> QED
    BY <2>1 DEF IInv, Frames, Filed
<1> QED
  BY <1>1, InductiveInvariant, PTL

\* Nothing the observer sees of a camera that saves is of an earlier capture.
THEOREM NoVerdictWhileSaving == Spec => []NoVerdictOverASavingCamera
<1>1. IInv => NoVerdictOverASavingCamera
  <2> SUFFICES ASSUME IInv, NEW s \in Saver, pc[s] = "saving", s \in Loop => ~overlap
               PROVE  entry[GroupOf(s)].state = "idle"
    BY DEF NoVerdictOverASavingCamera
  <2>1. Savers /\ Shown /\ Turns /\ InTurn(s)
    BY DEF IInv, Types, InTurn
  <2>2. Turn(s) = Run(s)
    BY <2>1, Newest, BoundAssumption
  <2> QED
    BY <2>1, <2>2 DEF Turns, Screen
<1> QED
  BY <1>1, InductiveInvariant, PTL

-----------------------------------------------------------------------------
\* The promise: two more invariants, of the syncs that were given up on.

\* No sync of s is on its way.
NoSync(s) ==
    /\ \A i \in DOMAIN queue : IsSync(queue[i]) => queue[i].of # s
    /\ \A k \in DOMAIN jobs : jobs[k].of # s

Answered == \A c \in Capture : verdict[c] \in {"idle", "synced"} => NoSync(c)

\* A file of the captures fails unheard only once one of them was told so.
Silenced == \A p \in unheard : OfGroup(p, "Owned") \/ \E c \in Capture : verdict[c] = "failed"

PInv == IInv /\ Answered /\ Silenced

\* What every step leaves of verdicts and of unheard failures.
Steady ==
    /\ \A f \in Processed : f \in Processed' /\ owner'[f] = owner[f]
    /\ \A c \in Capture : verdict[c] # "none" => verdict'[c] = verdict[c]
    /\ unheard \subseteq unheard'
    /\ \A p \in unheard' :
          p \in unheard \/ OfGroup(p, "Owned") \/ \E c \in Capture : verdict[c] = "failed"

\* Syncs come from savers that wait, and go from the queue to the jobs.
NoNewSync ==
    \A i \in DOMAIN queue' : IsSync(queue'[i]) =>
        pc'[queue'[i].of] = "waiting" \/ \E j \in DOMAIN queue : queue[j] = queue'[i]

NoNewJob ==
    \A k \in DOMAIN jobs' :
        \/ \E j \in DOMAIN jobs : jobs[j].of = jobs'[k].of
        \/ \E j \in DOMAIN queue : IsSync(queue[j]) /\ queue[j].of = jobs'[k].of

GoodNews ==
    \A c \in Capture : verdict'[c] \in {"idle", "synced"} => verdict'[c] = verdict[c] \/ NoSync(c)'

LEMMA CaptureIsSaver == BoundAssumption => Capture \subseteq Saver /\ Capture \cap Loop = {}
  BY DEF BoundAssumption, Capture, Saver, Loop

LEMMA OwnedStays ==
    ASSUME Steady, NEW p, OfGroup(p, "Owned")
    PROVE  OfGroup(p, "Owned")'
  BY DEF Steady, OfGroup

LEMMA PromiseStep ==
    ASSUME BoundAssumption, PInv, IInv', Steady, NoNewSync, NoNewJob, GoodNews
    PROVE  PInv'
<1>1. Answered'
  <2>1. SUFFICES ASSUME NEW c \in Capture, verdict'[c] \in {"idle", "synced"} PROVE NoSync(c)'
    BY DEF Answered
  <2>2. CASE verdict'[c] = verdict[c]
    <3>1. NoSync(c)
      BY <2>1, <2>2 DEF PInv, Answered
    <3>2. pc'[c] # "waiting"
      <4>1. Concluded' /\ c \in Saver
        BY CaptureIsSaver DEF IInv, Turns
      <4> QED
        BY <2>1, <4>1 DEF Concluded
    <3>3. \A i \in DOMAIN queue' : IsSync(queue'[i]) => queue'[i].of # c
      BY <3>1, <3>2 DEF NoSync, NoNewSync, IsSync
    <3>4. \A k \in DOMAIN jobs' : jobs'[k].of # c
      BY <3>1 DEF NoSync, NoNewJob
    <3> QED
      BY <3>3, <3>4 DEF NoSync, IsSync
  <2> QED
    BY <2>1, <2>2 DEF GoodNews
<1>2. Silenced'
  <2>1. SUFFICES ASSUME NEW p \in unheard', ~(\E c \in Capture : verdict'[c] = "failed")
                 PROVE  OfGroup(p, "Owned")'
    BY DEF Silenced
  <2>2. ~(\E c \in Capture : verdict[c] = "failed")
    BY <2>1 DEF Steady
  <2>3. OfGroup(p, "Owned")
    BY <2>1, <2>2 DEF Steady, PInv, Silenced
  <2> QED
    BY <2>3, OwnedStays
<1> QED
  BY <1>1, <1>2 DEF PInv

LEMMA QueueSteady ==
    ASSUME Types,
           \/ queue' = queue
           \/ queue # <<>> /\ queue' = Tail(queue)
           \/ \E m \in Messages : /\ queue' = Append(queue, m)
                                  /\ IsSync(m) => pc'[m.of] = "waiting"
    PROVE  NoNewSync
<1>1. queue \in Seq(Messages)
  BY DEF Types, Messaged
<1>2. CASE queue # <<>> /\ queue' = Tail(queue)
  BY <1>1, <1>2, Popped DEF NoNewSync
<1>3. ASSUME NEW m \in Messages, queue' = Append(queue, m), IsSync(m) => pc'[m.of] = "waiting"
      PROVE  NoNewSync
  <2>1. /\ DOMAIN queue' = 1..(Len(queue) + 1) /\ Len(queue) \in Nat /\ DOMAIN queue = 1..Len(queue)
        /\ \A i \in DOMAIN queue : queue'[i] = queue[i]
        /\ queue'[Len(queue) + 1] = m
    BY <1>1, <1>3, Appended
  <2>4. \A n \in Nat : \A i \in 1..(n + 1) : i \in 1..n \/ i = n + 1
    OBVIOUS
  <2>2. \A i \in DOMAIN queue' : i \in DOMAIN queue \/ i = Len(queue) + 1
    BY <2>1, <2>4
  <2>3. ASSUME NEW i \in DOMAIN queue', IsSync(queue'[i])
        PROVE  pc'[queue'[i].of] = "waiting" \/ \E j \in DOMAIN queue : queue[j] = queue'[i]
    <3>1. CASE i \in DOMAIN queue
      BY <2>1, <3>1
    <3>2. CASE i = Len(queue) + 1
      BY <1>3, <2>1, <2>3, <3>2
    <3> QED
      BY <2>2, <3>1, <3>2
  <2> QED
    BY <2>3 DEF NoNewSync
<1> QED
  BY <1>2, <1>3 DEF NoNewSync

\* Neither the writer nor the sync thread moves.
LEMMA SaverPromise ==
    ASSUME BoundAssumption, PInv, IInv', NoNewSync, UNCHANGED <<jobs, unheard>>,
           \A f \in Processed : f \in Processed' /\ owner'[f] = owner[f],
           \/ UNCHANGED verdict
           \/ \E s \in Saver : verdict[s] = "none" /\ verdict' = [verdict EXCEPT ![s] = "failed"]
    PROVE  PInv'
<1>1. \A c \in Capture : c \in Saver
  BY CaptureIsSaver
<1>2. verdict \in [Saver -> {"none", "idle", "synced", "failed"}]
  BY DEF PInv, IInv, Types, Savers
<1>3. Steady
  BY <1>1, <1>2 DEF Steady
<1>4. GoodNews
  BY <1>1, <1>2 DEF GoodNews
<1>5. NoNewJob
  BY DEF NoNewJob
<1> QED
  BY <1>3, <1>4, <1>5, PromiseStep

-----------------------------------------------------------------------------
\* The steps as SavePromise sees them.

\* A frame of the imaging camera is in no file of a guide camera.
LEMMA CameraFile ==
    ASSUME BoundAssumption, IInv', NEW f \in Frame, OfCamera(f)', NEW p, p = file'[f]
    PROVE  ~OfGroup(p, "Owned")'
<1>1. 0 \notin SerSession /\ 0 \notin Frame
  BY FrameFacts, BoundAssumption
<1>2. SUFFICES ASSUME OfGroup(p, "Owned")' PROVE FALSE
  OBVIOUS
<1>3. p[1] = 0 /\ p[2] \in Frame /\ GroupOf(owner'[p[2]]) = "Owned"
  BY <1>2 DEF OfGroup, Processed
<1>4. p = <<0, f>>
  BY <1>1, <1>3 DEF IInv, Frames, Filed, Containers
<1> QED
  BY <1>3, <1>4 DEF OfCamera, GroupOf

LEMMA PhaseFacts ==
    ASSUME NEW s
    PROVE  /\ pc[s] = "none" => Phase(s) = "none"
           /\ pc[s] = "done" => Phase(s) = "done"
           /\ pc[s] \in {"saving", "ended"} => Phase(s) = "saving"
           /\ pc[s] \in {"asking", "waiting", "told"} => Phase(s) = "syncing"
  BY DEF Phase

LEMMA PhasesNext ==
    ASSUME NEW s
    PROVE  /\ pc'[s] = "none" => Phase(s)' = "none"
           /\ pc'[s] = "done" => Phase(s)' = "done"
           /\ pc'[s] \in {"saving", "ended"} => Phase(s)' = "saving"
           /\ pc'[s] \in {"asking", "waiting", "told"} => Phase(s)' = "syncing"
  BY DEF Phase

LEMMA FateFacts ==
    ASSUME NEW f
    PROVE  /\ ~OfCamera(f) => Fate(f) = "none"
           /\ OfCamera(f) /\ stage[f] = "durable" => Fate(f) = "kept"
           /\ OfCamera(f) /\ stage[f] = "failed" => Fate(f) = "lost"
           /\ OfCamera(f) /\ stage[f] \notin {"durable", "failed", "lost"} => Fate(f) = "pending"
  BY DEF Fate

LEMMA FatesNext ==
    ASSUME NEW f
    PROVE  /\ ~OfCamera(f)' => Fate(f)' = "none"
           /\ OfCamera(f)' /\ stage'[f] = "durable" => Fate(f)' = "kept"
           /\ OfCamera(f)' /\ stage'[f] = "failed" => Fate(f)' = "lost"
           /\ OfCamera(f)' /\ stage'[f] \notin {"durable", "failed", "lost"} => Fate(f)' = "pending"
  BY DEF Fate

LEMMA SamePhases ==
    ASSUME \A c \in Capture : Phase(c)' = Phase(c)
    PROVE  [c \in Capture |-> Phase(c)]' = [c \in Capture |-> Phase(c)]
  OBVIOUS

LEMMA SameFrames ==
    ASSUME UNCHANGED <<stage, owner, file, unheard>>
    PROVE  /\ [f \in Frame |-> IF OfCamera(f) THEN owner[f] ELSE NoSaver]'
                = [f \in Frame |-> IF OfCamera(f) THEN owner[f] ELSE NoSaver]
           /\ [f \in Frame |-> Fate(f)]' = [f \in Frame |-> Fate(f)]
           /\ {f \in Frame : OfCamera(f) /\ stage[f] = "failed" /\ file[f] \in unheard}'
                = {f \in Frame : OfCamera(f) /\ stage[f] = "failed" /\ file[f] \in unheard}
  BY DEF OfCamera, Fate

\* What the writer and the sync thread do, as far as the captures see it, and
\* what a capture does that gives up.
Works ==
    /\ UNCHANGED <<owner, entry>>
    /\ \A c \in Capture : Phase(c)' = Phase(c)
    /\ \A f \in Frame : stage[f] \in {"durable", "failed"} => stage'[f] = stage[f] /\ file'[f] = file[f]
    /\ \/ \A c \in Capture : verdict'[c] = verdict[c]
       \/ \E c \in Capture : /\ Phase(c) = "syncing" /\ verdict[c] = "none"
                             /\ verdict'[c] \in {"idle", "synced", "failed"}
                             /\ \A b \in Capture : b # c => verdict'[b] = verdict[b]

LEMMA FatesSettle ==
    ASSUME IInv, IInv', UNCHANGED owner, NEW f \in Frame,
           stage[f] \in {"durable", "failed"} => stage'[f] = stage[f]
    PROVE  /\ Fate(f)' \in {"none", "pending", "kept", "lost"}
           /\ \/ Fate(f)' = Fate(f)
              \/ Fate(f) = "pending" /\ Fate(f)' \in {"kept", "lost"}
<1>1. OfCamera(f)' <=> OfCamera(f)
  BY DEF OfCamera
<1>2. stage[f] # "lost" /\ stage'[f] # "lost"
  BY DEF IInv, Frames, Filed
<1>3. CASE ~OfCamera(f)
  BY <1>1, <1>3, FateFacts, FatesNext
<1>4. CASE OfCamera(f) /\ stage[f] \in {"durable", "failed"}
  BY <1>1, <1>4, FateFacts, FatesNext
<1>5. CASE OfCamera(f) /\ stage[f] \notin {"durable", "failed"}
  <2>1. Fate(f) = "pending" /\ Fate(f)' \in {"pending", "kept", "lost"}
    BY <1>1, <1>2, <1>5, FateFacts, FatesNext
  <2> QED
    BY <2>1
<1> QED
  BY <1>3, <1>4, <1>5

\* A frame is newly lost in silence only after a capture was told a failure.
LEMMA SilentlyLost ==
    ASSUME BoundAssumption, PInv, IInv', Steady, UNCHANGED owner,
           NEW f \in Frame, OfCamera(f), stage'[f] = "failed", file'[f] \in unheard',
           ~(stage[f] = "failed" /\ file[f] \in unheard)
    PROVE  \E c \in Capture : verdict[c] = "failed"
<1>1. OfCamera(f)'
  BY DEF OfCamera
<1>2. PICK p : p = file'[f]
  OBVIOUS
<1>3. ~OfGroup(p, "Owned")'
  BY <1>1, <1>2, CameraFile
<1>4. ~OfGroup(p, "Owned")
  BY <1>3, OwnedStays
<1> QED
  BY <1>2, <1>4 DEF Steady, PInv, Silenced

LEMMA DeviceMaps ==
    ASSUME BoundAssumption, PInv, PInv', Steady, Works
    PROVE  Promised!Device
<1> DEFINE fates == [f \in Frame |-> Fate(f)]
           silents == {f \in Frame : OfCamera(f) /\ stage[f] = "failed" /\ file[f] \in unheard}
           owners == [f \in Frame |-> IF OfCamera(f) THEN owner[f] ELSE NoSaver]
           phases == [c \in Capture |-> Phase(c)]
           news == [c \in Capture |-> verdict[c]]
<1>1. IInv /\ IInv' /\ \A f \in Frame : OfCamera(f)' <=> OfCamera(f)
  BY DEF PInv, Works, OfCamera
<1>2. \A f \in Frame : /\ fates'[f] \in {"none", "pending", "kept", "lost"}
                       /\ \/ fates'[f] = fates[f]
                          \/ fates[f] = "pending" /\ fates'[f] \in {"kept", "lost"}
  BY <1>1, FatesSettle DEF Works
<1>3. silents \subseteq silents'
  BY <1>1 DEF Works, Steady
<1>4. \A f \in silents' : fates'[f] = "lost"
  BY FatesNext
<1>5. silents' # silents => \E c \in Capture : news[c] = "failed"
  <2>1. SUFFICES ASSUME NEW f \in silents', f \notin silents PROVE \E c \in Capture : verdict[c] = "failed"
    BY <1>3
  <2> QED
    BY <1>1, <2>1, SilentlyLost DEF Works
<1>6. UNCHANGED <<phases, owners, entry["Shared"].state>>
  <2>1. phases' = phases
    BY SamePhases DEF Works
  <2>2. owners' = owners
    BY <1>1 DEF Works
  <2> QED
    BY <2>1, <2>2 DEF Works
<1>7. ASSUME NEW c \in Capture, verdict'[c] \in {"idle", "synced"}, NEW f \in Frame, owners'[f] = c
      PROVE  fates'[f] = "kept" \/ f \in silents'
  <2>1. c \in Saver /\ InTurn(c)' /\ c # NoSaver
    BY CaptureIsSaver, SaverFacts DEF InTurn
  <2>2. OfCamera(f)' /\ owner'[f] = c
    BY <1>7, <2>1
  <2>3. stage'[f] = "durable" \/ Missed(f)'
    BY <1>1, <1>7, <2>1, <2>2 DEF IInv, Account, AccountTold
  <2> QED
    BY <2>2, <2>3, FatesNext DEF Missed
<1>8. \/ news' = news
      \/ \E c \in Capture :
            /\ phases[c] = "syncing" /\ news[c] = "none"
            /\ \E v \in {"idle", "synced", "failed"} :
                  /\ news' = [news EXCEPT ![c] = v]
                  /\ v # "failed" => \A f \in Frame : owners'[f] = c => fates'[f] = "kept" \/ f \in silents'
  <2>1. CASE \A c \in Capture : verdict'[c] = verdict[c]
    BY <2>1
  <2>2. ASSUME NEW c \in Capture, Phase(c) = "syncing", verdict[c] = "none",
               verdict'[c] \in {"idle", "synced", "failed"},
               \A b \in Capture : b # c => verdict'[b] = verdict[b]
        PROVE  /\ phases[c] = "syncing" /\ news[c] = "none"
               /\ news' = [news EXCEPT ![c] = verdict'[c]]
               /\ verdict'[c] # "failed" => \A f \in Frame : owners'[f] = c => fates'[f] = "kept" \/ f \in silents'
    BY <1>7, <2>2
  <2>3. SUFFICES ASSUME ~(\A c \in Capture : verdict'[c] = verdict[c])
                 PROVE  \E c \in Capture :
                           /\ phases[c] = "syncing" /\ news[c] = "none"
                           /\ \E v \in {"idle", "synced", "failed"} :
                                 /\ news' = [news EXCEPT ![c] = v]
                                 /\ v # "failed" => \A f \in Frame :
                                       owners'[f] = c => fates'[f] = "kept" \/ f \in silents'
    BY <2>1
  <2>4. PICK c \in Capture : /\ Phase(c) = "syncing" /\ verdict[c] = "none"
                             /\ verdict'[c] \in {"idle", "synced", "failed"}
                             /\ \A b \in Capture : b # c => verdict'[b] = verdict[b]
    BY <2>3 DEF Works
  <2>5. /\ phases[c] = "syncing" /\ news[c] = "none"
        /\ news' = [news EXCEPT ![c] = verdict'[c]]
        /\ verdict'[c] # "failed" => \A f \in Frame : owners'[f] = c => fates'[f] = "kept" \/ f \in silents'
    BY <2>2, <2>4
  <2> HIDE DEF fates, silents, owners, phases, news
  <2> QED
    BY <2>4, <2>5
<1> HIDE DEF fates, silents, owners, phases, news
<1>9. fates' \in [Frame -> {"none", "pending", "kept", "lost"}]
  BY <1>2 DEF fates
<1> QED
  <2>1. \A f \in Frame : Promised!Settles(f)
    BY <1>2 DEF Promised!Settles, fates
  <2>2. news' = news \/ \E c \in Capture : Promised!Verdict(c)
    BY <1>8 DEF Promised!Verdict, Promised!Verdicts, Promised!Spared, news, phases, owners, fates, silents
  <2> QED
    BY <1>3, <1>4, <1>5, <1>6, <1>9, <2>1, <2>2 DEF Promised!Device, fates, silents, owners, phases, news

LEMMA WritesMap ==
    ASSUME BoundAssumption, PInv, IInv', Writes
    PROVE  PInv' /\ Promised!Device
<1>1. IInv /\ Types
  BY DEF PInv, IInv
<1>2. \A f \in Frame : stage[f] # "queued" => Keeps(f)
  BY <1>1, HandledFacts DEF Writes
<1>3. Steady
  <2>1. \A f \in Processed : f \in Processed' /\ owner'[f] = owner[f]
    BY <1>2 DEF Processed, Keeps, Writes
  <2> QED
    BY <2>1 DEF Steady, Writes
<1>4. NoNewSync
  BY <1>1, QueueSteady DEF Writes
<1>5. NoNewJob /\ GoodNews
  BY DEF NoNewJob, GoodNews, Writes
<1>6. PInv'
  BY <1>3, <1>4, <1>5, PromiseStep
<1>7. Works
  <2>1. \A c \in Capture : Phase(c)' = Phase(c)
    BY DEF Writes, Phase
  <2>2. \A f \in Frame : stage[f] \in {"durable", "failed"} => stage'[f] = stage[f] /\ file'[f] = file[f]
    BY <1>2 DEF Keeps
  <2> QED
    BY <2>1, <2>2 DEF Works, Writes
<1> QED
  BY <1>3, <1>6, <1>7, DeviceMaps

LEMMA TakenUpMaps ==
    ASSUME BoundAssumption, PInv, IInv', NEW s \in Saver, NEW J \in Job, TakenUp(s, J)
    PROVE  PInv' /\ Promised!Device
<1>1. IInv /\ Types
  BY DEF PInv, IInv
<1>2. \A f \in Frame : stage[f] # "buffered" => stage'[f] = stage[f] /\ file'[f] = file[f]
  BY DEF TakenUp
<1>3. Steady
  <2>1. \A f \in Processed : f \in Processed' /\ owner'[f] = owner[f]
    BY DEF Processed, TakenUp
  <2> QED
    BY <2>1 DEF Steady, TakenUp
<1>4. NoNewSync
  BY <1>1, QueueSteady DEF TakenUp
<1>5. NoNewJob
  <2>1. /\ \A k \in DOMAIN jobs : jobs'[k] = jobs[k]
        /\ \A k \in DOMAIN jobs' : k \in DOMAIN jobs \/ k = Len(jobs) + 1
        /\ jobs'[Len(jobs) + 1] = J /\ 1 \in DOMAIN queue
    BY <1>1, TakenUpFacts
  <2>2. IsSync(queue[1]) /\ queue[1].of = J.of
    BY DEF TakenUp
  <2> QED
    BY <2>1, <2>2 DEF NoNewJob
<1>6. GoodNews
  BY DEF GoodNews, TakenUp
<1>7. PInv'
  BY <1>3, <1>4, <1>5, <1>6, PromiseStep
<1>8. Works
  <2>1. \A c \in Capture : Phase(c)' = Phase(c)
    BY DEF TakenUp, Phase
  <2> QED
    BY <1>2, <2>1 DEF Works, TakenUp
<1> QED
  BY <1>3, <1>7, <1>8, DeviceMaps

\* What the head job covers fails unheard only if its saver was told so.
LEMMA HeadUnheard ==
    ASSUME BoundAssumption, PInv, jobs # <<>>, NEW files, NEW p \in Unheard(files),
           files \subseteq jobs[1].files \cup jobs[1].done
    PROVE  OfGroup(p, "Owned") \/ \E c \in Capture : verdict[c] = "failed"
<1> DEFINE s == jobs[1].of
<1>1. 1 \in DOMAIN jobs /\ Head(jobs) = jobs[1] /\ s \in Saver /\ pc[s] \in {"waiting", "told", "done"} /\ IInv
  BY HeadFacts DEF PInv
<1>2. p \in files /\ pc[s] # "waiting"
  BY <1>1 DEF Unheard
<1>3. OfGroup(p, GroupOf(s))
  BY <1>1, <1>2 DEF IInv, Grouped
<1>4. CASE s \in Capture
  <2>1. verdict[s] # "none"
    BY <1>1, <1>2 DEF IInv, Turns, Concluded
  <2>2. verdict[s] \notin {"idle", "synced"}
    BY <1>1, <1>4 DEF PInv, Answered, NoSync
  <2>3. verdict[s] = "failed"
    BY <1>1, <2>1, <2>2 DEF IInv, Types, Savers
  <2> QED
    BY <1>4, <2>3
<1>5. CASE s \notin Capture
  BY <1>3, <1>5 DEF GroupOf
<1> QED
  BY <1>4, <1>5

LEMMA SyncFileMaps ==
    ASSUME BoundAssumption, PInv, IInv', SyncFile
    PROVE  PInv' /\ Promised!Device
<1>1. IInv /\ Types /\ jobs # <<>>
  BY DEF PInv, IInv, SyncFile
<1>2. Head(jobs) = jobs[1]
  BY <1>1, HeadFacts
<1>3. PICK p \in jobs[1].files, ok \in BOOLEAN :
        /\ stage' = [f \in Frame |-> IF file[f] = p /\ stage[f] = "written"
                                     THEN IF ok THEN "synced" ELSE "failed"
                                     ELSE stage[f]]
        /\ unheard' = unheard \cup (IF ok THEN {} ELSE Unheard({p}))
        /\ jobs' = [jobs EXCEPT ![1].files = @ \ {p},
                                ![1].done = @ \cup (IF ok THEN {p} ELSE {}),
                                ![1].failed = @ \/ ~ok]
  BY <1>2 DEF SyncFile
<1>4. UNCHANGED <<pc, queue, owner, file, entry, verdict>>
  BY DEF SyncFile
<1>5. \A f \in Frame : stage[f] # "written" => stage'[f] = stage[f] /\ file'[f] = file[f]
  BY <1>3, <1>4
<1>6. Steady
  <2>1. \A f \in Processed : f \in Processed' /\ owner'[f] = owner[f]
    BY <1>3, <1>4 DEF Processed
  <2>2. \A q \in unheard' : q \in unheard \/ OfGroup(q, "Owned") \/ \E c \in Capture : verdict[c] = "failed"
    <3>1. {p} \subseteq jobs[1].files \cup jobs[1].done
      OBVIOUS
    <3>2. \A q \in Unheard({p}) : OfGroup(q, "Owned") \/ \E c \in Capture : verdict[c] = "failed"
      BY <1>1, <3>1, HeadUnheard
    <3> QED
      BY <1>3, <3>2
  <2> QED
    BY <1>3, <1>4, <2>1, <2>2 DEF Steady
<1>7. NoNewSync
  BY <1>1, <1>4, QueueSteady
<1>8. NoNewJob
  <2>1. jobs \in Seq(Job)
    BY <1>1 DEF Types, Jobs
  <2>2. DOMAIN jobs' = DOMAIN jobs /\ \A k \in DOMAIN jobs : jobs'[k].of = jobs[k].of
    BY <1>3, <2>1 DEF Job
  <2> QED
    BY <2>2 DEF NoNewJob
<1>9. GoodNews
  BY <1>4 DEF GoodNews
<1>10. PInv'
  BY <1>6, <1>7, <1>8, <1>9, PromiseStep
<1>11. Works
  <2>1. \A c \in Capture : Phase(c)' = Phase(c)
    BY <1>4 DEF Phase
  <2> QED
    BY <1>4, <1>5, <2>1 DEF Works
<1> QED
  BY <1>6, <1>10, <1>11, DeviceMaps

\* Who moves on changes the phase of nobody else.
LEMMA PhaseMoves ==
    ASSUME BoundAssumption, IInv, NEW s \in Saver, NEW place, pc' = [pc EXCEPT ![s] = place]
    PROVE  pc'[s] = place /\ \A c \in Capture : c # s => Phase(c)' = Phase(c)
<1>1. \A c \in Saver : c # s => pc'[c] = pc[c]
  BY DEF IInv, Types, Savers
<1>2. pc'[s] = place
  BY DEF IInv, Types, Savers
<1>3. ASSUME NEW c \in Capture, c # s PROVE Phase(c)' = Phase(c)
  <2>1. pc'[c] = pc[c]
    BY <1>1, <1>3, CaptureIsSaver
  <2>2. pc[c] \in {"none", "saving", "ended", "asking", "waiting", "told", "done"}
    BY CaptureIsSaver DEF IInv, Types, Savers
  <2> QED
    BY <2>1, <2>2, PhaseFacts, PhasesNext
<1> QED
  BY <1>2, <1>3

LEMMA SyncDirsMaps ==
    ASSUME BoundAssumption, PInv, IInv', SyncDirs
    PROVE  PInv' /\ Promised!Device
<1> DEFINE J == jobs[1]
<1>1. IInv /\ Types /\ jobs # <<>> /\ jobs' = Tail(jobs)
  BY DEF PInv, IInv, SyncDirs
<1>0. PICK s : s = J.of
  OBVIOUS
<1>2. /\ Head(jobs) = J /\ s \in Saver /\ J \in Job /\ J.of = s
      /\ DOMAIN jobs = 1..Len(jobs) /\ Len(jobs) \in Nat /\ 1 \in DOMAIN jobs
  BY <1>0, <1>1, HeadFacts
<1>3. PICK ok \in BOOLEAN :
        /\ stage' = [f \in Frame |-> IF file[f] \in J.done /\ stage[f] = "synced"
                                     THEN IF ok THEN "durable" ELSE "failed"
                                     ELSE stage[f]]
        /\ unheard' = unheard \cup (IF ok THEN {} ELSE Unheard(J.done))
        /\ Reply([J EXCEPT !.failed = @ \/ ~ok])
  <2>1. \A b \in BOOLEAN : Outcome(b) \subseteq BOOLEAN
    BY DEF Outcome
  <2> QED
    BY <1>2, <2>1 DEF SyncDirs
<1>4. UNCHANGED <<queue, owner, file, entry>>
  BY DEF SyncDirs
<1>5. \/ UNCHANGED <<pc, verdict>>
      \/ /\ pc[s] = "waiting" /\ pc' = [pc EXCEPT ![s] = "told"]
         /\ \E v \in {"idle", "synced", "failed"} : verdict' = [verdict EXCEPT ![s] = v]
  <2> DEFINE job == [J EXCEPT !.failed = @ \/ ~ok]
  <2>1. job.of = s
    BY <1>2 DEF Job
  <2>2. Report(job) \in {"idle", "synced", "failed"}
    BY DEF Report
  <2> HIDE DEF job
  <2> QED
    BY <1>3, <2>1, <2>2 DEF Reply, Conclude, Goto, job
<1>6. verdict \in [Saver -> {"none", "idle", "synced", "failed"}] /\ (pc[s] = "waiting" => verdict[s] = "none")
  BY <1>1, <1>2 DEF IInv, Types, Savers, Turns, Concluded
<1>7. \A f \in Frame : stage[f] # "synced" => stage'[f] = stage[f] /\ file'[f] = file[f]
  BY <1>3, <1>4
<1>8. Steady
  <2>1. \A f \in Processed : f \in Processed' /\ owner'[f] = owner[f]
    BY <1>3, <1>4 DEF Processed
  <2>2. \A q \in Unheard(J.done) : OfGroup(q, "Owned") \/ \E c \in Capture : verdict[c] = "failed"
    BY <1>1, HeadUnheard
  <2>3. \A c \in Capture : verdict[c] # "none" => verdict'[c] = verdict[c]
    BY <1>5, <1>6, CaptureIsSaver
  <2> QED
    BY <1>3, <2>1, <2>2, <2>3 DEF Steady
<1>9. NoNewSync
  BY <1>1, <1>4, QueueSteady
<1>10. /\ DOMAIN jobs' = 1..(Len(jobs) - 1)
       /\ \A k \in DOMAIN jobs' : k + 1 \in DOMAIN jobs /\ 1 < k + 1 /\ jobs'[k] = jobs[k + 1]
  <2>1. jobs \in Seq(Job)
    BY <1>1 DEF Types, Jobs
  <2>2. /\ DOMAIN jobs' = 1..(Len(jobs) - 1)
        /\ \A k \in DOMAIN jobs' : k + 1 \in DOMAIN jobs /\ jobs'[k] = jobs[k + 1]
    BY <1>1, <2>1, Popped
  <2>3. \A n \in Nat : \A k \in 1..(n - 1) : 1 < k + 1
    OBVIOUS
  <2> QED
    BY <1>2, <2>2, <2>3
<1>11. NoNewJob
  BY <1>10 DEF NoNewJob
<1>12. GoodNews
  <2>1. SUFFICES ASSUME NEW c \in Capture, verdict'[c] # verdict[c] PROVE NoSync(c)'
    BY DEF GoodNews
  <2>2. c = s /\ InTurn(s)
    BY <1>2, <1>5, <1>6, <2>1, CaptureIsSaver DEF InTurn
  <2>3. /\ \A i \in DOMAIN queue : IsSync(queue[i]) => queue[i].of # s
        /\ \A k \in DOMAIN jobs : 1 < k => jobs[k].of # s
    BY <1>1, <1>2, <2>2 DEF IInv, Ordered, JobLine
  <2>4. \A k \in DOMAIN jobs' : jobs'[k].of # s
    BY <1>10, <2>3
  <2> QED
    BY <1>4, <2>2, <2>3, <2>4 DEF NoSync
<1>13. PInv'
  BY <1>8, <1>9, <1>11, <1>12, PromiseStep
<1>14. Works
  <2>1. CASE UNCHANGED <<pc, verdict>>
    <3>1. \A c \in Capture : Phase(c)' = Phase(c)
      BY <2>1 DEF Phase
    <3> QED
      BY <1>4, <1>7, <2>1, <3>1 DEF Works
  <2>2. CASE /\ pc[s] = "waiting" /\ pc' = [pc EXCEPT ![s] = "told"]
             /\ \E v \in {"idle", "synced", "failed"} : verdict' = [verdict EXCEPT ![s] = v]
    <3>1. pc'[s] = "told" /\ \A c \in Capture : c # s => Phase(c)' = Phase(c)
      BY <1>1, <1>2, <2>2, PhaseMoves
    <3>2. Phase(s) = "syncing" /\ Phase(s)' = "syncing"
      BY <2>2, <3>1, PhaseFacts, PhasesNext
    <3>3. \A c \in Capture : Phase(c)' = Phase(c)
      BY <3>1, <3>2
    <3>4. verdict'[s] \in {"idle", "synced", "failed"} /\ \A c \in Saver : c # s => verdict'[c] = verdict[c]
      BY <1>2, <1>6, <2>2
    <3>5. CASE s \in Capture
      BY <1>4, <1>6, <1>7, <2>2, <3>2, <3>3, <3>4, <3>5, CaptureIsSaver DEF Works
    <3>6. CASE s \notin Capture
      BY <1>4, <1>7, <3>3, <3>4, <3>6, CaptureIsSaver DEF Works
    <3> QED
      BY <3>5, <3>6
  <2> QED
    BY <1>5, <2>1, <2>2
<1> QED
  BY <1>8, <1>13, <1>14, DeviceMaps

\* Nothing that a capture is promised moves.
LEMMA Rests ==
    ASSUME BoundAssumption, UNCHANGED <<stage, owner, file, unheard>>,
           \A c \in Capture : Phase(c)' = Phase(c) /\ verdict'[c] = verdict[c],
           entry'["Shared"].state = entry["Shared"].state
    PROVE  UNCHANGED Promised!saveVars
<1>1. [c \in Capture |-> Phase(c)]' = [c \in Capture |-> Phase(c)]
  BY SamePhases
<1>2. [c \in Capture |-> verdict[c]]' = [c \in Capture |-> verdict[c]]
  OBVIOUS
<1> QED
  BY <1>1, <1>2, SameFrames DEF Promised!saveVars

\* A message that is no sync enters the queue, or none does.
LEMMA TellSteady ==
    ASSUME Types, NEW m \in Messages, ~IsSync(m), Tell(m) \/ UNCHANGED queue
    PROVE  NoNewSync
<1>1. queue' = queue \/ queue' = Append(queue, m)
  BY DEF Tell, Send, GiveUp
<1> QED
  BY <1>1, QueueSteady

LEMMA StartCaptureMaps ==
    ASSUME BoundAssumption, PInv, IInv', NEW s \in Saver, StartCapture(s)
    PROVE  PInv' /\ Promised!Begin(s) /\ s \in Capture
<1>1. IInv /\ Types
  BY DEF PInv, IInv
<1>2. /\ s \in Capture /\ pc[s] = "none" /\ pc' = [pc EXCEPT ![s] = "saving"]
      /\ entry' = [entry EXCEPT !["Shared"] = [state |-> "idle", run |-> @.run + 1]]
      /\ UNCHANGED <<queue, jobs, stage, owner, file, unheard, verdict>>
  BY DEF StartCapture, Reset, Goto, GroupOf
<1>3. PInv'
  <2>1. NoNewSync
    BY <1>1, <1>2, QueueSteady
  <2> QED
    BY <1>2, <2>1, SaverPromise DEF Processed
<1>4. pc'[s] = "saving" /\ \A c \in Capture : c # s => Phase(c)' = Phase(c)
  BY <1>1, <1>2, PhaseMoves
<1>5. \A b \in Capture : Phase(b) \in {"none", "done"}
  <2>1. ASSUME NEW b \in Capture PROVE pc[b] \in {"none", "done"}
    <3>1. b \in Saver /\ Turn(b) = b /\ Turn(s) = s /\ b \in Nat /\ s \in Nat /\ b > 0 /\ s > 0
          /\ Run(b) = Run(s)
      BY <1>2, CaptureIsSaver, SaverFacts DEF Run
    <3>2. CASE b < s
      BY <3>1, <3>2 DEF StartCapture
    <3>3. CASE b >= s
      <4>1. ~(s <= Run(s)) /\ Run(s) \in Nat
        BY <1>1, <1>2, <3>1, SaverFacts DEF IInv, Types, Shown, Turns, Begun, Run
      <4>2. ~(b <= Run(b))
        BY <3>1, <3>3, <4>1
      <4> QED
        BY <1>1, <3>1, <4>2 DEF IInv, Turns, Begun
    <3> QED
      BY <3>1, <3>2, <3>3
  <2> QED
    BY <2>1, PhaseFacts
<1>6. Phase(s) = "none" /\ Phase(s)' = "saving"
  BY <1>2, <1>4, PhaseFacts, PhasesNext
<1>7. [c \in Capture |-> Phase(c)]' = [[c \in Capture |-> Phase(c)] EXCEPT ![s] = "saving"]
  BY <1>4, <1>6
<1>8. entry'["Shared"].state = "idle"
  BY <1>1, <1>2 DEF Types, Shown
<1>9. [c \in Capture |-> verdict[c]]' = [c \in Capture |-> verdict[c]]
  BY <1>2
<1> QED
  BY <1>2, <1>3, <1>5, <1>6, <1>7, <1>8, <1>9, SameFrames DEF Promised!Begin

LEMMA EnqueuesMap ==
    ASSUME BoundAssumption, PInv, IInv', NEW f, NEW m, NEW s \in Saver, NEW d, Enqueues(f, m, s, d)
    PROVE  PInv' /\ f \in Frame
           /\ IF s \in Capture THEN Promised!Accept(s, f) ELSE UNCHANGED Promised!saveVars
<1>1. IInv /\ Types
  BY DEF PInv, IInv
<1>2. /\ f \in Frame /\ owner[f] = NoSaver /\ m \in Messages /\ ~IsSync(m) /\ pc[s] = "saving"
      /\ queue' = Append(queue, m) /\ owner' = [owner EXCEPT ![f] = s]
      /\ stage' = [stage EXCEPT ![f] = "queued"]
      /\ UNCHANGED <<file, pc, jobs, entry, verdict, unheard>>
  BY DEF Enqueues, IsFrame, IsSync
<1>3. /\ owner'[f] = s /\ stage'[f] = "queued" /\ stage[f] = "none"
      /\ \A x \in Frame : x # f => owner'[x] = owner[x] /\ stage'[x] = stage[x]
  BY <1>1, <1>2 DEF IInv, Frames, Belongs, Types, Kept
<1>4. PInv'
  <2>1. NoNewSync
    BY <1>1, <1>2, QueueSteady
  <2>2. \A x \in Processed : x \in Processed' /\ owner'[x] = owner[x]
    BY <1>3 DEF Processed
  <2> QED
    BY <1>2, <2>1, <2>2, SaverPromise
<1>5. ~OfCamera(f) /\ (OfCamera(f)' <=> s \in Capture)
  BY <1>2, <1>3, CaptureIsSaver, SaverFacts DEF OfCamera
<1>6. \A x \in Frame : x # f => Fate(x)' = Fate(x) /\ (OfCamera(x)' <=> OfCamera(x))
  BY <1>3 DEF Fate, OfCamera
<1>7. Fate(f) = "none" /\ Fate(f)' = IF s \in Capture THEN "pending" ELSE "none"
  BY <1>3, <1>5, FateFacts, FatesNext
<1> DEFINE fates == [x \in Frame |-> Fate(x)]
           silents == {x \in Frame : OfCamera(x) /\ stage[x] = "failed" /\ file[x] \in unheard}
           owners == [x \in Frame |-> IF OfCamera(x) THEN owner[x] ELSE NoSaver]
<1>8. silents' = silents
  BY <1>2, <1>3, <1>6
<1>9. [c \in Capture |-> Phase(c)]' = [c \in Capture |-> Phase(c)]
      /\ [c \in Capture |-> verdict[c]]' = [c \in Capture |-> verdict[c]]
  BY <1>2 DEF Phase
<1>10. CASE s \in Capture
  <2>1. Phase(s) = "saving"
    BY <1>2, PhaseFacts
  <2>2. owners' = [owners EXCEPT ![f] = s]
    BY <1>2, <1>3, <1>5, <1>6, <1>10
  <2>3. fates' = [fates EXCEPT ![f] = "pending"]
    BY <1>2, <1>6, <1>7, <1>10
  <2> QED
    BY <1>2, <1>4, <1>7, <1>8, <1>9, <1>10, <2>1, <2>2, <2>3 DEF Promised!Accept
<1>11. CASE s \notin Capture
  <2>1. owners' = owners
    BY <1>2, <1>3, <1>5, <1>6, <1>11
  <2>2. fates' = fates
    BY <1>6, <1>7, <1>11
  <2> QED
    BY <1>2, <1>4, <1>8, <1>9, <1>11, <2>1, <2>2 DEF Promised!saveVars
<1> QED
  BY <1>10, <1>11

LEMMA SavingMaps ==
    ASSUME BoundAssumption, PInv, IInv', NEW s \in Saver, QueueRaw(s) \/ SaveStack(s)
    PROVE  PInv' /\ [Promised!Next]_(Promised!saveVars)
<1> DEFINE d == IF s \in Capture THEN session ELSE s
<1>0. PICK f : f = Cardinality({x \in Frame : owner[x] # NoSaver}) + 1
  OBVIOUS
<1>1. IInv /\ Types
  BY DEF PInv, IInv
<1>2. ASSUME NEW kind \in {"raw", "stack"}, Queue(kind, s, d), pc[s] = "saving",
             UNCHANGED <<pc, container, sers, pending, jobs, entry, asked, verdict, overlap, unheard>>
      PROVE  Enqueues(f, [kind |-> kind, of |-> f], s, d)
  <2>1. f \in Frame /\ owner[f] = NoSaver
    BY <1>0, <1>1, <1>2, QueueNext
  <2> QED
    BY <1>0, <1>1, <1>2, <2>1, SaverFacts DEF Queue, Send, Full, Enqueues, Messages, IsFrame, Types, Messaged, Sessions
<1>3. ASSUME NEW m, Enqueues(f, m, s, d) PROVE PInv' /\ [Promised!Next]_(Promised!saveVars)
  <2>1. PInv' /\ f \in Frame
        /\ IF s \in Capture THEN Promised!Accept(s, f) ELSE UNCHANGED Promised!saveVars
    <3>1. PICK e : e = d
      OBVIOUS
    <3> QED
      BY <1>3, <3>1, EnqueuesMap
  <2> QED
    BY <2>1 DEF Promised!Next
<1>4. CASE QueueRaw(s)
  <2>1. Queue("raw", s, d)
    BY <1>4 DEF QueueRaw
  <2>2. pc[s] = "saving" /\ UNCHANGED <<pc, container, sers, pending, jobs, entry, asked, verdict, overlap, unheard>>
    BY <1>4 DEF QueueRaw
  <2> QED
    BY <1>2, <1>3, <2>1, <2>2
<1>5. CASE SaveStack(s)
  <2>1. /\ s \in Capture /\ pc[s] = "saving"
        /\ UNCHANGED <<pc, container, sers, pending, jobs, entry, asked, verdict, overlap, unheard>>
    BY <1>5 DEF SaveStack
  <2>2. CASE Queue("stack", s, d)
    BY <1>2, <1>3, <2>1, <2>2
  <2>3. CASE UNCHANGED <<queue, frameVars>>
    <3>1. NoNewSync
      BY <1>1, <2>3, QueueSteady
    <3>2. \A x \in Processed : x \in Processed' /\ owner'[x] = owner[x]
      BY <2>3 DEF Processed
    <3>3. PInv'
      BY <2>1, <3>1, <3>2, SaverPromise
    <3>4. \A c \in Capture : Phase(c)' = Phase(c)
      BY <2>1 DEF Phase
    <3> QED
      BY <2>1, <2>3, <3>3, <3>4, Rests
  <2> QED
    BY <1>5, <2>1, <2>2, <2>3 DEF SaveStack
<1> QED
  BY <1>4, <1>5

\* The steps that leave the camera's frames and its place on screen alone.
LEMMA RestingStep ==
    ASSUME BoundAssumption, PInv, IInv', NoNewSync,
           UNCHANGED <<jobs, stage, owner, file, unheard, verdict>>,
           entry'["Shared"].state = entry["Shared"].state,
           \A c \in Capture : Phase(c)' = Phase(c)
    PROVE  PInv' /\ UNCHANGED Promised!saveVars
<1>1. PInv'
  BY SaverPromise DEF Processed
<1> QED
  BY <1>1, Rests

LEMMA RestingMaps ==
    ASSUME BoundAssumption, PInv, IInv',
           \/ \E s \in Saver : FinishContainer(s) \/ EndSession(s) \/ StartLoop(s)
           \/ \E films, saves \in BOOLEAN : UpdateSettings(films, saves)
           \/ \E t \in {"writer", "syncer"} : Hang(t) \/ Recover(t)
           \/ UNCHANGED vars
    PROVE  PInv' /\ UNCHANGED Promised!saveVars
<1>1. IInv /\ Types
  BY DEF PInv, IInv
<1>2. UNCHANGED <<jobs, stage, owner, file, unheard, verdict>>
  BY DEF FinishContainer, EndSession, StartLoop, Reset, UpdateSettings, Hang, Recover, vars
<1>3. ASSUME NEW s \in Saver, FinishContainer(s) \/ EndSession(s)
      PROVE  PInv' /\ UNCHANGED Promised!saveVars
  <2>1. PICK m \in Messages : ~IsSync(m) /\ (Tell(m) \/ UNCHANGED queue)
    <3>1. /\ [kind |-> "finish", of |-> 0] \in Messages /\ ~IsSync([kind |-> "finish", of |-> 0])
          /\ [kind |-> "end", of |-> 0] \in Messages /\ ~IsSync([kind |-> "end", of |-> 0])
      BY DEF Messages, IsSync
    <3> QED
      BY <1>3, <3>1 DEF FinishContainer, EndSession
  <2>2. NoNewSync
    BY <1>1, <2>1, TellSteady
  <2>3. pc' = pc \/ (pc[s] = "saving" /\ pc' = [pc EXCEPT ![s] = "ended"])
    BY <1>3 DEF FinishContainer, EndSession, Goto
  <2>4. \A c \in Capture : Phase(c)' = Phase(c)
    <3>1. CASE pc' = pc
      BY <3>1 DEF Phase
    <3>2. CASE pc[s] = "saving" /\ pc' = [pc EXCEPT ![s] = "ended"]
      <4>1. pc'[s] = "ended" /\ \A c \in Capture : c # s => Phase(c)' = Phase(c)
        BY <1>1, <3>2, PhaseMoves
      <4> QED
        BY <3>2, <4>1, PhaseFacts, PhasesNext
    <3> QED
      BY <2>3, <3>1, <3>2
  <2>5. UNCHANGED entry
    BY <1>3 DEF FinishContainer, EndSession
  <2> QED
    BY <1>2, <2>2, <2>4, <2>5, RestingStep
<1>4. ASSUME NEW s \in Saver, StartLoop(s)
      PROVE  PInv' /\ UNCHANGED Promised!saveVars
  <2>1. /\ s \notin Capture /\ GroupOf(s) = "Owned" /\ pc' = [pc EXCEPT ![s] = "saving"] /\ UNCHANGED queue
        /\ entry' = [entry EXCEPT !["Owned"] = [state |-> "idle", run |-> @.run + 1]]
    BY <1>4, CaptureIsSaver DEF StartLoop, Reset, Goto, GroupOf
  <2>2. NoNewSync
    BY <1>1, <2>1, QueueSteady
  <2>3. \A c \in Capture : Phase(c)' = Phase(c)
    BY <1>1, <2>1, PhaseMoves
  <2>4. entry'["Shared"].state = entry["Shared"].state
    BY <1>1, <2>1 DEF Types, Shown
  <2> QED
    BY <1>2, <2>2, <2>3, <2>4, RestingStep
<1>5. CASE UNCHANGED <<pc, queue, entry>>
  <2>1. NoNewSync
    BY <1>1, <1>5, QueueSteady
  <2>2. \A c \in Capture : Phase(c)' = Phase(c)
    BY <1>5 DEF Phase
  <2> QED
    BY <1>2, <1>5, <2>1, <2>2, RestingStep
<1>6. CASE \/ \E films, saves \in BOOLEAN : UpdateSettings(films, saves)
           \/ \E t \in {"writer", "syncer"} : Hang(t) \/ Recover(t)
           \/ UNCHANGED vars
  BY <1>5, <1>6 DEF UpdateSettings, Hang, Recover, vars
<1> QED
  BY <1>3, <1>4, <1>6

LEMMA AskSyncMaps ==
    ASSUME BoundAssumption, PInv, IInv', NEW s \in Saver, AskSync(s)
    PROVE  PInv' /\ [Promised!Next]_(Promised!saveVars)
<1>1. IInv /\ Types
  BY DEF PInv, IInv
<1>2. /\ pc' = [pc EXCEPT ![s] = "asking"]
      /\ entry' = [entry EXCEPT ![GroupOf(s)].state = "syncing"]
      /\ UNCHANGED <<queue, jobs, stage, owner, file, unheard, verdict>>
      /\ s \in Capture => pc[s] = "ended"
  BY DEF AskSync, Goto
<1>3. pc'[s] = "asking" /\ \A c \in Capture : c # s => Phase(c)' = Phase(c)
  BY <1>1, <1>2, PhaseMoves
<1>4. NoNewSync
  BY <1>1, <1>2, QueueSteady
<1>5. CASE s \in Capture
  <2>1. PInv'
    BY <1>2, <1>4, SaverPromise DEF Processed
  <2>2. Phase(s) = "saving" /\ Phase(s)' = "syncing"
    BY <1>2, <1>3, <1>5, PhaseFacts, PhasesNext
  <2>3. [c \in Capture |-> Phase(c)]' = [[c \in Capture |-> Phase(c)] EXCEPT ![s] = "syncing"]
    BY <1>3, <2>2
  <2>4. entry'["Shared"].state = "syncing"
    BY <1>1, <1>2, <1>5 DEF GroupOf, Types, Shown
  <2>5. [c \in Capture |-> verdict[c]]' = [c \in Capture |-> verdict[c]]
    BY <1>2
  <2>6. Promised!Ask(s)
    BY <1>2, <1>5, <2>2, <2>3, <2>4, <2>5, SameFrames DEF Promised!Ask
  <2> QED
    BY <1>5, <2>1, <2>6 DEF Promised!Next
<1>6. CASE s \notin Capture
  <2>1. \A c \in Capture : Phase(c)' = Phase(c)
    BY <1>3, <1>6
  <2>2. entry'["Shared"].state = entry["Shared"].state
    BY <1>1, <1>2, <1>6 DEF GroupOf, Types, Shown
  <2> QED
    BY <1>2, <1>4, <2>1, <2>2, RestingStep
<1> QED
  BY <1>5, <1>6

\* A saver that gives up is told a failure.
LEMMA GiveUpMaps ==
    ASSUME BoundAssumption, PInv, IInv', NEW s \in Saver, pc[s] \in {"asking", "waiting"},
           Conclude(s, "failed"), UNCHANGED <<queue, jobs, stage, owner, file, unheard, entry>>
    PROVE  PInv' /\ Promised!Device
<1>1. IInv /\ Types
  BY DEF PInv, IInv
<1>2. verdict[s] = "none" /\ verdict' = [verdict EXCEPT ![s] = "failed"] /\ pc' = [pc EXCEPT ![s] = "told"]
  BY <1>1 DEF IInv, Turns, Concluded, Conclude, Goto, Types, Savers
<1>3. pc'[s] = "told" /\ \A c \in Capture : c # s => Phase(c)' = Phase(c)
  BY <1>1, <1>2, PhaseMoves
<1>4. verdict'[s] = "failed" /\ \A c \in Capture : c # s => verdict'[c] = verdict[c]
  BY <1>1, <1>2, CaptureIsSaver DEF Types, Savers
<1>5. Phase(s) = "syncing" /\ Phase(s)' = "syncing"
  BY <1>3, PhaseFacts, PhasesNext
<1>6. NoNewSync
  BY <1>1, QueueSteady
<1>7. Steady
  BY <1>2, <1>4 DEF Steady, Processed
<1>8. PInv'
  BY <1>2, <1>6, SaverPromise DEF Processed
<1>9. Works
  <2>1. \A c \in Capture : Phase(c)' = Phase(c)
    BY <1>3, <1>5
  <2>2. CASE s \in Capture
    BY <1>2, <1>4, <1>5, <2>1, <2>2 DEF Works
  <2>3. CASE s \notin Capture
    BY <1>4, <2>1, <2>3 DEF Works
  <2> QED
    BY <2>2, <2>3
<1> QED
  BY <1>7, <1>8, <1>9, DeviceMaps

LEMMA SendSyncMaps ==
    ASSUME BoundAssumption, PInv, IInv', NEW s \in Saver, SendSync(s) \/ GiveUpOnAnswer(s)
    PROVE  PInv' /\ [Promised!Next]_(Promised!saveVars)
<1>1. IInv /\ Types
  BY DEF PInv, IInv
<1>2. pc[s] \in {"asking", "waiting"} /\ UNCHANGED <<jobs, stage, owner, file, unheard, entry>>
  BY DEF SendSync, GiveUpOnAnswer
<1>3. CASE Conclude(s, "failed") /\ UNCHANGED queue
  BY <1>2, <1>3, GiveUpMaps DEF Promised!Next
<1>4. CASE pc[s] = "asking" /\ Send([kind |-> "sync", of |-> s]) /\ Goto(s, "waiting") /\ UNCHANGED verdict
  <2>1. pc'[s] = "waiting" /\ \A c \in Capture : c # s => Phase(c)' = Phase(c)
    BY <1>1, <1>4, PhaseMoves DEF Goto
  <2>2. \A c \in Capture : Phase(c)' = Phase(c)
    BY <1>4, <2>1, PhaseFacts, PhasesNext
  <2>3. NoNewSync
    <3>1. [kind |-> "sync", of |-> s] \in Messages
      BY DEF Messages
    <3> QED
      BY <1>1, <1>4, <2>1, <3>1, QueueSteady DEF Send
  <2> QED
    BY <1>2, <1>4, <2>2, <2>3, RestingStep
<1> QED
  BY <1>3, <1>4 DEF SendSync, GiveUpOnAnswer, GiveUp

\* A capture announces its own verdict: it is the one on screen.
LEMMA AnnounceMaps ==
    ASSUME BoundAssumption, PInv, IInv', NEW s \in Saver, Announce(s)
    PROVE  PInv' /\ [Promised!Next]_(Promised!saveVars)
<1>1. IInv /\ Types
  BY DEF PInv, IInv
<1>2. /\ pc[s] = "told" /\ pc' = [pc EXCEPT ![s] = "done"]
      /\ entry' = IF entry[GroupOf(s)].run = asked[s]
                  THEN [entry EXCEPT ![GroupOf(s)].state = verdict[s]]
                  ELSE entry
      /\ UNCHANGED <<queue, jobs, stage, owner, file, unheard, verdict>>
  BY DEF Announce, Goto
<1>3. pc'[s] = "done" /\ \A c \in Capture : c # s => Phase(c)' = Phase(c)
  BY <1>1, <1>2, PhaseMoves
<1>4. NoNewSync
  BY <1>1, <1>2, QueueSteady
<1>5. CASE s \in Capture
  <2>1. PInv'
    BY <1>2, <1>4, SaverPromise DEF Processed
  <2>2. Phase(s) = "syncing" /\ Phase(s)' = "done"
    BY <1>2, <1>3, PhaseFacts, PhasesNext
  <2>3. [c \in Capture |-> Phase(c)]' = [[c \in Capture |-> Phase(c)] EXCEPT ![s] = "done"]
    BY <1>3, <2>2
  <2>4. entry[GroupOf(s)].run = asked[s] /\ GroupOf(s) = "Shared" /\ verdict[s] # "none"
    <3>1. InTurn(s) /\ GroupOf(s) = "Shared"
      BY <1>5, CaptureIsSaver DEF InTurn, GroupOf
    <3>2. asked[s] = Turn(s) /\ Turn(s) <= Run(s) /\ ~(Turn(s) < Run(s)) /\ verdict[s] # "none"
      BY <1>1, <1>2, <1>5, <3>1 DEF IInv, Turns, AskedInTurn, Begun, Behind, Concluded
    <3>3. Turn(s) \in Nat /\ Run(s) \in Nat
      BY <1>1, SaverFacts DEF Types, Shown, Run
    <3> QED
      BY <3>1, <3>2, <3>3 DEF Run
  <2>5. entry'["Shared"].state = verdict[s]
    BY <1>1, <1>2, <2>4 DEF Types, Shown
  <2>6. [c \in Capture |-> verdict[c]]' = [c \in Capture |-> verdict[c]]
    BY <1>2
  <2>7. Promised!Announce(s)
    BY <1>2, <1>5, <2>2, <2>3, <2>4, <2>5, <2>6, SameFrames DEF Promised!Announce
  <2> QED
    BY <1>5, <2>1, <2>7 DEF Promised!Next
<1>6. CASE s \notin Capture
  <2>1. \A c \in Capture : Phase(c)' = Phase(c)
    BY <1>3, <1>6
  <2>2. entry'["Shared"].state = entry["Shared"].state
    BY <1>1, <1>2, <1>6 DEF GroupOf, Types, Shown
  <2> QED
    BY <1>2, <1>4, <2>1, <2>2, RestingStep
<1> QED
  BY <1>5, <1>6

LEMMA PromiseKept ==
    ASSUME BoundAssumption, PInv, IInv', [Next]_vars
    PROVE  PInv' /\ [Promised!Next]_(Promised!saveVars)
<1>1. IInv
  BY DEF PInv
<1>2. ASSUME NEW s \in Saver, StartCapture(s) PROVE PInv' /\ [Promised!Next]_(Promised!saveVars)
  BY <1>2, StartCaptureMaps DEF Promised!Next
<1>3. ASSUME NEW s \in Saver, QueueRaw(s) \/ SaveStack(s)
      PROVE  PInv' /\ [Promised!Next]_(Promised!saveVars)
  BY <1>3, SavingMaps
<1>4. ASSUME NEW s \in Saver, Syncing(s) PROVE PInv' /\ [Promised!Next]_(Promised!saveVars)
  BY <1>4, AskSyncMaps, SendSyncMaps, AnnounceMaps DEF Syncing
<1>5. CASE Writer
  <2>1. CASE WriteFits \/ WriteSer \/ CloseContainer
    <3>1. Writes
      BY <1>1, <2>1, WriteFitsStep, WriteSerStep, CloseContainerStep
    <3> QED
      BY <3>1, WritesMap DEF Promised!Next
  <2>2. CASE TakeForSync
    <3>1. \E s \in Saver : \E J \in Job : TakenUp(s, J)
      BY <1>1, <2>2, TakeForSyncStep
    <3> QED
      BY <3>1, TakenUpMaps DEF Promised!Next
  <2> QED
    BY <1>5, <2>1, <2>2 DEF Writer
<1>6. CASE Syncer
  BY <1>6, SyncFileMaps, SyncDirsMaps DEF Syncer, Promised!Next
<1>7. CASE \/ \E s \in Saver : FinishContainer(s) \/ EndSession(s) \/ StartLoop(s)
           \/ \E films, saves \in BOOLEAN : UpdateSettings(films, saves)
           \/ \E t \in {"writer", "syncer"} : Hang(t) \/ Recover(t)
           \/ UNCHANGED vars
  BY <1>7, RestingMaps
<1> QED
  BY <1>2, <1>3, <1>4, <1>5, <1>6, <1>7 DEF Next, Ending

\* The saver keeps SavePromise's promise for any number of captures, guide
\* loops, frames and faults.
THEOREM KeepsPromise == Spec => KeepsItsPromise
<1>1. Init => PInv /\ Promised!Init
  <2> SUFFICES ASSUME Init PROVE PInv /\ Promised!Init
    OBVIOUS
  <2>1. IInv
    BY InitStep, BoundAssumption
  <2>2. Answered /\ Silenced
    BY CaptureIsSaver, BoundAssumption DEF Init, Answered, Silenced
  <2>3. /\ \A c \in Capture : Phase(c) = "none" /\ verdict[c] = "none"
        /\ \A f \in Frame : ~OfCamera(f) /\ Fate(f) = "none"
    <3>1. \A c \in Capture : pc[c] = "none" /\ verdict[c] = "none"
      BY CaptureIsSaver, BoundAssumption DEF Init
    <3>2. NoSaver \notin Capture
      BY BoundAssumption DEF Capture
    <3>3. \A f \in Frame : ~OfCamera(f)
      BY <3>2 DEF Init, OfCamera
    <3> QED
      BY <3>1, <3>3, PhaseFacts, FateFacts
  <2>4. entry["Shared"].state = "idle"
    BY DEF Init
  <2>5. Promised!Init
    BY <2>3, <2>4 DEF Promised!Init
  <2> QED
    BY <2>1, <2>2, <2>5 DEF PInv
<1>2. PInv /\ IInv' /\ [Next]_vars => PInv' /\ [Promised!Next]_(Promised!saveVars)
  BY PromiseKept, BoundAssumption
<1> QED
  BY <1>1, <1>2, InductiveInvariant, PTL DEF Spec, KeepsItsPromise, Promised!Promise

=============================================================================
