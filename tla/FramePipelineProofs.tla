------------------------- MODULE FramePipelineProofs -------------------------
(***************************************************************************)
(* What FramePipeline keeps for channels of every size, captures of every  *)
(* length and any number of failures, panics and resumes: its types, the   *)
(* render count the display gate reads, and every frame a channel took.    *)
(*                                                                         *)
(* The gate needs to know that a thread that is not running owes nothing   *)
(* (Places).  That nothing accepted is lost needs where a queued frame is  *)
(* (Marks), and that a stack kept from an earlier session was built with   *)
(* the switch where it still is (Carried).                                 *)
(***************************************************************************)
EXTENDS FramePipeline, TLAPS

\* The type invariant in groups: where everyone is, the channels, the counts,
\* what each thread holds, and the stack with the marked frame's fate.

Threads ==
    /\ main \in {"idle", "paused", "probing", "probeStack", "probeStore",
                 "spawnCapture", "spawnStages", "joining", "closing"}
    /\ cap \in {"off", "loop", "offered", Ended}
    /\ stk \in {"off", "recv", "work", "claimed", "leaving", Ended}
    /\ ren \in {"off", "recv", "draining", "counting", Ended}
    /\ sto \in {"off", "recv", Ended}

Channels ==
    /\ stackQ \in UpTo(Frame, StackCap)
    /\ storeQ \in UpTo(BOOLEAN, StoreCap)
    /\ renderQ \in UpTo(BOOLEAN, RenderCap)

Counts == depth \in Nat /\ owed \in Nat /\ events \in 0..MaxEvents

Hands ==
    /\ shot \in BOOLEAN /\ sub \in Frame /\ picture \in BOOLEAN /\ latest \in BOOLEAN
    /\ lost \in BOOLEAN /\ seen \in BOOLEAN /\ toggled \in BOOLEAN /\ panicked \in BOOLEAN

Stacks ==
    /\ stack \in Stack /\ parked \in Stack /\ wasOn \in BOOLEAN
    /\ stacking \in BOOLEAN /\ since \in {"none", "recent", "past"}
    /\ inStack \in {"none", "queued", "joined", "passed", "gone"}
    /\ onDisk \in {"none", "queued", "settled"}

Before == {"idle", "paused", "probing", "probeStack", "probeStore", "spawnCapture"}

\* Which threads exist when, and what a thread that does not is free of.
Places ==
    /\ main \in Before => cap = "off"
    /\ main \in Before \cup {"spawnStages"} => stk = "off" /\ ren = "off" /\ sto = "off"
    /\ main = "spawnStages" => cap # "off"
    /\ main = "joining" => cap # "off" /\ stk # "off" /\ ren # "off" /\ sto # "off"
    /\ main = "closing" => AllJoined
    /\ main \in {"idle", "paused", "probing", "probeStack"} => stackQ = <<>>
    /\ main \in {"idle", "paused", "probing", "probeStack", "probeStore"} => storeQ = <<>>
    /\ stk = Ended => stackQ = <<>>
    /\ sto = Ended => storeQ = <<>>
    /\ ren \in {"off", Ended} => renderQ = <<>>
    /\ ren \in {"off", "recv", Ended} => owed = 0
    /\ main \in {"probeStack", "probeStore", "spawnCapture", "spawnStages"} => depth = 0

\* Without a panic the render thread is the last to end.
Orderly ==
    ~panicked => /\ stk # "leaving"
                 /\ ren = Ended => stk = Ended

\* Where the marked frame is while it waits.
Marks ==
    ~panicked =>
        /\ inStack = "queued" =>
              \/ \E i \in 1..Len(stackQ) : stackQ[i].mark
              \/ stk = "work" /\ sub.mark
        /\ onDisk = "queued" => \E i \in 1..Len(storeQ) : storeQ[i]

\* The stacks, and the switch they were built with.
Carried ==
    /\ ~At(stk) => stack = "none"
    /\ At(stk) => parked = "none"
    /\ ~toggled =>
        /\ stack # "none" \/ parked # "none" => stacking
        /\ At(stk) /\ stack # "none" => wasOn
        /\ \A i \in 1..Len(stackQ) : stackQ[i].on = stacking
        /\ stk = "work" => sub.on = stacking
    /\ inStack = "joined" /\ ~toggled /\ ~panicked => "marked" \in {stack, parked}

IInv ==
    /\ Threads /\ Channels /\ Counts /\ Hands /\ Stacks
    /\ Places /\ Orderly /\ TheGateTellsTheTruth /\ Marks /\ Carried

\* The small definitions every step of the proofs looks through.
USE DEF threads, queues, fate, story, rendering, accum, Ended, At, Event, Forgotten,
        Cancelled, Stack, NoFrame, Threads, Counts, Hands, Stacks, AllJoined, Before

-----------------------------------------------------------------------------
\* Channels: what Append, Head and Tail do to a bounded queue.

LEMMA EmptyFits == ASSUME NEW S, NEW n \in Nat PROVE <<>> \in UpTo(S, n) /\ Len(<<>>) = 0
BY DEF UpTo

LEMMA AppendFits ==
    ASSUME NEW S, NEW n \in Nat, NEW q \in UpTo(S, n), NEW x \in S, Room(q, n)
    PROVE  /\ Append(q, x) \in UpTo(S, n)
           /\ Len(q) \in Nat /\ Len(Append(q, x)) = Len(q) + 1
           /\ \A i \in 1..Len(q) : Append(q, x)[i] = q[i]
           /\ Append(q, x)[Len(q) + 1] = x
BY DEF UpTo, Room

LEMMA TailFits ==
    ASSUME NEW S, NEW n \in Nat, NEW q \in UpTo(S, n), q # <<>>
    PROVE  /\ Tail(q) \in UpTo(S, n) /\ Head(q) \in S /\ Head(q) = q[1]
           /\ Len(q) \in Nat /\ Len(Tail(q)) = Len(q) - 1 /\ Len(q) > 0
           /\ \A i \in 1..Len(Tail(q)) : Tail(q)[i] = q[i + 1]
BY DEF UpTo

LEMMA LenIsNat == ASSUME NEW S, NEW n \in Nat, NEW q \in UpTo(S, n) PROVE Len(q) \in Nat
BY DEF UpTo

-----------------------------------------------------------------------------
\* Every step keeps the invariant, action by action.

LEMMA ProbeFailsStep == ASSUME CapAssumption, IInv, ProbeFails PROVE IInv'
<1>1. Threads'
  BY DEF ProbeFails, IInv
<1>2. Counts'
  BY DEF ProbeFails, IInv
<1>3. Hands'
  BY DEF ProbeFails, IInv, Frame
<1>4. Stacks'
  BY DEF ProbeFails, IInv
<1>5. Channels'
  BY DEF ProbeFails, IInv, Channels
<1>6. Places' /\ Orderly'
  BY DEF ProbeFails, IInv, Places, Orderly
<1>7. TheGateTellsTheTruth'
  BY DEF ProbeFails, IInv, Places, TheGateTellsTheTruth
<1>8. Marks'
  BY DEF ProbeFails, IInv, Places, Orderly, Marks
<1>9. Carried'
  BY DEF ProbeFails, IInv, Places, Carried
<1> QED
  BY <1>1, <1>2, <1>3, <1>4, <1>5, <1>6, <1>7, <1>8, <1>9 DEF IInv

LEMMA ProbeArrivesStep == ASSUME CapAssumption, IInv, ProbeArrives PROVE IInv'
BY DEF ProbeArrives, IInv, Channels, Places, Orderly, TheGateTellsTheTruth,
   Marks, Carried, Frame

LEMMA ProbeToStackStep == ASSUME CapAssumption, IInv, ProbeToStack PROVE IInv'
<1>1. StackCap \in Nat /\ stackQ \in UpTo(Frame, StackCap) /\ Len(stackQ) \in Nat /\ [mark |-> shot, on |-> stacking] \in Frame
  BY CapAssumption, LenIsNat DEF IInv, Channels, Frame
<1>2. stackQ' = Append(stackQ, [mark |-> shot, on |-> stacking]) /\ Room(stackQ, StackCap)
  BY DEF ProbeToStack
<1>3. stackQ' \in UpTo(Frame, StackCap) /\ Len(stackQ') = Len(stackQ) + 1
  BY <1>1, <1>2, AppendFits
<1>4. /\ \A i \in 1..Len(stackQ) : stackQ'[i] = stackQ[i]
      /\ stackQ'[Len(stackQ) + 1] = [mark |-> shot, on |-> stacking]
  BY <1>1, <1>2, AppendFits
<1>5. Threads' /\ Counts' /\ Hands' /\ Stacks'
  BY DEF ProbeToStack, IInv, Frame
<1>6. Channels'
  BY <1>1, <1>3 DEF ProbeToStack, IInv, Channels
<1>7. Places' /\ Orderly'
  BY <1>1, <1>3 DEF ProbeToStack, IInv, Places, Orderly
<1>8. TheGateTellsTheTruth'
  BY DEF ProbeToStack, IInv, Places, TheGateTellsTheTruth
<1>9. Marks'
  BY <1>1, <1>3, <1>4 DEF ProbeToStack, IInv, Places, Orderly, Marks
<1>10. Carried'
  BY <1>1, <1>3, <1>4 DEF ProbeToStack, IInv, Places, Carried
<1> QED
  BY <1>5, <1>6, <1>7, <1>8, <1>9, <1>10 DEF IInv

LEMMA ProbeToStoreStep == ASSUME CapAssumption, IInv, ProbeToStore PROVE IInv'
<1>1. StoreCap \in Nat /\ storeQ \in UpTo(BOOLEAN, StoreCap) /\ Len(storeQ) \in Nat /\ shot \in BOOLEAN
  BY CapAssumption, LenIsNat DEF IInv, Channels
<1>2. storeQ' = Append(storeQ, shot) /\ Room(storeQ, StoreCap)
  BY DEF ProbeToStore
<1>3. storeQ' \in UpTo(BOOLEAN, StoreCap) /\ Len(storeQ') = Len(storeQ) + 1
  BY <1>1, <1>2, AppendFits
<1>4. /\ \A i \in 1..Len(storeQ) : storeQ'[i] = storeQ[i]
      /\ storeQ'[Len(storeQ) + 1] = shot
  BY <1>1, <1>2, AppendFits
<1>5. Threads'
  BY DEF ProbeToStore, IInv
<1>6. Counts'
  BY DEF ProbeToStore, IInv
<1>7. Hands'
  BY DEF ProbeToStore, IInv, Frame
<1>8. Stacks'
  BY DEF ProbeToStore, IInv
<1>9. Channels'
  BY <1>1, <1>3 DEF ProbeToStore, IInv, Channels
<1>10. Places' /\ Orderly'
  BY <1>1, <1>3 DEF ProbeToStore, IInv, Places, Orderly
<1>11. TheGateTellsTheTruth'
  BY DEF ProbeToStore, IInv, Places, TheGateTellsTheTruth
<1>12. Marks'
  BY <1>1, <1>3, <1>4 DEF ProbeToStore, IInv, Places, Orderly, Marks
<1>13. Carried'
  BY DEF ProbeToStore, IInv, Places, Carried
<1> QED
  BY <1>5, <1>6, <1>7, <1>8, <1>9, <1>10, <1>11, <1>12, <1>13 DEF IInv

LEMMA SpawnCaptureStep == ASSUME CapAssumption, IInv, SpawnCapture PROVE IInv'
BY DEF SpawnCapture, IInv, Channels, Places, Orderly, TheGateTellsTheTruth,
   Marks, Carried, Frame

LEMMA SpawnStagesStep == ASSUME CapAssumption, IInv, SpawnStages PROVE IInv'
<1>1. Threads' /\ Counts' /\ Hands' /\ Stacks'
  BY DEF SpawnStages, IInv, Frame, DetectorStart
<1>2. Channels'
  BY DEF SpawnStages, IInv, Channels, DetectorStart
<1>3. Places' /\ Orderly'
  BY DEF SpawnStages, IInv, Places, Orderly, DetectorStart
<1>4. TheGateTellsTheTruth'
  BY DEF SpawnStages, IInv, Places, TheGateTellsTheTruth, DetectorStart
<1>5. Marks'
  BY DEF SpawnStages, IInv, Places, Orderly, Marks, DetectorStart
<1>6. Carried'
  BY DEF SpawnStages, IInv, Places, Carried, DetectorStart
<1> QED
  BY <1>1, <1>2, <1>3, <1>4, <1>5, <1>6 DEF IInv

LEMMA EndSessionStep == ASSUME CapAssumption, IInv, EndSession PROVE IInv'
BY DEF EndSession, IInv, Channels, Places, Orderly, TheGateTellsTheTruth, Marks,
   Carried, Frame, AllJoined

LEMMA HandBackStep == ASSUME CapAssumption, IInv, HandBack PROVE IInv'
<1>1. Threads'
  BY DEF HandBack, IInv
<1>2. Counts'
  BY DEF HandBack, IInv
<1>3. Hands'
  BY DEF HandBack, IInv, Frame
<1>4. Stacks'
  BY DEF HandBack, IInv
<1>5. Channels'
  BY DEF HandBack, IInv, Channels
<1>6. Places' /\ Orderly'
  BY DEF HandBack, IInv, Places, Orderly
<1>7. TheGateTellsTheTruth'
  BY DEF HandBack, IInv, Places, TheGateTellsTheTruth
<1>8. Marks'
  BY DEF HandBack, IInv, Places, Orderly, Marks
<1>9. Carried'
  BY DEF HandBack, IInv, Places, Carried
<1> QED
  BY <1>1, <1>2, <1>3, <1>4, <1>5, <1>6, <1>7, <1>8, <1>9 DEF IInv

LEMMA StartStep == ASSUME CapAssumption, IInv, Start PROVE IInv'
<1>1. Threads'
  BY DEF Start, IInv
<1>2. Counts'
  BY DEF Start, IInv
<1>3. Hands'
  BY DEF Start, IInv, Frame
<1>4. Stacks'
  BY DEF Start, IInv
<1>5. Channels'
  BY DEF Start, IInv, Channels
<1>6. Places' /\ Orderly'
  BY DEF Start, IInv, Places, Orderly
<1>7. TheGateTellsTheTruth'
  BY DEF Start, IInv, Places, TheGateTellsTheTruth
<1>8. Marks'
  BY DEF Start, IInv, Places, Orderly, Marks
<1>9. Carried'
  BY DEF Start, IInv, Places, Carried
<1> QED
  BY <1>1, <1>2, <1>3, <1>4, <1>5, <1>6, <1>7, <1>8, <1>9 DEF IInv

LEMMA ResumeStep == ASSUME CapAssumption, IInv, Resume PROVE IInv'
<1>1. Threads'
  BY DEF Resume, IInv
<1>2. Counts'
  BY DEF Resume, IInv
<1>3. Hands'
  BY DEF Resume, IInv, Frame
<1>4. Stacks'
  BY DEF Resume, IInv
<1>5. Channels'
  BY DEF Resume, IInv, Channels
<1>6. Places' /\ Orderly'
  BY DEF Resume, IInv, Places, Orderly
<1>7. TheGateTellsTheTruth'
  BY DEF Resume, IInv, Places, TheGateTellsTheTruth
<1>8. Marks'
  BY DEF Resume, IInv, Places, Orderly, Marks
<1>9. Carried'
  BY DEF Resume, IInv, Places, Carried
<1> QED
  BY <1>1, <1>2, <1>3, <1>4, <1>5, <1>6, <1>7, <1>8, <1>9 DEF IInv

LEMMA GiveUpStep == ASSUME CapAssumption, IInv, GiveUp PROVE IInv'
<1>1. Threads'
  BY DEF GiveUp, IInv
<1>2. Counts'
  BY DEF GiveUp, IInv
<1>3. Hands'
  BY DEF GiveUp, IInv, Frame
<1>4. Stacks'
  BY DEF GiveUp, IInv
<1>5. Channels'
  BY DEF GiveUp, IInv, Channels
<1>6. Places' /\ Orderly'
  BY DEF GiveUp, IInv, Places, Orderly
<1>7. TheGateTellsTheTruth'
  BY DEF GiveUp, IInv, Places, TheGateTellsTheTruth
<1>8. Marks'
  BY DEF GiveUp, IInv, Places, Orderly, Marks
<1>9. Carried'
  BY DEF GiveUp, IInv, Places, Carried
<1> QED
  BY <1>1, <1>2, <1>3, <1>4, <1>5, <1>6, <1>7, <1>8, <1>9 DEF IInv

LEMMA StopStep == ASSUME CapAssumption, IInv, Stop PROVE IInv'
BY DEF Stop, IInv, Channels, Places, Orderly, TheGateTellsTheTruth, Marks,
   Carried, Frame

LEMMA DrainRunsOutStep == ASSUME CapAssumption, IInv, DrainRunsOut PROVE IInv'
BY DEF DrainRunsOut, IInv, Channels, Places, Orderly, TheGateTellsTheTruth,
   Marks, Carried, Frame

LEMMA ToggleStackingStep == ASSUME CapAssumption, IInv, ToggleStacking PROVE IInv'
BY DEF ToggleStacking, IInv, Channels, Places, Orderly, TheGateTellsTheTruth,
   Marks, Carried, Frame

LEMMA PanicsStep == ASSUME CapAssumption, IInv, Panics PROVE IInv'
<1>1. /\ <<>> \in UpTo(Frame, StackCap) /\ <<>> \in UpTo(BOOLEAN, StoreCap)
      /\ <<>> \in UpTo(BOOLEAN, RenderCap) /\ Len(<<>>) = 0
  BY CapAssumption, EmptyFits
<1>2. Threads'
  BY DEF Panics, IInv
<1>3. Counts'
  BY DEF Panics, IInv
<1>4. Hands'
  <2>1. sub' = sub \/ sub' = NoFrame
    BY DEF Panics
  <2>2. sub' \in Frame
    <3>1. sub \in Frame
      BY DEF IInv
    <3>2. NoFrame \in Frame
      BY DEF Frame
    <3> QED
      BY <2>1, <3>1, <3>2
  <2>3. shot' \in BOOLEAN /\ picture' \in BOOLEAN /\ latest' \in BOOLEAN
    BY DEF Panics, IInv
  <2>4. lost' \in BOOLEAN /\ seen' \in BOOLEAN /\ toggled' \in BOOLEAN /\ panicked' \in BOOLEAN
    BY DEF Panics, IInv
  <2> QED
    BY <2>2, <2>3, <2>4
<1>5. Stacks'
  BY DEF Panics, IInv
<1>6. Channels'
  BY <1>1 DEF Panics, IInv, Channels
<1>7. Places' /\ Orderly'
  BY <1>1 DEF Panics, IInv, Places, Orderly
<1>8. TheGateTellsTheTruth'
  BY <1>1 DEF Panics, IInv, Places, TheGateTellsTheTruth
<1>9. Marks'
  BY <1>1 DEF Panics, IInv, Places, Orderly, Marks
<1>10. Carried'
  BY <1>1 DEF Panics, IInv, Places, Carried
<1> QED
  BY <1>2, <1>3, <1>4, <1>5, <1>6, <1>7, <1>8, <1>9, <1>10 DEF IInv

LEMMA ExposureFailsStep == ASSUME CapAssumption, IInv, ExposureFails PROVE IInv'
BY DEF ExposureFails, IInv, Channels, Places, Orderly, TheGateTellsTheTruth,
   Marks, Carried, Frame

LEMMA CaptureEndsStep == ASSUME CapAssumption, IInv, CaptureEnds PROVE IInv'
BY DEF CaptureEnds, IInv, Channels, Places, Orderly, TheGateTellsTheTruth, Marks,
   Carried, Frame

LEMMA DeliverStep ==
    ASSUME CapAssumption, IInv, NEW mark \in BOOLEAN,
           Deliver(mark)
    PROVE  IInv'
<1>1. StackCap \in Nat /\ stackQ \in UpTo(Frame, StackCap) /\ Len(stackQ) \in Nat /\ [mark |-> mark, on |-> stacking] \in Frame
  BY CapAssumption, LenIsNat DEF IInv, Channels, Frame
<1>2. \/ stackQ' = stackQ
      \/ stackQ' = Append(stackQ, [mark |-> mark, on |-> stacking]) /\ Room(stackQ, StackCap)
  BY DEF Deliver
<1>3. \/ stackQ' = stackQ
      \/ stackQ' \in UpTo(Frame, StackCap) /\ Len(stackQ') = Len(stackQ) + 1
  <2>1. CASE stackQ' = stackQ
    BY <2>1
  <2>2. CASE stackQ' = Append(stackQ, [mark |-> mark, on |-> stacking]) /\ Room(stackQ, StackCap)
    BY <1>1, <2>2, AppendFits
  <2> QED
    BY <1>2, <2>1, <2>2
<1>4. \/ stackQ' = stackQ
      \/ /\ \A i \in 1..Len(stackQ) : stackQ'[i] = stackQ[i]
         /\ stackQ'[Len(stackQ) + 1] = [mark |-> mark, on |-> stacking]
  <2>1. CASE stackQ' = stackQ
    BY <2>1
  <2>2. CASE stackQ' = Append(stackQ, [mark |-> mark, on |-> stacking]) /\ Room(stackQ, StackCap)
    BY <1>1, <2>2, AppendFits
  <2> QED
    BY <1>2, <2>1, <2>2
<1>5. Threads' /\ Counts' /\ Hands' /\ Stacks'
  BY DEF Deliver, IInv, Frame, Room
<1>6. Channels'
  BY <1>1, <1>3 DEF Deliver, IInv, Channels, Room
<1>7. Places' /\ Orderly'
  BY <1>1, <1>3 DEF Deliver, IInv, Places, Orderly, Room
<1>8. TheGateTellsTheTruth'
  BY DEF Deliver, IInv, Places, TheGateTellsTheTruth, Room
<1>9. Marks'
  BY <1>1, <1>3, <1>4 DEF Deliver, IInv, Places, Orderly, Marks, Room
<1>10. Carried'
  BY <1>1, <1>3, <1>4 DEF Deliver, IInv, Places, Carried, Room
<1> QED
  BY <1>5, <1>6, <1>7, <1>8, <1>9, <1>10 DEF IInv

LEMMA OfferToStoreStep == ASSUME CapAssumption, IInv, OfferToStore PROVE IInv'
<1>1. StoreCap \in Nat /\ storeQ \in UpTo(BOOLEAN, StoreCap) /\ Len(storeQ) \in Nat /\ shot \in BOOLEAN
  BY CapAssumption, LenIsNat DEF IInv, Channels
<1>2. \/ storeQ' = storeQ
      \/ storeQ' = Append(storeQ, shot) /\ Room(storeQ, StoreCap)
  BY DEF OfferToStore
<1>3. \/ storeQ' = storeQ
      \/ storeQ' \in UpTo(BOOLEAN, StoreCap) /\ Len(storeQ') = Len(storeQ) + 1
  <2>1. CASE storeQ' = storeQ
    BY <2>1
  <2>2. CASE storeQ' = Append(storeQ, shot) /\ Room(storeQ, StoreCap)
    BY <1>1, <2>2, AppendFits
  <2> QED
    BY <1>2, <2>1, <2>2
<1>4. \/ storeQ' = storeQ
      \/ /\ \A i \in 1..Len(storeQ) : storeQ'[i] = storeQ[i]
         /\ storeQ'[Len(storeQ) + 1] = shot
  <2>1. CASE storeQ' = storeQ
    BY <2>1
  <2>2. CASE storeQ' = Append(storeQ, shot) /\ Room(storeQ, StoreCap)
    BY <1>1, <2>2, AppendFits
  <2> QED
    BY <1>2, <2>1, <2>2
<1>5. Threads'
  BY DEF OfferToStore, IInv, Room
<1>6. Counts'
  BY DEF OfferToStore, IInv, Room
<1>7. Hands'
  BY DEF OfferToStore, IInv, Frame, Room
<1>8. Stacks'
  BY DEF OfferToStore, IInv, Room
<1>9. Channels'
  BY <1>1, <1>3 DEF OfferToStore, IInv, Channels, Room
<1>10. Places' /\ Orderly'
  BY <1>1, <1>3 DEF OfferToStore, IInv, Places, Orderly, Room
<1>11. TheGateTellsTheTruth'
  BY DEF OfferToStore, IInv, Places, TheGateTellsTheTruth, Room
<1>12. Marks'
  BY <1>1, <1>3, <1>4 DEF OfferToStore, IInv, Places, Orderly, Marks, Room
<1>13. Carried'
  BY DEF OfferToStore, IInv, Places, Carried, Room
<1> QED
  BY <1>5, <1>6, <1>7, <1>8, <1>9, <1>10, <1>11, <1>12, <1>13 DEF IInv

LEMMA TakeFrameStep == ASSUME CapAssumption, IInv, TakeFrame PROVE IInv'
<1>1. StackCap \in Nat /\ stackQ \in UpTo(Frame, StackCap) /\ Len(stackQ) \in Nat
  BY CapAssumption, LenIsNat DEF IInv, Channels
<1>2. stackQ' = Tail(stackQ) /\ stackQ # <<>>
  BY DEF TakeFrame
<1>3. stackQ' \in UpTo(Frame, StackCap)
  BY <1>1, <1>2, TailFits
<1>4. Len(stackQ') = Len(stackQ) - 1 /\ Len(stackQ) > 0
  BY <1>1, <1>2, TailFits
<1>5. Head(stackQ) \in Frame /\ Head(stackQ) = stackQ[1]
  BY <1>1, <1>2, TailFits
<1>6. \A i \in 1..Len(stackQ') : stackQ'[i] = stackQ[i + 1]
  BY <1>1, <1>2, TailFits
<1>7. Threads' /\ Counts' /\ Hands' /\ Stacks'
  BY <1>5 DEF TakeFrame, IInv, Frame
<1>8. Channels'
  BY <1>1, <1>3, <1>4 DEF TakeFrame, IInv, Channels
<1>9. Places' /\ Orderly'
  BY <1>1, <1>3, <1>4 DEF TakeFrame, IInv, Places, Orderly
<1>10. TheGateTellsTheTruth'
  BY DEF TakeFrame, IInv, Places, TheGateTellsTheTruth
<1>11. Marks'
  BY <1>1, <1>3, <1>4, <1>5, <1>6 DEF TakeFrame, IInv, Places, Orderly, Marks
<1>12. Carried'
  BY <1>1, <1>3, <1>4, <1>5, <1>6 DEF TakeFrame, IInv, Places, Carried
<1> QED
  BY <1>7, <1>8, <1>9, <1>10, <1>11, <1>12 DEF IInv

LEMMA UnconvertibleStep == ASSUME CapAssumption, IInv, Unconvertible PROVE IInv'
<1>1. Threads' /\ Counts' /\ Hands' /\ Stacks'
  BY DEF Unconvertible, IInv, Frame
<1>2. Channels'
  BY DEF Unconvertible, IInv, Channels
<1>3. Places' /\ Orderly'
  BY DEF Unconvertible, IInv, Places, Orderly
<1>4. TheGateTellsTheTruth'
  BY DEF Unconvertible, IInv, Places, TheGateTellsTheTruth
<1>5. Marks'
  BY DEF Unconvertible, IInv, Places, Orderly, Marks
<1>6. Carried'
  BY DEF Unconvertible, IInv, Places, Carried
<1> QED
  BY <1>1, <1>2, <1>3, <1>4, <1>5, <1>6 DEF IInv

LEMMA StackFrameStep ==
    ASSUME CapAssumption, IInv, NEW fresh \in BOOLEAN, NEW joins \in BOOLEAN, NEW wander \in BOOLEAN,
           StackFrame(fresh, joins, wander)
    PROVE  IInv'
<1>1. Threads'
  BY DEF StackFrame, IInv, MustReset, Discarded, Joined, WantDisplay, Shows
<1>2. Counts'
  BY DEF StackFrame, IInv, MustReset, Discarded, Joined, WantDisplay, Shows
<1>3. Hands'
  BY DEF StackFrame, IInv, Frame, MustReset, Discarded, Joined, WantDisplay,
     Shows
<1>4. Stacks'
  <2>1. stack' \in Stack /\ wasOn' \in BOOLEAN
    BY DEF StackFrame, IInv, Joined, MustReset, Frame
  <2>2. inStack' \in {"none", "queued", "joined", "passed", "gone"}
    BY DEF StackFrame, IInv, Discarded
  <2>3. /\ parked' \in Stack /\ stacking' \in BOOLEAN /\ since' \in {"none", "recent", "past"}
        /\ onDisk' \in {"none", "queued", "settled"}
    BY DEF StackFrame, IInv
  <2> QED
    BY <2>1, <2>2, <2>3
<1>5. Channels'
  BY DEF StackFrame, IInv, Channels, MustReset, Discarded, Joined, WantDisplay,
     Shows
<1>6. Places' /\ Orderly'
  BY DEF StackFrame, IInv, Places, Orderly, MustReset, Discarded, Joined,
     WantDisplay, Shows
<1>7. TheGateTellsTheTruth'
  BY DEF StackFrame, IInv, Places, TheGateTellsTheTruth, MustReset, Discarded,
     Joined, WantDisplay, Shows
<1>8. Marks'
  BY DEF StackFrame, IInv, Places, Orderly, Marks, MustReset, Discarded, Joined,
     WantDisplay, Shows
<1>9. Carried'
  BY DEF StackFrame, IInv, Places, Carried, MustReset, Discarded, Joined,
     WantDisplay, Shows
<1> QED
  BY <1>1, <1>2, <1>3, <1>4, <1>5, <1>6, <1>7, <1>8, <1>9 DEF IInv

LEMMA TrySendStep == ASSUME CapAssumption, IInv, TrySend PROVE IInv'
<1>1. RenderCap \in Nat /\ renderQ \in UpTo(BOOLEAN, RenderCap) /\ Len(renderQ) \in Nat /\ picture \in BOOLEAN
  BY CapAssumption, LenIsNat DEF IInv, Channels
<1>2. \/ renderQ' = renderQ
      \/ renderQ' = Append(renderQ, picture) /\ Room(renderQ, RenderCap)
  BY DEF TrySend
<1>3. \/ renderQ' = renderQ
      \/ renderQ' \in UpTo(BOOLEAN, RenderCap) /\ Len(renderQ') = Len(renderQ) + 1
  <2>1. CASE renderQ' = renderQ
    BY <2>1
  <2>2. CASE renderQ' = Append(renderQ, picture) /\ Room(renderQ, RenderCap)
    BY <1>1, <2>2, AppendFits
  <2> QED
    BY <1>2, <2>1, <2>2
<1>4. \/ renderQ' = renderQ
      \/ /\ \A i \in 1..Len(renderQ) : renderQ'[i] = renderQ[i]
         /\ renderQ'[Len(renderQ) + 1] = picture
  <2>1. CASE renderQ' = renderQ
    BY <2>1
  <2>2. CASE renderQ' = Append(renderQ, picture) /\ Room(renderQ, RenderCap)
    BY <1>1, <2>2, AppendFits
  <2> QED
    BY <1>2, <2>1, <2>2
<1>5. Threads'
  BY DEF TrySend, IInv, Room, Less, GivenBack
<1>6. Counts'
  BY DEF TrySend, IInv, Room, Less, GivenBack
<1>7. Hands'
  BY DEF TrySend, IInv, Frame, Room, Less, GivenBack
<1>8. Stacks'
  BY DEF TrySend, IInv, Room, Less, GivenBack
<1>9. Channels'
  BY <1>1, <1>3 DEF TrySend, IInv, Channels, Room, Less, GivenBack
<1>10. Places' /\ Orderly'
  BY <1>1, <1>3 DEF TrySend, IInv, Places, Orderly, Room, Less, GivenBack
<1>11. TheGateTellsTheTruth'
  BY <1>1, <1>3 DEF TrySend, IInv, Places, TheGateTellsTheTruth, Room, Less,
     GivenBack
<1>12. Marks'
  BY DEF TrySend, IInv, Places, Orderly, Marks, Room, Less, GivenBack
<1>13. Carried'
  BY DEF TrySend, IInv, Places, Carried, Room, Less, GivenBack
<1> QED
  BY <1>5, <1>6, <1>7, <1>8, <1>9, <1>10, <1>11, <1>12, <1>13 DEF IInv

LEMMA StackerEndsStep == ASSUME CapAssumption, IInv, StackerEnds PROVE IInv'
<1>1. /\ <<>> \in UpTo(Frame, StackCap) /\ <<>> \in UpTo(BOOLEAN, StoreCap)
      /\ <<>> \in UpTo(BOOLEAN, RenderCap) /\ Len(<<>>) = 0
  BY CapAssumption, EmptyFits
<1>2. Threads'
  BY DEF StackerEnds, IInv
<1>3. Counts'
  BY DEF StackerEnds, IInv
<1>4. Hands'
  BY DEF StackerEnds, IInv, Frame
<1>5. Stacks'
  BY DEF StackerEnds, IInv
<1>6. Channels'
  BY <1>1 DEF StackerEnds, IInv, Channels
<1>7. Places' /\ Orderly'
  BY <1>1 DEF StackerEnds, IInv, Places, Orderly
<1>8. TheGateTellsTheTruth'
  BY <1>1 DEF StackerEnds, IInv, Places, TheGateTellsTheTruth
<1>9. Marks'
  BY <1>1 DEF StackerEnds, IInv, Places, Orderly, Marks
<1>10. Carried'
  BY <1>1 DEF StackerEnds, IInv, Places, Carried
<1> QED
  BY <1>2, <1>3, <1>4, <1>5, <1>6, <1>7, <1>8, <1>9, <1>10 DEF IInv

LEMMA TakePictureStep == ASSUME CapAssumption, IInv, TakePicture PROVE IInv'
<1>1. RenderCap \in Nat /\ renderQ \in UpTo(BOOLEAN, RenderCap) /\ Len(renderQ) \in Nat
  BY CapAssumption, LenIsNat DEF IInv, Channels
<1>2. renderQ' = Tail(renderQ) /\ renderQ # <<>>
  BY DEF TakePicture
<1>3. renderQ' \in UpTo(BOOLEAN, RenderCap)
  BY <1>1, <1>2, TailFits
<1>4. Len(renderQ') = Len(renderQ) - 1 /\ Len(renderQ) > 0
  BY <1>1, <1>2, TailFits
<1>5. Head(renderQ) \in BOOLEAN /\ Head(renderQ) = renderQ[1]
  BY <1>1, <1>2, TailFits
<1>6. Threads' /\ Counts' /\ Hands' /\ Stacks'
  BY <1>5 DEF TakePicture, IInv, Frame
<1>7. Channels'
  BY <1>1, <1>3, <1>4 DEF TakePicture, IInv, Channels
<1>8. Places' /\ Orderly'
  BY <1>1, <1>3, <1>4 DEF TakePicture, IInv, Places, Orderly
<1>9. TheGateTellsTheTruth'
  <2>1. /\ ren = "recv" /\ owed = 0 /\ owed' = 1
        /\ depth' = depth /\ stk' = stk /\ panicked' = panicked
    BY DEF TakePicture, IInv, Places
  <2>2. depth \in Nat /\ TheGateTellsTheTruth
    BY DEF IInv
  <2> QED
    BY <1>1, <1>4, <2>1, <2>2 DEF TheGateTellsTheTruth
<1>10. Marks'
  BY DEF TakePicture, IInv, Places, Orderly, Marks
<1>11. Carried'
  BY DEF TakePicture, IInv, Places, Carried
<1> QED
  BY <1>6, <1>7, <1>8, <1>9, <1>10, <1>11 DEF IInv

LEMMA SkipToLatestStep == ASSUME CapAssumption, IInv, SkipToLatest PROVE IInv'
<1>1. RenderCap \in Nat /\ renderQ \in UpTo(BOOLEAN, RenderCap) /\ Len(renderQ) \in Nat
  BY CapAssumption, LenIsNat DEF IInv, Channels
<1>2. renderQ # <<>> => renderQ' = Tail(renderQ)
  BY DEF SkipToLatest
<1>3. renderQ # <<>> => renderQ' \in UpTo(BOOLEAN, RenderCap)
  <2>1. CASE renderQ = <<>>
    BY <2>1
  <2>2. CASE renderQ # <<>>
    <3>1. renderQ' = Tail(renderQ)
      BY <1>2, <2>2
    <3>2. Tail(renderQ) \in UpTo(BOOLEAN, RenderCap)
      BY <1>1, <2>2, TailFits
    <3> QED
      BY <3>1, <3>2
  <2> QED
    BY <2>1, <2>2
<1>4. renderQ # <<>> => Len(renderQ') = Len(renderQ) - 1 /\ Len(renderQ) > 0
  BY <1>1, <1>2, TailFits
<1>5. renderQ # <<>> => Head(renderQ) \in BOOLEAN /\ Head(renderQ) = renderQ[1]
  BY <1>1, <1>2, TailFits
<1>6. Threads' /\ Counts' /\ Hands' /\ Stacks'
  BY <1>5 DEF SkipToLatest, IInv, Frame
<1>7. Channels'
  BY <1>1, <1>3, <1>4 DEF SkipToLatest, IInv, Channels
<1>8. Places' /\ Orderly'
  BY <1>1, <1>3, <1>4 DEF SkipToLatest, IInv, Places, Orderly
<1>9. TheGateTellsTheTruth'
  BY <1>1, <1>3, <1>4 DEF SkipToLatest, IInv, Places, TheGateTellsTheTruth
<1>10. Marks'
  BY DEF SkipToLatest, IInv, Places, Orderly, Marks
<1>11. Carried'
  BY DEF SkipToLatest, IInv, Places, Carried
<1> QED
  BY <1>6, <1>7, <1>8, <1>9, <1>10, <1>11 DEF IInv

LEMMA DrawStep == ASSUME CapAssumption, IInv, Draw PROVE IInv'
<1>1. Threads'
  BY DEF Draw, IInv, Less, Taken
<1>2. Counts'
  BY DEF Draw, IInv, Less, Taken
<1>3. Hands'
  BY DEF Draw, IInv, Frame, Less, Taken
<1>4. Stacks'
  BY DEF Draw, IInv, Less, Taken
<1>5. Channels'
  BY DEF Draw, IInv, Channels, Less, Taken
<1>6. Places' /\ Orderly'
  BY DEF Draw, IInv, Places, Orderly, Less, Taken
<1>7. TheGateTellsTheTruth'
  BY DEF Draw, IInv, Places, TheGateTellsTheTruth, Less, Taken
<1>8. Marks'
  BY DEF Draw, IInv, Places, Orderly, Marks, Less, Taken
<1>9. Carried'
  BY DEF Draw, IInv, Places, Carried, Less, Taken
<1> QED
  BY <1>1, <1>2, <1>3, <1>4, <1>5, <1>6, <1>7, <1>8, <1>9 DEF IInv

LEMMA RendererEndsStep == ASSUME CapAssumption, IInv, RendererEnds PROVE IInv'
BY DEF RendererEnds, IInv, Channels, Places, Orderly, TheGateTellsTheTruth,
   Marks, Carried, Frame

LEMMA StoreFrameStep == ASSUME CapAssumption, IInv, StoreFrame PROVE IInv'
<1>1. StoreCap \in Nat /\ storeQ \in UpTo(BOOLEAN, StoreCap) /\ Len(storeQ) \in Nat
  BY CapAssumption, LenIsNat DEF IInv, Channels
<1>2. storeQ' = Tail(storeQ) /\ storeQ # <<>>
  BY DEF StoreFrame
<1>3. storeQ' \in UpTo(BOOLEAN, StoreCap)
  BY <1>1, <1>2, TailFits
<1>4. Len(storeQ') = Len(storeQ) - 1 /\ Len(storeQ) > 0
  BY <1>1, <1>2, TailFits
<1>5. Head(storeQ) \in BOOLEAN /\ Head(storeQ) = storeQ[1]
  BY <1>1, <1>2, TailFits
<1>6. \A i \in 1..Len(storeQ') : storeQ'[i] = storeQ[i + 1]
  BY <1>1, <1>2, TailFits
<1>7. Threads'
  <2>1. UNCHANGED <<main, threads>> /\ Threads
    BY DEF StoreFrame, IInv
  <2> QED
    BY <2>1
<1>8. Counts'
  BY DEF StoreFrame, IInv
<1>9. Hands'
  BY DEF StoreFrame, IInv, Frame
<1>10. Stacks'
  BY <1>5 DEF StoreFrame, IInv
<1>11. Channels'
  BY <1>1, <1>3, <1>4 DEF StoreFrame, IInv, Channels
<1>12. Places' /\ Orderly'
  BY <1>1, <1>3, <1>4 DEF StoreFrame, IInv, Places, Orderly
<1>13. TheGateTellsTheTruth'
  BY DEF StoreFrame, IInv, Places, TheGateTellsTheTruth
<1>14. Marks'
  <2>1. inStack' = inStack /\ stackQ' = stackQ /\ stk' = stk /\ sub' = sub /\ panicked' = panicked
    BY DEF StoreFrame
  <2>2. ASSUME ~panicked, onDisk' = "queued"
        PROVE  \E i \in 1..Len(storeQ') : storeQ'[i]
    <3>1. onDisk = "queued" /\ ~storeQ[1]
      BY <1>5, <2>2 DEF StoreFrame
    <3>2. PICK i \in 1..Len(storeQ) : storeQ[i]
      BY <2>2, <3>1 DEF IInv, Marks
    <3>3. i - 1 \in 1..Len(storeQ') /\ storeQ'[i - 1] = storeQ[(i - 1) + 1] /\ (i - 1) + 1 = i
      BY <1>1, <1>4, <1>6, <3>1, <3>2
    <3> QED
      BY <3>2, <3>3
  <2> QED
    BY <2>1, <2>2 DEF IInv, Marks
<1>15. Carried'
  BY DEF StoreFrame, IInv, Places, Carried
<1> QED
  BY <1>7, <1>8, <1>9, <1>10, <1>11, <1>12, <1>13, <1>14, <1>15 DEF IInv

LEMMA StorerEndsStep == ASSUME CapAssumption, IInv, StorerEnds PROVE IInv'
BY DEF StorerEnds, IInv, Channels, Places, Orderly, TheGateTellsTheTruth, Marks,
   Carried, Frame

LEMMA StutterStep == ASSUME IInv, UNCHANGED vars PROVE IInv'
BY DEF vars, IInv, Channels, Places, Orderly, TheGateTellsTheTruth, Marks, Carried

LEMMA InitIsGood == ASSUME CapAssumption, Init PROVE IInv
<1>1. /\ <<>> \in UpTo(Frame, StackCap) /\ <<>> \in UpTo(BOOLEAN, StoreCap)
      /\ <<>> \in UpTo(BOOLEAN, RenderCap) /\ Len(<<>>) = 0
  BY CapAssumption, EmptyFits
<1>2. Threads /\ Counts /\ Hands /\ Stacks
  <2>1. NoFrame \in Frame
    BY DEF Frame
  <2>2. Threads /\ Stacks
    BY DEF Init
  <2>3. Counts
    BY CapAssumption DEF Init
  <2>4. Hands
    BY <2>1 DEF Init
  <2> QED
    BY <2>2, <2>3, <2>4
<1>3. Channels /\ Places /\ Orderly /\ TheGateTellsTheTruth /\ Marks /\ Carried
  BY <1>1 DEF Init, Channels, Places, Orderly, TheGateTellsTheTruth, Marks, Carried
<1> QED
  BY <1>2, <1>3 DEF IInv

\* The invariant the properties below are read off: where each thread is, that
\* the render count is the truth, and where the marked frame and its stack are.
THEOREM InductiveInvariant == Spec => []IInv
<1>1. Init => IInv
  BY CapAssumption, InitIsGood
<1>2. IInv /\ [Next]_vars => IInv'
  <2> SUFFICES ASSUME IInv, [Next]_vars PROVE IInv'
    OBVIOUS
  <2>1. CASE Orchestrate
    BY <2>1, CapAssumption, ProbeFailsStep, ProbeArrivesStep, ProbeToStackStep,
       ProbeToStoreStep, SpawnCaptureStep, SpawnStagesStep, EndSessionStep, HandBackStep
       DEF Orchestrate
  <2>2. CASE CaptureThread
    BY <2>2, CapAssumption, ExposureFailsStep, CaptureEndsStep, OfferToStoreStep,
       DeliverStep DEF CaptureThread
  <2>3. CASE StackingThread
    BY <2>3, CapAssumption, TakeFrameStep, UnconvertibleStep, TrySendStep,
       StackerEndsStep, StackFrameStep DEF StackingThread
  <2>4. CASE RenderThread
    BY <2>4, CapAssumption, TakePictureStep, SkipToLatestStep, DrawStep, RendererEndsStep
       DEF RenderThread
  <2>5. CASE StorageThread
    BY <2>5, CapAssumption, StoreFrameStep, StorerEndsStep DEF StorageThread
  <2>6. CASE Outside
    BY <2>6, CapAssumption, StartStep, ResumeStep, GiveUpStep, StopStep, DrainRunsOutStep,
       ToggleStackingStep, PanicsStep DEF Outside
  <2>7. CASE UNCHANGED vars
    BY <2>7, StutterStep
  <2> QED
    BY <2>1, <2>2, <2>3, <2>4, <2>5, <2>6, <2>7 DEF Next
<1> QED
  BY <1>1, <1>2, PTL DEF Spec

\* Channels of any size are never over their capacity, and every thread is
\* where it can be (the bounded sends of task.rs and capture_thread.rs).
THEOREM TypeCorrect == Spec => []TypeOK
<1>1. IInv => TypeOK
  BY DEF IInv, TypeOK, Channels
<1> QED
  BY <1>1, InductiveInvariant, PTL

\* The display gate is never closed by a count nobody holds: the render count
\* is the messages queued, in hand, or claimed (channel.rs QueueDepth).
THEOREM GateIsTrue == Spec => []TheGateTellsTheTruth
<1>1. IInv => TheGateTellsTheTruth
  BY DEF IInv
<1> QED
  BY <1>1, InductiveInvariant, PTL

\* No frame a channel accepted is lost before the disk session ends, and a
\* frame that joined the stack survives every fault and resume.
THEOREM AcceptedIsKept == Spec => []WhatIsAcceptedIsKept
<1>1. IInv => WhatIsAcceptedIsKept
  <2> SUFFICES ASSUME IInv, ~panicked PROVE WhatIsAcceptedIsKept
    BY DEF WhatIsAcceptedIsKept
  <2>1. main = "closing" => Len(stackQ) = 0 /\ Len(storeQ) = 0 /\ stk # "work"
    BY DEF IInv, Places
  <2>2. main = "closing" => inStack # "queued" /\ onDisk # "queued"
    BY <2>1 DEF IInv, Marks
  <2>3. inStack = "joined" /\ ~toggled => "marked" \in {stack, parked}
    BY DEF IInv, Carried
  <2> QED
    BY <2>2, <2>3 DEF WhatIsAcceptedIsKept
<1> QED
  BY <1>1, InductiveInvariant, PTL

=============================================================================
