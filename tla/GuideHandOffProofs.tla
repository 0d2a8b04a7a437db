------------------------- MODULE GuideHandOffProofs -------------------------
(***************************************************************************)
(* What GuideHandOff keeps for any number of handles, monitors, loops,     *)
(* clients, faults and requests: outside the races it excepts, a connected *)
(* camera at rest is reachable, one that has left is closed, and a live    *)
(* device is closed by nobody but its teardown or a fault.                 *)
(*                                                                         *)
(* The invariant has three layers.  What holds whatever happens is where a *)
(* handle can be, who is registered and who can be connecting (Owned,      *)
(* Enlisted, Watched, Connecting, Told, Paused).  Unless something crossed *)
(* a teardown or came in behind it, it leaves nothing of its connection    *)
(* (Gone).  And unless a stop gave up on a loop, the handles in hand are   *)
(* of the newest connection, whose phase and monitor know of them (Calm).  *)
(***************************************************************************)
EXTENDS GuideHandOff, TLAPS

\* Where a task can be.
TearDowns == {"retiring", "stopping", "awaiting", "closing", "removing"}
Kinds ==
    /\ \A m \in Monitor : pc[m] \in {"idle", "watching", "out", "putting"} \cup TearDowns
    /\ \A l \in Loop : pc[l] \in {"idle", "queued", "waiting", "held", "taken", "exposing",
                                  "returning", "parking", "resuming"} \cup TearDowns
    /\ \A k \in Client : pc[k] \in {"idle", "opening", "installing", "starting"} \cup TearDowns
    /\ \A t \in Task : after[t] # "idle" => pc[t] \in {"stopping", "awaiting"}

\* Who has a handle, each its own, and that an open device's is somewhere.
Holding == {"out", "putting", "taken", "exposing", "returning", "parking", "installing"}
Owned ==
    /\ \A t \in Task : holds[t] # NoHandle <=> pc[t] \in Holding
    /\ \A t, u \in Task : holds[t] = holds[u] /\ holds[t] # NoHandle => t = u
    /\ \A t \in Task : handle # NoHandle => holds[t] # handle
    /\ alive => newest # NoHandle /\ (handle = newest \/ \E t \in Task : holds[t] = newest)

\* A loop at work is registered until it is told to stop.
Active == {"queued", "waiting", "held", "taken", "exposing"}
Enlisted ==
    /\ \A l \in Loop : registered = l => l \notin cancel /\ pc[l] \in Active
    /\ \A l \in Loop : pc[l] \in Active => registered = l \/ l \in cancel
    /\ \A l \in Loop : pc[l] = "returning" => l \in cancel
    /\ NoLoopAwaitsItself

\* Only the monitor of the newest connection polls.
Watched ==
    /\ tx \in {NoTask, current}
    /\ \A m \in Monitor : pc[m] = "watching" => m = tx
    /\ \A m \in Monitor : pc[m] = "out" /\ m # current => holds[m] # newest

Connecting ==
    /\ \A k \in Client : pc[k] \in {"opening", "installing"} => ~connected
    /\ \A k, c \in Client : {pc[k], pc[c]} \subseteq {"opening", "installing", "starting"} => k = c
    /\ \A k \in Client : pc[k] = "installing" => holds[k] = newest /\ alive

\* A teardown that has retired the monitor ends by removing the entry.
Stopped(t) == pc[t] \in {"closing", "removing"} \/ (pc[t] = "awaiting" /\ after[t] = "closing")
Finalizing(t) == Stopped(t) \/ (pc[t] = "stopping" /\ after[t] = "closing")
Doomed(t) == pc[t] = "retiring" \/ Finalizing(t)

Told ==
    connected => phase # "disconnected" /\ (tx = NoTask => \E t \in Task : Finalizing(t))

Paused ==
    connected /\ paused /\ phase # "guiding" => \E l \in Loop : pc[l] = "waiting"

\* What a teardown has taken away at each of its stages, unless something
\* crossed it or came in behind it.
Gone == odd \subseteq {"late"} =>
    /\ ~connected =>
          /\ phase = "disconnected" /\ handle = NoHandle /\ tx = NoTask
          /\ \A t \in Task : pc[t] \notin {"putting", "parking", "resuming"}
          /\ \A l \in Loop : registered = l => pc[l] \notin {"taken", "exposing"}
    /\ \A t \in Task : Finalizing(t) => tx = NoTask
    /\ \A t \in Task : pc[t] = "removing" => handle = NoHandle
    /\ \A t \in Task, l \in Loop : Stopped(t) /\ registered = l =>
          pc[l] = "queued" \/ (pc[l] \in {"waiting", "held"} /\ ~paused)

\* With no race at all, the handles in hand are the newest connection's, and
\* whoever told a loop to stop waits for it.
Current(h) == h = newest /\ alive

Calm == odd = {} =>
    /\ \A l \in Loop : pc[l] \in {"taken", "exposing"} =>
          (tx # NoTask => paused) /\ (connected => phase = "guiding")
    /\ handle # NoHandle => Current(handle)
    /\ \A l \in Loop : connected /\ pc[l] \in {"taken", "exposing", "returning", "parking"} =>
          Current(holds[l])
    /\ \A m \in Monitor : pc[m] = "putting" \/ (connected /\ pc[m] = "out" /\ m = current) =>
          Current(holds[m])
    /\ \A l \in Loop : l \in cancel /\ pc[l] \in {"waiting", "held", "taken", "exposing", "returning"} =>
          \E t \in Task : pc[t] = "awaiting" /\ waits[t] = l
    /\ connected /\ phase = "guiding" =>
          \/ \E l \in Loop : pc[l] \in {"taken", "exposing", "returning", "parking", "resuming"}
          \/ \E t \in Task : Doomed(t)

IInv == TypeOK /\ Kinds /\ Owned /\ Enlisted /\ Watched /\ Connecting /\ Told /\ Paused /\ Gone /\ Calm

-----------------------------------------------------------------------------
(* The initial state, types and kinds.                                     *)

LEMMA Kinship ==
    /\ \A m \in Monitor : m \in Task /\ m \notin Loop /\ m \notin Client
    /\ \A l \in Loop : l \in Task /\ l \notin Monitor /\ l \notin Client
    /\ \A k \in Client : k \in Task /\ k \notin Monitor /\ k \notin Loop
    /\ \A t \in Task : t # NoTask /\ (t \in Monitor \/ t \in Loop \/ t \in Client)
  BY TaskAssumption DEF Task

LEMMA InitStep == Init => IInv
<1>. SUFFICES ASSUME Init PROVE IInv
  OBVIOUS
<1>. USE DEF Init
<1>1. TypeOK
  <2>1. pc \in [Task -> Places] /\ holds \in [Task -> Handle \cup {NoHandle}]
    BY DEF Places
  <2>2. after \in [Task -> {"idle", "retiring", "closing"}] /\ waits \in [Task -> Loop \cup {NoTask}]
    OBVIOUS
  <2>3. faults \in 0..MaxFaults /\ requests \in 0..MaxRequests
    BY BoundAssumption
  <2>. QED
    BY <2>1, <2>2, <2>3 DEF TypeOK
<1>. USE Kinship
<1>2. Kinds /\ Owned
  BY DEF Kinds, Owned, Holding
<1>3. Enlisted /\ Watched /\ Connecting
  BY DEF Enlisted, Active, NoLoopAwaitsItself, Watched, Connecting
<1>4. Told /\ Paused
  BY DEF Told, Paused
<1>5. Gone
  BY DEF Gone, Finalizing, Stopped
<1>6. Calm
  BY DEF Calm
<1>. QED
  BY <1>1, <1>2, <1>3, <1>4, <1>5, <1>6 DEF IInv

LEMMA GotoTyped ==
  ASSUME TypeOK, NEW t \in Task, NEW place \in Places, Goto(t, place)
  PROVE  pc' \in [Task -> Places]
BY DEF TypeOK, Goto

LEMMA HoldsTyped ==
  ASSUME TypeOK, NEW t \in Task, NEW h \in Handle \cup {NoHandle}, Holds(t, h)
  PROVE  holds' \in [Task -> Handle \cup {NoHandle}]
BY DEF TypeOK, Holds

LEMMA TypeStep == TypeOK /\ [Next]_vars => TypeOK'
<1>. SUFFICES ASSUME TypeOK, [Next]_vars PROVE TypeOK'
  OBVIOUS
<1>. USE Kinship, BoundAssumption DEF TypeOK, Places, Races, slotVars, monVars, loopVars, stopVars, countVars,
         Goto, Holds, Drop, MarkIf, Fault, Rest, Polls, Register, Finish, MarkRunning, SendPause, SendResume
<1>1. ASSUME NEW m \in Monitor, MonitorStep(m) PROVE TypeOK'
  <2>1. CASE Poll(m)
    BY <2>1 DEF Poll
  <2>2. CASE Overrun(m)
    BY <2>2 DEF Overrun
  <2>3. CASE Judge(m)
    <3>1. pc' \in [Task -> Places]
      <4>1. Rest(m) \in Places
        OBVIOUS
      <4>2. Goto(m, Rest(m)) \/ Goto(m, "putting")
        BY <2>3 DEF Judge
      <4>. QED
        BY <4>1, <4>2, GotoTyped
    <3>2. holds' \in [Task -> Handle \cup {NoHandle}] /\ alive' \in BOOLEAN
      <4>1. Holds(m, NoHandle) \/ holds' = holds
        BY <2>3 DEF Judge
      <4>2. alive' \in BOOLEAN
        BY <2>3 DEF Judge
      <4>. QED
        BY <4>1, <4>2, HoldsTyped
    <3>3. UNCHANGED <<connected, phase, handle, newest, monVars, loopVars, stopVars, countVars>>
      BY <2>3 DEF Judge
    <3>. QED
      BY <3>1, <3>2, <3>3
  <2>4. CASE Put(m)
    <3>1. pc' \in [Task -> Places]
      <4>1. Rest(m) \in Places
        OBVIOUS
      <4>2. Goto(m, Rest(m))
        BY <2>4 DEF Put
      <4>. QED
        BY <4>1, <4>2, GotoTyped
    <3>2. holds' \in [Task -> Handle \cup {NoHandle}]
      BY <2>4, HoldsTyped DEF Put
    <3>3. handle' \in Handle \cup {NoHandle} /\ alive' \in BOOLEAN
      BY <2>4 DEF Put
    <3>4. odd' \subseteq Races /\ UNCHANGED <<connected, phase, newest, monVars, loopVars, stopVars, faults, requests>>
      BY <2>4 DEF Put
    <3>. QED
      BY <3>1, <3>2, <3>3, <3>4
  <2>5. CASE MissHandle(m)
    BY <2>5 DEF MissHandle
  <2>. QED
    BY <1>1, <2>1, <2>2, <2>3, <2>4, <2>5 DEF MonitorStep
<1>2. ASSUME NEW l \in Loop, LoopStep(l) PROVE TypeOK'
  <2>1. CASE Take(l)
    <3>1. pc' \in [Task -> Places]
      <4>1. Goto(l, "idle") \/ Goto(l, "held") \/ Goto(l, "waiting")
        BY <2>1 DEF Take
      <4>. QED
        BY <4>1, GotoTyped
    <3>2. paused' \in BOOLEAN
      BY <2>1 DEF Take
    <3>3. UNCHANGED <<slotVars, current, tx, loopVars, holds, stopVars, countVars>>
      BY <2>1 DEF Take
    <3>. QED
      BY <3>1, <3>2, <3>3
  <2>2. CASE TakeHandle(l)
    BY <2>2 DEF TakeHandle
  <2>3. CASE TakeRefused(l) \/ TakeFindsBusy(l) \/ TakeFails(l)
    <3>1. pc' \in [Task -> Places]
      BY <2>3 DEF TakeRefused, TakeFindsBusy, TakeFails
    <3>2. /\ registered' \in Loop \cup {NoTask} /\ running' \in BOOLEAN
          /\ odd' \subseteq Races /\ paused' \in BOOLEAN
      BY <2>3 DEF TakeRefused, TakeFindsBusy, TakeFails
    <3>. QED
      BY <2>3, <3>1, <3>2 DEF TakeRefused, TakeFindsBusy, TakeFails
  <2>4. CASE RunLoop(l) \/ EndLoop(l)
    <3>1. pc' \in [Task -> Places] /\ registered' \in Loop \cup {NoTask} /\ running' \in BOOLEAN
      BY <2>4 DEF RunLoop, EndLoop
    <3>2. UNCHANGED <<slotVars, monVars, cancel, holds, stopVars, countVars>>
      BY <2>4 DEF RunLoop, EndLoop
    <3>. QED
      BY <3>1, <3>2
  <2>5. CASE LoseLoop(l)
    <3>1. pc' \in [Task -> Places] /\ registered' \in Loop \cup {NoTask} /\ running' \in BOOLEAN
      BY <2>5 DEF LoseLoop
    <3>2. holds' \in [Task -> Handle \cup {NoHandle}] /\ alive' \in BOOLEAN /\ faults' \in 0..MaxFaults
      BY <2>5 DEF LoseLoop
    <3>3. UNCHANGED <<connected, phase, handle, newest, monVars, cancel, stopVars, requests, odd>>
      BY <2>5 DEF LoseLoop
    <3>. QED
      BY <3>1, <3>2, <3>3
  <2>6. CASE GiveBack(l)
    <3>1. pc' \in [Task -> Places]
      <4>1. Goto(l, "idle") \/ Goto(l, "parking")
        BY <2>6 DEF GiveBack
      <4>. QED
        BY <4>1, GotoTyped
    <3>2. holds' \in [Task -> Handle \cup {NoHandle}]
      <4>1. Holds(l, NoHandle) \/ holds' = holds
        BY <2>6 DEF GiveBack
      <4>. QED
        BY <4>1, HoldsTyped
    <3>3. alive' \in BOOLEAN
      BY <2>6 DEF GiveBack
    <3>4. UNCHANGED <<connected, phase, handle, newest, monVars, loopVars, stopVars, countVars>>
      BY <2>6 DEF GiveBack
    <3>. QED
      BY <3>1, <3>2, <3>3, <3>4
  <2>7. CASE Park(l)
    <3>1. pc' \in [Task -> Places] /\ holds' \in [Task -> Handle \cup {NoHandle}]
      BY <2>7, GotoTyped, HoldsTyped DEF Park
    <3>2. handle' \in Handle \cup {NoHandle} /\ alive' \in BOOLEAN
      BY <2>7 DEF Park
    <3>3. odd' \subseteq Races /\ UNCHANGED <<connected, phase, newest, monVars, loopVars, stopVars, faults, requests>>
      BY <2>7 DEF Park
    <3>. QED
      BY <3>1, <3>2, <3>3
  <2>8. CASE ResumeMonitor(l)
    BY <2>8 DEF ResumeMonitor
  <2>. QED
    BY <1>2, <2>1, <2>2, <2>3, <2>4, <2>5, <2>6, <2>7, <2>8 DEF LoopStep
<1>3. ASSUME NEW k \in Client, RequestStep(k) PROVE TypeOK'
  <2>1. requests' \in 0..MaxRequests /\ UNCHANGED <<connected, phase, handle, newest, alive, monVars,
            holds, waits, faults, odd>>
    BY <1>3 DEF RequestStep, Request, Connect, Disconnect, StopGuide, StartGuide
  <2>2. pc' \in [Task -> Places] /\ after' \in [Task -> {"idle", "retiring", "closing"}]
    BY <1>3 DEF RequestStep, Request, Connect, Disconnect, StopGuide, StartGuide
  <2>3. registered' \in Loop \cup {NoTask} /\ running' \in BOOLEAN /\ cancel' \subseteq Loop
    BY <1>3 DEF RequestStep, Request, Connect, Disconnect, StopGuide, StartGuide
  <2>. QED
    BY <2>1, <2>2, <2>3
<1>4. ASSUME NEW k \in Client, ConnectStep(k) PROVE TypeOK'
  <2>1. CASE Open(k)
    BY <2>1 DEF Open
  <2>2. CASE Install(k)
    <3>1. pc' \in [Task -> Places]
      BY <2>2 DEF Install
    <3>2. current' \in Monitor /\ tx' \in Monitor /\ holds' \in [Task -> Handle \cup {NoHandle}]
      BY <2>2 DEF Install
    <3>. QED
      BY <2>2, <3>1, <3>2 DEF Install
  <2>3. CASE StartLoop(k)
    BY <2>3 DEF StartLoop
  <2>. QED
    BY <1>4, <2>1, <2>2, <2>3 DEF ConnectStep
<1>5. ASSUME NEW t \in Task, TearDown(t) PROVE TypeOK'
  <2>1. CASE Retire(t)
    BY <2>1 DEF Retire
  <2>2. CASE StopLoop(t)
    <3>1. pc' \in [Task -> Places]
      BY <2>2, GotoTyped DEF StopLoop
    <3>2. registered' = NoTask /\ running' = FALSE /\ cancel' \subseteq Loop
      BY <2>2 DEF StopLoop
    <3>3. waits' \in [Task -> Loop \cup {NoTask}]
      BY <2>2 DEF StopLoop
    <3>4. UNCHANGED <<slotVars, monVars, holds, after, countVars>>
      BY <2>2 DEF StopLoop
    <3>. QED
      BY <3>1, <3>2, <3>3, <3>4
  <2>3. CASE StopReturns(t)
    BY <2>3 DEF StopReturns
  <2>4. CASE CloseHandle(t)
    <3>1. pc' \in [Task -> Places]
      BY <2>4, GotoTyped DEF CloseHandle
    <3>2. handle' = NoHandle /\ alive' \in BOOLEAN
      BY <2>4 DEF CloseHandle
    <3>3. UNCHANGED <<connected, phase, newest, monVars, loopVars, holds, stopVars, countVars>>
      BY <2>4 DEF CloseHandle
    <3>. QED
      BY <3>1, <3>2, <3>3
  <2>5. CASE Remove(t)
    BY <2>5 DEF Remove
  <2>. QED
    BY <1>5, <2>1, <2>2, <2>3, <2>4, <2>5 DEF TearDown
<1>6. CASE UNCHANGED vars
  BY <1>6 DEF vars
<1>. QED
  BY <1>1, <1>2, <1>3, <1>4, <1>5, <1>6 DEF Next

\* A teardown, or a stop, can be any task's.
LEMMA KindsStep == TypeOK /\ Kinds /\ [Next]_vars => Kinds'
<1>. SUFFICES ASSUME TypeOK, Kinds, [Next]_vars PROVE Kinds'
  OBVIOUS
<1>. USE Kinship DEF TypeOK, Kinds, TearDowns, Goto, stopVars
<1>1. ASSUME NEW m \in Monitor, MonitorStep(m) PROVE Kinds'
  <2>1. CASE Poll(m) \/ MissHandle(m)
    BY <2>1 DEF Poll, Polls, MissHandle
  <2>2. CASE Overrun(m)
    BY <2>2 DEF Overrun, Rest
  <2>3. CASE Judge(m)
    BY <2>3 DEF Judge, Rest
  <2>4. CASE Put(m)
    BY <2>4 DEF Put, Rest
  <2>. QED
    BY <1>1, <2>1, <2>2, <2>3, <2>4 DEF MonitorStep
<1>2. ASSUME NEW l \in Loop, LoopStep(l) PROVE Kinds'
  <2>1. CASE Take(l) \/ TakeHandle(l) \/ TakeRefused(l) \/ TakeFindsBusy(l) \/ TakeFails(l)
    BY <2>1 DEF Take, TakeHandle, TakeRefused, TakeFindsBusy, TakeFails
  <2>2. CASE RunLoop(l) \/ EndLoop(l) \/ LoseLoop(l)
    BY <2>2 DEF RunLoop, EndLoop, LoseLoop
  <2>3. CASE GiveBack(l)
    BY <2>3 DEF GiveBack
  <2>4. CASE Park(l)
    BY <2>4 DEF Park
  <2>5. CASE ResumeMonitor(l)
    BY <2>5 DEF ResumeMonitor
  <2>. QED
    BY <1>2, <2>1, <2>2, <2>3, <2>4, <2>5 DEF LoopStep
<1>3. ASSUME NEW k \in Client, RequestStep(k) PROVE Kinds'
  <2>1. CASE Connect(k) \/ StopGuide(k)
    BY <2>1 DEF Connect, StopGuide, Request
  <2>2. CASE Disconnect(k)
    BY <2>2 DEF Disconnect, Request
  <2>3. CASE \E l \in Loop : StartGuide(k, l)
    BY <2>3 DEF StartGuide, Register, Request
  <2>. QED
    BY <1>3, <2>1, <2>2, <2>3 DEF RequestStep
<1>4. ASSUME NEW k \in Client, ConnectStep(k) PROVE Kinds'
  <2>1. CASE Open(k)
    BY <2>1 DEF Open
  <2>2. CASE Install(k)
    BY <2>2 DEF Install
  <2>3. CASE StartLoop(k)
    BY <2>3 DEF StartLoop, Register
  <2>. QED
    BY <1>4, <2>1, <2>2, <2>3 DEF ConnectStep
<1>5. ASSUME NEW t \in Task, TearDown(t) PROVE Kinds'
  <2>1. CASE Retire(t)
    BY <2>1 DEF Retire
  <2>2. CASE StopLoop(t)
    BY <2>2 DEF StopLoop
  <2>3. CASE StopReturns(t)
    BY <2>3 DEF StopReturns
  <2>4. CASE CloseHandle(t)
    BY <2>4 DEF CloseHandle
  <2>5. CASE Remove(t)
    BY <2>5 DEF Remove
  <2>. QED
    BY <1>5, <2>1, <2>2, <2>3, <2>4, <2>5 DEF TearDown
<1>6. CASE UNCHANGED vars
  BY <1>6 DEF vars
<1>. QED
  BY <1>1, <1>2, <1>3, <1>4, <1>5, <1>6 DEF Next

-----------------------------------------------------------------------------
(* The monitor.                                                            *)

LEMMA PollStep ==
  ASSUME IInv, NEW m \in Monitor, Poll(m), TypeOK', Kinds'
  PROVE  IInv'
<1>. USE Kinship DEF Goto, Holds
<1>1. /\ pc[m] = "watching" /\ ~paused /\ handle # NoHandle /\ handle' = NoHandle
      /\ UNCHANGED <<connected, phase, newest, alive, monVars, loopVars, stopVars, countVars>>
  BY DEF Poll, Polls
<1>2. \A t \in Task : pc'[t] = IF t = m THEN "out" ELSE pc[t]
  BY DEF Poll, IInv, TypeOK
<1>3. \A t \in Task : holds'[t] = IF t = m THEN handle ELSE holds[t]
  BY DEF Poll, IInv, TypeOK
<1>. USE <1>1, <1>2, <1>3 DEF monVars, loopVars, stopVars, countVars
<1>4. Owned'
  BY DEF IInv, Owned, Holding
<1>5. Enlisted'
  BY DEF IInv, Enlisted, Active, NoLoopAwaitsItself
<1>6. Watched'
  BY DEF IInv, Watched
<1>7. Connecting'
  BY DEF IInv, Connecting
<1>8. Told' /\ Paused'
  BY DEF IInv, Told, Paused, Finalizing, Stopped
<1>9. Gone'
  BY DEF IInv, Gone, Finalizing, Stopped
<1>10. Calm'
  BY DEF IInv, Calm, Current, Doomed, Finalizing, Stopped
<1>. QED
  BY <1>4, <1>5, <1>6, <1>7, <1>8, <1>9, <1>10 DEF IInv

\* The call keeps the handle, which is that of one owner.
LEMMA OverrunStep ==
  ASSUME IInv, NEW m \in Monitor, Overrun(m), TypeOK', Kinds'
  PROVE  IInv'
<1>. USE Kinship DEF Goto, Holds, Drop, MarkIf
<1>1. /\ pc[m] = "out" /\ alive' = (alive /\ holds[m] # newest)
      /\ UNCHANGED <<connected, phase, handle, newest, monVars, loopVars, stopVars, odd>>
  BY DEF Overrun, Fault, Rest
<1>2. /\ pc'[m] \in {"idle", "watching", "retiring"} /\ (pc'[m] = "watching" => m = tx)
      /\ \A u \in Task \ {m} : pc'[u] = pc[u]
  BY DEF Overrun, Fault, Rest, IInv, TypeOK
<1>3. \A u \in Task : holds'[u] = IF u = m THEN NoHandle ELSE holds[u]
  BY DEF Overrun, Fault, Rest, IInv, TypeOK
<1>. USE <1>1, <1>2, <1>3 DEF slotVars, monVars, loopVars, stopVars, countVars
<1>0. \A u \in Task \ {m} : holds[u] # holds[m]
  BY DEF IInv, Owned, Holding
<1>4. Owned'
  <2>1. \A u \in Task : holds'[u] # NoHandle <=> pc'[u] \in Holding
    BY DEF IInv, Owned, Holding
  <2>2. \A u, v \in Task : holds'[u] = holds'[v] /\ holds'[u] # NoHandle => u = v
    BY DEF IInv, Owned
  <2>3. \A u \in Task : handle' # NoHandle => holds'[u] # handle'
    BY DEF IInv, Owned
  <2>4. alive' => newest' # NoHandle /\ (handle' = newest' \/ \E u \in Task : holds'[u] = newest')
    <3>. SUFFICES ASSUME alive' PROVE newest # NoHandle /\ (handle' = newest \/ \E u \in Task : holds'[u] = newest)
      OBVIOUS
    <3>1. alive /\ newest # NoHandle /\ (handle = newest \/ \E u \in Task : holds[u] = newest)
      BY DEF IInv, TypeOK, Owned
    <3>. QED
      BY <3>1
  <2>. QED
    BY <2>1, <2>2, <2>3, <2>4 DEF Owned
<1>5. Enlisted'
  BY DEF IInv, Enlisted, Active, NoLoopAwaitsItself
<1>6. Watched'
  BY DEF IInv, Watched
<1>7. Connecting'
  <2>1. \A k \in Client : pc'[k] = pc[k] /\ holds'[k] = holds[k] /\ holds[m] # holds[k]
    BY <1>0
  <2>2. \A k \in Client : pc'[k] = "installing" => holds'[k] = newest' /\ alive'
    BY <2>1 DEF IInv, Connecting
  <2>. QED
    BY <2>1, <2>2 DEF IInv, Connecting
<1>8. Told' /\ Paused'
  BY DEF IInv, Told, Paused, Finalizing, Stopped
<1>9. Gone'
  BY DEF IInv, Gone, Finalizing, Stopped
<1>10. Calm'
  <2>. SUFFICES ASSUME odd' = {} PROVE Calm'
    BY DEF Calm
  <2>1. \A l \in Loop : pc'[l] \in {"taken", "exposing"} =>
            (tx' # NoTask => paused') /\ (connected' => phase' = "guiding")
    BY DEF IInv, Calm
  <2>2. handle' # NoHandle => Current(handle)'
    BY <1>0 DEF IInv, Calm, Current, Owned, Gone
  <2>3. \A l \in Loop : connected' /\ pc'[l] \in {"taken", "exposing", "returning", "parking"} =>
            Current(holds[l])'
    <3>1. \A l \in Loop : pc'[l] = pc[l] /\ holds'[l] = holds[l] /\ holds[m] # holds[l]
      BY <1>0
    <3>2. \A l \in Loop : connected /\ pc[l] \in {"taken", "exposing", "returning", "parking"} =>
              Current(holds[l])
      BY DEF IInv, Calm
    <3>. QED
      BY <3>1, <3>2 DEF Current
  <2>4. \A n \in Monitor : pc'[n] = "putting" \/ (connected' /\ pc'[n] = "out" /\ n = current') =>
            Current(holds[n])'
    <3>1. \A n \in Monitor \ {m} : pc'[n] = pc[n] /\ holds'[n] = holds[n] /\ holds[m] # holds[n]
      BY <1>0
    <3>2. \A n \in Monitor \ {m} : pc'[n] = "putting" \/ (connected' /\ pc'[n] = "out" /\ n = current') =>
              Current(holds[n])'
      <4>. SUFFICES ASSUME NEW n \in Monitor \ {m},
                           pc'[n] = "putting" \/ (connected' /\ pc'[n] = "out" /\ n = current')
                    PROVE  Current(holds[n])'
        OBVIOUS
      <4>1. Current(holds[n])
        BY <3>1 DEF IInv, Calm
      <4>. QED
        BY <3>1, <4>1 DEF Current
    <3>. QED
      BY <3>2 DEF IInv, Calm, Current, Gone
  <2>5. \A l \in Loop : l \in cancel' /\ pc'[l] \in {"waiting", "held", "taken", "exposing", "returning"} =>
            \E t \in Task : pc'[t] = "awaiting" /\ waits'[t] = l
    BY DEF IInv, Calm
  <2>6. connected' /\ phase' = "guiding" =>
            \/ \E l \in Loop : pc'[l] \in {"taken", "exposing", "returning", "parking", "resuming"}
            \/ \E t \in Task : Doomed(t)'
    BY DEF IInv, Calm, Doomed, Finalizing, Stopped
  <2>. QED
    BY <2>1, <2>2, <2>3, <2>4, <2>5, <2>6 DEF Calm
<1>. QED
  BY <1>4, <1>5, <1>6, <1>7, <1>8, <1>9, <1>10 DEF IInv

\* Only the monitor of an earlier connection drops a handle of a connected camera,
\* and what it has is not the newest.
LEMMA JudgeStep ==
  ASSUME IInv, NEW m \in Monitor, Judge(m), TypeOK', Kinds'
  PROVE  IInv'
<1>. USE Kinship DEF Goto, Holds, Drop, MarkIf
<1>1. /\ pc[m] = "out"
      /\ UNCHANGED <<connected, phase, handle, newest, monVars, loopVars, stopVars, countVars>>
  BY DEF Judge, Rest
<1>2. /\ pc'[m] \in {"idle", "watching", "putting"} /\ (pc'[m] = "watching" => m = tx)
      /\ \A u \in Task \ {m} : pc'[u] = pc[u] /\ holds'[u] = holds[u]
  BY DEF Judge, Rest, IInv, TypeOK
<1>3. IF phase = "disconnected" \/ m # current
      THEN pc'[m] # "putting" /\ holds'[m] = NoHandle /\ alive' = (alive /\ holds[m] # newest)
      ELSE pc'[m] = "putting" /\ UNCHANGED <<alive, holds>>
  BY DEF Judge, Rest, IInv, TypeOK
<1>. USE <1>1, <1>2, <1>3 DEF slotVars, monVars, loopVars, stopVars, countVars
<1>0. \A u \in Task \ {m} : holds[u] # holds[m]
  BY DEF IInv, Owned, Holding
<1>4. Owned'
  <2>1. \A u \in Task : holds'[u] # NoHandle <=> pc'[u] \in Holding
    BY DEF IInv, Owned, Holding
  <2>2. \A u, v \in Task : holds'[u] = holds'[v] /\ holds'[u] # NoHandle => u = v
    BY DEF IInv, Owned
  <2>3. \A u \in Task : handle' # NoHandle => holds'[u] # handle'
    BY <1>0 DEF IInv, Owned
  <2>4. alive' => newest' # NoHandle /\ (handle' = newest' \/ \E u \in Task : holds'[u] = newest')
    <3>. SUFFICES ASSUME alive' PROVE newest # NoHandle /\ (handle' = newest \/ \E u \in Task : holds'[u] = newest)
      OBVIOUS
    <3>1. alive /\ newest # NoHandle /\ (handle = newest \/ \E u \in Task : holds[u] = newest)
      BY DEF IInv, TypeOK, Owned
    <3>. QED
      BY <3>1
  <2>. QED
    BY <2>1, <2>2, <2>3, <2>4 DEF Owned
<1>5. Enlisted'
  BY DEF IInv, Enlisted, Active, NoLoopAwaitsItself
<1>6. Watched'
  BY DEF IInv, Watched
<1>7. Connecting'
  <2>1. \A k \in Client : pc'[k] = pc[k] /\ holds'[k] = holds[k] /\ holds[m] # holds[k]
    BY <1>0
  <2>2. \A k \in Client : pc'[k] = "installing" => holds'[k] = newest' /\ alive'
    BY <2>1 DEF IInv, Connecting
  <2>. QED
    BY <2>1, <2>2 DEF IInv, Connecting
<1>8. Told' /\ Paused'
  BY DEF IInv, Told, Paused, Finalizing, Stopped
<1>9. Gone'
  BY DEF IInv, Gone, Finalizing, Stopped
<1>10. Calm'
  <2>. SUFFICES ASSUME odd' = {} PROVE Calm'
    BY DEF Calm
  <2>1. \A l \in Loop : pc'[l] \in {"taken", "exposing"} =>
            (tx' # NoTask => paused') /\ (connected' => phase' = "guiding")
    BY DEF IInv, Calm
  <2>2. handle' # NoHandle => Current(handle)'
    <3>1. CASE connected
      <4>1. alive' = alive \/ holds[m] # newest
        BY <3>1 DEF IInv, Told, Watched
      <4>. QED
        BY <4>1 DEF IInv, Calm, Current
    <3>2. CASE ~connected
      BY <3>2 DEF IInv, Gone
    <3>. QED
      BY <3>1, <3>2
  <2>3. \A l \in Loop : connected' /\ pc'[l] \in {"taken", "exposing", "returning", "parking"} =>
            Current(holds[l])'
    <3>1. \A l \in Loop : pc'[l] = pc[l] /\ holds'[l] = holds[l] /\ holds[m] # holds[l]
      BY <1>0
    <3>2. \A l \in Loop : connected /\ pc[l] \in {"taken", "exposing", "returning", "parking"} =>
              Current(holds[l])
      BY DEF IInv, Calm
    <3>. QED
      BY <3>1, <3>2 DEF Current
  <2>4. \A n \in Monitor : pc'[n] = "putting" \/ (connected' /\ pc'[n] = "out" /\ n = current') =>
            Current(holds[n])'
    <3>1. \A n \in Monitor \ {m} : pc'[n] = pc[n] /\ holds'[n] = holds[n] /\ holds[m] # holds[n]
      BY <1>0
    <3>2. \A n \in Monitor \ {m} : pc'[n] = "putting" \/ (connected' /\ pc'[n] = "out" /\ n = current') =>
              Current(holds[n])'
      <4>. SUFFICES ASSUME NEW n \in Monitor \ {m},
                           pc'[n] = "putting" \/ (connected' /\ pc'[n] = "out" /\ n = current')
                    PROVE  Current(holds[n])'
        OBVIOUS
      <4>1. Current(holds[n])
        BY <3>1 DEF IInv, Calm
      <4>. QED
        BY <3>1, <4>1 DEF Current
    <3>. QED
      BY <3>2 DEF IInv, Calm, Current, Gone
  <2>5. \A l \in Loop : l \in cancel' /\ pc'[l] \in {"waiting", "held", "taken", "exposing", "returning"} =>
            \E t \in Task : pc'[t] = "awaiting" /\ waits'[t] = l
    BY DEF IInv, Calm
  <2>6. connected' /\ phase' = "guiding" =>
            \/ \E l \in Loop : pc'[l] \in {"taken", "exposing", "returning", "parking", "resuming"}
            \/ \E t \in Task : Doomed(t)'
    BY DEF IInv, Calm, Doomed, Finalizing, Stopped
  <2>. QED
    BY <2>1, <2>2, <2>3, <2>4, <2>5, <2>6 DEF Calm
<1>. QED
  BY <1>4, <1>5, <1>6, <1>7, <1>8, <1>9, <1>10 DEF IInv

LEMMA PutStep ==
  ASSUME IInv, NEW m \in Monitor, Put(m), TypeOK', Kinds'
  PROVE  IInv'
<1>. USE Kinship DEF Goto, Holds, Drop, MarkIf
<1>1. /\ pc[m] = "putting" /\ odd \subseteq odd'
      /\ odd' \subseteq {"late"} => \A u \in Task : pc[u] # "removing"
      /\ IF handle = NoHandle THEN handle' = holds[m] /\ UNCHANGED alive
                              ELSE alive' = (alive /\ holds[m] # newest) /\ UNCHANGED handle
      /\ UNCHANGED <<connected, phase, newest, monVars, loopVars, stopVars>>
  BY DEF Put, Rest
<1>2. /\ pc'[m] \in {"idle", "watching"} /\ (pc'[m] = "watching" => m = tx)
      /\ \A u \in Task \ {m} : pc'[u] = pc[u]
  BY DEF Put, Rest, IInv, TypeOK
<1>3. \A u \in Task : holds'[u] = IF u = m THEN NoHandle ELSE holds[u]
  BY DEF Put, Rest, IInv, TypeOK
<1>. USE <1>1, <1>2, <1>3 DEF slotVars, monVars, loopVars, stopVars, countVars
<1>0. \A u \in Task \ {m} : holds[u] # holds[m]
  BY DEF IInv, Owned, Holding
<1>4. Owned'
  <2>1. \A u \in Task : holds'[u] # NoHandle <=> pc'[u] \in Holding
    BY DEF IInv, Owned, Holding
  <2>2. \A u, v \in Task : holds'[u] = holds'[v] /\ holds'[u] # NoHandle => u = v
    BY DEF IInv, Owned
  <2>3. \A u \in Task : handle' # NoHandle => holds'[u] # handle'
    BY <1>0 DEF IInv, Owned
  <2>4. alive' => newest' # NoHandle /\ (handle' = newest' \/ \E u \in Task : holds'[u] = newest')
    <3>. SUFFICES ASSUME alive' PROVE newest # NoHandle /\ (handle' = newest \/ \E u \in Task : holds'[u] = newest)
      OBVIOUS
    <3>1. alive /\ newest # NoHandle /\ (handle = newest \/ \E u \in Task : holds[u] = newest)
      BY DEF IInv, TypeOK, Owned
    <3>. QED
      BY <3>1
  <2>. QED
    BY <2>1, <2>2, <2>3, <2>4 DEF Owned
<1>5. Enlisted'
  BY DEF IInv, Enlisted, Active, NoLoopAwaitsItself
<1>6. Watched'
  BY DEF IInv, Watched
<1>7. Connecting'
  <2>1. \A k \in Client : pc'[k] = pc[k] /\ holds'[k] = holds[k] /\ holds[m] # holds[k]
    BY <1>0
  <2>2. \A k \in Client : pc'[k] = "installing" => holds'[k] = newest' /\ alive'
    BY <2>1 DEF IInv, Connecting
  <2>. QED
    BY <2>1, <2>2 DEF IInv, Connecting
<1>8. Told' /\ Paused'
  BY DEF IInv, Told, Paused, Finalizing, Stopped
<1>9. Gone'
  BY DEF IInv, Gone, Finalizing, Stopped
<1>10. Calm'
  <2>. SUFFICES ASSUME odd' = {} PROVE Calm'
    BY DEF Calm
  <2>1. \A l \in Loop : pc'[l] \in {"taken", "exposing"} =>
            (tx' # NoTask => paused') /\ (connected' => phase' = "guiding")
    BY DEF IInv, Calm
  <2>2. handle' # NoHandle => Current(handle)'
    BY <1>0 DEF IInv, Calm, Current, Owned, Gone
  <2>3. \A l \in Loop : connected' /\ pc'[l] \in {"taken", "exposing", "returning", "parking"} =>
            Current(holds[l])'
    <3>1. \A l \in Loop : pc'[l] = pc[l] /\ holds'[l] = holds[l] /\ holds[m] # holds[l]
      BY <1>0
    <3>. QED
      BY <3>1 DEF IInv, Calm, Current, Gone
  <2>4. \A n \in Monitor : pc'[n] = "putting" \/ (connected' /\ pc'[n] = "out" /\ n = current') =>
            Current(holds[n])'
    <3>1. \A n \in Monitor \ {m} : pc'[n] = pc[n] /\ holds'[n] = holds[n] /\ holds[m] # holds[n]
      BY <1>0
    <3>2. \A n \in Monitor \ {m} : pc'[n] = "putting" \/ (connected' /\ pc'[n] = "out" /\ n = current') =>
              Current(holds[n])'
      <4>. SUFFICES ASSUME NEW n \in Monitor \ {m},
                           pc'[n] = "putting" \/ (connected' /\ pc'[n] = "out" /\ n = current')
                    PROVE  Current(holds[n])'
        OBVIOUS
      <4>1. Current(holds[n])
        BY <3>1 DEF IInv, Calm
      <4>. QED
        BY <3>1, <4>1 DEF Current
    <3>. QED
      BY <3>2 DEF IInv, Calm, Current, Gone
  <2>5. \A l \in Loop : l \in cancel' /\ pc'[l] \in {"waiting", "held", "taken", "exposing", "returning"} =>
            \E t \in Task : pc'[t] = "awaiting" /\ waits'[t] = l
    BY DEF IInv, Calm
  <2>6. connected' /\ phase' = "guiding" =>
            \/ \E l \in Loop : pc'[l] \in {"taken", "exposing", "returning", "parking", "resuming"}
            \/ \E t \in Task : Doomed(t)'
    BY DEF IInv, Calm, Doomed, Finalizing, Stopped
  <2>. QED
    BY <2>1, <2>2, <2>3, <2>4, <2>5, <2>6 DEF Calm
<1>. QED
  BY <1>4, <1>5, <1>6, <1>7, <1>8, <1>9, <1>10 DEF IInv

LEMMA MissHandleStep ==
  ASSUME IInv, NEW m \in Monitor, MissHandle(m), TypeOK', Kinds'
  PROVE  IInv'
<1>. USE Kinship DEF Goto, Holds, Drop, MarkIf
<1>1. /\ pc[m] = "watching" /\ handle = NoHandle
      /\ UNCHANGED <<slotVars, monVars, loopVars, holds, stopVars, countVars>>
  BY DEF MissHandle, Polls
<1>2. \A u \in Task : pc'[u] = IF u = m THEN "retiring" ELSE pc[u]
  BY DEF MissHandle, Polls, IInv, TypeOK
<1>. USE <1>1, <1>2 DEF slotVars, monVars, loopVars, stopVars, countVars
<1>3. Owned'
  BY DEF IInv, Owned, Holding
<1>4. Enlisted'
  BY DEF IInv, Enlisted, Active, NoLoopAwaitsItself
<1>5. Watched'
  BY DEF IInv, Watched
<1>6. Connecting'
  BY DEF IInv, Connecting
<1>7. Told' /\ Paused'
  BY DEF IInv, Told, Paused, Finalizing, Stopped
<1>8. Gone'
  BY DEF IInv, Gone, Finalizing, Stopped
<1>9. Calm'
  BY DEF IInv, Calm, Current, Doomed, Finalizing, Stopped
<1>. QED
  BY <1>3, <1>4, <1>5, <1>6, <1>7, <1>8, <1>9 DEF IInv

-----------------------------------------------------------------------------
(* The guide loop.                                                         *)

LEMMA TakeStep ==
  ASSUME IInv, NEW l \in Loop, Take(l), TypeOK', Kinds'
  PROVE  IInv'
<1>. USE Kinship DEF Goto, Holds, Drop, MarkIf
<1>1. /\ pc[l] = "queued"
      /\ l \notin cancel => (paused' <=> tx # NoTask)
      /\ l \in cancel => UNCHANGED paused
      /\ UNCHANGED <<slotVars, current, tx, loopVars, holds, stopVars, countVars>>
  BY DEF Take, SendPause
<1>2. \A u \in Task : pc'[u] = IF u # l THEN pc[u]
                          ELSE IF l \in cancel THEN "idle"
                          ELSE IF phase = "guiding" THEN "held" ELSE "waiting"
  BY DEF Take, SendPause, IInv, TypeOK
<1>. USE <1>1, <1>2 DEF slotVars, monVars, loopVars, stopVars, countVars
<1>3. Owned'
  BY DEF IInv, Owned, Holding
<1>4. Enlisted'
  BY DEF IInv, Enlisted, Active, NoLoopAwaitsItself
<1>5. Watched'
  BY DEF IInv, Watched
<1>6. Connecting'
  BY DEF IInv, Connecting
<1>7. Told' /\ Paused'
  BY DEF IInv, Told, Paused, Finalizing, Stopped
<1>8. Gone'
  <2>1. \A t \in Task : (Finalizing(t)' <=> Finalizing(t)) /\ (Stopped(t)' <=> Stopped(t))
    BY DEF Finalizing, Stopped
  <2>2. \A t \in Task : pc'[t] = "removing" <=> pc[t] = "removing"
    OBVIOUS
  <2>3. ASSUME odd \subseteq {"late"}, NEW t \in Task, NEW k \in Loop, Stopped(t), registered = k
        PROVE  pc'[k] = "queued" \/ (pc'[k] \in {"waiting", "held"} /\ ~paused')
    <3>1. tx = NoTask
      BY <2>3 DEF IInv, Gone, Finalizing
    <3>2. ~paused => ~paused'
      BY <3>1
    <3>3. pc[k] = "queued" \/ (pc[k] \in {"waiting", "held"} /\ ~paused)
      BY <2>3 DEF IInv, Gone
    <3>4. k \notin cancel
      BY <2>3 DEF IInv, Enlisted
    <3>. QED
      BY <3>1, <3>2, <3>3, <3>4
  <2>. QED
    BY <2>1, <2>2, <2>3 DEF IInv, Gone
<1>9. Calm'
  <2>. SUFFICES ASSUME odd' = {} PROVE Calm'
    BY DEF Calm
  <2>1. \A k \in Loop : pc'[k] \in {"taken", "exposing"} =>
            (tx' # NoTask => paused') /\ (connected' => phase' = "guiding")
    BY DEF IInv, Calm
  <2>2. handle' # NoHandle => Current(handle)'
    BY DEF IInv, Calm, Current, Owned, Gone
  <2>3. \A k \in Loop : connected' /\ pc'[k] \in {"taken", "exposing", "returning", "parking"} =>
            Current(holds[k])'
    <3>1. \A k \in Loop \ {l} : pc'[k] = pc[k] /\ holds'[k] = holds[k]
      OBVIOUS
    <3>. QED
      BY <3>1 DEF IInv, Calm, Current, Gone
  <2>4. \A m \in Monitor : pc'[m] = "putting" \/ (connected' /\ pc'[m] = "out" /\ m = current') =>
            Current(holds[m])'
    <3>1. \A m \in Monitor : pc'[m] = pc[m] /\ holds'[m] = holds[m]
      OBVIOUS
    <3>. QED
      BY <3>1 DEF IInv, Calm, Current, Gone, Owned
  <2>5. \A k \in Loop : k \in cancel' /\ pc'[k] \in {"waiting", "held", "taken", "exposing", "returning"} =>
            \E t \in Task : pc'[t] = "awaiting" /\ waits'[t] = k
    BY DEF IInv, Calm
  <2>6. connected' /\ phase' = "guiding" =>
            \/ \E k \in Loop : pc'[k] \in {"taken", "exposing", "returning", "parking", "resuming"}
            \/ \E t \in Task : Doomed(t)'
    BY DEF IInv, Calm, Doomed, Finalizing, Stopped
  <2>. QED
    BY <2>1, <2>2, <2>3, <2>4, <2>5, <2>6 DEF Calm
<1>. QED
  BY <1>3, <1>4, <1>5, <1>6, <1>7, <1>8, <1>9 DEF IInv

\* A monitor that is paused has a connection: nobody is behind a teardown yet.
LEMMA TakeHandleStep ==
  ASSUME IInv, NEW l \in Loop, TakeHandle(l), TypeOK', Kinds'
  PROVE  IInv'
<1>. USE Kinship DEF Goto, Holds, Drop, MarkIf
<1>1. /\ pc[l] \in {"waiting", "held"} /\ handle # NoHandle /\ handle' = NoHandle /\ phase' = "guiding"
      /\ odd \subseteq odd' /\ (odd' \subseteq {"late"} => paused)
      /\ UNCHANGED <<connected, newest, alive, monVars, loopVars, stopVars>>
  BY DEF TakeHandle
<1>2. \A u \in Task : pc'[u] = IF u = l THEN "taken" ELSE pc[u]
  BY DEF TakeHandle, IInv, TypeOK
<1>3. \A u \in Task : holds'[u] = IF u = l THEN handle ELSE holds[u]
  BY DEF TakeHandle, IInv, TypeOK
<1>. USE <1>1, <1>2, <1>3 DEF slotVars, monVars, loopVars, stopVars, countVars
<1>4. Owned'
  BY DEF IInv, Owned, Holding
<1>5. Enlisted'
  BY DEF IInv, Enlisted, Active, NoLoopAwaitsItself
<1>6. Watched'
  BY DEF IInv, Watched
<1>7. Connecting'
  BY DEF IInv, Connecting
<1>8. Told' /\ Paused'
  BY DEF IInv, Told, Paused, Finalizing, Stopped
<1>9. Gone'
  BY DEF IInv, Gone, Finalizing, Stopped
<1>10. Calm'
  BY DEF IInv, Calm, Current, Doomed, Finalizing, Stopped
<1>. QED
  BY <1>4, <1>5, <1>6, <1>7, <1>8, <1>9, <1>10 DEF IInv

LEMMA TakeRefusedStep ==
  ASSUME IInv, NEW l \in Loop, TakeRefused(l), TypeOK', Kinds'
  PROVE  IInv'
<1>. USE Kinship DEF Goto, Holds, Drop, MarkIf
<1>1. /\ pc[l] = "held" /\ registered' = (IF registered = l THEN NoTask ELSE registered)
      /\ UNCHANGED <<slotVars, monVars, cancel, holds, stopVars, countVars>>
  BY DEF TakeRefused, Finish
<1>2. \A u \in Task : pc'[u] = IF u = l THEN "idle" ELSE pc[u]
  BY DEF TakeRefused, Finish, IInv, TypeOK
<1>. USE <1>1, <1>2 DEF slotVars, monVars, loopVars, stopVars, countVars
<1>3. Owned'
  BY DEF IInv, Owned, Holding
<1>4. Enlisted'
  BY DEF IInv, Enlisted, Active, NoLoopAwaitsItself
<1>5. Watched'
  BY DEF IInv, Watched
<1>6. Connecting'
  BY DEF IInv, Connecting
<1>7. Told' /\ Paused'
  BY DEF IInv, Told, Paused, Finalizing, Stopped
<1>8. Gone'
  BY DEF IInv, Gone, Finalizing, Stopped
<1>9. Calm'
  BY DEF IInv, Calm, Current, Doomed, Finalizing, Stopped
<1>. QED
  BY <1>3, <1>4, <1>5, <1>6, <1>7, <1>8, <1>9 DEF IInv

\* A loop that gives up resumes the monitor only when no other has the handle.
LEMMA TakeEndsStep ==
  ASSUME IInv, NEW l \in Loop, TakeFindsBusy(l) \/ TakeFails(l), TypeOK', Kinds'
  PROVE  IInv'
<1>. USE Kinship DEF Goto, Holds, Drop, MarkIf
<1>1. /\ pc[l] = "waiting" /\ paused' = FALSE /\ registered' = (IF registered = l THEN NoTask ELSE registered)
      /\ odd \subseteq odd' /\ (odd' = {} => \A k \in Loop \ {l} : pc[k] \notin {"taken", "exposing"})
      /\ UNCHANGED <<slotVars, current, tx, cancel, holds, stopVars>>
  BY DEF TakeFindsBusy, TakeFails, Finish, SendResume, Contended
<1>2. /\ pc'[l] \in {"idle", "retiring"}
      /\ \A u \in Task \ {l} : pc'[u] = pc[u]
  BY DEF TakeFindsBusy, TakeFails, Finish, SendResume, Contended, IInv, TypeOK
<1>. USE <1>1, <1>2 DEF slotVars, monVars, loopVars, stopVars, countVars
<1>3. Owned'
  BY DEF IInv, Owned, Holding
<1>4. Enlisted'
  BY DEF IInv, Enlisted, Active, NoLoopAwaitsItself
<1>5. Watched'
  BY DEF IInv, Watched
<1>6. Connecting'
  BY DEF IInv, Connecting
<1>7. Told' /\ Paused'
  BY DEF IInv, Told, Paused, Finalizing, Stopped
<1>8. Gone'
  BY DEF IInv, Gone, Finalizing, Stopped
<1>9. Calm'
  BY DEF IInv, Calm, Current, Doomed, Finalizing, Stopped
<1>. QED
  BY <1>3, <1>4, <1>5, <1>6, <1>7, <1>8, <1>9 DEF IInv

LEMMA RunLoopStep ==
  ASSUME IInv, NEW l \in Loop, RunLoop(l), TypeOK', Kinds'
  PROVE  IInv'
<1>. USE Kinship DEF Goto, Holds, Drop, MarkIf
<1>1. /\ pc[l] = "taken"
      /\ UNCHANGED <<slotVars, monVars, registered, cancel, holds, stopVars, countVars>>
  BY DEF RunLoop
<1>2. \A u \in Task : pc'[u] = IF u = l THEN "exposing" ELSE pc[u]
  BY DEF RunLoop, IInv, TypeOK
<1>. USE <1>1, <1>2 DEF slotVars, monVars, loopVars, stopVars, countVars
<1>3. Owned'
  BY DEF IInv, Owned, Holding
<1>4. Enlisted'
  BY DEF IInv, Enlisted, Active, NoLoopAwaitsItself
<1>5. Watched'
  BY DEF IInv, Watched
<1>6. Connecting'
  BY DEF IInv, Connecting
<1>7. Told' /\ Paused'
  BY DEF IInv, Told, Paused, Finalizing, Stopped
<1>8. Gone'
  BY DEF IInv, Gone, Finalizing, Stopped
<1>9. Calm'
  BY DEF IInv, Calm, Current, Doomed, Finalizing, Stopped
<1>. QED
  BY <1>3, <1>4, <1>5, <1>6, <1>7, <1>8, <1>9 DEF IInv

LEMMA EndLoopStep ==
  ASSUME IInv, NEW l \in Loop, EndLoop(l), TypeOK', Kinds'
  PROVE  IInv'
<1>. USE Kinship DEF Goto, Holds, Drop, MarkIf
<1>1. /\ pc[l] = "exposing" /\ l \in cancel /\ registered' = (IF registered = l THEN NoTask ELSE registered)
      /\ UNCHANGED <<slotVars, monVars, cancel, holds, stopVars, countVars>>
  BY DEF EndLoop, Finish
<1>2. \A u \in Task : pc'[u] = IF u = l THEN "returning" ELSE pc[u]
  BY DEF EndLoop, Finish, IInv, TypeOK
<1>. USE <1>1, <1>2 DEF slotVars, monVars, loopVars, stopVars, countVars
<1>3. Owned'
  BY DEF IInv, Owned, Holding
<1>4. Enlisted'
  BY DEF IInv, Enlisted, Active, NoLoopAwaitsItself
<1>5. Watched'
  BY DEF IInv, Watched
<1>6. Connecting'
  BY DEF IInv, Connecting
<1>7. Told' /\ Paused'
  BY DEF IInv, Told, Paused, Finalizing, Stopped
<1>8. Gone'
  BY DEF IInv, Gone, Finalizing, Stopped
<1>9. Calm'
  BY DEF IInv, Calm, Current, Doomed, Finalizing, Stopped
<1>. QED
  BY <1>3, <1>4, <1>5, <1>6, <1>7, <1>8, <1>9 DEF IInv

LEMMA LoseLoopStep ==
  ASSUME IInv, NEW l \in Loop, LoseLoop(l), TypeOK', Kinds'
  PROVE  IInv'
<1>. USE Kinship DEF Goto, Holds, Drop, MarkIf
<1>1. /\ pc[l] = "exposing" /\ alive' = (alive /\ holds[l] # newest)
      /\ registered' = (IF registered = l THEN NoTask ELSE registered)
      /\ UNCHANGED <<connected, phase, handle, newest, monVars, cancel, stopVars, odd>>
  BY DEF LoseLoop, Fault, Finish
<1>2. \A u \in Task : pc'[u] = IF u = l THEN "retiring" ELSE pc[u]
  BY DEF LoseLoop, Fault, Finish, IInv, TypeOK
<1>3. \A u \in Task : holds'[u] = IF u = l THEN NoHandle ELSE holds[u]
  BY DEF LoseLoop, Fault, Finish, IInv, TypeOK
<1>. USE <1>1, <1>2, <1>3 DEF slotVars, monVars, loopVars, stopVars, countVars
<1>0. \A u \in Task \ {l} : holds[u] # holds[l]
  BY DEF IInv, Owned, Holding
<1>4. Owned'
  BY DEF IInv, Owned, Holding
<1>5. Enlisted'
  BY DEF IInv, Enlisted, Active, NoLoopAwaitsItself
<1>6. Watched'
  BY DEF IInv, Watched
<1>7. Connecting'
  <2>1. \A k \in Client : pc'[k] = pc[k] /\ holds'[k] = holds[k] /\ holds[l] # holds[k]
    BY <1>0
  <2>2. \A k \in Client : pc'[k] = "installing" => holds'[k] = newest' /\ alive'
    BY <2>1 DEF IInv, Connecting, Owned
  <2>. QED
    BY <2>1, <2>2 DEF IInv, Connecting
<1>8. Told' /\ Paused'
  BY DEF IInv, Told, Paused, Finalizing, Stopped
<1>9. Gone'
  BY DEF IInv, Gone, Finalizing, Stopped
<1>10. Calm'
  <2>. SUFFICES ASSUME odd' = {} PROVE Calm'
    BY DEF Calm
  <2>1. \A k \in Loop : pc'[k] \in {"taken", "exposing"} =>
            (tx' # NoTask => paused') /\ (connected' => phase' = "guiding")
    BY DEF IInv, Calm
  <2>2. handle' # NoHandle => Current(handle)'
    BY DEF IInv, Calm, Current, Owned, Gone
  <2>3. \A k \in Loop : connected' /\ pc'[k] \in {"taken", "exposing", "returning", "parking"} =>
            Current(holds[k])'
    <3>1. \A k \in Loop \ {l} : pc'[k] = pc[k] /\ holds'[k] = holds[k] /\ holds[k] # holds[l]
      BY <1>0
    <3>. QED
      BY <3>1 DEF IInv, Calm, Current, Gone
  <2>4. \A m \in Monitor : pc'[m] = "putting" \/ (connected' /\ pc'[m] = "out" /\ m = current') =>
            Current(holds[m])'
    <3>1. \A m \in Monitor : pc'[m] = pc[m] /\ holds'[m] = holds[m] /\ holds[m] # holds[l]
      BY <1>0
    <3>. QED
      BY <3>1 DEF IInv, Calm, Current, Gone, Owned
  <2>5. \A k \in Loop : k \in cancel' /\ pc'[k] \in {"waiting", "held", "taken", "exposing", "returning"} =>
            \E t \in Task : pc'[t] = "awaiting" /\ waits'[t] = k
    BY DEF IInv, Calm
  <2>6. connected' /\ phase' = "guiding" =>
            \/ \E k \in Loop : pc'[k] \in {"taken", "exposing", "returning", "parking", "resuming"}
            \/ \E t \in Task : Doomed(t)'
    BY DEF IInv, Calm, Doomed, Finalizing, Stopped
  <2>. QED
    BY <2>1, <2>2, <2>3, <2>4, <2>5, <2>6 DEF Calm
<1>. QED
  BY <1>4, <1>5, <1>6, <1>7, <1>8, <1>9, <1>10 DEF IInv

\* With the camera connected the slot is empty: the loop has the newest handle.
LEMMA GiveBackStep ==
  ASSUME IInv, NEW l \in Loop, GiveBack(l), TypeOK', Kinds'
  PROVE  IInv'
<1>. USE Kinship DEF Goto, Holds, Drop, MarkIf
<1>1. /\ pc[l] = "returning"
      /\ UNCHANGED <<connected, phase, handle, newest, monVars, loopVars, stopVars, countVars>>
  BY DEF GiveBack, Superseded
<1>2. \A u \in Task \ {l} : pc'[u] = pc[u] /\ holds'[u] = holds[u]
  BY DEF GiveBack, Superseded, IInv, TypeOK
<1>3. IF ~connected \/ handle # NoHandle
      THEN pc'[l] = "idle" /\ holds'[l] = NoHandle /\ alive' = (alive /\ holds[l] # newest)
      ELSE pc'[l] = "parking" /\ UNCHANGED <<alive, holds>>
  BY DEF GiveBack, Superseded, IInv, TypeOK
<1>. USE <1>1, <1>2, <1>3 DEF slotVars, monVars, loopVars, stopVars, countVars
<1>0. \A u \in Task \ {l} : holds[u] # holds[l]
  BY DEF IInv, Owned, Holding
<1>4. Owned'
  <2>1. \A u \in Task : holds'[u] # NoHandle <=> pc'[u] \in Holding
    BY DEF IInv, Owned, Holding
  <2>2. \A u, v \in Task : holds'[u] = holds'[v] /\ holds'[u] # NoHandle => u = v
    BY DEF IInv, Owned
  <2>3. \A u \in Task : handle' # NoHandle => holds'[u] # handle'
    BY <1>0 DEF IInv, Owned
  <2>4. alive' => newest' # NoHandle /\ (handle' = newest' \/ \E u \in Task : holds'[u] = newest')
    <3>. SUFFICES ASSUME alive' PROVE newest # NoHandle /\ (handle' = newest \/ \E u \in Task : holds'[u] = newest)
      OBVIOUS
    <3>1. alive /\ newest # NoHandle /\ (handle = newest \/ \E u \in Task : holds[u] = newest)
      BY DEF IInv, TypeOK, Owned
    <3>. QED
      BY <3>1
  <2>. QED
    BY <2>1, <2>2, <2>3, <2>4 DEF Owned
<1>5. Enlisted'
  BY DEF IInv, Enlisted, Active, NoLoopAwaitsItself
<1>6. Watched'
  BY DEF IInv, Watched
<1>7. Connecting'
  <2>1. \A k \in Client : pc'[k] = pc[k] /\ holds'[k] = holds[k] /\ holds[l] # holds[k]
    BY <1>0
  <2>2. \A k \in Client : pc'[k] = "installing" => holds'[k] = newest' /\ alive'
    BY <2>1 DEF IInv, Connecting, Owned
  <2>. QED
    BY <2>1, <2>2 DEF IInv, Connecting
<1>8. Told' /\ Paused'
  BY DEF IInv, Told, Paused, Finalizing, Stopped
<1>9. Gone'
  BY DEF IInv, Gone, Finalizing, Stopped
<1>10. Calm'
  <2>. SUFFICES ASSUME odd' = {} PROVE Calm'
    BY DEF Calm
  <2>1. \A k \in Loop : pc'[k] \in {"taken", "exposing"} =>
            (tx' # NoTask => paused') /\ (connected' => phase' = "guiding")
    BY DEF IInv, Calm
  <2>2. handle' # NoHandle => Current(handle)'
    BY DEF IInv, Calm, Current, Owned, Gone
  <2>3. \A k \in Loop : connected' /\ pc'[k] \in {"taken", "exposing", "returning", "parking"} =>
            Current(holds[k])'
    <3>1. \A k \in Loop \ {l} : pc'[k] = pc[k] /\ holds'[k] = holds[k] /\ holds[k] # holds[l]
      BY <1>0
    <3>. QED
      BY <3>1 DEF IInv, Calm, Current, Gone
  <2>4. \A m \in Monitor : pc'[m] = "putting" \/ (connected' /\ pc'[m] = "out" /\ m = current') =>
            Current(holds[m])'
    <3>1. \A m \in Monitor : pc'[m] = pc[m] /\ holds'[m] = holds[m] /\ holds[m] # holds[l]
      BY <1>0
    <3>. QED
      BY <3>1 DEF IInv, Calm, Current, Gone, Owned
  <2>5. \A k \in Loop : k \in cancel' /\ pc'[k] \in {"waiting", "held", "taken", "exposing", "returning"} =>
            \E t \in Task : pc'[t] = "awaiting" /\ waits'[t] = k
    BY DEF IInv, Calm
  <2>6. connected' /\ phase' = "guiding" =>
            \/ \E k \in Loop : pc'[k] \in {"taken", "exposing", "returning", "parking", "resuming"}
            \/ \E t \in Task : Doomed(t)'
    <3>1. connected => handle = NoHandle
      BY DEF IInv, Calm, Owned, Holding, Current
    <3>2. connected => pc'[l] = "parking"
      BY <3>1
    <3>. QED
      BY <3>2 DEF IInv, Calm, Doomed, Finalizing, Stopped
  <2>. QED
    BY <2>1, <2>2, <2>3, <2>4, <2>5, <2>6 DEF Calm
<1>. QED
  BY <1>4, <1>5, <1>6, <1>7, <1>8, <1>9, <1>10 DEF IInv

LEMMA ParkStep ==
  ASSUME IInv, NEW l \in Loop, Park(l), TypeOK', Kinds'
  PROVE  IInv'
<1>. USE Kinship DEF Goto, Holds, Drop, MarkIf
<1>1. /\ pc[l] = "parking" /\ handle' = holds[l]
      /\ odd \subseteq odd' /\ (odd' \subseteq {"late"} => \A u \in Task : pc[u] # "removing")
      /\ IF handle = NoHandle THEN UNCHANGED alive ELSE alive' = (alive /\ handle # newest)
      /\ UNCHANGED <<connected, phase, newest, monVars, loopVars, stopVars>>
  BY DEF Park
<1>2. \A u \in Task : pc'[u] = IF u = l THEN "resuming" ELSE pc[u]
  BY DEF Park, IInv, TypeOK
<1>3. \A u \in Task : holds'[u] = IF u = l THEN NoHandle ELSE holds[u]
  BY DEF Park, IInv, TypeOK
<1>. USE <1>1, <1>2, <1>3 DEF slotVars, monVars, loopVars, stopVars, countVars
<1>0. \A u \in Task \ {l} : holds[u] # holds[l]
  BY DEF IInv, Owned, Holding
<1>4. Owned'
  <2>1. \A u \in Task : holds'[u] # NoHandle <=> pc'[u] \in Holding
    BY DEF IInv, Owned, Holding
  <2>2. \A u, v \in Task : holds'[u] = holds'[v] /\ holds'[u] # NoHandle => u = v
    BY DEF IInv, Owned
  <2>3. \A u \in Task : handle' # NoHandle => holds'[u] # handle'
    BY <1>0 DEF IInv, Owned
  <2>4. alive' => newest' # NoHandle /\ (handle' = newest' \/ \E u \in Task : holds'[u] = newest')
    <3>. SUFFICES ASSUME alive' PROVE newest # NoHandle /\ (handle' = newest \/ \E u \in Task : holds'[u] = newest)
      OBVIOUS
    <3>1. alive /\ newest # NoHandle /\ (handle = newest \/ \E u \in Task : holds[u] = newest)
      BY DEF IInv, TypeOK, Owned
    <3>. QED
      BY <3>1
  <2>. QED
    BY <2>1, <2>2, <2>3, <2>4 DEF Owned
<1>5. Enlisted'
  BY DEF IInv, Enlisted, Active, NoLoopAwaitsItself
<1>6. Watched'
  BY DEF IInv, Watched
<1>7. Connecting'
  <2>1. \A k \in Client : pc'[k] = pc[k] /\ holds'[k] = holds[k] /\ holds[l] # holds[k]
    BY <1>0
  <2>2. \A k \in Client : pc'[k] = "installing" => holds'[k] = newest' /\ alive'
    BY <2>1 DEF IInv, Connecting, Owned
  <2>. QED
    BY <2>1, <2>2 DEF IInv, Connecting
<1>8. Told' /\ Paused'
  BY DEF IInv, Told, Paused, Finalizing, Stopped
<1>9. Gone'
  BY DEF IInv, Gone, Finalizing, Stopped
<1>10. Calm'
  <2>. SUFFICES ASSUME odd' = {} PROVE Calm'
    BY DEF Calm
  <2>1. \A k \in Loop : pc'[k] \in {"taken", "exposing"} =>
            (tx' # NoTask => paused') /\ (connected' => phase' = "guiding")
    BY DEF IInv, Calm
  <2>2. handle' # NoHandle => Current(handle)'
    BY DEF IInv, Calm, Current, Owned, Gone
  <2>3. \A k \in Loop : connected' /\ pc'[k] \in {"taken", "exposing", "returning", "parking"} =>
            Current(holds[k])'
    <3>1. \A k \in Loop \ {l} : pc'[k] = pc[k] /\ holds'[k] = holds[k] /\ holds[k] # holds[l]
      BY <1>0
    <3>. QED
      BY <3>1 DEF IInv, Calm, Current, Gone
  <2>4. \A m \in Monitor : pc'[m] = "putting" \/ (connected' /\ pc'[m] = "out" /\ m = current') =>
            Current(holds[m])'
    <3>1. \A m \in Monitor : pc'[m] = pc[m] /\ holds'[m] = holds[m] /\ holds[m] # holds[l]
      BY <1>0
    <3>. QED
      BY <3>1 DEF IInv, Calm, Current, Gone, Owned
  <2>5. \A k \in Loop : k \in cancel' /\ pc'[k] \in {"waiting", "held", "taken", "exposing", "returning"} =>
            \E t \in Task : pc'[t] = "awaiting" /\ waits'[t] = k
    BY DEF IInv, Calm
  <2>6. connected' /\ phase' = "guiding" =>
            \/ \E k \in Loop : pc'[k] \in {"taken", "exposing", "returning", "parking", "resuming"}
            \/ \E t \in Task : Doomed(t)'
    BY DEF IInv, Calm, Doomed, Finalizing, Stopped
  <2>. QED
    BY <2>1, <2>2, <2>3, <2>4, <2>5, <2>6 DEF Calm
<1>. QED
  BY <1>4, <1>5, <1>6, <1>7, <1>8, <1>9, <1>10 DEF IInv

LEMMA ResumeMonitorStep ==
  ASSUME IInv, NEW l \in Loop, ResumeMonitor(l), TypeOK', Kinds'
  PROVE  IInv'
<1>. USE Kinship DEF Goto, Holds, Drop, MarkIf
<1>1. /\ pc[l] = "resuming" /\ phase' = "idle" /\ paused' = FALSE
      /\ odd \subseteq odd' /\ (odd' = {} => \A k \in Loop \ {l} : pc[k] \notin {"taken", "exposing"})
      /\ UNCHANGED <<connected, handle, newest, alive, current, tx, loopVars, holds, stopVars>>
  BY DEF ResumeMonitor, SendResume, Contended
<1>2. \A u \in Task : pc'[u] = IF u = l THEN "idle" ELSE pc[u]
  BY DEF ResumeMonitor, SendResume, Contended, IInv, TypeOK
<1>. USE <1>1, <1>2 DEF slotVars, monVars, loopVars, stopVars, countVars
<1>3. Owned'
  BY DEF IInv, Owned, Holding
<1>4. Enlisted'
  BY DEF IInv, Enlisted, Active, NoLoopAwaitsItself
<1>5. Watched'
  BY DEF IInv, Watched
<1>6. Connecting'
  BY DEF IInv, Connecting
<1>7. Told' /\ Paused'
  BY DEF IInv, Told, Paused, Finalizing, Stopped
<1>8. Gone'
  BY DEF IInv, Gone, Finalizing, Stopped
<1>9. Calm'
  BY DEF IInv, Calm, Current, Doomed, Finalizing, Stopped
<1>. QED
  BY <1>3, <1>4, <1>5, <1>6, <1>7, <1>8, <1>9 DEF IInv

-----------------------------------------------------------------------------
(* Stops and teardowns.                                                    *)

LEMMA RetireStep ==
  ASSUME IInv, NEW t \in Task, Retire(t), TypeOK', Kinds'
  PROVE  IInv'
<1>. USE Kinship DEF Goto, Holds, Drop, MarkIf
<1>1. /\ pc[t] = "retiring" /\ tx' = NoTask
      /\ UNCHANGED <<slotVars, current, paused, loopVars, holds, waits, countVars>>
  BY DEF Retire
<1>2. /\ \A u \in Task : pc'[u] = IF u = t THEN "stopping"
                                ELSE IF u = tx /\ pc[u] = "watching" THEN "idle" ELSE pc[u]
      /\ \A u \in Task : after'[u] = IF u = t THEN "closing" ELSE after[u]
  BY DEF Retire, IInv, TypeOK
<1>. USE <1>1, <1>2 DEF slotVars, monVars, loopVars, stopVars, countVars
<1>3. Owned'
  BY DEF IInv, Owned, Holding
<1>4. Enlisted'
  BY DEF IInv, Enlisted, Active, NoLoopAwaitsItself
<1>5. Watched'
  BY DEF IInv, Watched
<1>6. Connecting'
  BY DEF IInv, Connecting
<1>7. Told' /\ Paused'
  BY DEF IInv, Told, Paused, Finalizing, Stopped
<1>8. Gone'
  BY DEF IInv, Gone, Finalizing, Stopped
<1>9. Calm'
  BY DEF IInv, Calm, Current, Doomed, Finalizing, Stopped
<1>. QED
  BY <1>3, <1>4, <1>5, <1>6, <1>7, <1>8, <1>9 DEF IInv

LEMMA StopLoopStep ==
  ASSUME IInv, NEW t \in Task, StopLoop(t), TypeOK', Kinds'
  PROVE  IInv'
<1>. USE Kinship DEF Goto, Holds, Drop, MarkIf
<1>1. /\ pc[t] = "stopping" /\ registered' = NoTask
      /\ cancel' = (IF registered = NoTask THEN cancel ELSE cancel \cup {registered})
      /\ UNCHANGED <<slotVars, monVars, holds, after, countVars>>
  BY DEF StopLoop
<1>2. /\ \A u \in Task : pc'[u] = IF u = t THEN "awaiting" ELSE pc[u]
      /\ \A u \in Task : waits'[u] = IF u = t THEN registered ELSE waits[u]
  BY DEF StopLoop, IInv, TypeOK
<1>. USE <1>1, <1>2 DEF slotVars, monVars, loopVars, stopVars, countVars
<1>3. Owned'
  BY DEF IInv, Owned, Holding
<1>4. Enlisted'
  BY DEF IInv, Enlisted, Active, NoLoopAwaitsItself
<1>5. Watched'
  BY DEF IInv, Watched
<1>6. Connecting'
  BY DEF IInv, Connecting
<1>7. Told' /\ Paused'
  BY DEF IInv, Told, Paused, Finalizing, Stopped
<1>8. Gone'
  BY DEF IInv, Gone, Finalizing, Stopped
<1>9. Calm'
  BY DEF IInv, Calm, Current, Doomed, Finalizing, Stopped
<1>. QED
  BY <1>3, <1>4, <1>5, <1>6, <1>7, <1>8, <1>9 DEF IInv

\* A stop that is not late leaves its loop nothing to return: while the loop has
\* the handle of the connection, the slot has none.
LEMMA StopReturnsStep ==
  ASSUME IInv, NEW t \in Task, StopReturns(t), TypeOK', Kinds'
  PROVE  IInv'
<1>. USE Kinship DEF Goto, Holds, Drop, MarkIf
<1>1. /\ pc[t] = "awaiting" /\ odd \subseteq odd'
      /\ odd' = {} => \A l \in Loop : l = waits[t] =>
            /\ pc[l] \notin {"waiting", "held", "taken", "exposing"}
            /\ pc[l] = "returning" => handle # NoHandle
      /\ odd' \subseteq {"late"} => odd \subseteq {"late"}
      /\ UNCHANGED <<slotVars, monVars, loopVars, holds>>
  BY DEF StopReturns, StopIsOver, TearingDown
<1>2. /\ \A u \in Task : pc'[u] = IF u = t THEN after[t] ELSE pc[u]
      /\ \A u \in Task : after'[u] = IF u = t THEN "idle" ELSE after[u]
      /\ \A u \in Task : waits'[u] = IF u = t THEN NoTask ELSE waits[u]
  BY DEF StopReturns, StopIsOver, TearingDown, IInv, TypeOK
<1>0. pc'[t] \in {"idle", "retiring", "closing"} /\ (pc'[t] = after[t])
  BY <1>2 DEF IInv, TypeOK
<1>. USE <1>0, <1>1, <1>2 DEF slotVars, monVars, loopVars, stopVars, countVars
<1>3. Owned'
  BY DEF IInv, Owned, Holding
<1>4. Enlisted'
  BY DEF IInv, Enlisted, Active, NoLoopAwaitsItself
<1>5. Watched'
  BY DEF IInv, Watched
<1>6. Connecting'
  BY DEF IInv, Connecting
<1>7. Told' /\ Paused'
  BY DEF IInv, Told, Paused, Finalizing, Stopped
<1>8. Gone'
  BY DEF IInv, Gone, Finalizing, Stopped
<1>9. Calm'
  <2>. SUFFICES ASSUME odd' = {} PROVE Calm'
    BY DEF Calm
  <2>1. \A l \in Loop : pc'[l] \in {"taken", "exposing"} =>
            (tx' # NoTask => paused') /\ (connected' => phase' = "guiding")
    BY DEF IInv, Calm
  <2>2. handle' # NoHandle => Current(handle)'
    BY DEF IInv, Calm, Current
  <2>3. \A l \in Loop : connected' /\ pc'[l] \in {"taken", "exposing", "returning", "parking"} =>
            Current(holds[l])'
    BY DEF IInv, Calm, Current
  <2>4. \A m \in Monitor : pc'[m] = "putting" \/ (connected' /\ pc'[m] = "out" /\ m = current') =>
            Current(holds[m])'
    BY DEF IInv, Calm, Current, Gone
  <2>5. \A l \in Loop : l \in cancel' /\ pc'[l] \in {"waiting", "held", "taken", "exposing", "returning"} =>
            \E u \in Task : pc'[u] = "awaiting" /\ waits'[u] = l
    <3>. SUFFICES ASSUME NEW l \in Loop, l \in cancel,
                         pc'[l] \in {"waiting", "held", "taken", "exposing", "returning"}
                  PROVE  \E u \in Task : pc'[u] = "awaiting" /\ waits'[u] = l
      OBVIOUS
    <3>1. l # t /\ pc[l] \in {"waiting", "held", "taken", "exposing", "returning"}
      OBVIOUS
    <3>2. PICK u \in Task : pc[u] = "awaiting" /\ waits[u] = l
      BY <3>1 DEF IInv, Calm
    <3>3. ASSUME u = t PROVE FALSE
      <4>1. pc[l] = "returning" /\ handle # NoHandle
        BY <3>1, <3>2, <3>3
      <4>2. connected
        BY <4>1 DEF IInv, Gone
      <4>3. holds[l] = handle
        BY <4>1, <4>2 DEF IInv, Calm, Current
      <4>. QED
        BY <4>1, <4>3 DEF IInv, Owned
    <3>. QED
      BY <3>2, <3>3
  <2>6. connected' /\ phase' = "guiding" =>
            \/ \E l \in Loop : pc'[l] \in {"taken", "exposing", "returning", "parking", "resuming"}
            \/ \E u \in Task : Doomed(u)'
    BY DEF IInv, Calm, Doomed, Finalizing, Stopped
  <2>. QED
    BY <2>1, <2>2, <2>3, <2>4, <2>5, <2>6 DEF Calm
<1>. QED
  BY <1>3, <1>4, <1>5, <1>6, <1>7, <1>8, <1>9 DEF IInv

LEMMA CloseHandleStep ==
  ASSUME IInv, NEW t \in Task, CloseHandle(t), TypeOK', Kinds'
  PROVE  IInv'
<1>. USE Kinship DEF Goto, Holds, Drop, MarkIf
<1>1. /\ pc[t] = "closing" /\ handle' = NoHandle
      /\ IF handle = NoHandle THEN UNCHANGED alive ELSE alive' = (alive /\ handle # newest)
      /\ UNCHANGED <<connected, phase, newest, monVars, loopVars, holds, stopVars, countVars>>
  BY DEF CloseHandle
<1>2. \A u \in Task : pc'[u] = IF u = t THEN "removing" ELSE pc[u]
  BY DEF CloseHandle, IInv, TypeOK
<1>. USE <1>1, <1>2 DEF slotVars, monVars, loopVars, stopVars, countVars
<1>0. \A u \in Task : handle # NoHandle => holds[u] # handle
  BY DEF IInv, Owned
<1>3. Owned'
  BY DEF IInv, Owned, Holding
<1>4. Enlisted'
  BY DEF IInv, Enlisted, Active, NoLoopAwaitsItself
<1>5. Watched'
  BY DEF IInv, Watched
<1>6. Connecting'
  <2>1. \A k \in Client : pc'[k] = "installing" => holds'[k] = newest' /\ alive'
    BY <1>0 DEF IInv, Connecting
  <2>. QED
    BY <2>1 DEF IInv, Connecting
<1>7. Told' /\ Paused'
  BY DEF IInv, Told, Paused, Finalizing, Stopped
<1>8. Gone'
  BY DEF IInv, Gone, Finalizing, Stopped
<1>9. Calm'
  <2>. SUFFICES ASSUME odd' = {} PROVE Calm'
    BY DEF Calm
  <2>1. \A l \in Loop : pc'[l] \in {"taken", "exposing"} =>
            (tx' # NoTask => paused') /\ (connected' => phase' = "guiding")
    BY DEF IInv, Calm
  <2>2. handle' # NoHandle => Current(handle)'
    OBVIOUS
  <2>3. \A l \in Loop : connected' /\ pc'[l] \in {"taken", "exposing", "returning", "parking"} =>
            Current(holds[l])'
    <3>1. \A l \in Loop : pc'[l] = pc[l] \/ pc'[l] = "removing"
      OBVIOUS
    <3>. QED
      BY <1>0, <3>1 DEF IInv, Calm, Current
  <2>4. \A m \in Monitor : pc'[m] = "putting" \/ (connected' /\ pc'[m] = "out" /\ m = current') =>
            Current(holds[m])'
    <3>1. \A m \in Monitor : pc'[m] = pc[m] \/ pc'[m] = "removing"
      OBVIOUS
    <3>. QED
      BY <1>0, <3>1 DEF IInv, Calm, Current
  <2>5. \A l \in Loop : l \in cancel' /\ pc'[l] \in {"waiting", "held", "taken", "exposing", "returning"} =>
            \E u \in Task : pc'[u] = "awaiting" /\ waits'[u] = l
    BY DEF IInv, Calm
  <2>6. connected' /\ phase' = "guiding" =>
            \/ \E l \in Loop : pc'[l] \in {"taken", "exposing", "returning", "parking", "resuming"}
            \/ \E u \in Task : Doomed(u)'
    BY DEF IInv, Calm, Doomed, Finalizing, Stopped
  <2>. QED
    BY <2>1, <2>2, <2>3, <2>4, <2>5, <2>6 DEF Calm
<1>. QED
  BY <1>3, <1>4, <1>5, <1>6, <1>7, <1>8, <1>9 DEF IInv

\* The teardown has closed the handle and stopped the loop and the monitor, so the
\* entry leaves nothing behind.
LEMMA RemoveStep ==
  ASSUME IInv, NEW t \in Task, Remove(t), TypeOK', Kinds'
  PROVE  IInv'
<1>. USE Kinship DEF Goto, Holds, Drop, MarkIf
<1>1. /\ pc[t] = "removing" /\ connected' = FALSE /\ phase' = "disconnected"
      /\ odd \subseteq odd'
      /\ odd' \subseteq {"late"} => \A u \in Task : pc[u] \notin {"putting", "parking", "resuming"}
      /\ UNCHANGED <<handle, newest, alive, monVars, loopVars, holds, stopVars>>
  BY DEF Remove
<1>2. \A u \in Task : pc'[u] = IF u = t THEN "idle" ELSE pc[u]
  BY DEF Remove, IInv, TypeOK
<1>. USE <1>1, <1>2 DEF slotVars, monVars, loopVars, stopVars, countVars
<1>3. Owned'
  BY DEF IInv, Owned, Holding
<1>4. Enlisted'
  BY DEF IInv, Enlisted, Active, NoLoopAwaitsItself
<1>5. Watched'
  BY DEF IInv, Watched
<1>6. Connecting'
  BY DEF IInv, Connecting
<1>7. Told' /\ Paused'
  BY DEF IInv, Told, Paused, Finalizing, Stopped
<1>8. Gone'
  BY DEF IInv, Gone, Finalizing, Stopped
<1>9. Calm'
  BY DEF IInv, Calm, Current, Doomed, Finalizing, Stopped
<1>. QED
  BY <1>3, <1>4, <1>5, <1>6, <1>7, <1>8, <1>9 DEF IInv

-----------------------------------------------------------------------------
(* The observer's requests.                                                *)

LEMMA ConnectStarts ==
  ASSUME IInv, NEW k \in Client, Connect(k), TypeOK', Kinds'
  PROVE  IInv'
<1>. USE Kinship DEF Goto, Holds, Drop, MarkIf
<1>1. /\ pc[k] = "idle" /\ ~connected /\ \A c \in Client : pc[c] \notin {"opening", "installing", "starting"}
      /\ UNCHANGED <<slotVars, monVars, loopVars, holds, stopVars, odd>>
  BY DEF Connect, Request, loopVars, stopVars, countVars
<1>2. \A u \in Task : pc'[u] = IF u = k THEN "opening" ELSE pc[u]
  BY DEF Connect, Request, IInv, TypeOK
<1>. USE <1>1, <1>2 DEF slotVars, monVars, loopVars, stopVars, countVars
<1>3. Owned'
  BY DEF IInv, Owned, Holding
<1>4. Enlisted'
  BY DEF IInv, Enlisted, Active, NoLoopAwaitsItself
<1>5. Watched'
  BY DEF IInv, Watched
<1>6. Connecting'
  BY DEF IInv, Connecting
<1>7. Told' /\ Paused'
  BY DEF IInv, Told, Paused, Finalizing, Stopped
<1>8. Gone'
  BY DEF IInv, Gone, Finalizing, Stopped
<1>9. Calm'
  BY DEF IInv, Calm, Current, Doomed, Finalizing, Stopped
<1>. QED
  BY <1>3, <1>4, <1>5, <1>6, <1>7, <1>8, <1>9 DEF IInv

LEMMA DisconnectStarts ==
  ASSUME IInv, NEW k \in Client, Disconnect(k), TypeOK', Kinds'
  PROVE  IInv'
<1>. USE Kinship DEF Goto, Holds, Drop, MarkIf
<1>1. /\ pc[k] = "idle" /\ UNCHANGED <<slotVars, monVars, loopVars, holds, waits, odd>>
  BY DEF Disconnect, Request
<1>2. /\ \A u \in Task : pc'[u] = IF u = k THEN "stopping" ELSE pc[u]
      /\ \A u \in Task : after'[u] = IF u = k THEN "retiring" ELSE after[u]
  BY DEF Disconnect, Request, IInv, TypeOK
<1>. USE <1>1, <1>2 DEF slotVars, monVars, loopVars, stopVars, countVars
<1>3. Owned'
  BY DEF IInv, Owned, Holding
<1>4. Enlisted'
  BY DEF IInv, Enlisted, Active, NoLoopAwaitsItself
<1>5. Watched'
  BY DEF IInv, Watched
<1>6. Connecting'
  BY DEF IInv, Connecting
<1>7. Told' /\ Paused'
  BY DEF IInv, Told, Paused, Finalizing, Stopped
<1>8. Gone'
  BY DEF IInv, Gone, Finalizing, Stopped
<1>9. Calm'
  BY DEF IInv, Calm, Current, Doomed, Finalizing, Stopped
<1>. QED
  BY <1>3, <1>4, <1>5, <1>6, <1>7, <1>8, <1>9 DEF IInv

LEMMA StopGuideStarts ==
  ASSUME IInv, NEW k \in Client, StopGuide(k), TypeOK', Kinds'
  PROVE  IInv'
<1>. USE Kinship DEF Goto, Holds, Drop, MarkIf
<1>1. /\ pc[k] = "idle" /\ UNCHANGED <<slotVars, monVars, loopVars, holds, stopVars, odd>>
  BY DEF StopGuide, Request, loopVars, stopVars, countVars
<1>2. /\ \A u \in Task : pc'[u] = IF u = k THEN "stopping" ELSE pc[u]
      /\ after[k] = "idle"
  BY DEF StopGuide, Request, IInv, TypeOK, Kinds
<1>. USE <1>1, <1>2 DEF slotVars, monVars, loopVars, stopVars, countVars
<1>3. Owned'
  BY DEF IInv, Owned, Holding
<1>4. Enlisted'
  BY DEF IInv, Enlisted, Active, NoLoopAwaitsItself
<1>5. Watched'
  BY DEF IInv, Watched
<1>6. Connecting'
  BY DEF IInv, Connecting
<1>7. Told' /\ Paused'
  BY DEF IInv, Told, Paused, Finalizing, Stopped
<1>8. Gone'
  BY DEF IInv, Gone, Finalizing, Stopped
<1>9. Calm'
  BY DEF IInv, Calm, Current, Doomed, Finalizing, Stopped
<1>. QED
  BY <1>3, <1>4, <1>5, <1>6, <1>7, <1>8, <1>9 DEF IInv

LEMMA StartGuideStarts ==
  ASSUME IInv, NEW k \in Client, NEW l \in Loop, StartGuide(k, l), TypeOK', Kinds'
  PROVE  IInv'
<1>. USE Kinship DEF Goto, Holds, Drop, MarkIf
<1>1. /\ pc[l] = "idle" /\ registered = NoTask /\ registered' = l /\ cancel' = cancel \ {l}
      /\ UNCHANGED <<slotVars, monVars, holds, stopVars, odd>>
  BY DEF StartGuide, Request, Register, stopVars
<1>2. \A u \in Task : pc'[u] = IF u = l THEN "queued" ELSE pc[u]
  BY DEF StartGuide, Request, Register, IInv, TypeOK
<1>. USE <1>1, <1>2 DEF slotVars, monVars, loopVars, stopVars, countVars
<1>3. Owned'
  BY DEF IInv, Owned, Holding
<1>4. Enlisted'
  BY DEF IInv, Enlisted, Active, NoLoopAwaitsItself
<1>5. Watched'
  BY DEF IInv, Watched
<1>6. Connecting'
  BY DEF IInv, Connecting
<1>7. Told' /\ Paused'
  BY DEF IInv, Told, Paused, Finalizing, Stopped
<1>8. Gone'
  BY DEF IInv, Gone, Finalizing, Stopped
<1>9. Calm'
  BY DEF IInv, Calm, Current, Doomed, Finalizing, Stopped
<1>. QED
  BY <1>3, <1>4, <1>5, <1>6, <1>7, <1>8, <1>9 DEF IInv

\* The camera is not connected, so the slot is empty.
LEMMA OpenStep ==
  ASSUME IInv, NEW k \in Client, Open(k), TypeOK', Kinds'
  PROVE  IInv'
<1>. USE Kinship DEF Goto, Holds, Drop, MarkIf
<1>1. /\ pc[k] = "opening" /\ newest' \notin {handle, NoHandle} /\ alive'
      /\ \A u \in Task : pc[u] # "putting" /\ holds[u] # newest'
      /\ UNCHANGED <<connected, phase, handle, monVars, loopVars, stopVars, countVars>>
  BY TaskAssumption DEF Open, IInv, TypeOK
<1>2. \A u \in Task : pc'[u] = IF u = k THEN "installing" ELSE pc[u]
  BY DEF Open, IInv, TypeOK
<1>3. \A u \in Task : holds'[u] = IF u = k THEN newest' ELSE holds[u]
  BY DEF Open, IInv, TypeOK
<1>. USE <1>1, <1>2, <1>3 DEF slotVars, monVars, loopVars, stopVars, countVars
<1>4. Owned'
  BY DEF IInv, Owned, Holding
<1>5. Enlisted'
  BY DEF IInv, Enlisted, Active, NoLoopAwaitsItself
<1>6. Watched'
  BY DEF IInv, Watched
<1>7. Connecting'
  BY DEF IInv, Connecting
<1>8. Told' /\ Paused'
  BY DEF IInv, Told, Paused, Finalizing, Stopped
<1>9. Gone'
  BY DEF IInv, Gone, Finalizing, Stopped
<1>10. Calm'
  <2>. SUFFICES ASSUME odd' = {} PROVE Calm'
    BY DEF Calm
  <2>0. ~connected
    BY DEF IInv, Connecting
  <2>1. \A l \in Loop : pc'[l] \in {"taken", "exposing"} =>
            (tx' # NoTask => paused') /\ (connected' => phase' = "guiding")
    BY DEF IInv, Calm
  <2>2. handle' # NoHandle => Current(handle)'
    BY <2>0 DEF IInv, Gone
  <2>3. \A l \in Loop : connected' /\ pc'[l] \in {"taken", "exposing", "returning", "parking"} =>
            Current(holds[l])'
    BY <2>0
  <2>4. \A m \in Monitor : pc'[m] = "putting" \/ (connected' /\ pc'[m] = "out" /\ m = current') =>
            Current(holds[m])'
    BY <2>0
  <2>5. \A l \in Loop : l \in cancel' /\ pc'[l] \in {"waiting", "held", "taken", "exposing", "returning"} =>
            \E u \in Task : pc'[u] = "awaiting" /\ waits'[u] = l
    BY DEF IInv, Calm
  <2>6. connected' /\ phase' = "guiding" =>
            \/ \E l \in Loop : pc'[l] \in {"taken", "exposing", "returning", "parking", "resuming"}
            \/ \E u \in Task : Doomed(u)'
    BY <2>0
  <2>. QED
    BY <2>1, <2>2, <2>3, <2>4, <2>5, <2>6 DEF Calm
<1>. QED
  BY <1>4, <1>5, <1>6, <1>7, <1>8, <1>9, <1>10 DEF IInv

\* Unless somebody tears down, a loop of the connection before has ended: it was
\* told to stop, and a stop waits for what it has told.
LEMMA InstallStep ==
  ASSUME IInv, NEW k \in Client, Install(k), TypeOK', Kinds'
  PROVE  IInv'
<1>. USE Kinship DEF Goto, Holds, Drop, MarkIf
<1>1. /\ pc[k] = "installing" /\ connected' /\ phase' = "idle" /\ handle' = holds[k] /\ paused' = FALSE
      /\ current' \in Monitor /\ tx' = current' /\ pc[current'] = "idle" /\ odd \subseteq odd'
      /\ odd' \subseteq {"late"} => \A t \in Task : pc[t] \notin TearDowns
      /\ UNCHANGED <<newest, alive, loopVars, stopVars>>
  BY DEF Install, TearingDown, TearDowns, IInv, TypeOK
<1>2. \A u \in Task : pc'[u] = IF u = k THEN "starting" ELSE IF u = current' THEN "watching"
                                ELSE IF u = tx /\ pc[u] = "watching" THEN "idle" ELSE pc[u]
  BY DEF Install, TearingDown, IInv, TypeOK
<1>3. \A u \in Task : holds'[u] = IF u = k THEN NoHandle ELSE holds[u]
  BY DEF Install, TearingDown, IInv, TypeOK
<1>. USE <1>1, <1>2, <1>3 DEF slotVars, monVars, loopVars, stopVars, countVars
<1>0. /\ holds[k] = newest /\ alive /\ newest # NoHandle /\ current' # k
      /\ \A u \in Task \ {k} : holds[u] # newest
  BY DEF IInv, Connecting, Owned, Holding
<1>4. Owned'
  BY <1>0 DEF IInv, Owned, Holding
<1>5. Enlisted'
  BY DEF IInv, Enlisted, Active, NoLoopAwaitsItself
<1>6. Watched'
  BY <1>0 DEF IInv, Watched
<1>7. Connecting'
  BY DEF IInv, Connecting
<1>8. Told' /\ Paused'
  BY DEF IInv, Told, Paused, Finalizing, Stopped
<1>9. Gone'
  <2>1. \A u \in Task : pc'[u] \in TearDowns <=> pc[u] \in TearDowns
    BY DEF TearDowns
  <2>2. odd' \subseteq {"late"} => \A u \in Task : ~Finalizing(u)' /\ ~Stopped(u)' /\ pc'[u] # "removing"
    BY <2>1 DEF Finalizing, Stopped, TearDowns
  <2>. QED
    BY <2>2 DEF Gone
<1>10. Calm'
  <2>. SUFFICES ASSUME odd' = {} PROVE Calm'
    BY DEF Calm
  <2>0. /\ \A l \in Loop : pc'[l] = pc[l] /\ pc[l] \notin {"taken", "exposing", "returning", "parking"}
        /\ \A l \in Loop : l \in cancel => pc[l] \notin {"waiting", "held"}
        /\ \A m \in Monitor : pc'[m] # "putting" /\ (m = current' => pc'[m] = "watching")
    <3>1. \A u \in Task : pc[u] # "awaiting" /\ pc[u] \notin {"putting", "parking"}
      BY DEF IInv, Connecting, Gone, TearDowns
    <3>2. \A l \in Loop : l \in cancel => pc[l] \notin {"waiting", "held", "taken", "exposing", "returning"}
      BY <3>1 DEF IInv, Calm
    <3>3. \A l \in Loop : pc[l] \in {"taken", "exposing"} => l \in cancel
      BY DEF IInv, Connecting, Gone, Enlisted, Active
    <3>4. \A l \in Loop : pc[l] = "returning" => l \in cancel
      BY DEF IInv, Enlisted
    <3>5. \A l \in Loop : pc'[l] = pc[l]
      BY DEF IInv, TypeOK
    <3>6. \A m \in Monitor : pc'[m] # "putting" /\ (m = current' => pc'[m] = "watching")
      BY <1>0, <3>1
    <3>. QED
      BY <3>1, <3>2, <3>3, <3>4, <3>5, <3>6
  <2>1. \A l \in Loop : pc'[l] \in {"taken", "exposing"} =>
            (tx' # NoTask => paused') /\ (connected' => phase' = "guiding")
    BY <2>0
  <2>2. handle' # NoHandle => Current(handle)'
    BY <1>0 DEF Current
  <2>3. \A l \in Loop : connected' /\ pc'[l] \in {"taken", "exposing", "returning", "parking"} =>
            Current(holds[l])'
    BY <2>0
  <2>4. \A m \in Monitor : pc'[m] = "putting" \/ (connected' /\ pc'[m] = "out" /\ m = current') =>
            Current(holds[m])'
    BY <2>0
  <2>5. \A l \in Loop : l \in cancel' /\ pc'[l] \in {"waiting", "held", "taken", "exposing", "returning"} =>
            \E u \in Task : pc'[u] = "awaiting" /\ waits'[u] = l
    BY <2>0
  <2>6. connected' /\ phase' = "guiding" =>
            \/ \E l \in Loop : pc'[l] \in {"taken", "exposing", "returning", "parking", "resuming"}
            \/ \E u \in Task : Doomed(u)'
    OBVIOUS
  <2>. QED
    BY <2>1, <2>2, <2>3, <2>4, <2>5, <2>6 DEF Calm
<1>. QED
  BY <1>4, <1>5, <1>6, <1>7, <1>8, <1>9, <1>10 DEF IInv

LEMMA StartLoopStep ==
  ASSUME IInv, NEW k \in Client, StartLoop(k), TypeOK', Kinds'
  PROVE  IInv'
<1>. USE Kinship DEF Goto, slotVars, monVars, loopVars, stopVars, countVars
<1>1. pc[k] = "starting" /\ UNCHANGED <<slotVars, monVars, holds, stopVars, countVars>>
  BY DEF StartLoop
<1>2. CASE registered # NoTask /\ Goto(k, "idle") /\ UNCHANGED loopVars
  <2>1. \A u \in Task : pc'[u] = IF u = k THEN "idle" ELSE pc[u]
    BY <1>2 DEF IInv, TypeOK
  <2>. USE <1>1, <1>2, <2>1
  <2>2. Owned' /\ Enlisted' /\ Watched' /\ Connecting'
    BY DEF IInv, Owned, Holding, Enlisted, Active, NoLoopAwaitsItself, Watched, Connecting
  <2>3. Told' /\ Paused' /\ Gone'
    BY DEF IInv, Told, Paused, Gone, Finalizing, Stopped
  <2>4. Calm'
    BY DEF IInv, Calm, Current, Doomed, Finalizing, Stopped
  <2>. QED
    BY <2>2, <2>3, <2>4 DEF IInv
<1>3. ASSUME NEW l \in Loop, Register(l), pc' = [pc EXCEPT ![k] = "idle", ![l] = "queued"]
      PROVE  IInv'
  <2>1. \A u \in Task : pc'[u] = IF u = k THEN "idle" ELSE IF u = l THEN "queued" ELSE pc[u]
    BY <1>3 DEF IInv, TypeOK
  <2>2. pc[l] = "idle" /\ registered = NoTask /\ registered' = l /\ cancel' = cancel \ {l}
    BY <1>3 DEF Register
  <2>. USE <1>1, <2>1, <2>2
  <2>3. Owned' /\ Enlisted'
    BY DEF IInv, Owned, Holding, Enlisted, Active, NoLoopAwaitsItself
  <2>4. Watched' /\ Connecting'
    BY DEF IInv, Watched, Connecting
  <2>5. Told' /\ Paused' /\ Gone'
    BY DEF IInv, Told, Paused, Gone, Finalizing, Stopped
  <2>6. Calm'
    BY DEF IInv, Calm, Current, Doomed, Finalizing, Stopped
  <2>. QED
    BY <2>3, <2>4, <2>5, <2>6 DEF IInv
<1>. QED
  BY <1>2, <1>3 DEF StartLoop

-----------------------------------------------------------------------------
(* What follows from the invariant.                                        *)

LEMMA NextStep == IInv /\ [Next]_vars => IInv'
<1>. SUFFICES ASSUME IInv, [Next]_vars PROVE IInv'
  OBVIOUS
<1>1. TypeOK' /\ Kinds'
  BY TypeStep, KindsStep DEF IInv
<1>2. ASSUME NEW m \in Monitor, MonitorStep(m) PROVE IInv'
  BY <1>1, <1>2, PollStep, OverrunStep, JudgeStep, PutStep, MissHandleStep DEF MonitorStep
<1>3. ASSUME NEW l \in Loop, LoopStep(l) PROVE IInv'
  BY <1>1, <1>3, TakeStep, TakeHandleStep, TakeRefusedStep, TakeEndsStep, RunLoopStep, EndLoopStep,
     LoseLoopStep, GiveBackStep, ParkStep, ResumeMonitorStep DEF LoopStep
<1>4. ASSUME NEW k \in Client, RequestStep(k) PROVE IInv'
  BY <1>1, <1>4, ConnectStarts, DisconnectStarts, StopGuideStarts, StartGuideStarts DEF RequestStep
<1>5. ASSUME NEW k \in Client, ConnectStep(k) PROVE IInv'
  BY <1>1, <1>5, OpenStep, InstallStep, StartLoopStep DEF ConnectStep
<1>6. ASSUME NEW t \in Task, TearDown(t) PROVE IInv'
  BY <1>1, <1>6, RetireStep, StopLoopStep, StopReturnsStep, CloseHandleStep, RemoveStep DEF TearDown
<1>7. CASE UNCHANGED vars
  <2>. USE <1>7 DEF vars, slotVars, monVars, loopVars, stopVars, countVars
  <2>1. Owned' /\ Enlisted' /\ Watched' /\ Connecting'
    BY DEF IInv, Owned, Holding, Enlisted, Active, NoLoopAwaitsItself, Watched, Connecting
  <2>2. Told' /\ Paused' /\ Gone'
    BY DEF IInv, Told, Paused, Gone, Finalizing, Stopped
  <2>3. Calm'
    BY DEF IInv, Calm, Current, Doomed, Finalizing, Stopped
  <2>. QED
    BY <1>1, <2>1, <2>2, <2>3 DEF IInv
<1>. QED
  BY <1>2, <1>3, <1>4, <1>5, <1>6, <1>7 DEF Next

\* The invariant the results below rest on.
THEOREM InductiveInvariant == Spec => []IInv
<1>1. Init => IInv
  BY InitStep
<1>2. IInv /\ [Next]_vars => IInv'
  BY NextStep
<1>. QED
  BY <1>1, <1>2, PTL DEF Spec

\* Every task is at one of its places, with a handle or none.
THEOREM TypeCorrect == Spec => []TypeOK
  BY InductiveInvariant, PTL DEF IInv

\* A loop that tears down its own slot never waits there for itself.
THEOREM NoSelfWait == Spec => []NoLoopAwaitsItself
  BY InductiveInvariant, PTL DEF IInv, Enlisted

\* At rest nobody tears down, so the monitor of a connected camera is the one
\* commands reach, and a loop that has the handle is the registered one.
LEMMA RestIsReachable == IInv => ConnectedCameraIsReachable
<1>. SUFFICES ASSUME IInv, connected, AtRest, odd = {}
              PROVE  /\ tx # NoTask /\ tx = current
                     /\ IF registered # NoTask
                          THEN holds[registered] = newest /\ alive /\ paused /\ phase = "guiding"
                          ELSE ~paused /\ phase = "idle" /\ (handle # NoHandle => handle = newest /\ alive)
  BY DEF ConnectedCameraIsReachable
<1>. USE Kinship
<1>1. \A t \in Task : pc[t] \notin TearDowns /\ ~Doomed(t) /\ ~Finalizing(t)
  BY DEF AtRest, TearDowns, Doomed, Finalizing, Stopped
<1>2. tx # NoTask /\ tx = current
  BY <1>1 DEF IInv, Told, Watched
<1>3. \A l \in Loop : pc[l] = "idle" \/ (pc[l] = "exposing" /\ registered = l)
  <2>1. \A l \in Loop : pc[l] = "idle" \/ (pc[l] = "exposing" /\ l \notin cancel)
    BY DEF IInv, Kinds, TearDowns, AtRest
  <2>. QED
    BY <2>1 DEF IInv, Enlisted, Active
<1>4. CASE registered # NoTask
  <2>1. registered \in Loop /\ pc[registered] = "exposing"
    BY <1>3, <1>4 DEF IInv, TypeOK, Enlisted, Active
  <2>. QED
    BY <1>2, <1>4, <2>1 DEF IInv, Calm, Current
<1>5. CASE registered = NoTask
  <2>1. \A l \in Loop : pc[l] = "idle"
    BY <1>3, <1>5
  <2>2. phase = "idle"
    BY <1>1, <2>1 DEF IInv, TypeOK, Told, Calm
  <2>3. ~paused
    BY <2>1, <2>2 DEF IInv, Paused
  <2>. QED
    BY <1>2, <1>5, <2>2, <2>3 DEF IInv, Calm, Current
<1>. QED
  BY <1>4, <1>5

\* Whoever still had the newest handle would not be at rest.
LEMMA RestIsClosed == IInv => DisconnectedCameraIsClosed
<1>. SUFFICES ASSUME IInv, ~connected, AtRest, odd \subseteq {"late"}
              PROVE  /\ ~alive /\ handle = NoHandle
                     /\ registered = NoTask /\ tx = NoTask /\ phase = "disconnected"
  BY DEF DisconnectedCameraIsClosed
<1>. USE Kinship
<1>1. handle = NoHandle /\ tx = NoTask /\ phase = "disconnected"
  BY DEF IInv, Gone
<1>2. \A t \in Task : pc[t] \in {"idle", "watching"} \/ (pc[t] = "exposing" /\ t \notin cancel)
  BY <1>1 DEF AtRest
<1>3. \A l \in Loop : pc[l] = "idle"
  <2>1. \A l \in Loop : pc[l] = "exposing" => registered = l
    BY <1>2 DEF IInv, Enlisted, Active
  <2>2. \A l \in Loop : registered = l => pc[l] # "exposing"
    BY DEF IInv, Gone
  <2>. QED
    BY <1>2, <2>1, <2>2 DEF IInv, Kinds, TearDowns
<1>4. registered = NoTask
  BY <1>3 DEF IInv, TypeOK, Enlisted, Active
<1>5. \A t \in Task : pc[t] \notin Holding
  BY <1>2, <1>3 DEF IInv, Kinds, TearDowns, Holding
<1>6. ~alive
  BY <1>1, <1>5 DEF IInv, Owned
<1>. QED
  BY <1>1, <1>4, <1>6

\* An owner that comes back late finds the roster or the slot moved on, and
\* what it drops then is not the newest handle.
LEMMA StepKeepsLive ==
  ASSUME IInv, Next, alive, ~alive', connected, odd' = {}
  PROVE  faults' # faults \/ \E t \in Task : TearingDown(t)
<1>. USE Kinship DEF Drop, MarkIf, slotVars
<1>1. ASSUME NEW m \in Monitor, MonitorStep(m) PROVE faults' # faults
  <2>1. CASE Poll(m) \/ MissHandle(m)
    BY <2>1 DEF Poll, MissHandle
  <2>2. CASE Overrun(m)
    BY <2>2 DEF Overrun, Fault, IInv, TypeOK
  <2>3. CASE Judge(m)
    BY <2>3 DEF Judge, IInv, Told, Watched
  <2>4. CASE Put(m)
    <3>1. handle # NoHandle /\ holds[m] = newest /\ odd = {} /\ pc[m] = "putting"
      BY <2>4 DEF Put
    <3>2. handle = newest
      BY <3>1 DEF IInv, Calm, Current
    <3>. QED
      BY <3>1, <3>2 DEF IInv, Owned
  <2>. QED
    BY <1>1, <2>1, <2>2, <2>3, <2>4 DEF MonitorStep
<1>2. ASSUME NEW l \in Loop, LoopStep(l) PROVE faults' # faults
  <2>1. CASE Take(l) \/ TakeHandle(l) \/ TakeRefused(l) \/ TakeFindsBusy(l) \/ TakeFails(l)
    BY <2>1 DEF Take, TakeHandle, TakeRefused, TakeFindsBusy, TakeFails
  <2>2. CASE RunLoop(l) \/ EndLoop(l) \/ ResumeMonitor(l)
    BY <2>2 DEF RunLoop, EndLoop, ResumeMonitor
  <2>3. CASE LoseLoop(l)
    BY <2>3 DEF LoseLoop, Fault, IInv, TypeOK
  <2>4. CASE GiveBack(l)
    <3>1. handle # NoHandle /\ holds[l] = newest /\ odd = {} /\ pc[l] = "returning"
      BY <2>4 DEF GiveBack, Superseded, countVars
    <3>2. handle = newest
      BY <3>1 DEF IInv, Calm, Current
    <3>. QED
      BY <3>1, <3>2 DEF IInv, Owned
  <2>5. CASE Park(l)
    <3>1. handle # NoHandle /\ handle = newest /\ odd = {} /\ pc[l] = "parking"
      BY <2>5 DEF Park
    <3>2. holds[l] = newest
      BY <3>1 DEF IInv, Calm, Current
    <3>. QED
      BY <3>1, <3>2 DEF IInv, Owned
  <2>. QED
    BY <1>2, <2>1, <2>2, <2>3, <2>4, <2>5 DEF LoopStep
<1>3. ASSUME NEW k \in Client, RequestStep(k) \/ ConnectStep(k) PROVE FALSE
  <2>1. CASE RequestStep(k)
    BY <2>1 DEF RequestStep, Connect, Disconnect, StopGuide, StartGuide, Request
  <2>2. CASE ConnectStep(k)
    BY <2>2 DEF ConnectStep, Open, Install, StartLoop
  <2>. QED
    BY <1>3, <2>1, <2>2
<1>4. ASSUME NEW t \in Task, TearDown(t) PROVE TearingDown(t)
  BY <1>4 DEF TearDown, Retire, StopLoop, StopReturns, CloseHandle, Remove, TearingDown
<1>. QED
  BY <1>1, <1>2, <1>3, <1>4 DEF Next

\* Outside the three races a connected camera at rest is reachable (hand_off.rs,
\* guide_task, lifecycle).
THEOREM ConnectedIsReachable == Spec => []ConnectedCameraIsReachable
  BY InductiveInvariant, RestIsReachable, PTL

\* finalize_disconnect leaves no device open, no loop and no monitor, even when
\* the stop in it gave up on a loop.
THEOREM DisconnectedIsClosed == Spec => []DisconnectedCameraIsClosed
  BY InductiveInvariant, RestIsClosed, PTL

\* Nobody closes the device of a connected camera but its teardown or a fault.
THEOREM LiveDeviceKept == Spec => LiveDeviceIsKept
<1>1. IInv /\ [Next]_vars =>
        [(alive /\ ~alive' /\ connected /\ odd' = {}) =>
            \/ faults' # faults
            \/ \E t \in Task : TearingDown(t)]_vars
  BY StepKeepsLive
<1>. QED
  BY <1>1, InductiveInvariant, PTL DEF Spec, LiveDeviceIsKept

=============================================================================
