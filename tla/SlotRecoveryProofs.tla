------------------------- MODULE SlotRecoveryProofs -------------------------
(***************************************************************************)
(* Proofs about SlotRecovery, for any number of cameras, tasks and faults. *)
(*                                                                         *)
(* The invariant is built in layers: who is about which camera; the flag   *)
(* and the lock that make the supervisor alone; where a suspension may     *)
(* stand; what a camera sent away leaves behind.  Each layer is preserved  *)
(* by every step on the strength of those below it.                        *)
(***************************************************************************)
EXTENDS SlotRecovery, TLAPS

\* A supervisor between taking reconnect_in_flight and clearing it.
Driving(s) == pc[s] \notin {"idle", "rechecking"}

InTeardown == {"finalizing", "ending", "removing"}

\* A task under way is about a camera, or about to connect one, and no
\* supervisor tears down for a device fault.
Purposes ==
    /\ \A t \in Task : pc[t] \notin {"idle", "connecting", "opening"} => cam[t] \in Camera
    /\ \A t \in Task : pc[t] \in {"connecting", "opening"} => want[t] \in Camera
    /\ \A s \in Supervisor : pc[s] \in InTeardown => cause[s] # "device_fault"

Typed == TypeOK /\ Purposes

\* The flag is up while a supervisor drives, and only one does.
Single ==
    /\ \A s \in Supervisor : Driving(s) => inFlight
    /\ \A s, t \in Supervisor : Driving(s) /\ Driving(t) => s = t

\* From the check after the lock to the end of the install, the lock is held.
Locked ==
    \A s \in Supervisor :
        pc[s] \in {"checking", "claiming", "installing", "finishing"} => lock = s

\* An entry goes only from a slot whose recovery has ended.
Settled ==
    /\ (entry = NoCamera => recovery = "none" \/ strayed)
    /\ (\A t \in Task : pc[t] = "removing" => recovery = "none" \/ strayed)

Attended ==
    (recovery = "suspended" /\ ~strayed) =>
        inFlight \/ \E t \in Task : pc[t] \in {"detaching", "rechecking"}

\* What a supervisor is about to install has not been sent away.
Wanted ==
    \A s \in Supervisor :
        /\ pc[s] \in {"claiming", "installing", "finishing"} => entry \in {cam[s], NoCamera}
        /\ (pc[s] = "claiming" /\ recovery = "suspended" /\ ~strayed) => cam[s] \notin gone
        /\ (pc[s] = "installing" /\ recovery \in {"installing", "refaulted"} /\ ~strayed)
              => cam[s] \notin gone

\* A supervisor that is about to go has taken its notice down.
Quiet ==
    \A s \in Supervisor :
        (\/ pc[s] \in {"failing", "releasing"}
         \/ pc[s] \in InTeardown /\ cause[s] = "recovery_failed")
           => status # "reconnecting"

\* Starting a supervisor, or finding one in flight, keeps the types.
LEMMA SpawnTyped ==
    ASSUME Typed, NEW t \in Task, NEW c \in Camera, Spawn(t, c),
           UNCHANGED <<entry, recovery, lock, autoReconnect, status, histVars>>
    PROVE  Typed'
<1> USE TaskAssumption, BoundAssumption
    DEF Task, Typed, TypeOK, Purposes, InTeardown, Recoveries, Causes, Places, histVars
<1>1. CASE inFlight
    BY <1>1 DEF Spawn, Goto
<1>2. ASSUME ~inFlight, NEW s \in Supervisor, inFlight' = TRUE, attempts' = 0, Handover(t, s, c)
      PROVE  Typed'
    <2>1. /\ pc' \in [Task -> Places]
          /\ \A u \in Task : pc'[u] = IF u = s THEN "starting" ELSE IF u = t THEN "idle" ELSE pc[u]
        BY <1>2 DEF Handover
    <2>2. /\ cam' \in [Task -> Camera \cup {NoCamera}]
          /\ \A u \in Task : cam'[u] = IF u = s THEN c ELSE IF u = t THEN NoCamera ELSE cam[u]
        BY <1>2 DEF Handover
    <2>3. cause' \in [Task -> Causes]
        BY <1>2 DEF Handover
    <2>4. \A u \in Task : cause'[u] = IF u = s THEN "recovery_failed" ELSE IF u = t THEN "requested" ELSE cause[u]
        BY <1>2 DEF Handover
    <2>5. /\ want' \in [Task -> Camera \cup {NoCamera}]
          /\ \A u \in Task : u # t => want'[u] = want[u]
        BY <1>2 DEF Handover
    <2>6. TypeOK'
        BY <1>2, <2>1, <2>2, <2>3, <2>5
    <2>7. Purposes'
        BY <2>1, <2>2, <2>4, <2>5
    <2>8. QED
        BY <2>6, <2>7
<1>3. QED
    BY <1>1, <1>2 DEF Spawn

\* Every step keeps the types and leaves each task about a camera.
LEMMA TypedStep == Typed /\ [Next]_vars => Typed'
<1> SUFFICES ASSUME Typed, [Next]_vars PROVE Typed'
    OBVIOUS
<1> USE TaskAssumption, BoundAssumption DEF Task, Typed, TypeOK, Purposes,
       InTeardown, Recoveries, Causes, Places
<1>1. ASSUME NEW r \in Reporter, NEW c \in Camera, ReportFault(r, c) PROVE Typed'
    BY <1>1 DEF ReportFault, Become, slotVars
<1>2. ASSUME NEW r \in Reporter, BeginSuspend(r) PROVE Typed'
    BY <1>2 DEF BeginSuspend, Goto, Strays
<1>3. ASSUME NEW r \in Reporter, DetachAndSpawn(r) PROVE Typed'
    BY <1>3, SpawnTyped DEF DetachAndSpawn
<1>4. ASSUME NEW r \in Reporter, ReportRemoved(r) PROVE Typed'
    BY <1>4, SpawnTyped DEF ReportRemoved
<1>5. ASSUME NEW k \in Client, NEW c \in Camera, Connect(k, c) PROVE Typed'
    BY <1>5 DEF Connect, Become, Request, slotVars
<1>6. ASSUME NEW k \in Client, NEW c \in Camera, Disconnect(k, c) PROVE Typed'
    BY <1>6 DEF Disconnect, Become, Request, IsRecovering, slotVars
<1>7. ASSUME NEW k \in Client, QueuedDisconnect(k) PROVE Typed'
    BY <1>7 DEF QueuedDisconnect, Goto, IsRecovering, histVars
<1>8. ASSUME NEW k \in Client, ConnectLocked(k) PROVE Typed'
    BY <1>8 DEF ConnectLocked, Goto, Become, histVars
<1>9. ASSUME NEW k \in Client, ConnectInstall(k) PROVE Typed'
    BY <1>9 DEF ConnectInstall, Goto
<1>10. ASSUME NEW k \in Client, ConnectFails(k) PROVE Typed'
    BY <1>10 DEF ConnectFails, Goto, Unlock, histVars
<1>11. ASSUME NEW s \in Supervisor, Start(s) PROVE Typed'
    BY <1>11 DEF Start, Goto, SupStep
<1>12. ASSUME NEW s \in Supervisor, GiveUp(s) PROVE Typed'
    BY <1>12 DEF GiveUp, Goto, SupStep
<1>13. ASSUME NEW s \in Supervisor, Abandon(s) PROVE Typed'
    BY <1>13 DEF Abandon, Goto, SupStep, StillRecovering
<1>14. ASSUME NEW s \in Supervisor, Attempt(s) PROVE Typed'
    BY <1>14 DEF Attempt, Goto, SupStep, StillRecovering
<1>15. ASSUME NEW s \in Supervisor, Reopen(s) PROVE Typed'
    BY <1>15 DEF Reopen, Goto, SupStep, StillRecovering
<1>16. ASSUME NEW s \in Supervisor, OpenFails(s) PROVE Typed'
    BY <1>16 DEF OpenFails, Goto, Unlock, SupStep
<1>17. ASSUME NEW s \in Supervisor, CheckOpened(s) PROVE Typed'
    BY <1>17 DEF CheckOpened, Goto, Unlock, SupStep, StillRecovering
<1>18. ASSUME NEW s \in Supervisor, BeginInstall(s) PROVE Typed'
    BY <1>18 DEF BeginInstall, Goto, Unlock, SupStep
<1>19. ASSUME NEW s \in Supervisor, InstallFails(s) PROVE Typed'
    BY <1>19 DEF InstallFails, Goto, Unlock, SupStep
<1>20. ASSUME NEW s \in Supervisor, Install(s) PROVE Typed'
    BY <1>20 DEF Install, Goto, SupStep
<1>21. ASSUME NEW s \in Supervisor, FinishInstall(s) PROVE Typed'
    BY <1>21 DEF FinishInstall, Goto, Become, Unlock, histVars
<1>22. ASSUME NEW s \in Supervisor, Resume(s) PROVE Typed'
    BY <1>22 DEF Resume, Goto, SupStep
<1>23. ASSUME NEW s \in Supervisor, Retry(s) PROVE Typed'
    BY <1>23 DEF Retry, Goto, SupStep
<1>24. ASSUME NEW s \in Supervisor, TearDown(s) PROVE Typed'
    BY <1>24 DEF TearDown, Become, StillRecovering, slotVars, histVars
<1>25. ASSUME NEW s \in Supervisor, ReleaseFlight(s) PROVE Typed'
    <2>1. pc' = [pc EXCEPT ![s] = "rechecking"] /\ inFlight' = FALSE /\ pc[s] = "releasing"
        BY <1>25 DEF ReleaseFlight, Goto, SupStep
    <2>2. UNCHANGED <<status, entry, recovery, lock, attempts, opened, cam, cause, want,
                      autoReconnect, faults, requests, gone, strayed>>
        BY <1>25 DEF ReleaseFlight, Goto, SupStep
    <2>3. pc' \in [Task -> Places]
        BY <2>1
    <2>4. TypeOK'
        BY <2>1, <2>2, <2>3
    <2>5. Purposes'
        BY <2>1, <2>2
    <2>6. QED
        BY <2>4, <2>5
<1>26. ASSUME NEW s \in Supervisor, RecheckOrphan(s) PROVE Typed'
    BY <1>26, SpawnTyped DEF RecheckOrphan, Goto, histVars
<1>27. ASSUME NEW t \in Task, FinalizeName(t) PROVE Typed'
    BY <1>27 DEF FinalizeName, Goto, Unlock, LeaveTeardown, AfterTeardown, histVars
<1>28. ASSUME NEW t \in Task, EndRecovery(t) PROVE Typed'
    BY <1>28 DEF EndRecovery, Goto, histVars
<1>29. ASSUME NEW t \in Task, Remove(t) PROVE Typed'
    BY <1>29 DEF Remove, Goto, Unlock, LeaveTeardown, AfterTeardown
<1>30. CASE ToggleAutoReconnect
    BY <1>30 DEF ToggleAutoReconnect, taskVars
<1>31. CASE DismissFailure
    BY <1>31 DEF DismissFailure, taskVars, histVars
<1>32. CASE UNCHANGED vars
    BY <1>32 DEF vars, slotVars, taskVars, histVars
<1>33. QED
    BY <1>1, <1>2, <1>3, <1>4, <1>5, <1>6, <1>7, <1>8, <1>9, <1>10, <1>11, <1>12,
       <1>13, <1>14, <1>15, <1>16, <1>17, <1>18, <1>19, <1>20, <1>21, <1>22,
       <1>23, <1>24, <1>25, <1>26, <1>27, <1>28, <1>29, <1>30, <1>31, <1>32
    DEF Next, ReporterStep, ClientStep, SupervisorStep, Teardown

\* The compare-and-set lets one supervisor drive the slot at a time.
LEMMA SingleStep == Typed /\ Single /\ [Next]_vars => Single'
<1> SUFFICES ASSUME Typed, Single, [Next]_vars PROVE Single'
    OBVIOUS
<1> USE TaskAssumption, BoundAssumption DEF Task, Typed, TypeOK, Single, Driving,
       Purposes, InTeardown
<1>1. ASSUME NEW r \in Reporter, NEW c \in Camera, ReportFault(r, c) PROVE Single'
    BY <1>1 DEF ReportFault, Become, slotVars
<1>2. ASSUME NEW r \in Reporter, BeginSuspend(r) PROVE Single'
    BY <1>2 DEF BeginSuspend, Goto, Strays
<1>3. ASSUME NEW r \in Reporter, DetachAndSpawn(r) PROVE Single'
    BY <1>3 DEF DetachAndSpawn, Goto, Spawn, Handover, histVars
<1>4. ASSUME NEW r \in Reporter, ReportRemoved(r) PROVE Single'
    BY <1>4 DEF ReportRemoved, Goto, Spawn, Handover, histVars
<1>5. ASSUME NEW k \in Client, NEW c \in Camera, Connect(k, c) PROVE Single'
    BY <1>5 DEF Connect, Become, Request, slotVars
<1>6. ASSUME NEW k \in Client, NEW c \in Camera, Disconnect(k, c) PROVE Single'
    BY <1>6 DEF Disconnect, Become, Request, IsRecovering, slotVars
<1>7. ASSUME NEW k \in Client, QueuedDisconnect(k) PROVE Single'
    BY <1>7 DEF QueuedDisconnect, Goto, IsRecovering, histVars
<1>8. ASSUME NEW k \in Client, ConnectLocked(k) PROVE Single'
    BY <1>8 DEF ConnectLocked, Goto, Become, histVars
<1>9. ASSUME NEW k \in Client, ConnectInstall(k) PROVE Single'
    BY <1>9 DEF ConnectInstall, Goto
<1>10. ASSUME NEW k \in Client, ConnectFails(k) PROVE Single'
    BY <1>10 DEF ConnectFails, Goto, Unlock, histVars
<1>11. ASSUME NEW s \in Supervisor, Start(s) PROVE Single'
    BY <1>11 DEF Start, Goto, SupStep
<1>12. ASSUME NEW s \in Supervisor, GiveUp(s) PROVE Single'
    BY <1>12 DEF GiveUp, Goto, SupStep
<1>13. ASSUME NEW s \in Supervisor, Abandon(s) PROVE Single'
    BY <1>13 DEF Abandon, Goto, SupStep, StillRecovering
<1>14. ASSUME NEW s \in Supervisor, Attempt(s) PROVE Single'
    BY <1>14 DEF Attempt, Goto, SupStep, StillRecovering
<1>15. ASSUME NEW s \in Supervisor, Reopen(s) PROVE Single'
    BY <1>15 DEF Reopen, Goto, SupStep, StillRecovering
<1>16. ASSUME NEW s \in Supervisor, OpenFails(s) PROVE Single'
    BY <1>16 DEF OpenFails, Goto, Unlock, SupStep
<1>17. ASSUME NEW s \in Supervisor, CheckOpened(s) PROVE Single'
    BY <1>17 DEF CheckOpened, Goto, Unlock, SupStep, StillRecovering
<1>18. ASSUME NEW s \in Supervisor, BeginInstall(s) PROVE Single'
    BY <1>18 DEF BeginInstall, Goto, Unlock, SupStep
<1>19. ASSUME NEW s \in Supervisor, InstallFails(s) PROVE Single'
    BY <1>19 DEF InstallFails, Goto, Unlock, SupStep
<1>20. ASSUME NEW s \in Supervisor, Install(s) PROVE Single'
    BY <1>20 DEF Install, Goto, SupStep
<1>21. ASSUME NEW s \in Supervisor, FinishInstall(s) PROVE Single'
    BY <1>21 DEF FinishInstall, Goto, Become, Unlock, histVars
<1>22. ASSUME NEW s \in Supervisor, Resume(s) PROVE Single'
    BY <1>22 DEF Resume, Goto, SupStep
<1>23. ASSUME NEW s \in Supervisor, Retry(s) PROVE Single'
    BY <1>23 DEF Retry, Goto, SupStep
<1>24. ASSUME NEW s \in Supervisor, TearDown(s) PROVE Single'
    BY <1>24 DEF TearDown, Become, StillRecovering, slotVars, histVars
<1>25. ASSUME NEW s \in Supervisor, ReleaseFlight(s) PROVE Single'
    BY <1>25 DEF ReleaseFlight, Goto, SupStep
<1>26. ASSUME NEW s \in Supervisor, RecheckOrphan(s) PROVE Single'
    BY <1>26 DEF RecheckOrphan, Goto, Spawn, Handover, histVars
<1>27. ASSUME NEW t \in Task, FinalizeName(t) PROVE Single'
    BY <1>27 DEF FinalizeName, Goto, Unlock, LeaveTeardown, AfterTeardown, histVars
<1>28. ASSUME NEW t \in Task, EndRecovery(t) PROVE Single'
    BY <1>28 DEF EndRecovery, Goto, histVars
<1>29. ASSUME NEW t \in Task, Remove(t) PROVE Single'
    BY <1>29 DEF Remove, Goto, Unlock, LeaveTeardown, AfterTeardown
<1>30. CASE ToggleAutoReconnect
    BY <1>30 DEF ToggleAutoReconnect, taskVars
<1>31. CASE DismissFailure
    BY <1>31 DEF DismissFailure, taskVars, histVars
<1>32. CASE UNCHANGED vars
    BY <1>32 DEF vars, slotVars, taskVars, histVars
<1>33. QED
    BY <1>1, <1>2, <1>3, <1>4, <1>5, <1>6, <1>7, <1>8, <1>9, <1>10, <1>11, <1>12,
       <1>13, <1>14, <1>15, <1>16, <1>17, <1>18, <1>19, <1>20, <1>21, <1>22,
       <1>23, <1>24, <1>25, <1>26, <1>27, <1>28, <1>29, <1>30, <1>31, <1>32
    DEF Next, ReporterStep, ClientStep, SupervisorStep, Teardown

\* Nobody takes camera_connect_lock from a supervisor inside its install.
LEMMA LockedStep == Typed /\ Locked /\ [Next]_vars => Locked'
<1> SUFFICES ASSUME Typed, Locked, [Next]_vars PROVE Locked'
    OBVIOUS
<1> USE TaskAssumption, BoundAssumption DEF Task, Typed, TypeOK, Locked
<1>1. ASSUME NEW r \in Reporter, NEW c \in Camera, ReportFault(r, c) PROVE Locked'
    BY <1>1 DEF ReportFault, Become, slotVars
<1>2. ASSUME NEW r \in Reporter, BeginSuspend(r) PROVE Locked'
    BY <1>2 DEF BeginSuspend, Goto, Strays
<1>3. ASSUME NEW r \in Reporter, DetachAndSpawn(r) PROVE Locked'
    BY <1>3 DEF DetachAndSpawn, Goto, Spawn, Handover, histVars
<1>4. ASSUME NEW r \in Reporter, ReportRemoved(r) PROVE Locked'
    BY <1>4 DEF ReportRemoved, Goto, Spawn, Handover, histVars
<1>5. ASSUME NEW k \in Client, NEW c \in Camera, Connect(k, c) PROVE Locked'
    BY <1>5 DEF Connect, Become, Request, slotVars
<1>6. ASSUME NEW k \in Client, NEW c \in Camera, Disconnect(k, c) PROVE Locked'
    BY <1>6 DEF Disconnect, Become, Request, IsRecovering, slotVars
<1>7. ASSUME NEW k \in Client, QueuedDisconnect(k) PROVE Locked'
    BY <1>7 DEF QueuedDisconnect, Goto, IsRecovering, histVars
<1>8. ASSUME NEW k \in Client, ConnectLocked(k) PROVE Locked'
    BY <1>8 DEF ConnectLocked, Goto, Become, histVars
<1>9. ASSUME NEW k \in Client, ConnectInstall(k) PROVE Locked'
    BY <1>9 DEF ConnectInstall, Goto
<1>10. ASSUME NEW k \in Client, ConnectFails(k) PROVE Locked'
    BY <1>10 DEF ConnectFails, Goto, Unlock, histVars
<1>11. ASSUME NEW s \in Supervisor, Start(s) PROVE Locked'
    BY <1>11 DEF Start, Goto, SupStep
<1>12. ASSUME NEW s \in Supervisor, GiveUp(s) PROVE Locked'
    BY <1>12 DEF GiveUp, Goto, SupStep
<1>13. ASSUME NEW s \in Supervisor, Abandon(s) PROVE Locked'
    BY <1>13 DEF Abandon, Goto, SupStep, StillRecovering
<1>14. ASSUME NEW s \in Supervisor, Attempt(s) PROVE Locked'
    BY <1>14 DEF Attempt, Goto, SupStep, StillRecovering
<1>15. ASSUME NEW s \in Supervisor, Reopen(s) PROVE Locked'
    BY <1>15 DEF Reopen, Goto, SupStep, StillRecovering
<1>16. ASSUME NEW s \in Supervisor, OpenFails(s) PROVE Locked'
    BY <1>16 DEF OpenFails, Goto, Unlock, SupStep
<1>17. ASSUME NEW s \in Supervisor, CheckOpened(s) PROVE Locked'
    BY <1>17 DEF CheckOpened, Goto, Unlock, SupStep, StillRecovering
<1>18. ASSUME NEW s \in Supervisor, BeginInstall(s) PROVE Locked'
    BY <1>18 DEF BeginInstall, Goto, Unlock, SupStep
<1>19. ASSUME NEW s \in Supervisor, InstallFails(s) PROVE Locked'
    BY <1>19 DEF InstallFails, Goto, Unlock, SupStep
<1>20. ASSUME NEW s \in Supervisor, Install(s) PROVE Locked'
    BY <1>20 DEF Install, Goto, SupStep
<1>21. ASSUME NEW s \in Supervisor, FinishInstall(s) PROVE Locked'
    BY <1>21 DEF FinishInstall, Goto, Become, Unlock, histVars
<1>22. ASSUME NEW s \in Supervisor, Resume(s) PROVE Locked'
    BY <1>22 DEF Resume, Goto, SupStep
<1>23. ASSUME NEW s \in Supervisor, Retry(s) PROVE Locked'
    BY <1>23 DEF Retry, Goto, SupStep
<1>24. ASSUME NEW s \in Supervisor, TearDown(s) PROVE Locked'
    BY <1>24 DEF TearDown, Become, StillRecovering, slotVars, histVars
<1>25. ASSUME NEW s \in Supervisor, ReleaseFlight(s) PROVE Locked'
    BY <1>25 DEF ReleaseFlight, Goto, SupStep
<1>26. ASSUME NEW s \in Supervisor, RecheckOrphan(s) PROVE Locked'
    BY <1>26 DEF RecheckOrphan, Goto, Spawn, Handover, histVars
<1>27. ASSUME NEW t \in Task, FinalizeName(t) PROVE Locked'
    BY <1>27 DEF FinalizeName, Goto, Unlock, LeaveTeardown, AfterTeardown, histVars
<1>28. ASSUME NEW t \in Task, EndRecovery(t) PROVE Locked'
    BY <1>28 DEF EndRecovery, Goto, histVars
<1>29. ASSUME NEW t \in Task, Remove(t) PROVE Locked'
    BY <1>29 DEF Remove, Goto, Unlock, LeaveTeardown, AfterTeardown
<1>30. CASE ToggleAutoReconnect
    BY <1>30 DEF ToggleAutoReconnect, taskVars
<1>31. CASE DismissFailure
    BY <1>31 DEF DismissFailure, taskVars, histVars
<1>32. CASE UNCHANGED vars
    BY <1>32 DEF vars, slotVars, taskVars, histVars
<1>33. QED
    BY <1>1, <1>2, <1>3, <1>4, <1>5, <1>6, <1>7, <1>8, <1>9, <1>10, <1>11, <1>12,
       <1>13, <1>14, <1>15, <1>16, <1>17, <1>18, <1>19, <1>20, <1>21, <1>22,
       <1>23, <1>24, <1>25, <1>26, <1>27, <1>28, <1>29, <1>30, <1>31, <1>32
    DEF Next, ReporterStep, ClientStep, SupervisorStep, Teardown

\* A claimed slot keeps a supervisor inside its install, holding the lock.
LEMMA InstallStep == Typed /\ Locked /\ InstallIsAttended /\ [Next]_vars => InstallIsAttended'
<1> SUFFICES ASSUME Typed, Locked, InstallIsAttended, [Next]_vars PROVE
       InstallIsAttended'
    OBVIOUS
<1> USE TaskAssumption, BoundAssumption DEF Task, Typed, TypeOK, Locked,
       InstallIsAttended
<1>1. ASSUME NEW r \in Reporter, NEW c \in Camera, ReportFault(r, c) PROVE InstallIsAttended'
    BY <1>1 DEF ReportFault, Become, slotVars
<1>2. ASSUME NEW r \in Reporter, BeginSuspend(r) PROVE InstallIsAttended'
    BY <1>2 DEF BeginSuspend, Goto, Strays
<1>3. ASSUME NEW r \in Reporter, DetachAndSpawn(r) PROVE InstallIsAttended'
    BY <1>3 DEF DetachAndSpawn, Goto, Spawn, Handover, histVars
<1>4. ASSUME NEW r \in Reporter, ReportRemoved(r) PROVE InstallIsAttended'
    BY <1>4 DEF ReportRemoved, Goto, Spawn, Handover, histVars
<1>5. ASSUME NEW k \in Client, NEW c \in Camera, Connect(k, c) PROVE InstallIsAttended'
    BY <1>5 DEF Connect, Become, Request, slotVars
<1>6. ASSUME NEW k \in Client, NEW c \in Camera, Disconnect(k, c) PROVE InstallIsAttended'
    BY <1>6 DEF Disconnect, Become, Request, IsRecovering, slotVars
<1>7. ASSUME NEW k \in Client, QueuedDisconnect(k) PROVE InstallIsAttended'
    BY <1>7 DEF QueuedDisconnect, Goto, IsRecovering, histVars
<1>8. ASSUME NEW k \in Client, ConnectLocked(k) PROVE InstallIsAttended'
    BY <1>8 DEF ConnectLocked, Goto, Become, histVars
<1>9. ASSUME NEW k \in Client, ConnectInstall(k) PROVE InstallIsAttended'
    BY <1>9 DEF ConnectInstall, Goto
<1>10. ASSUME NEW k \in Client, ConnectFails(k) PROVE InstallIsAttended'
    BY <1>10 DEF ConnectFails, Goto, Unlock, histVars
<1>11. ASSUME NEW s \in Supervisor, Start(s) PROVE InstallIsAttended'
    BY <1>11 DEF Start, Goto, SupStep
<1>12. ASSUME NEW s \in Supervisor, GiveUp(s) PROVE InstallIsAttended'
    BY <1>12 DEF GiveUp, Goto, SupStep
<1>13. ASSUME NEW s \in Supervisor, Abandon(s) PROVE InstallIsAttended'
    BY <1>13 DEF Abandon, Goto, SupStep, StillRecovering
<1>14. ASSUME NEW s \in Supervisor, Attempt(s) PROVE InstallIsAttended'
    BY <1>14 DEF Attempt, Goto, SupStep, StillRecovering
<1>15. ASSUME NEW s \in Supervisor, Reopen(s) PROVE InstallIsAttended'
    BY <1>15 DEF Reopen, Goto, SupStep, StillRecovering
<1>16. ASSUME NEW s \in Supervisor, OpenFails(s) PROVE InstallIsAttended'
    BY <1>16 DEF OpenFails, Goto, Unlock, SupStep
<1>17. ASSUME NEW s \in Supervisor, CheckOpened(s) PROVE InstallIsAttended'
    BY <1>17 DEF CheckOpened, Goto, Unlock, SupStep, StillRecovering
<1>18. ASSUME NEW s \in Supervisor, BeginInstall(s) PROVE InstallIsAttended'
    BY <1>18 DEF BeginInstall, Goto, Unlock, SupStep
<1>19. ASSUME NEW s \in Supervisor, InstallFails(s) PROVE InstallIsAttended'
    BY <1>19 DEF InstallFails, Goto, Unlock, SupStep
<1>20. ASSUME NEW s \in Supervisor, Install(s) PROVE InstallIsAttended'
    BY <1>20 DEF Install, Goto, SupStep
<1>21. ASSUME NEW s \in Supervisor, FinishInstall(s) PROVE InstallIsAttended'
    BY <1>21 DEF FinishInstall, Goto, Become, Unlock, histVars
<1>22. ASSUME NEW s \in Supervisor, Resume(s) PROVE InstallIsAttended'
    BY <1>22 DEF Resume, Goto, SupStep
<1>23. ASSUME NEW s \in Supervisor, Retry(s) PROVE InstallIsAttended'
    BY <1>23 DEF Retry, Goto, SupStep
<1>24. ASSUME NEW s \in Supervisor, TearDown(s) PROVE InstallIsAttended'
    BY <1>24 DEF TearDown, Become, StillRecovering, slotVars, histVars
<1>25. ASSUME NEW s \in Supervisor, ReleaseFlight(s) PROVE InstallIsAttended'
    BY <1>25 DEF ReleaseFlight, Goto, SupStep
<1>26. ASSUME NEW s \in Supervisor, RecheckOrphan(s) PROVE InstallIsAttended'
    BY <1>26 DEF RecheckOrphan, Goto, Spawn, Handover, histVars
<1>27. ASSUME NEW t \in Task, FinalizeName(t) PROVE InstallIsAttended'
    BY <1>27 DEF FinalizeName, Goto, Unlock, LeaveTeardown, AfterTeardown, histVars
<1>28. ASSUME NEW t \in Task, EndRecovery(t) PROVE InstallIsAttended'
    BY <1>28 DEF EndRecovery, Goto, histVars
<1>29. ASSUME NEW t \in Task, Remove(t) PROVE InstallIsAttended'
    BY <1>29 DEF Remove, Goto, Unlock, LeaveTeardown, AfterTeardown
<1>30. CASE ToggleAutoReconnect
    BY <1>30 DEF ToggleAutoReconnect, taskVars
<1>31. CASE DismissFailure
    BY <1>31 DEF DismissFailure, taskVars, histVars
<1>32. CASE UNCHANGED vars
    BY <1>32 DEF vars, slotVars, taskVars, histVars
<1>33. QED
    BY <1>1, <1>2, <1>3, <1>4, <1>5, <1>6, <1>7, <1>8, <1>9, <1>10, <1>11, <1>12,
       <1>13, <1>14, <1>15, <1>16, <1>17, <1>18, <1>19, <1>20, <1>21, <1>22,
       <1>23, <1>24, <1>25, <1>26, <1>27, <1>28, <1>29, <1>30, <1>31, <1>32
    DEF Next, ReporterStep, ClientStep, SupervisorStep, Teardown

\* Recovery is over before the entry goes, or the suspension strayed.
LEMMA SettledStep == Typed /\ Settled /\ [Next]_vars => Settled'
<1> SUFFICES ASSUME Typed, Settled, [Next]_vars PROVE Settled'
    OBVIOUS
<1> USE TaskAssumption, BoundAssumption DEF Task, Typed, TypeOK, Purposes, Settled
<1>1. ASSUME NEW r \in Reporter, NEW c \in Camera, ReportFault(r, c) PROVE Settled'
    BY <1>1 DEF ReportFault, Become, slotVars
<1>2. ASSUME NEW r \in Reporter, BeginSuspend(r) PROVE Settled'
    BY <1>2 DEF BeginSuspend, Goto, Strays
<1>3. ASSUME NEW r \in Reporter, DetachAndSpawn(r) PROVE Settled'
    BY <1>3 DEF DetachAndSpawn, Goto, Spawn, Handover, histVars
<1>4. ASSUME NEW r \in Reporter, ReportRemoved(r) PROVE Settled'
    BY <1>4 DEF ReportRemoved, Goto, Spawn, Handover, histVars
<1>5. ASSUME NEW k \in Client, NEW c \in Camera, Connect(k, c) PROVE Settled'
    BY <1>5 DEF Connect, Become, Request, slotVars
<1>6. ASSUME NEW k \in Client, NEW c \in Camera, Disconnect(k, c) PROVE Settled'
    BY <1>6 DEF Disconnect, Become, Request, IsRecovering, slotVars
<1>7. ASSUME NEW k \in Client, QueuedDisconnect(k) PROVE Settled'
    BY <1>7 DEF QueuedDisconnect, Goto, IsRecovering, histVars
<1>8. ASSUME NEW k \in Client, ConnectLocked(k) PROVE Settled'
    BY <1>8 DEF ConnectLocked, Goto, Become, histVars
<1>9. ASSUME NEW k \in Client, ConnectInstall(k) PROVE Settled'
    BY <1>9 DEF ConnectInstall, Goto
<1>10. ASSUME NEW k \in Client, ConnectFails(k) PROVE Settled'
    BY <1>10 DEF ConnectFails, Goto, Unlock, histVars
<1>11. ASSUME NEW s \in Supervisor, Start(s) PROVE Settled'
    BY <1>11 DEF Start, Goto, SupStep
<1>12. ASSUME NEW s \in Supervisor, GiveUp(s) PROVE Settled'
    BY <1>12 DEF GiveUp, Goto, SupStep
<1>13. ASSUME NEW s \in Supervisor, Abandon(s) PROVE Settled'
    BY <1>13 DEF Abandon, Goto, SupStep, StillRecovering
<1>14. ASSUME NEW s \in Supervisor, Attempt(s) PROVE Settled'
    BY <1>14 DEF Attempt, Goto, SupStep, StillRecovering
<1>15. ASSUME NEW s \in Supervisor, Reopen(s) PROVE Settled'
    BY <1>15 DEF Reopen, Goto, SupStep, StillRecovering
<1>16. ASSUME NEW s \in Supervisor, OpenFails(s) PROVE Settled'
    BY <1>16 DEF OpenFails, Goto, Unlock, SupStep
<1>17. ASSUME NEW s \in Supervisor, CheckOpened(s) PROVE Settled'
    BY <1>17 DEF CheckOpened, Goto, Unlock, SupStep, StillRecovering
<1>18. ASSUME NEW s \in Supervisor, BeginInstall(s) PROVE Settled'
    BY <1>18 DEF BeginInstall, Goto, Unlock, SupStep
<1>19. ASSUME NEW s \in Supervisor, InstallFails(s) PROVE Settled'
    BY <1>19 DEF InstallFails, Goto, Unlock, SupStep
<1>20. ASSUME NEW s \in Supervisor, Install(s) PROVE Settled'
    BY <1>20 DEF Install, Goto, SupStep
<1>21. ASSUME NEW s \in Supervisor, FinishInstall(s) PROVE Settled'
    BY <1>21 DEF FinishInstall, Goto, Become, Unlock, histVars
<1>22. ASSUME NEW s \in Supervisor, Resume(s) PROVE Settled'
    BY <1>22 DEF Resume, Goto, SupStep
<1>23. ASSUME NEW s \in Supervisor, Retry(s) PROVE Settled'
    BY <1>23 DEF Retry, Goto, SupStep
<1>24. ASSUME NEW s \in Supervisor, TearDown(s) PROVE Settled'
    BY <1>24 DEF TearDown, Become, StillRecovering, slotVars, histVars
<1>25. ASSUME NEW s \in Supervisor, ReleaseFlight(s) PROVE Settled'
    BY <1>25 DEF ReleaseFlight, Goto, SupStep
<1>26. ASSUME NEW s \in Supervisor, RecheckOrphan(s) PROVE Settled'
    BY <1>26 DEF RecheckOrphan, Goto, Spawn, Handover, histVars
<1>27. ASSUME NEW t \in Task, FinalizeName(t) PROVE Settled'
    BY <1>27 DEF FinalizeName, Goto, Unlock, LeaveTeardown, AfterTeardown, histVars
<1>28. ASSUME NEW t \in Task, EndRecovery(t) PROVE Settled'
    BY <1>28 DEF EndRecovery, Goto, histVars
<1>29. ASSUME NEW t \in Task, Remove(t) PROVE Settled'
    BY <1>29 DEF Remove, Goto, Unlock, LeaveTeardown, AfterTeardown
<1>30. CASE ToggleAutoReconnect
    BY <1>30 DEF ToggleAutoReconnect, taskVars
<1>31. CASE DismissFailure
    BY <1>31 DEF DismissFailure, taskVars, histVars
<1>32. CASE UNCHANGED vars
    BY <1>32 DEF vars, slotVars, taskVars, histVars
<1>33. QED
    BY <1>1, <1>2, <1>3, <1>4, <1>5, <1>6, <1>7, <1>8, <1>9, <1>10, <1>11, <1>12,
       <1>13, <1>14, <1>15, <1>16, <1>17, <1>18, <1>19, <1>20, <1>21, <1>22,
       <1>23, <1>24, <1>25, <1>26, <1>27, <1>28, <1>29, <1>30, <1>31, <1>32
    DEF Next, ReporterStep, ClientStep, SupervisorStep, Teardown

\* Clearing the flag before the last look loses no suspension.
LEMMA AttendedStep == Typed /\ Single /\ Settled /\ Attended /\ [Next]_vars => Attended'
<1> SUFFICES ASSUME Typed, Single, Settled, Attended, [Next]_vars PROVE Attended'
    OBVIOUS
<1> USE TaskAssumption, BoundAssumption DEF Task, Typed, TypeOK, Single, Driving,
       Settled, Attended
<1>1. ASSUME NEW r \in Reporter, NEW c \in Camera, ReportFault(r, c) PROVE Attended'
    BY <1>1 DEF ReportFault, Become, slotVars
<1>2. ASSUME NEW r \in Reporter, BeginSuspend(r) PROVE Attended'
    BY <1>2 DEF BeginSuspend, Goto, Strays
<1>3. ASSUME NEW r \in Reporter, DetachAndSpawn(r) PROVE Attended'
    BY <1>3 DEF DetachAndSpawn, Goto, Spawn, Handover, histVars
<1>4. ASSUME NEW r \in Reporter, ReportRemoved(r) PROVE Attended'
    BY <1>4 DEF ReportRemoved, Goto, Spawn, Handover, histVars
<1>5. ASSUME NEW k \in Client, NEW c \in Camera, Connect(k, c) PROVE Attended'
    BY <1>5 DEF Connect, Become, Request, slotVars
<1>6. ASSUME NEW k \in Client, NEW c \in Camera, Disconnect(k, c) PROVE Attended'
    BY <1>6 DEF Disconnect, Become, Request, IsRecovering, slotVars
<1>7. ASSUME NEW k \in Client, QueuedDisconnect(k) PROVE Attended'
    BY <1>7 DEF QueuedDisconnect, Goto, IsRecovering, histVars
<1>8. ASSUME NEW k \in Client, ConnectLocked(k) PROVE Attended'
    BY <1>8 DEF ConnectLocked, Goto, Become, histVars
<1>9. ASSUME NEW k \in Client, ConnectInstall(k) PROVE Attended'
    BY <1>9 DEF ConnectInstall, Goto
<1>10. ASSUME NEW k \in Client, ConnectFails(k) PROVE Attended'
    BY <1>10 DEF ConnectFails, Goto, Unlock, histVars
<1>11. ASSUME NEW s \in Supervisor, Start(s) PROVE Attended'
    BY <1>11 DEF Start, Goto, SupStep
<1>12. ASSUME NEW s \in Supervisor, GiveUp(s) PROVE Attended'
    BY <1>12 DEF GiveUp, Goto, SupStep
<1>13. ASSUME NEW s \in Supervisor, Abandon(s) PROVE Attended'
    BY <1>13 DEF Abandon, Goto, SupStep, StillRecovering
<1>14. ASSUME NEW s \in Supervisor, Attempt(s) PROVE Attended'
    BY <1>14 DEF Attempt, Goto, SupStep, StillRecovering
<1>15. ASSUME NEW s \in Supervisor, Reopen(s) PROVE Attended'
    BY <1>15 DEF Reopen, Goto, SupStep, StillRecovering
<1>16. ASSUME NEW s \in Supervisor, OpenFails(s) PROVE Attended'
    BY <1>16 DEF OpenFails, Goto, Unlock, SupStep
<1>17. ASSUME NEW s \in Supervisor, CheckOpened(s) PROVE Attended'
    BY <1>17 DEF CheckOpened, Goto, Unlock, SupStep, StillRecovering
<1>18. ASSUME NEW s \in Supervisor, BeginInstall(s) PROVE Attended'
    BY <1>18 DEF BeginInstall, Goto, Unlock, SupStep
<1>19. ASSUME NEW s \in Supervisor, InstallFails(s) PROVE Attended'
    BY <1>19 DEF InstallFails, Goto, Unlock, SupStep
<1>20. ASSUME NEW s \in Supervisor, Install(s) PROVE Attended'
    BY <1>20 DEF Install, Goto, SupStep
<1>21. ASSUME NEW s \in Supervisor, FinishInstall(s) PROVE Attended'
    BY <1>21 DEF FinishInstall, Goto, Become, Unlock, histVars
<1>22. ASSUME NEW s \in Supervisor, Resume(s) PROVE Attended'
    BY <1>22 DEF Resume, Goto, SupStep
<1>23. ASSUME NEW s \in Supervisor, Retry(s) PROVE Attended'
    BY <1>23 DEF Retry, Goto, SupStep
<1>24. ASSUME NEW s \in Supervisor, TearDown(s) PROVE Attended'
    BY <1>24 DEF TearDown, Become, StillRecovering, slotVars, histVars
<1>25. ASSUME NEW s \in Supervisor, ReleaseFlight(s) PROVE Attended'
    BY <1>25 DEF ReleaseFlight, Goto, SupStep
<1>26. ASSUME NEW s \in Supervisor, RecheckOrphan(s) PROVE Attended'
    BY <1>26 DEF RecheckOrphan, Goto, Spawn, Handover, histVars
<1>27. ASSUME NEW t \in Task, FinalizeName(t) PROVE Attended'
    BY <1>27 DEF FinalizeName, Goto, Unlock, LeaveTeardown, AfterTeardown, histVars
<1>28. ASSUME NEW t \in Task, EndRecovery(t) PROVE Attended'
    BY <1>28 DEF EndRecovery, Goto, histVars
<1>29. ASSUME NEW t \in Task, Remove(t) PROVE Attended'
    BY <1>29 DEF Remove, Goto, Unlock, LeaveTeardown, AfterTeardown
<1>30. CASE ToggleAutoReconnect
    BY <1>30 DEF ToggleAutoReconnect, taskVars
<1>31. CASE DismissFailure
    BY <1>31 DEF DismissFailure, taskVars, histVars
<1>32. CASE UNCHANGED vars
    BY <1>32 DEF vars, slotVars, taskVars, histVars
<1>33. QED
    BY <1>1, <1>2, <1>3, <1>4, <1>5, <1>6, <1>7, <1>8, <1>9, <1>10, <1>11, <1>12,
       <1>13, <1>14, <1>15, <1>16, <1>17, <1>18, <1>19, <1>20, <1>21, <1>22,
       <1>23, <1>24, <1>25, <1>26, <1>27, <1>28, <1>29, <1>30, <1>31, <1>32
    DEF Next, ReporterStep, ClientStep, SupervisorStep, Teardown

\* The ways out of a recovery take the notice down first.
LEMMA QuietStep == Typed /\ Single /\ Quiet /\ [Next]_vars => Quiet'
<1> SUFFICES ASSUME Typed, Single, Quiet, [Next]_vars PROVE Quiet'
    OBVIOUS
<1> USE TaskAssumption, BoundAssumption DEF Task, Typed, TypeOK, Purposes, Single,
       Driving, Quiet, InTeardown
<1>1. ASSUME NEW r \in Reporter, NEW c \in Camera, ReportFault(r, c) PROVE Quiet'
    BY <1>1 DEF ReportFault, Become, slotVars
<1>2. ASSUME NEW r \in Reporter, BeginSuspend(r) PROVE Quiet'
    BY <1>2 DEF BeginSuspend, Goto, Strays
<1>3. ASSUME NEW r \in Reporter, DetachAndSpawn(r) PROVE Quiet'
    BY <1>3 DEF DetachAndSpawn, Goto, Spawn, Handover, histVars
<1>4. ASSUME NEW r \in Reporter, ReportRemoved(r) PROVE Quiet'
    BY <1>4 DEF ReportRemoved, Goto, Spawn, Handover, histVars
<1>5. ASSUME NEW k \in Client, NEW c \in Camera, Connect(k, c) PROVE Quiet'
    BY <1>5 DEF Connect, Become, Request, slotVars
<1>6. ASSUME NEW k \in Client, NEW c \in Camera, Disconnect(k, c) PROVE Quiet'
    BY <1>6 DEF Disconnect, Become, Request, IsRecovering, slotVars
<1>7. ASSUME NEW k \in Client, QueuedDisconnect(k) PROVE Quiet'
    BY <1>7 DEF QueuedDisconnect, Goto, IsRecovering, histVars
<1>8. ASSUME NEW k \in Client, ConnectLocked(k) PROVE Quiet'
    BY <1>8 DEF ConnectLocked, Goto, Become, histVars
<1>9. ASSUME NEW k \in Client, ConnectInstall(k) PROVE Quiet'
    BY <1>9 DEF ConnectInstall, Goto
<1>10. ASSUME NEW k \in Client, ConnectFails(k) PROVE Quiet'
    BY <1>10 DEF ConnectFails, Goto, Unlock, histVars
<1>11. ASSUME NEW s \in Supervisor, Start(s) PROVE Quiet'
    BY <1>11 DEF Start, Goto, SupStep
<1>12. ASSUME NEW s \in Supervisor, GiveUp(s) PROVE Quiet'
    BY <1>12 DEF GiveUp, Goto, SupStep
<1>13. ASSUME NEW s \in Supervisor, Abandon(s) PROVE Quiet'
    BY <1>13 DEF Abandon, Goto, SupStep, StillRecovering
<1>14. ASSUME NEW s \in Supervisor, Attempt(s) PROVE Quiet'
    BY <1>14 DEF Attempt, Goto, SupStep, StillRecovering
<1>15. ASSUME NEW s \in Supervisor, Reopen(s) PROVE Quiet'
    BY <1>15 DEF Reopen, Goto, SupStep, StillRecovering
<1>16. ASSUME NEW s \in Supervisor, OpenFails(s) PROVE Quiet'
    BY <1>16 DEF OpenFails, Goto, Unlock, SupStep
<1>17. ASSUME NEW s \in Supervisor, CheckOpened(s) PROVE Quiet'
    BY <1>17 DEF CheckOpened, Goto, Unlock, SupStep, StillRecovering
<1>18. ASSUME NEW s \in Supervisor, BeginInstall(s) PROVE Quiet'
    BY <1>18 DEF BeginInstall, Goto, Unlock, SupStep
<1>19. ASSUME NEW s \in Supervisor, InstallFails(s) PROVE Quiet'
    BY <1>19 DEF InstallFails, Goto, Unlock, SupStep
<1>20. ASSUME NEW s \in Supervisor, Install(s) PROVE Quiet'
    BY <1>20 DEF Install, Goto, SupStep
<1>21. ASSUME NEW s \in Supervisor, FinishInstall(s) PROVE Quiet'
    BY <1>21 DEF FinishInstall, Goto, Become, Unlock, histVars
<1>22. ASSUME NEW s \in Supervisor, Resume(s) PROVE Quiet'
    BY <1>22 DEF Resume, Goto, SupStep
<1>23. ASSUME NEW s \in Supervisor, Retry(s) PROVE Quiet'
    BY <1>23 DEF Retry, Goto, SupStep
<1>24. ASSUME NEW s \in Supervisor, TearDown(s) PROVE Quiet'
    BY <1>24 DEF TearDown, Become, StillRecovering, slotVars, histVars
<1>25. ASSUME NEW s \in Supervisor, ReleaseFlight(s) PROVE Quiet'
    BY <1>25 DEF ReleaseFlight, Goto, SupStep
<1>26. ASSUME NEW s \in Supervisor, RecheckOrphan(s) PROVE Quiet'
    BY <1>26 DEF RecheckOrphan, Goto, Spawn, Handover, histVars
<1>27. ASSUME NEW t \in Task, FinalizeName(t) PROVE Quiet'
    BY <1>27 DEF FinalizeName, Goto, Unlock, LeaveTeardown, AfterTeardown, histVars
<1>28. ASSUME NEW t \in Task, EndRecovery(t) PROVE Quiet'
    BY <1>28 DEF EndRecovery, Goto, histVars
<1>29. ASSUME NEW t \in Task, Remove(t) PROVE Quiet'
    BY <1>29 DEF Remove, Goto, Unlock, LeaveTeardown, AfterTeardown
<1>30. CASE ToggleAutoReconnect
    BY <1>30 DEF ToggleAutoReconnect, taskVars
<1>31. CASE DismissFailure
    BY <1>31 DEF DismissFailure, taskVars, histVars
<1>32. CASE UNCHANGED vars
    BY <1>32 DEF vars, slotVars, taskVars, histVars
<1>33. QED
    BY <1>1, <1>2, <1>3, <1>4, <1>5, <1>6, <1>7, <1>8, <1>9, <1>10, <1>11, <1>12,
       <1>13, <1>14, <1>15, <1>16, <1>17, <1>18, <1>19, <1>20, <1>21, <1>22,
       <1>23, <1>24, <1>25, <1>26, <1>27, <1>28, <1>29, <1>30, <1>31, <1>32
    DEF Next, ReporterStep, ClientStep, SupervisorStep, Teardown

\* A notice is posted by the supervisor in flight only.
LEMMA NoticeStep == Typed /\ Single /\ Quiet /\ NoticeHasASupervisor /\ [Next]_vars => NoticeHasASupervisor'
<1> SUFFICES ASSUME Typed, Single, Quiet, NoticeHasASupervisor, [Next]_vars PROVE
       NoticeHasASupervisor'
    OBVIOUS
<1> USE TaskAssumption, BoundAssumption DEF Task, Typed, TypeOK, Single, Driving,
       Quiet, NoticeHasASupervisor
<1>1. ASSUME NEW r \in Reporter, NEW c \in Camera, ReportFault(r, c) PROVE NoticeHasASupervisor'
    BY <1>1 DEF ReportFault, Become, slotVars
<1>2. ASSUME NEW r \in Reporter, BeginSuspend(r) PROVE NoticeHasASupervisor'
    BY <1>2 DEF BeginSuspend, Goto, Strays
<1>3. ASSUME NEW r \in Reporter, DetachAndSpawn(r) PROVE NoticeHasASupervisor'
    BY <1>3 DEF DetachAndSpawn, Goto, Spawn, Handover, histVars
<1>4. ASSUME NEW r \in Reporter, ReportRemoved(r) PROVE NoticeHasASupervisor'
    BY <1>4 DEF ReportRemoved, Goto, Spawn, Handover, histVars
<1>5. ASSUME NEW k \in Client, NEW c \in Camera, Connect(k, c) PROVE NoticeHasASupervisor'
    BY <1>5 DEF Connect, Become, Request, slotVars
<1>6. ASSUME NEW k \in Client, NEW c \in Camera, Disconnect(k, c) PROVE NoticeHasASupervisor'
    BY <1>6 DEF Disconnect, Become, Request, IsRecovering, slotVars
<1>7. ASSUME NEW k \in Client, QueuedDisconnect(k) PROVE NoticeHasASupervisor'
    BY <1>7 DEF QueuedDisconnect, Goto, IsRecovering, histVars
<1>8. ASSUME NEW k \in Client, ConnectLocked(k) PROVE NoticeHasASupervisor'
    BY <1>8 DEF ConnectLocked, Goto, Become, histVars
<1>9. ASSUME NEW k \in Client, ConnectInstall(k) PROVE NoticeHasASupervisor'
    BY <1>9 DEF ConnectInstall, Goto
<1>10. ASSUME NEW k \in Client, ConnectFails(k) PROVE NoticeHasASupervisor'
    BY <1>10 DEF ConnectFails, Goto, Unlock, histVars
<1>11. ASSUME NEW s \in Supervisor, Start(s) PROVE NoticeHasASupervisor'
    BY <1>11 DEF Start, Goto, SupStep
<1>12. ASSUME NEW s \in Supervisor, GiveUp(s) PROVE NoticeHasASupervisor'
    BY <1>12 DEF GiveUp, Goto, SupStep
<1>13. ASSUME NEW s \in Supervisor, Abandon(s) PROVE NoticeHasASupervisor'
    BY <1>13 DEF Abandon, Goto, SupStep, StillRecovering
<1>14. ASSUME NEW s \in Supervisor, Attempt(s) PROVE NoticeHasASupervisor'
    BY <1>14 DEF Attempt, Goto, SupStep, StillRecovering
<1>15. ASSUME NEW s \in Supervisor, Reopen(s) PROVE NoticeHasASupervisor'
    BY <1>15 DEF Reopen, Goto, SupStep, StillRecovering
<1>16. ASSUME NEW s \in Supervisor, OpenFails(s) PROVE NoticeHasASupervisor'
    BY <1>16 DEF OpenFails, Goto, Unlock, SupStep
<1>17. ASSUME NEW s \in Supervisor, CheckOpened(s) PROVE NoticeHasASupervisor'
    BY <1>17 DEF CheckOpened, Goto, Unlock, SupStep, StillRecovering
<1>18. ASSUME NEW s \in Supervisor, BeginInstall(s) PROVE NoticeHasASupervisor'
    BY <1>18 DEF BeginInstall, Goto, Unlock, SupStep
<1>19. ASSUME NEW s \in Supervisor, InstallFails(s) PROVE NoticeHasASupervisor'
    BY <1>19 DEF InstallFails, Goto, Unlock, SupStep
<1>20. ASSUME NEW s \in Supervisor, Install(s) PROVE NoticeHasASupervisor'
    BY <1>20 DEF Install, Goto, SupStep
<1>21. ASSUME NEW s \in Supervisor, FinishInstall(s) PROVE NoticeHasASupervisor'
    BY <1>21 DEF FinishInstall, Goto, Become, Unlock, histVars
<1>22. ASSUME NEW s \in Supervisor, Resume(s) PROVE NoticeHasASupervisor'
    BY <1>22 DEF Resume, Goto, SupStep
<1>23. ASSUME NEW s \in Supervisor, Retry(s) PROVE NoticeHasASupervisor'
    BY <1>23 DEF Retry, Goto, SupStep
<1>24. ASSUME NEW s \in Supervisor, TearDown(s) PROVE NoticeHasASupervisor'
    BY <1>24 DEF TearDown, Become, StillRecovering, slotVars, histVars
<1>25. ASSUME NEW s \in Supervisor, ReleaseFlight(s) PROVE NoticeHasASupervisor'
    BY <1>25 DEF ReleaseFlight, Goto, SupStep
<1>26. ASSUME NEW s \in Supervisor, RecheckOrphan(s) PROVE NoticeHasASupervisor'
    BY <1>26 DEF RecheckOrphan, Goto, Spawn, Handover, histVars
<1>27. ASSUME NEW t \in Task, FinalizeName(t) PROVE NoticeHasASupervisor'
    BY <1>27 DEF FinalizeName, Goto, Unlock, LeaveTeardown, AfterTeardown, histVars
<1>28. ASSUME NEW t \in Task, EndRecovery(t) PROVE NoticeHasASupervisor'
    BY <1>28 DEF EndRecovery, Goto, histVars
<1>29. ASSUME NEW t \in Task, Remove(t) PROVE NoticeHasASupervisor'
    BY <1>29 DEF Remove, Goto, Unlock, LeaveTeardown, AfterTeardown
<1>30. CASE ToggleAutoReconnect
    BY <1>30 DEF ToggleAutoReconnect, taskVars
<1>31. CASE DismissFailure
    BY <1>31 DEF DismissFailure, taskVars, histVars
<1>32. CASE UNCHANGED vars
    BY <1>32 DEF vars, slotVars, taskVars, histVars
<1>33. QED
    BY <1>1, <1>2, <1>3, <1>4, <1>5, <1>6, <1>7, <1>8, <1>9, <1>10, <1>11, <1>12,
       <1>13, <1>14, <1>15, <1>16, <1>17, <1>18, <1>19, <1>20, <1>21, <1>22,
       <1>23, <1>24, <1>25, <1>26, <1>27, <1>28, <1>29, <1>30, <1>31, <1>32
    DEF Next, ReporterStep, ClientStep, SupervisorStep, Teardown

\* What passed the check after the open is still wanted when installed.
LEMMA WantedStep == Typed /\ Single /\ Locked /\ Settled /\ DisconnectIsFinal /\ Wanted /\ [Next]_vars => Wanted'
<1> SUFFICES ASSUME Typed, Single, Locked, Settled, DisconnectIsFinal, Wanted,
       [Next]_vars PROVE Wanted'
    OBVIOUS
<1> USE TaskAssumption, BoundAssumption DEF Task, Typed, TypeOK, Purposes, Single,
       Driving, Locked, Settled, Wanted, DisconnectIsFinal
<1>1. ASSUME NEW r \in Reporter, NEW c \in Camera, ReportFault(r, c) PROVE Wanted'
    BY <1>1 DEF ReportFault, Become, slotVars
<1>2. ASSUME NEW r \in Reporter, BeginSuspend(r) PROVE Wanted'
    BY <1>2 DEF BeginSuspend, Goto, Strays
<1>3. ASSUME NEW r \in Reporter, DetachAndSpawn(r) PROVE Wanted'
    BY <1>3 DEF DetachAndSpawn, Goto, Spawn, Handover, histVars
<1>4. ASSUME NEW r \in Reporter, ReportRemoved(r) PROVE Wanted'
    BY <1>4 DEF ReportRemoved, Goto, Spawn, Handover, histVars
<1>5. ASSUME NEW k \in Client, NEW c \in Camera, Connect(k, c) PROVE Wanted'
    BY <1>5 DEF Connect, Become, Request, slotVars
<1>6. ASSUME NEW k \in Client, NEW c \in Camera, Disconnect(k, c) PROVE Wanted'
    BY <1>6 DEF Disconnect, Become, Request, IsRecovering, slotVars
<1>7. ASSUME NEW k \in Client, QueuedDisconnect(k) PROVE Wanted'
    BY <1>7 DEF QueuedDisconnect, Goto, IsRecovering, histVars
<1>8. ASSUME NEW k \in Client, ConnectLocked(k) PROVE Wanted'
    BY <1>8 DEF ConnectLocked, Goto, Become, histVars
<1>9. ASSUME NEW k \in Client, ConnectInstall(k) PROVE Wanted'
    BY <1>9 DEF ConnectInstall, Goto
<1>10. ASSUME NEW k \in Client, ConnectFails(k) PROVE Wanted'
    BY <1>10 DEF ConnectFails, Goto, Unlock, histVars
<1>11. ASSUME NEW s \in Supervisor, Start(s) PROVE Wanted'
    BY <1>11 DEF Start, Goto, SupStep
<1>12. ASSUME NEW s \in Supervisor, GiveUp(s) PROVE Wanted'
    BY <1>12 DEF GiveUp, Goto, SupStep
<1>13. ASSUME NEW s \in Supervisor, Abandon(s) PROVE Wanted'
    BY <1>13 DEF Abandon, Goto, SupStep, StillRecovering
<1>14. ASSUME NEW s \in Supervisor, Attempt(s) PROVE Wanted'
    BY <1>14 DEF Attempt, Goto, SupStep, StillRecovering
<1>15. ASSUME NEW s \in Supervisor, Reopen(s) PROVE Wanted'
    BY <1>15 DEF Reopen, Goto, SupStep, StillRecovering
<1>16. ASSUME NEW s \in Supervisor, OpenFails(s) PROVE Wanted'
    BY <1>16 DEF OpenFails, Goto, Unlock, SupStep
<1>17. ASSUME NEW s \in Supervisor, CheckOpened(s) PROVE Wanted'
    BY <1>17 DEF CheckOpened, Goto, Unlock, SupStep, StillRecovering
<1>18. ASSUME NEW s \in Supervisor, BeginInstall(s) PROVE Wanted'
    BY <1>18 DEF BeginInstall, Goto, Unlock, SupStep
<1>19. ASSUME NEW s \in Supervisor, InstallFails(s) PROVE Wanted'
    BY <1>19 DEF InstallFails, Goto, Unlock, SupStep
<1>20. ASSUME NEW s \in Supervisor, Install(s) PROVE Wanted'
    BY <1>20 DEF Install, Goto, SupStep
<1>21. ASSUME NEW s \in Supervisor, FinishInstall(s) PROVE Wanted'
    BY <1>21 DEF FinishInstall, Goto, Become, Unlock, histVars
<1>22. ASSUME NEW s \in Supervisor, Resume(s) PROVE Wanted'
    BY <1>22 DEF Resume, Goto, SupStep
<1>23. ASSUME NEW s \in Supervisor, Retry(s) PROVE Wanted'
    BY <1>23 DEF Retry, Goto, SupStep
<1>24. ASSUME NEW s \in Supervisor, TearDown(s) PROVE Wanted'
    BY <1>24 DEF TearDown, Become, StillRecovering, slotVars, histVars
<1>25. ASSUME NEW s \in Supervisor, ReleaseFlight(s) PROVE Wanted'
    BY <1>25 DEF ReleaseFlight, Goto, SupStep
<1>26. ASSUME NEW s \in Supervisor, RecheckOrphan(s) PROVE Wanted'
    BY <1>26 DEF RecheckOrphan, Goto, Spawn, Handover, histVars
<1>27. ASSUME NEW t \in Task, FinalizeName(t) PROVE Wanted'
    BY <1>27 DEF FinalizeName, Goto, Unlock, LeaveTeardown, AfterTeardown, histVars
<1>28. ASSUME NEW t \in Task, EndRecovery(t) PROVE Wanted'
    BY <1>28 DEF EndRecovery, Goto, histVars
<1>29. ASSUME NEW t \in Task, Remove(t) PROVE Wanted'
    BY <1>29 DEF Remove, Goto, Unlock, LeaveTeardown, AfterTeardown
<1>30. CASE ToggleAutoReconnect
    BY <1>30 DEF ToggleAutoReconnect, taskVars
<1>31. CASE DismissFailure
    BY <1>31 DEF DismissFailure, taskVars, histVars
<1>32. CASE UNCHANGED vars
    BY <1>32 DEF vars, slotVars, taskVars, histVars
<1>33. QED
    BY <1>1, <1>2, <1>3, <1>4, <1>5, <1>6, <1>7, <1>8, <1>9, <1>10, <1>11, <1>12,
       <1>13, <1>14, <1>15, <1>16, <1>17, <1>18, <1>19, <1>20, <1>21, <1>22,
       <1>23, <1>24, <1>25, <1>26, <1>27, <1>28, <1>29, <1>30, <1>31, <1>32
    DEF Next, ReporterStep, ClientStep, SupervisorStep, Teardown

\* A camera sent away comes back only into the hands of the supervisor
\* that will find its recovery ended.
LEMMA FinalStep == Typed /\ Single /\ Locked /\ Settled /\ Wanted /\ DisconnectIsFinal /\ [Next]_vars => DisconnectIsFinal'
<1> SUFFICES ASSUME Typed, Single, Locked, Settled, Wanted, DisconnectIsFinal,
       [Next]_vars PROVE DisconnectIsFinal'
    OBVIOUS
<1> USE TaskAssumption, BoundAssumption DEF Task, Typed, TypeOK, Purposes,
       InTeardown, Single, Driving, Locked, Settled, Wanted, DisconnectIsFinal
<1>1. ASSUME NEW r \in Reporter, NEW c \in Camera, ReportFault(r, c) PROVE DisconnectIsFinal'
    BY <1>1 DEF ReportFault, Become, slotVars
<1>2. ASSUME NEW r \in Reporter, BeginSuspend(r) PROVE DisconnectIsFinal'
    BY <1>2 DEF BeginSuspend, Goto, Strays
<1>3. ASSUME NEW r \in Reporter, DetachAndSpawn(r) PROVE DisconnectIsFinal'
    BY <1>3 DEF DetachAndSpawn, Goto, Spawn, Handover, histVars
<1>4. ASSUME NEW r \in Reporter, ReportRemoved(r) PROVE DisconnectIsFinal'
    BY <1>4 DEF ReportRemoved, Goto, Spawn, Handover, histVars
<1>5. ASSUME NEW k \in Client, NEW c \in Camera, Connect(k, c) PROVE DisconnectIsFinal'
    BY <1>5 DEF Connect, Become, Request, slotVars
<1>6. ASSUME NEW k \in Client, NEW c \in Camera, Disconnect(k, c) PROVE DisconnectIsFinal'
    BY <1>6 DEF Disconnect, Become, Request, IsRecovering, slotVars
<1>7. ASSUME NEW k \in Client, QueuedDisconnect(k) PROVE DisconnectIsFinal'
    BY <1>7 DEF QueuedDisconnect, Goto, IsRecovering, histVars
<1>8. ASSUME NEW k \in Client, ConnectLocked(k) PROVE DisconnectIsFinal'
    BY <1>8 DEF ConnectLocked, Goto, Become, histVars
<1>9. ASSUME NEW k \in Client, ConnectInstall(k) PROVE DisconnectIsFinal'
    BY <1>9 DEF ConnectInstall, Goto
<1>10. ASSUME NEW k \in Client, ConnectFails(k) PROVE DisconnectIsFinal'
    BY <1>10 DEF ConnectFails, Goto, Unlock, histVars
<1>11. ASSUME NEW s \in Supervisor, Start(s) PROVE DisconnectIsFinal'
    BY <1>11 DEF Start, Goto, SupStep
<1>12. ASSUME NEW s \in Supervisor, GiveUp(s) PROVE DisconnectIsFinal'
    BY <1>12 DEF GiveUp, Goto, SupStep
<1>13. ASSUME NEW s \in Supervisor, Abandon(s) PROVE DisconnectIsFinal'
    BY <1>13 DEF Abandon, Goto, SupStep, StillRecovering
<1>14. ASSUME NEW s \in Supervisor, Attempt(s) PROVE DisconnectIsFinal'
    BY <1>14 DEF Attempt, Goto, SupStep, StillRecovering
<1>15. ASSUME NEW s \in Supervisor, Reopen(s) PROVE DisconnectIsFinal'
    BY <1>15 DEF Reopen, Goto, SupStep, StillRecovering
<1>16. ASSUME NEW s \in Supervisor, OpenFails(s) PROVE DisconnectIsFinal'
    BY <1>16 DEF OpenFails, Goto, Unlock, SupStep
<1>17. ASSUME NEW s \in Supervisor, CheckOpened(s) PROVE DisconnectIsFinal'
    BY <1>17 DEF CheckOpened, Goto, Unlock, SupStep, StillRecovering
<1>18. ASSUME NEW s \in Supervisor, BeginInstall(s) PROVE DisconnectIsFinal'
    BY <1>18 DEF BeginInstall, Goto, Unlock, SupStep
<1>19. ASSUME NEW s \in Supervisor, InstallFails(s) PROVE DisconnectIsFinal'
    BY <1>19 DEF InstallFails, Goto, Unlock, SupStep
<1>20. ASSUME NEW s \in Supervisor, Install(s) PROVE DisconnectIsFinal'
    BY <1>20 DEF Install, Goto, SupStep
<1>21. ASSUME NEW s \in Supervisor, FinishInstall(s) PROVE DisconnectIsFinal'
    BY <1>21 DEF FinishInstall, Goto, Become, Unlock, histVars
<1>22. ASSUME NEW s \in Supervisor, Resume(s) PROVE DisconnectIsFinal'
    BY <1>22 DEF Resume, Goto, SupStep
<1>23. ASSUME NEW s \in Supervisor, Retry(s) PROVE DisconnectIsFinal'
    BY <1>23 DEF Retry, Goto, SupStep
<1>24. ASSUME NEW s \in Supervisor, TearDown(s) PROVE DisconnectIsFinal'
    BY <1>24 DEF TearDown, Become, StillRecovering, slotVars, histVars
<1>25. ASSUME NEW s \in Supervisor, ReleaseFlight(s) PROVE DisconnectIsFinal'
    BY <1>25 DEF ReleaseFlight, Goto, SupStep
<1>26. ASSUME NEW s \in Supervisor, RecheckOrphan(s) PROVE DisconnectIsFinal'
    BY <1>26 DEF RecheckOrphan, Goto, Spawn, Handover, histVars
<1>27. ASSUME NEW t \in Task, FinalizeName(t) PROVE DisconnectIsFinal'
    BY <1>27 DEF FinalizeName, Goto, Unlock, LeaveTeardown, AfterTeardown, histVars
<1>28. ASSUME NEW t \in Task, EndRecovery(t) PROVE DisconnectIsFinal'
    BY <1>28 DEF EndRecovery, Goto, histVars
<1>29. ASSUME NEW t \in Task, Remove(t) PROVE DisconnectIsFinal'
    BY <1>29 DEF Remove, Goto, Unlock, LeaveTeardown, AfterTeardown
<1>30. CASE ToggleAutoReconnect
    BY <1>30 DEF ToggleAutoReconnect, taskVars
<1>31. CASE DismissFailure
    BY <1>31 DEF DismissFailure, taskVars, histVars
<1>32. CASE UNCHANGED vars
    BY <1>32 DEF vars, slotVars, taskVars, histVars
<1>33. QED
    BY <1>1, <1>2, <1>3, <1>4, <1>5, <1>6, <1>7, <1>8, <1>9, <1>10, <1>11, <1>12,
       <1>13, <1>14, <1>15, <1>16, <1>17, <1>18, <1>19, <1>20, <1>21, <1>22,
       <1>23, <1>24, <1>25, <1>26, <1>27, <1>28, <1>29, <1>30, <1>31, <1>32
    DEF Next, ReporterStep, ClientStep, SupervisorStep, Teardown

-----------------------------------------------------------------------------
(* The invariant, and what it implies.                                     *)

Inv ==
    /\ Typed /\ Single /\ Locked /\ InstallIsAttended /\ Settled
    /\ Attended /\ Quiet /\ NoticeHasASupervisor /\ Wanted /\ DisconnectIsFinal

\* Nothing is recovering, held or sent away at the start.
LEMMA InvInit == Init => Inv
<1> SUFFICES ASSUME Init PROVE Inv
    OBVIOUS
<1> USE TaskAssumption, BoundAssumption DEF Init, Task
<1>1. Typed
    <2>1. pc \in [Task -> Places] /\ cause \in [Task -> Causes]
        BY DEF Causes, Places
    <2>2. cam \in [Task -> Camera \cup {NoCamera}] /\ want \in [Task -> Camera \cup {NoCamera}]
        BY DEF Task
    <2>3. faults \in 0 .. MaxFaults /\ requests \in 0 .. MaxRequests /\ attempts \in 0 .. MaxAttempts
        OBVIOUS
    <2>4. TypeOK
        BY <2>1, <2>2, <2>3 DEF TypeOK, Recoveries
    <2>5. Purposes
        BY DEF Purposes, InTeardown
    <2>6. QED
        BY <2>4, <2>5 DEF Typed
<1>2. Single /\ Locked /\ Quiet
    BY DEF Single, Driving, Locked, Quiet, InTeardown
<1>3. InstallIsAttended /\ Settled /\ Attended /\ NoticeHasASupervisor
    BY DEF InstallIsAttended, Settled, Attended, NoticeHasASupervisor
<1>4. Wanted /\ DisconnectIsFinal
    BY DEF Wanted, DisconnectIsFinal
<1>5. QED
    BY <1>1, <1>2, <1>3, <1>4 DEF Inv

\* The layers together are inductive.
THEOREM Invariance == Spec => []Inv
<1>1. Init => Inv
    BY InvInit
<1>2. Inv /\ [Next]_vars => Inv'
    BY TypedStep, SingleStep, LockedStep, InstallStep, SettledStep, AttendedStep,
       QuietStep, NoticeStep, WantedStep, FinalStep DEF Inv
<1>3. QED
    BY <1>1, <1>2, PTL DEF Spec

\* Every variable keeps its type, and the budget its bound.
THEOREM TypeCorrect == Spec => []TypeOK
<1>1. Inv => TypeOK
    BY DEF Inv, Typed
<1>2. QED
    BY <1>1, Invariance, PTL

\* reconnect.rs:109, the single-flight guard: no two supervisors drive a slot.
THEOREM OneSupervisorAtATime == Spec => []OneSupervisor
<1>1. Inv => OneSupervisor
    BY DEF Inv, Single, Driving, OneSupervisor
<1>2. QED
    BY <1>1, Invariance, PTL

\* camera_slot.rs:317-350: a claim on the slot never outlives its install.
THEOREM InstallsAreAttended == Spec => []InstallIsAttended
<1>1. Inv => InstallIsAttended
    BY DEF Inv
<1>2. QED
    BY <1>1, Invariance, PTL

\* reconnect.rs:155-171: clearing the flag before the last look leaves no
\* suspended camera without somebody to bring it back.
THEOREM SuspensionsAreAttended == Spec => []SuspensionIsAttended
<1>1. Inv => SuspensionIsAttended
    BY DEF Inv, Attended, SuspensionIsAttended
<1>2. QED
    BY <1>1, Invariance, PTL

\* recovery.rs:247-290: a reopen never undoes a Disconnect.
THEOREM DisconnectsAreFinal == Spec => []DisconnectIsFinal
<1>1. Inv => DisconnectIsFinal
    BY DEF Inv
<1>2. QED
    BY <1>1, Invariance, PTL

\* reconnect.rs:139-145: "Reconnecting" is never left up.
THEOREM NoticesComeDown == Spec => []NoticeHasASupervisor
<1>1. Inv => NoticeHasASupervisor
    BY DEF Inv
<1>2. QED
    BY <1>1, Invariance, PTL

=============================================================================
