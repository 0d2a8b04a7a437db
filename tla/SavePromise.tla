---------------------------- MODULE SavePromise -----------------------------
(***************************************************************************)
(* What the imaging camera promises about what it saves, whatever queues,  *)
(* containers, jobs and threads its frames pass through: its captures run  *)
(* one after the other, each frame it accepts is kept or lost for good,    *)
(* and a capture is told that all went well only once every frame of its   *)
(* own is kept.  The screen follows the capture that runs or ran last, and *)
(* shows a verdict only when that capture has come to one.                 *)
(*                                                                         *)
(* A frame may be lost in silence, with nobody told of it, but only after  *)
(* a capture that no longer waited for its sync: it was told a failure.    *)
(*                                                                         *)
(* Module DiskSync is shown to implement it.  The promises are those of    *)
(* StorageSync (session/src/state/storage_sync.rs) and of SyncReport       *)
(* (core/src/disk_writer/sync.rs).                                         *)
(***************************************************************************)

CONSTANTS Capture, Frame, Nobody

VARIABLES
    phase,      \* each capture: "none", "saving", "syncing" or "done"
    shown,      \* what the screen says
    told,       \* what each capture was told
    owner,      \* whose each frame is
    fate,       \* each frame: "none", "pending", "kept" or "lost"
    silent      \* the frames lost in silence

saveVars == <<phase, shown, told, owner, fate, silent>>

Verdicts == {"idle", "synced", "failed"}

Init ==
    /\ phase = [c \in Capture |-> "none"]
    /\ shown = "idle"
    /\ told = [c \in Capture |-> "none"]
    /\ owner = [f \in Frame |-> Nobody]
    /\ fate = [f \in Frame |-> "none"]
    /\ silent = {}

\* Nothing of the run before stays on screen.
Begin(c) ==
    /\ phase[c] = "none"
    /\ \A b \in Capture : phase[b] \in {"none", "done"}
    /\ phase' = [phase EXCEPT ![c] = "saving"]
    /\ shown' = "idle"
    /\ UNCHANGED <<told, owner, fate, silent>>

Accept(c, f) ==
    /\ phase[c] = "saving"
    /\ fate[f] = "none"
    /\ owner' = [owner EXCEPT ![f] = c]
    /\ fate' = [fate EXCEPT ![f] = "pending"]
    /\ UNCHANGED <<phase, shown, told, silent>>

Ask(c) ==
    /\ phase[c] = "saving"
    /\ phase' = [phase EXCEPT ![c] = "syncing"]
    /\ shown' = "syncing"
    /\ UNCHANGED <<told, owner, fate, silent>>

\* A frame on the device stays there, and what is lost stays lost.
Settles(f) ==
    \/ fate'[f] = fate[f]
    \/ /\ fate[f] = "pending"
       /\ fate'[f] \in {"kept", "lost"}

Spared(c) == \A f \in Frame : owner[f] = c => fate[f] = "kept" \/ f \in silent

\* One verdict for each capture, and good news only of what it saved.
Verdict(c) ==
    /\ phase[c] = "syncing" /\ told[c] = "none"
    /\ \E v \in Verdicts :
          /\ told' = [told EXCEPT ![c] = v]
          /\ v # "failed" => Spared(c)'

\* The device goes on with the frames, and a sync may end with it.
Device ==
    /\ fate' \in [Frame -> {"none", "pending", "kept", "lost"}]
    /\ \A f \in Frame : Settles(f)
    /\ silent \subseteq silent' /\ \A f \in silent' : fate'[f] = "lost"
    /\ silent' # silent => \E c \in Capture : told[c] = "failed"
    /\ told' = told \/ \E c \in Capture : Verdict(c)
    /\ UNCHANGED <<phase, shown, owner>>

Announce(c) ==
    /\ phase[c] = "syncing" /\ told[c] # "none"
    /\ phase' = [phase EXCEPT ![c] = "done"]
    /\ shown' = told[c]
    /\ UNCHANGED <<told, owner, fate, silent>>

Next ==
    \/ \E c \in Capture : Begin(c) \/ Ask(c) \/ Announce(c)
    \/ \E c \in Capture, f \in Frame : Accept(c, f)
    \/ Device

Promise == Init /\ [][Next]_saveVars

=============================================================================
