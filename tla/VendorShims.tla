---------------------------- MODULE VendorShims ----------------------------
(***************************************************************************)
(* The vendor shims of crates/core/src/camera/*/shim.rs over the lease     *)
(* table: how a handle opens its device in the SDK, takes its lease, is    *)
(* closed, abandoned inside a stuck call, and dropped.                     *)
(*                                                                         *)
(* Three protocols.  ZWO, PlayerOne and SVBony address a device by index:  *)
(* the SDK opens and closes device i whoever asks.  QHY and ToupTek        *)
(* address a handle's own pointer; QHY claims the device before it opens   *)
(* it.  A vendor call and a critical section of the table are separate     *)
(* steps, since no lock spans both.                                        *)
(***************************************************************************)
EXTENDS DeviceLease

CONSTANTS
    Zwo,        \* the indices that are ZWO's,
    PlayerOne   \* those that are PlayerOne's; the others are SVBony's

ASSUME VendorAssumption ==
    /\ Zwo \subseteq Index /\ PlayerOne \subseteq Index
    /\ Zwo \cap PlayerOne = {}

VARIABLES
    stage,      \* where each handle is between its open and its drop
    target,     \* the device it opens
    forConnect, \* opened for a connect, not to describe the device
    indexOpen,  \* the SDK's own state of an indexed device
    pointer,    \* the SDK's own state of a handle's pointer
    leaked      \* history: a failed Init has left the index open since its last close

shimVars == <<stage, target, forConnect, indexOpen, pointer, leaked>>
allVars == <<vars, shimVars>>

Stages == {"new", "looked", "claimed", "opened", "held", "abandoned",
           "closing", "closed", "dropped"}

ShimTypeOK ==
    /\ TypeOK
    /\ stage \in [Lease -> Stages]
    /\ target \in [Lease -> Index \cup Device \cup {NoDevice}]
    /\ forConnect \in [Lease -> BOOLEAN]
    /\ indexOpen \in [Index -> BOOLEAN]
    /\ pointer \in [Lease -> {"none", "open", "freed"}]
    /\ leaked \subseteq Index

ShimInit ==
    /\ Init
    /\ stage = [h \in Lease |-> "new"]
    /\ target = [h \in Lease |-> NoDevice]
    /\ forConnect = [h \in Lease |-> FALSE]
    /\ indexOpen = [i \in Index |-> FALSE]
    /\ pointer = [h \in Lease |-> "none"]
    /\ leaked = {}

Goto(h, s) == stage' = [stage EXCEPT ![h] = s]

\* A connect first vacates the role, so no other connect's handle on the
\* device is in use: it has been closed, is being closed, or is stuck.
LetGo(d) ==
    \A h \in Lease : (target[h] = d /\ forConnect[h]) =>
        stage[h] \in {"abandoned", "closing", "closed", "dropped"}

Begin(h, d, connect, s) ==
    /\ stage[h] = "new"
    /\ Goto(h, s)
    /\ target' = [target EXCEPT ![h] = d]
    /\ forConnect' = [forConnect EXCEPT ![h] = connect]

-----------------------------------------------------------------------------
(* Index SDKs: the SDK opens first, the lease follows.                     *)

ConnectIndexed(h, i) ==
    /\ LetGo(i)
    /\ Begin(h, i, TRUE, "looked")
    /\ UNCHANGED <<vars, indexOpen, pointer, leaked>>

\* `describe` of ZWO, the only discovery that opens: a device some handle still
\* holds is described from its properties alone.
DescribeIndexed(h, i) ==
    /\ i \in Zwo
    /\ ~IsOpen(i)
    /\ Begin(h, i, FALSE, "looked")
    /\ UNCHANGED <<vars, indexOpen, pointer, leaked>>

OpenIndexed(h) ==
    /\ stage[h] = "looked"
    /\ Goto(h, "opened")
    /\ indexOpen' = [indexOpen EXCEPT ![target[h]] = TRUE]
    /\ UNCHANGED <<vars, target, forConnect, pointer, leaked>>

FailOpenIndexed(h) ==
    /\ stage[h] = "looked"
    /\ Goto(h, "dropped")
    /\ UNCHANGED <<vars, target, forConnect, indexOpen, pointer, leaked>>

\* An open that fails after the SDK has opened the device, before the lease.
FailsAfterOpen(h, vendor) ==
    /\ stage[h] = "opened" /\ pointer[h] = "none" /\ target[h] \in vendor
    /\ Goto(h, "dropped")
    /\ UNCHANGED <<vars, target, forConnect, pointer>>

\* Mutant: PlayerOne's returns on the error like ZWO's.
FailInitKeepingOpen(h) ==
    /\ FailsAfterOpen(h, PlayerOne)
    /\ UNCHANGED <<indexOpen, leaked>>

\* PlayerOne's Init fails, and its shim closes what it opened.
FailInitPlayerOne(h) ==
    /\ FailsAfterOpen(h, PlayerOne)
    /\ indexOpen' = [indexOpen EXCEPT ![target[h]] = FALSE]
    /\ UNCHANGED leaked

\* ZWO's Init fails, or the device is not listed any more: the shim returns with
\* the device open and no lease, until a later handle on the index is closed.
FailInitZwo(h) ==
    /\ FailsAfterOpen(h, Zwo)
    /\ leaked' = leaked \cup {target[h]}
    /\ UNCHANGED indexOpen

LeaseIndexed(h) ==
    /\ stage[h] = "opened" /\ pointer[h] = "none"
    /\ Acquire(h, target[h])
    /\ Goto(h, "held")
    /\ UNCHANGED <<target, forConnect, indexOpen, pointer, leaked>>

-----------------------------------------------------------------------------
(* QHY: claim the device, then open it; a failed open gives the claim      *)
(* back.  ToupTek: open, then take a slot of its own.                      *)

\* A connect polls for the claim for HELD_WAIT, discovery asks once: a claim
\* that is refused changes nothing.
ClaimQhy(h, d) ==
    /\ TryAcquireUniqueDevice(h, d)
    /\ \E connect \in BOOLEAN :
          (connect => LetGo(d)) /\ Begin(h, d, connect, "claimed")
    /\ UNCHANGED <<indexOpen, pointer, leaked>>

OpenQhy(h) ==
    /\ stage[h] = "claimed"
    /\ Goto(h, "held")
    /\ pointer' = [pointer EXCEPT ![h] = "open"]
    /\ UNCHANGED <<vars, target, forConnect, indexOpen, leaked>>

\* Mutant: the claim is not given back.
FailOpenKeepClaim(h) ==
    /\ stage[h] = "claimed"
    /\ Goto(h, "dropped")
    /\ UNCHANGED <<vars, target, forConnect, indexOpen, pointer, leaked>>

FailOpenQhy(h) ==
    /\ stage[h] = "claimed"
    /\ BeginClose(h)
    /\ Goto(h, "dropped")
    /\ UNCHANGED <<target, forConnect, indexOpen, pointer, leaked>>

OpenTouptek(h) ==
    /\ Begin(h, NoDevice, TRUE, "opened")
    /\ pointer' = [pointer EXCEPT ![h] = "open"]
    /\ UNCHANGED <<vars, indexOpen, leaked>>

LeaseTouptek(h) ==
    /\ stage[h] = "opened" /\ pointer[h] = "open"
    /\ AcquireUnique(h)
    /\ Goto(h, "held")
    /\ UNCHANGED <<target, forConnect, indexOpen, pointer, leaked>>

-----------------------------------------------------------------------------
(* The end of a handle.                                                    *)

\* The session stopped waiting for the call the handle is inside.
Abandon(h) ==
    /\ stage[h] = "held"
    /\ Goto(h, "abandoned")
    /\ UNCHANGED <<vars, target, forConnect, indexOpen, pointer, leaked>>

\* `close`, or Drop of a handle nobody closed: the table decides, under its
\* lock, and the vendor call comes after it.
BeginVendorClose(h) ==
    /\ stage[h] \in {"held", "abandoned"}
    /\ BeginClose(h)
    /\ Goto(h, IF AuthoriseClose(h) THEN "closing" ELSE "closed")
    /\ UNCHANGED <<target, forConnect, indexOpen, pointer, leaked>>

\* Mutant: the pointer is freed and nobody asks the table.
DropFreesAgain(h) ==
    /\ stage[h] = "closed"
    /\ Goto(h, "closing")
    /\ UNCHANGED <<vars, target, forConnect, indexOpen, pointer, leaked>>

\* Drop after an explicit close.
DropClosed(h) ==
    /\ stage[h] = "closed"
    /\ BeginClose(h)
    /\ Goto(h, IF AuthoriseClose(h) THEN "closing" ELSE "dropped")
    /\ UNCHANGED <<target, forConnect, indexOpen, pointer, leaked>>

VendorClose(h) ==
    /\ stage[h] = "closing"
    /\ Goto(h, "closed")
    /\ IF pointer[h] = "none"
         THEN /\ indexOpen' = [indexOpen EXCEPT ![target[h]] = FALSE]
              /\ leaked' = leaked \ {target[h]}
              /\ UNCHANGED pointer
         ELSE /\ pointer' = [pointer EXCEPT ![h] = "freed"]
              /\ UNCHANGED <<indexOpen, leaked>>
    /\ UNCHANGED <<vars, target, forConnect>>

ShimNext ==
    \E h \in Lease :
        \/ \E i \in Index : ConnectIndexed(h, i) \/ DescribeIndexed(h, i)
        \/ OpenIndexed(h) \/ FailOpenIndexed(h)
        \/ FailInitPlayerOne(h) \/ FailInitZwo(h) \/ LeaseIndexed(h)
        \/ \E d \in Device : ClaimQhy(h, d)
        \/ OpenQhy(h) \/ FailOpenQhy(h)
        \/ OpenTouptek(h) \/ LeaseTouptek(h)
        \/ Abandon(h) \/ BeginVendorClose(h) \/ DropClosed(h) \/ VendorClose(h)

ShimSpec == ShimInit /\ [][ShimNext]_allVars

-----------------------------------------------------------------------------
(* Properties.                                                             *)

\* A pointer the SDK freed is never handed to CloseQHYCCD or Toupcam_Close
\* again, through an explicit close, the destructor of an abandoned handle
\* and Drop in any order.
NoCloseOfAFreedPointer ==
    \A h \in Lease : stage[h] = "closing" => pointer[h] # "freed"

\* What is open has a handle that will let go of it, through failed opens,
\* abandoned calls and discovery.  An indexed device the SDK has open: one on
\* its way to a lease, the owner of the slot, or one whose close has been
\* authorised; or it is ZWO's and a failed Init has left it so since its last
\* close, which is the one way a device stays open.  A QHY device the table says
\* is claimed: a handle behind the claim, so that one failed open never makes
\* the camera "held by another handle" for good.
NothingIsLeftOpen ==
    /\ \A i \in Index : indexOpen[i] =>
        \/ i \in Zwo /\ i \in leaked
        \/ \E h \in Lease :
            /\ target[h] = i
            /\ \/ stage[h] \in {"opened", "closing"}
               \/ stage[h] \in {"held", "abandoned"} /\ IsCurrent(h)
    /\ \A d \in Device : NamesOpenDevice(d) =>
        \E h \in Lease : target[h] = d /\ stage[h] \in {"claimed", "held", "abandoned"}

\* What playerone/shim.rs:411-413 says the lease is for: the close of an
\* abandoned handle never lands on the device of the handle that reopened it.
\* A handle in use, owning its slot, has its device open in the SDK.
HandleInUseIsOpen ==
    \A h \in Lease :
        (stage[h] = "held" /\ target[h] \in Index /\ IsCurrent(h))
            => indexOpen[target[h]]

=============================================================================
