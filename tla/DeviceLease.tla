---------------------------- MODULE DeviceLease ----------------------------
(***************************************************************************)
(* The lease table of crates/core/src/camera/device_lease.rs: one mutex    *)
(* over a map from vendor device index to a slot.  Every open takes a      *)
(* lease that stamps its slot's next generation; every vendor close must   *)
(* first be authorised by BeginClose.  Each action is one critical section *)
(* of the mutex.                                                           *)
(*                                                                         *)
(* One provider is modelled: the table's key is the pair (provider,        *)
(* index), and no operation reads a slot of another provider.              *)
(***************************************************************************)
EXTENDS Integers, FiniteSets

CONSTANTS
    Lease,      \* the leases the program will ever issue, one per handle
    Index,      \* vendor device indices, which are never negative
    Device,     \* the devices a claim can name (a QHY id)
    NoDevice    \* a claim that names no device

ASSUME IndexAssumption == Index \subseteq Nat

ASSUME DeviceAssumption == NoDevice \notin Device

VARIABLES
    slots,      \* the map: index -> [generation, open, device]
    lease,      \* each lease's own fields; generation 0 until it is issued
    nextUnique, \* the counter behind next_unique_index
    authorised  \* history: how many closes each lease was granted

vars == <<slots, lease, nextUnique, authorised>>

Slot == [generation : Nat, open : BOOLEAN, device : Device \cup {NoDevice}]

LeaseFields == [index : Int, generation : Nat, closed : BOOLEAN]

TypeOK ==
    /\ DOMAIN slots \subseteq Int
    /\ \A i \in DOMAIN slots : slots[i] \in Slot
    /\ lease \in [Lease -> LeaseFields]
    /\ nextUnique \in Nat
    /\ authorised \in [Lease -> Nat]

Init ==
    /\ slots = [i \in {} |-> [generation |-> 0, open |-> FALSE, device |-> NoDevice]]
    /\ lease = [l \in Lease |-> [index |-> 0, generation |-> 0, closed |-> FALSE]]
    /\ nextUnique = 0
    /\ authorised = [l \in Lease |-> 0]

-----------------------------------------------------------------------------
(* What a caller can read.                                                 *)

Issued(l) == lease[l].generation > 0

IsUnique(l) == lease[l].index < 0

\* "Whether this lease still owns its device slot."
IsCurrent(l) ==
    /\ lease[l].index \in DOMAIN slots
    /\ slots[lease[l].index].generation = lease[l].generation

\* "Whether a handle that has not been closed yet holds (provider, index)."
IsOpen(i) == i \in DOMAIN slots /\ slots[i].open

NamesOpenDevice(d) == \E i \in DOMAIN slots : slots[i].open /\ slots[i].device = d

-----------------------------------------------------------------------------
(* The operations.                                                         *)

Generation(i) == IF i \in DOMAIN slots THEN slots[i].generation ELSE 0

Claim(l, i, d) ==
    LET slot == [generation |-> Generation(i) + 1, open |-> TRUE, device |-> d]
    IN  /\ ~Issued(l)
        /\ slots' = [k \in DOMAIN slots \cup {i} |-> IF k = i THEN slot ELSE slots[k]]
        /\ lease' = [lease EXCEPT ![l] = [index      |-> i,
                                          generation |-> Generation(i) + 1,
                                          closed     |-> FALSE]]
        /\ UNCHANGED authorised

Acquire(l, i) ==
    /\ Claim(l, i, NoDevice)
    /\ UNCHANGED nextUnique

NextUniqueIndex == -1 - nextUnique

\* Mutant: the counter runs the wrong way.
AcquireUniqueCountingDown(l) ==
    /\ Claim(l, NextUniqueIndex, NoDevice)
    /\ nextUnique' = nextUnique - 1

AcquireUnique(l) ==
    /\ Claim(l, NextUniqueIndex, NoDevice)
    /\ nextUnique' = nextUnique + 1

\* Mutant: claimed without the check.
TryAcquireUniqueDeviceUnchecked(l, d) ==
    /\ Claim(l, NextUniqueIndex, d)
    /\ nextUnique' = nextUnique + 1

TryAcquireUniqueDevice(l, d) ==
    /\ ~NamesOpenDevice(d)
    /\ Claim(l, NextUniqueIndex, d)
    /\ nextUnique' = nextUnique + 1

\* Mutant: a lease closed once already is asked only whether it is current.
AuthoriseCloseAgain(l) ==
    /\ IsCurrent(l)
    /\ slots' = IF IsUnique(l)
                  THEN [k \in DOMAIN slots \ {lease[l].index} |-> slots[k]]
                  ELSE [slots EXCEPT ![lease[l].index].open = FALSE]
    /\ authorised' = [authorised EXCEPT ![l] = @ + 1]

\* Mutant: the slot is closed whichever lease closes.
AuthoriseCloseOfAnyGeneration(l) ==
    /\ ~lease[l].closed
    /\ lease[l].index \in DOMAIN slots
    /\ slots' = IF IsUnique(l)
                  THEN [k \in DOMAIN slots \ {lease[l].index} |-> slots[k]]
                  ELSE [slots EXCEPT ![lease[l].index].open = FALSE]
    /\ authorised' = [authorised EXCEPT ![l] = @ + 1]

\* The first call that finds the lease still current: a unique slot is
\* dropped from the map, an indexed one only marked closed.
AuthoriseClose(l) ==
    /\ ~lease[l].closed
    /\ IsCurrent(l)
    /\ slots' = IF IsUnique(l)
                  THEN [k \in DOMAIN slots \ {lease[l].index} |-> slots[k]]
                  ELSE [slots EXCEPT ![lease[l].index].open = FALSE]
    /\ authorised' = [authorised EXCEPT ![l] = @ + 1]

\* A second call, or a lease a later open has superseded.
RefuseClose(l) ==
    /\ lease[l].closed \/ ~IsCurrent(l)
    /\ UNCHANGED <<slots, authorised>>

BeginClose(l) ==
    /\ Issued(l)
    /\ AuthoriseClose(l) \/ RefuseClose(l)
    /\ lease' = [lease EXCEPT ![l].closed = TRUE]
    /\ UNCHANGED nextUnique

Next ==
    \E l \in Lease :
        \/ \E i \in Index : Acquire(l, i)
        \/ AcquireUnique(l)
        \/ \E d \in Device : TryAcquireUniqueDevice(l, d)
        \/ BeginClose(l)

Spec == Init /\ [][Next]_vars

-----------------------------------------------------------------------------
(* Properties.                                                             *)

\* "Authorizing exactly one close per lease": however often the explicit
\* close, the abandoned handle's destructor and Drop run, one lease is
\* granted at most one vendor close.
OneClosePerLease == \A l \in Lease : authorised[l] <= 1

\* The slot of a device says "open" exactly while the newest lease on it has
\* not been closed.  Discovery opens a device whose slot is not open, so a
\* slot that says closed under a live handle lets discovery close the device
\* under it; one left open for ever hides the camera from discovery.
OpenTellsTheNewestHandle ==
    \A i \in DOMAIN slots :
        slots[i].open <=>
            \E l \in Lease : /\ Issued(l)
                             /\ lease[l].index = i
                             /\ IsCurrent(l)
                             /\ ~lease[l].closed

\* Two handles that have not been closed never both own one slot, and never
\* both hold a claim on one named device.
OwnersAreExclusive ==
    \A k, l \in Lease :
        /\ Issued(k) /\ Issued(l)
        /\ IsCurrent(k) /\ IsCurrent(l)
        /\ ~lease[k].closed /\ ~lease[l].closed
        /\ \/ lease[k].index = lease[l].index
           \/ /\ slots[lease[k].index].device = slots[lease[l].index].device
              /\ slots[lease[k].index].device # NoDevice
        => k = l

\* A lease that has been superseded, or whose unique slot was dropped, never
\* owns a slot again: the close of an abandoned handle stays refused however
\* late it runs.
StaleStaysStale ==
    [][\A l \in Lease : Issued(l) /\ ~IsCurrent(l) => ~IsCurrent(l)']_vars

=============================================================================
