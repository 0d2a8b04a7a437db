------------------------- MODULE DeviceLeaseProofs -------------------------
(***************************************************************************)
(* What DeviceLease promises for every set of leases, indices and devices. *)
(* The properties are not inductive as they stand: that a superseded lease *)
(* stays superseded rests on generations never repeating on a slot, and    *)
(* for the unique slots, which leave the map, on their indices never being *)
(* given out again.  LeaseInv says both.                                   *)
(***************************************************************************)
EXTENDS DeviceLease, TLAPS

\* A slot in the map has been claimed, and a unique one under an index
\* already given out.
SlotsWereClaimed ==
    \A i \in DOMAIN slots : slots[i].generation > 0 /\ i > -1 - nextUnique

\* A lease not issued yet has no history; an issued one counts towards its
\* slot's generations and, if unique, towards the indices given out.
LeasesWereClaimed ==
    \A l \in Lease :
        /\ ~Issued(l) => ~lease[l].closed /\ authorised[l] = 0
        /\ Issued(l) => lease[l].index > -1 - nextUnique
        /\ Issued(l) /\ lease[l].index \in DOMAIN slots
              => lease[l].generation <= slots[lease[l].index].generation
        /\ Issued(l) /\ ~IsUnique(l) => lease[l].index \in DOMAIN slots

\* A generation is stamped on one lease only, and a unique index is held by
\* one lease only.
StampsAreDistinct ==
    \A k, l \in Lease :
        /\ Issued(k) /\ Issued(l)
        /\ lease[k].index = lease[l].index
        /\ lease[k].generation = lease[l].generation \/ IsUnique(k)
        => k = l

ClosesAreCounted ==
    \A l \in Lease : authorised[l] <= 1 /\ (authorised[l] = 1 => lease[l].closed)

NamedOnce ==
    \A i, j \in DOMAIN slots :
        /\ slots[i].open /\ slots[j].open
        /\ slots[i].device = slots[j].device
        /\ slots[i].device # NoDevice
        => i = j

LeaseInv ==
    /\ TypeOK
    /\ SlotsWereClaimed
    /\ LeasesWereClaimed
    /\ StampsAreDistinct
    /\ ClosesAreCounted
    /\ NamedOnce
    /\ OpenTellsTheNewestHandle

-----------------------------------------------------------------------------

LEMMA InitInv == Init => LeaseInv
  BY DEF Init, LeaseInv, TypeOK, Slot, LeaseFields, SlotsWereClaimed, LeasesWereClaimed,
         StampsAreDistinct, ClosesAreCounted, NamedOnce, OpenTellsTheNewestHandle, Issued

\* A claim keeps the invariant, whichever of the three operations makes it:
\* under a vendor index the counter stands still, under a unique one the
\* index is the counter's next and the counter moves on.
LEMMA ClaimInv ==
    ASSUME LeaseInv,
           NEW l \in Lease, NEW i \in Int, NEW d \in Device \cup {NoDevice},
           Claim(l, i, d),
           \/ i >= 0 /\ nextUnique' = nextUnique
           \/ i = -1 - nextUnique /\ nextUnique' = nextUnique + 1,
           d # NoDevice => ~NamesOpenDevice(d)
    PROVE  LeaseInv'
  <1> DEFINE g == Generation(i) + 1
  <1> USE DEF LeaseInv
  <1>1. g \in Nat /\ g > 0
    BY DEF Generation, TypeOK, Slot
  <1>2. /\ ~Issued(l)
        /\ slots' = [k \in DOMAIN slots \cup {i} |->
                        IF k = i THEN [generation |-> g, open |-> TRUE, device |-> d]
                                 ELSE slots[k]]
        /\ lease' = [lease EXCEPT ![l] = [index |-> i, generation |-> g, closed |-> FALSE]]
        /\ authorised' = authorised
    BY DEF Claim
  <1> HIDE DEF g
  <1>3. TypeOK'
    BY <1>1, <1>2 DEF TypeOK, Slot, LeaseFields
  <1>4. SlotsWereClaimed'
    BY <1>1, <1>2 DEF SlotsWereClaimed, TypeOK
  <1>5. /\ DOMAIN slots' = DOMAIN slots \cup {i}
        /\ slots'[i] = [generation |-> g, open |-> TRUE, device |-> d]
        /\ \A k \in DOMAIN slots : k # i => slots'[k] = slots[k]
    BY <1>2
  <1>6. /\ lease'[l] = [index |-> i, generation |-> g, closed |-> FALSE]
        /\ \A k \in Lease \ {l} : lease'[k] = lease[k]
    BY <1>2 DEF TypeOK
  <1>7. \A k \in Lease : Issued(k) /\ k # l /\ lease[k].index = i =>
            /\ lease[k].index \in DOMAIN slots
            /\ lease[k].generation < g
            /\ ~IsUnique(k)
    BY DEF g, Generation, LeasesWereClaimed, IsUnique, Issued, TypeOK, LeaseFields, Slot
  <1>8. LeasesWereClaimed'
    BY <1>1, <1>2, <1>5, <1>6, <1>7
       DEF LeasesWereClaimed, IsUnique, Issued, TypeOK, LeaseFields, Slot
  <1>9. StampsAreDistinct'
    <2> SUFFICES ASSUME NEW j \in Lease, NEW k \in Lease,
                        Issued(j)', Issued(k)',
                        lease'[j].index = lease'[k].index,
                        lease'[j].generation = lease'[k].generation \/ IsUnique(j)'
                 PROVE  j = k
      BY DEF StampsAreDistinct
    <2>1. CASE j # l /\ k # l
      BY <2>1, <1>6 DEF StampsAreDistinct, Issued, IsUnique
    <2>2. CASE j = l /\ k # l
      BY <2>2, <1>6, <1>7 DEF Issued, IsUnique, TypeOK, LeaseFields
    <2>3. CASE j # l /\ k = l
      BY <2>3, <1>6, <1>7 DEF Issued, IsUnique, TypeOK, LeaseFields
    <2> QED  BY <2>1, <2>2, <2>3
  <1>10. ClosesAreCounted'
    BY <1>2, <1>6 DEF ClosesAreCounted, LeasesWereClaimed, TypeOK
  <1>11. NamedOnce'
    BY <1>5 DEF NamedOnce, NamesOpenDevice
  <1>12. OpenTellsTheNewestHandle'
    <2> SUFFICES ASSUME NEW j \in DOMAIN slots'
                 PROVE  slots'[j].open <=>
                          \E k \in Lease : /\ Issued(k)' /\ lease'[k].index = j
                                           /\ IsCurrent(k)' /\ ~lease'[k].closed
      BY DEF OpenTellsTheNewestHandle
    <2>1. CASE j = i
      BY <2>1, <1>1, <1>5, <1>6 DEF Issued, IsCurrent
    <2>2. CASE j # i
      <3>1. j \in DOMAIN slots /\ slots'[j] = slots[j]
        BY <2>2, <1>5
      <3>2. \A k \in Lease : k # l => /\ Issued(k)' <=> Issued(k)
                                      /\ lease'[k].index = lease[k].index
                                      /\ lease'[k].closed = lease[k].closed
        BY <1>6 DEF Issued
      <3>3. \A k \in Lease : k # l /\ lease[k].index = j => (IsCurrent(k)' <=> IsCurrent(k))
        BY <1>5, <1>6, <3>1 DEF IsCurrent
      <3>4. lease'[l].index # j
        BY <2>2, <1>6
      <3> QED  BY <1>2, <3>1, <3>2, <3>3, <3>4 DEF OpenTellsTheNewestHandle
    <2> QED  BY <2>1, <2>2
  <1> QED  BY <1>3, <1>4, <1>8, <1>9, <1>10, <1>11, <1>12

\* A close keeps the invariant.  Authorised, it is the newest lease's own
\* slot that closes or leaves the map; refused, only the lease is retired.
LEMMA CloseInv ==
    ASSUME LeaseInv, NEW l \in Lease, BeginClose(l)
    PROVE  LeaseInv'
  <1> USE DEF LeaseInv
  <1>1. /\ Issued(l)
        /\ nextUnique' = nextUnique
        /\ lease' = [lease EXCEPT ![l].closed = TRUE]
    BY DEF BeginClose
  <1>2. /\ \A k \in Lease : /\ lease'[k].index = lease[k].index
                            /\ lease'[k].generation = lease[k].generation
                            /\ k # l => lease'[k].closed = lease[k].closed
                            /\ Issued(k)' <=> Issued(k)
                            /\ IsUnique(k)' <=> IsUnique(k)
        /\ lease'[l].closed
        /\ lease' \in [Lease -> LeaseFields]
    BY <1>1 DEF TypeOK, LeaseFields, Issued, IsUnique
  <1>3. StampsAreDistinct'
    BY <1>2 DEF StampsAreDistinct
  <1>4. CASE AuthoriseClose(l)
    <2> DEFINE s == lease[l].index
    <2>1. /\ ~lease[l].closed /\ IsCurrent(l) /\ s \in DOMAIN slots
          /\ authorised' = [authorised EXCEPT ![l] = @ + 1]
      BY <1>4 DEF AuthoriseClose, IsCurrent
    <2>2. /\ DOMAIN slots' \subseteq DOMAIN slots
          /\ \A i \in DOMAIN slots' : /\ slots'[i].generation = slots[i].generation
                                      /\ slots'[i].device = slots[i].device
                                      /\ slots'[i] \in Slot
                                      /\ i # s => slots'[i] = slots[i]
          /\ \A i \in DOMAIN slots : i # s => i \in DOMAIN slots'
          /\ IsUnique(l) => s \notin DOMAIN slots'
          /\ ~IsUnique(l) => s \in DOMAIN slots' /\ ~slots'[s].open
      BY <1>4, <2>1 DEF AuthoriseClose, TypeOK, Slot
    <2> HIDE DEF s
    <2>3. TypeOK'
      BY <1>1, <1>2, <2>1, <2>2 DEF TypeOK
    <2>4. SlotsWereClaimed'
      BY <1>1, <2>2 DEF SlotsWereClaimed
    <2>5. authorised[l] = 0 /\ authorised'[l] = 1
      BY <2>1 DEF ClosesAreCounted, TypeOK
    <2>6. ClosesAreCounted'
      BY <1>2, <2>1, <2>5 DEF ClosesAreCounted, TypeOK
    <2>7. LeasesWereClaimed'
      <3> SUFFICES ASSUME NEW k \in Lease
                   PROVE  /\ ~Issued(k)' => ~lease'[k].closed /\ authorised'[k] = 0
                          /\ Issued(k)' => lease'[k].index > -1 - nextUnique'
                          /\ Issued(k)' /\ lease'[k].index \in DOMAIN slots'
                                => lease'[k].generation <= slots'[lease'[k].index].generation
                          /\ Issued(k)' /\ ~IsUnique(k)' => lease'[k].index \in DOMAIN slots'
        BY DEF LeasesWereClaimed
      <3>1. ~Issued(k)' => ~lease'[k].closed /\ authorised'[k] = 0
        BY <1>1, <1>2, <2>1 DEF LeasesWereClaimed, TypeOK
      <3>2. Issued(k)' /\ ~IsUnique(k)' => lease'[k].index \in DOMAIN slots'
        BY <1>2, <2>2 DEF LeasesWereClaimed, IsUnique, s
      <3>3. Issued(k)' => lease'[k].index > -1 - nextUnique'
        BY <1>1, <1>2 DEF LeasesWereClaimed
      <3>4. Issued(k)' /\ lease'[k].index \in DOMAIN slots'
               => lease'[k].generation <= slots'[lease'[k].index].generation
        BY <1>2, <2>2 DEF LeasesWereClaimed
      <3> QED  BY <3>1, <3>2, <3>3, <3>4
    <2>8. NamedOnce'
      BY <2>2 DEF NamedOnce, s
    <2>9. \A k \in Lease : Issued(k) /\ lease[k].index = s /\ IsCurrent(k) => k = l
      BY <1>1, <2>1 DEF StampsAreDistinct, IsCurrent, s
    <2>10. OpenTellsTheNewestHandle'
      <3> SUFFICES ASSUME NEW i \in DOMAIN slots'
                   PROVE  slots'[i].open <=>
                            \E k \in Lease : /\ Issued(k)' /\ lease'[k].index = i
                                             /\ IsCurrent(k)' /\ ~lease'[k].closed
        BY DEF OpenTellsTheNewestHandle
      <3>1. \A k \in Lease : lease[k].index = i => (IsCurrent(k)' <=> IsCurrent(k))
        BY <1>2, <2>2 DEF IsCurrent
      <3>2. CASE i = s
        BY <1>2, <2>2, <2>9, <3>1, <3>2
      <3>3. CASE i # s
        BY <1>2, <2>2, <3>1, <3>3 DEF OpenTellsTheNewestHandle, s
      <3> QED  BY <3>2, <3>3
    <2> QED  BY <1>3, <2>3, <2>4, <2>6, <2>7, <2>8, <2>10
  <1>5. CASE RefuseClose(l)
    <2>1. /\ lease[l].closed \/ ~IsCurrent(l)
          /\ slots' = slots /\ authorised' = authorised
      BY <1>5 DEF RefuseClose
    <2>2. \A k \in Lease : IsCurrent(k)' <=> IsCurrent(k)
      BY <1>2, <2>1 DEF IsCurrent
    <2>3. TypeOK' /\ SlotsWereClaimed' /\ NamedOnce'
      BY <1>1, <1>2, <2>1 DEF TypeOK, SlotsWereClaimed, NamedOnce
    <2>4. LeasesWereClaimed' /\ ClosesAreCounted'
      BY <1>1, <1>2, <2>1 DEF LeasesWereClaimed, ClosesAreCounted
    <2>5. OpenTellsTheNewestHandle'
      BY <1>2, <2>1, <2>2 DEF OpenTellsTheNewestHandle
    <2> QED  BY <1>3, <2>3, <2>4, <2>5
  <1> QED  BY <1>4, <1>5 DEF BeginClose

LEMMA StepInv == LeaseInv /\ [Next]_vars => LeaseInv'
  <1> SUFFICES ASSUME LeaseInv, [Next]_vars
               PROVE  LeaseInv'
    OBVIOUS
  <1>1. ASSUME NEW l \in Lease, NEW i \in Index, Acquire(l, i)
        PROVE  LeaseInv'
    BY <1>1, ClaimInv, IndexAssumption DEF Acquire
  <1>2. ASSUME NEW l \in Lease, AcquireUnique(l)
        PROVE  LeaseInv'
    <2>1. NextUniqueIndex \in Int
      BY DEF NextUniqueIndex, LeaseInv, TypeOK
    <2> QED  BY <1>2, <2>1, ClaimInv DEF AcquireUnique, NextUniqueIndex
  <1>3. ASSUME NEW l \in Lease, NEW d \in Device, TryAcquireUniqueDevice(l, d)
        PROVE  LeaseInv'
    <2>1. NextUniqueIndex \in Int
      BY DEF NextUniqueIndex, LeaseInv, TypeOK
    <2> QED  BY <1>3, <2>1, ClaimInv DEF TryAcquireUniqueDevice, NextUniqueIndex
  <1>4. ASSUME NEW l \in Lease, BeginClose(l)
        PROVE  LeaseInv'
    BY <1>4, CloseInv
  <1>5. CASE UNCHANGED vars
    BY <1>5 DEF vars, LeaseInv, TypeOK, SlotsWereClaimed, LeasesWereClaimed, StampsAreDistinct,
                ClosesAreCounted, NamedOnce, OpenTellsTheNewestHandle, Issued, IsUnique, IsCurrent
  <1> QED  BY <1>1, <1>2, <1>3, <1>4, <1>5 DEF Next

\* LeaseInv holds in every reachable state.
THEOREM Invariance == Spec => []LeaseInv
  BY InitInv, StepInv, PTL DEF Spec

-----------------------------------------------------------------------------

\* The table and the leases keep their types.
THEOREM TypeCorrect == Spec => []TypeOK
  <1>1. LeaseInv => TypeOK
    BY DEF LeaseInv
  <1> QED  BY <1>1, Invariance, PTL

\* A lease is granted at most one vendor close, however many close paths run.
THEOREM OneClose == Spec => []OneClosePerLease
  <1>1. LeaseInv => OneClosePerLease
    BY DEF LeaseInv, ClosesAreCounted, OneClosePerLease
  <1> QED  BY <1>1, Invariance, PTL

\* What discovery reads of a slot is whether its newest handle still lives.
THEOREM OpenIsTruthful == Spec => []OpenTellsTheNewestHandle
  <1>1. LeaseInv => OpenTellsTheNewestHandle
    BY DEF LeaseInv
  <1> QED  BY <1>1, Invariance, PTL

\* No slot and no named device has two live owners.
THEOREM Exclusive == Spec => []OwnersAreExclusive
  <1>1. LeaseInv => OwnersAreExclusive
    <2> SUFFICES ASSUME LeaseInv, NEW k \in Lease, NEW l \in Lease,
                        Issued(k), Issued(l), IsCurrent(k), IsCurrent(l),
                        ~lease[k].closed, ~lease[l].closed,
                        \/ lease[k].index = lease[l].index
                        \/ /\ slots[lease[k].index].device = slots[lease[l].index].device
                           /\ slots[lease[k].index].device # NoDevice
                 PROVE  k = l
      BY DEF OwnersAreExclusive
    <2>1. slots[lease[k].index].open /\ slots[lease[l].index].open
      BY DEF LeaseInv, OpenTellsTheNewestHandle, IsCurrent
    <2>2. lease[k].index = lease[l].index
      BY <2>1 DEF LeaseInv, NamedOnce, IsCurrent
    <2> QED  BY <2>2 DEF LeaseInv, StampsAreDistinct, IsCurrent
  <1> QED  BY <1>1, Invariance, PTL

\* A superseded or dropped lease never owns its slot again.  Its slot's
\* generation only grows; a slot that left the map was unique, and its index
\* is behind the counter for good.
THEOREM StaleForGood == Spec => StaleStaysStale
  <1>1. ASSUME LeaseInv, [Next]_vars, NEW l \in Lease, Issued(l), ~IsCurrent(l)
        PROVE  ~IsCurrent(l)'
    <2> USE <1>1
    <2>1. ASSUME NEW k \in Lease, NEW i \in Int, NEW d \in Device \cup {NoDevice},
                 Claim(k, i, d), i >= 0 \/ i = -1 - nextUnique
          PROVE  ~IsCurrent(l)'
      <3>1. lease'[l] = lease[l]
        BY <2>1 DEF Claim, LeaseInv, TypeOK
      <3>2. CASE i # lease[l].index
        BY <2>1, <3>1, <3>2 DEF Claim, IsCurrent
      <3>3. CASE i = lease[l].index
        <4>1. i \in DOMAIN slots
          BY <2>1, <3>3 DEF LeaseInv, LeasesWereClaimed, IsUnique, TypeOK, LeaseFields
        <4>2. lease[l].generation <= slots[i].generation
          BY <4>1, <3>3 DEF LeaseInv, LeasesWereClaimed
        <4>3. slots'[i].generation = slots[i].generation + 1
          BY <2>1, <4>1 DEF Claim, Generation
        <4>4. slots[i].generation \in Nat /\ lease[l].generation \in Nat
          BY <4>1 DEF LeaseInv, TypeOK, Slot, LeaseFields
        <4> QED  BY <3>1, <3>3, <4>2, <4>3, <4>4 DEF IsCurrent
      <3> QED  BY <3>2, <3>3
    <2>2. ASSUME NEW k \in Lease, BeginClose(k)
          PROVE  ~IsCurrent(l)'
      <3>1. /\ lease'[l].index = lease[l].index
            /\ lease'[l].generation = lease[l].generation
        BY <2>2 DEF BeginClose, LeaseInv, TypeOK, LeaseFields
      <3>2. /\ DOMAIN slots' \subseteq DOMAIN slots
            /\ \A i \in DOMAIN slots' : slots'[i].generation = slots[i].generation
        BY <2>2 DEF BeginClose, AuthoriseClose, RefuseClose, IsCurrent, LeaseInv, TypeOK, Slot
      <3> QED  BY <3>1, <3>2 DEF IsCurrent
    <2>3. NextUniqueIndex \in Int /\ NextUniqueIndex = -1 - nextUnique
      BY DEF NextUniqueIndex, LeaseInv, TypeOK
    <2>4. CASE UNCHANGED vars
      BY <2>4 DEF vars, IsCurrent
    <2> QED  BY <2>1, <2>2, <2>3, <2>4, IndexAssumption
             DEF Next, Acquire, AcquireUnique, TryAcquireUniqueDevice
  <1>2. LeaseInv /\ [Next]_vars
          => [\A l \in Lease : Issued(l) /\ ~IsCurrent(l) => ~IsCurrent(l)']_vars
    BY <1>1
  <1> QED  BY <1>2, Invariance, PTL DEF Spec, StaleStaysStale

=============================================================================
