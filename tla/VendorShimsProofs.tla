------------------------- MODULE VendorShimsProofs -------------------------
(***************************************************************************)
(* The vendor shims use the lease table as DeviceLease says it is used, so *)
(* that its theorems hold of them; and for every number of handles,        *)
(* indices and devices nothing is closed twice or left open.               *)
(*                                                                         *)
(* Each property needs what a handle's stage says of its lease (HandleInv) *)
(* and, for claims, that the device a slot names is the one its live owner *)
(* opens (Named).                                                          *)
(***************************************************************************)
EXTENDS VendorShims, DeviceLeaseProofs

Live(h) == Issued(h) /\ ~lease[h].closed

\* A handle that addresses its device by index, as its pointer tells once it
\* is open, and one that has a slot of its own.
Indexed(h) == pointer[h] = "none" /\ target[h] \in Index

\* What a handle's stage says of its lease, its pointer and its target.
StageOf(h) ==
    /\ stage[h] = "new" => ~Issued(h) /\ pointer[h] = "none"
    /\ stage[h] = "looked" => ~Issued(h) /\ Indexed(h)
    /\ stage[h] = "claimed" => Live(h) /\ IsUnique(h) /\ pointer[h] = "none"
    /\ stage[h] = "opened" => ~Issued(h) /\ (Indexed(h) \/ pointer[h] = "open")
    /\ stage[h] \in {"held", "abandoned"} =>
          /\ Live(h)
          /\ \/ Indexed(h) /\ lease[h].index = target[h]
             \/ IsUnique(h) /\ pointer[h] = "open"
    /\ stage[h] = "closing" =>
          /\ Issued(h) /\ lease[h].closed
          /\ Indexed(h) \/ pointer[h] = "open"
    /\ stage[h] = "closed" => Issued(h) /\ lease[h].closed
    /\ stage[h] = "dropped" => ~Live(h)

HandleInv == \A h \in Lease : StageOf(h)

\* The device a slot names is the one its live owner opens.
Named ==
    \A h \in Lease :
        Live(h) /\ IsCurrent(h) /\ slots[lease[h].index].device # NoDevice
            => target[h] = slots[lease[h].index].device

\* A handle that answers for an index the SDK has open.
Answers(h, i) ==
    /\ target[h] = i /\ pointer[h] = "none"
    /\ \/ stage[h] \in {"opened", "closing"}
       \/ stage[h] \in {"held", "abandoned"} /\ IsCurrent(h)

\* An index that a failed Init of ZWO's has left open.
Leaked(i) == i \in Zwo /\ i \in leaked

Answered ==
    \A i \in Index : indexOpen[i] => Leaked(i) \/ \E h \in Lease : Answers(h, i)

ShimTypes ==
    /\ stage \in [Lease -> Stages]
    /\ target \in [Lease -> Index \cup Device \cup {NoDevice}]
    /\ forConnect \in [Lease -> BOOLEAN]
    /\ indexOpen \in [Index -> BOOLEAN]
    /\ pointer \in [Lease -> {"none", "open", "freed"}]
    /\ leaked \subseteq Index

ShimInv == LeaseInv /\ ShimTypes /\ HandleInv /\ Named

USE DEF Goto, Begin, Live, Indexed

-----------------------------------------------------------------------------
\* What a claim and a close of one lease mean for the others.

LEMMA ClaimEffect ==
    ASSUME LeaseInv, NEW h \in Lease, NEW i \in Int, NEW d \in Device \cup {NoDevice},
           Claim(h, i, d)
    PROVE  /\ ~Issued(h)
           /\ lease'[h].index = i /\ Live(h)' /\ IsCurrent(h)' /\ slots'[i].device = d
           /\ \A k \in Lease \ {h} :
                 /\ lease'[k] = lease[k]
                 /\ lease[k].index # i =>
                       /\ IsCurrent(k)' <=> IsCurrent(k)
                       /\ IsCurrent(k) => slots'[lease[k].index] = slots[lease[k].index]
  <1> DEFINE g == Generation(i) + 1
  <1>1. g \in Nat /\ g > 0
    BY DEF Generation, LeaseInv, TypeOK, Slot
  <1>2. /\ ~Issued(h)
        /\ slots' = [k \in DOMAIN slots \cup {i} |->
                        IF k = i THEN [generation |-> g, open |-> TRUE, device |-> d]
                                 ELSE slots[k]]
        /\ lease' = [lease EXCEPT ![h] = [index |-> i, generation |-> g, closed |-> FALSE]]
    BY DEF Claim
  <1> HIDE DEF g
  <1>3. /\ lease'[h] = [index |-> i, generation |-> g, closed |-> FALSE]
        /\ \A k \in Lease \ {h} : lease'[k] = lease[k]
    BY <1>2 DEF LeaseInv, TypeOK
  <1>4. /\ i \in DOMAIN slots'
        /\ slots'[i] = [generation |-> g, open |-> TRUE, device |-> d]
        /\ \A j \in DOMAIN slots : j # i => j \in DOMAIN slots' /\ slots'[j] = slots[j]
        /\ \A j \in DOMAIN slots' : j # i => j \in DOMAIN slots
    BY <1>2
  <1> QED  BY <1>1, <1>2, <1>3, <1>4 DEF Issued, IsCurrent

LEMMA CloseEffect ==
    ASSUME LeaseInv, NEW h \in Lease, BeginClose(h)
    PROVE  /\ Issued(h) /\ Issued(h)' /\ lease'[h].closed
           /\ \A k \in Lease \ {h} : lease'[k] = lease[k]
           /\ \A k \in Lease :
                 /\ IsCurrent(k)' => IsCurrent(k)
                 /\ IsCurrent(k)' => slots'[lease[k].index].device = slots[lease[k].index].device
                 /\ ~IsUnique(k) /\ IsCurrent(k) => IsCurrent(k)'
  <1>1. Issued(h) /\ lease' = [lease EXCEPT ![h].closed = TRUE]
    BY DEF BeginClose
  <1>2. /\ lease'[h].closed /\ lease'[h].index = lease[h].index
        /\ lease'[h].generation = lease[h].generation
        /\ \A k \in Lease \ {h} : lease'[k] = lease[k]
    BY <1>1 DEF LeaseInv, TypeOK, LeaseFields
  <1>3. /\ DOMAIN slots' \subseteq DOMAIN slots
        /\ \A j \in DOMAIN slots' : /\ slots'[j].generation = slots[j].generation
                                    /\ slots'[j].device = slots[j].device
        /\ \A j \in DOMAIN slots \ DOMAIN slots' : j < 0
    BY DEF BeginClose, AuthoriseClose, RefuseClose, IsCurrent, IsUnique, LeaseInv, TypeOK, Slot
  <1> QED  BY <1>1, <1>2, <1>3 DEF Issued, IsCurrent, IsUnique

\* A handle that takes a slot of its own is alone on it.
LEMMA UniqueIndexIsNew ==
    ASSUME LeaseInv, NEW k \in Lease, Issued(k)
    PROVE  lease[k].index # NextUniqueIndex /\ NextUniqueIndex \in Int /\ NextUniqueIndex < 0
  BY DEF LeaseInv, LeasesWereClaimed, NextUniqueIndex, TypeOK, LeaseFields

-----------------------------------------------------------------------------
\* Every step keeps types, stages and names, action by action.  A step that
\* leaves the table alone moves one handle.

HandlesKept == ShimTypes' /\ HandleInv' /\ Named'

LEMMA TableAlone ==
    ASSUME ShimInv, UNCHANGED vars, NEW h \in Lease, StageOf(h)', ShimTypes',
           \A k \in Lease \ {h} : /\ stage'[k] = stage[k] /\ target'[k] = target[k]
                                  /\ pointer'[k] = pointer[k],
           Live(h) => target'[h] = target[h]
    PROVE  HandlesKept
  <1>1. \A k \in Lease : Live(k)' = Live(k) /\ Issued(k)' = Issued(k) /\ IsUnique(k)' = IsUnique(k)
    BY DEF vars, Issued, IsUnique
  <1>2. \A k \in Lease : IsCurrent(k)' = IsCurrent(k)
    BY DEF vars, IsCurrent
  <1>3. HandleInv'
    <2>1. ASSUME NEW k \in Lease, k # h PROVE StageOf(k)'
      BY <1>1, <2>1 DEF ShimInv, HandleInv, StageOf, vars
    <2> QED  BY <2>1 DEF HandleInv
  <1>4. Named'
    BY <1>1, <1>2 DEF ShimInv, Named, vars
  <1> QED  BY <1>3, <1>4 DEF HandlesKept

LEMMA ConnectIndexedStep ==
    ASSUME ShimInv, NEW h \in Lease, NEW i \in Index, ConnectIndexed(h, i)
    PROVE  HandlesKept
  <1>1. UNCHANGED vars /\ ShimTypes'
    BY DEF ConnectIndexed, ShimInv, ShimTypes, Stages
  <1>2. StageOf(h)
    BY DEF ShimInv, HandleInv
  <1>3. StageOf(h)' /\ (Live(h) => target'[h] = target[h])
    BY <1>1, <1>2 DEF ConnectIndexed, StageOf, ShimInv, ShimTypes, vars, Issued, IsUnique
  <1>4. \A k \in Lease \ {h} : /\ stage'[k] = stage[k] /\ target'[k] = target[k]
                                 /\ pointer'[k] = pointer[k]
    BY DEF ConnectIndexed, ShimInv, ShimTypes
  <1> QED  BY <1>1, <1>3, <1>4, TableAlone

LEMMA DescribeIndexedStep ==
    ASSUME ShimInv, NEW h \in Lease, NEW i \in Index, DescribeIndexed(h, i)
    PROVE  HandlesKept
  <1>1. UNCHANGED vars /\ ShimTypes'
    BY DEF DescribeIndexed, ShimInv, ShimTypes, Stages
  <1>2. StageOf(h)
    BY DEF ShimInv, HandleInv
  <1>3. StageOf(h)' /\ (Live(h) => target'[h] = target[h])
    BY <1>1, <1>2 DEF DescribeIndexed, StageOf, ShimInv, ShimTypes, vars, Issued, IsUnique
  <1>4. \A k \in Lease \ {h} : /\ stage'[k] = stage[k] /\ target'[k] = target[k]
                                 /\ pointer'[k] = pointer[k]
    BY DEF DescribeIndexed, ShimInv, ShimTypes
  <1> QED  BY <1>1, <1>3, <1>4, TableAlone

LEMMA OpenIndexedStep ==
    ASSUME ShimInv, NEW h \in Lease, OpenIndexed(h)
    PROVE  HandlesKept
  <1>1. UNCHANGED vars /\ ShimTypes'
    BY DEF OpenIndexed, ShimInv, ShimTypes, Stages
  <1>2. StageOf(h)
    BY DEF ShimInv, HandleInv
  <1>3. StageOf(h)' /\ (Live(h) => target'[h] = target[h])
    BY <1>1, <1>2 DEF OpenIndexed, StageOf, ShimInv, ShimTypes, vars, Issued, IsUnique
  <1>4. \A k \in Lease \ {h} : /\ stage'[k] = stage[k] /\ target'[k] = target[k]
                                 /\ pointer'[k] = pointer[k]
    BY DEF OpenIndexed, ShimInv, ShimTypes
  <1> QED  BY <1>1, <1>3, <1>4, TableAlone

LEMMA FailOpenIndexedStep ==
    ASSUME ShimInv, NEW h \in Lease, FailOpenIndexed(h)
    PROVE  HandlesKept
  <1>1. UNCHANGED vars /\ ShimTypes'
    BY DEF FailOpenIndexed, ShimInv, ShimTypes, Stages
  <1>2. StageOf(h)
    BY DEF ShimInv, HandleInv
  <1>3. StageOf(h)' /\ (Live(h) => target'[h] = target[h])
    BY <1>1, <1>2 DEF FailOpenIndexed, StageOf, ShimInv, ShimTypes, vars, Issued, IsUnique
  <1>4. \A k \in Lease \ {h} : /\ stage'[k] = stage[k] /\ target'[k] = target[k]
                                 /\ pointer'[k] = pointer[k]
    BY DEF FailOpenIndexed, ShimInv, ShimTypes
  <1> QED  BY <1>1, <1>3, <1>4, TableAlone

LEMMA FailInitPlayerOneStep ==
    ASSUME ShimInv, NEW h \in Lease, FailInitPlayerOne(h)
    PROVE  HandlesKept
  <1>1. UNCHANGED vars /\ ShimTypes'
    BY DEF FailInitPlayerOne, FailsAfterOpen, ShimInv, ShimTypes, Stages
  <1>2. StageOf(h)
    BY DEF ShimInv, HandleInv
  <1>3. StageOf(h)' /\ (Live(h) => target'[h] = target[h])
    BY <1>1, <1>2 DEF FailInitPlayerOne, FailsAfterOpen, StageOf, ShimInv, ShimTypes, vars, Issued, IsUnique
  <1>4. \A k \in Lease \ {h} : /\ stage'[k] = stage[k] /\ target'[k] = target[k]
                                 /\ pointer'[k] = pointer[k]
    BY DEF FailInitPlayerOne, FailsAfterOpen, ShimInv, ShimTypes
  <1> QED  BY <1>1, <1>3, <1>4, TableAlone

LEMMA FailInitZwoStep ==
    ASSUME ShimInv, NEW h \in Lease, FailInitZwo(h)
    PROVE  HandlesKept
  <1>1. UNCHANGED vars /\ ShimTypes'
    BY VendorAssumption DEF FailInitZwo, FailsAfterOpen, ShimInv, ShimTypes, Stages
  <1>2. StageOf(h)
    BY DEF ShimInv, HandleInv
  <1>3. StageOf(h)' /\ (Live(h) => target'[h] = target[h])
    BY <1>1, <1>2 DEF FailInitZwo, FailsAfterOpen, StageOf, ShimInv, ShimTypes, vars, Issued, IsUnique
  <1>4. \A k \in Lease \ {h} : /\ stage'[k] = stage[k] /\ target'[k] = target[k]
                                 /\ pointer'[k] = pointer[k]
    BY DEF FailInitZwo, FailsAfterOpen, ShimInv, ShimTypes
  <1> QED  BY <1>1, <1>3, <1>4, TableAlone

LEMMA OpenQhyStep ==
    ASSUME ShimInv, NEW h \in Lease, OpenQhy(h)
    PROVE  HandlesKept
  <1>1. UNCHANGED vars /\ ShimTypes'
    BY DEF OpenQhy, ShimInv, ShimTypes, Stages
  <1>2. StageOf(h)
    BY DEF ShimInv, HandleInv
  <1>3. StageOf(h)' /\ (Live(h) => target'[h] = target[h])
    BY <1>1, <1>2 DEF OpenQhy, StageOf, ShimInv, ShimTypes, vars, Issued, IsUnique
  <1>4. \A k \in Lease \ {h} : /\ stage'[k] = stage[k] /\ target'[k] = target[k]
                                 /\ pointer'[k] = pointer[k]
    BY DEF OpenQhy, ShimInv, ShimTypes
  <1> QED  BY <1>1, <1>3, <1>4, TableAlone

LEMMA OpenTouptekStep ==
    ASSUME ShimInv, NEW h \in Lease, OpenTouptek(h)
    PROVE  HandlesKept
  <1>1. UNCHANGED vars /\ ShimTypes'
    BY DEF OpenTouptek, ShimInv, ShimTypes, Stages
  <1>2. StageOf(h)
    BY DEF ShimInv, HandleInv
  <1>3. StageOf(h)' /\ (Live(h) => target'[h] = target[h])
    BY <1>1, <1>2 DEF OpenTouptek, StageOf, ShimInv, ShimTypes, vars, Issued, IsUnique
  <1>4. \A k \in Lease \ {h} : /\ stage'[k] = stage[k] /\ target'[k] = target[k]
                                 /\ pointer'[k] = pointer[k]
    BY DEF OpenTouptek, ShimInv, ShimTypes
  <1> QED  BY <1>1, <1>3, <1>4, TableAlone

LEMMA AbandonStep ==
    ASSUME ShimInv, NEW h \in Lease, Abandon(h)
    PROVE  HandlesKept
  <1>1. UNCHANGED vars /\ ShimTypes'
    BY DEF Abandon, ShimInv, ShimTypes, Stages
  <1>2. StageOf(h)
    BY DEF ShimInv, HandleInv
  <1>3. StageOf(h)' /\ (Live(h) => target'[h] = target[h])
    BY <1>1, <1>2 DEF Abandon, StageOf, ShimInv, ShimTypes, vars, Issued, IsUnique
  <1>4. \A k \in Lease \ {h} : /\ stage'[k] = stage[k] /\ target'[k] = target[k]
                                 /\ pointer'[k] = pointer[k]
    BY DEF Abandon, ShimInv, ShimTypes
  <1> QED  BY <1>1, <1>3, <1>4, TableAlone

LEMMA VendorCloseStep ==
    ASSUME ShimInv, NEW h \in Lease, VendorClose(h)
    PROVE  HandlesKept
  <1>1. UNCHANGED vars /\ ShimTypes'
    BY DEF VendorClose, ShimInv, ShimTypes, Stages
  <1>2. StageOf(h)
    BY DEF ShimInv, HandleInv
  <1>3. StageOf(h)' /\ (Live(h) => target'[h] = target[h])
    BY <1>1, <1>2 DEF VendorClose, StageOf, ShimInv, ShimTypes, vars, Issued, IsUnique
  <1>4. \A k \in Lease \ {h} : /\ stage'[k] = stage[k] /\ target'[k] = target[k]
                                 /\ pointer'[k] = pointer[k]
    BY DEF VendorClose, ShimInv, ShimTypes
  <1> QED  BY <1>1, <1>3, <1>4, TableAlone

-----------------------------------------------------------------------------
\* The steps that claim a slot: the handle owns it, and every other keeps
\* what it had.

LEMMA ClaimedStep ==
    ASSUME ShimInv, NEW h \in Lease, NEW i \in Int, NEW d \in Device \cup {NoDevice},
           Claim(h, i, d), d # NoDevice => i < 0 /\ target'[h] = d,
           d # NoDevice => \A k \in Lease : Issued(k) => lease[k].index # i,
           ShimTypes', StageOf(h)',
           \A k \in Lease \ {h} : /\ stage'[k] = stage[k] /\ target'[k] = target[k]
                                  /\ pointer'[k] = pointer[k]
    PROVE  HandlesKept
  <1>1. LeaseInv
    BY DEF ShimInv
  <1>2. /\ lease'[h].index = i /\ slots'[i].device = d
        /\ \A k \in Lease \ {h} :
              /\ lease'[k] = lease[k]
              /\ lease[k].index # i =>
                    /\ IsCurrent(k)' <=> IsCurrent(k)
                    /\ IsCurrent(k) => slots'[lease[k].index] = slots[lease[k].index]
    BY <1>1, ClaimEffect
  <1>3. \A k \in Lease \ {h} : Live(k)' = Live(k) /\ Issued(k)' = Issued(k) /\ IsUnique(k)' = IsUnique(k)
    BY <1>2 DEF Issued, IsUnique
  <1>4. HandleInv'
    <2>1. ASSUME NEW k \in Lease, k # h PROVE StageOf(k)'
      BY <1>2, <1>3, <2>1 DEF ShimInv, HandleInv, StageOf
    <2> QED  BY <2>1 DEF HandleInv
  <1>5. Named'
    <2> SUFFICES ASSUME NEW k \in Lease, Live(k)', IsCurrent(k)',
                        slots'[lease'[k].index].device # NoDevice
                 PROVE  target'[k] = slots'[lease'[k].index].device
      BY DEF Named
    <2>1. CASE k = h
      BY <1>2, <2>1
    <2>2. CASE k # h /\ lease[k].index = i
      BY <1>2, <1>3, <2>2
    <2>3. CASE k # h /\ lease[k].index # i
      BY <1>2, <1>3, <2>3 DEF ShimInv, Named
    <2> QED  BY <2>1, <2>2, <2>3
  <1> QED  BY <1>4, <1>5 DEF HandlesKept

LEMMA LeaseIndexedStep ==
    ASSUME ShimInv, NEW h \in Lease, LeaseIndexed(h)
    PROVE  HandlesKept /\ target[h] \in Index /\ Acquire(h, target[h])
  <1>1. target[h] \in Index /\ target[h] \in Int /\ target[h] >= 0
    <2>1. StageOf(h)
      BY DEF ShimInv, HandleInv
    <2>2. target[h] \in Index
      BY <2>1 DEF LeaseIndexed, StageOf
    <2>3. target[h] \in Nat
      BY <2>2, IndexAssumption
    <2> QED  BY <2>2, <2>3
  <1>2. Claim(h, target[h], NoDevice) /\ Acquire(h, target[h])
    BY DEF LeaseIndexed, Acquire
  <1>3. ShimTypes'
    BY DEF LeaseIndexed, ShimInv, ShimTypes, Stages
  <1>4. /\ stage'[h] = "held" /\ target' = target /\ pointer' = pointer /\ pointer[h] = "none"
        /\ \A k \in Lease \ {h} : stage'[k] = stage[k]
    BY DEF LeaseIndexed, ShimInv, ShimTypes
  <1>5. Live(h)' /\ lease'[h].index = target[h]
    BY <1>1, <1>2, ClaimEffect DEF ShimInv
  <1>6. StageOf(h)'
    BY <1>1, <1>4, <1>5 DEF StageOf
  <1> QED  BY <1>1, <1>2, <1>3, <1>4, <1>6, ClaimedStep

LEMMA ClaimQhyStep ==
    ASSUME ShimInv, NEW h \in Lease, NEW d \in Device, ClaimQhy(h, d)
    PROVE  HandlesKept
  <1>1. \A k \in Lease : Issued(k) => lease[k].index # NextUniqueIndex
    BY UniqueIndexIsNew DEF ShimInv
  <1>2. NextUniqueIndex \in Int /\ NextUniqueIndex < 0
    BY DEF ShimInv, LeaseInv, TypeOK, NextUniqueIndex
  <1>3. Claim(h, NextUniqueIndex, d)
    BY DEF ClaimQhy, TryAcquireUniqueDevice
  <1>4. ShimTypes'
    BY DEF ClaimQhy, ShimInv, ShimTypes, Stages
  <1>5. /\ stage'[h] = "claimed" /\ target'[h] = d /\ pointer' = pointer /\ stage[h] = "new"
        /\ \A k \in Lease \ {h} : stage'[k] = stage[k] /\ target'[k] = target[k]
    BY DEF ClaimQhy, ShimInv, ShimTypes
  <1>6. Live(h)' /\ lease'[h].index = NextUniqueIndex
    BY <1>2, <1>3, ClaimEffect DEF ShimInv
  <1>7. pointer[h] = "none"
    BY <1>5 DEF ShimInv, HandleInv, StageOf
  <1>8. StageOf(h)'
    BY <1>2, <1>5, <1>6, <1>7 DEF StageOf, IsUnique
  <1> QED  BY <1>1, <1>2, <1>3, <1>4, <1>5, <1>8, ClaimedStep

LEMMA LeaseTouptekStep ==
    ASSUME ShimInv, NEW h \in Lease, LeaseTouptek(h)
    PROVE  HandlesKept
  <1>1. NextUniqueIndex \in Int /\ NextUniqueIndex < 0
    BY DEF ShimInv, LeaseInv, TypeOK, NextUniqueIndex
  <1>2. Claim(h, NextUniqueIndex, NoDevice)
    BY DEF LeaseTouptek, AcquireUnique
  <1>3. ShimTypes'
    BY DEF LeaseTouptek, ShimInv, ShimTypes, Stages
  <1>4. /\ stage'[h] = "held" /\ target' = target /\ pointer' = pointer /\ pointer[h] = "open"
        /\ \A k \in Lease \ {h} : stage'[k] = stage[k]
    BY DEF LeaseTouptek, ShimInv, ShimTypes
  <1>5. Live(h)' /\ lease'[h].index = NextUniqueIndex
    BY <1>1, <1>2, ClaimEffect DEF ShimInv
  <1>6. StageOf(h)'
    BY <1>1, <1>4, <1>5 DEF StageOf, IsUnique
  <1> QED  BY <1>1, <1>2, <1>3, <1>4, <1>6, ClaimedStep

-----------------------------------------------------------------------------
\* The steps that ask the table for a close.

LEMMA ClosedStep ==
    ASSUME ShimInv, NEW h \in Lease, BeginClose(h), ShimTypes', StageOf(h)',
           target' = target, pointer' = pointer,
           \A k \in Lease \ {h} : stage'[k] = stage[k]
    PROVE  HandlesKept
  <1>1. /\ Issued(h)' /\ lease'[h].closed
        /\ \A k \in Lease \ {h} : lease'[k] = lease[k]
        /\ \A k \in Lease :
              /\ IsCurrent(k)' => IsCurrent(k)
              /\ IsCurrent(k)' => slots'[lease[k].index].device = slots[lease[k].index].device
    BY CloseEffect DEF ShimInv
  <1>2. \A k \in Lease \ {h} : Live(k)' = Live(k) /\ Issued(k)' = Issued(k) /\ IsUnique(k)' = IsUnique(k)
    BY <1>1 DEF Issued, IsUnique
  <1>3. HandleInv'
    <2>1. ASSUME NEW k \in Lease, k # h PROVE StageOf(k)'
      BY <1>1, <1>2, <2>1 DEF ShimInv, HandleInv, StageOf
    <2> QED  BY <2>1 DEF HandleInv
  <1>4. Named'
    BY <1>1, <1>2 DEF ShimInv, Named
  <1> QED  BY <1>3, <1>4 DEF HandlesKept

LEMMA FailOpenQhyStep ==
    ASSUME ShimInv, NEW h \in Lease, FailOpenQhy(h)
    PROVE  HandlesKept
  <1>1. ShimTypes' /\ BeginClose(h)
    BY DEF FailOpenQhy, ShimInv, ShimTypes, Stages
  <1>2. /\ stage'[h] = "dropped" /\ target' = target /\ pointer' = pointer
        /\ \A k \in Lease \ {h} : stage'[k] = stage[k]
    BY DEF FailOpenQhy, ShimInv, ShimTypes
  <1>3. Issued(h)' /\ lease'[h].closed
    BY <1>1, CloseEffect DEF ShimInv
  <1>4. StageOf(h)'
    BY <1>2, <1>3 DEF StageOf
  <1> QED  BY <1>1, <1>2, <1>4, ClosedStep

LEMMA BeginVendorCloseStep ==
    ASSUME ShimInv, NEW h \in Lease, BeginVendorClose(h)
    PROVE  HandlesKept
  <1>1. ShimTypes' /\ BeginClose(h) /\ stage[h] \in {"held", "abandoned"}
    BY DEF BeginVendorClose, ShimInv, ShimTypes, Stages
  <1>2. /\ stage'[h] \in {"closing", "closed"} /\ target' = target /\ pointer' = pointer
        /\ \A k \in Lease \ {h} : stage'[k] = stage[k]
    BY DEF BeginVendorClose, ShimInv, ShimTypes
  <1>3. Issued(h)' /\ lease'[h].closed
    BY <1>1, CloseEffect DEF ShimInv
  <1>4. Indexed(h) \/ pointer[h] = "open"
    BY <1>1 DEF ShimInv, HandleInv, StageOf
  <1>5. StageOf(h)'
    BY <1>2, <1>3, <1>4 DEF StageOf
  <1> QED  BY <1>1, <1>2, <1>5, ClosedStep

\* A second call authorises nothing.
LEMMA DropClosedStep ==
    ASSUME ShimInv, NEW h \in Lease, DropClosed(h)
    PROVE  HandlesKept /\ stage'[h] = "dropped"
  <1>1. ShimTypes' /\ BeginClose(h) /\ lease[h].closed
    BY DEF DropClosed, ShimInv, ShimTypes, HandleInv, StageOf, Stages
  <1>2. /\ stage'[h] = "dropped" /\ target' = target /\ pointer' = pointer
        /\ \A k \in Lease \ {h} : stage'[k] = stage[k]
    BY <1>1 DEF DropClosed, AuthoriseClose, ShimInv, ShimTypes
  <1>3. Issued(h)' /\ lease'[h].closed
    BY <1>1, CloseEffect DEF ShimInv
  <1>4. StageOf(h)'
    BY <1>2, <1>3 DEF StageOf
  <1> QED  BY <1>1, <1>2, <1>4, ClosedStep

-----------------------------------------------------------------------------
\* Whatever a shim does to the table is one of the table's own operations.

LEMMA TableStep ==
    ASSUME ShimInv, [ShimNext]_allVars
    PROVE  [Next]_vars
  <1>1. ASSUME NEW h \in Lease, LeaseIndexed(h)
        PROVE  Next
    BY <1>1, LeaseIndexedStep DEF Next
  <1>2. ASSUME NEW h \in Lease, NEW d \in Device, ClaimQhy(h, d)
        PROVE  Next
    BY <1>2 DEF ClaimQhy, Next
  <1>3. ASSUME NEW h \in Lease, LeaseTouptek(h)
        PROVE  Next
    BY <1>3 DEF LeaseTouptek, Next
  <1>4. ASSUME NEW h \in Lease, FailOpenQhy(h) \/ BeginVendorClose(h) \/ DropClosed(h)
        PROVE  Next
    BY <1>4 DEF FailOpenQhy, BeginVendorClose, DropClosed, Next
  <1>5. ASSUME NEW h \in Lease,
               \/ \E i \in Index : ConnectIndexed(h, i) \/ DescribeIndexed(h, i)
               \/ OpenIndexed(h) \/ FailOpenIndexed(h) \/ FailInitPlayerOne(h) \/ FailInitZwo(h)
               \/ OpenQhy(h) \/ OpenTouptek(h) \/ Abandon(h) \/ VendorClose(h)
        PROVE  UNCHANGED vars
    BY <1>5 DEF ConnectIndexed, DescribeIndexed, OpenIndexed, FailOpenIndexed, FailsAfterOpen,
                FailInitPlayerOne, FailInitZwo, OpenQhy, OpenTouptek, Abandon, VendorClose
  <1>6. UNCHANGED allVars => UNCHANGED vars
    BY DEF allVars
  <1> QED  BY <1>1, <1>2, <1>3, <1>4, <1>5, <1>6 DEF ShimNext

LEMMA ShimInitInv == ShimInit => ShimInv
  <1>1. ShimInit => Init
    BY DEF ShimInit
  <1>2. ShimInit => ShimTypes /\ HandleInv /\ Named
    BY DEF ShimInit, Init, ShimTypes, Stages, HandleInv, StageOf, Named, Issued
  <1> QED  BY <1>1, <1>2, InitInv DEF ShimInv

LEMMA ShimStepInv == ShimInv /\ [ShimNext]_allVars => ShimInv'
  <1> SUFFICES ASSUME ShimInv, [ShimNext]_allVars
               PROVE  ShimInv'
    OBVIOUS
  <1>1. LeaseInv'
    BY TableStep, StepInv DEF ShimInv
  <1>2. ASSUME NEW h \in Lease,
               \/ \E i \in Index : ConnectIndexed(h, i) \/ DescribeIndexed(h, i)
               \/ OpenIndexed(h) \/ FailOpenIndexed(h) \/ FailInitPlayerOne(h) \/ FailInitZwo(h) \/ LeaseIndexed(h)
        PROVE  HandlesKept
    BY <1>2, ConnectIndexedStep, DescribeIndexedStep, OpenIndexedStep, FailOpenIndexedStep,
       FailInitPlayerOneStep, FailInitZwoStep, LeaseIndexedStep
  <1>3. ASSUME NEW h \in Lease,
               \/ \E d \in Device : ClaimQhy(h, d)
               \/ OpenQhy(h) \/ FailOpenQhy(h) \/ OpenTouptek(h) \/ LeaseTouptek(h)
        PROVE  HandlesKept
    BY <1>3, ClaimQhyStep, OpenQhyStep, FailOpenQhyStep, OpenTouptekStep, LeaseTouptekStep
  <1>4. ASSUME NEW h \in Lease,
               Abandon(h) \/ BeginVendorClose(h) \/ DropClosed(h) \/ VendorClose(h)
        PROVE  HandlesKept
    BY <1>4, AbandonStep, BeginVendorCloseStep, DropClosedStep, VendorCloseStep
  <1>5. ASSUME UNCHANGED allVars
        PROVE  HandlesKept
    BY <1>5 DEF allVars, vars, shimVars, HandlesKept, ShimInv, ShimTypes, HandleInv, StageOf,
                Named, Issued, IsUnique, IsCurrent
  <1>6. HandlesKept
    BY <1>2, <1>3, <1>4, <1>5 DEF ShimNext
  <1> QED  BY <1>1, <1>6 DEF ShimInv, HandlesKept

\* ShimInv holds in every reachable state.
THEOREM ShimInvariance == ShimSpec => []ShimInv
  BY ShimInitInv, ShimStepInv, PTL DEF ShimSpec

-----------------------------------------------------------------------------
\* The shims use the table as DeviceLease says: what is proved of every use
\* of it holds of theirs.
THEOREM UsesTheTable == ShimSpec => Spec
  <1>1. ShimInit => Init
    BY DEF ShimInit
  <1> QED  BY <1>1, ShimInvariance, TableStep, PTL DEF ShimSpec, Spec

\* One vendor close per lease, open slots tell the newest handle and owners
\* are exclusive, whichever shims' handles share the table.
THEOREM TableIsRight ==
    ShimSpec => [](OneClosePerLease /\ OpenTellsTheNewestHandle /\ OwnersAreExclusive)
  BY UsesTheTable, OneClose, OpenIsTruthful, Exclusive, PTL

\* The handles, the SDKs and the table keep their types.
THEOREM ShimTypeCorrect == ShimSpec => []ShimTypeOK
  <1>1. ShimInv => ShimTypeOK
    BY DEF ShimInv, ShimTypes, ShimTypeOK, LeaseInv
  <1> QED  BY <1>1, ShimInvariance, PTL

\* A freed pointer is never closed again, for any number of handles in any
\* mixture of explicit closes, abandoned calls and drops.
THEOREM NoFreedPointerIsClosed == ShimSpec => []NoCloseOfAFreedPointer
  <1>1. ShimInv => NoCloseOfAFreedPointer
    BY DEF ShimInv, HandleInv, StageOf, NoCloseOfAFreedPointer
  <1> QED  BY <1>1, ShimInvariance, PTL

-----------------------------------------------------------------------------
\* Every index the SDK has open is answered for.  A step of one handle leaves
\* the answers of the others.

LEMMA AnswerStays ==
    ASSUME NEW k \in Lease, NEW i \in Index, ShimInv, Answers(k, i),
           stage'[k] = stage[k], target'[k] = target[k], pointer'[k] = pointer[k],
           ~IsUnique(k) /\ IsCurrent(k) /\ lease[k].index = i => IsCurrent(k)'
    PROVE  Answers(k, i)'
  <1>1. stage[k] \in {"held", "abandoned"} => lease[k].index = i /\ ~IsUnique(k)
    <2>1. i \in Nat
      BY IndexAssumption
    <2> QED  BY <2>1 DEF Answers, ShimInv, HandleInv, StageOf, IsUnique
  <1> QED  BY <1>1 DEF Answers

\* What each step must leave: an answer of its own handle, or another's.
LEMMA OthersAnswer ==
    ASSUME ShimInv, Answered, NEW h \in Lease,
           \A k \in Lease \ {h} :
              /\ stage'[k] = stage[k] /\ target'[k] = target[k] /\ pointer'[k] = pointer[k]
              /\ \A i \in Index : ~IsUnique(k) /\ IsCurrent(k) /\ lease[k].index = i /\ indexOpen'[i]
                    => IsCurrent(k)' \/ Answers(h, i)',
           \A i \in Index : indexOpen'[i] /\ ~Leaked(i)' =>
              /\ (indexOpen[i] /\ ~Leaked(i)) \/ Answers(h, i)'
              /\ Answers(h, i) => Answers(h, i)'
    PROVE  Answered'
  <1> SUFFICES ASSUME NEW i \in Index, indexOpen'[i], ~Leaked(i)', ~Answers(h, i)'
               PROVE  \E k \in Lease : Answers(k, i)'
    BY DEF Answered
  <1>1. PICK k \in Lease : Answers(k, i)
    BY DEF Answered
  <1>2. k # h
    BY <1>1
  <1>3. Answers(k, i)'
    BY <1>1, <1>2, AnswerStays
  <1> QED  BY <1>3

LEMMA QuietAnswered ==
    ASSUME ShimInv, Answered, NEW h \in Lease,
           \/ \E i \in Index : ConnectIndexed(h, i) \/ DescribeIndexed(h, i)
           \/ OpenIndexed(h) \/ FailOpenIndexed(h) \/ FailInitPlayerOne(h) \/ FailInitZwo(h)
           \/ OpenQhy(h) \/ OpenTouptek(h) \/ Abandon(h) \/ VendorClose(h)
    PROVE  Answered'
  <1> USE DEF ConnectIndexed, DescribeIndexed, OpenIndexed, FailOpenIndexed, FailsAfterOpen,
              FailInitPlayerOne, FailInitZwo, OpenQhy, OpenTouptek, Abandon, VendorClose
  <1>1. UNCHANGED vars /\ ShimTypes /\ StageOf(h)
    BY DEF ShimInv, HandleInv
  <1>2. \A k \in Lease : IsCurrent(k)' = IsCurrent(k)
    BY <1>1 DEF vars, IsCurrent
  <1>3. \A k \in Lease \ {h} :
           stage'[k] = stage[k] /\ target'[k] = target[k] /\ pointer'[k] = pointer[k]
    BY <1>1 DEF ShimTypes
  <1>4. ASSUME NEW i \in Index, indexOpen'[i], ~Leaked(i)'
        PROVE  (indexOpen[i] /\ ~Leaked(i)) \/ Answers(h, i)'
    BY <1>1, <1>4 DEF ShimTypes, StageOf, Answers, Leaked
  <1>5. ASSUME NEW i \in Index, indexOpen'[i], ~Leaked(i)', Answers(h, i)
        PROVE  Answers(h, i)'
    BY <1>1, <1>2, <1>5 DEF ShimTypes, StageOf, Answers, Leaked
  <1> QED  BY <1>2, <1>3, <1>4, <1>5, OthersAnswer

LEMMA ClaimAnswered ==
    ASSUME ShimInv, Answered, NEW h \in Lease,
           LeaseIndexed(h) \/ LeaseTouptek(h) \/ \E d \in Device : ClaimQhy(h, d)
    PROVE  Answered'
  <1>1. ShimTypes /\ StageOf(h) /\ indexOpen' = indexOpen /\ leaked' = leaked
    BY DEF ShimInv, HandleInv, LeaseIndexed, LeaseTouptek, ClaimQhy
  <1>2. \A k \in Lease \ {h} :
           stage'[k] = stage[k] /\ target'[k] = target[k] /\ pointer'[k] = pointer[k]
    BY <1>1 DEF ShimTypes, LeaseIndexed, LeaseTouptek, ClaimQhy
  <1>3. NextUniqueIndex \in Int /\ NextUniqueIndex < 0
    BY DEF ShimInv, LeaseInv, TypeOK, NextUniqueIndex
  <1>4. CASE LeaseIndexed(h)
    <2>1. target[h] \in Index /\ target[h] \in Int /\ Claim(h, target[h], NoDevice)
      <3>1. target[h] \in Index /\ Claim(h, target[h], NoDevice)
        BY <1>4, LeaseIndexedStep DEF Acquire
      <3>2. target[h] \in Nat
        BY <3>1, IndexAssumption
      <3> QED  BY <3>1, <3>2
    <2>2. IsCurrent(h)' /\ \A k \in Lease \ {h} : lease[k].index # target[h] => (IsCurrent(k)' <=> IsCurrent(k))
      BY <2>1, ClaimEffect DEF ShimInv
    <2>3. \A i \in Index : i = target[h] => Answers(h, i)'
      BY <1>1, <1>4, <2>2 DEF LeaseIndexed, ShimTypes, Answers
    <2>4. \A i \in Index : Answers(h, i) => i = target[h]
      BY DEF Answers
    <2>5. \A k \in Lease \ {h} : \A i \in Index :
             IsCurrent(k) /\ lease[k].index = i => IsCurrent(k)' \/ Answers(h, i)'
      BY <2>2, <2>3
    <2>6. \A i \in Index : Answers(h, i) => Answers(h, i)'
      BY <2>3, <2>4
    <2> QED  BY <1>1, <1>2, <2>5, <2>6, OthersAnswer DEF Leaked
  <1>5. CASE LeaseTouptek(h) \/ \E d \in Device : ClaimQhy(h, d)
    <2>1. PICK d \in Device \cup {NoDevice} : Claim(h, NextUniqueIndex, d)
      BY <1>5 DEF LeaseTouptek, AcquireUnique, ClaimQhy, TryAcquireUniqueDevice
    <2>2. \A k \in Lease \ {h} : lease[k].index # NextUniqueIndex => (IsCurrent(k)' <=> IsCurrent(k))
      BY <1>3, <2>1, ClaimEffect DEF ShimInv
    <2>3. \A i \in Index : ~Answers(h, i) /\ i # NextUniqueIndex
      BY <1>3, <1>5, IndexAssumption DEF Answers, LeaseTouptek, ClaimQhy
    <2> QED  BY <1>1, <1>2, <2>2, <2>3, OthersAnswer DEF Leaked
  <1> QED  BY <1>4, <1>5

LEMMA CloseAnswered ==
    ASSUME ShimInv, Answered, NEW h \in Lease,
           FailOpenQhy(h) \/ BeginVendorClose(h) \/ DropClosed(h)
    PROVE  Answered'
  <1> USE DEF FailOpenQhy, BeginVendorClose, DropClosed
  <1>1. ShimTypes /\ StageOf(h) /\ indexOpen' = indexOpen /\ leaked' = leaked /\ BeginClose(h)
    BY DEF ShimInv, HandleInv
  <1>2. \A k \in Lease \ {h} :
           stage'[k] = stage[k] /\ target'[k] = target[k] /\ pointer'[k] = pointer[k]
    BY <1>1 DEF ShimTypes
  <1>3. \A k \in Lease : ~IsUnique(k) /\ IsCurrent(k) => IsCurrent(k)'
    BY <1>1, CloseEffect DEF ShimInv
  <1>4. ASSUME NEW i \in Index, Answers(h, i)
        PROVE  Answers(h, i)'
    <2>1. BeginVendorClose(h) /\ IsCurrent(h) /\ ~lease[h].closed
      BY <1>1, <1>4 DEF Answers, StageOf
    <2>2. AuthoriseClose(h)
      BY <1>1, <2>1 DEF BeginClose, RefuseClose
    <2> QED  BY <1>1, <1>4, <2>1, <2>2 DEF ShimTypes, Answers
  <1> QED  BY <1>1, <1>2, <1>3, <1>4, OthersAnswer DEF Leaked

LEMMA AnsweredStep ==
    ShimInv /\ Answered /\ [ShimNext]_allVars => Answered'
  <1> SUFFICES ASSUME ShimInv, Answered, [ShimNext]_allVars
               PROVE  Answered'
    OBVIOUS
  <1>1. CASE UNCHANGED allVars
    BY <1>1 DEF allVars, vars, shimVars, Answered, Answers, Leaked, IsCurrent
  <1> QED  BY <1>1, QuietAnswered, ClaimAnswered, CloseAnswered DEF ShimNext

\* A device is open or claimed with nobody to let go of it only where an Init
\* of ZWO's failed, whatever mixture of vendors the indices are.
THEOREM NothingStaysOpen == ShimSpec => []NothingIsLeftOpen
  <1>1. ShimInit => Answered
    BY DEF ShimInit, Answered
  <1>2. ShimSpec => []Answered
    BY <1>1, ShimInvariance, AnsweredStep, PTL DEF ShimSpec
  <1>3. ShimInv /\ Answered => NothingIsLeftOpen
    <2> SUFFICES ASSUME ShimInv, Answered
                 PROVE  NothingIsLeftOpen
      OBVIOUS
    <2>1. ASSUME NEW d \in Device, NamesOpenDevice(d)
          PROVE  \E h \in Lease : target[h] = d /\ stage[h] \in {"claimed", "held", "abandoned"}
      <3>1. PICK i \in DOMAIN slots : slots[i].open /\ slots[i].device = d
        BY <2>1 DEF NamesOpenDevice
      <3>2. PICK h \in Lease : Live(h) /\ IsCurrent(h) /\ lease[h].index = i
        BY <3>1 DEF ShimInv, LeaseInv, OpenTellsTheNewestHandle
      <3>3. target[h] = d
        BY <3>1, <3>2, DeviceAssumption DEF ShimInv, Named
      <3>4. stage[h] \in {"claimed", "held", "abandoned"}
        BY <3>2 DEF ShimInv, ShimTypes, Stages, HandleInv, StageOf
      <3> QED  BY <3>3, <3>4
    <2> QED  BY <2>1 DEF Answered, Answers, Leaked, NothingIsLeftOpen
  <1> QED  BY <1>2, <1>3, ShimInvariance, PTL

=============================================================================
