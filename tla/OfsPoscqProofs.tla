--------------------------- MODULE OfsPoscqProofs ---------------------------
(* Proofs about the queue of unfinished files, for any number of files,    *)
(* slots, crashes and write errors.                                        *)
EXTENDS OfsPoscq, SequenceTheorems, FiniteSetTheorems, WellFoundedInduction, TLAPS

(***************************************************************************)
(* The inductive invariant.  The first part holds in every state: where an *)
(* open or a handle is says that it has a slot.                            *)
(***************************************************************************)
Stages ==
  /\ \A p \in Paths : opc[p] # "idle" => poscNum[p] # 0
  /\ \A p \in Paths : opc[p] = "idle" => poscNum[p] = 0
  /\ \A p \in Paths : hand[p] # "none" => Unum[p] # 0
  /\ \A p \in Paths : hand[p] = "none" => Unum[p] = 0 /\ ssi[p] = "none"
  /\ \A p \in Paths : opc[p] = "attached" <=> hand[p] = "locked"
  /\ \A p \in Paths : opc[p] = "attached" => Unum[p] = poscNum[p]
  /\ up # "up" => \A p \in Paths : /\ opc[p] = "idle" /\ hand[p] \in {"none", "held"}
                                  /\ ssi[p] = "none"
  /\ up = "down" => /\ SlotList = << >> /\ pocSZ = 0 /\ todo = << >>
                    /\ \A p \in Paths : hand[p] = "none"
  /\ up = "up" => todo = << >>

(***************************************************************************)
(* The other parts hold as long as the users of a file were not at odds.   *)
(***************************************************************************)

\* The handle's storage is the file of its name while the client may write.
Storage ==
  \A p \in Paths :
    /\ hand[p] \in {"locked", "open", "closing"} => ssi[p] = "named"
    /\ hand[p] = "held" => ssi[p] # "gone"
    /\ hand[p] # "failed"
    /\ opc[p] = "removed" => hand[p] = "none" /\ file[p] = "none"
    /\ hand[p] = "closing" /\ opc[p] = "idle" => file[p] = "whole"
    /\ hand[p] = "expired" /\ opc[p] = "idle" => file[p] = "none"

\* The slots that are free: each once, and without a record.
FreeSlots ==
  /\ \A i \in 1 .. Len(SlotList) : rec[SlotList[i]] = Empty /\ SlotList[i] <= pocSZ
  /\ \A i, j \in 1 .. Len(SlotList) : SlotList[i] = SlotList[j] => i = j
  /\ up # "down" => \A n \in Slots : rec[n] # Empty => n <= pocSZ

\* The slots of handles and of opens have a record of their file, which is
\* complete, if there are two, at most in the handle's slot.
Owned ==
  \A p \in Paths :
    /\ Unum[p] # 0 => rec[Unum[p]].LFN = p
    /\ poscNum[p] # 0 => rec[poscNum[p]].LFN = p
    /\ pqMap[p] # 0 => rec[pqMap[p]].LFN = p
    /\ up # "up" /\ Unum[p] # 0 => rec[Unum[p]].addT

\* The records that are to be recovered: each once.
ToDo ==
  /\ \A i \in 1 .. Len(todo) : rec[todo[i]].LFN # NoPath
  /\ \A i, j \in 1 .. Len(todo) : todo[i] = todo[j] => i = j

\* Every record has an owner or is to be recovered; a complete one is the
\* handle's, and a file never has two of them.
Owner ==
  /\ \A p \in Paths, n \in Slots : up # "down" /\ rec[n].LFN = p =>
       n \in {Unum[p], poscNum[p]} \/ \E i \in 1 .. Len(todo) : todo[i] = n
  /\ \A p \in Paths, n \in Slots :
       up = "up" /\ rec[n].LFN = p /\ rec[n].addT => n = Unum[p]
  /\ \A p \in Paths, n, m \in Slots :
       rec[n].LFN = p /\ rec[m].LFN = p /\ rec[n].addT /\ rec[m].addT => n = m
  /\ \A n \in Slots : rec[n].LFN = NoPath => rec[n] = Empty

\* A file whose close was reported has nothing that could remove it.
Finished ==
  \A p \in Paths : told[p] =>
    /\ file[p] = "whole" /\ hand[p] = "none" /\ opc[p] = "idle"
    /\ \A n \in Slots : rec[n].LFN # p

Peace == Storage /\ FreeSlots /\ Owned /\ ToDo /\ Owner /\ Finished /\ PartRecorded

PoscInv == PoscTypeOK /\ Stages /\ (~clash => Peace)

-----------------------------------------------------------------------------
(***************************************************************************)
(* Sequences of slots.                                                     *)
(***************************************************************************)
LEMMA SlotNumbers == /\ 0 \notin Slots /\ Slots \subseteq Nat /\ 0 \in 0 .. MaxSlots
                     /\ \A n \in 0 .. MaxSlots : n # 0 => n \in Slots
                     /\ Slots \subseteq 0 .. MaxSlots
BY PoscAssumption DEF Slots

LEMMA Push ==
  ASSUME NEW s \in Seq(Slots), NEW n \in Slots
  PROVE  /\ <<n>> \o s \in Seq(Slots) /\ Len(<<n>> \o s) = Len(s) + 1
         /\ (<<n>> \o s)[1] = n
         /\ \A i \in 2 .. Len(s) + 1 : (<<n>> \o s)[i] = s[i - 1]
<1>1. <<n>> \in Seq(Slots) /\ Len(<<n>>) = 1 /\ <<n>>[1] = n  OBVIOUS
<1>2. Len(s) \in Nat  BY LenProperties
<1> QED BY <1>1, <1>2, ConcatProperties

LEMMA Pop ==
  ASSUME NEW s \in Seq(Slots), s # << >>
  PROVE  /\ Head(s) \in Slots /\ Head(s) = s[1] /\ Len(s) \in Nat \ {0}
         /\ Tail(s) \in Seq(Slots) /\ Len(Tail(s)) = Len(s) - 1
         /\ \A i \in 1 .. Len(Tail(s)) : Tail(s)[i] = s[i + 1]
BY HeadTailProperties, EmptySeq

LEMMA Elements ==
  ASSUME NEW s \in Seq(Slots)
  PROVE  Len(s) \in Nat /\ DOMAIN s = 1 .. Len(s) /\ \A i \in 1 .. Len(s) : s[i] \in Slots
BY LenProperties, ElementOfSeq

\* Of a set of slot numbers one is the last.
LEMMA LastExists ==
  ASSUME NEW k \in Nat, NEW S, S \subseteq 1 .. k, S # {}
  PROVE  \E n \in S : \A m \in S : m <= n
<1> DEFINE R == OpToRel(<, Nat)
           T == {i \in Nat : \E n \in S : i = k - n}
<1>1. IsWellFoundedOn(R, Nat)  BY NatLessThanWellFounded
<1>2. \A i, j \in Nat : <<j, i>> \in R <=> j < i  BY DEF OpToRel
<1> HIDE DEF R
<1>3. T \subseteq Nat /\ T # {}
  <2>1. PICK n \in S : TRUE  OBVIOUS
  <2>2. k - n \in Nat  OBVIOUS
  <2> QED BY <2>2
<1>4. PICK i \in T : \A j \in T : ~ (<<j, i>> \in R)  BY <1>1, <1>3, WFMin
<1>5. PICK n \in S : i = k - n  BY <1>4
<1>6. ASSUME NEW m \in S PROVE m <= n
  <2>1. k - m \in T  OBVIOUS
  <2>2. ~ (k - m < i)  BY <1>2, <1>4, <2>1
  <2> QED BY <1>5, <2>2
<1> QED BY <1>6

\* Commit marks one record as complete.
LEMMA Mark ==
  ASSUME rec \in [Slots -> [LFN : Paths \cup {NoPath}, addT : BOOLEAN]],
         NEW n \in Slots, rec' = [rec EXCEPT ![n].addT = TRUE]
  PROVE  /\ rec' \in [Slots -> [LFN : Paths \cup {NoPath}, addT : BOOLEAN]]
         /\ \A m \in Slots : /\ rec'[m].LFN = rec[m].LFN
                             /\ rec'[m].addT <=> rec[m].addT \/ m = n
                             /\ m # n => rec'[m] = rec[m]
OBVIOUS

\* Del puts a slot with a record on the free list.
LEMMA DelFrees ==
  ASSUME PoscTypeOK, FreeSlots, NEW p, NEW n \in Slots, rec[n] # Empty,
         Del(p, n), up' = up, up # "down"
  PROVE  FreeSlots'
<1>0. SlotList \in Seq(Slots) /\ Len(SlotList) \in Nat /\ SlotList' = <<n>> \o SlotList
  BY Elements DEF PoscTypeOK, Del
<1>1. /\ SlotList' \in Seq(Slots) /\ Len(SlotList') = Len(SlotList) + 1
      /\ SlotList'[1] = n
      /\ \A i \in 2 .. Len(SlotList) + 1 : SlotList'[i] = SlotList[i - 1]
  BY <1>0, Push
<1>2. rec' = [rec EXCEPT ![n] = Empty] /\ rec \in [Slots -> [LFN : Paths \cup {NoPath}, addT : BOOLEAN]]
  BY DEF Del, PoscTypeOK
<1>3. \A i \in 2 .. Len(SlotList') : SlotList[i - 1] \in Slots /\ SlotList[i - 1] # n
                                     /\ rec[SlotList[i - 1]] = Empty
  BY <1>0, <1>1, Elements DEF FreeSlots
<1>4. \A i \in 1 .. Len(SlotList') : rec'[SlotList'[i]] = Empty
  BY <1>0, <1>1, <1>2, <1>3
<1>7. \A i \in 1 .. Len(SlotList') : SlotList'[i] <= pocSZ'
  BY <1>0, <1>1 DEF FreeSlots, Del
<1>5. \A i, j \in 1 .. Len(SlotList') : SlotList'[i] = SlotList'[j] => i = j
  <2> SUFFICES ASSUME NEW i \in 1 .. Len(SlotList'), NEW j \in 1 .. Len(SlotList'),
                      SlotList'[i] = SlotList'[j]
               PROVE  i = j
    OBVIOUS
  <2>1. i = 1 <=> j = 1  BY <1>0, <1>1, <1>3
  <2>2. CASE i # 1 /\ j # 1
    <3>1. i \in 2 .. Len(SlotList) + 1 /\ j \in 2 .. Len(SlotList) + 1  BY <1>0, <1>1, <2>2
    <3>2. SlotList[i - 1] = SlotList[j - 1]  BY <1>1, <3>1
    <3>3. i - 1 \in 1 .. Len(SlotList) /\ j - 1 \in 1 .. Len(SlotList)  BY <1>0, <3>1
    <3>4. i - 1 = j - 1  BY <3>2, <3>3 DEF FreeSlots
    <3> QED BY <3>1, <3>4
  <2> QED BY <2>1, <2>2
<1>6. up' # "down" => \A m \in Slots : rec'[m] # Empty => m <= pocSZ'
  BY <1>2 DEF FreeSlots, Del
<1> QED BY <1>4, <1>5, <1>6, <1>7 DEF FreeSlots

LEMMA DelTypes ==
  ASSUME PoscTypeOK, NEW p, NEW n \in Slots, Del(p, n)
  PROVE  /\ rec' \in [Slots -> [LFN : Paths \cup {NoPath}, addT : BOOLEAN]]
         /\ pocSZ' \in 0 .. MaxSlots /\ SlotList' \in Seq(Slots)
         /\ pqMap' \in [Paths -> 0 .. MaxSlots]
<1>1. Empty \in [LFN : Paths \cup {NoPath}, addT : BOOLEAN]  BY DEF Empty
<1>2. SlotList' \in Seq(Slots)  BY Push DEF PoscTypeOK, Del
<1>3. pqMap' \in [Paths -> 0 .. MaxSlots]
  BY SlotNumbers DEF PoscTypeOK, Del
<1> QED BY <1>1, <1>2, <1>3 DEF PoscTypeOK, Del

\* Add takes a slot without a record.
LEMMA TakeSlot ==
  ASSUME PoscTypeOK, FreeSlots, up = "up", up' = up, NEW p \in Paths, NEW n \in Slots,
         n = IF SlotList = << >> THEN pocSZ + 1 ELSE Head(SlotList),
         rec' = [rec EXCEPT ![n] = [LFN |-> p, addT |-> FALSE]],
         SlotList' = IF SlotList = << >> THEN << >> ELSE Tail(SlotList),
         pocSZ' = IF SlotList = << >> THEN n ELSE pocSZ
  PROVE  rec[n] = Empty /\ FreeSlots'
<1>0. /\ rec \in [Slots -> [LFN : Paths \cup {NoPath}, addT : BOOLEAN]]
      /\ SlotList \in Seq(Slots) /\ pocSZ \in Nat /\ n \in Nat /\ Slots \subseteq Nat
  BY SlotNumbers, PoscAssumption DEF PoscTypeOK
<1>1. CASE SlotList = << >>
  <2>1. n = pocSZ + 1 /\ pocSZ' = n /\ Len(SlotList') = 0  BY <1>1
  <2>2. rec[n] = Empty  BY <1>0, <2>1 DEF FreeSlots
  <2>3. \A m \in Slots : rec'[m] # Empty => m <= pocSZ'
    BY <1>0, <2>1 DEF FreeSlots
  <2> QED BY <2>1, <2>2, <2>3 DEF FreeSlots
<1>2. CASE SlotList # << >>
  <2>1. /\ n = SlotList[1] /\ SlotList' = Tail(SlotList) /\ pocSZ' = pocSZ
        /\ Len(SlotList) \in Nat \ {0} /\ Len(SlotList') = Len(SlotList) - 1
        /\ \A i \in 1 .. Len(SlotList') : SlotList'[i] = SlotList[i + 1]
    BY <1>0, <1>2, Pop
  <2>2. rec[n] = Empty /\ n <= pocSZ  BY <1>0, <2>1 DEF FreeSlots
  <2>3. \A i \in 1 .. Len(SlotList') : i + 1 \in 1 .. Len(SlotList) /\ i + 1 # 1
    BY <2>1
  <2>4. \A i \in 1 .. Len(SlotList) : SlotList[i] \in Slots
    BY <1>0, Elements
  <2>5. \A i \in 1 .. Len(SlotList') : SlotList'[i] # n /\ SlotList'[i] \in Slots
    BY <2>1, <2>3, <2>4 DEF FreeSlots
  <2>6. \A i \in 1 .. Len(SlotList') : rec'[SlotList'[i]] = Empty /\ SlotList'[i] <= pocSZ'
    BY <1>0, <2>1, <2>3, <2>5 DEF FreeSlots
  <2>7. \A i, j \in 1 .. Len(SlotList') : SlotList'[i] = SlotList'[j] => i = j
    BY <2>1, <2>3 DEF FreeSlots
  <2>8. \A m \in Slots : rec'[m] # Empty => m <= pocSZ'
    BY <1>0, <2>1, <2>2 DEF FreeSlots
  <2> QED BY <2>2, <2>6, <2>7, <2>8 DEF FreeSlots
<1> QED BY <1>1, <1>2

LEMMA InitInv == PoscInit => PoscInv
<1> SUFFICES ASSUME PoscInit PROVE PoscInv  OBVIOUS
<1>0. << >> \in Seq(Slots) /\ Len(<< >>) = 0 /\ Empty \in [LFN : Paths \cup {NoPath}, addT : BOOLEAN]
  BY DEF Empty
<1>1. PoscTypeOK
  <2>1. 0 \in 0 .. MaxCrashes /\ 0 \in 0 .. MaxErrors  BY PoscAssumption
  <2> QED BY <1>0, <2>1, SlotNumbers DEF PoscInit, PoscTypeOK
<1>2. Stages  BY DEF PoscInit, Stages
<1>3. Storage /\ ToDo /\ Finished /\ PartRecorded
  BY <1>0, PoscAssumption DEF PoscInit, Storage, ToDo, Finished, PartRecorded, Empty
<1>4. FreeSlots /\ Owned /\ Owner
  BY <1>0, PoscAssumption DEF PoscInit, FreeSlots, Owned, Owner, Empty
<1> QED BY <1>1, <1>2, <1>3, <1>4 DEF PoscInv, Peace

-----------------------------------------------------------------------------

\* The storage creates the file: its record is there.
LEMMA OpenCreateKeeps ==
  ASSUME PoscInv, NEW p \in Paths, OpenCreate(p)
  PROVE  PoscInv'
<1> USE PoscAssumption, SlotNumbers DEF OpenCreate, diskVars, queueVars, handVars,
        openVars, runVars, histVars
<1>0. PoscTypeOK /\ Stages  BY DEF PoscInv
<1>1. PoscTypeOK'
  BY <1>0 DEF PoscTypeOK
<1>2. Stages'
  BY <1>0 DEF PoscTypeOK, Stages
<1>3. ASSUME ~clash' PROVE Peace'
  <2>0. /\ ~clash /\ Storage /\ FreeSlots /\ Owned /\ ToDo /\ Owner /\ Finished
        /\ PartRecorded
    BY <1>3 DEF PoscInv, Peace
  <2>1. Storage'
    BY <1>0, <1>3, <2>0 DEF PoscTypeOK, Stages, Storage
  <2>2. FreeSlots'
    BY <1>0, <1>3, <2>0 DEF PoscTypeOK, Stages, FreeSlots
  <2>3. Owned'
    BY <1>0, <1>3, <2>0 DEF PoscTypeOK, Stages, Owned, Storage
  <2>4. ToDo'
    BY <1>0, <1>3, <2>0 DEF PoscTypeOK, Stages, ToDo
  <2>5. Owner'
    BY <1>0, <1>3, <2>0 DEF PoscTypeOK, Stages, Owner, Storage
  <2>6. Finished'
    BY <1>0, <1>3, <2>0 DEF PoscTypeOK, Stages, Finished, Storage
  <2>7. PartRecorded'
    <3>1. poscNum[p] \in Slots /\ rec'[poscNum[p]].LFN = p
      BY <1>0, <2>0 DEF PoscTypeOK, Stages, Owned
    <3> QED BY <1>0, <2>0, <3>1 DEF PoscTypeOK, PartRecorded
  <2> QED BY <2>1, <2>2, <2>3, <2>4, <2>5, <2>6, <2>7 DEF Peace
<1> QED BY <1>1, <1>2, <1>3 DEF PoscInv

\* A new handle takes over the slot of the open.
LEMMA OpenNewKeeps ==
  ASSUME PoscInv, NEW p \in Paths, OpenNew(p)
  PROVE  PoscInv'
<1> USE PoscAssumption, SlotNumbers DEF OpenNew, Attach, diskVars, queueVars, handVars,
        openVars, runVars, histVars
<1>0. PoscTypeOK /\ Stages  BY DEF PoscInv
<1>1. PoscTypeOK'
  BY <1>0 DEF PoscTypeOK
<1>2. Stages'
  BY <1>0 DEF PoscTypeOK, Stages
<1>3. ASSUME ~clash' PROVE Peace'
  <2>0. /\ ~clash /\ Storage /\ FreeSlots /\ Owned /\ ToDo /\ Owner /\ Finished
        /\ PartRecorded
    BY <1>3 DEF PoscInv, Peace
  <2>1. Storage'
    BY <1>0, <1>3, <2>0 DEF PoscTypeOK, Stages, Storage
  <2>2. FreeSlots'
    BY <1>0, <1>3, <2>0 DEF PoscTypeOK, Stages, FreeSlots
  <2>3. Owned'
    BY <1>0, <1>3, <2>0 DEF PoscTypeOK, Stages, Owned
  <2>4. ToDo'
    BY <1>0, <1>3, <2>0 DEF PoscTypeOK, Stages, ToDo
  <2>5. Owner'
    BY <1>0, <1>3, <2>0 DEF PoscTypeOK, Stages, Owner, Storage
  <2>6. Finished'
    BY <1>0, <1>3, <2>0 DEF PoscTypeOK, Stages, Finished, Storage
  <2>7. PartRecorded'
    BY <1>0, <1>3, <2>0 DEF PoscTypeOK, Stages, PartRecorded, Storage
  <2> QED BY <2>1, <2>2, <2>3, <2>4, <2>5, <2>6, <2>7 DEF Peace
<1> QED BY <1>1, <1>2, <1>3 DEF PoscInv

\* A lost connection changes nothing on disk.
LEMMA DropKeeps ==
  ASSUME PoscInv, NEW p \in Paths, Drop(p)
  PROVE  PoscInv'
<1> USE PoscAssumption, SlotNumbers DEF Drop, diskVars, queueVars, handVars,
        openVars, runVars, histVars
<1>0. PoscTypeOK /\ Stages  BY DEF PoscInv
<1>1. PoscTypeOK'
  BY <1>0 DEF PoscTypeOK
<1>2. Stages'
  BY <1>0 DEF PoscTypeOK, Stages
<1>3. ASSUME ~clash' PROVE Peace'
  <2>0. /\ ~clash /\ Storage /\ FreeSlots /\ Owned /\ ToDo /\ Owner /\ Finished
        /\ PartRecorded
    BY <1>3 DEF PoscInv, Peace
  <2>1. Storage'
    BY <1>0, <1>3, <2>0 DEF PoscTypeOK, Stages, Storage
  <2>2. FreeSlots'
    BY <1>0, <1>3, <2>0 DEF PoscTypeOK, Stages, FreeSlots
  <2>3. Owned'
    BY <1>0, <1>3, <2>0 DEF PoscTypeOK, Stages, Owned, Storage
  <2>4. ToDo'
    BY <1>0, <1>3, <2>0 DEF PoscTypeOK, Stages, ToDo
  <2>5. Owner'
    BY <1>0, <1>3, <2>0 DEF PoscTypeOK, Stages, Owner, Storage
  <2>6. Finished'
    BY <1>0, <1>3, <2>0 DEF PoscTypeOK, Stages, Finished, Storage
  <2>7. PartRecorded'
    BY <1>0, <1>3, <2>0 DEF PoscTypeOK, Stages, PartRecorded, Storage
  <2> QED BY <2>1, <2>2, <2>3, <2>4, <2>5, <2>6, <2>7 DEF Peace
<1> QED BY <1>1, <1>2, <1>3 DEF PoscInv

\* Nor does a client that comes back.
LEMMA ReopenKeeps ==
  ASSUME PoscInv, NEW p \in Paths, Reopen(p)
  PROVE  PoscInv'
<1> USE PoscAssumption, SlotNumbers DEF Reopen, Attach, diskVars, queueVars, handVars,
        openVars, runVars, histVars
<1>0. PoscTypeOK /\ Stages  BY DEF PoscInv
<1>1. PoscTypeOK'
  BY <1>0 DEF PoscTypeOK
<1>2. Stages'
  BY <1>0 DEF PoscTypeOK, Stages
<1>3. ASSUME ~clash' PROVE Peace'
  <2>0. /\ ~clash /\ Storage /\ FreeSlots /\ Owned /\ ToDo /\ Owner /\ Finished
        /\ PartRecorded
    BY <1>3 DEF PoscInv, Peace
  <2>1. Storage'
    BY <1>0, <1>3, <2>0 DEF PoscTypeOK, Stages, Storage
  <2>2. FreeSlots'
    BY <1>0, <1>3, <2>0 DEF PoscTypeOK, Stages, FreeSlots
  <2>3. Owned'
    BY <1>0, <1>3, <2>0 DEF PoscTypeOK, Stages, Owned, Storage
  <2>4. ToDo'
    BY <1>0, <1>3, <2>0 DEF PoscTypeOK, Stages, ToDo
  <2>5. Owner'
    BY <1>0, <1>3, <2>0 DEF PoscTypeOK, Stages, Owner, Storage
  <2>6. Finished'
    BY <1>0, <1>3, <2>0 DEF PoscTypeOK, Stages, Finished, Storage
  <2>7. PartRecorded'
    BY <1>0, <1>3, <2>0 DEF PoscTypeOK, Stages, PartRecorded, Storage
  <2> QED BY <2>1, <2>2, <2>3, <2>4, <2>5, <2>6, <2>7 DEF Peace
<1> QED BY <1>1, <1>2, <1>3 DEF PoscInv

\* The file is complete before its record is deleted.
LEMMA CloseModeKeeps ==
  ASSUME PoscInv, NEW p \in Paths, CloseMode(p)
  PROVE  PoscInv'
<1> USE PoscAssumption, SlotNumbers DEF CloseMode, Clash, diskVars, queueVars, handVars,
        openVars, runVars, histVars
<1>0. PoscTypeOK /\ Stages  BY DEF PoscInv
<1>1. PoscTypeOK'
  BY <1>0 DEF PoscTypeOK
<1>2. Stages'
  BY <1>0 DEF PoscTypeOK, Stages
<1>3. ASSUME ~clash' PROVE Peace'
  <2>0. /\ ~clash /\ Storage /\ FreeSlots /\ Owned /\ ToDo /\ Owner /\ Finished
        /\ PartRecorded
    BY <1>3 DEF PoscInv, Peace
  <2>1. Storage'
    BY <1>0, <1>3, <2>0 DEF PoscTypeOK, Stages, Storage
  <2>2. FreeSlots'
    BY <1>0, <1>3, <2>0 DEF PoscTypeOK, Stages, FreeSlots
  <2>3. Owned'
    BY <1>0, <1>3, <2>0 DEF PoscTypeOK, Stages, Owned, Storage
  <2>4. ToDo'
    BY <1>0, <1>3, <2>0 DEF PoscTypeOK, Stages, ToDo
  <2>5. Owner'
    BY <1>0, <1>3, <2>0 DEF PoscTypeOK, Stages, Owner, Storage
  <2>6. Finished'
    BY <1>0, <1>3, <2>0 DEF PoscTypeOK, Stages, Finished, Storage
  <2>7. PartRecorded'
    BY <1>0, <1>3, <2>0 DEF PoscTypeOK, Stages, PartRecorded, Storage
  <2> QED BY <2>1, <2>2, <2>3, <2>4, <2>5, <2>6, <2>7 DEF Peace
<1> QED BY <1>1, <1>2, <1>3 DEF PoscInv

\* A file whose hold time is over is removed before its record.
LEMMA ExpireKeeps ==
  ASSUME PoscInv, NEW p \in Paths, Expire(p)
  PROVE  PoscInv'
<1> USE PoscAssumption, SlotNumbers DEF Expire, Unlink, Clash, diskVars, queueVars, handVars,
        openVars, runVars, histVars
<1>0. PoscTypeOK /\ Stages  BY DEF PoscInv
<1>1. PoscTypeOK'
  BY <1>0 DEF PoscTypeOK
<1>2. Stages'
  BY <1>0 DEF PoscTypeOK, Stages
<1>3. ASSUME ~clash' PROVE Peace'
  <2>0. /\ ~clash /\ Storage /\ FreeSlots /\ Owned /\ ToDo /\ Owner /\ Finished
        /\ PartRecorded
    BY <1>3 DEF PoscInv, Peace
  <2>1. Storage'
    BY <1>0, <1>3, <2>0 DEF PoscTypeOK, Stages, Storage
  <2>2. FreeSlots'
    BY <1>0, <1>3, <2>0 DEF PoscTypeOK, Stages, FreeSlots
  <2>3. Owned'
    BY <1>0, <1>3, <2>0 DEF PoscTypeOK, Stages, Owned, Storage
  <2>4. ToDo'
    BY <1>0, <1>3, <2>0 DEF PoscTypeOK, Stages, ToDo
  <2>5. Owner'
    BY <1>0, <1>3, <2>0 DEF PoscTypeOK, Stages, Owner, Storage
  <2>6. Finished'
    BY <1>0, <1>3, <2>0 DEF PoscTypeOK, Stages, Finished, Storage
  <2>7. PartRecorded'
    BY <1>0, <1>3, <2>0 DEF PoscTypeOK, Stages, PartRecorded, Storage
  <2> QED BY <2>1, <2>2, <2>3, <2>4, <2>5, <2>6, <2>7 DEF Peace
<1> QED BY <1>1, <1>2, <1>3 DEF PoscInv

\* So is the file of an open that fails.
LEMMA OpenFailsKeeps ==
  ASSUME PoscInv, NEW p \in Paths, OpenFails(p)
  PROVE  PoscInv'
<1> USE PoscAssumption, SlotNumbers DEF OpenFails, Unlink, Clash, diskVars, queueVars, handVars,
        openVars, runVars, histVars
<1>0. PoscTypeOK /\ Stages  BY DEF PoscInv
<1>1. PoscTypeOK'
  BY <1>0 DEF PoscTypeOK
<1>2. Stages'
  BY <1>0 DEF PoscTypeOK, Stages
<1>3. ASSUME ~clash' PROVE Peace'
  <2>0. /\ ~clash /\ Storage /\ FreeSlots /\ Owned /\ ToDo /\ Owner /\ Finished
        /\ PartRecorded
    BY <1>3 DEF PoscInv, Peace
  <2>a. hand[p] = "none" /\ UNCHANGED <<hand, ssi>>
    <3>1. hand[p] = "none"  BY <1>3
    <3>2. ssi[p] = "none"  BY <1>0, <3>1 DEF Stages
    <3> QED BY <1>0, <3>1, <3>2 DEF PoscTypeOK
  <2>b. /\ \A q \in Paths : q # p => opc'[q] = opc[q] /\ file'[q] = file[q]
        /\ opc'[p] = "removed" /\ file'[p] = "none"
    BY <1>0 DEF PoscTypeOK
  <2>1. Storage'
    BY ONLY <2>0, <2>a, <2>b DEF Storage
  <2>2. FreeSlots'
    BY <1>0, <1>3, <2>0 DEF PoscTypeOK, Stages, FreeSlots
  <2>3. Owned'
    BY <1>0, <1>3, <2>0 DEF PoscTypeOK, Stages, Owned, Storage
  <2>4. ToDo'
    BY <1>0, <1>3, <2>0 DEF PoscTypeOK, Stages, ToDo
  <2>5. Owner'
    BY <1>0, <1>3, <2>0 DEF PoscTypeOK, Stages, Owner, Storage
  <2>6. Finished'
    BY <1>0, <1>3, <2>0 DEF PoscTypeOK, Stages, Finished, Storage
  <2>7. PartRecorded'
    BY <1>0, <1>3, <2>0 DEF PoscTypeOK, Stages, PartRecorded, Storage
  <2> QED BY <2>1, <2>2, <2>3, <2>4, <2>5, <2>6, <2>7 DEF Peace
<1> QED BY <1>1, <1>2, <1>3 DEF PoscInv

\* A failed write is a clash.
LEMMA WriteFailsKeeps ==
  ASSUME PoscInv, NEW p \in Paths, WriteFails(p)
  PROVE  PoscInv'
<1> USE PoscAssumption, SlotNumbers DEF WriteFails, Unlink, Clash, diskVars, queueVars, handVars,
        openVars, runVars, histVars
<1>0. PoscTypeOK /\ Stages  BY DEF PoscInv
<1>1. PoscTypeOK'
  BY <1>0 DEF PoscTypeOK
<1>2. Stages'
  BY <1>0 DEF PoscTypeOK, Stages
<1>3. ASSUME ~clash' PROVE Peace'
  <2>0. /\ ~clash /\ Storage /\ FreeSlots /\ Owned /\ ToDo /\ Owner /\ Finished
        /\ PartRecorded
    BY <1>3 DEF PoscInv, Peace
  <2>1. Storage'
    BY <1>0, <1>3, <2>0 DEF PoscTypeOK, Stages, Storage
  <2>2. FreeSlots'
    BY <1>0, <1>3, <2>0 DEF PoscTypeOK, Stages, FreeSlots
  <2>3. Owned'
    BY <1>0, <1>3, <2>0 DEF PoscTypeOK, Stages, Owned, Storage
  <2>4. ToDo'
    BY <1>0, <1>3, <2>0 DEF PoscTypeOK, Stages, ToDo
  <2>5. Owner'
    BY <1>0, <1>3, <2>0 DEF PoscTypeOK, Stages, Owner, Storage
  <2>6. Finished'
    BY <1>0, <1>3, <2>0 DEF PoscTypeOK, Stages, Finished, Storage
  <2>7. PartRecorded'
    BY <1>0, <1>3, <2>0 DEF PoscTypeOK, Stages, PartRecorded, Storage
  <2> QED BY <2>1, <2>2, <2>3, <2>4, <2>5, <2>6, <2>7 DEF Peace
<1> QED BY <1>1, <1>2, <1>3 DEF PoscInv

\* The server is up when nothing is left to recover.
LEMMA ReadyKeeps ==
  ASSUME PoscInv, Ready
  PROVE  PoscInv'
<1> USE PoscAssumption, SlotNumbers DEF Ready, diskVars, queueVars, handVars,
        openVars, runVars, histVars
<1>0. PoscTypeOK /\ Stages  BY DEF PoscInv
<1>1. PoscTypeOK'
  BY <1>0 DEF PoscTypeOK
<1>2. Stages'
  BY <1>0 DEF PoscTypeOK, Stages
<1>3. ASSUME ~clash' PROVE Peace'
  <2>0. /\ ~clash /\ Storage /\ FreeSlots /\ Owned /\ ToDo /\ Owner /\ Finished
        /\ PartRecorded
    BY <1>3 DEF PoscInv, Peace
  <2>1. Storage'
    BY <1>0, <1>3, <2>0 DEF PoscTypeOK, Stages, Storage
  <2>2. FreeSlots'
    BY <1>0, <1>3, <2>0 DEF PoscTypeOK, Stages, FreeSlots
  <2>3. Owned'
    BY <1>0, <1>3, <2>0 DEF PoscTypeOK, Stages, Owned, Storage
  <2>4. ToDo'
    BY <1>0, <1>3, <2>0 DEF PoscTypeOK, Stages, ToDo
  <2>5. Owner'
    BY <1>0, <1>3, <2>0 DEF PoscTypeOK, Stages, Owner, Storage
  <2>6. Finished'
    BY <1>0, <1>3, <2>0 DEF PoscTypeOK, Stages, Finished, Storage
  <2>7. PartRecorded'
    BY <1>0, <1>3, <2>0 DEF PoscTypeOK, Stages, PartRecorded, Storage
  <2> QED BY <2>1, <2>2, <2>3, <2>4, <2>5, <2>6, <2>7 DEF Peace
<1> QED BY <1>1, <1>2, <1>3 DEF PoscInv

\* The record of a failed open goes after its file.
LEMMA OpenDelKeeps ==
  ASSUME PoscInv, NEW p \in Paths, OpenDel(p)
  PROVE  PoscInv'
<1> USE PoscAssumption, SlotNumbers DEF OpenDel, diskVars, queueVars, handVars,
        openVars, runVars, histVars
<1>0. PoscTypeOK /\ Stages  BY DEF PoscInv
<1>a. poscNum[p] \in Slots  BY <1>0 DEF PoscTypeOK, Stages
<1>b. Del(p, poscNum[p])  OBVIOUS
<1>c. rec' = [rec EXCEPT ![poscNum[p]] = Empty] /\ Empty.LFN = NoPath /\ Empty.addT = FALSE
      /\ pqMap' = [pqMap EXCEPT ![p] = 0]
  BY <1>b DEF Del, Empty
<1>1. PoscTypeOK'
  BY <1>0, <1>a, <1>b, DelTypes DEF PoscTypeOK
<1>2. Stages'
  BY <1>0 DEF PoscTypeOK, Stages
<1>3. ASSUME ~clash' PROVE Peace'
  <2>0. /\ ~clash /\ Storage /\ FreeSlots /\ Owned /\ ToDo /\ Owner /\ Finished
        /\ PartRecorded
    BY <1>3 DEF PoscInv, Peace
  <2>a. rec[poscNum[p]].LFN = p /\ rec[poscNum[p]] # Empty
    BY <1>0, <1>a, <1>c, <2>0 DEF Owned, PoscTypeOK
  <2>b. up = "up" /\ todo = << >> /\ Unum[p] = 0 /\ poscNum'[p] = 0
    BY <1>0, <1>3, <2>0 DEF Stages, Storage, PoscTypeOK
  <2>c. \A m \in Slots : rec'[m].LFN # p
    BY <1>0, <1>a, <1>c, <2>0, <2>b DEF Owner, PoscTypeOK
  <2>d. \A m \in Slots : rec[m].LFN # p => rec'[m] = rec[m]
    BY <1>0, <1>a, <1>c, <2>a DEF PoscTypeOK
  <2>1. Storage'
    BY <1>0, <1>3, <2>0 DEF PoscTypeOK, Stages, Storage
  <2>2. FreeSlots'
    BY <1>0, <1>a, <1>b, <2>0, <2>a, DelFrees
  <2>3. Owned'
    BY <1>0, <1>3, <1>a, <1>c, <2>0, <2>a, <2>b, <2>c, <2>d DEF PoscTypeOK, Stages, Owned
  <2>4. ToDo'
    BY <1>0, <1>c, <2>0 DEF PoscTypeOK, Stages, ToDo
  <2>5. Owner'
    BY <1>0, <1>3, <1>a, <1>c, <2>0, <2>a, <2>b, <2>c, <2>d DEF PoscTypeOK, Stages, Owner, Owned, Storage
  <2>6. Finished'
    BY <1>0, <1>3, <1>a, <1>c, <2>0, <2>a, <2>b, <2>c, <2>d DEF PoscTypeOK, Stages, Finished, Storage
  <2>7. PartRecorded'
    BY <1>0, <1>3, <1>a, <1>c, <2>0, <2>a, <2>b, <2>c, <2>d DEF PoscTypeOK, Stages, PartRecorded, Storage
  <2> QED BY <2>1, <2>2, <2>3, <2>4, <2>5, <2>6, <2>7 DEF Peace
<1> QED BY <1>1, <1>2, <1>3 DEF PoscInv

\* The record of a closed file goes when the file is complete.
LEMMA CloseDelKeeps ==
  ASSUME PoscInv, NEW p \in Paths, CloseDel(p)
  PROVE  PoscInv'
<1> USE PoscAssumption, SlotNumbers DEF CloseDel, Clash, diskVars, queueVars, handVars,
        openVars, runVars, histVars
<1>0. PoscTypeOK /\ Stages  BY DEF PoscInv
<1>a. Unum[p] \in Slots  BY <1>0 DEF PoscTypeOK, Stages
<1>b. Del(p, Unum[p])  OBVIOUS
<1>c. rec' = [rec EXCEPT ![Unum[p]] = Empty] /\ Empty.LFN = NoPath /\ Empty.addT = FALSE
      /\ pqMap' = [pqMap EXCEPT ![p] = 0]
  BY <1>b DEF Del, Empty
<1>1. PoscTypeOK'
  BY <1>0, <1>a, <1>b, DelTypes DEF PoscTypeOK
<1>2. Stages'
  BY <1>0 DEF PoscTypeOK, Stages
<1>3. ASSUME ~clash' PROVE Peace'
  <2>0. /\ ~clash /\ Storage /\ FreeSlots /\ Owned /\ ToDo /\ Owner /\ Finished
        /\ PartRecorded
    BY <1>3 DEF PoscInv, Peace
  <2>a. rec[Unum[p]].LFN = p /\ rec[Unum[p]] # Empty
    BY <1>0, <1>a, <1>c, <2>0 DEF Owned, PoscTypeOK
  <2>b. up = "up" /\ todo = << >> /\ opc[p] = "idle" /\ poscNum[p] = 0 /\ Unum'[p] = 0
    BY <1>0, <1>3, <2>0 DEF Stages, Storage, PoscTypeOK
  <2>c. \A m \in Slots : rec'[m].LFN # p
    BY <1>0, <1>a, <1>c, <2>0, <2>b DEF Owner, PoscTypeOK
  <2>d. \A m \in Slots : rec[m].LFN # p => rec'[m] = rec[m]
    BY <1>0, <1>a, <1>c, <2>a DEF PoscTypeOK
  <2>1. Storage'
    BY <1>0, <1>3, <2>0 DEF PoscTypeOK, Stages, Storage
  <2>2. FreeSlots'
    BY <1>0, <1>a, <1>b, <2>0, <2>a, DelFrees
  <2>3. Owned'
    BY <1>0, <1>3, <1>a, <1>c, <2>0, <2>a, <2>b, <2>c, <2>d DEF PoscTypeOK, Stages, Owned
  <2>4. ToDo'
    BY <1>0, <1>c, <2>0 DEF PoscTypeOK, Stages, ToDo
  <2>5. Owner'
    BY <1>0, <1>3, <1>a, <1>c, <2>0, <2>a, <2>b, <2>c, <2>d DEF PoscTypeOK, Stages, Owner, Owned, Storage
  <2>6. Finished'
    BY <1>0, <1>3, <1>a, <1>c, <2>0, <2>a, <2>b, <2>c, <2>d DEF PoscTypeOK, Stages, Finished, Storage
  <2>7. PartRecorded'
    BY <1>0, <1>3, <1>a, <1>c, <2>0, <2>a, <2>b, <2>c, <2>d DEF PoscTypeOK, Stages, PartRecorded, Storage
  <2> QED BY <2>1, <2>2, <2>3, <2>4, <2>5, <2>6, <2>7 DEF Peace
<1> QED BY <1>1, <1>2, <1>3 DEF PoscInv

\* The record of an expired handle goes after its file.
LEMMA ExpireDelKeeps ==
  ASSUME PoscInv, NEW p \in Paths, ExpireDel(p)
  PROVE  PoscInv'
<1> USE PoscAssumption, SlotNumbers DEF ExpireDel, Clash, diskVars, queueVars, handVars,
        openVars, runVars, histVars
<1>0. PoscTypeOK /\ Stages  BY DEF PoscInv
<1>a. Unum[p] \in Slots  BY <1>0 DEF PoscTypeOK, Stages
<1>b. Del(p, Unum[p])  OBVIOUS
<1>c. rec' = [rec EXCEPT ![Unum[p]] = Empty] /\ Empty.LFN = NoPath /\ Empty.addT = FALSE
      /\ pqMap' = [pqMap EXCEPT ![p] = 0]
  BY <1>b DEF Del, Empty
<1>1. PoscTypeOK'
  BY <1>0, <1>a, <1>b, DelTypes DEF PoscTypeOK
<1>2. Stages'
  BY <1>0 DEF PoscTypeOK, Stages
<1>3. ASSUME ~clash' PROVE Peace'
  <2>0. /\ ~clash /\ Storage /\ FreeSlots /\ Owned /\ ToDo /\ Owner /\ Finished
        /\ PartRecorded
    BY <1>3 DEF PoscInv, Peace
  <2>a. rec[Unum[p]].LFN = p /\ rec[Unum[p]] # Empty
    BY <1>0, <1>a, <1>c, <2>0 DEF Owned, PoscTypeOK
  <2>b. up = "up" /\ todo = << >> /\ opc[p] = "idle" /\ poscNum[p] = 0 /\ Unum'[p] = 0
    BY <1>0, <1>3, <2>0 DEF Stages, Storage, PoscTypeOK
  <2>c. \A m \in Slots : rec'[m].LFN # p
    BY <1>0, <1>a, <1>c, <2>0, <2>b DEF Owner, PoscTypeOK
  <2>d. \A m \in Slots : rec[m].LFN # p => rec'[m] = rec[m]
    BY <1>0, <1>a, <1>c, <2>a DEF PoscTypeOK
  <2>1. Storage'
    BY <1>0, <1>3, <2>0 DEF PoscTypeOK, Stages, Storage
  <2>2. FreeSlots'
    BY <1>0, <1>a, <1>b, <2>0, <2>a, DelFrees
  <2>3. Owned'
    BY <1>0, <1>3, <1>a, <1>c, <2>0, <2>a, <2>b, <2>c, <2>d DEF PoscTypeOK, Stages, Owned
  <2>4. ToDo'
    BY <1>0, <1>c, <2>0 DEF PoscTypeOK, Stages, ToDo
  <2>5. Owner'
    BY <1>0, <1>3, <1>a, <1>c, <2>0, <2>a, <2>b, <2>c, <2>d DEF PoscTypeOK, Stages, Owner, Owned, Storage
  <2>6. Finished'
    BY <1>0, <1>3, <1>a, <1>c, <2>0, <2>a, <2>b, <2>c, <2>d DEF PoscTypeOK, Stages, Finished, Storage
  <2>7. PartRecorded'
    BY <1>0, <1>3, <1>a, <1>c, <2>0, <2>a, <2>b, <2>c, <2>d DEF PoscTypeOK, Stages, PartRecorded, Storage
  <2> QED BY <2>1, <2>2, <2>3, <2>4, <2>5, <2>6, <2>7 DEF Peace
<1> QED BY <1>1, <1>2, <1>3 DEF PoscInv

\* A handle whose write failed: its users are at odds already.
LEMMA FailDelKeeps ==
  ASSUME PoscInv, NEW p \in Paths, FailDel(p)
  PROVE  PoscInv'
<1> USE PoscAssumption, SlotNumbers DEF FailDel, handVars, openVars, runVars, histVars
<1>0. PoscTypeOK /\ Stages  BY DEF PoscInv
<1>a. Unum[p] \in Slots  BY <1>0 DEF PoscTypeOK, Stages
<1>1. PoscTypeOK'
  BY <1>0, <1>a, DelTypes DEF PoscTypeOK
<1>2. Stages'
  BY <1>0 DEF PoscTypeOK, Stages
<1>3. clash'
  BY DEF PoscInv, Peace, Storage
<1> QED BY <1>1, <1>2, <1>3 DEF PoscInv

\* The record of the open becomes complete: its handle has no other.
LEMMA OpenCommitKeeps ==
  ASSUME PoscInv, NEW p \in Paths, OpenCommit(p)
  PROVE  PoscInv'
<1> USE PoscAssumption, SlotNumbers DEF OpenCommit, diskVars, queueVars, handVars,
        openVars, runVars, histVars
<1>0. PoscTypeOK /\ Stages  BY DEF PoscInv
<1>a. poscNum[p] \in Slots /\ Unum[p] = poscNum[p] /\ up = "up" /\ todo = << >>
  BY <1>0 DEF PoscTypeOK, Stages
<1>b. /\ rec' \in [Slots -> [LFN : Paths \cup {NoPath}, addT : BOOLEAN]]
      /\ \A m \in Slots : /\ rec'[m].LFN = rec[m].LFN
                          /\ rec'[m].addT <=> rec[m].addT \/ m = poscNum[p]
                          /\ m # poscNum[p] => rec'[m] = rec[m]
  <2>1. rec' = [rec EXCEPT ![poscNum[p]].addT = TRUE]  OBVIOUS
  <2>2. rec \in [Slots -> [LFN : Paths \cup {NoPath}, addT : BOOLEAN]]
    BY <1>0 DEF PoscTypeOK
  <2>3. poscNum[p] \in Slots  BY <1>a
  <2> QED BY ONLY <2>1, <2>2, <2>3, Mark
<1>1. PoscTypeOK'
  BY <1>0, <1>a, <1>b DEF PoscTypeOK
<1>2. Stages'
  BY <1>0 DEF PoscTypeOK, Stages
<1>3. ASSUME ~clash' PROVE Peace'
  <2>0. /\ ~clash /\ Storage /\ FreeSlots /\ Owned /\ ToDo /\ Owner /\ Finished
        /\ PartRecorded
    BY <1>3 DEF PoscInv, Peace
  <2>a. rec[poscNum[p]].LFN = p
    BY <1>0, <1>a, <2>0 DEF PoscTypeOK, Owned
  <2>b. poscNum[p] \in Slots /\ Unum[p] = poscNum[p] /\ up = "up" /\ todo = << >>
        /\ \A i \in 1 .. Len(SlotList) : SlotList[i] \in Slots
    BY <1>0, <1>a, Elements DEF PoscTypeOK
  <2>1. Storage'
    BY <1>0, <1>3, <2>0 DEF PoscTypeOK, Stages, Storage
  <2>2. FreeSlots'
    <3>1. rec[poscNum[p]] # Empty
      BY <2>a DEF Empty
    <3>2. \A m \in Slots : rec[m] = Empty => rec'[m] = Empty
      BY <1>b, <3>1
    <3>3. \A m \in Slots : rec'[m] # Empty => rec[m] # Empty
      BY <3>2
    <3> QED BY <2>0, <2>b, <3>2, <3>3 DEF FreeSlots
  <2>3. Owned'
    BY <1>0, <1>b, <1>3, <2>0, <2>a, <2>b DEF PoscTypeOK, Stages, Owned
  <2>4. ToDo'
    BY <1>0, <1>b, <1>3, <2>0, <2>a, <2>b DEF PoscTypeOK, Stages, ToDo
  <2>5. Owner'
    <3>1. \A q \in Paths, n \in Slots : rec'[n].LFN = q => n \in {Unum'[q], poscNum'[q]}
      BY <1>0, <1>b, <2>0, <2>b DEF PoscTypeOK, Owner, Stages
    <3>2. \A q \in Paths, n \in Slots : rec'[n].LFN = q /\ rec'[n].addT => n = Unum'[q]
      BY <1>0, <1>b, <2>0, <2>a, <2>b DEF PoscTypeOK, Owner
    <3>3. \A n \in Slots : rec'[n].LFN = NoPath => rec'[n] = Empty
      BY <1>0, <1>b, <2>0, <2>a, <2>b DEF PoscTypeOK, Owner
    <3> QED BY <2>b, <3>1, <3>2, <3>3 DEF Owner
  <2>6. Finished'
    BY <1>0, <1>b, <1>3, <2>0, <2>a, <2>b DEF PoscTypeOK, Stages, Finished
  <2>7. PartRecorded'
    BY <1>0, <1>b, <1>3, <2>0, <2>a, <2>b DEF PoscTypeOK, Stages, PartRecorded
  <2> QED BY <2>1, <2>2, <2>3, <2>4, <2>5, <2>6, <2>7 DEF Peace
<1> QED BY <1>1, <1>2, <1>3 DEF PoscInv

\* A handle that is there gives its slot back if the open has another.
LEMMA OpenAttachKeeps ==
  ASSUME PoscInv, NEW p \in Paths, OpenAttach(p)
  PROVE  PoscInv'
<1> USE PoscAssumption, SlotNumbers DEF OpenAttach, Attach, diskVars, queueVars, handVars,
        openVars, runVars, histVars
<1>0. PoscTypeOK /\ Stages  BY DEF PoscInv
<1>a. /\ poscNum[p] \in Slots /\ Unum[p] \in Slots /\ up = "up" /\ todo = << >>
      /\ up' = "up" /\ todo' = << >>
  BY <1>0 DEF PoscTypeOK, Stages
<1>1. PoscTypeOK'
  BY <1>0, <1>a, DelTypes DEF PoscTypeOK
<1>2. Stages'
  BY <1>0 DEF PoscTypeOK, Stages
<1>3. ASSUME ~clash' PROVE Peace'
  <2>0. /\ ~clash /\ Storage /\ FreeSlots /\ Owned /\ ToDo /\ Owner /\ Finished
        /\ PartRecorded
    BY <1>3 DEF PoscInv, Peace
  <2>a. /\ rec[poscNum[p]].LFN = p /\ rec[Unum[p]].LFN = p /\ rec[Unum[p]] # Empty
        /\ Empty.LFN = NoPath /\ Empty.addT = FALSE
    BY <1>0, <1>a, <2>0 DEF PoscTypeOK, Owned, Empty
  <2>b. /\ \A m \in Slots : rec'[m] = IF m = Unum[p] /\ Unum[p] # poscNum[p]
                                      THEN Empty ELSE rec[m]
        /\ \A q \in Paths : pqMap'[q] = IF q = p /\ Unum[p] # poscNum[p]
                                        THEN 0 ELSE pqMap[q]
    BY <1>0, <1>a DEF PoscTypeOK, Del
  <2>1. Storage'
    BY <1>0, <1>3, <2>0 DEF PoscTypeOK, Stages, Storage
  <2>2. FreeSlots'
    BY <1>0, <1>a, <2>0, <2>a, DelFrees DEF FreeSlots
  <2>3. Owned'
    BY <1>0, <1>3, <1>a, <2>0, <2>a, <2>b DEF PoscTypeOK, Stages, Owned
  <2>4. ToDo'
    BY <1>0, <1>3, <1>a, <2>0, <2>a, <2>b DEF PoscTypeOK, Stages, ToDo
  <2>5. Owner'
    <3>1. \A q \in Paths, n \in Slots : rec'[n].LFN = q => n \in {Unum'[q], poscNum'[q]}
      BY <1>0, <1>a, <2>0, <2>a, <2>b DEF PoscTypeOK, Owner
    <3>2. \A q \in Paths, n \in Slots : rec'[n].LFN = q /\ rec'[n].addT => n = Unum'[q]
      BY <1>0, <1>a, <2>0, <2>a, <2>b DEF PoscTypeOK, Owner
    <3>3. \A n \in Slots : rec'[n].LFN = NoPath => rec'[n] = Empty
      BY <2>0, <2>b DEF Owner
    <3>4. \A q \in Paths, n, m \in Slots : rec'[n].LFN = q /\ rec'[m].LFN = q
             /\ rec'[n].addT /\ rec'[m].addT => n = m
      BY <3>2
    <3> QED BY <1>a, <3>1, <3>2, <3>3, <3>4 DEF Owner
  <2>6. Finished'
    BY <1>0, <1>3, <1>a, <2>0, <2>a, <2>b DEF PoscTypeOK, Stages, Finished
  <2>7. PartRecorded'
    <3>1. rec'[poscNum[p]].LFN = p  BY <1>a, <2>a, <2>b
    <3>2. \A m \in Slots : rec[m].LFN # p => rec'[m] = rec[m]  BY <1>a, <2>a, <2>b
    <3>3. ASSUME NEW q \in Paths, file[q] = "part" PROVE \E n \in Slots : rec'[n].LFN = q
      <4>1. PICK n \in Slots : rec[n].LFN = q  BY <2>0, <3>3 DEF PartRecorded
      <4> QED BY <1>a, <3>1, <3>2, <4>1
    <3> QED BY <3>3 DEF PartRecorded
  <2> QED BY <2>1, <2>2, <2>3, <2>4, <2>5, <2>6, <2>7 DEF Peace
<1> QED BY <1>1, <1>2, <1>3 DEF PoscInv

\* An open that finds its file in the map shares the slot of the handle there.
LEMMA AddOldKeeps ==
  ASSUME PoscInv, NEW p \in Paths, OpenAdd(p), file[p] # "none" /\ pqMap[p] # 0
  PROVE  PoscInv'
<1> USE PoscAssumption, SlotNumbers DEF OpenAdd, queueVars, handVars, runVars
<1>0. PoscTypeOK /\ Stages  BY DEF PoscInv
<1>a. /\ poscNum' = [poscNum EXCEPT ![p] = pqMap[p]] /\ UNCHANGED <<rec, queueVars>>
      /\ pqMap[p] \in Slots /\ up = "up" /\ todo = << >> /\ opc[p] = "idle"
  BY <1>0 DEF Stages, PoscTypeOK
<1>1. PoscTypeOK'
  BY <1>0, <1>a DEF PoscTypeOK
<1>2. Stages'
  BY <1>0, <1>a DEF PoscTypeOK, Stages
<1>3. ASSUME ~clash' PROVE Peace'
  <2>0. /\ ~clash /\ Storage /\ FreeSlots /\ Owned /\ ToDo /\ Owner /\ Finished
        /\ PartRecorded
    BY <1>3 DEF PoscInv, Peace
  <2>1. Storage' /\ ToDo' /\ Finished' /\ PartRecorded'
    BY <1>0, <1>a, <2>0 DEF PoscTypeOK, Stages, Storage, ToDo, Finished, PartRecorded
  <2>2. FreeSlots'
    BY <1>a, <2>0 DEF FreeSlots
  <2>3. Owned' /\ Owner'
    BY <1>0, <1>a, <2>0 DEF PoscTypeOK, Stages, Owned, Owner
  <2> QED BY <2>1, <2>2, <2>3 DEF Peace
<1> QED BY <1>1, <1>2, <1>3 DEF PoscInv

\* Any other open writes a record of its own first.
LEMMA AddNewKeeps ==
  ASSUME PoscInv, NEW p \in Paths, OpenAdd(p), ~ (file[p] # "none" /\ pqMap[p] # 0)
  PROVE  PoscInv'
<1> USE PoscAssumption, SlotNumbers DEF handVars, runVars
<1>0. PoscTypeOK /\ Stages  BY DEF PoscInv
<1>a. PICK n \in Slots :
        /\ n = IF SlotList = << >> THEN pocSZ + 1 ELSE Head(SlotList)
        /\ rec' = [rec EXCEPT ![n] = [LFN |-> p, addT |-> FALSE]]
        /\ SlotList' = IF SlotList = << >> THEN << >> ELSE Tail(SlotList)
        /\ pocSZ' = IF SlotList = << >> THEN n ELSE pocSZ
        /\ pqMap' = [pqMap EXCEPT ![p] = n]
        /\ poscNum' = [poscNum EXCEPT ![p] = n]
  BY DEF OpenAdd
<1>b. /\ opc' = [opc EXCEPT ![p] = "added"] /\ told' = [told EXCEPT ![p] = FALSE]
      /\ UNCHANGED <<file, handVars, runVars, clash>>
      /\ up = "up" /\ todo = << >> /\ opc[p] = "idle"
  BY <1>0 DEF OpenAdd, Stages
<1>1. PoscTypeOK'
  <2>1. rec' \in [Slots -> [LFN : Paths \cup {NoPath}, addT : BOOLEAN]]
    BY <1>0, <1>a DEF PoscTypeOK
  <2>2. SlotList' \in Seq(Slots)
    BY <1>0, <1>a, Pop, EmptySeq DEF PoscTypeOK
  <2>3. pocSZ' \in 0 .. MaxSlots
    BY <1>0, <1>a DEF PoscTypeOK
  <2> QED BY <1>0, <1>a, <1>b, <2>1, <2>2, <2>3 DEF PoscTypeOK
<1>2. Stages'
  BY <1>0, <1>a, <1>b DEF PoscTypeOK, Stages
<1>3. ASSUME ~clash' PROVE Peace'
  <2>0. /\ ~clash /\ Storage /\ FreeSlots /\ Owned /\ ToDo /\ Owner /\ Finished
        /\ PartRecorded
    BY <1>3, <1>b DEF PoscInv, Peace
  <2>a. rec[n] = Empty /\ FreeSlots'
    BY <1>0, <1>a, <1>b, <2>0, TakeSlot
  <2>b. /\ \A m \in Slots : m # n => rec'[m] = rec[m]
        /\ rec'[n].LFN = p /\ rec'[n].addT = FALSE /\ rec[n].LFN = NoPath
    BY <1>0, <1>a, <2>a DEF PoscTypeOK, Empty
  <2>c. \A m \in Slots : rec[m].LFN # NoPath => rec'[m] = rec[m] /\ m # n
    BY <2>b
  <2>1. Storage' /\ ToDo'
    BY <1>0, <1>b, <2>0 DEF PoscTypeOK, Stages, Storage, ToDo
  <2>2. Finished'
    BY <1>0, <1>b, <2>0, <2>b DEF PoscTypeOK, Finished
  <2>3. Owned'
    BY <1>0, <1>a, <1>b, <2>0, <2>b, <2>c DEF PoscTypeOK, Stages, Owned
  <2>4. Owner'
    <3>1. \A q \in Paths, m \in Slots : rec'[m].LFN = q => m \in {Unum'[q], poscNum'[q]}
      <4>1. poscNum[p] = 0 /\ Len(todo) = 0  BY <1>0, <1>b DEF Stages
      <4>2. \A q \in Paths, m \in Slots : rec[m].LFN = q => m \in {Unum[q], poscNum[q]}
        BY <1>b, <2>0, <4>1 DEF Owner
      <4> QED BY <1>0, <1>a, <1>b, <2>b, <4>1, <4>2 DEF PoscTypeOK
    <3>2. \A q \in Paths, m \in Slots : rec'[m].LFN = q /\ rec'[m].addT => m = Unum'[q]
      <4>1. \A q \in Paths, m \in Slots : rec[m].LFN = q /\ rec[m].addT => m = Unum[q]
        BY <1>b, <2>0 DEF Owner
      <4>2. Unum' = Unum  BY <1>b DEF handVars
      <4>3. \A m \in Slots : rec'[m].addT => m # n /\ rec'[m] = rec[m]
        BY <2>b
      <4> QED BY <4>1, <4>2, <4>3
    <3>3. \A m \in Slots : rec'[m].LFN = NoPath => rec'[m] = Empty
      BY <2>0, <2>b DEF Owner
    <3>4. ASSUME NEW q \in Paths, NEW m \in Slots, NEW l \in Slots,
                 rec'[m].LFN = q, rec'[l].LFN = q, rec'[m].addT, rec'[l].addT
          PROVE  m = l
      BY <3>2, <3>4
    <3> QED BY <1>b, <3>1, <3>2, <3>3, <3>4 DEF Owner
  <2>5. PartRecorded'
    <3>1. ASSUME NEW q \in Paths, file[q] = "part" PROVE \E m \in Slots : rec'[m].LFN = q
      <4>1. PICK m \in Slots : rec[m].LFN = q  BY <2>0, <3>1 DEF PartRecorded
      <4> QED BY <2>c, <4>1
    <3> QED BY <1>b, <3>1 DEF PartRecorded
  <2> QED BY <2>a, <2>1, <2>2, <2>3, <2>4, <2>5 DEF Peace
<1> QED BY <1>1, <1>2, <1>3 DEF PoscInv

-----------------------------------------------------------------------------
\* A crash leaves the disk as it is and nothing else.
LEMMA CrashKeeps ==
  ASSUME PoscInv, Crash
  PROVE  PoscInv'
<1> USE PoscAssumption, SlotNumbers DEF Crash, diskVars, histVars
<1>0. PoscTypeOK /\ Stages /\ << >> \in Seq(Slots) /\ Len(<< >>) = 0  BY DEF PoscInv
<1>1. PoscTypeOK'
  <2>1. crashes' \in 0 .. MaxCrashes  BY <1>0 DEF PoscTypeOK
  <2> QED BY <1>0, <2>1 DEF PoscTypeOK
<1>2. Stages'
  BY <1>0 DEF PoscTypeOK, Stages
<1>3. ASSUME ~clash' PROVE Peace'
  <2>0. /\ ~clash /\ Storage /\ FreeSlots /\ Owned /\ ToDo /\ Owner /\ Finished
        /\ PartRecorded
    BY <1>3 DEF PoscInv, Peace
  <2>1. Storage' /\ ToDo' /\ FreeSlots' /\ Owned'
    BY <1>0 DEF Storage, ToDo, FreeSlots, Owned
  <2>2. Owner' /\ Finished' /\ PartRecorded'
    BY <2>0 DEF Owner, Finished, PartRecorded
  <2> QED BY <2>1, <2>2 DEF Peace
<1> QED BY <1>1, <1>2, <1>3 DEF PoscInv

\* Init and ReWrite keep the record of every file that exists.
LEMMA RestartKeeps ==
  ASSUME PoscInv, Restart
  PROVE  PoscInv'
<1> USE PoscAssumption, SlotNumbers DEF handVars, openVars, histVars
<1> DEFINE live == {n \in Slots : rec[n].LFN # NoPath /\ file[rec[n].LFN] # "none"}
           sz == Cardinality(live)
<1>0. PoscTypeOK /\ Stages  BY DEF PoscInv
<1>a. sz \in Nat /\ sz <= MaxSlots /\ \A n \in 1 .. sz : n \in Slots
  <2>1. IsFiniteSet(Slots) /\ Cardinality(Slots) = MaxSlots
    BY FS_Interval DEF Slots
  <2>2. IsFiniteSet(live) /\ Cardinality(live) <= Cardinality(Slots)
    BY <2>1, FS_Subset
  <2>3. sz \in Nat  BY <2>2, FS_CardinalityType
  <2> HIDE DEF sz
  <2>4. sz <= MaxSlots  BY <2>1, <2>2 DEF sz
  <2> QED BY <2>3, <2>4 DEF Slots
<1>b. /\ up = "down" /\ up' = "recover" /\ pocSZ' = sz /\ todo' = [n \in 1 .. sz |-> n]
      /\ UNCHANGED <<file, SlotList, handVars, openVars, histVars, crashes, errors>>
  BY DEF Restart
<1>c. PICK keep \in Bijection(1 .. sz, live) :
        /\ rec' = [n \in Slots |-> IF n <= sz THEN rec[keep[n]] ELSE Empty]
        /\ pqMap' = [p \in Paths |->
             LET its == {n \in 1 .. sz : rec[keep[n]].LFN = p}
             IN IF its = {} THEN 0 ELSE CHOOSE n \in its : \A m \in its : m <= n]
  BY DEF Restart
<1>d. /\ \A n \in 1 .. sz : keep[n] \in live
      /\ \A n, m \in 1 .. sz : keep[n] = keep[m] => n = m
      /\ \A m \in live : \E n \in 1 .. sz : keep[n] = m
  BY <1>c DEF Bijection, Injection, Surjection, IsInjective
<1> HIDE DEF sz
<1>e. /\ \A n \in 1 .. sz : rec'[n] = rec[keep[n]]
      /\ \A n \in Slots : n \notin 1 .. sz => rec'[n] = Empty
      /\ Empty.LFN = NoPath
  BY <1>a, <1>c DEF Slots, Empty
<1>f. \A p \in Paths : pqMap'[p] = 0 \/ (pqMap'[p] \in 1 .. sz /\ rec'[pqMap'[p]].LFN = p)
  <2> SUFFICES ASSUME NEW p \in Paths, pqMap'[p] # 0
               PROVE  pqMap'[p] \in 1 .. sz /\ rec'[pqMap'[p]].LFN = p
    OBVIOUS
  <2> DEFINE its == {n \in 1 .. sz : rec[keep[n]].LFN = p}
  <2>1. its # {} /\ pqMap'[p] = CHOOSE n \in its : \A m \in its : m <= n
    BY <1>c
  <2>2. \E n \in its : \A m \in its : m <= n
    BY <1>a, <2>1, LastExists
  <2>3. pqMap'[p] \in its  BY <2>1, <2>2
  <2> QED BY <1>e, <2>3
<1>g. todo' \in Seq(Slots) /\ Len(todo') = sz /\ \A i \in 1 .. sz : todo'[i] = i
  BY <1>a, <1>b
<1>1. PoscTypeOK'
  <2>1. Empty \in [LFN : Paths \cup {NoPath}, addT : BOOLEAN]  BY DEF Empty
  <2>2. rec' \in [Slots -> [LFN : Paths \cup {NoPath}, addT : BOOLEAN]]
    BY <1>0, <1>a, <1>c, <1>d, <2>1 DEF PoscTypeOK, Slots
  <2>3. pqMap' \in [Paths -> 0 .. MaxSlots]
    <3>1. \A p \in Paths : pqMap'[p] \in 0 .. MaxSlots  BY <1>a, <1>f
    <3>2. pqMap' = [p \in Paths |-> pqMap'[p]]  BY <1>c
    <3> QED BY <3>1, <3>2
  <2> QED BY <1>0, <1>a, <1>b, <1>g, <2>2, <2>3 DEF PoscTypeOK
<1>2. Stages'
  BY <1>0, <1>b DEF Stages
<1>3. ASSUME ~clash' PROVE Peace'
  <2>0. /\ ~clash /\ Storage /\ FreeSlots /\ Owned /\ ToDo /\ Owner /\ Finished
        /\ PartRecorded
    BY <1>3, <1>b DEF PoscInv, Peace
  <2>1. Storage'  BY <1>b, <2>0 DEF Storage
  <2>2. FreeSlots'
    <3>1. Len(SlotList') = 0  BY <1>0, <1>b DEF Stages
    <3>2. \A n \in Slots : rec'[n] # Empty => n <= pocSZ'
      BY <1>a, <1>b, <1>e
    <3> QED BY <3>1, <3>2 DEF FreeSlots
  <2>3. Owned'
    <3>1. \A p \in Paths : Unum'[p] = 0 /\ poscNum'[p] = 0
      BY <1>0, <1>b DEF Stages
    <3> QED BY <1>f, <3>1 DEF Owned
  <2>4. ToDo'
    BY <1>d, <1>e, <1>g DEF ToDo
  <2>5. Owner'
    <3>1. \A p \in Paths, n \in Slots : rec'[n].LFN = p => n \in 1 .. sz
      BY <1>e
    <3>2. \A n \in Slots : rec'[n].LFN = NoPath => rec'[n] = Empty
      BY <1>d, <1>e
    <3>3. ASSUME NEW p \in Paths, NEW n \in Slots, NEW m \in Slots,
                 rec'[n].LFN = p, rec'[m].LFN = p, rec'[n].addT, rec'[m].addT
          PROVE  n = m
      <4>1. n \in 1 .. sz /\ m \in 1 .. sz  BY <3>1, <3>3
      <4>2. keep[n] \in Slots /\ keep[m] \in Slots  BY <1>d, <4>1
      <4>3. /\ rec[keep[n]].LFN = p /\ rec[keep[m]].LFN = p
            /\ rec[keep[n]].addT /\ rec[keep[m]].addT
        BY <1>e, <3>3, <4>1
      <4>4. keep[n] = keep[m]  BY <2>0, <4>2, <4>3 DEF Owner
      <4> QED BY <1>d, <4>1, <4>4
    <3>4. \A p \in Paths, n \in Slots : rec'[n].LFN = p => \E i \in 1 .. Len(todo') : todo'[i] = n
      BY <1>g, <3>1
    <3>5. up' # "up"  BY <1>b
    <3> QED BY <3>2, <3>3, <3>4, <3>5 DEF Owner
  <2>6. Finished'
    <3>1. ASSUME NEW p \in Paths, told[p], NEW n \in Slots, rec'[n].LFN = p PROVE FALSE
      <4>1. n \in 1 .. sz  BY <1>e, <3>1
      <4>2. keep[n] \in Slots /\ rec[keep[n]].LFN = p  BY <1>d, <1>e, <3>1, <4>1
      <4> QED BY <2>0, <3>1, <4>2 DEF Finished
    <3> QED BY <1>b, <2>0, <3>1 DEF Finished
  <2>7. PartRecorded'
    <3>1. ASSUME NEW p \in Paths, file[p] = "part" PROVE \E n \in Slots : rec'[n].LFN = p
      <4>1. PICK m \in Slots : rec[m].LFN = p  BY <2>0, <3>1 DEF PartRecorded
      <4>2. m \in live  BY <3>1, <4>1
      <4>3. PICK n \in 1 .. sz : keep[n] = m  BY <1>d, <4>2
      <4> QED BY <1>a, <1>e, <4>1, <4>3
    <3> QED BY <1>b, <3>1 DEF PartRecorded
  <2> QED BY <2>1, <2>2, <2>3, <2>4, <2>5, <2>6, <2>7 DEF Peace
<1> QED BY <1>1, <1>2, <1>3 DEF PoscInv

\* ConfigPosc takes one record: a handle for a completed open ...
LEMMA RecoverHolds ==
  ASSUME PoscInv, Recover, rec[Head(todo)].addT
  PROVE  PoscInv'
<1> USE PoscAssumption, SlotNumbers DEF diskVars, queueVars, openVars, histVars
<1> DEFINE n == Head(todo)
           p == rec[n].LFN
<1>0. PoscTypeOK /\ Stages  BY DEF PoscInv
<1>a. /\ up = "recover" /\ up' = up /\ todo' = Tail(todo)
      /\ hand' = [hand EXCEPT ![p] = "held"] /\ Unum' = [Unum EXCEPT ![p] = n]
      /\ UNCHANGED <<diskVars, queueVars, ssi, openVars, histVars, crashes, errors>>
  BY DEF Recover
<1>b. /\ n \in Slots /\ n = todo[1] /\ Len(todo) \in Nat \ {0}
      /\ todo' \in Seq(Slots) /\ Len(todo') = Len(todo) - 1
      /\ \A i \in 1 .. Len(todo') : todo'[i] = todo[i + 1]
  BY <1>0, <1>a, Pop DEF PoscTypeOK, Recover
<1>c. \A i \in 1 .. Len(todo) : i = 1 \/ (i - 1 \in 1 .. Len(todo') /\ todo'[i - 1] = todo[i])
  BY <1>b
<1>d. rec[n].addT  OBVIOUS
<1> HIDE DEF n
<1>1. PoscTypeOK'
  BY <1>0, <1>a, <1>b DEF PoscTypeOK
<1>2. Stages'
  BY <1>0, <1>a, <1>b DEF PoscTypeOK, Stages
<1>3. ASSUME ~clash' PROVE Peace'
  <2>0. /\ ~clash /\ Storage /\ FreeSlots /\ Owned /\ ToDo /\ Owner /\ Finished
        /\ PartRecorded
    BY <1>3, <1>a DEF PoscInv, Peace
  <2>a. p \in Paths /\ rec[n].addT
    <3>1. rec[todo[1]].LFN # NoPath  BY <1>b, <2>0 DEF ToDo
    <3> QED BY <1>0, <1>b, <1>d, <3>1 DEF PoscTypeOK
  <2>1. Storage'
    BY <1>0, <1>a, <2>0 DEF PoscTypeOK, Stages, Storage
  <2>2. FreeSlots' /\ PartRecorded'
    BY <1>a, <2>0 DEF FreeSlots, PartRecorded
  <2>3. Owned'
    BY <1>0, <1>a, <1>b, <2>0, <2>a DEF PoscTypeOK, Owned
  <2>4. ToDo'
    BY <1>a, <1>b, <2>0 DEF ToDo
  <2>5. Owner'
    <3>1. ASSUME NEW q \in Paths, NEW m \in Slots, rec[m].LFN = q
          PROVE  m \in {Unum'[q], poscNum'[q]} \/ \E i \in 1 .. Len(todo') : todo'[i] = m
      <4>1. CASE m = Unum[q]
        <5>1. CASE q = p
          <6>1. rec[m].addT  BY <1>a, <2>0, <4>1 DEF Owned
          <6>2. m = n  BY <1>b, <2>0, <2>a, <3>1, <5>1, <6>1 DEF Owner
          <6> QED BY <1>0, <1>a, <5>1, <6>2 DEF PoscTypeOK
        <5>2. CASE q # p
          BY <1>0, <1>a, <4>1, <5>2 DEF PoscTypeOK
        <5> QED BY <5>1, <5>2
      <4>2. CASE m = poscNum[q]
        BY <1>a, <4>2
      <4>3. CASE \E i \in 1 .. Len(todo) : todo[i] = m
        <5>1. PICK i \in 1 .. Len(todo) : todo[i] = m  BY <4>3
        <5>2. CASE i = 1
          <6>1. m = n /\ q = p  BY <1>b, <3>1, <5>1, <5>2
          <6> QED BY <1>0, <1>a, <2>a, <6>1 DEF PoscTypeOK
        <5> QED BY <1>c, <5>1, <5>2
      <4>4. up # "down"  BY <1>a
      <4>5. m \in {Unum[q], poscNum[q]} \/ \E i \in 1 .. Len(todo) : todo[i] = m
        BY <2>0, <3>1, <4>4 DEF Owner
      <4> QED BY <4>1, <4>2, <4>3, <4>5
    <3> QED BY <1>a, <2>0, <3>1 DEF Owner
  <2>6. Finished'
    BY <1>0, <1>a, <1>b, <2>0, <2>a DEF PoscTypeOK, Finished
  <2> QED BY <2>1, <2>2, <2>3, <2>4, <2>5, <2>6 DEF Peace
<1> QED BY <1>1, <1>2, <1>3 DEF PoscInv

\* ... or the end of the file of another one, and then of its record.
LEMMA RecoverRemoves ==
  ASSUME PoscInv, Recover, ~ rec[Head(todo)].addT
  PROVE  PoscInv'
<1> USE PoscAssumption, SlotNumbers DEF openVars, histVars
<1> DEFINE n == Head(todo)
           p == rec[n].LFN
<1>0. PoscTypeOK /\ Stages  BY DEF PoscInv
<1>a. /\ up = "recover" /\ up' = up /\ todo' = Tail(todo)
      /\ file' = [file EXCEPT ![p] = "none"]
      /\ ssi' = [ssi EXCEPT ![p] = IF @ = "named" THEN "gone" ELSE @]
      /\ Del(p, n)
      /\ UNCHANGED <<hand, Unum, openVars, histVars, crashes, errors>>
  BY DEF Recover, Unlink
<1>b. /\ n \in Slots /\ n = todo[1] /\ Len(todo) \in Nat \ {0}
      /\ todo' \in Seq(Slots) /\ Len(todo') = Len(todo) - 1
      /\ \A i \in 1 .. Len(todo') : todo'[i] = todo[i + 1]
  BY <1>0, <1>a, Pop DEF PoscTypeOK, Recover
<1>c. \A i \in 1 .. Len(todo) : i = 1 \/ (i - 1 \in 1 .. Len(todo') /\ todo'[i - 1] = todo[i])
  BY <1>b
<1>d. ~ rec[n].addT  OBVIOUS
<1> HIDE DEF n
<1>e. /\ rec'[n] = Empty /\ Empty.LFN = NoPath /\ Empty.addT = FALSE
      /\ \A m \in Slots : m # n => rec'[m] = rec[m]
      /\ pqMap' = [pqMap EXCEPT ![p] = 0]
  BY <1>0, <1>a, <1>b DEF PoscTypeOK, Del, Empty
<1>f. \A q \in Paths : ssi[q] = "none" /\ ssi'[q] = "none"
  BY <1>0, <1>a DEF PoscTypeOK, Stages
<1>1. PoscTypeOK'
  BY <1>0, <1>a, <1>b, DelTypes DEF PoscTypeOK
<1>2. Stages'
  BY <1>0, <1>a, <1>f DEF PoscTypeOK, Stages
<1>3. ASSUME ~clash' PROVE Peace'
  <2>0. /\ ~clash /\ Storage /\ FreeSlots /\ Owned /\ ToDo /\ Owner /\ Finished
        /\ PartRecorded
    BY <1>3, <1>a DEF PoscInv, Peace
  <2>a. p \in Paths /\ rec[n] # Empty
    BY <1>0, <1>b, <1>e, <2>0 DEF PoscTypeOK, ToDo
  <2>b. /\ \A m \in Slots : rec[m].LFN # p => rec'[m] = rec[m]
        /\ \A m \in Slots : rec[m].addT => m # n
        /\ \A i \in 1 .. Len(todo') : todo'[i] # n /\ todo'[i] \in Slots
    <3>1. \A m \in Slots : rec[m].LFN # p => rec'[m] = rec[m]  BY <1>e
    <3>2. \A m \in Slots : rec[m].addT => m # n  BY <1>d
    <3>3. \A i \in 1 .. Len(todo') : i + 1 \in 1 .. Len(todo) /\ i + 1 # 1  BY <1>b
    <3>4. \A i \in 1 .. Len(todo') : todo'[i] # n  BY <1>b, <2>0, <3>3 DEF ToDo
    <3> QED BY <1>b, <3>1, <3>2, <3>4, Elements
  <2>1. Storage'
    BY <1>0, <1>a, <1>f, <2>0 DEF PoscTypeOK, Stages, Storage
  <2>2. FreeSlots'
    BY <1>0, <1>a, <1>b, <2>0, <2>a, DelFrees
  <2>3. Owned'
    <3>1. ASSUME NEW q \in Paths, Unum[q] # 0 PROVE rec'[Unum[q]] = rec[Unum[q]]
      BY <1>0, <1>a, <1>e, <2>0, <2>b, <3>1 DEF PoscTypeOK, Owned
    <3>2. ASSUME NEW q \in Paths, pqMap'[q] # 0 PROVE pqMap'[q] = pqMap[q] /\ q # p
      BY <1>0, <1>e, <2>a, <3>2 DEF PoscTypeOK
    <3>3. ASSUME NEW q \in Paths, pqMap'[q] # 0 PROVE rec'[pqMap'[q]].LFN = q
      <4>1. pqMap[q] \in Slots /\ rec[pqMap[q]].LFN = q
        BY <1>0, <2>0, <3>2, <3>3 DEF PoscTypeOK, Owned
      <4> QED BY <2>b, <3>2, <3>3, <4>1
    <3>4. \A q \in Paths : poscNum'[q] = 0  BY <1>0, <1>a DEF Stages
    <3> QED BY <1>a, <2>0, <3>1, <3>3, <3>4 DEF Owned
  <2>4. ToDo'
    <3>1. \A i \in 1 .. Len(todo') : rec'[todo'[i]].LFN # NoPath
      <4>1. \A i \in 1 .. Len(todo') : i + 1 \in 1 .. Len(todo)  BY <1>b
      <4>2. \A i \in 1 .. Len(todo') : rec[todo'[i]].LFN # NoPath
        BY <1>b, <2>0, <4>1 DEF ToDo
      <4> QED BY <1>e, <2>b, <4>2
    <3>2. \A i, j \in 1 .. Len(todo') : todo'[i] = todo'[j] => i = j
      BY <1>b, <2>0 DEF ToDo
    <3> QED BY <3>1, <3>2 DEF ToDo
  <2>5. Owner'
    <3>0. \A m \in Slots : rec'[m].LFN # NoPath => m # n /\ rec'[m] = rec[m]
      BY <1>e
    <3>1. ASSUME NEW q \in Paths, NEW m \in Slots, rec'[m].LFN = q
          PROVE  m \in {Unum'[q], poscNum'[q]} \/ \E i \in 1 .. Len(todo') : todo'[i] = m
      <4>1. m # n /\ rec[m].LFN = q  BY <3>0, <3>1
      <4>2. m \in {Unum[q], poscNum[q]} \/ \E i \in 1 .. Len(todo) : todo[i] = m
        BY <1>a, <2>0, <4>1 DEF Owner
      <4>3. CASE \E i \in 1 .. Len(todo) : todo[i] = m
        <5>1. PICK i \in 1 .. Len(todo) : todo[i] = m  BY <4>3
        <5> QED BY <1>b, <1>c, <4>1, <5>1
      <4> QED BY <1>a, <4>2, <4>3
    <3>2. ASSUME NEW q \in Paths, NEW m \in Slots, NEW l \in Slots,
                 rec'[m].LFN = q, rec'[l].LFN = q, rec'[m].addT, rec'[l].addT
          PROVE  m = l
      <4>1. rec'[m] = rec[m] /\ rec'[l] = rec[l]  BY <3>0, <3>2
      <4>2. rec[m].LFN = q /\ rec[l].LFN = q /\ rec[m].addT /\ rec[l].addT
        BY <3>2, <4>1
      <4> QED BY <2>0, <4>2 DEF Owner
    <3>3. \A m \in Slots : rec'[m].LFN = NoPath => rec'[m] = Empty
      BY <1>e, <2>0 DEF Owner
    <3> QED BY <1>a, <3>1, <3>2, <3>3 DEF Owner
  <2>6. Finished'
    <3>1. ASSUME NEW q \in Paths, told[q] PROVE q # p
      BY <1>b, <2>0, <3>1 DEF Finished
    <3>2. \A q \in Paths : q # p => file'[q] = file[q]
      BY <1>0, <1>a DEF PoscTypeOK
    <3>3. ASSUME NEW q \in Paths, told[q], NEW m \in Slots PROVE rec'[m].LFN # q
      BY <1>e, <2>0, <3>3 DEF Finished
    <3> QED BY <1>a, <2>0, <3>1, <3>2, <3>3 DEF Finished
  <2>7. PartRecorded'
    <3>1. ASSUME NEW q \in Paths, file'[q] = "part" PROVE \E m \in Slots : rec'[m].LFN = q
      <4>1. q # p /\ file[q] = "part"  BY <1>0, <1>a, <3>1 DEF PoscTypeOK
      <4>2. PICK m \in Slots : rec[m].LFN = q  BY <2>0, <4>1 DEF PartRecorded
      <4> QED BY <2>b, <4>1, <4>2
    <3> QED BY <3>1 DEF PartRecorded
  <2> QED BY <2>1, <2>2, <2>3, <2>4, <2>5, <2>6, <2>7 DEF Peace
<1> QED BY <1>1, <1>2, <1>3 DEF PoscInv

-----------------------------------------------------------------------------
LEMMA PoscStep == PoscInv /\ [PoscNext]_poscVars => PoscInv'
<1> SUFFICES ASSUME PoscInv, [PoscNext]_poscVars PROVE PoscInv'
  OBVIOUS
<1>1. CASE UNCHANGED poscVars
  BY <1>1 DEF poscVars, diskVars, queueVars, handVars, openVars, runVars, histVars,
       PoscInv, PoscTypeOK, Stages, Peace, Storage, FreeSlots, Owned, ToDo, Owner,
       Finished, PartRecorded
<1>2. ASSUME NEW p \in Paths, ServerStep(p) PROVE PoscInv'
  BY <1>2, OpenCreateKeeps, OpenFailsKeeps, OpenDelKeeps, OpenNewKeeps, OpenAttachKeeps,
       OpenCommitKeeps, CloseDelKeeps, FailDelKeeps, ExpireDelKeeps DEF ServerStep
<1>3. ASSUME NEW p \in Paths, OpenAdd(p) PROVE PoscInv'
  BY <1>3, AddOldKeeps, AddNewKeeps
<1>4. ASSUME NEW p \in Paths,
             CloseMode(p) \/ WriteFails(p) \/ Drop(p) \/ Reopen(p) \/ Expire(p)
      PROVE  PoscInv'
  BY <1>4, CloseModeKeeps, WriteFailsKeeps, DropKeeps, ReopenKeeps, ExpireKeeps
<1>5. CASE Crash \/ Restart \/ Recover \/ Ready
  BY <1>5, CrashKeeps, RestartKeeps, RecoverHolds, RecoverRemoves, ReadyKeeps
<1> QED BY <1>1, <1>2, <1>3, <1>4, <1>5 DEF PoscNext

\* The inductive invariant holds of every behaviour of the queue.
THEOREM PoscInvariance == PoscSpec => []PoscInv
BY InitInv, PoscStep, PTL DEF PoscSpec

\* The types of the disk, the queue, the handles and the opens; no slot number
\* that is used is 0.
THEOREM PoscTypeCorrect == PoscSpec => []PoscTypeOK
<1>1. PoscInv => PoscTypeOK  BY DEF PoscInv
<1> QED BY <1>1, PoscInvariance, PTL

\* Add writes the record before the file is created, and the record goes after
\* the file was removed or completed: in between a crash finds it.
THEOREM UnfinishedIsRecorded == PoscSpec => []PartRecorded
<1>1. PoscInv => PartRecorded  BY DEF PoscInv, Peace, PartRecorded
<1> QED BY <1>1, PoscInvariance, PTL

\* No recovery, expired handle or failed open removes a file whose close was
\* reported, after any number of crashes.
THEOREM ClosedFilePersists == PoscSpec => []ClosedPersists
<1>1. PoscInv => ClosedPersists
  BY DEF PoscInv, Peace, Finished, ClosedPersists, PersistsOnClose
<1> QED BY <1>1, PoscInvariance, PTL

\* Add, Commit and Del, and the rewriting of the queue file at a restart, keep
\* every slot with one owner.
THEOREM SlotsAreApart == PoscSpec => []SlotsApart
<1>1. ASSUME PoscInv, ~clash
      PROVE  /\ \A p \in Paths : \A n \in {Unum[p], poscNum[p]} \ {0} : rec[n].LFN = p
             /\ \A i \in DOMAIN SlotList : rec[SlotList[i]] = Empty
             /\ \A i, j \in DOMAIN SlotList : SlotList[i] = SlotList[j] => i = j
  <2>1. Owned /\ FreeSlots /\ DOMAIN SlotList = 1 .. Len(SlotList)
    BY <1>1, Elements DEF PoscInv, Peace, PoscTypeOK
  <2> QED BY <2>1 DEF Owned, FreeSlots
<1>2. PoscInv => SlotsApart  BY <1>1 DEF SlotsApart
<1> QED BY <1>2, PoscInvariance, PTL
=============================================================================
