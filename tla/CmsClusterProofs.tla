-------------------------- MODULE CmsClusterProofs --------------------------
(* Proofs about the node table, for every number of slots, subscribers,    *)
(* connections and node objects.                                           *)
EXTENDS CmsCluster, FiniteSetTheorems, WellFoundedInduction, TLAPS

Active == {"login", "admitted", "stuck", "dispatch", "ended"}
InTable == {n \in Nodes : NodeTab[NodeID[n]] = n}

(***************************************************************************)
(* The inductive invariant.                                                *)
(***************************************************************************)

\* A node in the table is in its own slot.
OwnSlot == \A k \in Slots : NodeTab[k] # 0 => NodeID[NodeTab[k]] = k

\* One Add at most waits with STMutex held, for a node that is in the table.
Waiting ==
  /\ \A c, d \in Conns : pc[c] = "bump" /\ pc[d] = "bump" => c = d
  /\ \A c \in Conns : pc[c] = "bump" =>
        noted[c] \in Slots /\ NodeTab[noted[c]] # 0 /\ made < MaxNodes

\* What a thread knows of its node while it has one.
HasNode == \A c \in Conns : node[c] # 0 <=> pc[c] \in Active \union {"swap"}
ActiveBound ==
  \A c \in Conns : pc[c] \in Active =>
      node[c] \in isBound /\ (node[c] \in InTable <=> node[c] \in isConn)
SwapDown ==
  \A c \in Conns : pc[c] = "swap" =>
      node[c] \notin isConn /\ (node[c] \in InTable => node[c] \in isBound)
OfflineShoved ==
  \A c \in Conns : pc[c] \in {"login", "admitted", "dispatch"} =>
      (node[c] \in isOffline <=> node[c] \notin InTable)

\* What the sets know of the threads.
BoundHasThread == \A n \in isBound : \E c \in Conns : node[c] = n
ConnHasThread ==
  \A n \in isConn : \E c \in Conns : node[c] = n /\ pc[c] \in Active

\* A node that is to be deleted is out of the table, and only a thread in Remove
\* may still have it; one that was deleted nobody has.
Deleting ==
  \A n \in Nodes : deletes[n] > 0 =>
      n <= made /\ n \notin InTable /\ \A c \in Conns : node[c] = n => pc[c] = "swap"
Deleted ==
  \A n \in deleted : n \notin InTable /\ sends # n /\ \A c \in Conns : node[c] # n

Kept == /\ OwnSlot /\ Waiting /\ HasNode /\ ActiveBound /\ SwapDown
        /\ OfflineShoved /\ BoundHasThread /\ ConnHasThread
        /\ Deleting /\ Deleted

CInv == /\ ClusterTypeOK /\ OneThreadPerNode /\ SameAtEntry /\ DownHasDropJob
        /\ NodeCntCounts
        /\ broken = "no" => Kept

-----------------------------------------------------------------------------
(***************************************************************************)
(* Counting the slots whose node is logged in.                             *)
(***************************************************************************)
BoundSlots == {k \in Used : NodeTab[k] \in isBound}

LEMMA SlotsFinite == ASSUME NEW S, S \subseteq Slots
                     PROVE  IsFiniteSet(S) /\ Cardinality(S) \in Nat
<1>1. IsFiniteSet(Slots)  BY ClusterAssumption, FS_Interval DEF Slots
<1> QED BY <1>1, FS_Subset, FS_CardinalityType

LEMMA OneSlotMore ==
  ASSUME NEW S, S \subseteq Slots, NEW k, k \notin S, NEW T, T = S \union {k}
  PROVE  Cardinality(T) = Cardinality(S) + 1
BY SlotsFinite, FS_AddElement

LEMMA OneSlotLess ==
  ASSUME NEW S, S \subseteq Slots, NEW k \in S, NEW T, T = S \ {k}
  PROVE  Cardinality(T) = Cardinality(S) - 1
BY SlotsFinite, FS_RemoveElement

LEMMA ConstantsOK == /\ Nodes \subseteq Nat /\ 0 \notin Nodes
                     /\ MaxInst \in Nat /\ AnyServer \in Servers
BY ClusterAssumption DEF Nodes, AnyServer

(***************************************************************************)
(* Nodes of threads and of slots.                                          *)
(***************************************************************************)
LEMMA OwnNode ==
  ASSUME ClusterTypeOK, HasNode, NEW c \in Conns, pc[c] \in Active \union {"swap"}
  PROVE  node[c] \in 1 .. made /\ node[c] \in Nodes /\ NodeID[node[c]] \in Slots
<1>1. node[c] \in 0 .. made /\ node[c] # 0 /\ made \in 0 .. MaxNodes
  BY DEF ClusterTypeOK, HasNode
<1>2. node[c] \in 1 .. made /\ node[c] \in Nodes
  BY <1>1, ClusterAssumption DEF Nodes
<1> QED BY <1>2 DEF ClusterTypeOK

LEMMA SlotNode ==
  ASSUME ClusterTypeOK
  PROVE  \A k \in Used : NodeTab[k] \in Nodes /\ NodeTab[k] \in 1 .. made
<1> SUFFICES ASSUME NEW k \in Used PROVE NodeTab[k] \in Nodes /\ NodeTab[k] \in 1 .. made
  OBVIOUS
<1>1. NodeTab[k] \in 0 .. made /\ NodeTab[k] # 0 /\ made \in 0 .. MaxNodes
  BY DEF ClusterTypeOK, Used
<1> QED BY <1>1, ClusterAssumption DEF Nodes

LEMMA ResetRefKeeps ==
  ASSUME CInv, broken = "no", NEW c \in Conns, ResetRef(c)
  PROVE  CInv'
<1> USE ConstantsOK DEF ResetRef, Step, Elsewhere, nodeVars
<1>a. /\ ClusterTypeOK /\ OneThreadPerNode /\ SameAtEntry /\ DownHasDropJob
      /\ NodeCntCounts /\ OwnSlot /\ Waiting /\ HasNode /\ ActiveBound /\ SwapDown
      /\ OfflineShoved /\ BoundHasThread /\ ConnHasThread /\ Deleting /\ Deleted
  BY DEF CInv, Kept
<1>c. NodeCntCounts' /\ NodeCnt' \in Nat
  BY <1>a DEF NodeCntCounts, Used, ClusterTypeOK
<1>1. ClusterTypeOK'
  BY <1>c, <1>a DEF ClusterTypeOK
<1>2. OneThreadPerNode' /\ SameAtEntry' /\ DownHasDropJob'
  BY <1>a DEF Active, BoundHasThread, ClusterTypeOK, DownHasDropJob, HasNode,
       OneThreadPerNode, OwnSlot, SameAtEntry, Used
<1>3. OwnSlot' /\ Waiting' /\ HasNode'
  BY <1>a DEF Active, ClusterTypeOK, HasNode, OwnSlot, Waiting
<1>4. ActiveBound' /\ SwapDown' /\ OfflineShoved'
  BY <1>a DEF Active, ActiveBound, ClusterTypeOK, HasNode, InTable, OfflineShoved,
       OneThreadPerNode, OwnSlot, SwapDown, Waiting
<1>5. BoundHasThread' /\ ConnHasThread'
  BY <1>a DEF Active, BoundHasThread, ClusterTypeOK, ConnHasThread, HasNode
<1>6. Deleting' /\ Deleted'
  BY <1>a DEF Active, ActiveBound, BoundHasThread, ClusterTypeOK, ConnHasThread,
       Deleted, Deleting, HasNode, InTable, OwnSlot, Waiting
<1> QED BY <1>c, <1>1, <1>2, <1>3, <1>4, <1>5, <1>6 DEF CInv, Kept

LEMMA LoginFailsKeeps ==
  ASSUME CInv, broken = "no", NEW c \in Conns, LoginFails(c)
  PROVE  CInv'
<1> USE ConstantsOK DEF LoginFails, Step, Elsewhere, nodeVars
<1>a. /\ ClusterTypeOK /\ OneThreadPerNode /\ SameAtEntry /\ DownHasDropJob
      /\ NodeCntCounts /\ OwnSlot /\ Waiting /\ HasNode /\ ActiveBound /\ SwapDown
      /\ OfflineShoved /\ BoundHasThread /\ ConnHasThread /\ Deleting /\ Deleted
  BY DEF CInv, Kept
<1>c. NodeCntCounts' /\ NodeCnt' \in Nat
  BY <1>a DEF NodeCntCounts, Used, ClusterTypeOK
<1>1. ClusterTypeOK'
  BY <1>c, <1>a DEF ClusterTypeOK
<1>2. OneThreadPerNode' /\ SameAtEntry' /\ DownHasDropJob'
  BY <1>a DEF Active, BoundHasThread, ClusterTypeOK, DownHasDropJob, HasNode,
       OneThreadPerNode, OwnSlot, SameAtEntry, Used
<1>3. OwnSlot' /\ Waiting' /\ HasNode'
  BY <1>a DEF Active, ClusterTypeOK, HasNode, OwnSlot, Waiting
<1>4. ActiveBound' /\ SwapDown' /\ OfflineShoved'
  BY <1>a DEF Active, ActiveBound, ClusterTypeOK, HasNode, InTable, OfflineShoved,
       OneThreadPerNode, OwnSlot, SwapDown, Waiting
<1>5. BoundHasThread' /\ ConnHasThread'
  BY <1>a DEF Active, BoundHasThread, ClusterTypeOK, ConnHasThread, HasNode
<1>6. Deleting' /\ Deleted'
  BY <1>a DEF Active, ActiveBound, BoundHasThread, ClusterTypeOK, ConnHasThread,
       Deleted, Deleting, HasNode, InTable, OwnSlot, Waiting
<1> QED BY <1>c, <1>1, <1>2, <1>3, <1>4, <1>5, <1>6 DEF CInv, Kept

LEMMA LoginDoneKeeps ==
  ASSUME CInv, broken = "no", NEW c \in Conns, LoginDone(c)
  PROVE  CInv'
<1> USE ConstantsOK DEF LoginDone, Step, Elsewhere, nodeVars
<1>a. /\ ClusterTypeOK /\ OneThreadPerNode /\ SameAtEntry /\ DownHasDropJob
      /\ NodeCntCounts /\ OwnSlot /\ Waiting /\ HasNode /\ ActiveBound /\ SwapDown
      /\ OfflineShoved /\ BoundHasThread /\ ConnHasThread /\ Deleting /\ Deleted
  BY DEF CInv, Kept
<1>c. NodeCntCounts' /\ NodeCnt' \in Nat
  BY <1>a DEF NodeCntCounts, Used, ClusterTypeOK
<1>1. ClusterTypeOK'
  BY <1>c, <1>a DEF ClusterTypeOK
<1>2. OneThreadPerNode' /\ SameAtEntry' /\ DownHasDropJob'
  BY <1>a DEF Active, BoundHasThread, ClusterTypeOK, DownHasDropJob, HasNode,
       OneThreadPerNode, OwnSlot, SameAtEntry, Used
<1>3. OwnSlot' /\ Waiting' /\ HasNode'
  BY <1>a DEF Active, ClusterTypeOK, HasNode, OwnSlot, Waiting
<1>4. ActiveBound' /\ SwapDown' /\ OfflineShoved'
  BY <1>a DEF Active, ActiveBound, ClusterTypeOK, HasNode, InTable, OfflineShoved,
       OneThreadPerNode, OwnSlot, SwapDown, Waiting
<1>5. BoundHasThread' /\ ConnHasThread'
  BY <1>a DEF Active, BoundHasThread, ClusterTypeOK, ConnHasThread, HasNode
<1>6. Deleting' /\ Deleted'
  BY <1>a DEF Active, ActiveBound, BoundHasThread, ClusterTypeOK, ConnHasThread,
       Deleted, Deleting, HasNode, InTable, OwnSlot, Waiting
<1> QED BY <1>c, <1>1, <1>2, <1>3, <1>4, <1>5, <1>6 DEF CInv, Kept

LEMMA LoseKeeps ==
  ASSUME CInv, broken = "no", NEW c \in Conns, Lose(c)
  PROVE  CInv'
<1> USE ConstantsOK DEF Lose, Step, Elsewhere, nodeVars
<1>a. /\ ClusterTypeOK /\ OneThreadPerNode /\ SameAtEntry /\ DownHasDropJob
      /\ NodeCntCounts /\ OwnSlot /\ Waiting /\ HasNode /\ ActiveBound /\ SwapDown
      /\ OfflineShoved /\ BoundHasThread /\ ConnHasThread /\ Deleting /\ Deleted
  BY DEF CInv, Kept
<1>b. node[c] \in 1 .. made /\ node[c] \in Nodes /\ NodeID[node[c]] \in Slots
      /\ deletes[node[c]] \in Nat
  <2>1. pc[c] \in Active \union {"swap"}  BY DEF Active
  <2>2. node[c] \in 1 .. made /\ node[c] \in Nodes /\ NodeID[node[c]] \in Slots
    BY <1>a, <2>1, OwnNode
  <2> QED BY <1>a, <2>2 DEF ClusterTypeOK
<1>d. \A d \in Conns : d # c => node[d] # node[c]
  BY <1>a, <1>b DEF OneThreadPerNode
<1>f. \A k \in Used : NodeTab[k] \in Nodes /\ NodeTab[k] \in 1 .. made
  BY <1>a, SlotNode
<1>e. InTable' = InTable
  BY DEF InTable
<1>c. NodeCntCounts' /\ NodeCnt' \in Nat
  BY <1>a DEF NodeCntCounts, Used, ClusterTypeOK
<1>1. ClusterTypeOK'
  BY <1>c, <1>b, <1>a DEF ClusterTypeOK
<1>2. OneThreadPerNode' /\ SameAtEntry' /\ DownHasDropJob'
  BY <1>b, <1>d, <1>e, <1>f, <1>a DEF Active, BoundHasThread, ClusterTypeOK,
       DownHasDropJob, HasNode, OneThreadPerNode, OwnSlot, SameAtEntry, Used
<1>3. OwnSlot' /\ Waiting' /\ HasNode'
  BY <1>b, <1>d, <1>e, <1>f, <1>a DEF Active, ClusterTypeOK, HasNode, OwnSlot,
       Waiting
<1>4. ActiveBound' /\ SwapDown' /\ OfflineShoved'
  BY <1>b, <1>d, <1>e, <1>f, <1>a DEF Active, ActiveBound, ClusterTypeOK, HasNode,
       OfflineShoved, OneThreadPerNode, OwnSlot, SwapDown, Waiting
<1>5. BoundHasThread' /\ ConnHasThread'
  BY <1>b, <1>d, <1>e, <1>f, <1>a DEF Active, BoundHasThread, ClusterTypeOK,
       ConnHasThread, HasNode
<1>6. Deleting' /\ Deleted'
  BY <1>b, <1>d, <1>e, <1>f, <1>a DEF Active, ActiveBound, BoundHasThread,
       ClusterTypeOK, ConnHasThread, Deleted, Deleting, HasNode, OwnSlot, Waiting
<1> QED BY <1>c, <1>1, <1>2, <1>3, <1>4, <1>5, <1>6 DEF CInv, Kept

LEMMA EndKeeps ==
  ASSUME CInv, broken = "no", NEW c \in Conns, End(c)
  PROVE  CInv'
<1> USE ConstantsOK DEF End, Step, Elsewhere, nodeVars
<1>a. /\ ClusterTypeOK /\ OneThreadPerNode /\ SameAtEntry /\ DownHasDropJob
      /\ NodeCntCounts /\ OwnSlot /\ Waiting /\ HasNode /\ ActiveBound /\ SwapDown
      /\ OfflineShoved /\ BoundHasThread /\ ConnHasThread /\ Deleting /\ Deleted
  BY DEF CInv, Kept
<1>b. node[c] \in 1 .. made /\ node[c] \in Nodes /\ NodeID[node[c]] \in Slots
      /\ deletes[node[c]] \in Nat
  <2>1. pc[c] \in Active \union {"swap"}  BY DEF Active
  <2>2. node[c] \in 1 .. made /\ node[c] \in Nodes /\ NodeID[node[c]] \in Slots
    BY <1>a, <2>1, OwnNode
  <2> QED BY <1>a, <2>2 DEF ClusterTypeOK
<1>d. \A d \in Conns : d # c => node[d] # node[c]
  BY <1>a, <1>b DEF OneThreadPerNode
<1>f. \A k \in Used : NodeTab[k] \in Nodes /\ NodeTab[k] \in 1 .. made
  BY <1>a, SlotNode
<1>e. InTable' = InTable
  BY DEF InTable
<1>c. NodeCntCounts' /\ NodeCnt' \in Nat
  BY <1>a DEF NodeCntCounts, Used, ClusterTypeOK
<1>1. ClusterTypeOK'
  <2> USE <1>a, <1>b DEF ClusterTypeOK
  <2>1. /\ NodeTab' \in [Slots -> 0 .. made'] /\ made' \in 0 .. MaxNodes
        /\ sends' \in 0 .. made'
    OBVIOUS
  <2>2. /\ owner' \in [Nodes -> Servers] /\ NodeID' \in [Nodes -> Slots]
        /\ Instance' \in [Nodes -> 0 .. MaxInst]
    OBVIOUS
  <2>3. DropJob' \in [Nodes -> 0 .. MaxInst] /\ deletes' \in [Nodes -> Nat]  OBVIOUS
  <2>4. /\ isConn' \subseteq 1 .. made' /\ isBound' \subseteq 1 .. made'
        /\ isOffline' \subseteq 1 .. made' /\ deleted' \subseteq 1 .. made'
    OBVIOUS
  <2>5. pc' \in [Conns -> {"idle", "bump", "login", "admitted", "stuck",
                         "dispatch", "ended", "swap"}]
    OBVIOUS
  <2>6. /\ node' \in [Conns -> 0 .. made'] /\ seeks' \in [Conns -> Servers]
        /\ noted' \in [Conns -> Nat]
    OBVIOUS
  <2>7. uncounted' \in Nat /\ broken' \in {"no", "dropped", "deleted"}  OBVIOUS
  <2> QED BY <1>c, <2>1, <2>2, <2>3, <2>4, <2>5, <2>6, <2>7
<1>2. OneThreadPerNode' /\ SameAtEntry' /\ DownHasDropJob'
  BY <1>b, <1>d, <1>e, <1>f, <1>a DEF Active, BoundHasThread, ClusterTypeOK,
       DownHasDropJob, HasNode, OneThreadPerNode, OwnSlot, SameAtEntry, Used
<1>3. OwnSlot' /\ Waiting' /\ HasNode'
  BY <1>b, <1>d, <1>e, <1>f, <1>a DEF Active, ClusterTypeOK, HasNode, OwnSlot,
       Waiting
<1>4. ActiveBound' /\ SwapDown' /\ OfflineShoved'
  BY <1>b, <1>d, <1>e, <1>f, <1>a DEF Active, ActiveBound, ClusterTypeOK, HasNode,
       OfflineShoved, OneThreadPerNode, OwnSlot, SwapDown, Waiting
<1>5. BoundHasThread' /\ ConnHasThread'
  BY <1>b, <1>d, <1>e, <1>f, <1>a DEF Active, BoundHasThread, ClusterTypeOK,
       ConnHasThread, HasNode
<1>6. Deleting' /\ Deleted'
  BY <1>b, <1>d, <1>e, <1>f, <1>a DEF Active, ActiveBound, BoundHasThread,
       ClusterTypeOK, ConnHasThread, Deleted, Deleting, HasNode, OwnSlot, Waiting
<1> QED BY <1>c, <1>1, <1>2, <1>3, <1>4, <1>5, <1>6 DEF CInv, Kept

LEMMA RemoveOtherKeeps ==
  ASSUME CInv, broken = "no", NEW c \in Conns, RemoveOther(c)
  PROVE  CInv'
<1> USE ConstantsOK DEF RemoveOther, RemoveStart, Vacate, Step, nodeVars,
     STMutexFree
<1>a. /\ ClusterTypeOK /\ OneThreadPerNode /\ SameAtEntry /\ DownHasDropJob
      /\ NodeCntCounts /\ OwnSlot /\ Waiting /\ HasNode /\ ActiveBound /\ SwapDown
      /\ OfflineShoved /\ BoundHasThread /\ ConnHasThread /\ Deleting /\ Deleted
  BY DEF CInv, Kept
<1>b. node[c] \in 1 .. made /\ node[c] \in Nodes /\ NodeID[node[c]] \in Slots
      /\ deletes[node[c]] \in Nat
  <2>1. pc[c] \in Active \union {"swap"}  BY DEF Active
  <2>2. node[c] \in 1 .. made /\ node[c] \in Nodes /\ NodeID[node[c]] \in Slots
    BY <1>a, <2>1, OwnNode
  <2> QED BY <1>a, <2>2 DEF ClusterTypeOK
<1>d. \A d \in Conns : d # c => node[d] # node[c]
  BY <1>a, <1>b DEF OneThreadPerNode
<1>f. \A k \in Used : NodeTab[k] \in Nodes /\ NodeTab[k] \in 1 .. made
  BY <1>a, SlotNode
<1>e. InTable' = InTable
  BY DEF InTable
<1>c. NodeCntCounts' /\ NodeCnt' \in Nat
  <2>1. BoundSlots' = BoundSlots
    BY <1>a, <1>b DEF BoundSlots, Used, OwnSlot, ClusterTypeOK
  <2> QED BY <1>a, <2>1 DEF NodeCntCounts, BoundSlots, ClusterTypeOK
<1>1. ClusterTypeOK'
  <2> USE <1>a, <1>b DEF ClusterTypeOK
  <2>1. /\ NodeTab' \in [Slots -> 0 .. made'] /\ made' \in 0 .. MaxNodes
        /\ sends' \in 0 .. made'
    OBVIOUS
  <2>2. /\ owner' \in [Nodes -> Servers] /\ NodeID' \in [Nodes -> Slots]
        /\ Instance' \in [Nodes -> 0 .. MaxInst]
    OBVIOUS
  <2>3. DropJob' \in [Nodes -> 0 .. MaxInst] /\ deletes' \in [Nodes -> Nat]  OBVIOUS
  <2>4. /\ isConn' \subseteq 1 .. made' /\ isBound' \subseteq 1 .. made'
        /\ isOffline' \subseteq 1 .. made' /\ deleted' \subseteq 1 .. made'
    OBVIOUS
  <2>5. pc' \in [Conns -> {"idle", "bump", "login", "admitted", "stuck",
                         "dispatch", "ended", "swap"}]
    OBVIOUS
  <2>6. /\ node' \in [Conns -> 0 .. made'] /\ seeks' \in [Conns -> Servers]
        /\ noted' \in [Conns -> Nat]
    OBVIOUS
  <2>7. uncounted' \in Nat /\ broken' \in {"no", "dropped", "deleted"}  OBVIOUS
  <2> QED BY <1>c, <2>1, <2>2, <2>3, <2>4, <2>5, <2>6, <2>7
<1>2. OneThreadPerNode' /\ SameAtEntry' /\ DownHasDropJob'
  BY <1>b, <1>d, <1>e, <1>f, <1>a DEF Active, BoundHasThread, ClusterTypeOK,
       DownHasDropJob, HasNode, OneThreadPerNode, OwnSlot, SameAtEntry, Used
<1>3. OwnSlot' /\ Waiting' /\ HasNode'
  BY <1>b, <1>d, <1>e, <1>f, <1>a DEF Active, ClusterTypeOK, HasNode, OwnSlot,
       Waiting
<1>4. ActiveBound' /\ SwapDown' /\ OfflineShoved'
  BY <1>b, <1>d, <1>e, <1>f, <1>a DEF Active, ActiveBound, ClusterTypeOK, HasNode,
       OfflineShoved, OneThreadPerNode, OwnSlot, SwapDown, Waiting
<1>5. BoundHasThread' /\ ConnHasThread'
  BY <1>b, <1>d, <1>e, <1>f, <1>a DEF Active, BoundHasThread, ClusterTypeOK,
       ConnHasThread, HasNode
<1>6. Deleting'
  <2> SUFFICES ASSUME NEW m \in Nodes, deletes'[m] > 0
               PROVE  /\ m <= made' /\ m \notin InTable'
                      /\ \A d \in Conns : node'[d] = m => pc'[d] = "swap"
    BY DEF Deleting
  <2>1. CASE m = node[c]
    BY <1>b, <1>d, <1>e, <1>f, <1>a, <2>1 DEF ClusterTypeOK, InTable
  <2>2. CASE m # node[c]
    <3>1. deletes[m] > 0  BY <1>a, <2>2 DEF ClusterTypeOK
    <3> QED BY <1>b, <1>d, <1>e, <1>f, <1>a, <2>2, <3>1 DEF Deleting,
         ClusterTypeOK
  <2> QED BY <2>1, <2>2
<1>7. Deleted'
  BY <1>b, <1>d, <1>e, <1>f, <1>a DEF Active, ClusterTypeOK, Deleted, Deleting,
       HasNode, OwnSlot, Waiting
<1> QED BY <1>c, <1>1, <1>2, <1>3, <1>4, <1>5, <1>6, <1>7 DEF CInv, Kept

LEMMA RemoveNowKeeps ==
  ASSUME CInv, broken = "no", NEW c \in Conns, RemoveNow(c)
  PROVE  CInv'
<1> USE ConstantsOK DEF RemoveNow, RemoveStart, Vacate, Step, nodeVars,
     STMutexFree
<1>a. /\ ClusterTypeOK /\ OneThreadPerNode /\ SameAtEntry /\ DownHasDropJob
      /\ NodeCntCounts /\ OwnSlot /\ Waiting /\ HasNode /\ ActiveBound /\ SwapDown
      /\ OfflineShoved /\ BoundHasThread /\ ConnHasThread /\ Deleting /\ Deleted
  BY DEF CInv, Kept
<1>b. node[c] \in 1 .. made /\ node[c] \in Nodes /\ NodeID[node[c]] \in Slots
      /\ deletes[node[c]] \in Nat
  <2>1. pc[c] \in Active \union {"swap"}  BY DEF Active
  <2>2. node[c] \in 1 .. made /\ node[c] \in Nodes /\ NodeID[node[c]] \in Slots
    BY <1>a, <2>1, OwnNode
  <2> QED BY <1>a, <2>2 DEF ClusterTypeOK
<1>d. \A d \in Conns : d # c => node[d] # node[c]
  BY <1>a, <1>b DEF OneThreadPerNode
<1>f. \A k \in Used : NodeTab[k] \in Nodes /\ NodeTab[k] \in 1 .. made
  BY <1>a, SlotNode
<1>e. InTable' = InTable \ {node[c]}
  <2>1. ASSUME NEW m \in Nodes
        PROVE  m \in InTable' <=> m \in InTable /\ m # node[c]
    <3>1. NodeID[m] \in Slots /\ m # 0  BY <1>a DEF ClusterTypeOK
    <3>2. NodeTab'[NodeID[m]] = IF NodeID[m] = NodeID[node[c]] THEN 0 ELSE NodeTab[NodeID[m]]
      BY <1>a, <3>1 DEF ClusterTypeOK
    <3> QED BY <3>1, <3>2 DEF InTable
  <2> QED BY <2>1 DEF InTable
<1>c. NodeCntCounts' /\ NodeCnt' \in Nat
  <2>1. BoundSlots' = BoundSlots \ {NodeID[node[c]]}
    BY <1>a, <1>b DEF BoundSlots, Used, OwnSlot, ClusterTypeOK
  <2>2. NodeID[node[c]] \in BoundSlots
    BY <1>a, <1>b DEF BoundSlots, Used, SwapDown, InTable
  <2>3. node[c] \in isBound
    BY <1>a, <1>b DEF SwapDown, InTable
  <2>4. BoundSlots \subseteq Slots /\ BoundSlots' \subseteq Slots
    BY DEF BoundSlots, Used
  <2>5. Cardinality(BoundSlots') = Cardinality(BoundSlots) - 1 
        /\ Cardinality(BoundSlots') \in Nat /\ Cardinality(BoundSlots) \in Nat
    <3>1. Cardinality(BoundSlots') = Cardinality(BoundSlots) - 1
      BY <2>1, <2>2, <2>4, OneSlotLess
    <3>2. Cardinality(BoundSlots') \in Nat /\ Cardinality(BoundSlots) \in Nat
      BY <2>4, SlotsFinite
    <3> QED BY <3>1, <3>2
  <2> QED BY <1>a, <2>3, <2>5 DEF NodeCntCounts, BoundSlots, ClusterTypeOK
<1>1. ClusterTypeOK'
  <2> USE <1>a, <1>b DEF ClusterTypeOK
  <2>1. /\ NodeTab' \in [Slots -> 0 .. made'] /\ made' \in 0 .. MaxNodes
        /\ sends' \in 0 .. made'
    OBVIOUS
  <2>2. /\ owner' \in [Nodes -> Servers] /\ NodeID' \in [Nodes -> Slots]
        /\ Instance' \in [Nodes -> 0 .. MaxInst]
    OBVIOUS
  <2>3. DropJob' \in [Nodes -> 0 .. MaxInst] /\ deletes' \in [Nodes -> Nat]  OBVIOUS
  <2>4. /\ isConn' \subseteq 1 .. made' /\ isBound' \subseteq 1 .. made'
        /\ isOffline' \subseteq 1 .. made' /\ deleted' \subseteq 1 .. made'
    OBVIOUS
  <2>5. pc' \in [Conns -> {"idle", "bump", "login", "admitted", "stuck",
                         "dispatch", "ended", "swap"}]
    OBVIOUS
  <2>6. /\ node' \in [Conns -> 0 .. made'] /\ seeks' \in [Conns -> Servers]
        /\ noted' \in [Conns -> Nat]
    OBVIOUS
  <2>7. uncounted' \in Nat /\ broken' \in {"no", "dropped", "deleted"}  OBVIOUS
  <2> QED BY <1>c, <2>1, <2>2, <2>3, <2>4, <2>5, <2>6, <2>7
<1>2. OneThreadPerNode' /\ SameAtEntry' /\ DownHasDropJob'
  BY <1>b, <1>d, <1>e, <1>f, <1>a DEF Active, BoundHasThread, ClusterTypeOK,
       DownHasDropJob, HasNode, OneThreadPerNode, OwnSlot, SameAtEntry, Used
<1>3. OwnSlot' /\ Waiting' /\ HasNode'
  BY <1>b, <1>d, <1>e, <1>f, <1>a DEF Active, ClusterTypeOK, HasNode, OwnSlot,
       Waiting
<1>4. ActiveBound' /\ SwapDown' /\ OfflineShoved'
  BY <1>b, <1>d, <1>e, <1>f, <1>a DEF Active, ActiveBound, ClusterTypeOK, HasNode,
       OfflineShoved, OneThreadPerNode, OwnSlot, SwapDown, Waiting
<1>5. BoundHasThread' /\ ConnHasThread'
  BY <1>b, <1>d, <1>e, <1>f, <1>a DEF Active, BoundHasThread, ClusterTypeOK,
       ConnHasThread, HasNode
<1>6. Deleting'
  <2> SUFFICES ASSUME NEW m \in Nodes, deletes'[m] > 0
               PROVE  /\ m <= made' /\ m \notin InTable'
                      /\ \A d \in Conns : node'[d] = m => pc'[d] = "swap"
    BY DEF Deleting
  <2>1. CASE m = node[c]
    BY <1>b, <1>d, <1>e, <1>f, <1>a, <2>1 DEF ClusterTypeOK
  <2>2. CASE m # node[c]
    <3>1. deletes[m] > 0  BY <1>a, <2>2 DEF ClusterTypeOK
    <3> QED BY <1>b, <1>d, <1>e, <1>f, <1>a, <2>2, <3>1 DEF Deleting,
         ClusterTypeOK
  <2> QED BY <2>1, <2>2
<1>7. Deleted'
  BY <1>b, <1>d, <1>e, <1>f, <1>a DEF Active, ClusterTypeOK, Deleted, Deleting,
       HasNode, OwnSlot, Waiting
<1> QED BY <1>c, <1>1, <1>2, <1>3, <1>4, <1>5, <1>6, <1>7 DEF CInv, Kept

LEMMA RemoveLaterKeeps ==
  ASSUME CInv, broken = "no", NEW c \in Conns, RemoveLater(c)
  PROVE  CInv'
<1> USE ConstantsOK DEF RemoveLater, RemoveStart, Vacate, Step, nodeVars,
     STMutexFree
<1>a. /\ ClusterTypeOK /\ OneThreadPerNode /\ SameAtEntry /\ DownHasDropJob
      /\ NodeCntCounts /\ OwnSlot /\ Waiting /\ HasNode /\ ActiveBound /\ SwapDown
      /\ OfflineShoved /\ BoundHasThread /\ ConnHasThread /\ Deleting /\ Deleted
  BY DEF CInv, Kept
<1>b. node[c] \in 1 .. made /\ node[c] \in Nodes /\ NodeID[node[c]] \in Slots
      /\ deletes[node[c]] \in Nat
  <2>1. pc[c] \in Active \union {"swap"}  BY DEF Active
  <2>2. node[c] \in 1 .. made /\ node[c] \in Nodes /\ NodeID[node[c]] \in Slots
    BY <1>a, <2>1, OwnNode
  <2> QED BY <1>a, <2>2 DEF ClusterTypeOK
<1>d. \A d \in Conns : d # c => node[d] # node[c]
  BY <1>a, <1>b DEF OneThreadPerNode
<1>f. \A k \in Used : NodeTab[k] \in Nodes /\ NodeTab[k] \in 1 .. made
  BY <1>a, SlotNode
<1>e. InTable' = InTable
  BY DEF InTable
<1>c. NodeCntCounts' /\ NodeCnt' \in Nat
  <2>1. BoundSlots' = BoundSlots \ {NodeID[node[c]]}
    BY <1>a, <1>b DEF BoundSlots, Used, OwnSlot, ClusterTypeOK
  <2>2. NodeID[node[c]] \in BoundSlots
    BY <1>a, <1>b DEF BoundSlots, Used, SwapDown, InTable
  <2>3. node[c] \in isBound
    BY <1>a, <1>b DEF SwapDown, InTable
  <2>4. BoundSlots \subseteq Slots /\ BoundSlots' \subseteq Slots
    BY DEF BoundSlots, Used
  <2>5. Cardinality(BoundSlots') = Cardinality(BoundSlots) - 1 
        /\ Cardinality(BoundSlots') \in Nat /\ Cardinality(BoundSlots) \in Nat
    <3>1. Cardinality(BoundSlots') = Cardinality(BoundSlots) - 1
      BY <2>1, <2>2, <2>4, OneSlotLess
    <3>2. Cardinality(BoundSlots') \in Nat /\ Cardinality(BoundSlots) \in Nat
      BY <2>4, SlotsFinite
    <3> QED BY <3>1, <3>2
  <2> QED BY <1>a, <2>3, <2>5 DEF NodeCntCounts, BoundSlots, ClusterTypeOK
<1>1. ClusterTypeOK'
  <2> USE <1>a, <1>b DEF ClusterTypeOK
  <2>1. /\ NodeTab' \in [Slots -> 0 .. made'] /\ made' \in 0 .. MaxNodes
        /\ sends' \in 0 .. made'
    OBVIOUS
  <2>2. /\ owner' \in [Nodes -> Servers] /\ NodeID' \in [Nodes -> Slots]
        /\ Instance' \in [Nodes -> 0 .. MaxInst]
    OBVIOUS
  <2>3. DropJob' \in [Nodes -> 0 .. MaxInst] /\ deletes' \in [Nodes -> Nat]  OBVIOUS
  <2>4. /\ isConn' \subseteq 1 .. made' /\ isBound' \subseteq 1 .. made'
        /\ isOffline' \subseteq 1 .. made' /\ deleted' \subseteq 1 .. made'
    OBVIOUS
  <2>5. pc' \in [Conns -> {"idle", "bump", "login", "admitted", "stuck",
                         "dispatch", "ended", "swap"}]
    OBVIOUS
  <2>6. /\ node' \in [Conns -> 0 .. made'] /\ seeks' \in [Conns -> Servers]
        /\ noted' \in [Conns -> Nat]
    OBVIOUS
  <2>7. uncounted' \in Nat /\ broken' \in {"no", "dropped", "deleted"}  OBVIOUS
  <2> QED BY <1>c, <2>1, <2>2, <2>3, <2>4, <2>5, <2>6, <2>7
<1>2. OneThreadPerNode' /\ SameAtEntry' /\ DownHasDropJob'
  BY <1>b, <1>d, <1>e, <1>f, <1>a DEF Active, BoundHasThread, ClusterTypeOK,
       DownHasDropJob, HasNode, OneThreadPerNode, OwnSlot, SameAtEntry, Used
<1>3. OwnSlot' /\ Waiting' /\ HasNode'
  BY <1>b, <1>d, <1>e, <1>f, <1>a DEF Active, ClusterTypeOK, HasNode, OwnSlot,
       Waiting
<1>4. ActiveBound' /\ SwapDown' /\ OfflineShoved'
  BY <1>b, <1>d, <1>e, <1>f, <1>a DEF Active, ActiveBound, ClusterTypeOK, HasNode,
       OfflineShoved, OneThreadPerNode, OwnSlot, SwapDown, Waiting
<1>5. BoundHasThread' /\ ConnHasThread'
  BY <1>b, <1>d, <1>e, <1>f, <1>a DEF Active, BoundHasThread, ClusterTypeOK,
       ConnHasThread, HasNode
<1>6. Deleting' /\ Deleted'
  BY <1>b, <1>d, <1>e, <1>f, <1>a DEF Active, ActiveBound, BoundHasThread,
       ClusterTypeOK, ConnHasThread, Deleted, Deleting, HasNode, OwnSlot, Waiting
<1> QED BY <1>c, <1>1, <1>2, <1>3, <1>4, <1>5, <1>6 DEF CInv, Kept

LEMMA DropCancelledKeeps ==
  ASSUME CInv, broken = "no", NEW n \in Nodes, DropCancelled(n)
  PROVE  CInv'
<1> USE ConstantsOK DEF DropCancelled, Matches, Threads, nodeVars
<1>a. /\ ClusterTypeOK /\ OneThreadPerNode /\ SameAtEntry /\ DownHasDropJob
      /\ NodeCntCounts /\ OwnSlot /\ Waiting /\ HasNode /\ ActiveBound /\ SwapDown
      /\ OfflineShoved /\ BoundHasThread /\ ConnHasThread /\ Deleting /\ Deleted
  BY DEF CInv, Kept
<1>b. NodeID[n] \in Slots /\ deletes[n] \in Nat
  BY <1>a DEF ClusterTypeOK
<1>e. InTable' = InTable
  BY DEF InTable
<1>f. \A k \in Used : NodeTab[k] \in Nodes /\ NodeTab[k] \in 1 .. made
  BY <1>a, SlotNode
<1>c. NodeCntCounts' /\ NodeCnt' \in Nat
  BY <1>a DEF NodeCntCounts, Used, ClusterTypeOK
<1>1. ClusterTypeOK'
  BY <1>c, <1>b, <1>a DEF ClusterTypeOK
<1>2. OneThreadPerNode' /\ SameAtEntry' /\ DownHasDropJob'
  BY <1>b, <1>e, <1>f, <1>a DEF Active, BoundHasThread, ClusterTypeOK,
       DownHasDropJob, HasNode, OneThreadPerNode, OwnSlot, SameAtEntry, Used
<1>3. OwnSlot' /\ Waiting' /\ HasNode'
  BY <1>b, <1>e, <1>f, <1>a DEF Active, ClusterTypeOK, HasNode, OwnSlot, Waiting
<1>4. ActiveBound' /\ SwapDown' /\ OfflineShoved'
  BY <1>b, <1>e, <1>f, <1>a DEF Active, ActiveBound, ClusterTypeOK, HasNode,
       OfflineShoved, OneThreadPerNode, OwnSlot, SwapDown, Waiting
<1>5. BoundHasThread' /\ ConnHasThread'
  BY <1>b, <1>e, <1>f, <1>a DEF Active, BoundHasThread, ClusterTypeOK,
       ConnHasThread, HasNode
<1>6. Deleting' /\ Deleted'
  BY <1>b, <1>e, <1>f, <1>a DEF Active, ActiveBound, BoundHasThread,
       ClusterTypeOK, ConnHasThread, Deleted, Deleting, HasNode, OwnSlot, Waiting
<1> QED BY <1>c, <1>1, <1>2, <1>3, <1>4, <1>5, <1>6 DEF CInv, Kept

LEMMA DeleteTimeoutKeeps ==
  ASSUME CInv, broken = "no", NEW n \in Nodes, DeleteTimeout(n)
  PROVE  CInv'
<1> USE ConstantsOK DEF DeleteTimeout, Threads, nodeVars
<1>a. /\ ClusterTypeOK /\ OneThreadPerNode /\ SameAtEntry /\ DownHasDropJob
      /\ NodeCntCounts /\ OwnSlot /\ Waiting /\ HasNode /\ ActiveBound /\ SwapDown
      /\ OfflineShoved /\ BoundHasThread /\ ConnHasThread /\ Deleting /\ Deleted
  BY DEF CInv, Kept
<1>b. NodeID[n] \in Slots /\ deletes[n] \in Nat
  BY <1>a DEF ClusterTypeOK
<1>e. InTable' = InTable
  BY DEF InTable
<1>f. \A k \in Used : NodeTab[k] \in Nodes /\ NodeTab[k] \in 1 .. made
  BY <1>a, SlotNode
<1>c. NodeCntCounts' /\ NodeCnt' \in Nat
  BY <1>a DEF NodeCntCounts, Used, ClusterTypeOK
<1>1. ClusterTypeOK'
  BY <1>c, <1>b, <1>a DEF ClusterTypeOK
<1>2. OneThreadPerNode' /\ SameAtEntry' /\ DownHasDropJob'
  BY <1>b, <1>e, <1>f, <1>a DEF Active, BoundHasThread, ClusterTypeOK,
       DownHasDropJob, HasNode, OneThreadPerNode, OwnSlot, SameAtEntry, Used
<1>3. OwnSlot' /\ Waiting' /\ HasNode'
  BY <1>b, <1>e, <1>f, <1>a DEF Active, ClusterTypeOK, HasNode, OwnSlot, Waiting
<1>4. ActiveBound' /\ SwapDown' /\ OfflineShoved'
  BY <1>b, <1>e, <1>f, <1>a DEF Active, ActiveBound, ClusterTypeOK, HasNode,
       OfflineShoved, OneThreadPerNode, OwnSlot, SwapDown, Waiting
<1>5. BoundHasThread' /\ ConnHasThread'
  BY <1>b, <1>e, <1>f, <1>a DEF Active, BoundHasThread, ClusterTypeOK,
       ConnHasThread, HasNode
<1>6. Deleting'
  <2> SUFFICES ASSUME NEW m \in Nodes, deletes'[m] > 0
               PROVE  /\ m <= made' /\ m \notin InTable'
                      /\ \A d \in Conns : node'[d] = m => pc'[d] = "swap"
    BY DEF Deleting
  <2>1. CASE m = n
    BY <1>b, <1>e, <1>a, <2>1 DEF ClusterTypeOK, Deleting
  <2>2. CASE m # n
    <3>1. deletes[m] > 0  BY <1>a, <2>2 DEF ClusterTypeOK
    <3> QED BY <1>b, <1>e, <1>a, <2>2, <3>1 DEF Deleting, ClusterTypeOK
  <2> QED BY <2>1, <2>2
<1>7. Deleted'
  BY <1>b, <1>e, <1>f, <1>a DEF Active, ClusterTypeOK, Deleted, Deleting, HasNode,
       OwnSlot, Waiting
<1> QED BY <1>c, <1>1, <1>2, <1>3, <1>4, <1>5, <1>6, <1>7 DEF CInv, Kept

LEMMA DeleteKeeps ==
  ASSUME CInv, broken = "no", NEW n \in Nodes, Delete(n)
  PROVE  CInv'
<1> USE ConstantsOK DEF Delete, Deletable, Referenced, nodeVars
<1>a. /\ ClusterTypeOK /\ OneThreadPerNode /\ SameAtEntry /\ DownHasDropJob
      /\ NodeCntCounts /\ OwnSlot /\ Waiting /\ HasNode /\ ActiveBound /\ SwapDown
      /\ OfflineShoved /\ BoundHasThread /\ ConnHasThread /\ Deleting /\ Deleted
  BY DEF CInv, Kept
<1>b. NodeID[n] \in Slots /\ deletes[n] \in Nat
  BY <1>a DEF ClusterTypeOK
<1>e. InTable' = InTable
  BY DEF InTable
<1>f. \A k \in Used : NodeTab[k] \in Nodes /\ NodeTab[k] \in 1 .. made
  BY <1>a, SlotNode
<1>g. /\ n <= made /\ n \notin InTable /\ sends # n
      /\ \A d \in Conns : node[d] # n
  <2>1. n <= made /\ n \notin InTable /\ sends # n
    BY <1>a DEF Deleting
  <2>2. ASSUME NEW d \in Conns, node[d] = n PROVE FALSE
    <3>1. pc[d] = "swap"  BY <1>a, <2>2 DEF Deleting
    <3> QED BY <2>2, <3>1
  <2> QED BY <2>1, <2>2
<1>h. \A k \in Used : NodeTab[k] # n
  BY <1>a, <1>f, <1>g DEF OwnSlot, InTable, Used
<1>c. NodeCntCounts' /\ NodeCnt' \in Nat
  BY <1>a DEF NodeCntCounts, Used, ClusterTypeOK
<1>1. ClusterTypeOK'
  BY <1>c, <1>b, <1>g, <1>a DEF ClusterTypeOK
<1>2. OneThreadPerNode' /\ SameAtEntry' /\ DownHasDropJob'
  BY <1>b, <1>e, <1>f, <1>g, <1>h, <1>a DEF Active, BoundHasThread, ClusterTypeOK,
       DownHasDropJob, HasNode, OneThreadPerNode, OwnSlot, SameAtEntry, Used
<1>3. broken' = "no" => OwnSlot' /\ Waiting' /\ HasNode'
  BY <1>b, <1>e, <1>f, <1>g, <1>h, <1>a DEF Active, ClusterTypeOK, HasNode,
       OwnSlot, Waiting
<1>4. broken' = "no" => ActiveBound' /\ SwapDown' /\ OfflineShoved'
  BY <1>b, <1>e, <1>f, <1>g, <1>h, <1>a DEF Active, ActiveBound, ClusterTypeOK,
       HasNode, OfflineShoved, OneThreadPerNode, OwnSlot, SwapDown, Waiting
<1>5. broken' = "no" => BoundHasThread' /\ ConnHasThread'
  BY <1>b, <1>e, <1>f, <1>g, <1>h, <1>a DEF Active, BoundHasThread, ClusterTypeOK,
       ConnHasThread, HasNode
<1>6. broken' = "no" => Deleting'
  <2> SUFFICES ASSUME NEW m \in Nodes, deletes'[m] > 0, broken' = "no"
               PROVE  /\ m <= made' /\ m \notin InTable'
                      /\ \A d \in Conns : node'[d] = m => pc'[d] = "swap"
    BY DEF Deleting
  <2>1. CASE m = n
    BY <1>b, <1>e, <1>g, <1>a, <2>1 DEF ClusterTypeOK, Deleting
  <2>2. CASE m # n
    <3>1. deletes[m] > 0  BY <1>a, <2>2 DEF ClusterTypeOK
    <3> QED BY <1>b, <1>e, <1>g, <1>a, <2>2, <3>1 DEF Deleting, ClusterTypeOK
  <2> QED BY <2>1, <2>2
<1>7. broken' = "no" => Deleted'
  BY <1>b, <1>e, <1>f, <1>g, <1>h, <1>a DEF Active, ClusterTypeOK, Deleted,
       Deleting, HasNode, OwnSlot, Waiting
<1> QED BY <1>c, <1>1, <1>2, <1>3, <1>4, <1>5, <1>6, <1>7 DEF CInv, Kept

LEMMA DropKeeps ==
  ASSUME CInv, broken = "no", NEW n \in Nodes, Drop(n)
  PROVE  CInv'
<1> USE ConstantsOK DEF Drop, Matches, Vacate, STMutexFree, Threads, nodeVars
<1>a. /\ ClusterTypeOK /\ OneThreadPerNode /\ SameAtEntry /\ DownHasDropJob
      /\ NodeCntCounts /\ OwnSlot /\ Waiting /\ HasNode /\ ActiveBound /\ SwapDown
      /\ OfflineShoved /\ BoundHasThread /\ ConnHasThread /\ Deleting /\ Deleted
  BY DEF CInv, Kept
<1>b. NodeID[n] \in Slots /\ NodeID[n] \in Used
  BY <1>a DEF ClusterTypeOK, Used
<1> DEFINE p == NodeTab[NodeID[n]]
<1>f. \A k \in Used : NodeTab[k] \in Nodes /\ NodeTab[k] \in 1 .. made
  BY <1>a, SlotNode
<1>d. /\ p \in Nodes /\ p \in 1 .. made /\ p \in InTable
      /\ NodeID[p] = NodeID[n] /\ deletes[p] \in Nat
  BY <1>a, <1>b, <1>f DEF OwnSlot, InTable, Used, ClusterTypeOK
<1>e. InTable' = InTable \ {p}
  <2>1. ASSUME NEW m \in Nodes
        PROVE  m \in InTable' <=> m \in InTable /\ m # p
    <3>1. NodeID[m] \in Slots /\ m # 0  BY <1>a DEF ClusterTypeOK
    <3>2. NodeTab'[NodeID[m]] = IF NodeID[m] = NodeID[n] THEN 0 ELSE NodeTab[NodeID[m]]
      BY <1>a, <3>1 DEF ClusterTypeOK
    <3> QED BY <1>d, <3>1, <3>2 DEF InTable
  <2> QED BY <2>1 DEF InTable
<1>g. broken' = "no" => /\ p \notin isBound /\ isBound' = isBound
                        /\ \A d \in Conns : node[d] # p
  <2> SUFFICES ASSUME broken' = "no"
               PROVE  /\ p \notin isBound /\ isBound' = isBound
                      /\ \A d \in Conns : node[d] # p
    OBVIOUS
  <2>1. p \notin isBound /\ isBound' = isBound  OBVIOUS
  <2>2. ASSUME NEW d \in Conns, node[d] = p PROVE FALSE
    BY <1>a, <1>d, <2>1, <2>2 DEF HasNode, ActiveBound, SwapDown
  <2> QED BY <2>1, <2>2
<1>c. NodeCntCounts' /\ NodeCnt' \in Nat
  <2>1. BoundSlots' = BoundSlots \ {NodeID[n]}
    BY <1>a, <1>b, <1>d DEF BoundSlots, Used, OwnSlot, ClusterTypeOK
  <2>2. BoundSlots \subseteq Slots /\ BoundSlots' \subseteq Slots
    BY DEF BoundSlots, Used
  <2>3. Cardinality(BoundSlots) \in Nat
    BY <2>2, SlotsFinite
  <2>4. CASE p \in isBound
    <3>1. NodeID[n] \in BoundSlots  BY <1>b, <2>4 DEF BoundSlots
    <3>2. Cardinality(BoundSlots') = Cardinality(BoundSlots) - 1
      BY <2>1, <2>2, <3>1, OneSlotLess
    <3> QED BY <1>a, <2>3, <2>4, <3>2 DEF NodeCntCounts, BoundSlots, ClusterTypeOK
  <2>5. CASE p \notin isBound
    <3>1. BoundSlots' = BoundSlots  BY <2>1, <2>5 DEF BoundSlots
    <3>2. Cardinality(BoundSlots') = Cardinality(BoundSlots)  BY <3>1
    <3> QED BY <1>a, <2>3, <2>5, <3>2 DEF NodeCntCounts, BoundSlots, ClusterTypeOK
  <2> QED BY <2>4, <2>5
<1>1. ClusterTypeOK'
  <2> USE <1>a, <1>b, <1>d DEF ClusterTypeOK
  <2>1. /\ NodeTab' \in [Slots -> 0 .. made'] /\ made' \in 0 .. MaxNodes
        /\ sends' \in 0 .. made'
    OBVIOUS
  <2>2. /\ owner' \in [Nodes -> Servers] /\ NodeID' \in [Nodes -> Slots]
        /\ Instance' \in [Nodes -> 0 .. MaxInst]
    OBVIOUS
  <2>3. DropJob' \in [Nodes -> 0 .. MaxInst] /\ deletes' \in [Nodes -> Nat]  OBVIOUS
  <2>4. /\ isConn' \subseteq 1 .. made' /\ isBound' \subseteq 1 .. made'
        /\ isOffline' \subseteq 1 .. made' /\ deleted' \subseteq 1 .. made'
    OBVIOUS
  <2>5. pc' \in [Conns -> {"idle", "bump", "login", "admitted", "stuck",
                         "dispatch", "ended", "swap"}]
    OBVIOUS
  <2>6. /\ node' \in [Conns -> 0 .. made'] /\ seeks' \in [Conns -> Servers]
        /\ noted' \in [Conns -> Nat]
    OBVIOUS
  <2>7. uncounted' \in Nat /\ broken' \in {"no", "dropped", "deleted"}  OBVIOUS
  <2> QED BY <1>c, <2>1, <2>2, <2>3, <2>4, <2>5, <2>6, <2>7
<1>2. OneThreadPerNode' /\ SameAtEntry' /\ DownHasDropJob'
  BY <1>b, <1>d, <1>e, <1>f, <1>g, <1>a DEF Active, BoundHasThread, ClusterTypeOK,
       DownHasDropJob, HasNode, OneThreadPerNode, OwnSlot, SameAtEntry, Used
<1>3. broken' = "no" => OwnSlot' /\ Waiting' /\ HasNode'
  BY <1>b, <1>d, <1>e, <1>f, <1>g, <1>a DEF Active, ClusterTypeOK, HasNode,
       OwnSlot, Waiting
<1>4. broken' = "no" => ActiveBound' /\ SwapDown' /\ OfflineShoved'
  BY <1>b, <1>d, <1>e, <1>f, <1>g, <1>a DEF Active, ActiveBound, ClusterTypeOK,
       HasNode, OfflineShoved, OneThreadPerNode, OwnSlot, SwapDown, Waiting
<1>5. broken' = "no" => BoundHasThread' /\ ConnHasThread'
  BY <1>b, <1>d, <1>e, <1>f, <1>g, <1>a DEF Active, BoundHasThread, ClusterTypeOK,
       ConnHasThread, HasNode
<1>6. broken' = "no" => Deleting'
  <2> SUFFICES ASSUME NEW m \in Nodes, deletes'[m] > 0, broken' = "no"
               PROVE  /\ m <= made' /\ m \notin InTable'
                      /\ \A d \in Conns : node'[d] = m => pc'[d] = "swap"
    BY DEF Deleting
  <2>1. CASE m = p
    BY <1>b, <1>d, <1>e, <1>g, <1>a, <2>1 DEF ClusterTypeOK
  <2>2. CASE m # p
    <3>1. deletes[m] > 0  BY <1>a, <2>2 DEF ClusterTypeOK
    <3> QED BY <1>b, <1>d, <1>e, <1>g, <1>a, <2>2, <3>1 DEF Deleting,
         ClusterTypeOK
  <2> QED BY <2>1, <2>2
<1>7. broken' = "no" => Deleted'
  BY <1>b, <1>d, <1>e, <1>f, <1>g, <1>a DEF Active, ClusterTypeOK, Deleted,
       Deleting, HasNode, OwnSlot, Waiting
<1> QED BY <1>c, <1>1, <1>2, <1>3, <1>4, <1>5, <1>6, <1>7 DEF CInv, Kept

LEMMA SendStartKeeps ==
  ASSUME CInv, broken = "no", NEW k \in Slots, SendStart(k)
  PROVE  CInv'
<1> USE ConstantsOK DEF SendStart, nodeVars
<1>a. /\ ClusterTypeOK /\ OneThreadPerNode /\ SameAtEntry /\ DownHasDropJob
      /\ NodeCntCounts /\ OwnSlot /\ Waiting /\ HasNode /\ ActiveBound /\ SwapDown
      /\ OfflineShoved /\ BoundHasThread /\ ConnHasThread /\ Deleting /\ Deleted
  BY DEF CInv, Kept
<1>b. NodeTab[k] \in 1 .. made /\ NodeTab[k] \in InTable
  BY <1>a, SlotNode DEF OwnSlot, InTable, Used
<1>e. InTable' = InTable
  BY DEF InTable
<1>f. \A q \in Used : NodeTab[q] \in Nodes /\ NodeTab[q] \in 1 .. made
  BY <1>a, SlotNode
<1>c. NodeCntCounts' /\ NodeCnt' \in Nat
  BY <1>a DEF NodeCntCounts, Used, ClusterTypeOK
<1>1. ClusterTypeOK'
  BY <1>c, <1>b, <1>a DEF ClusterTypeOK
<1>2. OneThreadPerNode' /\ SameAtEntry' /\ DownHasDropJob'
  BY <1>b, <1>e, <1>f, <1>a DEF Active, BoundHasThread, ClusterTypeOK,
       DownHasDropJob, HasNode, OneThreadPerNode, OwnSlot, SameAtEntry, Used
<1>3. OwnSlot' /\ Waiting' /\ HasNode'
  BY <1>b, <1>e, <1>f, <1>a DEF Active, ClusterTypeOK, HasNode, OwnSlot, Waiting
<1>4. ActiveBound' /\ SwapDown' /\ OfflineShoved'
  BY <1>b, <1>e, <1>f, <1>a DEF Active, ActiveBound, ClusterTypeOK, HasNode,
       OfflineShoved, OneThreadPerNode, OwnSlot, SwapDown, Waiting
<1>5. BoundHasThread' /\ ConnHasThread'
  BY <1>b, <1>e, <1>f, <1>a DEF Active, BoundHasThread, ClusterTypeOK,
       ConnHasThread, HasNode
<1>6. Deleting' /\ Deleted'
  BY <1>b, <1>e, <1>f, <1>a DEF Active, ActiveBound, BoundHasThread,
       ClusterTypeOK, ConnHasThread, Deleted, Deleting, HasNode, OwnSlot, Waiting
<1> QED BY <1>c, <1>1, <1>2, <1>3, <1>4, <1>5, <1>6 DEF CInv, Kept

LEMMA SendDoneKeeps ==
  ASSUME CInv, broken = "no", SendDone
  PROVE  CInv'
<1> USE ConstantsOK DEF SendDone, nodeVars
<1>a. /\ ClusterTypeOK /\ OneThreadPerNode /\ SameAtEntry /\ DownHasDropJob
      /\ NodeCntCounts /\ OwnSlot /\ Waiting /\ HasNode /\ ActiveBound /\ SwapDown
      /\ OfflineShoved /\ BoundHasThread /\ ConnHasThread /\ Deleting /\ Deleted
  BY DEF CInv, Kept
<1>e. InTable' = InTable
  BY DEF InTable
<1>f. \A k \in Used : NodeTab[k] \in Nodes /\ NodeTab[k] \in 1 .. made
  BY <1>a, SlotNode
<1>c. NodeCntCounts' /\ NodeCnt' \in Nat
  BY <1>a DEF NodeCntCounts, Used, ClusterTypeOK
<1>1. ClusterTypeOK'
  BY <1>c, <1>f, <1>a DEF ClusterTypeOK
<1>2. OneThreadPerNode' /\ SameAtEntry' /\ DownHasDropJob'
  BY <1>e, <1>f, <1>a DEF Active, BoundHasThread, ClusterTypeOK, DownHasDropJob,
       HasNode, OneThreadPerNode, OwnSlot, SameAtEntry, Used
<1>3. OwnSlot' /\ Waiting' /\ HasNode'
  BY <1>e, <1>f, <1>a DEF Active, ClusterTypeOK, HasNode, OwnSlot, Waiting
<1>4. ActiveBound' /\ SwapDown' /\ OfflineShoved'
  BY <1>e, <1>f, <1>a DEF Active, ActiveBound, ClusterTypeOK, HasNode,
       OfflineShoved, OneThreadPerNode, OwnSlot, SwapDown, Waiting
<1>5. BoundHasThread' /\ ConnHasThread'
  BY <1>e, <1>f, <1>a DEF Active, BoundHasThread, ClusterTypeOK, ConnHasThread,
       HasNode
<1>6. Deleting' /\ Deleted'
  BY <1>e, <1>f, <1>a DEF Active, ActiveBound, BoundHasThread, ClusterTypeOK,
       ConnHasThread, Deleted, Deleting, HasNode, OwnSlot, Waiting
<1> QED BY <1>c, <1>1, <1>2, <1>3, <1>4, <1>5, <1>6 DEF CInv, Kept

LEMMA ReloginKeeps ==
  ASSUME CInv, broken = "no", NEW c \in Conns, NEW s \in Servers, Relogin(c, s)
  PROVE  CInv'
<1> USE ConstantsOK DEF Relogin, Newcomer, STMutexFree, nodeVars
<1>a. /\ ClusterTypeOK /\ OneThreadPerNode /\ SameAtEntry /\ DownHasDropJob
      /\ NodeCntCounts /\ OwnSlot /\ Waiting /\ HasNode /\ ActiveBound /\ SwapDown
      /\ OfflineShoved /\ BoundHasThread /\ ConnHasThread /\ Deleting /\ Deleted
  BY DEF CInv, Kept
<1>f. \A k \in Used : NodeTab[k] \in Nodes /\ NodeTab[k] \in 1 .. made
  BY <1>a, SlotNode
<1>p. PICK k \in Known(s) :
        LET n == NodeTab[k] IN
        /\ n \notin isBound
        /\ Instance[n] < MaxInst
        /\ Instance' = [Instance EXCEPT ![n] = @ + 1]
        /\ isOffline' = isOffline \ {n}
        /\ isConn' = isConn \union {n}
        /\ isBound' = isBound \union {n}
        /\ NodeCnt' = NodeCnt + 1
        /\ node' = [node EXCEPT ![c] = n]
        /\ pc' = [pc EXCEPT ![c] = "login"]
        /\ UNCHANGED <<NodeTab, STHi, made, owner, NodeID, DropJob, deletes,
                       deleted, seeks, noted, sends, uncounted, broken>>
  BY DEF Relogin, Rebindable
<1> DEFINE n == NodeTab[k]
<1>b. /\ k \in Slots /\ n \in Nodes /\ n \in 1 .. made /\ n \in InTable
      /\ Instance[n] + 1 \in 0 .. MaxInst
  <2>1. k \in Slots /\ n \in Nodes /\ n \in 1 .. made
    BY <1>f DEF Known, Used
  <2>2. n \in InTable  BY <1>a, <2>1 DEF OwnSlot, InTable
  <2>3. Instance[n] + 1 \in 0 .. MaxInst  BY <1>a, <1>p, <2>1 DEF ClusterTypeOK
  <2> QED BY <2>1, <2>2, <2>3
<1>d. \A d \in Conns : node[d] # n
  <2>1. ASSUME NEW d \in Conns, node[d] = n PROVE FALSE
    BY <1>a, <1>b, <1>p, <2>1 DEF HasNode, ActiveBound, SwapDown
  <2> QED BY <2>1
<1>e. InTable' = InTable  BY <1>p DEF InTable
<1>c. NodeCntCounts' /\ NodeCnt' \in Nat
  <2>1. BoundSlots' = BoundSlots \union {k}
    BY <1>a, <1>b, <1>p, <1>f DEF BoundSlots, Used, OwnSlot, Known
  <2>2. k \notin BoundSlots  BY <1>p DEF BoundSlots
  <2>3. BoundSlots \subseteq Slots /\ BoundSlots' \subseteq Slots
    BY <1>p DEF BoundSlots, Used
  <2>4. Cardinality(BoundSlots) \in Nat
    BY <2>3, SlotsFinite
  <2>5. Cardinality(BoundSlots') = Cardinality(BoundSlots) + 1
    BY <2>1, <2>2, <2>3, OneSlotMore
  <2> QED BY <1>a, <1>p, <2>4, <2>5 DEF NodeCntCounts, BoundSlots, ClusterTypeOK
<1>1. ClusterTypeOK'
  <2> HIDE DEF Relogin, Newcomer, n
  <2>1. Instance' \in [Nodes -> 0 .. MaxInst]
    <3>1. Instance' = [Instance EXCEPT ![n] = Instance[n] + 1]  BY <1>p DEF n
    <3>2. Instance \in [Nodes -> 0 .. MaxInst]  BY <1>a DEF ClusterTypeOK
    <3> QED BY <3>1, <3>2, <1>b
  <2>2. isConn' \subseteq 1 .. made /\ isBound' \subseteq 1 .. made
        /\ isOffline' \subseteq 1 .. made
    <3>1. isConn' = isConn \union {n} /\ isBound' = isBound \union {n}
          /\ isOffline' = isOffline \ {n}
      BY <1>p DEF n
    <3> QED BY <3>1, <1>a, <1>b DEF ClusterTypeOK
  <2>3. node' \in [Conns -> 0 .. made]
    <3>1. node' = [node EXCEPT ![c] = n]  BY <1>p DEF n
    <3>2. n \in 0 .. made  BY <1>a, <1>b DEF ClusterTypeOK
    <3>3. node \in [Conns -> 0 .. made]  BY <1>a DEF ClusterTypeOK
    <3> QED BY <3>1, <3>2, <3>3
  <2>4. pc' = [pc EXCEPT ![c] = "login"]  BY <1>p
  <2>5. UNCHANGED <<NodeTab, made, owner, NodeID, DropJob, deletes, deleted, seeks,
                    noted, sends, uncounted, broken>>
    BY <1>p
  <2> QED BY <1>a, <1>c, <2>1, <2>2, <2>3, <2>4, <2>5 DEF ClusterTypeOK
<1>2. OneThreadPerNode' /\ SameAtEntry' /\ DownHasDropJob'
  BY <1>b, <1>d, <1>e, <1>f, <1>p, <1>a DEF Active, BoundHasThread, ClusterTypeOK,
       DownHasDropJob, HasNode, OneThreadPerNode, OwnSlot, SameAtEntry, Used
<1>3. OwnSlot' /\ Waiting' /\ HasNode'
  BY <1>b, <1>d, <1>e, <1>f, <1>p, <1>a DEF Active, ClusterTypeOK, HasNode,
       OwnSlot, Waiting
<1>4. ActiveBound' /\ SwapDown' /\ OfflineShoved'
  BY <1>b, <1>d, <1>e, <1>f, <1>p, <1>a DEF Active, ActiveBound, ClusterTypeOK,
       HasNode, OfflineShoved, OneThreadPerNode, OwnSlot, SwapDown, Waiting
<1>5. BoundHasThread' /\ ConnHasThread'
  BY <1>b, <1>d, <1>e, <1>f, <1>p, <1>a DEF Active, BoundHasThread, ClusterTypeOK,
       ConnHasThread, HasNode
<1>6. Deleting' /\ Deleted'
  BY <1>b, <1>d, <1>e, <1>f, <1>p, <1>a DEF Active, ActiveBound, BoundHasThread,
       ClusterTypeOK, ConnHasThread, Deleted, Deleting, HasNode, OwnSlot, Waiting
<1> QED BY <1>c, <1>1, <1>2, <1>3, <1>4, <1>5, <1>6 DEF CInv, Kept

LEMMA AddBumpKeeps ==
  ASSUME CInv, broken = "no", NEW c \in Conns, NEW s \in Servers, AddBump(c, s)
  PROVE  CInv'
<1> USE ConstantsOK DEF AddBump, Newcomer, STMutexFree, nodeVars
<1>a. /\ ClusterTypeOK /\ OneThreadPerNode /\ SameAtEntry /\ DownHasDropJob
      /\ NodeCntCounts /\ OwnSlot /\ Waiting /\ HasNode /\ ActiveBound /\ SwapDown
      /\ OfflineShoved /\ BoundHasThread /\ ConnHasThread /\ Deleting /\ Deleted
  BY DEF CInv, Kept
<1>b. \E k \in Slots : NodeTab[k] # 0 /\ noted' = [noted EXCEPT ![c] = k]
  BY DEF AddBump, BumpSlots, First, Last, Down, Up, Used
<1>d. Slots \subseteq Nat  BY ClusterAssumption DEF Slots
<1>e. InTable' = InTable
  BY DEF InTable
<1>f. \A k \in Used : NodeTab[k] \in Nodes /\ NodeTab[k] \in 1 .. made
  BY <1>a, SlotNode
<1>c. NodeCntCounts' /\ NodeCnt' \in Nat
  BY <1>a DEF NodeCntCounts, Used, ClusterTypeOK
<1>1. ClusterTypeOK'
  BY <1>c, <1>b, <1>d, <1>a DEF ClusterTypeOK
<1>2. OneThreadPerNode' /\ SameAtEntry' /\ DownHasDropJob'
  BY <1>b, <1>d, <1>e, <1>f, <1>a DEF Active, BoundHasThread, ClusterTypeOK,
       DownHasDropJob, HasNode, OneThreadPerNode, OwnSlot, SameAtEntry, Used
<1>3. OwnSlot' /\ Waiting' /\ HasNode'
  BY <1>b, <1>d, <1>e, <1>f, <1>a DEF Active, ClusterTypeOK, HasNode, OwnSlot,
       Waiting
<1>4. ActiveBound' /\ SwapDown' /\ OfflineShoved'
  BY <1>b, <1>d, <1>e, <1>f, <1>a DEF Active, ActiveBound, ClusterTypeOK, HasNode,
       OfflineShoved, OneThreadPerNode, OwnSlot, SwapDown, Waiting
<1>5. BoundHasThread' /\ ConnHasThread'
  BY <1>b, <1>d, <1>e, <1>f, <1>a DEF Active, BoundHasThread, ClusterTypeOK,
       ConnHasThread, HasNode
<1>6. Deleting' /\ Deleted'
  BY <1>b, <1>d, <1>e, <1>f, <1>a DEF Active, ActiveBound, BoundHasThread,
       ClusterTypeOK, ConnHasThread, Deleted, Deleting, HasNode, OwnSlot, Waiting
<1> QED BY <1>c, <1>1, <1>2, <1>3, <1>4, <1>5, <1>6 DEF CInv, Kept

(***************************************************************************)
(* A new node object.                                                      *)
(***************************************************************************)
Fresh(n) ==
  /\ n \in Nodes /\ n \in 0 .. MaxNodes /\ n \notin 1 .. made /\ n \in 1 .. n
  /\ n \in 0 .. MaxInst
  /\ 1 .. made \subseteq 1 .. n /\ 0 .. made \subseteq 0 .. n
  /\ n \notin isConn /\ n \notin isBound /\ n \notin isOffline /\ n \notin deleted
  /\ deletes[n] = 0 /\ sends # n /\ n \notin InTable
  /\ \A d \in Conns : node[d] # n
  /\ \A j \in Slots : NodeTab[j] # n

LEMMA NewIsFresh == ASSUME ClusterTypeOK, Deleting, made < MaxNodes
                    PROVE  Fresh(made + 1)
<1>1. made \in Nat /\ made + 1 \in Nodes
      /\ made + 1 \in 0 .. MaxInst /\ made + 1 \in 0 .. MaxNodes
  BY ClusterAssumption DEF ClusterTypeOK, Nodes
<1>2. /\ made + 1 \notin 1 .. made /\ made + 1 \notin 0 .. made
      /\ made + 1 \in 1 .. made + 1
      /\ 1 .. made \subseteq 1 .. made + 1 /\ 0 .. made \subseteq 0 .. made + 1
  BY <1>1
<1>3. /\ made + 1 \notin isConn /\ made + 1 \notin isBound
      /\ made + 1 \notin isOffline /\ made + 1 \notin deleted /\ sends # made + 1
  BY <1>2 DEF ClusterTypeOK
<1>4. /\ \A d \in Conns : node[d] # made + 1
      /\ \A j \in Slots : NodeTab[j] # made + 1
  BY <1>2 DEF ClusterTypeOK
<1>5. made + 1 \notin InTable  BY <1>1, <1>4 DEF InTable, ClusterTypeOK
<1>6. deletes[made + 1] = 0
  <2>1. deletes[made + 1] \in Nat  BY <1>1 DEF ClusterTypeOK
  <2>2. ~ (deletes[made + 1] > 0)  BY <1>1 DEF Deleting
  <2> QED BY <2>1, <2>2
<1> QED BY <1>1, <1>2, <1>3, <1>4, <1>5, <1>6 DEF Fresh

LEMMA NewInTable ==
  ASSUME ClusterTypeOK, OwnSlot, Fresh(made + 1), NEW k \in Slots,
         NodeTab' = [NodeTab EXCEPT ![k] = made + 1],
         NodeID' = [NodeID EXCEPT ![made + 1] = k]
  PROVE  InTable' = (InTable \ {NodeTab[k]}) \union {made + 1}
<1>1. ASSUME NEW m \in Nodes
      PROVE  m \in InTable' <=> (m \in InTable /\ m # NodeTab[k]) \/ m = made + 1
  <2>0. m # 0  BY ConstantsOK
  <2>1. CASE m = made + 1
    BY <2>1 DEF InTable, Fresh, ClusterTypeOK
  <2>2. CASE m # made + 1
    <3>1. NodeID'[m] = NodeID[m] /\ NodeID[m] \in Slots
      BY <2>2 DEF ClusterTypeOK
    <3>2. NodeTab'[NodeID[m]] = IF NodeID[m] = k THEN made + 1 ELSE NodeTab[NodeID[m]]
      BY <3>1 DEF ClusterTypeOK
    <3> QED BY <2>0, <2>2, <3>1, <3>2 DEF InTable, OwnSlot
  <2> QED BY <2>1, <2>2
<1>2. made + 1 \in Nodes  BY DEF Fresh
<1> QED BY <1>1, <1>2 DEF InTable

LEMMA AddFreeKeeps ==
  ASSUME CInv, broken = "no", NEW c \in Conns, NEW s \in Servers, AddFree(c, s)
  PROVE  CInv'
<1> USE ConstantsOK DEF AddFree, Newcomer, STMutexFree, nodeVars
<1>a. /\ ClusterTypeOK /\ OneThreadPerNode /\ SameAtEntry /\ DownHasDropJob
      /\ NodeCntCounts /\ OwnSlot /\ Waiting /\ HasNode /\ ActiveBound /\ SwapDown
      /\ OfflineShoved /\ BoundHasThread /\ ConnHasThread /\ Deleting /\ Deleted
  BY DEF CInv, Kept
<1>f. \A j \in Used : NodeTab[j] \in Nodes /\ NodeTab[j] \in 1 .. made
  BY <1>a, SlotNode
<1>n. Fresh(made + 1)  BY <1>a, NewIsFresh
<1>p. PICK k \in First(Free) : NewNode(c, s, k, STHi, isConn, isBound, NodeCnt)
  OBVIOUS
<1>b. k \in Slots /\ NodeTab[k] = 0
  BY DEF First, Free, Used
<1>e. InTable' = InTable \union {made + 1}
  <2>1. InTable' = (InTable \ {NodeTab[k]}) \union {made + 1}
    BY <1>a, <1>b, <1>n, <1>p, NewInTable DEF NewNode
  <2>2. NodeTab[k] \notin InTable  BY <1>b DEF InTable
  <2> QED BY <2>1, <2>2
<1> HIDE DEF AddFree
<1> USE DEF NewNode
<1>q. /\ UNCHANGED <<isOffline, DropJob, deletes, deleted, sends, uncounted, broken>>
      /\ pc[c] = "idle" /\ \A d \in Conns : pc[d] # "bump"
  BY DEF AddFree
<1>c. NodeCntCounts' /\ NodeCnt' \in Nat
  <2>1. BoundSlots' = BoundSlots \union {k}
    BY <1>a, <1>b, <1>f, <1>n, <1>p DEF BoundSlots, Used, ClusterTypeOK, Fresh
  <2>2. k \notin BoundSlots  BY <1>b DEF BoundSlots, Used
  <2>3. BoundSlots \subseteq Slots /\ BoundSlots' \subseteq Slots
    BY <1>p DEF BoundSlots, Used
  <2>4. Cardinality(BoundSlots) \in Nat
    BY <2>3, SlotsFinite
  <2>5. Cardinality(BoundSlots') = Cardinality(BoundSlots) + 1
    BY <2>1, <2>2, <2>3, OneSlotMore
  <2> QED BY <1>a, <1>p, <1>q, <2>4, <2>5 DEF NodeCntCounts, BoundSlots,
       ClusterTypeOK
<1>1. ClusterTypeOK'
  BY <1>c, <1>b, <1>n, <1>p, <1>q, <1>a DEF ClusterTypeOK, Fresh
<1>2. OneThreadPerNode' /\ SameAtEntry' /\ DownHasDropJob'
  BY <1>b, <1>e, <1>f, <1>n, <1>p, <1>q, <1>a DEF Active, BoundHasThread,
       ClusterTypeOK, DownHasDropJob, Fresh, HasNode, OneThreadPerNode, OwnSlot,
       SameAtEntry, Used
<1>3. OwnSlot' /\ Waiting' /\ HasNode'
  BY <1>b, <1>e, <1>f, <1>n, <1>p, <1>q, <1>a DEF Active, ClusterTypeOK, Fresh,
       HasNode, OwnSlot, Waiting
<1>4. ActiveBound' /\ SwapDown' /\ OfflineShoved'
  BY <1>b, <1>e, <1>f, <1>n, <1>p, <1>q, <1>a DEF Active, ActiveBound,
       ClusterTypeOK, Fresh, HasNode, OfflineShoved, OneThreadPerNode, OwnSlot,
       SwapDown, Waiting
<1>5. BoundHasThread' /\ ConnHasThread'
  BY <1>b, <1>e, <1>f, <1>n, <1>p, <1>q, <1>a DEF Active, BoundHasThread,
       ClusterTypeOK, ConnHasThread, Fresh, HasNode
<1>6. Deleting' /\ Deleted'
  BY <1>b, <1>e, <1>f, <1>n, <1>p, <1>q, <1>a DEF Active, ActiveBound,
       BoundHasThread, ClusterTypeOK, ConnHasThread, Deleted, Deleting, Fresh,
       HasNode, OwnSlot, Waiting
<1> QED BY <1>c, <1>1, <1>2, <1>3, <1>4, <1>5, <1>6 DEF CInv, Kept

LEMMA ShoveKeeps ==
  ASSUME CInv, broken = "no", NEW c \in Conns, Shove(c)
  PROVE  CInv'
<1> USE ConstantsOK DEF Shove, NewNode, Victim, nodeVars
<1>a. /\ ClusterTypeOK /\ OneThreadPerNode /\ SameAtEntry /\ DownHasDropJob
      /\ NodeCntCounts /\ OwnSlot /\ Waiting /\ HasNode /\ ActiveBound /\ SwapDown
      /\ OfflineShoved /\ BoundHasThread /\ ConnHasThread /\ Deleting /\ Deleted
  BY DEF CInv, Kept
<1>f. \A j \in Used : NodeTab[j] \in Nodes /\ NodeTab[j] \in 1 .. made
  BY <1>a, SlotNode
<1> DEFINE k == noted[c]
           v == NodeTab[k]
<1>b. /\ k \in Slots /\ v \in Nodes /\ v \in 1 .. made /\ v \in InTable
      /\ made < MaxNodes /\ deletes[v] \in Nat /\ v # made + 1
  <2>1. k \in Slots /\ k \in Used /\ made < MaxNodes  BY <1>a DEF Waiting, Used
  <2>2. v \in Nodes /\ v \in 1 .. made  BY <1>f, <2>1
  <2> QED BY <1>a, <2>1, <2>2 DEF OwnSlot, InTable, Used, ClusterTypeOK
<1>n. Fresh(made + 1)  BY <1>a, <1>b, NewIsFresh
<1>e. InTable' = (InTable \ {v}) \union {made + 1}
  BY <1>a, <1>b, <1>n, NewInTable
<1>d. v \in isBound  BY <1>a DEF ConnHasThread, ActiveBound
<1>g. \A d \in Conns : pc[d] = "bump" => d = c
  BY <1>a DEF Waiting
<1>c. NodeCntCounts' /\ NodeCnt' \in Nat
  <2>1. BoundSlots' = BoundSlots
    BY <1>a, <1>b, <1>d, <1>f, <1>n DEF BoundSlots, Used, ClusterTypeOK, Fresh
  <2>2. Cardinality(BoundSlots') = Cardinality(BoundSlots) /\ Cardinality(BoundSlots) \in Nat
    <3>1. BoundSlots \subseteq Slots  BY DEF BoundSlots, Used
    <3> QED BY <2>1, <3>1, SlotsFinite
  <2> QED BY <1>a, <2>2 DEF NodeCntCounts, BoundSlots, ClusterTypeOK
<1>1. ClusterTypeOK'
  <2> USE <1>a, <1>b, <1>n DEF ClusterTypeOK, Fresh
  <2>1. /\ NodeTab' \in [Slots -> 0 .. made'] /\ made' \in 0 .. MaxNodes
        /\ sends' \in 0 .. made'
    OBVIOUS
  <2>2. /\ owner' \in [Nodes -> Servers] /\ NodeID' \in [Nodes -> Slots]
        /\ Instance' \in [Nodes -> 0 .. MaxInst]
    OBVIOUS
  <2>3. DropJob' \in [Nodes -> 0 .. MaxInst] /\ deletes' \in [Nodes -> Nat]  OBVIOUS
  <2>4. /\ isConn' \subseteq 1 .. made' /\ isBound' \subseteq 1 .. made'
        /\ isOffline' \subseteq 1 .. made' /\ deleted' \subseteq 1 .. made'
    OBVIOUS
  <2>5. pc' \in [Conns -> {"idle", "bump", "login", "admitted", "stuck",
                         "dispatch", "ended", "swap"}]
    OBVIOUS
  <2>6. /\ node' \in [Conns -> 0 .. made'] /\ seeks' \in [Conns -> Servers]
        /\ noted' \in [Conns -> Nat]
    OBVIOUS
  <2>7. uncounted' \in Nat /\ broken' \in {"no", "dropped", "deleted"}  OBVIOUS
  <2> QED BY <1>c, <2>1, <2>2, <2>3, <2>4, <2>5, <2>6, <2>7
<1>2. OneThreadPerNode' /\ SameAtEntry' /\ DownHasDropJob'
  BY <1>b, <1>d, <1>e, <1>f, <1>g, <1>n, <1>a DEF Active, BoundHasThread,
       ClusterTypeOK, DownHasDropJob, Fresh, HasNode, OneThreadPerNode, OwnSlot,
       SameAtEntry, Used
<1>3. OwnSlot' /\ Waiting' /\ HasNode'
  BY <1>b, <1>d, <1>e, <1>f, <1>g, <1>n, <1>a DEF Active, ClusterTypeOK, Fresh,
       HasNode, OwnSlot, Waiting
<1>4. ActiveBound' /\ SwapDown' /\ OfflineShoved'
  BY <1>b, <1>d, <1>e, <1>f, <1>g, <1>n, <1>a DEF Active, ActiveBound,
       ClusterTypeOK, Fresh, HasNode, OfflineShoved, OneThreadPerNode, OwnSlot,
       SwapDown, Waiting
<1>5. BoundHasThread' /\ ConnHasThread'
  BY <1>b, <1>d, <1>e, <1>f, <1>g, <1>n, <1>a DEF Active, BoundHasThread,
       ClusterTypeOK, ConnHasThread, Fresh, HasNode
<1>6. Deleting' /\ Deleted'
  BY <1>b, <1>d, <1>e, <1>f, <1>g, <1>n, <1>a DEF Active, ActiveBound,
       BoundHasThread, ClusterTypeOK, ConnHasThread, Deleted, Deleting, Fresh,
       HasNode, OwnSlot, Waiting
<1> QED BY <1>c, <1>1, <1>2, <1>3, <1>4, <1>5, <1>6 DEF CInv, Kept

LEMMA BumpKeeps ==
  ASSUME CInv, broken = "no", NEW c \in Conns, Bump(c)
  PROVE  CInv'
<1> USE ConstantsOK DEF Bump, NewNode, Victim, nodeVars
<1>a. /\ ClusterTypeOK /\ OneThreadPerNode /\ SameAtEntry /\ DownHasDropJob
      /\ NodeCntCounts /\ OwnSlot /\ Waiting /\ HasNode /\ ActiveBound /\ SwapDown
      /\ OfflineShoved /\ BoundHasThread /\ ConnHasThread /\ Deleting /\ Deleted
  BY DEF CInv, Kept
<1>f. \A j \in Used : NodeTab[j] \in Nodes /\ NodeTab[j] \in 1 .. made
  BY <1>a, SlotNode
<1> DEFINE k == noted[c]
           v == NodeTab[k]
<1>b. /\ k \in Slots /\ v \in Nodes /\ v \in 1 .. made /\ v \in InTable
      /\ made < MaxNodes /\ deletes[v] \in Nat /\ v # made + 1
  <2>1. k \in Slots /\ k \in Used /\ made < MaxNodes  BY <1>a DEF Waiting, Used
  <2>2. v \in Nodes /\ v \in 1 .. made  BY <1>f, <2>1
  <2> QED BY <1>a, <2>1, <2>2 DEF OwnSlot, InTable, Used, ClusterTypeOK
<1>n. Fresh(made + 1)  BY <1>a, <1>b, NewIsFresh
<1>e. InTable' = (InTable \ {v}) \union {made + 1}
  BY <1>a, <1>b, <1>n, NewInTable
<1>d. \A d \in Conns : node[d] = v => pc[d] = "swap"
  BY <1>a, <1>b DEF HasNode, ActiveBound
<1>g. \A d \in Conns : pc[d] = "bump" => d = c
  BY <1>a DEF Waiting
<1>c. NodeCntCounts' /\ NodeCnt' \in Nat
  <2>1. BoundSlots' = BoundSlots \union {k}
    BY <1>a, <1>b, <1>f, <1>n DEF BoundSlots, Used, OwnSlot, InTable,
         ClusterTypeOK, Fresh
  <2>2. BoundSlots \subseteq Slots /\ Cardinality(BoundSlots) \in Nat
    <3>1. BoundSlots \subseteq Slots  BY DEF BoundSlots, Used
    <3> QED BY <3>1, SlotsFinite
  <2>3. CASE v \in isBound
    <3>1. k \in BoundSlots  BY <1>a, <1>b, <2>3 DEF BoundSlots, Used, Waiting
    <3>2. Cardinality(BoundSlots') = Cardinality(BoundSlots)
      <4>1. BoundSlots' = BoundSlots  BY <2>1, <3>1
      <4> QED BY <4>1
    <3> QED BY <1>a, <2>2, <2>3, <3>2 DEF NodeCntCounts, BoundSlots, ClusterTypeOK
  <2>4. CASE v \notin isBound
    <3>1. k \notin BoundSlots  BY <2>4 DEF BoundSlots
    <3>2. Cardinality(BoundSlots') = Cardinality(BoundSlots) + 1
      BY <2>1, <2>2, <3>1, OneSlotMore
    <3> QED BY <1>a, <2>2, <2>4, <3>2 DEF NodeCntCounts, BoundSlots, ClusterTypeOK
  <2> QED BY <2>3, <2>4
<1>1. ClusterTypeOK'
  <2> USE <1>a, <1>b, <1>n DEF ClusterTypeOK, Fresh
  <2>1. /\ NodeTab' \in [Slots -> 0 .. made'] /\ made' \in 0 .. MaxNodes
        /\ sends' \in 0 .. made'
    OBVIOUS
  <2>2. /\ owner' \in [Nodes -> Servers] /\ NodeID' \in [Nodes -> Slots]
        /\ Instance' \in [Nodes -> 0 .. MaxInst]
    OBVIOUS
  <2>3. DropJob' \in [Nodes -> 0 .. MaxInst] /\ deletes' \in [Nodes -> Nat]  OBVIOUS
  <2>4. /\ isConn' \subseteq 1 .. made' /\ isBound' \subseteq 1 .. made'
        /\ isOffline' \subseteq 1 .. made' /\ deleted' \subseteq 1 .. made'
    OBVIOUS
  <2>5. pc' \in [Conns -> {"idle", "bump", "login", "admitted", "stuck",
                         "dispatch", "ended", "swap"}]
    OBVIOUS
  <2>6. /\ node' \in [Conns -> 0 .. made'] /\ seeks' \in [Conns -> Servers]
        /\ noted' \in [Conns -> Nat]
    OBVIOUS
  <2>7. uncounted' \in Nat /\ broken' \in {"no", "dropped", "deleted"}  OBVIOUS
  <2> QED BY <1>c, <2>1, <2>2, <2>3, <2>4, <2>5, <2>6, <2>7
<1>2. OneThreadPerNode' /\ SameAtEntry' /\ DownHasDropJob'
  BY <1>b, <1>d, <1>e, <1>f, <1>g, <1>n, <1>a DEF Active, BoundHasThread,
       ClusterTypeOK, DownHasDropJob, Fresh, HasNode, OneThreadPerNode, OwnSlot,
       SameAtEntry, Used
<1>3. OwnSlot' /\ Waiting' /\ HasNode'
  BY <1>b, <1>d, <1>e, <1>f, <1>g, <1>n, <1>a DEF Active, ClusterTypeOK, Fresh,
       HasNode, OwnSlot, Waiting
<1>4. ActiveBound' /\ SwapDown' /\ OfflineShoved'
  BY <1>b, <1>d, <1>e, <1>f, <1>g, <1>n, <1>a DEF Active, ActiveBound,
       ClusterTypeOK, Fresh, HasNode, OfflineShoved, OneThreadPerNode, OwnSlot,
       SwapDown, Waiting
<1>5. BoundHasThread' /\ ConnHasThread'
  BY <1>b, <1>d, <1>e, <1>f, <1>g, <1>n, <1>a DEF Active, BoundHasThread,
       ClusterTypeOK, ConnHasThread, Fresh, HasNode
<1>6. Deleting'
  <2> SUFFICES ASSUME NEW m \in Nodes, deletes'[m] > 0
               PROVE  /\ m <= made' /\ m \notin InTable'
                      /\ \A d \in Conns : node'[d] = m => pc'[d] = "swap"
    BY DEF Deleting
  <2>1. CASE m = v
    BY <1>b, <1>d, <1>e, <1>n, <1>a, <2>1 DEF ClusterTypeOK, Fresh
  <2>2. CASE m # v
    <3>1. deletes[m] > 0  BY <1>a, <2>2 DEF ClusterTypeOK
    <3> QED BY <1>b, <1>d, <1>e, <1>n, <1>a, <2>2, <3>1 DEF Deleting,
         ClusterTypeOK
  <2> QED BY <2>1, <2>2
<1>7. Deleted'
  BY <1>b, <1>d, <1>e, <1>f, <1>g, <1>n, <1>a DEF Active, ClusterTypeOK, Deleted,
       Deleting, Fresh, HasNode, OwnSlot, Waiting
<1> QED BY <1>c, <1>1, <1>2, <1>3, <1>4, <1>5, <1>6, <1>7 DEF CInv, Kept

(***************************************************************************)
(* The theorems.                                                           *)
(***************************************************************************)
LEMMA InitKept == ASSUME ClusterInit PROVE CInv
<1> USE DEF ClusterInit
<1>1. ClusterTypeOK
  <2>1. \A n \in Nodes : 0 \in Slots /\ 0 \in 0 .. MaxInst /\ 0 \in Nat
    BY ClusterAssumption DEF Slots
  <2>2. /\ NodeTab \in [Slots -> 0 .. made] /\ made \in 0 .. MaxNodes
        /\ node \in [Conns -> 0 .. made] /\ sends \in 0 .. made
    BY ClusterAssumption DEF Nodes
  <2> QED BY <2>1, <2>2, ConstantsOK DEF ClusterTypeOK
<1>2. Used = {}  BY DEF Used
<1>3. NodeCntCounts
  <2>1. {k \in Used : NodeTab[k] \in isBound} = {}  BY <1>2
  <2> QED BY <2>1, FS_EmptySet DEF NodeCntCounts
<1>4. InTable = {}
  <2>1. ASSUME NEW n \in Nodes PROVE NodeTab[NodeID[n]] # n
    <3>1. NodeID[n] \in Slots  BY <1>1 DEF ClusterTypeOK
    <3> QED BY <3>1, ConstantsOK
  <2> QED BY <2>1 DEF InTable
<1>5. OneThreadPerNode /\ SameAtEntry /\ DownHasDropJob
  BY <1>2 DEF OneThreadPerNode, SameAtEntry, DownHasDropJob
<1>6. Kept
  BY <1>4 DEF Kept, OwnSlot, Waiting, HasNode, ActiveBound, SwapDown,
       OfflineShoved,
              BoundHasThread, ConnHasThread, Deleting, Deleted, Active
<1> QED BY <1>1, <1>3, <1>5, <1>6 DEF CInv

LEMMA StepKeeps == ASSUME CInv, [ClusterNext]_vars PROVE CInv'
<1>1. CASE UNCHANGED vars
  <2> USE <1>1 DEF vars
  <2>1. ClusterTypeOK' /\ OneThreadPerNode' /\ SameAtEntry'
    BY DEF CInv, ClusterTypeOK, OneThreadPerNode, SameAtEntry
  <2>2. DownHasDropJob' /\ NodeCntCounts'
    BY DEF CInv, DownHasDropJob, NodeCntCounts, Used
  <2>3. Kept' <=> Kept
    BY DEF Kept, OwnSlot, Waiting, HasNode, ActiveBound, SwapDown, OfflineShoved,
           BoundHasThread, ConnHasThread, Deleting, Deleted, InTable
  <2> QED BY <2>1, <2>2, <2>3 DEF CInv
<1>2. CASE ClusterNext
  <2>0. broken = "no"  BY <1>2 DEF ClusterNext
  <2>1. ASSUME NEW c \in Conns, NEW s \in Servers,
               Relogin(c, s) \/ AddFree(c, s) \/ AddBump(c, s)
        PROVE  CInv'
    BY <2>0, <2>1, ReloginKeeps, AddFreeKeeps, AddBumpKeeps
  <2>2. ASSUME NEW c \in Conns,
               Shove(c) \/ Bump(c) \/ ResetRef(c) \/ LoginFails(c) \/ LoginDone(c)
        PROVE  CInv'
    BY <2>0, <2>2, ShoveKeeps, BumpKeeps, ResetRefKeeps, LoginFailsKeeps,
         LoginDoneKeeps
  <2>3. ASSUME NEW c \in Conns,
               Lose(c) \/ End(c) \/ RemoveOther(c) \/ RemoveNow(c) \/ RemoveLater(c)
        PROVE  CInv'
    BY <2>0, <2>3, LoseKeeps, EndKeeps, RemoveOtherKeeps, RemoveNowKeeps,
         RemoveLaterKeeps
  <2>4. ASSUME NEW n \in Nodes,
               DropCancelled(n) \/ Drop(n) \/ Delete(n) \/ DeleteTimeout(n)
        PROVE  CInv'
    BY <2>0, <2>4, DropCancelledKeeps, DropKeeps, DeleteKeeps, DeleteTimeoutKeeps
  <2>5. ASSUME NEW k \in Slots, SendStart(k) PROVE CInv'
    BY <2>0, <2>5, SendStartKeeps
  <2>6. CASE SendDone
    BY <2>0, <2>6, SendDoneKeeps
  <2> QED BY <1>2, <2>1, <2>2, <2>3, <2>4, <2>5, <2>6 DEF ClusterNext
<1> QED BY <1>1, <1>2

\* The inductive invariant holds of every behaviour of the node table.
THEOREM ClusterInvariance == ClusterSpec => []CInv
BY InitKept, StepKeeps, PTL DEF ClusterSpec

\* The types of the table, the node objects and the threads.
THEOREM ClusterTypeCorrect == ClusterSpec => []ClusterTypeOK
<1>1. CInv => ClusterTypeOK  BY DEF CInv
<1> QED BY <1>1, ClusterInvariance, PTL

\* Add's test of isBound keeps a node to one connection, also while Remove has
\* let go of the node's lock.
THEOREM NodeHasOneThread == ClusterSpec => []OneThreadPerNode
<1>1. CInv => OneThreadPerNode  BY DEF CInv
<1> QED BY <1>1, ClusterInvariance, PTL

\* Remove finds after swapping its locks the node it noted before.
THEOREM RemoveFindsItsNode == ClusterSpec => []SameAtEntry
<1>1. CInv => SameAtEntry  BY DEF CInv
<1> QED BY <1>1, ClusterInvariance, PTL

\* A node that waits in the table has a drop job with its instance number.
THEOREM DownNodeIsDropped == ClusterSpec => []DownHasDropJob
<1>1. CInv => DownHasDropJob  BY DEF CInv
<1> QED BY <1>1, ClusterInvariance, PTL

\* NodeCnt exceeds the number of logged in nodes of the table by the number of
\* connected nodes that lost their slot.
THEOREM NodeCntIsExact == ClusterSpec => []NodeCntCounts
<1>1. CInv => NodeCntCounts  BY DEF CInv
<1> QED BY <1>1, ClusterInvariance, PTL

\* A thread in its login or in Dispatch has a node that is logged in and online
\* in the table, or was shoved out of it and is closed.
THEOREM LoggedInIsListed == ClusterSpec => []LoggedInListed
<1>1. ASSUME CInv, broken = "no", NEW c \in Conns,
             pc[c] \in {"login", "admitted", "dispatch"}
      PROVE  LET n == node[c] IN
             /\ n \in isBound
             /\ \/ NodeTab[NodeID[n]] = n /\ n \in isConn /\ n \notin isOffline
                \/ NodeTab[NodeID[n]] # n /\ n \notin isConn /\ n \in isOffline
  <2>1. pc[c] \in Active \union {"swap"} /\ pc[c] \in Active  BY <1>1 DEF Active
  <2>2. node[c] \in Nodes  BY <1>1, <2>1, OwnNode DEF CInv, Kept
  <2> QED BY <1>1, <2>1, <2>2 DEF CInv, Kept, ActiveBound, OfflineShoved, InTable
<1>2. CInv => LoggedInListed  BY <1>1 DEF LoggedInListed
<1> QED BY <1>2, ClusterInvariance, PTL

\* Nobody has a deleted node: Delete waits for the last reference, and nobody
\* finds the node any more.
THEOREM DeletedIsUnused == ClusterSpec => []UsedNotDeleted
<1>1. ASSUME CInv, broken = "no"
      PROVE  /\ \A c \in Conns : node[c] \notin deleted
             /\ sends \notin deleted
             /\ \A k \in Slots : NodeTab[k] \notin deleted
  <2>1. Deleted /\ OwnSlot /\ ClusterTypeOK  BY <1>1 DEF CInv, Kept
  <2>2. ASSUME NEW k \in Slots, NodeTab[k] \in deleted PROVE FALSE
    <3>1. NodeTab[k] # 0  BY <2>1, <2>2 DEF ClusterTypeOK
    <3>2. NodeTab[k] \in InTable  BY <2>1, <3>1, SlotNode DEF OwnSlot, InTable, Used
    <3> QED BY <2>1, <2>2, <3>2 DEF Deleted
  <2> QED BY <2>1, <2>2 DEF Deleted
<1>2. CInv => UsedNotDeleted  BY <1>1 DEF UsedNotDeleted
<1> QED BY <1>2, ClusterInvariance, PTL
-----------------------------------------------------------------------------
(***************************************************************************)
(* The highest slot in use.  CHOOSE gives the maximum of a set that has    *)
(* one, which follows from the well-foundedness of < on the naturals.      *)
(***************************************************************************)

\* A set of naturals has a least element.
LEMMA NatLeast ==
  ASSUME NEW T, T \subseteq Nat, T # {}
  PROVE  \E x \in T : \A y \in T : x <= y
<1> DEFINE R == OpToRel(<, Nat)
<1>1. IsWellFoundedOn(R, Nat)  BY NatLessThanWellFounded
<1>2. \A x, y \in Nat : <<y, x>> \in R <=> y < x  BY DEF OpToRel
<1> HIDE DEF R
<1>3. \E x \in T : \A y \in T : ~ (<<y, x>> \in R)  BY <1>1, WFMin
<1>4. PICK x \in T : \A y \in T : ~ (<<y, x>> \in R)  BY <1>3
<1>5. ASSUME NEW y \in T PROVE x <= y
  <2>1. x \in Nat /\ y \in Nat  OBVIOUS
  <2>2. ~ (y < x)  BY <1>2, <1>4, <2>1
  <2> QED BY <2>1, <2>2
<1> QED BY <1>5

\* Max of slots and -1 is the greatest of them.
LEMMA MaxIsGreatest ==
  ASSUME NEW S, S \subseteq {-1} \union Slots, S # {}
  PROVE  Max(S) \in S /\ \A y \in S : y <= Max(S)
<1> DEFINE T == {n \in Nat : \E x \in S : n = STMax - x}
<1>0. STMax \in Nat /\ \A x \in S : x \in Int /\ STMax - x \in Nat
  BY ClusterAssumption DEF Slots
<1>1. T \subseteq Nat /\ T # {}
  <2>1. PICK x \in S : TRUE  OBVIOUS
  <2> QED BY <1>0, <2>1
<1>2. PICK n \in T : \A m \in T : n <= m  BY <1>1, NatLeast
<1>3. PICK x \in S : n = STMax - x  BY <1>2
<1>4. ASSUME NEW y \in S PROVE y <= x
  <2>1. STMax - y \in T  BY <1>0
  <2>2. n <= STMax - y  BY <1>2, <2>1
  <2> QED BY <1>0, <1>3, <2>2
<1>5. \A y \in S : x >= y  BY <1>0, <1>4
<1>6. Max(S) \in S /\ \A y \in S : Max(S) >= y  BY <1>5 DEF Max
<1> QED BY <1>0, <1>6

\* What HiCovers says, without CHOOSE.
HiInv == STHi \in {-1} \union Used /\ \A k \in Used : k <= STHi

LEMMA HiInvCovers == HiInv <=> HiCovers
<1> DEFINE S == {-1} \union Used
<1>1. Used \subseteq Slots /\ \A x \in S : x \in Int  BY ClusterAssumption DEF Used, Slots
<1>2. Max(S) \in S /\ \A y \in S : y <= Max(S)  BY <1>1, MaxIsGreatest
<1>3. \A k \in Slots : -1 <= k  BY ClusterAssumption DEF Slots
<1>4. ASSUME HiInv PROVE STHi = Max(S)
  <2>1. STHi \in S /\ \A y \in S : y <= STHi  BY <1>1, <1>3, <1>4 DEF HiInv
  <2>2. Max(S) <= STHi /\ STHi <= Max(S)  BY <1>2, <2>1
  <2> HIDE DEF S
  <2> QED BY <1>1, <1>2, <2>1, <2>2
<1>5. ASSUME STHi = Max(S) PROVE HiInv
  BY <1>2, <1>5 DEF HiInv
<1> QED BY <1>4, <1>5 DEF HiCovers

\* HiWithout finds the highest of the slots other than k.
LEMMA HiWithoutIs ==
  ASSUME HiInv, NEW k \in Slots
  PROVE  /\ HiWithout(k) \in {-1} \union (Used \ {k})
         /\ \A j \in Used \ {k} : j <= HiWithout(k)
<1>1. CASE k = STHi
  <2> DEFINE S == {-1} \union (Used \ {k})
  <2>1. S \subseteq {-1} \union Slots /\ S # {}  BY DEF Used
  <2>2. Max(S) \in S /\ \A y \in S : y <= Max(S)  BY <2>1, MaxIsGreatest
  <2> QED BY <1>1, <2>2 DEF HiWithout
<1>2. CASE k # STHi
  BY <1>2 DEF HiWithout, HiInv
<1> QED BY <1>1, <1>2

\* Emptying a slot, and filling one after STHi was set to hi.
LEMMA VacateHi ==
  ASSUME ClusterTypeOK, HiInv, NEW k \in Slots, Vacate(k)
  PROVE  HiInv'
<1>1. Used' = Used \ {k}  BY DEF ClusterTypeOK, Vacate, Used
<1>2. STHi' = HiWithout(k)  BY DEF Vacate
<1> QED BY <1>1, <1>2, HiWithoutIs DEF HiInv

LEMMA FillHi ==
  ASSUME ClusterTypeOK, NEW k \in Slots, NEW hi \in {-1} \union (Used \ {k}),
         \A j \in Used \ {k} : j <= hi, made < MaxNodes,
         NodeTab' = [NodeTab EXCEPT ![k] = made + 1], STHi' = Max({hi, k})
  PROVE  HiInv'
<1>1. made + 1 # 0  BY DEF ClusterTypeOK
<1>2. Used' = Used \union {k}  BY <1>1 DEF ClusterTypeOK, Used
<1>3. {hi, k} \subseteq {-1} \union Slots  BY DEF Used
<1>4. Max({hi, k}) \in {hi, k} /\ \A y \in {hi, k} : y <= Max({hi, k})
  BY <1>3, MaxIsGreatest
<1>5. hi \in Int /\ k \in Int /\ Used \subseteq Int  BY ClusterAssumption DEF Slots, Used
<1>6. hi <= STHi' /\ k <= STHi' /\ STHi' \in {hi, k}  BY <1>4
<1>7. ASSUME NEW j \in Used' PROVE j <= STHi'
  BY <1>2, <1>5, <1>6, <1>7
<1> QED BY <1>2, <1>6, <1>7 DEF HiInv

LEMMA HiStep == CInv /\ HiInv /\ [ClusterNext]_vars => HiInv'
<1> SUFFICES ASSUME CInv, HiInv, [ClusterNext]_vars PROVE HiInv'
  OBVIOUS
<1>0. ClusterTypeOK  BY DEF CInv
<1>1. CASE UNCHANGED <<NodeTab, STHi>>
  BY <1>1 DEF HiInv, Used
<1>2. ASSUME NEW c \in Conns, NEW s \in Servers, AddFree(c, s) PROVE HiInv'
  <2>1. PICK k \in First(Free) : NewNode(c, s, k, STHi, isConn, isBound, NodeCnt)
    BY <1>2 DEF AddFree
  <2>2. k \in Slots /\ k \notin Used  BY <2>1 DEF First, Free
  <2>3. NodeTab' = [NodeTab EXCEPT ![k] = made + 1] /\ STHi' = Max({STHi, k})
    BY <2>1 DEF NewNode
  <2> QED BY <1>0, <1>2, <2>2, <2>3, FillHi DEF HiInv, AddFree
<1>3. ASSUME NEW c \in Conns, broken = "no", Shove(c) PROVE HiInv'
  <2>1. Waiting /\ pc[c] = "bump"  BY <1>3 DEF CInv, Kept, Shove
  <2>2. noted[c] \in Slots /\ noted[c] \in Used /\ made < MaxNodes
    BY <2>1 DEF Waiting, Used
  <2>3. NodeTab' = [NodeTab EXCEPT ![noted[c]] = made + 1] /\ STHi' = Max({STHi, noted[c]})
    BY <1>3 DEF NewNode, Shove
  <2>4. Used' = Used
    BY <1>0, <2>2, <2>3 DEF ClusterTypeOK, Used
  <2>5. {STHi, noted[c]} \subseteq {-1} \union Slots  BY <2>2 DEF HiInv, Used
  <2>6. STHi' \in {STHi, noted[c]} /\ \A y \in {STHi, noted[c]} : y <= STHi'
    BY <2>3, <2>5, MaxIsGreatest
  <2>7. noted[c] <= STHi /\ STHi \in Int /\ noted[c] \in Int
    BY <2>2, ClusterAssumption DEF HiInv, Used, Slots
  <2>8. STHi' = STHi  BY <2>6, <2>7
  <2> QED BY <2>4, <2>8 DEF HiInv
<1>4. ASSUME NEW c \in Conns, broken = "no", Bump(c) PROVE HiInv'
  <2>1. Waiting /\ pc[c] = "bump"  BY <1>4 DEF CInv, Kept, Bump
  <2>2. noted[c] \in Slots /\ made < MaxNodes  BY <2>1 DEF Waiting
  <2>3. /\ NodeTab' = [NodeTab EXCEPT ![noted[c]] = made + 1]
        /\ STHi' = Max({HiWithout(noted[c]), noted[c]})
    BY <1>4 DEF NewNode, Bump
  <2> QED BY <1>0, <2>2, <2>3, HiWithoutIs, FillHi
<1>5. ASSUME NEW c \in Conns, broken = "no", RemoveNow(c) PROVE HiInv'
  <2>1. HasNode /\ pc[c] = "swap"  BY <1>5 DEF CInv, Kept, RemoveNow, RemoveStart, Step
  <2>2. NodeID[node[c]] \in Slots  BY <1>0, <2>1, OwnNode DEF Active
  <2> QED BY <1>0, <1>5, <2>2, VacateHi DEF RemoveNow
<1>6. ASSUME NEW n \in Nodes, Drop(n) PROVE HiInv'
  <2>1. NodeID[n] \in Slots  BY <1>0 DEF ClusterTypeOK
  <2> QED BY <1>0, <1>6, <2>1, VacateHi DEF Drop
<1>7. ASSUME NEW c \in Conns, NEW s \in Servers, Relogin(c, s) \/ AddBump(c, s)
      PROVE  UNCHANGED <<NodeTab, STHi>>
  BY <1>7 DEF Relogin, AddBump
<1>8. ASSUME NEW c \in Conns,
             \/ ResetRef(c) \/ LoginFails(c) \/ LoginDone(c) \/ Lose(c) \/ End(c)
             \/ RemoveOther(c) \/ RemoveLater(c)
      PROVE  UNCHANGED <<NodeTab, STHi>>
  BY <1>8 DEF ResetRef, LoginFails, LoginDone, Lose, End, RemoveOther, RemoveLater,
       Elsewhere
<1>9. ASSUME NEW n \in Nodes, DropCancelled(n) \/ Delete(n) \/ DeleteTimeout(n)
      PROVE  UNCHANGED <<NodeTab, STHi>>
  BY <1>9 DEF DropCancelled, Delete, DeleteTimeout
<1>10. ASSUME (\E k \in Slots : SendStart(k)) \/ SendDone \/ UNCHANGED vars
       PROVE  UNCHANGED <<NodeTab, STHi>>
  BY <1>10 DEF SendStart, SendDone, vars
<1>11. ASSUME ClusterNext PROVE HiInv'
  BY <1>1, <1>2, <1>3, <1>4, <1>5, <1>6, <1>7, <1>8, <1>9, <1>10, <1>11 DEF ClusterNext
<1> QED BY <1>1, <1>10, <1>11

\* Add, Remove and Drop keep STHi on the highest slot in use, -1 if the table
\* is empty: the loops that stop at STHi miss no node.
THEOREM HighestSlot == ClusterSpec => []HiCovers
<1>1. ClusterInit => HiInv
  BY ClusterAssumption DEF ClusterInit, HiInv, Used
<1>2. ClusterSpec => []HiInv
  BY <1>1, HiStep, ClusterInvariance, PTL DEF ClusterSpec
<1> QED BY <1>2, HiInvCovers, PTL
=============================================================================
