----------------------------- MODULE CmsCluster -----------------------------
(***************************************************************************)
(* The node table of a cms manager (XrdCmsCluster.cc: Add, Remove, Drop    *)
(* and the XrdCmsDrop jobs; XrdCmsNode.cc: the constructor, Disc, Delete)  *)
(* with the threads that use it: one thread per subscriber's connection    *)
(* (XrdCmsProtocol.cc: Admit and Process), the scheduler's drop and        *)
(* deletion jobs, and a thread in Broadcast.                               *)
(*                                                                         *)
(* A subscriber that logs in gets a node object in a slot of NodeTab: the  *)
(* one it had before if that is still there, else a free slot, else the    *)
(* slot of a subscriber it may displace.  When its connection ends, the    *)
(* node stays in the table for DRPDelay seconds; a drop job, named by slot *)
(* and instance number, then empties the slot and deletes the object when  *)
(* nobody refers to it any more.                                           *)
(*                                                                         *)
(* Two locks are involved: STMutex, over the table, and a node's own lock. *)
(* A thread that holds either across a step says so by its pc.             *)
(*                                                                         *)
(* Left out: peers, managers with alternates (a special subscriber here is *)
(* a supervisor, which never has any), the counts of the manager's state   *)
(* and the list of alternate managers sent to a refused subscriber.        *)
(***************************************************************************)
EXTENDS Integers, FiniteSets, FiniteSetsExt

CONSTANTS
  STMax,      \* number of slots of the table
  Servers,    \* the subscribers
  Supers,     \* those that are supervisors
  Doomed,     \* those that are blacklisted: their nodes are isDoomed
  Conns,      \* connections, each served by a thread of its own
  MaxNodes,   \* bound: node objects made
  MaxInst     \* bound: instance number of a node

ASSUME ClusterAssumption ==
  /\ STMax \in Nat \ {0}
  /\ Supers \subseteq Servers
  /\ Doomed \subseteq Servers
  /\ MaxNodes \in Nat \ {0}
  /\ MaxInst \in Nat /\ MaxNodes <= MaxInst
  /\ Servers # {}

VARIABLES
  NodeTab,    \* the node in each slot, 0 if the slot is free
  NodeCnt,    \* number of active nodes
  STHi,       \* the highest slot in use, -1 if none
  made,       \* node objects made so far: iNum - 1
  owner,      \* owner[n]: the subscriber node n stands for
  NodeID,     \* NodeID[n]: its slot
  Instance,   \* Instance[n]: its instance number
  isConn,     \* the nodes with a connection
  isBound,    \* the nodes that are logged in
  isOffline,  \* the nodes to which nothing is sent
  DropJob,    \* DropJob[n]: instance number in the drop job made for n, or 0
  deletes,    \* deletes[n]: deletion jobs for n that have not ended
  deleted,    \* the node objects that were deleted
  pc,         \* pc[c]: where connection c's thread is
  node,       \* node[c]: the node of connection c, 0 if none
  seeks,      \* seeks[c]: while c waits to displace a node: its subscriber
  noted,      \* noted[c]: instance number noted by Remove before it swaps locks
  sends,      \* the node a thread in Broadcast is sending to, 0 if none
  uncounted,  \* history: connected nodes that lost their slot
  broken      \* the undefined state the program is in, "no" if none

vars == <<NodeTab, NodeCnt, STHi, made, owner, NodeID, Instance, isConn,
          isBound, isOffline, DropJob, deletes, deleted, pc, node, seeks,
          noted, sends, uncounted, broken>>

AnyServer == CHOOSE s \in Servers : TRUE

nodeVars == <<made, owner, NodeID, Instance>>

Slots == 0 .. STMax - 1
Nodes == 1 .. MaxNodes
Special(s) == s \in Supers
isPerm(n) == Special(owner[n])

----------------------------------------------------------------------------
\* The locks and the reference count.

\* Nobody holds STMutex across a step but an Add that waits for a node's lock.
STMutexFree == \A c \in Conns : pc[c] # "bump"

\* From Add to the end of the login the thread holds its node's lock.
Locked(n) == \E c \in Conns :
                node[c] = n /\ pc[c] \in {"login", "admitted", "stuck"}

Victim(c) == NodeTab[noted[c]]

\* refCnt > 0: the lock's holders and waiters, Remove's Ref, Broadcast's Ref.
Referenced(n) ==
  \/ Locked(n)
  \/ \E c \in Conns : \/ node[c] = n /\ pc[c] = "swap"
                      \/ pc[c] = "bump" /\ Victim(c) = n
  \/ sends = n

----------------------------------------------------------------------------
ClusterInit ==
  /\ NodeTab = [k \in Slots |-> 0] /\ NodeCnt = 0 /\ STHi = -1
  /\ made = 0
  /\ owner = [n \in Nodes |-> AnyServer]
  /\ NodeID = [n \in Nodes |-> 0] /\ Instance = [n \in Nodes |-> 0]
  /\ isConn = {} /\ isBound = {} /\ isOffline = {}
  /\ DropJob = [n \in Nodes |-> 0]
  /\ deletes = [n \in Nodes |-> 0] /\ deleted = {}
  /\ pc = [c \in Conns |-> "idle"] /\ node = [c \in Conns |-> 0]
  /\ seeks = [c \in Conns |-> AnyServer]
  /\ noted = [c \in Conns |-> 0]
  /\ sends = 0 /\ uncounted = 0 /\ broken = "no"

----------------------------------------------------------------------------
\* Add: the slot a subscriber gets.  Add holds STMutex to its end.

Used == {k \in Slots : NodeTab[k] # 0}
Free == Slots \ Used
Known(s) == {k \in Used : owner[NodeTab[k]] = s}
Down(perm) == {k \in Used : NodeTab[k] \notin isConn /\ isPerm(NodeTab[k]) = perm}
Up == {k \in Used : NodeTab[k] \in isConn /\ ~ isPerm(NodeTab[k])}

\* Faulty: steps down by one slot, which may be free.
HiWithoutOne(k) == IF k = STHi THEN STHi - 1 ELSE STHi

\* STHi when slot k is emptied: it moves only if k was the highest.
HiWithout(k) == IF k = STHi THEN Max({-1} \union (Used \ {k})) ELSE STHi

First(S) == {k \in S : \A j \in S : k <= j}
Last(S) == {k \in S : \A j \in S : j <= k}

\* The last disconnected server, else, if the newcomer is special, the last
\* connected server, else the first disconnected special node.
BumpSlots(s) ==
  IF Down(FALSE) # {} THEN Last(Down(FALSE))
  ELSE IF ~ Special(s) THEN {}
  ELSE IF Up # {} THEN Last(Up) ELSE First(Down(TRUE))

Newcomer(c) == STMutexFree /\ pc[c] = "idle"

\* The subscriber's node is still in the table, and not logged in: it is used
\* again under the next instance number.  A drop job made for it stays.
\* Faulty: a test of the connection instead of the login.
RebindableDown(n) == n \notin isConn
Rebindable(n) == n \notin isBound
\* Faulty: the node stays offline.
ReloginOffline(c, s) ==
  /\ Newcomer(c)
  /\ \E k \in Known(s) :
       LET n == NodeTab[k] IN
       /\ Rebindable(n)
       /\ Instance[n] < MaxInst
       /\ Instance' = [Instance EXCEPT ![n] = @ + 1]
       /\ isConn' = isConn \union {n}
       /\ isBound' = isBound \union {n}
       /\ NodeCnt' = NodeCnt + 1
       /\ node' = [node EXCEPT ![c] = n]
       /\ pc' = [pc EXCEPT ![c] = "login"]
       /\ UNCHANGED <<NodeTab, STHi, made, owner, NodeID, isOffline, DropJob,
                      deletes, deleted, seeks, noted, sends, uncounted, broken>>

Relogin(c, s) ==
  /\ Newcomer(c)
  /\ \E k \in Known(s) :
       LET n == NodeTab[k] IN
       /\ Rebindable(n)
       /\ Instance[n] < MaxInst
       /\ Instance' = [Instance EXCEPT ![n] = @ + 1]
       /\ isOffline' = isOffline \ {n}
       /\ isConn' = isConn \union {n}
       /\ isBound' = isBound \union {n}
       /\ NodeCnt' = NodeCnt + 1
       /\ node' = [node EXCEPT ![c] = n]
       /\ pc' = [pc EXCEPT ![c] = "login"]
       /\ UNCHANGED <<NodeTab, STHi, made, owner, NodeID, DropJob, deletes,
                      deleted, seeks, noted, sends, uncounted, broken>>

\* A new node object in slot k for subscriber s on connection c; hi, conn,
\* bound and cnt are STHi, isConn, isBound and NodeCnt as Remove left them.
NewNode(c, s, k, hi, conn, bound, cnt) ==
  LET n == made + 1 IN
  /\ made' = n
  /\ owner' = [owner EXCEPT ![n] = s]
  /\ NodeID' = [NodeID EXCEPT ![n] = k]
  /\ Instance' = [Instance EXCEPT ![n] = n]
  /\ NodeTab' = [NodeTab EXCEPT ![k] = n]
  /\ STHi' = Max({hi, k})
  /\ isConn' = conn \union {n}
  /\ isBound' = bound \union {n}
  /\ NodeCnt' = cnt + 1
  /\ node' = [node EXCEPT ![c] = n]
  /\ pc' = [pc EXCEPT ![c] = "login"]
  /\ seeks' = [seeks EXCEPT ![c] = AnyServer]
  /\ noted' = [noted EXCEPT ![c] = 0]

AddFree(c, s) ==
  /\ Newcomer(c) /\ Known(s) = {} /\ made < MaxNodes
  /\ \E k \in First(Free) : NewNode(c, s, k, STHi, isConn, isBound, NodeCnt)
  /\ UNCHANGED <<isOffline, DropJob, deletes, deleted, sends, uncounted, broken>>

\* A full table: Add asks for the lock of the node it displaces.
AddBump(c, s) ==
  /\ Newcomer(c) /\ Known(s) = {} /\ Free = {} /\ made < MaxNodes
  /\ \E k \in BumpSlots(s) : noted' = [noted EXCEPT ![c] = k]
  /\ seeks' = [seeks EXCEPT ![c] = s]
  /\ pc' = [pc EXCEPT ![c] = "bump"]
  /\ UNCHANGED <<NodeTab, NodeCnt, STHi, isConn, isBound, isOffline, DropJob,
                 deletes, deleted, node, sends, uncounted, broken, nodeVars>>

\* Remove(..., -1) of a connected node closes its connection and leaves the
\* rest to the connection's thread ...
Shove(c) ==
  LET v == Victim(c) IN
  /\ pc[c] = "bump" /\ ~ Locked(v) /\ v \in isConn
  /\ isOffline' = isOffline \union {v}
  /\ uncounted' = uncounted + 1
  /\ NewNode(c, seeks[c], noted[c], STHi, isConn \ {v}, isBound, NodeCnt)
  /\ UNCHANGED <<DropJob, deletes, deleted, sends, broken>>

\* ... and of a disconnected one drops it: the slot is emptied and the object
\* is deleted by a job.  A drop job made for the node stays.
\* Faulty: cnt nodes are taken off NodeCnt whether the node was logged in or not.
BumpCounted(c, cnt) ==
  LET v == Victim(c) IN
  /\ pc[c] = "bump" /\ ~ Locked(v) /\ v \notin isConn
  /\ isOffline' = isOffline \union {v}
  /\ deletes' = [deletes EXCEPT ![v] = @ + 1]
  /\ NewNode(c, seeks[c], noted[c], HiWithout(noted[c]), isConn,
             isBound \ {v}, NodeCnt - cnt)
  /\ UNCHANGED <<DropJob, deleted, sends, uncounted, broken>>
BumpTwice(c) == BumpCounted(c, 1)
BumpUncounted(c) == BumpCounted(c, 0)

Bump(c) ==
  LET v == Victim(c) IN
  /\ pc[c] = "bump" /\ ~ Locked(v) /\ v \notin isConn
  /\ isOffline' = isOffline \union {v}
  /\ deletes' = [deletes EXCEPT ![v] = @ + 1]
  /\ NewNode(c, seeks[c], noted[c], HiWithout(noted[c]), isConn,
             isBound \ {v}, NodeCnt - (IF v \in isBound THEN 1 ELSE 0))
  /\ UNCHANGED <<DropJob, deleted, sends, uncounted, broken>>

----------------------------------------------------------------------------
\* The connection's thread: Admit, after Add, and Process.

Step(c, from, to) == pc[c] = from /\ pc' = [pc EXCEPT ![c] = to]

Elsewhere == <<NodeTab, NodeCnt, STHi, DropJob, deletes, deleted, seeks,
               sends, uncounted, broken, nodeVars>>

\* ResetRef reads the table, under STMutex, with the node locked.
ResetRef(c) ==
  /\ Step(c, "login", "admitted") /\ STMutexFree
  /\ UNCHANGED <<isConn, isBound, isOffline, node, noted, Elsewhere>>

\* A login that fails after Add leaves the node locked, and Process then asks
\* for that lock again: the thread waits for itself.
LoginFails(c) ==
  /\ Step(c, "login", "stuck")
  /\ UNCHANGED <<isConn, isBound, isOffline, node, noted, Elsewhere>>

LoginDone(c) ==
  /\ Step(c, "admitted", "dispatch")
  /\ UNCHANGED <<isConn, isBound, isOffline, node, noted, Elsewhere>>

\* Dispatch returned: the connection is lost, or was closed.
Lose(c) ==
  /\ Step(c, "dispatch", "ended") /\ STMutexFree
  /\ isOffline' = isOffline \union {node[c]}
  /\ UNCHANGED <<isConn, isBound, node, noted, Elsewhere>>

\* Process locks the node, which is bound, and calls Remove; that notes which
\* node it is to remove, keeps it alive with a reference, and swaps the node's
\* lock for STMutex.
End(c) ==
  /\ Step(c, "ended", "swap")
  /\ ~ Locked(node[c]) /\ node[c] \in isBound
  /\ isConn' = isConn \ {node[c]}
  /\ noted' = [noted EXCEPT ![c] = Instance[node[c]]]
  /\ UNCHANGED <<isBound, isOffline, node, Elsewhere>>

Vacate(k) ==
  /\ NodeTab' = [NodeTab EXCEPT ![k] = 0]
  /\ STHi' = HiWithout(k)

RemoveStart(c) ==
  /\ Step(c, "swap", "idle") /\ STMutexFree
  /\ node' = [node EXCEPT ![c] = 0]
  /\ isOffline' = isOffline \union {node[c]}
  /\ isBound' = isBound \ {node[c]}
  /\ noted' = [noted EXCEPT ![c] = 0]
  /\ UNCHANGED <<isConn, seeks, sends, uncounted, broken, nodeVars, deleted>>

\* The rest of Remove.  A node that lost its slot is deleted by a job ...
RemoveOther(c) ==
  /\ RemoveStart(c)
  /\ NodeTab[NodeID[node[c]]] # node[c]
  /\ deletes' = [deletes EXCEPT ![node[c]] = @ + 1]
  /\ UNCHANGED <<NodeTab, NodeCnt, STHi, DropJob>>

\* ... one that is doomed is dropped at once ...
RemoveNow(c) ==
  LET n == node[c] IN
  /\ RemoveStart(c)
  /\ NodeTab[NodeID[n]] = n /\ owner[n] \in Doomed
  /\ NodeCnt' = NodeCnt - (IF n \in isBound THEN 1 ELSE 0)
  /\ Vacate(NodeID[n])
  /\ deletes' = [deletes EXCEPT ![n] = @ + 1]
  /\ UNCHANGED DropJob

\* ... and any other waits in its slot for its drop job.
\* Faulty: a drop job that is already scheduled keeps its instance number.
RemoveLaterOnce(c) ==
  LET n == node[c] IN
  /\ RemoveStart(c)
  /\ NodeTab[NodeID[n]] = n /\ owner[n] \notin Doomed
  /\ NodeCnt' = NodeCnt - (IF n \in isBound THEN 1 ELSE 0)
  /\ DropJob' = [DropJob EXCEPT ![n] = IF @ = 0 THEN Instance[n] ELSE @]
  /\ UNCHANGED <<NodeTab, STHi, deletes>>
RemoveLater(c) ==
  LET n == node[c] IN
  /\ RemoveStart(c)
  /\ NodeTab[NodeID[n]] = n /\ owner[n] \notin Doomed
  /\ NodeCnt' = NodeCnt - (IF n \in isBound THEN 1 ELSE 0)
  /\ DropJob' = [DropJob EXCEPT ![n] = Instance[n]]
  /\ UNCHANGED <<NodeTab, STHi, deletes>>

----------------------------------------------------------------------------
\* The scheduler's jobs.  DropJob[n] is the job made for n, and the node its
\* slot holds when it runs may be another; time is not modelled, so that a job
\* runs any time after it was scheduled.

Threads == <<isConn, pc, node, seeks, noted, sends, nodeVars>>

Matches(p, inst) == p # 0 /\ Instance[p] = inst

\* Drop: not the instance the job is for.
DropCancelled(n) ==
  /\ DropJob[n] # 0 /\ STMutexFree
  /\ ~ Matches(NodeTab[NodeID[n]], DropJob[n])
  /\ DropJob' = [DropJob EXCEPT ![n] = 0]
  /\ UNCHANGED <<NodeTab, NodeCnt, STHi, isBound, isOffline, deletes, deleted,
                 uncounted, broken, Threads>>

\* Drop: the slot is emptied, and the job goes on to delete the object.
Drop(n) ==
  LET p == NodeTab[NodeID[n]] IN
  /\ DropJob[n] # 0 /\ STMutexFree
  /\ Matches(p, DropJob[n])
  /\ DropJob' = [DropJob EXCEPT ![n] = 0]
  /\ Vacate(NodeID[n])
  /\ isOffline' = isOffline \union {p}
  /\ isBound' = isBound \ {p}
  /\ deletes' = [deletes EXCEPT ![p] = @ + 1]
  /\ uncounted' = uncounted + (IF p \in isBound THEN 1 ELSE 0)
  /\ broken' = IF p \in isBound THEN "dropped" ELSE broken
  /\ UNCHANGED <<NodeCnt, deleted, Threads>>

\* XrdCmsNode::Delete: the object goes when its reference count is seen to be
\* 0 with STMutex held ...
\* Faulty: references are not waited for.
DeletableAny(n) == TRUE
Deletable(n) == ~ Referenced(n)
Delete(n) ==
  /\ deletes[n] > 0 /\ STMutexFree
  /\ Deletable(n)
  /\ deletes' = [deletes EXCEPT ![n] = @ - 1]
  /\ deleted' = deleted \union {n}
  /\ isOffline' = isOffline \ {n}
  /\ owner' = [owner EXCEPT ![n] = AnyServer]
  /\ Instance' = [Instance EXCEPT ![n] = 0]
  /\ broken' = IF n \in deleted THEN "deleted" ELSE broken
  /\ UNCHANGED <<NodeTab, NodeCnt, STHi, isBound, DropJob, uncounted, isConn,
                 pc, node, seeks, noted, sends, made, NodeID>>

\* ... and is lost when DELDelay seconds pass first.
DeleteTimeout(n) ==
  /\ deletes[n] > 0 /\ STMutexFree
  /\ Referenced(n)
  /\ deletes' = [deletes EXCEPT ![n] = @ - 1]
  /\ UNCHANGED <<NodeTab, NodeCnt, STHi, isBound, isOffline, DropJob, deleted,
                 uncounted, broken, Threads>>

----------------------------------------------------------------------------
\* Broadcast sends to a node of the table without a lock, under a reference.

SendStart(k) ==
  /\ STMutexFree /\ sends = 0
  /\ NodeTab[k] # 0 /\ NodeTab[k] \notin isOffline
  /\ sends' = NodeTab[k]
  /\ UNCHANGED <<isConn, isBound, isOffline, pc, node, noted, NodeTab, NodeCnt,
                 STHi, DropJob, deletes, deleted, seeks, uncounted, broken,
                 nodeVars>>

SendDone ==
  /\ sends # 0
  /\ sends' = 0
  /\ UNCHANGED <<isConn, isBound, isOffline, pc, node, noted, NodeTab, NodeCnt,
                 STHi, DropJob, deletes, deleted, seeks, uncounted, broken,
                 nodeVars>>

----------------------------------------------------------------------------
\* What follows an undefined state is not modelled.
ClusterNext ==
  /\ broken = "no"
  /\ \/ \E c \in Conns, s \in Servers : Relogin(c, s) \/ AddFree(c, s) \/ AddBump(c, s)
     \/ \E c \in Conns :
          \/ Shove(c) \/ Bump(c) \/ ResetRef(c) \/ LoginFails(c) \/ LoginDone(c)
          \/ Lose(c) \/ End(c) \/ RemoveOther(c) \/ RemoveNow(c) \/ RemoveLater(c)
     \/ \E n \in Nodes :
          DropCancelled(n) \/ Drop(n) \/ Delete(n) \/ DeleteTimeout(n)
     \/ \E k \in Slots : SendStart(k)
     \/ SendDone

ClusterSpec == ClusterInit /\ [][ClusterNext]_vars

----------------------------------------------------------------------------
(***************************************************************************)
(* Fairness: the connections' threads and the scheduler's drop jobs run, a *)
(* lock that is let go is given to who waits for it, and a connection that *)
(* the manager closed is seen to end.  A connection need not be lost, a    *)
(* subscriber need not log in, a login need not fail, a send need not end. *)
(***************************************************************************)
Closed(c) == node[c] # 0 /\ node[c] \notin isConn

ClusterFairness ==
  /\ \A c \in Conns :
       WF_vars(broken = "no" /\ (\/ Shove(c) \/ Bump(c) \/ ResetRef(c) \/ LoginDone(c)
                                \/ (Closed(c) /\ Lose(c)) \/ End(c)
                                \/ RemoveOther(c) \/ RemoveNow(c) \/ RemoveLater(c)))
  /\ \A n \in Nodes : WF_vars(broken = "no" /\ (DropCancelled(n) \/ Drop(n)))

FairClusterSpec == ClusterSpec /\ ClusterFairness

----------------------------------------------------------------------------
\* Properties.

ClusterTypeOK ==
  /\ NodeTab \in [Slots -> 0 .. made]
  /\ NodeCnt \in Nat
  /\ made \in 0 .. MaxNodes
  /\ owner \in [Nodes -> Servers]
  /\ NodeID \in [Nodes -> Slots]
  /\ Instance \in [Nodes -> 0 .. MaxInst]
  /\ isConn \subseteq 1 .. made
  /\ isBound \subseteq 1 .. made
  /\ isOffline \subseteq 1 .. made
  /\ DropJob \in [Nodes -> 0 .. MaxInst]
  /\ deletes \in [Nodes -> Nat]
  /\ deleted \subseteq 1 .. made
  /\ pc \in [Conns -> {"idle", "bump", "login", "admitted", "stuck", "dispatch",
                       "ended", "swap"}]
  /\ node \in [Conns -> 0 .. made]
  /\ seeks \in [Conns -> Servers]
  /\ noted \in [Conns -> Nat]
  /\ sends \in 0 .. made
  /\ uncounted \in Nat
  /\ broken \in {"no", "dropped", "deleted"}

\* Process and Remove: until a connection's thread has removed its node, the
\* node is its alone, stays the node it was admitted as, and is logged in: in
\* the table, connected and online, or else shoved out, closed and offline.
LoggedInListed ==
  broken = "no" =>
    \A c \in Conns : pc[c] \in {"login", "admitted", "dispatch"} =>
      LET n == node[c] IN
      /\ n \in isBound
      /\ \/ NodeTab[NodeID[n]] = n /\ n \in isConn /\ n \notin isOffline
         \/ NodeTab[NodeID[n]] # n /\ n \notin isConn /\ n \in isOffline

\* Add refuses a subscriber whose node is bound: no two connections ever have
\* the same node, not even while Remove has let go of the node's lock ...
OneThreadPerNode ==
  \A c, d \in Conns : node[c] = node[d] /\ node[c] # 0 => c = d

\* ... so that the node Remove finds after swapping its locks is the one it
\* noted before.
SameAtEntry ==
  \A c \in Conns : pc[c] = "swap" => noted[c] = Instance[node[c]]

\* Remove, Drop: a node that waits in the table for its subscriber to return
\* has a drop job with its own instance number, however often the subscriber
\* came and went.
DownHasDropJob ==
  \A k \in Used : NodeTab[k] \notin isBound =>
      DropJob[NodeTab[k]] = Instance[NodeTab[k]]

\* Add, Remove: NodeCnt is the number of logged in nodes of the table and, for
\* good, of every connected node that lost its slot.
NodeCntCounts ==
  NodeCnt = Cardinality({k \in Used : NodeTab[k] \in isBound}) + uncounted

\* Delete: no thread, and no slot of the table, has a deleted node.
UsedNotDeleted ==
  broken = "no" => /\ \A c \in Conns : node[c] \notin deleted
                   /\ sends \notin deleted
                   /\ \A k \in Slots : NodeTab[k] \notin deleted

\* Add, Drop: the loops to STHi see every node, and STHi is in use.
HiCovers == STHi = Max({-1} \union Used)

\* An Add that holds STMutex waits for a node whose login waits for STMutex, or
\* for itself.
Stalled ==
  \/ broken # "no"
  \/ \E c, d \in Conns : /\ pc[c] = "bump" /\ node[d] = Victim(c)
                         /\ pc[d] \in {"login", "stuck"}

\* Remove, Drop: a node that logged out leaves the table unless its subscriber
\* returns, and a connection that ended gets through Remove, as long as no Add
\* stalls the manager.
DownLeaves ==
  /\ \A n \in Nodes :
       NodeTab[NodeID[n]] = n /\ n \notin isBound ~>
          NodeTab[NodeID[n]] # n \/ n \in isBound \/ Stalled
  /\ \A c \in Conns : pc[c] = "ended" ~> pc[c] = "idle" \/ Stalled

\* Drop, "Make sure this node is the right one": a drop job never drops a node
\* that is logged in.
RightNode == broken # "dropped"
=============================================================================
