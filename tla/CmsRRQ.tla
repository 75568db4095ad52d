------------------------------- MODULE CmsRRQ -------------------------------
(***************************************************************************)
(* The fast response queue of the cluster manager (XrdCmsRRQ) with the     *)
(* redirector table (XrdCmsRTable) its answers go through.                 *)
(*                                                                         *)
(* A client request that cannot be answered at once is parked in a slot.   *)
(* The first request for a cache item is queued in waitQ; later ones for   *)
(* the same item are chained to it ("piggy-backed").  A slot moves to      *)
(* readyQ when a server reports the file (Ready), when the item is         *)
(* scrubbed (Del), or when the time-out thread finds it due.  The          *)
(* responder thread takes ready slots one by one, answers the whole chain  *)
(* and recycles its slots.  The two threads sleep on counting semaphores   *)
(* that are posted only when a queue goes from empty to non-empty.         *)
(*                                                                         *)
(* Callers are arbitrary here: any slot number and any item may be passed  *)
(* to Add and Ready at any time, stale ones included.  CmsPending supplies *)
(* the calls the location cache really makes.                              *)
(***************************************************************************)
EXTENDS Naturals, FiniteSets

CONSTANTS
  Slots,        \* XrdCmsRRQ::Slot[1..numSlots-1]
  NoSlot,       \* slot number 0: "no slot"
  Items,        \* cache items, the keys a slot is bound to
  NoItem,       \* the nil key
  Reqs,         \* client requests, each parked at most once
  NoReq,
  LocateReqs,   \* the requests with Info.isLU set
  Servers,      \* node numbers (bits of an SMask_t)
  MinR,         \* Info.minR, that is Config.QryMinum
  IsDFS,        \* baseFS.isDFS(): all servers see every file
  Redirectors,  \* usable indices of the redirector table
  MaxInst,      \* bound: connections redirectors make
  MaxPosts      \* bound: posts of isReady not yet consumed

ASSUME SlotAssumption == NoSlot \notin Slots
ASSUME ItemAssumption == NoItem \notin Items
ASSUME ReqAssumption  == NoReq \notin Reqs /\ LocateReqs \subseteq Reqs
ASSUME ServerAssumption == Servers \subseteq Nat
ASSUME RedirectorAssumption == Redirectors # {}
ASSUME BoundAssumption ==
         MinR \in Nat /\ IsDFS \in BOOLEAN /\ MaxInst \in Nat /\ MaxPosts \in Nat

VARIABLES
  info,      \* slot -> the request parked in it (Info.ID)
  key,       \* slot -> Info.Key
  host,      \* slot -> the queued slot it is piggy-backed on (Cont/LkUp chain)
  expire,    \* slot -> 0: Expire = 0; else Expire - myClock + 2, at least 1
  actR,      \* slot -> Info.actR
  arg1,      \* slot -> Arg1, servers reported so far
  free,      \* the freeSlot chain
  waitQ, readyQ,         \* the two queues, ordered by age in the code
  isWaiting, isReady,    \* the semaphores
  respPc, respSlot,      \* the responder thread and the slot it answers
  timerPc,               \* the time-out thread
  state,     \* request -> "new", "held", "refused" or "done"
  origin,    \* request -> redirector index and instance (Rnum, Rinst)
  reply,     \* request -> what was sent back
  nreply,    \* request -> how often the responder answered it
  rtable,    \* redirector index -> instance connected there, 0 if none
  nextInst   \* XrdCmsNode's iNum

slotVars == <<info, key, host, expire, actR, arg1, free>>
semVars  == <<waitQ, readyQ, isWaiting, isReady>>
respVars == <<respPc, respSlot>>
reqVars  == <<state, origin, reply, nreply>>
tabVars  == <<rtable, nextInst>>
rrqVars  == <<slotVars, semVars, respVars, timerPc, reqVars, tabVars>>

Insts == 0..MaxInst
NoReply == [kind |-> "none", to |-> {}, via |-> 0]
Replies == [kind : {"none", "redirect", "list", "delay", "gone"},
            to : SUBSET Servers, via : Insts]
Origins == [num : Redirectors, inst : Insts]

RRQTypeOK ==
  /\ info \in [Slots -> Reqs \cup {NoReq}]
  /\ key \in [Slots -> Items \cup {NoItem}]
  /\ host \in [Slots -> Slots \cup {NoSlot}]
  /\ expire \in [Slots -> 0..3]
  /\ actR \in [Slots -> 0..MinR]
  /\ arg1 \in [Slots -> SUBSET Servers]
  /\ free \subseteq Slots /\ waitQ \subseteq Slots /\ readyQ \subseteq Slots
  /\ isWaiting \in Nat /\ isReady \in Nat
  /\ respPc \in {"wait", "loop", "cross", "own", "recycle"}
  /\ respSlot \in Slots \cup {NoSlot}
  /\ timerPc \in {"wait", "sleep"}
  /\ state \in [Reqs -> {"new", "held", "refused", "done"}]
  /\ origin \in [Reqs -> Origins]
  /\ reply \in [Reqs -> Replies]
  /\ nreply \in [Reqs -> Nat]
  /\ rtable \in [Redirectors -> Insts]
  /\ nextInst \in 1..(MaxInst + 1)

RRQInit ==
  /\ info = [s \in Slots |-> NoReq]
  /\ key = [s \in Slots |-> NoItem]
  /\ host = [s \in Slots |-> NoSlot]
  /\ expire = [s \in Slots |-> 0]
  /\ actR = [s \in Slots |-> 0]
  /\ arg1 = [s \in Slots |-> {}]
  /\ free = Slots /\ waitQ = {} /\ readyQ = {}
  /\ isWaiting = 0 /\ isReady = 0
  /\ respPc = "wait" /\ respSlot = NoSlot /\ timerPc = "wait"
  /\ state = [r \in Reqs |-> "new"]
  /\ origin = [r \in Reqs |-> [num |-> CHOOSE n \in Redirectors : TRUE, inst |-> 0]]
  /\ reply = [r \in Reqs |-> NoReply]
  /\ nreply = [r \in Reqs |-> 0]
  /\ rtable = [n \in Redirectors |-> 0]
  /\ nextInst = 1

-----------------------------------------------------------------------------
(* The redirector table.                                                   *)

\* Admit_Redirector: a new node object, hence a new instance number.
AdmitRedirector(n) ==
  /\ rtable[n] = 0 /\ nextInst <= MaxInst
  /\ rtable' = [rtable EXCEPT ![n] = nextInst]
  /\ nextInst' = nextInst + 1
  /\ UNCHANGED <<slotVars, semVars, respVars, timerPc, reqVars>>

\* The connection is lost: Process() takes the node out of the table.
DropRedirector(n) ==
  /\ rtable[n] # 0
  /\ rtable' = [rtable EXCEPT ![n] = 0]
  /\ UNCHANGED <<slotVars, semVars, respVars, timerPc, reqVars, nextInst>>

\* Mutant of Find: the index alone, without the instance.
FindAnyInst(o) == o.inst # 0 /\ rtable[o.num] # 0

\* RTable.Find: the redirector at this index, if it is still that instance.
Find(o) == o.inst # 0 /\ rtable[o.num] = o.inst

-----------------------------------------------------------------------------
(* Add: park a request.  Allocation and queueing are one step because every*)
(* caller holds the cache mutex and an allocated slot is unreachable until *)
(* it is queued.                                                           *)

\* The slot number still denotes a queued request for this item.
StillQueued(s, k) == s \in Slots /\ key[s] = k /\ expire[s] # 0

\* A request r of the redirector now connected at index n.
Arrives(r, n) ==
  /\ state[r] = "new" /\ rtable[n] # 0
  /\ origin' = [origin EXCEPT ![r] = [num |-> n, inst |-> rtable[n]]]

\* Slot s receives a copy of the caller's Info.
Alloc(s, r, k) ==
  /\ s \in free
  /\ free' = free \ {s}
  /\ info' = [info EXCEPT ![s] = r]
  /\ key' = [key EXCEPT ![s] = k]
  /\ actR' = [actR EXCEPT ![s] = 0]
  /\ arg1' = [arg1 EXCEPT ![s] = {}]
  /\ state' = [state EXCEPT ![r] = "held"]

PiggyBack(s, h, r, k) ==
  /\ StillQueued(h, k)
  /\ Alloc(s, r, k)
  /\ host' = [host EXCEPT ![s] = h]
  /\ UNCHANGED <<expire, semVars, respVars, timerPc, reply, nreply, tabVars>>

Enqueue(s, h, r, k) ==
  /\ ~ StillQueued(h, k)
  /\ Alloc(s, r, k)
  /\ expire' = [expire EXCEPT ![s] = 3]
  /\ isWaiting' = IF waitQ = {} THEN isWaiting + 1 ELSE isWaiting
  /\ waitQ' = waitQ \cup {s}
  /\ UNCHANGED <<host, readyQ, isReady, respVars, timerPc, reply, nreply, tabVars>>

\* No slot is left: Add returns 0.
Refuse(r) ==
  /\ free = {}
  /\ state' = [state EXCEPT ![r] = "refused"]
  /\ UNCHANGED <<slotVars, semVars, respVars, timerPc, reply, nreply, tabVars>>

Add(h, r, n, k) ==
  /\ Arrives(r, n)
  /\ \/ \E s \in Slots : PiggyBack(s, h, r, k) \/ Enqueue(s, h, r, k)
     \/ Refuse(r)

\* The slot number Add returns: the host's, the new slot's, or 0.
AddResult(h, r, k) ==
  IF state'[r] = "refused" THEN NoSlot
  ELSE IF StillQueued(h, k) THEN h
  ELSE CHOOSE s \in Slots : info'[s] = r

-----------------------------------------------------------------------------
(* Ready: a server reported the item (or, with an empty mask, Del).        *)

\* Mutant of Hold: one responder too many.
HoldOneMore(s, mask) ==
  /\ actR[s] <= MinR
  /\ actR' = [actR EXCEPT ![s] = @ + 1]
  /\ arg1' = [arg1 EXCEPT ![s] = @ \cup mask]
  /\ UNCHANGED <<info, key, host, expire, free, semVars>>

\* Waiting for more responders: the answer is recorded, the slot stays put.
Hold(s, mask) ==
  /\ actR[s] < MinR
  /\ actR' = [actR EXCEPT ![s] = @ + 1]
  /\ arg1' = [arg1 EXCEPT ![s] = @ \cup mask]
  /\ UNCHANGED <<info, key, host, expire, free, semVars>>

\* A slot that is already in readyQ is moved to its end.
MakeReady(s, mask) ==
  /\ actR[s] >= MinR
  /\ arg1' = [arg1 EXCEPT ![s] = @ \cup mask]
  /\ waitQ' = waitQ \ {s}
  /\ isReady' = IF readyQ \ {s} = {} THEN isReady + 1 ELSE isReady
  /\ readyQ' = readyQ \cup {s}
  /\ UNCHANGED <<info, key, host, expire, actR, free, isWaiting>>

\* Ready() on a slot number that no longer denotes this item changes nothing.
Ready(s, k, mask) ==
  IF StillQueued(s, k) THEN Hold(s, mask) \/ MakeReady(s, mask)
                       ELSE UNCHANGED <<slotVars, semVars>>

\* Ready's return value: the caller forgets the slot unless it is held.
ReadyDone(s, k) == ~ (StillQueued(s, k) /\ actR[s] < MinR)

CallReady(s, k, mask) ==
  /\ isReady < MaxPosts
  /\ Ready(s, k, mask)
  /\ UNCHANGED <<respVars, timerPc, reqVars, tabVars>>

-----------------------------------------------------------------------------
(* The time-out thread.  The clock ticks only while it is awake.           *)

Tick == expire' = [s \in Slots |-> IF expire[s] > 1 THEN expire[s] - 1
                                                    ELSE expire[s]]

TimerStart ==
  /\ timerPc = "wait" /\ isWaiting > 0
  /\ isWaiting' = isWaiting - 1
  /\ timerPc' = "sleep"
  /\ Tick
  /\ UNCHANGED <<info, key, host, actR, arg1, free, waitQ, readyQ, isReady,
                 respVars, reqVars, tabVars>>

\* Mutant of Due: compares with a clock that is one tick behind.
DueLate == {s \in waitQ : expire[s] = 0}

\* Slots with Expire < myClock; waitQ is sorted by Expire.
Due == {s \in waitQ : expire[s] = 1}

\* Mutant of TimerWake: the responder is not told of expired slots.
TimerWakeNoPost ==
  /\ timerPc = "sleep"
  /\ waitQ' = waitQ \ Due
  /\ readyQ' = readyQ \cup Due
  /\ \/ waitQ' = {} /\ timerPc' = "wait" /\ UNCHANGED expire
     \/ waitQ' # {} /\ timerPc' = "sleep" /\ Tick
  /\ UNCHANGED <<info, key, host, actR, arg1, free, isWaiting, isReady,
                 respVars, reqVars, tabVars>>

\* One Tslice later: move what is due, then tick again or go to sleep.
TimerWake ==
  /\ timerPc = "sleep"
  /\ waitQ' = waitQ \ Due
  /\ isReady' = IF readyQ = {} /\ Due # {} THEN isReady + 1 ELSE isReady
  /\ readyQ' = readyQ \cup Due
  /\ \/ waitQ' = {} /\ timerPc' = "wait" /\ UNCHANGED expire
     \/ waitQ' # {} /\ timerPc' = "sleep" /\ Tick
  /\ UNCHANGED <<info, key, host, actR, arg1, free, isWaiting,
                 respVars, reqVars, tabVars>>

-----------------------------------------------------------------------------
(* The responder thread.                                                   *)

RespWake ==
  /\ respPc = "wait" /\ isReady > 0
  /\ isReady' = isReady - 1
  /\ respPc' = "loop"
  /\ UNCHANGED <<slotVars, waitQ, readyQ, isWaiting, respSlot, timerPc,
                 reqVars, tabVars>>

RespIdle ==
  /\ respPc = "loop" /\ readyQ = {}
  /\ respPc' = "wait"
  /\ UNCHANGED <<slotVars, semVars, respSlot, timerPc, reqVars, tabVars>>

\* Mutant of RespTake: the slot can still be found and chained to.
RespTakeStillQueued(s) ==
  /\ respPc = "loop" /\ s \in readyQ
  /\ readyQ' = readyQ \ {s}
  /\ respSlot' = s /\ respPc' = "cross"
  /\ UNCHANGED <<info, key, host, expire, actR, arg1, free, waitQ, isWaiting,
                 isReady, timerPc, reqVars, tabVars>>

\* From here on the slot is private to the responder: Expire is 0.
RespTake(s) ==
  /\ respPc = "loop" /\ s \in readyQ
  /\ readyQ' = readyQ \ {s}
  /\ expire' = [expire EXCEPT ![s] = 0]
  /\ respSlot' = s /\ respPc' = "cross"
  /\ UNCHANGED <<info, key, host, actR, arg1, free, waitQ, isWaiting, isReady,
                 timerPc, reqVars, tabVars>>

IsLU(s) == info[s] \in LocateReqs

\* Mutant of Chain: the two kinds of request are not told apart.
ChainBoth(h, lu) == {s \in Slots : s = h \/ host[s] = h}

\* The locate slots (lu) or select slots (~lu) among slot h and its chains.
Chain(h, lu) == {s \in Slots : (s = h \/ host[s] = h) /\ IsLU(s) = lu}

\* Cluster.Select(mask, ..): with a choice, any usable node, and when none is
\* usable a name of length zero is still returned as success; without one,
\* the top bit of the lowest non-zero byte, or failure.
FullSelect(mask) == {[kind |-> "redirect", to |-> t] :
                       t \in {{}} \cup {{i} : i \in mask}}
MaskNode(mask) ==
  {i \in mask : \A j \in mask :
     (i \div 8) < (j \div 8) \/ ((i \div 8) = (j \div 8) /\ i >= j)}
SingleSelect(mask) == {[kind |-> "redirect", to |-> {i}] : i \in MaskNode(mask)}
                        \cup {[kind |-> "delay", to |-> {}]}

RedAnswers(mask, multi) ==
  IF mask = {} THEN {[kind |-> "delay", to |-> {}]}
  ELSE IF multi \/ IsDFS THEN FullSelect(mask) ELSE SingleSelect(mask)

\* Cluster.List may drop any of the servers; none left means a delay.
LocAnswers(mask) ==
  {[kind |-> "list", to |-> t] : t \in SUBSET mask \ {{}}}
    \cup {[kind |-> "delay", to |-> {}]}

\* Under the table lock, send answer a to the redirector of each slot in c.
SendTo(c, a) ==
  LET rs == {info[s] : s \in c} IN
  /\ reply' = [r \in Reqs |->
                 IF r \notin rs THEN reply[r]
                 ELSE IF Find(origin[r])
                      THEN [kind |-> a.kind, to |-> a.to,
                            via |-> rtable[origin[r].num]]
                      ELSE [NoReply EXCEPT !.kind = "gone"]]
  /\ nreply' = [r \in Reqs |-> IF r \in rs THEN nreply[r] + 1 ELSE nreply[r]]
  /\ state' = [r \in Reqs |-> IF r \in rs THEN "done" ELSE state[r]]

\* The chain of the other kind is answered first.  Its slots were never
\* passed to Ready, so their actR is 0.
RespCross ==
  /\ respPc = "cross"
  /\ \E a \in IF IsLU(respSlot) THEN RedAnswers(arg1[respSlot], FALSE)
                                ELSE LocAnswers(arg1[respSlot]) :
       SendTo(Chain(respSlot, ~ IsLU(respSlot)), a)
  /\ respPc' = "own"
  /\ UNCHANGED <<slotVars, semVars, respSlot, timerPc, origin, tabVars>>

RespOwn ==
  /\ respPc = "own"
  /\ \E a \in IF IsLU(respSlot) THEN LocAnswers(arg1[respSlot])
              ELSE RedAnswers(arg1[respSlot], actR[respSlot] > 0) :
       SendTo(Chain(respSlot, IsLU(respSlot)), a)
  /\ respPc' = "recycle"
  /\ UNCHANGED <<slotVars, semVars, respSlot, timerPc, origin, tabVars>>

\* Mutant of RecycleSet: only the chain of the slot's own kind is freed.
RecycleSetOneChain == Chain(respSlot, IsLU(respSlot))

\* The slots freed together: the answered slot and both its chains.
RecycleSet == {s \in Slots : s = respSlot \/ host[s] = respSlot}

\* XrdCmsRRQSlot::Recycle: the slot and both its chains become free.  What a
\* free slot holds is dead (Alloc overwrites it) and is cleared here.
RespRecycle ==
  LET c == RecycleSet IN
  /\ respPc = "recycle"
  /\ free' = free \cup c
  /\ key' = [s \in Slots |-> IF s \in c THEN NoItem ELSE key[s]]
  /\ info' = [s \in Slots |-> IF s \in c THEN NoReq ELSE info[s]]
  /\ host' = [s \in Slots |-> IF s \in c THEN NoSlot ELSE host[s]]
  /\ actR' = [s \in Slots |-> IF s \in c THEN 0 ELSE actR[s]]
  /\ arg1' = [s \in Slots |-> IF s \in c THEN {} ELSE arg1[s]]
  /\ respSlot' = NoSlot /\ respPc' = "loop"
  /\ UNCHANGED <<expire, semVars, timerPc, reqVars, tabVars>>

-----------------------------------------------------------------------------
Redirector == \E n \in Redirectors : AdmitRedirector(n) \/ DropRedirector(n)
Timer     == TimerStart \/ TimerWake
Responder == \/ RespWake \/ RespIdle \/ RespCross \/ RespOwn \/ RespRecycle
             \/ \E s \in Slots : RespTake(s)

Next ==
  \/ \E h \in Slots \cup {NoSlot}, r \in Reqs, n \in Redirectors, k \in Items :
       Add(h, r, n, k)
  \/ \E s \in Slots, k \in Items, mask \in SUBSET Servers : CallReady(s, k, mask)
  \/ Redirector \/ Timer \/ Responder

Spec == RRQInit /\ [][Next]_rrqVars

\* Both threads run for the life of the manager and their sleeps end.
FairSpec == Spec /\ WF_rrqVars(Timer) /\ WF_rrqVars(Responder)

-----------------------------------------------------------------------------
(* Properties.                                                             *)

\* No lost wake-up: whenever the responder is about to sleep on isReady with
\* work in readyQ there is a post for it, and the same for the time-out
\* thread, isWaiting and waitQ.  (RRQ.cc posts only if the queue was empty.)
NoLostWakeup ==
  /\ respPc = "wait" /\ readyQ # {} => isReady > 0
  /\ timerPc = "wait" /\ waitQ # {} => isWaiting > 0

\* Every slot is in exactly one place: free, queued in one queue, being
\* answered, or chained to a slot that is queued or being answered.  A chain
\* never hangs off a free slot, another chained slot or another item's slot.
SlotsAccounted ==
  /\ waitQ \cap readyQ = {}
  /\ \A s \in Slots :
       LET queued == s \in waitQ \cup readyQ
           chained == host[s] # NoSlot
           answering == s = respSlot
       IN /\ (s \in free) <=> ~ (queued \/ chained \/ answering)
          /\ ~ (queued /\ chained) /\ ~ (queued /\ answering)
          /\ ~ (chained /\ answering)
          /\ queued <=> expire[s] # 0
          /\ (s \in free) <=> key[s] = NoItem
          /\ chained => LET h == host[s] IN
               /\ h \in waitQ \cup readyQ \cup {respSlot}
               /\ key[h] = key[s]

\* The answer is a matter of the slot's own chain: a request that was accepted
\* occupies exactly one slot until it is answered, and no request is answered
\* twice, whatever stale slot numbers callers pass.
AnsweredOnce ==
  /\ \A r \in Reqs :
       /\ nreply[r] = IF state[r] = "done" THEN 1 ELSE 0
       /\ state[r] = "held" => \E s \in Slots \ free : info[s] = r
  /\ \A s, t \in Slots \ free : info[s] = info[t] => s = t

\* An answer only ever reaches the connection the request came from: not a
\* redirector that logged in later and was given the same table index.
RightRedirector ==
  \A r \in Reqs : reply[r].via \in {0, origin[r].inst}

\* Every parked request is answered: by a server's report or by the time-out.
HeldAnswered == \A r \in Reqs : state[r] = "held" ~> state[r] = "done"

\* Select "If there is nothing to select from, return failure": a redirect
\* names a server.
RedirectNamesServer ==
  \A r \in Reqs : reply[r].kind = "redirect" => reply[r].to # {}

\* Refinement: with slots, queues, chains and threads hidden, every behaviour
\* of the queue is one of the service CmsService promises to redirectors.
Service == INSTANCE CmsService
ImplementsService == Service!SvcSpec
=============================================================================
