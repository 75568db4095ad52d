-------------------------- MODULE CmsPendingProofs --------------------------
(* Proofs about the cache's use of the response queue, for any number of   *)
(* items, files, slots, requests and servers.                              *)
EXTENDS CmsPending, CmsRRQProofs

(***************************************************************************)
(* The inductive invariant, on top of the queue's own.                     *)
(***************************************************************************)

\* A slot's key is the item its request was parked for, and the request's file
\* is the item's present one or an earlier one.
KeyAsked ==
  \A s \in Slots \ free :
    /\ asked[info[s]] \in Items \X (0 .. MaxFiles)
    /\ asked[info[s]][1] = key[s] /\ asked[info[s]][2] <= file[key[s]]

\* Chained requests asked for the same file.
ChainAsked ==
  \A s \in Slots : host[s] # NoSlot => asked[info[s]] = asked[info[host[s]]]

\* What a slot has collected, and what an item knows, was reported for the file.
ArgSaid ==
  \A s \in Slots \ free : \A v \in arg1[s] :
    <<asked[info[s]][1], asked[info[s]][2], v>> \in said
KnownSaid == \A k \in Items : \A v \in hf[k] : <<k, file[k], v>> \in said

\* A slot number of an item that is not stale is about the item's present file.
NumberCurrent ==
  \A k \in Items : \A s \in {roPend[k], rwPend[k]} :
    StillQueued(s, k) => asked[info[s]] = <<k, file[k]>>

PendInv == /\ IInv /\ PendTypeOK
           /\ KeyAsked /\ ChainAsked /\ ArgSaid /\ KnownSaid /\ NumberCurrent
           /\ AnswerAboutFile /\ WaitingIsFindable

-----------------------------------------------------------------------------
(***************************************************************************)
(* The cache's calls are calls the queue allows for.                       *)
(***************************************************************************)
LEMMA CallIsNext ==
  ASSUME NEW s \in SlotNums, NEW k \in Items, NEW mask \in SUBSET Servers,
         isReady < MaxPosts,
         IF s = NoSlot THEN UNCHANGED <<slotVars, semVars>> ELSE Ready(s, k, mask),
         UNCHANGED <<respVars, timerPc, reqVars, tabVars>>
  PROVE  [Next]_rrqVars
<1>1. CASE s = NoSlot
  BY <1>1 DEF rrqVars
<1>2. CASE s # NoSlot
  <2>1. s \in Slots /\ CallReady(s, k, mask)  BY <1>2 DEF SlotNums, CallReady
  <2> QED BY <2>1 DEF Next
<1> QED BY <1>1, <1>2

LEMMA PendIsNext ==
  ASSUME PendTypeOK, [PendNext]_pendVars
  PROVE  [Next]_rrqVars
<1>1. ASSUME NEW k \in Items, \/ AllocItem(k) \/ Refresh(k) \/ Removed(k) \/ Unload(k)
                              \/ RecycleItem(k)
      PROVE  UNCHANGED rrqVars
  BY <1>1 DEF AllocItem, Refresh, Removed, Unload, RecycleItem
<1>2. ASSUME NEW k \in Items, NEW v \in Servers, Gone(k, v)
      PROVE  UNCHANGED rrqVars
  BY <1>2 DEF Gone
<1>3. ASSUME NEW k \in Items, NEW v \in Servers, AddFile(k, v)
      PROVE  [Next]_rrqVars
  <2>1. roPend[k] \in SlotNums /\ hf'[k] \in SUBSET Servers
    BY <1>3 DEF AddFile, PendTypeOK
  <2> QED BY <1>3, <2>1, CallIsNext DEF AddFile, DispatchSlot
<1>4. ASSUME DispatchRW PROVE [Next]_rrqVars
  <2>1. /\ dispatch \in Items /\ rwPend[dispatch] \in SlotNums
        /\ hf[dispatch] \in SUBSET Servers
    BY <1>4 DEF DispatchRW, PendTypeOK
  <2> QED BY <1>4, <2>1, CallIsNext DEF DispatchRW, DispatchSlot
<1>5. ASSUME NEW k \in Items, ScrubRO(k) \/ ScrubRW(k) PROVE [Next]_rrqVars
  <2>1. roPend[k] \in SlotNums /\ rwPend[k] \in SlotNums  BY DEF PendTypeOK
  <2> QED BY <1>5, <2>1, CallIsNext DEF ScrubRO, ScrubRW, Scrub
<1>6. ASSUME NEW k \in Items, NEW r \in Reqs, NEW n \in Redirectors, WT4File(r, n, k)
      PROVE  Next
  <2>1. PendSlot(r, k) \in SlotNums  BY DEF PendSlot, PendTypeOK
  <2> QED BY <1>6, <2>1 DEF WT4File, Next, SlotNums
<1>7. QueueStep => Next
  BY DEF QueueStep, Next
<1>8. UNCHANGED pendVars => UNCHANGED rrqVars
  BY DEF pendVars
<1> QED BY <1>1, <1>2, <1>3, <1>4, <1>5, <1>6, <1>7, <1>8 DEF PendNext, Scrubber

(***************************************************************************)
(* Slots in use.                                                           *)
(***************************************************************************)
LEMMA InUse ==
  ASSUME IInv
  PROVE  /\ \A s \in Slots \ free : /\ info[s] \in Reqs /\ key[s] \in Items
                                    /\ state[info[s]] \in {"held", "done"}
         /\ \A s \in Slots : host[s] # NoSlot =>
              /\ s \notin free /\ host[s] \in Slots \ free /\ host[s] # s
         /\ \A s \in waitQ : s \in Slots \ free /\ expire[s] # 0
         /\ \A s \in Slots, k \in Items : StillQueued(s, k) => s \in Slots \ free
<1>1. RRQTypeOK /\ SlotsAccounted /\ ReqInv /\ RespOwns  BY DEF IInv, ReqOK
<1>2. \A s \in Slots \ free : /\ info[s] \in Reqs /\ state[info[s]] \in {"held", "done"}
  BY <1>1 DEF ReqInv, RRQTypeOK
<1>3. \A s \in Slots \ free : key[s] \in Items
  BY <1>1 DEF SlotsAccounted, RRQTypeOK
<1>4. \A s \in Slots : host[s] # NoSlot => s \notin free /\ host[s] \in Slots \ free /\ host[s] # s
  BY <1>1, SlotAssumption DEF SlotsAccounted, RRQTypeOK
<1>5. \A s \in waitQ : s \in Slots \ free /\ expire[s] # 0
  BY <1>1 DEF SlotsAccounted, RRQTypeOK
<1>6. \A s \in Slots, k \in Items : StillQueued(s, k) => s \in Slots \ free
  BY <1>1 DEF SlotsAccounted, StillQueued
<1> QED BY <1>2, <1>3, <1>4, <1>5, <1>6

\* What Ready changes, and when the caller forgets the slot.
LEMMA ReadyEffect ==
  ASSUME IInv, NEW s \in SlotNums, NEW k \in Items, NEW mask,
         IF s = NoSlot THEN UNCHANGED <<slotVars, semVars>> ELSE Ready(s, k, mask)
  PROVE  /\ UNCHANGED <<info, key, host, expire, free>>
         /\ waitQ' \subseteq waitQ
         /\ arg1' = IF StillQueued(s, k) THEN [arg1 EXCEPT ![s] = @ \cup mask] ELSE arg1
         /\ Forget(s, k) # s /\ key[s] = k => s \notin waitQ'
<1>1. CASE s = NoSlot
  BY <1>1, SlotAssumption DEF slotVars, semVars, StillQueued, Forget
<1>2. CASE s # NoSlot /\ ~ StillQueued(s, k)
  <2>1. UNCHANGED <<slotVars, semVars>>  BY <1>2 DEF Ready
  <2>2. key[s] = k => s \notin waitQ
    BY <1>2, InUse DEF StillQueued, SlotNums
  <2> QED BY <1>2, <2>1, <2>2 DEF slotVars, semVars
<1>3. CASE s # NoSlot /\ StillQueued(s, k)
  <2>1. s \in Slots /\ actR[s] \in Nat /\ MinR \in Nat
    BY <1>3, BoundAssumption DEF SlotNums, IInv, RRQTypeOK
  <2>2. CASE Hold(s, mask)
    BY <1>3, <2>1, <2>2 DEF Hold, semVars, Forget, ReadyDone
  <2>3. CASE MakeReady(s, mask)
    BY <1>3, <2>1, <2>3 DEF MakeReady
  <2> QED BY <1>3, <2>2, <2>3 DEF Ready
<1> QED BY <1>1, <1>2, <1>3

-----------------------------------------------------------------------------
(***************************************************************************)
(* Steps that leave the queue alone.                                       *)
(***************************************************************************)

\* An item that gets another file forgets the slots of the one before.
LEMMA AllocKeeps ==
  ASSUME PendInv, NEW k \in Items, AllocItem(k), IInv'
  PROVE  PendInv'
<1> USE SlotAssumption, FilesAssumption
<1>0. /\ IInv /\ PendTypeOK /\ KeyAsked /\ ChainAsked /\ ArgSaid /\ KnownSaid
      /\ NumberCurrent /\ AnswerAboutFile /\ WaitingIsFindable
  BY DEF PendInv
<1>a. /\ file' = [file EXCEPT ![k] = @ + 1] /\ hf' = [hf EXCEPT ![k] = {}]
      /\ roPend' = [roPend EXCEPT ![k] = NoSlot] /\ rwPend' = [rwPend EXCEPT ![k] = NoSlot]
      /\ UNCHANGED <<info, key, host, expire, arg1, free, waitQ, reply, asked, said>>
  BY DEF AllocItem, rrqVars, slotVars, semVars, reqVars, histVars
<1>b. file \in [Items -> Nat] /\ \A j \in Items : file'[j] = IF j = k THEN file[j] + 1 ELSE file[j]
  BY <1>0, <1>a DEF PendTypeOK
<1>1. PendTypeOK'
  <2>1. RRQTypeOK'  BY DEF IInv
  <2>2. file' \in [Items -> 0 .. MaxFiles]  BY <1>0, <1>a DEF PendTypeOK, AllocItem
  <2> QED BY <1>0, <1>a, <2>1, <2>2 DEF PendTypeOK, AllocItem, SlotNums
<1>2. KeyAsked'
  <2>1. \A s \in Slots \ free : key[s] \in Items  BY <1>0, InUse
  <2>2. \A s \in Slots \ free : asked[info[s]][2] \in Nat  BY <1>0 DEF KeyAsked
  <2> QED BY <1>0, <1>a, <1>b, <2>1, <2>2 DEF KeyAsked
<1>3. ChainAsked' /\ ArgSaid' /\ AnswerAboutFile'
  BY <1>0, <1>a DEF ChainAsked, ArgSaid, AnswerAboutFile
<1>4. KnownSaid'
  BY <1>0, <1>a, <1>b DEF KnownSaid, PendTypeOK
<1>5. NumberCurrent'
  BY <1>0, <1>a, <1>b DEF NumberCurrent, StillQueued, PendTypeOK
<1>6. WaitingIsFindable'
  <2> SUFFICES ASSUME NEW s \in waitQ, asked[info[s]] = <<key[s], file'[key[s]]>>,
                      life'[key[s]] = "cached"
               PROVE  s \in {roPend'[key[s]], rwPend'[key[s]]}
    BY <1>a DEF WaitingIsFindable
  <2>1. s \in Slots \ free /\ key[s] \in Items  BY <1>0, InUse
  <2>2. asked[info[s]][2] <= file[key[s]] /\ file'[key[s]] = asked[info[s]][2]
    BY <1>0, <2>1 DEF KeyAsked
  <2>3. key[s] # k  BY <1>b, <2>1, <2>2
  <2>4. life[key[s]] = "cached"  BY <1>0, <2>1, <2>3 DEF AllocItem, PendTypeOK
  <2> QED BY <1>0, <1>a, <1>b, <2>1, <2>3, <2>4 DEF WaitingIsFindable, PendTypeOK
<1> QED BY <1>1, <1>2, <1>3, <1>4, <1>5, <1>6 DEF PendInv

\* An item that loses servers, or is scrubbed or recycled, keeps its numbers.
LEMMA ItemKeeps ==
  ASSUME PendInv, NEW k \in Items, IInv',
         \/ Refresh(k) \/ Removed(k) \/ Unload(k) \/ RecycleItem(k)
         \/ \E v \in Servers : Gone(k, v)
  PROVE  PendInv'
<1>0. /\ IInv /\ PendTypeOK /\ KeyAsked /\ ChainAsked /\ ArgSaid /\ KnownSaid
      /\ NumberCurrent /\ AnswerAboutFile /\ WaitingIsFindable
  BY DEF PendInv
<1>a. /\ UNCHANGED <<info, key, host, expire, arg1, free, waitQ, reply, asked, said,
                     roPend, rwPend, file, dispatch>>
  BY DEF Refresh, Removed, Unload, RecycleItem, Gone, rrqVars, slotVars, semVars, reqVars,
       histVars
<1>b. \A j \in Items : hf'[j] \subseteq hf[j] /\ (life'[j] = "cached" => life[j] = "cached")
  BY <1>0 DEF Refresh, Removed, Unload, RecycleItem, Gone, PendTypeOK
<1>1. PendTypeOK'
  <2>1. RRQTypeOK'  BY DEF IInv
  <2>2. hf' \in [Items -> SUBSET Servers]
    BY <1>0 DEF Refresh, Removed, Unload, RecycleItem, Gone, PendTypeOK
  <2>3. life' \in [Items -> {"free", "cached"} \cup Scrubbing]
    BY <1>0 DEF Refresh, Removed, Unload, RecycleItem, Gone, PendTypeOK, Scrubbing
  <2> QED BY <1>0, <1>a, <2>1, <2>2, <2>3 DEF PendTypeOK
<1>2. KeyAsked' /\ ChainAsked' /\ ArgSaid' /\ AnswerAboutFile'
  BY <1>0, <1>a DEF KeyAsked, ChainAsked, ArgSaid, AnswerAboutFile
<1>3. KnownSaid'
  BY <1>0, <1>a, <1>b DEF KnownSaid
<1>4. NumberCurrent'
  BY <1>0, <1>a DEF NumberCurrent, StillQueued
<1>5. WaitingIsFindable'
  <2>1. \A s \in waitQ : key[s] \in Items  BY <1>0, InUse
  <2> QED BY <1>0, <1>a, <1>b, <2>1 DEF WaitingIsFindable
<1> QED BY <1>1, <1>2, <1>3, <1>4, <1>5 DEF PendInv

-----------------------------------------------------------------------------
(***************************************************************************)
(* Calls of Ready with a number of the item.                               *)
(***************************************************************************)

\* A number that is not stale is about the present file, so that what Ready
\* adds to the slot was reported for the file that was asked for.
LEMMA CallKeeps ==
  ASSUME PendInv, NEW k \in Items, NEW s \in {roPend[k], rwPend[k]},
         NEW mask \in SUBSET Servers,
         IF s = NoSlot THEN UNCHANGED <<slotVars, semVars>> ELSE Ready(s, k, mask),
         UNCHANGED <<reply, asked, file>>, said \subseteq said',
         \A v \in mask : <<k, file[k], v>> \in said',
         \A j \in Items : {roPend'[j], rwPend'[j]} \subseteq {roPend[j], rwPend[j], NoSlot}
  PROVE  KeyAsked' /\ ChainAsked' /\ ArgSaid' /\ AnswerAboutFile' /\ NumberCurrent'
<1>0. /\ IInv /\ PendTypeOK /\ KeyAsked /\ ChainAsked /\ ArgSaid /\ NumberCurrent
      /\ AnswerAboutFile /\ RRQTypeOK
  BY DEF PendInv, IInv
<1>1. s \in SlotNums  BY <1>0 DEF PendTypeOK
<1>2. /\ UNCHANGED <<info, key, host, expire, free>>
      /\ arg1' = IF StillQueued(s, k) THEN [arg1 EXCEPT ![s] = @ \cup mask] ELSE arg1
  BY <1>0, <1>1, ReadyEffect
<1>3. KeyAsked' /\ ChainAsked' /\ AnswerAboutFile'
  BY <1>0, <1>2 DEF KeyAsked, ChainAsked, AnswerAboutFile
<1>4. ArgSaid'
  <2> SUFFICES ASSUME NEW t \in Slots \ free, NEW v \in arg1'[t]
               PROVE  <<asked[info[t]][1], asked[info[t]][2], v>> \in said'
    BY <1>2 DEF ArgSaid
  <2>1. CASE v \in arg1[t]
    BY <1>0, <2>1 DEF ArgSaid
  <2>2. CASE v \notin arg1[t]
    <3>1. StillQueued(s, k) /\ t = s /\ v \in mask
      BY <1>0, <1>2, <2>2 DEF RRQTypeOK
    <3>2. asked[info[t]] = <<k, file[k]>>
      BY <1>0, <3>1 DEF NumberCurrent
    <3> QED BY <3>1, <3>2
  <2> QED BY <2>1, <2>2
<1>5. NumberCurrent'
  BY <1>0, <1>2, SlotAssumption DEF NumberCurrent, StillQueued
<1> QED BY <1>3, <1>4, <1>5

\* A number is forgotten only when its slot no longer waits.
LEMMA ForgetKeeps ==
  ASSUME PendInv, NEW k \in Items, NEW s \in {roPend[k], rwPend[k]}, NEW mask,
         IF s = NoSlot THEN UNCHANGED <<slotVars, semVars>> ELSE Ready(s, k, mask),
         UNCHANGED <<asked, file, life>>,
         \/ /\ s = roPend[k] /\ rwPend' = rwPend
            /\ roPend' = [roPend EXCEPT ![k] = Forget(roPend[k], k)]
         \/ /\ s = rwPend[k] /\ roPend' = roPend
            /\ rwPend' = [rwPend EXCEPT ![k] = Forget(rwPend[k], k)]
  PROVE  /\ WaitingIsFindable'
         /\ roPend' \in [Items -> SlotNums] /\ rwPend' \in [Items -> SlotNums]
         /\ \A j \in Items : {roPend'[j], rwPend'[j]} \subseteq {roPend[j], rwPend[j], NoSlot}
<1>0. IInv /\ PendTypeOK /\ WaitingIsFindable  BY DEF PendInv
<1>1. s \in SlotNums  BY <1>0 DEF PendTypeOK
<1>2. /\ UNCHANGED <<info, key>> /\ waitQ' \subseteq waitQ
      /\ Forget(s, k) # s /\ key[s] = k => s \notin waitQ'
  BY <1>0, <1>1, ReadyEffect
<1>3. Forget(s, k) \in {s, NoSlot}  BY DEF Forget
<1>4. /\ roPend' \in [Items -> SlotNums] /\ rwPend' \in [Items -> SlotNums]
      /\ \A j \in Items : {roPend'[j], rwPend'[j]} \subseteq {roPend[j], rwPend[j], NoSlot}
  BY <1>0, <1>3 DEF PendTypeOK, SlotNums
<1>5. WaitingIsFindable'
  <2> SUFFICES ASSUME NEW t \in waitQ', asked[info[t]] = <<key[t], file[key[t]]>>,
                      life[key[t]] = "cached"
               PROVE  t \in {roPend'[key[t]], rwPend'[key[t]]}
    BY <1>2 DEF WaitingIsFindable
  <2>1. t \in waitQ /\ key[t] \in Items  BY <1>0, <1>2, InUse
  <2>2. t \in {roPend[key[t]], rwPend[key[t]]}
    BY <1>0, <2>1 DEF WaitingIsFindable
  <2>3. t = s /\ key[t] = k => Forget(s, k) = s
    BY <1>2
  <2> QED BY <1>0, <2>1, <2>2, <2>3 DEF PendTypeOK
<1> QED BY <1>4, <1>5

\* A server's report.
LEMMA AddFileKeeps ==
  ASSUME PendInv, NEW k \in Items, NEW v \in Servers, AddFile(k, v), IInv'
  PROVE  PendInv'
<1>0. IInv /\ PendTypeOK /\ KnownSaid  BY DEF PendInv
<1>a. /\ hf' = [hf EXCEPT ![k] = @ \cup {v}] /\ said' = said \cup {<<k, file[k], v>>}
      /\ IF roPend[k] = NoSlot THEN UNCHANGED <<slotVars, semVars>>
                               ELSE Ready(roPend[k], k, hf'[k])
      /\ roPend' = [roPend EXCEPT ![k] = Forget(roPend[k], k)]
      /\ dispatch' \in Items \cup {NoItem}
      /\ UNCHANGED <<reply, rwPend, life, file, asked>>
  BY DEF AddFile, DispatchSlot, reqVars
<1>b. hf'[k] = hf[k] \cup {v} /\ hf'[k] \in SUBSET Servers /\ hf' \in [Items -> SUBSET Servers]
  BY <1>0, <1>a DEF PendTypeOK
<1>c. file[k] \in 0 .. MaxFiles  BY <1>0 DEF PendTypeOK
<1>1. /\ WaitingIsFindable'
      /\ roPend' \in [Items -> SlotNums] /\ rwPend' \in [Items -> SlotNums]
      /\ \A j \in Items : {roPend'[j], rwPend'[j]} \subseteq {roPend[j], rwPend[j], NoSlot}
  BY <1>a, ForgetKeeps
<1>2. \A w \in hf'[k] : <<k, file[k], w>> \in said'
  BY <1>0, <1>a, <1>b DEF KnownSaid
<1>3. KeyAsked' /\ ChainAsked' /\ ArgSaid' /\ AnswerAboutFile' /\ NumberCurrent'
  BY <1>a, <1>b, <1>1, <1>2, CallKeeps
<1>4. KnownSaid'
  BY <1>0, <1>a, <1>2 DEF KnownSaid, PendTypeOK
<1>5. PendTypeOK'
  <2>1. RRQTypeOK'  BY DEF IInv
  <2>2. said' \subseteq Items \X (0 .. MaxFiles) \X Servers
    BY <1>0, <1>a, <1>c DEF PendTypeOK
  <2> QED BY <1>0, <1>a, <1>b, <1>1, <2>1, <2>2 DEF PendTypeOK
<1> QED BY <1>1, <1>3, <1>4, <1>5 DEF PendInv

\* The second half of a report from an r/w server.
LEMMA DispatchRWKeeps ==
  ASSUME PendInv, DispatchRW, IInv'
  PROVE  PendInv'
<1> DEFINE k == dispatch
<1>0. IInv /\ PendTypeOK /\ KnownSaid /\ k \in Items
  BY DEF PendInv, DispatchRW, PendTypeOK
<1>a. /\ IF rwPend[k] = NoSlot THEN UNCHANGED <<slotVars, semVars>>
                               ELSE Ready(rwPend[k], k, hf[k])
      /\ rwPend' = [rwPend EXCEPT ![k] = Forget(rwPend[k], k)]
      /\ dispatch' = NoItem
      /\ UNCHANGED <<reply, roPend, hf, life, file, asked, said>>
  BY DEF DispatchRW, DispatchSlot, reqVars, histVars
<1> HIDE DEF k
<1>b. hf[k] \in SUBSET Servers  BY <1>0 DEF PendTypeOK
<1>1. /\ WaitingIsFindable'
      /\ roPend' \in [Items -> SlotNums] /\ rwPend' \in [Items -> SlotNums]
      /\ \A j \in Items : {roPend'[j], rwPend'[j]} \subseteq {roPend[j], rwPend[j], NoSlot}
  BY <1>0, <1>a, ForgetKeeps
<1>2. \A w \in hf[k] : <<k, file[k], w>> \in said'
  BY <1>0, <1>a DEF KnownSaid
<1>3. KeyAsked' /\ ChainAsked' /\ ArgSaid' /\ AnswerAboutFile' /\ NumberCurrent'
  BY <1>0, <1>a, <1>b, <1>1, <1>2, CallKeeps
<1>4. KnownSaid'
  BY <1>0, <1>a DEF KnownSaid
<1>5. PendTypeOK'
  <2>1. RRQTypeOK'  BY DEF IInv
  <2> QED BY <1>0, <1>a, <1>1, <2>1 DEF PendTypeOK
<1> QED BY <1>1, <1>3, <1>4, <1>5 DEF PendInv

\* The scrubber's calls, made while the item may not be found.
LEMMA ScrubKeeps ==
  ASSUME PendInv, NEW k \in Items, ScrubRO(k) \/ ScrubRW(k), IInv'
  PROVE  PendInv'
<1>0. IInv /\ PendTypeOK /\ KnownSaid /\ WaitingIsFindable  BY DEF PendInv
<1>a. PICK s \in {roPend[k], rwPend[k]} :
        IF s = NoSlot THEN UNCHANGED <<slotVars, semVars>> ELSE Ready(s, k, {})
  BY DEF ScrubRO, ScrubRW, Scrub
<1>b. /\ UNCHANGED <<reply, roPend, rwPend, hf, dispatch, file, asked, said>>
      /\ life' \in [Items -> {"free", "cached"} \cup Scrubbing]
      /\ \A j \in Items : life'[j] = "cached" => life[j] = "cached"
  BY <1>0 DEF ScrubRO, ScrubRW, Scrub, reqVars, histVars, PendTypeOK, Scrubbing
<1>3. KeyAsked' /\ ChainAsked' /\ ArgSaid' /\ AnswerAboutFile' /\ NumberCurrent'
  BY <1>a, <1>b, CallKeeps
<1>4. KnownSaid'
  BY <1>0, <1>b DEF KnownSaid
<1>5. PendTypeOK'
  <2>1. RRQTypeOK'  BY DEF IInv
  <2> QED BY <1>0, <1>b, <2>1 DEF PendTypeOK
<1>6. WaitingIsFindable'
  <2>1. s \in SlotNums  BY <1>0 DEF PendTypeOK
  <2>2. UNCHANGED <<info, key>> /\ waitQ' \subseteq waitQ
    BY <1>0, <1>a, <2>1, ReadyEffect
  <2>3. \A t \in waitQ : key[t] \in Items  BY <1>0, InUse
  <2> QED BY <1>0, <1>b, <2>2, <2>3 DEF WaitingIsFindable
<1> QED BY <1>3, <1>4, <1>5, <1>6 DEF PendInv

-----------------------------------------------------------------------------
(***************************************************************************)
(* Parking a request.                                                      *)
(***************************************************************************)

\* A request that was not parked before sits in no slot, and the number Add
\* returns is that of a slot that waits for the file.
LEMMA ParkEffect ==
  ASSUME PendInv, NEW k \in Items, NEW r \in Reqs, NEW n \in Redirectors,
         NEW h \in SlotNums, Add(h, r, n, k)
  PROVE  /\ \A t \in Slots \ free : info[t] # r
         /\ reply' = reply /\ reply[r] = NoReply
         /\ \/ UNCHANGED <<slotVars, semVars>> /\ AddResult(h, r, k) = NoSlot
            \/ \E s \in free :
                 /\ free' = free \ {s} /\ info' = [info EXCEPT ![s] = r]
                 /\ key' = [key EXCEPT ![s] = k] /\ arg1' = [arg1 EXCEPT ![s] = {}]
                 /\ \/ /\ StillQueued(h, k) /\ host' = [host EXCEPT ![s] = h]
                       /\ UNCHANGED <<expire, waitQ>> /\ AddResult(h, r, k) = h
                    \/ /\ ~ StillQueued(h, k) /\ expire' = [expire EXCEPT ![s] = 3]
                       /\ UNCHANGED host /\ waitQ' = waitQ \cup {s}
                       /\ AddResult(h, r, k) = s
<1>0. IInv /\ RRQTypeOK /\ ReqInv  BY DEF PendInv, IInv, ReqOK
<1>a. state[r] = "new"  BY DEF Add, Arrives
<1>1. \A t \in Slots \ free : info[t] # r
  BY <1>0, <1>a, InUse
<1>2. reply' = reply /\ reply[r] = NoReply
  BY <1>0, <1>a DEF Add, PiggyBack, Enqueue, Refuse, ReqInv
<1>3. CASE Refuse(r)
  <2>1. state'[r] = "refused"  BY <1>0, <1>3 DEF Refuse, RRQTypeOK
  <2> QED BY <1>1, <1>2, <1>3, <2>1 DEF Refuse, AddResult
<1>4. ASSUME NEW s \in Slots, PiggyBack(s, h, r, k) \/ Enqueue(s, h, r, k)
      PROVE  \E u \in free :
                 /\ free' = free \ {u} /\ info' = [info EXCEPT ![u] = r]
                 /\ key' = [key EXCEPT ![u] = k] /\ arg1' = [arg1 EXCEPT ![u] = {}]
                 /\ \/ /\ StillQueued(h, k) /\ host' = [host EXCEPT ![u] = h]
                       /\ UNCHANGED <<expire, waitQ>> /\ AddResult(h, r, k) = h
                    \/ /\ ~ StillQueued(h, k) /\ expire' = [expire EXCEPT ![u] = 3]
                       /\ UNCHANGED host /\ waitQ' = waitQ \cup {u}
                       /\ AddResult(h, r, k) = u
  <2>1. Alloc(s, r, k)  BY <1>4 DEF PiggyBack, Enqueue
  <2>2. state'[r] # "refused"  BY <1>0, <2>1 DEF Alloc, RRQTypeOK
  <2>3. \A t \in Slots : info'[t] = r <=> t = s
    BY <1>0, <1>1, <2>1, ReqAssumption DEF Alloc, RRQTypeOK, ReqInv
  <2>4. CASE PiggyBack(s, h, r, k)
    BY <2>1, <2>2, <2>4 DEF PiggyBack, Alloc, AddResult, semVars
  <2>5. CASE Enqueue(s, h, r, k)
    <3>1. AddResult(h, r, k) = s
      BY <2>2, <2>3, <2>5 DEF Enqueue, AddResult
    <3> QED BY <2>1, <2>5, <3>1 DEF Enqueue, Alloc
  <2> QED BY <1>4, <2>4, <2>5
<1> QED BY <1>1, <1>2, <1>3, <1>4 DEF Add

LEMMA WT4FileKeeps ==
  ASSUME PendInv, NEW k \in Items, NEW r \in Reqs, NEW n \in Redirectors,
         WT4File(r, n, k), IInv'
  PROVE  PendInv'
<1> USE SlotAssumption
<1> DEFINE h == PendSlot(r, k)
           res == AddResult(h, r, k)
<1>0. /\ IInv /\ PendTypeOK /\ KeyAsked /\ ChainAsked /\ ArgSaid /\ KnownSaid
      /\ NumberCurrent /\ AnswerAboutFile /\ WaitingIsFindable /\ RRQTypeOK
  BY DEF PendInv, PendTypeOK
<1>a. /\ SetPend(r, k, res) /\ Add(h, r, n, k)
      /\ asked' = [asked EXCEPT ![r] = <<k, file[k]>>]
      /\ UNCHANGED <<hf, life, dispatch, file, said>>
  BY DEF WT4File
<1>b. h \in SlotNums /\ h \in {roPend[k], rwPend[k]}
  BY <1>0 DEF PendSlot, PendTypeOK
<1>c. /\ \A t \in Slots \ free : info[t] # r
      /\ reply' = reply /\ reply[r] = NoReply
      /\ \/ UNCHANGED <<slotVars, semVars>> /\ res = NoSlot
         \/ \E s \in free :
              /\ free' = free \ {s} /\ info' = [info EXCEPT ![s] = r]
              /\ key' = [key EXCEPT ![s] = k] /\ arg1' = [arg1 EXCEPT ![s] = {}]
              /\ \/ /\ StillQueued(h, k) /\ host' = [host EXCEPT ![s] = h]
                    /\ UNCHANGED <<expire, waitQ>> /\ res = h
                 \/ /\ ~ StillQueued(h, k) /\ expire' = [expire EXCEPT ![s] = 3]
                    /\ UNCHANGED host /\ waitQ' = waitQ \cup {s}
                    /\ res = s
  BY <1>a, <1>b, ParkEffect
<1>d. res \in SlotNums  BY <1>0, <1>b, <1>c DEF SlotNums, RRQTypeOK
<1>e. /\ roPend' = IF r \notin WriteReqs /\ res # NoSlot THEN [roPend EXCEPT ![k] = res] ELSE roPend
      /\ rwPend' = IF r \in WriteReqs /\ res # NoSlot THEN [rwPend EXCEPT ![k] = res] ELSE rwPend
      /\ h = IF r \in WriteReqs THEN rwPend[k] ELSE roPend[k]
  BY <1>a DEF SetPend, PendSlot
<1> HIDE DEF h, res
<1>f. /\ asked \in [Reqs -> (Items \X (0..MaxFiles)) \cup {NoFile}]
      /\ file[k] \in 0..MaxFiles /\ asked'[r] = <<k, file[k]>>
      /\ \A q \in Reqs : q # r => asked'[q] = asked[q]
  BY <1>0, <1>a DEF PendTypeOK
<1>g. \A t \in Slots \ free : info[t] \in Reqs /\ asked'[info[t]] = asked[info[t]]
  BY <1>0, <1>c, <1>f, InUse
<1>1. PendTypeOK'
  <2>1. RRQTypeOK'  BY DEF IInv
  <2>2. roPend' \in [Items -> SlotNums] /\ rwPend' \in [Items -> SlotNums]
    BY <1>0, <1>d, <1>e DEF PendTypeOK
  <2>3. asked' \in [Reqs -> (Items \X (0..MaxFiles)) \cup {NoFile}]
    BY <1>a, <1>f
  <2> QED BY <1>0, <1>a, <2>1, <2>2, <2>3 DEF PendTypeOK
<1>2. KnownSaid'
  BY <1>0, <1>a DEF KnownSaid
<1>3. AnswerAboutFile'
  BY <1>0, <1>a, <1>c, <1>f DEF AnswerAboutFile, NoReply
<1>4. CASE UNCHANGED <<slotVars, semVars>> /\ res = NoSlot
  <2>1. /\ UNCHANGED <<info, key, host, expire, arg1, free, waitQ, roPend, rwPend>>
    BY <1>4, <1>e DEF slotVars, semVars
  <2>2. KeyAsked' /\ ArgSaid'
    BY <1>0, <1>a, <1>g, <2>1 DEF KeyAsked, ArgSaid
  <2>3. ChainAsked'
    BY <1>0, <1>g, <2>1, InUse DEF ChainAsked
  <2>4. NumberCurrent'
    <3>1. \A t : \A j \in Items : StillQueued(t, j) => t \in Slots \ free
      BY <1>0, InUse DEF StillQueued
    <3> QED BY <1>0, <1>a, <1>g, <2>1, <3>1 DEF NumberCurrent, StillQueued
  <2>5. WaitingIsFindable'
    BY <1>0, <1>a, <1>g, <2>1, InUse DEF WaitingIsFindable
  <2> QED BY <1>1, <1>2, <1>3, <2>2, <2>3, <2>4, <2>5 DEF PendInv
<1>5. ASSUME NEW s \in free,
             free' = free \ {s} /\ info' = [info EXCEPT ![s] = r],
             key' = [key EXCEPT ![s] = k] /\ arg1' = [arg1 EXCEPT ![s] = {}],
             \/ /\ StillQueued(h, k) /\ host' = [host EXCEPT ![s] = h]
                /\ UNCHANGED <<expire, waitQ>> /\ res = h
             \/ /\ ~ StillQueued(h, k) /\ expire' = [expire EXCEPT ![s] = 3]
                /\ UNCHANGED host /\ waitQ' = waitQ \cup {s}
                /\ res = s
      PROVE  PendInv'
  <2>a. s \in Slots /\ info'[s] = r /\ key'[s] = k /\ arg1'[s] = {}
    BY <1>0, <1>5 DEF RRQTypeOK
  <2>b. \A t \in Slots : t # s => info'[t] = info[t] /\ key'[t] = key[t] /\ arg1'[t] = arg1[t]
    BY <1>0, <1>5 DEF RRQTypeOK
  <2>c. asked'[info'[s]] = <<k, file[k]>>
    BY <1>f, <2>a
  <2>d. \A t \in Slots \ free : asked'[info'[t]] = asked[info[t]] /\ t # s
    BY <1>g, <1>5, <2>b
  <2>e. host[s] = NoSlot /\ expire[s] = 0 /\ s \notin waitQ /\ \A t \in Slots : host[t] # s
    BY <1>0, <1>5, <2>a, InUse DEF IInv, SlotsAccounted
  <2>f. StillQueued(h, k) => h \in Slots \ free /\ asked[info[h]] = <<k, file[k]>>
    BY <1>0, <1>b, InUse DEF NumberCurrent, StillQueued
  <2>1. KeyAsked'
    <3> SUFFICES ASSUME NEW t \in Slots \ free'
                 PROVE  /\ asked'[info'[t]] \in Items \X (0 .. MaxFiles)
                        /\ asked'[info'[t]][1] = key'[t]
                        /\ asked'[info'[t]][2] <= file[key'[t]]
      BY <1>a DEF KeyAsked
    <3>1. CASE t = s
      <4>1. file[k] <= file[k]  BY <1>f, FilesAssumption
      <4>2. <<k, file[k]>> \in Items \X (0 .. MaxFiles)  BY <1>f
      <4> QED BY <2>a, <2>c, <3>1, <4>1, <4>2
    <3>2. CASE t # s
      BY <1>0, <1>5, <2>b, <2>d, <3>2 DEF KeyAsked
    <3> QED BY <3>1, <3>2
  <2>2. ArgSaid'
    <3> SUFFICES ASSUME NEW t \in Slots \ free', NEW v \in arg1'[t]
                 PROVE  <<asked'[info'[t]][1], asked'[info'[t]][2], v>> \in said
      BY <1>a DEF ArgSaid
    <3>1. t # s  BY <2>a
    <3> QED BY <1>0, <1>5, <2>b, <2>d, <3>1 DEF ArgSaid
  <2>3. ChainAsked'
    <3> SUFFICES ASSUME NEW t \in Slots, host'[t] # NoSlot
                 PROVE  asked'[info'[t]] = asked'[info'[host'[t]]]
      BY DEF ChainAsked
    <3>1. CASE t = s
      <4>1. StillQueued(h, k) /\ host'[t] = h
        BY <1>0, <1>5, <2>a, <2>e, <3>1 DEF RRQTypeOK
      <4> QED BY <2>c, <2>d, <2>f, <3>1, <4>1
    <3>2. CASE t # s
      <4>1. host'[t] = host[t]  BY <1>0, <1>5, <3>2 DEF RRQTypeOK
      <4>2. t \in Slots \ free /\ host[t] \in Slots \ free
        BY <1>0, <4>1, InUse
      <4> QED BY <1>0, <2>d, <4>1, <4>2 DEF ChainAsked
    <3> QED BY <3>1, <3>2
  <2>4. NumberCurrent'
    <3> SUFFICES ASSUME NEW j \in Items, NEW t \in {roPend'[j], rwPend'[j]},
                        t \in Slots, key'[t] = j, expire'[t] # 0
                 PROVE  asked'[info'[t]] = <<j, file[j]>>
      BY <1>a DEF NumberCurrent, StillQueued
    <3>1. CASE t = s
      BY <2>a, <2>c, <3>1
    <3>2. CASE t # s
      <4>1. key[t] = j /\ expire[t] # 0
        BY <1>0, <1>5, <2>b, <3>2 DEF RRQTypeOK
      <4>2. t \in {roPend[j], rwPend[j]}
        BY <1>0, <1>5, <1>b, <1>e, <3>2 DEF PendTypeOK
      <4>3. StillQueued(t, j)  BY <4>1 DEF StillQueued
      <4>4. t \in Slots \ free  BY <1>0, <4>3, InUse
      <4> QED BY <1>0, <2>d, <4>2, <4>3, <4>4 DEF NumberCurrent
    <3> QED BY <3>1, <3>2
  <2>5. WaitingIsFindable'
    <3> SUFFICES ASSUME NEW t \in waitQ', asked'[info'[t]] = <<key'[t], file[key'[t]]>>,
                        life[key'[t]] = "cached"
                 PROVE  t \in {roPend'[key'[t]], rwPend'[key'[t]]}
      BY <1>a DEF WaitingIsFindable
    <3>1. CASE t = s
      <4>1. res = s /\ res # NoSlot  BY <1>5, <2>a, <2>e, <3>1
      <4> QED BY <1>0, <1>e, <2>a, <3>1, <4>1 DEF PendTypeOK
    <3>2. CASE t # s
      <4>1. t \in waitQ /\ t \in Slots \ free /\ expire[t] # 0 /\ key[t] \in Items
        BY <1>0, <1>5, <3>2, InUse
      <4>2. t \in {roPend[key[t]], rwPend[key[t]]} /\ key'[t] = key[t]
        BY <1>0, <2>b, <2>d, <3>2, <4>1 DEF WaitingIsFindable
      <4>3. t = h /\ key[t] = k => res = h
        BY <1>5, <4>1 DEF StillQueued
      <4> QED BY <1>0, <1>e, <4>1, <4>2, <4>3 DEF PendTypeOK
    <3> QED BY <3>1, <3>2
  <2> QED BY <1>1, <1>2, <1>3, <2>1, <2>2, <2>3, <2>4, <2>5 DEF PendInv
<1> QED BY <1>c, <1>4, <1>5

-----------------------------------------------------------------------------
(***************************************************************************)
(* The queue's own steps.                                                  *)
(***************************************************************************)

\* Steps that answer nobody and free no slot: slots only leave waitQ, and only
\* lose their deadline.
LEMMA MoveKeeps ==
  ASSUME PendInv, IInv', UNCHANGED <<itemVars, histVars>>,
         UNCHANGED <<info, key, host, arg1, free, reply>>, waitQ' \subseteq waitQ,
         \A s \in Slots : expire'[s] # 0 => expire[s] # 0
  PROVE  PendInv'
<1>0. /\ IInv /\ PendTypeOK /\ KeyAsked /\ ChainAsked /\ ArgSaid /\ KnownSaid
      /\ NumberCurrent /\ AnswerAboutFile /\ WaitingIsFindable
  BY DEF PendInv
<1>a. UNCHANGED <<roPend, rwPend, hf, life, dispatch, file, asked, said>>
  BY DEF itemVars, histVars
<1>1. PendTypeOK'
  <2>1. RRQTypeOK'  BY DEF IInv
  <2> QED BY <1>0, <1>a, <2>1 DEF PendTypeOK
<1>2. KeyAsked' /\ ChainAsked' /\ ArgSaid' /\ KnownSaid' /\ AnswerAboutFile'
  BY <1>0, <1>a DEF KeyAsked, ChainAsked, ArgSaid, KnownSaid, AnswerAboutFile
<1>3. NumberCurrent'
  BY <1>0, <1>a DEF NumberCurrent, StillQueued
<1>4. WaitingIsFindable'
  BY <1>0, <1>a DEF WaitingIsFindable
<1> QED BY <1>1, <1>2, <1>3, <1>4 DEF PendInv

\* An answer names servers of the mask only.
LEMMA AnswerOfMask ==
  ASSUME NEW mask, NEW multi, NEW a \in RedAnswers(mask, multi) \cup LocAnswers(mask)
  PROVE  a.to \subseteq mask
<1>1. CASE a \in LocAnswers(mask)
  BY <1>1 DEF LocAnswers
<1>2. CASE a \in FullSelect(mask)
  BY <1>2 DEF FullSelect
<1>3. CASE a \in SingleSelect(mask)
  BY <1>3 DEF SingleSelect, MaskNode
<1>4. CASE a = [kind |-> "delay", to |-> {}]
  BY <1>4
<1> QED BY <1>1, <1>2, <1>3, <1>4 DEF RedAnswers

\* The responder answers a chain with what its first slot collected.
LEMMA SendKeeps ==
  ASSUME PendInv, IInv', UNCHANGED <<itemVars, histVars, slotVars, semVars>>,
         respPc \in {"cross", "own"}, NEW lu \in BOOLEAN, NEW a,
         a.to \subseteq arg1[respSlot], SendTo(Chain(respSlot, lu), a)
  PROVE  PendInv'
<1>0. /\ IInv /\ PendTypeOK /\ KeyAsked /\ ChainAsked /\ ArgSaid /\ KnownSaid
      /\ NumberCurrent /\ AnswerAboutFile /\ WaitingIsFindable /\ RRQTypeOK
  BY DEF PendInv, PendTypeOK
<1>a. UNCHANGED <<roPend, rwPend, hf, life, dispatch, file, asked, said,
                  info, key, host, expire, arg1, free, waitQ>>
  BY DEF itemVars, histVars, slotVars, semVars
<1>1. PendTypeOK'
  <2>1. RRQTypeOK'  BY DEF IInv
  <2> QED BY <1>0, <1>a, <2>1 DEF PendTypeOK
<1>2. KeyAsked' /\ ChainAsked' /\ ArgSaid' /\ KnownSaid'
  BY <1>0, <1>a DEF KeyAsked, ChainAsked, ArgSaid, KnownSaid
<1>3. NumberCurrent' /\ WaitingIsFindable'
  BY <1>0, <1>a DEF NumberCurrent, StillQueued, WaitingIsFindable
<1>4. AnswerAboutFile'
  <2> DEFINE rs == {info[s] : s \in Chain(respSlot, lu)}
  <2> SUFFICES ASSUME NEW r \in Reqs, NEW v \in reply'[r].to
               PROVE  <<asked[r][1], asked[r][2], v>> \in said
    BY <1>a DEF AnswerAboutFile
  <2>1. CASE r \notin rs
    BY <1>0, <2>1 DEF SendTo, AnswerAboutFile
  <2>2. CASE r \in rs
    <3>1. PICK s \in Chain(respSlot, lu) : r = info[s]  BY <2>2
    <3>2. respSlot \in Slots \ free
      BY <1>0, SlotAssumption DEF IInv, RespOwns, RRQTypeOK, SlotsAccounted
    <3>3. asked[r] = asked[info[respSlot]]
      BY <1>0, <3>1, <3>2, SlotAssumption DEF ChainAsked, Chain
    <3>4. v \in a.to
      <4>1. reply'[r] = IF Find(origin[r])
                        THEN [kind |-> a.kind, to |-> a.to, via |-> rtable[origin[r].num]]
                        ELSE [NoReply EXCEPT !.kind = "gone"]
        BY <2>2 DEF SendTo
      <4>2. [NoReply EXCEPT !.kind = "gone"].to = {}  BY DEF NoReply
      <4> QED BY <4>1, <4>2
    <3> QED BY <1>0, <3>2, <3>3, <3>4 DEF ArgSaid
  <2> QED BY <2>1, <2>2
<1> QED BY <1>1, <1>2, <1>3, <1>4 DEF PendInv

\* The slot and its chains are freed together.
LEMMA RecycleKeeps ==
  ASSUME PendInv, IInv', UNCHANGED <<itemVars, histVars>>, RespRecycle
  PROVE  PendInv'
<1> USE SlotAssumption
<1> DEFINE c == RecycleSet
<1>0. /\ IInv /\ PendTypeOK /\ KeyAsked /\ ChainAsked /\ ArgSaid /\ KnownSaid
      /\ NumberCurrent /\ AnswerAboutFile /\ WaitingIsFindable /\ RRQTypeOK
  BY DEF PendInv, PendTypeOK
<1>a. UNCHANGED <<roPend, rwPend, hf, life, dispatch, file, asked, said>>
  BY DEF itemVars, histVars
<1>b. /\ free' = free \cup c /\ UNCHANGED <<expire, waitQ, reply>>
      /\ key' = [s \in Slots |-> IF s \in c THEN NoItem ELSE key[s]]
      /\ info' = [s \in Slots |-> IF s \in c THEN NoReq ELSE info[s]]
      /\ host' = [s \in Slots |-> IF s \in c THEN NoSlot ELSE host[s]]
      /\ arg1' = [s \in Slots |-> IF s \in c THEN {} ELSE arg1[s]]
  BY DEF RespRecycle, semVars, reqVars
<1>r. respSlot # NoSlot  BY <1>0 DEF IInv, RespOwns, RespRecycle
<1>c. \A s \in Slots : host[s] # NoSlot /\ s \notin c => host[s] \notin c
  BY <1>0, <1>r DEF IInv, SlotsAccounted, RecycleSet
<1>d. \A s \in waitQ : s \in Slots \ c
  BY <1>0, <1>r DEF IInv, SlotsAccounted, RecycleSet, RRQTypeOK
<1> HIDE DEF c
<1>1. PendTypeOK'
  <2>1. RRQTypeOK'  BY DEF IInv
  <2> QED BY <1>0, <1>a, <2>1 DEF PendTypeOK
<1>2. KeyAsked' /\ ArgSaid'
  BY <1>0, <1>a, <1>b DEF KeyAsked, ArgSaid
<1>3. KnownSaid' /\ AnswerAboutFile'
  BY <1>0, <1>a, <1>b DEF KnownSaid, AnswerAboutFile
<1>4. ChainAsked'
  <2>1. \A s \in Slots : host[s] \in Slots \cup {NoSlot}  BY <1>0 DEF RRQTypeOK
  <2> QED BY <1>0, <1>a, <1>b, <1>c, <2>1 DEF ChainAsked
<1>5. NumberCurrent'
  BY <1>0, <1>a, <1>b, ItemAssumption DEF NumberCurrent, StillQueued
<1>6. WaitingIsFindable'
  BY <1>0, <1>a, <1>b, <1>d DEF WaitingIsFindable
<1> QED BY <1>1, <1>2, <1>3, <1>4, <1>5, <1>6 DEF PendInv

LEMMA QueueKeeps ==
  ASSUME PendInv, QueueStep, IInv'
  PROVE  PendInv'
<1>0. IInv /\ RRQTypeOK /\ UNCHANGED <<itemVars, histVars>>
  BY DEF PendInv, IInv, QueueStep
<1>1. ASSUME Redirector PROVE PendInv'
  BY <1>0, <1>1, MoveKeeps
     DEF Redirector, AdmitRedirector, DropRedirector, slotVars, semVars, reqVars
<1>2. ASSUME Timer PROVE PendInv'
  <2>1. Tick => \A s \in Slots : expire'[s] # 0 => expire[s] # 0
    BY <1>0 DEF Tick, RRQTypeOK
  <2>2. /\ UNCHANGED <<info, key, host, arg1, free, reply>> /\ waitQ' \subseteq waitQ
        /\ \A s \in Slots : expire'[s] # 0 => expire[s] # 0
    BY <1>2, <2>1 DEF Timer, TimerStart, TimerWake, reqVars
  <2> QED BY <1>0, <2>2, MoveKeeps
<1>3. ASSUME RespWake \/ RespIdle PROVE PendInv'
  BY <1>0, <1>3, MoveKeeps DEF RespWake, RespIdle, slotVars, semVars, reqVars
<1>4. ASSUME NEW s \in Slots, RespTake(s) PROVE PendInv'
  <2>1. \A t \in Slots : expire'[t] # 0 => expire[t] # 0
    BY <1>0, <1>4 DEF RespTake, RRQTypeOK
  <2>2. UNCHANGED <<info, key, host, arg1, free, reply>> /\ waitQ' \subseteq waitQ
    BY <1>4 DEF RespTake, reqVars
  <2> QED BY <1>0, <2>1, <2>2, MoveKeeps
<1>5. ASSUME RespCross PROVE PendInv'
  <2>1. PICK a \in IF IsLU(respSlot) THEN RedAnswers(arg1[respSlot], FALSE)
                                     ELSE LocAnswers(arg1[respSlot]) :
          SendTo(Chain(respSlot, ~ IsLU(respSlot)), a)
    BY <1>5 DEF RespCross
  <2>2. a.to \subseteq arg1[respSlot]  BY <2>1, AnswerOfMask
  <2>3. (~ IsLU(respSlot)) \in BOOLEAN  BY DEF IsLU
  <2>4. respPc \in {"cross", "own"} /\ UNCHANGED <<itemVars, histVars, slotVars, semVars>>
    BY <1>0, <1>5 DEF RespCross
  <2> QED BY <2>1, <2>2, <2>3, <2>4, SendKeeps
<1>6. ASSUME RespOwn PROVE PendInv'
  <2>1. PICK a \in IF IsLU(respSlot) THEN LocAnswers(arg1[respSlot])
                   ELSE RedAnswers(arg1[respSlot], actR[respSlot] > 0) :
          SendTo(Chain(respSlot, IsLU(respSlot)), a)
    BY <1>6 DEF RespOwn
  <2>2. a.to \subseteq arg1[respSlot]  BY <2>1, AnswerOfMask
  <2>3. IsLU(respSlot) \in BOOLEAN  BY DEF IsLU
  <2>4. respPc \in {"cross", "own"} /\ UNCHANGED <<itemVars, histVars, slotVars, semVars>>
    BY <1>0, <1>6 DEF RespOwn
  <2> QED BY <2>1, <2>2, <2>3, <2>4, SendKeeps
<1>7. ASSUME RespRecycle PROVE PendInv'
  BY <1>0, <1>7, RecycleKeeps
<1> QED BY <1>1, <1>2, <1>3, <1>4, <1>5, <1>6, <1>7 DEF QueueStep, Responder

-----------------------------------------------------------------------------
LEMMA PendInitInv == PendInit => PendInv
<1> SUFFICES ASSUME PendInit PROVE PendInv
  OBVIOUS
<1> USE SlotAssumption, ItemAssumption, FilesAssumption
<1>1. IInv  BY InvInit DEF PendInit
<1>2. PendTypeOK
  BY <1>1 DEF PendInit, PendTypeOK, IInv, SlotNums, NoFile
<1>3. KeyAsked /\ ChainAsked /\ ArgSaid /\ WaitingIsFindable
  BY DEF PendInit, RRQInit, KeyAsked, ChainAsked, ArgSaid, WaitingIsFindable
<1>4. KnownSaid /\ AnswerAboutFile
  BY DEF PendInit, RRQInit, KnownSaid, AnswerAboutFile, NoReply
<1>5. NumberCurrent
  BY DEF PendInit, RRQInit, NumberCurrent, StillQueued
<1> QED BY <1>1, <1>2, <1>3, <1>4, <1>5 DEF PendInv

LEMMA PendStep == PendInv /\ [PendNext]_pendVars => PendInv'
<1> SUFFICES ASSUME PendInv, [PendNext]_pendVars PROVE PendInv'
  OBVIOUS
<1>1. IInv'
  <2>1. IInv /\ PendTypeOK  BY DEF PendInv
  <2>2. [Next]_rrqVars  BY <2>1, PendIsNext
  <2> QED BY <2>1, <2>2, InvStep
<1>2. CASE UNCHANGED pendVars
  <2>1. /\ UNCHANGED <<itemVars, histVars>> /\ waitQ' \subseteq waitQ
        /\ UNCHANGED <<info, key, host, expire, arg1, free, reply>>
    BY <1>2 DEF pendVars, rrqVars, slotVars, semVars, reqVars
  <2> QED BY <1>1, <2>1, MoveKeeps
<1>3. ASSUME NEW k \in Items,
             AllocItem(k) \/ Refresh(k) \/ Removed(k) \/ Unload(k)
      PROVE  PendInv'
  BY <1>1, <1>3, AllocKeeps, ItemKeeps
<1>4. ASSUME NEW k \in Items, NEW v \in Servers, Gone(k, v) \/ AddFile(k, v)
      PROVE  PendInv'
  BY <1>1, <1>4, ItemKeeps, AddFileKeeps
<1>5. ASSUME NEW k \in Items, NEW r \in Reqs, NEW n \in Redirectors, WT4File(r, n, k)
      PROVE  PendInv'
  BY <1>1, <1>5, WT4FileKeeps
<1>6. ASSUME Scrubber PROVE PendInv'
  BY <1>1, <1>6, ScrubKeeps, ItemKeeps DEF Scrubber
<1> QED BY <1>1, <1>2, <1>3, <1>4, <1>5, <1>6, DispatchRWKeeps, QueueKeeps DEF PendNext

(***************************************************************************)
(* The results.                                                            *)
(***************************************************************************)

\* The inductive invariant holds in every behaviour of the cache and the queue
\* together.
THEOREM PendInvariance == PendSpec => []PendInv
<1> QED BY PendInitInv, PendStep, PTL DEF PendSpec

\* Type correctness of the items' slot numbers and the queue (XrdCmsKeyItem.hh).
THEOREM PendTypeCorrect == PendSpec => []PendTypeOK
<1>1. PendInv => PendTypeOK  BY DEF PendInv
<1> QED BY <1>1, PendInvariance, PTL

\* An answer names only servers that reported the file that was asked for,
\* although slot numbers go stale and items are used for other files
\* (XrdCmsCache::Add2Q and Dispatch, XrdCmsRRQ::Ready).
THEOREM AnswersAreAboutFile == PendSpec => []AnswerAboutFile
<1>1. PendInv => AnswerAboutFile  BY DEF PendInv
<1> QED BY <1>1, PendInvariance, PTL

\* The next report finds every slot that waits for a file still cached
\* (XrdCmsCache::Dispatch).
THEOREM WaitingRequestFindable == PendSpec => []WaitingIsFindable
<1>1. PendInv => WaitingIsFindable  BY DEF PendInv
<1> QED BY <1>1, PendInvariance, PTL

\* The cache uses the queue as the queue allows: all that is proved of the
\* queue for arbitrary callers, the service to redirectors included, holds.
THEOREM CacheCallsQueue == PendSpec => Spec /\ ImplementsService
<1>1. PendInit => RRQInit  BY DEF PendInit
<1>2. PendTypeOK /\ [PendNext]_pendVars => [Next]_rrqVars  BY PendIsNext
<1>3. PendSpec => Spec
  BY <1>1, <1>2, PendTypeCorrect, PTL DEF PendSpec, Spec
<1> QED BY <1>3, QueueRefines, PTL
=============================================================================
