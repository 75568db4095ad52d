----------------------------- MODULE CmsPending -----------------------------
(***************************************************************************)
(* How the location cache uses the fast response queue: XrdCmsCache's      *)
(* Add2Q, Dispatch and Recycle with the two slot numbers, roPend and       *)
(* rwPend, that every cache item keeps.                                    *)
(*                                                                         *)
(* The numbers are weak references.  A time-out answers and frees a slot   *)
(* without telling the item, and the slot may be given to another request  *)
(* while the item still holds its number.  The queue's check of the key    *)
(* and of Expire is all that guards against using such a number.  Items    *)
(* are reused for other files too, so the key is no more than an address.  *)
(*                                                                         *)
(* Cache operations run under the cache mutex, except that the scrubber    *)
(* job calls RRQ.Del without it.  The queue's own mutex is released        *)
(* between the two calls a dispatch makes.  Shared-nothing servers only.   *)
(***************************************************************************)
EXTENDS CmsRRQ

CONSTANTS
  WriteReqs,   \* requests made with XrdCmsSelect::Write
  RWServers,   \* servers that export the path r/w
  MaxFiles     \* bound: files an item is used for, one after the other

ASSUME WriteAssumption == WriteReqs \subseteq Reqs /\ WriteReqs \cap LocateReqs = {}
ASSUME RWAssumption == RWServers \subseteq Servers
ASSUME FilesAssumption == MaxFiles \in Nat

VARIABLES
  roPend, rwPend,  \* item -> Loc.roPend, Loc.rwPend
  hf,              \* item -> Loc.hfvec
  life,            \* item -> "free", "cached", or the stage of its scrubbing
  dispatch,        \* item whose r/w slot is still to be dispatched, or NoItem
  file,            \* item -> which of its files it holds now
  asked,           \* request -> <<item, file>> it was parked for
  said             \* <<item, file, server>>: the reports received

itemVars == <<roPend, rwPend, hf, life, dispatch, file>>
histVars == <<asked, said>>
pendVars == <<rrqVars, itemVars, histVars>>

NoFile == <<NoItem, 0>>
SlotNums == Slots \cup {NoSlot}
Scrubbing == {"unloaded", "roDeleted", "rwDeleted"}

PendTypeOK ==
  /\ RRQTypeOK
  /\ roPend \in [Items -> SlotNums] /\ rwPend \in [Items -> SlotNums]
  /\ hf \in [Items -> SUBSET Servers]
  /\ life \in [Items -> {"free", "cached"} \cup Scrubbing]
  /\ dispatch \in Items \cup {NoItem}
  /\ file \in [Items -> 0..MaxFiles]
  /\ asked \in [Reqs -> (Items \X (0..MaxFiles)) \cup {NoFile}]
  /\ said \subseteq Items \X (0..MaxFiles) \X Servers

PendInit ==
  /\ RRQInit
  /\ roPend = [k \in Items |-> NoSlot] /\ rwPend = [k \in Items |-> NoSlot]
  /\ hf = [k \in Items |-> {}]
  /\ life = [k \in Items |-> "free"]
  /\ dispatch = NoItem
  /\ file = [k \in Items |-> 0]
  /\ asked = [r \in Reqs |-> NoFile]
  /\ said = {}

CacheUnlocked == dispatch = NoItem

-----------------------------------------------------------------------------
(* Cache items.                                                            *)

\* Mutant of AllocItem: the item keeps the slot numbers of its last file.
AllocItemKeepPend(k) ==
  /\ CacheUnlocked /\ life[k] = "free" /\ file[k] < MaxFiles
  /\ life' = [life EXCEPT ![k] = "cached"]
  /\ file' = [file EXCEPT ![k] = @ + 1]
  /\ hf' = [hf EXCEPT ![k] = {}]
  /\ UNCHANGED <<rrqVars, roPend, rwPend, dispatch, histVars>>

\* AddFile for a path not in the cache: KeyItem::Alloc clears both numbers.
AllocItem(k) ==
  /\ CacheUnlocked /\ life[k] = "free" /\ file[k] < MaxFiles
  /\ life' = [life EXCEPT ![k] = "cached"]
  /\ file' = [file EXCEPT ![k] = @ + 1]
  /\ hf' = [hf EXCEPT ![k] = {}]
  /\ roPend' = [roPend EXCEPT ![k] = NoSlot]
  /\ rwPend' = [rwPend EXCEPT ![k] = NoSlot]
  /\ UNCHANGED <<rrqVars, dispatch, histVars>>

\* AddFile with no mask (a refresh): locations are nullified.
Refresh(k) ==
  /\ CacheUnlocked /\ life[k] = "cached" /\ hf[k] # {}
  /\ hf' = [hf EXCEPT ![k] = {}]
  /\ UNCHANGED <<rrqVars, roPend, rwPend, life, dispatch, file, histVars>>

\* do_Gone: server v no longer has the file; the item stays.
Gone(k, v) ==
  /\ CacheUnlocked /\ life[k] = "cached" /\ v \in hf[k]
  /\ hf' = [hf EXCEPT ![k] = @ \ {v}]
  /\ UNCHANGED <<rrqVars, roPend, rwPend, life, dispatch, file, histVars>>

\* do_Rm, do_Mv: DelFile unloads and recycles the item at once, and leaves
\* the requests that wait for it to their time-out.
Removed(k) ==
  /\ CacheUnlocked /\ life[k] = "cached"
  /\ hf' = [hf EXCEPT ![k] = {}]
  /\ life' = [life EXCEPT ![k] = "free"]
  /\ UNCHANGED <<rrqVars, roPend, rwPend, dispatch, file, histVars>>

\* TickTock unloads the item and hands it to the scrubber job.
Unload(k) ==
  /\ CacheUnlocked /\ life[k] = "cached"
  /\ life' = [life EXCEPT ![k] = "unloaded"]
  /\ UNCHANGED <<rrqVars, roPend, rwPend, hf, dispatch, file, histVars>>

\* The scrubber's RRQ.Del calls, made without the cache mutex.
Scrub(k, pend, from, to) ==
  /\ life[k] = from /\ isReady < MaxPosts
  /\ IF pend = NoSlot THEN UNCHANGED <<slotVars, semVars>> ELSE Ready(pend, k, {})
  /\ life' = [life EXCEPT ![k] = to]
  /\ UNCHANGED <<respVars, timerPc, reqVars, tabVars,
                 roPend, rwPend, hf, dispatch, file, histVars>>

ScrubRO(k) == Scrub(k, roPend[k], "unloaded", "roDeleted")
ScrubRW(k) == Scrub(k, rwPend[k], "roDeleted", "rwDeleted")

\* CTable.Recycle: the item may be allocated again.
RecycleItem(k) ==
  /\ CacheUnlocked /\ life[k] = "rwDeleted"
  /\ life' = [life EXCEPT ![k] = "free"]
  /\ UNCHANGED <<rrqVars, roPend, rwPend, hf, dispatch, file, histVars>>

-----------------------------------------------------------------------------
(* Parking a request: WT4File and Add2Q.                                   *)

\* The slot number Add2Q hands to RRQ.Add.
PendSlot(r, k) == IF r \in WriteReqs THEN rwPend[k] ELSE roPend[k]

\* Mutant of SetPend: the r/o number is set for every request.
SetPendRO(r, k, s) ==
  /\ roPend' = IF s # NoSlot THEN [roPend EXCEPT ![k] = s] ELSE roPend
  /\ UNCHANGED rwPend

\* Add returned slot number s; 0 leaves the item as it was.
SetPend(r, k, s) ==
  /\ rwPend' = IF r \in WriteReqs /\ s # NoSlot THEN [rwPend EXCEPT ![k] = s]
               ELSE rwPend
  /\ roPend' = IF r \notin WriteReqs /\ s # NoSlot THEN [roPend EXCEPT ![k] = s]
               ELSE roPend

\* WT4File returns 0 ("added") whether or not RRQ.Add found a slot.
WT4File(r, n, k) ==
  /\ CacheUnlocked /\ life[k] = "cached"
  /\ Add(PendSlot(r, k), r, n, k)
  /\ SetPend(r, k, AddResult(PendSlot(r, k), r, k))
  /\ asked' = [asked EXCEPT ![r] = <<k, file[k]>>]
  /\ UNCHANGED <<hf, life, dispatch, file, said>>

-----------------------------------------------------------------------------
(* A server reports the file: AddFile and Dispatch.                        *)

\* RRQ.Ready on one of the item's slot numbers, which is then forgotten
\* unless the slot is held for more responders.
DispatchSlot(s, k, mask) ==
  /\ isReady < MaxPosts
  /\ IF s = NoSlot THEN UNCHANGED <<slotVars, semVars>> ELSE Ready(s, k, mask)

Forget(s, k) == IF s # NoSlot /\ ~ ReadyDone(s, k) THEN s ELSE NoSlot

\* do_Have from server v: the r/o slot is dispatched whoever reports.
AddFile(k, v) ==
  /\ CacheUnlocked /\ life[k] = "cached"
  /\ hf' = [hf EXCEPT ![k] = @ \cup {v}]
  /\ said' = said \cup {<<k, file[k], v>>}
  /\ DispatchSlot(roPend[k], k, hf'[k])
  /\ roPend' = [roPend EXCEPT ![k] = Forget(roPend[k], k)]
  /\ dispatch' = IF v \in RWServers THEN k ELSE NoItem
  /\ UNCHANGED <<respVars, timerPc, reqVars, tabVars, rwPend, life, file, asked>>

\* A report from an r/w server goes on to the r/w slot.
DispatchRW ==
  LET k == dispatch IN
  /\ k # NoItem
  /\ DispatchSlot(rwPend[k], k, hf[k])
  /\ rwPend' = [rwPend EXCEPT ![k] = Forget(rwPend[k], k)]
  /\ dispatch' = NoItem
  /\ UNCHANGED <<respVars, timerPc, reqVars, tabVars, roPend, hf, life, file, histVars>>

-----------------------------------------------------------------------------
QueueStep == (Redirector \/ Timer \/ Responder) /\ UNCHANGED <<itemVars, histVars>>

Scrubber == \E k \in Items : ScrubRO(k) \/ ScrubRW(k) \/ RecycleItem(k)

PendNext ==
  \/ \E k \in Items : AllocItem(k) \/ Refresh(k) \/ Removed(k) \/ Unload(k)
  \/ \E k \in Items, v \in Servers : Gone(k, v) \/ AddFile(k, v)
  \/ \E k \in Items, r \in Reqs, n \in Redirectors : WT4File(r, n, k)
  \/ DispatchRW \/ Scrubber \/ QueueStep

PendSpec == PendInit /\ [][PendNext]_pendVars

-----------------------------------------------------------------------------
(* Properties.                                                             *)

\* An answer names only servers that reported the very file the client asked
\* for: not a file that had the cache item before or after, whatever slot
\* numbers were left behind by time-outs and scrubbing.
AnswerAboutFile ==
  \A r \in Reqs : \A v \in reply[r].to : <<asked[r][1], asked[r][2], v>> \in said

\* A slot waiting for a file that is still cached can be found by the next
\* report: the item holds its number.  Without this the client would always
\* sit out the time-out.
WaitingIsFindable ==
  \A s \in waitQ : LET k == key[s] IN
    asked[info[s]] = <<k, file[k]>> /\ life[k] = "cached"
      => s \in {roPend[k], rwPend[k]}

\* XrdCmsCache.cc, AddFile: on an r/o location only the r/o callback is
\* dispatched.  A report by an r/o server readies no r/w request.
ROReportReadiesReads ==
  [][ (\E k \in Items, v \in Servers \ RWServers : AddFile(k, v))
        => \A s \in readyQ' \ readyQ : info[s] \notin WriteReqs ]_pendVars

\* XrdCmsCache.hh: WT4File "adds a request to the callback queue and returns a
\* 0 if added": a client that is told to expect an answer is in the queue.
WaitMeansQueued == \A r \in Reqs : state[r] # "refused"
=============================================================================
