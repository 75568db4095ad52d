------------------------------ MODULE CmsCache ------------------------------
(***************************************************************************)
(* The location cache of the cluster manager (XrdCmsCache over             *)
(* XrdCmsKeyItem): for every file that was asked for, which servers have   *)
(* it, and how far that knowledge can be trusted.                          *)
(*                                                                         *)
(* Nobody walks the cache when a server bounces.  A bounce only stamps the *)
(* server with the bounce clock; every entry carries the clock it was last *)
(* brought up to date at, and GetFile drops what the servers stamped since *)
(* then have said.  The vector of those servers is memorised per tick of   *)
(* the entry's life (Bhistory), so that it is seldom computed.  Entries    *)
(* live for one turn of a wheel of TickRate tick lists; a refresh only     *)
(* changes the tick in the entry and leaves it in the old tick's list.     *)
(*                                                                         *)
(* Every operation is one region of the cache mutex, called here with any  *)
(* argument at any time.  CmsLocate adds the callers and CmsPending the    *)
(* requests parked at an entry.  Shared-nothing servers only.              *)
(***************************************************************************)
EXTENDS Integers

CONSTANTS
  Files,      \* paths
  Servers,    \* node numbers: NodeID is the bit number of NodeMask
  TickRate,   \* tick lists (64 in the code)
  NilTMO,     \* fxhold noloc given: entries without location may expire
  MaxBounces  \* bound: value of the bounce clock

ASSUME ServersAssumption == Servers \subseteq Nat
ASSUME TickAssumption == TickRate \in Nat \ {0}
ASSUME LimitAssumption == NilTMO \in BOOLEAN /\ MaxBounces \in Nat

VARIABLES
  loaded,     \* files that have an entry that can be found
  hf, qf,     \* file -> Loc.hfvec, Loc.qfvec
  deadline,   \* file -> "none" (0), "running" or "over" (not after time(0))
  todB,       \* file -> Loc.TOD_B
  tod, list,  \* file -> Key.TOD, and the tick list the entry is linked in
  okVec, Bounced, BClock, vecHi, Bhistory, Tock,
  fresh,      \* file -> servers that reported it after they last bounced
  skipped     \* file -> servers whose bounce a GetFile call passed over

entryVars == <<loaded, hf, qf, deadline, todB, tod, list>>
clockVars == <<okVec, Bounced, BClock, vecHi, Bhistory, Tock>>
freshVars == <<fresh, skipped>>
cacheVars == <<entryVars, clockVars, freshVars>>

Ticks == 0 .. TickRate - 1
NoHistory == [vec |-> {}, start |-> 0, end |-> 0]
Histories == [vec : SUBSET Servers, start : Nat, end : Nat]

CacheTypeOK ==
  /\ loaded \subseteq Files
  /\ hf \in [Files -> SUBSET Servers] /\ qf \in [Files -> SUBSET Servers]
  /\ deadline \in [Files -> {"none", "running", "over"}]
  /\ todB \in [Files -> Nat]
  /\ tod \in [Files -> Ticks] /\ list \in [Files -> Ticks]
  /\ okVec \subseteq Servers
  /\ Bounced \in [Servers -> Nat]
  /\ BClock \in Nat /\ vecHi \in Nat \cup {-1}
  /\ Bhistory \in [Ticks -> Histories]
  /\ Tock \in Ticks
  /\ fresh \in [Files -> SUBSET Servers] /\ skipped \in [Files -> SUBSET Servers]

CacheInit ==
  /\ loaded = {}
  /\ hf = [f \in Files |-> {}] /\ qf = [f \in Files |-> {}]
  /\ deadline = [f \in Files |-> "none"]
  /\ todB = [f \in Files |-> 0]
  /\ tod = [f \in Files |-> 0] /\ list = [f \in Files |-> 0]
  /\ okVec = {} /\ Bounced = [v \in Servers |-> 0] /\ BClock = 0 /\ vecHi = -1
  /\ Bhistory = [t \in Ticks |-> NoHistory]
  /\ Tock = 0
  /\ fresh = [f \in Files |-> {}] /\ skipped = [f \in Files |-> {}]

-----------------------------------------------------------------------------
(* Entries.                                                                *)

\* AddFile with no mask, for a path not in the cache (AddNew) or to refresh
\* an entry: nothing is known and the deadline runs.
Nullify(f) ==
  /\ hf' = [hf EXCEPT ![f] = {}]
  /\ qf' = [qf EXCEPT ![f] = {}]
  /\ deadline' = [deadline EXCEPT ![f] = "running"]
  /\ todB' = [todB EXCEPT ![f] = BClock]
  /\ tod' = [tod EXCEPT ![f] = Tock]
  /\ fresh' = [fresh EXCEPT ![f] = {}]
  /\ skipped' = [skipped EXCEPT ![f] = {}]

\* XrdCmsKeyItem::Alloc links the new entry into the current tick's list.
AddNew(f) ==
  /\ f \notin loaded
  /\ Nullify(f)
  /\ loaded' = loaded \cup {f}
  /\ list' = [list EXCEPT ![f] = Tock]
  /\ UNCHANGED clockVars

Refresh(f) == f \in loaded /\ Nullify(f) /\ UNCHANGED <<loaded, list, clockVars>>

\* AddFile with server v's bit.  The deadline is kept when v is r/o and an
\* r/w request waits (keep).
AddFile(f, v, keep) ==
  /\ f \in loaded
  /\ hf' = [hf EXCEPT ![f] = @ \cup {v}]
  /\ qf' = [qf EXCEPT ![f] = @ \ {v}]
  /\ deadline' = IF keep THEN deadline ELSE [deadline EXCEPT ![f] = "none"]
  /\ fresh' = [fresh EXCEPT ![f] = @ \cup {v}]
  /\ skipped' = [skipped EXCEPT ![f] = @ \ {v}]
  /\ UNCHANGED <<loaded, todB, tod, list, clockVars>>

\* DelFile for the servers in mask.  Only when no location is left, the call
\* is not advisory and the entry is in the list of its tick, it is removed.
DelFile(f, mask, advisory) ==
  /\ f \in loaded
  /\ hf' = [hf EXCEPT ![f] = @ \ mask]
  /\ loaded' = IF hf'[f] = {} /\ ~ advisory /\ list[f] = tod[f]
               THEN loaded \ {f} ELSE loaded
  /\ fresh' = [fresh EXCEPT ![f] = @ \ mask]
  /\ UNCHANGED <<qf, deadline, todB, tod, list, clockVars, skipped>>

-----------------------------------------------------------------------------
(* Looking an entry up.                                                    *)

\* Servers that bounced since the entry was brought up to date.
BouncedSince(t) == {v \in Servers : v <= vecHi /\ t < Bounced[v]}

\* Mutant of Remembered: any vector computed at this bounce clock will do.
RememberedAnyStart(f) == Bhistory[tod[f]].end = BClock

\* The vector of this tick can be used for the entry.
Remembered(f) ==
  /\ Bhistory[tod[f]].end = BClock
  /\ Bhistory[tod[f]].start <= todB[f]

\* getBVec: advances the entry's clock in either case.
getBVec(f) == IF Remembered(f) THEN Bhistory[tod[f]].vec ELSE BouncedSince(todB[f])

Outdated(f) == todB[f] < BClock

\* The bounced servers GetFile takes notice of.
bVec(f, mask) == IF Outdated(f) THEN getBVec(f) \cap mask ELSE {}

\* The values GetFile may return for an entry: -1 while a query is in
\* progress.  Whether the lifeline of an empty entry is over depends on time.
GetRC(f, mask) ==
  IF bVec(f, mask) # {} \/ deadline[f] = "running" THEN {-1}
  ELSE IF NilTMO /\ hf[f] = {} THEN {0, 1} ELSE {1}

\* What GetFile reports: Vec.hf and Vec.bf, the servers to ask.
GotHf(f, mask) == okVec \cap (hf[f] \ bVec(f, mask))
GotBf(f, mask) ==
  okVec \cap IF bVec(f, mask) = {} THEN qf[f] ELSE bVec(f, mask) \cup (qf[f] \ mask)

GetFile(f, mask) ==
  LET b == bVec(f, mask) IN
  /\ f \in loaded
  /\ hf' = [hf EXCEPT ![f] = @ \ b]
  /\ qf' = [qf EXCEPT ![f] = {}]
  /\ deadline' = [deadline EXCEPT ![f] = IF b # {} THEN "running"
                                         ELSE IF @ = "over" THEN "none" ELSE @]
  /\ Bhistory' = IF Outdated(f) /\ ~ Remembered(f)
                 THEN [Bhistory EXCEPT ![tod[f]] =
                         [vec |-> BouncedSince(todB[f]), start |-> todB[f],
                          end |-> BClock]]
                 ELSE Bhistory
  /\ todB' = [todB EXCEPT ![f] = BClock]
  /\ skipped' = [skipped EXCEPT ![f] =
                   @ \cup (IF Outdated(f) THEN getBVec(f) \ mask ELSE {})]
  /\ UNCHANGED <<loaded, tod, list, okVec, Bounced, BClock, vecHi, Tock, fresh>>

\* UnkFile: the servers that could not be asked.
UnkFile(f, mask) ==
  /\ f \in loaded
  /\ qf' = [qf EXCEPT ![f] = mask]
  /\ UNCHANGED <<loaded, hf, deadline, todB, tod, list, clockVars, freshVars>>

\* WT4File: a request that starts to wait renews a deadline that is over.
WT4File(f) ==
  /\ f \in loaded
  /\ deadline' = [deadline EXCEPT ![f] = IF @ = "over" THEN "running" ELSE @]
  /\ UNCHANGED <<loaded, hf, qf, todB, tod, list, clockVars, freshVars>>

-----------------------------------------------------------------------------
(* Servers and time.                                                       *)

\* A bounce voids every report of the server.
Voided(v) == fresh' = [f \in Files |-> fresh[f] \ {v}]

\* Mutant of Bounce: the clock is read, not advanced.
BounceSameClock(v) ==
  /\ BClock < MaxBounces
  /\ Bounced' = [Bounced EXCEPT ![v] = BClock]
  /\ okVec' = okVec \cup {v}
  /\ vecHi' = IF v > vecHi THEN v ELSE vecHi
  /\ Voided(v)
  /\ UNCHANGED <<entryVars, BClock, Bhistory, Tock, skipped>>

Bounce(v) ==
  /\ BClock < MaxBounces
  /\ BClock' = BClock + 1
  /\ Bounced' = [Bounced EXCEPT ![v] = BClock + 1]
  /\ okVec' = okVec \cup {v}
  /\ vecHi' = IF v > vecHi THEN v ELSE vecHi
  /\ Voided(v)
  /\ UNCHANGED <<entryVars, Bhistory, Tock, skipped>>

\* The node table's high-water mark: no valid server lies above it.
Covers(hi, vec) == hi >= -1 /\ \A v \in vec : v <= hi

Drop(v, xHi) ==
  /\ v \in okVec /\ Covers(xHi, okVec \ {v})
  /\ Bounced' = [Bounced EXCEPT ![v] = 0]
  /\ okVec' = okVec \ {v}
  /\ vecHi' = xHi
  /\ Voided(v)
  /\ UNCHANGED <<entryVars, BClock, Bhistory, Tock, skipped>>

\* Mutant of NextTick: the tick is not masked.
NextTickNoMask == Tock + 1

NextTick == IF Tock = TickRate - 1 THEN 0 ELSE Tock + 1

\* Entries of list t whose tick is t; the others move to the right list.
Expired(t) == {f \in loaded : list[f] = t /\ tod[f] = t}

\* Mutant of TickTock: entries of another tick stay in the list.
TickTockNoMove ==
  /\ Tock' = NextTick
  /\ Bhistory' = [Bhistory EXCEPT ![NextTick] =
                     [vec |-> @.vec, start |-> 0, end |-> 0]]
  /\ loaded' = loaded \ Expired(NextTick)
  /\ UNCHANGED <<hf, qf, deadline, todB, tod, list, okVec, Bounced, BClock,
                 vecHi, freshVars>>

TickTock ==
  /\ Tock' = NextTick
  /\ Bhistory' = [Bhistory EXCEPT ![NextTick] =
                     [vec |-> @.vec, start |-> 0, end |-> 0]]
  /\ loaded' = loaded \ Expired(NextTick)
  /\ list' = [f \in Files |-> IF f \in loaded /\ list[f] = NextTick
                              THEN tod[f] ELSE list[f]]
  /\ UNCHANGED <<hf, qf, deadline, todB, tod, okVec, Bounced, BClock, vecHi,
                 freshVars>>

TimePasses(f) ==
  /\ f \in loaded /\ deadline[f] = "running"
  /\ deadline' = [deadline EXCEPT ![f] = "over"]
  /\ UNCHANGED <<loaded, hf, qf, todB, tod, list, clockVars, freshVars>>

-----------------------------------------------------------------------------
EntryOp(f) ==
  \/ AddNew(f) \/ Refresh(f) \/ WT4File(f) \/ TimePasses(f)
  \/ \E v \in okVec, keep \in BOOLEAN : AddFile(f, v, keep)
  \/ \E mask \in SUBSET Servers : GetFile(f, mask) \/ UnkFile(f, mask)
  \/ \E v \in Servers : DelFile(f, {v}, TRUE)
  \/ DelFile(f, Servers, FALSE)

ServerOp(v) == Bounce(v) \/ \E hi \in Servers \cup {-1} : Drop(v, hi)

CacheNext ==
  \/ \E f \in Files : EntryOp(f)
  \/ \E v \in Servers : ServerOp(v)
  \/ TickTock

CacheSpec == CacheInit /\ [][CacheNext]_cacheVars

-----------------------------------------------------------------------------
(* Properties.                                                             *)

\* The memorised vector never hides a bounce: whenever getBVec would use it
\* for an entry, it holds every valid server that bounced since the entry was
\* brought up to date, whatever bounced, was dropped or expired in between.
HistoryComplete ==
  \A f \in loaded :
    Remembered(f) => {v \in okVec : todB[f] < Bounced[v]} \subseteq Bhistory[tod[f]].vec

\* A location that GetFile would still hand out was reported after the server
\* last bounced.  The only exception are servers that were missing from the
\* mask of the GetFile call that consumed their bounce.
FreshUnlessSkipped ==
  \A f \in loaded : \A v \in hf[f] \cap okVec :
    v \in fresh[f] \cup skipped[f] \/ todB[f] < Bounced[v]

\* An entry is in the list of its tick when that tick comes, however often it
\* was refreshed, so that it is unloaded after one turn and never later.
ExpiresOnTime ==
  \A f \in loaded : tod[f] = NextTick => list[f] = tod[f]
=============================================================================
