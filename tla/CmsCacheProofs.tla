--------------------------- MODULE CmsCacheProofs ---------------------------
(***************************************************************************)
(* Proofs about the location cache, for any number of files, servers, tick *)
(* lists and bounces.                                                      *)
(*                                                                         *)
(* HistoryComplete is not inductive: it speaks of entries, and a vector    *)
(* outlives the entry it was computed for.  ClockInv says what a memorised *)
(* vector means by itself, and bounds the clocks by BClock.                *)
(* ExpiresOnTime is a statement about the next tick; WheelInv generalises  *)
(* it to all ticks ahead: the hand of the wheel passes an entry's list no  *)
(* later than its tick.                                                    *)
(***************************************************************************)
EXTENDS CmsCache, TLAPS

ClockInv ==
  /\ \A v \in Servers : Bounced[v] <= BClock
  /\ \A f \in Files : todB[f] <= BClock
  /\ \A v \in okVec : v <= vecHi
  /\ \A t \in Ticks : Bhistory[t].end <= BClock
  /\ \A t \in Ticks : Bhistory[t].end = BClock =>
       \A v \in okVec : Bhistory[t].start < Bounced[v] => v \in Bhistory[t].vec

\* Ticks until list t is emptied.
Ahead(t, now) == IF t > now THEN t - now - 1 ELSE t - now - 1 + TickRate

WheelInv == \A f \in loaded : Ahead(list[f], Tock) <= Ahead(tod[f], Tock)

CacheInv == CacheTypeOK /\ ClockInv /\ FreshUnlessSkipped /\ WheelInv

-----------------------------------------------------------------------------
\* Every operation of the cache keeps the types of its variables.
LEMMA CacheTypeStep ==
  ASSUME CacheTypeOK, [CacheNext]_cacheVars
  PROVE  CacheTypeOK'
<1> USE ServersAssumption, TickAssumption DEF CacheTypeOK, Ticks, Histories
<1>1. ASSUME NEW f \in Files, AddNew(f) PROVE CacheTypeOK'
  BY <1>1 DEF AddNew, Nullify, clockVars
<1>2. ASSUME NEW f \in Files, Refresh(f) PROVE CacheTypeOK'
  BY <1>2 DEF Refresh, Nullify, clockVars
<1>3. ASSUME NEW f \in Files, WT4File(f) PROVE CacheTypeOK'
  BY <1>3 DEF WT4File, clockVars, freshVars
<1>4. ASSUME NEW f \in Files, TimePasses(f) PROVE CacheTypeOK'
  BY <1>4 DEF TimePasses, clockVars, freshVars
<1>5. ASSUME NEW f \in Files, NEW v \in okVec, NEW keep \in BOOLEAN,
             AddFile(f, v, keep)
      PROVE CacheTypeOK'
  BY <1>5 DEF AddFile, clockVars
<1>6. ASSUME NEW f \in Files, NEW mask \in SUBSET Servers, GetFile(f, mask)
      PROVE CacheTypeOK'
  <2>1. BouncedSince(todB[f]) \in SUBSET Servers
    BY DEF BouncedSince
  <2>2. Bhistory' \in [Ticks -> Histories]
    BY <1>6, <2>1 DEF GetFile
  <2>3. skipped' \in [Files -> SUBSET Servers]
    BY <1>6, <2>1 DEF GetFile, getBVec
  <2>4. hf' \in [Files -> SUBSET Servers] /\ qf' \in [Files -> SUBSET Servers]
    BY <1>6 DEF GetFile
  <2>5. deadline' \in [Files -> {"none", "running", "over"}]
    BY <1>6 DEF GetFile
  <2> QED BY <1>6, <2>2, <2>3, <2>4, <2>5 DEF GetFile
<1>7. ASSUME NEW f \in Files, NEW mask \in SUBSET Servers, UnkFile(f, mask)
      PROVE CacheTypeOK'
  BY <1>7 DEF UnkFile, clockVars, freshVars
<1>8. ASSUME NEW f \in Files, NEW mask \in SUBSET Servers,
             NEW advisory \in BOOLEAN, DelFile(f, mask, advisory)
      PROVE CacheTypeOK'
  BY <1>8 DEF DelFile, clockVars
<1>9. ASSUME NEW v \in Servers, Bounce(v) PROVE CacheTypeOK'
  BY <1>9 DEF Bounce, Voided, entryVars
<1>10. ASSUME NEW v \in Servers, NEW hi \in Servers \cup {-1}, Drop(v, hi)
       PROVE CacheTypeOK'
  BY <1>10 DEF Drop, Voided, entryVars
<1>11. ASSUME TickTock PROVE CacheTypeOK'
  <2>1. NextTick \in Ticks
    BY DEF NextTick
  <2>2. Bhistory' \in [Ticks -> Histories]
    BY <1>11, <2>1 DEF TickTock
  <2>3. list' \in [Files -> Ticks] /\ loaded' \subseteq Files
    BY <1>11 DEF TickTock
  <2> QED BY <1>11, <2>1, <2>2, <2>3 DEF TickTock, freshVars
<1>12. ASSUME UNCHANGED cacheVars PROVE CacheTypeOK'
  BY <1>12 DEF cacheVars, entryVars, clockVars, freshVars
<1>13. ASSUME NEW f \in Files, EntryOp(f) PROVE CacheTypeOK'
  <2>1. ASSUME NEW v \in Servers, DelFile(f, {v}, TRUE) PROVE CacheTypeOK'
    BY <1>8, <2>1
  <2>2. ASSUME DelFile(f, Servers, FALSE) PROVE CacheTypeOK'
    BY <1>8, <2>2
  <2> QED
    BY ONLY <1>1, <1>2, <1>3, <1>4, <1>5, <1>6, <1>7, <1>13, <2>1, <2>2 DEF EntryOp
<1> QED
  BY ONLY <1>9, <1>10, <1>11, <1>12, <1>13, [CacheNext]_cacheVars
  DEF CacheNext, ServerOp

-----------------------------------------------------------------------------
\* No bounce, drop, look-up or tick makes a memorised vector incomplete.
LEMMA ClockStep ==
  ASSUME CacheTypeOK, CacheTypeOK', ClockInv, [CacheNext]_cacheVars
  PROVE  ClockInv'
<1> USE ServersAssumption, TickAssumption DEF CacheTypeOK, Ticks, Histories, ClockInv
<1>1. ASSUME NEW f \in Files, Nullify(f), UNCHANGED clockVars PROVE ClockInv'
  BY <1>1 DEF Nullify, clockVars
<1>2. ASSUME UNCHANGED clockVars, UNCHANGED todB PROVE ClockInv'
  BY <1>2 DEF clockVars
<1>3. ASSUME NEW f \in Files, NEW mask \in SUBSET Servers, GetFile(f, mask)
      PROVE ClockInv'
  <2>1. UNCHANGED <<okVec, Bounced, BClock, vecHi>>
    BY <1>3 DEF GetFile
  <2>2. \A g \in Files : todB'[g] <= BClock'
    BY <1>3 DEF GetFile
  <2>3. CASE Bhistory' = Bhistory
    BY <2>1, <2>2, <2>3
  <2>4. CASE Bhistory' = [Bhistory EXCEPT ![tod[f]] =
                            [vec |-> BouncedSince(todB[f]), start |-> todB[f],
                             end |-> BClock]]
    <3>1. tod[f] \in Ticks
      OBVIOUS
    <3>2. \A v \in okVec : todB[f] < Bounced[v] => v \in BouncedSince(todB[f])
      BY DEF BouncedSince
    <3>3. Bhistory'[tod[f]].end = BClock /\ Bhistory'[tod[f]].start = todB[f]
          /\ Bhistory'[tod[f]].vec = BouncedSince(todB[f])
      BY <2>4, <3>1
    <3>4. \A t \in Ticks : t # tod[f] => Bhistory'[t] = Bhistory[t]
      BY <2>4, <3>1
    <3>5. ASSUME NEW t \in Ticks PROVE Bhistory'[t].end <= BClock
      <4>1. CASE t = tod[f]
        <5>1. BClock \in Nat
          OBVIOUS
        <5> QED BY ONLY <3>3, <4>1, <5>1
      <4>2. CASE t # tod[f]
        BY <3>4, <4>2
      <4> QED BY <4>1, <4>2
    <3>6. ASSUME NEW t \in Ticks, Bhistory'[t].end = BClock, NEW v \in okVec,
                 Bhistory'[t].start < Bounced[v]
          PROVE v \in Bhistory'[t].vec
      <4>1. CASE t = tod[f]
        BY <3>2, <3>3, <3>6, <4>1
      <4>2. CASE t # tod[f]
        BY <3>4, <3>6, <4>2
      <4> QED BY <4>1, <4>2
    <3> QED BY <2>1, <2>2, <3>5, <3>6
  <2> QED BY <1>3, <2>3, <2>4 DEF GetFile
<1>4. ASSUME NEW v \in Servers, Bounce(v) PROVE ClockInv'
  BY <1>4 DEF Bounce, entryVars
<1>5. ASSUME NEW v \in Servers, NEW hi \in Servers \cup {-1}, Drop(v, hi)
      PROVE ClockInv'
  BY <1>5 DEF Drop, Covers, entryVars
<1>6. ASSUME TickTock PROVE ClockInv'
  <2>1. NextTick \in Ticks
    BY DEF NextTick
  <2>2. UNCHANGED <<okVec, Bounced, BClock, vecHi, todB>>
    BY <1>6 DEF TickTock
  <2>3. Bhistory'[NextTick].start = 0 /\ Bhistory'[NextTick].end = 0
    BY <1>6, <2>1 DEF TickTock
  <2>4. \A t \in Ticks : t # NextTick => Bhistory'[t] = Bhistory[t]
    BY <1>6, <2>1 DEF TickTock
  <2>5. ASSUME NEW t \in Ticks PROVE Bhistory'[t].end <= BClock
    <3>1. CASE t = NextTick
      <4>1. BClock \in Nat
        OBVIOUS
      <4> QED BY ONLY <2>3, <3>1, <4>1
    <3>2. CASE t # NextTick
      BY <2>4, <3>2
    <3> QED BY <3>1, <3>2
  <2>6. ASSUME NEW t \in Ticks, Bhistory'[t].end = BClock, NEW v \in okVec,
               Bhistory'[t].start < Bounced[v]
        PROVE v \in Bhistory'[t].vec
    <3>1. CASE t = NextTick
      <4>1. BClock = 0 /\ 0 < Bounced[v]
        BY ONLY <2>3, <2>6, <3>1
      <4>2. Bounced[v] <= BClock /\ Bounced[v] \in Nat
        OBVIOUS
      <4> QED BY ONLY <4>1, <4>2
    <3>2. CASE t # NextTick
      BY <2>4, <2>6, <3>2
    <3> QED BY <3>1, <3>2
  <2> QED BY <2>2, <2>5, <2>6
<1> QED
  BY <1>1, <1>2, <1>3, <1>4, <1>5, <1>6
  DEF CacheNext, EntryOp, ServerOp, cacheVars, entryVars, AddNew, Refresh,
      WT4File, TimePasses, AddFile, UnkFile, DelFile

-----------------------------------------------------------------------------
\* getBVec finds every valid server that bounced since the entry's clock.
LEMMA GetBVecComplete ==
  ASSUME CacheTypeOK, ClockInv, NEW f \in Files, NEW v \in okVec,
         todB[f] < Bounced[v]
  PROVE  v \in getBVec(f)
<1>1. tod[f] \in Ticks /\ v \in Servers
  BY DEF CacheTypeOK
<1>2. CASE Remembered(f)
  BY <1>1, <1>2 DEF Remembered, getBVec, ClockInv, CacheTypeOK, Histories
<1>3. CASE ~ Remembered(f)
  BY <1>1, <1>3 DEF getBVec, BouncedSince, ClockInv
<1> QED BY <1>2, <1>3

\* Only a report adds a location, and only GetFile advances an entry's clock.
LEMMA FreshStep ==
  ASSUME CacheTypeOK, CacheTypeOK', ClockInv, FreshUnlessSkipped,
         [CacheNext]_cacheVars
  PROVE  FreshUnlessSkipped'
<1> USE DEF FreshUnlessSkipped
<1>1. ASSUME NEW f \in Files, AddNew(f) PROVE FreshUnlessSkipped'
  BY <1>1 DEF AddNew, Nullify, clockVars, CacheTypeOK
<1>2. ASSUME NEW f \in Files, Refresh(f) PROVE FreshUnlessSkipped'
  BY <1>2 DEF Refresh, Nullify, clockVars, CacheTypeOK
<1>3. ASSUME UNCHANGED <<okVec, Bounced, hf, todB, fresh, skipped>>,
             loaded' \subseteq loaded
      PROVE FreshUnlessSkipped'
  BY <1>3
<1>4. ASSUME NEW f \in Files, NEW v \in okVec, NEW keep \in BOOLEAN,
             AddFile(f, v, keep)
      PROVE FreshUnlessSkipped'
  BY <1>4 DEF AddFile, clockVars, CacheTypeOK
<1>5. ASSUME NEW f \in Files, NEW mask \in SUBSET Servers, GetFile(f, mask)
      PROVE FreshUnlessSkipped'
  <2> SUFFICES ASSUME NEW g \in loaded', NEW v \in hf'[g] \cap okVec'
               PROVE v \in fresh'[g] \cup skipped'[g] \/ todB'[g] < Bounced'[v]
    OBVIOUS
  <2>1. UNCHANGED <<loaded, okVec, Bounced, fresh>> /\ g \in Files /\ v \in okVec
        /\ v \in Servers
    BY <1>5 DEF GetFile, CacheTypeOK
  <2>2. CASE g # f
    BY <1>5, <2>1, <2>2 DEF GetFile, CacheTypeOK
  <2>3. CASE g = f
    <3>1. v \in hf[f] /\ v \notin bVec(f, mask)
      BY <1>5, <2>1, <2>3 DEF GetFile, CacheTypeOK
    <3>2. skipped'[f] = skipped[f] \cup
                          (IF Outdated(f) THEN getBVec(f) \ mask ELSE {})
      BY <1>5 DEF GetFile, CacheTypeOK
    <3>3. CASE todB[f] < Bounced[v]
      <4>1. v \in getBVec(f)
        BY <2>1, <3>3, GetBVecComplete
      <4>2. Outdated(f)
        BY <2>1, <3>3 DEF Outdated, ClockInv, CacheTypeOK
      <4> QED BY <2>1, <2>3, <3>1, <3>2, <4>1, <4>2 DEF bVec
    <3>4. CASE ~ (todB[f] < Bounced[v])
      BY <2>1, <2>3, <3>1, <3>2, <3>4
    <3> QED BY <3>3, <3>4
  <2> QED BY <2>2, <2>3
<1>6. ASSUME NEW f \in Files, NEW mask \in SUBSET Servers,
             NEW advisory \in BOOLEAN, DelFile(f, mask, advisory)
      PROVE FreshUnlessSkipped'
  BY <1>6 DEF DelFile, clockVars, CacheTypeOK
<1>7. ASSUME NEW v \in Servers, Bounce(v) PROVE FreshUnlessSkipped'
  BY <1>7 DEF Bounce, Voided, entryVars, CacheTypeOK, ClockInv
<1>8. ASSUME NEW v \in Servers, NEW hi \in Servers \cup {-1}, Drop(v, hi)
      PROVE FreshUnlessSkipped'
  BY <1>8 DEF Drop, Voided, entryVars, CacheTypeOK
<1> QED
  BY <1>1, <1>2, <1>3, <1>4, <1>5, <1>6, <1>7, <1>8
  DEF CacheNext, EntryOp, ServerOp, cacheVars, entryVars, clockVars, freshVars,
      WT4File, TimePasses, UnkFile, TickTock

-----------------------------------------------------------------------------
\* The hand of the wheel reaches an entry's list before its tick.
LEMMA WheelStep ==
  ASSUME CacheTypeOK, CacheTypeOK', WheelInv, [CacheNext]_cacheVars
  PROVE  WheelInv'
<1> USE TickAssumption DEF WheelInv, Ahead, Ticks
<1>1. ASSUME NEW f \in Files, AddNew(f) PROVE WheelInv'
  BY <1>1 DEF AddNew, Nullify, clockVars, CacheTypeOK
<1>2. ASSUME NEW f \in Files, Refresh(f) PROVE WheelInv'
  BY <1>2 DEF Refresh, Nullify, clockVars, CacheTypeOK
<1>3. ASSUME UNCHANGED <<list, tod, Tock>>, loaded' \subseteq loaded PROVE WheelInv'
  BY <1>3
<1>4. ASSUME TickTock PROVE WheelInv'
  <2> SUFFICES ASSUME NEW f \in loaded'
               PROVE Ahead(list[f], Tock)' <= Ahead(tod[f], Tock)'
    OBVIOUS
  <2>1. f \in loaded /\ f \in Files /\ ~ (list[f] = NextTick /\ tod[f] = NextTick)
    BY <1>4 DEF TickTock, Expired, CacheTypeOK
  <2>2. tod'[f] = tod[f] /\ Tock' = NextTick
    BY <1>4 DEF TickTock
  <2>3. list'[f] = IF list[f] = NextTick THEN tod[f] ELSE list[f]
    BY <1>4, <2>1 DEF TickTock, CacheTypeOK
  <2>4. tod[f] \in Ticks /\ list[f] \in Ticks /\ Tock \in Ticks
    BY <2>1 DEF CacheTypeOK
  <2>5. CASE list[f] = NextTick
    BY <2>2, <2>3, <2>4, <2>5
  <2>6. CASE list[f] # NextTick
    BY <2>1, <2>2, <2>3, <2>4, <2>6 DEF NextTick
  <2> QED BY <2>5, <2>6
<1> QED
  BY <1>1, <1>2, <1>3, <1>4
  DEF CacheNext, EntryOp, ServerOp, cacheVars, entryVars, clockVars,
      WT4File, TimePasses, AddFile, GetFile, UnkFile, DelFile, Bounce, Drop

-----------------------------------------------------------------------------
\* The inductive invariant holds initially and is kept by every operation.
THEOREM CacheInvariance == CacheSpec => []CacheInv
<1>1. CacheInit => CacheInv
  BY ServersAssumption, TickAssumption
  DEF CacheInit, CacheInv, CacheTypeOK, ClockInv, FreshUnlessSkipped, WheelInv,
      Ticks, Histories, NoHistory
<1>2. CacheInv /\ [CacheNext]_cacheVars => CacheInv'
  BY CacheTypeStep, ClockStep, FreshStep, WheelStep DEF CacheInv
<1> QED BY <1>1, <1>2, PTL DEF CacheSpec

\* Type correctness of the location cache.
THEOREM CacheTypeCorrect == CacheSpec => []CacheTypeOK
<1>1. CacheInv => CacheTypeOK
  BY DEF CacheInv
<1> QED BY <1>1, CacheInvariance, PTL

\* A memorised bounce vector that getBVec would use hides no bounce.
THEOREM HistoryKept == CacheSpec => []HistoryComplete
<1>1. CacheInv => HistoryComplete
  BY DEF CacheInv, CacheTypeOK, ClockInv, HistoryComplete, Remembered, Histories
<1> QED BY <1>1, CacheInvariance, PTL

\* Locations that predate their server's bounce survive only if GetFile was
\* called with a mask that did not have the server.
THEOREM LocationsFresh == CacheSpec => []FreshUnlessSkipped
<1>1. CacheInv => FreshUnlessSkipped
  BY DEF CacheInv
<1> QED BY <1>1, CacheInvariance, PTL

\* Every entry is unloaded when its tick comes round.
THEOREM EntriesExpire == CacheSpec => []ExpiresOnTime
<1>1. CacheInv => ExpiresOnTime
  BY TickAssumption DEF CacheInv, CacheTypeOK, WheelInv, Ahead, ExpiresOnTime,
                        NextTick, Ticks
<1> QED BY <1>1, CacheInvariance, PTL
=============================================================================
