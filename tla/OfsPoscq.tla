------------------------------ MODULE OfsPoscq ------------------------------
(***************************************************************************)
(* Files that persist only if they are closed (POSC), across crashes of    *)
(* the data server: the queue of unfinished files on disk (XrdOfsPoscq),   *)
(* what open, close and a broken connection do with it (XrdOfsFile), and   *)
(* the recovery at the next start (XrdOfsConfig::ConfigPosc).              *)
(*                                                                         *)
(* The queue file has slots of a fixed size; a record in a slot names a    *)
(* file and says whether its open was completed.  Locks, links and the     *)
(* expiring thread are in OfsHandle: here each path has at most one handle *)
(* and one open in progress.  A crash keeps what was written.              *)
(***************************************************************************)
EXTENDS Naturals, Sequences, FiniteSets, Functions

CONSTANTS
  Paths, NoPath,
  MaxSlots,     \* bound: slots of the queue file
  MaxCrashes,   \* bound
  MaxErrors     \* bound: write errors

ASSUME PoscAssumption ==
  /\ NoPath \notin Paths
  /\ MaxSlots \in Nat /\ MaxCrashes \in Nat /\ MaxErrors \in Nat

Slots == 1 .. MaxSlots

VARIABLES
  file,         \* path -> "none", "part" (created, not closed) or "whole"
  rec,          \* slot -> record on disk: LFN, and addT # 0
  pocSZ, SlotList, pqMap,       \* slots in the file, free ones, path -> slot
  hand,         \* path -> state of its handle
  Unum,         \* path -> the handle's slot, Posc->Unum
  ssi,          \* path -> the handle's storage file: "none" is open, the one
                \* that is named so ("named"), or one that is removed ("gone")
  opc, poscNum, \* path -> its open in progress: where it is, and its slot
  up, todo,     \* the server, and the records it still has to recover
  told,         \* path -> a close has succeeded, no open since then
  clash,        \* history: a write failed, or one user of a file was done
                \* with it while another had it open or was opening it
  crashes, errors

diskVars == <<file, rec>>
queueVars == <<pocSZ, SlotList, pqMap>>
handVars == <<hand, Unum, ssi>>
openVars == <<opc, poscNum>>
runVars == <<up, todo, crashes, errors>>
histVars == <<told, clash>>
poscVars == <<diskVars, queueVars, handVars, openVars, runVars, histVars>>

Empty == [LFN |-> NoPath, addT |-> FALSE]

PoscTypeOK ==
  /\ file \in [Paths -> {"none", "part", "whole"}]
  /\ rec \in [Slots -> [LFN : Paths \cup {NoPath}, addT : BOOLEAN]]
  /\ pocSZ \in 0 .. MaxSlots /\ SlotList \in Seq(Slots)
  /\ pqMap \in [Paths -> 0 .. MaxSlots]
  /\ hand \in [Paths -> {"none", "locked", "open", "failed", "closing", "held", "expired"}]
  /\ Unum \in [Paths -> 0 .. MaxSlots] /\ ssi \in [Paths -> {"none", "named", "gone"}]
  /\ opc \in [Paths -> {"idle", "added", "created", "attached", "removed"}]
  /\ poscNum \in [Paths -> 0 .. MaxSlots]
  /\ up \in {"down", "recover", "up"} /\ todo \in Seq(Slots)
  /\ told \in [Paths -> BOOLEAN] /\ clash \in BOOLEAN
  /\ crashes \in 0 .. MaxCrashes /\ errors \in 0 .. MaxErrors

\* A first start: the queue file is new.
PoscInit ==
  /\ file = [p \in Paths |-> "none"] /\ rec = [n \in Slots |-> Empty]
  /\ pocSZ = 0 /\ SlotList = << >> /\ pqMap = [p \in Paths |-> 0]
  /\ hand = [p \in Paths |-> "none"] /\ Unum = [p \in Paths |-> 0]
  /\ ssi = [p \in Paths |-> "none"]
  /\ opc = [p \in Paths |-> "idle"] /\ poscNum = [p \in Paths |-> 0]
  /\ up = "up" /\ todo = << >> /\ told = [p \in Paths |-> FALSE]
  /\ clash = FALSE
  /\ crashes = 0 /\ errors = 0

-----------------------------------------------------------------------------
\* Mutant: the slot is free but the record stays.
DelNoWipe(p, n) ==
  /\ SlotList' = <<n>> \o SlotList
  /\ pqMap' = [pqMap EXCEPT ![p] = 0]
  /\ UNCHANGED <<rec, pocSZ>>

\* Del, after the file was removed if it had to be: the record is wiped and
\* the slot is free.  VerOffset accepts any slot there is.
Del(p, n) ==
  /\ rec' = [rec EXCEPT ![n] = Empty]
  /\ SlotList' = <<n>> \o SlotList
  /\ pqMap' = [pqMap EXCEPT ![p] = 0]
  /\ UNCHANGED pocSZ

\* Removing the file by its name; a handle keeps what it has open.
Unlink(p) ==
  /\ file' = [file EXCEPT ![p] = "none"]
  /\ ssi' = [ssi EXCEPT ![p] = IF @ = "named" THEN "gone" ELSE @]

\* Attaching a handle opens its storage unless it is open.
Attach(p) ==
  /\ ssi[p] = "none" => file[p] # "none"
  /\ ssi' = [ssi EXCEPT ![p] = IF @ = "none" THEN "named" ELSE @]

Clash(c) == clash' = (clash \/ c)

\* Bound: after a clash no file is created any more.
Bounded == ~clash

\* Add: an existing file that is in the map keeps its slot, another one gets
\* a free slot or a new one.
OpenAdd(p) ==
  /\ up = "up" /\ opc[p] = "idle" /\ Bounded
  /\ opc' = [opc EXCEPT ![p] = "added"]
  /\ told' = [told EXCEPT ![p] = FALSE]
  /\ IF file[p] # "none" /\ pqMap[p] # 0
     THEN /\ poscNum' = [poscNum EXCEPT ![p] = pqMap[p]]
          /\ UNCHANGED <<rec, queueVars>>
     ELSE LET n == IF SlotList = << >> THEN pocSZ + 1 ELSE Head(SlotList)
          IN /\ n \in Slots
             /\ rec' = [rec EXCEPT ![n] = [LFN |-> p, addT |-> FALSE]]
             /\ SlotList' = IF SlotList = << >> THEN << >> ELSE Tail(SlotList)
             /\ pocSZ' = IF SlotList = << >> THEN n ELSE pocSZ
             /\ pqMap' = [pqMap EXCEPT ![p] = n]
             /\ poscNum' = [poscNum EXCEPT ![p] = n]
  /\ UNCHANGED <<file, handVars, runVars, clash>>

\* The storage creates the file or truncates the one there is.
OpenCreate(p) ==
  /\ up = "up" /\ opc[p] = "added"
  /\ opc' = [opc EXCEPT ![p] = "created"]
  /\ file' = [file EXCEPT ![p] = "part"]
  /\ UNCHANGED <<rec, queueVars, handVars, poscNum, runVars, histVars>>

\* The open fails, before or after the file was created: ~OpenHelper removes
\* the file and then its record.
OpenFails(p) ==
  /\ up = "up" /\ opc[p] \in {"added", "created"}
  /\ opc' = [opc EXCEPT ![p] = "removed"]
  /\ Unlink(p) /\ Clash(hand[p] # "none")
  /\ UNCHANGED <<rec, queueVars, hand, Unum, poscNum, runVars, told>>

\* Mutant: the number is cleared before it is used.
OpenDelCleared(p) ==
  /\ up = "up" /\ opc[p] = "removed"
  /\ Del(p, 0)
  /\ opc' = [opc EXCEPT ![p] = "idle"] /\ poscNum' = [poscNum EXCEPT ![p] = 0]
  /\ UNCHANGED <<file, handVars, runVars, histVars>>

OpenDel(p) ==
  /\ up = "up" /\ opc[p] = "removed"
  /\ Del(p, poscNum[p])
  /\ opc' = [opc EXCEPT ![p] = "idle"] /\ poscNum' = [poscNum EXCEPT ![p] = 0]
  /\ UNCHANGED <<file, handVars, runVars, histVars>>

\* A new handle opens the file.
OpenNew(p) ==
  /\ up = "up" /\ opc[p] = "created" /\ hand[p] = "none"
  /\ Attach(p)
  /\ opc' = [opc EXCEPT ![p] = "attached"]
  /\ hand' = [hand EXCEPT ![p] = "locked"]
  /\ Unum' = [Unum EXCEPT ![p] = poscNum[p]]
  /\ UNCHANGED <<diskVars, queueVars, poscNum, runVars, histVars>>

\* Mutant: the new record is deleted instead of the old one.
OpenAttachWrong(p) ==
  /\ up = "up" /\ opc[p] = "created" /\ hand[p] \in {"open", "held"}
  /\ Attach(p)
  /\ opc' = [opc EXCEPT ![p] = "attached"]
  /\ hand' = [hand EXCEPT ![p] = "locked"]
  /\ Unum' = [Unum EXCEPT ![p] = poscNum[p]]
  /\ IF Unum[p] # poscNum[p] THEN Del(p, poscNum[p]) ELSE UNCHANGED <<rec, queueVars>>
  /\ UNCHANGED <<file, poscNum, runVars, histVars>>

\* A handle that is there is attached as it is; PoscSet gives back the slot
\* it had, whose record is not needed any more.
OpenAttach(p) ==
  /\ up = "up" /\ opc[p] = "created" /\ hand[p] \in {"open", "held"}
  /\ Attach(p)
  /\ opc' = [opc EXCEPT ![p] = "attached"]
  /\ hand' = [hand EXCEPT ![p] = "locked"]
  /\ Unum' = [Unum EXCEPT ![p] = poscNum[p]]
  /\ IF Unum[p] # poscNum[p] THEN Del(p, Unum[p]) ELSE UNCHANGED <<rec, queueVars>>
  /\ UNCHANGED <<file, poscNum, runVars, histVars>>

\* Commit: the record is complete and leaves the map.
OpenCommit(p) ==
  /\ up = "up" /\ opc[p] = "attached"
  /\ rec' = [rec EXCEPT ![poscNum[p]].addT = TRUE]
  /\ pqMap' = [pqMap EXCEPT ![p] = 0]
  /\ hand' = [hand EXCEPT ![p] = "open"]
  /\ opc' = [opc EXCEPT ![p] = "idle"] /\ poscNum' = [poscNum EXCEPT ![p] = 0]
  /\ UNCHANGED <<file, pocSZ, SlotList, Unum, ssi, runVars, histVars>>

-----------------------------------------------------------------------------
\* close: the file gets its final mode, then its record is deleted.
CloseMode(p) ==
  /\ up = "up" /\ hand[p] = "open"
  /\ hand' = [hand EXCEPT ![p] = "closing"]
  /\ file' = [file EXCEPT ![p] = IF ssi[p] = "named" THEN "whole" ELSE @]
  /\ Clash(opc[p] # "idle")
  /\ UNCHANGED <<rec, queueVars, Unum, ssi, openVars, runVars, told>>

\* Mutant: the record of a closed file is not deleted.
CloseDelNot(p) ==
  /\ up = "up" /\ hand[p] = "closing"
  /\ hand' = [hand EXCEPT ![p] = "none"] /\ Unum' = [Unum EXCEPT ![p] = 0]
  /\ ssi' = [ssi EXCEPT ![p] = "none"]
  /\ told' = [told EXCEPT ![p] = opc[p] = "idle"]
  /\ Clash(opc[p] # "idle")
  /\ UNCHANGED <<diskVars, queueVars, openVars, runVars>>

CloseDel(p) ==
  /\ up = "up" /\ hand[p] = "closing"
  /\ Del(p, Unum[p])
  /\ hand' = [hand EXCEPT ![p] = "none"] /\ Unum' = [Unum EXCEPT ![p] = 0]
  /\ ssi' = [ssi EXCEPT ![p] = "none"]
  /\ told' = [told EXCEPT ![p] = opc[p] = "idle"]
  /\ Clash(opc[p] # "idle")
  /\ UNCHANGED <<file, openVars, runVars>>

\* A write fails: the file is unpersisted at once, the handle stays open.
WriteFails(p) ==
  /\ up = "up" /\ hand[p] = "open" /\ errors < MaxErrors
  /\ errors' = errors + 1
  /\ Unlink(p) /\ Clash(TRUE)
  /\ hand' = [hand EXCEPT ![p] = "failed"]
  /\ UNCHANGED <<rec, queueVars, Unum, openVars, up, todo, crashes, told>>

FailDel(p) ==
  /\ up = "up" /\ hand[p] = "failed"
  /\ Del(p, Unum[p])
  /\ hand' = [hand EXCEPT ![p] = "open"]
  /\ UNCHANGED <<file, Unum, ssi, openVars, runVars, histVars>>

\* The connection breaks, and the client comes back in time, or the hold time
\* passes: Unpersist removes the file and then its record.
Drop(p) ==
  /\ up = "up" /\ hand[p] = "open"
  /\ hand' = [hand EXCEPT ![p] = "held"]
  /\ UNCHANGED <<diskVars, queueVars, Unum, ssi, openVars, runVars, histVars>>

Reopen(p) ==
  /\ up = "up" /\ hand[p] = "held" /\ opc[p] = "idle"
  /\ Attach(p)
  /\ hand' = [hand EXCEPT ![p] = "open"]
  /\ UNCHANGED <<diskVars, queueVars, Unum, openVars, runVars, histVars>>

Expire(p) ==
  /\ up = "up" /\ hand[p] = "held"
  /\ Unlink(p) /\ Clash(opc[p] # "idle")
  /\ hand' = [hand EXCEPT ![p] = "expired"]
  /\ UNCHANGED <<rec, queueVars, Unum, openVars, runVars, told>>

ExpireDel(p) ==
  /\ up = "up" /\ hand[p] = "expired"
  /\ Del(p, Unum[p])
  /\ hand' = [hand EXCEPT ![p] = "none"] /\ Unum' = [Unum EXCEPT ![p] = 0]
  /\ ssi' = [ssi EXCEPT ![p] = "none"]
  /\ Clash(opc[p] # "idle")
  /\ UNCHANGED <<file, openVars, runVars, told>>

-----------------------------------------------------------------------------
Crash ==
  /\ up # "down" /\ crashes < MaxCrashes
  /\ up' = "down" /\ crashes' = crashes + 1
  /\ todo' = << >> /\ SlotList' = << >> /\ pocSZ' = 0
  /\ pqMap' = [p \in Paths |-> 0]
  /\ hand' = [p \in Paths |-> "none"] /\ Unum' = [p \in Paths |-> 0]
  /\ ssi' = [p \in Paths |-> "none"]
  /\ opc' = [p \in Paths |-> "idle"] /\ poscNum' = [p \in Paths |-> 0]
  /\ UNCHANGED <<diskVars, histVars, errors>>

\* Init and ReWrite: the records of files that exist, last one first, make up
\* the new queue file, which replaces the old one in one step.
Restart ==
  LET live == {n \in Slots : rec[n].LFN # NoPath /\ file[rec[n].LFN] # "none"}
      sz == Cardinality(live)
  IN /\ up = "down" /\ up' = "recover"
     /\ \E keep \in Bijection(1 .. sz, live) :
          /\ \A i, j \in 1 .. sz : i < j => keep[i] > keep[j]
          /\ rec' = [n \in Slots |-> IF n <= sz THEN rec[keep[n]] ELSE Empty]
          /\ pqMap' = [p \in Paths |->
               LET its == {n \in 1 .. sz : rec[keep[n]].LFN = p}
               IN IF its = {} THEN 0 ELSE CHOOSE n \in its : \A m \in its : m <= n]
     /\ pocSZ' = sz /\ todo' = [n \in 1 .. sz |-> n]
     /\ UNCHANGED <<file, SlotList, handVars, openVars, histVars, crashes, errors>>

\* Mutant: the file of a completed open is left alone.
RecoverNoHold ==
  /\ up = "recover" /\ todo # << >>
  /\ todo' = Tail(todo)
  /\ UNCHANGED <<diskVars, queueVars, handVars, openVars, histVars, up, crashes, errors>>

\* ConfigPosc: a completed open gets a handle that waits for the client; the
\* file of another one is removed.
Recover ==
  LET n == Head(todo)
      p == rec[n].LFN
  IN /\ up = "recover" /\ todo # << >>
     /\ todo' = Tail(todo)
     /\ IF rec[n].addT
        THEN /\ hand' = [hand EXCEPT ![p] = "held"]
             /\ Unum' = [Unum EXCEPT ![p] = n]
             /\ UNCHANGED <<diskVars, queueVars, ssi>>
        ELSE /\ Unlink(p) /\ Del(p, n)
             /\ UNCHANGED <<hand, Unum>>
     /\ UNCHANGED <<openVars, histVars, up, crashes, errors>>

Ready ==
  /\ up = "recover" /\ todo = << >> /\ up' = "up"
  /\ UNCHANGED <<diskVars, queueVars, handVars, openVars, todo, histVars, crashes, errors>>

-----------------------------------------------------------------------------
\* What the server does on its own; clients and crashes are free.
ServerStep(p) ==
  \/ OpenCreate(p) \/ OpenFails(p) \/ OpenDel(p) \/ OpenNew(p) \/ OpenAttach(p)
  \/ OpenCommit(p) \/ CloseDel(p) \/ FailDel(p) \/ ExpireDel(p)

PoscNext ==
  \/ \E p \in Paths :
       \/ OpenAdd(p) \/ ServerStep(p) \/ CloseMode(p) \/ WriteFails(p)
       \/ Drop(p) \/ Reopen(p) \/ Expire(p)
  \/ Crash \/ Restart \/ Recover \/ Ready

PoscSpec == PoscInit /\ [][PoscNext]_poscVars

\* The server is started again and runs, and hold times end.
PoscFairness ==
  /\ WF_poscVars(Restart) /\ WF_poscVars(Recover) /\ WF_poscVars(Ready)
  /\ \A p \in Paths : WF_poscVars(ServerStep(p)) /\ WF_poscVars(Expire(p))

FairPoscSpec == PoscSpec /\ PoscFairness

-----------------------------------------------------------------------------
\* A file that nobody has closed is on record on disk from before it exists
\* until after it is gone, so that the next start finds it.
PartRecorded ==
  ~clash => \A p \in Paths : file[p] = "part" => \E n \in Slots : rec[n].LFN = p

\* "Persist file on successful close": once a client has been told that its
\* file is closed, the file is there and complete, through any number of
\* crashes and recoveries, until somebody creates it anew.
PersistsOnClose == \A p \in Paths : told[p] => file[p] = "whole"

\* It is so as long as the users of a file have not been at odds (clash).
ClosedPersists == ~clash => PersistsOnClose

\* No open or handle shares its slot with one of another file, every one has
\* its record there, and no slot is on the free list twice.
SlotsApart ==
  LET InUse(p) == {Unum[p], poscNum[p]} \ {0}
  IN up = "up" /\ ~clash =>
       /\ \A p \in Paths : \A n \in InUse(p) : rec[n].LFN = p
       /\ \A i \in DOMAIN SlotList : rec[SlotList[i]] = Empty
       /\ \A i, j \in DOMAIN SlotList : SlotList[i] = SlotList[j] => i = j

\* An unfinished file that its client has left, or that a crash has left, is
\* removed in the end, unless a client takes it up again (or a clash occurs).
LeftIsRemoved ==
  \A p \in Paths :
    (file[p] = "part" /\ (hand[p] = "held" \/ up # "up"))
      ~> (file[p] # "part" \/ hand[p] \in {"locked", "open"} \/ clash)
=============================================================================
