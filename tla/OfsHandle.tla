------------------------------ MODULE OfsHandle -----------------------------
(***************************************************************************)
(* File handles of the data server (XrdOfsHandle) for one path that is     *)
(* being written: file objects of several clients share a handle through a *)
(* link count; a file that must be closed to persist (POSC) keeps its      *)
(* handle when the client's connection breaks, until the client is back or *)
(* a thread retires the handle after the hold time.                        *)
(*                                                                         *)
(* Three locks matter.  The link count, the table and the free list change *)
(* under myMutex, which is held over the actions below that use them.      *)
(* hMutex, one per handle, is held across actions: "owner".  The queue of  *)
(* handles to expire is protected by xqCV, which the expiring thread keeps *)
(* while it waits for a handle: whoever needs the queue then waits too.    *)
(***************************************************************************)
EXTENDS Integers, FiniteSets

CONSTANTS
  Files,        \* XrdOfsFile objects
  Users,        \* clients
  User,         \* file object -> the client that has it
  Handles,      \* XrdOfsHandle objects, reused through the free list
  Xprs,         \* XrdOfsHanXpr objects
  NoHandle, NoUser, NoXpr, Nobody,
  Expirer,      \* the "Handle Timeout" thread
  MaxLinks      \* bound: links of a handle

ASSUME HandleAssumption ==
  /\ IsFiniteSet(Files) /\ User \in [Files -> Users]
  /\ NoHandle \notin Handles /\ NoUser \notin Users /\ NoXpr \notin Xprs
  /\ MaxLinks \in Nat
  /\ Expirer \notin Files /\ Nobody \notin Files /\ Nobody # Expirer

VARIABLES
  rwTable,      \* handles in the table
  hidden,       \* those of them that Find does not match any more
  links,        \* Path.Links
  owner,        \* who has hMutex
  isPC,         \* isRW = opPC
  active,       \* ssi is a storage file
  posc,         \* Posc->User, NoUser: no Posc object
  xprP,         \* Posc->xprP
  xprQ,         \* queue of deferred retires; when one is due is left open
  xHandle,      \* xpr -> Handle, NoHandle after Deref
  xTNew,        \* xpr -> a new time has been set
  xpc, xcur,    \* the expiring thread: where it is, and its xpr object
  pc, fh, fk    \* file object -> where it is, its handle, how it opens

handleVars == <<rwTable, hidden, links, owner, isPC, active, posc, xprP>>
xprVars == <<xprQ, xHandle, xTNew>>
fileVars == <<pc, fh, fk>>
ofsVars == <<handleVars, xprVars, xpc, xcur, fileVars>>

Pcs == {"idle", "wait", "undo", "locked", "opening", "open", "closing",
        "dropping", "close", "drop", "deref", "retire"}

\* How a writer opens: it creates the file to be persisted on close, it
\* claims an existing one (poscNum = -1), or it just writes (poscNum = 0).
Kinds == {"create", "claim", "write"}

OfsTypeOK ==
  /\ hidden \subseteq rwTable /\ rwTable \subseteq Handles
  /\ links \in [Handles -> Int]
  /\ owner \in [Handles -> Files \cup {Expirer, Nobody}]
  /\ isPC \in [Handles -> BOOLEAN] /\ active \in [Handles -> BOOLEAN]
  /\ posc \in [Handles -> Users \cup {NoUser}]
  /\ xprP \in [Handles -> Xprs \cup {NoXpr}]
  /\ xprQ \subseteq Xprs
  /\ xHandle \in [Xprs -> Handles \cup {NoHandle}]
  /\ xTNew \in [Xprs -> BOOLEAN]
  /\ xpc \in {"get", "lockwait", "locked", "call", "retire"}
  /\ xcur \in Xprs \cup {NoXpr}
  /\ pc \in [Files -> Pcs]
  /\ fh \in [Files -> Handles \cup {NoHandle}]
  /\ fk \in [Files -> Kinds]

\* The daemon starts with no handle, or with the handle of an unfinished file
\* that the persist queue has given back and that waits for its owner.
OfsInit ==
  /\ hidden = {}
  /\ owner = [h \in Handles |-> Nobody]
  /\ active = [h \in Handles |-> FALSE]
  /\ xTNew = [x \in Xprs |-> FALSE]
  /\ \/ /\ rwTable = {}
        /\ posc = [h \in Handles |-> NoUser] /\ xprP = [h \in Handles |-> NoXpr]
        /\ xprQ = {} /\ xHandle = [x \in Xprs |-> NoHandle]
     \/ \E g \in Handles, x \in Xprs, u \in Users :
          /\ rwTable = {g}
          /\ posc = [h \in Handles |-> IF h = g THEN u ELSE NoUser]
          /\ xprP = [h \in Handles |-> IF h = g THEN x ELSE NoXpr]
          /\ xprQ = {x}
          /\ xHandle = [y \in Xprs |-> IF y = x THEN g ELSE NoHandle]
  /\ links = [h \in Handles |-> IF h \in rwTable THEN 1 ELSE 0]
  /\ isPC = [h \in Handles |-> h \in rwTable]
  /\ xpc = "get" /\ xcur = NoXpr
  /\ pc = [f \in Files |-> "idle"]
  /\ fh = [f \in Files |-> NoHandle]
  /\ fk = [f \in Files |-> "write"]

-----------------------------------------------------------------------------
\* xqCV is free unless the expiring thread waits for a handle.
QueueFree == xpc # "lockwait"

Goto(f, p) == pc' = [pc EXCEPT ![f] = p]

\* How the file is opened does not matter any more.
Forget(f) == fk' = [fk EXCEPT ![f] = "write"]

\* Mutant: Find keeps a trace of a handle that is gone.
RetireKeepHidden(h, X) ==
  LET last == links[h] = 1
      gone == X \cup (IF last THEN {xprP[h]} ELSE {})
  IN /\ owner' = [owner EXCEPT ![h] = Nobody]
     /\ IF last
        THEN /\ rwTable' = rwTable \ {h}
             /\ active' = [active EXCEPT ![h] = FALSE]
             /\ posc' = [posc EXCEPT ![h] = NoUser]
             /\ xprP' = [xprP EXCEPT ![h] = NoXpr]
             /\ UNCHANGED <<links, hidden>>
        ELSE /\ links' = [links EXCEPT ![h] = @ - 1]
             /\ UNCHANGED <<rwTable, hidden, active, posc, xprP>>
     /\ xHandle' = [x \in Xprs |-> IF x \in gone THEN NoHandle ELSE xHandle[x]]
     /\ xTNew' = [x \in Xprs |-> x \notin gone /\ xTNew[x]]
     /\ UNCHANGED <<isPC, xprQ>>

\* Retire: the last link takes the handle out of the table, recycles Posc and
\* closes the storage; either way the handle is unlocked.  X: the xpr object
\* that is deleted then.
Retire(h, X) ==
  LET last == links[h] = 1
      gone == X \cup (IF last THEN {xprP[h]} ELSE {})
  IN /\ owner' = [owner EXCEPT ![h] = Nobody]
     /\ IF last
        THEN /\ xprP[h] # NoXpr => QueueFree
             /\ rwTable' = rwTable \ {h} /\ hidden' = hidden \ {h}
             /\ active' = [active EXCEPT ![h] = FALSE]
             /\ posc' = [posc EXCEPT ![h] = NoUser]
             /\ xprP' = [xprP EXCEPT ![h] = NoXpr]
             /\ UNCHANGED links
        ELSE /\ links' = [links EXCEPT ![h] = @ - 1]
             /\ UNCHANGED <<rwTable, hidden, active, posc, xprP>>
     /\ xHandle' = [x \in Xprs |-> IF x \in gone THEN NoHandle ELSE xHandle[x]]
     /\ xTNew' = [x \in Xprs |-> x \notin gone /\ xTNew[x]]
     /\ UNCHANGED <<isPC, xprQ>>

\* Mutant: the link is not counted before the handle is locked.
OpenFindNoLink(f, k) ==
  /\ pc[f] = "idle"
  /\ \E h \in rwTable \ hidden :
       links[h] < MaxLinks /\ fh' = [fh EXCEPT ![f] = h]
  /\ Goto(f, "wait") /\ fk' = [fk EXCEPT ![f] = k]
  /\ UNCHANGED <<handleVars, xprVars, xpc, xcur>>

\* Alloc finds the handle: the link is counted before the handle is locked.
OpenFind(f, k) ==
  /\ pc[f] = "idle"
  /\ \E h \in rwTable \ hidden :
       /\ links[h] < MaxLinks
       /\ links' = [links EXCEPT ![h] = @ + 1]
       /\ fh' = [fh EXCEPT ![f] = h]
  /\ Goto(f, "wait") /\ fk' = [fk EXCEPT ![f] = k]
  /\ UNCHANGED <<rwTable, hidden, owner, isPC, active, posc, xprP, xprVars, xpc, xcur>>

\* Alloc takes a handle from the free list and adds it to the table.
OpenNew(f, k) ==
  /\ pc[f] = "idle" /\ rwTable = hidden
  /\ \E h \in Handles \ rwTable :
       /\ rwTable' = rwTable \cup {h}
       /\ links' = [links EXCEPT ![h] = 1]
       /\ owner' = [owner EXCEPT ![h] = f]
       /\ isPC' = [isPC EXCEPT ![h] = k = "create"]
       /\ fh' = [fh EXCEPT ![f] = h]
  /\ Goto(f, "locked") /\ fk' = [fk EXCEPT ![f] = k]
  /\ UNCHANGED <<hidden, active, posc, xprP, xprVars, xpc, xcur>>

\* WaitLock gets the handle, or its time is over while another has it.
OpenLocked(f) ==
  /\ pc[f] = "wait" /\ owner[fh[f]] = Nobody
  /\ owner' = [owner EXCEPT ![fh[f]] = f]
  /\ Goto(f, "locked")
  /\ UNCHANGED <<rwTable, hidden, links, isPC, active, posc, xprP, xprVars, xpc,
                 xcur, fh, fk>>

OpenTimeout(f) ==
  /\ pc[f] = "wait" /\ owner[fh[f]] # Nobody
  /\ Goto(f, "undo")
  /\ UNCHANGED <<handleVars, xprVars, xpc, xcur, fh, fk>>

\* The link is taken back, without a look at what is left of the others.
OpenUndo(f) ==
  /\ pc[f] = "undo"
  /\ links' = [links EXCEPT ![fh[f]] = @ - 1]
  /\ fh' = [fh EXCEPT ![f] = NoHandle]
  /\ Goto(f, "idle") /\ Forget(f)
  /\ UNCHANGED <<rwTable, hidden, owner, isPC, active, posc, xprP, xprVars, xpc, xcur>>

\* PoscSet refuses a plain writer who is not the creator.
PoscRefuses(f) ==
  LET h == fh[f]
  IN isPC[h] /\ posc[h] # NoUser /\ fk[f] = "write" /\ posc[h] # User[f]

\* PoscSet: the creator of the file, from now on.
Creator(f) ==
  LET h == fh[f]
  IN IF isPC[h] /\ (fk[f] = "create" \/ (fk[f] = "claim" /\ posc[h] # NoUser))
     THEN User[f] ELSE posc[h]

OpenBusy(f) ==
  /\ pc[f] = "locked" /\ PoscRefuses(f)
  /\ Goto(f, "retire") /\ Forget(f)
  /\ UNCHANGED <<handleVars, xprVars, xpc, xcur, fh>>

\* An active handle is attached and unlocked; another one is opened first.
OpenAttach(f) ==
  /\ pc[f] = "locked" /\ ~PoscRefuses(f)
  /\ posc' = [posc EXCEPT ![fh[f]] = Creator(f)]
  /\ IF active[fh[f]]
     THEN owner' = [owner EXCEPT ![fh[f]] = Nobody] /\ Goto(f, "open")
     ELSE UNCHANGED owner /\ Goto(f, "opening")
  /\ Forget(f)
  /\ UNCHANGED <<rwTable, hidden, links, isPC, active, xprP, xprVars, xpc, xcur, fh>>

\* The storage opens the file and the handle is activated.
OpenDone(f) ==
  /\ pc[f] = "opening"
  /\ active' = [active EXCEPT ![fh[f]] = TRUE]
  /\ owner' = [owner EXCEPT ![fh[f]] = Nobody]
  /\ Goto(f, "open")
  /\ UNCHANGED <<rwTable, hidden, links, isPC, posc, xprP, xprVars, xpc, xcur, fh, fk>>

\* It does not: ~OpenHelper retires the handle.
OpenFails(f) ==
  /\ pc[f] = "opening"
  /\ Goto(f, "retire")
  /\ UNCHANGED <<handleVars, xprVars, xpc, xcur, fh, fk>>

FileRetire(f) ==
  /\ pc[f] = "retire"
  /\ Retire(fh[f], {})
  /\ fh' = [fh EXCEPT ![f] = NoHandle] /\ Goto(f, "idle")
  /\ UNCHANGED <<xpc, xcur, fk>>

-----------------------------------------------------------------------------
\* close: the client asks for it, or the object is deleted with its
\* connection (viaDel).  The object gives up the handle before it locks it.
Close(f, p) ==
  /\ pc[f] = "open"
  /\ Goto(f, p)
  /\ UNCHANGED <<handleVars, xprVars, xpc, xcur, fh, fk>>

CloseLock(f, from, to) ==
  /\ pc[f] = from /\ owner[fh[f]] = Nobody
  /\ owner' = [owner EXCEPT ![fh[f]] = f]
  /\ Goto(f, to)
  /\ UNCHANGED <<rwTable, hidden, links, isPC, active, posc, xprP, xprVars, xpc,
                 xcur, fh, fk>>

\* Mutant: the link of the xpr object is taken back although there is none.
CloseGetAlways(f) ==
  /\ pc[f] = "close"
  /\ posc' = [posc EXCEPT ![fh[f]] = NoUser]
  /\ links' = [links EXCEPT ![fh[f]] = @ - 1]
  /\ Goto(f, IF xprP[fh[f]] = NoXpr THEN "retire" ELSE "deref")
  /\ UNCHANGED <<rwTable, hidden, owner, isPC, active, xprP, xprVars, xpc, xcur, fh, fk>>

\* PoscGet(Done): the file is persistent.  An xpr object of an earlier broken
\* connection loses its link, and its reference in a second step.
CloseGet(f) ==
  /\ pc[f] = "close"
  /\ posc' = [posc EXCEPT ![fh[f]] = NoUser]
  /\ IF xprP[fh[f]] = NoXpr
     THEN UNCHANGED links /\ Goto(f, "retire")
     ELSE links' = [links EXCEPT ![fh[f]] = @ - 1] /\ Goto(f, "deref")
  /\ UNCHANGED <<rwTable, hidden, owner, isPC, active, xprP, xprVars, xpc, xcur, fh, fk>>

\* Mutant: the xpr object keeps its handle.
CloseDerefNot(f) ==
  /\ pc[f] = "deref" /\ QueueFree
  /\ xprP' = [xprP EXCEPT ![fh[f]] = NoXpr]
  /\ Goto(f, "retire")
  /\ UNCHANGED <<rwTable, hidden, links, owner, isPC, active, posc, xprVars, xpc,
                 xcur, fh, fk>>

\* Recycle and Deref: the xpr object stays in the queue with nothing to do.
CloseDeref(f) ==
  LET h == fh[f]
      x == xprP[h]
  IN /\ pc[f] = "deref" /\ QueueFree
     /\ xHandle' = [xHandle EXCEPT ![x] = NoHandle]
     /\ xTNew' = [xTNew EXCEPT ![x] = FALSE]
     /\ xprP' = [xprP EXCEPT ![h] = NoXpr]
     /\ Goto(f, "retire")
     /\ UNCHANGED <<rwTable, hidden, links, owner, isPC, active, posc, xprQ, xpc,
                    xcur, fh, fk>>

\* A deleted object whose file needs no persistence just retires.
DropPlain(f) ==
  /\ pc[f] = "drop" /\ posc[fh[f]] = NoUser
  /\ Goto(f, "retire")
  /\ UNCHANGED <<handleVars, xprVars, xpc, xcur, fh, fk>>

\* The deferred Retire: an xpr object takes over the link of the file object.
DropDefer(f) ==
  LET h == fh[f]
  IN /\ pc[f] = "drop" /\ posc[h] # NoUser /\ xprP[h] = NoXpr /\ QueueFree
     /\ \E x \in Xprs \ (xprQ \cup {xcur}) :
          /\ xprP' = [xprP EXCEPT ![h] = x]
          /\ xHandle' = [xHandle EXCEPT ![x] = h]
          /\ xTNew' = [xTNew EXCEPT ![x] = FALSE]
          /\ xprQ' = xprQ \cup {x}
     /\ owner' = [owner EXCEPT ![h] = Nobody]
     /\ fh' = [fh EXCEPT ![f] = NoHandle] /\ Goto(f, "idle")
     /\ UNCHANGED <<rwTable, hidden, links, isPC, active, posc, xpc, xcur, fk>>

\* The handle has an xpr object: it only gets a new time (Set).
DropAgain(f) ==
  LET h == fh[f]
  IN /\ pc[f] = "drop" /\ posc[h] # NoUser /\ xprP[h] # NoXpr /\ QueueFree
     /\ xTNew' = [xTNew EXCEPT ![xprP[h]] = TRUE]
     /\ owner' = [owner EXCEPT ![h] = Nobody]
     /\ fh' = [fh EXCEPT ![f] = NoHandle] /\ Goto(f, "idle")
     /\ UNCHANGED <<rwTable, hidden, links, isPC, active, posc, xprP, xprQ,
                    xHandle, xpc, xcur, fk>>

\* Hide, when the file is removed or renamed: no open finds the handle.
Hide ==
  /\ rwTable # hidden /\ hidden' = rwTable
  /\ UNCHANGED <<rwTable, links, owner, isPC, active, posc, xprP, xprVars, xpc,
                 xcur, fileVars>>

-----------------------------------------------------------------------------
\* Get: an object without a handle is deleted, one with a new time goes back
\* into the queue; for another one the thread waits, with xqCV, for the handle.
XprDelete ==
  /\ xpc = "get"
  /\ \E x \in xprQ : xHandle[x] = NoHandle /\ xprQ' = xprQ \ {x}
  /\ UNCHANGED <<handleVars, xHandle, xTNew, xpc, xcur, fileVars>>

XprRequeue ==
  /\ xpc = "get"
  /\ \E x \in xprQ : /\ xHandle[x] # NoHandle /\ xTNew[x]
                     /\ xTNew' = [xTNew EXCEPT ![x] = FALSE]
  /\ UNCHANGED <<handleVars, xprQ, xHandle, xpc, xcur, fileVars>>

XprTake ==
  /\ xpc = "get"
  /\ \E x \in xprQ : /\ xHandle[x] # NoHandle /\ ~xTNew[x]
                     /\ xprQ' = xprQ \ {x} /\ xcur' = x
  /\ xpc' = "lockwait"
  /\ UNCHANGED <<handleVars, xHandle, xTNew, fileVars>>

XprLocked ==
  /\ xpc = "lockwait" /\ owner[xHandle[xcur]] = Nobody
  /\ owner' = [owner EXCEPT ![xHandle[xcur]] = Expirer]
  /\ xpc' = "locked"
  /\ UNCHANGED <<rwTable, hidden, links, isPC, active, posc, xprP, xprVars, xcur, fileVars>>

\* Mutant: the thread waits for the handle as long as it takes.
XprTimeoutNever == FALSE

\* WaitLock gives up: try again in half a minute.
XprTimeout ==
  /\ xpc = "lockwait" /\ owner[xHandle[xcur]] # Nobody
  /\ xprQ' = xprQ \cup {xcur} /\ xcur' = NoXpr /\ xpc' = "get"
  /\ UNCHANGED <<handleVars, xHandle, xTNew, fileVars>>

\* Mutant: the file is given up whoever else has a link.
XprCheckAny ==
  LET h == xHandle[xcur]
  IN /\ xpc = "locked"
     /\ xprP' = [xprP EXCEPT ![h] = NoXpr]
     /\ xpc' = "call"
     /\ UNCHANGED <<rwTable, hidden, links, owner, isPC, active, posc, xprVars,
                    xcur, fileVars>>

\* StartXpr: the file is given up if the thread has the only link.
XprCheck ==
  LET h == xHandle[xcur]
  IN /\ xpc = "locked"
     /\ IF posc[h] # NoUser /\ xprP[h] = xcur
        THEN /\ xprP' = [xprP EXCEPT ![h] = NoXpr]
             /\ xpc' = IF links[h] = 1 THEN "call" ELSE "retire"
             /\ UNCHANGED <<owner, xcur, xHandle>>
        ELSE /\ owner' = [owner EXCEPT ![h] = Nobody]
             /\ xpc' = "get" /\ xcur' = NoXpr
             /\ xHandle' = [xHandle EXCEPT ![xcur] = NoHandle]
             /\ UNCHANGED xprP
     /\ UNCHANGED <<rwTable, hidden, links, isPC, active, posc, xprQ, xTNew, fileVars>>

\* Retired: the file is unpersisted (removed).
XprCall ==
  /\ xpc = "call" /\ xpc' = "retire"
  /\ UNCHANGED <<handleVars, xprVars, xcur, fileVars>>

XprRetire ==
  /\ xpc = "retire"
  /\ Retire(xHandle[xcur], {xcur})
  /\ xpc' = "get" /\ xcur' = NoXpr
  /\ UNCHANGED fileVars

-----------------------------------------------------------------------------
ExpirerNext ==
  \/ XprDelete \/ XprRequeue \/ XprTake \/ XprLocked \/ XprTimeout
  \/ XprCheck \/ XprCall \/ XprRetire

\* What a file object does once it has started to open or to close.
FileStep(f) ==
  \/ OpenLocked(f) \/ OpenTimeout(f) \/ OpenUndo(f) \/ OpenBusy(f)
  \/ OpenAttach(f) \/ OpenDone(f) \/ OpenFails(f) \/ FileRetire(f)
  \/ CloseGet(f) \/ CloseDeref(f) \/ DropPlain(f) \/ DropDefer(f) \/ DropAgain(f)

FileLock(f) == CloseLock(f, "closing", "close") \/ CloseLock(f, "dropping", "drop")

ClientNext(f) ==
  \/ \E k \in Kinds : OpenFind(f, k) \/ OpenNew(f, k)
  \/ \E p \in {"closing", "dropping"} : Close(f, p)

OfsNext ==
  \/ ExpirerNext \/ Hide
  \/ \E f \in Files : FileStep(f) \/ FileLock(f) \/ ClientNext(f)

OfsSpec == OfsInit /\ [][OfsNext]_ofsVars

\* Threads run, and a mutex that is free again and again is granted.
OfsFairness ==
  /\ WF_ofsVars(ExpirerNext)
  /\ \A f \in Files : SF_ofsVars(FileStep(f)) /\ SF_ofsVars(FileLock(f))

FairOfsSpec == OfsSpec /\ OfsFairness

-----------------------------------------------------------------------------
Refs(h) == {f \in Files : fh[f] = h}

\* A link belongs to an xpr object, in the queue or in the thread's hands.
XprLink(h) == \/ posc[h] # NoUser /\ xprP[h] # NoXpr
              \/ xpc \in {"call", "retire"} /\ xHandle[xcur] = h

Uses(h) == Cardinality(Refs(h)) + (IF XprLink(h) THEN 1 ELSE 0)

\* Whoever refers to a handle (a file object, even one that is still waiting
\* for it, or an xpr object) finds it in the table and, between open and
\* close, with its storage file open: Retire by another user, a wait that
\* timed out or the expiring thread never frees it (Alloc: "It can't escape
\* between lock calls because the link count is positive").
NeverFreedInUse ==
  /\ \A f \in Files :
       /\ fh[f] # NoHandle => fh[f] \in rwTable
       /\ pc[f] \in {"open", "closing", "dropping", "close", "drop", "deref"}
            => active[fh[f]]
  /\ \A x \in Xprs : xHandle[x] # NoHandle => xHandle[x] \in rwTable

\* Every handle has at least as many links as users.
LinksCover == \A h \in rwTable : links[h] >= Uses(h)

\* The check in StartXpr that "should never" fail: when the thread has locked
\* a handle, the handle's Posc still refers to the thread's xpr object.
XprValid ==
  xpc = "locked" => posc[xHandle[xcur]] # NoUser /\ xprP[xHandle[xcur]] = xcur

\* A file is removed by the expiring thread only while nobody has it open or
\* is closing it; clients may be waiting for the handle.
UnpersistUnused ==
  xpc = "call" => \A f \in Refs(xHandle[xcur]) : pc[f] \in {"wait", "undo"}

\* StartXpr makes the callout "only if the reference count is one (for us)":
\* when nobody else uses the handle, the count the thread sees is one.
OneForUs ==
  xpc = "locked" /\ Refs(xHandle[xcur]) = {} => links[xHandle[xcur]] = 1

\* Every close comes to an end: neither the lock of the handle nor the queue
\* of the expiring thread, each of which may be held while the other is
\* waited for, blocks it for ever.
CloseCompletes ==
  \A f \in Files : pc[f] \in {"closing", "dropping"} ~> pc[f] = "idle"
=============================================================================
