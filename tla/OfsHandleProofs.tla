--------------------------- MODULE OfsHandleProofs --------------------------
(* Safety of the file handles for any number of file objects, clients,     *)
(* handles and xpr objects.                                                *)
EXTENDS OfsHandle, FiniteSetTheorems, TLAPS

\* The control points at which a file object has its handle locked.
Locking == {"locked", "opening", "close", "drop", "deref", "retire"}

\* A file object has a handle unless it is idle; who owns the lock of a
\* handle is where the lock is held.
Locks ==
  /\ \A f \in Files : (fh[f] = NoHandle) <=> (pc[f] = "idle")
  /\ \A f \in Files, h \in Handles :
       (owner[h] = f) <=> (fh[f] = h /\ pc[f] \in Locking)
  /\ \A h \in Handles :
       (owner[h] = Expirer) <=> (xpc \in {"locked", "call", "retire"} /\ xHandle[xcur] = h)

\* An xpr object and the handle it refers to refer to each other, except
\* when the thread has already cut the handle's reference.
XprRefs ==
  /\ (xcur = NoXpr) <=> (xpc = "get")
  /\ xpc # "get" => xHandle[xcur] \in Handles /\ xcur \notin xprQ
  /\ xpc \in {"call", "retire"} => xprP[xHandle[xcur]] = NoXpr
  /\ \A h \in Handles, x \in Xprs :
       /\ xprP[h] = x => xHandle[x] = h /\ ~(x = xcur /\ xpc \in {"call", "retire"})
       /\ xHandle[x] = h =>
            /\ x \in xprQ \cup {xcur}
            /\ xprP[h] = x \/ (x = xcur /\ xpc \in {"call", "retire"})

\* Posc is gone before its xpr object only while a close is at work.
Derefs ==
  /\ \A h \in Handles :
       xprP[h] # NoXpr /\ posc[h] = NoUser => \E f \in Files : fh[f] = h /\ pc[f] = "deref"
  /\ \A f \in Files : pc[f] = "deref" => xprP[fh[f]] # NoXpr /\ posc[fh[f]] = NoUser

\* The free list.
Freed == \A h \in Handles \ rwTable : xprP[h] = NoXpr /\ posc[h] = NoUser

\* The inductive invariant: the count of links is what keeps a handle, and it
\* can only be related to its users when locks and references are in order.
OInv == /\ OfsTypeOK /\ Locks /\ XprRefs /\ Derefs /\ Freed
        /\ NeverFreedInUse /\ LinksCover /\ UnpersistUnused

-----------------------------------------------------------------------------
\* The users of a handle are finitely many.
LEMMA CardRefs ==
  ASSUME NEW h
  PROVE  IsFiniteSet(Refs(h)) /\ Cardinality(Refs(h)) \in Nat
<1>1. Refs(h) \subseteq Files
  BY DEF Refs
<1>2. QED
  BY <1>1, HandleAssumption, FS_Subset, FS_CardinalityType

\* A file object that refers to a handle is one of its users.
LEMMA RefPositive ==
  ASSUME NEW f \in Files, NEW h, fh[f] = h
  PROVE  Cardinality(Refs(h)) >= 1
<1>1. f \in Refs(h)
  BY DEF Refs
<1>2. QED
  BY <1>1, CardRefs, FS_EmptySet

\* Two of them make two.
LEMMA RefsTwo ==
  ASSUME NEW f \in Files, NEW g \in Files, f # g, NEW h, fh[f] = h, fh[g] = h
  PROVE  Cardinality(Refs(h)) >= 2
<1>1. {f, g} \subseteq Refs(h)
  BY DEF Refs
<1>2. Cardinality({f, g}) = 2
  <2>1. IsFiniteSet({f}) /\ Cardinality({f}) = 1
    BY FS_Singleton
  <2>2. {f, g} = {f} \cup {g}
    OBVIOUS
  <2>3. QED
    BY <2>1, <2>2, FS_AddElement
<1>3. QED
  BY <1>1, <1>2, CardRefs, FS_Subset

\* No user makes none.
LEMMA RefsNone ==
  ASSUME NEW h, Cardinality(Refs(h)) = 0
  PROVE  \A f \in Files : fh[f] # h
<1>1. Refs(h) = {}
  BY CardRefs, FS_EmptySet
<1>2. QED
  BY <1>1 DEF Refs

\* A file object takes a handle.
LEMMA RefsAdd ==
  ASSUME OfsTypeOK, NEW f \in Files, NEW g \in Handles, fh[f] = NoHandle,
         fh' = [fh EXCEPT ![f] = g]
  PROVE  /\ Cardinality(Refs(g)') = Cardinality(Refs(g)) + 1
         /\ \A h \in Handles : h # g => Refs(h)' = Refs(h)
<1>1. \A e \in Files : fh'[e] = IF e = f THEN g ELSE fh[e]
  BY DEF OfsTypeOK
<1>2. Refs(g)' = Refs(g) \cup {f} /\ f \notin Refs(g)
  BY <1>1, HandleAssumption DEF Refs
<1>3. Cardinality(Refs(g)') = Cardinality(Refs(g)) + 1
  BY <1>2, CardRefs, FS_AddElement
<1>4. \A h \in Handles : h # g => Refs(h)' = Refs(h)
  BY <1>1, HandleAssumption DEF Refs
<1>5. QED
  BY <1>3, <1>4

\* A file object gives up its handle.
LEMMA RefsDrop ==
  ASSUME OfsTypeOK, NEW f \in Files, fh[f] \in Handles,
         fh' = [fh EXCEPT ![f] = NoHandle]
  PROVE  /\ Cardinality(Refs(fh[f])) = Cardinality({e \in Files : fh'[e] = fh[f]}) + 1
         /\ \A h \in Handles : h # fh[f] => Refs(h)' = Refs(h)
<1> DEFINE R == {e \in Files : fh'[e] = fh[f]}
<1>1. \A e \in Files : fh'[e] = IF e = f THEN NoHandle ELSE fh[e]
  BY DEF OfsTypeOK
<1>2. Refs(fh[f]) = R \cup {f} /\ f \notin R
  BY <1>1, HandleAssumption DEF Refs
<1>3. IsFiniteSet(R)
  BY HandleAssumption, FS_Subset
<1>4. Cardinality(Refs(fh[f])) = Cardinality(R) + 1
  BY <1>2, <1>3, FS_AddElement
<1>5. \A h \in Handles : h # fh[f] => Refs(h)' = Refs(h)
  BY <1>1, HandleAssumption DEF Refs
<1>6. QED
  BY <1>4, <1>5

-----------------------------------------------------------------------------
\* Steps that change no link and give none to an xpr object.
LEMMA LinksFrame ==
  ASSUME OfsTypeOK, LinksCover, UNCHANGED <<fh, links>>, rwTable' \subseteq rwTable,
         \A h \in rwTable' : XprLink(h)' => XprLink(h)
  PROVE  LinksCover'
<1> SUFFICES ASSUME NEW h \in rwTable' PROVE links'[h] >= Uses(h)'
  BY DEF LinksCover
<1>1. Refs(h)' = Refs(h)
  BY DEF Refs
<1>2. h \in Handles /\ links[h] \in Int /\ links[h] >= Uses(h)
  BY DEF OfsTypeOK, LinksCover
<1>3. XprLink(h)' => XprLink(h)
  OBVIOUS
<1>4. Cardinality(Refs(h)) \in Nat
  BY CardRefs
<1>5. QED
  BY <1>1, <1>2, <1>3, <1>4 DEF Uses

\* A waiting file object gets the lock of its handle.
LEMMA KeepOpenLocked ==
  ASSUME OInv, NEW f \in Files, OpenLocked(f)
  PROVE  OInv'
<1> USE HandleAssumption DEF OpenLocked, Goto, Forget, QueueFree, handleVars, xprVars, fileVars
<1>1. OfsTypeOK'
  BY DEF OInv, OfsTypeOK, Locks, Pcs, Kinds
<1>2. Locks'
  BY DEF OInv, OfsTypeOK, Locks, Locking, XprRefs, NeverFreedInUse
<1>3. XprRefs'
  BY DEF OInv, OfsTypeOK, XprRefs, Locks, Locking, Freed, NeverFreedInUse
<1>4. Derefs'
  BY DEF OInv, OfsTypeOK, Derefs, Locks, Locking, XprRefs, Freed, NeverFreedInUse
<1>5. Freed'
  BY DEF OInv, OfsTypeOK, Freed, NeverFreedInUse, Locks
<1>6. NeverFreedInUse'
  BY DEF OInv, OfsTypeOK, NeverFreedInUse, Locks, Locking, XprRefs
<1>7. LinksCover'
  <2>1. \A h \in rwTable' : XprLink(h)' => XprLink(h)
    BY DEF OInv, OfsTypeOK, XprLink, XprRefs, Derefs, Locks, Locking
  <2>2. UNCHANGED <<fh, links>> /\ rwTable' \subseteq rwTable
    OBVIOUS
  <2>3. QED
    BY <2>1, <2>2, LinksFrame DEF OInv
<1>8. UnpersistUnused'
  BY DEF OInv, OfsTypeOK, UnpersistUnused, Refs, Locks, Locking, XprRefs, NeverFreedInUse
<1>9. QED
  BY <1>1, <1>2, <1>3, <1>4, <1>5, <1>6, <1>7, <1>8 DEF OInv

\* It waits in vain.
LEMMA KeepOpenTimeout ==
  ASSUME OInv, NEW f \in Files, OpenTimeout(f)
  PROVE  OInv'
<1> USE HandleAssumption DEF OpenTimeout, Goto, Forget, QueueFree, handleVars, xprVars, fileVars
<1>1. OfsTypeOK'
  BY DEF OInv, OfsTypeOK, Locks, Pcs, Kinds
<1>2. Locks'
  BY DEF OInv, OfsTypeOK, Locks, Locking, XprRefs, NeverFreedInUse
<1>3. XprRefs'
  BY DEF OInv, OfsTypeOK, XprRefs, Locks, Locking, Freed, NeverFreedInUse
<1>4. Derefs'
  BY DEF OInv, OfsTypeOK, Derefs, Locks, Locking, XprRefs, Freed, NeverFreedInUse
<1>5. Freed'
  BY DEF OInv, OfsTypeOK, Freed, NeverFreedInUse, Locks
<1>6. NeverFreedInUse'
  BY DEF OInv, OfsTypeOK, NeverFreedInUse, Locks, Locking, XprRefs
<1>7. LinksCover'
  <2>1. \A h \in rwTable' : XprLink(h)' => XprLink(h)
    BY DEF OInv, OfsTypeOK, XprLink, XprRefs, Derefs, Locks, Locking
  <2>2. UNCHANGED <<fh, links>> /\ rwTable' \subseteq rwTable
    OBVIOUS
  <2>3. QED
    BY <2>1, <2>2, LinksFrame DEF OInv
<1>8. UnpersistUnused'
  BY DEF OInv, OfsTypeOK, UnpersistUnused, Refs, Locks, Locking, XprRefs, NeverFreedInUse
<1>9. QED
  BY <1>1, <1>2, <1>3, <1>4, <1>5, <1>6, <1>7, <1>8 DEF OInv

\* Another client's file is refused.
LEMMA KeepOpenBusy ==
  ASSUME OInv, NEW f \in Files, OpenBusy(f)
  PROVE  OInv'
<1> USE HandleAssumption DEF OpenBusy, Goto, Forget, QueueFree, handleVars, xprVars, fileVars
<1>1. OfsTypeOK'
  BY DEF OInv, OfsTypeOK, Locks, Pcs, Kinds
<1>2. Locks'
  BY DEF OInv, OfsTypeOK, Locks, Locking, XprRefs, NeverFreedInUse
<1>3. XprRefs'
  BY DEF OInv, OfsTypeOK, XprRefs, Locks, Locking, Freed, NeverFreedInUse
<1>4. Derefs'
  BY DEF OInv, OfsTypeOK, Derefs, Locks, Locking, XprRefs, Freed, NeverFreedInUse
<1>5. Freed'
  BY DEF OInv, OfsTypeOK, Freed, NeverFreedInUse, Locks
<1>6. NeverFreedInUse'
  BY DEF OInv, OfsTypeOK, NeverFreedInUse, Locks, Locking, XprRefs
<1>7. LinksCover'
  <2>1. \A h \in rwTable' : XprLink(h)' => XprLink(h)
    BY DEF OInv, OfsTypeOK, XprLink, XprRefs, Derefs, Locks, Locking
  <2>2. UNCHANGED <<fh, links>> /\ rwTable' \subseteq rwTable
    OBVIOUS
  <2>3. QED
    BY <2>1, <2>2, LinksFrame DEF OInv
<1>8. UnpersistUnused'
  BY DEF OInv, OfsTypeOK, UnpersistUnused, Refs, Locks, Locking, XprRefs, NeverFreedInUse
<1>9. QED
  BY <1>1, <1>2, <1>3, <1>4, <1>5, <1>6, <1>7, <1>8 DEF OInv

\* The storage is open.
LEMMA KeepOpenDone ==
  ASSUME OInv, NEW f \in Files, OpenDone(f)
  PROVE  OInv'
<1> USE HandleAssumption DEF OpenDone, Goto, Forget, QueueFree, handleVars, xprVars, fileVars
<1>1. OfsTypeOK'
  BY DEF OInv, OfsTypeOK, Locks, Pcs, Kinds
<1>2. Locks'
  BY DEF OInv, OfsTypeOK, Locks, Locking, XprRefs, NeverFreedInUse
<1>3. XprRefs'
  BY DEF OInv, OfsTypeOK, XprRefs, Locks, Locking, Freed, NeverFreedInUse
<1>4. Derefs'
  BY DEF OInv, OfsTypeOK, Derefs, Locks, Locking, XprRefs, Freed, NeverFreedInUse
<1>5. Freed'
  BY DEF OInv, OfsTypeOK, Freed, NeverFreedInUse, Locks
<1>6. NeverFreedInUse'
  BY DEF OInv, OfsTypeOK, NeverFreedInUse, Locks, Locking, XprRefs
<1>7. LinksCover'
  <2>1. \A h \in rwTable' : XprLink(h)' => XprLink(h)
    BY DEF OInv, OfsTypeOK, XprLink, XprRefs, Derefs, Locks, Locking
  <2>2. UNCHANGED <<fh, links>> /\ rwTable' \subseteq rwTable
    OBVIOUS
  <2>3. QED
    BY <2>1, <2>2, LinksFrame DEF OInv
<1>8. UnpersistUnused'
  BY DEF OInv, OfsTypeOK, UnpersistUnused, Refs, Locks, Locking, XprRefs, NeverFreedInUse
<1>9. QED
  BY <1>1, <1>2, <1>3, <1>4, <1>5, <1>6, <1>7, <1>8 DEF OInv

\* The storage cannot be opened.
LEMMA KeepOpenFails ==
  ASSUME OInv, NEW f \in Files, OpenFails(f)
  PROVE  OInv'
<1> USE HandleAssumption DEF OpenFails, Goto, Forget, QueueFree, handleVars, xprVars, fileVars
<1>1. OfsTypeOK'
  BY DEF OInv, OfsTypeOK, Locks, Pcs, Kinds
<1>2. Locks'
  BY DEF OInv, OfsTypeOK, Locks, Locking, XprRefs, NeverFreedInUse
<1>3. XprRefs'
  BY DEF OInv, OfsTypeOK, XprRefs, Locks, Locking, Freed, NeverFreedInUse
<1>4. Derefs'
  BY DEF OInv, OfsTypeOK, Derefs, Locks, Locking, XprRefs, Freed, NeverFreedInUse
<1>5. Freed'
  BY DEF OInv, OfsTypeOK, Freed, NeverFreedInUse, Locks
<1>6. NeverFreedInUse'
  BY DEF OInv, OfsTypeOK, NeverFreedInUse, Locks, Locking, XprRefs
<1>7. LinksCover'
  <2>1. \A h \in rwTable' : XprLink(h)' => XprLink(h)
    BY DEF OInv, OfsTypeOK, XprLink, XprRefs, Derefs, Locks, Locking
  <2>2. UNCHANGED <<fh, links>> /\ rwTable' \subseteq rwTable
    OBVIOUS
  <2>3. QED
    BY <2>1, <2>2, LinksFrame DEF OInv
<1>8. UnpersistUnused'
  BY DEF OInv, OfsTypeOK, UnpersistUnused, Refs, Locks, Locking, XprRefs, NeverFreedInUse
<1>9. QED
  BY <1>1, <1>2, <1>3, <1>4, <1>5, <1>6, <1>7, <1>8 DEF OInv

\* The xpr object loses its handle; no thread waits for that handle.
LEMMA KeepCloseDeref ==
  ASSUME OInv, NEW f \in Files, CloseDeref(f)
  PROVE  OInv'
<1> USE HandleAssumption DEF CloseDeref, Goto, Forget, QueueFree, handleVars, xprVars, fileVars
<1>1. OfsTypeOK'
  BY DEF OInv, OfsTypeOK, Locks, Pcs, Kinds
<1>2. Locks'
  BY DEF OInv, OfsTypeOK, Locks, Locking, XprRefs, NeverFreedInUse
<1>3. XprRefs'
  BY DEF OInv, OfsTypeOK, XprRefs, Locks, Locking, Freed, NeverFreedInUse
<1>4. Derefs'
  BY DEF OInv, OfsTypeOK, Derefs, Locks, Locking, XprRefs, Freed, NeverFreedInUse
<1>5. Freed'
  BY DEF OInv, OfsTypeOK, Freed, NeverFreedInUse, Locks
<1>6. NeverFreedInUse'
  BY DEF OInv, OfsTypeOK, NeverFreedInUse, Locks, Locking, XprRefs
<1>7. LinksCover'
  <2>1. \A h \in rwTable' : XprLink(h)' => XprLink(h)
    BY DEF OInv, OfsTypeOK, XprLink, XprRefs, Derefs, Locks, Locking
  <2>2. UNCHANGED <<fh, links>> /\ rwTable' \subseteq rwTable
    OBVIOUS
  <2>3. QED
    BY <2>1, <2>2, LinksFrame DEF OInv
<1>8. UnpersistUnused'
  BY DEF OInv, OfsTypeOK, UnpersistUnused, Refs, Locks, Locking, XprRefs, NeverFreedInUse
<1>9. QED
  BY <1>1, <1>2, <1>3, <1>4, <1>5, <1>6, <1>7, <1>8 DEF OInv

\* A file object without Posc is deleted.
LEMMA KeepDropPlain ==
  ASSUME OInv, NEW f \in Files, DropPlain(f)
  PROVE  OInv'
<1> USE HandleAssumption DEF DropPlain, Goto, Forget, QueueFree, handleVars, xprVars, fileVars
<1>1. OfsTypeOK'
  BY DEF OInv, OfsTypeOK, Locks, Pcs, Kinds
<1>2. Locks'
  BY DEF OInv, OfsTypeOK, Locks, Locking, XprRefs, NeverFreedInUse
<1>3. XprRefs'
  BY DEF OInv, OfsTypeOK, XprRefs, Locks, Locking, Freed, NeverFreedInUse
<1>4. Derefs'
  BY DEF OInv, OfsTypeOK, Derefs, Locks, Locking, XprRefs, Freed, NeverFreedInUse
<1>5. Freed'
  BY DEF OInv, OfsTypeOK, Freed, NeverFreedInUse, Locks
<1>6. NeverFreedInUse'
  BY DEF OInv, OfsTypeOK, NeverFreedInUse, Locks, Locking, XprRefs
<1>7. LinksCover'
  <2>1. \A h \in rwTable' : XprLink(h)' => XprLink(h)
    BY DEF OInv, OfsTypeOK, XprLink, XprRefs, Derefs, Locks, Locking
  <2>2. UNCHANGED <<fh, links>> /\ rwTable' \subseteq rwTable
    OBVIOUS
  <2>3. QED
    BY <2>1, <2>2, LinksFrame DEF OInv
<1>8. UnpersistUnused'
  BY DEF OInv, OfsTypeOK, UnpersistUnused, Refs, Locks, Locking, XprRefs, NeverFreedInUse
<1>9. QED
  BY <1>1, <1>2, <1>3, <1>4, <1>5, <1>6, <1>7, <1>8 DEF OInv

\* A handle gets its creator and may be attached.
LEMMA KeepOpenAttach ==
  ASSUME OInv, NEW f \in Files, OpenAttach(f)
  PROVE  OInv'
<1> USE HandleAssumption DEF OpenAttach, Creator, PoscRefuses, Goto, Forget, QueueFree, handleVars, xprVars, fileVars
<1>1. OfsTypeOK'
  <2>1. OfsTypeOK  BY DEF OInv
  <2>2. fh[f] \in Handles  BY DEF OInv, OfsTypeOK, Locks, Locking
  <2>3. posc' \in [Handles -> Users \cup {NoUser}]
    <3>1. Creator(f) \in Users \cup {NoUser}  BY <2>1, <2>2 DEF OfsTypeOK
    <3>2. posc' = [posc EXCEPT ![fh[f]] = Creator(f)]  OBVIOUS
    <3> HIDE DEF Creator, OpenAttach
    <3> QED BY <2>1, <3>1, <3>2 DEF OfsTypeOK
  <2>4. owner' \in [Handles -> Files \cup {Expirer, Nobody}]
    BY <2>1 DEF OfsTypeOK
  <2>5. pc' \in [Files -> Pcs] /\ fk' \in [Files -> Kinds]
    BY <2>1 DEF OfsTypeOK, Pcs, Kinds
  <2>6. UNCHANGED <<rwTable, hidden, links, isPC, active, xprP, xprVars, xpc, xcur, fh>>
    OBVIOUS
  <2> HIDE DEF OpenAttach
  <2> QED BY <2>1, <2>3, <2>4, <2>5, <2>6 DEF OfsTypeOK
<1>2. Locks'
  BY DEF OInv, OfsTypeOK, Locks, Locking, XprRefs, NeverFreedInUse
<1>3. XprRefs'
  BY DEF OInv, OfsTypeOK, XprRefs, Locks, Locking, Freed, NeverFreedInUse
<1>4. Derefs'
  <2>1. fh[f] \in Handles /\ owner[fh[f]] = f
    BY DEF OInv, OfsTypeOK, Locks, Locking
  <2>2. \A e \in Files : pc[e] = "deref" => fh[e] # fh[f]
    BY <2>1 DEF OInv, OfsTypeOK, Locks, Locking
  <2>a. User[f] # NoUser /\ UNCHANGED <<xprP, fh>>
    OBVIOUS
  <2>b. posc'[fh[f]] = Creator(f) /\ \A h \in Handles : h # fh[f] => posc'[h] = posc[h]
    BY <2>1 DEF OInv, OfsTypeOK
  <2>c. Creator(f) = User[f] \/ Creator(f) = posc[fh[f]]
    OBVIOUS
  <2>3. /\ \A h \in Handles : h # fh[f] => posc'[h] = posc[h]
        /\ posc'[fh[f]] = NoUser => posc[fh[f]] = NoUser
        /\ UNCHANGED <<xprP, fh>>
    BY <2>a, <2>b, <2>c
  <2>4. \A e \in Files : (pc'[e] = "deref") <=> (pc[e] = "deref")
    BY DEF OInv, OfsTypeOK
  <2>5. ASSUME NEW h \in Handles, xprP'[h] # NoXpr, posc'[h] = NoUser
        PROVE  \E e \in Files : fh'[e] = h /\ pc'[e] = "deref"
    <3>1. xprP[h] # NoXpr /\ posc[h] = NoUser
      BY <2>1, <2>3, <2>5
    <3>2. PICK e \in Files : fh[e] = h /\ pc[e] = "deref"
      BY <3>1 DEF OInv, Derefs
    <3>3. QED
      BY <3>2, <2>3, <2>4
  <2>6. ASSUME NEW e \in Files, pc'[e] = "deref"
        PROVE  xprP'[fh'[e]] # NoXpr /\ posc'[fh'[e]] = NoUser
    BY <2>2, <2>3, <2>4, <2>6 DEF OInv, OfsTypeOK, Derefs, Locks
  <2>7. QED
    BY <2>5, <2>6 DEF Derefs
<1>5. Freed'
  BY DEF OInv, OfsTypeOK, Freed, NeverFreedInUse, Locks
<1>6. NeverFreedInUse'
  BY DEF OInv, OfsTypeOK, NeverFreedInUse, Locks, Locking, XprRefs
<1>7. LinksCover'
  <2>1. \A h \in rwTable' : XprLink(h)' => XprLink(h)
    BY DEF OInv, OfsTypeOK, XprLink, XprRefs, Derefs, Locks, Locking
  <2>2. UNCHANGED <<fh, links>> /\ rwTable' \subseteq rwTable
    OBVIOUS
  <2>3. QED
    BY <2>1, <2>2, LinksFrame DEF OInv
<1>8. UnpersistUnused'
  BY DEF OInv, OfsTypeOK, UnpersistUnused, Refs, Locks, Locking, XprRefs, NeverFreedInUse
<1>9. QED
  BY <1>1, <1>2, <1>3, <1>4, <1>5, <1>6, <1>7, <1>8 DEF OInv

\* A file object is closed.
LEMMA KeepClose ==
  ASSUME OInv, NEW f \in Files, NEW p \in {"closing", "dropping"}, Close(f, p)
  PROVE  OInv'
<1> USE HandleAssumption DEF Close, Goto, Forget, QueueFree, handleVars, xprVars, fileVars
<1>1. OfsTypeOK'
  BY DEF OInv, OfsTypeOK, Locks, Pcs, Kinds
<1>2. Locks'
  BY DEF OInv, OfsTypeOK, Locks, Locking, XprRefs, NeverFreedInUse
<1>3. XprRefs'
  BY DEF OInv, OfsTypeOK, XprRefs, Locks, Locking, Freed, NeverFreedInUse
<1>4. Derefs'
  BY DEF OInv, OfsTypeOK, Derefs, Locks, Locking, XprRefs, Freed, NeverFreedInUse
<1>5. Freed'
  BY DEF OInv, OfsTypeOK, Freed, NeverFreedInUse, Locks
<1>6. NeverFreedInUse'
  BY DEF OInv, OfsTypeOK, NeverFreedInUse, Locks, Locking, XprRefs
<1>7. LinksCover'
  <2>1. \A h \in rwTable' : XprLink(h)' => XprLink(h)
    BY DEF OInv, OfsTypeOK, XprLink, XprRefs, Derefs, Locks, Locking
  <2>2. UNCHANGED <<fh, links>> /\ rwTable' \subseteq rwTable
    OBVIOUS
  <2>3. QED
    BY <2>1, <2>2, LinksFrame DEF OInv
<1>8. UnpersistUnused'
  BY DEF OInv, OfsTypeOK, UnpersistUnused, Refs, Locks, Locking, XprRefs, NeverFreedInUse
<1>9. QED
  BY <1>1, <1>2, <1>3, <1>4, <1>5, <1>6, <1>7, <1>8 DEF OInv

\* A closing file object gets the lock of its handle.
LEMMA KeepCloseLock ==
  ASSUME OInv, NEW f \in Files, FileLock(f)
  PROVE  OInv'
<1> USE HandleAssumption DEF FileLock, CloseLock, Goto, Forget, QueueFree, handleVars, xprVars, fileVars
<1>1. OfsTypeOK'
  BY DEF OInv, OfsTypeOK, Locks, Pcs, Kinds
<1>2. Locks'
  BY DEF OInv, OfsTypeOK, Locks, Locking, XprRefs, NeverFreedInUse
<1>3. XprRefs'
  BY DEF OInv, OfsTypeOK, XprRefs, Locks, Locking, Freed, NeverFreedInUse
<1>4. Derefs'
  BY DEF OInv, OfsTypeOK, Derefs, Locks, Locking, XprRefs, Freed, NeverFreedInUse
<1>5. Freed'
  BY DEF OInv, OfsTypeOK, Freed, NeverFreedInUse, Locks
<1>6. NeverFreedInUse'
  BY DEF OInv, OfsTypeOK, NeverFreedInUse, Locks, Locking, XprRefs
<1>7. LinksCover'
  <2>1. \A h \in rwTable' : XprLink(h)' => XprLink(h)
    BY DEF OInv, OfsTypeOK, XprLink, XprRefs, Derefs, Locks, Locking
  <2>2. UNCHANGED <<fh, links>> /\ rwTable' \subseteq rwTable
    OBVIOUS
  <2>3. QED
    BY <2>1, <2>2, LinksFrame DEF OInv
<1>8. UnpersistUnused'
  BY DEF OInv, OfsTypeOK, UnpersistUnused, Refs, Locks, Locking, XprRefs, NeverFreedInUse
<1>9. QED
  BY <1>1, <1>2, <1>3, <1>4, <1>5, <1>6, <1>7, <1>8 DEF OInv

\* A hidden handle keeps its users.
LEMMA KeepHide ==
  ASSUME OInv, Hide
  PROVE  OInv'
<1> USE HandleAssumption DEF Hide, Goto, Forget, QueueFree, handleVars, xprVars, fileVars
<1>1. OfsTypeOK'
  BY DEF OInv, OfsTypeOK, Locks, Pcs, Kinds
<1>2. Locks'
  BY DEF OInv, OfsTypeOK, Locks, Locking, XprRefs, NeverFreedInUse
<1>3. XprRefs'
  BY DEF OInv, OfsTypeOK, XprRefs, Locks, Locking, Freed, NeverFreedInUse
<1>4. Derefs'
  BY DEF OInv, OfsTypeOK, Derefs, Locks, Locking, XprRefs, Freed, NeverFreedInUse
<1>5. Freed'
  BY DEF OInv, OfsTypeOK, Freed, NeverFreedInUse, Locks
<1>6. NeverFreedInUse'
  BY DEF OInv, OfsTypeOK, NeverFreedInUse, Locks, Locking, XprRefs
<1>7. LinksCover'
  <2>1. \A h \in rwTable' : XprLink(h)' => XprLink(h)
    BY DEF OInv, OfsTypeOK, XprLink, XprRefs, Derefs, Locks, Locking
  <2>2. UNCHANGED <<fh, links>> /\ rwTable' \subseteq rwTable
    OBVIOUS
  <2>3. QED
    BY <2>1, <2>2, LinksFrame DEF OInv
<1>8. UnpersistUnused'
  BY DEF OInv, OfsTypeOK, UnpersistUnused, Refs, Locks, Locking, XprRefs, NeverFreedInUse
<1>9. QED
  BY <1>1, <1>2, <1>3, <1>4, <1>5, <1>6, <1>7, <1>8 DEF OInv

\* An xpr object without a handle goes.
LEMMA KeepXprDelete ==
  ASSUME OInv, XprDelete
  PROVE  OInv'
<1> USE HandleAssumption DEF XprDelete, Goto, Forget, QueueFree, handleVars, xprVars, fileVars
<1>1. OfsTypeOK'
  BY DEF OInv, OfsTypeOK, Locks, Pcs, Kinds
<1>2. Locks'
  BY DEF OInv, OfsTypeOK, Locks, Locking, XprRefs, NeverFreedInUse
<1>3. XprRefs'
  BY DEF OInv, OfsTypeOK, XprRefs, Locks, Locking, Freed, NeverFreedInUse
<1>4. Derefs'
  BY DEF OInv, OfsTypeOK, Derefs, Locks, Locking, XprRefs, Freed, NeverFreedInUse
<1>5. Freed'
  BY DEF OInv, OfsTypeOK, Freed, NeverFreedInUse, Locks
<1>6. NeverFreedInUse'
  BY DEF OInv, OfsTypeOK, NeverFreedInUse, Locks, Locking, XprRefs
<1>7. LinksCover'
  <2>1. \A h \in rwTable' : XprLink(h)' => XprLink(h)
    BY DEF OInv, OfsTypeOK, XprLink, XprRefs, Derefs, Locks, Locking
  <2>2. UNCHANGED <<fh, links>> /\ rwTable' \subseteq rwTable
    OBVIOUS
  <2>3. QED
    BY <2>1, <2>2, LinksFrame DEF OInv
<1>8. UnpersistUnused'
  BY DEF OInv, OfsTypeOK, UnpersistUnused, Refs, Locks, Locking, XprRefs, NeverFreedInUse
<1>9. QED
  BY <1>1, <1>2, <1>3, <1>4, <1>5, <1>6, <1>7, <1>8 DEF OInv

\* An xpr object gets its new time.
LEMMA KeepXprRequeue ==
  ASSUME OInv, XprRequeue
  PROVE  OInv'
<1> USE HandleAssumption DEF XprRequeue, Goto, Forget, QueueFree, handleVars, xprVars, fileVars
<1>1. OfsTypeOK'
  BY DEF OInv, OfsTypeOK, Locks, Pcs, Kinds
<1>2. Locks'
  BY DEF OInv, OfsTypeOK, Locks, Locking, XprRefs, NeverFreedInUse
<1>3. XprRefs'
  BY DEF OInv, OfsTypeOK, XprRefs, Locks, Locking, Freed, NeverFreedInUse
<1>4. Derefs'
  BY DEF OInv, OfsTypeOK, Derefs, Locks, Locking, XprRefs, Freed, NeverFreedInUse
<1>5. Freed'
  BY DEF OInv, OfsTypeOK, Freed, NeverFreedInUse, Locks
<1>6. NeverFreedInUse'
  BY DEF OInv, OfsTypeOK, NeverFreedInUse, Locks, Locking, XprRefs
<1>7. LinksCover'
  <2>1. \A h \in rwTable' : XprLink(h)' => XprLink(h)
    BY DEF OInv, OfsTypeOK, XprLink, XprRefs, Derefs, Locks, Locking
  <2>2. UNCHANGED <<fh, links>> /\ rwTable' \subseteq rwTable
    OBVIOUS
  <2>3. QED
    BY <2>1, <2>2, LinksFrame DEF OInv
<1>8. UnpersistUnused'
  BY DEF OInv, OfsTypeOK, UnpersistUnused, Refs, Locks, Locking, XprRefs, NeverFreedInUse
<1>9. QED
  BY <1>1, <1>2, <1>3, <1>4, <1>5, <1>6, <1>7, <1>8 DEF OInv

\* The thread takes an xpr object.
LEMMA KeepXprTake ==
  ASSUME OInv, XprTake
  PROVE  OInv'
<1> USE HandleAssumption DEF XprTake, Goto, Forget, QueueFree, handleVars, xprVars, fileVars
<1>1. OfsTypeOK'
  BY DEF OInv, OfsTypeOK, Locks, Pcs, Kinds
<1>2. Locks'
  BY DEF OInv, OfsTypeOK, Locks, Locking, XprRefs, NeverFreedInUse
<1>3. XprRefs'
  BY DEF OInv, OfsTypeOK, XprRefs, Locks, Locking, Freed, NeverFreedInUse
<1>4. Derefs'
  BY DEF OInv, OfsTypeOK, Derefs, Locks, Locking, XprRefs, Freed, NeverFreedInUse
<1>5. Freed'
  BY DEF OInv, OfsTypeOK, Freed, NeverFreedInUse, Locks
<1>6. NeverFreedInUse'
  BY DEF OInv, OfsTypeOK, NeverFreedInUse, Locks, Locking, XprRefs
<1>7. LinksCover'
  <2>1. \A h \in rwTable' : XprLink(h)' => XprLink(h)
    BY DEF OInv, OfsTypeOK, XprLink, XprRefs, Derefs, Locks, Locking
  <2>2. UNCHANGED <<fh, links>> /\ rwTable' \subseteq rwTable
    OBVIOUS
  <2>3. QED
    BY <2>1, <2>2, LinksFrame DEF OInv
<1>8. UnpersistUnused'
  BY DEF OInv, OfsTypeOK, UnpersistUnused, Refs, Locks, Locking, XprRefs, NeverFreedInUse
<1>9. QED
  BY <1>1, <1>2, <1>3, <1>4, <1>5, <1>6, <1>7, <1>8 DEF OInv

\* The thread gets the lock of the handle.
LEMMA KeepXprLocked ==
  ASSUME OInv, XprLocked
  PROVE  OInv'
<1> USE HandleAssumption DEF XprLocked, Goto, Forget, QueueFree, handleVars, xprVars, fileVars
<1>1. OfsTypeOK'
  BY DEF OInv, OfsTypeOK, Locks, Pcs, Kinds
<1>2. Locks'
  BY DEF OInv, OfsTypeOK, Locks, Locking, XprRefs, NeverFreedInUse
<1>3. XprRefs'
  BY DEF OInv, OfsTypeOK, XprRefs, Locks, Locking, Freed, NeverFreedInUse
<1>4. Derefs'
  BY DEF OInv, OfsTypeOK, Derefs, Locks, Locking, XprRefs, Freed, NeverFreedInUse
<1>5. Freed'
  BY DEF OInv, OfsTypeOK, Freed, NeverFreedInUse, Locks
<1>6. NeverFreedInUse'
  BY DEF OInv, OfsTypeOK, NeverFreedInUse, Locks, Locking, XprRefs
<1>7. LinksCover'
  <2>1. \A h \in rwTable' : XprLink(h)' => XprLink(h)
    BY DEF OInv, OfsTypeOK, XprLink, XprRefs, Derefs, Locks, Locking
  <2>2. UNCHANGED <<fh, links>> /\ rwTable' \subseteq rwTable
    OBVIOUS
  <2>3. QED
    BY <2>1, <2>2, LinksFrame DEF OInv
<1>8. UnpersistUnused'
  BY DEF OInv, OfsTypeOK, UnpersistUnused, Refs, Locks, Locking, XprRefs, NeverFreedInUse
<1>9. QED
  BY <1>1, <1>2, <1>3, <1>4, <1>5, <1>6, <1>7, <1>8 DEF OInv

\* The thread puts the xpr object back.
LEMMA KeepXprTimeout ==
  ASSUME OInv, XprTimeout
  PROVE  OInv'
<1> USE HandleAssumption DEF XprTimeout, Goto, Forget, QueueFree, handleVars, xprVars, fileVars
<1>1. OfsTypeOK'
  BY DEF OInv, OfsTypeOK, XprRefs
<1>2. Locks'
  BY DEF OInv, OfsTypeOK, Locks, Locking, XprRefs, NeverFreedInUse
<1>3. XprRefs'
  BY DEF OInv, OfsTypeOK, XprRefs, Locks, Locking, Freed, NeverFreedInUse
<1>4. Derefs'
  BY DEF OInv, OfsTypeOK, Derefs, Locks, Locking, XprRefs, Freed, NeverFreedInUse
<1>5. Freed'
  BY DEF OInv, OfsTypeOK, Freed, NeverFreedInUse, Locks
<1>6. NeverFreedInUse'
  BY DEF OInv, OfsTypeOK, NeverFreedInUse, Locks, Locking, XprRefs
<1>7. LinksCover'
  <2>1. \A h \in rwTable' : XprLink(h)' => XprLink(h)
    BY DEF OInv, OfsTypeOK, XprLink, XprRefs, Derefs, Locks, Locking
  <2>2. UNCHANGED <<fh, links>> /\ rwTable' \subseteq rwTable
    OBVIOUS
  <2>3. QED
    BY <2>1, <2>2, LinksFrame DEF OInv
<1>8. UnpersistUnused'
  BY DEF OInv, OfsTypeOK, UnpersistUnused, Refs, Locks, Locking, XprRefs, NeverFreedInUse
<1>9. QED
  BY <1>1, <1>2, <1>3, <1>4, <1>5, <1>6, <1>7, <1>8 DEF OInv

\* The file is unpersisted.
LEMMA KeepXprCall ==
  ASSUME OInv, XprCall
  PROVE  OInv'
<1> USE HandleAssumption DEF XprCall, Goto, Forget, QueueFree, handleVars, xprVars, fileVars
<1>1. OfsTypeOK'
  BY DEF OInv, OfsTypeOK, Locks, Pcs, Kinds
<1>2. Locks'
  BY DEF OInv, OfsTypeOK, Locks, Locking, XprRefs, NeverFreedInUse
<1>3. XprRefs'
  BY DEF OInv, OfsTypeOK, XprRefs, Locks, Locking, Freed, NeverFreedInUse
<1>4. Derefs'
  BY DEF OInv, OfsTypeOK, Derefs, Locks, Locking, XprRefs, Freed, NeverFreedInUse
<1>5. Freed'
  BY DEF OInv, OfsTypeOK, Freed, NeverFreedInUse, Locks
<1>6. NeverFreedInUse'
  BY DEF OInv, OfsTypeOK, NeverFreedInUse, Locks, Locking, XprRefs
<1>7. LinksCover'
  <2>1. \A h \in rwTable' : XprLink(h)' => XprLink(h)
    BY DEF OInv, OfsTypeOK, XprLink, XprRefs, Derefs, Locks, Locking
  <2>2. UNCHANGED <<fh, links>> /\ rwTable' \subseteq rwTable
    OBVIOUS
  <2>3. QED
    BY <2>1, <2>2, LinksFrame DEF OInv
<1>8. UnpersistUnused'
  BY DEF OInv, OfsTypeOK, UnpersistUnused, Refs, Locks, Locking, XprRefs, NeverFreedInUse
<1>9. QED
  BY <1>1, <1>2, <1>3, <1>4, <1>5, <1>6, <1>7, <1>8 DEF OInv

\* StartXpr never meets a handle that does not refer to its xpr object.
LEMMA CheckHolds == OInv => XprValid
<1> SUFFICES ASSUME OInv, xpc = "locked"
             PROVE  posc[xHandle[xcur]] # NoUser /\ xprP[xHandle[xcur]] = xcur
  BY DEF XprValid
<1> DEFINE h == xHandle[xcur]
<1>1. xcur \in Xprs /\ h \in Handles
  BY DEF OInv, OfsTypeOK, XprRefs
<1>2. xprP[h] = xcur
  BY <1>1 DEF OInv, XprRefs
<1>3. owner[h] = Expirer
  BY <1>1 DEF OInv, Locks
<1>4. ~ \E f \in Files : fh[f] = h /\ pc[f] = "deref"
  BY <1>1, <1>3, HandleAssumption DEF OInv, Locks, Locking
<1>5. posc[h] # NoUser
  BY <1>1, <1>2, <1>4, HandleAssumption DEF OInv, Derefs
<1>6. QED
  BY <1>2, <1>5

\* The thread cuts the handle's reference and takes over its link; if that is
\* the only link, nobody uses the handle.
LEMMA KeepXprCheck ==
  ASSUME OInv, XprCheck
  PROVE  OInv'
<1> DEFINE h == xHandle[xcur]
<1> USE HandleAssumption
<1>0. /\ xpc = "locked" /\ xcur \in Xprs /\ h \in Handles
      /\ posc[h] # NoUser /\ xprP[h] = xcur
      /\ xcur \notin xprQ
  BY CheckHolds DEF OInv, OfsTypeOK, XprRefs, XprValid, XprCheck
<1>a. /\ xprP' = [xprP EXCEPT ![h] = NoXpr]
      /\ xpc' = IF links[h] = 1 THEN "call" ELSE "retire"
      /\ UNCHANGED <<owner, xcur, xHandle, rwTable, hidden, links, isPC, active, posc>>
      /\ UNCHANGED <<xprQ, xTNew, pc, fh, fk>>
  BY <1>0 DEF XprCheck, fileVars
<1>1. OfsTypeOK'
  BY <1>0, <1>a DEF OInv, OfsTypeOK
<1>2. Locks'
  BY <1>0, <1>a DEF OInv, Locks
<1>3. XprRefs'
  BY <1>0, <1>a DEF OInv, OfsTypeOK, XprRefs
<1>4. Derefs'
  <2>1. owner[h] = Expirer
    BY <1>0 DEF OInv, Locks
  <2>2. \A f \in Files : pc[f] = "deref" => fh[f] # h
    BY <1>0, <2>1 DEF OInv, Locks, Locking
  <2>3. QED
    BY <1>0, <1>a, <2>2 DEF OInv, OfsTypeOK, Derefs
<1>5. Freed'
  BY <1>0, <1>a DEF OInv, OfsTypeOK, Freed
<1>6. NeverFreedInUse'
  BY <1>a DEF OInv, NeverFreedInUse
<1>7. XprLink(h)
  BY <1>0 DEF XprLink
<1>8. LinksCover'
  <2>1. \A g \in rwTable' : XprLink(g)' => XprLink(g)
    BY <1>0, <1>a, <1>7 DEF OInv, OfsTypeOK, XprLink
  <2>2. QED
    BY <1>a, <2>1, LinksFrame DEF OInv
<1>9. UnpersistUnused'
  <2>1. SUFFICES ASSUME links[h] = 1 PROVE Refs(h) = {}
    BY <1>a DEF UnpersistUnused, Refs
  <2>2. h \in rwTable
    BY <1>0 DEF OInv, NeverFreedInUse
  <2>3. Uses(h) <= 1
    BY <2>1, <2>2, CardRefs DEF OInv, LinksCover, Uses
  <2>4. Cardinality(Refs(h)) = 0
    BY <2>3, <1>7, CardRefs DEF Uses
  <2>5. QED
    BY <2>4, CardRefs, FS_EmptySet
<1>10. QED
  BY <1>1, <1>2, <1>3, <1>4, <1>5, <1>6, <1>8, <1>9 DEF OInv

\* A file object finds the handle: a link more and a user more.
LEMMA KeepOpenFind ==
  ASSUME OInv, NEW f \in Files, NEW k \in Kinds, OpenFind(f, k)
  PROVE  OInv'
<1> USE HandleAssumption DEF OpenFind, Goto, Forget, QueueFree, handleVars, xprVars, fileVars
<1>1. OfsTypeOK'
  BY DEF OInv, OfsTypeOK, Locks, Pcs, Kinds
<1>2. Locks'
  BY DEF OInv, OfsTypeOK, Locks, Locking, XprRefs, NeverFreedInUse
<1>3. XprRefs'
  BY DEF OInv, OfsTypeOK, XprRefs, Locks, Locking, Freed, NeverFreedInUse
<1>4. Derefs'
  BY DEF OInv, OfsTypeOK, Derefs, Locks, Locking, XprRefs, Freed, NeverFreedInUse
<1>5. Freed'
  BY DEF OInv, OfsTypeOK, Freed, NeverFreedInUse, Locks
<1>6. NeverFreedInUse'
  BY DEF OInv, OfsTypeOK, NeverFreedInUse, Locks, Locking, XprRefs
<1>7. LinksCover'
  <2>1. PICK g \in rwTable \ hidden :
           links' = [links EXCEPT ![g] = @ + 1] /\ fh' = [fh EXCEPT ![f] = g]
    OBVIOUS
  <2>2. g \in Handles /\ fh[f] = NoHandle /\ rwTable' = rwTable
    BY DEF OInv, OfsTypeOK, Locks
  <2>3. /\ Cardinality(Refs(g)') = Cardinality(Refs(g)) + 1
        /\ \A h \in Handles : h # g => Refs(h)' = Refs(h)
    BY <2>1, <2>2, RefsAdd DEF OInv
  <2>4. \A h \in Handles : XprLink(h)' = XprLink(h)
    BY DEF XprLink
  <2>5. SUFFICES ASSUME NEW h \in rwTable PROVE links'[h] >= Uses(h)'
    BY <2>2 DEF LinksCover
  <2>6. h \in Handles /\ links[h] \in Int /\ links[h] >= Uses(h)
    BY DEF OInv, OfsTypeOK, LinksCover
  <2>7. links'[h] = IF h = g THEN links[h] + 1 ELSE links[h]
    BY <2>1, <2>2, <2>6 DEF OInv, OfsTypeOK
  <2>8. QED
    BY <2>3, <2>4, <2>6, <2>7, CardRefs DEF Uses
<1>8. UnpersistUnused'
  BY DEF OInv, OfsTypeOK, UnpersistUnused, Refs, Locks, Locking, XprRefs, NeverFreedInUse
<1>9. QED
  BY <1>1, <1>2, <1>3, <1>4, <1>5, <1>6, <1>7, <1>8 DEF OInv

\* A handle from the free list has no user but the file object.
LEMMA KeepOpenNew ==
  ASSUME OInv, NEW f \in Files, NEW k \in Kinds, OpenNew(f, k)
  PROVE  OInv'
<1> USE HandleAssumption DEF OpenNew, Goto, Forget, QueueFree, handleVars, xprVars, fileVars
<1>1. OfsTypeOK'
  BY DEF OInv, OfsTypeOK, Locks, Pcs, Kinds
<1>2. Locks'
  BY DEF OInv, OfsTypeOK, Locks, Locking, XprRefs, NeverFreedInUse
<1>3. XprRefs'
  BY DEF OInv, OfsTypeOK, XprRefs, Locks, Locking, Freed, NeverFreedInUse
<1>4. Derefs'
  BY DEF OInv, OfsTypeOK, Derefs, Locks, Locking, XprRefs, Freed, NeverFreedInUse
<1>5. Freed'
  BY DEF OInv, OfsTypeOK, Freed, NeverFreedInUse, Locks
<1>6. NeverFreedInUse'
  BY DEF OInv, OfsTypeOK, NeverFreedInUse, Locks, Locking, XprRefs
<1>7. LinksCover'
  <2>1. PICK g \in Handles \ rwTable :
           /\ rwTable' = rwTable \cup {g}
           /\ links' = [links EXCEPT ![g] = 1] /\ fh' = [fh EXCEPT ![f] = g]
    OBVIOUS
  <2>2. OfsTypeOK /\ g \in Handles /\ fh[f] = NoHandle
    BY DEF OInv, Locks
  <2> HIDE DEF OpenNew
  <2>3. /\ Cardinality(Refs(g)') = Cardinality(Refs(g)) + 1
        /\ \A h \in Handles : h # g => Refs(h)' = Refs(h)
    BY <2>1, <2>2, RefsAdd
  <2> USE DEF OpenNew
  <2>4. \A h \in Handles : XprLink(h)' = XprLink(h)
    BY DEF XprLink
  <2>5. Refs(g) = {} /\ ~XprLink(g)
    BY <2>1 DEF OInv, OfsTypeOK, NeverFreedInUse, Refs, XprLink, Freed, XprRefs
  <2>6. Cardinality(Refs(g)) = 0
    BY <2>5, FS_EmptySet
  <2>7. Uses(g)' = 1
    BY <2>1, <2>3, <2>4, <2>5, <2>6 DEF Uses
  <2>8. \A h \in rwTable : Uses(h)' = Uses(h)
    BY <2>1, <2>3, <2>4 DEF OInv, OfsTypeOK, Uses
  <2>9. links'[g] = 1 /\ \A h \in rwTable : links'[h] = links[h]
    BY <2>1 DEF OInv, OfsTypeOK
  <2>10. QED
    BY <2>1, <2>7, <2>8, <2>9 DEF OInv, LinksCover
<1>8. UnpersistUnused'
  BY DEF OInv, OfsTypeOK, UnpersistUnused, Refs, Locks, Locking, XprRefs, NeverFreedInUse
<1>9. QED
  BY <1>1, <1>2, <1>3, <1>4, <1>5, <1>6, <1>7, <1>8 DEF OInv

\* A file object that waited in vain takes its link back.
LEMMA KeepOpenUndo ==
  ASSUME OInv, NEW f \in Files, OpenUndo(f)
  PROVE  OInv'
<1> USE HandleAssumption DEF OpenUndo, Goto, Forget, QueueFree, handleVars, xprVars, fileVars
<1>1. OfsTypeOK'
  BY DEF OInv, OfsTypeOK, Locks, Pcs, Kinds
<1>2. Locks'
  BY DEF OInv, OfsTypeOK, Locks, Locking, XprRefs, NeverFreedInUse
<1>3. XprRefs'
  BY DEF OInv, OfsTypeOK, XprRefs, Locks, Locking, Freed, NeverFreedInUse
<1>4. Derefs'
  BY DEF OInv, OfsTypeOK, Derefs, Locks, Locking, XprRefs, Freed, NeverFreedInUse
<1>5. Freed'
  BY DEF OInv, OfsTypeOK, Freed, NeverFreedInUse, Locks
<1>6. NeverFreedInUse'
  BY DEF OInv, OfsTypeOK, NeverFreedInUse, Locks, Locking, XprRefs
<1>7. LinksCover'
  <2> DEFINE g == fh[f]
  <2>1. g \in Handles
    BY DEF OInv, OfsTypeOK, Locks
  <2>2. /\ Cardinality(Refs(g)) = Cardinality({e \in Files : fh'[e] = g}) + 1
        /\ \A h \in Handles : h # g => Refs(h)' = Refs(h)
    <3>1. fh' = [fh EXCEPT ![f] = NoHandle]
      OBVIOUS
    <3>2. QED
      BY <2>1, <3>1, RefsDrop DEF OInv
  <2>3. \A h \in Handles : XprLink(h)' = XprLink(h)
    BY DEF XprLink
  <2>4. SUFFICES ASSUME NEW h \in rwTable PROVE links'[h] >= Uses(h)'
    BY DEF LinksCover
  <2>5. h \in Handles /\ links[h] \in Int /\ links[h] >= Uses(h)
    BY DEF OInv, OfsTypeOK, LinksCover
  <2>6. links'[h] = IF h = g THEN links[h] - 1 ELSE links[h]
    BY <2>1, <2>5 DEF OInv, OfsTypeOK
  <2>7. CASE h # g
    BY <2>2, <2>3, <2>5, <2>6, <2>7 DEF Uses
  <2>8. CASE h = g
    <3>1. Refs(h)' = {e \in Files : fh'[e] = g}
      BY <2>8 DEF Refs
    <3>2. Cardinality(Refs(h)) = Cardinality(Refs(h)') + 1
      BY <3>1, <2>2, <2>8
    <3>3. Cardinality(Refs(h)') \in Nat
      BY <3>1, HandleAssumption, FS_Subset, FS_CardinalityType
    <3>4. QED
      BY <3>2, <3>3, <2>3, <2>5, <2>6, <2>8 DEF Uses
  <2>9. QED
    BY <2>7, <2>8
<1>8. UnpersistUnused'
  BY DEF OInv, OfsTypeOK, UnpersistUnused, Refs, Locks, Locking, XprRefs, NeverFreedInUse
<1>9. QED
  BY <1>1, <1>2, <1>3, <1>4, <1>5, <1>6, <1>7, <1>8 DEF OInv

\* The link of the xpr object goes with Posc.
LEMMA KeepCloseGet ==
  ASSUME OInv, NEW f \in Files, CloseGet(f)
  PROVE  OInv'
<1> USE HandleAssumption DEF CloseGet, Goto, Forget, QueueFree, handleVars, xprVars, fileVars
<1>1. OfsTypeOK'
  BY DEF OInv, OfsTypeOK, Locks, Pcs, Kinds
<1>2. Locks'
  BY DEF OInv, OfsTypeOK, Locks, Locking, XprRefs, NeverFreedInUse
<1>3. XprRefs'
  BY DEF OInv, OfsTypeOK, XprRefs, Locks, Locking, Freed, NeverFreedInUse
<1>4. Derefs'
  BY DEF OInv, OfsTypeOK, Derefs, Locks, Locking, XprRefs, Freed, NeverFreedInUse
<1>5. Freed'
  BY DEF OInv, OfsTypeOK, Freed, NeverFreedInUse, Locks
<1>6. NeverFreedInUse'
  BY DEF OInv, OfsTypeOK, NeverFreedInUse, Locks, Locking, XprRefs
<1>7. LinksCover'
  <2> DEFINE g == fh[f]
  <2>1. g \in Handles /\ owner[g] = f
    BY DEF OInv, OfsTypeOK, Locks, Locking
  <2>2. \A h \in Handles : Refs(h)' = Refs(h)
    BY DEF Refs
  <2>3. \A h \in Handles : h # g => XprLink(h)' = XprLink(h)
    BY <2>1 DEF OInv, OfsTypeOK, XprLink
  <2>4. ~XprLink(g)'
    BY <2>1 DEF OInv, OfsTypeOK, XprLink, Locks
  <2>5. xprP[g] # NoXpr => XprLink(g)
    <3>1. ~ \E e \in Files : fh[e] = g /\ pc[e] = "deref"
      BY <2>1 DEF OInv, Locks, Locking
    <3>2. QED
      BY <3>1, <2>1 DEF OInv, Derefs, XprLink
  <2>6. SUFFICES ASSUME NEW h \in rwTable PROVE links'[h] >= Uses(h)'
    BY DEF LinksCover
  <2>7. h \in Handles /\ links[h] \in Int /\ links[h] >= Uses(h)
    BY DEF OInv, OfsTypeOK, LinksCover
  <2>8. links'[h] = IF h = g /\ xprP[g] # NoXpr THEN links[h] - 1 ELSE links[h]
    BY <2>1, <2>7 DEF OInv, OfsTypeOK
  <2>9. QED
    BY <2>2, <2>3, <2>4, <2>5, <2>7, <2>8, CardRefs DEF Uses
<1>8. UnpersistUnused'
  BY DEF OInv, OfsTypeOK, UnpersistUnused, Refs, Locks, Locking, XprRefs, NeverFreedInUse
<1>9. QED
  BY <1>1, <1>2, <1>3, <1>4, <1>5, <1>6, <1>7, <1>8 DEF OInv

\* The xpr object takes over the link of the file object.
LEMMA KeepDropDefer ==
  ASSUME OInv, NEW f \in Files, DropDefer(f)
  PROVE  OInv'
<1> USE HandleAssumption DEF DropDefer, Goto, Forget, QueueFree, handleVars, xprVars, fileVars
<1>1. OfsTypeOK'
  BY DEF OInv, OfsTypeOK, Locks, Pcs, Kinds
<1>2. Locks'
  BY DEF OInv, OfsTypeOK, Locks, Locking, XprRefs, NeverFreedInUse
<1>3. XprRefs'
  BY DEF OInv, OfsTypeOK, XprRefs, Locks, Locking, Freed, NeverFreedInUse
<1>4. Derefs'
  BY DEF OInv, OfsTypeOK, Derefs, Locks, Locking, XprRefs, Freed, NeverFreedInUse
<1>5. Freed'
  BY DEF OInv, OfsTypeOK, Freed, NeverFreedInUse, Locks
<1>6. NeverFreedInUse'
  BY DEF OInv, OfsTypeOK, NeverFreedInUse, Locks, Locking, XprRefs
<1>7. LinksCover'
  <2> DEFINE g == fh[f]
  <2>1. OfsTypeOK /\ g \in Handles /\ fh' = [fh EXCEPT ![f] = NoHandle]
    BY DEF OInv, OfsTypeOK, Locks
  <2>2. /\ Cardinality(Refs(g)) = Cardinality({e \in Files : fh'[e] = g}) + 1
        /\ \A h \in Handles : h # g => Refs(h)' = Refs(h)
    BY <2>1, RefsDrop
  <2>3. IsFiniteSet({e \in Files : fh'[e] = g}) /\ Cardinality({e \in Files : fh'[e] = g}) \in Nat
    BY HandleAssumption, FS_Subset, FS_CardinalityType
  <2>4. \A h \in Handles : h # g => (XprLink(h)' => XprLink(h))
    BY <2>1 DEF OInv, OfsTypeOK, XprLink
  <2>5. SUFFICES ASSUME NEW h \in rwTable PROVE links[h] >= Uses(h)'
    BY DEF LinksCover
  <2>6. h \in Handles /\ links[h] \in Int /\ links[h] >= Uses(h)
    BY DEF OInv, OfsTypeOK, LinksCover
  <2>7. CASE h # g
    <3>1. Refs(h)' = Refs(h) /\ (XprLink(h)' => XprLink(h)) /\ Cardinality(Refs(h)) \in Nat
      BY <2>2, <2>4, <2>6, <2>7, CardRefs
    <3>2. QED
      BY <3>1, <2>6 DEF Uses
  <2>8. CASE h = g
    <3>1. Refs(h)' = {e \in Files : fh'[e] = g}
      BY <2>8 DEF Refs
    <3>2. QED
      BY <3>1, <2>2, <2>3, <2>6, <2>8 DEF Uses
  <2>9. QED
    BY <2>7, <2>8
<1>8. UnpersistUnused'
  BY DEF OInv, OfsTypeOK, UnpersistUnused, Refs, Locks, Locking, XprRefs, NeverFreedInUse
<1>9. QED
  BY <1>1, <1>2, <1>3, <1>4, <1>5, <1>6, <1>7, <1>8 DEF OInv

\* The xpr object of the handle gets a new time; the link stays.
LEMMA KeepDropAgain ==
  ASSUME OInv, NEW f \in Files, DropAgain(f)
  PROVE  OInv'
<1> USE HandleAssumption DEF DropAgain, Goto, Forget, QueueFree, handleVars, xprVars, fileVars
<1>1. OfsTypeOK'
  BY DEF OInv, OfsTypeOK, Locks, Pcs, Kinds
<1>2. Locks'
  BY DEF OInv, OfsTypeOK, Locks, Locking, XprRefs, NeverFreedInUse
<1>3. XprRefs'
  BY DEF OInv, OfsTypeOK, XprRefs, Locks, Locking, Freed, NeverFreedInUse
<1>4. Derefs'
  BY DEF OInv, OfsTypeOK, Derefs, Locks, Locking, XprRefs, Freed, NeverFreedInUse
<1>5. Freed'
  BY DEF OInv, OfsTypeOK, Freed, NeverFreedInUse, Locks
<1>6. NeverFreedInUse'
  BY DEF OInv, OfsTypeOK, NeverFreedInUse, Locks, Locking, XprRefs
<1>7. LinksCover'
  <2> DEFINE g == fh[f]
  <2>1. OfsTypeOK /\ g \in Handles /\ fh' = [fh EXCEPT ![f] = NoHandle]
    BY DEF OInv, OfsTypeOK, Locks
  <2>2. /\ Cardinality(Refs(g)) = Cardinality({e \in Files : fh'[e] = g}) + 1
        /\ \A h \in Handles : h # g => Refs(h)' = Refs(h)
    BY <2>1, RefsDrop
  <2>3. IsFiniteSet({e \in Files : fh'[e] = g}) /\ Cardinality({e \in Files : fh'[e] = g}) \in Nat
    BY HandleAssumption, FS_Subset, FS_CardinalityType
  <2>4. \A h \in Handles : XprLink(h)' = XprLink(h)
    BY DEF XprLink
  <2>5. SUFFICES ASSUME NEW h \in rwTable PROVE links[h] >= Uses(h)'
    BY DEF LinksCover
  <2>6. h \in Handles /\ links[h] \in Int /\ links[h] >= Uses(h)
    BY DEF OInv, OfsTypeOK, LinksCover
  <2>7. CASE h # g
    BY <2>2, <2>4, <2>6, <2>7 DEF Uses
  <2>8. CASE h = g
    <3>1. Refs(h)' = {e \in Files : fh'[e] = g}
      BY <2>8 DEF Refs
    <3>2. QED
      BY <3>1, <2>2, <2>3, <2>4, <2>6, <2>8 DEF Uses
  <2>9. QED
    BY <2>7, <2>8
<1>8. UnpersistUnused'
  BY DEF OInv, OfsTypeOK, UnpersistUnused, Refs, Locks, Locking, XprRefs, NeverFreedInUse
<1>9. QED
  BY <1>1, <1>2, <1>3, <1>4, <1>5, <1>6, <1>7, <1>8 DEF OInv

\* A file object that has the last link is the only user of its handle.
LEMMA LastFile ==
  ASSUME OInv, NEW f \in Files, pc[f] = "retire", links[fh[f]] = 1
  PROVE  /\ \A e \in Files : fh[e] = fh[f] => e = f
         /\ xprP[fh[f]] = NoXpr
         /\ \A x \in Xprs : xHandle[x] # fh[f]
<1> DEFINE h == fh[f]
<1>1. h \in Handles /\ h \in rwTable /\ owner[h] = f
  BY DEF OInv, OfsTypeOK, Locks, Locking, NeverFreedInUse
<1>2. Uses(h) <= 1
  BY <1>1, CardRefs DEF OInv, LinksCover, Uses
<1>3. Cardinality(Refs(h)) >= 1 /\ Cardinality(Refs(h)) \in Nat
  BY RefPositive, CardRefs
<1>4. Cardinality(Refs(h)) = 1 /\ ~XprLink(h)
  BY <1>2, <1>3 DEF Uses
<1>5. \A e \in Files : fh[e] = h => e = f
  BY <1>4, RefsTwo
<1>6. xprP[h] = NoXpr
  <2>1. ~ \E e \in Files : fh[e] = h /\ pc[e] = "deref"
    BY <1>5
  <2>2. QED
    BY <1>1, <1>4, <2>1 DEF OInv, Derefs, XprLink
<1>7. \A x \in Xprs : xHandle[x] # h
  BY <1>1, <1>4, <1>6, HandleAssumption DEF OInv, XprRefs, XprLink
<1>8. QED
  BY <1>5, <1>6, <1>7

\* The thread that has the last link leaves no user behind.
LEMMA LastExpirer ==
  ASSUME OInv, xpc = "retire", links[xHandle[xcur]] = 1
  PROVE  \A f \in Files : fh[f] # xHandle[xcur]
<1> DEFINE h == xHandle[xcur]
<1>1. h \in Handles /\ xcur \in Xprs
  BY DEF OInv, OfsTypeOK, XprRefs
<1>2. h \in rwTable
  BY <1>1, HandleAssumption DEF OInv, NeverFreedInUse
<1>3. XprLink(h)
  BY DEF XprLink
<1>4. Cardinality(Refs(h)) = 0
  BY <1>2, <1>3, CardRefs DEF OInv, LinksCover, Uses
<1>5. QED
  BY <1>4, RefsNone

\* A file object retires its handle.
LEMMA KeepFileRetire ==
  ASSUME OInv, NEW f \in Files, FileRetire(f)
  PROVE  OInv'
<1> USE HandleAssumption DEF FileRetire, Retire, Goto, Forget, QueueFree, handleVars, xprVars, fileVars
<1>1. OfsTypeOK'
  <2>1. fh[f] \in Handles
    BY DEF OInv, OfsTypeOK, Locks
  <2>2. hidden' \subseteq rwTable' /\ rwTable' \subseteq Handles
    BY DEF OInv, OfsTypeOK
  <2>3. links' \in [Handles -> Int]
    BY <2>1 DEF OInv, OfsTypeOK
  <2>4. /\ owner' \in [Handles -> Files \cup {Expirer, Nobody}]
        /\ active' \in [Handles -> BOOLEAN] /\ xTNew' \in [Xprs -> BOOLEAN]
    BY DEF OInv, OfsTypeOK
  <2>5. /\ posc' \in [Handles -> Users \cup {NoUser}]
        /\ xprP' \in [Handles -> Xprs \cup {NoXpr}]
        /\ xHandle' \in [Xprs -> Handles \cup {NoHandle}]
    BY DEF OInv, OfsTypeOK
  <2>6. QED
    BY <2>2, <2>3, <2>4, <2>5 DEF OInv, OfsTypeOK, Pcs
<1>2. Locks'
  BY DEF OInv, OfsTypeOK, Locks, Locking, XprRefs, NeverFreedInUse
<1>3. XprRefs'
  <2>0. links[fh[f]] = 1 => /\ \A e \in Files : fh[e] = fh[f] => e = f
                             /\ xprP[fh[f]] = NoXpr
                             /\ \A x \in Xprs : xHandle[x] # fh[f]
    BY LastFile
  <2>1. fh[f] \in Handles /\ owner[fh[f]] = f
    BY DEF OInv, OfsTypeOK, Locks, Locking
  <2>2. QED
    BY <2>0, <2>1 DEF OInv, OfsTypeOK, XprRefs, Locks, Locking
<1>4. Derefs'
  <2>0. links[fh[f]] = 1 => /\ \A e \in Files : fh[e] = fh[f] => e = f
                             /\ xprP[fh[f]] = NoXpr
                             /\ \A x \in Xprs : xHandle[x] # fh[f]
    BY LastFile
  <2>1. fh[f] \in Handles /\ owner[fh[f]] = f
    BY DEF OInv, OfsTypeOK, Locks, Locking
  <2>2. QED
    BY <2>0, <2>1 DEF OInv, OfsTypeOK, Derefs, Locks, Locking
<1>5. Freed'
  <2>0. links[fh[f]] = 1 => /\ \A e \in Files : fh[e] = fh[f] => e = f
                             /\ xprP[fh[f]] = NoXpr
                             /\ \A x \in Xprs : xHandle[x] # fh[f]
    BY LastFile
  <2>1. fh[f] \in Handles /\ owner[fh[f]] = f
    BY DEF OInv, OfsTypeOK, Locks, Locking
  <2>2. QED
    BY <2>0, <2>1 DEF OInv, OfsTypeOK, Freed
<1>6. NeverFreedInUse'
  <2>0. links[fh[f]] = 1 => /\ \A e \in Files : fh[e] = fh[f] => e = f
                             /\ xprP[fh[f]] = NoXpr
                             /\ \A x \in Xprs : xHandle[x] # fh[f]
    BY LastFile
  <2>1. fh[f] \in Handles /\ owner[fh[f]] = f
    BY DEF OInv, OfsTypeOK, Locks, Locking
  <2>2. QED
    BY <2>0, <2>1 DEF OInv, OfsTypeOK, NeverFreedInUse, Locks, Locking
<1>7. LinksCover'
  <2> DEFINE g == fh[f]
  <2>1. OfsTypeOK /\ g \in Handles /\ fh' = [fh EXCEPT ![f] = NoHandle]
    BY DEF OInv, OfsTypeOK, Locks
  <2>2. /\ Cardinality(Refs(g)) = Cardinality({e \in Files : fh'[e] = g}) + 1
        /\ \A h \in Handles : h # g => Refs(h)' = Refs(h)
    BY <2>1, RefsDrop
  <2>3. IsFiniteSet({e \in Files : fh'[e] = g}) /\ Cardinality({e \in Files : fh'[e] = g}) \in Nat
    BY HandleAssumption, FS_Subset, FS_CardinalityType
  <2>4. \A h \in Handles : h # g => (XprLink(h)' => XprLink(h))
    BY <2>1 DEF OInv, OfsTypeOK, XprLink, XprRefs
  <2>5. SUFFICES ASSUME NEW h \in rwTable' PROVE links'[h] >= Uses(h)'
    BY DEF LinksCover
  <2>6. /\ h \in Handles /\ links[h] \in Int /\ links[h] >= Uses(h)
        /\ h = g => links[g] # 1
        /\ links'[h] = IF h = g THEN links[h] - 1 ELSE links[h]
    BY <2>1 DEF OInv, OfsTypeOK, LinksCover
  <2>7. CASE h # g
    <3>1. Refs(h)' = Refs(h) /\ (XprLink(h)' => XprLink(h)) /\ Cardinality(Refs(h)) \in Nat
      BY <2>2, <2>4, <2>6, <2>7, CardRefs
    <3>2. QED
      BY <3>1, <2>6, <2>7 DEF Uses
  <2>8. CASE h = g
    <3>1. Refs(h)' = {e \in Files : fh'[e] = g}
      BY <2>8 DEF Refs
    <3>2. XprLink(h)' => XprLink(h)
      BY <2>1, <2>6, <2>8 DEF OInv, OfsTypeOK, XprLink, XprRefs
    <3>3. QED
      BY <3>1, <3>2, <2>2, <2>3, <2>6, <2>8 DEF Uses
  <2>9. QED
    BY <2>7, <2>8
<1>8. UnpersistUnused'
  BY DEF OInv, OfsTypeOK, UnpersistUnused, Refs, Locks, Locking, XprRefs, NeverFreedInUse
<1>9. QED
  BY <1>1, <1>2, <1>3, <1>4, <1>5, <1>6, <1>7, <1>8 DEF OInv

\* The thread retires the handle and deletes the xpr object.
LEMMA KeepXprRetire ==
  ASSUME OInv, XprRetire
  PROVE  OInv'
<1> USE HandleAssumption DEF XprRetire, Retire, Goto, Forget, QueueFree, handleVars, xprVars, fileVars
<1>1. OfsTypeOK'
  <2>1. xHandle[xcur] \in Handles
    BY DEF OInv, XprRefs
  <2>2. hidden' \subseteq rwTable' /\ rwTable' \subseteq Handles
    BY DEF OInv, OfsTypeOK
  <2>3. links' \in [Handles -> Int]
    BY <2>1 DEF OInv, OfsTypeOK
  <2>4. /\ owner' \in [Handles -> Files \cup {Expirer, Nobody}]
        /\ active' \in [Handles -> BOOLEAN] /\ xTNew' \in [Xprs -> BOOLEAN]
    BY DEF OInv, OfsTypeOK
  <2>5. /\ posc' \in [Handles -> Users \cup {NoUser}]
        /\ xprP' \in [Handles -> Xprs \cup {NoXpr}]
        /\ xHandle' \in [Xprs -> Handles \cup {NoHandle}]
    BY DEF OInv, OfsTypeOK
  <2>6. QED
    BY <2>2, <2>3, <2>4, <2>5 DEF OInv, OfsTypeOK
<1>2. Locks'
  <2>0. links[xHandle[xcur]] = 1 => \A f \in Files : fh[f] # xHandle[xcur]
    BY LastExpirer
  <2>1. xHandle[xcur] \in Handles /\ owner[xHandle[xcur]] = Expirer /\ xcur \in Xprs
    BY DEF OInv, OfsTypeOK, Locks, XprRefs
  <2>2. QED
    BY <2>0, <2>1 DEF OInv, OfsTypeOK, Locks, Locking, XprRefs
<1>3. XprRefs'
  <2>0. links[xHandle[xcur]] = 1 => \A f \in Files : fh[f] # xHandle[xcur]
    BY LastExpirer
  <2>1. xHandle[xcur] \in Handles /\ owner[xHandle[xcur]] = Expirer /\ xcur \in Xprs
    BY DEF OInv, OfsTypeOK, Locks, XprRefs
  <2>2. QED
    BY <2>0, <2>1 DEF OInv, OfsTypeOK, XprRefs, Locks
<1>4. Derefs'
  <2>0. links[xHandle[xcur]] = 1 => \A f \in Files : fh[f] # xHandle[xcur]
    BY LastExpirer
  <2>1. xHandle[xcur] \in Handles /\ owner[xHandle[xcur]] = Expirer /\ xcur \in Xprs
    BY DEF OInv, OfsTypeOK, Locks, XprRefs
  <2>2. QED
    BY <2>0, <2>1 DEF OInv, OfsTypeOK, Derefs, Locks, Locking, XprRefs
<1>5. Freed'
  <2>0. links[xHandle[xcur]] = 1 => \A f \in Files : fh[f] # xHandle[xcur]
    BY LastExpirer
  <2>1. xHandle[xcur] \in Handles /\ owner[xHandle[xcur]] = Expirer /\ xcur \in Xprs
    BY DEF OInv, OfsTypeOK, Locks, XprRefs
  <2>2. QED
    BY <2>0, <2>1 DEF OInv, OfsTypeOK, Freed
<1>6. NeverFreedInUse'
  <2>0. links[xHandle[xcur]] = 1 => \A f \in Files : fh[f] # xHandle[xcur]
    BY LastExpirer
  <2>1. xHandle[xcur] \in Handles /\ owner[xHandle[xcur]] = Expirer /\ xcur \in Xprs /\ xprP[xHandle[xcur]] = NoXpr
    BY DEF OInv, OfsTypeOK, Locks, XprRefs
  <2>2. \A x \in Xprs : x # xcur => xHandle[x] # xHandle[xcur]
    BY <2>1 DEF OInv, XprRefs
  <2>3. \A x \in Xprs : xHandle'[x] # NoHandle => xHandle'[x] = xHandle[x] /\ x # xcur
    OBVIOUS
  <2>4. \A x \in Xprs : xHandle'[x] # NoHandle => xHandle'[x] \in rwTable'
    BY <2>2, <2>3 DEF OInv, NeverFreedInUse
  <2>5. \A f \in Files : fh[f] # NoHandle => fh[f] \in rwTable'
    BY <2>0 DEF OInv, NeverFreedInUse
  <2>6. \A f \in Files : pc[f] # "idle" => fh[f] \in Handles /\ active'[fh[f]] = active[fh[f]]
    BY <2>0, <2>1 DEF OInv, OfsTypeOK, Locks
  <2>7. QED
    BY <2>4, <2>5, <2>6 DEF OInv, NeverFreedInUse
<1>7. LinksCover'
  <2> DEFINE g == xHandle[xcur]
  <2>1. g \in Handles /\ xcur \in Xprs /\ xprP[g] = NoXpr /\ XprLink(g)
    BY DEF OInv, OfsTypeOK, XprRefs, XprLink
  <2>2. \A h \in Handles : Refs(h)' = Refs(h)
    BY DEF Refs
  <2>3. \A h \in Handles : h # g => (XprLink(h)' => XprLink(h))
    BY <2>1 DEF OInv, OfsTypeOK, XprLink, XprRefs
  <2>4. \A h \in Handles : h = g => ~XprLink(h)'
    BY <2>1 DEF OInv, OfsTypeOK, XprLink
  <2>5. SUFFICES ASSUME NEW h \in rwTable' PROVE links'[h] >= Uses(h)'
    BY DEF LinksCover
  <2>6. /\ h \in Handles /\ links[h] \in Int /\ links[h] >= Uses(h)
        /\ links'[h] = IF h = g THEN links[h] - 1 ELSE links[h]
    BY <2>1 DEF OInv, OfsTypeOK, LinksCover
  <2>7. Cardinality(Refs(h)) \in Nat /\ Refs(h)' = Refs(h)
    BY <2>2, <2>6, CardRefs
  <2>8. QED
    BY <2>1, <2>3, <2>4, <2>6, <2>7 DEF Uses
<1>8. UnpersistUnused'
  BY DEF OInv, OfsTypeOK, UnpersistUnused, Refs, Locks, Locking, XprRefs, NeverFreedInUse
<1>9. QED
  BY <1>1, <1>2, <1>3, <1>4, <1>5, <1>6, <1>7, <1>8 DEF OInv

-----------------------------------------------------------------------------
\* The daemon starts with no handle in use.
LEMMA OInit == OfsInit => OInv
<1> SUFFICES ASSUME OfsInit PROVE OInv
  OBVIOUS
<1> USE HandleAssumption
<1>1. OfsTypeOK
  BY DEF OfsInit, OfsTypeOK, Pcs, Kinds
<1>2. Locks
  BY DEF OfsInit, Locks, Locking
<1>3. XprRefs
  BY DEF OfsInit, XprRefs
<1>4. Derefs
  BY DEF OfsInit, Derefs
<1>5. Freed
  BY DEF OfsInit, Freed
<1>6. NeverFreedInUse
  BY DEF OfsInit, NeverFreedInUse
<1>7. LinksCover
  <2>1. SUFFICES ASSUME NEW h \in rwTable PROVE links[h] >= Uses(h)
    BY DEF LinksCover
  <2>2. h \in Handles /\ links[h] = 1
    BY <1>1 DEF OfsInit, OfsTypeOK
  <2>3. Refs(h) = {}
    BY <2>2 DEF OfsInit, Refs
  <2>4. Cardinality(Refs(h)) = 0
    BY <2>3, FS_EmptySet
  <2>5. QED
    BY <2>2, <2>4 DEF Uses
<1>8. UnpersistUnused
  BY DEF OfsInit, UnpersistUnused
<1>9. QED
  BY <1>1, <1>2, <1>3, <1>4, <1>5, <1>6, <1>7, <1>8 DEF OInv

\* Every step keeps the invariant.
LEMMA OStep == OInv /\ [OfsNext]_ofsVars => OInv'
<1> SUFFICES ASSUME OInv, [OfsNext]_ofsVars PROVE OInv'
  OBVIOUS
<1>1. CASE UNCHANGED ofsVars
  <2>1. /\ OfsTypeOK' /\ Locks' /\ XprRefs' /\ Derefs' /\ Freed'
        /\ NeverFreedInUse' /\ UnpersistUnused'
    BY <1>1 DEF OInv, OfsTypeOK, Locks, XprRefs, Derefs, Freed, NeverFreedInUse,
                UnpersistUnused, Refs, ofsVars, handleVars, xprVars, fileVars
  <2>2. LinksCover'
    <3>1. \A h \in rwTable' : XprLink(h)' => XprLink(h)
      BY <1>1 DEF XprLink, ofsVars, handleVars, xprVars, fileVars
    <3>2. UNCHANGED <<fh, links>> /\ rwTable' \subseteq rwTable
      BY <1>1 DEF ofsVars, handleVars, fileVars
    <3>3. QED
      BY <3>1, <3>2, LinksFrame DEF OInv
  <2>3. QED
    BY <2>1, <2>2 DEF OInv
<1>2. CASE ExpirerNext
  BY <1>2, KeepXprDelete, KeepXprRequeue, KeepXprTake, KeepXprLocked, KeepXprTimeout,
     KeepXprCheck, KeepXprCall, KeepXprRetire DEF ExpirerNext
<1>3. CASE Hide
  BY <1>3, KeepHide
<1>4. ASSUME NEW f \in Files, FileStep(f) PROVE OInv'
  BY <1>4, KeepOpenLocked, KeepOpenTimeout, KeepOpenUndo, KeepOpenBusy, KeepOpenAttach,
     KeepOpenDone, KeepOpenFails, KeepFileRetire, KeepCloseGet, KeepCloseDeref,
     KeepDropPlain, KeepDropDefer, KeepDropAgain DEF FileStep
<1>5. ASSUME NEW f \in Files, FileLock(f) PROVE OInv'
  BY <1>5, KeepCloseLock
<1>6. ASSUME NEW f \in Files, ClientNext(f) PROVE OInv'
  BY <1>6, KeepOpenFind, KeepOpenNew, KeepClose DEF ClientNext
<1>7. QED
  BY <1>1, <1>2, <1>3, <1>4, <1>5, <1>6 DEF OfsNext

\* The inductive invariant holds in every state.
THEOREM OfsInvariance == OfsSpec => []OInv
<1>1. OfsInit => OInv
  BY OInit
<1>2. OInv /\ [OfsNext]_ofsVars => OInv'
  BY OStep
<1>3. QED
  BY <1>1, <1>2, PTL DEF OfsSpec

\* The state of the handles has its type whatever clients and connections do.
THEOREM OfsTypeCorrect == OfsSpec => []OfsTypeOK
<1>1. OInv => OfsTypeOK
  BY DEF OInv
<1>2. QED
  BY <1>1, OfsInvariance, PTL

\* No handle is freed, and no storage file closed, under one of its users.
THEOREM HandleKeptInUse == OfsSpec => []NeverFreedInUse
<1>1. OInv => NeverFreedInUse
  BY DEF OInv
<1>2. QED
  BY <1>1, OfsInvariance, PTL

\* The link count never falls below the number of users.
THEOREM LinksNeverShort == OfsSpec => []LinksCover
<1>1. OInv => LinksCover
  BY DEF OInv
<1>2. QED
  BY <1>1, OfsInvariance, PTL

\* The check of StartXpr that should never fail never fails.
THEOREM XprAlwaysValid == OfsSpec => []XprValid
<1>1. OInv => XprValid
  BY CheckHolds
<1>2. QED
  BY <1>1, OfsInvariance, PTL

\* The expiring thread removes a file only while nobody has it open.
THEOREM UnpersistSafe == OfsSpec => []UnpersistUnused
<1>1. OInv => UnpersistUnused
  BY DEF OInv
<1>2. QED
  BY <1>1, OfsInvariance, PTL
=============================================================================
