----------------------------- MODULE CmsLocate ------------------------------
(***************************************************************************)
(* Finding a file: the requests of XrdCmsCluster (Select and Locate) and   *)
(* the logins of servers (XrdCmsProtocol, XrdCmsCluster) as they meet in   *)
(* the location cache.                                                     *)
(*                                                                         *)
(* A request passes through up to six lock regions: it reads the path      *)
(* table, looks the file up or adds it, parks the client, asks the servers *)
(* that were never asked, one by one, and gives back the ones it could not *)
(* reach.  Between any two of these servers disconnect, log in, are        *)
(* dropped or reset, other requests run, and the entry may expire.         *)
(***************************************************************************)
EXTENDS CmsCache

CONSTANTS
  Reqs,
  LocateReqs, WriteReqs,  \* the others select a server for reading
  RWServers,              \* servers that export the path r/w
  StageServers,           \* servers that may stage it (pinfo.ssvec)
  Newcomers,              \* slots that other or reconfigured servers log in to
  Avoid,                  \* Sel.nmask: servers the client has tried
  Refreshes,              \* requests that may ask for a refresh
  RWDelay                 \* Config.RWDelay: r/w requests are never parked

ASSUME ReqsAssumption ==
  /\ LocateReqs \subseteq Reqs /\ WriteReqs \subseteq Reqs \ LocateReqs
  /\ Refreshes \subseteq Reqs
  /\ RWServers \subseteq Servers /\ StageServers \subseteq Servers
  /\ Newcomers \subseteq Servers /\ Avoid \subseteq Servers /\ RWDelay \in BOOLEAN

VARIABLES
  node,     \* server -> state of its node table entry
  rovec,    \* Cache.Paths: servers that export the path
  pc, file, \* request -> where it is, and its path
  pinfo,    \* request -> the copy of rovec it works with
  vec,      \* request -> Sel.Vec.hf and Sel.Vec.bf
  rc,       \* request -> value of GetFile
  sel,      \* request -> pmask and smask together: what it may select from
  ask,      \* request -> servers Broadcast has still to send to
  unq,      \* request -> servers Broadcast could not reach
  seen,     \* request -> Path.TODRef still is the file's entry
  out,      \* request -> the client was parked or told to wait
  said,     \* file -> servers that reported it since their login or reset
  told      \* file -> servers asked, or heard from, about this entry

reqVars == <<pc, file, pinfo, vec, rc, sel, ask, unq, seen, out>>
nodeVars == <<node, rovec>>
logVars == <<said, told>>
locVars == <<cacheVars, reqVars, nodeVars, logVars>>

Pcs == {"paths", "get", "avoid", "park", "ask", "select"}
NoVec == [hf |-> {}, bf |-> {}]

LocTypeOK ==
  /\ CacheTypeOK
  /\ node \in [Servers -> {"absent", "login", "bounced", "up", "offline"}]
  /\ rovec \subseteq Servers
  /\ pc \in [Reqs -> Pcs] /\ file \in [Reqs -> Files]
  /\ pinfo \in [Reqs -> SUBSET Servers]
  /\ vec \in [Reqs -> [hf : SUBSET Servers, bf : SUBSET Servers]]
  /\ rc \in [Reqs -> {-1, 0, 1}] /\ sel \in [Reqs -> SUBSET Servers]
  /\ ask \in [Reqs -> SUBSET Servers] /\ unq \in [Reqs -> SUBSET Servers]
  /\ seen \in [Reqs -> BOOLEAN] /\ out \in [Reqs -> BOOLEAN]
  /\ said \in [Files -> SUBSET Servers] /\ told \in [Files -> SUBSET Servers]

\* Every server has logged in once, in some order, and no file was asked for.
LocInit ==
  /\ loaded = {}
  /\ hf = [f \in Files |-> {}] /\ qf = [f \in Files |-> {}]
  /\ deadline = [f \in Files |-> "none"]
  /\ todB = [f \in Files |-> 0]
  /\ tod = [f \in Files |-> 0] /\ list = [f \in Files |-> 0]
  /\ okVec = Servers /\ vecHi \in Servers /\ Covers(vecHi, Servers)
  /\ Bounced = [v \in Servers |-> v + 1] /\ BClock = vecHi + 1
  /\ Bhistory = [t \in Ticks |-> NoHistory]
  /\ Tock = 0
  /\ fresh = [f \in Files |-> {}] /\ skipped = [f \in Files |-> {}]
  /\ node = [v \in Servers |-> "up"] /\ rovec = Servers
  /\ pc = [r \in Reqs |-> "paths"] /\ file \in [Reqs -> Files]
  /\ pinfo = [r \in Reqs |-> {}]
  /\ vec = [r \in Reqs |-> NoVec]
  /\ rc = [r \in Reqs |-> 0] /\ sel = [r \in Reqs |-> {}]
  /\ ask = [r \in Reqs |-> {}] /\ unq = [r \in Reqs |-> {}]
  /\ seen = [r \in Reqs |-> FALSE] /\ out = [r \in Reqs |-> FALSE]
  /\ said = [f \in Files |-> {}] /\ told = [f \in Files |-> {}]

-----------------------------------------------------------------------------
(* Servers.                                                                *)

\* A different server in this slot, or the same one with other exports: what
\* was said before does not hold any more.
Forgotten(v) ==
  /\ said' = [f \in Files |-> said[f] \ {v}]
  /\ told' = [f \in Files |-> told[f] \ {v}]

\* Cluster.Add and ConfigCheck up to Paths.Remove.
Login(v) ==
  /\ v \in Newcomers /\ node[v] \in {"absent", "offline"}
  /\ node' = [node EXCEPT ![v] = "login"]
  /\ rovec' = rovec \ {v}
  /\ Forgotten(v)
  /\ UNCHANGED <<cacheVars, reqVars>>

\* Mutant of LoginBounce: the login leaves the cache alone.
LoginNoBounce(v) ==
  /\ node[v] = "login"
  /\ node' = [node EXCEPT ![v] = "bounced"]
  /\ okVec' = okVec \cup {v}
  /\ UNCHANGED <<entryVars, Bounced, BClock, vecHi, Bhistory, Tock, freshVars,
                 rovec, reqVars, logVars>>

\* The rest of ConfigCheck.
LoginBounce(v) ==
  /\ node[v] = "login"
  /\ Bounce(v)
  /\ node' = [node EXCEPT ![v] = "bounced"]
  /\ UNCHANGED <<rovec, reqVars, logVars>>

\* AddPath, and the node is enabled.
LoginInsert(v) ==
  /\ node[v] = "bounced"
  /\ node' = [node EXCEPT ![v] = "up"]
  /\ rovec' = rovec \cup {v}
  /\ UNCHANGED <<cacheVars, reqVars, logVars>>

\* The same server with the same exports reconnects: its entries stay.
Relogin(v) ==
  /\ node[v] = "offline"
  /\ node' = [node EXCEPT ![v] = "up"]
  /\ UNCHANGED <<cacheVars, rovec, reqVars, logVars>>

Disconnect(v) ==
  /\ node[v] = "up"
  /\ node' = [node EXCEPT ![v] = "offline"]
  /\ UNCHANGED <<cacheVars, rovec, reqVars, logVars>>

\* The drop job of a server that stayed away; hi is STHi.
DropNode(v, hi) ==
  /\ node[v] = "offline"
  /\ node' = [node EXCEPT ![v] = "absent"]
  /\ Covers(hi, {u \in Servers : node'[u] # "absent"})
  /\ Drop(v, hi)
  /\ rovec' = rovec \ {v}
  /\ UNCHANGED <<reqVars, logVars>>

\* do_Status with Reset: the server lost track of its files.
Reset(v) ==
  /\ node[v] = "up"
  /\ Bounce(v)
  /\ Forgotten(v)
  /\ UNCHANGED <<nodeVars, reqVars>>

\* do_Have.
Have(f, v, keep) ==
  /\ node[v] = "up"
  /\ AddFile(f, v, keep)
  /\ said' = [said EXCEPT ![f] = @ \cup {v}]
  /\ told' = [told EXCEPT ![f] = @ \cup {v}]
  /\ UNCHANGED <<reqVars, nodeVars>>

\* do_Gone.
Gone(f, v) ==
  /\ node[v] = "up"
  /\ DelFile(f, {v}, TRUE)
  /\ told' = [told EXCEPT ![f] = @ \cup {v}]
  /\ UNCHANGED <<reqVars, nodeVars, said>>

\* The entry is no longer the one requests have a reference to.
Unseen(fs) == seen' = [r \in Reqs |-> seen[r] /\ file[r] \notin fs]

Expire ==
  /\ TickTock
  /\ Unseen(Expired(NextTick))
  /\ UNCHANGED <<pc, file, pinfo, vec, rc, sel, ask, unq, out, nodeVars, logVars>>

Late(f) == TimePasses(f) /\ UNCHANGED <<reqVars, nodeVars, logVars>>

-----------------------------------------------------------------------------
(* Requests.  A request has a reference to the file's entry (seen) from    *)
(* GetFile or AddFile on; UnkFile and WT4File ignore one that is outdated. *)

GoTo(r, p) == pc' = [pc EXCEPT ![r] = p]
IsSelect(r) == r \notin LocateReqs

\* The servers a request may choose from.
amask(r) ==
  LET m == IF r \in WriteReqs THEN pinfo[r] \cap RWServers ELSE pinfo[r]
  IN IF IsSelect(r) THEN m \ Avoid ELSE m

\* The client has its answer; it may come again with the same request.
Finish(r) ==
  /\ GoTo(r, "paths")
  /\ pinfo' = [pinfo EXCEPT ![r] = {}]
  /\ vec' = [vec EXCEPT ![r] = NoVec]
  /\ rc' = [rc EXCEPT ![r] = 0]
  /\ sel' = [sel EXCEPT ![r] = {}]
  /\ seen' = [seen EXCEPT ![r] = FALSE]
  /\ out' = [out EXCEPT ![r] = FALSE]

\* Without a server for the path the request fails here.
FindPaths(r) ==
  /\ pc[r] = "paths"
  /\ pinfo' = [pinfo EXCEPT ![r] = rovec]
  /\ amask(r)' # {}
  /\ GoTo(r, "get")
  /\ UNCHANGED <<cacheVars, file, vec, rc, sel, ask, unq, seen, out, nodeVars, logVars>>

\* The file is not in the cache, its entry is empty and too old, or a refresh
\* is wanted: AddFile, and everybody is asked.
Prime(r) ==
  LET f == file[r] IN
  /\ pc[r] = "get"
  /\ \/ AddNew(f)
     \/ f \in loaded /\ r \in Refreshes /\ Refresh(f)
     \/ f \in loaded /\ 0 \in GetRC(f, pinfo[r]) /\ Refresh(f)
  /\ told' = [told EXCEPT ![f] = {}]
  /\ vec' = [vec EXCEPT ![r] = [hf |-> {}, bf |-> pinfo[r]]]
  /\ ask' = [ask EXCEPT ![r] = pinfo[r]]
  /\ sel' = [sel EXCEPT ![r] = {}]
  /\ rc' = [rc EXCEPT ![r] = 0]
  /\ seen' = [seen EXCEPT ![r] = TRUE]
  /\ GoTo(r, "park")
  /\ UNCHANGED <<file, pinfo, unq, out, nodeVars, said>>

\* What Select may choose from (pmask and smask) when GetFile returned c.
\* Online requests exclude servers that are staging the file.
ReadMasks(r, c, h) ==
  {h \cap amask(r), (h \cap amask(r)) \ StageServers}
    \cup (IF c < 0 THEN {} ELSE {(h \cup StageServers) \cap amask(r)})
WriteMasks(r, h, b) ==
  LET replica == amask(r) \ (h \cup b) IN
    (IF b # {} THEN {replica, {}}
     ELSE IF h # {} THEN {replica, h \cap amask(r)} \ {{}}
     ELSE {replica, StageServers \cap amask(r)})      \* Trunc and NewFile, or stage

Masks(r, c, h, b) == IF r \in WriteReqs THEN WriteMasks(r, h, b) ELSE ReadMasks(r, c, h)

Continue(r, c, h, b, m) ==
  /\ vec' = [vec EXCEPT ![r] = [hf |-> h, bf |-> b]]
  /\ rc' = [rc EXCEPT ![r] = c]
  /\ sel' = [sel EXCEPT ![r] = m]
  /\ ask' = [ask EXCEPT ![r] = b]
  /\ seen' = [seen EXCEPT ![r] = TRUE]
  /\ GoTo(r, IF IsSelect(r) /\ h \cap Avoid # {} THEN "avoid" ELSE "park")
  /\ UNCHANGED <<pinfo, out>>

\* A write is told to wait while a query is in progress, and fails (SelFail)
\* when the copies there are do not allow it.
StopWrite(r, c, h, b) ==
  /\ r \in WriteReqs
  /\ c < 0 \/ (h # {} /\ b = {})
  /\ Finish(r)
  /\ UNCHANGED ask

LookUp(r) ==
  LET f == file[r]
      h == GotHf(f, pinfo[r])
      b == GotBf(f, pinfo[r])
  IN /\ pc[r] = "get" /\ f \in loaded
     /\ GetFile(f, pinfo[r])
     /\ \E c \in GetRC(f, pinfo[r]) \ {0} :
          \/ StopWrite(r, c, h, b)
          \/ /\ ~ (r \in WriteReqs /\ c < 0)
             /\ \E m \in Masks(r, c, h, b) : Continue(r, c, h, b, m)
     /\ UNCHANGED <<file, unq, nodeVars, logVars>>

\* Servers the client has tried and that should have the file are to be
\* asked again by the next request.
AvoidTried(r) ==
  /\ pc[r] = "avoid"
  /\ IF seen[r] THEN UnkFile(file[r], Avoid) ELSE UNCHANGED cacheVars
  /\ GoTo(r, "park")
  /\ UNCHANGED <<file, pinfo, vec, rc, sel, ask, unq, seen, out, nodeVars, logVars>>

\* Values of Sel.InfoP # 0: do_SelAvoid and packed selection clear it, and
\* Locate has it for Asap only.  Without it a client cannot be called back.
InfoP(r) == IF IsSelect(r) /\ Avoid # {} THEN {FALSE} ELSE BOOLEAN

\* The client has to wait: Select without choice, or Locate without location.
MustWait(r, info) ==
  /\ vec[r].bf # {} \/ rc[r] < 0
  /\ IF IsSelect(r) THEN sel[r] = {} ELSE vec[r].hf = {} \/ ~ info

MayPark(r) == ~ (RWDelay /\ r \in WriteReqs)

\* WT4File: parked if nothing changed since GetFile, else told to come back.
Park(r) ==
  LET f == file[r] IN
  /\ pc[r] = "park"
  /\ \E info \in InfoP(r) :
       /\ MustWait(r, info)
       /\ IF info /\ MayPark(r) /\ seen[r] /\ hf[f] = vec[r].hf
          THEN WT4File(f) ELSE UNCHANGED cacheVars
  /\ out' = [out EXCEPT ![r] = TRUE]
  /\ GoTo(r, "ask")
  /\ UNCHANGED <<file, pinfo, vec, rc, sel, ask, unq, seen, nodeVars, logVars>>

NoWait(r) ==
  /\ pc[r] = "park" /\ \E info \in InfoP(r) : ~ MustWait(r, info)
  /\ GoTo(r, "ask")
  /\ UNCHANGED <<cacheVars, file, pinfo, vec, rc, sel, ask, unq, seen, out,
                 nodeVars, logVars>>

\* Broadcast reaches the lowest node still to be asked.  Sending to a node
\* that is connected may fail too.
Send(r, v) ==
  /\ pc[r] = "ask" /\ v \in ask[r] /\ \A u \in ask[r] : v <= u
  /\ ask' = [ask EXCEPT ![r] = @ \ {v}]
  /\ \/ /\ node[v] \in {"login", "bounced", "up"}
        /\ told' = [told EXCEPT ![file[r]] = IF seen[r] THEN @ \cup {v} ELSE @]
        /\ UNCHANGED unq
     \/ /\ node[v] # "absent"
        /\ unq' = [unq EXCEPT ![r] = @ \cup {v}]
        /\ UNCHANGED told
     \/ node[v] = "absent" /\ UNCHANGED <<unq, told>>
  /\ UNCHANGED <<cacheVars, pc, file, pinfo, vec, rc, sel, seen, out, nodeVars, said>>

\* Mutant of GiveBack: the reference is used without looking at its age.
GiveBackUnseen(r) ==
  LET f == file[r] IN
  /\ pc[r] = "ask" /\ ask[r] = {}
  /\ IF unq[r] # {} /\ f \in loaded THEN UnkFile(f, unq[r]) ELSE UNCHANGED cacheVars
  /\ unq' = [unq EXCEPT ![r] = {}]
  /\ GoTo(r, "select")
  /\ UNCHANGED <<file, pinfo, vec, rc, sel, ask, seen, out, nodeVars, logVars>>

\* UnkFile: what could not be asked is left to the next request.
GiveBack(r) ==
  /\ pc[r] = "ask" /\ ask[r] = {}
  /\ IF unq[r] # {} /\ seen[r] THEN UnkFile(file[r], unq[r]) ELSE UNCHANGED cacheVars
  /\ unq' = [unq EXCEPT ![r] = {}]
  /\ GoTo(r, "select")
  /\ UNCHANGED <<file, pinfo, vec, rc, sel, ask, seen, out, nodeVars, logVars>>

\* The end of the request: a client that was parked or told to wait needs
\* nothing more, Locate lists what it found, Select without a choice fails,
\* and SelNode picks a usable server, if any.
Answer(r) ==
  /\ pc[r] = "select"
  /\ Finish(r)
  /\ UNCHANGED <<cacheVars, file, ask, unq, nodeVars, logVars>>

\* What SelbyLoad, SelbyLoadR and SelbyRef may return.  Which of the servers
\* that pass it is, is a matter of load, space and references.
Selectable(r, v) == v \in sel[r] /\ node[v] = "up"

\* SelNode enters a server chosen to stage or create the file at once.
Assign(r, v, keep) ==
  /\ pc[r] = "select" /\ ~ out[r] /\ IsSelect(r)
  /\ Selectable(r, v)
  /\ r \in WriteReqs \/ v \notin vec[r].hf
  /\ AddFile(file[r], v, keep)
  /\ said' = [said EXCEPT ![file[r]] = @ \cup {v}]
  /\ told' = [told EXCEPT ![file[r]] = @ \cup {v}]
  /\ Finish(r)
  /\ UNCHANGED <<file, ask, unq, nodeVars>>

-----------------------------------------------------------------------------
Server(v) ==
  \/ Login(v) \/ LoginBounce(v) \/ LoginInsert(v) \/ Relogin(v) \/ Disconnect(v)
  \/ Reset(v) \/ \E hi \in Servers \cup {-1} : DropNode(v, hi)
  \/ \E f \in Files : Gone(f, v) \/ \E keep \in BOOLEAN : Have(f, v, keep)

Request(r) ==
  \/ FindPaths(r) \/ Prime(r) \/ LookUp(r) \/ AvoidTried(r) \/ Park(r) \/ NoWait(r)
  \/ GiveBack(r) \/ Answer(r)
  \/ \E v \in Servers : Send(r, v) \/ \E keep \in BOOLEAN : Assign(r, v, keep)

LocNext ==
  \/ \E v \in Servers : Server(v)
  \/ \E r \in Reqs : Request(r)
  \/ Expire \/ \E f \in Files : Late(f)

LocSpec == LocInit /\ [][LocNext]_locVars

-----------------------------------------------------------------------------
(* Properties.                                                             *)

\* The locations a look-up may still use.
Usable(f) == {v \in hf[f] \cap okVec \cap rovec : todB[f] >= Bounced[v]}

\* A usable location was reported by the server that is in the slot now, as
\* it is configured now, unless its bounce was passed over by a request that
\* did not see the server in the path table.
CurrentUnlessSkipped == \A f \in loaded : Usable(f) \subseteq said[f] \cup skipped[f]

\* XrdCmsProtocol.cc, ConfigCheck: "If the configuration chaged or a new node,
\* then we must bounce this node": no location of the old one is usable.
NoStaleLocation == \A f \in loaded : Usable(f) \subseteq said[f]

\* XrdCmsKey.hh, qfvec: "Servers that are not yet queried".  A valid server
\* that was not asked about a file is in qfvec, will be asked by a request
\* that is under way, or is due because it bounced.
UnqueriedRemembered ==
  \A f \in loaded : \A v \in okVec \cap rovec :
    \/ v \in told[f] \cup qf[f]
    \/ todB[f] < Bounced[v]
    \/ \E r \in Reqs : file[r] = f /\ seen[r] /\ v \in ask[r] \cup unq[r]
=============================================================================
