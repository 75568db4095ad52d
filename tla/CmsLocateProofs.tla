--------------------------- MODULE CmsLocateProofs --------------------------
(***************************************************************************)
(* Proofs about file location, for any number of files, servers, requests  *)
(* and bounces, on top of those about the cache.                           *)
(*                                                                         *)
(* CurrentUnlessSkipped compares a location with what the server in the    *)
(* slot said; the cache's own invariant only compares it with the last     *)
(* bounce.  A login forgets what was said a step before it bounces the     *)
(* server, so that the two agree except for servers that are logging in,   *)
(* and those are not in the path table.                                    *)
(***************************************************************************)
EXTENDS CmsLocate, CmsCacheProofs

\* Servers that may report, or be dropped, are valid for the cache.
Valid == \A v \in Servers : node[v] \in {"bounced", "up", "offline"} => v \in okVec

\* A server that logs in exports nothing until it was bounced.
LoginHidden == \A v \in Servers : node[v] = "login" => v \notin rovec

\* A report made after the last bounce was made by the server as it is now.
FreshSaid ==
  \A f \in Files : \A v \in Servers : v \in fresh[f] => node[v] = "login" \/ v \in said[f]

LocInv == LocTypeOK /\ CacheInv /\ Valid /\ LoginHidden /\ FreshSaid

-----------------------------------------------------------------------------
(***************************************************************************)
(* Every step of requests and servers is an operation of the cache.        *)
(***************************************************************************)
LEMMA ServerIsCache ==
  ASSUME LocTypeOK, Valid, NEW v \in Servers, Server(v)
  PROVE  [CacheNext]_cacheVars
<1>1. ASSUME Login(v) \/ LoginInsert(v) \/ Relogin(v) \/ Disconnect(v)
      PROVE  UNCHANGED cacheVars
  BY <1>1 DEF Login, LoginInsert, Relogin, Disconnect
<1>2. ASSUME LoginBounce(v) \/ Reset(v) PROVE CacheNext
  BY <1>2 DEF LoginBounce, Reset, CacheNext, ServerOp
<1>3. ASSUME NEW hi \in Servers \cup {-1}, DropNode(v, hi) PROVE CacheNext
  BY <1>3 DEF DropNode, CacheNext, ServerOp
<1>4. ASSUME NEW f \in Files, Gone(f, v) PROVE CacheNext
  BY <1>4 DEF Gone, CacheNext, EntryOp
<1>5. ASSUME NEW f \in Files, NEW keep \in BOOLEAN, Have(f, v, keep) PROVE CacheNext
  BY <1>5 DEF Have, Valid, CacheNext, EntryOp
<1> QED BY <1>1, <1>2, <1>3, <1>4, <1>5 DEF Server

LEMMA RequestIsCache ==
  ASSUME LocTypeOK, Valid, NEW r \in Reqs, Request(r)
  PROVE  [CacheNext]_cacheVars
<1>0. file[r] \in Files /\ pinfo[r] \in SUBSET Servers /\ unq[r] \in SUBSET Servers
      /\ Avoid \in SUBSET Servers
  BY ReqsAssumption DEF LocTypeOK
<1>1. ASSUME FindPaths(r) \/ NoWait(r) \/ Answer(r) PROVE UNCHANGED cacheVars
  BY <1>1 DEF FindPaths, NoWait, Answer
<1>2. ASSUME Prime(r) PROVE CacheNext
  BY <1>0, <1>2 DEF Prime, CacheNext, EntryOp
<1>3. ASSUME LookUp(r) PROVE CacheNext
  BY <1>0, <1>3 DEF LookUp, CacheNext, EntryOp
<1>4. ASSUME AvoidTried(r) \/ GiveBack(r) PROVE [CacheNext]_cacheVars
  BY <1>0, <1>4 DEF AvoidTried, GiveBack, CacheNext, EntryOp
<1>5. ASSUME Park(r) PROVE [CacheNext]_cacheVars
  BY <1>0, <1>5 DEF Park, CacheNext, EntryOp
<1>6. ASSUME NEW v \in Servers, Send(r, v) PROVE UNCHANGED cacheVars
  BY <1>6 DEF Send
<1>7. ASSUME NEW v \in Servers, NEW keep \in BOOLEAN, Assign(r, v, keep) PROVE CacheNext
  BY <1>0, <1>7 DEF Assign, Selectable, Valid, CacheNext, EntryOp
<1> QED BY <1>1, <1>2, <1>3, <1>4, <1>5, <1>6, <1>7 DEF Request

LEMMA LocIsCache ==
  ASSUME LocTypeOK, Valid, [LocNext]_locVars
  PROVE  [CacheNext]_cacheVars
<1>1. Expire => CacheNext  BY DEF Expire, CacheNext
<1>2. ASSUME NEW f \in Files, Late(f) PROVE CacheNext
  BY <1>2 DEF Late, CacheNext, EntryOp
<1>3. UNCHANGED locVars => UNCHANGED cacheVars  BY DEF locVars
<1> QED BY <1>1, <1>2, <1>3, ServerIsCache, RequestIsCache DEF LocNext

LEMMA CacheStep ==
  ASSUME CacheInv, [CacheNext]_cacheVars
  PROVE  CacheInv'
BY CacheTypeStep, ClockStep, FreshStep, WheelStep DEF CacheInv

-----------------------------------------------------------------------------
(***************************************************************************)
(* Types.                                                                  *)
(***************************************************************************)

\* A request that ends, and what it may choose from.
LEMMA FinishType ==
  ASSUME LocTypeOK, NEW r \in Reqs, Finish(r)
  PROVE  /\ pc' \in [Reqs -> Pcs] /\ pinfo' \in [Reqs -> SUBSET Servers]
         /\ vec' \in [Reqs -> [hf : SUBSET Servers, bf : SUBSET Servers]]
         /\ rc' \in [Reqs -> {-1, 0, 1}] /\ sel' \in [Reqs -> SUBSET Servers]
         /\ seen' \in [Reqs -> BOOLEAN] /\ out' \in [Reqs -> BOOLEAN]
<1>1. NoVec \in [hf : SUBSET Servers, bf : SUBSET Servers]  BY DEF NoVec
<1>2. pc' \in [Reqs -> Pcs]  BY DEF Finish, GoTo, LocTypeOK, Pcs
<1>3. vec' \in [Reqs -> [hf : SUBSET Servers, bf : SUBSET Servers]]
  BY <1>1 DEF Finish, LocTypeOK
<1>4. /\ pinfo' \in [Reqs -> SUBSET Servers] /\ rc' \in [Reqs -> {-1, 0, 1}]
      /\ sel' \in [Reqs -> SUBSET Servers]
  BY DEF Finish, LocTypeOK
<1>5. seen' \in [Reqs -> BOOLEAN] /\ out' \in [Reqs -> BOOLEAN]
  BY DEF Finish, LocTypeOK
<1> QED BY <1>2, <1>3, <1>4, <1>5

LEMMA MasksType ==
  ASSUME LocTypeOK, NEW r \in Reqs, NEW c, NEW h \in SUBSET Servers, NEW b,
         NEW m \in Masks(r, c, h, b)
  PROVE  m \in SUBSET Servers
<1>1. amask(r) \in SUBSET Servers  BY DEF amask, LocTypeOK
<1>2. CASE m \in ReadMasks(r, c, h)  BY <1>1, <1>2 DEF ReadMasks
<1>3. CASE m \in WriteMasks(r, h, b)  BY <1>1, <1>3 DEF WriteMasks
<1> QED BY <1>2, <1>3 DEF Masks

LEMMA LocTypeStep ==
  ASSUME LocTypeOK, CacheTypeOK', [LocNext]_locVars
  PROVE  LocTypeOK'
<1>2. ASSUME NEW v \in Servers, Server(v) PROVE LocTypeOK'
  <2>a. node \in [Servers -> {"absent", "login", "bounced", "up", "offline"}]  BY DEF LocTypeOK
  <2>1. UNCHANGED reqVars
    BY <1>2 DEF Server, Login, LoginBounce, LoginInsert, Relogin, Disconnect, Reset,
                DropNode, Gone, Have
  <2>2. node' \in [Servers -> {"absent", "login", "bounced", "up", "offline"}]
    BY <1>2, <2>a DEF Server, Login, LoginBounce, LoginInsert, Relogin, Disconnect, Reset,
                DropNode, Gone, Have, nodeVars
  <2>3. rovec' \subseteq Servers
    BY <1>2 DEF LocTypeOK, Server, Login, LoginBounce, LoginInsert, Relogin, Disconnect,
                Reset, DropNode, Gone, Have, nodeVars
  <2>4. said' \in [Files -> SUBSET Servers] /\ told' \in [Files -> SUBSET Servers]
    <3>1. ASSUME Forgotten(v)
          PROVE  said' \in [Files -> SUBSET Servers] /\ told' \in [Files -> SUBSET Servers]
      BY <3>1 DEF Forgotten, LocTypeOK
    <3>2. ASSUME NEW f \in Files, Gone(f, v)
          PROVE  said' \in [Files -> SUBSET Servers] /\ told' \in [Files -> SUBSET Servers]
      BY <3>2 DEF Gone, LocTypeOK
    <3>3. ASSUME NEW f \in Files, NEW keep, Have(f, v, keep)
          PROVE  said' \in [Files -> SUBSET Servers] /\ told' \in [Files -> SUBSET Servers]
      BY <3>3 DEF Have, LocTypeOK
    <3>4. ASSUME UNCHANGED logVars
          PROVE  said' \in [Files -> SUBSET Servers] /\ told' \in [Files -> SUBSET Servers]
      BY <3>4 DEF logVars, LocTypeOK
    <3> QED BY <1>2, <3>1, <3>2, <3>3, <3>4 DEF Server, Login, LoginBounce, LoginInsert,
                Relogin, Disconnect, Reset, DropNode
  <2> QED BY <2>1, <2>2, <2>3, <2>4 DEF LocTypeOK, reqVars
<1>3. ASSUME NEW r \in Reqs, Request(r) PROVE LocTypeOK'
  <2>a. file[r] \in Files /\ pinfo[r] \in SUBSET Servers /\ rovec \in SUBSET Servers
    BY DEF LocTypeOK
  <2>1. CASE FindPaths(r)
    BY <2>1, <2>a DEF FindPaths, GoTo, LocTypeOK, Pcs, nodeVars, logVars
  <2>2. CASE Prime(r)
    <3>1. [hf |-> {}, bf |-> pinfo[r]] \in [hf : SUBSET Servers, bf : SUBSET Servers]
      BY <2>a
    <3>2. vec' \in [Reqs -> [hf : SUBSET Servers, bf : SUBSET Servers]]
      BY <2>2, <3>1 DEF Prime, LocTypeOK
    <3>3. pc' \in [Reqs -> Pcs]  BY <2>2 DEF Prime, GoTo, LocTypeOK, Pcs
    <3>4. ask' \in [Reqs -> SUBSET Servers] /\ sel' \in [Reqs -> SUBSET Servers]
          /\ rc' \in [Reqs -> {-1, 0, 1}]
      BY <2>2, <2>a DEF Prime, LocTypeOK
    <3>5. seen' \in [Reqs -> BOOLEAN]  BY <2>2 DEF Prime, LocTypeOK
    <3>6. told' \in [Files -> SUBSET Servers]  BY <2>2, <2>a DEF Prime, LocTypeOK
    <3> QED BY <2>2, <3>2, <3>3, <3>4, <3>5, <3>6 DEF Prime, LocTypeOK, nodeVars
  <2>3. CASE LookUp(r)
    <3> DEFINE h == GotHf(file[r], pinfo[r])
               b == GotBf(file[r], pinfo[r])
    <3>a. h \in SUBSET Servers /\ b \in SUBSET Servers
      BY DEF GotHf, GotBf, LocTypeOK, CacheTypeOK
    <3>b. GetRC(file[r], pinfo[r]) \subseteq {-1, 0, 1}  BY DEF GetRC
    <3>c. UNCHANGED <<file, unq, nodeVars, logVars>>  BY <2>3 DEF LookUp
    <3>d. \E c \in {-1, 1} :
            StopWrite(r, c, h, b) \/ \E m \in Masks(r, c, h, b) : Continue(r, c, h, b, m)
      BY <2>3, <3>b DEF LookUp
    <3> HIDE DEF h, b
    <3>1. ASSUME NEW c \in {-1, 1}, StopWrite(r, c, h, b) PROVE LocTypeOK'
      BY <3>1, <3>c, FinishType DEF StopWrite, LocTypeOK, nodeVars, logVars
    <3>2. ASSUME NEW c \in {-1, 1}, NEW m \in Masks(r, c, h, b), Continue(r, c, h, b, m)
          PROVE  LocTypeOK'
      <4>1. m \in SUBSET Servers  BY <3>a, MasksType
      <4>2. vec' \in [Reqs -> [hf : SUBSET Servers, bf : SUBSET Servers]]
        BY <3>2, <3>a DEF Continue, LocTypeOK
      <4>3. pc' \in [Reqs -> Pcs]  BY <3>2 DEF Continue, GoTo, LocTypeOK, Pcs
      <4>4. ask' \in [Reqs -> SUBSET Servers] /\ sel' \in [Reqs -> SUBSET Servers]
            /\ rc' \in [Reqs -> {-1, 0, 1}]
        BY <3>2, <3>a, <4>1 DEF Continue, LocTypeOK
      <4>5. seen' \in [Reqs -> BOOLEAN]  BY <3>2 DEF Continue, LocTypeOK
      <4> QED BY <3>2, <3>c, <4>2, <4>3, <4>4, <4>5 DEF Continue, LocTypeOK, nodeVars, logVars
    <3> QED BY <3>d, <3>1, <3>2
  <2>4. CASE AvoidTried(r) \/ NoWait(r)
    BY <2>4 DEF AvoidTried, NoWait, GoTo, LocTypeOK, Pcs, nodeVars, logVars
  <2>5. CASE Park(r)
    <3>1. out' \in [Reqs -> BOOLEAN]  BY <2>5 DEF Park, LocTypeOK
    <3> QED BY <2>5, <3>1 DEF Park, GoTo, LocTypeOK, Pcs, nodeVars, logVars
  <2>6. CASE GiveBack(r)
    BY <2>6 DEF GiveBack, GoTo, LocTypeOK, Pcs, nodeVars, logVars
  <2>7. CASE Answer(r)
    BY <2>7, FinishType DEF Answer, LocTypeOK, nodeVars, logVars
  <2>8. ASSUME NEW v \in Servers, Send(r, v) PROVE LocTypeOK'
    <3>1. ask' \in [Reqs -> SUBSET Servers] /\ unq' \in [Reqs -> SUBSET Servers]
      BY <2>8 DEF Send, LocTypeOK
    <3>2. told' \in [Files -> SUBSET Servers]  BY <2>8, <2>a DEF Send, LocTypeOK
    <3> QED BY <2>8, <3>1, <3>2 DEF Send, LocTypeOK, nodeVars
  <2>9. ASSUME NEW v \in Servers, NEW keep, Assign(r, v, keep) PROVE LocTypeOK'
    <3>1. said' \in [Files -> SUBSET Servers] /\ told' \in [Files -> SUBSET Servers]
      BY <2>9, <2>a DEF Assign, LocTypeOK
    <3> QED BY <2>9, <3>1, FinishType DEF Assign, LocTypeOK, nodeVars
  <2> QED BY <1>3, <2>1, <2>2, <2>3, <2>4, <2>5, <2>6, <2>7, <2>8, <2>9 DEF Request
<1>4. ASSUME Expire PROVE LocTypeOK'
  <2>1. seen' \in [Reqs -> BOOLEAN]  BY <1>4 DEF Expire, Unseen, LocTypeOK
  <2> QED BY <1>4, <2>1 DEF Expire, LocTypeOK, nodeVars, logVars
<1>5. ASSUME UNCHANGED <<reqVars, nodeVars, logVars>> PROVE LocTypeOK'
  BY <1>5 DEF LocTypeOK, reqVars, nodeVars, logVars
<1> QED BY <1>2, <1>3, <1>4, <1>5 DEF LocNext, Late, locVars

-----------------------------------------------------------------------------
(***************************************************************************)
(* Servers coming and going.                                               *)
(***************************************************************************)

\* Steps of requests and of time leave the servers alone; only a server that
\* is up is entered, and entered in the books of both.
LEMMA RequestKeeps ==
  ASSUME LocInv, LocTypeOK', UNCHANGED <<nodeVars, okVec>>,
         \/ UNCHANGED <<fresh, said>>
         \/ \E f \in Files : /\ fresh' = [fresh EXCEPT ![f] = {}] /\ UNCHANGED said
         \/ \E f \in Files, v \in Servers : /\ fresh' = [fresh EXCEPT ![f] = @ \cup {v}]
                                            /\ said' = [said EXCEPT ![f] = @ \cup {v}]
         \/ \E f \in Files, v \in Servers : /\ fresh' = [fresh EXCEPT ![f] = @ \ {v}]
                                            /\ UNCHANGED said
  PROVE  Valid' /\ LoginHidden' /\ FreshSaid'
<1>0. Valid /\ LoginHidden /\ FreshSaid /\ LocTypeOK /\ CacheTypeOK
  BY DEF LocInv, LocTypeOK
<1>1. UNCHANGED <<node, rovec>>  BY DEF nodeVars
<1>2. fresh \in [Files -> SUBSET Servers] /\ said \in [Files -> SUBSET Servers]
  BY <1>0 DEF CacheTypeOK, LocTypeOK
<1>3. FreshSaid'
  BY <1>0, <1>1, <1>2 DEF FreshSaid
<1> QED BY <1>0, <1>1, <1>3 DEF Valid, LoginHidden

LEMMA ServerKeeps ==
  ASSUME LocInv, LocTypeOK', NEW v \in Servers, Server(v)
  PROVE  Valid' /\ LoginHidden' /\ FreshSaid'
<1>0. Valid /\ LoginHidden /\ FreshSaid /\ LocTypeOK /\ CacheTypeOK
  BY DEF LocInv, LocTypeOK
<1>a. /\ node \in [Servers -> {"absent", "login", "bounced", "up", "offline"}]
      /\ fresh \in [Files -> SUBSET Servers] /\ said \in [Files -> SUBSET Servers]
  BY <1>0 DEF CacheTypeOK, LocTypeOK
<1> USE DEF Valid, LoginHidden, FreshSaid
<1>1. CASE Login(v)
  <2>1. /\ node' = [node EXCEPT ![v] = "login"] /\ rovec' = rovec \ {v}
        /\ said' = [f \in Files |-> said[f] \ {v}] /\ UNCHANGED <<okVec, fresh>>
    BY <1>1 DEF Login, Forgotten, cacheVars, clockVars, freshVars
  <2> QED BY <1>0, <1>a, <2>1
<1>2. CASE LoginBounce(v)
  <2>1. /\ node' = [node EXCEPT ![v] = "bounced"] /\ UNCHANGED <<rovec, said>>
        /\ okVec' = okVec \cup {v} /\ fresh' = [f \in Files |-> fresh[f] \ {v}]
    BY <1>2 DEF LoginBounce, Bounce, Voided, logVars
  <2> QED BY <1>0, <1>a, <2>1
<1>3. CASE LoginInsert(v) \/ Relogin(v) \/ Disconnect(v)
  <2>1. /\ node[v] \in {"bounced", "offline", "up"}
        /\ node' = [node EXCEPT ![v] = "up"] \/ node' = [node EXCEPT ![v] = "offline"]
        /\ rovec' \in {rovec, rovec \cup {v}} /\ UNCHANGED <<okVec, fresh, said>>
    BY <1>3 DEF LoginInsert, Relogin, Disconnect, cacheVars, clockVars, freshVars, logVars
  <2> QED BY <1>0, <1>a, <2>1
<1>4. CASE Reset(v)
  <2>1. /\ UNCHANGED <<node, rovec>> /\ said' = [f \in Files |-> said[f] \ {v}]
        /\ okVec' = okVec \cup {v} /\ fresh' = [f \in Files |-> fresh[f] \ {v}]
    BY <1>4 DEF Reset, Bounce, Voided, Forgotten, nodeVars
  <2> QED BY <1>0, <1>a, <2>1
<1>5. ASSUME NEW hi, DropNode(v, hi) PROVE Valid' /\ LoginHidden' /\ FreshSaid'
  <2>1. /\ node' = [node EXCEPT ![v] = "absent"] /\ rovec' = rovec \ {v}
        /\ okVec' = okVec \ {v} /\ fresh' = [f \in Files |-> fresh[f] \ {v}]
        /\ UNCHANGED said
    BY <1>5 DEF DropNode, Drop, Voided, logVars
  <2> QED BY <1>0, <1>a, <2>1
<1>6. ASSUME NEW f \in Files, Gone(f, v) PROVE Valid' /\ LoginHidden' /\ FreshSaid'
  <2>1. /\ UNCHANGED <<nodeVars, okVec, said>> /\ fresh' = [fresh EXCEPT ![f] = @ \ {v}]
    BY <1>6 DEF Gone, DelFile, clockVars
  <2> QED BY <2>1, RequestKeeps
<1>7. ASSUME NEW f \in Files, NEW keep, Have(f, v, keep)
      PROVE  Valid' /\ LoginHidden' /\ FreshSaid'
  <2>1. /\ UNCHANGED <<nodeVars, okVec>> /\ fresh' = [fresh EXCEPT ![f] = @ \cup {v}]
        /\ said' = [said EXCEPT ![f] = @ \cup {v}]
    BY <1>7 DEF Have, AddFile, clockVars
  <2> QED BY <2>1, RequestKeeps
<1> QED BY <1>1, <1>2, <1>3, <1>4, <1>5, <1>6, <1>7 DEF Server

LEMMA LocInitInv == LocInit => LocInv
<1> SUFFICES ASSUME LocInit PROVE LocInv
  OBVIOUS
<1> USE ServersAssumption, TickAssumption
<1>1. CacheTypeOK
  BY DEF LocInit, CacheTypeOK, Ticks, Histories, NoHistory
<1>2. LocTypeOK
  <2>1. NoVec \in [hf : SUBSET Servers, bf : SUBSET Servers]  BY DEF NoVec
  <2> QED BY <1>1, <2>1 DEF LocInit, LocTypeOK, Pcs
<1>3. ClockInv
  BY DEF LocInit, Covers, ClockInv, NoHistory
<1>4. FreshUnlessSkipped /\ WheelInv
  BY DEF LocInit, FreshUnlessSkipped, WheelInv
<1>5. Valid /\ LoginHidden /\ FreshSaid
  BY DEF LocInit, Valid, LoginHidden, FreshSaid
<1> QED BY <1>1, <1>2, <1>3, <1>4, <1>5 DEF LocInv, CacheInv

LEMMA LocStep == LocInv /\ [LocNext]_locVars => LocInv'
<1> SUFFICES ASSUME LocInv, [LocNext]_locVars PROVE LocInv'
  OBVIOUS
<1>0. LocTypeOK /\ CacheInv /\ Valid  BY DEF LocInv
<1>1. CacheInv'  BY <1>0, LocIsCache, CacheStep
<1>2. LocTypeOK'  BY <1>0, <1>1, LocTypeStep DEF CacheInv
<1>3. ASSUME NEW r \in Reqs, Request(r) PROVE Valid' /\ LoginHidden' /\ FreshSaid'
  <2>0. file[r] \in Files  BY <1>0 DEF LocTypeOK
  <2>1. CASE UNCHANGED <<cacheVars, nodeVars, said>>
    BY <1>2, <2>1, RequestKeeps DEF cacheVars, clockVars, freshVars
  <2>2. CASE Prime(r)
    <3>1. UNCHANGED <<nodeVars, okVec, said>> /\ fresh' = [fresh EXCEPT ![file[r]] = {}]
      BY <2>2 DEF Prime, AddNew, Refresh, Nullify, clockVars
    <3> QED BY <1>2, <2>0, <3>1, RequestKeeps
  <2>3. CASE LookUp(r)
    <3>1. UNCHANGED <<nodeVars, okVec, fresh, said>>
      BY <2>3 DEF LookUp, GetFile, logVars
    <3> QED BY <1>2, <3>1, RequestKeeps
  <2>4. CASE AvoidTried(r) \/ GiveBack(r) \/ Park(r)
    <3>1. UNCHANGED <<nodeVars, okVec, fresh, said>>
      BY <2>4 DEF AvoidTried, GiveBack, Park, UnkFile, WT4File, cacheVars, clockVars,
                  freshVars, logVars
    <3> QED BY <1>2, <3>1, RequestKeeps
  <2>5. ASSUME NEW v \in Servers, NEW keep, Assign(r, v, keep)
        PROVE  Valid' /\ LoginHidden' /\ FreshSaid'
    <3>1. /\ UNCHANGED <<nodeVars, okVec>>
          /\ fresh' = [fresh EXCEPT ![file[r]] = @ \cup {v}]
          /\ said' = [said EXCEPT ![file[r]] = @ \cup {v}]
      BY <2>5 DEF Assign, AddFile, clockVars
    <3> QED BY <1>2, <2>0, <3>1, RequestKeeps
  <2> QED BY <1>3, <2>1, <2>2, <2>3, <2>4, <2>5
          DEF Request, FindPaths, NoWait, Answer, Send, logVars
<1>4. ASSUME Expire \/ (\E f \in Files : Late(f)) \/ UNCHANGED locVars
      PROVE  Valid' /\ LoginHidden' /\ FreshSaid'
  <2>1. UNCHANGED <<nodeVars, okVec, fresh, said>>
    BY <1>4 DEF Expire, TickTock, Late, TimePasses, locVars, cacheVars, clockVars,
                freshVars, logVars
  <2> QED BY <1>2, <2>1, RequestKeeps
<1>5. Valid' /\ LoginHidden' /\ FreshSaid'
  BY <1>2, <1>3, <1>4, ServerKeeps DEF LocNext
<1> QED BY <1>1, <1>2, <1>5 DEF LocInv

(***************************************************************************)
(* The results for all requests and servers.                               *)
(***************************************************************************)

\* The inductive invariant holds in every behaviour of requests, logins and
\* the cache.
THEOREM LocInvariance == LocSpec => []LocInv
<1> QED BY LocInitInv, LocStep, PTL DEF LocSpec

\* Type correctness of the requests' locals and of the node and path tables.
THEOREM LocTypeCorrect == LocSpec => []LocTypeOK
<1>1. LocInv => LocTypeOK  BY DEF LocInv
<1> QED BY <1>1, LocInvariance, PTL

\* What the cache guarantees for arbitrary callers holds for the requests and
\* logins of CmsLocate, whose initial state is one the cache can be in.
THEOREM LocateKeepsCache == LocSpec => [](HistoryComplete /\ ExpiresOnTime)
<1>1. LocInv => HistoryComplete
  BY DEF LocInv, CacheInv, CacheTypeOK, ClockInv, HistoryComplete, Remembered, Histories
<1>2. LocInv => ExpiresOnTime
  BY TickAssumption DEF LocInv, CacheInv, CacheTypeOK, WheelInv, Ahead, ExpiresOnTime,
                        NextTick, Ticks
<1> QED BY <1>1, <1>2, LocInvariance, PTL

\* A location that a look-up may use was reported by the server now in the
\* slot, unless a request passed its bounce over (XrdCmsProtocol::ConfigCheck,
\* XrdCmsCache::GetFile).
THEOREM LocationsCurrent == LocSpec => []CurrentUnlessSkipped
<1>1. ASSUME LocInv PROVE CurrentUnlessSkipped
  <2>0. FreshUnlessSkipped /\ LoginHidden /\ FreshSaid /\ CacheTypeOK
    BY <1>1 DEF LocInv, CacheInv
  <2> SUFFICES ASSUME NEW f \in loaded, NEW v \in hf[f], v \in okVec, v \in rovec,
                      todB[f] >= Bounced[v]
               PROVE  v \in said[f] \cup skipped[f]
    BY DEF CurrentUnlessSkipped, Usable
  <2>1. f \in Files /\ v \in Servers /\ todB[f] \in Nat /\ Bounced[v] \in Nat
    BY <2>0 DEF CacheTypeOK
  <2>2. v \in fresh[f] \cup skipped[f]
    BY <2>0, <2>1 DEF FreshUnlessSkipped
  <2> QED BY <2>0, <2>1, <2>2 DEF LoginHidden, FreshSaid
<1> QED BY <1>1, LocInvariance, PTL

-----------------------------------------------------------------------------
(***************************************************************************)
(* Nobody is forgotten.  UnqueriedRemembered is not true of all requests:  *)
(* a write that is told to wait, a client's list of servers to avoid, a    *)
(* refresh and a look-up after a bounce each lose servers that are still   *)
(* to be asked.  Where none of these happens the servers to be asked pass, *)
(* like a token, between the entry's qfvec and one request.                *)
(***************************************************************************)
Calm == WriteReqs = {} /\ Avoid = {} /\ Refreshes = {} /\ ~ NilTMO

CalmNodes == \A v \in Servers : node[v] # "bounced" /\ (node[v] = "absent" => v \notin rovec)
CalmClock == \A f \in loaded : todB[f] = BClock

\* A request's reference, and what it has still to do, at each of its steps.
CalmRefs ==
  \A r \in Reqs :
    /\ seen[r] => file[r] \in loaded
    /\ pc[r] # "avoid"
    /\ pc[r] \in {"paths", "get"} => ~ seen[r]
    /\ pc[r] = "get" => rovec \subseteq pinfo[r]
    /\ pc[r] \in {"paths", "get", "select"} => ask[r] = {} /\ unq[r] = {}

\* The request has servers of its file to ask, or to give back.
Holds(r) == seen[r] /\ ask[r] \cup unq[r] # {}

OneHolder ==
  \A r \in Reqs : Holds(r) =>
    /\ qf[file[r]] = {}
    /\ \A q \in Reqs : Holds(q) /\ file[q] = file[r] => q = r

\* Server v was asked about file f, or is still to be asked.
AccountedFor(f, v) ==
  \/ v \in told[f] \cup qf[f]
  \/ \E r \in Reqs : file[r] = f /\ seen[r] /\ v \in ask[r] \cup unq[r]

Asked == \A f \in loaded : \A v \in okVec \cap rovec : AccountedFor(f, v)

CalmInv == LocInv /\ CalmNodes /\ CalmClock /\ CalmRefs /\ OneHolder /\ Asked

-----------------------------------------------------------------------------
\* Steps that hand nothing over: servers leave or are heard from, entries
\* expire, and requests without servers to ask move on or end.
LEMMA CalmFrame ==
  ASSUME CalmInv, LocInv', CalmNodes', CalmRefs',
         UNCHANGED <<file, ask, unq, todB, BClock>>, loaded' \subseteq loaded,
         rovec' \subseteq rovec, okVec' \subseteq okVec,
         \A f \in Files : /\ qf'[f] \subseteq qf[f] /\ qf[f] \subseteq qf'[f] \cup told'[f]
                          /\ told[f] \cap rovec' \subseteq told'[f],
         \A r \in Reqs : /\ seen'[r] => seen[r]
                         /\ Holds(r) /\ file[r] \in loaded' => seen'[r]
  PROVE  CalmInv'
<1>0. LocTypeOK /\ CalmClock /\ OneHolder /\ Asked /\ CacheTypeOK
  BY DEF CalmInv, LocInv, LocTypeOK
<1>1. CalmClock'
  BY <1>0 DEF CalmClock
<1>2. \A r \in Reqs : Holds(r)' => Holds(r)
  BY DEF Holds
<1>3. OneHolder'
  <2>1. \A r \in Reqs : file[r] \in Files  BY <1>0 DEF LocTypeOK
  <2> QED BY <1>0, <1>2, <2>1 DEF OneHolder
<1>4. Asked'
  <2> SUFFICES ASSUME NEW f \in loaded', NEW v \in okVec' \cap rovec'
               PROVE  AccountedFor(f, v)'
    BY DEF Asked
  <2>1. f \in loaded /\ f \in Files /\ v \in okVec \cap rovec
    BY <1>0 DEF CacheTypeOK
  <2>2. AccountedFor(f, v)  BY <1>0, <2>1 DEF Asked
  <2>3. CASE v \in told[f] \cup qf[f]
    BY <2>1, <2>3 DEF AccountedFor
  <2>4. ASSUME NEW r \in Reqs, file[r] = f, seen[r], v \in ask[r] \cup unq[r]
        PROVE  AccountedFor(f, v)'
    <3>1. Holds(r)  BY <2>4 DEF Holds
    <3>2. seen'[r]  BY <2>4, <3>1
    <3> QED BY <2>4, <3>2 DEF AccountedFor
  <2> QED BY <2>2, <2>3, <2>4 DEF AccountedFor
<1> QED BY <1>1, <1>3, <1>4 DEF CalmInv

LEMMA CalmServer ==
  ASSUME CalmInv, LocInv', NEW v \in Servers, Server(v), UNCHANGED BClock
  PROVE  CalmInv'
<1>0. LocTypeOK /\ CalmNodes /\ CalmRefs /\ CacheTypeOK
  BY DEF CalmInv, LocInv, LocTypeOK
<1>a. /\ node \in [Servers -> {"absent", "login", "bounced", "up", "offline"}]
      /\ qf \in [Files -> SUBSET Servers] /\ told \in [Files -> SUBSET Servers]
      /\ BClock \in Nat
  BY <1>0 DEF CacheTypeOK, LocTypeOK
<1>b. ~ LoginBounce(v) /\ ~ Reset(v)
  BY <1>a DEF LoginBounce, Reset, Bounce
<1>c. ~ LoginInsert(v)
  BY <1>0 DEF LoginInsert, CalmNodes
<1>1. UNCHANGED <<pc, file, pinfo, ask, unq, seen, todB, loaded>>
  <2>1. \A f \in Files : Gone(f, v) => UNCHANGED <<reqVars, todB, loaded>>
    BY DEF Gone, DelFile
  <2>2. \A f \in Files, keep \in BOOLEAN : Have(f, v, keep) => UNCHANGED <<reqVars, todB, loaded>>
    BY DEF Have, AddFile
  <2>3. \A hi \in Servers \cup {-1} : DropNode(v, hi) => UNCHANGED <<reqVars, entryVars>>
    BY DEF DropNode, Drop
  <2>4. Login(v) \/ Relogin(v) \/ Disconnect(v) => UNCHANGED <<reqVars, entryVars>>
    BY DEF Login, Relogin, Disconnect, cacheVars
  <2> QED BY <1>b, <1>c, <2>1, <2>2, <2>3, <2>4 DEF Server, reqVars, entryVars
<1>2. rovec' \subseteq rovec /\ okVec' \subseteq okVec /\ CalmNodes'
  BY <1>0, <1>a, <1>b, <1>c DEF Server, Login, Relogin, Disconnect, DropNode, Drop, Gone,
     Have, DelFile, AddFile, CalmNodes, nodeVars, cacheVars, clockVars
<1>3. \A f \in Files : /\ qf'[f] \subseteq qf[f] /\ qf[f] \subseteq qf'[f] \cup told'[f]
                       /\ told[f] \cap rovec' \subseteq told'[f]
  <2>1. CASE Login(v)
    BY <1>a, <2>1 DEF Login, Forgotten, cacheVars, entryVars
  <2>2. CASE Relogin(v) \/ Disconnect(v)
    BY <2>2 DEF Relogin, Disconnect, cacheVars, entryVars, logVars
  <2>3. ASSUME NEW hi, DropNode(v, hi) PROVE UNCHANGED <<qf, told>>
    BY <2>3 DEF DropNode, Drop, entryVars, logVars
  <2>4. ASSUME NEW g \in Files, Gone(g, v)
        PROVE  UNCHANGED qf /\ told' = [told EXCEPT ![g] = @ \cup {v}]
    BY <2>4 DEF Gone, DelFile
  <2>5. ASSUME NEW g \in Files, NEW keep, Have(g, v, keep)
        PROVE  /\ qf' = [qf EXCEPT ![g] = @ \ {v}] /\ told' = [told EXCEPT ![g] = @ \cup {v}]
    BY <2>5 DEF Have, AddFile
  <2> QED BY <1>a, <1>b, <1>c, <2>1, <2>2, <2>3, <2>4, <2>5 DEF Server
<1>4. CalmRefs'
  BY <1>0, <1>1, <1>2 DEF CalmRefs
<1> QED BY <1>1, <1>2, <1>3, <1>4, CalmFrame DEF Holds

\* A request moves on without handing anything over, or ends.
LEMMA CalmMove ==
  ASSUME CalmInv, LocInv', NEW r \in Reqs, UNCHANGED BClock,
         \/ FindPaths(r) \/ Park(r) \/ NoWait(r) \/ Answer(r)
         \/ \E v \in Servers, keep \in BOOLEAN : Assign(r, v, keep)
  PROVE  CalmInv'
<1>0. LocTypeOK /\ CalmNodes /\ CalmRefs /\ CacheTypeOK
  BY DEF CalmInv, LocInv, LocTypeOK
<1>a. /\ pc \in [Reqs -> Pcs] /\ pinfo \in [Reqs -> SUBSET Servers]
      /\ seen \in [Reqs -> BOOLEAN] /\ file[r] \in Files
      /\ qf \in [Files -> SUBSET Servers] /\ told \in [Files -> SUBSET Servers]
  BY <1>0 DEF CacheTypeOK, LocTypeOK
<1>1. UNCHANGED <<file, ask, unq, todB, node, rovec, okVec, loaded>>
  <2>1. FindPaths(r) \/ NoWait(r) \/ Answer(r) =>
          UNCHANGED <<cacheVars, nodeVars, file, ask, unq>>
    BY DEF FindPaths, NoWait, Answer
  <2>2. Park(r) => UNCHANGED <<todB, loaded, okVec, nodeVars, file, ask, unq>>
    BY DEF Park, WT4File, cacheVars, entryVars, clockVars
  <2>3. ASSUME NEW v \in Servers, NEW keep \in BOOLEAN, Assign(r, v, keep)
        PROVE  UNCHANGED <<todB, loaded, okVec, nodeVars, file, ask, unq>>
    BY <2>3 DEF Assign, AddFile, clockVars
  <2> QED BY <2>1, <2>2, <2>3 DEF cacheVars, entryVars, clockVars, nodeVars
<1>2. \A f \in Files : /\ qf'[f] \subseteq qf[f] /\ qf[f] \subseteq qf'[f] \cup told'[f]
                       /\ told[f] \subseteq told'[f]
  <2>1. FindPaths(r) \/ NoWait(r) \/ Answer(r) \/ Park(r) => UNCHANGED <<qf, told>>
    BY DEF FindPaths, NoWait, Answer, Park, WT4File, cacheVars, entryVars, logVars
  <2>2. ASSUME NEW v \in Servers, NEW keep \in BOOLEAN, Assign(r, v, keep)
        PROVE  /\ qf' = [qf EXCEPT ![file[r]] = @ \ {v}]
               /\ told' = [told EXCEPT ![file[r]] = @ \cup {v}]
    BY <2>2 DEF Assign, AddFile
  <2> QED BY <1>a, <2>1, <2>2
<1>3. CASE FindPaths(r) \/ Park(r) \/ NoWait(r)
  <2>1. UNCHANGED seen  BY <1>3 DEF FindPaths, Park, NoWait
  <2>2. CalmRefs'
    BY <1>0, <1>a, <1>1, <1>3, <2>1 DEF CalmRefs, FindPaths, Park, NoWait, GoTo
  <2> QED BY <1>0, <1>1, <1>2, <2>1, <2>2, CalmFrame DEF CalmNodes, Holds
<1>4. CASE Answer(r) \/ \E v \in Servers, keep \in BOOLEAN : Assign(r, v, keep)
  <2>1. pc[r] = "select" /\ Finish(r)  BY <1>4 DEF Answer, Assign
  <2>2. seen' = [seen EXCEPT ![r] = FALSE] /\ pc' = [pc EXCEPT ![r] = "paths"]
        /\ pinfo' = [pinfo EXCEPT ![r] = {}]
    BY <2>1 DEF Finish, GoTo
  <2>3. CalmRefs'
    BY <1>0, <1>a, <1>1, <2>1, <2>2 DEF CalmRefs
  <2>4. \A q \in Reqs : (seen'[q] => seen[q]) /\ (Holds(q) => seen'[q])
    BY <1>0, <1>a, <2>1, <2>2 DEF CalmRefs, Holds
  <2> QED BY <1>0, <1>1, <1>2, <2>3, <2>4, CalmFrame DEF CalmNodes
<1> QED BY <1>3, <1>4

-----------------------------------------------------------------------------
(***************************************************************************)
(* Steps that hand servers over.                                           *)
(***************************************************************************)

\* A new entry: nobody has a reference to it but the request that made it,
\* which is to ask every server that exports the path.
LEMMA CalmPrime ==
  ASSUME Calm, CalmInv, LocInv', NEW r \in Reqs, Prime(r)
  PROVE  CalmInv'
<1> DEFINE f == file[r]
<1>0. /\ LocTypeOK /\ CalmNodes /\ CalmClock /\ CalmRefs /\ OneHolder /\ Asked /\ CacheTypeOK
  BY DEF CalmInv, LocInv, LocTypeOK
<1>a. f \in Files /\ pc[r] = "get" /\ rovec \subseteq pinfo[r] /\ unq[r] = {}
  BY <1>0 DEF LocTypeOK, Prime, CalmRefs
<1>b. AddNew(f)
  <2>1. 0 \notin GetRC(f, pinfo[r])  BY DEF Calm, GetRC
  <2> QED BY <2>1 DEF Calm, Prime
<1>c. /\ f \notin loaded /\ loaded' = loaded \cup {f}
      /\ qf' = [qf EXCEPT ![f] = {}] /\ todB' = [todB EXCEPT ![f] = BClock]
      /\ UNCHANGED <<okVec, BClock>>
  BY <1>b DEF AddNew, Nullify, clockVars
<1>d. /\ told' = [told EXCEPT ![f] = {}] /\ ask' = [ask EXCEPT ![r] = pinfo[r]]
      /\ seen' = [seen EXCEPT ![r] = TRUE] /\ pc' = [pc EXCEPT ![r] = "park"]
      /\ UNCHANGED <<file, pinfo, unq, node, rovec>>
  BY DEF Prime, GoTo, nodeVars
<1>e. /\ qf \in [Files -> SUBSET Servers] /\ told \in [Files -> SUBSET Servers]
      /\ todB \in [Files -> Nat] /\ loaded \subseteq Files /\ okVec \subseteq Servers
      /\ ask \in [Reqs -> SUBSET Servers] /\ seen \in [Reqs -> BOOLEAN]
      /\ pc \in [Reqs -> Pcs] /\ file \in [Reqs -> Files]
  BY <1>0 DEF CacheTypeOK, LocTypeOK
<1>f. \A q \in Reqs : file[q] = f => ~ seen[q]
  BY <1>0, <1>c DEF CalmRefs
<1> HIDE DEF f
<1>1. CalmNodes' /\ CalmClock'
  BY <1>0, <1>a, <1>c, <1>d, <1>e DEF CalmNodes, CalmClock
<1>2. CalmRefs'
  <2> SUFFICES ASSUME NEW q \in Reqs
               PROVE  /\ seen'[q] => file[q] \in loaded'
                      /\ pc'[q] # "avoid"
                      /\ pc'[q] \in {"paths", "get"} => ~ seen'[q]
                      /\ pc'[q] = "get" => rovec \subseteq pinfo[q]
                      /\ pc'[q] \in {"paths", "get", "select"} => ask'[q] = {} /\ unq[q] = {}
    BY <1>d DEF CalmRefs
  <2>1. CASE q = r
    BY <1>c, <1>d, <1>e, <2>1 DEF f
  <2>2. CASE q # r
    BY <1>0, <1>c, <1>d, <1>e, <2>2 DEF CalmRefs
  <2> QED BY <2>1, <2>2
<1>3. OneHolder'
  <2>1. \A q \in Reqs : q # r /\ Holds(q)' => Holds(q) /\ file[q] # f
    BY <1>d, <1>e, <1>f DEF Holds
  <2>2. qf'[f] = {} /\ \A g \in Files : g # f => qf'[g] = qf[g]
    BY <1>a, <1>c, <1>e
  <2> SUFFICES ASSUME NEW p \in Reqs, Holds(p)', NEW q \in Reqs
               PROVE  qf'[file[p]] = {} /\ (Holds(q)' /\ file[q] = file[p] => q = p)
    BY <1>d DEF OneHolder
  <2>3. CASE p = r
    BY <2>1, <2>2, <2>3 DEF f
  <2>4. CASE p # r
    BY <1>0, <1>e, <2>1, <2>2, <2>4 DEF OneHolder, f
  <2> QED BY <2>3, <2>4
<1>4. Asked'
  <2> SUFFICES ASSUME NEW g \in loaded', NEW v \in okVec \cap rovec
               PROVE  AccountedFor(g, v)'
    BY <1>c, <1>d DEF Asked
  <2>1. CASE g = f
    <3>1. v \in ask'[r] /\ seen'[r]  BY <1>a, <1>d, <1>e
    <3> QED BY <1>d, <2>1, <3>1 DEF AccountedFor, f
  <2>2. CASE g # f
    <3>1. g \in loaded /\ g \in Files  BY <1>c, <1>e, <2>2
    <3>2. AccountedFor(g, v)  BY <1>0, <3>1 DEF Asked
    <3>3. told'[g] = told[g] /\ qf'[g] = qf[g]  BY <1>c, <1>d, <1>e, <2>2, <3>1
    <3>4. \A q \in Reqs : file[q] = g => ask'[q] = ask[q] /\ seen'[q] = seen[q]
      BY <1>d, <1>e, <2>2 DEF f
    <3> QED BY <1>d, <3>2, <3>3, <3>4 DEF AccountedFor
  <2> QED BY <2>1, <2>2
<1> QED BY <1>1, <1>2, <1>3, <1>4 DEF CalmInv

\* GetFile empties qfvec and the request is to ask the valid servers of it.
LEMMA CalmLookUp ==
  ASSUME Calm, CalmInv, LocInv', NEW r \in Reqs, LookUp(r)
  PROVE  CalmInv'
<1> DEFINE f == file[r]
<1>0. /\ LocTypeOK /\ CalmNodes /\ CalmClock /\ CalmRefs /\ OneHolder /\ Asked /\ CacheTypeOK
  BY DEF CalmInv, LocInv, LocTypeOK
<1>a. f \in Files /\ f \in loaded /\ pc[r] = "get" /\ ask[r] = {} /\ unq[r] = {} /\ ~ seen[r]
  BY <1>0 DEF LocTypeOK, LookUp, CalmRefs
<1>e. /\ qf \in [Files -> SUBSET Servers] /\ told \in [Files -> SUBSET Servers]
      /\ todB \in [Files -> Nat] /\ loaded \subseteq Files /\ okVec \subseteq Servers
      /\ ask \in [Reqs -> SUBSET Servers] /\ seen \in [Reqs -> BOOLEAN]
      /\ pc \in [Reqs -> Pcs] /\ file \in [Reqs -> Files] /\ BClock \in Nat
  BY <1>0 DEF CacheTypeOK, LocTypeOK
<1>b. ~ Outdated(f)  BY <1>0, <1>a, <1>e DEF Outdated, CalmClock
<1>c. GotBf(f, pinfo[r]) = okVec \cap qf[f]  BY <1>b DEF GotBf, bVec
<1>g. GetFile(f, pinfo[r]) /\ UNCHANGED <<file, unq, nodeVars, logVars>>
  BY DEF LookUp
<1>h. PICK c, m : Continue(r, c, GotHf(f, pinfo[r]), GotBf(f, pinfo[r]), m)
  BY DEF LookUp, StopWrite, Calm
<1>d. /\ qf' = [qf EXCEPT ![f] = {}] /\ todB' = [todB EXCEPT ![f] = BClock]
      /\ ask' = [ask EXCEPT ![r] = okVec \cap qf[f]]
      /\ seen' = [seen EXCEPT ![r] = TRUE] /\ pc' = [pc EXCEPT ![r] = "park"]
      /\ UNCHANGED <<loaded, okVec, BClock, file, pinfo, unq, node, rovec, told>>
  <2>1. qf' = [qf EXCEPT ![f] = {}] /\ todB' = [todB EXCEPT ![f] = BClock]
        /\ UNCHANGED <<loaded, okVec, BClock>>
    BY <1>g DEF GetFile
  <2>2. pc' = [pc EXCEPT ![r] = "park"]
    BY <1>h DEF Continue, GoTo, Calm
  <2> QED BY <1>c, <1>g, <1>h, <2>1, <2>2 DEF Continue, nodeVars, logVars
<1> HIDE DEF f
<1>1. CalmNodes' /\ CalmClock'
  BY <1>0, <1>a, <1>d, <1>e DEF CalmNodes, CalmClock
<1>2. CalmRefs'
  <2> SUFFICES ASSUME NEW q \in Reqs
               PROVE  /\ seen'[q] => file[q] \in loaded
                      /\ pc'[q] # "avoid"
                      /\ pc'[q] \in {"paths", "get"} => ~ seen'[q]
                      /\ pc'[q] = "get" => rovec \subseteq pinfo[q]
                      /\ pc'[q] \in {"paths", "get", "select"} => ask'[q] = {} /\ unq[q] = {}
    BY <1>d DEF CalmRefs
  <2>1. CASE q = r
    BY <1>a, <1>d, <1>e, <2>1 DEF f
  <2>2. CASE q # r
    BY <1>0, <1>d, <1>e, <2>2 DEF CalmRefs
  <2> QED BY <2>1, <2>2
<1>3. OneHolder'
  <2>1. \A q \in Reqs : q # r => (Holds(q)' <=> Holds(q))
    BY <1>d, <1>e DEF Holds
  <2>2. qf'[f] = {} /\ \A g \in Files : g # f => qf'[g] = qf[g]
    BY <1>a, <1>d, <1>e
  <2>3. Holds(r)' => qf[f] # {}
    BY <1>a, <1>d, <1>e DEF Holds
  <2>4. \A q \in Reqs : Holds(q) /\ file[q] = f => qf[f] = {}
    BY <1>0 DEF OneHolder
  <2> SUFFICES ASSUME NEW p \in Reqs, Holds(p)', NEW q \in Reqs
               PROVE  qf'[file[p]] = {} /\ (Holds(q)' /\ file[q] = file[p] => q = p)
    BY <1>d DEF OneHolder
  <2>5. CASE p = r
    BY <2>1, <2>2, <2>3, <2>4, <2>5 DEF f
  <2>6. CASE p # r
    <3>1. Holds(p)  BY <2>1, <2>6
    <3>2. qf[file[p]] = {} /\ (Holds(q) /\ file[q] = file[p] => q = p)
      BY <1>0, <3>1 DEF OneHolder
    <3>3. q = r /\ file[q] = file[p] => ~ Holds(q)'
      BY <2>3, <3>2 DEF f
    <3> QED BY <1>e, <2>1, <2>2, <3>2, <3>3
  <2> QED BY <2>5, <2>6
<1>4. Asked'
  <2> SUFFICES ASSUME NEW g \in loaded, NEW v \in okVec \cap rovec
               PROVE  AccountedFor(g, v)'
    BY <1>d DEF Asked
  <2>1. AccountedFor(g, v) /\ g \in Files  BY <1>0, <1>e DEF Asked
  <2>2. \A q \in Reqs : seen[q] => q # r  BY <1>a
  <2>3. \A q \in Reqs : q # r => ask'[q] = ask[q] /\ seen'[q] = seen[q]
    BY <1>d, <1>e
  <2>4. CASE v \in told[g]
    BY <1>d, <2>4 DEF AccountedFor
  <2>5. CASE v \in qf[g] /\ g # f
    BY <1>d, <1>e, <2>1, <2>5 DEF AccountedFor
  <2>6. CASE v \in qf[g] /\ g = f
    <3>1. v \in ask'[r] /\ seen'[r]  BY <1>d, <1>e, <2>6
    <3> QED BY <1>d, <2>6, <3>1 DEF AccountedFor, f
  <2>7. ASSUME NEW q \in Reqs, file[q] = g, seen[q], v \in ask[q] \cup unq[q]
        PROVE  AccountedFor(g, v)'
    <3>1. q # r  BY <2>2, <2>7
    <3> QED BY <1>d, <2>3, <2>7, <3>1 DEF AccountedFor
  <2> QED BY <2>1, <2>4, <2>5, <2>6, <2>7 DEF AccountedFor
<1> QED BY <1>1, <1>2, <1>3, <1>4 DEF CalmInv

\* Broadcast: the server is told, or kept to be given back.
LEMMA CalmSend ==
  ASSUME CalmInv, LocInv', NEW r \in Reqs, NEW v \in Servers, Send(r, v)
  PROVE  CalmInv'
<1>0. /\ LocTypeOK /\ CalmNodes /\ CalmClock /\ CalmRefs /\ OneHolder /\ Asked /\ CacheTypeOK
  BY DEF CalmInv, LocInv, LocTypeOK
<1>e. /\ told \in [Files -> SUBSET Servers] /\ unq \in [Reqs -> SUBSET Servers]
      /\ ask \in [Reqs -> SUBSET Servers] /\ file \in [Reqs -> Files]
      /\ loaded \subseteq Files
  BY <1>0 DEF CacheTypeOK, LocTypeOK
<1>a. pc[r] = "ask" /\ v \in ask[r]  BY DEF Send
<1>d. /\ ask' = [ask EXCEPT ![r] = @ \ {v}]
      /\ UNCHANGED <<pc, file, pinfo, seen, node, rovec, loaded, okVec, BClock, todB, qf>>
  BY DEF Send, cacheVars, entryVars, clockVars, nodeVars
<1>f. /\ unq' \in {unq, [unq EXCEPT ![r] = @ \cup {v}]}
      /\ \A g \in Files : told[g] \subseteq told'[g]
      /\ seen[r] => v \in told'[file[r]] \cup unq'[r] \/ node[v] = "absent"
  <2>1. CASE told' = [told EXCEPT ![file[r]] = IF seen[r] THEN @ \cup {v} ELSE @]
             /\ UNCHANGED unq
    BY <1>e, <2>1
  <2>2. CASE unq' = [unq EXCEPT ![r] = @ \cup {v}] /\ UNCHANGED told
    BY <1>e, <2>2
  <2>3. CASE node[v] = "absent" /\ UNCHANGED <<unq, told>>
    BY <2>3
  <2> QED BY <2>1, <2>2, <2>3 DEF Send
<1>g. \A q \in Reqs : q # r => ask'[q] = ask[q] /\ unq'[q] = unq[q]
  BY <1>d, <1>e, <1>f
<1>h. ask'[r] = ask[r] \ {v} /\ unq[r] \subseteq unq'[r]
  BY <1>d, <1>e, <1>f
<1>1. CalmNodes' /\ CalmClock'
  BY <1>0, <1>d DEF CalmNodes, CalmClock
<1>2. CalmRefs'
  <2> SUFFICES ASSUME NEW q \in Reqs, pc[q] \in {"paths", "get", "select"}
               PROVE  ask'[q] = {} /\ unq'[q] = {}
    BY <1>0, <1>d DEF CalmRefs
  <2> QED BY <1>0, <1>a, <1>g DEF CalmRefs
<1>3. OneHolder'
  <2>1. \A q \in Reqs : Holds(q)' => Holds(q)
    BY <1>a, <1>d, <1>g DEF Holds
  <2> QED BY <1>0, <1>d, <2>1 DEF OneHolder
<1>4. Asked'
  <2> SUFFICES ASSUME NEW g \in loaded, NEW w \in okVec \cap rovec
               PROVE  AccountedFor(g, w)'
    BY <1>d DEF Asked
  <2>1. AccountedFor(g, w) /\ g \in Files  BY <1>0, <1>e DEF Asked
  <2>2. CASE w \in told[g] \cup qf[g]
    BY <1>d, <1>f, <2>1, <2>2 DEF AccountedFor
  <2>3. ASSUME NEW q \in Reqs, file[q] = g, seen[q], w \in ask[q] \cup unq[q]
        PROVE  AccountedFor(g, w)'
    <3>1. CASE q = r /\ w = v
      <4>1. node[v] # "absent"  BY <1>0, <3>1 DEF CalmNodes
      <4> QED BY <1>d, <1>f, <2>3, <3>1, <4>1 DEF AccountedFor
    <3>2. CASE q # r \/ w # v
      <4>1. w \in ask'[q] \cup unq'[q]  BY <1>g, <1>h, <2>3, <3>2
      <4> QED BY <1>d, <2>3, <4>1 DEF AccountedFor
    <3> QED BY <3>1, <3>2
  <2> QED BY <2>1, <2>2, <2>3 DEF AccountedFor
<1> QED BY <1>1, <1>2, <1>3, <1>4 DEF CalmInv

\* UnkFile overwrites qfvec, which is empty: this request held the servers.
LEMMA CalmGiveBack ==
  ASSUME CalmInv, LocInv', NEW r \in Reqs, GiveBack(r)
  PROVE  CalmInv'
<1> DEFINE f == file[r]
<1>0. /\ LocTypeOK /\ CalmNodes /\ CalmClock /\ CalmRefs /\ OneHolder /\ Asked /\ CacheTypeOK
  BY DEF CalmInv, LocInv, LocTypeOK
<1>e. /\ qf \in [Files -> SUBSET Servers] /\ unq \in [Reqs -> SUBSET Servers]
      /\ ask \in [Reqs -> SUBSET Servers] /\ file \in [Reqs -> Files]
      /\ pc \in [Reqs -> Pcs] /\ loaded \subseteq Files
  BY <1>0 DEF CacheTypeOK, LocTypeOK
<1>a. pc[r] = "ask" /\ ask[r] = {} /\ f \in Files  BY <1>e DEF GiveBack
<1>d. /\ unq' = [unq EXCEPT ![r] = {}] /\ pc' = [pc EXCEPT ![r] = "select"]
      /\ qf' = IF Holds(r) THEN [qf EXCEPT ![f] = unq[r]] ELSE qf
      /\ UNCHANGED <<file, pinfo, ask, seen, node, rovec, loaded, okVec, BClock, todB, told>>
  <2>1. Holds(r) <=> unq[r] # {} /\ seen[r]  BY <1>a DEF Holds
  <2> QED BY <2>1 DEF GiveBack, GoTo, UnkFile, cacheVars, entryVars, clockVars, nodeVars, logVars
<1>f. Holds(r) => qf[f] = {}  BY <1>0 DEF OneHolder
<1> HIDE DEF f
<1>1. CalmNodes' /\ CalmClock'
  BY <1>0, <1>d DEF CalmNodes, CalmClock
<1>2. CalmRefs'
  <2> SUFFICES ASSUME NEW q \in Reqs
               PROVE  /\ pc'[q] # "avoid"
                      /\ pc'[q] \in {"paths", "get"} => ~ seen[q]
                      /\ pc'[q] = "get" => rovec \subseteq pinfo[q]
                      /\ pc'[q] \in {"paths", "get", "select"} => ask[q] = {} /\ unq'[q] = {}
    BY <1>0, <1>d DEF CalmRefs
  <2>1. CASE q = r
    BY <1>a, <1>d, <1>e, <2>1
  <2>2. CASE q # r
    BY <1>0, <1>d, <1>e, <2>2 DEF CalmRefs
  <2> QED BY <2>1, <2>2
<1>3. OneHolder'
  <2>1. \A q \in Reqs : Holds(q)' => Holds(q) /\ q # r
    BY <1>a, <1>d, <1>e DEF Holds
  <2> SUFFICES ASSUME NEW p \in Reqs, Holds(p)', NEW q \in Reqs
               PROVE  qf'[file[p]] = {} /\ (Holds(q)' /\ file[q] = file[p] => q = p)
    BY <1>d DEF OneHolder
  <2>2. Holds(p) /\ p # r  BY <2>1
  <2>3. qf[file[p]] = {} /\ (Holds(q) /\ file[q] = file[p] => q = p)
    BY <1>0, <2>2 DEF OneHolder
  <2>4. Holds(r) => file[p] # f
    BY <1>0, <2>2 DEF OneHolder, f
  <2>5. qf'[file[p]] = qf[file[p]]  BY <1>a, <1>d, <1>e, <2>4
  <2> QED BY <2>1, <2>3, <2>5
<1>4. Asked'
  <2> SUFFICES ASSUME NEW g \in loaded, NEW w \in okVec \cap rovec
               PROVE  AccountedFor(g, w)'
    BY <1>d DEF Asked
  <2>1. AccountedFor(g, w) /\ g \in Files  BY <1>0, <1>e DEF Asked
  <2>2. CASE w \in told[g] \cup qf[g]
    <3>1. qf[g] \subseteq qf'[g]  BY <1>a, <1>d, <1>e, <1>f, <2>1
    <3> QED BY <1>d, <2>2, <3>1 DEF AccountedFor
  <2>3. ASSUME NEW q \in Reqs, file[q] = g, seen[q], w \in ask[q] \cup unq[q]
        PROVE  AccountedFor(g, w)'
    <3>1. CASE q = r
      <4>1. Holds(r) /\ w \in unq[r] /\ g = f  BY <1>a, <2>3, <3>1 DEF Holds, f
      <4>2. w \in qf'[g]  BY <1>a, <1>d, <1>e, <4>1
      <4> QED BY <4>2 DEF AccountedFor
    <3>2. CASE q # r
      <4>1. unq'[q] = unq[q]  BY <1>d, <1>e, <3>2
      <4> QED BY <1>d, <2>3, <4>1 DEF AccountedFor
    <3> QED BY <3>1, <3>2
  <2> QED BY <2>1, <2>2, <2>3 DEF AccountedFor
<1> QED BY <1>1, <1>2, <1>3, <1>4 DEF CalmInv

-----------------------------------------------------------------------------
\* An entry that expires takes the references to it along.
LEMMA CalmTime ==
  ASSUME CalmInv, LocInv', Expire \/ (\E f \in Files : Late(f)) \/ UNCHANGED locVars
  PROVE  CalmInv'
<1>0. LocTypeOK /\ CalmNodes /\ CalmRefs /\ CacheTypeOK
  BY DEF CalmInv, LocInv, LocTypeOK
<1>1. /\ UNCHANGED <<pc, file, pinfo, ask, unq, todB, BClock, okVec, node, rovec, qf, told>>
      /\ loaded' \subseteq loaded
  BY DEF Expire, TickTock, Late, TimePasses, locVars, cacheVars, entryVars, clockVars,
         nodeVars, reqVars, logVars
<1>2. \A r \in Reqs : seen'[r] <=> seen[r] /\ file[r] \notin loaded \ loaded'
  <2>1. CASE Expire
    <3>1. loaded \ loaded' = Expired(NextTick)  BY <2>1 DEF Expire, TickTock, Expired
    <3>2. seen' = [r \in Reqs |-> seen[r] /\ file[r] \notin Expired(NextTick)]
      BY <2>1 DEF Expire, Unseen
    <3> QED BY <3>1, <3>2
  <2>2. CASE (\E f \in Files : Late(f)) \/ UNCHANGED locVars
    BY <2>2 DEF Late, TimePasses, reqVars, locVars, cacheVars, entryVars
  <2> QED BY <2>1, <2>2
<1>3. CalmRefs'
  BY <1>0, <1>1, <1>2 DEF CalmRefs
<1>4. CalmNodes'
  BY <1>0, <1>1 DEF CalmNodes
<1> QED BY <1>1, <1>2, <1>3, <1>4, CalmFrame DEF Holds

LEMMA CalmInitInv == LocInit => CalmInv
<1> SUFFICES ASSUME LocInit PROVE CalmInv
  OBVIOUS
<1>1. LocInv  BY LocInitInv
<1>2. CalmNodes /\ CalmClock /\ CalmRefs /\ OneHolder /\ Asked
  BY DEF LocInit, CalmNodes, CalmClock, CalmRefs, OneHolder, Holds, Asked
<1> QED BY <1>1, <1>2 DEF CalmInv

LEMMA CalmStep ==
  ASSUME Calm, CalmInv, [LocNext]_locVars, [UNCHANGED BClock]_locVars
  PROVE  CalmInv'
<1>1. LocInv'  BY LocStep DEF CalmInv
<1>2. UNCHANGED BClock  BY DEF locVars, cacheVars, clockVars
<1>3. ASSUME NEW r \in Reqs, Request(r) PROVE CalmInv'
  <2>1. ~ AvoidTried(r)  BY DEF AvoidTried, CalmInv, CalmRefs
  <2>2. ASSUME NEW v \in Servers, Send(r, v) PROVE CalmInv'
    BY <1>1, <2>2, CalmSend
  <2> QED BY <1>1, <1>2, <1>3, <2>1, <2>2, CalmMove, CalmPrime, CalmLookUp, CalmGiveBack
          DEF Request
<1> QED BY <1>1, <1>2, <1>3, CalmServer, CalmTime DEF LocNext

\* With reads and locates only, that avoid no server and refresh nothing, and
\* as long as no server bounces, a valid server that was not asked about a
\* file is in its qfvec or will be asked by a request under way, whatever
\* requests overlap and whichever servers disconnect, return or are dropped
\* (XrdCmsCache::GetFile and UnkFile, XrdCmsCluster::Broadcast).
THEOREM NobodyForgotten ==
  ASSUME Calm
  PROVE  LocSpec /\ [][UNCHANGED BClock]_locVars => []UnqueriedRemembered
<1>1. CalmInv => UnqueriedRemembered
  BY DEF CalmInv, Asked, AccountedFor, UnqueriedRemembered
<1>2. CalmInv /\ [LocNext]_locVars /\ [UNCHANGED BClock]_locVars => CalmInv'
  BY CalmStep
<1> QED BY <1>1, <1>2, CalmInitInv, PTL DEF LocSpec
=============================================================================
