----------------------------- MODULE CmsService -----------------------------
(***************************************************************************)
(* What the fast response queue promises to redirectors, with no slots,    *)
(* queues, chains, semaphores or threads: a request is either refused when *)
(* it arrives or held, a held request is answered once, and the answer     *)
(* goes down the connection the request came from, or nowhere if that      *)
(* connection is gone.  CmsRRQ is shown to implement this.                 *)
(***************************************************************************)
EXTENDS Naturals

CONSTANTS Reqs, Servers, Redirectors, MaxInst

VARIABLES state, origin, reply, rtable, nextInst

svcVars == <<state, origin, reply, rtable, nextInst>>

\* The answers a client can be given.
Answers == [kind : {"redirect", "list", "delay"}, to : SUBSET Servers]

SvcInit ==
  /\ state = [r \in Reqs |-> "new"]
  /\ origin = [r \in Reqs |-> [num |-> CHOOSE n \in Redirectors : TRUE, inst |-> 0]]
  /\ reply = [r \in Reqs |-> [kind |-> "none", to |-> {}, via |-> 0]]
  /\ rtable = [n \in Redirectors |-> 0]
  /\ nextInst = 1

\* A connection is made: never with an instance number used before.
Connect(n) ==
  /\ rtable[n] = 0
  /\ rtable' = [rtable EXCEPT ![n] = nextInst]
  /\ nextInst' = nextInst + 1
  /\ UNCHANGED <<state, origin, reply>>

Disconnect(n) ==
  /\ rtable' = [rtable EXCEPT ![n] = 0]
  /\ UNCHANGED <<state, origin, reply, nextInst>>

\* A request arrives over a live connection and is held or refused.
Submit(r, n) ==
  /\ state[r] = "new" /\ rtable[n] # 0
  /\ origin' = [origin EXCEPT ![r] = [num |-> n, inst |-> rtable[n]]]
  /\ \E st \in {"held", "refused"} : state' = [state EXCEPT ![r] = st]
  /\ UNCHANGED <<reply, rtable, nextInst>>

\* Some held requests, one answer for all of them.
Answer(rs, a) ==
  /\ \A r \in rs : state[r] = "held"
  /\ state' = [r \in Reqs |-> IF r \in rs THEN "done" ELSE state[r]]
  /\ \A r \in Reqs :
       reply'[r] = IF r \notin rs THEN reply[r]
                   ELSE IF rtable[origin[r].num] = origin[r].inst
                   THEN [kind |-> a.kind, to |-> a.to, via |-> origin[r].inst]
                   ELSE [kind |-> "gone", to |-> {}, via |-> 0]
  /\ UNCHANGED <<origin, rtable, nextInst>>

SvcNext ==
  \/ \E n \in Redirectors : Connect(n) \/ Disconnect(n)
  \/ \E r \in Reqs, n \in Redirectors : Submit(r, n)
  \/ \E rs \in SUBSET Reqs, a \in Answers : Answer(rs, a)

SvcSpec == SvcInit /\ [][SvcNext]_svcVars
=============================================================================
