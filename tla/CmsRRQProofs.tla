---------------------------- MODULE CmsRRQProofs ----------------------------
(* Proofs about the fast response queue, for any number of slots, items,   *)
(* requests and redirectors and for arbitrary callers, and that the queue  *)
(* implements the service of CmsService.                                   *)
EXTENDS CmsRRQ, TLAPS

\* Where the responder stands: it owns a slot exactly while answering one.
RespOwns == (respSlot # NoSlot) <=> (respPc \in {"cross", "own", "recycle"})

\* The slots whose request has been sent its answer but that are not yet free.
Answered(s) ==
  /\ respSlot # NoSlot /\ (s = respSlot \/ host[s] = respSlot)
  /\ \/ respPc = "recycle"
     \/ respPc = "own" /\ IsLU(s) # IsLU(respSlot)

\* What a request's history and the slots say of each other.
ReqInv ==
  /\ \A s \in Slots : (s \in free) <=> (info[s] = NoReq)
  /\ \A s \in Slots \ free :
       state[info[s]] = IF Answered(s) THEN "done" ELSE "held"
  /\ \A r \in Reqs : state[r] = "new" => reply[r] = NoReply

\* The requests sitting in slots, and the bookkeeping of what was sent to them.
ReqOK == ReqInv /\ AnsweredOnce /\ RightRedirector

\* The inductive invariant.
IInv == RRQTypeOK /\ NoLostWakeup /\ RespOwns /\ SlotsAccounted /\ ReqOK

-----------------------------------------------------------------------------
\* What Cluster.Select and Cluster.List may return names servers of the mask.
LEMMA AnswerType ==
  ASSUME NEW mask \in SUBSET Servers, NEW multi,
         NEW a \in RedAnswers(mask, multi) \cup LocAnswers(mask)
  PROVE  a.kind \in {"redirect", "list", "delay"} /\ a.to \in SUBSET Servers
<1>1. CASE a \in LocAnswers(mask)
  BY <1>1 DEF LocAnswers
<1>2. CASE a \in FullSelect(mask)
  BY <1>2 DEF FullSelect
<1>3. CASE a \in SingleSelect(mask)
  BY <1>3 DEF SingleSelect, MaskNode
<1>4. CASE a = [kind |-> "delay", to |-> {}]
  BY <1>4
<1>5. QED
  BY <1>1, <1>2, <1>3, <1>4 DEF RedAnswers

\* Sending an answer leaves replies, counts and states well typed.
LEMMA SendType ==
  ASSUME RRQTypeOK, NEW c \in SUBSET Slots, NEW a,
         a.kind \in {"redirect", "list", "delay"}, a.to \in SUBSET Servers,
         SendTo(c, a)
  PROVE  /\ reply' \in [Reqs -> Replies] /\ nreply' \in [Reqs -> Nat]
         /\ state' \in [Reqs -> {"new", "held", "refused", "done"}]
<1> DEFINE rs == {info[s] : s \in c}
<1>1. ASSUME NEW r \in Reqs PROVE reply'[r] \in Replies
  <2>1. origin[r].num \in Redirectors /\ rtable[origin[r].num] \in Insts
    BY DEF RRQTypeOK, Origins
  <2>2. NoReply \in Replies /\ [NoReply EXCEPT !.kind = "gone"] \in Replies
    BY BoundAssumption DEF NoReply, Replies, Insts
  <2>3. [kind |-> a.kind, to |-> a.to, via |-> rtable[origin[r].num]] \in Replies
    BY <2>1 DEF Replies
  <2>4. QED
    BY <2>2, <2>3 DEF SendTo, RRQTypeOK
<1>2. QED
  BY <1>1 DEF SendTo, RRQTypeOK

\* Type correctness of every step of the queue, its two threads and its
\* callers (XrdCmsRRQ.cc).
LEMMA TypeStep == RRQTypeOK /\ RespOwns /\ [Next]_rrqVars => RRQTypeOK'
<1> SUFFICES ASSUME RRQTypeOK, RespOwns, [Next]_rrqVars PROVE RRQTypeOK'
  OBVIOUS
<1> USE SlotAssumption, ItemAssumption, ReqAssumption, BoundAssumption
<1>1. ASSUME NEW h \in Slots \cup {NoSlot}, NEW r \in Reqs,
             NEW n \in Redirectors, NEW k \in Items, Add(h, r, n, k)
      PROVE  RRQTypeOK'
  <2>1. origin' \in [Reqs -> Origins]
    BY <1>1 DEF Add, Arrives, RRQTypeOK, Origins, Insts
  <2>2. ASSUME NEW s \in Slots, PiggyBack(s, h, r, k) PROVE RRQTypeOK'
    <3>1. h \in Slots
      BY <2>2 DEF PiggyBack, StillQueued
    <3>2. QED
      BY <2>1, <2>2, <3>1 DEF PiggyBack, Alloc, RRQTypeOK, semVars, respVars, tabVars
  <2>3. ASSUME NEW s \in Slots, Enqueue(s, h, r, k) PROVE RRQTypeOK'
    BY <2>1, <2>3 DEF Enqueue, Alloc, RRQTypeOK, respVars, tabVars
  <2>4. CASE Refuse(r)
    BY <2>1, <2>4 DEF Refuse, RRQTypeOK, slotVars, semVars, respVars, tabVars
  <2>5. QED
    BY <1>1, <2>2, <2>3, <2>4 DEF Add
<1>2. ASSUME NEW s \in Slots, NEW k \in Items, NEW mask \in SUBSET Servers,
             CallReady(s, k, mask)
      PROVE  RRQTypeOK'
  <2>1. CASE Hold(s, mask)
    BY <1>2, <2>1 DEF CallReady, Hold, RRQTypeOK, semVars, respVars, reqVars, tabVars
  <2>2. CASE MakeReady(s, mask)
    BY <1>2, <2>2 DEF CallReady, MakeReady, RRQTypeOK, respVars, reqVars, tabVars
  <2>3. CASE UNCHANGED <<slotVars, semVars>>
    BY <1>2, <2>3 DEF CallReady, RRQTypeOK, slotVars, semVars, respVars, reqVars, tabVars
  <2>4. QED
    BY <1>2, <2>1, <2>2, <2>3 DEF CallReady, Ready
<1>3. ASSUME NEW n \in Redirectors, AdmitRedirector(n) PROVE RRQTypeOK'
  BY <1>3 DEF AdmitRedirector, RRQTypeOK, Insts, slotVars, semVars, respVars, reqVars
<1>4. ASSUME NEW n \in Redirectors, DropRedirector(n) PROVE RRQTypeOK'
  BY <1>4 DEF DropRedirector, RRQTypeOK, Insts, slotVars, semVars, respVars, reqVars
<1>5. CASE TimerStart
  BY <1>5 DEF TimerStart, Tick, RRQTypeOK, respVars, reqVars, tabVars
<1>6. CASE TimerWake
  BY <1>6 DEF TimerWake, Due, Tick, RRQTypeOK, respVars, reqVars, tabVars
<1>7. CASE RespWake
  BY <1>7 DEF RespWake, RRQTypeOK, slotVars, reqVars, tabVars
<1>8. CASE RespIdle
  BY <1>8 DEF RespIdle, RRQTypeOK, slotVars, semVars, reqVars, tabVars
<1>9. ASSUME NEW s \in Slots, RespTake(s) PROVE RRQTypeOK'
  BY <1>9 DEF RespTake, RRQTypeOK, reqVars, tabVars
<1>10. CASE RespCross
  <2>1. respSlot \in Slots /\ arg1[respSlot] \in SUBSET Servers
    BY <1>10 DEF RespCross, RespOwns, RRQTypeOK
  <2>2. PICK a \in RedAnswers(arg1[respSlot], FALSE) \cup LocAnswers(arg1[respSlot]) :
           SendTo(Chain(respSlot, ~ IsLU(respSlot)), a)
    BY <1>10 DEF RespCross
  <2>3. a.kind \in {"redirect", "list", "delay"} /\ a.to \in SUBSET Servers
    BY <2>1, AnswerType
  <2>4. Chain(respSlot, ~ IsLU(respSlot)) \in SUBSET Slots
    BY DEF Chain
  <2>5. /\ reply' \in [Reqs -> Replies] /\ nreply' \in [Reqs -> Nat]
        /\ state' \in [Reqs -> {"new", "held", "refused", "done"}]
    BY <2>2, <2>3, <2>4, SendType
  <2>6. QED
    BY <1>10, <2>5 DEF RespCross, RRQTypeOK, slotVars, semVars, tabVars
<1>11. CASE RespOwn
  <2>1. respSlot \in Slots /\ arg1[respSlot] \in SUBSET Servers
    BY <1>11 DEF RespOwn, RespOwns, RRQTypeOK
  <2>2. PICK a \in RedAnswers(arg1[respSlot], actR[respSlot] > 0)
                     \cup LocAnswers(arg1[respSlot]) :
           SendTo(Chain(respSlot, IsLU(respSlot)), a)
    BY <1>11 DEF RespOwn
  <2>3. a.kind \in {"redirect", "list", "delay"} /\ a.to \in SUBSET Servers
    BY <2>1, AnswerType
  <2>4. Chain(respSlot, IsLU(respSlot)) \in SUBSET Slots
    BY DEF Chain
  <2>5. /\ reply' \in [Reqs -> Replies] /\ nreply' \in [Reqs -> Nat]
        /\ state' \in [Reqs -> {"new", "held", "refused", "done"}]
    BY <2>2, <2>3, <2>4, SendType
  <2>6. QED
    BY <1>11, <2>5 DEF RespOwn, RRQTypeOK, slotVars, semVars, tabVars
<1>12. CASE RespRecycle
  BY <1>12 DEF RespRecycle, RecycleSet, RRQTypeOK, semVars, reqVars, tabVars
<1>13. CASE UNCHANGED rrqVars
  BY <1>13 DEF rrqVars, RRQTypeOK, slotVars, semVars, respVars, reqVars, tabVars
<1>14. QED
  BY <1>1, <1>2, <1>3, <1>4, <1>5, <1>6, <1>7, <1>8, <1>9, <1>10, <1>11, <1>12,
     <1>13 DEF Next, Redirector, Timer, Responder

\* The responder owns a slot exactly while it answers one.
LEMMA RespOwnsStep ==
  ASSUME RRQTypeOK, RespOwns, [Next]_rrqVars
  PROVE  RespOwns'
<1> USE SlotAssumption, ItemAssumption, ReqAssumption, BoundAssumption DEF RespOwns
<1>1. ASSUME NEW h \in Slots \cup {NoSlot}, NEW r \in Reqs,
             NEW n \in Redirectors, NEW k \in Items, Add(h, r, n, k)
      PROVE  RespOwns'
  <2>1. ASSUME NEW s \in Slots, PiggyBack(s, h, r, k) PROVE RespOwns'
    BY <1>1, <2>1 DEF Add, Arrives, PiggyBack, Alloc, StillQueued, RRQTypeOK, slotVars, semVars, respVars, reqVars, tabVars
  <2>2. ASSUME NEW s \in Slots, Enqueue(s, h, r, k) PROVE RespOwns'
    BY <1>1, <2>2 DEF Add, Arrives, Enqueue, Alloc, StillQueued, RRQTypeOK, slotVars, semVars, respVars, reqVars, tabVars
  <2>3. CASE Refuse(r)
    BY <1>1, <2>3 DEF Add, Arrives, Refuse, RRQTypeOK, slotVars, semVars, respVars, reqVars, tabVars
  <2>4. QED
    BY <1>1, <2>1, <2>2, <2>3 DEF Add
<1>2. ASSUME NEW s \in Slots, NEW k \in Items, NEW mask \in SUBSET Servers,
             CallReady(s, k, mask)
      PROVE  RespOwns'
  BY <1>2 DEF CallReady, Ready, Hold, MakeReady, StillQueued, RRQTypeOK, slotVars, semVars, respVars, reqVars, tabVars
<1>3. ASSUME NEW n \in Redirectors, AdmitRedirector(n) PROVE RespOwns'
  BY <1>3 DEF AdmitRedirector, RRQTypeOK, slotVars, semVars, respVars, reqVars, tabVars
<1>4. ASSUME NEW n \in Redirectors, DropRedirector(n) PROVE RespOwns'
  BY <1>4 DEF DropRedirector, RRQTypeOK, slotVars, semVars, respVars, reqVars, tabVars
<1>5. CASE TimerStart
  BY <1>5 DEF TimerStart, Due, Tick, RRQTypeOK, slotVars, semVars, respVars, reqVars, tabVars
<1>6. CASE TimerWake
  BY <1>6 DEF TimerWake, Due, Tick, RRQTypeOK, slotVars, semVars, respVars, reqVars, tabVars
<1>7. CASE RespWake
  BY <1>7 DEF RespWake, RRQTypeOK, slotVars, semVars, respVars, reqVars, tabVars
<1>8. CASE RespIdle
  BY <1>8 DEF RespIdle, RRQTypeOK, slotVars, semVars, respVars, reqVars, tabVars
<1>9. ASSUME NEW s \in Slots, RespTake(s) PROVE RespOwns'
  BY <1>9 DEF RespTake, RRQTypeOK, slotVars, semVars, respVars, reqVars, tabVars
<1>10. CASE RespCross
  BY <1>10 DEF RespCross, RRQTypeOK, slotVars, semVars, respVars, reqVars, tabVars
<1>11. CASE RespOwn
  BY <1>11 DEF RespOwn, RRQTypeOK, slotVars, semVars, respVars, reqVars, tabVars
<1>12. CASE RespRecycle
  BY <1>12 DEF RespRecycle, RecycleSet, RRQTypeOK, slotVars, semVars, respVars, reqVars, tabVars
<1>13. CASE UNCHANGED rrqVars
  BY <1>13 DEF rrqVars, slotVars, semVars, respVars, reqVars, tabVars
<1>14. QED
  BY <1>1, <1>2, <1>3, <1>4, <1>5, <1>6, <1>7, <1>8, <1>9, <1>10, <1>11, <1>12,
     <1>13 DEF Next, Redirector, Timer, Responder

\* A post is never missing: queues become non-empty only with a post, and the
\* threads go to sleep only on empty queues.
LEMMA WakeupStep ==
  ASSUME RRQTypeOK, NoLostWakeup, [Next]_rrqVars
  PROVE  NoLostWakeup'
<1> USE SlotAssumption, ItemAssumption, ReqAssumption, BoundAssumption DEF NoLostWakeup
<1>1. ASSUME NEW h \in Slots \cup {NoSlot}, NEW r \in Reqs,
             NEW n \in Redirectors, NEW k \in Items, Add(h, r, n, k)
      PROVE  NoLostWakeup'
  <2>1. ASSUME NEW s \in Slots, PiggyBack(s, h, r, k) PROVE NoLostWakeup'
    BY <1>1, <2>1 DEF Add, Arrives, PiggyBack, Alloc, StillQueued, RRQTypeOK, slotVars, semVars, respVars, reqVars, tabVars
  <2>2. ASSUME NEW s \in Slots, Enqueue(s, h, r, k) PROVE NoLostWakeup'
    BY <1>1, <2>2 DEF Add, Arrives, Enqueue, Alloc, StillQueued, RRQTypeOK, slotVars, semVars, respVars, reqVars, tabVars
  <2>3. CASE Refuse(r)
    BY <1>1, <2>3 DEF Add, Arrives, Refuse, RRQTypeOK, slotVars, semVars, respVars, reqVars, tabVars
  <2>4. QED
    BY <1>1, <2>1, <2>2, <2>3 DEF Add
<1>2. ASSUME NEW s \in Slots, NEW k \in Items, NEW mask \in SUBSET Servers,
             CallReady(s, k, mask)
      PROVE  NoLostWakeup'
  BY <1>2 DEF CallReady, Ready, Hold, MakeReady, StillQueued, RRQTypeOK, slotVars, semVars, respVars, reqVars, tabVars
<1>3. ASSUME NEW n \in Redirectors, AdmitRedirector(n) PROVE NoLostWakeup'
  BY <1>3 DEF AdmitRedirector, RRQTypeOK, slotVars, semVars, respVars, reqVars, tabVars
<1>4. ASSUME NEW n \in Redirectors, DropRedirector(n) PROVE NoLostWakeup'
  BY <1>4 DEF DropRedirector, RRQTypeOK, slotVars, semVars, respVars, reqVars, tabVars
<1>5. CASE TimerStart
  BY <1>5 DEF TimerStart, Due, Tick, RRQTypeOK, slotVars, semVars, respVars, reqVars, tabVars
<1>6. CASE TimerWake
  BY <1>6 DEF TimerWake, Due, Tick, RRQTypeOK, slotVars, semVars, respVars, reqVars, tabVars
<1>7. CASE RespWake
  BY <1>7 DEF RespWake, RRQTypeOK, slotVars, semVars, respVars, reqVars, tabVars
<1>8. CASE RespIdle
  BY <1>8 DEF RespIdle, RRQTypeOK, slotVars, semVars, respVars, reqVars, tabVars
<1>9. ASSUME NEW s \in Slots, RespTake(s) PROVE NoLostWakeup'
  BY <1>9 DEF RespTake, RRQTypeOK, slotVars, semVars, respVars, reqVars, tabVars
<1>10. CASE RespCross
  BY <1>10 DEF RespCross, RRQTypeOK, slotVars, semVars, respVars, reqVars, tabVars
<1>11. CASE RespOwn
  BY <1>11 DEF RespOwn, RRQTypeOK, slotVars, semVars, respVars, reqVars, tabVars
<1>12. CASE RespRecycle
  BY <1>12 DEF RespRecycle, RecycleSet, RRQTypeOK, slotVars, semVars, respVars, reqVars, tabVars
<1>13. CASE UNCHANGED rrqVars
  BY <1>13 DEF rrqVars, slotVars, semVars, respVars, reqVars, tabVars
<1>14. QED
  BY <1>1, <1>2, <1>3, <1>4, <1>5, <1>6, <1>7, <1>8, <1>9, <1>10, <1>11, <1>12,
     <1>13 DEF Next, Redirector, Timer, Responder

\* No step loses a slot, frees one that is in use, or chains to a dead one.
LEMMA SlotStep ==
  ASSUME RRQTypeOK, RespOwns, SlotsAccounted, [Next]_rrqVars
  PROVE  SlotsAccounted'
<1> USE SlotAssumption, ItemAssumption, ReqAssumption, BoundAssumption DEF RespOwns, SlotsAccounted
<1>1. ASSUME NEW h \in Slots \cup {NoSlot}, NEW r \in Reqs,
             NEW n \in Redirectors, NEW k \in Items, Add(h, r, n, k)
      PROVE  SlotsAccounted'
  <2>1. ASSUME NEW s \in Slots, PiggyBack(s, h, r, k) PROVE SlotsAccounted'
    BY <1>1, <2>1 DEF Add, Arrives, PiggyBack, Alloc, StillQueued, RRQTypeOK, slotVars, semVars, respVars, reqVars, tabVars
  <2>2. ASSUME NEW s \in Slots, Enqueue(s, h, r, k) PROVE SlotsAccounted'
    BY <1>1, <2>2 DEF Add, Arrives, Enqueue, Alloc, StillQueued, RRQTypeOK, slotVars, semVars, respVars, reqVars, tabVars
  <2>3. CASE Refuse(r)
    BY <1>1, <2>3 DEF Add, Arrives, Refuse, RRQTypeOK, slotVars, semVars, respVars, reqVars, tabVars
  <2>4. QED
    BY <1>1, <2>1, <2>2, <2>3 DEF Add
<1>2. ASSUME NEW s \in Slots, NEW k \in Items, NEW mask \in SUBSET Servers,
             CallReady(s, k, mask)
      PROVE  SlotsAccounted'
  BY <1>2 DEF CallReady, Ready, Hold, MakeReady, StillQueued, RRQTypeOK, slotVars, semVars, respVars, reqVars, tabVars
<1>3. ASSUME NEW n \in Redirectors, AdmitRedirector(n) PROVE SlotsAccounted'
  BY <1>3 DEF AdmitRedirector, RRQTypeOK, slotVars, semVars, respVars, reqVars, tabVars
<1>4. ASSUME NEW n \in Redirectors, DropRedirector(n) PROVE SlotsAccounted'
  BY <1>4 DEF DropRedirector, RRQTypeOK, slotVars, semVars, respVars, reqVars, tabVars
<1>5. CASE TimerStart
  BY <1>5 DEF TimerStart, Due, Tick, RRQTypeOK, slotVars, semVars, respVars, reqVars, tabVars
<1>6. CASE TimerWake
  BY <1>6 DEF TimerWake, Due, Tick, RRQTypeOK, slotVars, semVars, respVars, reqVars, tabVars
<1>7. CASE RespWake
  BY <1>7 DEF RespWake, RRQTypeOK, slotVars, semVars, respVars, reqVars, tabVars
<1>8. CASE RespIdle
  BY <1>8 DEF RespIdle, RRQTypeOK, slotVars, semVars, respVars, reqVars, tabVars
<1>9. ASSUME NEW s \in Slots, RespTake(s) PROVE SlotsAccounted'
  BY <1>9 DEF RespTake, RRQTypeOK, slotVars, semVars, respVars, reqVars, tabVars
<1>10. CASE RespCross
  BY <1>10 DEF RespCross, RRQTypeOK, slotVars, semVars, respVars, reqVars, tabVars
<1>11. CASE RespOwn
  BY <1>11 DEF RespOwn, RRQTypeOK, slotVars, semVars, respVars, reqVars, tabVars
<1>12. CASE RespRecycle
  BY <1>12 DEF RespRecycle, RecycleSet, RRQTypeOK, slotVars, semVars, respVars, reqVars, tabVars
<1>13. CASE UNCHANGED rrqVars
  BY <1>13 DEF rrqVars, slotVars, semVars, respVars, reqVars, tabVars
<1>14. QED
  BY <1>1, <1>2, <1>3, <1>4, <1>5, <1>6, <1>7, <1>8, <1>9, <1>10, <1>11, <1>12,
     <1>13 DEF Next, Redirector, Timer, Responder

\* Parking a request, on a chain or on the queue, puts it in a fresh slot.
LEMMA ParkStep ==
  ASSUME RRQTypeOK, RespOwns, SlotsAccounted, ReqOK,
         NEW s \in Slots, NEW r \in Reqs, NEW k \in Items, NEW n \in Redirectors,
         Arrives(r, n), Alloc(s, r, k),
         \A t \in Slots \ {s} : host'[t] = host[t],
         host'[s] # respSlot \/ respSlot = NoSlot \/ respPc = "cross",
         UNCHANGED <<respVars, reply, nreply>>
  PROVE  ReqOK'
<1> USE SlotAssumption, ReqAssumption DEF ReqOK, RRQTypeOK, respVars
<1>1. \A t \in Slots \ free : info[t] \in Reqs /\ info[t] # r
  BY DEF ReqInv, Arrives
<1>2. s \in free /\ s # respSlot
  BY DEF Alloc, SlotsAccounted
<1>3. \A t \in Slots \ {s} : Answered(t)' <=> Answered(t)
  BY <1>2 DEF Answered, IsLU, Alloc
<1>4. ~ Answered(s)'
  BY <1>2 DEF Answered
<1>5. ReqInv'
  BY <1>1, <1>2, <1>3, <1>4 DEF ReqInv, Alloc, Arrives
<1>6. AnsweredOnce'
  BY <1>1, <1>2 DEF AnsweredOnce, ReqInv, Alloc, Arrives
<1>7. RightRedirector'
  BY DEF RightRedirector, ReqInv, Arrives, NoReply
<1>8. QED
  BY <1>5, <1>6, <1>7

\* Answering the slots of a chain that had no answer yet: each of their
\* requests gets exactly this one, through the redirector it came from.
LEMMA SendStep ==
  ASSUME RRQTypeOK, ReqOK, NEW c \in SUBSET (Slots \ free), NEW a, SendTo(c, a),
         \A s \in c : ~ Answered(s),
         \A s \in Slots \ free : Answered(s)' <=> (Answered(s) \/ s \in c),
         UNCHANGED <<info, free, origin>>
  PROVE  ReqOK'
<1> USE ReqAssumption DEF ReqOK, RRQTypeOK
<1> DEFINE rs == {info[s] : s \in c}
<1>1. \A s \in Slots \ free : info[s] \in Reqs /\ (info[s] \in rs <=> s \in c)
  BY DEF ReqInv, AnsweredOnce
<1>2. \A r \in rs : r \in Reqs /\ state[r] = "held"
  BY DEF ReqInv
<1>3. state' = [r \in Reqs |-> IF r \in rs THEN "done" ELSE state[r]]
  BY DEF SendTo
<1>4. \A r \in Reqs : r \notin rs => reply'[r] = reply[r]
  BY DEF SendTo
<1>5. ReqInv'
  <2>1. \A s \in Slots \ free :
           state'[info[s]] = IF Answered(s)' THEN "done" ELSE "held"
    BY <1>1, <1>3 DEF ReqInv
  <2>2. \A r \in Reqs : state'[r] = "new" => reply'[r] = NoReply
    BY <1>3, <1>4 DEF ReqInv
  <2>3. QED
    BY <2>1, <2>2 DEF ReqInv
<1>6. AnsweredOnce'
  <2>1. nreply' = [r \in Reqs |-> IF r \in rs THEN nreply[r] + 1 ELSE nreply[r]]
    BY DEF SendTo
  <2>2. QED
    BY <1>2, <1>3, <2>1 DEF AnsweredOnce
<1>7. RightRedirector'
  <2>1. \A r \in Reqs : r \in rs => reply'[r].via \in {0, origin[r].inst}
    BY DEF SendTo, Find, NoReply
  <2>2. QED
    BY <1>4, <2>1 DEF RightRedirector
<1>8. QED
  BY <1>5, <1>6, <1>7

\* Every step keeps each accepted request in exactly one slot until it has
\* its one answer.
LEMMA ReqStep ==
  ASSUME RRQTypeOK, RespOwns, SlotsAccounted, ReqOK, [Next]_rrqVars
  PROVE  ReqOK'
<1> USE SlotAssumption, ItemAssumption, ReqAssumption, BoundAssumption
<1>0. ASSUME UNCHANGED <<info, host, free, respPc, respSlot, reqVars>> PROVE ReqOK'
  BY <1>0 DEF ReqOK, ReqInv, AnsweredOnce, RightRedirector, Answered, IsLU, reqVars
<1>1. ASSUME NEW h \in Slots \cup {NoSlot}, NEW r \in Reqs,
             NEW n \in Redirectors, NEW k \in Items, Add(h, r, n, k)
      PROVE  ReqOK'
  <2>1. ASSUME NEW s \in Slots, PiggyBack(s, h, r, k) PROVE ReqOK'
    <3>1. h # respSlot
      BY <2>1 DEF PiggyBack, StillQueued, SlotsAccounted
    <3>2. QED
      BY <1>1, <2>1, <3>1, ParkStep DEF Add, PiggyBack, RRQTypeOK
  <2>2. ASSUME NEW s \in Slots, Enqueue(s, h, r, k) PROVE ReqOK'
    <3>1. host[s] = NoSlot
      BY <2>2 DEF Enqueue, Alloc, SlotsAccounted
    <3>2. QED
      BY <1>1, <2>2, <3>1, ParkStep DEF Add, Enqueue
  <2>3. CASE Refuse(r)
    BY <1>1, <2>3 DEF Add, Arrives, Refuse, RRQTypeOK, ReqOK, ReqInv, AnsweredOnce,
       RightRedirector, Answered, IsLU, NoReply, slotVars, semVars, respVars, reqVars, tabVars
  <2>4. QED
    BY <1>1, <2>1, <2>2, <2>3 DEF Add
<1>2. ASSUME NEW s \in Slots, NEW k \in Items, NEW mask \in SUBSET Servers,
             CallReady(s, k, mask)
      PROVE  ReqOK'
  BY <1>0, <1>2 DEF CallReady, Ready, Hold, MakeReady, slotVars, semVars, respVars, reqVars, tabVars
<1>3. ASSUME NEW n \in Redirectors, AdmitRedirector(n) \/ DropRedirector(n)
      PROVE  ReqOK'
  BY <1>0, <1>3 DEF AdmitRedirector, DropRedirector, slotVars, respVars
<1>4. CASE Timer
  BY <1>0, <1>4 DEF Timer, TimerStart, TimerWake, respVars
<1>5. CASE RespWake \/ RespIdle
  <2>1. respSlot = NoSlot /\ respSlot' = NoSlot
    BY <1>5 DEF RespWake, RespIdle, RespOwns
  <2>2. QED
    BY <1>5, <2>1 DEF RespWake, RespIdle, ReqOK, ReqInv, AnsweredOnce,
       RightRedirector, Answered, slotVars, reqVars
<1>6. ASSUME NEW s \in Slots, RespTake(s) PROVE ReqOK'
  <2>1. respSlot = NoSlot /\ respPc' = "cross"
    BY <1>6 DEF RespTake, RespOwns
  <2>2. QED
    BY <1>6, <2>1 DEF RespTake, ReqOK, ReqInv, AnsweredOnce, RightRedirector,
       Answered, reqVars
<1>7. CASE RespCross
  <2> DEFINE c == Chain(respSlot, ~ IsLU(respSlot))
  <2>1. respSlot \in Slots \ free
    BY <1>7 DEF RespCross, RespOwns, RRQTypeOK, SlotsAccounted
  <2>2. c \in SUBSET (Slots \ free)
    BY <2>1 DEF Chain, SlotsAccounted
  <2>3. PICK a : SendTo(c, a)
    BY <1>7 DEF RespCross
  <2>4. \A s \in c : ~ Answered(s)
    BY <1>7 DEF RespCross, Answered
  <2>5. \A s \in Slots \ free : Answered(s)' <=> (Answered(s) \/ s \in c)
    BY <1>7, <2>1 DEF RespCross, Answered, Chain, IsLU, slotVars
  <2>6. QED
    BY <1>7, <2>2, <2>3, <2>4, <2>5, SendStep DEF RespCross, slotVars
<1>8. CASE RespOwn
  <2> DEFINE c == Chain(respSlot, IsLU(respSlot))
  <2>1. respSlot \in Slots \ free
    BY <1>8 DEF RespOwn, RespOwns, RRQTypeOK, SlotsAccounted
  <2>2. c \in SUBSET (Slots \ free)
    BY <2>1 DEF Chain, SlotsAccounted
  <2>3. PICK a : SendTo(c, a)
    BY <1>8 DEF RespOwn
  <2>4. \A s \in c : ~ Answered(s)
    BY <1>8 DEF RespOwn, Answered, Chain
  <2>5. \A s \in Slots \ free : Answered(s)' <=> (Answered(s) \/ s \in c)
    BY <1>8, <2>1 DEF RespOwn, Answered, Chain, IsLU, slotVars
  <2>6. QED
    BY <1>8, <2>2, <2>3, <2>4, <2>5, SendStep DEF RespOwn, slotVars
<1>9. CASE RespRecycle
  <2>1. respSlot # NoSlot
    BY <1>9 DEF RespRecycle, RecycleSet, RespOwns
  <2>2. \A s \in Slots \ free : (s = respSlot \/ host[s] = respSlot) <=> Answered(s)
    BY <1>9, <2>1 DEF RespRecycle, RecycleSet, Answered
  <2>3. \A s \in Slots : ~ Answered(s)'
    BY <1>9 DEF RespRecycle, RecycleSet, Answered
  <2>4. ReqInv'
    BY <1>9, <2>2, <2>3 DEF RespRecycle, RecycleSet, ReqOK, ReqInv, RRQTypeOK, reqVars
  <2>5. AnsweredOnce'
    BY <1>9, <2>2 DEF RespRecycle, RecycleSet, ReqOK, ReqInv, AnsweredOnce, RRQTypeOK, reqVars
  <2>6. RightRedirector'
    BY <1>9 DEF RespRecycle, RecycleSet, ReqOK, RightRedirector, reqVars
  <2>7. QED
    BY <2>4, <2>5, <2>6 DEF ReqOK
<1>10. CASE UNCHANGED rrqVars
  BY <1>0, <1>10 DEF rrqVars, slotVars, semVars, respVars, reqVars, tabVars
<1>11. QED
  BY <1>1, <1>2, <1>3, <1>4, <1>5, <1>6, <1>7, <1>8, <1>9, <1>10
     DEF Next, Redirector, Responder

-----------------------------------------------------------------------------
\* The inductive invariant holds initially and is kept by every step ...
LEMMA InvInit == RRQInit => IInv
<1> SUFFICES ASSUME RRQInit PROVE IInv
  OBVIOUS
<1> USE SlotAssumption, ItemAssumption, ReqAssumption, BoundAssumption,
        RedirectorAssumption DEF RRQInit
<1>1. RRQTypeOK
  BY DEF RRQTypeOK, Origins, Insts, Replies, NoReply
<1>2. NoLostWakeup /\ RespOwns /\ SlotsAccounted
  BY DEF NoLostWakeup, RespOwns, SlotsAccounted
<1>3. ReqOK
  BY DEF ReqOK, ReqInv, AnsweredOnce, RightRedirector, NoReply
<1>4. QED
  BY <1>1, <1>2, <1>3 DEF IInv

LEMMA InvStep == IInv /\ [Next]_rrqVars => IInv'
BY TypeStep, RespOwnsStep, WakeupStep, SlotStep, ReqStep DEF IInv

\* ... and hence holds throughout.
THEOREM Invariance == Spec => []IInv
BY InvInit, InvStep, PTL DEF Spec

\* The variables of the queue keep their types (XrdCmsRRQ.hh).
THEOREM TypeCorrect == Spec => []RRQTypeOK
BY Invariance, PTL DEF IInv

\* Respond() and TimeOut() never sleep on a semaphore with work queued and no
\* post pending, although posts are made only for the first entry of a queue.
THEOREM WakeupsKept == Spec => []NoLostWakeup
BY Invariance, PTL DEF IInv

\* Add, Ready, TimeOut, Respond and Recycle together never leak a slot, free
\* one in use, or leave a chained request on a slot that is not served.
THEOREM SlotsKept == Spec => []SlotsAccounted
BY Invariance, PTL DEF IInv

\* A request accepted by Add stays in one slot until Respond answers it, and
\* is answered once, for every use of stale slot numbers by callers.
THEOREM OneAnswer == Spec => []AnsweredOnce
BY Invariance, PTL DEF IInv, ReqOK

\* RTable.Find's instance check keeps answers from reaching a redirector that
\* took over the table index of the one that asked.
THEOREM AnswersReturn == Spec => []RightRedirector
BY Invariance, PTL DEF IInv, ReqOK

-----------------------------------------------------------------------------
(***************************************************************************)
(* The queue implements the service of CmsService.                         *)
(***************************************************************************)

\* A request that has arrived carries the instance of a real connection.
OriginKnown == \A r \in Reqs : state[r] # "new" => origin[r].inst # 0

\* The invariant under which steps of the queue are steps of the service.
SimInv == IInv /\ OriginKnown

-----------------------------------------------------------------------------
\* Add is the arrival of a request that is held or refused.
LEMMA AddSubmits ==
  ASSUME SimInv, NEW h, NEW r \in Reqs, NEW n \in Redirectors, NEW k,
         Add(h, r, n, k)
  PROVE  Service!Submit(r, n) /\ OriginKnown'
<1>1. \E st \in {"held", "refused"} : state' = [state EXCEPT ![r] = st]
  BY DEF Add, PiggyBack, Enqueue, Refuse, Alloc
<1>2. UNCHANGED <<reply, rtable, nextInst>>
  BY DEF Add, PiggyBack, Enqueue, Refuse, tabVars
<1>3. state[r] = "new" /\ rtable[n] # 0
      /\ origin' = [origin EXCEPT ![r] = [num |-> n, inst |-> rtable[n]]]
  BY DEF Add, Arrives
<1>4. OriginKnown'
  BY <1>1, <1>3 DEF OriginKnown, SimInv, IInv, RRQTypeOK
<1>5. QED
  BY <1>1, <1>2, <1>3, <1>4 DEF Service!Submit

\* Answering a chain with no answer yet is one Answer of the service.
LEMMA SendAnswers ==
  ASSUME SimInv, NEW c \in SUBSET (Slots \ free), NEW a, SendTo(c, a),
         a.kind \in {"redirect", "list", "delay"}, a.to \in SUBSET Servers,
         \A s \in c : ~ Answered(s),
         UNCHANGED <<origin, tabVars>>
  PROVE  (\E rs \in SUBSET Reqs, b \in Service!Answers : Service!Answer(rs, b))
         /\ OriginKnown'
<1> DEFINE rs == {info[s] : s \in c}
           b == [kind |-> a.kind, to |-> a.to]
<1>1. \A r \in rs : r \in Reqs /\ state[r] = "held"
  BY ReqAssumption DEF SimInv, IInv, ReqOK, ReqInv, RRQTypeOK
<1>2. \A r \in rs : Find(origin[r]) <=> rtable[origin[r].num] = origin[r].inst
  BY <1>1 DEF Find, SimInv, OriginKnown
<1>3. state' = [r \in Reqs |-> IF r \in rs THEN "done" ELSE state[r]]
  BY DEF SendTo
<1>4. ASSUME NEW r \in Reqs
      PROVE  reply'[r] = IF r \notin rs THEN reply[r]
                         ELSE IF rtable[origin[r].num] = origin[r].inst
                         THEN [kind |-> b.kind, to |-> b.to, via |-> origin[r].inst]
                         ELSE [kind |-> "gone", to |-> {}, via |-> 0]
  <2>1. reply'[r] = IF r \notin rs THEN reply[r]
                    ELSE IF Find(origin[r])
                         THEN [kind |-> a.kind, to |-> a.to,
                               via |-> rtable[origin[r].num]]
                         ELSE [NoReply EXCEPT !.kind = "gone"]
    BY DEF SendTo
  <2>2. [NoReply EXCEPT !.kind = "gone"] = [kind |-> "gone", to |-> {}, via |-> 0]
    BY DEF NoReply
  <2>3. QED
    BY <1>2, <2>1, <2>2
<1>5. rs \in SUBSET Reqs /\ b \in Service!Answers
  BY <1>1 DEF Service!Answers
<1>6. Service!Answer(rs, b)
  BY <1>1, <1>3, <1>4 DEF Service!Answer, tabVars
<1>7. OriginKnown'
  BY <1>1, <1>3 DEF OriginKnown, SimInv
<1>8. QED
  BY <1>5, <1>6, <1>7

\* Every step of the queue is a step of the service or is invisible to it.
LEMMA ServiceStep ==
  ASSUME SimInv, [Next]_rrqVars
  PROVE  [Service!SvcNext]_(Service!svcVars) /\ OriginKnown'
<1> USE DEF Service!SvcNext, Service!svcVars
<1>1. ASSUME NEW h \in Slots \cup {NoSlot}, NEW r \in Reqs,
             NEW n \in Redirectors, NEW k \in Items, Add(h, r, n, k)
      PROVE  Service!SvcNext /\ OriginKnown'
  BY <1>1, AddSubmits
<1>2. ASSUME UNCHANGED <<reqVars, tabVars>>
      PROVE  UNCHANGED Service!svcVars /\ OriginKnown'
  BY <1>2 DEF reqVars, tabVars, OriginKnown, SimInv
<1>3. ASSUME NEW s \in Slots, NEW k \in Items, NEW mask \in SUBSET Servers,
             CallReady(s, k, mask)
      PROVE  UNCHANGED <<reqVars, tabVars>>
  BY <1>3 DEF CallReady
<1>4. ASSUME NEW n \in Redirectors, AdmitRedirector(n)
      PROVE  Service!SvcNext /\ OriginKnown'
  BY <1>4 DEF AdmitRedirector, Service!Connect, reqVars, OriginKnown, SimInv
<1>5. ASSUME NEW n \in Redirectors, DropRedirector(n)
      PROVE  Service!SvcNext /\ OriginKnown'
  BY <1>5 DEF DropRedirector, Service!Disconnect, reqVars, OriginKnown, SimInv
<1>6. CASE Timer \/ RespWake \/ RespIdle \/ RespRecycle \/ \E s \in Slots : RespTake(s)
  <2>1. UNCHANGED <<reqVars, tabVars>>
    BY <1>6 DEF Timer, TimerStart, TimerWake, RespWake, RespIdle, RespRecycle, RespTake
  <2>2. QED
    BY <1>2, <2>1
<1>7. CASE RespCross
  <2> DEFINE c == Chain(respSlot, ~ IsLU(respSlot))
  <2>1. respSlot \in Slots \ free /\ arg1[respSlot] \in SUBSET Servers
    BY <1>7, SlotAssumption DEF RespCross, SimInv, IInv, RespOwns, RRQTypeOK, SlotsAccounted
  <2>2. c \in SUBSET (Slots \ free)
    BY <2>1, SlotAssumption DEF Chain, SimInv, IInv, SlotsAccounted
  <2>3. PICK a \in RedAnswers(arg1[respSlot], FALSE) \cup LocAnswers(arg1[respSlot]) :
           SendTo(c, a)
    BY <1>7 DEF RespCross
  <2>4. a.kind \in {"redirect", "list", "delay"} /\ a.to \in SUBSET Servers
    BY <2>1, AnswerType
  <2>5. \A s \in c : ~ Answered(s)
    BY <1>7 DEF RespCross, Answered
  <2>6. QED
    BY <1>7, <2>2, <2>3, <2>4, <2>5, SendAnswers DEF RespCross
<1>8. CASE RespOwn
  <2> DEFINE c == Chain(respSlot, IsLU(respSlot))
  <2>1. respSlot \in Slots \ free /\ arg1[respSlot] \in SUBSET Servers
    BY <1>8, SlotAssumption DEF RespOwn, SimInv, IInv, RespOwns, RRQTypeOK, SlotsAccounted
  <2>2. c \in SUBSET (Slots \ free)
    BY <2>1, SlotAssumption DEF Chain, SimInv, IInv, SlotsAccounted
  <2>3. PICK a \in RedAnswers(arg1[respSlot], actR[respSlot] > 0)
                     \cup LocAnswers(arg1[respSlot]) :
           SendTo(c, a)
    BY <1>8 DEF RespOwn
  <2>4. a.kind \in {"redirect", "list", "delay"} /\ a.to \in SUBSET Servers
    BY <2>1, AnswerType
  <2>5. \A s \in c : ~ Answered(s)
    BY <1>8 DEF RespOwn, Answered, Chain
  <2>6. QED
    BY <1>8, <2>2, <2>3, <2>4, <2>5, SendAnswers DEF RespOwn
<1>9. CASE UNCHANGED rrqVars
  BY <1>2, <1>9 DEF rrqVars
<1>10. QED
  BY <1>1, <1>2, <1>3, <1>4, <1>5, <1>6, <1>7, <1>8, <1>9
     DEF Next, Redirector, Responder

\* Every behaviour of XrdCmsRRQ and XrdCmsRTable, seen from the redirectors,
\* is a behaviour of the service: held or refused, answered once, through the
\* connection that asked.
THEOREM QueueRefines == Spec => ImplementsService
<1>1. RRQInit => Service!SvcInit /\ OriginKnown
  BY DEF RRQInit, Service!SvcInit, OriginKnown, NoReply
<1>2. SimInv /\ [Next]_rrqVars => [Service!SvcNext]_(Service!svcVars) /\ OriginKnown'
  BY ServiceStep
<1>3. QED
  BY <1>1, <1>2, Invariance, PTL DEF Spec, SimInv, ImplementsService, Service!SvcSpec
=============================================================================
