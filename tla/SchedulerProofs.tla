--------------------------- MODULE SchedulerProofs --------------------------
(* Invariants of the thread scheduler and the refinement of SchedService,  *)
(* for any number of workers and jobs.                                     *)
EXTENDS Scheduler, Integers, FiniteSetTheorems, TLAPS

\* A worker has a job exactly from the moment it takes it to the end of DoIt.
Occupied == {"got", "create", "run", "look", "layoff"}

JobHeld ==
  \A w \in Workers : /\ (job[w] # NoJob) <=> (pc[w] \in Occupied)
                     /\ pc[w] \in {"look", "layoff"} => job[w] = Monitor

\* The inductive invariant.  The counters are needed for the types (no counter
\* becomes negative) and for the posts.
SInv == SchedTypeOK /\ CountersExact /\ WorkHasPost /\ JobHeld

-----------------------------------------------------------------------------
\* The workers at some set of control points are finitely many.
LEMMA CardAt ==
  ASSUME NEW S
  PROVE  IsFiniteSet(At(S)) /\ Cardinality(At(S)) \in Nat
<1>1. At(S) \subseteq Workers
  BY DEF At
<1>2. QED
  BY <1>1, WorkerAssumption, FS_Subset, FS_CardinalityType

\* A worker at one of the control points of S makes their number positive.
LEMMA CardPositive ==
  ASSUME NEW S, NEW w \in Workers, pc[w] \in S
  PROVE  Cardinality(At(S)) > 0
<1>1. w \in At(S)
  BY DEF At
<1>2. QED
  BY <1>1, CardAt, FS_EmptySet

\* How the number of workers at the control points of S changes when one
\* worker moves.
LEMMA Move ==
  ASSUME SchedTypeOK, NEW S, NEW w \in Workers, NEW p,
         pc' = [pc EXCEPT ![w] = p]
  PROVE  /\ pc[w] \notin S /\ p \in S
              => Cardinality(At(S)') = Cardinality(At(S)) + 1
         /\ pc[w] \in S /\ p \notin S
              => Cardinality(At(S)') = Cardinality(At(S)) - 1
         /\ (pc[w] \in S <=> p \in S) => At(S)' = At(S)
<1>1. \A v \in Workers : pc'[v] = IF v = w THEN p ELSE pc[v]
  BY DEF SchedTypeOK
<1>2. ASSUME pc[w] \notin S, p \in S
      PROVE  Cardinality(At(S)') = Cardinality(At(S)) + 1
  <2>1. At(S)' = At(S) \cup {w} /\ w \notin At(S)
    BY <1>1, <1>2 DEF At
  <2>2. QED
    BY <2>1, CardAt, FS_AddElement
<1>3. ASSUME pc[w] \in S, p \notin S
      PROVE  Cardinality(At(S)') = Cardinality(At(S)) - 1
  <2>1. At(S)' = At(S) \ {w} /\ w \in At(S)
    BY <1>1, <1>3 DEF At
  <2>2. QED
    BY <2>1, CardAt, FS_RemoveElement
<1>4. ASSUME pc[w] \in S <=> p \in S
      PROVE  At(S)' = At(S)
  BY <1>1, <1>4 DEF At
<1>5. QED
  BY <1>2, <1>3, <1>4

-----------------------------------------------------------------------------
\* The scheduler starts with workers that have nothing to do yet.
LEMMA SInit == SchedInit => SInv
<1> SUFFICES ASSUME SchedInit PROVE SInv
  OBVIOUS
<1>1. PICK W \in SUBSET Workers :
         /\ num_Workers = Cardinality(W)
         /\ pc = [w \in Workers |-> IF w \in W THEN "start" ELSE "none"]
  BY DEF SchedInit
<1>2. IsFiniteSet(W) /\ Cardinality(W) \in Nat
  BY WorkerAssumption, FS_Subset, FS_CardinalityType
<1>3. SchedTypeOK
  BY <1>1, <1>2, JobAssumption, WorkerAssumption DEF SchedInit, SchedTypeOK, Pcs
<1>4. Idle = {} /\ Coming = {} /\ Creating = {}
  BY <1>1 DEF At, Idle, Coming, Creating
<1>5. Alive = W
  BY <1>1 DEF Alive, At, Pcs
<1>6. /\ Cardinality(Idle) = 0
      /\ Cardinality(Coming) = 0
      /\ Cardinality(Creating) = 0
  BY <1>4, FS_EmptySet
<1>7. Len(workQ) = 0 /\ num_JobsinQ = 0 /\ idl_Workers = 0 /\ WorkAvail = 0
  BY DEF SchedInit
<1>8. CountersExact
  BY <1>1, <1>2, <1>5, <1>6, <1>7 DEF CountersExact
<1>9. WorkHasPost
  BY <1>6, <1>7 DEF WorkHasPost
<1>10. JobHeld
  BY <1>1 DEF SchedInit, JobHeld, Occupied
<1>11. QED
  BY <1>3, <1>8, <1>9, <1>10 DEF SInv

\* Submitting jobs adds as many posts as jobs.
LEMMA SSubmit ==
  ASSUME SInv, NEW js \in Seq(Jobs), Enqueue(js), TimerQueue' \subseteq Jobs,
         UNCHANGED <<idl_Workers, poolVars, pc, waiting, job, num_kill>>
  PROVE  SInv'
<1>1. Len(js) \in Nat /\ workQ' \in Seq(Jobs) /\ Len(workQ') = Len(workQ) + Len(js)
  BY DEF Enqueue, SInv, SchedTypeOK
<1>2. Idle' = Idle /\ Alive' = Alive
      /\ Coming' = Coming /\ Creating' = Creating
  BY DEF At, Alive, Idle, Coming, Creating
<1>3. Cardinality(Coming) \in Nat /\ Len(workQ) \in Nat
  BY CardAt DEF SInv, SchedTypeOK, Coming
<1>4. SchedTypeOK'
  BY <1>1 DEF Enqueue, SInv, SchedTypeOK, poolVars
<1>5. CountersExact'
  BY <1>1, <1>2 DEF Enqueue, SInv, CountersExact, poolVars
<1>6. WorkHasPost'
  <2>1. WorkAvail' = WorkAvail + Len(js) /\ WorkAvail \in Nat
    BY DEF Enqueue, SInv, SchedTypeOK
  <2>2. Len(workQ) <= WorkAvail + Cardinality(Coming)
    BY DEF SInv, WorkHasPost
  <2>3. Len(workQ') <= WorkAvail' + Cardinality(Coming)
    BY <1>1, <1>3, <2>1, <2>2
  <2>4. QED
    BY <1>2, <2>3 DEF WorkHasPost
<1>7. JobHeld'
  BY DEF SInv, JobHeld
<1>8. QED
  BY <1>4, <1>5, <1>6, <1>7 DEF SInv

\* How the numbers of workers change when one of them moves from its control
\* point to p.
Delta(b) == IF b THEN 1 ELSE 0
MovedTo(w, p) ==
  /\ Cardinality(Idle') = Cardinality(Idle) + Delta(p \in {"idle", "woken"})
                                             - Delta(pc[w] \in {"idle", "woken"})
  /\ Cardinality(Coming') = Cardinality(Coming) + Delta(p \in {"woken", "busy"})
                                                 - Delta(pc[w] \in {"woken", "busy"})
  /\ Cardinality(Alive') = Cardinality(Alive) + Delta(p \in Pcs \ {"none"})
                                               - Delta(pc[w] \in Pcs \ {"none"})
  /\ Cardinality(Creating') = Cardinality(Creating) + Delta(p \in {"create"})
                                                     - Delta(pc[w] \in {"create"})

LEMMA Moved ==
  ASSUME SInv, NEW w \in Workers, NEW p \in Pcs, pc' = [pc EXCEPT ![w] = p]
  PROVE  MovedTo(w, p)
<1>1. SchedTypeOK
  BY DEF SInv
<1>2. ASSUME NEW S
      PROVE  Cardinality(At(S)') = Cardinality(At(S)) + Delta(p \in S) - Delta(pc[w] \in S)
  <2>1. Cardinality(At(S)) \in Nat
    BY CardAt
  <2>2. CASE pc[w] \notin S /\ p \in S
    <3>1. Cardinality(At(S)') = Cardinality(At(S)) + 1
      BY <1>1, <2>2, Move
    <3>2. QED
      BY <2>1, <2>2, <3>1 DEF Delta
  <2>3. CASE pc[w] \in S /\ p \notin S
    <3>1. Cardinality(At(S)') = Cardinality(At(S)) - 1
      BY <1>1, <2>3, Move
    <3>2. QED
      BY <2>1, <2>3, <3>1 DEF Delta
  <2>4. CASE pc[w] \in S <=> p \in S
    <3>1. At(S)' = At(S)
      BY <1>1, <2>4, Move
    <3>2. QED
      BY <2>1, <2>4, <3>1 DEF Delta
  <2>5. QED
    BY <2>2, <2>3, <2>4
<1>3. QED
  BY <1>2 DEF MovedTo, Idle, Coming, Alive, Creating

\* Moves between the start of the loop and the points inside a job change none
\* of the numbers.
Elsewhere == Pcs \ {"none", "idle", "woken", "busy", "create"}
LEMMA Steady ==
  ASSUME SInv, NEW w \in Workers, NEW p \in Elsewhere, pc[w] \in Elsewhere,
         pc' = [pc EXCEPT ![w] = p]
  PROVE  Idle' = Idle /\ Coming' = Coming /\ Alive' = Alive /\ Creating' = Creating
<1>1. SchedTypeOK
  BY DEF SInv
<1>2. ASSUME NEW S, pc[w] \in S <=> p \in S PROVE At(S)' = At(S)
  BY <1>1, <1>2, Move
<1>3. At({"idle", "woken"})' = At({"idle", "woken"})
  BY <1>2 DEF Elsewhere
<1>4. At({"woken", "busy"})' = At({"woken", "busy"})
  BY <1>2 DEF Elsewhere
<1>5. At({"create"})' = At({"create"})
  BY <1>2 DEF Elsewhere
<1>6. At(Pcs \ {"none"})' = At(Pcs \ {"none"})
  <2>1. pc[w] \in Pcs \ {"none"} /\ p \in Pcs \ {"none"}
    BY DEF Elsewhere
  <2>2. QED
    BY <1>2, <2>1
<1>7. QED
  BY <1>3, <1>4, <1>5, <1>6 DEF Idle, Coming, Alive, Creating

\* Numbers: they are natural, and positive where a worker is.
Numbers ==
  /\ Cardinality(Idle) \in Nat /\ Cardinality(Coming) \in Nat
  /\ Cardinality(Alive) \in Nat /\ Cardinality(Creating) \in Nat
  /\ \A w \in Workers : /\ pc[w] = "woken" => Cardinality(Idle) > 0
                        /\ pc[w] = "busy" => Cardinality(Coming) > 0
                        /\ pc[w] # "none" => Cardinality(Alive) > 0

LEMMA Counted == ASSUME SInv PROVE Numbers
<1>1. \A S : Cardinality(At(S)) \in Nat
  BY CardAt
<1>2. ASSUME NEW w \in Workers, pc[w] = "woken" PROVE Cardinality(Idle) > 0
  BY <1>2, CardPositive DEF Idle
<1>3. ASSUME NEW w \in Workers, pc[w] # "none" PROVE Cardinality(Alive) > 0
  <2>1. pc[w] \in Pcs \ {"none"}
    BY <1>3 DEF SInv, SchedTypeOK
  <2>2. QED
    BY <2>1, CardPositive DEF Alive
<1>4. ASSUME NEW w \in Workers, pc[w] = "busy" PROVE Cardinality(Coming) > 0
  BY <1>4, CardPositive DEF Coming
<1>5. QED
  BY <1>1, <1>2, <1>3, <1>4 DEF Numbers, Idle, Coming, Alive, Creating

\* The parts of the invariant as facts about numbers.
Sums ==
  /\ num_JobsinQ = Len(workQ) /\ idl_Workers = Cardinality(Idle)
  /\ num_Workers = Cardinality(Alive) + Cardinality(Creating)
  /\ Len(workQ) <= WorkAvail + Cardinality(Coming)

LEMMA SumsInv == Sums <=> CountersExact /\ WorkHasPost
  BY DEF Sums, CountersExact, WorkHasPost

LEMMA SumsInvNext == Sums' <=> CountersExact' /\ WorkHasPost'
  BY DEF Sums, CountersExact, WorkHasPost

\* The invariant in the form the steps below use.
LEMMA Unfolded ==
  ASSUME SInv
  PROVE  /\ SchedTypeOK /\ JobHeld /\ Sums /\ Numbers
         /\ Len(workQ) \in Nat /\ WorkAvail \in Nat
         /\ \A w \in Workers : pc[w] = "woken" => idl_Workers - 1 \in Nat
         /\ \A w \in Workers : pc[w] # "none" => num_Workers - 1 \in Nat
<1>1. SchedTypeOK /\ JobHeld /\ Sums /\ Numbers
  BY Counted, SumsInv DEF SInv
<1>2. Len(workQ) \in Nat /\ WorkAvail \in Nat
  BY <1>1 DEF SchedTypeOK
<1>3. ASSUME NEW w \in Workers, pc[w] = "woken" PROVE idl_Workers - 1 \in Nat
  BY <1>1, <1>3 DEF Sums, Numbers
<1>4. ASSUME NEW w \in Workers, pc[w] # "none" PROVE num_Workers - 1 \in Nat
  BY <1>1, <1>4 DEF Sums, Numbers
<1>5. QED
  BY <1>1, <1>2, <1>3, <1>4

LEMMA Folded == ASSUME SchedTypeOK', JobHeld', Sums' PROVE SInv'
  BY SumsInvNext DEF SInv

\* Counting itself idle.
LEMMA SCountIdle == ASSUME SInv, NEW w \in Workers, CountIdle(w) PROVE SInv'
<1>1. pc[w] = "start" /\ pc' = [pc EXCEPT ![w] = "idle"] /\ "idle" \in Pcs
  BY DEF CountIdle, GoTo, Pcs
<1>2. MovedTo(w, "idle")
  BY <1>1, Moved
<1>3. Sums'
  BY <1>1, <1>2, Unfolded
     DEF CountIdle, Sums, Numbers, MovedTo, Delta, Pcs, queueVars, poolVars
<1>4. SchedTypeOK'
  BY <1>1, Unfolded DEF CountIdle, queueVars, poolVars, SchedTypeOK
<1>5. JobHeld'
  BY <1>1, Unfolded DEF CountIdle, JobHeld, Occupied, SchedTypeOK
<1>6. QED
  BY <1>3, <1>4, <1>5, Folded

\* Consuming a post.
LEMMA SWake == ASSUME SInv, NEW w \in Workers, Wake(w) PROVE SInv'
<1>1. pc[w] = "idle" /\ pc' = [pc EXCEPT ![w] = "woken"] /\ "woken" \in Pcs
  BY DEF Wake, GoTo, Pcs
<1>2. MovedTo(w, "woken")
  BY <1>1, Moved
<1>3. Sums'
  BY <1>1, <1>2, Unfolded DEF Wake, Sums, Numbers, MovedTo, Delta, Pcs, poolVars
<1>4. SchedTypeOK'
  BY <1>1, Unfolded DEF Wake, poolVars, SchedTypeOK
<1>5. JobHeld'
  BY <1>1, Unfolded DEF Wake, JobHeld, Occupied, SchedTypeOK
<1>6. QED
  BY <1>3, <1>4, <1>5, Folded

\* Counting itself busy.
LEMMA SCountBusy == ASSUME SInv, NEW w \in Workers, CountBusy(w) PROVE SInv'
<1>1. pc[w] = "woken" /\ pc' = [pc EXCEPT ![w] = "busy"] /\ "busy" \in Pcs
  BY DEF CountBusy, GoTo, Pcs
<1>2. MovedTo(w, "busy")
  BY <1>1, Moved
<1>3. Sums'
  BY <1>1, <1>2, Unfolded
     DEF CountBusy, Sums, Numbers, MovedTo, Delta, Pcs, queueVars, poolVars
<1>4. SchedTypeOK'
  <2>1. waiting' \in [Workers -> BOOLEAN]
    BY Unfolded DEF CountBusy, SchedTypeOK
  <2>2. QED
    BY <1>1, <2>1, Unfolded DEF CountBusy, queueVars, poolVars, SchedTypeOK
<1>5. JobHeld'
  BY <1>1, Unfolded DEF CountBusy, JobHeld, Occupied, SchedTypeOK
<1>6. QED
  BY <1>3, <1>4, <1>5, Folded

\* A job is taken together with a consumed post.
LEMMA STake == ASSUME SInv, NEW w \in Workers, TakeJob(w) PROVE SInv'
<1>1. pc[w] = "busy" /\ pc' = [pc EXCEPT ![w] = "got"] /\ "got" \in Pcs
  BY DEF TakeJob, GoTo, Pcs
<1>2. Head(workQ) \in Jobs /\ workQ' \in Seq(Jobs) /\ Len(workQ) > 0
      /\ Len(workQ') = Len(workQ) - 1
  BY Unfolded DEF TakeJob, SchedTypeOK
<1>3. num_JobsinQ' = Len(workQ')
  BY <1>2, Unfolded DEF TakeJob, Sums
<1>4. MovedTo(w, "got")
  BY <1>1, Moved
<1>5. Sums'
  BY <1>1, <1>2, <1>3, <1>4, Unfolded
     DEF TakeJob, Sums, Numbers, MovedTo, Delta, Pcs, poolVars
<1>6. SchedTypeOK'
  BY <1>1, <1>2, <1>3, Unfolded DEF TakeJob, SchedTypeOK, poolVars
<1>7. JobHeld'
  BY <1>1, <1>2, JobAssumption, Unfolded DEF TakeJob, JobHeld, Occupied, SchedTypeOK
<1>8. QED
  BY <1>5, <1>6, <1>7, Folded

\* An empty queue needs no posts, whoever leaves.
LEMMA SNoWork == ASSUME SInv, NEW w \in Workers, NoWork(w) PROVE SInv'
<1>1. pc[w] = "busy" /\ {"none", "start"} \subseteq Pcs
  BY DEF NoWork, Pcs
<1>2. Len(workQ') = 0 /\ workQ' = workQ /\ num_JobsinQ' = 0
      /\ WorkAvail' = WorkAvail /\ idl_Workers' = idl_Workers
  BY DEF NoWork
<1>3. CASE pc' = [pc EXCEPT ![w] = "none"] /\ num_Workers' = num_Workers - 1
  <2>1. MovedTo(w, "none")
    BY <1>1, <1>3, Moved
  <2>2. Sums'
    <3>1. Cardinality(Coming') \in Nat /\ Cardinality(Idle') = Cardinality(Idle)
          /\ num_Workers' = Cardinality(Alive') + Cardinality(Creating')
      BY <1>1, <1>3, <2>1, Unfolded DEF Sums, Numbers, MovedTo, Delta, Pcs
    <3>2. QED
      BY <1>2, <3>1, Unfolded DEF Sums
  <2>3. SchedTypeOK'
    BY <1>1, <1>2, <1>3, Unfolded DEF NoWork, SchedTypeOK
  <2>4. JobHeld'
    BY <1>1, <1>3, Unfolded DEF NoWork, JobHeld, Occupied, SchedTypeOK
  <2>5. QED
    BY <2>2, <2>3, <2>4, Folded
<1>4. CASE pc' = [pc EXCEPT ![w] = "start"] /\ num_Workers' = num_Workers
  <2>1. MovedTo(w, "start")
    BY <1>1, <1>4, Moved
  <2>2. Sums'
    <3>1. Cardinality(Coming') \in Nat /\ Cardinality(Idle') = Cardinality(Idle)
          /\ num_Workers' = Cardinality(Alive') + Cardinality(Creating')
      BY <1>1, <1>4, <2>1, Unfolded DEF Sums, Numbers, MovedTo, Delta, Pcs
    <3>2. QED
      BY <1>2, <3>1, Unfolded DEF Sums
  <2>3. SchedTypeOK'
    BY <1>1, <1>2, <1>4, Unfolded DEF NoWork, SchedTypeOK
  <2>4. JobHeld'
    BY <1>1, <1>4, Unfolded DEF NoWork, JobHeld, Occupied, SchedTypeOK
  <2>5. QED
    BY <2>2, <2>3, <2>4, Folded
<1>5. QED
  BY <1>3, <1>4 DEF NoWork, GoTo

\* Deciding not to hire.
LEMMA SNoHire == ASSUME SInv, NEW w \in Workers, NoHire(w) \/ Limited(w) PROVE SInv'
<1>1. /\ pc[w] = "got" /\ pc' = [pc EXCEPT ![w] = "run"]
      /\ {"got", "run"} \subseteq Elsewhere /\ "run" \in Pcs
  BY DEF NoHire, Limited, GoTo, Pcs, Elsewhere
<1>2. Idle' = Idle /\ Coming' = Coming /\ Alive' = Alive /\ Creating' = Creating
  BY <1>1, Steady
<1>3. UNCHANGED <<TimerQueue, queueVars, idl_Workers, poolVars, job, num_kill>>
      /\ waiting' \in [Workers -> BOOLEAN]
  BY Unfolded DEF NoHire, Limited, SchedTypeOK
<1>4. Sums'
  BY <1>2, <1>3, Unfolded DEF Sums, queueVars, poolVars
<1>5. SchedTypeOK'
  BY <1>1, <1>3, Unfolded DEF SchedTypeOK, queueVars, poolVars
<1>6. JobHeld'
  BY <1>1, <1>3, Unfolded DEF JobHeld, Occupied, SchedTypeOK
<1>7. QED
  BY <1>4, <1>5, <1>6, Folded

\* A worker is counted before its thread is created.
LEMMA SHire == ASSUME SInv, NEW w \in Workers, Hire(w) PROVE SInv'
<1>1. pc[w] = "got" /\ pc' = [pc EXCEPT ![w] = "create"] /\ "create" \in Pcs
  BY DEF Hire, GoTo, Pcs
<1>2. MovedTo(w, "create")
  BY <1>1, Moved
<1>3. Sums'
  BY <1>1, <1>2, Unfolded DEF Hire, Sums, Numbers, MovedTo, Delta, Pcs, queueVars
<1>4. SchedTypeOK'
  BY <1>1, Unfolded DEF Hire, queueVars, SchedTypeOK
<1>5. JobHeld'
  BY <1>1, Unfolded DEF Hire, JobHeld, Occupied, SchedTypeOK
<1>6. QED
  BY <1>3, <1>4, <1>5, Folded

\* It is taken off the count when that fails.
LEMMA SNotCreated == ASSUME SInv, NEW w \in Workers, NotCreated(w) PROVE SInv'
<1>1. pc[w] = "create" /\ pc' = [pc EXCEPT ![w] = "run"] /\ "run" \in Pcs
  BY DEF NotCreated, GoTo, Pcs
<1>2. MovedTo(w, "run")
  BY <1>1, Moved
<1>3. Sums'
  BY <1>1, <1>2, Unfolded DEF NotCreated, Sums, Numbers, MovedTo, Delta, Pcs, queueVars
<1>4. SchedTypeOK'
  <2>1. num_Workers - 1 \in Nat
    BY <1>1, Unfolded
  <2>2. (num_Workers - 1) \div 10 \in Nat
    BY <2>1
  <2>3. num_Workers' \in Nat /\ max_Workers' \in Nat /\ min_Workers' \in Nat
    BY <2>1, <2>2 DEF NotCreated
  <2>4. UNCHANGED <<TimerQueue, queueVars, idl_Workers, num_Layoffs, waiting, job, num_kill>>
        /\ fails' = fails + 1
    BY DEF NotCreated
  <2>5. QED
    BY <1>1, <2>3, <2>4, Unfolded DEF queueVars, SchedTypeOK
<1>5. JobHeld'
  BY <1>1, Unfolded DEF NotCreated, JobHeld, Occupied, SchedTypeOK
<1>6. QED
  BY <1>3, <1>4, <1>5, Folded

\* A new thread replaces the one that was being created.
LEMMA SCreated ==
  ASSUME SInv, NEW w \in Workers, NEW n \in Workers, Created(w, n)
  PROVE  SInv'
<1>1. /\ pc[w] = "create" /\ pc[n] = "none" /\ w # n
      /\ pc' = [pc EXCEPT ![w] = "run", ![n] = "start"]
  BY DEF Created
<1>2. /\ pc'[w] = "run" /\ pc'[n] = "start"
      /\ \A v \in Workers : v # w /\ v # n => pc'[v] = pc[v]
  BY <1>1, Unfolded DEF SchedTypeOK
<1>3. Idle' = Idle /\ Coming' = Coming
  <2>1. Idle' = Idle
    BY <1>1, <1>2 DEF Idle, At
  <2>2. Coming' = Coming
    BY <1>1, <1>2 DEF Coming, At
  <2>3. QED
    BY <2>1, <2>2
<1>4. Alive' = Alive \cup {n} /\ n \notin Alive
  <2>1. {"run", "start", "create"} \subseteq Pcs \ {"none"} /\ "none" \notin Pcs \ {"none"}
    BY DEF Pcs
  <2>2. QED
    BY <1>1, <1>2, <2>1 DEF Alive, At
<1>5. Creating' = Creating \ {w} /\ w \in Creating
  BY <1>1, <1>2 DEF Creating, At
<1>6. Cardinality(Alive') = Cardinality(Alive) + 1
  BY <1>4, CardAt, FS_AddElement DEF Alive
<1>7. Cardinality(Creating') = Cardinality(Creating) - 1
  BY <1>5, CardAt, FS_RemoveElement DEF Creating
<1>8. Sums'
  BY <1>3, <1>6, <1>7, Unfolded DEF Created, Sums, Numbers, queueVars, poolVars
<1>9. SchedTypeOK'
  BY <1>1, Unfolded DEF Created, queueVars, poolVars, SchedTypeOK, Pcs
<1>10. JobHeld'
  BY <1>1, <1>2, Unfolded DEF Created, JobHeld, Occupied
<1>11. QED
  BY <1>8, <1>9, <1>10, Folded

\* The end of a job, and the monitor's two looks and its layoffs.
LEMMA SJobs ==
  ASSUME SInv, NEW w \in Workers, Monitoring(w) \/ Finish(w)
  PROVE  SInv'
<1>1. PICK p \in {"look", "layoff", "start"} :
         /\ pc[w] \in {"run", "look", "layoff"} /\ pc[w] \in Elsewhere /\ p \in Elsewhere
         /\ pc' = [pc EXCEPT ![w] = p] /\ p \in Pcs
         /\ job' = IF p = "start" THEN [job EXCEPT ![w] = NoJob] ELSE job
         /\ p # "start" => job[w] = Monitor
  BY Unfolded DEF Monitoring, LookQueue, LookIdle, LayOff, Content, Finish, GoTo, Pcs,
                  Elsewhere, JobHeld
<1>2. UNCHANGED <<workQ, num_JobsinQ, idl_Workers, num_Workers, min_Workers, max_Workers,
                  fails, waiting>>
  BY DEF Monitoring, LookQueue, LookIdle, LayOff, Content, Finish, queueVars, poolVars
<1>3. Surplus \in Nat /\ Surplus \div 2 \in Nat
  <2>1. Surplus \in Nat
    BY Unfolded DEF Surplus, SchedTypeOK
  <2>2. QED
    BY <2>1
<1>4. /\ num_kill' \in Nat /\ num_Layoffs' \in Nat
      /\ WorkAvail' \in Nat /\ WorkAvail' >= WorkAvail
  BY <1>3, Unfolded
     DEF Monitoring, LookQueue, LookIdle, LayOff, Content, Finish, queueVars, poolVars, SchedTypeOK
<1>5. TimerQueue' \subseteq Jobs
  BY Unfolded, JobAssumption
     DEF Monitoring, LookQueue, LookIdle, LayOff, Content, Finish, SchedTypeOK
<1>6. Idle' = Idle /\ Coming' = Coming /\ Alive' = Alive /\ Creating' = Creating
  BY <1>1, Steady
<1>7. Sums'
  BY <1>2, <1>4, <1>6, Unfolded DEF Sums, Numbers
<1>8. SchedTypeOK'
  BY <1>1, <1>2, <1>4, <1>5, Unfolded DEF SchedTypeOK
<1>9. JobHeld'
  BY <1>1, Unfolded DEF JobHeld, Occupied, SchedTypeOK
<1>10. QED
  BY <1>7, <1>8, <1>9, Folded

-----------------------------------------------------------------------------
\* Every step keeps the invariant.
LEMMA SStep == SInv /\ [SchedNext]_schedVars => SInv'
<1> SUFFICES ASSUME SInv, [SchedNext]_schedVars PROVE SInv'
  OBVIOUS
<1>1. ASSUME NEW js \in Lists, Schedule(js) PROVE SInv'
  <2>1. js \in Seq(Jobs)
    BY JobAssumption
  <2>2. QED
    BY <1>1, <2>1, SSubmit, Unfolded DEF Schedule, SchedTypeOK
<1>2. ASSUME NEW j \in Jobs, TimeSched(j) PROVE SInv'
  <2>1. <<j>> \in Seq(Jobs) /\ TimerQueue' \subseteq Jobs
    BY <1>2, Unfolded DEF TimeSched, SchedTypeOK
  <2>2. QED
    BY <1>2, <2>1, SSubmit DEF TimeSched
<1>3. ASSUME TimerQueue' \subseteq Jobs,
             UNCHANGED <<queueVars, idl_Workers, poolVars, pc, waiting, job, num_kill>>
      PROVE  SInv'
  BY <1>3 DEF SInv, SchedTypeOK, CountersExact, WorkHasPost, JobHeld, Idle, Coming, Alive,
              Creating, At, queueVars, poolVars
<1>4. ASSUME NEW j \in Jobs, ScheduleAt(j) \/ Cancel(j) PROVE SInv'
  BY <1>3, <1>4, Unfolded DEF ScheduleAt, Cancel, SchedTypeOK
<1>5. ASSUME NEW w \in Workers, Wake(w) \/ Step(w) PROVE SInv'
  BY <1>5, SWake, SCountIdle, SCountBusy, STake, SNoWork, SNoHire, SHire, SCreated, SNotCreated,
     SJobs
     DEF Step, Hiring
<1>6. CASE UNCHANGED schedVars
  BY <1>3, <1>6, Unfolded DEF schedVars, SchedTypeOK
<1>7. QED
  BY <1>1, <1>2, <1>4, <1>5, <1>6 DEF SchedNext

\* The counters, the posts and the jobs held by workers fit together in every
\* reachable state.
THEOREM SchedInvariance == SchedSpec => []SInv
  BY SInit, SStep, PTL DEF SchedSpec

\* XrdScheduler's counters and queues keep their types: no counter that is
\* decremented under one lock and tested under another becomes negative.
THEOREM SchedTypeCorrect == SchedSpec => []SchedTypeOK
  BY SchedInvariance, PTL DEF SInv

\* Run, DoIt and Schedule: every queued job has a post or a worker on its way,
\* for any number of workers, jobs, layoffs and failed hires.
THEOREM WorkAlwaysPosted == SchedSpec => []WorkHasPost
  BY SchedInvariance, PTL DEF SInv

\* num_JobsinQ, idl_Workers and num_Workers are exact.
THEOREM CountersKept == SchedSpec => []CountersExact
  BY SchedInvariance, PTL DEF SInv

-----------------------------------------------------------------------------
\* Every step of the scheduler is a step of the service or invisible to it.
LEMMA SchedSimulates ==
  ASSUME SInv, [SchedNext]_schedVars
  PROVE  [Service!SvcNext]_(Service!svcVars)
<1> USE DEF Service!SvcNext, Service!svcVars
<1>1. ASSUME NEW js \in Lists, Schedule(js) PROVE Service!SvcNext
  BY <1>1 DEF Schedule, Enqueue, Service!Submit
<1>2. ASSUME NEW j \in Jobs, ScheduleAt(j) \/ Cancel(j) PROVE Service!SvcNext
  BY <1>2 DEF ScheduleAt, Cancel, Service!SubmitAt, Service!Withdraw, queueVars
<1>3. ASSUME NEW j \in Jobs, TimeSched(j) PROVE Service!SvcNext
  <2>1. workQ \o <<j>> = Append(workQ, j)
    BY Unfolded DEF SchedTypeOK
  <2>2. QED
    BY <1>3, <2>1 DEF TimeSched, Enqueue, Service!Due
<1>4. ASSUME NEW w \in Workers, TakeJob(w) PROVE Service!SvcNext
  <2>1. job[w] = NoJob
    BY <1>4, Unfolded DEF TakeJob, JobHeld, Occupied
  <2>2. QED
    BY <1>4, <2>1 DEF TakeJob, Service!Begin
<1>5. ASSUME NEW w \in Workers, Finish(w) \/ LayOff(w) \/ Content(w)
      PROVE  Service!SvcNext
  <2>1. job[w] # NoJob /\ (LayOff(w) \/ Content(w) => job[w] = Monitor)
    BY <1>5, Unfolded DEF Finish, LayOff, Content, JobHeld, Occupied
  <2>2. Service!End(w)
    BY <1>5, <2>1 DEF Finish, LayOff, Content, Service!End, queueVars
  <2>3. QED
    BY <2>2
<1>6. ASSUME NEW w \in Workers,
             \/ CountIdle(w) \/ Wake(w) \/ CountBusy(w) \/ NoWork(w) \/ Hiring(w)
             \/ LookQueue(w) \/ LookIdle(w)
      PROVE  UNCHANGED Service!svcVars
  BY <1>6 DEF CountIdle, Wake, CountBusy, NoWork, Hiring, NoHire, Limited, Hire, NotCreated,
              Created, LookQueue, LookIdle, queueVars
<1>7. CASE UNCHANGED schedVars
  BY <1>7 DEF schedVars, queueVars
<1>8. QED
  BY <1>1, <1>2, <1>3, <1>4, <1>5, <1>6, <1>7 DEF SchedNext, Step, Monitoring

\* XrdScheduler implements SchedService: submissions start their jobs once and
\* in order, whatever workers are hired, laid off or fail to start.
THEOREM SchedulerRefines == SchedSpec => ImplementsScheduling
<1>1. SchedInit => Service!SvcInit
  BY JobAssumption DEF SchedInit, Service!SvcInit
<1>2. SInv /\ [SchedNext]_schedVars => [Service!SvcNext]_(Service!svcVars)
  BY SchedSimulates
<1>3. QED
  BY <1>1, <1>2, SchedInvariance, PTL DEF SchedSpec, ImplementsScheduling, Service!SvcSpec
=============================================================================
