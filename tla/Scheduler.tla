------------------------------ MODULE Scheduler -----------------------------
(***************************************************************************)
(* The thread scheduler of every daemon (XrdScheduler): a queue of jobs, a *)
(* pool of workers that grows when no worker is left idle and shrinks when *)
(* too many are, and a thread that submits jobs when their time comes.     *)
(*                                                                         *)
(* A worker passes three locks between two jobs: it counts itself idle     *)
(* (DispatchMutex), sleeps on the semaphore WorkAvail, counts itself busy  *)
(* and notes whether others are still idle (DispatchMutex), and only then  *)
(* looks at the queue (SchedMutex).  What it noted may be out of date by   *)
(* then, and it decides both about hiring and about its own layoff.        *)
(*                                                                         *)
(* A job links itself into the queues, so its owner must not submit it     *)
(* while it is in one of them; it may submit it while it is running.       *)
(***************************************************************************)
EXTENDS Naturals, Sequences, FiniteSets

CONSTANTS
  Workers,      \* thread identities, reused after a thread has ended
  Jobs,         \* job objects, the monitor included
  Monitor,      \* the scheduler itself as a job: "underused thread monitor"
  NoJob,
  Lists,        \* job lists one call of Schedule may pass
  Endless,      \* jobs that may block for ever in DoIt
  MinWorkers, MaxWorkers,   \* min_Workers and max_Workers at the start
  MaxPosts,     \* bound: unconsumed posts when the monitor is started
  MaxFails      \* bound: threads that cannot be created

ASSUME JobAssumption ==
  /\ Monitor \in Jobs /\ NoJob \notin Jobs /\ Endless \subseteq Jobs \ {Monitor}
  /\ Lists \subseteq Seq(Jobs \ {Monitor})
ASSUME WorkerAssumption ==
  /\ IsFiniteSet(Workers)
  /\ MinWorkers \in Nat /\ MaxWorkers \in Nat \ {0}
  /\ MaxWorkers <= Cardinality(Workers)
ASSUME BoundAssumption == MaxPosts \in Nat /\ MaxFails \in Nat

VARIABLES
  TimerQueue,   \* jobs waiting for their time; which is next is left open
  workQ,        \* WorkFirst .. WorkLast
  WorkAvail,    \* the semaphore
  num_JobsinQ, num_Workers, idl_Workers, num_Layoffs,
  min_Workers, max_Workers,
  pc,           \* worker -> where it is; "none": no such thread
  waiting,      \* worker -> others were idle when it woke up; FALSE once used
  job,          \* worker -> jp, the job it has taken
  num_kill,     \* the monitor's local
  fails         \* threads that could not be created

poolVars == <<num_Workers, num_Layoffs, min_Workers, max_Workers, fails>>
queueVars == <<workQ, WorkAvail, num_JobsinQ>>
schedVars == <<TimerQueue, queueVars, idl_Workers, poolVars, pc, waiting, job, num_kill>>

Pcs == {"none", "start", "idle", "woken", "busy", "got", "create", "run",
        "look", "layoff"}

At(S) == {w \in Workers : pc[w] \in S}

Alive == At(Pcs \ {"none"})
Idle == At({"idle", "woken"})      \* counted in idl_Workers
Coming == At({"woken", "busy"})    \* a post consumed, the queue not yet seen
Creating == At({"create"})

SchedTypeOK ==
  /\ TimerQueue \subseteq Jobs
  /\ workQ \in Seq(Jobs)
  /\ WorkAvail \in Nat /\ num_JobsinQ \in Nat
  /\ num_Workers \in Nat /\ idl_Workers \in Nat /\ num_Layoffs \in Nat
  /\ min_Workers \in Nat /\ max_Workers \in Nat
  /\ pc \in [Workers -> Pcs]
  /\ waiting \in [Workers -> BOOLEAN]
  /\ job \in [Workers -> Jobs \cup {NoJob}]
  /\ num_kill \in Nat /\ fails \in Nat

\* Start hires a third of the minimum, and two if that is none.
StartSize == IF MinWorkers \div 3 = 0 THEN 2 ELSE MinWorkers \div 3

SchedInit ==
  /\ TimerQueue = {Monitor} /\ workQ = << >>
  /\ WorkAvail = 0 /\ num_JobsinQ = 0
  /\ \E W \in SUBSET Workers :
       /\ Cardinality(W) = IF StartSize > MaxWorkers THEN MaxWorkers ELSE StartSize
       /\ num_Workers = Cardinality(W)
       /\ pc = [w \in Workers |-> IF w \in W THEN "start" ELSE "none"]
  /\ idl_Workers = 0 /\ num_Layoffs = 0
  /\ min_Workers = MinWorkers /\ max_Workers = MaxWorkers
  /\ waiting = [w \in Workers |-> FALSE]
  /\ job = [w \in Workers |-> NoJob]
  /\ num_kill = 0 /\ fails = 0

-----------------------------------------------------------------------------
(* Submitting jobs.                                                        *)

Linked(j) == j \in TimerQueue \/ \E i \in 1..Len(workQ) : workQ[i] = j

\* Mutant of Enqueue: one post for the whole list.
EnqueueOnePost(js) ==
  /\ workQ' = workQ \o js
  /\ WorkAvail' = WorkAvail + 1
  /\ num_JobsinQ' = num_JobsinQ + Len(js)

\* Under SchedMutex: link, post once per job, count.
Enqueue(js) ==
  /\ workQ' = workQ \o js
  /\ WorkAvail' = WorkAvail + Len(js)
  /\ num_JobsinQ' = num_JobsinQ + Len(js)

Schedule(js) ==
  /\ \A i \in 1..Len(js) : ~ Linked(js[i])
  /\ Enqueue(js)
  /\ UNCHANGED <<TimerQueue, idl_Workers, poolVars, pc, waiting, job, num_kill>>

\* Schedule(jp, atime) cancels the timed job first.  With one owner per job
\* nothing can happen to it between the two lock regions.
ScheduleAt(j) ==
  /\ j # Monitor /\ \A i \in 1..Len(workQ) : workQ[i] # j
  /\ TimerQueue' = TimerQueue \cup {j}
  /\ UNCHANGED <<queueVars, idl_Workers, poolVars, pc, waiting, job, num_kill>>

Cancel(j) ==
  /\ j # Monitor /\ j \in TimerQueue
  /\ TimerQueue' = TimerQueue \ {j}
  /\ UNCHANGED <<queueVars, idl_Workers, poolVars, pc, waiting, job, num_kill>>

\* The time of job j has come; TimerMutex is held across Schedule.
TimeSched(j) ==
  /\ j \in TimerQueue /\ (j = Monitor => WorkAvail < MaxPosts)
  /\ TimerQueue' = TimerQueue \ {j}
  /\ Enqueue(<<j>>)
  /\ UNCHANGED <<idl_Workers, poolVars, pc, waiting, job, num_kill>>

-----------------------------------------------------------------------------
(* Workers.                                                                *)

GoTo(w, p) == pc' = [pc EXCEPT ![w] = p]

CountIdle(w) ==
  /\ pc[w] = "start"
  /\ idl_Workers' = idl_Workers + 1
  /\ GoTo(w, "idle")
  /\ UNCHANGED <<TimerQueue, queueVars, poolVars, waiting, job, num_kill>>

Wake(w) ==
  /\ pc[w] = "idle" /\ WorkAvail > 0
  /\ WorkAvail' = WorkAvail - 1
  /\ GoTo(w, "woken")
  /\ UNCHANGED <<TimerQueue, workQ, num_JobsinQ, idl_Workers, poolVars, waiting, job,
                 num_kill>>

CountBusy(w) ==
  /\ pc[w] = "woken"
  /\ idl_Workers' = idl_Workers - 1
  /\ waiting' = [waiting EXCEPT ![w] = idl_Workers > 1]
  /\ GoTo(w, "busy")
  /\ UNCHANGED <<TimerQueue, queueVars, poolVars, job, num_kill>>

\* Mutant of TakeJob: the job is left in the queue.
TakeJobLeave(w) ==
  /\ pc[w] = "busy" /\ workQ # << >>
  /\ num_JobsinQ' = IF num_JobsinQ > 0 THEN num_JobsinQ - 1 ELSE 0
  /\ job' = [job EXCEPT ![w] = Head(workQ)]
  /\ GoTo(w, "got")
  /\ UNCHANGED <<TimerQueue, workQ, WorkAvail, idl_Workers, poolVars, waiting, num_kill>>

TakeJob(w) ==
  /\ pc[w] = "busy" /\ workQ # << >>
  /\ workQ' = Tail(workQ)
  /\ num_JobsinQ' = IF num_JobsinQ > 0 THEN num_JobsinQ - 1 ELSE 0
  /\ job' = [job EXCEPT ![w] = Head(workQ)]
  /\ GoTo(w, "got")
  /\ UNCHANGED <<TimerQueue, WorkAvail, idl_Workers, poolVars, waiting, num_kill>>

\* Mutant of NoWork: the thread that leaves is not taken off the count.
NoWorkKeepCount(w) ==
  /\ pc[w] = "busy" /\ workQ = << >>
  /\ num_JobsinQ' = 0
  /\ num_Layoffs' = IF num_Layoffs > 0 THEN num_Layoffs - 1 ELSE 0
  /\ IF num_Layoffs > 0 /\ waiting[w] THEN GoTo(w, "none") ELSE GoTo(w, "start")
  /\ waiting' = [waiting EXCEPT ![w] = FALSE]
  /\ UNCHANGED <<TimerQueue, workQ, WorkAvail, idl_Workers, num_Workers, min_Workers,
                 max_Workers, fails, job, num_kill>>

\* The post was one for layoffs, or its job was taken on behalf of such a
\* post.  The worker leaves if others were idle, and else goes on.
NoWork(w) ==
  /\ pc[w] = "busy" /\ workQ = << >>
  /\ num_JobsinQ' = 0
  /\ num_Layoffs' = IF num_Layoffs > 0 THEN num_Layoffs - 1 ELSE 0
  /\ IF num_Layoffs > 0 /\ waiting[w]
     THEN GoTo(w, "none") /\ num_Workers' = num_Workers - 1
     ELSE GoTo(w, "start") /\ UNCHANGED num_Workers
  /\ waiting' = [waiting EXCEPT ![w] = FALSE]
  /\ UNCHANGED <<TimerQueue, workQ, WorkAvail, idl_Workers, min_Workers, max_Workers,
                 fails, job, num_kill>>

\* Others were idle: no need to hire.
NoHire(w) ==
  /\ pc[w] = "got" /\ waiting[w]
  /\ GoTo(w, "run")
  /\ waiting' = [waiting EXCEPT ![w] = FALSE]
  /\ UNCHANGED <<TimerQueue, queueVars, idl_Workers, poolVars, job, num_kill>>

\* The first lock region of hireWorker.
Limited(w) ==
  /\ pc[w] = "got" /\ ~ waiting[w] /\ num_Workers >= max_Workers
  /\ GoTo(w, "run")
  /\ UNCHANGED <<TimerQueue, queueVars, idl_Workers, poolVars, waiting, job, num_kill>>

Hire(w) ==
  /\ pc[w] = "got" /\ ~ waiting[w] /\ num_Workers < max_Workers
  /\ num_Workers' = num_Workers + 1
  /\ GoTo(w, "create")
  /\ UNCHANGED <<TimerQueue, queueVars, idl_Workers, num_Layoffs, min_Workers,
                 max_Workers, fails, waiting, job, num_kill>>

\* The thread is started and w goes on with its job.
Created(w, n) ==
  /\ pc[w] = "create" /\ pc[n] = "none"
  /\ pc' = [pc EXCEPT ![w] = "run", ![n] = "start"]
  /\ UNCHANGED <<TimerQueue, queueVars, idl_Workers, poolVars, waiting, job, num_kill>>

\* Thread creation failed: the limits are set by what there is.
NotCreated(w) ==
  /\ pc[w] = "create" /\ fails < MaxFails
  /\ fails' = fails + 1
  /\ num_Workers' = num_Workers - 1
  /\ max_Workers' = num_Workers - 1
  /\ min_Workers' = IF (num_Workers - 1) \div 10 > 0 THEN (num_Workers - 1) \div 10 ELSE 1
  /\ GoTo(w, "run")
  /\ UNCHANGED <<TimerQueue, queueVars, idl_Workers, num_Layoffs, waiting, job, num_kill>>

\* DoIt of an ordinary job returns.
Finish(w) ==
  /\ pc[w] = "run" /\ job[w] \notin Endless \cup {Monitor}
  /\ job' = [job EXCEPT ![w] = NoJob]
  /\ GoTo(w, "start")
  /\ UNCHANGED <<TimerQueue, queueVars, idl_Workers, poolVars, waiting, num_kill>>

-----------------------------------------------------------------------------
(* The monitor's DoIt: num_JobsinQ is read without a lock, the number of   *)
(* idle workers under DispatchMutex, and layoffs are made under SchedMutex.*)

LookQueue(w) ==
  /\ pc[w] = "run" /\ job[w] = Monitor
  /\ num_JobsinQ = 0
  /\ GoTo(w, "look")
  /\ UNCHANGED <<TimerQueue, queueVars, idl_Workers, poolVars, waiting, job, num_kill>>

Surplus == IF idl_Workers > min_Workers THEN idl_Workers - min_Workers ELSE 0

LookIdle(w) ==
  /\ pc[w] = "look" /\ Surplus > 0
  /\ num_kill' = IF Surplus > 1 THEN Surplus \div 2 ELSE Surplus
  /\ GoTo(w, "layoff")
  /\ UNCHANGED <<TimerQueue, queueVars, idl_Workers, poolVars, waiting, job>>

\* num_Layoffs is set, not added to: posts of an earlier round may be left.
LayOff(w) ==
  /\ pc[w] = "layoff"
  /\ num_Layoffs' = num_kill
  /\ WorkAvail' = WorkAvail + num_kill
  /\ num_kill' = 0
  /\ job' = [job EXCEPT ![w] = NoJob]
  /\ TimerQueue' = TimerQueue \cup {Monitor}
  /\ GoTo(w, "start")
  /\ UNCHANGED <<workQ, num_JobsinQ, idl_Workers, num_Workers, min_Workers,
                 max_Workers, fails, waiting>>

\* Nothing to do: the monitor only schedules itself again.
Content(w) ==
  /\ \/ pc[w] = "run" /\ job[w] = Monitor /\ num_JobsinQ # 0
     \/ pc[w] = "look" /\ Surplus = 0
  /\ job' = [job EXCEPT ![w] = NoJob]
  /\ TimerQueue' = TimerQueue \cup {Monitor}
  /\ GoTo(w, "start")
  /\ UNCHANGED <<queueVars, idl_Workers, poolVars, waiting, num_kill>>

-----------------------------------------------------------------------------
Hiring(w) == NoHire(w) \/ Limited(w) \/ Hire(w) \/ NotCreated(w)
             \/ \E n \in Workers : Created(w, n)
Monitoring(w) == LookQueue(w) \/ LookIdle(w) \/ LayOff(w) \/ Content(w)

\* Everything a worker does except waiting on the semaphore.
Step(w) == \/ CountIdle(w) \/ CountBusy(w) \/ TakeJob(w) \/ NoWork(w)
           \/ Hiring(w) \/ Monitoring(w) \/ Finish(w)

SchedNext ==
  \/ \E js \in Lists : Schedule(js)
  \/ \E j \in Jobs : ScheduleAt(j) \/ Cancel(j) \/ TimeSched(j)
  \/ \E w \in Workers : Wake(w) \/ Step(w)

SchedSpec == SchedInit /\ [][SchedNext]_schedVars

\* Threads run, a post wakes one of the sleepers, and times come.
FairSchedSpec ==
  /\ SchedSpec
  /\ \A w \in Workers : WF_schedVars(Step(w))
  /\ WF_schedVars(\E w \in Workers : Wake(w))
  /\ \A j \in Jobs : WF_schedVars(TimeSched(j))

-----------------------------------------------------------------------------
(* Properties.                                                             *)

\* For every job in the queue there is a post that nobody has consumed, or a
\* worker that has and is about to look at the queue.  Posts made for layoffs
\* and workers that leave never leave a job without one.
WorkHasPost == Len(workQ) <= WorkAvail + Cardinality(Coming)

\* The three counters, kept under two locks, agree with the threads and jobs
\* there are: in particular "Job queue count underflow!" is never reported.
CountersExact ==
  /\ num_JobsinQ = Len(workQ)
  /\ idl_Workers = Cardinality(Idle)
  /\ num_Workers = Cardinality(Alive) + Cardinality(Creating)

\* Every job that was submitted starts, unless all workers there are have got
\* a job that never returns.
Blocked == Alive # {} /\ \A w \in Alive : pc[w] = "run" /\ job[w] \in Endless
JobStarts ==
  \A j \in Jobs : (\E i \in 1..Len(workQ) : workQ[i] = j)
                     ~> (Blocked \/ \E w \in Workers : job[w] = j)

\* Run: "Check if we should hire a new worker (we always want 1 idle thread)
\* before running this job": while more workers are allowed, not all of them
\* are executing jobs.
OneIdle ==
  At({"run"}) = Alive => num_Workers >= max_Workers

\* Refinement: workers, semaphore, counters, hiring and layoffs hidden.
Service == INSTANCE SchedService WITH
             Lanes <- Workers, timed <- TimerQueue, queue <- workQ, active <- job
ImplementsScheduling == Service!SvcSpec
=============================================================================
