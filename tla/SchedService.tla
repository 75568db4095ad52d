---------------------------- MODULE SchedService ----------------------------
(***************************************************************************)
(* What the thread scheduler promises to the rest of a daemon: jobs that   *)
(* are submitted start in the order of submission, each submission starts  *)
(* its job once, a timed job is submitted when its time comes, and only    *)
(* until then can it be cancelled.  Which threads do the work, how many    *)
(* there are and how they are woken is hidden.                             *)
(***************************************************************************)
EXTENDS Sequences

CONSTANTS Lanes, Jobs, NoJob, Lists

VARIABLES
  timed,   \* jobs whose time has not come
  queue,   \* jobs submitted and not started
  active   \* lane -> the job it executes

svcVars == <<timed, queue, active>>

SvcInit == queue = << >> /\ timed \subseteq Jobs /\ active = [l \in Lanes |-> NoJob]

Submit(js) == queue' = queue \o js /\ UNCHANGED <<timed, active>>

SubmitAt(j) == timed' = timed \cup {j} /\ UNCHANGED <<queue, active>>

Withdraw(j) == timed' = timed \ {j} /\ UNCHANGED <<queue, active>>

Due(j) ==
  /\ j \in timed
  /\ timed' = timed \ {j} /\ queue' = Append(queue, j)
  /\ UNCHANGED active

Begin(l) ==
  /\ active[l] = NoJob /\ queue # << >>
  /\ active' = [active EXCEPT ![l] = Head(queue)]
  /\ queue' = Tail(queue)
  /\ UNCHANGED timed

\* A job may submit itself again for a later time as its last act.
End(l) ==
  /\ active[l] # NoJob
  /\ active' = [active EXCEPT ![l] = NoJob]
  /\ timed' \in {timed, timed \cup {active[l]}}
  /\ UNCHANGED queue

SvcNext ==
  \/ \E js \in Lists : Submit(js)
  \/ \E j \in Jobs : SubmitAt(j) \/ Withdraw(j) \/ Due(j)
  \/ \E l \in Lanes : Begin(l) \/ End(l)

SvcSpec == SvcInit /\ [][SvcNext]_svcVars
=============================================================================
