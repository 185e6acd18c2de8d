-------------------------- MODULE MirrorJobsProofs --------------------------
(***************************************************************************)
(* The safety properties of MirrorJobs, proved for any repositories, jobs, *)
(* worker count and queue.                                                 *)
(*                                                                         *)
(* The invariant IInv has one part for each idea: the slots hold open jobs *)
(* in the order in which they run (SlotsHold), a job's flags agree with    *)
(* where it is (FlagsAgree), its answer is as fresh as asked (Fresh), a    *)
(* population is alone because only it makes its repository published      *)
(* (Populating), and the writer lock names who is inside (Locked).         *)
(***************************************************************************)
EXTENDS MirrorJobs, FiniteSetTheorems, TLAPS

SlotsHold ==
    \A r \in Repos :
        /\ active[r] # None => /\ Open(active[r])
                               /\ RepoOf(active[r]) = r
                               /\ pred[active[r]] = None
        /\ next[r] # None => /\ active[r] # None
                             /\ next[r] # active[r]
                             /\ RepoOf(next[r]) = r
                             /\ pred[next[r]] = active[r]
                             /\ \/ pc[next[r]] = "pred"
                                \/ /\ pc[next[r]] \in {"copy", "finish"}
                                   /\ job[next[r]].failed

RepoKnown == \A j \in JobIds : pc[j] # "gone" => RepoOf(j) \in Repos

FlagsAgree ==
    \A j \in JobIds :
        /\ pc[j] \in {"pred", "flag", "lock", "worker", "begin"}
              => ~job[j].started
        /\ pc[j] = "copy" => job[j].failed
        /\ pc[j] = "finish" => job[j].started \/ job[j].failed
        /\ pc[j] \in {"observe", "work"} => job[j].started

Fresh ==
    \A j \in JobIds :
        /\ pc[j] # "gone" => job[j].asked <= upstream[RepoOf(j)]
        /\ pc[j] = "work" /\ ~job[j].population => job[j].asked <= job[j].snap
        /\ pc[j] \in {"finish", "release", "gone"}
              /\ ~job[j].failed /\ ~job[j].population
              => job[j].asked <= job[j].snap

Populating ==
    /\ PopulationRunsAlone
    /\ \A j \in JobIds : Open(j) /\ ~job[j].population => published[RepoOf(j)]

Inside == {"worker", "begin", "observe", "work", "copy", "finish", "release"}

Locked ==
    /\ \A j \in JobIds :
          /\ pc[j] \in Inside \ {"copy", "finish"} => writer[RepoOf(j)] = j
          /\ Refreshing(j) => j \in slots
    /\ \A j \in slots : /\ pc[j] \in Inside
                        /\ writer[RepoOf(j)] = j
    /\ \A r \in Repos :
          /\ writer[r] \in JobIds => /\ pc[writer[r]] \in Inside
                                     /\ RepoOf(writer[r]) = r
          /\ mpc[r] = "work" <=> writer[r] = Maintainer

SlotsCounted == IsFiniteSet(slots) /\ Cardinality(slots) <= Workers

IInv == /\ TypeOK /\ RepoKnown /\ SlotsHold /\ OpenJobsHaveSlots /\ FlagsAgree /\ Fresh
        /\ Populating /\ Locked /\ SlotsCounted

-----------------------------------------------------------------------------
(* Every variable keeps its shape, and a job that is under way has a       *)
(* repository.                                                             *)
LEMMA TypeInit == Init => TypeOK /\ RepoKnown
  BY JobsAssumption DEF Init, TypeOK, RepoKnown, NoJob, JobType, PCs, MPCs,
                        Unfinished

(* Setting a field of a job record.                                        *)
LEMMA JobFails ==
  ASSUME job \in [JobIds -> JobType], NEW j \in JobIds, Error(j)
  PROVE  job' \in [JobIds -> JobType]
  BY DEF Error, JobType

(* A request joins a job: the time it asked.                               *)
LEMMA JobAsked ==
  ASSUME job \in [JobIds -> JobType], NEW j \in JobIds, NEW n \in Nat,
         job' = [job EXCEPT ![j].asked = n]
  PROVE  job' \in [JobIds -> JobType]
  BY DEF JobType

(* Work() ends: what its snapshot saw, and whether it failed.              *)
LEMMA JobSnaps ==
  ASSUME job \in [JobIds -> JobType], NEW j \in JobIds, NEW n \in Nat,
         \/ job' = [job EXCEPT ![j].snap = n]
         \/ \E b \in BOOLEAN : job' = [job EXCEPT ![j].snap = n, ![j].failed = b]
  PROVE  job' \in [JobIds -> JobType]
  BY DEF JobType

(* A job takes the state of its repository, as its snapshot begins or when *)
(* it gave up.                                                             *)
LEMMA JobCopies ==
  ASSUME job \in [JobIds -> JobType], NEW j \in JobIds, NEW n \in Nat,
         \/ job' = [job EXCEPT ![j].started = TRUE, ![j].base = n]
         \/ job' = [job EXCEPT ![j].base = n]
  PROVE  job' \in [JobIds -> JobType]
<1>1. CASE job' = [job EXCEPT ![j].started = TRUE, ![j].base = n]
  <2> DEFINE a == [job[j] EXCEPT !.started = TRUE]
             b == [a EXCEPT !.base = n]
  <2>1. a \in JobType
    BY DEF JobType
  <2>2. b \in JobType
    <3> HIDE DEF a
    <3> QED
      BY <2>1 DEF JobType
  <2>3. job' = [job EXCEPT ![j] = b]
    BY <1>1
  <2> QED
    <3> HIDE DEF b
    <3> QED
      BY <2>2, <2>3
<1>2. CASE job' = [job EXCEPT ![j].base = n]
  BY <1>2 DEF JobType
<1> QED
  BY <1>1, <1>2

(* A job is forgotten, or not.                                             *)
LEMMA JobForgets ==
  ASSUME job \in [JobIds -> JobType], NEW j \in JobIds,
         job' = Forget(j) \/ job' = job
  PROVE  job' \in [JobIds -> JobType]
<1>1. NoJob \in JobType
  BY DEF NoJob, JobType
<1> QED
  BY <1>1 DEF Forget

(* A step of run() that moves on and sets fields of its job.               *)
LEMMA TypeKept ==
  ASSUME TypeOK, pc' \in [JobIds -> PCs], job' \in [JobIds -> JobType],
         UNCHANGED <<repoVars, late, pred, upstream>>
  PROVE  TypeOK'
  BY DEF TypeOK, repoVars

(* A step of run() keeps every shape.                                      *)
LEMMA TypeRun ==
  ASSUME TypeOK, RepoKnown, NEW j \in JobIds, Run(j)
  PROVE  TypeOK'
<1> USE JobsAssumption DEF TypeOK, Goto, repoVars, PCs, Unfinished
<1>0. upstream' = upstream
  BY DEF Run
<1>1. CASE PredecessorDone(j)
  BY <1>0, <1>1 DEF PredecessorDone
<1>2. CASE CheckMaintenance(j)
  <2>1. job' \in [JobIds -> JobType]
    BY <1>2, JobFails DEF CheckMaintenance
  <2>2. pc' \in [JobIds -> PCs]
    BY <1>2 DEF CheckMaintenance
  <2> QED
    BY <1>0, <1>2, <2>1, <2>2, TypeKept DEF CheckMaintenance
<1>3. CASE LockWriter(j)
  BY <1>0, <1>3 DEF LockWriter
<1>4. CASE RetryWriter(j)
  BY <1>0, <1>4 DEF RetryWriter
<1>5. CASE TakeWorker(j)
  BY <1>0, <1>5 DEF TakeWorker
<1>6. CASE BeginSnapshot(j) \/ CopyState(j)
  <2>1. stored[RepoOf(j)] \in Nat
    BY <1>6 DEF BeginSnapshot, CopyState, RepoKnown
  <2>2. job' \in [JobIds -> JobType]
    BY <1>6, <2>1, JobCopies DEF BeginSnapshot, CopyState
  <2>3. pc' \in [JobIds -> PCs]
    BY <1>6 DEF BeginSnapshot, CopyState
  <2> QED
    BY <1>0, <1>6, <2>2, <2>3, TypeKept DEF BeginSnapshot, CopyState
<1>7. CASE Observe(j)
  <2>1. upstream[RepoOf(j)] \in Nat
    BY <1>7 DEF Observe, RepoKnown
  <2>2. job' \in [JobIds -> JobType]
    <3>1. CASE Error(j)
      BY <3>1, JobFails
    <3>2. CASE job' = [job EXCEPT ![j].snap = upstream[RepoOf(j)]]
      BY <3>2, <2>1, JobSnaps
    <3> QED
      BY <1>7, <3>1, <3>2 DEF Observe
  <2>3. pc' \in [JobIds -> PCs]
    BY <1>7 DEF Observe
  <2> QED
    BY <1>0, <1>7, <2>2, <2>3, TypeKept DEF Observe
<1>8. CASE Work(j)
  <2>1. upstream[RepoOf(j)] \in Nat
    BY <1>8 DEF Work, RepoKnown
  <2>2. job[j].snap \in Nat
    BY DEF JobType
  <2>3. job' \in [JobIds -> JobType]
    <3>1. PICK s \in Nat, f \in BOOLEAN :
                job' = [job EXCEPT ![j].snap = s, ![j].failed = f]
      BY <1>8, <2>1, <2>2 DEF Work
    <3> QED
      BY <3>1, JobSnaps
  <2>4. pc' \in [JobIds -> PCs]
    BY <1>8 DEF Work
  <2> QED
    BY <1>0, <1>8, <2>3, <2>4, TypeKept DEF Work
<1>9. CASE Finish(j)
  <2>1. job' \in [JobIds -> JobType]
    BY <1>9, JobForgets DEF Finish
  <2>2. pc' \in [JobIds -> PCs]
    BY <1>9 DEF Finish
  <2>3. active' \in [Repos -> JobIds \cup {None}]
    BY <1>9 DEF Finish, ActiveAfter
  <2>4. next' \in [Repos -> JobIds \cup {None}]
    BY <1>9 DEF Finish
  <2>5. pred' \in [JobIds -> JobIds \cup {None}]
    BY <1>9 DEF Finish, AwaitedAfter
  <2>6. published' \in [Repos -> BOOLEAN]
    BY <1>9 DEF Finish
  <2>7. backoff' \in [Repos -> BOOLEAN]
    <3>1. job[j].population \in BOOLEAN
      BY DEF JobType
    <3> QED
      BY <1>9, <3>1 DEF Finish
  <2>8. UNCHANGED <<writer, mpc, slots, late>>
    BY <1>9 DEF Finish
  <2>9. stored' \in [Repos -> Nat] /\ served' \in [Repos -> Nat]
    <3>1. job[j].base \in Nat /\ job[j].snap \in Nat
      BY DEF JobType
    <3> QED
      BY <1>9, <3>1 DEF Finish
  <2> QED
    BY <1>0, <2>1, <2>2, <2>3, <2>4, <2>5, <2>6, <2>7, <2>8, <2>9
<1>10. CASE Release(j)
  <2>1. job' \in [JobIds -> JobType]
    BY <1>10, JobForgets DEF Release
  <2> QED
    BY <1>0, <1>10, <2>1 DEF Release
<1>11. CASE GiveUp(j)
  <2>1. pc' \in [JobIds -> PCs]
    BY <1>11 DEF GiveUp
  <2>2. job' \in [JobIds -> JobType]
    BY <1>11, JobFails DEF GiveUp
  <2> QED
    BY <1>0, <1>11, <2>1, <2>2, TypeKept DEF GiveUp
<1> QED
  BY <1>1, <1>2, <1>3, <1>4, <1>5, <1>6, <1>7, <1>8, <1>9, <1>10, <1>11
     DEF Run

(* What a step of run() leaves alone.                                      *)
LEMMA RunFrame ==
  ASSUME TypeOK, NEW j \in JobIds, Run(j)
  PROVE  /\ pc[j] # "gone"
         /\ \A k \in JobIds \ {j} : pc'[k] = pc[k] /\ job'[k] = job[k]
         /\ pc'[j] # "gone" => /\ job'[j].repo = job[j].repo
                               /\ job'[j].population = job[j].population
                               /\ job'[j].asked = job[j].asked
         /\ UNCHANGED <<late, mpc, upstream>>
<1>1. pc[j] # "gone"
  BY DEF Run, PredecessorDone, CheckMaintenance, LockWriter, RetryWriter,
         TakeWorker, BeginSnapshot, Observe, Work, CopyState, Finish, Release, GiveUp, Goto
<1>2. \A k \in JobIds \ {j} : pc'[k] = pc[k] /\ job'[k] = job[k]
  BY DEF TypeOK, Run, PredecessorDone, CheckMaintenance, LockWriter,
         RetryWriter, TakeWorker, BeginSnapshot, Observe, Work, CopyState, Finish,
         Release, GiveUp, Goto, Error, Forget
<1>3. pc'[j] # "gone" => /\ job'[j].repo = job[j].repo
                         /\ job'[j].population = job[j].population
                         /\ job'[j].asked = job[j].asked
  BY DEF TypeOK, JobType, Run, PredecessorDone, CheckMaintenance, LockWriter,
         RetryWriter, TakeWorker, BeginSnapshot, Observe, Work, CopyState, Finish,
         Release, GiveUp, Goto, Error, Forget
<1>4. UNCHANGED <<late, mpc, upstream>>
  BY DEF Run, PredecessorDone, CheckMaintenance, LockWriter, RetryWriter,
         TakeWorker, BeginSnapshot, Observe, Work, CopyState, Finish, Release, GiveUp,
         repoVars
<1> QED
  BY <1>1, <1>2, <1>3, <1>4

(* So does every step of the coordinator.                                  *)
LEMMA TypeNext ==
  ASSUME TypeOK, RepoKnown, [Next]_vars
  PROVE  (TypeOK /\ RepoKnown)'
<1> USE JobsAssumption DEF TypeOK, RepoKnown, RepoOf
<1>1. ASSUME NEW r \in Repos, Join(r) PROVE (TypeOK /\ RepoKnown)'
  <2>1. PICK j \in JobIds : job' = [job EXCEPT ![j].asked = upstream[r]]
    BY <1>1 DEF Join, JoinsActive, JoinsNext
  <2>2. job' \in [JobIds -> JobType]
    BY <2>1, JobAsked
  <2>3. \A k \in JobIds : job'[k].repo = job[k].repo
    BY <2>1 DEF JobType
  <2> QED
    BY <1>1, <2>2, <2>3 DEF Join, repoVars
<1>2. ASSUME NEW r \in Repos, NEW j \in JobIds, AdmitNew(r, j)
      PROVE  (TypeOK /\ RepoKnown)'
  BY <1>2 DEF AdmitNew, JobType, NoJob, PCs, Unfinished
<1>3. ASSUME NEW j \in JobIds, Run(j) PROVE (TypeOK /\ RepoKnown)'
  BY <1>3, TypeRun, RunFrame
<1>4. ASSUME NEW r \in Repos, Maintain(r) PROVE (TypeOK /\ RepoKnown)'
  BY <1>4 DEF Maintain, MaintStart, MaintDrain, MaintLock, MaintWork,
              MaintClear, MaintStep, MPCs
<1>5. ASSUME NEW r \in Repos, BackoffElapses(r)
      PROVE  (TypeOK /\ RepoKnown)'
  BY <1>5 DEF BackoffElapses
<1>6. ASSUME NEW r \in Repos, Push(r) PROVE (TypeOK /\ RepoKnown)'
  BY <1>6 DEF Push, repoVars
<1>7. ASSUME NEW j \in JobIds, Expire(j) PROVE (TypeOK /\ RepoKnown)'
  BY <1>7 DEF Expire, Forget, NoJob, JobType, repoVars
<1>8. CASE UNCHANGED vars
  BY <1>8 DEF vars, repoVars
<1> QED
  BY <1>1, <1>2, <1>3, <1>4, <1>5, <1>6, <1>7, <1>8 DEF Next

-----------------------------------------------------------------------------
(* The active job of a repository and the one behind it.                   *)
Slotted == SlotsHold /\ OpenJobsHaveSlots

(* admit() puts a new job into a slot that is free.                        *)
LEMMA SlottedAdmit ==
  ASSUME TypeOK, RepoKnown, Slotted, NEW r \in Repos, NEW j \in JobIds,
         AdmitNew(r, j)
  PROVE  Slotted'
<1> USE JobsAssumption
<1>1. pc[j] = "gone"
  BY DEF AdmitNew, Forgotten
<1>2. \A q \in Repos : active[q] # j /\ next[q] # j
  BY <1>1 DEF Slotted, SlotsHold, Open, Unfinished, TypeOK
<1>3. active[r] = None => next[r] = None
  BY DEF Slotted, SlotsHold
<1>4. active[r] # None => next[r] = None
  BY DEF AdmitNew, JoinsNext
<1>5. /\ pc' = [pc EXCEPT ![j] = "pred"]
      /\ pred' = [pred EXCEPT ![j] = active[r]]
      /\ \A k \in JobIds \ {j} : job'[k] = job[k]
      /\ job'[j].repo = r
  BY DEF AdmitNew, TypeOK, NoJob
<1>6. CASE active[r] = None
  <2>1. active' = [active EXCEPT ![r] = j] /\ next' = next
    BY <1>6 DEF AdmitNew, TypeOK
  <2> QED
    BY <1>1, <1>2, <1>3, <1>5, <1>6, <2>1
       DEF Slotted, SlotsHold, OpenJobsHaveSlots, Open, Unfinished, RepoOf, TypeOK
<1>7. CASE active[r] # None
  <2>1. next' = [next EXCEPT ![r] = j] /\ active' = active
    BY <1>7 DEF AdmitNew, TypeOK
  <2> QED
    BY <1>1, <1>2, <1>4, <1>5, <1>7, <2>1
       DEF Slotted, SlotsHold, OpenJobsHaveSlots, Open, Unfinished, RepoOf, TypeOK
<1> QED
  BY <1>6, <1>7

(* The end of run() hands the active slot to the successor.                *)
LEMMA SlottedFinish ==
  ASSUME TypeOK, RepoKnown, Slotted, NEW j \in JobIds, Finish(j)
  PROVE  Slotted'
<1> USE JobsAssumption
<1> DEFINE r == RepoOf(j)
<1>1. /\ pc[j] = "finish" /\ r \in Repos
      /\ ~Open(j)' /\ \A k \in JobIds \ {j} : pc'[k] = pc[k] /\ job'[k] = job[k]
  BY DEF Finish, Goto, Open, Unfinished, RepoKnown, TypeOK, Forget
<1>2. \A k \in JobIds : pred'[k] = IF pred[k] = j THEN None ELSE pred[k]
  BY DEF Finish, AwaitedAfter
<1>3. active[r] = j \/ next[r] = j
  BY <1>1 DEF Slotted, OpenJobsHaveSlots, Open, Unfinished
<1>4. active' = [active EXCEPT ![r] = IF active[r] = j THEN next[r] ELSE @]
  BY <1>1 DEF Finish, ActiveAfter, TypeOK
<1>5. next' = [next EXCEPT ![r] = None]
  BY <1>1, <1>3 DEF Finish, TypeOK
<1>6. \A q \in Repos \ {r} : active[q] # j /\ next[q] # j
  BY <1>1 DEF Slotted, SlotsHold
<1>7. SlotsHold'
  BY <1>1, <1>2, <1>3, <1>4, <1>5, <1>6
     DEF Slotted, SlotsHold, Open, Unfinished, RepoOf, TypeOK
<1>8. OpenJobsHaveSlots'
  BY <1>1, <1>3, <1>4, <1>5, <1>6
     DEF Slotted, SlotsHold, OpenJobsHaveSlots, Open, RepoOf, TypeOK
<1> QED
  BY <1>7, <1>8 DEF Slotted

(* The other steps of run() leave the slots as they are.                   *)
LEMMA SlottedRun ==
  ASSUME TypeOK, RepoKnown, Slotted, NEW j \in JobIds, Run(j)
  PROVE  Slotted'
<1>1. CASE Finish(j)
  BY <1>1, SlottedFinish
<1>2. CASE ~Finish(j)
  <2> USE DEF Run, PredecessorDone, CheckMaintenance, LockWriter, RetryWriter,
              TakeWorker, BeginSnapshot, Observe, Work, CopyState, Release, GiveUp, Goto,
              repoVars
  <2>1. UNCHANGED <<active, next, pred>>
    BY <1>2
  <2>2. Open(j) <=> Open(j)'
    BY <1>2 DEF TypeOK, Open, Unfinished
  <2>3. pc[j] # "finish"
    BY <1>2
  <2>4. pc[j] = "pred" => \/ pred[j] = None
                          \/ pc'[j] = "copy" /\ job'[j].failed
    BY <1>2 DEF TypeOK, Error, JobType
  <2>5. pc[j] = "copy" => pc'[j] = "finish" /\ job'[j].failed = job[j].failed
    BY <1>2 DEF TypeOK, JobType
  <2>6. \A q \in Repos :
           next[q] = j => pc'[j] \in {"copy", "finish"} /\ job'[j].failed
    BY <2>3, <2>4, <2>5, JobsAssumption DEF Slotted, SlotsHold
  <2> HIDE DEF Run, PredecessorDone, CheckMaintenance, LockWriter,
               RetryWriter, TakeWorker, BeginSnapshot, Observe, Work, CopyState, Release,
               GiveUp
  <2>7. \A k \in JobIds : /\ Open(k) <=> Open(k)'
                          /\ Open(k) => RepoOf(k)' = RepoOf(k)
                          /\ k # j => pc'[k] = pc[k] /\ job'[k] = job[k]
    BY <2>2, RunFrame DEF Open, RepoOf, Unfinished
  <2>8. OpenJobsHaveSlots'
    BY <2>1, <2>7 DEF Slotted, OpenJobsHaveSlots
  <2>9. SlotsHold'
    BY <2>1, <2>6, <2>7, JobsAssumption
       DEF Slotted, SlotsHold, TypeOK, Open, Unfinished
  <2> QED
    BY <2>8, <2>9 DEF Slotted
<1> QED
  BY <1>1, <1>2

(* Every step keeps the slots of every repository in order.                *)
LEMMA SlottedNext ==
  ASSUME TypeOK, RepoKnown, Slotted, [Next]_vars
  PROVE  Slotted'
<1>1. ASSUME NEW r \in Repos, Join(r) PROVE Slotted'
  <2>1. \A k \in JobIds : job'[k].repo = job[k].repo /\ job'[k].failed = job[k].failed
    BY <1>1 DEF Join, TypeOK, JobType
  <2> QED
    BY <1>1, <2>1 DEF Join, repoVars, Slotted, SlotsHold, OpenJobsHaveSlots,
                      Open, RepoOf, TypeOK
<1>2. ASSUME NEW r \in Repos, NEW j \in JobIds, AdmitNew(r, j) PROVE Slotted'
  BY <1>2, SlottedAdmit
<1>3. ASSUME NEW j \in JobIds, Run(j) PROVE Slotted'
  BY <1>3, SlottedRun
<1>4. ASSUME UNCHANGED <<active, next, pc, pred, job>> PROVE Slotted'
  BY <1>4 DEF Slotted, SlotsHold, OpenJobsHaveSlots, Open, RepoOf
<1>5. ASSUME NEW r \in Repos, Maintain(r) \/ BackoffElapses(r) \/ Push(r)
      PROVE  Slotted'
  BY <1>4, <1>5 DEF Maintain, BackoffElapses, Push, repoVars
<1>6. ASSUME NEW j \in JobIds, Expire(j) PROVE Slotted'
  <2>1. /\ UNCHANGED <<active, next, pc, pred>>
        /\ \A k \in JobIds : pc[k] # "gone" => job'[k] = job[k]
    BY <1>6 DEF Expire, Forget, repoVars, TypeOK
  <2> QED
    BY <2>1 DEF Slotted, SlotsHold, OpenJobsHaveSlots, Open, Unfinished, RepoOf,
                TypeOK
<1>7. CASE UNCHANGED vars
  BY <1>4, <1>7 DEF vars, repoVars
<1> QED
  BY <1>1, <1>2, <1>3, <1>5, <1>6, <1>7 DEF Next

-----------------------------------------------------------------------------
(* The flags of a job, and how fresh its answer is.                        *)
Answering == FlagsAgree /\ Fresh

(* A joined job has not begun its snapshot, or is a population.            *)
LEMMA AnsweringJoin ==
  ASSUME TypeOK, RepoKnown, Slotted, Answering, NEW r \in Repos, Join(r)
  PROVE  Answering'
<1> USE JobsAssumption
<1> DEFINE j == IF JoinsActive(r) THEN active[r] ELSE next[r]
<1>1. j \in JobIds /\ RepoOf(j) = r /\ pc[j] # "gone"
  BY DEF Join, JoinsActive, JoinsNext, TypeOK, Slotted, SlotsHold, Open,
         Unfinished
<1>2. \/ job[j].population \/ ~job[j].started
      \/ pc[j] \in {"copy", "finish"} /\ job[j].failed
      \/ pc[j] = "pred"
  BY DEF Join, JoinsActive, JoinsNext, TypeOK, Slotted, SlotsHold
<1>3. /\ \A k \in JobIds \ {j} : job'[k] = job[k]
      /\ job'[j].asked = upstream[r] /\ job'[j].repo = job[j].repo
      /\ job'[j].population = job[j].population
      /\ job'[j].started = job[j].started
      /\ job'[j].failed = job[j].failed /\ job'[j].snap = job[j].snap
      /\ UNCHANGED <<pc, upstream>>
  BY <1>1 DEF Join, TypeOK, JobType
<1> HIDE DEF j
<1>4. FlagsAgree'
  BY <1>1, <1>3 DEF Answering, FlagsAgree
<1>5. Fresh'
  <2> SUFFICES ASSUME NEW k \in JobIds
               PROVE  /\ pc[k] # "gone"
                            => job'[k].asked <= upstream[job'[k].repo]
                      /\ pc[k] = "work" /\ ~job'[k].population
                            => job'[k].asked <= job'[k].snap
                      /\ pc[k] \in {"finish", "release", "gone"}
                            /\ ~job'[k].failed /\ ~job'[k].population
                            => job'[k].asked <= job'[k].snap
    BY <1>3 DEF Fresh, RepoOf
  <2>1. CASE k # j
    BY <2>1, <1>3 DEF Answering, Fresh, RepoOf
  <2>2. CASE k = j
    <3>1. job'[k].asked <= upstream[job'[k].repo]
      BY <2>2, <1>1, <1>3 DEF RepoOf, TypeOK
    <3>2. pc[k] \in {"release"} => FALSE
      BY <2>2, <1>1 DEF Join, JoinsActive, JoinsNext, TypeOK, Slotted, SlotsHold,
                        Open, Unfinished, j
    <3> QED
      BY <2>2, <1>1, <1>2, <1>3, <3>1, <3>2 DEF Answering, FlagsAgree
  <2> QED
    BY <2>1, <2>2
<1> QED
  BY <1>4, <1>5 DEF Answering

(* run() begins its snapshot before it asks upstream.                      *)
LEMMA AnsweringRun ==
  ASSUME TypeOK, RepoKnown, Answering, NEW j \in JobIds, Run(j)
  PROVE  Answering'
<1> USE DEF Goto, repoVars
<1>1. /\ \A k \in JobIds \ {j} : pc'[k] = pc[k] /\ job'[k] = job[k]
      /\ upstream' = upstream /\ pc[j] # "gone"
  BY RunFrame
<1>2. job[j] \in JobType /\ RepoOf(j) \in Repos
      /\ upstream[RepoOf(j)] \in Nat
  BY <1>1 DEF TypeOK, RepoKnown
<1> DEFINE Agrees(k) ==
             /\ pc[k] \in {"pred", "flag", "lock", "worker", "begin"}
                   => ~job[k].started
             /\ pc[k] \in {"observe", "work"} => job[k].started
             /\ pc[k] = "copy" => job[k].failed
             /\ pc[k] = "finish" => job[k].started \/ job[k].failed
           Answered(k) ==
             /\ pc[k] # "gone" => job[k].asked <= upstream[job[k].repo]
             /\ pc[k] = "work" /\ ~job[k].population
                   => job[k].asked <= job[k].snap
             /\ pc[k] \in {"finish", "release", "gone"}
                   /\ ~job[k].failed /\ ~job[k].population
                   => job[k].asked <= job[k].snap
<1>3. Agrees(j) /\ Answered(j)
  BY DEF Answering, FlagsAgree, Fresh, RepoOf
<1>4. Agrees(j)' /\ Answered(j)'
  <2>1. CASE PredecessorDone(j) \/ LockWriter(j) \/ RetryWriter(j) \/ TakeWorker(j)
    BY <1>1, <1>3, <2>1 DEF PredecessorDone, LockWriter, RetryWriter, TakeWorker,
                            TypeOK
  <2>2. CASE CheckMaintenance(j)
    BY <1>1, <1>2, <1>3, <2>2 DEF CheckMaintenance, Error, TypeOK, JobType
  <2>3. CASE BeginSnapshot(j)
    BY <1>1, <1>2, <1>3, <2>3 DEF BeginSnapshot, TypeOK, JobType
  <2>4. CASE Observe(j)
    <3>1. /\ pc[j] = "observe" /\ pc'[j] \in {"work", "finish"}
          /\ job'[j].asked = job[j].asked /\ job'[j].repo = job[j].repo
          /\ job'[j].started = job[j].started
          /\ pc'[j] = "work" => job'[j].snap = upstream[job[j].repo]
          /\ pc'[j] = "finish" => job'[j].failed
      BY <1>2, <2>4 DEF Observe, Error, TypeOK, JobType, RepoOf
    <3> QED
      BY <1>1, <1>3, <3>1
  <2>5. CASE Work(j)
    BY <1>1, <1>2, <1>3, <2>5 DEF Work, TypeOK, JobType, RepoOf
  <2>6. CASE Finish(j)
    BY <1>1, <1>2, <1>3, <2>6 DEF Finish, Forget, NoJob, TypeOK, JobType
  <2>7. CASE Release(j)
    BY <1>1, <1>2, <1>3, <2>7 DEF Release, Forget, NoJob, TypeOK, JobType
  <2>8. CASE GiveUp(j)
    BY <1>1, <1>2, <1>3, <2>8 DEF GiveUp, Error, TypeOK, JobType
  <2>9. CASE CopyState(j)
    <3>1. /\ pc[j] = "copy" /\ pc'[j] = "finish"
          /\ job'[j].asked = job[j].asked /\ job'[j].repo = job[j].repo
          /\ job'[j].failed = job[j].failed
      BY <1>2, <2>9 DEF CopyState, TypeOK, JobType
    <3> QED
      BY <1>1, <1>3, <3>1
  <2> QED
    BY <2>1, <2>2, <2>3, <2>4, <2>5, <2>6, <2>7, <2>8, <2>9 DEF Run
<1> QED
  BY <1>1, <1>4 DEF Answering, FlagsAgree, Fresh, RepoOf

(* Every step keeps the answers as fresh as they were asked for.           *)
LEMMA AnsweringNext ==
  ASSUME TypeOK, RepoKnown, Slotted, Answering, [Next]_vars
  PROVE  Answering'
<1>1. ASSUME NEW r \in Repos, Join(r) PROVE Answering'
  BY <1>1, AnsweringJoin
<1>2. ASSUME NEW r \in Repos, NEW j \in JobIds, AdmitNew(r, j) PROVE Answering'
  <2>1. /\ \A k \in JobIds \ {j} : pc'[k] = pc[k] /\ job'[k] = job[k]
        /\ pc'[j] = "pred" /\ ~job'[j].started /\ job'[j].repo = r
        /\ job'[j].asked = upstream[r] /\ upstream' = upstream
    BY <1>2 DEF AdmitNew, NoJob, TypeOK
  <2>2. upstream[r] \in Nat
    BY DEF TypeOK
  <2> QED
    BY <2>1, <2>2 DEF Answering, FlagsAgree, Fresh, RepoOf
<1>3. ASSUME NEW j \in JobIds, Run(j) PROVE Answering'
  BY <1>3, AnsweringRun
<1>4. ASSUME UNCHANGED <<pc, job, upstream>> PROVE Answering'
  BY <1>4 DEF Answering, FlagsAgree, Fresh, RepoOf
<1>5. ASSUME NEW r \in Repos, Maintain(r) \/ BackoffElapses(r) PROVE Answering'
  BY <1>4, <1>5 DEF Maintain, BackoffElapses
<1>6. ASSUME NEW r \in Repos, Push(r) PROVE Answering'
  <2>1. UNCHANGED <<pc, job>>
        /\ \A q \in Repos : upstream[q] <= upstream'[q]
    BY <1>6 DEF Push, TypeOK
  <2>2. \A k \in JobIds : job[k].asked \in Nat
    BY DEF TypeOK, JobType
  <2>3. \A q \in Repos : upstream[q] \in Nat /\ upstream'[q] \in Nat
    BY <1>6 DEF Push, TypeOK
  <2> QED
    BY <2>1, <2>2, <2>3 DEF Answering, FlagsAgree, Fresh, RepoOf, RepoKnown
<1>7. ASSUME NEW j \in JobIds, Expire(j) PROVE Answering'
  <2>1. /\ UNCHANGED <<pc, upstream>>
        /\ \A k \in JobIds \ {j} : job'[k] = job[k]
        /\ pc[j] # "gone" => job' = job
        /\ pc[j] = "gone" => job'[j] = NoJob
    BY <1>7 DEF Expire, Forget, TypeOK, repoVars
  <2>2. NoJob.asked <= NoJob.snap
    BY DEF NoJob
  <2> QED
    BY <2>1, <2>2 DEF Answering, FlagsAgree, Fresh, RepoOf
<1>8. CASE UNCHANGED vars
  BY <1>4, <1>8 DEF vars
<1> QED
  BY <1>1, <1>2, <1>3, <1>5, <1>6, <1>7, <1>8 DEF Next

-----------------------------------------------------------------------------
(* A first population and the published flag.                              *)

(* A new job is a population exactly while nothing is published.           *)
LEMMA PopulatingAdmit ==
  ASSUME TypeOK, RepoKnown, Slotted, Populating, NEW r \in Repos,
         NEW j \in JobIds, AdmitNew(r, j)
  PROVE  Populating'
<1> USE JobsAssumption
<1>1. /\ pc[j] = "gone" /\ pc' = [pc EXCEPT ![j] = "pred"]
      /\ \A k \in JobIds \ {j} : job'[k] = job[k]
      /\ job'[j].repo = r /\ job'[j].population = ~published[r]
      /\ UNCHANGED <<published, mpc>>
  BY DEF AdmitNew, Forgotten, NoJob, TypeOK
<1>2. CASE published[r]
  <2>1. /\ \A q \in Repos \ {r} : active'[q] = active[q] /\ next'[q] = next[q]
        /\ ~job'[j].population
    BY <1>1, <1>2 DEF AdmitNew, TypeOK
  <2> QED
    BY <1>1, <1>2, <2>1
       DEF Populating, PopulationRunsAlone, Open, Unfinished, RepoOf, RepoKnown,
           TypeOK
<1>3. CASE ~published[r]
  <2>1. active[r] = None
    <3> SUFFICES ASSUME active[r] # None PROVE FALSE
      OBVIOUS
    <3>1. active[r] \in JobIds /\ Open(active[r]) /\ RepoOf(active[r]) = r
      BY DEF Slotted, SlotsHold, TypeOK
    <3>2. job[active[r]].population
      BY <1>3, <3>1 DEF Populating
    <3> QED
      BY <3>2 DEF AdmitNew, JoinsActive
  <2>2. next[r] = None
    BY <2>1 DEF Slotted, SlotsHold
  <2>3. active' = [active EXCEPT ![r] = j] /\ next' = next /\ mpc[r] = "off"
    BY <2>1 DEF AdmitNew, Refused, TypeOK
  <2>4. \A k \in JobIds : Open(k) => RepoOf(k) # r
    BY <2>1, <2>2 DEF Slotted, OpenJobsHaveSlots
  <2>5. \A k \in JobIds \ {j} :
           Open(k) => /\ active'[RepoOf(k)] = active[RepoOf(k)]
                      /\ RepoOf(k)' = RepoOf(k)
    BY <1>1, <2>3, <2>4 DEF RepoOf, RepoKnown, Open, Unfinished, TypeOK
  <2>6. \A k \in JobIds \ {j} : Open(k)' <=> Open(k)
    BY <1>1 DEF Open, TypeOK
  <2>7. active'[r] = j /\ RepoOf(j)' = r
    BY <1>1, <2>3 DEF RepoOf, TypeOK
  <2>8. \A k \in JobIds \ {j} :
           Open(k)' => /\ Open(k) /\ job'[k].population = job[k].population
                       /\ active'[RepoOf(k)'] = active[RepoOf(k)]
                       /\ RepoOf(k)' = RepoOf(k)
    BY <1>1, <2>5, <2>6
  <2>9. PopulationRunsAlone'
    <3>1. mpc'[r] = "off" /\ next'[r] = None /\ ~published'[r]
      BY <1>1, <1>3, <2>2, <2>3
    <3>2. ASSUME NEW k \in JobIds \ {j}, Open(k)', job'[k].population
          PROVE  /\ ~published'[RepoOf(k)']
                 /\ active'[RepoOf(k)'] = k
                 /\ next'[RepoOf(k)'] = None
                 /\ mpc'[RepoOf(k)'] = "off"
      <4>1. Open(k) /\ job[k].population
        BY <2>8, <3>2
      <4>2. /\ ~published[RepoOf(k)] /\ active[RepoOf(k)] = k
            /\ next[RepoOf(k)] = None /\ mpc[RepoOf(k)] = "off"
        BY <4>1 DEF Populating, PopulationRunsAlone
      <4> QED
        BY <1>1, <2>3, <2>8, <3>2, <4>2
    <3> QED
      BY <2>7, <3>1, <3>2 DEF PopulationRunsAlone
  <2>10. \A k \in JobIds :
            Open(k)' /\ ~job'[k].population => published'[RepoOf(k)']
    <3>1. job'[j].population
      BY <1>1, <1>3
    <3>2. ASSUME NEW k \in JobIds \ {j}, Open(k)', ~job'[k].population
          PROVE  published'[RepoOf(k)']
      BY <1>1, <2>8, <3>2 DEF Populating
    <3> QED
      BY <3>1, <3>2
  <2> QED
    BY <2>9, <2>10 DEF Populating
<1> QED
  BY <1>2, <1>3

(* A repository is published by a refresh that succeeds.                   *)
LEMMA PopulatingFinish ==
  ASSUME TypeOK, RepoKnown, Slotted, Populating, NEW j \in JobIds, Finish(j)
  PROVE  Populating'
<1> USE JobsAssumption
<1> DEFINE r == RepoOf(j)
<1>1. /\ pc[j] = "finish" /\ r \in Repos /\ Open(j) /\ ~Open(j)'
      /\ \A k \in JobIds \ {j} : pc'[k] = pc[k] /\ job'[k] = job[k]
      /\ \A q \in Repos \ {r} : /\ published'[q] = published[q]
                                /\ active'[q] = active[q]
                                /\ next'[q] = next[q]
      /\ published[r] => published'[r]
      /\ UNCHANGED mpc
  BY DEF Finish, Goto, Open, Unfinished, RepoKnown, TypeOK, Forget, ActiveAfter
<1>2. \A k \in JobIds \ {j} :
         Open(k) /\ RepoOf(k) = r => ~job[k].population
  BY <1>1 DEF Slotted, OpenJobsHaveSlots, Populating, PopulationRunsAlone
<1> QED
  BY <1>1, <1>2
     DEF Populating, PopulationRunsAlone, Open, RepoOf, RepoKnown, Unfinished

(* Every step keeps populations alone.                                     *)
LEMMA PopulatingNext ==
  ASSUME TypeOK, RepoKnown, Slotted, Populating, [Next]_vars
  PROVE  Populating'
<1>1. ASSUME NEW r \in Repos, Join(r) PROVE Populating'
  <2>1. \A k \in JobIds : /\ job'[k].repo = job[k].repo
                          /\ job'[k].population = job[k].population
    BY <1>1 DEF Join, TypeOK, JobType
  <2> QED
    BY <1>1, <2>1 DEF Join, repoVars, Populating, PopulationRunsAlone, Open, RepoOf
<1>2. ASSUME NEW r \in Repos, NEW j \in JobIds, AdmitNew(r, j) PROVE Populating'
  BY <1>2, PopulatingAdmit
<1>3. ASSUME NEW j \in JobIds, Run(j) PROVE Populating'
  <2>1. CASE Finish(j)
    BY <2>1, PopulatingFinish
  <2>2. CASE ~Finish(j)
    <3>1. UNCHANGED <<active, next, published>>
      BY <1>3, <2>2
         DEF Run, PredecessorDone, CheckMaintenance, LockWriter, RetryWriter,
             TakeWorker, BeginSnapshot, Observe, Work, CopyState, Release, GiveUp, repoVars
    <3>2. Open(j)' => Open(j)
      BY <1>3, <2>2
         DEF Run, PredecessorDone, CheckMaintenance, LockWriter, RetryWriter,
             TakeWorker, BeginSnapshot, Observe, Work, CopyState, Release, GiveUp, Goto,
             TypeOK, Open, Unfinished
    <3>3. UNCHANGED mpc
      BY <1>3, RunFrame
    <3>4. \A k \in JobIds :
             Open(k)' => /\ Open(k) /\ RepoOf(k)' = RepoOf(k)
                         /\ job'[k].population = job[k].population
      BY <1>3, <3>2, RunFrame DEF Open, Unfinished, RepoOf
    <3> QED
      BY <3>1, <3>3, <3>4 DEF Populating, PopulationRunsAlone
  <2> QED
    BY <2>1, <2>2
<1>4. ASSUME NEW r \in Repos, Maintain(r) PROVE Populating'
  <2>1. /\ UNCHANGED <<active, next, published, pc, job>>
        /\ \A q \in Repos : mpc[q] = "off" /\ ~published[q] => mpc'[q] = "off"
    BY <1>4 DEF Maintain, MaintStart, MaintDrain, MaintLock, MaintWork,
                MaintClear, MaintStep, TypeOK
  <2> QED
    BY <2>1 DEF Populating, PopulationRunsAlone, Open, Unfinished, RepoOf,
                RepoKnown
<1>5. ASSUME UNCHANGED <<active, next, published, mpc, pc, job>>
      PROVE  Populating'
  BY <1>5 DEF Populating, PopulationRunsAlone, Open, RepoOf
<1>6. ASSUME NEW r \in Repos, BackoffElapses(r) \/ Push(r) PROVE Populating'
  BY <1>5, <1>6 DEF BackoffElapses, Push, repoVars
<1>7. ASSUME NEW j \in JobIds, Expire(j) PROVE Populating'
  <2>1. /\ UNCHANGED <<active, next, published, mpc, pc>>
        /\ \A k \in JobIds : pc[k] # "gone" => job'[k] = job[k]
    BY <1>7 DEF Expire, Forget, repoVars, TypeOK
  <2> QED
    BY <2>1 DEF Populating, PopulationRunsAlone, Open, Unfinished, RepoOf
<1>8. CASE UNCHANGED vars
  BY <1>5, <1>8 DEF vars, repoVars
<1> QED
  BY <1>1, <1>2, <1>3, <1>4, <1>6, <1>7, <1>8 DEF Next

-----------------------------------------------------------------------------
(* The writer locks and the worker slots.                                  *)

(* run() is inside its lock from TryLock to the deferred unlock.           *)
LEMMA LockedRun ==
  ASSUME TypeOK, RepoKnown, Locked, NEW j \in JobIds, Run(j)
  PROVE  Locked'
<1> USE JobsAssumption
<1> DEFINE r == RepoOf(j)
<1>1. /\ \A k \in JobIds \ {j} : /\ pc'[k] = pc[k]
                                 /\ RepoOf(k)' = RepoOf(k)
      /\ pc[j] # "gone" /\ r \in Repos
      /\ pc'[j] # "gone" => RepoOf(j)' = r
      /\ UNCHANGED mpc
  BY RunFrame DEF RepoOf, RepoKnown
<1>2. CASE \/ PredecessorDone(j) \/ CheckMaintenance(j) \/ RetryWriter(j)
           \/ BeginSnapshot(j) \/ Observe(j) \/ Work(j) \/ CopyState(j)
           \/ GiveUp(j)
  <2>1. UNCHANGED <<writer, slots>>
    BY <1>2 DEF PredecessorDone, CheckMaintenance, RetryWriter, BeginSnapshot,
                Observe, Work, CopyState, GiveUp, repoVars
  <2>2. /\ pc[j] \in {"pred", "flag", "lock"}
        /\ pc'[j] \in {"pred", "flag", "lock", "copy"}
     \/ /\ pc[j] \in {"worker", "copy"} /\ pc'[j] \in {"copy", "finish"}
     \/ /\ pc[j] \in {"begin", "observe", "work"}
        /\ pc'[j] \in {"observe", "work", "finish"}
    BY <1>2 DEF PredecessorDone, CheckMaintenance, RetryWriter, BeginSnapshot,
                Observe, Work, CopyState, GiveUp, Goto, TypeOK
  <2> QED
    BY <1>1, <2>1, <2>2 DEF Locked, Inside, Refreshing, TypeOK
<1>3. CASE LockWriter(j)
  <2>1. /\ writer[r] = None /\ writer' = [writer EXCEPT ![r] = j]
        /\ pc[j] = "lock" /\ pc'[j] = "worker" /\ slots' = slots
    BY <1>3 DEF LockWriter, Goto, TypeOK
  <2> QED
    BY <1>1, <2>1 DEF Locked, Inside, Refreshing, TypeOK, RepoKnown
<1>4. CASE TakeWorker(j)
  <2>1. /\ slots' = slots \cup {j} /\ writer' = writer
        /\ pc[j] = "worker" /\ pc'[j] = "begin"
    BY <1>4 DEF TakeWorker, Goto, TypeOK
  <2> QED
    BY <1>1, <2>1 DEF Locked, Inside, Refreshing, TypeOK
<1>5. CASE Finish(j)
  <2>1. /\ UNCHANGED <<writer, slots>> /\ pc[j] = "finish"
        /\ \/ pc'[j] = "release" /\ writer[r] = j
           \/ pc'[j] = "gone" /\ writer[r] # j
    BY <1>5 DEF Finish, Goto, TypeOK
  <2> QED
    BY <1>1, <2>1 DEF Locked, Inside, Refreshing, TypeOK
<1>6. CASE Release(j)
  <2>1. /\ slots' = slots \ {j} /\ writer' = [writer EXCEPT ![r] = None]
        /\ pc[j] = "release" /\ pc'[j] = "gone"
    BY <1>6 DEF Release, Goto, TypeOK
  <2>2. writer[r] = j
    BY <2>1 DEF Locked, Inside
  <2> QED
    BY <1>1, <2>1, <2>2 DEF Locked, Inside, Refreshing, TypeOK, RepoKnown
<1> QED
  BY <1>2, <1>3, <1>4, <1>5, <1>6 DEF Run

(* maintain() works under the lock, and gives it back.                     *)
LEMMA LockedMaintain ==
  ASSUME TypeOK, RepoKnown, Locked, NEW r \in Repos, Maintain(r)
  PROVE  Locked'
<1> USE JobsAssumption
<1>1. UNCHANGED <<pc, job, slots>>
  BY DEF Maintain
<1>2. \/ /\ writer' = writer /\ mpc[r] # "work"
         /\ \E to \in MPCs \ {"work"} : mpc' = [mpc EXCEPT ![r] = to]
      \/ /\ writer[r] = None /\ writer' = [writer EXCEPT ![r] = Maintainer]
         /\ mpc' = [mpc EXCEPT ![r] = "work"]
      \/ /\ mpc[r] = "work" /\ writer' = [writer EXCEPT ![r] = None]
         /\ mpc' = [mpc EXCEPT ![r] = "clear"]
  BY DEF Maintain, MaintStart, MaintDrain, MaintLock, MaintWork, MaintClear,
         MaintStep, MPCs
<1>3. \A j \in JobIds :
         pc[j] # "gone" /\ writer[RepoOf(j)] = j => writer'[RepoOf(j)] = j
  BY <1>2 DEF Locked, RepoKnown, TypeOK
<1>4. \A q \in Repos : writer'[q] \in JobIds => writer[q] = writer'[q]
  BY <1>2 DEF TypeOK
<1>5. \A q \in Repos : mpc'[q] = "work" <=> writer'[q] = Maintainer
  BY <1>2 DEF Locked, TypeOK, MPCs
<1> QED
  BY <1>1, <1>3, <1>4, <1>5 DEF Locked, Inside, Refreshing, RepoOf, TypeOK

(* Every step keeps the writer locks and the slots in agreement.           *)
LEMMA LockedNext ==
  ASSUME TypeOK, RepoKnown, Locked, [Next]_vars
  PROVE  Locked'
<1> USE JobsAssumption
<1>1. ASSUME UNCHANGED <<writer, slots, mpc, pc>>,
             \A k \in JobIds : pc[k] # "gone" => job'[k].repo = job[k].repo
      PROVE  Locked'
  <2>1. \A q \in Repos : writer[q] \in JobIds => pc[writer[q]] # "gone"
    BY DEF Locked, Inside
  <2> QED
    BY <1>1, <2>1 DEF Locked, Inside, Refreshing, RepoOf, TypeOK
<1>2. ASSUME NEW r \in Repos, Join(r) PROVE Locked'
  BY <1>1, <1>2 DEF Join, TypeOK, JobType, repoVars
<1>3. ASSUME NEW r \in Repos, NEW j \in JobIds, AdmitNew(r, j) PROVE Locked'
  <2>1. /\ UNCHANGED <<writer, slots, mpc>>
        /\ pc[j] = "gone" /\ pc'[j] = "pred"
        /\ \A k \in JobIds \ {j} : pc'[k] = pc[k] /\ job'[k] = job[k]
    BY <1>3 DEF AdmitNew, Forgotten, TypeOK
  <2>2. j \notin slots /\ \A q \in Repos : writer[q] # j
    BY <2>1 DEF Locked, Inside
  <2> QED
    BY <2>1, <2>2 DEF Locked, Inside, Refreshing, RepoOf, TypeOK
<1>4. ASSUME NEW j \in JobIds, Run(j) PROVE Locked'
  BY <1>4, LockedRun
<1>5. ASSUME NEW r \in Repos, Maintain(r) PROVE Locked'
  BY <1>5, LockedMaintain
<1>6. ASSUME NEW r \in Repos, BackoffElapses(r) \/ Push(r) PROVE Locked'
  BY <1>1, <1>6 DEF BackoffElapses, Push, repoVars
<1>7. ASSUME NEW j \in JobIds, Expire(j) PROVE Locked'
  <2>1. \A k \in JobIds : pc[k] # "gone" => job'[k] = job[k]
    BY <1>7 DEF Expire, Forget, TypeOK
  <2> QED
    BY <1>1, <1>7, <2>1 DEF Expire, repoVars
<1>8. CASE UNCHANGED vars
  BY <1>1, <1>8 DEF vars, repoVars
<1> QED
  BY <1>2, <1>3, <1>4, <1>5, <1>6, <1>7, <1>8 DEF Next

(* A slot is taken when one is free, and given back.                       *)
LEMMA SlotsCountedNext ==
  ASSUME TypeOK, SlotsCounted, [Next]_vars
  PROVE  SlotsCounted'
<1> USE JobsAssumption
<1>1. ASSUME slots' = slots PROVE SlotsCounted'
  BY <1>1 DEF SlotsCounted
<1>2. ASSUME NEW j \in JobIds, TakeWorker(j) PROVE SlotsCounted'
  <2>1. slots' = slots \cup {j} /\ Cardinality(slots) < Workers
    BY <1>2 DEF TakeWorker, WorkerFree
  <2>2. /\ IsFiniteSet(slots')
        /\ Cardinality(slots') \in {Cardinality(slots), Cardinality(slots) + 1}
    BY <2>1, FS_AddElement DEF SlotsCounted
  <2>3. Cardinality(slots) \in Nat
    BY FS_CardinalityType DEF SlotsCounted
  <2> QED
    BY <2>1, <2>2, <2>3 DEF SlotsCounted
<1>3. ASSUME NEW j \in JobIds, Release(j) PROVE SlotsCounted'
  <2>1. slots' = slots \ {j}
    BY <1>3 DEF Release
  <2>2. /\ IsFiniteSet(slots')
        /\ Cardinality(slots') \in {Cardinality(slots), Cardinality(slots) - 1}
    BY <2>1, FS_RemoveElement DEF SlotsCounted
  <2>3. Cardinality(slots) \in Nat
    BY FS_CardinalityType DEF SlotsCounted
  <2> QED
    BY <2>2, <2>3 DEF SlotsCounted
<1>4. ASSUME NEW j \in JobIds, Run(j), ~TakeWorker(j), ~Release(j)
      PROVE  slots' = slots
  BY <1>4 DEF Run, PredecessorDone, CheckMaintenance, LockWriter, RetryWriter,
              BeginSnapshot, Observe, Work, CopyState, Finish, GiveUp, repoVars
<1>5. CASE \E r \in Repos : \/ Join(r) \/ Maintain(r) \/ BackoffElapses(r)
                            \/ Push(r) \/ \E j \in JobIds : AdmitNew(r, j)
  BY <1>1, <1>5 DEF Join, Maintain, BackoffElapses, Push, AdmitNew, repoVars
<1>6. ASSUME NEW j \in JobIds, Expire(j) PROVE SlotsCounted'
  BY <1>1, <1>6 DEF Expire, repoVars
<1>7. CASE UNCHANGED vars
  BY <1>1, <1>7 DEF vars, repoVars
<1> QED
  BY <1>1, <1>2, <1>3, <1>4, <1>5, <1>6, <1>7 DEF Next

-----------------------------------------------------------------------------
(* The inductive invariant.                                                *)

(* The coordinator starts with no job, no lock and no slot taken.          *)
LEMMA InitInvariant == Init => IInv
<1> SUFFICES ASSUME Init PROVE IInv
  OBVIOUS
<1> USE JobsAssumption
<1>1. TypeOK /\ RepoKnown
  BY TypeInit
<1>2. \A j \in JobIds : pc[j] = "gone" /\ job[j] = NoJob
  BY DEF Init
<1>3. SlotsHold /\ OpenJobsHaveSlots
  BY <1>2 DEF Init, SlotsHold, OpenJobsHaveSlots, Open, Unfinished
<1>4. FlagsAgree /\ Fresh
  BY <1>2 DEF FlagsAgree, Fresh, NoJob
<1>5. Populating
  BY <1>2 DEF Populating, PopulationRunsAlone, Open, Unfinished
<1>6. Locked
  BY <1>2 DEF Init, Locked, Inside, Refreshing
<1>7. SlotsCounted
  BY FS_EmptySet DEF Init, SlotsCounted
<1> QED
  BY <1>1, <1>3, <1>4, <1>5, <1>6, <1>7 DEF IInv

(* Every step of the scheduler keeps every part.                           *)
LEMMA NextInvariant == IInv /\ [Next]_vars => IInv'
<1> SUFFICES ASSUME IInv, [Next]_vars PROVE IInv'
  OBVIOUS
<1>1. TypeOK /\ RepoKnown /\ Slotted /\ Answering /\ Populating /\ Locked /\ SlotsCounted
  BY DEF IInv, Slotted, Answering
<1>2. (TypeOK /\ RepoKnown)'
  BY <1>1, TypeNext
<1>3. Slotted'
  BY <1>1, SlottedNext
<1>4. Answering'
  BY <1>1, AnsweringNext
<1>5. Populating'
  BY <1>1, PopulatingNext
<1>6. Locked'
  BY <1>1, LockedNext
<1>7. SlotsCounted'
  BY <1>1, SlotsCountedNext
<1> QED
  BY <1>2, <1>3, <1>4, <1>5, <1>6, <1>7 DEF IInv, Slotted, Answering

(* The inductive invariant holds in every reachable state of the           *)
(* coordinator, whatever its repositories, workers and queue limit.        *)
THEOREM Invariant == Spec => []IInv
<1>1. Init => IInv
  BY InitInvariant
<1>2. IInv /\ [Next]_vars => IInv'
  BY NextInvariant
<1> QED
  BY <1>1, <1>2, PTL DEF Spec

-----------------------------------------------------------------------------
(* The coordinator's maps, flags and job records always have their types.  *)
THEOREM TypeCorrect == Spec => []TypeOK
<1>1. IInv => TypeOK
  BY DEF IInv
<1> QED
  BY <1>1, Invariant, PTL

(* No admitted job is orphaned: admit() and the end of run() always leave  *)
(* an unfinished job in the active or next slot of its repository.         *)
THEOREM NoJobIsOrphaned == Spec => []OpenJobsHaveSlots
<1>1. IInv => OpenJobsHaveSlots
  BY DEF IInv
<1> QED
  BY <1>1, Invariant, PTL

(* A request that joins a refresh of a published repository is answered    *)
(* with a snapshot taken after it asked: admit() joins the active job only *)
(* before run() sets snapshotStarted.                                      *)
THEOREM NoStaleAnswer == Spec => []AnswersAreFresh
<1>1. IInv => AnswersAreFresh
  BY DEF IInv, TypeOK, Fresh, AnswersAreFresh, Open, Unfinished, PCs
<1> QED
  BY <1>1, Invariant, PTL

(* A first population is alone in its repository until it publishes: every *)
(* request joins it, and maintenance starts on published ones only.        *)
THEOREM PopulationIsAlone == Spec => []PopulationRunsAlone
<1>1. IInv => PopulationRunsAlone
  BY DEF IInv, Populating
<1> QED
  BY <1>1, Invariant, PTL

(* What the writer lock names and the slots counted give the exclusion of  *)
(* whoever changes a repository.                                           *)
LEMMA Exclusion == IInv => OneMutatorPerRepo
<1> SUFFICES ASSUME IInv PROVE OneMutatorPerRepo
  OBVIOUS
<1> USE JobsAssumption
<1>1. \A j \in JobIds :
         Refreshing(j) => /\ writer[RepoOf(j)] = j /\ j \in slots
                          /\ RepoOf(j) \in Repos
  BY DEF IInv, Locked, Inside, Refreshing, RepoKnown
<1>2. \A i, j \in JobIds :
         (Refreshing(i) /\ Refreshing(j) /\ RepoOf(i) = RepoOf(j)) => i = j
  BY <1>1
<1>3. \A j \in JobIds : Refreshing(j) => mpc[RepoOf(j)] # "work"
  BY <1>1 DEF IInv, Locked
<1>4. Cardinality({j \in JobIds : Refreshing(j)}) <= Workers
  <2> DEFINE R == {j \in JobIds : Refreshing(j)}
  <2>1. R \subseteq slots
    BY <1>1
  <2>2. IsFiniteSet(slots) /\ Cardinality(slots) <= Workers
    BY DEF IInv, SlotsCounted
  <2>3. IsFiniteSet(R) /\ Cardinality(R) <= Cardinality(slots)
    BY <2>1, <2>2, FS_Subset
  <2>4. Cardinality(R) \in Nat /\ Cardinality(slots) \in Nat
    BY <2>2, <2>3, FS_CardinalityType
  <2> HIDE DEF R
  <2>5. Cardinality(R) <= Workers
    BY <2>2, <2>3, <2>4
  <2> QED
    BY <2>5 DEF R
<1> QED
  BY <1>2, <1>3, <1>4 DEF OneMutatorPerRepo

(* At most one refresh or maintenance changes a repository at a time, and  *)
(* at most Limits.Workers refreshes run: the writer lock and the workers   *)
(* channel hold through every interleaving of run() and maintain().        *)
THEOREM Exclusive == Spec => []OneMutatorPerRepo
  BY Exclusion, Invariant, PTL
=============================================================================
