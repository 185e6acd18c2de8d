------------------------ MODULE MirrorAnswersProofs ------------------------
(***************************************************************************)
(* MirrorJobs implements MirrorAnswers, for any repositories, jobs, worker *)
(* count and queue: every step of the scheduler is a step of the abstract  *)
(* specification, or none.                                                 *)
(*                                                                         *)
(* To the invariant of MirrorJobsProofs this adds what an answer is worth: *)
(* a refresh that will succeed holds the writer lock, and what it found is *)
(* no older than the last answer (Serving); that a forgotten job leaves    *)
(* nothing behind (Clean), and that the open jobs can be counted.          *)
(***************************************************************************)
EXTENDS MirrorJobsProofs

Succeeds(j) == pc[j] = "work" \/ (pc[j] = "finish" /\ ~job[j].failed)

Serving ==
    /\ \A r \in Repos : served[r] <= upstream[r]
    /\ \A j \in JobIds :
          Succeeds(j) => /\ writer[RepoOf(j)] = j
                         /\ served[RepoOf(j)] <= job[j].snap
                         /\ job[j].snap <= upstream[RepoOf(j)]

Clean == \A j \in JobIds : Forgotten(j) => job[j] = NoJob

OpenFinite == IsFiniteSet(OpenJobs)

RInv == Serving /\ Clean /\ OpenFinite

-----------------------------------------------------------------------------
(* What it takes to keep Serving when nobody finishes.                     *)
LEMMA ServingKept ==
  ASSUME TypeOK, RepoKnown, Serving, served' = served,
         \A r \in Repos : upstream'[r] \in Nat /\ upstream[r] <= upstream'[r],
         \A k \in JobIds :
            Succeeds(k)' => /\ Succeeds(k)
                            /\ writer'[RepoOf(k)] = writer[RepoOf(k)]
                            /\ RepoOf(k)' = RepoOf(k)
                            /\ job'[k].snap = job[k].snap
  PROVE  Serving'
<1>1. \A r \in Repos : served[r] \in Nat /\ upstream[r] \in Nat
  BY DEF TypeOK
<1>2. \A k \in JobIds : job[k].snap \in Nat
  BY DEF TypeOK, JobType
<1>3. \A k \in JobIds : Succeeds(k) => RepoOf(k) \in Repos
  BY DEF RepoKnown, Succeeds
<1>4. \A r \in Repos : served'[r] <= upstream'[r]
  BY <1>1 DEF Serving
<1>5. ASSUME NEW k \in JobIds, Succeeds(k)'
      PROVE  /\ writer'[RepoOf(k)'] = k
             /\ served'[RepoOf(k)'] <= job'[k].snap
             /\ job'[k].snap <= upstream'[RepoOf(k)']
  BY <1>1, <1>2, <1>3, <1>5 DEF Serving
<1> QED
  BY <1>4, <1>5 DEF Serving

(* Only the holder of the writer lock can succeed, so what it publishes is *)
(* what the others of its repository find served.                          *)
LEMMA ServingFinish ==
  ASSUME TypeOK, RepoKnown, Serving, NEW j \in JobIds, Finish(j),
         upstream' = upstream
  PROVE  Serving'
<1> DEFINE r == RepoOf(j)
<1>1. /\ pc[j] = "finish" /\ r \in Repos /\ ~Succeeds(j)'
      /\ writer' = writer
      /\ \A k \in JobIds \ {j} : pc'[k] = pc[k] /\ job'[k] = job[k]
  BY DEF Finish, Goto, RepoKnown, TypeOK, Forget, Succeeds
<1>2. \A k \in JobIds \ {j} :
         Succeeds(k)' => Succeeds(k) /\ RepoOf(k)' = RepoOf(k)
  BY <1>1 DEF Succeeds, RepoOf
<1>3. CASE job[j].failed
  BY <1>1, <1>2, <1>3, ServingKept DEF Finish, TypeOK
<1>4. CASE ~job[j].failed
  <2>1. served' = [served EXCEPT ![r] = job[j].snap]
    BY <1>4 DEF Finish
  <2>2. writer[r] = j /\ job[j].snap <= upstream[r]
    BY <1>1, <1>4 DEF Serving, Succeeds
  <2>3. \A k \in JobIds \ {j} : Succeeds(k) => RepoOf(k) # r
    BY <2>2 DEF Serving
  <2>4. \A q \in Repos : served'[q] <= upstream[q]
    BY <1>1, <2>1, <2>2 DEF Serving, TypeOK
  <2>5. ASSUME NEW k \in JobIds, Succeeds(k)'
        PROVE  /\ writer'[RepoOf(k)'] = k
               /\ served'[RepoOf(k)'] <= job'[k].snap
               /\ job'[k].snap <= upstream'[RepoOf(k)']
    <3>1. /\ k # j /\ Succeeds(k) /\ RepoOf(k)' = RepoOf(k)
          /\ job'[k] = job[k] /\ RepoOf(k) # r /\ RepoOf(k) \in Repos
      BY <1>1, <1>2, <2>3, <2>5 DEF Succeeds, RepoKnown
    <3>2. served'[RepoOf(k)] = served[RepoOf(k)]
      BY <2>1, <3>1 DEF TypeOK
    <3> QED
      BY <1>1, <3>1, <3>2 DEF Serving
  <2> QED
    BY <2>4, <2>5 DEF Serving
<1> QED
  BY <1>3, <1>4

(* ls-remote sees the upstream as it is, and so does a second look.        *)
LEMMA ServingSees ==
  ASSUME TypeOK, RepoKnown, Locked, Serving, NEW j \in JobIds,
         Observe(j) \/ Work(j), upstream' = upstream
  PROVE  Serving'
<1> DEFINE r == RepoOf(j)
<1>1. /\ pc[j] \in {"observe", "work"} /\ r \in Repos
      /\ UNCHANGED <<writer, served>>
      /\ \A k \in JobIds \ {j} : pc'[k] = pc[k] /\ job'[k] = job[k]
      /\ RepoOf(j)' = r
  BY DEF Observe, Work, Goto, RepoKnown, TypeOK, JobType, RepoOf, Error, repoVars
<1>2. writer[r] = j
  BY <1>1 DEF Locked, Inside
<1>3. served[r] \in Nat /\ upstream[r] \in Nat /\ served[r] <= upstream[r]
  BY <1>1 DEF TypeOK, Serving
<1>4. Succeeds(j)' => job'[j].snap \in {job[j].snap, upstream[r]}
  BY DEF Observe, Work, Goto, TypeOK, JobType, Succeeds, Error
<1>5. Succeeds(j)' /\ pc[j] = "observe" => job'[j].snap = upstream[r]
  BY DEF Observe, Work, Goto, TypeOK, JobType, Succeeds, Error
<1>6. pc[j] = "work" => served[r] <= job[j].snap /\ job[j].snap <= upstream[r]
  BY DEF Serving, Succeeds
<1>7. Succeeds(j)' => served[r] <= job'[j].snap /\ job'[j].snap <= upstream[r]
  BY <1>1, <1>3, <1>4, <1>5, <1>6
<1>8. \A k \in JobIds \ {j} :
         Succeeds(k)' => Succeeds(k) /\ RepoOf(k)' = RepoOf(k)
  BY <1>1 DEF Succeeds, RepoOf
<1> QED
  BY <1>1, <1>2, <1>7, <1>8 DEF Serving

(* The other steps of run() neither answer nor look at the upstream.       *)
LEMMA ServingRun ==
  ASSUME TypeOK, RepoKnown, FlagsAgree, Locked, Serving, NEW j \in JobIds,
         Run(j)
  PROVE  Serving'
<1> USE JobsAssumption
<1> DEFINE r == RepoOf(j)
<1>1. /\ \A k \in JobIds \ {j} : pc'[k] = pc[k] /\ job'[k] = job[k]
      /\ upstream' = upstream /\ pc[j] # "gone" /\ r \in Repos
  BY RunFrame DEF RepoKnown
<1>2. CASE Finish(j)
  BY <1>1, <1>2, ServingFinish
<1>3. CASE Observe(j) \/ Work(j)
  BY <1>1, <1>3, ServingSees
<1>4. CASE ~Finish(j) /\ ~Observe(j) /\ ~Work(j)
  <2>1. served' = served
    BY <1>4 DEF Run, PredecessorDone, CheckMaintenance, LockWriter, RetryWriter,
                TakeWorker, BeginSnapshot, CopyState, Release, GiveUp, repoVars
  <2>2. ~Succeeds(j)'
    <3>1. CASE CopyState(j)
      BY <3>1 DEF CopyState, Goto, TypeOK, JobType, Succeeds, FlagsAgree
    <3>2. CASE ~CopyState(j)
      BY <1>4, <3>2
         DEF Run, PredecessorDone, CheckMaintenance, LockWriter, RetryWriter,
             TakeWorker, BeginSnapshot, Release, GiveUp, Goto, TypeOK, Succeeds
    <3> QED
      BY <3>1, <3>2
  <2>3. \A k \in JobIds \ {j} :
           Succeeds(k)' => Succeeds(k) /\ RepoOf(k)' = RepoOf(k)
    BY <1>1 DEF Succeeds, RepoOf
  <2>4. \/ writer' = writer
        \/ writer[r] = None /\ writer' = [writer EXCEPT ![r] = j]
        \/ writer[r] = j /\ writer' = [writer EXCEPT ![r] = None]
    <3>1. CASE LockWriter(j)
      BY <3>1 DEF LockWriter
    <3>2. CASE Release(j)
      BY <3>2 DEF Release, Goto, Locked, Inside
    <3>3. CASE ~LockWriter(j) /\ ~Release(j)
      BY <1>4, <3>3
         DEF Run, PredecessorDone, CheckMaintenance, RetryWriter, TakeWorker,
             BeginSnapshot, CopyState, GiveUp, repoVars
    <3> QED
      BY <3>1, <3>2, <3>3
  <2>5. \A k \in JobIds \ {j} :
           Succeeds(k) => writer'[RepoOf(k)] = writer[RepoOf(k)]
    BY <2>4 DEF Serving, Succeeds, RepoKnown, TypeOK
  <2>6. \A q \in Repos : upstream'[q] \in Nat /\ upstream[q] <= upstream'[q]
    BY <1>1 DEF TypeOK
  <2>7. \A k \in JobIds :
           Succeeds(k)' => /\ Succeeds(k)
                           /\ writer'[RepoOf(k)] = writer[RepoOf(k)]
                           /\ RepoOf(k)' = RepoOf(k)
                           /\ job'[k].snap = job[k].snap
    BY <1>1, <2>2, <2>3, <2>5
  <2> QED
    BY <2>1, <2>6, <2>7, ServingKept
<1> QED
  BY <1>2, <1>3, <1>4

(* Every step keeps what answers are worth.                                *)
LEMMA ServingNext ==
  ASSUME IInv, Serving, [Next]_vars
  PROVE  Serving'
<1> USE JobsAssumption
<1>0. TypeOK /\ RepoKnown /\ FlagsAgree /\ Locked
  BY DEF IInv
<1>1. ASSUME UNCHANGED served,
             \A q \in Repos : upstream'[q] \in Nat /\ upstream[q] <= upstream'[q],
             \A k \in JobIds :
                pc'[k] \in {"work", "finish"}
                   => /\ pc'[k] = pc[k] /\ job'[k].repo = job[k].repo
                      /\ job'[k].snap = job[k].snap
                      /\ job'[k].failed = job[k].failed,
             \A k \in JobIds :
                Succeeds(k) => writer'[RepoOf(k)] = writer[RepoOf(k)]
      PROVE  Serving'
  <2>1. \A k \in JobIds :
           Succeeds(k)' => /\ Succeeds(k)
                           /\ writer'[RepoOf(k)] = writer[RepoOf(k)]
                           /\ RepoOf(k)' = RepoOf(k)
                           /\ job'[k].snap = job[k].snap
    BY <1>1 DEF Succeeds, RepoOf
  <2> QED
    BY <1>0, <1>1, <2>1, ServingKept
<1>2. \A q \in Repos : upstream[q] \in Nat /\ upstream[q] <= upstream[q]
  BY <1>0 DEF TypeOK
<1>3. ASSUME NEW r \in Repos, Join(r) PROVE Serving'
  <2>1. UNCHANGED <<served, upstream, writer, pc>>
    BY <1>3 DEF Join, repoVars
  <2>2. \A k \in JobIds : /\ job'[k].repo = job[k].repo
                          /\ job'[k].snap = job[k].snap
                          /\ job'[k].failed = job[k].failed
    BY <1>0, <1>3 DEF Join, TypeOK, JobType
  <2> QED
    BY <1>1, <1>2, <2>1, <2>2
<1>4. ASSUME NEW r \in Repos, NEW j \in JobIds, AdmitNew(r, j) PROVE Serving'
  <2>1. /\ UNCHANGED <<served, upstream, writer>>
        /\ \A k \in JobIds \ {j} : pc'[k] = pc[k] /\ job'[k] = job[k]
        /\ pc'[j] = "pred"
    BY <1>0, <1>4 DEF AdmitNew, TypeOK
  <2> QED
    BY <1>1, <1>2, <2>1
<1>5. ASSUME NEW j \in JobIds, Run(j) PROVE Serving'
  BY <1>0, <1>5, ServingRun
<1>6. ASSUME NEW r \in Repos, Maintain(r) PROVE Serving'
  <2>1. UNCHANGED <<served, upstream, pc, job>>
    BY <1>6 DEF Maintain
  <2>2. \/ writer' = writer
        \/ /\ writer[r] \in {None, Maintainer}
           /\ \E w \in {None, Maintainer} : writer' = [writer EXCEPT ![r] = w]
    BY <1>0, <1>6 DEF Maintain, MaintStart, MaintDrain, MaintLock, MaintWork,
                      MaintClear, MaintStep, Locked
  <2>3. \A k \in JobIds : Succeeds(k) => writer'[RepoOf(k)] = writer[RepoOf(k)]
    BY <1>0, <2>2 DEF Serving, Succeeds, RepoKnown, TypeOK
  <2> QED
    BY <1>1, <1>2, <2>1, <2>3
<1>7. ASSUME NEW r \in Repos, BackoffElapses(r) PROVE Serving'
  BY <1>1, <1>2, <1>7 DEF BackoffElapses
<1>8. ASSUME NEW r \in Repos, Push(r) PROVE Serving'
  <2>1. \A q \in Repos : upstream'[q] \in Nat /\ upstream[q] <= upstream'[q]
    BY <1>0, <1>8 DEF Push, TypeOK
  <2> QED
    BY <1>1, <1>8, <2>1 DEF Push, repoVars
<1>9. ASSUME NEW j \in JobIds, Expire(j) PROVE Serving'
  <2>1. /\ UNCHANGED <<served, upstream, writer, pc>>
        /\ \A k \in JobIds : pc[k] # "gone" => job'[k] = job[k]
    BY <1>0, <1>9 DEF Expire, Forget, repoVars, TypeOK
  <2> QED
    BY <1>1, <1>2, <2>1
<1>10. CASE UNCHANGED vars
  BY <1>1, <1>2, <1>10 DEF vars, repoVars
<1> QED
  BY <1>3, <1>4, <1>5, <1>6, <1>7, <1>8, <1>9, <1>10 DEF Next

-----------------------------------------------------------------------------
(* A job is forgotten when it is done and late, whichever comes last.      *)
LEMMA CleanNext ==
  ASSUME TypeOK, SlotsHold, Clean, [Next]_vars
  PROVE  Clean'
<1>1. ASSUME UNCHANGED <<pc, late, job>> PROVE Clean'
  BY <1>1 DEF Clean, Forgotten
<1>2. ASSUME NEW r \in Repos, Join(r) PROVE Clean'
  <2> DEFINE j == IF JoinsActive(r) THEN active[r] ELSE next[r]
  <2>1. j \in JobIds /\ pc[j] # "gone"
    BY <1>2, JobsAssumption
       DEF Join, JoinsActive, JoinsNext, TypeOK, SlotsHold, Open, Unfinished
  <2>2. job' = [job EXCEPT ![j].asked = upstream[r]] /\ UNCHANGED <<pc, late>>
    BY <1>2 DEF Join, repoVars
  <2> QED
    BY <2>1, <2>2 DEF Clean, Forgotten, TypeOK
<1>3. ASSUME NEW r \in Repos, NEW j \in JobIds, AdmitNew(r, j) PROVE Clean'
  BY <1>3 DEF AdmitNew, Clean, Forgotten, TypeOK
<1>4. ASSUME NEW j \in JobIds, Run(j) PROVE Clean'
  <2>1. /\ \A k \in JobIds \ {j} : pc'[k] = pc[k] /\ job'[k] = job[k]
        /\ late' = late
    BY <1>4, RunFrame
  <2>2. pc'[j] = "gone" /\ late[j] => job'[j] = NoJob
    BY <1>4 DEF Run, PredecessorDone, CheckMaintenance, LockWriter, RetryWriter,
                TakeWorker, BeginSnapshot, Observe, Work, CopyState, Finish,
                Release, GiveUp, Goto, Forget, TypeOK
  <2> QED
    BY <2>1, <2>2 DEF Clean, Forgotten
<1>5. ASSUME NEW r \in Repos, Maintain(r) \/ BackoffElapses(r) \/ Push(r)
      PROVE  Clean'
  BY <1>1, <1>5 DEF Maintain, BackoffElapses, Push, repoVars
<1>6. ASSUME NEW j \in JobIds, Expire(j) PROVE Clean'
  BY <1>6 DEF Expire, Forget, Clean, Forgotten, TypeOK
<1>7. CASE UNCHANGED vars
  BY <1>1, <1>7 DEF vars
<1> QED
  BY <1>2, <1>3, <1>4, <1>5, <1>6, <1>7 DEF Next

(* Only admit() opens a job, one at a time.                                *)
LEMMA OpenFiniteNext ==
  ASSUME TypeOK, OpenFinite, [Next]_vars
  PROVE  OpenFinite'
<1>1. ASSUME NEW r \in Repos, NEW j \in JobIds, AdmitNew(r, j)
      PROVE  OpenJobs' \subseteq OpenJobs \cup {j}
  BY <1>1 DEF AdmitNew, OpenJobs, Open, TypeOK
<1>2. ASSUME NEW j \in JobIds, Run(j) PROVE OpenJobs' \subseteq OpenJobs
  <2>1. \A k \in JobIds \ {j} : pc'[k] = pc[k]
    BY <1>2, RunFrame
  <2>2. Open(j)' => Open(j)
    BY <1>2 DEF Run, PredecessorDone, CheckMaintenance, LockWriter, RetryWriter,
                TakeWorker, BeginSnapshot, Observe, Work, CopyState, Finish,
                Release, GiveUp, Goto, TypeOK, Open, Unfinished
  <2> QED
    BY <2>1, <2>2 DEF OpenJobs, Open
<1>3. ASSUME UNCHANGED pc PROVE OpenJobs' \subseteq OpenJobs
  BY <1>3 DEF OpenJobs, Open
<1>4. CASE \E r \in Repos : \/ Join(r) \/ Maintain(r) \/ BackoffElapses(r)
                            \/ Push(r)
  BY <1>3, <1>4, FS_Subset
     DEF Join, Maintain, BackoffElapses, Push, repoVars, OpenFinite
<1>5. CASE \E j \in JobIds : Expire(j)
  BY <1>3, <1>5, FS_Subset DEF Expire, OpenFinite
<1>6. CASE UNCHANGED vars
  BY <1>3, <1>6, FS_Subset DEF vars, OpenFinite
<1>7. CASE \E j \in JobIds : Run(j)
  BY <1>2, <1>7, FS_Subset DEF OpenFinite
<1>8. ASSUME NEW r \in Repos, NEW j \in JobIds, AdmitNew(r, j)
      PROVE  OpenFinite'
  <2>1. IsFiniteSet(OpenJobs \cup {j})
    BY FS_AddElement DEF OpenFinite
  <2> QED
    BY <1>1, <1>8, <2>1, FS_Subset DEF OpenFinite
<1> QED
  BY <1>4, <1>5, <1>6, <1>7, <1>8 DEF Next

(* The strengthened invariant holds in every reachable state.              *)
LEMMA AnswersInvariant == Spec => [](IInv /\ RInv)
<1>1. Init => RInv
  <2> SUFFICES ASSUME Init PROVE RInv
    OBVIOUS
  <2>1. \A j \in JobIds : pc[j] = "gone" /\ job[j] = NoJob
    BY DEF Init
  <2>2. OpenJobs = {}
    BY <2>1 DEF OpenJobs, Open, Unfinished
  <2>3. Serving /\ Clean
    BY <2>1 DEF Init, Serving, Succeeds, Clean
  <2> QED
    BY <2>2, <2>3, FS_EmptySet DEF RInv, OpenFinite
<1>2. IInv /\ RInv /\ [Next]_vars => RInv'
  BY ServingNext, CleanNext, OpenFiniteNext DEF RInv, IInv
<1> QED
  BY <1>1, <1>2, InitInvariant, NextInvariant, PTL DEF Spec

-----------------------------------------------------------------------------
(* The operations a host sees, and what the steps do to them.              *)
OpsSeen == [j \in JobIds |-> Operation(j)]

(* A job nothing happened to looks the same.                               *)
LEMMA OperationKept ==
  ASSUME NEW k \in JobIds, pc'[k] = pc[k], job'[k] = job[k], late'[k] = late[k]
  PROVE  Operation(k)' = Operation(k)
  BY DEF Operation, Open, Forgotten

(* While a job is open, only its requests show.                            *)
LEMMA OperationOpen ==
  ASSUME NEW k \in JobIds, Open(k), Open(k)',
         job'[k].repo = job[k].repo, job'[k].population = job[k].population,
         job'[k].asked = job[k].asked
  PROVE  Operation(k)' = Operation(k)
  BY DEF Operation

(* If every job looks the same, nothing changed for the hosts.             *)
LEMMA OpsSame ==
  ASSUME \A k \in JobIds : Operation(k)' = Operation(k)
  PROVE  OpsSeen' = OpsSeen
  BY DEF OpsSeen

(* One job looks different.                                                *)
LEMMA OpsChanged ==
  ASSUME NEW j \in JobIds, NEW o,
         \A k \in JobIds \ {j} : Operation(k)' = Operation(k),
         Operation(j)' = o
  PROVE  OpsSeen' = [OpsSeen EXCEPT ![j] = o]
  BY DEF OpsSeen

(* A forgotten job is an identifier no operation uses.                     *)
LEMMA ForgottenUnused ==
  ASSUME NEW k \in JobIds, Forgotten(k), job[k] = NoJob
  PROVE  Operation(k) = Answers!Unused
  BY DEF Operation, Open, Unfinished, Forgotten, NoJob, Answers!Unused

(* The scheduler starts as the abstract specification does.                *)
LEMMA InitSimulates ==
  ASSUME Init
  PROVE  Answers!Init
<1>1. \A k \in JobIds : Forgotten(k) /\ job[k] = NoJob
  BY DEF Init, Forgotten
<1>2. \A k \in JobIds : Operation(k) = Answers!Unused
  BY <1>1, ForgottenUnused
<1> QED
  BY <1>2 DEF Init, Answers!Init

(* Joining an open job is joining its operation.                           *)
LEMMA JoinSimulates ==
  ASSUME IInv, NEW r \in Repos, Join(r)
  PROVE  Answers!Next
<1> USE JobsAssumption
<1>1. TypeOK /\ SlotsHold
  BY DEF IInv
<1>2. PICK j \in JobIds : /\ RepoOf(j) = r /\ Open(j)
                          /\ job' = [job EXCEPT ![j].asked = upstream[r]]
  <2> DEFINE k == IF JoinsActive(r) THEN active[r] ELSE next[r]
  <2>1. k \in JobIds /\ RepoOf(k) = r /\ Open(k)
    BY <1>1 DEF Join, JoinsActive, JoinsNext, TypeOK, SlotsHold, Open, Unfinished
  <2>2. job' = [job EXCEPT ![k].asked = upstream[r]]
    BY DEF Join
  <2> HIDE DEF k
  <2> QED
    BY <2>1, <2>2
<1>3. UNCHANGED <<pc, late, upstream, published, served>>
  BY DEF Join, repoVars
<1>4. \A k \in JobIds \ {j} : Operation(k)' = Operation(k)
  BY <1>1, <1>2, <1>3, OperationKept DEF TypeOK
<1>5. Operation(j)' = [Operation(j) EXCEPT !.asked = upstream[r]]
  <2>1. /\ Open(j)' /\ job'[j].repo = job[j].repo
        /\ job'[j].population = job[j].population
        /\ job'[j].asked = upstream[r]
    BY <1>1, <1>2, <1>3 DEF TypeOK, JobType, Open
  <2> QED
    BY <1>2, <2>1 DEF Operation
<1>6. OpsSeen' = [OpsSeen EXCEPT ![j] = [Operation(j) EXCEPT !.asked = upstream[r]]]
  <2> DEFINE o == [Operation(j) EXCEPT !.asked = upstream[r]]
  <2>1. Operation(j)' = o
    BY <1>5
  <2> HIDE DEF o
  <2>2. OpsSeen' = [OpsSeen EXCEPT ![j] = o]
    BY <1>2, <1>4, <2>1, OpsChanged
  <2> QED
    BY <2>2 DEF o
<1>7. OpsSeen[j] = Operation(j) /\ Operation(j).at = "open" /\ Operation(j).repo = r
  BY <1>2 DEF OpsSeen, Operation, RepoOf
<1>8. OpsSeen' = [OpsSeen EXCEPT ![j].asked = upstream[OpsSeen[j].repo]]
  BY <1>6, <1>7
<1>9. Answers!Join(j)
  BY <1>3, <1>7, <1>8 DEF Answers!Join, OpsSeen
<1> QED
  BY <1>2, <1>9 DEF Answers!Next

(* The open jobs of a repository are its active one and the next.          *)
LEMMA OpenOfSlots ==
  ASSUME NEW r \in Repos
  PROVE  /\ Answers!OpenOps = OpenJobs
         /\ Answers!OpenOf(r) = {k \in OpenJobs : RepoOf(k) = r}
<1>1. \A k \in JobIds : /\ Operation(k).at = "open" <=> Open(k)
                        /\ Operation(k).repo = RepoOf(k)
  BY DEF Operation, RepoOf
<1>2. Answers!OpenOps = OpenJobs
  BY <1>1 DEF Answers!OpenOps, OpenJobs
<1> QED
  BY <1>1, <1>2 DEF Answers!OpenOf, OpenJobs

(* admit() opens an operation within the limits.                           *)
LEMMA AdmitSimulates ==
  ASSUME IInv, Clean, OpenFinite, NEW r \in Repos, NEW j \in JobIds,
         AdmitNew(r, j)
  PROVE  Answers!Next
<1> USE JobsAssumption
<1>1. TypeOK /\ SlotsHold /\ OpenJobsHaveSlots /\ Populating
  BY DEF IInv
<1>2. Operation(j) = Answers!Unused
  BY ForgottenUnused DEF AdmitNew, Clean
<1>3. Cardinality(Answers!OpenOps) < Queue + Workers
  <2>1. Cardinality(OpenJobs) \in Nat
    BY FS_CardinalityType DEF OpenFinite
  <2> QED
    BY <2>1, OpenOfSlots DEF AdmitNew, QueueFull
<1>4. \A k \in Answers!OpenOf(r) : k = active[r]
  <2>1. next[r] = None
    BY <1>1 DEF AdmitNew, JoinsNext, SlotsHold
  <2> QED
    BY <1>1, <2>1, OpenOfSlots DEF OpenJobs, OpenJobsHaveSlots
<1>5. published[r] \/ Answers!OpenOf(r) = {}
  <2> SUFFICES ASSUME ~published[r], NEW k \in Answers!OpenOf(r) PROVE FALSE
    OBVIOUS
  <2>1. k \in JobIds /\ Open(k) /\ RepoOf(k) = r /\ active[r] = k
    BY <1>4, OpenOfSlots DEF OpenJobs
  <2>2. job[k].population
    BY <1>1, <2>1 DEF Populating
  <2> QED
    BY <2>1, <2>2 DEF AdmitNew, JoinsActive
<1> DEFINE New(p) == [at |-> "open", repo |-> r, population |-> p,
                      asked |-> upstream[r], seen |-> 0]
           o == New(~published[r])
<1>6. OpsSeen' = [OpsSeen EXCEPT ![j] = o]
  <2>1. \A k \in JobIds \ {j} : Operation(k)' = Operation(k)
    BY <1>1, OperationKept DEF AdmitNew, TypeOK
  <2>2. /\ Open(j)' /\ job'[j].repo = r /\ job'[j].asked = upstream[r]
        /\ job'[j].population = ~published[r]
    BY <1>1 DEF AdmitNew, TypeOK, Open, Unfinished, NoJob
  <2>3. Operation(j)' = New(job'[j].population)
    BY <2>2 DEF Operation
  <2> HIDE DEF New
  <2>4. Operation(j)' = o
    BY <2>2, <2>3, Zenon
  <2> HIDE DEF o
  <2> QED
    BY <2>1, <2>4, OpsChanged
<1>7. Answers!Ask(r, j)
  <2>1. UNCHANGED <<upstream, published, served>>
    BY DEF AdmitNew
  <2> QED
    BY <1>2, <1>3, <1>4, <1>5, <1>6, <2>1
       DEF Answers!Ask, OpsSeen, Answers!Cardinality, Cardinality
<1> QED
  BY <1>7 DEF Answers!Next

(* If every job looks the same and nothing was published or pushed, the    *)
(* step does not show.                                                     *)
LEMMA NothingShows ==
  ASSUME UNCHANGED <<upstream, published, served>>,
         \A k \in JobIds : Operation(k)' = Operation(k)
  PROVE  UNCHANGED Answers!vars
<1>1. OpsSeen' = OpsSeen
  BY OpsSame
<1> QED
  BY <1>1 DEF OpsSeen, Answers!vars

(* Waiting, locking and looking at the upstream do not show.               *)
LEMMA QuietRun ==
  ASSUME TypeOK, NEW j \in JobIds, Run(j), ~Finish(j), ~Release(j)
  PROVE  UNCHANGED Answers!vars
<1>1. /\ \A k \in JobIds \ {j} : pc'[k] = pc[k] /\ job'[k] = job[k]
      /\ pc'[j] # "gone" => /\ job'[j].repo = job[j].repo
                            /\ job'[j].population = job[j].population
                            /\ job'[j].asked = job[j].asked
      /\ late' = late /\ upstream' = upstream
  BY RunFrame
<1>2. Open(j) /\ Open(j)' /\ pc'[j] # "gone"
  BY DEF Run, PredecessorDone, CheckMaintenance, LockWriter, RetryWriter,
         TakeWorker, BeginSnapshot, Observe, Work, CopyState, GiveUp, Goto,
         TypeOK, Open, Unfinished
<1>3. UNCHANGED <<published, served>>
  BY DEF Run, PredecessorDone, CheckMaintenance, LockWriter, RetryWriter,
         TakeWorker, BeginSnapshot, Observe, Work, CopyState, GiveUp, repoVars
<1>4. Operation(j)' = Operation(j)
  BY <1>1, <1>2, OperationOpen
<1>5. \A k \in JobIds \ {j} : Operation(k)' = Operation(k)
  BY <1>1, OperationKept
<1> QED
  BY <1>1, <1>3, <1>4, <1>5, NothingShows

(* A job that closes its done channel with an error fails its operation.   *)
LEMMA FailSimulates ==
  ASSUME TypeOK, NEW j \in JobIds, Finish(j), job[j].failed,
         UNCHANGED <<late, upstream>>
  PROVE  Answers!Next
<1> DEFINE o == [Operation(j) EXCEPT !.at = "failed"]
<1>1. /\ Open(j) /\ ~Open(j)' /\ UNCHANGED <<published, served>>
  BY DEF Finish, Goto, TypeOK, Open, Unfinished
<1>2. \A k \in JobIds \ {j} : Operation(k)' = Operation(k)
  BY OperationKept DEF Finish, Goto, Forget, TypeOK
<1>3. OpsSeen[j] = Operation(j) /\ Operation(j).at = "open"
  BY <1>1 DEF OpsSeen, Operation
<1>4. Operation(j)' = o \/ Operation(j)' = Answers!Unused
  <2>1. CASE job' = job /\ ~Forgotten(j)'
    BY <1>1, <2>1 DEF Operation
  <2>2. CASE job' = Forget(j) /\ Forgotten(j)'
    <3>1. job'[j] = NoJob
      BY <2>2 DEF Forget, TypeOK
    <3> QED
      BY <1>1, <2>2, <3>1 DEF Operation, NoJob, Answers!Unused
  <2> QED
    BY <2>1, <2>2 DEF Finish, Goto, Forgotten, TypeOK
<1>5. OpsSeen' = [OpsSeen EXCEPT ![j] = o] \/ OpsSeen' = [OpsSeen EXCEPT ![j] = Answers!Unused]
  <2> HIDE DEF o
  <2> QED
    BY <1>2, <1>4, OpsChanged
<1>6. OpsSeen' = [OpsSeen EXCEPT ![j].at = "failed"]
      \/ OpsSeen' = [OpsSeen EXCEPT ![j] = Answers!Unused]
  BY <1>3, <1>5
<1>7. Answers!Fail(j)
  BY <1>1, <1>3, <1>6 DEF Answers!Fail, OpsSeen
<1> QED
  BY <1>7 DEF Answers!Next

Shows(j, at, seen) ==
    [at |-> at, repo |-> job[j].repo, population |-> job[j].population,
     asked |-> job[j].asked, seen |-> seen]

(* Recording an answer touches two fields of an operation.                 *)
LEMMA AnswerRecorded ==
  ASSUME NEW j \in JobIds, NEW v, OpsSeen[j] = Shows(j, "open", 0)
  PROVE  [OpsSeen EXCEPT ![j].at = "answered", ![j].seen = v]
         = [OpsSeen EXCEPT ![j] = Shows(j, "answered", v)]
<1> DEFINE mid == [OpsSeen EXCEPT ![j].at = "answered"]
<1>1. [OpsSeen[j] EXCEPT !.at = "answered"] = Shows(j, "answered", 0)
  BY DEF Shows
<1>2. mid = [OpsSeen EXCEPT ![j] = [OpsSeen[j] EXCEPT !.at = "answered"]]
  OBVIOUS
<1>3. mid[j] = Shows(j, "answered", 0)
  BY <1>1, <1>2 DEF OpsSeen
<1>4. /\ mid = [k \in JobIds |-> mid[k]]
      /\ \A k \in JobIds \ {j} : mid[k] = OpsSeen[k]
  BY DEF OpsSeen
<1> HIDE DEF mid
<1>5. [mid EXCEPT ![j].seen = v] = [mid EXCEPT ![j] = [mid[j] EXCEPT !.seen = v]]
  OBVIOUS
<1>6. [mid[j] EXCEPT !.seen = v] = Shows(j, "answered", v)
  <2> DEFINE m == mid[j]
  <2>1. m = Shows(j, "answered", 0)
    BY <1>3
  <2> HIDE DEF m
  <2>2. [m EXCEPT !.seen = v] = Shows(j, "answered", v)
    BY <2>1 DEF Shows
  <2> QED
    BY <2>2 DEF m
<1>7. [mid EXCEPT ![j] = Shows(j, "answered", v)]
         = [OpsSeen EXCEPT ![j] = Shows(j, "answered", v)]
  BY <1>4 DEF OpsSeen
<1> QED
  BY <1>5, <1>6, <1>7 DEF mid

(* One that succeeds answers with what its snapshot found: at least as new *)
(* as its last request and as the last answer.                             *)
LEMMA AnswerSimulates ==
  ASSUME TypeOK, RepoKnown, Fresh, Serving, NEW j \in JobIds, Finish(j),
         ~job[j].failed, UNCHANGED <<late, upstream>>
  PROVE  Answers!Next
<1> DEFINE r == RepoOf(j)
           v == job[j].snap
<1>1. /\ pc[j] = "finish" /\ r \in Repos
  BY DEF Finish, Goto, RepoKnown
<1>2. writer[r] = j /\ served[r] <= v /\ v <= upstream[r]
  BY <1>1 DEF Serving, Succeeds
<1>3. v \in served[r] .. upstream[r]
  BY <1>1, <1>2 DEF TypeOK, JobType
<1>4. job[j].population \/ job[j].asked <= v
  BY <1>1 DEF Fresh
<1>5. /\ pc'[j] = "release" /\ job' = job
      /\ published' = [published EXCEPT ![r] = TRUE]
      /\ served' = [served EXCEPT ![r] = v]
  BY <1>1, <1>2 DEF Finish, Goto, TypeOK
<1>6. Open(j) /\ ~Open(j)' /\ ~Forgotten(j)'
  BY <1>1, <1>5 DEF Open, Unfinished, Forgotten
<1>7. Operation(j) = Shows(j, "open", 0) /\ Operation(j)' = Shows(j, "answered", v)
  <2>1. job'[j] = job[j] /\ ~job'[j].failed
    BY <1>5
  <2> QED
    BY <1>6, <2>1 DEF Operation, Shows
<1>8. \A k \in JobIds \ {j} : Operation(k)' = Operation(k)
  BY <1>5, OperationKept DEF Finish, Goto, TypeOK
<1>9. OpsSeen[j] = Operation(j) /\ Operation(j).at = "open" /\ Operation(j).repo = r
      /\ Operation(j).population = job[j].population
      /\ Operation(j).asked = job[j].asked
  BY <1>6 DEF OpsSeen, Operation, RepoOf
<1>10. OpsSeen' = [OpsSeen EXCEPT ![j] = Shows(j, "answered", v)]
  BY <1>7, <1>8, OpsChanged
<1>11. OpsSeen' = [OpsSeen EXCEPT ![j].at = "answered", ![j].seen = v]
  BY <1>7, <1>9, <1>10, AnswerRecorded
<1>12. Answers!Answer(j)
  <2> HIDE DEF r, v
  <2> QED
    BY <1>3, <1>4, <1>5, <1>9, <1>11 DEF Answers!Answer, OpsSeen
<1> QED
  BY <1>12 DEF Answers!Next

(* A goroutine that ends is forgotten if it is late, and else shows        *)
(* nothing.                                                                *)
LEMMA ReleaseSimulates ==
  ASSUME TypeOK, NEW j \in JobIds, Release(j), UNCHANGED <<late, upstream>>
  PROVE  [Answers!Next]_(Answers!vars)
<1>1. /\ ~Open(j) /\ ~Open(j)' /\ ~Forgotten(j) /\ UNCHANGED <<published, served>>
      /\ pc'[j] = "gone"
  BY DEF Release, Goto, TypeOK, Open, Unfinished, Forgotten
<1>2. \A k \in JobIds \ {j} : Operation(k)' = Operation(k)
  BY OperationKept DEF Release, Goto, Forget, TypeOK
<1>3. CASE late[j]
  <2>1. Forgotten(j)' /\ job'[j] = NoJob
    BY <1>1, <1>3 DEF Release, Forgotten, Forget, TypeOK
  <2>2. Operation(j)' = Answers!Unused
    BY <1>1, <2>1 DEF Operation, NoJob, Answers!Unused
  <2>3. OpsSeen' = [OpsSeen EXCEPT ![j] = Answers!Unused]
    BY <1>2, <2>2, OpsChanged
  <2>4. OpsSeen[j].at \in {"answered", "failed"}
    BY <1>1 DEF OpsSeen, Operation
  <2>5. Answers!Drop(j)
    BY <1>1, <2>3, <2>4 DEF Answers!Drop, OpsSeen
  <2> QED
    BY <2>5 DEF Answers!Next
<1>4. CASE ~late[j]
  <2>1. job' = job /\ ~Forgotten(j)'
    BY <1>4 DEF Release, Forgotten
  <2>2. Operation(j)' = Operation(j)
    BY <1>1, <2>1 DEF Operation
  <2> QED
    BY <1>1, <1>2, <2>2, NothingShows
<1> QED
  BY <1>3, <1>4

(* A deadline shows when the job is already done: it is forgotten.         *)
LEMMA ExpireSimulates ==
  ASSUME TypeOK, NEW j \in JobIds, Expire(j)
  PROVE  [Answers!Next]_(Answers!vars)
<1>1. /\ ~Forgotten(j) /\ UNCHANGED <<pc, published, served, upstream>>
      /\ late'[j]
  BY DEF Expire, Forgotten, repoVars, TypeOK
<1>2. \A k \in JobIds \ {j} : Operation(k)' = Operation(k)
  BY OperationKept DEF Expire, Forget, TypeOK, repoVars
<1>3. CASE pc[j] = "gone"
  <2>1. /\ ~Open(j) /\ ~Open(j)' /\ Forgotten(j)' /\ job'[j] = NoJob
    BY <1>1, <1>3 DEF Expire, Open, Unfinished, Forgotten, Forget, TypeOK
  <2>2. Operation(j)' = Answers!Unused
    BY <2>1 DEF Operation, NoJob, Answers!Unused
  <2>3. OpsSeen' = [OpsSeen EXCEPT ![j] = Answers!Unused]
    BY <1>2, <2>2, OpsChanged
  <2>4. OpsSeen[j].at \in {"answered", "failed"}
    BY <1>1, <2>1 DEF OpsSeen, Operation
  <2>5. Answers!Drop(j)
    BY <1>1, <2>3, <2>4 DEF Answers!Drop, OpsSeen
  <2> QED
    BY <2>5 DEF Answers!Next
<1>4. CASE pc[j] # "gone"
  <2>1. job' = job /\ ~Forgotten(j)' /\ Open(j)' = Open(j)
    BY <1>1, <1>4 DEF Expire, Forgotten, Open
  <2>2. Operation(j)' = Operation(j)
    BY <1>1, <2>1 DEF Operation
  <2> QED
    BY <1>1, <1>2, <2>2, NothingShows
<1> QED
  BY <1>3, <1>4

-----------------------------------------------------------------------------
(* Every step of the scheduler is a step of the promise, or shows nothing. *)
LEMMA NextSimulates ==
  ASSUME IInv, RInv, [Next]_vars
  PROVE  [Answers!Next]_(Answers!vars)
<1>0. TypeOK /\ RepoKnown /\ Fresh /\ Serving /\ Clean /\ OpenFinite
  BY DEF IInv, RInv
<1>1. ASSUME UNCHANGED <<pc, late, job, upstream, published, served>>
      PROVE  UNCHANGED Answers!vars
  BY <1>1, OperationKept, NothingShows
<1>2. ASSUME NEW r \in Repos, Join(r) PROVE Answers!Next
  BY <1>2, JoinSimulates
<1>3. ASSUME NEW r \in Repos, NEW j \in JobIds, AdmitNew(r, j)
      PROVE  Answers!Next
  BY <1>0, <1>3, AdmitSimulates
<1>4. ASSUME NEW j \in JobIds, Run(j) PROVE [Answers!Next]_(Answers!vars)
  <2>1. UNCHANGED <<late, upstream>>
    BY <1>0, <1>4, RunFrame
  <2>2. CASE Finish(j)
    BY <1>0, <2>1, <2>2, FailSimulates, AnswerSimulates
  <2>3. CASE Release(j)
    BY <1>0, <2>1, <2>3, ReleaseSimulates
  <2>4. CASE ~Finish(j) /\ ~Release(j)
    BY <1>0, <1>4, <2>4, QuietRun
  <2> QED
    BY <2>2, <2>3, <2>4
<1>5. ASSUME NEW r \in Repos, Push(r) PROVE Answers!Next
  <2>1. \A k \in JobIds : Operation(k)' = Operation(k)
    BY <1>5, OperationKept DEF Push
  <2>2. OpsSeen' = OpsSeen
    BY <2>1, OpsSame
  <2>3. Answers!Push(r)
    BY <1>5, <2>2 DEF Push, repoVars, Answers!Push, OpsSeen
  <2> QED
    BY <2>3 DEF Answers!Next
<1>6. ASSUME NEW r \in Repos, Maintain(r) \/ BackoffElapses(r)
      PROVE  UNCHANGED Answers!vars
  BY <1>1, <1>6 DEF Maintain, BackoffElapses
<1>7. ASSUME NEW j \in JobIds, Expire(j) PROVE [Answers!Next]_(Answers!vars)
  BY <1>0, <1>7, ExpireSimulates
<1>8. CASE UNCHANGED vars
  BY <1>1, <1>8 DEF vars, repoVars
<1> QED
  BY <1>2, <1>3, <1>4, <1>5, <1>6, <1>7, <1>8 DEF Next

(* Hosts get what MirrorAnswers promises them: an answer is never older    *)
(* than the request or an earlier answer, and the mirror never has more    *)
(* under way than it may.                                                  *)
THEOREM Implementation == Spec => ImplementsAnswers
<1>1. Init => Answers!Init
  BY InitSimulates
<1>2. IInv /\ RInv /\ [Next]_vars => [Answers!Next]_(Answers!vars)
  BY NextSimulates
<1> QED
  BY <1>1, <1>2, AnswersInvariant, PTL DEF Spec, ImplementsAnswers, Answers!Spec
=============================================================================
