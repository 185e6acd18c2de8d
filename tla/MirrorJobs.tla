----------------------------- MODULE MirrorJobs -----------------------------
(***************************************************************************)
(* The job scheduler of the caching proxy's Git mirror worker              *)
(* (test/extension/caching-proxy-service/gitmirror_coordinator.go).        *)
(*                                                                         *)
(* Hosts ask the worker to resolve a ref.  admit() answers a request with  *)
(* a refresh job of the repository: the active one, the one queued behind  *)
(* it, or a new one.  Each job is a goroutine, run(): it waits for its     *)
(* predecessor, the repository's writer lock and a worker slot, takes a    *)
(* snapshot of the upstream refs, does the work and records the outcome.   *)
(* Weekly maintenance of a repository takes the same writer lock.          *)
(*                                                                         *)
(* Data are abstracted to what scheduling decides: the upstream state of a *)
(* repository is a version number, and a job carries the version its       *)
(* snapshot saw.  What a refresh does to the repository is MirrorStore.    *)
(***************************************************************************)
EXTENDS Integers, FiniteSets

CONSTANTS
    Repos,        \* the registered repositories
    JobIds,       \* job identifiers; a forgotten job's one is used again
    None,         \* no job
    Maintainer,   \* the maintenance goroutine as holder of a writer lock
    Workers,      \* Limits.Workers: refreshes that may run at once
    Queue,        \* Limits.Queue: jobs that may wait beyond the workers
    MaxUpstream   \* bound: [Repos -> how often its upstream changes]

ASSUME JobsAssumption ==
    /\ None \notin JobIds /\ None \notin Repos
    /\ Maintainer \notin JobIds
    /\ Maintainer # None
    /\ Workers \in Nat \ {0}
    /\ Queue \in Nat \ {0}
    /\ MaxUpstream \in [Repos -> Nat]

VARIABLES
    active,       \* [Repos -> job or None]: mirrorRepository.active
    next,         \* [Repos -> job or None]: mirrorRepository.next
    published,    \* [Repos -> BOOLEAN]: mirrorRepository.published
    backoff,      \* [Repos -> BOOLEAN]: now is before mirrorRepository.retryAt
    writer,       \* [Repos -> job, Maintainer or None]: who holds .writer
    mpc,          \* [Repos -> where maintain() is], "off" iff ~.maintenance
    slots,        \* the jobs holding an element of the workers channel
    stored,       \* [Repos -> version]: mirrorRepository.state
    served,       \* [Repos -> version]: of the last successful refresh
    pc,           \* [JobIds -> where run() is]
    late,         \* [JobIds -> BOOLEAN]: deadline passed, context cancelled
    pred,         \* [JobIds -> the job whose done channel is still awaited]
    job,          \* [JobIds -> the rest of a mirrorJob: see JobType]
    upstream      \* [Repos -> version of the upstream repository]

repoVars == <<active, next, published, backoff, writer, mpc, slots, stored, served>>
vars     == <<repoVars, pc, late, pred, job, upstream>>

-----------------------------------------------------------------------------
(* A goroutine ends at "gone"; its done channel closes when it leaves      *)
(* "finish" for "release" or "gone".                                       *)
Unfinished == {"pred", "flag", "lock", "worker", "begin", "observe", "work",
               "copy", "finish"}
PCs  == Unfinished \cup {"release", "gone"}
MPCs == {"off", "drain", "lock", "work", "clear"}

(* repo and population: what admit() fixed; started: snapshotStarted;      *)
(* failed: err is not nil; base: the version of the repository's state it   *)
(* copied; snap: the upstream version its snapshot saw; asked: the         *)
(* upstream version when a request last joined it.                         *)
JobType == [repo : Repos \cup {None}, population : BOOLEAN,
            started : BOOLEAN, failed : BOOLEAN, base : Nat, snap : Nat,
            asked : Nat]
NoJob   == [repo |-> None, population |-> FALSE, started |-> FALSE,
            failed |-> FALSE, base |-> 0, snap |-> 0, asked |-> 0]

RepoOf(j)    == job[j].repo
Open(j)      == pc[j] \in Unfinished
OpenJobs     == {j \in JobIds : Open(j)}
Refreshing(j) == pc[j] \in {"begin", "observe", "work"}

(* admit() begins by dropping from coordinator.jobs the jobs past their    *)
(* deadline whose done channel is closed; nothing else looks them up, so   *)
(* they are forgotten at once.  A poll with an operation id only looks up  *)
(* a job that is not forgotten and changes nothing.                        *)
Forgotten(j) == late[j] /\ pc[j] = "gone"
Forget(j)    == [job EXCEPT ![j] = NoJob]

(* What admit() answers a request without an operation id, in its order.   *)
Refused(r) == mpc[r] # "off" \/ (~published[r] /\ backoff[r])

(* Mutant: the limit is off by one.                                        *)
QueueFullLate == Cardinality(OpenJobs) > Queue + Workers

QueueFull  == Cardinality(OpenJobs) >= Queue + Workers

(* Mutants: an active job is joined after its snapshot began; a population *)
(* is not joined after its snapshot began.                                 *)
JoinsActiveAnyTime(r) == active[r] # None
JoinsActiveBefore(r)  == active[r] # None /\ ~job[active[r]].started

JoinsActive(r) == /\ active[r] # None
                  /\ job[active[r]].population \/ ~job[active[r]].started
JoinsNext(r)   == /\ active[r] # None
                  /\ ~JoinsActive(r)
                  /\ next[r] # None

Init ==
    /\ active = [r \in Repos |-> None]
    /\ next = [r \in Repos |-> None]
    /\ published \in [Repos -> BOOLEAN]
    /\ backoff = [r \in Repos |-> FALSE]
    /\ writer = [r \in Repos |-> None]
    /\ mpc = [r \in Repos |-> "off"]
    /\ slots = {}
    /\ stored = [r \in Repos |-> 0]
    /\ served = [r \in Repos |-> 0]
    /\ pc = [j \in JobIds |-> "gone"]
    /\ late = [j \in JobIds |-> TRUE]
    /\ pred = [j \in JobIds |-> None]
    /\ job = [j \in JobIds |-> NoJob]
    /\ upstream = [r \in Repos |-> 0]

-----------------------------------------------------------------------------
(* admit(), which runs whole under coordinator.mu.                         *)

(* A request is answered with a job that already exists.                   *)
Join(r) ==
    /\ ~Refused(r)
    /\ JoinsActive(r) \/ JoinsNext(r)
    /\ LET j == IF JoinsActive(r) THEN active[r] ELSE next[r]
       IN  job' = [job EXCEPT ![j].asked = upstream[r]]
    /\ UNCHANGED <<repoVars, pc, late, pred, upstream>>

(* A request gets a job of its own, queued behind the active one if any.   *)
AdmitNew(r, j) ==
    /\ ~Refused(r) /\ ~JoinsActive(r) /\ ~JoinsNext(r) /\ ~QueueFull
    /\ Forgotten(j)
    /\ active' = [active EXCEPT ![r] = IF @ = None THEN j ELSE @]
    /\ next' = [next EXCEPT ![r] = IF active[r] = None THEN @ ELSE j]
    /\ pc' = [pc EXCEPT ![j] = "pred"]
    /\ late' = [late EXCEPT ![j] = FALSE]
    /\ pred' = [pred EXCEPT ![j] = active[r]]
    /\ job' = [job EXCEPT ![j] = [NoJob EXCEPT !.repo = r,
                                               !.population = ~published[r],
                                               !.asked = upstream[r]]]
    /\ UNCHANGED <<published, backoff, writer, mpc, slots, stored, served,
                   upstream>>

-----------------------------------------------------------------------------
(* run(), one action per point where another goroutine can come between.   *)

Goto(j, from, to) == pc[j] = from /\ pc' = [pc EXCEPT ![j] = to]
Error(j)          == job' = [job EXCEPT ![j].failed = TRUE]

(* Its context ends while the job waits for its predecessor, for a writer  *)
(* lock it could not take, or for a worker: it fails before its snapshot.  *)
GiveUp(j) ==
    /\ late[j]
    /\ \/ Goto(j, "pred", "copy")
       \/ Goto(j, "lock", "copy") /\ writer[RepoOf(j)] # None
       \/ Goto(j, "worker", "copy")
    /\ Error(j)
    /\ UNCHANGED <<repoVars, late, pred>>

PredecessorDone(j) ==
    /\ pred[j] = None
    /\ Goto(j, "pred", "flag")
    /\ UNCHANGED <<repoVars, late, pred, job>>

(* The maintenance flag is read under mu, before the lock is tried.        *)
CheckMaintenance(j) ==
    /\ \/ /\ Goto(j, "flag", "copy")
          /\ mpc[RepoOf(j)] # "off"
          /\ Error(j)
       \/ /\ Goto(j, "flag", "lock")
          /\ mpc[RepoOf(j)] = "off"
          /\ UNCHANGED job
    /\ UNCHANGED <<repoVars, late, pred>>

(* Mutant: the lock is not exclusive.                                      *)
LockWriterAlways(j) ==
    /\ Goto(j, "lock", "worker")
    /\ writer' = [writer EXCEPT ![RepoOf(j)] = j]
    /\ UNCHANGED <<active, next, published, backoff, mpc, slots, stored, served,
                   late, pred, job>>

(* writer.TryLock() succeeds.                                              *)
LockWriter(j) ==
    /\ Goto(j, "lock", "worker")
    /\ writer[RepoOf(j)] = None
    /\ writer' = [writer EXCEPT ![RepoOf(j)] = j]
    /\ UNCHANGED <<active, next, published, backoff, mpc, slots, stored, served,
                   late, pred, job>>

(* It fails, and while its context lasts the loop starts over at the flag. *)
RetryWriter(j) ==
    /\ Goto(j, "lock", "flag")
    /\ writer[RepoOf(j)] # None /\ ~late[j]
    /\ UNCHANGED <<repoVars, late, pred, job>>

WorkerFree == Cardinality(slots) < Workers

TakeWorker(j) ==
    /\ WorkerFree
    /\ Goto(j, "worker", "begin")
    /\ slots' = slots \cup {j}
    /\ UNCHANGED <<active, next, published, backoff, writer, mpc, stored, served,
                   late, pred, job>>

(* From here on a request may no longer be answered with this job.         *)
BeginSnapshot(j) ==
    /\ Goto(j, "begin", "observe")
    /\ job' = [job EXCEPT ![j].started = TRUE, ![j].base = stored[RepoOf(j)]]
    /\ UNCHANGED <<repoVars, late, pred>>

(* git ls-remote answers, or the query fails.                              *)
Observe(j) ==
    /\ \/ /\ Goto(j, "observe", "work")
          /\ job' = [job EXCEPT ![j].snap = upstream[RepoOf(j)]]
       \/ Goto(j, "observe", "finish") /\ Error(j)
    /\ UNCHANGED <<repoVars, late, pred>>

(* The rest of refresh(); a ref that moved is observed once more.          *)
Work(j) ==
    /\ Goto(j, "work", "finish")
    /\ \E s \in {job[j].snap, upstream[RepoOf(j)]}, f \in BOOLEAN :
          job' = [job EXCEPT ![j].snap = s, ![j].failed = f]
    /\ UNCHANGED <<repoVars, late, pred>>

(* A job that was refused takes the state it will give back in a critical  *)
(* section of its own.                                                     *)
CopyState(j) ==
    /\ Goto(j, "copy", "finish")
    /\ job' = [job EXCEPT ![j].base = stored[RepoOf(j)]]
    /\ UNCHANGED <<repoVars, late, pred>>

(* Mutants: the job behind a finished one is dropped; done stays open.     *)
ActiveAfterNone(r, j) == IF active[r] = j THEN None ELSE active[r]
AwaitedAfterSame(j)   == pred

ActiveAfter(r, j) == IF active[r] = j THEN next[r] ELSE active[r]
AwaitedAfter(j)   == [k \in JobIds |-> IF pred[k] = j THEN None ELSE pred[k]]

(* The closing section of run() under mu: record the outcome, move the     *)
(* successor up and close the done channel.                                *)
Finish(j) ==
    LET r == RepoOf(j) IN
    /\ Goto(j, "finish", IF writer[r] = j THEN "release" ELSE "gone")
    /\ IF job[j].failed
       THEN /\ backoff' = [backoff EXCEPT ![r] = @ \/ job[j].population]
            /\ stored' = [stored EXCEPT ![r] = job[j].base]
            /\ UNCHANGED <<published, served>>
       ELSE /\ published' = [published EXCEPT ![r] = TRUE]
            /\ backoff' = [backoff EXCEPT ![r] = FALSE]
            /\ stored' = [stored EXCEPT ![r] = job[j].snap]
            /\ served' = [served EXCEPT ![r] = job[j].snap]
    /\ active' = [active EXCEPT ![r] = ActiveAfter(r, j)]
    /\ next' = [next EXCEPT ![r] =
                   IF active[r] = j \/ next[r] = j THEN None ELSE @]
    /\ pred' = AwaitedAfter(j)
    /\ job' = IF writer[r] # j /\ late[j] THEN Forget(j) ELSE job
    /\ UNCHANGED <<writer, mpc, slots, late>>

(* The deferred releases, after the done channel is closed.  A job that    *)
(* has a worker slot has the writer lock, and gives the slot back first.   *)
Release(j) ==
    /\ Goto(j, "release", "gone")
    /\ slots' = slots \ {j}
    /\ writer' = [writer EXCEPT ![RepoOf(j)] = None]
    /\ job' = IF late[j] THEN Forget(j) ELSE job
    /\ UNCHANGED <<active, next, published, backoff, mpc, stored, served, late,
                   pred>>

Run(j) ==
    /\ \/ PredecessorDone(j) \/ CheckMaintenance(j) \/ LockWriter(j)
       \/ RetryWriter(j) \/ TakeWorker(j) \/ BeginSnapshot(j) \/ Observe(j)
       \/ Work(j) \/ CopyState(j) \/ Finish(j) \/ Release(j) \/ GiveUp(j)
    /\ UNCHANGED upstream

-----------------------------------------------------------------------------
(* maintain(): mpc[r] # "off" is the maintenance flag.                     *)

MaintStep(r, from, to) == mpc[r] = from /\ mpc' = [mpc EXCEPT ![r] = to]

MaintStart(r) ==
    /\ published[r]
    /\ MaintStep(r, "off", "drain")
    /\ UNCHANGED writer

(* The readers have drained, or the wait for them failed.                  *)
MaintDrain(r) ==
    /\ \E to \in {"lock", "clear"} : MaintStep(r, "drain", to)
    /\ UNCHANGED writer

MaintLock(r) ==
    \/ /\ writer[r] = None
       /\ MaintStep(r, "lock", "work")
       /\ writer' = [writer EXCEPT ![r] = Maintainer]
    \/ /\ writer[r] # None
       /\ MaintStep(r, "lock", "clear")
       /\ UNCHANGED writer

MaintWork(r) ==
    /\ MaintStep(r, "work", "clear")
    /\ writer' = [writer EXCEPT ![r] = None]

(* Mutant: the flag is left in a state of its own.                         *)
MaintClearStuck(r) ==
    /\ MaintStep(r, "clear", "cleared")
    /\ UNCHANGED writer

MaintClear(r) ==
    /\ MaintStep(r, "clear", "off")
    /\ UNCHANGED writer

Maintain(r) ==
    /\ \/ MaintStart(r) \/ MaintDrain(r) \/ MaintLock(r) \/ MaintWork(r)
       \/ MaintClear(r)
    /\ UNCHANGED <<active, next, published, backoff, slots, stored, served, pc,
                   late, pred, job, upstream>>

-----------------------------------------------------------------------------
(* The clock and the world.                                                *)

(* A job's deadline passes; its context is cancelled with it. A job behind *)
(* another was admitted later and has the same budget, Limits.Job: nothing *)
(* is queued behind a population, which has a longer one.                  *)
Expire(j) ==
    /\ ~late[j]
    /\ pred[j] # None => late[pred[j]]
    /\ late' = [late EXCEPT ![j] = TRUE]
    /\ job' = IF pc[j] = "gone" THEN Forget(j) ELSE job
    /\ UNCHANGED <<repoVars, pc, pred, upstream>>

(* The retry time of a failed first population arrives.                    *)
BackoffElapses(r) ==
    /\ backoff[r]
    /\ backoff' = [backoff EXCEPT ![r] = FALSE]
    /\ UNCHANGED <<active, next, published, writer, mpc, slots, stored, served, pc,
                   late, pred, job, upstream>>

Push(r) ==
    /\ upstream[r] < MaxUpstream[r]
    /\ upstream' = [upstream EXCEPT ![r] = @ + 1]
    /\ UNCHANGED <<repoVars, pc, late, pred, job>>

Next ==
    \/ \E r \in Repos : \/ Join(r) \/ Maintain(r)
                        \/ BackoffElapses(r) \/ Push(r)
                        \/ \E j \in JobIds : AdmitNew(r, j)
    \/ \E j \in JobIds : Run(j) \/ Expire(j)

Spec == Init /\ [][Next]_vars

(* Goroutines are scheduled fairly and git commands end by their contexts. *)
(* A Go channel serves its waiting senders in order, so a job that waits   *)
(* for a worker slot is not overtaken forever.  A job polls the writer     *)
(* lock every millisecond and maintenance is weekly, so a job that waits   *)
(* for the lock finds it free if it is free again and again.  Nothing is   *)
(* assumed of requests, deadlines, pushes or the start of maintenance.     *)
Fairness ==
    /\ \A j \in JobIds : /\ WF_vars(Run(j))
                         /\ SF_vars(TakeWorker(j) /\ UNCHANGED upstream)
                         /\ SF_vars(LockWriter(j) /\ UNCHANGED upstream)
    /\ \A r \in Repos : WF_vars(mpc[r] # "off" /\ Maintain(r))

FairSpec == Spec /\ Fairness

-----------------------------------------------------------------------------
(* Every variable has the shape the coordinator's fields have.             *)
TypeOK ==
    /\ active \in [Repos -> JobIds \cup {None}]
    /\ next \in [Repos -> JobIds \cup {None}]
    /\ published \in [Repos -> BOOLEAN]
    /\ backoff \in [Repos -> BOOLEAN]
    /\ writer \in [Repos -> JobIds \cup {None, Maintainer}]
    /\ mpc \in [Repos -> MPCs]
    /\ slots \subseteq JobIds
    /\ stored \in [Repos -> Nat]
    /\ served \in [Repos -> Nat]
    /\ pc \in [JobIds -> PCs]
    /\ late \in [JobIds -> BOOLEAN]
    /\ pred \in [JobIds -> JobIds \cup {None}]
    /\ job \in [JobIds -> JobType]
    /\ upstream \in [Repos -> Nat]

(* No job is orphaned: every unfinished job is its repository's active job *)
(* or the one queued behind it, so a repository never has more than two    *)
(* and a request that finds neither slot open may start a new one.         *)
OpenJobsHaveSlots ==
    \A j \in JobIds : Open(j) => active[RepoOf(j)] = j \/ next[RepoOf(j)] = j

(* A request is never answered with data older than itself: when a job     *)
(* that refreshes a published repository succeeds, its snapshot is at least *)
(* as new as the upstream was when the last request joined the job.        *)
AnswersAreFresh ==
    \A j \in JobIds :
        (~Open(j) /\ ~job[j].failed /\ ~job[j].population)
            => job[j].asked <= job[j].snap

(* A first population runs alone on an unpublished repository: it renames  *)
(* its staging directory onto the published path, which must not exist.    *)
PopulationRunsAlone ==
    \A j \in JobIds :
        (Open(j) /\ job[j].population)
            => /\ ~published[RepoOf(j)]
               /\ active[RepoOf(j)] = j
               /\ next[RepoOf(j)] = None
               /\ mpc[RepoOf(j)] = "off"

(* Whoever changes a repository holds its writer lock, through the race    *)
(* between the maintenance flag and TryLock: no two refreshes of one       *)
(* repository run at once, nor a refresh beside maintenance, and no more   *)
(* refreshes run than there are workers.                                   *)
OneMutatorPerRepo ==
    /\ \A i, j \in JobIds :
        (Refreshing(i) /\ Refreshing(j) /\ RepoOf(i) = RepoOf(j)) => i = j
    /\ \A j \in JobIds : Refreshing(j) => mpc[RepoOf(j)] # "work"
    /\ Cardinality({j \in JobIds : Refreshing(j)}) <= Workers

(* A confirmation is not forgotten: what the worker remembers of a         *)
(* repository is what its last successful refresh found, so the next       *)
(* refresh builds on it and not on an older state.                         *)
NothingForgotten == \A r \in Repos : stored[r] = served[r]

(* What a host can tell of a job: an operation of MirrorAnswers.           *)
Operation(j) ==
    [at |-> IF Open(j) THEN "open" ELSE IF Forgotten(j) THEN "none"
            ELSE IF job[j].failed THEN "failed" ELSE "answered",
     repo |-> job[j].repo, population |-> job[j].population,
     asked |-> job[j].asked,
     seen |-> IF Open(j) \/ job[j].failed THEN 0 ELSE job[j].snap]

Answers == INSTANCE MirrorAnswers WITH
               Ops <- JobIds, Limit <- Queue + Workers,
               op <- [j \in JobIds |-> Operation(j)]

(* Through its locks, slots, queue and deadlines the scheduler keeps what  *)
(* hosts are promised: fresh answers that never go back in time, and       *)
(* limits on what is under way.                                            *)
ImplementsAnswers == Answers!Spec

(* Every admitted job closes its done channel, whatever maintenance, the   *)
(* other repositories and the queue do, even if no deadline ever fires.    *)
EveryJobFinishes == \A j \in JobIds : Open(j) ~> ~Open(j)
=============================================================================
