---------------------------- MODULE MirrorStore ----------------------------
(***************************************************************************)
(* What the Git mirror keeps of one published repository, and the steps    *)
(* that change it (test/extension/caching-proxy-service,                   *)
(* gitmirror_coordinator.go, gitmirror_stream.go, gitmirror_git.go).       *)
(*                                                                         *)
(* The bare repository, the state file and the marker files are durable;   *)
(* the worker's copy of the state, its locks and its goroutines are not.   *)
(* refresh() confirms the upstream ref and pins its commit; maintain()     *)
(* drains the readers, deletes expired pins and collects garbage; readers  *)
(* in processes of their own serve pinned commits under a shared lock.     *)
(* Scheduling (which job refreshes when) is MirrorJobs.                    *)
(*                                                                         *)
(* One ref and a few commits stand for the ref set: what the code does for *)
(* each ref it does alike.  Time is a small counter of retention units.    *)
(***************************************************************************)
EXTENDS Integers, FiniteSets, Functions

CONSTANTS
    Commits,     \* commits the upstream ref may point at
    None,        \* no commit, no state
    Readers,     \* concurrent uses of a read lease
    Keep,        \* Limits.Retention + Limits.RetentionGrace
    MaxTime,     \* bound on the clock
    Faults,      \* what may go wrong: see FaultKinds
    Promises     \* the promises of retention the history records

FaultKinds == {"refresh",     \* a step of refresh() fails
               "maintain",    \* a step of maintain() fails
               "finish",      \* one of the two fails with its state file written
               "query",       \* recover() cannot ask Git about a pin
               "crash",       \* the worker process dies
               "restart",     \* recover() fails when the worker starts
               "overwrite"}   \* the state changes between the copy a job that
                              \* gave up takes of it and the store of the copy

ASSUME StoreAssumption ==
    /\ None \notin Commits
    /\ Keep \in Nat /\ MaxTime \in Nat \ {0}
    /\ Faults \subseteq FaultKinds
    /\ Promises \subseteq {"confirmation", "use"}

VARIABLES
    now,        \* the clock
    upstream,   \* the commit the upstream ref points at
    git,        \* the repository: local ref, refs/yuruna/pins/*, objects
    disk,       \* the state file
    dirty,      \* the marker file yuruna-in-progress exists
    barred,     \* the readers' marker file "maintenance" exists
    uses,       \* [Commits -> time of the newest use record, 0 if none]
    up,         \* the worker runs
    mem,        \* mirrorRepository.state
    rpc, prev, nxt, snap,   \* refresh(): place, previous, next, snapshot
    late,       \* [Slots -> the copy of the state a job that gave up holds]
    mpc, mst, drained,      \* maintain(): place, state, exclusive lock held
    answer,     \* the pin a receipt names, from a finished job's state
    rd,         \* [Readers -> place and commit of a read lease]
    promised    \* history: [Commits -> time until which a confirmation by a
                \* refresh or a use under a lease promises its pin, or 0]

durable  == <<git, disk, dirty>>
refreshV == <<rpc, prev, nxt, snap, late>>
maintV   == <<mpc, mst, drained>>
vars     == <<now, upstream, durable, barred, uses, up, mem, refreshV, maintV,
              answer, rd, promised>>

-----------------------------------------------------------------------------
(* A mirrorState: the confirmed commit of the ref, and RetainUntil of each *)
(* pinned commit.                                                          *)
NoPins == [c \in {} |-> 0]
Empty  == [ref |-> None, pins |-> NoPins]

Pins(s)       == DOMAIN s.pins
Drop(s, gone) == [ref  |-> IF s.ref \in gone THEN None ELSE s.ref,
                  pins |-> Restrict(s.pins, Pins(s) \ gone)]
Retain(s, c, t) ==
    [s EXCEPT !.pins = [d \in Pins(s) \cup {c} |-> IF d = c THEN t ELSE @[d]]]

(* Mutant: a pin expires one unit early.                                   *)
ExpiredEarly(s) == {c \in Pins(s) : now >= s.pins[c]}
Expired(s)      == {c \in Pins(s) : now > s.pins[c]}

Later(a, b) == IF a > b THEN a ELSE b
Promise(kind, c, t) ==
    promised' = IF kind \in Promises
                THEN [promised EXCEPT ![c] = Later(@, t + Keep)] ELSE promised

(* recover(): a pin without its Git ref or its commit is forgotten, and so *)
(* is one for which the command that asks Git fails.                       *)
Recoveries(s) ==
    LET missing == Pins(s) \ (git.pins \cap git.objs)
        asked   == IF "query" \in Faults THEN SUBSET Pins(s) ELSE {{}}
    IN  {Drop(s, missing \cup unsure) : unsure \in asked}

(* What git keeps: commits that a ref reaches.                             *)
Reachable(g) == g.pins \cup ({g.head} \ {None})

(* Mutant: the use records are removed without effect.                     *)
WithoutUses(s) == s

(* collectReaderUse(): each record extends its pin, and is removed.        *)
WithUses(s) ==
    [s EXCEPT !.pins = [c \in Pins(s) |->
        IF uses[c] = 0 THEN @[c] ELSE Later(@[c], uses[c] + Keep)]]
NoUses == [c \in Commits |-> 0]

Refreshing   == rpc # "idle"     \* holds the writer lock
Maintaining  == mpc # "off"
HasWriter    == mpc \in {"begin", "prune", "gc", "persist", "end", "publish"}

(* Mutant: the barrier is not locked by readers.                           *)
SharedNever == FALSE
SharedHeld  == \E r \in Readers : rd[r].at = "open"
NoReader    == [at |-> "idle", sha |-> None, kind |-> "read"]

(* A repository has one active job at a time, and one queued behind it.    *)
Slots    == {"active", "next"}
NoCopies == [i \in Slots |-> None]

(* The worker starts on a repository that one population has published.    *)
Init ==
    /\ now = 1
    /\ upstream \in Commits
    /\ git = [head |-> upstream, pins |-> {upstream}, objs |-> {upstream}]
    /\ disk = [ref |-> upstream, pins |-> [c \in {upstream} |-> 1 + Keep]]
    /\ dirty = FALSE /\ barred = FALSE
    /\ uses = NoUses
    /\ up = TRUE
    /\ mem = disk
    /\ rpc = "idle" /\ prev = Empty /\ nxt = Empty /\ snap = None
    /\ late = NoCopies
    /\ mpc = "off" /\ mst = Empty /\ drained = FALSE
    /\ answer = mem.pins
    /\ rd = [r \in Readers |-> NoReader]
    /\ promised = NoUses

-----------------------------------------------------------------------------
(* run() and refresh().                                                    *)

(* A request that joined a job is for one commit, and may be answered long *)
(* after other jobs have finished.                                         *)
Answer(s) == \/ UNCHANGED answer
             \/ \E c \in Pins(s) : answer' = Restrict(s.pins, {c})

(* run() stores the outcome: mirrorRepository.state and mirrorJob.state.   *)
Stored(s) ==
    /\ mem' = s
    /\ rpc' = "idle" /\ prev' = Empty /\ nxt' = Empty /\ snap' = None
    /\ UNCHANGED late

Outcome(s) == Stored(s) /\ Answer(s)

(* A step returns previous and an error.                                   *)
Fail == "refresh" \in Faults /\ Outcome(prev)

Step(from, to) == rpc = from /\ rpc' = to

(* The maintenance flag is clear, so nobody has the writer lock: the job   *)
(* takes it and waits for a worker.                                        *)
RAdmit ==
    /\ up /\ ~Maintaining /\ late = NoCopies
    /\ Step("idle", "queued")
    /\ UNCHANGED <<durable, barred, mem, answer, prev, nxt, snap, late, promised>>

(* A job gives up: the maintenance flag is set, or its time is over while  *)
(* it waits for the active job, the writer lock or a worker.  It copies    *)
(* the state in one critical section and stores the copy in the next,      *)
(* which is one step unless the state changes between the two.             *)
RGiveUp ==
    /\ up /\ late = NoCopies
    /\ Answer(mem)
    /\ UNCHANGED rpc \/ Step("queued", "idle")
    /\ UNCHANGED <<durable, barred, mem, prev, nxt, snap, late, promised>>

RCopy(i) ==
    /\ "overwrite" \in Faults /\ up /\ late[i] = None
    /\ \/ (rpc = "idle" \/ late = NoCopies) /\ UNCHANGED rpc
       \/ Step("queued", "idle")
    /\ late' = [late EXCEPT ![i] = mem]
    /\ UNCHANGED <<durable, barred, mem, answer, prev, nxt, snap, promised>>

RStore(i) ==
    /\ late[i] # None
    /\ mem' = late[i] /\ Answer(late[i])
    /\ late' = [late EXCEPT ![i] = None]
    /\ UNCHANGED <<durable, barred, rpc, prev, nxt, snap, promised>>

(* Maintenance may have set its flag since the job saw it clear.           *)
RStart ==
    /\ rpc = "queued"
    /\ rpc' = IF dirty THEN "recover" ELSE "snapshot"
    /\ prev' = mem
    /\ UNCHANGED <<durable, barred, mem, answer, nxt, snap, late, promised>>

(* recover(): locks removed, fsck passed, pins checked, state persisted,   *)
(* the marker removed.  The readers' marker is removed with it.  A failed  *)
(* one may have written the state.                                         *)
RRecover ==
    /\ rpc = "recover"
    /\ \/ /\ rpc' = "snapshot"
          /\ prev' \in Recoveries(prev)
          /\ disk' = prev'
          /\ dirty' = FALSE
          /\ barred' = FALSE
          /\ UNCHANGED <<mem, answer, nxt, snap, late>>
       \/ /\ "refresh" \in Faults
          /\ \E s \in {prev} \cup Recoveries(prev) : Outcome(s)
          /\ UNCHANGED <<disk, dirty, barred>>
       \/ /\ "refresh" \in Faults
          /\ \E s \in Recoveries(prev) : Outcome(s) /\ disk' = s
          /\ dirty' \in {dirty, FALSE}
          /\ UNCHANGED barred
    /\ UNCHANGED <<git, promised>>

(* ls-remote.  Unless the ref and its commit are already there, room is    *)
(* checked for and a fetch begins, under the in-progress marker.           *)
RSnapshot ==
    LET needsFetch == prev.ref # upstream \/ upstream \notin git.objs IN
    /\ rpc = "snapshot"
    /\ \/ /\ snap' = upstream
          /\ rpc' = IF needsFetch THEN "fetch" ELSE "pin"
          /\ dirty' = (dirty \/ needsFetch)
          /\ UNCHANGED <<mem, answer, prev, nxt, late>>
       \/ Fail /\ dirty' \in {dirty, dirty \/ needsFetch}
    /\ UNCHANGED <<git, disk, barred, promised>>

(* Mutant: --prune drops the ref and nothing fetches it again.             *)
FetchedPruned == [git EXCEPT !.objs = @ \cup {upstream}, !.head = None]
Fetched == [head |-> upstream, pins |-> git.pins,
            objs |-> git.objs \cup {upstream}]

(* A failed fetch may leave objects behind, or have updated the ref.       *)
FetchFails == Fail /\ git' \in {git, [git EXCEPT !.objs = @ \cup {upstream}], Fetched}

(* git fetch --atomic --prune.                                             *)
RFetch ==
    /\ rpc = "fetch"
    /\ \/ /\ git' = Fetched
          /\ rpc' = IF upstream = snap THEN "pin" ELSE "resnap"
          /\ UNCHANGED <<mem, answer, prev, nxt, snap, late>>
       \/ FetchFails
    /\ UNCHANGED <<disk, dirty, barred, promised>>

(* snapshotAvailable() failed: one more snapshot, and one more fetch if    *)
(* the local ref is still not what the snapshot says.                      *)
RResnap ==
    /\ rpc = "resnap"
    /\ \/ /\ snap' = upstream
          /\ rpc' = IF git.head = upstream THEN "pin" ELSE "refetch"
          /\ UNCHANGED <<mem, answer, prev, nxt, late>>
       \/ Fail
    /\ UNCHANGED <<durable, barred, promised>>

RRefetch ==
    /\ rpc = "refetch"
    /\ \/ /\ git' = Fetched
          /\ IF upstream = snap
             THEN rpc' = "pin" /\ UNCHANGED <<mem, answer, prev, nxt, snap, late>>
             ELSE Outcome(prev)     \* upstream-ref-moving
       \/ FetchFails
    /\ UNCHANGED <<disk, dirty, barred, promised>>

(* Mutant: a ref that has not moved is taken to be pinned.                 *)
RPinMoved ==
    /\ Step("pin", "persist")
    /\ nxt' = Retain([prev EXCEPT !.ref = snap], snap, now + Keep)
    /\ \/ snap = prev.ref /\ UNCHANGED <<git, dirty>>
       \/ snap # prev.ref /\ git' = [git EXCEPT !.pins = @ \cup {snap}] /\ dirty' = TRUE
    /\ UNCHANGED <<disk, barred, mem, answer, prev, snap, late, promised>>

(* The commit is confirmed in the new state and pinned in Git, marked in   *)
(* progress unless the pin is there already.                               *)
RPin ==
    /\ \/ /\ Step("pin", "persist")
          /\ nxt' = Retain([prev EXCEPT !.ref = snap], snap, now + Keep)
          /\ git' = [git EXCEPT !.pins = @ \cup {snap}]
          /\ dirty' = (dirty \/ snap \notin git.pins)
          /\ UNCHANGED <<mem, answer, prev, snap, late>>
       \/ /\ rpc = "pin" /\ Fail
          /\ \/ UNCHANGED <<git, dirty>>
             \/ /\ dirty' = (dirty \/ snap \notin git.pins)
                /\ git' \in {git, [git EXCEPT !.pins = @ \cup {snap}]}
    /\ UNCHANGED <<disk, barred, promised>>

RPersist ==
    /\ \/ /\ Step("persist", "end")
          /\ disk' = nxt
          /\ UNCHANGED <<mem, answer, prev, nxt, snap, late>>
       \/ /\ rpc = "persist" /\ Stored(prev) /\ UNCHANGED answer
          /\ \/ "refresh" \in Faults /\ UNCHANGED disk
             \/ "finish" \in Faults /\ disk' = nxt
    /\ UNCHANGED <<git, dirty, barred, promised>>

(* The marker is removed.  If that fails, or its directory cannot be       *)
(* synced, the job ends with previous, while the state file has next.      *)
REnd ==
    /\ rpc = "end"
    /\ \/ /\ dirty' = FALSE
          /\ Outcome(nxt)
          /\ Promise("confirmation", snap, now)
       \/ /\ "finish" \in Faults
          /\ dirty' \in {dirty, FALSE}
          /\ Stored(prev) /\ UNCHANGED <<answer, promised>>
    /\ UNCHANGED <<git, disk, barred>>

Refresh ==
    /\ \/ RAdmit \/ RGiveUp \/ (\E i \in Slots : RCopy(i) \/ RStore(i))
       \/ RStart \/ RRecover \/ RSnapshot
       \/ RFetch \/ RResnap \/ RRefetch \/ RPin \/ RPersist \/ REnd
    /\ UNCHANGED <<now, upstream, uses, up, maintV, rd>>

-----------------------------------------------------------------------------
(* maintain(): mpc # "off" is the maintenance flag.                        *)

MStep(from, to) == mpc = from /\ mpc' = to
MFails          == "maintain" \in Faults
MUnfinished     == MFails /\ "finish" \in Faults

(* The flag is set, and the readers' marker written.                       *)
MStart ==
    /\ up
    /\ \/ MStep("off", "drain") /\ barred' = TRUE
       \/ MFails /\ MStep("off", "release") /\ barred' \in {barred, TRUE}
    /\ UNCHANGED <<durable, uses, mem, mst, drained>>

(* The exclusive lock is there once no reader has the shared one.          *)
MDrain ==
    /\ \/ ~SharedHeld /\ MStep("drain", "lock") /\ drained' = TRUE
       \/ SharedHeld /\ MStep("drain", "release") /\ UNCHANGED drained
    /\ UNCHANGED <<durable, barred, uses, mem, mst>>

(* The writer lock, a copy of the state, and the use records.              *)
MLock ==
    /\ \/ /\ ~Refreshing
          /\ MStep("lock", "begin")
          /\ mst' = WithUses(mem)
          /\ uses' = NoUses
       \/ Refreshing /\ MStep("lock", "release") /\ UNCHANGED <<mst, uses>>
    /\ UNCHANGED <<durable, barred, mem, drained>>

MBegin ==
    /\ MStep("begin", "prune")
    /\ dirty' = TRUE
    /\ UNCHANGED <<git, disk, barred, uses, mem, mst, drained>>

(* Expired pins go one by one; a failure leaves the rest.  A ref whose     *)
(* commit was unpinned stays in the state; receipt() looks for the pin.    *)
MPrune ==
    /\ \E gone \in SUBSET Expired(mst) :
        /\ \/ gone = Expired(mst) /\ MStep("prune", "gc")
           \/ MFails /\ MStep("prune", "release")
        /\ git' = [git EXCEPT !.pins = @ \ gone]
        /\ mst' = [mst EXCEPT !.pins = Restrict(@, DOMAIN @ \ gone)]
    /\ UNCHANGED <<disk, dirty, barred, uses, mem, drained>>

(* git gc drops unreachable objects that are old enough.                   *)
Collected ==
    \E keep \in SUBSET (git.objs \ Reachable(git)) :
        git' = [git EXCEPT !.objs = (@ \cap Reachable(git)) \cup keep]

MGc ==
    /\ MStep("gc", "persist")
    /\ Collected
    /\ UNCHANGED <<disk, dirty, barred, uses, mem, mst, drained>>

MPersist ==
    /\ MStep("persist", "end") \/ (MUnfinished /\ MStep("persist", "release"))
    /\ disk' = mst
    /\ UNCHANGED <<git, dirty, barred, uses, mem, mst, drained>>

(* If the marker is gone and its directory cannot be synced, the memory    *)
(* keeps the pins that were deleted.                                       *)
MEnd ==
    /\ MStep("end", "publish") \/ (MUnfinished /\ MStep("end", "release"))
    /\ dirty' = FALSE
    /\ UNCHANGED <<git, disk, barred, uses, mem, mst, drained>>

MPublish ==
    /\ MStep("publish", "release")
    /\ mem' = mst
    /\ UNCHANGED <<durable, barred, uses, mst, drained>>

(* A command or a file operation fails, or the maintenance time is over.   *)
(* A file that could not be written may be there; gc may have begun.       *)
MFail ==
    /\ MFails
    /\ \/ MStep("begin", "release") /\ dirty' \in {dirty, TRUE} /\ UNCHANGED git
       \/ MStep("gc", "release") /\ Collected /\ UNCHANGED dirty
       \/ MStep("persist", "release") /\ UNCHANGED <<git, dirty>>
       \/ "finish" \in Faults /\ MStep("end", "release") /\ UNCHANGED <<git, dirty>>
    /\ UNCHANGED <<disk, barred, uses, mem, mst, drained>>

(* The deferred calls: both locks, the readers' marker, the flag.          *)
MRelease ==
    /\ MStep("release", "off")
    /\ barred' = FALSE
    /\ drained' = FALSE
    /\ mst' = Empty
    /\ UNCHANGED <<durable, uses, mem>>

Maintain ==
    /\ \/ MStart \/ MDrain \/ MLock \/ MBegin \/ MPrune \/ MGc
       \/ MPersist \/ MEnd \/ MPublish \/ MFail \/ MRelease
    /\ UNCHANGED <<now, upstream, up, refreshV, answer, rd, promised>>

-----------------------------------------------------------------------------
(* mirrorReadLease(), for a receipt or for serving a pinned commit.        *)

(* A receipt names a commit whose retention has not run out; the reader    *)
(* service is asked for any commit.  The marker is looked at.              *)
Ask(r, c) ==
    /\ rd[r] = NoReader
    /\ ~barred
    /\ \E kind \in {"receipt", "read"} :
        /\ kind = "receipt" =>
              up /\ c \in DOMAIN answer /\ now <= answer[c]
        /\ rd' = [rd EXCEPT ![r] = [at |-> "asked", sha |-> c, kind |-> kind]]
    /\ UNCHANGED <<uses, promised>>

(* The shared lock is tried, and under it the marker is looked at again;   *)
(* the reader service also looks for the pin.  A use is recorded before    *)
(* anything is answered.                                                   *)
Refused(r) == \/ drained \/ barred
              \/ rd[r].kind = "read" /\ rd[r].sha \notin git.pins

Open(r) ==
    /\ rd[r].at = "asked" /\ ~Refused(r)
    /\ rd' = [rd EXCEPT ![r].at = "open"]
    /\ uses' = [uses EXCEPT ![rd[r].sha] = now]
    /\ Promise("use", rd[r].sha, now)

(* The lease is refused, or given back.                                    *)
Close(r) ==
    /\ \/ rd[r].at = "asked" /\ Refused(r)
       \/ rd[r].at = "open"
    /\ rd' = [rd EXCEPT ![r] = NoReader]
    /\ UNCHANGED <<uses, promised>>

Lease ==
    /\ \E r \in Readers :
        (\E c \in Commits : Ask(r, c)) \/ Open(r) \/ Close(r)
    /\ UNCHANGED <<now, upstream, durable, barred, up, mem, refreshV, maintV,
                   answer>>

-----------------------------------------------------------------------------
(* The worker process dies with its memory and its locks; a use record     *)
(* collected and not yet persisted is lost with it, a failure of           *)
(* maintenance.  Reader processes go on.                                   *)
Crash ==
    /\ "crash" \in Faults /\ up
    /\ mpc \in {"begin", "prune", "gc", "persist"} => MFails
    /\ up' = FALSE
    /\ rpc' = "idle" /\ prev' = Empty /\ nxt' = Empty /\ snap' = None
    /\ late' = NoCopies
    /\ mpc' = "off" /\ mst' = Empty /\ drained' = FALSE
    /\ mem' = disk
    /\ answer' = NoPins
    /\ rd' = [r \in Readers |->
                IF rd[r].kind = "receipt" THEN NoReader ELSE rd[r]]
    /\ UNCHANGED <<now, upstream, durable, barred, uses, promised>>

(* newMirrorCoordinator(): the state file is read and recover() run; if it *)
(* fails the repository is in local-error and the markers stay.            *)
Restart ==
    /\ ~up
    /\ up' = TRUE
    /\ \/ /\ mem' \in Recoveries(disk)
          /\ disk' = mem'
          /\ dirty' = FALSE
          /\ barred' = FALSE
       \/ /\ "restart" \in Faults
          /\ mem' \in {disk} \cup Recoveries(disk)
          /\ UNCHANGED <<disk, dirty, barred>>
       \/ /\ "restart" \in Faults
          /\ mem' \in Recoveries(disk)
          /\ disk' = mem'
          /\ dirty' \in {dirty, FALSE}
          /\ UNCHANGED barred
    /\ UNCHANGED <<now, upstream, git, uses, refreshV, maintV, answer, rd,
                   promised>>

(* The ref moves, forward or back.                                         *)
Push ==
    /\ \E c \in Commits \ {upstream} : upstream' = c
    /\ UNCHANGED <<now, durable, barred, uses, up, mem, refreshV, maintV,
                   answer, rd, promised>>

(* A unit of retention is a week: a refresh, of which the slowest takes    *)
(* minutes, and taking a lease are over within it.  Reading is not.        *)
(* A receipt whose time is over is refused, and so is forgotten here.      *)
Tick ==
    /\ now < MaxTime
    /\ rpc = "idle" /\ late = NoCopies
    /\ \A r \in Readers : rd[r].at # "asked"
    /\ now' = now + 1
    /\ answer' = Restrict(answer, {c \in DOMAIN answer : now < answer[c]})
    /\ promised' = [c \in Commits |-> IF now < promised[c] THEN promised[c] ELSE 0]
    /\ UNCHANGED <<upstream, durable, barred, uses, up, mem, refreshV, maintV,
                   rd>>

Next == \/ Refresh \/ Maintain \/ Lease
        \/ Crash \/ Restart \/ Push \/ Tick

Spec == Init /\ [][Next]_vars

-----------------------------------------------------------------------------
PinSets == UNION {[S -> 1..(MaxTime + Keep)] : S \in SUBSET Commits}
State   == [ref : Commits \cup {None}, pins : PinSets]

(* Every variable has the shape of what it stands for.                     *)
TypeOK ==
    /\ now \in 1..MaxTime /\ upstream \in Commits
    /\ git \in [head : Commits, pins : SUBSET Commits, objs : SUBSET Commits]
    /\ {disk, mem, prev, nxt, mst} \subseteq State
    /\ answer \in PinSets
    /\ {dirty, barred, up, drained} \subseteq BOOLEAN
    /\ uses \in [Commits -> 0..MaxTime]
    /\ promised \in [Commits -> 0..(MaxTime + Keep)]
    /\ late \in [Slots -> State \cup {None}]
    /\ rpc \in {"idle", "queued", "recover", "snapshot", "fetch", "resnap",
                "refetch", "pin", "persist", "end"}
    /\ mpc \in {"off", "drain", "lock", "begin", "prune", "gc",
                "persist", "end", "publish", "release"}
    /\ snap \in Commits \cup {None}
    /\ \A r \in Readers :
          rd[r].at \in {"idle", "asked", "open"}

InGit(c) == c \in git.pins \cap git.objs

(* While a lease is open, for a receipt or for a clone, the pin and the    *)
(* commit it was opened for are in the repository, whatever refresh and    *)
(* maintenance do meanwhile.  (Not after an "overwrite": the copy that is  *)
(* stored may bring back a pin that maintenance has deleted, and a receipt *)
(* may name it.)                                                           *)
ServedPinsStay == \A r \in Readers : rd[r].at = "open" => InGit(rd[r].sha)

(* A clone's alone are there even after a state has been overwritten: the  *)
(* reader service looks for the pin, under the lock that maintenance takes. *)
ReadsStay ==
    \A r \in Readers :
        rd[r].at = "open" /\ rd[r].kind = "read" => InGit(rd[r].sha)

(* The retention promise: a commit that a refresh has confirmed, or that   *)
(* was handed out in a receipt or served, stays pinned for the retention   *)
(* time after that, even if the ref is forced away meanwhile.  (Not after  *)
(* an "overwrite", which takes RetainUntil back to what it was before the  *)
(* confirmation.)                                                          *)
PromisesKept == \A c \in Commits : now <= promised[c] => InGit(c)

(* Crash consistency: unless the in-progress marker says otherwise, what   *)
(* the state file claims to be pinned, for a time that is not over, is     *)
(* pinned, and complete.  (Not after an "overwrite": the next refresh      *)
(* persists a pin that the copy brought back.)                             *)
DiskIsBacked ==
    ~dirty => \A c \in Pins(disk) : now <= disk.pins[c] => InGit(c)
=============================================================================
