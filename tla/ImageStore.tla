----------------------------- MODULE ImageStore -----------------------------
(***************************************************************************)
(* The image pool of the download agent, one directory of it               *)
(* (test/extension/download-agent-service/server/internal/imagestore,      *)
(* store.go, refresh.go, singleflight.go, manual.go).                      *)
(*                                                                         *)
(* The directory is on a share.  It holds artifacts named by their content *)
(* (generations), a metadata file beside each (its sidecar, which names    *)
(* one identity), and for every identity (an arch and a variant) a pointer *)
(* file that names the generation served.  A refresh of an identity lands  *)
(* an artifact, writes its sidecar, then the pointer, then removes old     *)
(* generations; an operator deletes an identity or prunes its previous     *)
(* generation.  There is no lock on the directory: each file operation is  *)
(* a step of its own here.  An agent runs one refresh of an identity at a  *)
(* time; refreshes of different identities, operators' calls and other     *)
(* agents run beside it.                                                   *)
(***************************************************************************)
EXTENDS Integers

CONSTANTS
    Agents,      \* agents that are not read-only
    Ids,         \* identities that share the directory
    Offers,      \* [Ids -> sets of generations the origin may offer]
    Calls,       \* operators' calls: records of CallType
    None,        \* no generation, no identity
    Faults       \* what may happen: see FaultKinds

FaultKinds == {"fail",       \* a network or file operation fails, and its error
                             \* ends the operation
               "ignored",    \* a read or a removal fails, and the code goes on
                             \* without what it failed on
               "crash",      \* an agent dies
               "rollback",   \* an origin offers an earlier generation again
               "adopt"}      \* the artifact comes from a drop folder

Flights  == [kind : {"refresh"}, agent : Agents, id : Ids, n : {1}]
CallType == [kind : {"delete", "prune"}, agent : Agents, id : Ids, n : {1, 2}]
Actors   == Flights \cup Calls
Gens     == UNION {Offers[i] : i \in Ids}

ASSUME ImageAssumption ==
    /\ \A i \in Ids : Offers[i] # {} /\ Offers[i] \subseteq Nat
    /\ Calls \subseteq CallType
    /\ None \notin Ids /\ None \notin Gens
    /\ Faults \subseteq FaultKinds

VARIABLES
    arts,        \* the artifacts
    newer,       \* pairs of them, the first modified after the second
    young,       \* those modified less than two minutes ago
    side,        \* [Gens -> identity its sidecar names, None if no sidecar]
    ptr,         \* [Ids -> generation its pointer names, or None]
    staged,      \* the flights whose staging file exists
    upstream,    \* [Ids -> generation the origin offers]
    at,          \* [Actors -> where it is]
    own,         \* [Actors -> its local variables]
    cancelled,   \* flights whose context is cancelled
    waiting,     \* deletes that wait for a flight's done channel
    deleting,    \* Agent.deleting, pairs of an agent and an identity
    prior        \* history: [Ids -> generation the pointer named before]

files == <<arts, newer, young, side, ptr, staged>>
flow  == <<cancelled, waiting, deleting>>
vars  == <<files, upstream, at, own, flow, prior>>

-----------------------------------------------------------------------------
Key(w)      == <<w.agent, w.id>>
FlightOf(w) == [kind |-> "refresh", agent |-> w.agent, id |-> w.id, n |-> 1]

(* gen: generation at hand; owner: sidecar read; spare: generations not to *)
(* remove and, once listed, those passed over as they could not be read;   *)
(* todo: artifacts listed that are still to be looked at.                  *)
Locals(g, i, s, t) == [gen |-> g, owner |-> i, spare |-> s, todo |-> t]
NoLocals == Locals(None, None, {}, {})

Goto(w, from, to) == at[w] = from /\ at' = [at EXCEPT ![w] = to]

(* The actor is done.  A flight closes its done channel, a delete lowers   *)
(* the flag of its identity, whoever else has raised it.                   *)
Return(w) ==
    /\ at' = [at EXCEPT ![w] = "idle"]
    /\ own' = [own EXCEPT ![w] = NoLocals]
    /\ cancelled' = cancelled \ {w}
    /\ waiting' = IF w.kind = "refresh"
                  THEN {k \in waiting : FlightOf(k) # w} ELSE waiting
    /\ deleting' = IF w.kind = "delete" THEN deleting \ {Key(w)} ELSE deleting

Fail(w) == "fail" \in Faults /\ Return(w)

(* What of a set of files is read, or removed, by a loop that goes on      *)
(* where one of them fails.                                                *)
Through(S) == IF "ignored" \in Faults THEN SUBSET S ELSE {S}

(* referencedGenerations(): what the pointers of the others name.  The     *)
(* mutant takes a missing pointer file for one that names a generation.    *)
ClaimedAnyway(i) == {ptr[j] : j \in Ids \ {i}}
Claimed(i)       == {ptr[j] : j \in Ids \ {i}} \ {None}

(* Mutant: only the current generation is kept.                            *)
PreviousNone(i, seen) == {}

(* The previous generation Retain() keeps: of the artifacts it sees, the   *)
(* newest attributed to the identity that its pointer does not name.       *)
Mine(i, seen)     == {g \in seen : g # ptr[i] /\ side[g] = i}
Previous(i, seen) == {g \in Mine(i, seen) :
                         \A h \in Mine(i, seen) \ {g} : <<g, h>> \in newer}

(* A sweep leaves an artifact alone if the sidecar it reads names another  *)
(* identity, or if it reads none and the artifact it listed is young.  The *)
(* mutant forgets the second rule.                                         *)
ProtectedBySidecar(i, e, owner) == owner \notin {None, i}
Protected(i, e, owner) == \/ owner \notin {None, i}
                          \/ owner = None /\ e.young /\ e.gen \in young

Init ==
    /\ arts = {} /\ newer = {} /\ young = {} /\ staged = {}
    /\ side = [g \in Gens |-> None]
    /\ ptr = [i \in Ids |-> None]
    /\ upstream \in {u \in [Ids -> Gens] : \A i \in Ids : u[i] \in Offers[i]}
    /\ at = [w \in Actors |-> "idle"]
    /\ own = [w \in Actors |-> NoLocals]
    /\ cancelled = {} /\ waiting = {} /\ deleting = {}
    /\ prior = [i \in Ids |-> None]

-----------------------------------------------------------------------------
(* refreshNow(), run by the flight of an identity.                         *)

(* startRefresh(): refused while the identity is being deleted, and one    *)
(* that is under way is joined.                                            *)
Start(f) ==
    /\ Key(f) \notin deleting
    /\ Goto(f, "idle", "probe")
    /\ UNCHANGED <<files, own, flow, prior>>

MayFail(f) == "fail" \in Faults \/ f \in cancelled

(* The origin is resolved and probed, and compared with the sidecar of the *)
(* generation served, if that can be read.                                 *)
Probe(f) ==
    LET g == upstream[f.id]
        unchanged == ptr[f.id] = g /\ side[g] # None IN
    /\ \/ /\ unchanged
          /\ Goto(f, "probe", "restamp")
          /\ own' = [own EXCEPT ![f] = Locals(g, side[g], {}, {})]
          /\ UNCHANGED flow
       \/ /\ ~unchanged \/ "ignored" \in Faults
          /\ Goto(f, "probe", "download")
          /\ own' = [own EXCEPT ![f] = Locals(g, None, {}, {})]
          /\ UNCHANGED flow
       \/ at[f] = "probe" /\ MayFail(f) /\ Return(f)
    /\ UNCHANGED <<files, prior>>

(* An unchanged origin: the sidecar is written back with a new time.       *)
Restamp(f) ==
    /\ at[f] = "restamp"
    /\ \/ side' = [side EXCEPT ![own[f].gen] = own[f].owner] /\ Return(f)
       \/ Fail(f) /\ UNCHANGED side
    /\ UNCHANGED <<arts, newer, young, ptr, staged, prior>>

(* A download that fails removes its staging file.                         *)
Download(f) ==
    /\ \/ /\ Goto(f, "download", "promote")
          /\ staged' = staged \cup {f}
          /\ UNCHANGED <<own, flow>>
       \/ /\ at[f] = "download" /\ MayFail(f) /\ Return(f)
          /\ \E gone \in Through({f}) : staged' = (staged \cup {f}) \ gone
    /\ UNCHANGED <<arts, newer, young, side, ptr, prior>>

(* PromoteStaging(): the staging file is linked under the generation name  *)
(* and keeps its modification time, unless the generation is there.  A     *)
(* file from a drop folder has settled for two minutes.                    *)
Promote(f) ==
    /\ \/ /\ f \in staged
          /\ Goto(f, "promote", "sidecar")
          /\ IF own[f].gen \in arts
             THEN UNCHANGED <<arts, newer, young>>
             ELSE /\ arts' = arts \cup {own[f].gen}
                  /\ newer' = newer \cup ({own[f].gen} \X arts)
                  /\ \/ young' = young \cup {own[f].gen}
                     \/ "adopt" \in Faults /\ UNCHANGED young
          /\ UNCHANGED <<own, flow>>
       \/ /\ at[f] = "promote" /\ (f \notin staged \/ Fail(f))
          /\ Return(f)
          /\ UNCHANGED <<arts, newer, young>>
    /\ \E gone \in Through({f}) : staged' = staged \ gone
    /\ UNCHANGED <<side, ptr, prior>>

(* Commit(): sidecar first, pointer last.                                  *)
CommitSidecar(f) ==
    /\ \/ /\ Goto(f, "sidecar", "pointer")
          /\ side' = [side EXCEPT ![own[f].gen] = f.id]
          /\ UNCHANGED <<own, flow>>
       \/ at[f] = "sidecar" /\ Fail(f) /\ UNCHANGED side
    /\ UNCHANGED <<arts, newer, young, ptr, staged, prior>>

CommitPointer(f) ==
    /\ \/ /\ Goto(f, "pointer", "retain")
          /\ ptr' = [ptr EXCEPT ![f.id] = own[f].gen]
          /\ prior' = [prior EXCEPT ![f.id] =
                          IF ptr[f.id] = own[f].gen THEN @ ELSE ptr[f.id]]
          /\ UNCHANGED <<own, flow>>
       \/ at[f] = "pointer" /\ Fail(f) /\ UNCHANGED <<ptr, prior>>
    /\ UNCHANGED <<arts, newer, young, side, staged>>

(* Retain() reads the entry to see what to keep.                           *)
Retain(f) ==
    /\ \/ /\ ptr[f.id] # None
          /\ Goto(f, "retain", "refs")
          /\ \E claimed \in Through(Claimed(f.id)) :
             \E seen \in Through(arts \ claimed) :
                own' = [own EXCEPT ![f] = Locals(None, None,
                           {ptr[f.id]} \cup Previous(f.id, seen), {})]
          /\ UNCHANGED flow
       \/ at[f] = "retain" /\ (ptr[f.id] = None \/ Fail(f)) /\ Return(f)
    /\ UNCHANGED <<files, prior>>

Flight(f) == \/ Start(f) \/ Probe(f) \/ Restamp(f) \/ Download(f) \/ Promote(f)
             \/ CommitSidecar(f) \/ CommitPointer(f) \/ Retain(f)

-----------------------------------------------------------------------------
(* retainOnly() and the end of Store.Delete(): the pointers of the other   *)
(* identities are read, then the directory, then each artifact judged by   *)
(* its sidecar and removed.                                                *)

References(w) ==
    /\ Goto(w, "refs", "list")
    /\ \E claimed \in Through(Claimed(w.id)) :
        own' = [own EXCEPT ![w].spare = @ \cup claimed]
    /\ UNCHANGED <<files, flow, prior>>

List(w) ==
    /\ \/ /\ Goto(w, "list", "sweep")
          /\ LET there == arts \ own[w].spare IN
             \E seen \in Through(there) :
                own' = [own EXCEPT ![w] = Locals(None, None, there \ seen,
                           {[gen |-> g, young |-> g \in young] : g \in seen})]
          /\ UNCHANGED flow
       \/ at[w] = "list" /\ Fail(w)
    /\ UNCHANGED <<files, prior>>

(* In any order: the code goes from the newest to the oldest.  A sidecar   *)
(* that cannot be read counts as none.                                     *)
Judge(w) ==
    /\ at[w] = "sweep"
    /\ \E e \in own[w].todo : \E read \in Through({e.gen}) :
        IF Protected(w.id, e, IF read = {} THEN None ELSE side[e.gen])
        THEN /\ own' = [own EXCEPT ![w].todo = @ \ {e},
                                   ![w].spare = @ \cup ({e.gen} \ read)]
             /\ UNCHANGED at
        ELSE Goto(w, "sweep", "remove") /\ own' = [own EXCEPT ![w].gen = e.gen]
    /\ UNCHANGED <<files, flow, prior>>

Remove(w) ==
    /\ \/ /\ Goto(w, "remove", "unside")
          /\ arts' = arts \ {own[w].gen}
          /\ newer' = {p \in newer : own[w].gen \notin {p[1], p[2]}}
          /\ young' = young \ {own[w].gen}
          /\ UNCHANGED <<own, flow>>
       \/ at[w] = "remove" /\ Fail(w) /\ UNCHANGED <<arts, newer, young>>
    /\ UNCHANGED <<side, ptr, staged, prior>>

Unside(w) ==
    /\ Goto(w, "unside", "sweep")
    /\ \/ side' = [side EXCEPT ![own[w].gen] = None]
       \/ "ignored" \in Faults /\ UNCHANGED side
    /\ own' = [own EXCEPT ![w] = Locals(None, None, own[w].spare,
                  {e \in own[w].todo : e.gen # own[w].gen})]
    /\ UNCHANGED <<arts, newer, young, ptr, staged, flow, prior>>

SweepDone(w) ==
    /\ own[w].todo = {}
    /\ IF w.kind = "delete"
       THEN Goto(w, "sweep", "clear") /\ UNCHANGED <<own, flow>>
       ELSE at[w] = "sweep" /\ Return(w)
    /\ UNCHANGED <<files, prior>>

Sweep(w) == \/ References(w) \/ List(w) \/ Judge(w) \/ Remove(w) \/ Unside(w)
            \/ SweepDone(w)

-----------------------------------------------------------------------------
(* Agent.Delete().                                                         *)

CallDelete(k) ==
    /\ k.kind = "delete"
    /\ Goto(k, "idle", "cancel")
    /\ deleting' = deleting \cup {Key(k)}
    /\ UNCHANGED <<files, own, cancelled, waiting, prior>>

(* Group.Cancel(): a live flight is cancelled and waited for.  The mutant  *)
(* does not wait.                                                          *)
CancelAndGo(k) ==
    /\ Goto(k, "cancel", "unpoint")
    /\ cancelled' = cancelled \cup ({FlightOf(k)} \cap
                       {f \in Flights : at[f] # "idle"})
    /\ UNCHANGED <<files, own, waiting, deleting, prior>>

Cancel(k) ==
    /\ IF at[FlightOf(k)] = "idle"
       THEN Goto(k, "cancel", "unpoint") /\ UNCHANGED <<cancelled, waiting>>
       ELSE /\ Goto(k, "cancel", "wait")
            /\ cancelled' = cancelled \cup {FlightOf(k)}
            /\ waiting' = waiting \cup {k}
    /\ UNCHANGED <<files, own, deleting, prior>>

FlightDone(k) ==
    /\ k \notin waiting
    /\ Goto(k, "wait", "unpoint")
    /\ UNCHANGED <<files, own, flow, prior>>

(* Mutant: the pointer is left for last.                                   *)
UnpointLast(k) ==
    /\ Goto(k, "unpoint", "refs")
    /\ UNCHANGED <<files, own, flow, prior>>

(* The pointer goes first.                                                 *)
Unpoint(k) ==
    /\ \/ /\ Goto(k, "unpoint", "refs")
          /\ ptr' = [ptr EXCEPT ![k.id] = None]
          /\ prior' = [prior EXCEPT ![k.id] = None]
          /\ UNCHANGED <<own, flow>>
       \/ at[k] = "unpoint" /\ Fail(k) /\ UNCHANGED <<ptr, prior>>
    /\ UNCHANGED <<arts, newer, young, side, staged>>

(* clearStaging(), of every agent's files for the identity.                *)
Clear(k) ==
    /\ at[k] = "clear"
    /\ \E gone \in Through({f \in staged : f.id = k.id}) : staged' = staged \ gone
    /\ Return(k)
    /\ UNCHANGED <<arts, newer, young, side, ptr, prior>>

(* Agent.PrunePrevious() reads the pointer, and sweeps the rest.           *)
CallPrune(k) ==
    /\ k.kind = "prune" /\ ptr[k.id] # None
    /\ Goto(k, "idle", "refs")
    /\ own' = [own EXCEPT ![k] = Locals(None, None, {ptr[k.id]}, {})]
    /\ UNCHANGED <<files, flow, prior>>

Call(k) == \/ CallDelete(k) \/ Cancel(k) \/ FlightDone(k) \/ Unpoint(k)
           \/ Clear(k) \/ CallPrune(k)

-----------------------------------------------------------------------------
(* An artifact is two minutes old.  Its sidecar is written by then, unless *)
(* its agent died or failed.                                               *)
Age(g) ==
    /\ g \in young
    /\ \A f \in Flights : at[f] = "sidecar" => own[f].gen # g
    /\ young' = young \ {g}
    /\ UNCHANGED <<arts, newer, side, ptr, staged, upstream, at, own, flow, prior>>

Publish(i) ==
    /\ \E g \in Offers[i] \ {upstream[i]} :
        /\ g > upstream[i] \/ "rollback" \in Faults
        /\ upstream' = [upstream EXCEPT ![i] = g]
    /\ UNCHANGED <<files, at, own, flow, prior>>

(* The agent dies; its staging files are swept when it starts again.       *)
Crash(a) ==
    LET dead == {w \in Actors : w.agent = a} IN
    /\ "crash" \in Faults
    /\ at' = [w \in Actors |-> IF w \in dead THEN "idle" ELSE at[w]]
    /\ own' = [w \in Actors |-> IF w \in dead THEN NoLocals ELSE own[w]]
    /\ staged' = staged \ dead
    /\ cancelled' = cancelled \ dead
    /\ waiting' = waiting \ dead
    /\ deleting' = {p \in deleting : p[1] # a}
    /\ UNCHANGED <<arts, newer, young, side, ptr, upstream, prior>>

Next ==
    \/ /\ \/ \E f \in Flights : Flight(f)
          \/ \E k \in Calls : Call(k)
          \/ \E w \in Actors : Sweep(w)
       /\ UNCHANGED upstream
    \/ \E g \in Gens : Age(g)
    \/ \E i \in Ids : Publish(i)
    \/ \E a \in Agents : Crash(a)

Spec == Init /\ [][Next]_vars

-----------------------------------------------------------------------------
(* Every variable has the shape of what it stands for.                     *)
TypeOK ==
    /\ arts \subseteq Gens /\ young \subseteq arts /\ newer \subseteq arts \X arts
    /\ side \in [Gens -> Ids \cup {None}]
    /\ ptr \in [Ids -> Gens \cup {None}] /\ prior \in [Ids -> Gens \cup {None}]
    /\ staged \subseteq Flights /\ cancelled \subseteq Flights
    /\ upstream \in [Ids -> Gens]
    /\ \A w \in Actors :
        /\ own[w].gen \in Gens \cup {None}
        /\ own[w].owner \in Ids \cup {None}
        /\ own[w].spare \subseteq Gens
        /\ own[w].todo \subseteq [gen : Gens, young : BOOLEAN]
    /\ waiting \subseteq Calls
    /\ deleting \subseteq Agents \X Ids

Resolves(i) == ptr[i] # None => ptr[i] \in arts /\ side[ptr[i]] # None

(* A pointer never names an artifact that is not there, or whose sidecar   *)
(* is not: what ensure answers "ready" can be fetched.                     *)
PointersResolve == \A i \in Ids : Resolves(i)

(* Identities no operator touches.                                         *)
Quiet == {i \in Ids : \A k \in Calls : k.id # i}

(* An operator's prune or delete can harm no identity but its own: the     *)
(* pointers of the others resolve, whatever the sweeps of their neighbours *)
(* do.                                                                     *)
NeighboursUnharmed == \A i \in Quiet : Resolves(i)

(* While a delete removes the files of an identity, its agent does not     *)
(* refresh it.                                                             *)
DeleteRunsAlone ==
    \A k \in Calls :
        (k.kind = "delete" /\ at[k] \notin {"idle", "cancel", "wait"})
            => at[FlightOf(k)] = "idle"

(* A delete that went through leaves no artifact of the identity behind,   *)
(* but those another identity's pointer names and those it could not read: *)
(* the directory entry, or the sidecar of a young one.  Of these it says   *)
(* nothing to its caller.                                                  *)
DeleteIsComplete ==
    \A k \in Calls :
        at[k] = "clear" => \A g \in arts : side[g] = k.id
                              => g \in Claimed(k.id) \cup own[k].spare

(* Retention: a host that was handed the generation served until the last  *)
(* refresh still finds it, unless an operator has cleared it away.         *)
PreviousIsKept == \A i \in Quiet : prior[i] # None => prior[i] \in arts
=============================================================================
