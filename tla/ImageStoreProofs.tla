-------------------------- MODULE ImageStoreProofs --------------------------
(***************************************************************************)
(* What the image pool keeps, proved for any agents, identities, offers    *)
(* and operators' calls.                                                   *)
(***************************************************************************)
EXTENDS ImageStore, TLAPS

-----------------------------------------------------------------------------
(* Actors and their places *)

Deletes == {k \in Calls : k.kind = "delete"}

\* Where an actor removes what it listed, and where it clears away.
Removing == {"sweep", "remove", "unside"}
Sweeping == {"refs", "list"} \cup Removing

\* Where a flight has a generation at hand.
Writing == {"restamp", "download", "promote", "sidecar", "pointer"}

PlacesOf(w) ==
  {"idle"} \cup Sweeping
    \cup (CASE w.kind = "refresh" -> Writing \cup {"probe", "retain"}
            [] w.kind = "delete"  -> {"cancel", "wait", "unpoint", "clear"}
            [] w.kind = "prune"   -> {})

Places == {"idle", "probe", "retain", "cancel", "wait", "unpoint", "clear"}
            \cup Sweeping \cup Writing

Listed     == [gen : Gens, young : BOOLEAN]
LocalsType == [gen : Gens \cup {None}, owner : Ids \cup {None},
               spare : SUBSET Gens, todo : SUBSET Listed]

\* What actors are: every call has a flight of its identity.
LEMMA ActorsAre ==
  /\ \A w \in Actors : /\ w.agent \in Agents /\ w.id \in Ids
                       /\ w.kind \in {"refresh", "delete", "prune"}
                       /\ w.kind = "refresh" <=> w \in Flights
                       /\ w.kind # "refresh" <=> w \in Calls
                       /\ FlightOf(w) \in Flights
                       /\ FlightOf(w).agent = w.agent /\ FlightOf(w).id = w.id
  /\ \A f \in Flights : FlightOf(f) = f
  /\ Flights \subseteq Actors /\ Calls \subseteq Actors
<1>1. Calls \subseteq CallType
  BY ImageAssumption
<1> QED
  BY <1>1 DEF Actors, Flights, CallType, FlightOf

-----------------------------------------------------------------------------
(* Every variable has its type *)

FilesTyped ==
  /\ arts \subseteq Gens /\ young \subseteq arts /\ newer \subseteq arts \X arts
  /\ side \in [Gens -> Ids \cup {None}]
  /\ ptr \in [Ids -> Gens \cup {None}]
  /\ prior \in [Ids -> Gens \cup {None}]
  /\ staged \subseteq Flights
  /\ upstream \in [Ids -> Gens]

FlowTyped ==
  /\ cancelled \subseteq Flights
  /\ waiting \subseteq Calls
  /\ deleting \subseteq Agents \X Ids
  /\ at \in [Actors -> Places]
  /\ own \in [Actors -> LocalsType]

\* Where an actor can be, and what it has at hand there.
AtHand ==
  \A w \in Actors :
    /\ at[w] \in PlacesOf(w)
    /\ at[w] \in Writing \cup {"remove", "unside"} => own[w].gen \in Gens
    /\ at[w] \in {"idle", "probe", "cancel", "wait", "unpoint"}
         => own[w] = NoLocals

Typed == FilesTyped /\ FlowTyped /\ AtHand

\* No locals are locals, and so are those an action sets.
LEMMA LocalsAre ==
  /\ NoLocals \in LocalsType
  /\ \A g \in Gens \cup {None}, i \in Ids \cup {None}, s \in SUBSET Gens,
        t \in SUBSET Listed :
       /\ Locals(g, i, s, t) \in LocalsType
       /\ Locals(g, i, s, t).gen = g
       /\ Locals(g, i, s, t).owner = i
       /\ Locals(g, i, s, t).spare = s
       /\ Locals(g, i, s, t).todo = t
  /\ NoLocals = Locals(None, None, {}, {})
  BY DEF Locals, NoLocals, LocalsType

\* The origin offers what Offers says, from the start.
LEMMA OffersAre ==
  /\ \A i \in Ids : Offers[i] \subseteq Gens
  /\ \A g \in Gens : \E i \in Ids : g \in Offers[i]
  /\ Gens \subseteq Nat
  /\ None \notin Gens /\ None \notin Ids
  BY ImageAssumption DEF Gens

\* A loop gets through what it was given or, as errors are ignored, less.
LEMMA ThroughIs ==
  ASSUME NEW S
  PROVE  /\ \A T \in Through(S) : T \subseteq S
         /\ "ignored" \notin Faults => Through(S) = {S}
  BY DEF Through

\* The type invariant holds at the start.
LEMMA TypedInit ==
  ASSUME Init
  PROVE  Typed
<1>1. FilesTyped
  BY DEF Init, FilesTyped
<1>2. FlowTyped
  BY LocalsAre DEF Init, FlowTyped, Places
<1>3. AtHand
  BY <1>2 DEF Init, AtHand, PlacesOf, Writing
<1> QED
  BY <1>1, <1>2, <1>3 DEF Typed

\* An actor that goes to one of its places, with what it needs at hand there,
\* keeps the types of all that is not a file.
LEMMA GoesTyped ==
  ASSUME Typed, NEW w \in Actors, NEW q \in PlacesOf(w), NEW l \in LocalsType,
         at' = [at EXCEPT ![w] = q], own' = [own EXCEPT ![w] = l],
         q \in Writing \cup {"remove", "unside"} => l.gen \in Gens,
         q \in {"idle", "probe", "cancel", "wait", "unpoint"} => l = NoLocals,
         cancelled' \subseteq Flights, waiting' \subseteq Calls,
         deleting' \subseteq Agents \X Ids
  PROVE  FlowTyped' /\ AtHand'
<1>1. PlacesOf(w) \subseteq Places
  BY ActorsAre DEF PlacesOf, Places
<1>2. FlowTyped'
  BY <1>1 DEF Typed, FlowTyped
<1>3. ASSUME NEW v \in Actors
      PROVE  /\ at'[v] \in PlacesOf(v)
             /\ at'[v] \in Writing \cup {"remove", "unside"}
                  => own'[v].gen \in Gens
             /\ at'[v] \in {"idle", "probe", "cancel", "wait", "unpoint"}
                  => own'[v] = NoLocals
  <2>1. CASE v = w
    BY <2>1 DEF Typed, FlowTyped
  <2>2. CASE v # w
    BY <2>2 DEF Typed, FlowTyped, AtHand
  <2> QED
    BY <2>1, <2>2
<1> QED
  BY <1>2, <1>3 DEF AtHand

\* An actor that is done keeps them too.
LEMMA ReturnTyped ==
  ASSUME Typed, NEW w \in Actors, Return(w)
  PROVE  FlowTyped' /\ AtHand'
<1>1. "idle" \in PlacesOf(w) /\ "idle" \notin Writing \cup {"remove", "unside"}
  BY DEF PlacesOf, Writing
<1>2. /\ cancelled' \subseteq Flights /\ waiting' \subseteq Calls
      /\ deleting' \subseteq Agents \X Ids
  BY DEF Typed, FlowTyped, Return
<1> QED
  BY <1>1, <1>2, GoesTyped, LocalsAre DEF Return

\* What is at hand of an actor: its local variables have their types, and its
\* place is one of its own.
LEMMA HandIs ==
  ASSUME Typed, NEW w \in Actors
  PROVE  /\ own[w] \in LocalsType
         /\ own[w].gen \in Gens \cup {None}
         /\ own[w].owner \in Ids \cup {None}
         /\ own[w].spare \subseteq Gens
         /\ own[w].todo \subseteq Listed
         /\ own = [own EXCEPT ![w] = own[w]]
         /\ at = [at EXCEPT ![w] = at[w]]
         /\ at[w] \in PlacesOf(w)
  BY DEF Typed, FlowTyped, AtHand, LocalsType

\* An actor that only moves on keeps them, if it has at hand what it needs.
LEMMA MovesTyped ==
  ASSUME Typed, NEW w \in Actors, NEW p, NEW q \in PlacesOf(w),
         Goto(w, p, q), UNCHANGED own,
         q \in Writing \cup {"remove", "unside"} => own[w].gen \in Gens,
         q \in {"idle", "probe", "cancel", "wait", "unpoint"}
           => own[w] = NoLocals,
         cancelled' \subseteq Flights, waiting' \subseteq Calls,
         deleting' \subseteq Agents \X Ids
  PROVE  FlowTyped' /\ AtHand'
<1>1. own[w] \in LocalsType /\ own' = [own EXCEPT ![w] = own[w]]
  BY HandIs
<1>2. at' = [at EXCEPT ![w] = q]
  BY DEF Goto
<1> QED
  BY <1>1, <1>2, GoesTyped

\* An actor that moves on and leaves the calls alone.
LEMMA FlowsTyped ==
  ASSUME Typed, UNCHANGED flow
  PROVE  /\ cancelled' \subseteq Flights /\ waiting' \subseteq Calls
         /\ deleting' \subseteq Agents \X Ids
  BY DEF Typed, FlowTyped, flow

\* An actor that goes on with other local variables keeps them.
LEMMA GoesOnTyped ==
  ASSUME Typed, NEW w \in Actors, NEW p, NEW q \in PlacesOf(w),
         NEW l \in LocalsType, Goto(w, p, q), own' = [own EXCEPT ![w] = l],
         UNCHANGED flow,
         q \in Writing \cup {"remove", "unside"} => l.gen \in Gens,
         q \notin {"idle", "probe", "cancel", "wait", "unpoint"}
  PROVE  FlowTyped' /\ AtHand'
<1>1. at' = [at EXCEPT ![w] = q]
  BY DEF Goto
<1> QED
  BY <1>1, GoesTyped, FlowsTyped

\* The steps of a flight keep the types.
LEMMA FlightTyped ==
  ASSUME Typed, NEW f \in Flights, Flight(f), UNCHANGED upstream
  PROVE  Typed'
<1>f. /\ f \in Actors /\ f.id \in Ids /\ Key(f) \in Agents \X Ids
      /\ f.kind = "refresh"
      /\ PlacesOf(f) = {"idle", "probe", "retain"} \cup Sweeping \cup Writing
  BY ActorsAre DEF Key, PlacesOf
<1>h. at[f] \in Writing \cup {"remove", "unside"} => own[f].gen \in Gens
  BY <1>f DEF Typed, AtHand
<1>1. ASSUME Start(f) PROVE Typed'
  <2>1. FilesTyped'
    BY <1>1 DEF Start, Typed, FilesTyped, files
  <2>2. FlowTyped' /\ AtHand'
    <3>1. Goto(f, "idle", "probe") /\ UNCHANGED <<own, flow>>
      BY <1>1 DEF Start
    <3>2. own[f] = NoLocals
      BY <3>1, <1>f DEF Goto, Typed, AtHand
    <3> QED
      BY <3>1, <3>2, <1>f, MovesTyped, FlowsTyped DEF Writing
  <2> QED
    BY <2>1, <2>2 DEF Typed
<1>2. ASSUME Probe(f) PROVE Typed'
  <2>1. FilesTyped'
    BY <1>2 DEF Probe, Typed, FilesTyped, files
  <2>2. upstream[f.id] \in Gens /\ side[upstream[f.id]] \in Ids \cup {None}
    BY <1>f DEF Typed, FilesTyped
  <2>3. FlowTyped' /\ AtHand'
    <3>1. CASE Return(f)
      BY <1>f, <3>1, ReturnTyped
    <3>2. CASE /\ Goto(f, "probe", "restamp") /\ UNCHANGED flow
               /\ own' = [own EXCEPT ![f] =
                            Locals(upstream[f.id], side[upstream[f.id]], {}, {})]
      <4>1. /\ Locals(upstream[f.id], side[upstream[f.id]], {}, {}) \in LocalsType
            /\ Locals(upstream[f.id], side[upstream[f.id]], {}, {}).gen \in Gens
        BY <2>2 DEF Locals, LocalsType
      <4> QED
        BY <1>f, <3>2, <4>1, GoesOnTyped DEF Writing
    <3>3. CASE /\ Goto(f, "probe", "download") /\ UNCHANGED flow
               /\ own' = [own EXCEPT ![f] = Locals(upstream[f.id], None, {}, {})]
      <4>1. /\ Locals(upstream[f.id], None, {}, {}) \in LocalsType
            /\ Locals(upstream[f.id], None, {}, {}).gen \in Gens
        BY <2>2 DEF Locals, LocalsType
      <4> QED
        BY <1>f, <3>3, <4>1, GoesOnTyped DEF Writing
    <3> QED
      BY <1>2, <3>1, <3>2, <3>3 DEF Probe
  <2> QED
    BY <2>1, <2>3 DEF Typed
<1>3. ASSUME Restamp(f) PROVE Typed'
  <2>1. FilesTyped'
    BY <1>3, <1>f, HandIs DEF Restamp, Typed, FilesTyped
  <2>2. FlowTyped' /\ AtHand'
    BY <1>3, <1>f, ReturnTyped DEF Restamp, Fail
  <2> QED
    BY <2>1, <2>2 DEF Typed
<1>4. ASSUME Download(f) PROVE Typed'
  <2>1. FilesTyped'
    <3>1. staged' \subseteq staged \cup {f} /\ UNCHANGED <<arts, newer, young, side, ptr, prior>>
      BY <1>4 DEF Download
    <3> QED
      BY <3>1 DEF Typed, FilesTyped
  <2>2. FlowTyped' /\ AtHand'
    <3>1. CASE Return(f)
      BY <1>f, <3>1, ReturnTyped
    <3>2. CASE Goto(f, "download", "promote") /\ UNCHANGED <<own, flow>>
      BY <3>2, <1>f, <1>h, MovesTyped, FlowsTyped DEF Goto, Writing
    <3> QED
      BY <1>4, <3>1, <3>2 DEF Download
  <2> QED
    BY <2>1, <2>2 DEF Typed
<1>5. ASSUME Promote(f) PROVE Typed'
  <2>1. FlowTyped' /\ AtHand'
    <3>1. CASE Return(f)
      BY <1>f, <3>1, ReturnTyped
    <3>2. CASE Goto(f, "promote", "sidecar") /\ UNCHANGED <<own, flow>>
      BY <3>2, <1>f, <1>h, MovesTyped, FlowsTyped DEF Goto, Writing
    <3> QED
      BY <1>5, <3>1, <3>2 DEF Promote
  <2>2. own[f].gen \in Gens
    BY <1>5, <1>f DEF Promote, Goto, Typed, AtHand, Writing
  <2>3. FilesTyped'
    <3>1. /\ UNCHANGED <<side, ptr, prior>>
          /\ staged' \subseteq staged
      BY <1>5 DEF Promote
    <3>2. CASE UNCHANGED <<arts, newer, young>>
      BY <3>1, <3>2 DEF Typed, FilesTyped
    <3>3. CASE /\ arts' = arts \cup {own[f].gen}
               /\ newer' = newer \cup ({own[f].gen} \X arts)
               /\ \/ young' = young \cup {own[f].gen} \/ UNCHANGED young
      BY <3>1, <3>3, <2>2 DEF Typed, FilesTyped
    <3> QED
      BY <1>5, <3>2, <3>3 DEF Promote
  <2> QED
    BY <2>1, <2>3 DEF Typed
<1>6. ASSUME CommitSidecar(f) PROVE Typed'
  <2>1. FilesTyped'
    BY <1>6, <1>f DEF CommitSidecar, Typed, FilesTyped
  <2>2. FlowTyped' /\ AtHand'
    <3>1. CASE Return(f)
      BY <1>f, <3>1, ReturnTyped
    <3>2. CASE Goto(f, "sidecar", "pointer") /\ UNCHANGED <<own, flow>>
      BY <3>2, <1>f, <1>h, MovesTyped, FlowsTyped DEF Goto, Writing
    <3> QED
      BY <1>6, <3>1, <3>2 DEF CommitSidecar, Fail
  <2> QED
    BY <2>1, <2>2 DEF Typed
<1>7. ASSUME CommitPointer(f) PROVE Typed'
  <2>1. FilesTyped'
    BY <1>7, <1>f, HandIs DEF CommitPointer, Typed, FilesTyped
  <2>2. FlowTyped' /\ AtHand'
    <3>1. CASE Return(f)
      BY <1>f, <3>1, ReturnTyped
    <3>2. CASE Goto(f, "pointer", "retain") /\ UNCHANGED <<own, flow>>
      BY <3>2, <1>f, <1>h, MovesTyped, FlowsTyped DEF Goto, Writing
    <3> QED
      BY <1>7, <3>1, <3>2 DEF CommitPointer, Fail
  <2> QED
    BY <2>1, <2>2 DEF Typed
<1>8. ASSUME Retain(f) PROVE Typed'
  <2>1. FilesTyped'
    BY <1>8 DEF Retain, Typed, FilesTyped, files
  <2>2. FlowTyped' /\ AtHand'
    <3>1. CASE Return(f)
      BY <1>f, <3>1, ReturnTyped
    <3>2. CASE /\ ptr[f.id] # None /\ Goto(f, "retain", "refs") /\ UNCHANGED flow
               /\ \E claimed \in Through(Claimed(f.id)) :
                  \E seen \in Through(arts \ claimed) :
                    own' = [own EXCEPT ![f] = Locals(None, None,
                              {ptr[f.id]} \cup Previous(f.id, seen), {})]
      <4>c. PICK claimed \in Through(Claimed(f.id)) :
              \E seen \in Through(arts \ claimed) :
                own' = [own EXCEPT ![f] = Locals(None, None,
                          {ptr[f.id]} \cup Previous(f.id, seen), {})]
        BY <3>2
      <4>1. PICK seen \in Through(arts \ claimed) :
              own' = [own EXCEPT ![f] = Locals(None, None,
                        {ptr[f.id]} \cup Previous(f.id, seen), {})]
        BY <4>c
      <4>2. seen \subseteq arts
        BY ThroughIs
      <4>3. {ptr[f.id]} \cup Previous(f.id, seen) \subseteq Gens
        BY <1>f, <3>2, <4>2 DEF Typed, FilesTyped, Previous, Mine
      <4>4. Locals(None, None, {ptr[f.id]} \cup Previous(f.id, seen), {}) \in LocalsType
        BY <4>3, LocalsAre
      <4> QED
        BY <3>2, <4>1, <4>4, <1>f, GoesOnTyped
           DEF Writing, Sweeping, Removing
    <3> QED
      BY <1>8, <3>1, <3>2 DEF Retain, Fail
  <2> QED
    BY <2>1, <2>2 DEF Typed
<1> QED
  BY <1>1, <1>2, <1>3, <1>4, <1>5, <1>6, <1>7, <1>8 DEF Flight

Listing(S) == {[gen |-> g, young |-> g \in young] : g \in S}

\* What a listing holds: one entry for each artifact that is not spared.
LEMMA ListingIs ==
  ASSUME NEW S, S \subseteq Gens
  PROVE  /\ Listing(S) \subseteq Listed
         /\ \A e \in Listing(S) : e.gen \in S /\ (e.young <=> e.gen \in young)
         /\ \A g \in S : \E e \in Listing(S) : e.gen = g
<1>1. ASSUME NEW e \in Listing(S)
      PROVE  e \in Listed /\ e.gen \in S /\ (e.young <=> e.gen \in young)
  <2>1. PICK g \in S : e = [gen |-> g, young |-> g \in young]
    BY DEF Listing
  <2>2. (g \in young) \in BOOLEAN
    OBVIOUS
  <2> QED
    BY <2>1, <2>2 DEF Listed
<1>2. ASSUME NEW g \in S PROVE \E e \in Listing(S) : e.gen = g
  <2>1. [gen |-> g, young |-> g \in young] \in Listing(S)
    BY DEF Listing
  <2> QED
    BY <2>1
<1> QED
  BY <1>1, <1>2

\* How a sweep judges an artifact it listed, by the owner it read.
OwnerRead(e, read) == IF read = {} THEN None ELSE side[e.gen]
Judges(w, e, read) ==
  IF Protected(w.id, e, OwnerRead(e, read))
  THEN /\ own' = [own EXCEPT ![w].todo = @ \ {e},
                             ![w].spare = @ \cup ({e.gen} \ read)]
       /\ UNCHANGED at
  ELSE Goto(w, "sweep", "remove") /\ own' = [own EXCEPT ![w].gen = e.gen]

\* So do the steps of a sweep,
LEMMA SweepTyped ==
  ASSUME Typed, NEW w \in Actors, Sweep(w), UNCHANGED upstream
  PROVE  Typed'
<1>w. /\ w.id \in Ids /\ Sweeping \subseteq PlacesOf(w)
      /\ w.kind = "delete" => "clear" \in PlacesOf(w)
      /\ Sweeping = {"refs", "list", "sweep", "remove", "unside"}
      /\ Sweeping \cap Writing = {}
  BY ActorsAre DEF PlacesOf, Sweeping, Removing, Writing
<1>h. /\ at[w] \in {"remove", "unside"} => own[w].gen \in Gens
      /\ own[w].gen \in Gens \cup {None} /\ own[w].spare \subseteq Gens
      /\ own[w].todo \subseteq Listed /\ own[w] \in LocalsType
  BY HandIs DEF Typed, AtHand
<1>1. ASSUME References(w) PROVE Typed'
  <2>1. FilesTyped'
    BY <1>1 DEF References, Typed, FilesTyped, files
  <2>2. PICK claimed \in Through(Claimed(w.id)) :
          own' = [own EXCEPT ![w] = [own[w] EXCEPT !.spare = @ \cup claimed]]
    BY <1>1 DEF References
  <2>3. claimed \subseteq Gens
    BY <1>w, ThroughIs DEF Claimed, Typed, FilesTyped
  <2>4. [own[w] EXCEPT !.spare = @ \cup claimed] \in LocalsType
    BY <1>h, <2>3 DEF LocalsType
  <2>5. FlowTyped' /\ AtHand'
    BY <1>1, <2>2, <2>4, <1>w, GoesOnTyped DEF References
  <2> QED
    BY <2>1, <2>5 DEF Typed
<1>2. ASSUME List(w) PROVE Typed'
  <2> DEFINE there == arts \ own[w].spare
  <2>1. FilesTyped'
    BY <1>2 DEF List, Typed, FilesTyped, files
  <2>2. CASE Fail(w)
    BY <2>1, <2>2, ReturnTyped DEF Fail, Typed
  <2>3. CASE /\ Goto(w, "list", "sweep") /\ UNCHANGED flow
             /\ \E seen \in Through(there) :
                  own' = [own EXCEPT ![w] =
                            Locals(None, None, there \ seen, Listing(seen))]
    <3>1. PICK seen \in Through(there) :
            own' = [own EXCEPT ![w] =
                      Locals(None, None, there \ seen, Listing(seen))]
      BY <2>3
    <3>2. seen \subseteq Gens /\ there \ seen \subseteq Gens
      BY ThroughIs DEF Typed, FilesTyped
    <3>3. Listing(seen) \subseteq Listed
      BY <3>2, ListingIs
    <3>4. Locals(None, None, there \ seen, Listing(seen)) \in LocalsType
      BY <3>2, <3>3, LocalsAre
    <3>5. FlowTyped' /\ AtHand'
      BY <2>3, <3>1, <3>4, <1>w, GoesOnTyped
    <3> QED
      BY <2>1, <3>5 DEF Typed
  <2> QED
    BY <1>2, <2>2, <2>3 DEF List, Listing
<1>3. ASSUME Judge(w) PROVE Typed'
  <2>1. FilesTyped'
    BY <1>3 DEF Judge, Typed, FilesTyped, files
  <2>e. PICK e \in own[w].todo : \E read \in Through({e.gen}) : Judges(w, e, read)
    BY <1>3 DEF Judge, Judges, OwnerRead
  <2>2. PICK read \in Through({e.gen}) : Judges(w, e, read)
    BY <2>e
  <2>3. at[w] = "sweep" /\ UNCHANGED flow
    BY <1>3 DEF Judge
  <2>4. e.gen \in Gens
    BY <1>h DEF Listed
  <2>5. CASE Protected(w.id, e, OwnerRead(e, read))
    <3> DEFINE l == [own[w] EXCEPT !.todo = @ \ {e}, !.spare = @ \cup ({e.gen} \ read)]
    <3>1. l \in LocalsType
      BY <1>h, <2>4 DEF LocalsType
    <3>2. Goto(w, "sweep", "sweep") /\ own' = [own EXCEPT ![w] = l]
      BY <2>2, <2>3, <2>5, HandIs DEF Goto, Judges
    <3> QED
      BY <2>1, <2>3, <3>1, <3>2, <1>w, GoesOnTyped DEF Typed
  <2>6. CASE ~Protected(w.id, e, OwnerRead(e, read))
    <3>1. /\ [own[w] EXCEPT !.gen = e.gen] \in LocalsType
          /\ [own[w] EXCEPT !.gen = e.gen].gen \in Gens
      BY <1>h, <2>4 DEF LocalsType
    <3> QED
      BY <2>1, <2>2, <2>3, <2>6, <3>1, <1>w, GoesOnTyped DEF Typed, Judges
  <2> QED
    BY <2>5, <2>6
<1>4. ASSUME Remove(w) PROVE Typed'
  <2>1. FilesTyped'
    BY <1>4 DEF Remove, Typed, FilesTyped
  <2>2. FlowTyped' /\ AtHand'
    <3>1. CASE Return(w)
      BY <3>1, ReturnTyped
    <3>2. CASE Goto(w, "remove", "unside") /\ UNCHANGED <<own, flow>>
      BY <3>2, <1>w, <1>h, MovesTyped, FlowsTyped DEF Goto
    <3> QED
      BY <1>4, <3>1, <3>2 DEF Remove, Fail
  <2> QED
    BY <2>1, <2>2 DEF Typed
<1>5. ASSUME Unside(w) PROVE Typed'
  <2>1. FilesTyped'
    BY <1>5, <1>h DEF Unside, Typed, FilesTyped
  <2> DEFINE t == {e \in own[w].todo : e.gen # own[w].gen}
  <2>2. Goto(w, "unside", "sweep")
        /\ own' = [own EXCEPT ![w] = Locals(None, None, own[w].spare, t)]
        /\ UNCHANGED flow
    BY <1>5 DEF Unside
  <2>3. t \subseteq Listed
    BY <1>h
  <2> HIDE DEF t
  <2>4. Locals(None, None, own[w].spare, t) \in LocalsType
    BY <1>h, <2>3, LocalsAre
  <2>5. FlowTyped' /\ AtHand'
    BY <2>2, <2>4, <1>w, GoesOnTyped
  <2> QED
    BY <2>1, <2>5 DEF Typed
<1>6. ASSUME SweepDone(w) PROVE Typed'
  <2>1. FilesTyped'
    BY <1>6 DEF SweepDone, Typed, FilesTyped, files
  <2>2. FlowTyped' /\ AtHand'
    <3>1. CASE Return(w)
      BY <3>1, ReturnTyped
    <3>2. CASE w.kind = "delete" /\ Goto(w, "sweep", "clear") /\ UNCHANGED <<own, flow>>
      BY <3>2, <1>w, MovesTyped, FlowsTyped DEF Writing
    <3> QED
      BY <1>6, <3>1, <3>2 DEF SweepDone
  <2> QED
    BY <2>1, <2>2 DEF Typed
<1> QED
  BY <1>1, <1>2, <1>3, <1>4, <1>5, <1>6 DEF Sweep

\* and those of a call.
LEMMA CallTyped ==
  ASSUME Typed, NEW k \in Calls, Call(k), UNCHANGED upstream
  PROVE  Typed'
<1>k. /\ k \in Actors /\ k.id \in Ids /\ Key(k) \in Agents \X Ids
      /\ FlightOf(k) \in Flights
      /\ "refs" \in PlacesOf(k)
      /\ k.kind = "delete" => {"cancel", "wait", "unpoint", "clear"} \subseteq PlacesOf(k)
      /\ at[k] \in {"idle", "cancel", "wait", "unpoint"} => own[k] = NoLocals
      /\ at[k] \in {"cancel", "wait", "unpoint"} => k.kind = "delete"
  BY ActorsAre DEF Key, PlacesOf, Sweeping, Typed, AtHand, Writing, Removing
<1>1. ASSUME CallDelete(k) PROVE Typed'
  <2>1. FilesTyped'
    BY <1>1 DEF CallDelete, Typed, FilesTyped, files
  <2>2. FlowTyped' /\ AtHand'
    <3>1. /\ cancelled' \subseteq Flights /\ waiting' \subseteq Calls
          /\ deleting' \subseteq Agents \X Ids
      BY <1>1, <1>k DEF CallDelete, Typed, FlowTyped
    <3> QED
      BY <1>1, <3>1, <1>k, MovesTyped DEF CallDelete, Goto, Writing
  <2> QED
    BY <2>1, <2>2 DEF Typed
<1>2. ASSUME Cancel(k) PROVE Typed'
  <2>1. FilesTyped'
    BY <1>2 DEF Cancel, Typed, FilesTyped, files
  <2>2. /\ cancelled' \subseteq Flights /\ waiting' \subseteq Calls
        /\ deleting' \subseteq Agents \X Ids
    BY <1>2, <1>k DEF Cancel, Typed, FlowTyped
  <2>3. PICK q \in {"unpoint", "wait"} : Goto(k, "cancel", q) /\ UNCHANGED own
    BY <1>2 DEF Cancel
  <2>4. at[k] = "cancel" /\ q \in PlacesOf(k) /\ q \notin Writing \cup {"remove", "unside"}
    BY <1>k, <2>3 DEF Goto, Writing
  <2>5. FlowTyped' /\ AtHand'
    BY <2>2, <2>3, <2>4, <1>k, MovesTyped
  <2> QED
    BY <2>1, <2>5 DEF Typed
<1>3. ASSUME FlightDone(k) PROVE Typed'
  <2>1. FilesTyped'
    BY <1>3 DEF FlightDone, Typed, FilesTyped, files
  <2>2. FlowTyped' /\ AtHand'
    BY <1>3, <1>k, MovesTyped, FlowsTyped DEF FlightDone, Goto, Writing
  <2> QED
    BY <2>1, <2>2 DEF Typed
<1>4. ASSUME Unpoint(k) PROVE Typed'
  <2>1. FilesTyped'
    BY <1>4, <1>k DEF Unpoint, Typed, FilesTyped
  <2>2. FlowTyped' /\ AtHand'
    <3>1. CASE Return(k)
      BY <1>k, <3>1, ReturnTyped
    <3>2. CASE Goto(k, "unpoint", "refs") /\ UNCHANGED <<own, flow>>
      BY <3>2, <1>k, MovesTyped, FlowsTyped DEF Writing
    <3> QED
      BY <1>4, <3>1, <3>2 DEF Unpoint, Fail
  <2> QED
    BY <2>1, <2>2 DEF Typed
<1>5. ASSUME Clear(k) PROVE Typed'
  <2>1. FilesTyped'
    <3>1. staged' \subseteq staged /\ UNCHANGED <<arts, newer, young, side, ptr, prior>>
      BY <1>5 DEF Clear
    <3> QED
      BY <1>5, <3>1 DEF Typed, FilesTyped
  <2>2. FlowTyped' /\ AtHand'
    BY <1>5, <1>k, ReturnTyped DEF Clear
  <2> QED
    BY <2>1, <2>2 DEF Typed
<1>6. ASSUME CallPrune(k) PROVE Typed'
  <2>1. FilesTyped'
    BY <1>6 DEF CallPrune, Typed, FilesTyped, files
  <2>2. ptr[k.id] \in Gens
    BY <1>6, <1>k DEF CallPrune, Typed, FilesTyped
  <2>3. Locals(None, None, {ptr[k.id]}, {}) \in LocalsType
    <3>1. /\ None \in Gens \cup {None} /\ None \in Ids \cup {None}
          /\ {ptr[k.id]} \in SUBSET Gens /\ {} \in SUBSET Listed
      BY <2>2
    <3> QED
      BY <3>1, LocalsAre, Zenon
  <2>4. FlowTyped' /\ AtHand'
    BY <1>6, <2>3, <1>k, GoesOnTyped DEF CallPrune, Writing
  <2> QED
    BY <2>1, <2>4 DEF Typed
<1> QED
  BY <1>1, <1>2, <1>3, <1>4, <1>5, <1>6 DEF Call

\* What an agent's death leaves of the actors.
LEMMA CrashLeaves ==
  ASSUME Typed, NEW a \in Agents, Crash(a)
  PROVE  /\ \A w \in Actors :
              /\ w.agent = a => at'[w] = "idle" /\ own'[w] = NoLocals
              /\ w.agent # a => at'[w] = at[w] /\ own'[w] = own[w]
         /\ at' \in [Actors -> Places] /\ own' \in [Actors -> LocalsType]
  BY LocalsAre DEF Crash, Typed, FlowTyped, Places

\* The type invariant is kept.
LEMMA TypedNext ==
  ASSUME Typed, [Next]_vars
  PROVE  Typed'
<1>1. CASE UNCHANGED vars
  BY <1>1 DEF vars, files, flow, Typed, FilesTyped, FlowTyped, AtHand
<1>2. ASSUME NEW f \in Flights, Flight(f), UNCHANGED upstream PROVE Typed'
  BY <1>2, FlightTyped
<1>3. ASSUME NEW k \in Calls, Call(k), UNCHANGED upstream PROVE Typed'
  BY <1>3, CallTyped
<1>4. ASSUME NEW w \in Actors, Sweep(w), UNCHANGED upstream PROVE Typed'
  BY <1>4, SweepTyped
<1>5. ASSUME NEW g \in Gens, Age(g) PROVE Typed'
  BY <1>5 DEF Age, flow, Typed, FilesTyped, FlowTyped, AtHand
<1>6. ASSUME NEW i \in Ids, Publish(i) PROVE Typed'
  <2>1. upstream' \in [Ids -> Gens]
    BY <1>6, OffersAre DEF Publish, Typed, FilesTyped
  <2> QED
    BY <1>6, <2>1 DEF Publish, files, flow, Typed, FilesTyped, FlowTyped, AtHand
<1>7. ASSUME NEW a \in Agents, Crash(a) PROVE Typed'
  <2>1. FilesTyped'
    BY <1>7 DEF Crash, Typed, FilesTyped
  <2>2. FlowTyped'
    BY <1>7, CrashLeaves DEF Crash, Typed, FlowTyped
  <2>3. AtHand'
    <3>1. \A w \in Actors : "idle" \in PlacesOf(w)
      BY DEF PlacesOf
    <3> QED
      BY <1>7, <3>1, CrashLeaves DEF Typed, AtHand, Writing
  <2> QED
    BY <2>1, <2>2, <2>3 DEF Typed
<1> QED
  BY <1>1, <1>2, <1>3, <1>4, <1>5, <1>6, <1>7 DEF Next

\* Every variable has the shape of what it stands for, at all times.
THEOREM TypeCorrect == Spec => []TypeOK
<1>1. Init => Typed
  BY TypedInit
<1>2. Typed /\ [Next]_vars => Typed'
  BY TypedNext
<1>3. Typed => TypeOK
  BY DEF Typed, FilesTyped, FlowTyped, LocalsType, Listed, TypeOK
<1> QED
  BY <1>1, <1>2, <1>3, PTL DEF Spec

-----------------------------------------------------------------------------
(* A delete runs alone *)

\* No two deletes of one identity by one agent are under way at once: the
\* second to end would find the flag lowered by the first.
DeletesApart == \A k, l \in Deletes : Key(k) = Key(l) => k = l

\* The flag of a delete that is under way is up, and unless it still waits
\* for the flight of its identity, that flight is over.
Locks ==
  \A k \in Deletes :
    /\ at[k] # "idle" => Key(k) \in deleting
    /\ k \in waiting => at[k] = "wait"
    /\ at[k] \notin {"idle", "cancel"} /\ k \notin waiting
         => at[FlightOf(k)] = "idle"

Moves(w, q) == at' = [at EXCEPT ![w] = q] /\ UNCHANGED <<waiting, deleting>>

\* A sweep returns or moves on.
LEMMA SweepMoves ==
  ASSUME Typed, NEW w \in Actors, Sweep(w)
  PROVE  /\ at[w] \in Sweeping
         /\ \/ Return(w)
            \/ \E q \in Sweeping \cup {"clear"} : Moves(w, q)
<1>1. CASE References(w) \/ List(w) \/ Remove(w) \/ Unside(w)
  BY <1>1 DEF References, List, Remove, Unside, Fail, Goto, Moves, flow,
              Sweeping, Removing
<1>2. CASE Judge(w)
  <2>1. at[w] = "sweep" /\ UNCHANGED <<waiting, deleting>>
        /\ (UNCHANGED at \/ at' = [at EXCEPT ![w] = "remove"])
    BY <1>2 DEF Judge, Goto, flow
  <2>2. at = [at EXCEPT ![w] = at[w]]
    BY HandIs
  <2> QED
    BY <2>1, <2>2 DEF Moves, Sweeping, Removing
<1>3. CASE SweepDone(w)
  BY <1>3 DEF SweepDone, Goto, Moves, flow, Sweeping, Removing
<1> QED
  BY <1>1, <1>2, <1>3 DEF Sweep

\* So does a flight, and it starts only if its identity is not being deleted.
LEMMA FlightMoves ==
  ASSUME Typed, NEW f \in Flights, Flight(f) \/ Sweep(f)
  PROVE  \/ Return(f)
         \/ /\ \E q : Moves(f, q)
            /\ at[f] = "idle" => Key(f) \notin deleting
<1>1. CASE Sweep(f)
  <2>1. "idle" \notin Sweeping
    BY DEF Sweeping, Removing
  <2> QED
    BY <1>1, <2>1, SweepMoves, ActorsAre
<1>2. CASE Flight(f)
  BY <1>2 DEF Flight, Start, Probe, Restamp, Download, Promote, CommitSidecar,
     CommitPointer, Retain, Fail, Goto, Moves, flow
<1> QED
  BY <1>1, <1>2

\* The steps of a flight keep the locks,
LEMMA FlightLocks ==
  ASSUME Typed, Locks, NEW f \in Flights, Flight(f) \/ Sweep(f)
  PROVE  Locks'
<1> SUFFICES ASSUME NEW k \in Deletes
             PROVE  /\ at'[k] # "idle" => Key(k) \in deleting'
                    /\ k \in waiting' => at'[k] = "wait"
                    /\ at'[k] \notin {"idle", "cancel"} /\ k \notin waiting'
                         => at'[FlightOf(k)] = "idle"
  BY DEF Locks
<1>1. /\ k \in Calls /\ k \in Actors /\ f \in Actors /\ k # f
      /\ f.kind = "refresh" /\ FlightOf(k) \in Actors
      /\ FlightOf(k) = f => Key(k) = Key(f)
  BY ActorsAre DEF Deletes, Key
<1>2. /\ at[k] # "idle" => Key(k) \in deleting
      /\ k \in waiting => at[k] = "wait"
      /\ at[k] \notin {"idle", "cancel"} /\ k \notin waiting
           => at[FlightOf(k)] = "idle"
      /\ at \in [Actors -> Places]
  BY DEF Locks, Typed, FlowTyped
<1>3. CASE Return(f)
  BY <1>1, <1>2, <1>3 DEF Return
<1>4. ASSUME NEW q, Moves(f, q), at[f] = "idle" => Key(f) \notin deleting
      PROVE  /\ at'[k] # "idle" => Key(k) \in deleting'
             /\ k \in waiting' => at'[k] = "wait"
             /\ at'[k] \notin {"idle", "cancel"} /\ k \notin waiting'
                  => at'[FlightOf(k)] = "idle"
  BY <1>1, <1>2, <1>4 DEF Moves
<1> QED
  BY <1>3, <1>4, FlightMoves

\* and so do those of a call,
LEMMA CallLocks ==
  ASSUME Typed, Locks, DeletesApart, NEW w \in Calls, Call(w) \/ Sweep(w)
  PROVE  Locks'
<1> SUFFICES ASSUME NEW k \in Deletes
             PROVE  /\ at'[k] # "idle" => Key(k) \in deleting'
                    /\ k \in waiting' => at'[k] = "wait"
                    /\ at'[k] \notin {"idle", "cancel"} /\ k \notin waiting'
                         => at'[FlightOf(k)] = "idle"
  BY DEF Locks
<1>1. /\ k \in Calls /\ k \in Actors /\ w \in Actors
      /\ FlightOf(k) \in Actors /\ FlightOf(k) # w /\ FlightOf(k) # k
      /\ w.kind # "refresh"
      /\ w.kind = "delete" /\ k # w => Key(k) # Key(w)
      /\ k.kind = "delete"
  BY ActorsAre DEF Deletes, DeletesApart
<1>2. /\ at[k] # "idle" => Key(k) \in deleting
      /\ k \in waiting => at[k] = "wait"
      /\ at[k] \notin {"idle", "cancel"} /\ k \notin waiting
           => at[FlightOf(k)] = "idle"
      /\ at \in [Actors -> Places]
  BY DEF Locks, Typed, FlowTyped
<1>3. CASE Return(w) /\ at[w] # "wait"
  <2>1. /\ at' = [at EXCEPT ![w] = "idle"] /\ waiting' = waiting
        /\ deleting' = IF w.kind = "delete" THEN deleting \ {Key(w)}
                       ELSE deleting
    BY <1>1, <1>3 DEF Return
  <2>2. CASE k = w
    BY <1>1, <1>2, <1>3, <2>1, <2>2
  <2>3. CASE k # w
    BY <1>1, <1>2, <2>1, <2>3
  <2> QED
    BY <2>2, <2>3
<1>4. CASE Sweep(w)
  <2>1. /\ at[w] \in {"refs", "list", "sweep", "remove", "unside"}
    BY <1>1, <1>4, SweepMoves DEF Sweeping, Removing
  <2>2. ASSUME NEW q \in Sweeping \cup {"clear"}, Moves(w, q)
        PROVE  /\ at'[k] # "idle" => Key(k) \in deleting'
               /\ k \in waiting' => at'[k] = "wait"
               /\ at'[k] \notin {"idle", "cancel"} /\ k \notin waiting'
                    => at'[FlightOf(k)] = "idle"
    BY <1>1, <1>2, <2>1, <2>2 DEF Moves
  <2> QED
    BY <1>1, <1>3, <1>4, <2>1, <2>2, SweepMoves
<1>5. CASE Call(w)
  <2>1. CASE CallDelete(w)
    BY <1>1, <1>2, <2>1 DEF CallDelete, Goto
  <2>2. CASE Cancel(w)
    BY <1>1, <1>2, <2>2 DEF Cancel, Goto
  <2>3. CASE FlightDone(w)
    BY <1>1, <1>2, <2>3 DEF FlightDone, Goto, flow
  <2>4. CASE Unpoint(w)
    BY <1>1, <1>2, <1>3, <2>4 DEF Unpoint, Goto, Fail, flow
  <2>5. CASE Clear(w)
    BY <1>3, <2>5 DEF Clear
  <2>6. CASE CallPrune(w)
    BY <1>1, <1>2, <2>6 DEF CallPrune, Goto, flow
  <2> QED
    BY <1>5, <2>1, <2>2, <2>3, <2>4, <2>5, <2>6 DEF Call
<1> QED
  BY <1>4, <1>5

\* and an agent's death.
LEMMA CrashLocks ==
  ASSUME Typed, Locks, NEW a \in Agents, Crash(a)
  PROVE  Locks'
<1> SUFFICES ASSUME NEW k \in Deletes
             PROVE  /\ at'[k] # "idle" => Key(k) \in deleting'
                    /\ k \in waiting' => at'[k] = "wait"
                    /\ at'[k] \notin {"idle", "cancel"} /\ k \notin waiting'
                         => at'[FlightOf(k)] = "idle"
  BY DEF Locks
<1>1. /\ k \in Calls /\ k \in Actors /\ FlightOf(k) \in Actors
      /\ FlightOf(k).agent = k.agent /\ Key(k)[1] = k.agent
  BY ActorsAre DEF Deletes, Key
<1>2. /\ at[k] # "idle" => Key(k) \in deleting
      /\ k \in waiting => at[k] = "wait"
      /\ at[k] \notin {"idle", "cancel"} /\ k \notin waiting
           => at[FlightOf(k)] = "idle"
  BY DEF Locks
<1>3. /\ waiting' = waiting \ {w \in Actors : w.agent = a}
      /\ deleting' = {p \in deleting : p[1] # a}
  BY DEF Crash
<1>4. CASE k.agent = a
  BY <1>1, <1>3, <1>4, CrashLeaves
<1>5. CASE k.agent # a
  BY <1>1, <1>2, <1>3, <1>5, CrashLeaves
<1> QED
  BY <1>4, <1>5

\* The locks are kept.
LEMMA LocksNext ==
  ASSUME Typed, Locks, DeletesApart, [Next]_vars
  PROVE  Locks'
<1>1. CASE UNCHANGED vars
  BY <1>1 DEF vars, flow, Locks
<1>2. CASE (\E f \in Flights : Flight(f)) \/ (\E k \in Calls : Call(k))
             \/ (\E w \in Actors : Sweep(w))
  BY <1>2, FlightLocks, CallLocks DEF Actors
<1>3. CASE (\E g \in Gens : Age(g)) \/ (\E i \in Ids : Publish(i))
  BY <1>3 DEF Age, Publish, flow, Locks
<1>4. CASE \E a \in Agents : Crash(a)
  BY <1>4, CrashLocks
<1> QED
  BY <1>1, <1>2, <1>3, <1>4 DEF Next

\* The locks hold at all times, whatever fails, dies or is offered.
LEMMA LocksHold ==
  ASSUME DeletesApart
  PROVE  Spec => [](Typed /\ Locks)
<1>1. Init => Typed /\ Locks
  BY TypedInit, ActorsAre DEF Init, Locks, Deletes
<1>2. Typed /\ Locks /\ [Next]_vars => (Typed /\ Locks)'
  BY TypedNext, LocksNext
<1> QED
  BY <1>1, <1>2, PTL DEF Spec

\* While a delete removes the files of an identity, its agent does not
\* refresh it: with any number of agents and identities, beside prunes and
\* other deletes, whatever fails and whoever dies.
THEOREM DeletesRunAlone ==
  ASSUME DeletesApart
  PROVE  Spec => []DeleteRunsAlone
<1>1. Locks => DeleteRunsAlone
  BY DEF Locks, DeleteRunsAlone, Deletes
<1> QED
  BY <1>1, LocksHold, PTL

-----------------------------------------------------------------------------
(* Whose artifact is whose *)

\* No two identities offer the same bytes.
OffersApart == \A i, j \in Ids : i # j => Offers[i] \cap Offers[j] = {}

\* The files of an identity name generations it offers, and the sidecars of
\* these name no other identity;
Labels ==
  \A i \in Ids :
    /\ upstream[i] \in Offers[i]
    /\ ptr[i] \in Offers[i] \cup {None}
    /\ \A g \in Offers[i] : side[g] \in {None, i}

\* a flight has at hand what its identity offers.
Hands ==
  \A f \in Flights :
    /\ at[f] \in Writing => own[f].gen \in Offers[f.id]
    /\ own[f].owner \in {None, f.id}

\* A flight and a sweep leave the actors other than itself alone.
LEMMA OthersStay ==
  ASSUME Typed, NEW w \in Actors, Sweep(w) \/ Return(w)
           \/ (w \in Flights /\ Flight(w)) \/ (w \in Calls /\ Call(w))
  PROVE  \A v \in Actors : v # w => at'[v] = at[v] /\ own'[v] = own[v]
<1>1. at \in [Actors -> Places] /\ own \in [Actors -> LocalsType]
  BY DEF Typed, FlowTyped
<1>2. CASE Sweep(w)
  BY <1>1, <1>2 DEF Sweep, References, List, Judge, Remove, Unside, SweepDone,
     Goto, Return, Fail
<1>3. CASE w \in Flights /\ Flight(w)
  BY <1>1, <1>3 DEF Flight, Start, Probe, Restamp, Download, Promote,
     CommitSidecar, CommitPointer, Retain, Goto, Return, Fail
<1>4. CASE w \in Calls /\ Call(w)
  BY <1>1, <1>4 DEF Call, CallDelete, Cancel, FlightDone, Unpoint, Clear,
     CallPrune, Goto, Return, Fail
<1>5. CASE Return(w)
  BY <1>1, <1>5 DEF Return
<1> QED
  BY <1>2, <1>3, <1>4, <1>5

\* The steps of a flight keep the labels,
LEMMA FlightLabels ==
  ASSUME Typed, Labels, Hands, OffersApart, NEW f \in Flights, Flight(f),
         UNCHANGED upstream
  PROVE  Labels' /\ Hands'
<1>1. f \in Actors /\ f.id \in Ids
  BY ActorsAre
<1>2. /\ at \in [Actors -> Places] /\ own \in [Actors -> LocalsType]
      /\ side \in [Gens -> Ids \cup {None}] /\ ptr \in [Ids -> Gens \cup {None}]
  BY DEF Typed, FlowTyped, FilesTyped
<1>3. /\ at[f] \in Writing => own[f].gen \in Offers[f.id] /\ own[f].gen \in Gens
      /\ own[f].owner \in {None, f.id}
      /\ upstream[f.id] \in Offers[f.id] /\ upstream[f.id] \in Gens
      /\ side[upstream[f.id]] \in {None, f.id}
  BY <1>1, OffersAre DEF Labels, Hands
<1>4. \A g \in Flights : g # f => at'[g] = at[g] /\ own'[g] = own[g]
  BY <1>1, OthersStay, ActorsAre
<1>5. ASSUME at'[f] \in Writing => own'[f].gen \in Offers[f.id],
             own'[f].owner \in {None, f.id}
      PROVE  Hands'
  BY <1>4, <1>5 DEF Hands
<1>6. ASSUME NEW g \in Offers[f.id], NEW i \in {None, f.id},
             side' = [side EXCEPT ![g] = i], UNCHANGED ptr
      PROVE  Labels'
  BY <1>1, <1>2, <1>6, OffersAre DEF Labels, OffersApart
<1>7. ASSUME UNCHANGED <<side, ptr>> PROVE Labels'
  BY <1>7 DEF Labels
<1>8. ASSUME Return(f) PROVE Hands'
  <2>1. at'[f] = "idle" /\ own'[f] = NoLocals
    BY <1>1, <1>2, <1>8 DEF Return
  <2> QED
    BY <1>5, <2>1 DEF NoLocals, Locals, Writing
<1>9. ASSUME UNCHANGED own, at[f] \in Writing PROVE Hands'
  BY <1>3, <1>5, <1>9
<1>10. CASE Start(f)
  BY <1>1, <1>2, <1>3, <1>5, <1>7, <1>10 DEF Start, Goto, Writing, files
<1>11. CASE Probe(f)
  <2>1. Labels'
    BY <1>7, <1>11 DEF Probe, files
  <2>2. CASE own' = [own EXCEPT ![f] =
                       Locals(upstream[f.id], side[upstream[f.id]], {}, {})]
    BY <1>1, <1>2, <1>3, <1>5, <2>1, <2>2 DEF Locals
  <2>3. CASE own' = [own EXCEPT ![f] = Locals(upstream[f.id], None, {}, {})]
    BY <1>1, <1>2, <1>3, <1>5, <2>1, <2>3 DEF Locals
  <2> QED
    BY <1>8, <1>11, <2>1, <2>2, <2>3 DEF Probe
<1>12. CASE Restamp(f)
  BY <1>3, <1>6, <1>7, <1>8, <1>12 DEF Restamp, Writing, Fail
<1>13. CASE Download(f)
  BY <1>7, <1>8, <1>9, <1>13 DEF Download, Goto, Writing
<1>14. CASE Promote(f)
  BY <1>7, <1>8, <1>9, <1>14 DEF Promote, Goto, Writing
<1>15. CASE CommitSidecar(f)
  BY <1>3, <1>6, <1>7, <1>8, <1>9, <1>15 DEF CommitSidecar, Goto, Writing, Fail
<1>16. CASE CommitPointer(f)
  <2>1. CASE Fail(f) /\ UNCHANGED ptr
    BY <1>7, <1>8, <1>16, <2>1 DEF CommitPointer, Fail
  <2>2. CASE Goto(f, "pointer", "retain") /\ ptr' = [ptr EXCEPT ![f.id] = own[f].gen]
             /\ UNCHANGED own
    <3>1. own[f].gen \in Offers[f.id] /\ UNCHANGED side
      BY <1>3, <1>16, <2>2 DEF CommitPointer, Goto, Writing
    <3>2. Labels'
      BY <1>1, <1>2, <2>2, <3>1 DEF Labels
    <3> QED
      BY <1>9, <2>2, <3>2 DEF Goto, Writing
  <2> QED
    BY <1>16, <2>1, <2>2 DEF CommitPointer
<1>17. CASE Retain(f)
  <2>1. Labels'
    BY <1>7, <1>17 DEF Retain, files
  <2>2. CASE /\ Goto(f, "retain", "refs")
             /\ \E s : own' = [own EXCEPT ![f] = Locals(None, None, s, {})]
    BY <1>1, <1>2, <1>5, <2>1, <2>2 DEF Locals, Goto, Writing
  <2> QED
    BY <1>8, <1>17, <2>1, <2>2 DEF Retain, Fail
<1> QED
  BY <1>10, <1>11, <1>12, <1>13, <1>14, <1>15, <1>16, <1>17 DEF Flight

\* so do those of a sweep,
LEMMA SweepLabels ==
  ASSUME Typed, Labels, Hands, NEW w \in Actors, Sweep(w), UNCHANGED upstream
  PROVE  Labels' /\ Hands'
<1>1. /\ at \in [Actors -> Places] /\ own \in [Actors -> LocalsType]
      /\ side \in [Gens -> Ids \cup {None}]
  BY DEF Typed, FlowTyped, FilesTyped
<1>2. \A v \in Actors : v # w => at'[v] = at[v] /\ own'[v] = own[v]
  BY OthersStay
<1>3. Labels'
  <2>1. UNCHANGED ptr
        /\ (UNCHANGED side \/ \E g : side' = [side EXCEPT ![g] = None])
    BY DEF Sweep, References, List, Judge, Remove, Unside, SweepDone, files
  <2> QED
    BY <1>1, <2>1, OffersAre DEF Labels
<1>4. at'[w] \notin Writing
  <2>1. Sweeping \cap Writing = {} /\ "clear" \notin Writing /\ "idle" \notin Writing
    BY DEF Sweeping, Removing, Writing
  <2> QED
    BY <1>1, <2>1, SweepMoves DEF Moves, Return
<1>5. own'[w].owner \in {None, own[w].owner}
  <2>1. CASE Return(w)
    BY <1>1, <2>1 DEF Return, Locals, NoLocals
  <2>3. CASE References(w) \/ Judge(w)
    BY <1>1, <2>3 DEF References, Judge, Goto, LocalsType
  <2>4. CASE List(w)
    BY <1>1, <2>1, <2>4 DEF List, Fail, Locals
  <2>5. CASE Remove(w) \/ Unside(w) \/ SweepDone(w)
    BY <1>1, <2>1, <2>5 DEF Remove, Unside, SweepDone, Fail, Locals
  <2> QED
    BY <2>1, <2>3, <2>4, <2>5 DEF Sweep
<1> QED
  BY <1>2, <1>3, <1>4, <1>5, ActorsAre DEF Hands

\* and all others.
LEMMA LabelsNext ==
  ASSUME Typed, Labels, Hands, OffersApart, [Next]_vars
  PROVE  Labels' /\ Hands'
<1>1. CASE UNCHANGED vars
  BY <1>1 DEF vars, files, Labels, Hands
<1>2. ASSUME NEW f \in Flights, Flight(f), UNCHANGED upstream
      PROVE  Labels' /\ Hands'
  BY <1>2, FlightLabels
<1>3. ASSUME NEW w \in Actors, Sweep(w), UNCHANGED upstream
      PROVE  Labels' /\ Hands'
  BY <1>3, SweepLabels
<1>4. ASSUME NEW k \in Calls, Call(k), UNCHANGED upstream
      PROVE  Labels' /\ Hands'
  <2>1. \A f \in Flights : at'[f] = at[f] /\ own'[f] = own[f]
    BY <1>4, OthersStay, ActorsAre
  <2>2. UNCHANGED side
        /\ (UNCHANGED ptr \/ ptr' = [ptr EXCEPT ![k.id] = None])
    BY <1>4 DEF Call, CallDelete, Cancel, FlightDone, Unpoint, Clear,
       CallPrune, files
  <2>3. Labels'
    BY <1>4, <2>2 DEF Labels, Typed, FilesTyped
  <2> QED
    BY <2>1, <2>3 DEF Hands
<1>5. ASSUME NEW g \in Gens, Age(g) PROVE Labels' /\ Hands'
  BY <1>5 DEF Age, Labels, Hands
<1>6. ASSUME NEW i \in Ids, Publish(i) PROVE Labels' /\ Hands'
  BY <1>6 DEF Publish, files, Labels, Hands, Typed, FilesTyped
<1>7. ASSUME NEW a \in Agents, Crash(a) PROVE Labels' /\ Hands'
  <2>1. Labels'
    BY <1>7 DEF Crash, Labels
  <2> QED
    BY <1>7, <2>1, CrashLeaves, ActorsAre
       DEF Hands, Writing, NoLocals, Locals
<1> QED
  BY <1>1, <1>2, <1>3, <1>4, <1>5, <1>6, <1>7 DEF Next

\* They hold at the start.
LEMMA LabelsInit ==
  ASSUME Init
  PROVE  Labels /\ Hands
  BY ActorsAre, OffersAre DEF Init, Labels, Hands, Writing, NoLocals, Locals

-----------------------------------------------------------------------------
(* A delete leaves nothing behind *)

\* The lease keeps all agents but one from writing.
OneAgent == \A a, b \in Agents : a = b

\* A delete does not spare what its identity offers, and lists all artifacts
\* of the identity that it can read: they are listed until they are gone.
OnList(k, g) == g \in own[k].spare \/ \E e \in own[k].todo : e.gen = g
Lists ==
  \A k \in Deletes :
    /\ at[k] = "refs" => own[k].spare = {}
    /\ at[k] = "list" => own[k].spare \cap Offers[k.id] = {}
    /\ at[k] \in Removing =>
         \A g \in arts : side[g] = k.id => OnList(k, g)
    /\ at[k] = "unside" /\ own[k].gen \in arts => side[own[k].gen] # k.id
    /\ at[k] = "clear" => \A g \in arts : side[g] = k.id => g \in own[k].spare

\* An artifact whose sidecar names an identity is one the identity offers.
LEMMA LabelledIsOffered ==
  ASSUME Labels, NEW i \in Ids
  PROVE  \A g \in Gens : side[g] = i => g \in Offers[i]
  BY OffersAre DEF Labels

\* The flight of an identity is that of every call on it.
LEMMA FlightIsOne ==
  ASSUME OneAgent
  PROVE  \A w \in Actors : \A f \in Flights : f.id = w.id => f = FlightOf(w)
<1> SUFFICES ASSUME NEW w \in Actors, NEW f \in Flights, f.id = w.id
             PROVE  f = FlightOf(w)
  OBVIOUS
<1>1. f = [kind |-> "refresh", agent |-> f.agent, id |-> f.id, n |-> 1]
  BY DEF Flights
<1>2. f \in Actors /\ f.agent = w.agent
  BY ActorsAre DEF OneAgent
<1> QED
  BY <1>1, <1>2 DEF FlightOf

\* While the files of a deleted identity are removed, no other step makes an
\* artifact the identity's.
LEMMA NothingComes ==
  ASSUME Typed, Labels, Hands, Locks, OneAgent, OffersApart, [Next]_vars,
         NEW k \in Deletes, at[k] \in Sweeping \cup {"clear"}
  PROVE  \A g \in arts' : side'[g] = k.id => g \in arts /\ side[g] = k.id
<1> DEFINE Same == \A g \in arts' : side'[g] = k.id => g \in arts /\ side[g] = k.id
<1>1. /\ k \in Actors /\ k.id \in Ids
      /\ arts \subseteq Gens /\ side \in [Gens -> Ids \cup {None}]
      /\ at[FlightOf(k)] = "idle"
  <2>1. at[k] \notin {"idle", "cancel", "wait"}
    BY DEF Sweeping, Removing
  <2> QED
    BY <2>1, ActorsAre DEF Deletes, Typed, FilesTyped, Locks
<1>2. ASSUME NEW f \in Flights, Flight(f) PROVE Same
  <2>1. CASE f.id = k.id
    <3>1. at[f] = "idle"
      BY <1>1, <2>1, FlightIsOne
    <3>2. Start(f)
      BY <1>2, <3>1 DEF Flight, Probe, Restamp, Download, Promote,
         CommitSidecar, CommitPointer, Retain, Goto
    <3> QED
      BY <3>2 DEF Start, files
  <2>2. CASE f.id # k.id
    <3>1. at[f] \in Writing =>
            /\ own[f].gen \in Gens /\ own[f].owner # k.id
            /\ side[own[f].gen] # k.id
      <4>1. f \in Actors /\ f.id \in Ids /\ k.id # None
        BY <1>1, ActorsAre, OffersAre
      <4>2. at[f] \in Writing => own[f].gen \in Offers[f.id]
                                 /\ own[f].owner \in {None, f.id}
        BY DEF Hands
      <4> QED
        BY <2>2, <4>1, <4>2, OffersAre DEF Labels
    <3>2. CASE Promote(f)
      BY <1>1, <3>1, <3>2 DEF Promote, Goto, Writing
    <3>3. CASE Restamp(f)
      BY <1>1, <3>1, <3>3 DEF Restamp, Writing
    <3>4. CASE CommitSidecar(f)
      BY <1>1, <2>2, <3>1, <3>4 DEF CommitSidecar, Goto, Writing
    <3>5. CASE Start(f) \/ Probe(f) \/ Download(f) \/ CommitPointer(f) \/ Retain(f)
      BY <3>5 DEF Start, Probe, Download, CommitPointer, Retain, files
    <3> QED
      BY <1>2, <3>2, <3>3, <3>4, <3>5 DEF Flight
  <2> QED
    BY <2>1, <2>2
<1>3. ASSUME NEW w \in Actors, Sweep(w) PROVE Same
  <2>1. k.id # None
    BY <1>1, OffersAre
  <2>2. arts' \subseteq arts
        /\ (UNCHANGED side \/ \E g : side' = [side EXCEPT ![g] = None])
    BY <1>3 DEF Sweep, References, List, Judge, Remove, Unside, SweepDone, files
  <2> QED
    BY <1>1, <2>1, <2>2
<1>4. ASSUME NEW c \in Calls, Call(c) PROVE Same
  BY <1>4 DEF Call, CallDelete, Cancel, FlightDone, Unpoint, Clear, CallPrune,
     files
<1>5. CASE UNCHANGED vars
  BY <1>5 DEF vars, files
<1>6. CASE \/ \E g \in Gens : Age(g)
           \/ \E i \in Ids : Publish(i)
           \/ \E a \in Agents : Crash(a)
  BY <1>6 DEF Age, Publish, Crash, files
<1> QED
  BY <1>2, <1>3, <1>4, <1>5, <1>6 DEF Next

\* What the sweep of a delete does to its list.
LEMMA DeleteLists ==
  ASSUME Typed, Labels, Lists, OffersApart, NEW k \in Deletes, Sweep(k)
  PROVE  /\ at'[k] = "refs" => own'[k].spare = {}
         /\ at'[k] = "list" => own'[k].spare \cap Offers[k.id] = {}
         /\ at'[k] \in Removing =>
              \A g \in arts' : side'[g] = k.id => OnList(k, g)'
         /\ at'[k] = "unside" /\ own'[k].gen \in arts' => side'[own'[k].gen] # k.id
         /\ at'[k] = "clear" =>
              \A g \in arts' : side'[g] = k.id => g \in own'[k].spare
<1> DEFINE Rest ==
         /\ at'[k] = "refs" => own'[k].spare = {}
         /\ at'[k] = "list" => own'[k].spare \cap Offers[k.id] = {}
         /\ at'[k] \in Removing =>
              \A g \in arts' : side'[g] = k.id => OnList(k, g)'
         /\ at'[k] = "unside" /\ own'[k].gen \in arts' => side'[own'[k].gen] # k.id
         /\ at'[k] = "clear" =>
              \A g \in arts' : side'[g] = k.id => g \in own'[k].spare
<1>1. /\ k \in Actors /\ k.id \in Ids /\ k.id # None
      /\ arts \subseteq Gens /\ side \in [Gens -> Ids \cup {None}]
      /\ ptr \in [Ids -> Gens \cup {None}]
      /\ at \in [Actors -> Places] /\ own \in [Actors -> LocalsType]
      /\ own[k] \in LocalsType
  BY ActorsAre, OffersAre, HandIs DEF Deletes, Typed, FilesTyped, FlowTyped
<1>2. /\ at[k] = "refs" => own[k].spare = {}
      /\ at[k] = "list" => own[k].spare \cap Offers[k.id] = {}
      /\ at[k] \in Removing => \A g \in arts : side[g] = k.id => OnList(k, g)
      /\ at[k] = "unside" /\ own[k].gen \in arts => side[own[k].gen] # k.id
  BY DEF Lists
<1>3. ASSUME Return(k) PROVE Rest
  BY <1>1, <1>3 DEF Return, Removing
<1>4. ASSUME References(k) PROVE Rest
  <2>1. Claimed(k.id) \cap Offers[k.id] = {}
    BY <1>1, OffersAre DEF Claimed, Labels, OffersApart
  <2>2. at'[k] = "list" /\ own'[k].spare \subseteq Claimed(k.id)
    <3>1. PICK claimed \in Through(Claimed(k.id)) :
            own' = [own EXCEPT ![k].spare = @ \cup claimed]
      BY <1>4 DEF References
    <3>2. at[k] = "refs" /\ at'[k] = "list"
      BY <1>1, <1>4 DEF References, Goto
    <3> QED
      BY <1>1, <1>2, <3>1, <3>2, ThroughIs DEF LocalsType
  <2> QED
    BY <2>1, <2>2 DEF Removing
<1>5. ASSUME List(k) PROVE Rest
  <2> DEFINE there == arts \ own[k].spare
  <2>1. CASE Fail(k)
    BY <1>3, <2>1 DEF Fail
  <2>2. CASE /\ Goto(k, "list", "sweep")
             /\ \E seen \in Through(there) :
                  own' = [own EXCEPT ![k] =
                            Locals(None, None, there \ seen, Listing(seen))]
    <3>1. PICK seen \in Through(there) :
            own' = [own EXCEPT ![k] =
                      Locals(None, None, there \ seen, Listing(seen))]
      BY <2>2
    <3>2. /\ at[k] = "list" /\ at'[k] = "sweep" /\ UNCHANGED <<arts, side>>
          /\ own'[k].spare = there \ seen /\ own'[k].todo = Listing(seen)
      BY <1>1, <1>5, <2>2, <3>1 DEF List, Goto, Locals, files
    <3>3. \A g \in arts : side[g] = k.id => g \in there
      BY <1>1, <1>2, <3>2, LabelledIsOffered
    <3>4. seen \subseteq Gens
      BY <1>1, ThroughIs
    <3> QED
      BY <3>2, <3>3, <3>4, ListingIs DEF OnList
  <2> QED
    BY <1>5, <2>1, <2>2 DEF List, Listing
<1>6. ASSUME Judge(k) PROVE Rest
  <2>e. PICK e \in own[k].todo : \E read \in Through({e.gen}) : Judges(k, e, read)
    BY <1>6 DEF Judge, Judges, OwnerRead
  <2>1. PICK read \in Through({e.gen}) : Judges(k, e, read)
    BY <2>e
  <2>2. at[k] = "sweep" /\ UNCHANGED <<arts, side>>
    BY <1>6 DEF Judge, files
  <2>3. CASE Protected(k.id, e, OwnerRead(e, read))
    <3>1. /\ at'[k] = "sweep" /\ own'[k].todo = own[k].todo \ {e}
          /\ own'[k].spare = own[k].spare \cup ({e.gen} \ read)
      BY <1>1, <2>1, <2>2, <2>3 DEF LocalsType, Judges
    <3>2. side[e.gen] # k.id \/ e.gen \in own'[k].spare
      <4>1. CASE e.gen \in read
        BY <1>1, <2>3, <4>1 DEF Protected, OwnerRead
      <4> QED
        BY <3>1, <4>1
    <3> QED
      BY <1>2, <2>2, <3>1, <3>2 DEF Removing, OnList
  <2>4. CASE ~Protected(k.id, e, OwnerRead(e, read))
    <3>1. at'[k] = "remove" /\ own'[k].todo = own[k].todo /\ own'[k].spare = own[k].spare
      BY <1>1, <2>1, <2>4 DEF Goto, LocalsType, Judges
    <3> QED
      BY <1>2, <2>2, <3>1 DEF Removing, OnList
  <2> QED
    BY <2>3, <2>4
<1>7. ASSUME Remove(k) PROVE Rest
  BY <1>1, <1>2, <1>3, <1>7 DEF Remove, Goto, Fail, Removing, OnList
<1>8. ASSUME Unside(k) PROVE Rest
  <2>1. /\ at[k] = "unside" /\ at'[k] = "sweep" /\ UNCHANGED arts
        /\ own'[k].todo = {e \in own[k].todo : e.gen # own[k].gen}
        /\ own'[k].spare = own[k].spare
        /\ (side' = [side EXCEPT ![own[k].gen] = None] \/ UNCHANGED side)
    BY <1>1, <1>8 DEF Unside, Goto, Locals
  <2>2. own[k].gen \in arts => side[own[k].gen] # k.id
    BY <1>2, <2>1
  <2>3. ASSUME NEW g \in arts, side'[g] = k.id PROVE OnList(k, g)'
    <3>1. g # own[k].gen /\ side[g] = k.id
      BY <1>1, <2>1, <2>2, <2>3
    <3> QED
      BY <1>2, <2>1, <3>1 DEF Removing, OnList
  <2> QED
    BY <2>1, <2>3
<1>9. ASSUME SweepDone(k) PROVE Rest
  <2>1. at[k] = "sweep" /\ own[k].todo = {} /\ UNCHANGED <<arts, side>>
    BY <1>9 DEF SweepDone, files, Goto
  <2>2. \A g \in arts : side[g] = k.id => g \in own[k].spare
    BY <1>2, <2>1 DEF Removing, OnList
  <2>3. CASE Goto(k, "sweep", "clear") /\ UNCHANGED own
    BY <1>1, <2>1, <2>2, <2>3 DEF Goto, Removing
  <2> QED
    BY <1>3, <1>9, <2>3 DEF SweepDone
<1> QED
  BY <1>4, <1>5, <1>6, <1>7, <1>8, <1>9 DEF Sweep

\* The lists are kept.
LEMMA ListsNext ==
  ASSUME Typed, Labels, Hands, Locks, Lists, OneAgent, OffersApart, [Next]_vars
  PROVE  Lists'
<1> SUFFICES ASSUME NEW k \in Deletes
             PROVE  /\ at'[k] = "refs" => own'[k].spare = {}
                    /\ at'[k] = "list" => own'[k].spare \cap Offers[k.id] = {}
                    /\ at'[k] \in Removing =>
                         \A g \in arts' : side'[g] = k.id => OnList(k, g)'
                    /\ at'[k] = "unside" /\ own'[k].gen \in arts' =>
                         side'[own'[k].gen] # k.id
                    /\ at'[k] = "clear" =>
                         \A g \in arts' : side'[g] = k.id => g \in own'[k].spare
  BY DEF Lists
<1> DEFINE Rest ==
         /\ at'[k] = "refs" => own'[k].spare = {}
         /\ at'[k] = "list" => own'[k].spare \cap Offers[k.id] = {}
         /\ at'[k] \in Removing =>
              \A g \in arts' : side'[g] = k.id => OnList(k, g)'
         /\ at'[k] = "unside" /\ own'[k].gen \in arts' => side'[own'[k].gen] # k.id
         /\ at'[k] = "clear" =>
              \A g \in arts' : side'[g] = k.id => g \in own'[k].spare
<1>1. /\ k \in Actors /\ k \in Calls /\ k \notin Flights /\ k.kind = "delete"
      /\ at \in [Actors -> Places] /\ own \in [Actors -> LocalsType]
  BY ActorsAre DEF Deletes, Typed, FlowTyped
<1>2. /\ at[k] = "refs" => own[k].spare = {}
      /\ at[k] = "list" => own[k].spare \cap Offers[k.id] = {}
      /\ at[k] \in Removing => \A g \in arts : side[g] = k.id => OnList(k, g)
      /\ at[k] = "unside" /\ own[k].gen \in arts => side[own[k].gen] # k.id
      /\ at[k] = "clear" => \A g \in arts : side[g] = k.id => g \in own[k].spare
  BY DEF Lists
<1>3. at[k] \in Sweeping \cup {"clear"}
        => \A g \in arts' : side'[g] = k.id => g \in arts /\ side[g] = k.id
  BY NothingComes
<1>4. ASSUME at'[k] = at[k], own'[k] = own[k] PROVE Rest
  BY <1>2, <1>3, <1>4 DEF Sweeping, Removing, OnList
<1>5. ASSUME at'[k] \in {"idle", "cancel", "wait", "unpoint"} PROVE Rest
  BY <1>5 DEF Removing
<1>6. CASE UNCHANGED vars
  BY <1>4, <1>6 DEF vars
<1>7. ASSUME NEW w \in Actors, w # k,
             Sweep(w) \/ (w \in Flights /\ Flight(w)) \/ (w \in Calls /\ Call(w))
      PROVE  Rest
  BY <1>1, <1>4, <1>7, OthersStay
<1>8. ASSUME Sweep(k) PROVE Rest
  BY <1>8, DeleteLists
<1>9. ASSUME Call(k) PROVE Rest
  <2>1. CASE Unpoint(k)
    <3>1. CASE Goto(k, "unpoint", "refs") /\ UNCHANGED own
      <4>1. own[k].spare = {}
        BY <1>1, <3>1 DEF Goto, Typed, AtHand, NoLocals, Locals
      <4> QED
        BY <1>1, <3>1, <4>1 DEF Goto, Removing
    <3>2. CASE Return(k)
      BY <1>1, <1>5, <3>2 DEF Return
    <3> QED
      BY <2>1, <3>1, <3>2 DEF Unpoint, Fail
  <2>2. CASE CallDelete(k) \/ Cancel(k) \/ FlightDone(k) \/ Clear(k)
    BY <1>1, <1>5, <2>2 DEF CallDelete, Cancel, FlightDone, Clear, Return, Goto
  <2> QED
    BY <1>1, <1>9, <2>1, <2>2 DEF Call, CallPrune
<1>10. ASSUME (\E g \in Gens : Age(g)) \/ (\E i \in Ids : Publish(i)) PROVE Rest
  BY <1>4, <1>10 DEF Age, Publish
<1>11. ASSUME NEW a \in Agents, Crash(a) PROVE Rest
  BY <1>1, <1>4, <1>5, <1>11, CrashLeaves
<1> QED
  BY <1>1, <1>6, <1>7, <1>8, <1>9, <1>10, <1>11, ActorsAre DEF Next

\* A delete that went through leaves no artifact of its identity behind, but
\* those another identity's pointer names and those it could not read:
\* whatever fails, dies or is rolled back meanwhile, and whatever is
\* refreshed, pruned or deleted beside it.
THEOREM DeletesAreComplete ==
  ASSUME OneAgent, OffersApart, DeletesApart
  PROVE  Spec => []DeleteIsComplete
<1>1. Init => Labels /\ Hands /\ Lists
  BY LabelsInit, ActorsAre DEF Init, Lists, Removing, Deletes
<1>2. ASSUME Typed, Locks, Labels, Hands, Lists, [Next]_vars
      PROVE  (Labels /\ Hands /\ Lists)'
  BY <1>2, LabelsNext, ListsNext
<1>3. Typed /\ Lists => DeleteIsComplete
  <2>1. Typed => \A k \in Calls : at[k] = "clear" => k \in Deletes
    BY ActorsAre DEF Typed, AtHand, PlacesOf, Sweeping, Removing, Writing, Deletes
  <2> QED
    BY <2>1 DEF Lists, DeleteIsComplete
<1> QED
  BY <1>1, <1>2, <1>3, LocksHold, PTL DEF Spec

-----------------------------------------------------------------------------
(* The pointer of an identity that has the directory for itself *)

OneIdentity == \A i, j \in Ids : i = j
NoPrunes    == \A k \in Calls : k.kind # "prune"

\* What a flight is about to serve is there, with its sidecar once that is
\* written; and what it removes is not what is served.
Prepared(f) ==
  /\ at[f] = "restamp" => own[f].owner # None
  /\ at[f] \in {"sidecar", "pointer"} => own[f].gen \in arts
  /\ at[f] = "pointer" => side[own[f].gen] # None
Spares(f) ==
  /\ at[f] \in {"refs", "list"} => ptr[f.id] \in own[f].spare
  /\ at[f] \in Removing => \A e \in own[f].todo : e.gen # ptr[f.id]
  /\ at[f] \in {"remove", "unside"} => own[f].gen # ptr[f.id]

Serves == \A f \in Flights : Prepared(f) /\ Spares(f)

\* What a delete clears away is served no more.
Unserved == \A k \in Deletes : at[k] \in Sweeping \cup {"clear"} => ptr[k.id] = None

Safe == PointersResolve /\ Serves /\ Unserved

\* All that acts is one flight and the deletes of its identity, which act
\* while the flight is over.
LEMMA OnlyActors ==
  ASSUME Typed, Locks, OneAgent, OneIdentity, NoPrunes, NEW f \in Flights
  PROVE  /\ \A g \in Flights : g = f
         /\ \A i \in Ids : i = f.id
         /\ \A k \in Calls :
              /\ k \in Deletes /\ k # f
              /\ at[f] # "idle" => at[k] \in {"idle", "cancel", "wait"}
<1>1. \A w \in Actors : FlightOf(w) = f
  BY FlightIsOne, ActorsAre DEF OneIdentity
<1>2. \A g \in Flights : g = f
  BY <1>1, ActorsAre
<1>3. \A k \in Calls : k \in Deletes /\ k # f
  BY ActorsAre DEF NoPrunes, Deletes
<1>4. \A k \in Calls : at[f] # "idle" => at[k] \in {"idle", "cancel", "wait"}
  BY <1>1, <1>3, ActorsAre DEF Locks
<1> QED
  BY <1>2, <1>3, <1>4, ActorsAre DEF OneIdentity

\* A flight keeps what it serves.
LEMMA FlightServes ==
  ASSUME Typed, Locks, Safe, OneAgent, OneIdentity, NoPrunes,
         NEW f \in Flights, Flight(f)
  PROVE  Safe'
<1> DEFINE i == f.id
<1>1. /\ f \in Actors /\ i \in Ids /\ i # None /\ (\A j \in Ids : j = i)
      /\ \A g \in Flights : g = f
      /\ \A k \in Deletes : /\ k \in Actors /\ k # f /\ k.id = i
                            /\ at[f] # "idle" => at[k] \in {"idle", "cancel", "wait"}
  BY OnlyActors, ActorsAre, OffersAre DEF Deletes
<1>2. /\ at \in [Actors -> Places] /\ own \in [Actors -> LocalsType]
      /\ side \in [Gens -> Ids \cup {None}] /\ ptr \in [Ids -> Gens \cup {None}]
      /\ arts \subseteq Gens
      /\ at[f] \in Writing => own[f].gen \in Gens
  BY <1>1 DEF Typed, FlowTyped, FilesTyped, AtHand
<1>3. Resolves(i) /\ Prepared(f) /\ Spares(f)
  BY <1>1 DEF Safe, PointersResolve, Serves
<1>4. \A k \in Deletes : at'[k] = at[k]
  BY <1>1, OthersStay
<1>5. ASSUME Resolves(i)', Prepared(f)', Spares(f)', at[f] # "idle" \/ UNCHANGED ptr
      PROVE  Safe'
  <2>1. Unserved'
    BY <1>1, <1>4, <1>5 DEF Safe, Unserved, Sweeping, Removing
  <2>2. Serves'
    BY <1>1, <1>5 DEF Serves
  <2>3. PointersResolve'
    BY <1>1, <1>5 DEF PointersResolve
  <2> QED
    BY <2>1, <2>2, <2>3 DEF Safe
<1>6. ASSUME at'[f] \in {"idle", "probe", "download", "promote", "retain"}
      PROVE  Prepared(f)' /\ Spares(f)'
  BY <1>6 DEF Prepared, Spares, Removing
<1>7. ASSUME Return(f) PROVE at'[f] = "idle"
  BY <1>1, <1>2, <1>7 DEF Return
<1>8. CASE Start(f)
  BY <1>1, <1>2, <1>3, <1>5, <1>6, <1>8 DEF Start, Goto, files, Resolves
<1>9. CASE Probe(f)
  <2>1. Resolves(i)' /\ UNCHANGED ptr
    BY <1>3, <1>9 DEF Probe, files, Resolves
  <2>2. CASE /\ side[upstream[i]] # None /\ Goto(f, "probe", "restamp")
             /\ own' = [own EXCEPT ![f] =
                          Locals(upstream[i], side[upstream[i]], {}, {})]
    <3>1. at'[f] = "restamp" /\ own'[f].owner # None
      BY <1>1, <1>2, <2>2 DEF Goto, Locals
    <3>2. Prepared(f)' /\ Spares(f)'
      BY <3>1 DEF Prepared, Spares, Removing
    <3> QED
      BY <1>5, <2>1, <3>2
  <2>3. CASE Goto(f, "probe", "download")
    BY <1>1, <1>2, <1>5, <1>6, <2>1, <2>3 DEF Goto
  <2> QED
    BY <1>5, <1>6, <1>7, <1>9, <2>1, <2>2, <2>3 DEF Probe
<1>10. CASE Restamp(f)
  <2>1. at[f] = "restamp" /\ UNCHANGED <<arts, ptr>>
        /\ (side' = [side EXCEPT ![own[f].gen] = own[f].owner] \/ UNCHANGED side)
        /\ Return(f)
    BY <1>10 DEF Restamp, Fail
  <2>2. Resolves(i)'
    BY <1>2, <1>3, <2>1 DEF Resolves, Prepared
  <2> QED
    BY <1>5, <1>6, <1>7, <2>1, <2>2
<1>11. CASE Download(f)
  <2>1. Resolves(i)' /\ UNCHANGED ptr
    BY <1>3, <1>11 DEF Download, Resolves
  <2>2. at'[f] \in {"idle", "promote"}
    BY <1>1, <1>2, <1>7, <1>11 DEF Download, Goto
  <2> QED
    BY <1>5, <1>6, <2>1, <2>2
<1>12. CASE Promote(f)
  <2>1. Resolves(i)' /\ UNCHANGED ptr
    BY <1>3, <1>12 DEF Promote, Resolves
  <2>2. CASE Goto(f, "promote", "sidecar") /\ UNCHANGED own /\ own[f].gen \in arts'
    <3>1. at'[f] = "sidecar"
      BY <1>1, <1>2, <2>2 DEF Goto
    <3>2. Prepared(f)' /\ Spares(f)'
      BY <2>2, <3>1 DEF Prepared, Spares, Removing
    <3> QED
      BY <1>5, <2>1, <3>2
  <2> QED
    BY <1>5, <1>6, <1>7, <1>12, <2>1, <2>2 DEF Promote
<1>13. CASE CommitSidecar(f)
  <2>1. at[f] = "sidecar" /\ UNCHANGED <<arts, ptr>>
    BY <1>13 DEF CommitSidecar, Goto
  <2>2. CASE Return(f) /\ UNCHANGED side
    BY <1>3, <1>5, <1>6, <1>7, <2>1, <2>2 DEF Resolves
  <2>3. CASE /\ Goto(f, "sidecar", "pointer") /\ UNCHANGED own
             /\ side' = [side EXCEPT ![own[f].gen] = i]
    <3>1. at'[f] = "pointer" /\ own'[f] = own[f] /\ own[f].gen \in Gens
      BY <1>1, <1>2, <2>3 DEF Goto, Writing
    <3>2. Resolves(i)'
      BY <1>1, <1>2, <1>3, <2>1, <2>3 DEF Resolves
    <3>3. Prepared(f)' /\ Spares(f)'
      BY <1>1, <1>2, <1>3, <2>1, <2>3, <3>1 DEF Prepared, Spares, Removing
    <3> QED
      BY <1>5, <2>1, <3>2, <3>3
  <2> QED
    BY <1>13, <2>2, <2>3 DEF CommitSidecar, Fail
<1>14. CASE CommitPointer(f)
  <2>1. at[f] = "pointer" /\ UNCHANGED <<arts, side>>
    BY <1>14 DEF CommitPointer, Goto
  <2>2. CASE Return(f) /\ UNCHANGED ptr
    BY <1>3, <1>5, <1>6, <1>7, <2>1, <2>2 DEF Resolves
  <2>3. CASE Goto(f, "pointer", "retain") /\ ptr' = [ptr EXCEPT ![i] = own[f].gen]
    <3>1. at'[f] = "retain"
      BY <1>1, <1>2, <2>3 DEF Goto
    <3>2. Resolves(i)'
      BY <1>1, <1>2, <1>3, <2>1, <2>3 DEF Resolves, Prepared
    <3> QED
      BY <1>5, <1>6, <2>1, <3>1, <3>2
  <2> QED
    BY <1>14, <2>2, <2>3 DEF CommitPointer, Fail
<1>15. CASE Retain(f)
  <2>1. Resolves(i)' /\ UNCHANGED ptr
    BY <1>3, <1>15 DEF Retain, files, Resolves
  <2>2. CASE /\ Goto(f, "retain", "refs")
             /\ \E s : own' = [own EXCEPT ![f] =
                                 Locals(None, None, {ptr[i]} \cup s, {})]
    <3>1. at'[f] = "refs" /\ ptr[i] \in own'[f].spare
      BY <1>1, <1>2, <2>2 DEF Goto, Locals
    <3>2. Prepared(f)' /\ Spares(f)'
      BY <2>1, <3>1 DEF Prepared, Spares, Removing
    <3> QED
      BY <1>5, <2>1, <3>2
  <2> QED
    BY <1>5, <1>6, <1>7, <1>15, <2>1, <2>2 DEF Retain, Fail
<1> QED
  BY <1>8, <1>9, <1>10, <1>11, <1>12, <1>13, <1>14, <1>15 DEF Flight

\* The sweep of a flight spares what is served.
LEMMA SweepSpares ==
  ASSUME Typed, NEW f \in Flights, Sweep(f), Resolves(f.id), Spares(f)
  PROVE  /\ Resolves(f.id)' /\ Spares(f)' /\ UNCHANGED ptr
         /\ at'[f] \notin {"restamp", "sidecar", "pointer"}
<1> DEFINE i == f.id
<1>1. /\ f \in Actors /\ i \in Ids
      /\ at \in [Actors -> Places] /\ own \in [Actors -> LocalsType]
      /\ side \in [Gens -> Ids \cup {None}] /\ ptr \in [Ids -> Gens \cup {None}]
      /\ arts \subseteq Gens /\ own[f] \in LocalsType
  BY ActorsAre, HandIs DEF Typed, FlowTyped, FilesTyped
<1>2. UNCHANGED ptr
  BY DEF Sweep, References, List, Judge, Remove, Unside, SweepDone, files
<1>3. at'[f] \notin {"restamp", "sidecar", "pointer"}
  BY <1>1, SweepMoves DEF Moves, Return, Sweeping, Removing
<1>4. ASSUME Return(f) PROVE Spares(f)'
  BY <1>1, <1>4 DEF Return, Spares, Removing
<1>5. CASE References(f)
  BY <1>1, <1>2, <1>3, <1>5 DEF References, Goto, Spares, Resolves, Removing,
     LocalsType, files
<1>6. CASE List(f)
  <2>1. CASE Fail(f)
    BY <1>2, <1>3, <1>4, <1>6, <2>1 DEF List, files, Resolves, Fail
  <2>2. CASE /\ Goto(f, "list", "sweep")
             /\ \E s : \E seen \in Through(arts \ own[f].spare) :
                  own' = [own EXCEPT ![f] = Locals(None, None, s, Listing(seen))]
    <3>s. PICK s : \E seen \in Through(arts \ own[f].spare) :
            own' = [own EXCEPT ![f] = Locals(None, None, s, Listing(seen))]
      BY <2>2
    <3>1. PICK seen \in Through(arts \ own[f].spare) :
            own' = [own EXCEPT ![f] = Locals(None, None, s, Listing(seen))]
      BY <3>s
    <3>2. /\ at[f] = "list" /\ at'[f] = "sweep" /\ UNCHANGED <<arts, side>>
          /\ own'[f].todo = Listing(seen)
      BY <1>1, <1>6, <2>2, <3>1 DEF List, Goto, Locals, files
    <3>3. seen \subseteq arts \ own[f].spare /\ seen \subseteq Gens
      BY <1>1, ThroughIs
    <3>4. \A e \in own'[f].todo : e.gen # ptr[i]
      BY <3>2, <3>3, ListingIs DEF Spares
    <3> QED
      BY <1>2, <1>3, <3>2, <3>4 DEF Spares, Resolves
  <2> QED
    BY <1>6, <2>1, <2>2 DEF List, Listing
<1>7. CASE Judge(f)
  <2>e. PICK e \in own[f].todo : \E read \in Through({e.gen}) : Judges(f, e, read)
    BY <1>7 DEF Judge, Judges, OwnerRead
  <2>1. PICK read \in Through({e.gen}) : Judges(f, e, read)
    BY <2>e
  <2>2. at[f] = "sweep" /\ UNCHANGED <<arts, side>>
    BY <1>7 DEF Judge, files
  <2>3. CASE Protected(i, e, OwnerRead(e, read))
    BY <1>1, <1>2, <1>3, <2>1, <2>2, <2>3
       DEF Spares, Resolves, Removing, LocalsType, Judges
  <2>4. CASE ~Protected(i, e, OwnerRead(e, read))
    BY <1>1, <1>2, <1>3, <2>1, <2>2, <2>4
       DEF Spares, Resolves, Removing, LocalsType, Goto, Judges
  <2> QED
    BY <2>3, <2>4
<1>8. CASE Remove(f)
  <2>1. CASE Return(f) /\ UNCHANGED <<arts, side>>
    BY <1>2, <1>3, <1>4, <2>1 DEF Resolves
  <2>2. CASE /\ Goto(f, "remove", "unside") /\ UNCHANGED <<own, side>>
             /\ arts' = arts \ {own[f].gen}
    BY <1>1, <1>2, <1>3, <2>2 DEF Spares, Resolves, Removing, Goto
  <2> QED
    BY <1>8, <2>1, <2>2 DEF Remove, Fail
<1>9. CASE Unside(f)
  BY <1>1, <1>2, <1>3, <1>9 DEF Unside, Goto, Locals, Spares, Resolves, Removing
<1>10. CASE SweepDone(f)
  <2>1. UNCHANGED <<arts, side>> /\ Return(f)
    BY <1>10, ActorsAre DEF SweepDone, files
  <2> QED
    BY <1>2, <1>3, <1>4, <2>1 DEF Resolves
<1> QED
  BY <1>5, <1>6, <1>7, <1>8, <1>9, <1>10 DEF Sweep

\* The steps of a delete leave the pointer alone or take it away, and once it
\* is away the flight is over.
LEMMA DeleteServes ==
  ASSUME Typed, Locks, Safe, OneAgent, OneIdentity, NoPrunes,
         NEW k \in Calls, Call(k) \/ Sweep(k)
  PROVE  Safe'
<1> DEFINE f == FlightOf(k)
           i == k.id
<1>1. /\ k \in Actors /\ k \in Deletes /\ k.kind = "delete"
      /\ f \in Flights /\ f \in Actors /\ f # k /\ f.id = i
      /\ i \in Ids /\ (\A j \in Ids : j = i)
      /\ \A g \in Flights : g = f
      /\ \A l \in Deletes : l \in Actors /\ l.id = i
      /\ at[f] # "idle" => at[k] \in {"idle", "cancel", "wait"}
  BY OnlyActors, ActorsAre DEF Deletes
<1>2. /\ at \in [Actors -> Places] /\ ptr \in [Ids -> Gens \cup {None}]
  BY DEF Typed, FlowTyped, FilesTyped
<1>3. Resolves(i) /\ Prepared(f) /\ Spares(f)
  BY <1>1 DEF Safe, PointersResolve, Serves
<1>4. at'[f] = at[f] /\ own'[f] = own[f]
      /\ \A l \in Deletes : l # k => at'[l] = at[l]
  BY <1>1, OthersStay
<1> HIDE DEF f, i
<1>5. ASSUME UNCHANGED <<arts, side, ptr>>,
             at'[k] \in Sweeping \cup {"clear"} => ptr[i] = None
      PROVE  Safe'
  <2>1. PointersResolve'
    BY <1>5 DEF Safe, PointersResolve, Resolves
  <2>2. Serves'
    BY <1>1, <1>3, <1>4, <1>5 DEF Serves, Prepared, Spares
  <2>3. Unserved'
    BY <1>1, <1>4, <1>5 DEF Safe, Unserved
  <2> QED
    BY <2>1, <2>2, <2>3 DEF Safe
<1>6. ASSUME at[f] = "idle", ptr'[i] = None PROVE Safe'
  <2>1. PointersResolve'
    BY <1>1, <1>6 DEF PointersResolve, Resolves
  <2>2. Serves'
    BY <1>1, <1>4, <1>6 DEF Serves, Prepared, Spares, Removing
  <2>3. Unserved'
    BY <1>1, <1>6 DEF Unserved
  <2> QED
    BY <2>1, <2>2, <2>3 DEF Safe
<1>7. CASE Sweep(k)
  <2>1. at[k] \in Sweeping /\ UNCHANGED ptr
    BY <1>1, <1>7, SweepMoves
       DEF Sweep, References, List, Judge, Remove, Unside, SweepDone, files
  <2>2. at[f] = "idle" /\ ptr[i] = None
    BY <1>1, <2>1 DEF Safe, Unserved, Sweeping, Removing, i
  <2> QED
    BY <1>6, <2>1, <2>2
<1>8. CASE Unpoint(k)
  <2>1. at[f] = "idle"
    BY <1>1, <1>8 DEF Unpoint, Goto
  <2>2. CASE ptr' = [ptr EXCEPT ![i] = None]
    BY <1>1, <1>2, <1>6, <2>1, <2>2
  <2>3. CASE Return(k) /\ UNCHANGED ptr
    <3>1. at'[k] \notin Sweeping \cup {"clear"}
      BY <1>1, <1>2, <2>3 DEF Return, Sweeping, Removing
    <3> QED
      BY <1>5, <1>8, <2>3, <3>1 DEF Unpoint
  <2> QED
    BY <1>8, <2>2, <2>3 DEF Unpoint, Fail, i
<1>9. CASE CallDelete(k) \/ Cancel(k) \/ FlightDone(k) \/ Clear(k)
  <2>1. at'[k] \notin Sweeping \cup {"clear"}
    BY <1>1, <1>2, <1>9 DEF CallDelete, Cancel, FlightDone, Clear, Return,
       Goto, Sweeping, Removing
  <2> QED
    BY <1>5, <1>9, <2>1 DEF CallDelete, Cancel, FlightDone, Clear, files
<1> QED
  BY <1>1, <1>7, <1>8, <1>9 DEF Call, CallPrune

\* What is served stays safe.
LEMMA SafeNext ==
  ASSUME Typed, Locks, Safe, OneAgent, OneIdentity, NoPrunes, [Next]_vars
  PROVE  Safe'
<1>1. CASE UNCHANGED vars
  BY <1>1 DEF vars, files, Safe, PointersResolve, Resolves, Serves, Prepared,
     Spares, Unserved
<1>2. ASSUME NEW f \in Flights, Flight(f) PROVE Safe'
  BY <1>2, FlightServes
<1>3. ASSUME NEW k \in Calls, Call(k) \/ Sweep(k) PROVE Safe'
  BY <1>3, DeleteServes
<1>4. ASSUME NEW f \in Flights, Sweep(f) PROVE Safe'
  <2>1. /\ f \in Actors /\ f.id \in Ids /\ (\A j \in Ids : j = f.id)
        /\ (\A g \in Flights : g = f)
        /\ (\A k \in Deletes : k \in Actors /\ k # f)
    BY OnlyActors, ActorsAre DEF Deletes
  <2>2. Resolves(f.id) /\ Spares(f)
    BY <2>1 DEF Safe, PointersResolve, Serves
  <2>3. Resolves(f.id)' /\ Spares(f)' /\ UNCHANGED ptr
        /\ at'[f] \notin {"restamp", "sidecar", "pointer"}
    BY <1>4, <2>2, SweepSpares
  <2>4. Unserved'
    BY <1>4, <2>1, <2>3, OthersStay DEF Safe, Unserved
  <2> QED
    BY <2>1, <2>3, <2>4 DEF Safe, PointersResolve, Serves, Prepared
<1>5. CASE (\E g \in Gens : Age(g)) \/ (\E i \in Ids : Publish(i))
  BY <1>5 DEF Age, Publish, files, Safe, PointersResolve, Resolves, Serves,
     Prepared, Spares, Unserved
<1>6. ASSUME NEW a \in Agents, Crash(a) PROVE Safe'
  <2>1. \A w \in Actors : at'[w] = "idle"
    BY <1>6, CrashLeaves, ActorsAre DEF OneAgent
  <2>2. UNCHANGED <<arts, side, ptr>>
    BY <1>6 DEF Crash
  <2>3. Serves' /\ Unserved'
    BY <2>1, ActorsAre DEF Serves, Prepared, Spares, Unserved, Removing,
       Sweeping, Deletes
  <2> QED
    BY <2>2, <2>3 DEF Safe, PointersResolve, Resolves
<1> QED
  BY <1>1, <1>2, <1>3, <1>4, <1>5, <1>6 DEF Next, Actors

\* The pointer of an identity alone in its directory never names an artifact
\* that is not there or has no sidecar: whatever fails, dies, is rolled back
\* or comes from a drop folder, and whenever an operator deletes it.
THEOREM PointersAlwaysResolve ==
  ASSUME OneAgent, OneIdentity, NoPrunes, DeletesApart
  PROVE  Spec => []PointersResolve
<1>1. Init => Safe
  BY ActorsAre DEF Init, Safe, PointersResolve, Resolves, Serves, Prepared,
     Spares, Unserved, Removing, Sweeping, Deletes
<1>2. ASSUME Typed, Locks, Safe, [Next]_vars PROVE Safe'
  BY <1>2, SafeNext
<1> QED
  BY <1>1, <1>2, LocksHold, PTL DEF Spec, Safe

-----------------------------------------------------------------------------
(* What neighbours cannot harm *)

NoFaults == Faults = {}

\* Without faults a loop gets through all it was given.
LEMMA AllThrough ==
  ASSUME NoFaults
  PROVE  \A S : \A T \in Through(S) : T = S
  BY ThroughIs DEF NoFaults

\* An artifact of the identity that is gone and will not come again.
Past(i, g) == g \notin arts /\ ptr[i] # None /\ g < ptr[i]

\* An identity goes forward: what it served before is older than what it
\* serves, that than what it is about to serve; and nothing it offers is
\* stored beside these but what is older, and listed after them.
Forward(f) ==
  /\ ptr[f.id] # None => ptr[f.id] <= upstream[f.id]
  /\ at[f] \in Writing \ {"restamp"} =>
       /\ own[f].gen <= upstream[f.id]
       /\ ptr[f.id] # None => ptr[f.id] < own[f].gen
  /\ prior[f.id] # None =>
       /\ ptr[f.id] # None /\ prior[f.id] \in Offers[f.id]
       /\ prior[f.id] < ptr[f.id]
  /\ \A g \in arts \cap Offers[f.id] :
       \/ g = ptr[f.id]
       \/ at[f] \in {"sidecar", "pointer"} /\ g = own[f].gen
       \/ prior[f.id] # None /\ g <= prior[f.id]
  /\ \A g, h \in arts \cap Offers[f.id] : h < g => <<g, h>> \in newer

\* What it serves and served before is there; what is there has its sidecar,
\* or is young and about to get it.
Kept(f) ==
  /\ ptr[f.id] # None => ptr[f.id] \in arts
  /\ prior[f.id] # None => prior[f.id] \in arts
  /\ at[f] \in {"sidecar", "pointer"} => own[f].gen \in arts
  /\ at[f] = "restamp" => own[f].owner = f.id
  /\ \A g \in arts \cap Offers[f.id] :
       \/ side[g] = f.id
       \/ at[f] = "sidecar" /\ g = own[f].gen /\ g \in young

\* Its own sweep takes what is older than both,
Trims(f) ==
  /\ at[f] \in {"retain"} \cup Sweeping => ptr[f.id] # None
  /\ at[f] \in {"refs", "list"} => {ptr[f.id], prior[f.id]} \ {None} \subseteq own[f].spare
  /\ at[f] \in Removing =>
       \A e \in own[f].todo : e.gen \in Offers[f.id]
                                => e.gen < ptr[f.id] /\ e.gen # prior[f.id]
  /\ at[f] \in {"remove", "unside"} =>
       (own[f].gen \in Offers[f.id]
          => own[f].gen < ptr[f.id] /\ own[f].gen # prior[f.id])
  /\ at[f] = "unside" => own[f].gen \notin arts \cap Offers[f.id]

\* and the sweeps of the others nothing that is there: what they listed is
\* gone for good, or shows that it is another's, or is young and was so when
\* it was listed.
PassesBy(w, i) ==
  /\ at[w] \in Removing =>
       \A e \in own[w].todo : e.gen \in Offers[i] =>
         \/ Past(i, e.gen)
         \/ e.gen \in arts /\ side[e.gen] = i
         \/ side[e.gen] = None /\ e.young /\ e.gen \in young
  /\ at[w] \in {"remove", "unside"} =>
       (own[w].gen \in Offers[i] => Past(i, own[w].gen))
Passed(f) == \A w \in Actors : w.id # f.id => PassesBy(w, f.id)

Stands(f) == Forward(f) /\ Kept(f) /\ Trims(f) /\ Passed(f)

\* An identity no operator touches is one of Ids, and its flight is all that
\* acts on it.
LEMMA QuietIs ==
  ASSUME OneAgent, NEW f \in Flights, f.id \in Quiet
  PROVE  /\ f \in Actors /\ f.id \in Ids /\ f.id # None
         /\ Offers[f.id] \subseteq Gens /\ Offers[f.id] \subseteq Nat
         /\ \A w \in Actors : w.id = f.id => w = f
         /\ \A k \in Calls : k # f /\ k.id # f.id
<1>1. \A w \in Actors : w.id = f.id => w \in Flights
  BY ActorsAre DEF Quiet
<1>2. \A w \in Flights : w.id = f.id => w = f
  BY FlightIsOne, ActorsAre
<1> QED
  BY <1>1, <1>2, ActorsAre, OffersAre DEF Quiet

\* What a step must leave as it is, for what stands to stand.
Untouched(f) ==
  /\ arts' \cap Offers[f.id] = arts \cap Offers[f.id]
  /\ \A g \in arts \cap Offers[f.id] : side'[g] = side[g]
  /\ \A g \in Offers[f.id] : side[g] = None => side'[g] = None
  /\ young' \cap Offers[f.id] = young \cap Offers[f.id]
  /\ \A g, h \in arts \cap Offers[f.id] : <<g, h>> \in newer => <<g, h>> \in newer'
  /\ ptr'[f.id] = ptr[f.id] /\ prior'[f.id] = prior[f.id]
  /\ at'[f] = at[f] /\ own'[f] = own[f]

\* What stands does if it is left as it is and the origin goes forward,
LEMMA UntouchedStands ==
  ASSUME Typed, Labels, Hands, OneAgent, NEW f \in Flights, f.id \in Quiet, Stands(f),
         Untouched(f), upstream'[f.id] \in Nat, upstream[f.id] <= upstream'[f.id]
  PROVE  Forward(f)' /\ Kept(f)' /\ Trims(f)'
<1>1. /\ f.id \in Ids /\ f.id # None /\ Offers[f.id] \subseteq Nat
      /\ ptr[f.id] \in Offers[f.id] \cup {None} /\ upstream[f.id] \in Nat
      /\ at[f] \in Writing => own[f].gen \in Nat
  BY QuietIs DEF Labels, Hands
<1>2. Forward(f)'
  BY <1>1 DEF Stands, Forward, Untouched
<1>3. Kept(f)'
  BY <1>1 DEF Stands, Kept, Forward, Untouched, Labels, Hands, Writing
<1>4. Trims(f)'
  BY <1>1 DEF Stands, Trims, Untouched
<1> QED
  BY <1>2, <1>3, <1>4

\* and so passes by who does nothing.
LEMMA UntouchedPasses ==
  ASSUME Typed, OneAgent, NEW f \in Flights, f.id \in Quiet, Stands(f), Untouched(f),
         NEW w \in Actors, w.id # f.id, at'[w] = at[w], own'[w] = own[w]
  PROVE  PassesBy(w, f.id)'
<1>1. PassesBy(w, f.id) /\ young \subseteq arts
  BY DEF Stands, Passed, Typed, FilesTyped
<1> QED
  BY <1>1 DEF PassesBy, Past, Untouched

\* The flights of other identities leave it alone,
LEMMA FlightsPass ==
  ASSUME Typed, Labels, Hands, OffersApart, NEW f \in Flights, f.id \in Quiet,
         NEW w \in Flights, w.id # f.id, Flight(w)
  PROVE  Untouched(f) /\ PassesBy(w, f.id)'
<1>1. /\ w \in Actors /\ f \in Actors /\ w # f /\ w.id \in Ids /\ f.id \in Ids
      /\ f.id # None
  BY ActorsAre, OffersAre
<1>2. /\ at \in [Actors -> Places]
      /\ side \in [Gens -> Ids \cup {None}] /\ arts \subseteq Gens
      /\ ptr \in [Ids -> Gens \cup {None}] /\ prior \in [Ids -> Gens \cup {None}]
  BY DEF Typed, FlowTyped, FilesTyped
<1>3. at'[f] = at[f] /\ own'[f] = own[f]
  BY <1>1, OthersStay
<1>4. at[w] \in Writing => own[w].gen \notin Offers[f.id]
  BY <1>1 DEF Hands, OffersApart
<1>5. at'[w] \notin Removing
  BY <1>1, <1>2 DEF Flight, Start, Probe, Restamp, Download, Promote,
     CommitSidecar, CommitPointer, Retain, Goto, Return, Fail, Removing
<1>6. PassesBy(w, f.id)'
  BY <1>5 DEF PassesBy, Removing
<1>7. CASE Start(w) \/ Probe(w) \/ Retain(w)
  BY <1>6, <1>3, <1>7 DEF Start, Probe, Retain, files, Untouched
<1>8. CASE Restamp(w)
  <2>1. at[w] = "restamp" /\ UNCHANGED <<arts, newer, young, ptr, prior>>
        /\ (side' = [side EXCEPT ![own[w].gen] = own[w].owner] \/ UNCHANGED side)
    BY <1>8 DEF Restamp
  <2>2. \A g \in Offers[f.id] : side'[g] = side[g]
    BY <1>1, <1>2, <1>4, <2>1, OffersAre DEF Writing
  <2> QED
    BY <1>3, <1>6, <2>1, <2>2 DEF Untouched
<1>9. CASE Download(w)
  BY <1>6, <1>3, <1>9 DEF Download, Untouched
<1>10. CASE Promote(w)
  BY <1>6, <1>2, <1>3, <1>4, <1>10 DEF Promote, Goto, Untouched, Writing
<1>11. CASE CommitSidecar(w)
  <2>1. /\ at[w] = "sidecar" /\ UNCHANGED <<arts, newer, young, ptr, prior>>
        /\ (UNCHANGED side \/ side' = [side EXCEPT ![own[w].gen] = w.id])
    BY <1>11 DEF CommitSidecar, Goto
  <2>2. \A g \in Offers[f.id] : side'[g] = side[g]
    BY <1>1, <1>2, <1>4, <2>1, OffersAre DEF Writing
  <2> QED
    BY <1>3, <1>6, <2>1, <2>2 DEF Untouched
<1>12. CASE CommitPointer(w)
  BY <1>6, <1>1, <1>2, <1>3, <1>12 DEF CommitPointer, Untouched
<1> QED
  BY <1>6, <1>7, <1>8, <1>9, <1>10, <1>11, <1>12 DEF Flight

\* and so do operators' calls on others,
LEMMA CallsPass ==
  ASSUME Typed, OneAgent, NEW f \in Flights, f.id \in Quiet, NEW k \in Calls, Call(k)
  PROVE  Untouched(f) /\ PassesBy(k, f.id)'
<1>1. k \in Actors /\ f \in Actors /\ k # f /\ k.id # f.id /\ f.id \in Ids
  BY QuietIs, ActorsAre
<1>2. at \in [Actors -> Places]
      /\ ptr \in [Ids -> Gens \cup {None}] /\ prior \in [Ids -> Gens \cup {None}]
  BY DEF Typed, FlowTyped, FilesTyped
<1>3. at'[f] = at[f] /\ own'[f] = own[f]
  BY <1>1, OthersStay
<1>4. at'[k] \notin Removing
  BY <1>1, <1>2 DEF Call, CallDelete, Cancel, FlightDone, Unpoint, Clear,
     CallPrune, Goto, Return, Fail, Removing
<1>5. Untouched(f)
  BY <1>1, <1>2, <1>3 DEF Call, CallDelete, Cancel, FlightDone, Unpoint, Clear,
     CallPrune, files, Untouched
<1> QED
  BY <1>4, <1>5 DEF PassesBy, Removing

\* and the sweeps of others: an artifact that they judge is protected, or gone.
LEMMA SweepsPass ==
  ASSUME Typed, Labels, OneAgent, NoFaults, NEW f \in Flights, f.id \in Quiet, Stands(f),
         NEW w \in Actors, w.id # f.id, Sweep(w)
  PROVE  Untouched(f) /\ PassesBy(w, f.id)'
<1> DEFINE i == f.id
<1>1. /\ f \in Actors /\ w # f /\ w.id \in Ids /\ i \in Ids /\ i # None
      /\ PassesBy(w, i) /\ Kept(f)
  BY QuietIs, ActorsAre DEF Stands, Passed
<1>2. /\ at \in [Actors -> Places] /\ own \in [Actors -> LocalsType]
      /\ own[w] \in LocalsType
      /\ side \in [Gens -> Ids \cup {None}] /\ arts \subseteq Gens
      /\ young \subseteq arts
  BY HandIs DEF Typed, FlowTyped, FilesTyped
<1>3. at'[f] = at[f] /\ own'[f] = own[f]
  BY <1>1, OthersStay
<1>4. ASSUME UNCHANGED files, UNCHANGED prior PROVE Untouched(f)
  BY <1>3, <1>4 DEF files, Untouched
<1>5. ASSUME Return(w) PROVE PassesBy(w, i)'
  BY <1>1, <1>2, <1>5 DEF Return, PassesBy, Removing
<1>6. CASE References(w)
  <2>1. at'[w] = "list"
    BY <1>1, <1>2, <1>6 DEF References, Goto
  <2> QED
    BY <1>4, <1>6, <2>1 DEF References, PassesBy, Removing
<1>7. CASE List(w)
  <2>1. /\ at'[w] = "sweep" /\ UNCHANGED <<files, prior>>
        /\ own'[w].todo = Listing(arts \ own[w].spare)
    BY <1>1, <1>2, <1>7, AllThrough DEF List, Listing, Goto, Locals, Fail, NoFaults
  <2>2. arts \ own[w].spare \subseteq Gens
    BY <1>2
  <2>3. ASSUME NEW e \in Listing(arts \ own[w].spare), e.gen \in Offers[i]
        PROVE  \/ e.gen \in arts /\ side[e.gen] = i
               \/ side[e.gen] = None /\ e.young /\ e.gen \in young
    <3>1. e.gen \in arts /\ (e.young <=> e.gen \in young)
      BY <2>2, ListingIs
    <3>2. side[e.gen] \in {None, i}
      BY <1>1, <2>3 DEF Labels
    <3> QED
      BY <1>1, <2>3, <3>1, <3>2 DEF Kept
  <2>4. PassesBy(w, i)'
    BY <2>1, <2>3 DEF PassesBy, files
  <2> QED
    BY <1>4, <2>1, <2>4
<1>8. CASE Judge(w)
  <2>1. PICK e \in own[w].todo : Judges(w, e, {e.gen})
    BY <1>8, AllThrough DEF Judge, Judges, OwnerRead
  <2>2. at[w] = "sweep" /\ UNCHANGED <<files, prior>>
    BY <1>8 DEF Judge
  <2>3. \A d \in own[w].todo : d.gen \in Offers[i] =>
          \/ Past(i, d.gen)
          \/ d.gen \in arts /\ side[d.gen] = i
          \/ side[d.gen] = None /\ d.young /\ d.gen \in young
    BY <1>1, <2>2 DEF PassesBy, Removing
  <2>4. CASE Protected(w.id, e, side[e.gen])
    <3>1. at'[w] = "sweep" /\ own'[w].todo = own[w].todo \ {e}
      BY <1>2, <2>1, <2>2, <2>4 DEF LocalsType, Judges, OwnerRead
    <3> QED
      BY <1>4, <2>2, <2>3, <3>1 DEF PassesBy, Past, files
  <2>5. CASE ~Protected(w.id, e, side[e.gen])
    <3>1. /\ at'[w] = "remove" /\ own'[w].todo = own[w].todo
          /\ own'[w].gen = e.gen
      BY <1>2, <2>1, <2>5 DEF Goto, LocalsType, Judges, OwnerRead
    <3>2. e.gen \in Offers[i] => Past(i, e.gen)
      BY <1>1, <2>3, <2>5 DEF Protected
    <3> QED
      BY <1>4, <2>2, <2>3, <3>1, <3>2 DEF PassesBy, Past, files
  <2> QED
    BY <2>4, <2>5
<1>9. CASE Remove(w)
  <2>1. CASE Return(w) /\ UNCHANGED <<arts, newer, young>>
    BY <1>3, <1>5, <1>9, <2>1 DEF Remove, Untouched
  <2>2. CASE /\ Goto(w, "remove", "unside") /\ UNCHANGED own
             /\ arts' = arts \ {own[w].gen}
             /\ newer' = {p \in newer : own[w].gen \notin {p[1], p[2]}}
             /\ young' = young \ {own[w].gen}
    <3>1. own[w].gen \in Offers[i] => Past(i, own[w].gen)
      BY <1>1, <2>2 DEF PassesBy, Goto
    <3>2. at[w] = "remove" /\ at'[w] = "unside" /\ UNCHANGED <<side, ptr, prior>>
      BY <1>1, <1>2, <1>9, <2>2 DEF Remove, Goto
    <3>3. Untouched(f)
      BY <1>2, <1>3, <2>2, <3>1, <3>2 DEF Untouched, Past
    <3>4. PassesBy(w, i)'
      BY <1>1, <1>2, <2>2, <3>1, <3>2 DEF PassesBy, Past, Removing
    <3> QED
      BY <3>3, <3>4
  <2> QED
    BY <1>9, <2>1, <2>2 DEF Remove, Fail
<1>10. CASE Unside(w)
  <2>1. /\ at[w] = "unside" /\ at'[w] = "sweep" /\ UNCHANGED <<arts, newer, young, ptr, prior>>
        /\ side' = [side EXCEPT ![own[w].gen] = None]
        /\ own'[w].todo = {e \in own[w].todo : e.gen # own[w].gen}
    BY <1>1, <1>2, <1>10 DEF Unside, Goto, Locals, NoFaults
  <2>2. own[w].gen \in Offers[i] => Past(i, own[w].gen)
    BY <1>1, <2>1 DEF PassesBy
  <2>3. Untouched(f)
    BY <1>2, <1>3, <2>1, <2>2 DEF Untouched, Past
  <2>4. PassesBy(w, i)'
    BY <1>1, <1>2, <2>1, <2>2 DEF PassesBy, Past, Removing
  <2> QED
    BY <2>3, <2>4
<1>11. CASE SweepDone(w)
  <2>1. CASE Return(w)
    BY <1>4, <1>5, <1>11, <2>1 DEF SweepDone
  <2>2. CASE Goto(w, "sweep", "clear")
    <3>1. at'[w] = "clear"
      BY <1>2, <2>2 DEF Goto
    <3> QED
      BY <1>4, <1>11, <3>1 DEF SweepDone, PassesBy, Removing
  <2> QED
    BY <1>11, <2>1, <2>2 DEF SweepDone
<1> QED
  BY <1>6, <1>7, <1>8, <1>9, <1>10, <1>11 DEF Sweep

\* What its own step must leave true for the sweeps of the others to pass by.
LEMMA StillPasses ==
  ASSUME NEW f \in Flights, Passed(f),
         \A w \in Actors : w.id # f.id => at'[w] = at[w] /\ own'[w] = own[w],
         \A g \in Offers[f.id] : Past(f.id, g) => Past(f.id, g)',
         \A g \in arts \cap Offers[f.id] :
            side[g] = f.id => (g \in arts' /\ side'[g] = f.id) \/ Past(f.id, g)',
         \A g \in young \cap Offers[f.id] :
            side[g] = None => \/ side'[g] = None /\ g \in young'
                              \/ g \in arts' /\ side'[g] = f.id
                              \/ Past(f.id, g)'
  PROVE  Passed(f)'
<1> SUFFICES ASSUME NEW w \in Actors, w.id # f.id PROVE PassesBy(w, f.id)'
  BY DEF Passed
<1>1. PassesBy(w, f.id) /\ at'[w] = at[w] /\ own'[w] = own[w]
  BY DEF Passed
<1> QED
  BY <1>1 DEF PassesBy

\* A flight goes forward, keeps what it served and disturbs no passing sweep.
LEMMA FlightStands ==
  ASSUME Typed, Labels, Hands, OneAgent, OffersApart, NoFaults,
         NEW f \in Flights, f.id \in Quiet, Stands(f), Flight(f),
         UNCHANGED upstream
  PROVE  Stands(f)'
<1> DEFINE i == f.id
<1>1. /\ f \in Actors /\ i \in Ids /\ i # None
      /\ Offers[i] \subseteq Nat /\ Offers[i] \subseteq Gens
      /\ None \notin Gens
  BY QuietIs, OffersAre
<1>2. /\ at \in [Actors -> Places] /\ own \in [Actors -> LocalsType]
      /\ side \in [Gens -> Ids \cup {None}] /\ arts \subseteq Gens
      /\ ptr \in [Ids -> Gens \cup {None}] /\ prior \in [Ids -> Gens \cup {None}]
      /\ young \subseteq arts
  BY DEF Typed, FlowTyped, FilesTyped
<1>3. /\ upstream[i] \in Offers[i] /\ ptr[i] \in Offers[i] \cup {None}
      /\ \A g \in Offers[i] : side[g] \in {None, i}
      /\ at[f] \in Writing => own[f].gen \in Offers[i]
  BY <1>1 DEF Labels, Hands
<1>4. \A w \in Actors : w.id # i => at'[w] = at[w] /\ own'[w] = own[w]
  BY <1>1, OthersStay
<1>5. Forward(f) /\ Kept(f) /\ Trims(f) /\ Passed(f)
  BY DEF Stands
<1>6. ~Fail(f)
  BY DEF Fail, NoFaults
<1> HIDE DEF i
\* The files stay: only where the flight is, and what it has at hand, changes.
<1>7. ASSUME UNCHANGED <<arts, newer, young, side, ptr, prior>>,
             at[f] \notin {"sidecar", "pointer"}
      PROVE  /\ Passed(f)'
             /\ (at'[f] \in Writing \ {"restamp"} =>
                   own'[f].gen <= upstream[i] /\ (ptr[i] # None => ptr[i] < own'[f].gen))
                  => Forward(f)'
             /\ (/\ at'[f] \notin {"sidecar", "pointer"}
                 /\ (at'[f] = "restamp" => own'[f].owner = i))
                  => Kept(f)'
  <2>1. Passed(f)'
    BY <1>4, <1>5, <1>7, StillPasses DEF Past, i
  <2>2. ASSUME at'[f] \in Writing \ {"restamp"} =>
                  own'[f].gen <= upstream[i] /\ (ptr[i] # None => ptr[i] < own'[f].gen)
        PROVE  Forward(f)'
    BY <1>5, <1>7, <2>2 DEF Forward, i
  <2>3. ASSUME at'[f] \notin {"sidecar", "pointer"},
               at'[f] = "restamp" => own'[f].owner = i
        PROVE  Kept(f)'
    BY <1>5, <1>7, <2>3 DEF Kept, i
  <2> QED
    BY <2>1, <2>2, <2>3
<1>8. ASSUME at'[f] \in {"idle", "probe"} \cup Writing PROVE Trims(f)'
  BY <1>8 DEF Trims, Sweeping, Removing, Writing
\* A flight that returns early has changed no file.
<1>9. ASSUME Return(f), UNCHANGED <<arts, newer, young, side, ptr, prior>>,
             at[f] \notin {"sidecar", "pointer"}
      PROVE  Stands(f)'
  <2>1. at'[f] = "idle"
    BY <1>1, <1>2, <1>9 DEF Return
  <2> QED
    BY <1>7, <1>8, <1>9, <2>1 DEF Stands, Writing
<1>10. CASE Start(f)
  <2>1. at[f] = "idle" /\ at'[f] = "probe" /\ UNCHANGED <<arts, newer, young, side, ptr, prior>>
    BY <1>1, <1>2, <1>10 DEF Start, Goto, files
  <2> QED
    BY <1>7, <1>8, <2>1 DEF Stands, Writing
<1>11. CASE Probe(f)
  <2>1. at[f] = "probe" /\ UNCHANGED <<arts, newer, young, side, ptr, prior>>
    BY <1>11 DEF Probe, Goto, files
  <2>2. CASE /\ ptr[i] = upstream[i] /\ side[upstream[i]] # None
             /\ Goto(f, "probe", "restamp")
             /\ own' = [own EXCEPT ![f] =
                          Locals(upstream[i], side[upstream[i]], {}, {})]
    <3>1. at'[f] = "restamp" /\ own'[f].owner = i
      BY <1>1, <1>2, <1>3, <2>2 DEF Goto, Locals
    <3> QED
      BY <1>7, <1>8, <2>1, <3>1 DEF Stands, Writing
  <2>3. CASE /\ ~(ptr[i] = upstream[i] /\ side[upstream[i]] # None)
             /\ Goto(f, "probe", "download")
             /\ own' = [own EXCEPT ![f] = Locals(upstream[i], None, {}, {})]
    <3>1. at'[f] = "download" /\ own'[f].gen = upstream[i]
      BY <1>1, <1>2, <2>3 DEF Goto, Locals
    <3>2. ptr[i] # None => ptr[i] <= upstream[i] /\ side[ptr[i]] = i
      BY <1>3, <1>5, <2>1 DEF Forward, Kept, i
    <3>3. ptr[i] # None => ptr[i] < upstream[i]
      BY <1>1, <1>3, <2>3, <3>2
    <3> QED
      BY <1>1, <1>3, <1>7, <1>8, <2>1, <3>1, <3>3 DEF Stands, Writing
  <2> QED
    BY <1>9, <1>11, <2>1, <2>2, <2>3 DEF Probe, NoFaults, i
<1>12. CASE Restamp(f)
  <2>1. /\ at[f] = "restamp" /\ at'[f] = "idle" /\ UNCHANGED <<arts, newer, young, ptr, prior>>
        /\ side' = [side EXCEPT ![own[f].gen] = i]
    BY <1>1, <1>2, <1>5, <1>6, <1>12 DEF Restamp, Return, Kept, i
  <2>2. /\ own[f].gen \in Offers[i]
        /\ \A g \in Offers[i] : side[g] = i => side'[g] = i
        /\ \A g \in Offers[i] : side'[g] # side[g] => side'[g] = i
    BY <1>1, <1>2, <1>3, <2>1 DEF Writing
  <2>3. Forward(f)'
    BY <1>5, <2>1 DEF Forward, Writing, i
  <2>4. Kept(f)'
    BY <1>5, <2>1, <2>2 DEF Kept, i
  <2>5. Passed(f)'
    BY <1>2, <1>4, <1>5, <2>1, <2>2, StillPasses DEF Past, i
  <2> QED
    BY <1>8, <2>1, <2>3, <2>4, <2>5 DEF Stands
<1>13. CASE Download(f)
  <2>1. at[f] = "download" /\ UNCHANGED <<arts, newer, young, side, ptr, prior>>
    BY <1>13 DEF Download, Goto
  <2>2. CASE Goto(f, "download", "promote") /\ UNCHANGED own
    <3>1. at'[f] = "promote"
      BY <1>1, <1>2, <2>2 DEF Goto
    <3>2. own[f].gen <= upstream[i] /\ (ptr[i] # None => ptr[i] < own[f].gen)
      BY <1>5, <2>1 DEF Forward, Writing, i
    <3> QED
      BY <1>7, <1>8, <2>1, <2>2, <3>1, <3>2 DEF Stands, Writing
  <2> QED
    BY <1>9, <1>13, <2>1, <2>2 DEF Download
<1>14. CASE Promote(f)
  <2>1. at[f] = "promote" /\ UNCHANGED <<side, ptr, prior>>
    BY <1>14 DEF Promote, Goto
  <2>2. CASE Return(f) /\ UNCHANGED <<arts, newer, young>>
    BY <1>9, <2>1, <2>2
  <2>3. CASE /\ Goto(f, "promote", "sidecar") /\ UNCHANGED own
             /\ IF own[f].gen \in arts
                THEN UNCHANGED <<arts, newer, young>>
                ELSE /\ arts' = arts \cup {own[f].gen}
                     /\ newer' = newer \cup ({own[f].gen} \X arts)
                     /\ young' = young \cup {own[f].gen}
    <3>1. at'[f] = "sidecar" /\ own'[f] = own[f]
      BY <1>1, <1>2, <2>3 DEF Goto
    <3>2. /\ own[f].gen \in Offers[i] /\ own[f].gen <= upstream[i]
          /\ ptr[i] # None => ptr[i] < own[f].gen
      BY <1>3, <1>5, <2>1 DEF Forward, Writing, i
    <3>3. \A g \in arts \cap Offers[i] : ptr[i] # None /\ g <= ptr[i]
      BY <1>1, <1>3, <1>5, <2>1 DEF Forward, i
    <3>4. \A g \in arts \cap Offers[i] : g < own[f].gen
      BY <1>1, <1>3, <3>2, <3>3
    <3>5. /\ own[f].gen \notin arts
          /\ arts' = arts \cup {own[f].gen}
          /\ newer' = newer \cup ({own[f].gen} \X arts)
          /\ young' = young \cup {own[f].gen}
      BY <1>1, <2>3, <3>2, <3>4
    <3>6. \A g, h \in arts' \cap Offers[i] : h < g => <<g, h>> \in newer'
      <4>1. \A g, h \in arts \cap Offers[i] : h < g => <<g, h>> \in newer
        BY <1>5 DEF Forward, i
      <4> QED
        BY <1>1, <3>2, <3>4, <3>5, <4>1
    <3>7. Forward(f)'
      BY <1>5, <2>1, <3>1, <3>2, <3>5, <3>6 DEF Forward, i
    <3>8. Kept(f)'
      BY <1>5, <2>1, <3>1, <3>5 DEF Kept, i
    <3>9. Passed(f)'
      <4>1. \A g \in Offers[i] : Past(i, g) => Past(i, g)'
        BY <1>1, <1>3, <2>1, <3>2, <3>5 DEF Past
      <4> QED
        BY <1>4, <1>5, <2>1, <3>5, <4>1, StillPasses DEF i
    <3> QED
      BY <1>8, <3>1, <3>7, <3>8, <3>9 DEF Stands, Writing
  <2> QED
    BY <1>6, <1>14, <2>2, <2>3 DEF Promote, NoFaults
<1>15. CASE CommitSidecar(f)
  <2>1. /\ Goto(f, "sidecar", "pointer") /\ UNCHANGED own
        /\ side' = [side EXCEPT ![own[f].gen] = i]
        /\ UNCHANGED <<arts, newer, young, ptr, prior>>
    BY <1>6, <1>15 DEF CommitSidecar, i
  <2>2. /\ at[f] = "sidecar" /\ at'[f] = "pointer" /\ own'[f] = own[f]
        /\ own[f].gen \in Offers[i]
    BY <1>1, <1>2, <1>3, <2>1 DEF Goto, Writing
  <2>3. /\ side'[own[f].gen] = i
        /\ \A g \in Offers[i] : g # own[f].gen => side'[g] = side[g]
    BY <1>1, <1>2, <2>1, <2>2
  <2>4. Forward(f)'
    BY <1>5, <2>1, <2>2 DEF Forward, Writing, i
  <2>5. Kept(f)'
    BY <1>5, <2>1, <2>2, <2>3 DEF Kept, i
  <2>6. Passed(f)'
    BY <1>2, <1>4, <1>5, <2>1, <2>3, StillPasses DEF Past, i
  <2> QED
    BY <1>8, <2>2, <2>4, <2>5, <2>6 DEF Stands, Writing
<1>16. CASE CommitPointer(f)
  <2>1. /\ Goto(f, "pointer", "retain") /\ UNCHANGED own
        /\ ptr' = [ptr EXCEPT ![i] = own[f].gen]
        /\ prior' = [prior EXCEPT ![i] = IF ptr[i] = own[f].gen THEN @ ELSE ptr[i]]
        /\ UNCHANGED <<arts, newer, young, side>>
    BY <1>6, <1>16 DEF CommitPointer, i
  <2>2. /\ at[f] = "pointer" /\ at'[f] = "retain"
        /\ own[f].gen \in Offers[i] /\ own[f].gen \in arts
        /\ own[f].gen <= upstream[i]
        /\ ptr[i] # None => ptr[i] < own[f].gen
    BY <1>1, <1>2, <1>3, <1>5, <2>1 DEF Goto, Writing, Forward, Kept, i
  <2>3. ptr'[i] = own[f].gen /\ prior'[i] = ptr[i]
    BY <1>1, <1>2, <1>3, <2>1, <2>2
  <2>4. Forward(f)'
    BY <1>1, <1>3, <1>5, <2>1, <2>2, <2>3 DEF Forward, Writing, i
  <2>5. Kept(f)'
    BY <1>5, <2>1, <2>2, <2>3 DEF Kept, i
  <2>6. Trims(f)'
    BY <1>1, <2>2, <2>3 DEF Trims, Sweeping, Removing, i
  <2>7. Passed(f)'
    <3>1. \A g \in Offers[i] : Past(i, g) => Past(i, g)'
      BY <1>1, <1>3, <2>1, <2>2, <2>3 DEF Past
    <3> QED
      BY <1>2, <1>4, <1>5, <2>1, <3>1, StillPasses DEF i
  <2> QED
    BY <2>4, <2>5, <2>6, <2>7 DEF Stands
<1>17. CASE Retain(f)
  <2>1. at[f] = "retain" /\ UNCHANGED <<arts, newer, young, side, ptr, prior>>
    BY <1>17 DEF Retain, Goto, files
  <2>2. ptr[i] # None
    BY <1>5, <2>1 DEF Trims, i
  <2> DEFINE seen == arts \ Claimed(i)
  <2>3. /\ Goto(f, "retain", "refs")
        /\ own' = [own EXCEPT ![f] =
                     Locals(None, None, {ptr[i]} \cup Previous(i, seen), {})]
    BY <1>6, <1>17, <2>2, AllThrough DEF Retain, i
  <2>4. at'[f] = "refs" /\ own'[f].spare = {ptr[i]} \cup Previous(i, seen)
    BY <1>1, <1>2, <2>3 DEF Goto, Locals
  <2>5. ASSUME prior[i] # None PROVE prior[i] \in Previous(i, seen)
    <3>1. /\ prior[i] \in arts /\ prior[i] \in Offers[i] /\ prior[i] < ptr[i]
          /\ \A g \in arts \cap Offers[i] : g = ptr[i] \/ g <= prior[i]
          /\ \A g, h \in arts \cap Offers[i] : h < g => <<g, h>> \in newer
          /\ side[prior[i]] = i
      BY <1>5, <2>1, <2>5 DEF Forward, Kept, i
    <3>2. prior[i] \notin Claimed(i)
      BY <1>1, <3>1, OffersAre DEF Claimed, Labels, OffersApart
    <3>3. prior[i] \in Mine(i, seen)
      BY <1>1, <1>3, <2>2, <3>1, <3>2 DEF Mine
    <3>4. ASSUME NEW h \in Mine(i, seen) \ {prior[i]} PROVE <<prior[i], h>> \in newer
      <4>1. h \in arts \cap Offers[i] /\ h # ptr[i]
        BY <1>1, <1>2, LabelledIsOffered DEF Mine
      <4> QED
        BY <1>1, <3>1, <3>4, <4>1
    <3> QED
      BY <3>3, <3>4 DEF Previous
  <2>6. Trims(f)'
    BY <2>1, <2>2, <2>4, <2>5 DEF Trims, Sweeping, Removing, i
  <2> QED
    BY <1>7, <2>1, <2>4, <2>6 DEF Stands, Writing
<1> QED
  BY <1>10, <1>11, <1>12, <1>13, <1>14, <1>15, <1>16, <1>17 DEF Flight

\* Its own sweep takes neither what it serves nor what it served before, and
\* what it takes does not come again.
LEMMA SweepStands ==
  ASSUME Typed, Labels, Hands, OneAgent, OffersApart, NoFaults,
         NEW f \in Flights, f.id \in Quiet, Stands(f), Sweep(f),
         UNCHANGED upstream
  PROVE  Stands(f)'
<1> DEFINE i == f.id
<1>1. /\ f \in Actors /\ i \in Ids /\ i # None
      /\ Offers[i] \subseteq Nat /\ Offers[i] \subseteq Gens
      /\ None \notin Gens
      /\ ptr[i] \in Offers[i] \cup {None}
      /\ \A g \in Offers[i] : side[g] \in {None, i}
  BY QuietIs, OffersAre DEF Labels
<1>2. /\ at \in [Actors -> Places] /\ own \in [Actors -> LocalsType]
      /\ own[f] \in LocalsType
      /\ side \in [Gens -> Ids \cup {None}] /\ arts \subseteq Gens
      /\ young \subseteq arts
  BY <1>1, HandIs DEF Typed, FlowTyped, FilesTyped
<1>3. \A w \in Actors : w.id # i => at'[w] = at[w] /\ own'[w] = own[w]
  BY <1>1, OthersStay
<1>4. Forward(f) /\ Kept(f) /\ Trims(f) /\ Passed(f)
  BY DEF Stands
<1>5. /\ at[f] \in Sweeping /\ at[f] \notin Writing
      /\ at'[f] \in Sweeping \cup {"idle", "clear"}
      /\ at'[f] \notin {"retain"} \cup Writing
  BY <1>1, <1>2, SweepMoves DEF Moves, Return, Sweeping, Removing, Writing
<1>6. ptr[i] # None /\ UNCHANGED <<ptr, prior>>
  BY <1>4, <1>5
     DEF Trims, Sweep, References, List, Judge, Remove, Unside, SweepDone, files, i
<1> HIDE DEF i
\* As long as only Trims is at stake.
<1>7. ASSUME UNCHANGED <<arts, newer, young, side>>, Trims(f)' PROVE Stands(f)'
  <2>1. Forward(f)'
    BY <1>4, <1>5, <1>6, <1>7 DEF Forward, Writing, i
  <2>2. Kept(f)'
    BY <1>4, <1>5, <1>6, <1>7 DEF Kept, Writing, i
  <2>3. Passed(f)'
    BY <1>3, <1>4, <1>6, <1>7, StillPasses DEF Past, i
  <2> QED
    BY <1>7, <2>1, <2>2, <2>3 DEF Stands
<1>8. ASSUME Return(f) PROVE Trims(f)'
  <2>1. at'[f] = "idle"
    BY <1>1, <1>2, <1>8 DEF Return
  <2> QED
    BY <2>1 DEF Trims, Sweeping, Removing
<1>9. CASE References(f)
  <2>1. /\ at[f] = "refs" /\ at'[f] = "list"
        /\ own'[f].spare = own[f].spare \cup Claimed(i)
        /\ UNCHANGED <<arts, newer, young, side>>
    BY <1>1, <1>2, <1>9, AllThrough DEF References, Goto, LocalsType, files, i
  <2>2. Trims(f)'
    BY <1>4, <1>6, <2>1 DEF Trims, Removing, i
  <2> QED
    BY <1>7, <2>1, <2>2
<1>10. CASE List(f)
  <2>1. /\ at[f] = "list" /\ at'[f] = "sweep"
        /\ own'[f].todo = Listing(arts \ own[f].spare)
        /\ UNCHANGED <<arts, newer, young, side>>
    BY <1>1, <1>2, <1>10, AllThrough DEF List, Listing, Goto, Locals, Fail, NoFaults, files
  <2>2. ASSUME NEW e \in Listing(arts \ own[f].spare), e.gen \in Offers[i]
        PROVE  e.gen < ptr[i] /\ e.gen # prior[i]
    <3>1. e.gen \in arts /\ e.gen \notin own[f].spare
      BY <1>2, ListingIs
    <3>2. e.gen # ptr[i] /\ e.gen # prior[i]
      BY <1>1, <1>4, <1>6, <2>1, <2>2, <3>1 DEF Trims, i
    <3>3. prior[i] # None /\ e.gen <= prior[i] /\ prior[i] < ptr[i]
          /\ prior[i] \in Offers[i]
      BY <1>4, <2>1, <2>2, <3>1, <3>2 DEF Forward, i
    <3> QED
      BY <1>1, <1>6, <2>2, <3>2, <3>3
  <2>3. Trims(f)'
    BY <1>6, <2>1, <2>2 DEF Trims, Removing, i
  <2> QED
    BY <1>7, <2>1, <2>3
<1>11. CASE Judge(f)
  <2>1. PICK e \in own[f].todo : Judges(f, e, {e.gen})
    BY <1>11, AllThrough DEF Judge, Judges, OwnerRead
  <2>r. OwnerRead(e, {e.gen}) = side[e.gen]
    BY DEF OwnerRead
  <2>2. at[f] = "sweep" /\ UNCHANGED <<arts, newer, young, side>>
    BY <1>11 DEF Judge, files
  <2>3. \A d \in own[f].todo : d.gen \in Offers[i] => d.gen < ptr[i] /\ d.gen # prior[i]
    BY <1>4, <2>2 DEF Trims, Removing, i
  <2>4. CASE Protected(i, e, side[e.gen])
    <3>1. at'[f] = "sweep" /\ own'[f].todo = own[f].todo \ {e}
      BY <1>1, <1>2, <2>1, <2>r, <2>2, <2>4 DEF LocalsType, Judges, i
    <3>2. Trims(f)'
      BY <1>6, <2>3, <3>1 DEF Trims, Removing, i
    <3> QED
      BY <1>7, <2>2, <3>2
  <2>5. CASE ~Protected(i, e, side[e.gen])
    <3>1. /\ at'[f] = "remove" /\ own'[f].todo = own[f].todo
          /\ own'[f].gen = e.gen
      BY <1>1, <1>2, <2>1, <2>r, <2>5 DEF Goto, LocalsType, Judges, i
    <3>2. Trims(f)'
      BY <1>6, <2>3, <3>1 DEF Trims, Removing, i
    <3> QED
      BY <1>7, <2>2, <3>2
  <2> QED
    BY <2>4, <2>5
<1>12. CASE Remove(f)
  <2>1. /\ Goto(f, "remove", "unside") /\ UNCHANGED <<own, side>>
        /\ arts' = arts \ {own[f].gen}
        /\ newer' = {p \in newer : own[f].gen \notin {p[1], p[2]}}
        /\ young' = young \ {own[f].gen}
    BY <1>12 DEF Remove, Fail, NoFaults
  <2>2. at[f] = "remove" /\ at'[f] = "unside" /\ own'[f] = own[f]
    BY <1>1, <1>2, <2>1 DEF Goto
  <2>3. own[f].gen \in Offers[i] => own[f].gen < ptr[i] /\ own[f].gen # prior[i]
    BY <1>4, <2>2 DEF Trims, i
  <2>4. \A d \in own[f].todo : d.gen \in Offers[i] => d.gen < ptr[i] /\ d.gen # prior[i]
    BY <1>4, <2>2 DEF Trims, Removing, i
  <2>5. own[f].gen # ptr[i] /\ (prior[i] # None => own[f].gen # prior[i])
    BY <1>1, <1>4, <1>6, <2>3 DEF Forward, i
  <2>6. Forward(f)'
    BY <1>4, <1>6, <2>1, <2>2 DEF Forward, Writing, i
  <2>7. Kept(f)'
    BY <1>4, <1>6, <2>1, <2>2, <2>5 DEF Kept, i
  <2>8. Trims(f)'
    BY <1>6, <2>1, <2>2, <2>3, <2>4 DEF Trims, Removing, i
  <2>9. Passed(f)'
    <3>1. /\ \A g \in Offers[i] : Past(i, g) => Past(i, g)'
          /\ own[f].gen \in Offers[i] => Past(i, own[f].gen)'
      BY <1>6, <2>1, <2>3 DEF Past
    <3> QED
      BY <1>2, <1>3, <1>4, <2>1, <3>1, StillPasses DEF i
  <2> QED
    BY <2>6, <2>7, <2>8, <2>9 DEF Stands
<1>13. CASE Unside(f)
  <2>1. /\ at[f] = "unside" /\ at'[f] = "sweep"
        /\ own'[f].todo = {e \in own[f].todo : e.gen # own[f].gen}
        /\ side' = [side EXCEPT ![own[f].gen] = None]
        /\ UNCHANGED <<arts, newer, young>>
    BY <1>1, <1>2, <1>13 DEF Unside, Goto, Locals, NoFaults
  <2>2. /\ own[f].gen \notin arts \cap Offers[i]
        /\ \A e \in own[f].todo : e.gen \in Offers[i]
                                    => e.gen < ptr[i] /\ e.gen # prior[i]
    BY <1>4, <2>1 DEF Trims, Removing, i
  <2>3. \A g \in arts \cap Offers[i] : side'[g] = side[g]
    BY <1>2, <2>1, <2>2
  <2>4. Forward(f)'
    BY <1>4, <1>6, <2>1 DEF Forward, Writing, i
  <2>5. Kept(f)'
    BY <1>4, <1>6, <2>1, <2>3 DEF Kept, i
  <2>6. Trims(f)'
    BY <1>6, <2>1, <2>2 DEF Trims, Removing, i
  <2>7. Passed(f)'
    BY <1>2, <1>3, <1>4, <1>6, <2>1, <2>3, StillPasses DEF Past, i
  <2> QED
    BY <2>4, <2>5, <2>6, <2>7 DEF Stands
<1>14. CASE SweepDone(f)
  <2>1. Return(f) /\ UNCHANGED <<arts, newer, young, side>>
    BY <1>14, ActorsAre DEF SweepDone, files
  <2> QED
    BY <1>7, <1>8, <2>1
<1> QED
  BY <1>9, <1>10, <1>11, <1>12, <1>13, <1>14 DEF Sweep

\* What stands does whatever the others do, and as artifacts age.
LEMMA StandsNext ==
  ASSUME Typed, Labels, Hands, OneAgent, OffersApart, NoFaults, [Next]_vars,
         NEW f \in Flights, f.id \in Quiet, Stands(f)
  PROVE  Stands(f)'
<1>1. /\ f \in Actors /\ f.id \in Ids /\ f.id # None
      /\ Offers[f.id] \subseteq Nat /\ upstream[f.id] \in Nat
      /\ \A w \in Actors : w.id = f.id => w = f
      /\ \A k \in Calls : k # f /\ k.id # f.id
  BY QuietIs DEF Labels
<1>2. ASSUME Untouched(f), upstream'[f.id] \in Nat, upstream[f.id] <= upstream'[f.id],
             NEW w \in Actors, w.id # f.id, PassesBy(w, f.id)',
             \A v \in Actors : v # w => at'[v] = at[v] /\ own'[v] = own[v]
      PROVE  Stands(f)'
  <2>1. Forward(f)' /\ Kept(f)' /\ Trims(f)'
    BY <1>2, UntouchedStands
  <2>2. \A v \in Actors : v.id # f.id => PassesBy(v, f.id)'
    BY <1>2, UntouchedPasses
  <2> QED
    BY <2>1, <2>2 DEF Stands, Passed
<1>3. ASSUME NEW w \in Flights, Flight(w), UNCHANGED upstream PROVE Stands(f)'
  <2>1. CASE w = f
    BY <1>3, <2>1, FlightStands
  <2>2. CASE w # f
    <3>1. w \in Actors /\ w.id # f.id
      BY <1>1, <2>2, ActorsAre
    <3>2. Untouched(f) /\ PassesBy(w, f.id)'
      BY <1>3, <3>1, FlightsPass
    <3> QED
      BY <1>1, <1>2, <1>3, <3>1, <3>2, OthersStay
  <2> QED
    BY <2>1, <2>2
<1>4. ASSUME NEW w \in Actors, Sweep(w), UNCHANGED upstream PROVE Stands(f)'
  <2>1. CASE w = f
    BY <1>4, <2>1, SweepStands
  <2>2. CASE w # f
    <3>1. w.id # f.id
      BY <1>1, <2>2
    <3>2. Untouched(f) /\ PassesBy(w, f.id)'
      BY <1>4, <3>1, SweepsPass
    <3> QED
      BY <1>1, <1>2, <1>4, <3>1, <3>2, OthersStay
  <2> QED
    BY <2>1, <2>2
<1>5. ASSUME NEW k \in Calls, Call(k), UNCHANGED upstream PROVE Stands(f)'
  <2>1. k \in Actors /\ k.id # f.id
    BY <1>1, ActorsAre
  <2>2. Untouched(f) /\ PassesBy(k, f.id)'
    BY <1>5, CallsPass
  <2> QED
    BY <1>1, <1>2, <1>5, <2>1, <2>2, OthersStay
\* The sidecar that is about to be written keeps its artifact young.
<1>6. ASSUME NEW g \in Gens, Age(g) PROVE Stands(f)'
  <2>1. /\ UNCHANGED <<arts, newer, side, ptr, upstream, at, own, prior>>
        /\ young' = young \ {g}
        /\ at[f] = "sidecar" => own[f].gen # g
    BY <1>6 DEF Age
  <2>2. Forward(f)' /\ Trims(f)'
    BY <2>1 DEF Stands, Forward, Trims
  <2>3. Kept(f)'
    BY <2>1 DEF Stands, Kept
  <2>4. Passed(f)'
    <3>1. young \subseteq arts /\ (\A h \in arts \cap Offers[f.id] :
             side[h] = f.id \/ (at[f] = "sidecar" /\ h = own[f].gen))
      BY DEF Typed, FilesTyped, Stands, Kept
    <3>2. \A h \in young \cap Offers[f.id] : side[h] = None => h \in young'
      BY <1>1, <2>1, <3>1
    <3> QED
      BY <2>1, <3>2, StillPasses DEF Stands, Past
  <2> QED
    BY <2>2, <2>3, <2>4 DEF Stands
<1>7. ASSUME NEW j \in Ids, Publish(j) PROVE Stands(f)'
  <2>1. UNCHANGED <<arts, newer, young, side, ptr, prior, at, own>>
    BY <1>7 DEF Publish, files
  <2>2. upstream'[f.id] \in Nat /\ upstream[f.id] <= upstream'[f.id]
    BY <1>1, <1>7 DEF Publish, NoFaults, Typed, FilesTyped
  <2>3. Untouched(f)
    BY <2>1 DEF Untouched
  <2>4. Forward(f)' /\ Kept(f)' /\ Trims(f)'
    BY <2>2, <2>3, UntouchedStands
  <2>5. Passed(f)'
    BY <2>1 DEF Stands, Passed, PassesBy, Past
  <2> QED
    BY <2>4, <2>5 DEF Stands
<1>8. CASE UNCHANGED vars
  BY <1>8 DEF vars, files, Stands, Forward, Kept, Trims, Passed, PassesBy, Past
<1>9. ~\E a \in Agents : Crash(a)
  BY DEF Crash, NoFaults
<1> QED
  BY <1>3, <1>4, <1>5, <1>6, <1>7, <1>8, <1>9 DEF Next

\* The identities no operator touches.
AllStand == \A f \in Flights : f.id \in Quiet => Stands(f)

\* They stand at all times.
LEMMA Standing ==
  ASSUME OneAgent, OffersApart, NoFaults
  PROVE  Spec => [](Typed /\ Labels /\ Hands /\ AllStand)
<1>1. ASSUME Init PROVE AllStand
  <2>1. \A f \in Flights : f.id \in Quiet => f \in Actors /\ f.id \in Ids
    BY QuietIs
  <2> QED
    BY <1>1, <2>1, ActorsAre DEF Init, AllStand, Stands, Forward, Kept, Trims,
       Passed, PassesBy, Writing, Removing, Sweeping
<1>2. ASSUME Typed, Labels, Hands, AllStand, [Next]_vars
      PROVE  Typed' /\ Labels' /\ Hands' /\ AllStand'
  <2>1. Quiet' = Quiet
    BY DEF Quiet
  <2> QED
    BY <1>2, <2>1, TypedNext, LabelsNext, StandsNext DEF AllStand
<1> QED
  BY <1>1, <1>2, TypedInit, LabelsInit, PTL DEF Spec

\* A flight for every identity, while there is an agent; without one nothing
\* is ever served.
LEMMA QuietFlights ==
  ASSUME NEW i \in Quiet, NEW a \in Agents
  PROVE  \E f \in Flights : f.id = i
<1>1. [kind |-> "refresh", agent |-> a, id |-> i, n |-> 1] \in Flights
  BY DEF Flights, Quiet
<1> QED
  BY <1>1

\* As long as nothing fails, an operator's prune or delete can harm no
\* identity but its own, nor can the refreshes of others: the pointers of the
\* identities no operator touches resolve.
THEOREM NeighboursAreUnharmed ==
  ASSUME OneAgent, OffersApart, NoFaults, Agents # {}
  PROVE  Spec => []NeighboursUnharmed
<1>1. ASSUME Labels, AllStand PROVE NeighboursUnharmed
  <2> SUFFICES ASSUME NEW i \in Quiet, ptr[i] # None
               PROVE  ptr[i] \in arts /\ side[ptr[i]] # None
    BY DEF NeighboursUnharmed, Resolves
  <2>1. PICK f \in Flights : f.id = i
    BY QuietFlights
  <2>2. Stands(f) /\ i \in Ids /\ i # None /\ ptr[i] \in Offers[i]
        /\ Offers[i] \subseteq Nat
    BY <1>1, <2>1, QuietIs DEF AllStand, Labels
  <2>3. at[f] = "sidecar" => own[f].gen # ptr[i]
    BY <2>1, <2>2 DEF Stands, Forward, Writing
  <2> QED
    BY <2>1, <2>2, <2>3 DEF Stands, Kept
<1> QED
  BY <1>1, Standing, PTL

\* Retention: as long as nothing fails, a host that was handed the generation
\* served until the last refresh still finds it.
THEOREM PreviousStays ==
  ASSUME OneAgent, OffersApart, NoFaults, Agents # {}
  PROVE  Spec => []PreviousIsKept
<1>1. ASSUME AllStand PROVE PreviousIsKept
  BY <1>1, QuietFlights DEF AllStand, Stands, Kept, PreviousIsKept
<1> QED
  BY <1>1, Standing, PTL
=============================================================================
