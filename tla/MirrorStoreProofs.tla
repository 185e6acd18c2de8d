-------------------------- MODULE MirrorStoreProofs --------------------------
(***************************************************************************)
(* What the Git mirror keeps, proved for any commits, readers, retention   *)
(* and bounds.                                                             *)
(***************************************************************************)
EXTENDS MirrorStore, TLAPS

-----------------------------------------------------------------------------
(* States and their pins *)

\* g claims nothing that f does not claim.
Within(g, f) == /\ DOMAIN g \subseteq DOMAIN f
                /\ \A c \in DOMAIN g : g[c] = f[c]

\* A set of pins is a function on commits whose times are in range.
LEMMA PinSetsAre ==
  ASSUME NEW f
  PROVE  f \in PinSets <=> /\ f = [c \in DOMAIN f |-> f[c]]
                           /\ DOMAIN f \subseteq Commits
                           /\ \A c \in DOMAIN f : f[c] \in 1..(MaxTime + Keep)
<1>1. ASSUME f \in PinSets
      PROVE  /\ f = [c \in DOMAIN f |-> f[c]]
             /\ DOMAIN f \subseteq Commits
             /\ \A c \in DOMAIN f : f[c] \in 1..(MaxTime + Keep)
  <2>1. PICK S \in SUBSET Commits : f \in [S -> 1..(MaxTime + Keep)]
    BY <1>1 DEF PinSets
  <2> QED
    BY <2>1
<1>2. ASSUME f = [c \in DOMAIN f |-> f[c]], DOMAIN f \subseteq Commits,
             \A c \in DOMAIN f : f[c] \in 1..(MaxTime + Keep)
      PROVE  f \in PinSets
  <2>1. f \in [DOMAIN f -> 1..(MaxTime + Keep)]
    BY <1>2
  <2> QED
    BY <1>2, <2>1 DEF PinSets
<1> QED
  BY <1>1, <1>2

\* A part of a set of pins is one.
LEMMA RestrictIs ==
  ASSUME NEW f \in PinSets, NEW S, S \subseteq DOMAIN f
  PROVE  /\ Restrict(f, S) \in PinSets
         /\ DOMAIN Restrict(f, S) = S
         /\ Within(Restrict(f, S), f)
<1>1. /\ DOMAIN Restrict(f, S) = S
      /\ \A c \in S : Restrict(f, S)[c] = f[c]
      /\ Restrict(f, S) = [c \in DOMAIN Restrict(f, S) |-> Restrict(f, S)[c]]
  BY DEF Restrict
<1>2. /\ DOMAIN f \subseteq Commits
      /\ \A c \in DOMAIN f : f[c] \in 1..(MaxTime + Keep)
  BY PinSetsAre
<1>3. Restrict(f, S) \in PinSets
  BY <1>1, <1>2, PinSetsAre
<1> QED
  BY <1>1, <1>3 DEF Within

\* No pins are pins, and the empty state is a state.
LEMMA EmptyIs ==
  /\ NoPins \in PinSets
  /\ DOMAIN NoPins = {}
  /\ Empty \in State
  /\ Empty.pins = NoPins
<1>1. /\ DOMAIN NoPins = {}
      /\ NoPins = [c \in DOMAIN NoPins |-> NoPins[c]]
  BY DEF NoPins
<1>2. NoPins \in PinSets
  BY <1>1, PinSetsAre
<1> QED
  BY <1>1, <1>2 DEF Empty, State

\* What a state without some of its pins is.
LEMMA DropIs ==
  ASSUME NEW s \in State, NEW gone
  PROVE  /\ Drop(s, gone) \in State
         /\ Pins(Drop(s, gone)) = Pins(s) \ gone
         /\ Within(Drop(s, gone).pins, s.pins)
<1>1. s.pins \in PinSets /\ s.ref \in Commits \cup {None}
  BY DEF State
<1>2. Pins(s) \ gone \subseteq DOMAIN s.pins
  BY DEF Pins
<1>3. /\ Restrict(s.pins, Pins(s) \ gone) \in PinSets
      /\ DOMAIN Restrict(s.pins, Pins(s) \ gone) = Pins(s) \ gone
      /\ Within(Restrict(s.pins, Pins(s) \ gone), s.pins)
  BY <1>1, <1>2, RestrictIs
<1>4. Drop(s, gone).pins = Restrict(s.pins, Pins(s) \ gone)
  BY DEF Drop
<1>5. Drop(s, gone) \in State
  BY <1>1, <1>3 DEF Drop, State
<1>6. Pins(Drop(s, gone)) = DOMAIN Drop(s, gone).pins
  BY DEF Pins
<1> QED
  BY <1>3, <1>4, <1>5, <1>6

\* What a state that pins one more commit is.
LEMMA RetainIs ==
  ASSUME NEW s \in State, NEW c \in Commits, NEW t \in 1..(MaxTime + Keep),
         NEW n, n = Retain([s EXCEPT !.ref = c], c, t)
  PROVE  /\ n \in State
         /\ Pins(n) = Pins(s) \cup {c}
         /\ n.pins[c] = t
         /\ \A d \in Pins(s) : d # c => n.pins[d] = s.pins[d]
<1> DEFINE f == [d \in Pins(s) \cup {c} |-> IF d = c THEN t ELSE s.pins[d]]
<1>1. /\ s.pins \in PinSets /\ s.ref \in Commits \cup {None}
      /\ s = [ref |-> s.ref, pins |-> s.pins]
  BY DEF State
<1>2. /\ Pins(s) \subseteq Commits
      /\ \A d \in Pins(s) : s.pins[d] \in 1..(MaxTime + Keep)
  BY <1>1, PinSetsAre DEF Pins
<1>3. /\ DOMAIN f = Pins(s) \cup {c}
      /\ f = [d \in DOMAIN f |-> f[d]]
      /\ \A d \in DOMAIN f : f[d] \in 1..(MaxTime + Keep)
      /\ f[c] = t
      /\ \A d \in Pins(s) : d # c => f[d] = s.pins[d]
  BY <1>2
<1>4. [s EXCEPT !.ref = c] = [ref |-> c, pins |-> s.pins]
  BY <1>1
<1>5. n = [ref |-> c, pins |-> f]
  BY <1>4 DEF Retain, Pins
<1> HIDE DEF f
<1>6. f \in PinSets
  BY <1>2, <1>3, PinSetsAre
<1> QED
  BY <1>3, <1>5, <1>6 DEF State, Pins

\* What a state is once the use records are added: the same pins, each at
\* least as long.
LEMMA UsesAre ==
  ASSUME NEW s \in State, uses \in [Commits -> 0..MaxTime],
         NEW n, n = WithUses(s)
  PROVE  /\ n \in State
         /\ Pins(n) = Pins(s)
         /\ \A c \in Pins(s) :
              /\ uses[c] = 0 => n.pins[c] = s.pins[c]
              /\ uses[c] # 0 => n.pins[c] = Later(s.pins[c], uses[c] + Keep)
              /\ n.pins[c] \in Int /\ s.pins[c] \in Int
              /\ s.pins[c] <= n.pins[c]
<1> DEFINE f == [c \in Pins(s) |-> IF uses[c] = 0 THEN s.pins[c]
                                   ELSE Later(s.pins[c], uses[c] + Keep)]
<1>1. /\ s.pins \in PinSets /\ s.ref \in Commits \cup {None}
      /\ s = [ref |-> s.ref, pins |-> s.pins]
  BY DEF State
<1>2. /\ Pins(s) \subseteq Commits
      /\ \A c \in Pins(s) : s.pins[c] \in 1..(MaxTime + Keep)
  BY <1>1, PinSetsAre DEF Pins
<1>3. /\ DOMAIN f = Pins(s)
      /\ f = [c \in DOMAIN f |-> f[c]]
      /\ \A c \in Pins(s) :
           /\ uses[c] = 0 => f[c] = s.pins[c]
           /\ uses[c] # 0 => f[c] = Later(s.pins[c], uses[c] + Keep)
  OBVIOUS
<1>4. \A c \in Pins(s) : /\ f[c] \in 1..(MaxTime + Keep)
                         /\ s.pins[c] <= f[c]
  BY <1>2, <1>3, StoreAssumption DEF Later
<1>5. n = [ref |-> s.ref, pins |-> f]
  BY <1>1 DEF WithUses, Pins
<1> HIDE DEF f
<1>6. f \in PinSets
  BY <1>2, <1>3, <1>4, PinSetsAre
<1>7. n.pins = f /\ n \in State /\ Pins(n) = Pins(s)
  BY <1>1, <1>3, <1>5, <1>6 DEF State, Pins
<1> QED
  BY <1>2, <1>3, <1>4, <1>7

\* What recover() may answer: a part of the state, all of it in Git.
LEMMA RecoveriesAre ==
  ASSUME NEW s \in State, NEW n \in Recoveries(s)
  PROVE  /\ n \in State
         /\ Within(n.pins, s.pins)
         /\ Pins(n) \subseteq git.pins \cap git.objs
<1> DEFINE missing == Pins(s) \ (git.pins \cap git.objs)
<1>1. PICK unsure : n = Drop(s, missing \cup unsure)
  BY DEF Recoveries
<1> QED
  BY <1>1, DropIs

-----------------------------------------------------------------------------
(* Types *)

\* Where a snapshot has been taken it is a commit, and a lease that was
\* asked for is for a commit.
Typed ==
  /\ TypeOK
  /\ rpc \in {"fetch", "resnap", "refetch", "pin", "persist", "end"}
        => snap \in Commits
  /\ rd \in [Readers -> [at   : {"idle", "asked", "open"},
                          sha  : Commits \cup {None},
                          kind : {"receipt", "read"}]]
  /\ \A r \in Readers : rd[r].at # "idle" => rd[r].sha \in Commits

\* The repository starts with one pinned commit.
LEMMA InitTyped == Init => Typed
<1> SUFFICES ASSUME Init PROVE Typed
  OBVIOUS
<1>1. /\ now \in 1..MaxTime /\ upstream \in Commits
      /\ git \in [head : Commits, pins : SUBSET Commits, objs : SUBSET Commits]
      /\ uses \in [Commits -> 0..MaxTime]
      /\ promised \in [Commits -> 0..(MaxTime + Keep)]
      /\ snap \in Commits \cup {None} /\ rpc = "idle" /\ mpc = "off"
  BY StoreAssumption DEF Init, NoUses
<1>2. disk.pins \in PinSets /\ disk \in State
  <2> DEFINE f == [c \in {upstream} |-> 1 + Keep]
  <2>1. disk = [ref |-> upstream, pins |-> f]
    BY DEF Init
  <2>2. /\ DOMAIN f = {upstream}
        /\ f = [c \in DOMAIN f |-> f[c]]
        /\ \A c \in DOMAIN f : f[c] \in 1..(MaxTime + Keep)
    BY StoreAssumption
  <2> HIDE DEF f
  <2>3. f \in PinSets
    BY <1>1, <2>2, PinSetsAre
  <2> QED
    BY <1>1, <2>1, <2>3 DEF State
<1>3. answer \in PinSets /\ mem \in State /\ {prev, nxt, mst} \subseteq State
  BY <1>2, EmptyIs DEF Init
<1>4. /\ \A r \in Readers : rd[r].at = "idle"
      /\ rd \in [Readers -> [at   : {"idle", "asked", "open"},
                              sha  : Commits \cup {None},
                              kind : {"receipt", "read"}]]
  BY DEF Init, NoReader
<1>5. dirty \in BOOLEAN /\ barred \in BOOLEAN /\ up \in BOOLEAN /\ drained \in BOOLEAN
  BY DEF Init
<1>6. late \in [Slots -> State \cup {None}]
  BY DEF Init, NoCopies
<1> QED
  BY <1>1, <1>2, <1>3, <1>4, <1>5, <1>6 DEF Typed, TypeOK

\* A receipt names a pin of the state it is written from.
LEMMA AnswerTyped ==
  ASSUME NEW s \in State, Answer(s), answer \in PinSets
  PROVE  /\ answer' \in PinSets
         /\ answer' = answer \/ Within(answer', s.pins)
<1>1. s.pins \in PinSets /\ Pins(s) = DOMAIN s.pins
  BY DEF State, Pins
<1>2. ASSUME NEW c \in Pins(s), answer' = Restrict(s.pins, {c})
      PROVE  answer' \in PinSets /\ Within(answer', s.pins)
  <2>1. {c} \subseteq DOMAIN s.pins
    BY <1>1
  <2> QED
    BY <1>1, <1>2, <2>1, RestrictIs
<1> QED
  BY <1>2 DEF Answer

\* The end of a job leaves a state, a receipt and no work.
LEMMA OutcomeTyped ==
  ASSUME NEW s \in State, Outcome(s), answer \in PinSets
  PROVE  /\ mem' \in State
         /\ answer' \in PinSets
         /\ answer' = answer \/ Within(answer', s.pins)
         /\ mem' = s
         /\ rpc' = "idle" /\ prev' = Empty /\ nxt' = Empty /\ snap' = None
         /\ {prev', nxt'} \subseteq State
  BY AnswerTyped, EmptyIs DEF Outcome, Stored

-----------------------------------------------------------------------------
(* What a step of refresh() does *)

\* The repository gains objects, perhaps the ref, and no pin but the one of
\* the snapshot.
Gains ==
  /\ git' \in [head : Commits, pins : SUBSET Commits, objs : SUBSET Commits]
  /\ \/ git'.pins = git.pins
     \/ rpc = "pin" /\ git'.pins = git.pins \cup {snap}
  /\ git.objs \subseteq git'.objs
  /\ git'.head \in git'.objs \cup {git.head}

\* The upstream is asked, or fetched from.
Looked ==
  /\ UNCHANGED <<disk, barred, mem, answer, prev, nxt, promised>>
  /\ rpc \in {"snapshot", "fetch", "resnap", "refetch"}
  /\ rpc' \in {"fetch", "resnap", "refetch", "pin"}
  /\ snap' \in Commits
  /\ rpc' = "pin" => snap' \in git'.objs \cup {git.head}
  /\ Gains
  /\ dirty => dirty'

\* recover() is over and its state persisted.
Recovered ==
  /\ rpc = "recover" /\ rpc' = "snapshot"
  /\ prev' \in Recoveries(prev)
  /\ disk' = prev'
  /\ ~dirty'
  /\ UNCHANGED <<git, mem, answer, nxt, snap, promised>>

\* The commit of the snapshot is pinned,
Pinned ==
  /\ rpc = "pin" /\ rpc' = "persist"
  /\ nxt' = Retain([prev EXCEPT !.ref = snap], snap, now + Keep)
  /\ git' \in [head : Commits, pins : SUBSET Commits, objs : SUBSET Commits]
  /\ git'.pins = git.pins \cup {snap}
  /\ git'.objs = git.objs /\ git'.head = git.head
  /\ dirty => dirty'
  /\ UNCHANGED <<disk, mem, answer, prev, snap, promised>>

\* and the state that says so written.
Persisted ==
  /\ rpc = "persist" /\ rpc' = "end"
  /\ disk' = nxt
  /\ UNCHANGED <<git, dirty, mem, answer, prev, nxt, snap, promised>>

\* A step fails: the job ends with the state it began with, or with what
\* recover() left of it,
Failed ==
  /\ rpc \in {"recover", "snapshot", "fetch", "resnap", "refetch", "pin", "persist"}
  /\ \E s \in {prev} \cup Recoveries(prev) : Outcome(s)
  /\ Gains
  /\ dirty => dirty'
  /\ UNCHANGED <<disk, promised>>

\* when recover() has persisted that,
HalfRecovered ==
  /\ rpc = "recover"
  /\ \E s \in Recoveries(prev) : Outcome(s) /\ disk' = s
  /\ UNCHANGED <<git, promised>>

\* or when the next state is already written.
Unfinished ==
  /\ "finish" \in Faults
  /\ Outcome(prev)
  /\ \/ rpc = "persist" /\ disk' = nxt /\ UNCHANGED dirty
     \/ rpc = "end" /\ UNCHANGED disk
  /\ UNCHANGED <<git, promised>>

\* The commit is confirmed.
Ended ==
  /\ rpc = "end"
  /\ ~dirty'
  /\ Outcome(nxt)
  /\ Promise("confirmation", snap, now)
  /\ UNCHANGED <<git, disk>>

\* A job that gave up copies the state, or stores its copy.
Copied == \E i \in Slots : RCopy(i) \/ RStore(i)

\* Every step of refresh() is one of these.
LEMMA RefreshSteps ==
  ASSUME Typed, Refresh
  PROVE  /\ UNCHANGED <<now, upstream, uses, up, mpc, mst, drained, rd>>
         /\ \/ Copied
            \/ /\ late' = late
               /\ \/ RAdmit \/ RGiveUp \/ RStart \/ Looked \/ Recovered \/ Pinned
                  \/ Persisted \/ Failed \/ HalfRecovered \/ Unfinished \/ Ended
<1>1. UNCHANGED <<now, upstream, uses, up, mpc, mst, drained, rd>>
  BY DEF Refresh, maintV
<1>2. /\ git \in [head : Commits, pins : SUBSET Commits, objs : SUBSET Commits]
      /\ upstream \in Commits
      /\ dirty \in BOOLEAN
  BY DEF Typed, TypeOK
<1>3. /\ Fetched \in [head : Commits, pins : SUBSET Commits, objs : SUBSET Commits]
      /\ Fetched.pins = git.pins
      /\ Fetched.objs = git.objs \cup {upstream}
      /\ Fetched.head = upstream
  BY <1>2 DEF Fetched
<1>4. ASSUME git' \in {git, [git EXCEPT !.objs = @ \cup {upstream}], Fetched}
      PROVE  Gains
  BY <1>2, <1>3, <1>4 DEF Gains
<1>5. Fail => rpc' = "idle" /\ \E s \in {prev} \cup Recoveries(prev) : Outcome(s)
  BY DEF Fail, Outcome, Stored
<1> DEFINE Kind == \/ RAdmit \/ RGiveUp \/ RStart \/ Looked \/ Recovered \/ Pinned
                   \/ Persisted \/ Failed \/ HalfRecovered \/ Unfinished \/ Ended
<1>6. ASSUME RRecover PROVE Kind
  <2>1. \/ Recovered
        \/ HalfRecovered
        \/ /\ rpc = "recover"
           /\ \E s \in {prev} \cup Recoveries(prev) : Outcome(s)
           /\ UNCHANGED <<disk, dirty, git, promised>>
    BY <1>6 DEF RRecover, Recovered, HalfRecovered
  <2> QED
    BY <1>1, <1>4, <2>1 DEF Failed
<1>7. ASSUME RSnapshot PROVE Kind
  <2>1. CASE Fail
    BY <1>1, <1>4, <1>7, <1>5, <2>1 DEF Failed, RSnapshot
  <2>2. CASE ~Fail
    <3>1. /\ rpc = "snapshot" /\ snap' = upstream
          /\ rpc' = IF prev.ref # upstream \/ upstream \notin git.objs
                    THEN "fetch" ELSE "pin"
          /\ dirty => dirty'
          /\ UNCHANGED <<git, disk, barred, mem, answer, prev, nxt, promised>>
      BY <1>7, <2>2 DEF RSnapshot
    <3>2. rpc' \in {"fetch", "pin"} /\ (rpc' = "pin" => upstream \in git.objs)
      BY <3>1
    <3> QED
      BY <1>1, <1>2, <1>4, <3>1, <3>2 DEF Looked
  <2> QED
    BY <2>1, <2>2
<1>8. ASSUME RFetch PROVE Kind
  <2>1. CASE Fail
    BY <1>1, <1>3, <1>4, <1>8, <2>1 DEF Failed, Fail, RFetch, FetchFails
  <2>2. CASE ~Fail
    <3>1. /\ rpc = "fetch" /\ git' = Fetched
          /\ rpc' = IF upstream = snap THEN "pin" ELSE "resnap"
          /\ UNCHANGED <<mem, answer, prev, nxt, snap, disk, dirty, barred, promised>>
      BY <1>8, <2>2 DEF RFetch, FetchFails
    <3>2. rpc' \in {"resnap", "pin"} /\ (rpc' = "pin" => snap' = upstream)
      BY <3>1
    <3>3. snap \in Commits
      BY <3>1 DEF Typed
    <3> QED
      BY <1>1, <1>3, <1>4, <3>1, <3>2, <3>3 DEF Looked
  <2> QED
    BY <2>1, <2>2
<1>9. ASSUME RResnap PROVE Kind
  <2>1. CASE Fail
    BY <1>1, <1>4, <1>9, <2>1 DEF Failed, Fail, RResnap, durable
  <2>2. CASE ~Fail
    <3>1. /\ rpc = "resnap" /\ snap' = upstream
          /\ rpc' = IF git.head = upstream THEN "pin" ELSE "refetch"
          /\ UNCHANGED <<git, disk, dirty, barred, mem, answer, prev, nxt, promised>>
      BY <1>9, <2>2 DEF RResnap, durable
    <3>2. rpc' \in {"refetch", "pin"} /\ (rpc' = "pin" => snap' = git.head)
      BY <3>1
    <3> QED
      BY <1>1, <1>2, <1>4, <3>1, <3>2 DEF Looked
  <2> QED
    BY <2>1, <2>2
<1>10. ASSUME RRefetch PROVE Kind
  <2>1. CASE Fail
    BY <1>1, <1>3, <1>4, <1>10, <2>1 DEF Failed, Fail, RRefetch, FetchFails
  <2>2. CASE ~Fail
    <3>1. /\ rpc = "refetch" /\ git' = Fetched
          /\ UNCHANGED <<disk, dirty, barred, promised>>
          /\ \/ /\ rpc' = "pin" /\ snap' = snap /\ snap = upstream
                /\ UNCHANGED <<mem, answer, prev, nxt>>
             \/ Outcome(prev)
      BY <1>10, <2>2 DEF RRefetch, FetchFails
    <3>2. snap \in Commits
      BY <3>1 DEF Typed
    <3> QED
      BY <1>1, <1>3, <1>4, <3>1, <3>2 DEF Looked, Failed
  <2> QED
    BY <2>1, <2>2
<1>11. ASSUME RPin PROVE Kind
  <2>1. CASE Fail
    <3>0. \/ dirty' = dirty
          \/ dirty' = (dirty \/ snap \notin git.pins)
      BY <1>11 DEF RPin
    <3>1. rpc = "pin" /\ UNCHANGED <<disk, promised>> /\ (dirty => dirty')
      BY <1>2, <1>11, <3>0 DEF RPin, Step
    <3>2. git' = git \/ git' = [git EXCEPT !.pins = @ \cup {snap}]
      BY <1>11 DEF RPin, Step
    <3>3. snap \in Commits
      BY <3>1 DEF Typed
    <3>4. Gains
      BY <1>2, <3>1, <3>2, <3>3 DEF Gains
    <3> QED
      BY <1>5, <2>1, <3>1, <3>4 DEF Failed
  <2>2. CASE ~Fail
    <3>1. /\ rpc = "pin" /\ rpc' = "persist"
          /\ nxt' = Retain([prev EXCEPT !.ref = snap], snap, now + Keep)
          /\ git' = [git EXCEPT !.pins = @ \cup {snap}]
          /\ dirty => dirty'
          /\ UNCHANGED <<mem, answer, prev, snap, disk, barred, promised>>
      BY <1>11, <2>2 DEF RPin, Step
    <3>2. snap \in Commits
      BY <3>1 DEF Typed
    <3>3. /\ git'.pins = git.pins \cup {snap} /\ git'.objs = git.objs
          /\ git'.head = git.head
          /\ git' \in [head : Commits, pins : SUBSET Commits, objs : SUBSET Commits]
      BY <1>2, <3>1, <3>2
    <3> QED
      BY <1>1, <3>1, <3>3 DEF Pinned
  <2> QED
    BY <2>1, <2>2
<1>12. ASSUME RPersist PROVE Kind
  <2>1. CASE rpc' = "end"
    BY <1>1, <1>12, <2>1 DEF Persisted, RPersist, Step, Stored
  <2>2. CASE rpc' # "end"
    <3>1. /\ rpc = "persist" /\ Outcome(prev)
          /\ UNCHANGED <<git, dirty, promised>>
          /\ UNCHANGED disk \/ ("finish" \in Faults /\ disk' = nxt)
      BY <1>12, <2>2 DEF RPersist, Step, Outcome, Answer
    <3> QED
      BY <1>1, <1>4, <3>1 DEF Failed, Unfinished
  <2> QED
    BY <2>1, <2>2
<1>13. ASSUME REnd PROVE Kind
  BY <1>13 DEF REnd, Ended, Unfinished, Outcome, Answer
<1>14. \/ Copied
       \/ RAdmit \/ RGiveUp \/ RStart \/ RRecover \/ RSnapshot \/ RFetch
       \/ RResnap \/ RRefetch \/ RPin \/ RPersist \/ REnd
  BY DEF Refresh, Copied
<1>15. Copied \/ late' = late
  BY <1>14 DEF RAdmit, RGiveUp, RStart, RRecover, RSnapshot, RFetch, RResnap, RRefetch, RPin,
               RPersist, REnd, Fail, FetchFails, Outcome, Stored
<1>16. Copied \/ Kind
  BY <1>6, <1>7, <1>8, <1>9, <1>10, <1>11, <1>12, <1>13, <1>14
<1> QED
  BY <1>1, <1>15, <1>16

\* refresh() keeps the types.
LEMMA RefreshTyped == ASSUME Typed, Refresh PROVE Typed'
<1>1. /\ UNCHANGED <<now, upstream, uses, up, mpc, mst, drained, rd>>
      /\ \/ Copied
         \/ /\ late' = late
            /\ \/ RAdmit \/ RGiveUp \/ RStart \/ Looked \/ Recovered \/ Pinned
               \/ Persisted \/ Failed \/ HalfRecovered \/ Unfinished \/ Ended
  BY RefreshSteps
<1>2. /\ {disk, mem, prev, nxt, mst} \subseteq State
      /\ answer \in PinSets
      /\ git \in [head : Commits, pins : SUBSET Commits, objs : SUBSET Commits]
      /\ now \in 1..MaxTime
      /\ snap \in Commits \cup {None}
      /\ promised \in [Commits -> 0..(MaxTime + Keep)]
      /\ late \in [Slots -> State \cup {None}]
      /\ rpc \in {"idle", "queued", "recover", "snapshot", "fetch", "resnap",
                  "refetch", "pin", "persist", "end"}
      /\ rpc \in {"fetch", "resnap", "refetch", "pin", "persist", "end"} => snap \in Commits
  BY DEF Typed, TypeOK
<1> DEFINE Rest == /\ git' \in [head : Commits, pins : SUBSET Commits, objs : SUBSET Commits]
                   /\ disk' \in State /\ mem' \in State /\ prev' \in State /\ nxt' \in State
                   /\ answer' \in PinSets
                   /\ promised' \in [Commits -> 0..(MaxTime + Keep)]
                   /\ rpc' \in {"idle", "queued", "recover", "snapshot", "fetch", "resnap",
                                "refetch", "pin", "persist", "end"}
                   /\ snap' \in Commits \cup {None}
                   /\ rpc' \in {"fetch", "resnap", "refetch", "pin", "persist", "end"}
                        => snap' \in Commits
<1>3. ASSUME RAdmit \/ RGiveUp \/ RStart PROVE Rest
  <2>1. /\ git' = git /\ disk' = disk /\ mem' = mem /\ promised' = promised
        /\ prev' \in {prev, mem} /\ nxt' = nxt /\ snap' = snap
        /\ rpc' \in {rpc, "idle", "queued", "recover", "snapshot"}
    BY <1>3 DEF RAdmit, RGiveUp, RStart, Step, durable
  <2>2. answer' \in PinSets
    <3>1. mem \in State
      BY <1>2
    <3>2. answer' = answer \/ Answer(mem)
      BY <1>3 DEF RAdmit, RGiveUp, RStart
    <3> QED
      BY <1>2, <3>1, <3>2, AnswerTyped
  <2> QED
    BY <1>2, <2>1, <2>2
<1>4. ASSUME Ended PROVE Rest
  <2>1. /\ nxt \in State /\ Outcome(nxt)
        /\ git' = git /\ disk' = disk /\ rpc = "end"
    BY <1>2, <1>4 DEF Ended
  <2>2. promised' \in [Commits -> 0..(MaxTime + Keep)]
    <3>1. /\ promised' \in {promised, [promised EXCEPT ![snap] = Later(@, now + Keep)]}
      BY <1>4 DEF Ended, Promise
    <3>2. Later(promised[snap], now + Keep) \in 0..(MaxTime + Keep)
      BY <1>2, <2>1, StoreAssumption DEF Later
    <3> QED
      BY <1>2, <3>1, <3>2
  <2> QED
    BY <1>2, <2>1, <2>2, OutcomeTyped
<1>5. ASSUME Looked PROVE Rest
  BY <1>2, <1>5 DEF Looked, Gains
<1>6. ASSUME Recovered PROVE Rest
  BY <1>2, <1>6, RecoveriesAre DEF Recovered
<1>7. ASSUME Pinned PROVE Rest
  <2>1. snap \in Commits /\ now + Keep \in 1..(MaxTime + Keep)
    BY <1>2, <1>7, StoreAssumption DEF Pinned
  <2>2. nxt' \in State
    BY <1>2, <1>7, <2>1, RetainIs DEF Pinned
  <2> QED
    BY <1>2, <1>7, <2>1, <2>2 DEF Pinned
<1>8. ASSUME Persisted PROVE Rest
  BY <1>2, <1>8 DEF Persisted
<1>9. ASSUME Failed \/ HalfRecovered \/ Unfinished PROVE Rest
  <2>1. PICK s \in {prev} \cup Recoveries(prev) :
          Outcome(s) /\ (disk' = disk \/ disk' = s \/ disk' = nxt)
    BY <1>9 DEF Failed, HalfRecovered, Unfinished
  <2>2. s \in State
    BY <1>2, <2>1, RecoveriesAre
  <2>3. /\ git' \in [head : Commits, pins : SUBSET Commits, objs : SUBSET Commits]
        /\ promised' = promised
    BY <1>2, <1>9 DEF Failed, HalfRecovered, Unfinished, Gains
  <2> QED
    BY <1>2, <2>1, <2>2, <2>3, OutcomeTyped
<1>10. ASSUME Copied PROVE Rest /\ late' \in [Slots -> State \cup {None}]
  <2>1. PICK i \in Slots : RCopy(i) \/ RStore(i)
    BY <1>10 DEF Copied
  <2>2. /\ git' = git /\ disk' = disk /\ prev' = prev /\ nxt' = nxt /\ snap' = snap
        /\ promised' = promised
        /\ rpc' \in {rpc, "idle"}
    BY <2>1 DEF RCopy, RStore, Step, durable
  <2>3. \/ mem' = mem /\ answer' = answer /\ late' = [late EXCEPT ![i] = mem]
        \/ /\ late[i] # None /\ mem' = late[i] /\ Answer(late[i])
           /\ late' = [late EXCEPT ![i] = None]
    BY <2>1 DEF RCopy, RStore
  <2>4. late[i] # None => late[i] \in State
    BY <1>2
  <2> QED
    BY <1>2, <2>2, <2>3, <2>4, AnswerTyped
<1>11. Rest /\ late' \in [Slots -> State \cup {None}]
  BY <1>1, <1>2, <1>3, <1>4, <1>5, <1>6, <1>7, <1>8, <1>9, <1>10
<1>12. {dirty', barred', up', drained'} \subseteq BOOLEAN
  <2>1. dirty \in BOOLEAN /\ barred \in BOOLEAN /\ up \in BOOLEAN /\ drained \in BOOLEAN
    BY DEF Typed, TypeOK
  <2>2. barred' \in BOOLEAN
    BY <2>1 DEF Refresh, RAdmit, RGiveUp, RCopy, RStore, RStart, RRecover, RSnapshot,
                RFetch, RResnap, RRefetch, RPin, RPersist, REnd
  <2>3. dirty' \in BOOLEAN
    BY <2>1 DEF Refresh, RAdmit, RGiveUp, RCopy, RStore, RStart, RRecover, RSnapshot,
                RFetch, RResnap, RRefetch, RPin, RPersist, REnd, durable
  <2> QED
    BY <1>1, <2>1, <2>2, <2>3
<1> QED
  BY <1>1, <1>2, <1>11, <1>12 DEF Typed, TypeOK

-----------------------------------------------------------------------------
(* What the other steps do *)

\* maintain() keeps the types.
LEMMA MaintainTyped == ASSUME Typed, Maintain PROVE Typed'
<1>1. /\ git \in [head : Commits, pins : SUBSET Commits, objs : SUBSET Commits]
      /\ disk \in State /\ mem \in State /\ mst \in State
      /\ mst = [ref |-> mst.ref, pins |-> mst.pins]
      /\ mst.pins \in PinSets /\ mst.ref \in Commits \cup {None}
      /\ uses \in [Commits -> 0..MaxTime]
      /\ now \in 1..MaxTime
  BY DEF Typed, TypeOK, State
<1>2. /\ dirty \in BOOLEAN /\ barred \in BOOLEAN /\ drained \in BOOLEAN
      /\ mpc \in {"off", "drain", "lock", "begin", "prune", "gc",
                  "persist", "end", "publish", "release"}
  BY DEF Typed, TypeOK
<1>3. UNCHANGED <<now, upstream, up, rpc, prev, nxt, snap, late, answer, rd, promised>>
  BY DEF Maintain, refreshV
<1>4. /\ dirty' \in BOOLEAN /\ barred' \in BOOLEAN /\ drained' \in BOOLEAN
      /\ mpc' \in {"off", "drain", "lock", "begin", "prune", "gc",
                   "persist", "end", "publish", "release"}
  BY <1>2 DEF Maintain, MStart, MDrain, MLock, MBegin, MPrune, MGc, MPersist,
              MEnd, MPublish, MFail, MRelease, MStep, durable
<1> DEFINE Rest == /\ git' \in [head : Commits, pins : SUBSET Commits, objs : SUBSET Commits]
                   /\ disk' \in State /\ mem' \in State /\ mst' \in State
                   /\ uses' \in [Commits -> 0..MaxTime]
<1>5. ASSUME MLock PROVE Rest
  <2>1. mst' = WithUses(mem) \/ mst' = mst
    BY <1>5 DEF MLock
  <2>2. uses' = NoUses \/ uses' = uses
    BY <1>5 DEF MLock
  <2>3. mst' \in State
    BY <1>1, <2>1, UsesAre
  <2>4. NoUses \in [Commits -> 0..MaxTime]
    BY StoreAssumption DEF NoUses
  <2> QED
    BY <1>1, <1>5, <2>2, <2>3, <2>4 DEF MLock, durable
<1>6. ASSUME MPrune PROVE Rest
  <2>1. PICK gone \in SUBSET Expired(mst) :
          /\ git' = [git EXCEPT !.pins = @ \ gone]
          /\ mst' = [mst EXCEPT !.pins = Restrict(@, DOMAIN @ \ gone)]
    BY <1>6 DEF MPrune
  <2>2. Restrict(mst.pins, DOMAIN mst.pins \ gone) \in PinSets
    BY <1>1, RestrictIs
  <2>3. mst' \in State
    BY <1>1, <2>1, <2>2 DEF State
  <2>4. git' \in [head : Commits, pins : SUBSET Commits, objs : SUBSET Commits]
    BY <1>1, <2>1
  <2> QED
    BY <1>1, <1>6, <2>3, <2>4 DEF MPrune
<1>7. ASSUME Collected
      PROVE  git' \in [head : Commits, pins : SUBSET Commits, objs : SUBSET Commits]
  BY <1>1, <1>7 DEF Collected
<1>8. ASSUME MStart \/ MDrain \/ MBegin \/ MGc \/ MPersist \/ MEnd \/ MPublish \/ MFail
             \/ MRelease
      PROVE  Rest
  BY <1>1, <1>7, <1>8, EmptyIs DEF MStart, MDrain, MBegin, MGc, MPersist, MEnd, MPublish,
                                   MFail, MRelease, durable
<1>9. Rest
  BY <1>5, <1>6, <1>7, <1>8 DEF Maintain
<1> QED
  BY <1>2, <1>3, <1>4, <1>9 DEF Typed, TypeOK

\* A lease that is asked for, opened or closed.
LEMMA LeaseTyped == ASSUME Typed, Lease PROVE Typed'
<1> DEFINE Leases == [at   : {"idle", "asked", "open"},
                      sha  : Commits \cup {None},
                      kind : {"receipt", "read"}]
<1>1. /\ rd \in [Readers -> Leases]
      /\ \A r \in Readers : rd[r].at # "idle" => rd[r].sha \in Commits
      /\ uses \in [Commits -> 0..MaxTime]
      /\ promised \in [Commits -> 0..(MaxTime + Keep)]
      /\ now \in 1..MaxTime
  BY DEF Typed, TypeOK
<1>2. UNCHANGED <<now, upstream, git, disk, dirty, barred, up, mem, rpc, prev, nxt, snap,
                  late, mpc, mst, drained, answer>>
  BY DEF Lease, durable, refreshV, maintV
<1>3. PICK r \in Readers : (\E c \in Commits : Ask(r, c)) \/ Open(r) \/ Close(r)
  BY DEF Lease
<1> DEFINE Rest == /\ rd' \in [Readers -> Leases]
                   /\ \A q \in Readers : rd'[q].at # "idle" => rd'[q].sha \in Commits
                   /\ uses' \in [Commits -> 0..MaxTime]
                   /\ promised' \in [Commits -> 0..(MaxTime + Keep)]
<1>4. ASSUME NEW c \in Commits, Ask(r, c) PROVE Rest
  <2>1. PICK kind \in {"receipt", "read"} :
          rd' = [rd EXCEPT ![r] = [at |-> "asked", sha |-> c, kind |-> kind]]
    BY <1>4 DEF Ask
  <2> DEFINE asked == [at |-> "asked", sha |-> c, kind |-> kind]
  <2>2. asked \in Leases /\ asked.sha \in Commits
    OBVIOUS
  <2>3. UNCHANGED <<uses, promised>>
    BY <1>4 DEF Ask
  <2> HIDE DEF asked
  <2> QED
    BY <1>1, <2>1, <2>2, <2>3 DEF asked
<1>5. ASSUME Open(r) PROVE Rest
  <2>1. /\ rd' = [rd EXCEPT ![r].at = "open"]
        /\ uses' = [uses EXCEPT ![rd[r].sha] = now]
        /\ promised' \in {promised, [promised EXCEPT ![rd[r].sha] = Later(@, now + Keep)]}
    BY <1>5 DEF Open, Promise
  <2>2. rd[r].at = "asked" /\ rd[r].sha \in Commits
    BY <1>1, <1>5 DEF Open
  <2>3. Later(promised[rd[r].sha], now + Keep) \in 0..(MaxTime + Keep)
    BY <1>1, <2>2, StoreAssumption DEF Later
  <2>4. promised' \in [Commits -> 0..(MaxTime + Keep)]
    BY <1>1, <2>1, <2>3
  <2>5. uses' \in [Commits -> 0..MaxTime]
    <3>1. now \in 0..MaxTime
      BY <1>1
    <3> QED
      BY <1>1, <2>1, <2>2, <3>1
  <2>6. /\ rd' \in [Readers -> Leases]
        /\ \A q \in Readers : rd'[q].at # "idle" => rd'[q].sha \in Commits
    BY <1>1, <2>1, <2>2
  <2> QED
    BY <2>4, <2>5, <2>6
<1>6. ASSUME Close(r) PROVE Rest
  <2>1. NoReader \in Leases /\ NoReader.at = "idle"
    BY DEF NoReader
  <2> QED
    BY <1>1, <1>6, <2>1 DEF Close
<1>7. Rest
  BY <1>3, <1>4, <1>5, <1>6
<1> QED
  BY <1>2, <1>7 DEF Typed, TypeOK

\* The worker dies, or comes back; the upstream moves; time passes.
LEMMA OthersTyped ==
  ASSUME Typed, Crash \/ Restart \/ Push \/ Tick
  PROVE  Typed'
<1>1. CASE Crash
  <2>1. /\ \A r \in Readers : rd'[r] = IF rd[r].kind = "receipt" THEN NoReader ELSE rd[r]
        /\ rd' = [r \in Readers |-> rd'[r]]
    BY <1>1 DEF Crash
  <2>2. /\ rd' \in [Readers -> [at   : {"idle", "asked", "open"},
                                sha  : Commits \cup {None},
                                kind : {"receipt", "read"}]]
        /\ \A r \in Readers : rd'[r].at # "idle" => rd'[r].sha \in Commits
    BY <2>1 DEF Typed, NoReader
  <2>3. /\ UNCHANGED <<now, upstream, git, disk, dirty, barred, uses, promised>>
        /\ up' = FALSE /\ drained' = FALSE
        /\ rpc' = "idle" /\ prev' = Empty /\ nxt' = Empty /\ snap' = None
        /\ mpc' = "off" /\ mst' = Empty /\ mem' = disk /\ answer' = NoPins
        /\ late' = NoCopies
    BY <1>1 DEF Crash, durable
  <2>4. up' \in BOOLEAN /\ drained' \in BOOLEAN
    BY <2>3
  <2> QED
    BY <2>2, <2>3, <2>4, EmptyIs DEF Typed, TypeOK, NoCopies
<1>2. CASE Restart
  <2>1. disk \in State
    BY DEF Typed, TypeOK
  <2>2. mem' \in State /\ disk' \in State
    BY <1>2, <2>1, RecoveriesAre DEF Restart
  <2>3. dirty' \in BOOLEAN /\ barred' \in BOOLEAN /\ up' \in BOOLEAN
    BY <1>2 DEF Restart, Typed, TypeOK
  <2>4. UNCHANGED <<now, upstream, git, uses, rpc, prev, nxt, snap, late, mpc, mst, drained,
                    answer, rd, promised>>
    BY <1>2 DEF Restart, refreshV, maintV
  <2> QED
    BY <2>2, <2>3, <2>4 DEF Typed, TypeOK
<1>3. CASE Push
  BY <1>3 DEF Push, Typed, TypeOK, durable, refreshV, maintV
<1>4. CASE Tick
  <2>1. /\ UNCHANGED <<upstream, git, disk, dirty, barred, uses, up, mem, rpc, prev, nxt,
                       snap, late, mpc, mst, drained, rd>>
        /\ now' \in 1..MaxTime
        /\ answer' = Restrict(answer, {c \in DOMAIN answer : now < answer[c]})
    BY <1>4, StoreAssumption DEF Tick, durable, refreshV, maintV, Typed, TypeOK
  <2>2. answer' \in PinSets
    BY <2>1, RestrictIs DEF Typed, TypeOK
  <2>3. promised' \in [Commits -> 0..(MaxTime + Keep)]
    BY <1>4, StoreAssumption DEF Tick, Typed, TypeOK
  <2> QED
    BY <2>1, <2>2, <2>3 DEF Typed, TypeOK
<1> QED
  BY <1>1, <1>2, <1>3, <1>4

\* The state of the mirror always has its type, whatever goes wrong.
THEOREM TypeCorrect == Spec => []TypeOK
<1>1. Typed /\ [Next]_vars => Typed'
  <2>1. Typed /\ UNCHANGED vars => Typed'
    BY DEF vars, durable, refreshV, maintV, Typed, TypeOK
  <2> QED
    BY <2>1, RefreshTyped, MaintainTyped, LeaseTyped, OthersTyped DEF Next
<1>2. Typed => TypeOK
  BY DEF Typed
<1> QED
  BY <1>1, <1>2, InitTyped, PTL DEF Spec

-----------------------------------------------------------------------------
(* What holds whatever goes wrong *)

\* The writer lock keeps refresh and maintenance apart, and the exclusive
\* lock keeps readers out.
Fenced ==
  /\ HasWriter => rpc = "idle"
  /\ HasWriter \/ mpc = "lock" => drained
  /\ drained => ~SharedHeld

\* What refs reach is there.
Rooted ==
  /\ git.pins \subseteq git.objs
  /\ git.head \in git.objs
  /\ rpc \in {"pin", "persist", "end"} => snap \in git.objs

Safe == Typed /\ Fenced /\ Rooted /\ ReadsStay

\* The mirror starts so.
LEMMA InitSafe == Init => Safe
<1> SUFFICES ASSUME Init PROVE Safe
  OBVIOUS
<1>1. /\ git.pins = {upstream} /\ git.objs = {upstream} /\ git.head = upstream
      /\ rpc = "idle" /\ mpc = "off" /\ drained = FALSE
      /\ \A r \in Readers : rd[r].at = "idle"
  BY DEF Init, NoReader
<1> QED
  BY <1>1, InitTyped DEF Safe, Fenced, Rooted, ReadsStay, HasWriter

\* refresh() adds to the repository, and holds the writer lock alone.
LEMMA RefreshSafe == ASSUME Safe, Refresh PROVE Safe'
<1>1. Typed'
  BY RefreshTyped DEF Safe
<1>2. UNCHANGED <<mpc, mst, drained, rd>>
  BY RefreshSteps DEF Safe
<1> DEFINE Rest == /\ git.pins \subseteq git'.pins /\ git.objs \subseteq git'.objs
                   /\ git'.pins \subseteq git'.objs /\ git'.head \in git'.objs
                   /\ rpc' \in {"pin", "persist", "end"} => snap' \in git'.objs
                   /\ HasWriter => rpc' = "idle"
<1>3. ASSUME Copied \/ RAdmit \/ RGiveUp \/ RStart PROVE Rest
  <2>1. /\ git' = git /\ snap' = snap
        /\ rpc' \in {rpc, "idle", "queued", "recover", "snapshot"}
        /\ rpc' \notin {rpc, "idle"} => rpc = "queued" \/ ~Maintaining
    BY <1>3 DEF Copied, RCopy, RStore, RAdmit, RGiveUp, RStart, Step, durable
  <2> QED
    BY <2>1 DEF Safe, Rooted, Fenced, HasWriter, Maintaining
<1>4. ASSUME Looked PROVE Rest
  BY <1>4 DEF Looked, Gains, Safe, Rooted, Fenced
<1>5. ASSUME Recovered \/ Persisted PROVE Rest
  BY <1>5 DEF Recovered, Persisted, Safe, Rooted, Fenced
<1>6. ASSUME Pinned PROVE Rest
  BY <1>6 DEF Pinned, Safe, Rooted, Fenced
<1>7. ASSUME Failed \/ HalfRecovered \/ Unfinished \/ Ended PROVE Rest
  <2>1. rpc' = "idle"
    BY <1>7 DEF Failed, HalfRecovered, Unfinished, Ended, Outcome, Stored
  <2> QED
    BY <1>7, <2>1 DEF Failed, HalfRecovered, Unfinished, Ended, Gains, Safe, Rooted
<1>8. Rest
  BY <1>3, <1>4, <1>5, <1>6, <1>7, RefreshSteps DEF Safe
<1> QED
  BY <1>1, <1>2, <1>8 DEF Safe, Fenced, Rooted, ReadsStay, InGit, HasWriter, SharedHeld

\* maintain() deletes pins and objects while nobody reads and no job works,
\* and never what a ref reaches.
LEMMA MaintainSafe == ASSUME Safe, Maintain PROVE Safe'
<1>1. Typed' /\ Typed
  BY MaintainTyped DEF Safe
<1>2. UNCHANGED <<rpc, snap, rd>>
  BY DEF Maintain, refreshV
<1>3. /\ HasWriter' => HasWriter \/ (mpc = "lock" /\ ~Refreshing)
      /\ mpc' = "lock" => mpc = "drain" /\ drained'
      /\ drained' = drained \/ (drained' /\ ~SharedHeld) \/ (mpc' = "off" /\ ~drained')
  BY DEF Maintain, MStart, MDrain, MLock, MBegin, MPrune, MGc, MPersist, MEnd, MPublish,
         MFail, MRelease, MStep, HasWriter, durable
<1>4. Fenced'
  BY <1>2, <1>3 DEF Safe, Fenced, SharedHeld, Refreshing, HasWriter
<1>5. \/ git' = git
      \/ HasWriter /\ MPrune
      \/ HasWriter /\ Collected
  BY DEF Maintain, MStart, MDrain, MLock, MBegin, MPrune, MGc, MPersist, MEnd, MPublish,
         MFail, MRelease, MStep, HasWriter, durable
<1>6. CASE git' = git
  BY <1>1, <1>2, <1>4, <1>6 DEF Safe, Rooted, ReadsStay, InGit
<1>7. CASE HasWriter /\ MPrune
  <2>1. PICK gone : git' = [git EXCEPT !.pins = @ \ gone]
    BY <1>7 DEF MPrune
  <2>2. git'.pins = git.pins \ gone /\ git'.objs = git.objs /\ git'.head = git.head
    BY <1>1, <2>1 DEF Typed, TypeOK
  <2> QED
    BY <1>1, <1>2, <1>4, <1>7, <2>2 DEF Safe, Rooted, ReadsStay, Fenced, SharedHeld
<1>8. CASE HasWriter /\ Collected
  <2>1. PICK keep : git' = [git EXCEPT !.objs = (@ \cap Reachable(git)) \cup keep]
    BY <1>8 DEF Collected
  <2>2. /\ git'.pins = git.pins /\ git'.head = git.head /\ git.head # None
        /\ git'.objs = (git.objs \cap Reachable(git)) \cup keep
    BY <1>1, <2>1, StoreAssumption DEF Typed, TypeOK
  <2> QED
    BY <1>1, <1>2, <1>4, <1>8, <2>2
    DEF Safe, Rooted, ReadsStay, Fenced, SharedHeld, Reachable
<1> QED
  BY <1>5, <1>6, <1>7, <1>8

\* A reader's lease is opened for a pin that is there.
LEMMA LeaseSafe == ASSUME Safe, Lease PROVE Safe'
<1>1. Typed' /\ Typed
  BY LeaseTyped DEF Safe
<1>2. UNCHANGED <<git, rpc, snap, mpc, drained>>
  BY DEF Lease, durable, refreshV, maintV
<1>3. PICK r \in Readers : (\E c \in Commits : Ask(r, c)) \/ Open(r) \/ Close(r)
  BY DEF Lease
<1>4. \A q \in Readers : q # r => rd'[q] = rd[q]
  BY <1>1, <1>3 DEF Typed, Ask, Open, Close
<1>5. rd'[r].at = "open" =>
        ~drained /\ (rd'[r].kind = "read" => rd'[r].sha \in git.pins)
  <2>1. CASE Open(r)
    BY <1>1, <2>1 DEF Open, Refused, Typed
  <2>2. CASE \E c \in Commits : Ask(r, c)
    <3>1. PICK c, kind : rd' = [rd EXCEPT ![r] = [at |-> "asked", sha |-> c, kind |-> kind]]
      BY <2>2 DEF Ask
    <3>2. rd'[r] = [at |-> "asked", sha |-> c, kind |-> kind]
      BY <1>1, <3>1 DEF Typed
    <3> QED
      BY <3>2
  <2>3. CASE Close(r)
    BY <1>1, <2>3 DEF Close, NoReader, Typed
  <2> QED
    BY <1>3, <2>1, <2>2, <2>3
<1> QED
  BY <1>1, <1>2, <1>4, <1>5 DEF Safe, Fenced, Rooted, ReadsStay, InGit, HasWriter, SharedHeld

\* A crash, a restart, a push and time leave the repository alone.
LEMMA OthersSafe ==
  ASSUME Safe, Crash \/ Restart \/ Push \/ Tick
  PROVE  Safe'
<1>1. Typed'
  BY OthersTyped DEF Safe
<1>2. /\ git' = git
      /\ rpc' \in {rpc, "idle"} /\ (rpc' = rpc /\ rpc # "idle" => snap' = snap)
      /\ \/ UNCHANGED <<mpc, drained>>
         \/ mpc' = "off" /\ drained' = FALSE
      /\ \A r \in Readers : rd'[r] \in {rd[r], NoReader}
  BY DEF Crash, Restart, Push, Tick, durable, refreshV, maintV
<1>3. NoReader.at = "idle"
  BY DEF NoReader
<1> QED
  BY <1>1, <1>2, <1>3 DEF Safe, Fenced, Rooted, ReadsStay, InGit, HasWriter, SharedHeld

\* A clone always finds what it reads, even where states are overwritten.
THEOREM ReadsAreSafe == Spec => []ReadsStay
<1>1. Safe /\ [Next]_vars => Safe'
  <2>1. Safe /\ UNCHANGED vars => Safe'
    BY DEF vars, durable, refreshV, maintV, Safe, Typed, TypeOK, Fenced, Rooted, ReadsStay,
           InGit, HasWriter, SharedHeld
  <2> QED
    BY <2>1, RefreshSafe, MaintainSafe, LeaseSafe, OthersSafe DEF Next
<1>2. Safe => ReadsStay
  BY DEF Safe
<1> QED
  BY <1>1, <1>2, InitSafe, PTL DEF Spec

-----------------------------------------------------------------------------
(* The inductive invariant *)

\* No job stores a copy of a state that has changed meanwhile.
NoOverwrite == "overwrite" \notin Faults

\* Not all of this goes wrong together: maintenance breaks off, a state is
\* written by a step that fails, and a worker starts with recover() failed.
NotAllThree == ~({"maintain", "finish", "restart"} \subseteq Faults)

\* A receipt's lease for c is being taken.
Asked(c) == \E r \in Readers : /\ rd[r].at = "asked" /\ rd[r].kind = "receipt"
                               /\ rd[r].sha = c

\* What maintenance changes is marked in progress, and a worker that is
\* not there holds nothing.
Marked ==
  /\ late = NoCopies
  /\ HasWriter => uses = NoUses
  /\ mpc \in {"prune", "gc", "persist", "end"} \/ rpc = "recover" => dirty
  /\ ~up => /\ rpc = "idle" /\ mpc = "off" /\ mem = disk
            /\ answer = NoPins /\ \A c \in Commits : ~Asked(c)

\* What the jobs hold where they are.
Places ==
  /\ rpc \in {"idle", "queued"} => prev = Empty
  /\ rpc \notin {"persist", "end"} => nxt = Empty
  /\ rpc \in {"persist", "end"} =>
       /\ snap \in git.pins
       /\ snap \in Pins(nxt)
       /\ nxt.pins[snap] = now + Keep
       /\ \A c \in Pins(nxt) \cap Pins(mem) : mem.pins[c] <= nxt.pins[c]

\* The copies of the state agree on the pins they share, except that the
\* state file is ahead of the memory just after it is written, and stays so
\* where the step that wrote it fails, and that maintenance holds pins for
\* as long or longer.
Agree(f, g) == \A c \in DOMAIN f \cap DOMAIN g : f[c] = g[c]
Longer(f, g) == \A c \in DOMAIN g : c \in DOMAIN f /\ f[c] <= g[c]
Copies ==
  /\ Within(prev.pins, mem.pins)
  /\ "finish" \notin Faults /\ rpc # "end" /\ mpc \notin {"end", "publish"}
       => Agree(mem.pins, disk.pins)
  /\ rpc = "end" => disk = nxt
  /\ mpc \in {"end", "publish"} => disk = mst
  /\ HasWriter => Longer(mem.pins, mst.pins)

\* Nothing is held for longer than a pin that is made now.
Bounded(f) == \A c \in DOMAIN f : f[c] <= now + Keep
Bounds ==
  /\ Bounded(mem.pins) /\ Bounded(disk.pins)
  /\ Bounded(prev.pins) /\ Bounded(nxt.pins) /\ Bounded(mst.pins)
  /\ Bounded(answer)
  /\ \A c \in Commits : uses[c] <= now

\* The pins of a copy whose time is not over are in Git,
Live(f) == \A c \in DOMAIN f : now <= f[c] => InGit(c)

\* and none ends before a receipt that names it, or that is about to be
\* served.
Keeps(f) ==
  /\ Live(f)
  /\ \A c \in DOMAIN f :
       /\ c \in DOMAIN answer /\ now <= answer[c] => answer[c] <= f[c]
       /\ Asked(c) => now <= f[c]

Claims ==
  /\ up => Keeps(mem.pins)
  /\ Keeps(prev.pins) /\ Keeps(nxt.pins)
  /\ HasWriter => Keeps(mst.pins)
  /\ Live(answer)
  /\ \A c \in Commits : uses[c] # 0 \/ Asked(c) => InGit(c)
  /\ ServedPinsStay

\* So are those of the state file, unless a change is marked in progress;
\* where a worker may start without recover() they are even then, but for
\* what maintenance, then sure to go on, is about to write.
OnDisk ==
  /\ ~dirty => Live(disk.pins)
  /\ "restart" \in Faults =>
       Live(disk.pins) \/ (mpc \in {"gc", "persist"} /\ ~MFails)

IInv == Safe /\ Marked /\ Places /\ Copies /\ Bounds /\ Claims /\ OnDisk

\* What the types say of numbers and domains.
LEMMA Numbers ==
  ASSUME Typed
  PROVE  /\ now \in Nat /\ now + Keep \in Nat /\ Keep \in Nat
         /\ \A s \in {mem, disk, prev, nxt, mst} :
              /\ Pins(s) = DOMAIN s.pins /\ DOMAIN s.pins \subseteq Commits
              /\ \A c \in DOMAIN s.pins : s.pins[c] \in Nat
         /\ DOMAIN answer \subseteq Commits
         /\ \A c \in DOMAIN answer : answer[c] \in Nat
         /\ \A c \in Commits : uses[c] \in Nat /\ promised[c] \in Nat
<1>1. now \in Nat /\ now + Keep \in Nat /\ Keep \in Nat
  BY StoreAssumption DEF Typed, TypeOK
<1>2. ASSUME NEW f \in PinSets
      PROVE  DOMAIN f \subseteq Commits /\ \A c \in DOMAIN f : f[c] \in Nat
  <2>1. /\ DOMAIN f \subseteq Commits
        /\ \A c \in DOMAIN f : f[c] \in 1..(MaxTime + Keep)
    BY PinSetsAre
  <2> QED
    BY <2>1, StoreAssumption
<1>3. \A s \in {mem, disk, prev, nxt, mst} : s.pins \in PinSets
  BY DEF Typed, TypeOK, State
<1>4. answer \in PinSets
  BY DEF Typed, TypeOK
<1>5. \A c \in Commits : uses[c] \in Nat /\ promised[c] \in Nat
  BY StoreAssumption DEF Typed, TypeOK
<1> QED
  BY <1>1, <1>2, <1>3, <1>4, <1>5 DEF Pins

\* The mirror starts so.
LEMMA InitInv == Init => IInv
<1> SUFFICES ASSUME Init PROVE IInv
  OBVIOUS
<1>1. /\ now = 1 /\ git.pins = {upstream} /\ git.objs = {upstream}
      /\ mem = disk /\ answer = disk.pins /\ late = NoCopies
      /\ rpc = "idle" /\ mpc = "off" /\ up = TRUE /\ dirty = FALSE
      /\ prev = Empty /\ nxt = Empty /\ mst = Empty
      /\ \A r \in Readers : rd[r].at = "idle"
      /\ \A c \in Commits : uses[c] = 0
  BY DEF Init, NoReader, NoUses
<1>2. disk.pins = [c \in {upstream} |-> 1 + Keep]
  BY DEF Init
<1>3. Keep \in Nat
  BY StoreAssumption
<1>4. Empty.pins = NoPins /\ DOMAIN NoPins = {}
  BY EmptyIs
<1>5. Marked /\ Places
  BY <1>1 DEF Marked, Places, HasWriter
<1>6. Copies
  BY <1>1, <1>4 DEF Copies, Within, Agree, HasWriter
<1>7. Bounds
  BY <1>1, <1>2, <1>3, <1>4 DEF Bounds, Bounded
<1>8. Live(disk.pins)
  BY <1>1, <1>2 DEF Live, InGit
<1>9. Claims
  BY <1>1, <1>2, <1>3, <1>4, <1>8 DEF Claims, Keeps, Live, InGit, Asked, ServedPinsStay,
                                      HasWriter
<1> QED
  BY <1>5, <1>6, <1>7, <1>8, <1>9, InitSafe DEF IInv, OnDisk

\* A job is admitted, gives up or begins.
LEMMA AdmitKeeps ==
  ASSUME IInv, Refresh, late' = late, RAdmit \/ RGiveUp \/ RStart
  PROVE  IInv'
<1>1. Safe' /\ Typed
  BY RefreshSafe DEF IInv, Safe
<1>2. /\ UNCHANGED <<now, uses, up, mpc, mst, drained, rd, git, disk, dirty, mem, snap>>
      /\ rpc' \in {rpc, "idle", "queued", "recover", "snapshot"}
      /\ rpc' # rpc => rpc \in {"idle", "queued"}
      /\ rpc' = "recover" => rpc = "recover" \/ dirty
      /\ rpc' # "idle" => up
      /\ rpc' \notin {rpc, "idle"} => ~HasWriter \/ rpc = "queued"
      /\ \/ prev' = prev /\ (rpc' \in {rpc, "idle", "queued"})
         \/ prev' = mem /\ rpc' \in {"recover", "snapshot"}
      /\ nxt' = nxt
      /\ answer' = answer \/ (up /\ Answer(mem))
  BY RefreshSteps DEF IInv, Marked, Places, RAdmit, RGiveUp, RStart, Step, durable, Safe,
                      HasWriter, Maintaining
<1>3. /\ mem.pins \in PinSets /\ DOMAIN mem.pins \subseteq Commits
      /\ answer' = answer \/ (up /\ Within(answer', mem.pins))
      /\ \A c \in DOMAIN mem.pins : mem.pins[c] \in Nat
      /\ \A c \in DOMAIN nxt.pins : nxt.pins[c] \in Nat
      /\ \A c \in DOMAIN mst.pins : mst.pins[c] \in Nat
      /\ now \in Nat
  <2>1. mem \in State /\ answer \in PinSets
    BY <1>1 DEF Typed, TypeOK
  <2> QED
    BY <1>1, <1>2, <2>1, AnswerTyped, Numbers DEF State
<1>4. Marked' /\ Places'
  BY <1>2 DEF IInv, Marked, Places, HasWriter, Asked
<1>5. Copies'
  BY <1>2 DEF IInv, Copies, Places, Within, Agree, Longer, HasWriter
<1>6. Bounds'
  BY <1>2, <1>3 DEF IInv, Bounds, Bounded, Within
<1>7. Claims'
  <2>1. up => Keeps(mem.pins)'
    BY <1>2, <1>3 DEF IInv, Claims, Keeps, Live, InGit, Asked, Within
  <2>2. Keeps(prev.pins)'
    <3>1. Within(prev'.pins, mem.pins)
      BY <1>2 DEF IInv, Copies, Within
    <3>2. CASE up
      BY <1>2, <2>1, <3>1, <3>2 DEF Keeps, Live, InGit, Asked, Within
    <3>3. CASE ~up
      BY <1>2, <3>3 DEF IInv, Claims, Marked, Keeps, Live, InGit, Asked
    <3> QED
      BY <3>2, <3>3
  <2>3. Keeps(nxt.pins)'
    <3>1. nxt.pins = NoPins \/ \A c \in DOMAIN nxt.pins \cap DOMAIN mem.pins :
                                  mem.pins[c] <= nxt.pins[c]
      BY EmptyIs DEF IInv, Places, Pins
    <3>2. ASSUME NEW c \in DOMAIN nxt.pins, c \in DOMAIN answer', now <= answer'[c]
          PROVE  answer'[c] <= nxt.pins[c]
      BY <1>2, <1>3, <3>1, <3>2, EmptyIs DEF IInv, Claims, Keeps, Within
    <3> QED
      BY <1>2, <3>2 DEF IInv, Claims, Keeps, Live, InGit, Asked
  <2>4. HasWriter => Keeps(mst.pins)'
    <3>1. ASSUME HasWriter, NEW c \in DOMAIN mst.pins, c \in DOMAIN answer', now <= answer'[c]
          PROVE  answer'[c] <= mst.pins[c]
      BY <1>2, <1>3, <3>1 DEF IInv, Claims, Keeps, Within, Copies, Longer
    <3> QED
      BY <1>2, <3>1 DEF IInv, Claims, Keeps, Live, InGit, Asked
  <2>5. Live(answer)'
    BY <1>2, <1>3 DEF IInv, Claims, Keeps, Live, InGit, Within
  <2> QED
    BY <1>2, <2>1, <2>2, <2>3, <2>4, <2>5 DEF IInv, Claims, InGit, Asked, ServedPinsStay,
                                             HasWriter
<1>8. OnDisk'
  BY <1>2 DEF IInv, OnDisk, Live, InGit
<1> QED
  BY <1>1, <1>4, <1>5, <1>6, <1>7, <1>8 DEF IInv

\* The upstream is asked or fetched from.
LEMMA LookKeeps == ASSUME IInv, Refresh, late' = late, Looked PROVE IInv'
<1>1. Safe'
  BY RefreshSafe DEF IInv
<1>2. /\ UNCHANGED <<now, uses, up, mpc, mst, rd, disk, mem, prev, nxt, answer>>
      /\ rpc \in {"snapshot", "fetch", "resnap", "refetch"}
      /\ rpc' \in {"fetch", "resnap", "refetch", "pin"}
      /\ git'.pins = git.pins /\ git.objs \subseteq git'.objs
      /\ dirty => dirty'
      /\ ~HasWriter
  BY RefreshSteps DEF Looked, Gains, IInv, Safe, Fenced
<1>3. Marked' /\ Places'
  BY <1>2 DEF IInv, Marked, Places, HasWriter, Asked
<1>4. Copies' /\ Bounds'
  BY <1>2 DEF IInv, Copies, Within, Agree, HasWriter, Bounds, Bounded
<1>5. Claims'
  BY <1>2 DEF IInv, Claims, Keeps, Live, InGit, Asked, ServedPinsStay, HasWriter
<1>6. OnDisk'
  BY <1>2 DEF IInv, OnDisk, Live, InGit, HasWriter
<1> QED
  BY <1>1, <1>3, <1>4, <1>5, <1>6 DEF IInv

\* recover() leaves a part of the state, all of it in Git.
LEMMA RecoverKeeps == ASSUME IInv, Refresh, late' = late, Recovered PROVE IInv'
<1>1. Safe'
  BY RefreshSafe DEF IInv
<1>2. /\ UNCHANGED <<now, uses, up, mpc, mst, rd, git, mem, answer, nxt>>
      /\ rpc = "recover" /\ rpc' = "snapshot"
      /\ disk' = prev' /\ nxt = Empty
      /\ ~HasWriter
  BY RefreshSteps DEF Recovered, IInv, Places, Safe, Fenced
<1>3. Within(prev'.pins, prev.pins) /\ DOMAIN prev'.pins \subseteq git.pins \cap git.objs
  BY RecoveriesAre DEF Recovered, IInv, Safe, Typed, TypeOK, Pins
<1>4. Marked' /\ Places'
  BY <1>2 DEF IInv, Marked, Places, HasWriter, Asked
<1>5. Copies' /\ Bounds'
  BY <1>2, <1>3 DEF IInv, Copies, Within, Agree, HasWriter, Bounds, Bounded
<1>6. Claims'
  BY <1>2, <1>3 DEF IInv, Claims, Keeps, Live, InGit, Asked, ServedPinsStay, HasWriter, Within
<1>7. OnDisk'
  BY <1>2, <1>3 DEF OnDisk, Live, InGit
<1> QED
  BY <1>1, <1>4, <1>5, <1>6, <1>7 DEF IInv

\* A pin made now outlasts every claim.
LEMMA PinKeeps == ASSUME IInv, Refresh, late' = late, Pinned PROVE IInv'
<1>1. Safe' /\ Typed
  BY RefreshSafe DEF IInv, Safe
<1>2. /\ UNCHANGED <<now, uses, up, mpc, mst, rd, disk, mem, prev, answer, snap>>
      /\ rpc = "pin" /\ rpc' = "persist"
      /\ git'.pins = git.pins \cup {snap} /\ git'.objs = git.objs
      /\ dirty => dirty'
      /\ snap \in git.objs
      /\ ~HasWriter
  BY RefreshSteps DEF Pinned, IInv, Safe, Rooted, Fenced
<1>3. /\ DOMAIN nxt'.pins = DOMAIN prev.pins \cup {snap}
      /\ nxt'.pins[snap] = now + Keep
      /\ \A d \in DOMAIN prev.pins : d # snap => nxt'.pins[d] = prev.pins[d]
  <2>1. prev \in State /\ snap \in Commits /\ now + Keep \in 1..(MaxTime + Keep)
    BY <1>1, <1>2, StoreAssumption DEF Typed, TypeOK
  <2>2. nxt' = Retain([prev EXCEPT !.ref = snap], snap, now + Keep)
    BY DEF Pinned
  <2> QED
    BY <2>1, <2>2, RetainIs DEF Pins
<1>4. /\ now \in Nat /\ Keep \in Nat /\ now <= now + Keep
      /\ \A c \in DOMAIN mem.pins : mem.pins[c] \in Nat
  BY <1>1, Numbers
<1>5. Marked'
  BY <1>2 DEF IInv, Marked, HasWriter, Asked
<1>6. Places'
  BY <1>2, <1>3, <1>4 DEF IInv, Places, Pins, Copies, Within, Bounds, Bounded
<1>7. Copies' /\ Bounds'
  BY <1>2, <1>3, <1>4 DEF IInv, Copies, Within, Agree, HasWriter, Bounds, Bounded
<1>8. Claims'
  <2>1. Keeps(nxt.pins)'
    BY <1>2, <1>3, <1>4 DEF IInv, Claims, Keeps, Live, InGit, Asked, Bounds, Bounded
  <2> QED
    BY <1>2, <2>1 DEF IInv, Claims, Keeps, Live, InGit, Asked, ServedPinsStay, HasWriter
<1>9. OnDisk'
  BY <1>2 DEF IInv, OnDisk, Live, InGit, HasWriter
<1> QED
  BY <1>1, <1>5, <1>6, <1>7, <1>8, <1>9 DEF IInv

\* The state with the new pin is written,
LEMMA PersistKeeps == ASSUME IInv, Refresh, late' = late, Persisted PROVE IInv'
<1>1. Safe'
  BY RefreshSafe DEF IInv
<1>2. /\ UNCHANGED <<now, uses, up, mpc, mst, rd, git, dirty, mem, prev, nxt, answer, snap>>
      /\ rpc = "persist" /\ rpc' = "end"
      /\ disk' = nxt
      /\ ~HasWriter
  BY RefreshSteps DEF Persisted, IInv, Safe, Fenced
<1>3. Marked' /\ Places'
  BY <1>2 DEF IInv, Marked, Places, Pins, HasWriter, Asked
<1>4. Copies' /\ Bounds'
  BY <1>2 DEF IInv, Copies, Within, Agree, HasWriter, Bounds, Bounded
<1>5. Claims'
  BY <1>2 DEF IInv, Claims, Keeps, Live, InGit, Asked, ServedPinsStay, HasWriter
<1>6. OnDisk'
  BY <1>2 DEF IInv, OnDisk, Claims, Keeps, Live, InGit
<1> QED
  BY <1>1, <1>3, <1>4, <1>5, <1>6 DEF IInv

\* The end of a job, with the state s: it is well kept, and every receipt
\* names a pin of it or was there before.
LEMMA OutcomeKeeps ==
  ASSUME IInv, Refresh, late' = late, NEW s, s \in State, Outcome(s), Safe',
         UNCHANGED <<now, uses, up, mpc, mst, drained, rd>>,
         up, ~HasWriter,
         git.pins \subseteq git'.pins, git.objs \subseteq git'.objs,
         Keeps(s.pins), Bounded(s.pins), Bounded(disk'.pins),
         "finish" \notin Faults => Agree(s.pins, disk'.pins),
         ~dirty' \/ "restart" \in Faults => Live(disk'.pins)
  PROVE  IInv'
<1>1. /\ mem' = s /\ rpc' = "idle" /\ prev' = Empty /\ nxt' = Empty
      /\ answer' = answer \/ Within(answer', s.pins)
  BY OutcomeTyped DEF IInv, Safe, Typed, TypeOK
<1>2. Empty.pins = NoPins /\ DOMAIN NoPins = {}
  BY EmptyIs
<1>3. /\ now \in Nat
      /\ \A c \in DOMAIN s.pins : s.pins[c] \in Nat
  <2>1. s.pins \in PinSets
    BY DEF State
  <2> QED
    BY <2>1, PinSetsAre, Numbers, StoreAssumption DEF IInv, Safe
<1>4. Marked' /\ Places'
  BY <1>1 DEF IInv, Marked, Places, HasWriter, Asked
<1>5. Copies' /\ Bounds'
  BY <1>1, <1>2 DEF IInv, Copies, Within, Agree, HasWriter, Bounds, Bounded
<1>6. Claims'
  <2>1. \A c \in DOMAIN s.pins : c \in DOMAIN answer' /\ now <= answer'[c]
                                 => answer'[c] <= s.pins[c]
    BY <1>1, <1>3 DEF Keeps, Within
  <2>2. Keeps(s.pins)'
    BY <2>1 DEF Keeps, Live, InGit, Asked
  <2> QED
    BY <1>1, <1>2, <2>2 DEF IInv, Claims, Keeps, Live, InGit, Asked, ServedPinsStay,
                            HasWriter, Within
<1>7. OnDisk'
  BY DEF OnDisk, Live, InGit
<1> QED
  BY <1>4, <1>5, <1>6, <1>7 DEF IInv

\* A job fails: it gives back the state it began with or what recover()
\* left of it, or it has confirmed the commit.
LEMMA EndKeeps ==
  ASSUME IInv, Refresh, late' = late, Failed \/ HalfRecovered \/ Unfinished \/ Ended
  PROVE  IInv'
<1>1. /\ UNCHANGED <<now, uses, up, mpc, mst, drained, rd>>
      /\ rpc \notin {"idle", "queued"}
      /\ git.pins \subseteq git'.pins /\ git.objs \subseteq git'.objs
      /\ up /\ ~HasWriter
      /\ Safe' /\ prev \in State /\ nxt \in State
  <2>1. UNCHANGED <<now, uses, up, mpc, mst, drained, rd>>
    BY RefreshSteps DEF IInv, Safe
  <2>2. rpc \notin {"idle", "queued"}
    BY DEF Failed, HalfRecovered, Unfinished, Ended
  <2>3. git.pins \subseteq git'.pins /\ git.objs \subseteq git'.objs
    BY DEF Failed, HalfRecovered, Unfinished, Ended, Gains
  <2> QED
    BY <2>1, <2>2, <2>3, RefreshSafe DEF IInv, Safe, Typed, TypeOK, Marked, Fenced
<1>2. \/ \E s \in {prev} \cup Recoveries(prev) :
           /\ Outcome(s)
           /\ rpc # "end"
           /\ \/ disk' = disk /\ (dirty => dirty')
              \/ disk' = s /\ s \in Recoveries(prev)
      \/ /\ Outcome(prev) /\ disk' = nxt /\ "finish" \in Faults
      \/ /\ Outcome(nxt) /\ disk' = nxt
  BY DEF Failed, HalfRecovered, Unfinished, Ended, IInv, Copies
<1>3. ASSUME NEW s \in {prev} \cup Recoveries(prev), Outcome(s), rpc # "end",
             \/ disk' = disk /\ (dirty => dirty')
             \/ disk' = s /\ s \in Recoveries(prev)
      PROVE  IInv'
  <2>1. /\ s \in State /\ Within(s.pins, prev.pins)
        /\ s \in Recoveries(prev) => DOMAIN s.pins \subseteq git.pins \cap git.objs
    BY <1>1, <1>3, RecoveriesAre DEF Within, Pins
  <2>2. Keeps(s.pins) /\ Bounded(s.pins) /\ Bounded(disk'.pins)
    BY <1>3, <2>1 DEF IInv, Claims, Keeps, Live, Bounds, Bounded, Within
  <2>3. "finish" \notin Faults => Agree(s.pins, disk'.pins)
    BY <1>1, <1>3, <2>1 DEF IInv, Copies, Agree, Within, HasWriter
  <2>4. ~dirty' \/ "restart" \in Faults => Live(disk'.pins)
    BY <1>1, <1>3, <2>1 DEF IInv, OnDisk, Live, InGit, HasWriter
  <2> QED
    BY <1>1, <1>3, <2>1, <2>2, <2>3, <2>4, OutcomeKeeps
<1>4. Live(nxt.pins) /\ Keeps(nxt.pins) /\ Bounded(nxt.pins) /\ Agree(nxt.pins, nxt.pins)
  BY DEF IInv, Claims, Keeps, Bounds, Agree
<1>5. ASSUME Outcome(prev), disk' = nxt, "finish" \in Faults PROVE IInv'
  <2>1. Keeps(prev.pins) /\ Bounded(prev.pins)
    BY DEF IInv, Claims, Bounds
  <2> QED
    BY <1>1, <1>4, <1>5, <2>1, OutcomeKeeps
<1>6. ASSUME Outcome(nxt), disk' = nxt PROVE IInv'
  BY <1>1, <1>4, <1>6, OutcomeKeeps
<1> QED
  BY <1>2, <1>3, <1>5, <1>6

\* Nobody holds a copy of the state outside the lock.
LEMMA NothingCopied ==
  ASSUME NoOverwrite, IInv, Refresh
  PROVE  ~Copied
BY StoreAssumption DEF NoOverwrite, IInv, Marked, NoCopies, Copied, RCopy, RStore

\* Whatever refresh() does, the invariant stays.
LEMMA RefreshKeeps == ASSUME NoOverwrite, IInv, Refresh PROVE IInv'
<1>1. late' = late /\ ~Copied
  BY NothingCopied, RefreshSteps DEF IInv, Safe
<1>2. \/ RAdmit \/ RGiveUp \/ RStart \/ Looked \/ Recovered \/ Pinned
      \/ Persisted \/ Failed \/ HalfRecovered \/ Unfinished \/ Ended
  BY <1>1, RefreshSteps DEF IInv, Safe
<1> QED
  BY <1>1, <1>2, AdmitKeeps, LookKeeps, RecoverKeeps, PinKeeps, PersistKeeps, EndKeeps

\* Steps of maintain() that change no copy of the state and no object.
LEMMA MarkKeeps ==
  ASSUME IInv, Maintain, git' = git,
         MStart \/ MDrain \/ MBegin \/ MEnd \/ MFail \/ MRelease
  PROVE  IInv'
<1>1. Safe'
  BY MaintainSafe DEF IInv
<1>2. UNCHANGED <<now, up, rpc, prev, nxt, snap, late, answer, rd, git, disk, uses, mem>>
  BY DEF Maintain, refreshV, MStart, MDrain, MBegin, MEnd, MFail, MRelease, durable
<1>3. \/ mpc = "off" /\ up /\ mpc' \in {"drain", "release"} /\ UNCHANGED <<dirty, mst>>
      \/ mpc = "drain" /\ mpc' \in {"lock", "release"} /\ UNCHANGED <<dirty, mst>>
      \/ mpc = "begin" /\ mpc' = "prune" /\ dirty' /\ mst' = mst
      \/ mpc = "begin" /\ mpc' = "release" /\ (dirty => dirty') /\ mst' = mst
      \/ mpc = "end" /\ mpc' = "publish" /\ mst' = mst
      \/ mpc = "end" /\ mpc' = "release" /\ "finish" \in Faults /\ mst' = mst
      \/ mpc \in {"gc", "persist"} /\ mpc' = "release" /\ UNCHANGED <<dirty, mst>> /\ MFails
      \/ mpc = "release" /\ mpc' = "off" /\ mst' = Empty /\ dirty' = dirty
  BY DEF MStart, MDrain, MBegin, MEnd, MFail, MRelease, MStep, MUnfinished, durable
<1>4. Empty.pins = NoPins /\ DOMAIN NoPins = {}
  BY EmptyIs
<1>5. Marked'
  BY <1>2, <1>3 DEF IInv, Marked, Safe, Fenced, HasWriter, Asked
<1>6. Places'
  BY <1>2 DEF IInv, Places, Pins
<1>7. Copies'
  BY <1>2, <1>3 DEF IInv, Copies, Within, Agree, Longer, HasWriter
<1>8. Bounds'
  BY <1>2, <1>3, <1>4 DEF IInv, Bounds, Bounded
<1>9. Claims'
  BY <1>2, <1>3 DEF IInv, Claims, Keeps, Live, InGit, Asked, ServedPinsStay, HasWriter
<1>10. OnDisk'
  <2>1. mpc = "end" => Live(disk.pins)
    BY DEF IInv, Copies, Claims, Keeps, HasWriter
  <2> QED
    BY <1>2, <1>3, <2>1 DEF IInv, OnDisk, Live, InGit
<1> QED
  BY <1>1, <1>5, <1>6, <1>7, <1>8, <1>9, <1>10 DEF IInv

\* The use records are added to maintenance's copy and removed.
LEMMA CollectKeeps == ASSUME IInv, Maintain, MLock PROVE IInv'
<1>1. Safe' /\ Typed
  BY MaintainSafe DEF IInv, Safe
<1>2. /\ UNCHANGED <<now, up, rpc, prev, nxt, snap, late, answer, rd, git, disk, mem, dirty>>
      /\ mpc = "lock"
  BY DEF Maintain, refreshV, MLock, MStep, durable
<1>3. CASE Refreshing
  <2>1. mpc' = "release" /\ UNCHANGED <<mst, uses>>
    BY <1>3 DEF MLock, MStep
  <2> QED
    BY <1>1, <1>2, <2>1 DEF IInv, Marked, HasWriter, Places, Pins, Copies, Within,
                            Agree, Bounds, Bounded, Claims, Keeps, Live, InGit, Asked,
                            ServedPinsStay, OnDisk
<1>4. CASE ~Refreshing
  <2>1. mpc' = "begin" /\ mst' = WithUses(mem) /\ uses' = NoUses /\ up
    BY <1>2, <1>4 DEF MLock, MStep, IInv, Marked
  <2>2. /\ DOMAIN mst'.pins = DOMAIN mem.pins
        /\ \A c \in DOMAIN mem.pins :
             /\ uses[c] = 0 => mst'.pins[c] = mem.pins[c]
             /\ uses[c] # 0 => mst'.pins[c] = Later(mem.pins[c], uses[c] + Keep)
             /\ mst'.pins[c] \in Int /\ mem.pins[c] \in Int
             /\ mem.pins[c] <= mst'.pins[c]
    BY <1>1, <2>1, UsesAre DEF Typed, TypeOK, Pins
  <2>3. /\ DOMAIN mem.pins \subseteq Commits /\ Keep \in Nat /\ now \in Nat
        /\ \A c \in Commits : uses[c] \in Nat
        /\ \A c \in DOMAIN answer : answer[c] \in Nat
    BY <1>1, Numbers
  <2>4. Marked' /\ Places'
    BY <1>2, <2>1 DEF IInv, Marked, HasWriter, Places, Pins, Asked
  <2>5. Copies'
    BY <1>2, <2>1, <2>2 DEF IInv, Copies, Within, Agree, Longer, HasWriter
  <2>6. \A c \in DOMAIN mem.pins :
           /\ mst'.pins[c] <= now + Keep
           /\ now <= mst'.pins[c] => InGit(c)
    BY <2>1, <2>2, <2>3 DEF IInv, Bounds, Bounded, Claims, Keeps, Live, Later
  <2>7. Bounds'
    BY <1>2, <2>1, <2>2, <2>3, <2>6 DEF IInv, Bounds, Bounded, NoUses
  <2>8. Keeps(mst.pins)'
    BY <1>2, <2>1, <2>2, <2>3, <2>6 DEF IInv, Claims, Keeps, Live, InGit, Asked
  <2>9. Claims'
    BY <1>2, <2>1, <2>8 DEF IInv, Claims, Keeps, Live, InGit, Asked, ServedPinsStay, HasWriter,
                            NoUses
  <2>10. OnDisk'
    BY <1>2, <2>1 DEF IInv, OnDisk, Live, InGit
  <2> QED
    BY <1>1, <2>4, <2>5, <2>7, <2>9, <2>10 DEF IInv
<1> QED
  BY <1>3, <1>4

\* Only pins whose time is over by the memory and by every receipt are
\* removed, while nobody reads.
LEMMA PruneKeeps == ASSUME NotAllThree, IInv, Maintain, MPrune PROVE IInv'
<1>1. Safe' /\ Typed
  BY MaintainSafe DEF IInv, Safe
<1>2. /\ UNCHANGED <<now, up, rpc, prev, nxt, snap, late, answer, rd, disk, mem, dirty, uses>>
      /\ mpc = "prune" /\ HasWriter
      /\ rpc = "idle" /\ uses = NoUses /\ ~SharedHeld /\ dirty /\ up
  BY DEF Maintain, refreshV, MPrune, MStep, IInv, Safe, Fenced, Marked, HasWriter
<1>3. PICK gone \in SUBSET Expired(mst) :
        /\ mpc' = "gc" \/ (mpc' = "release" /\ MFails)
        /\ git' = [git EXCEPT !.pins = @ \ gone]
        /\ mst' = [mst EXCEPT !.pins = Restrict(@, DOMAIN @ \ gone)]
  BY DEF MPrune, MStep
<1>4. git'.pins = git.pins \ gone /\ git'.objs = git.objs
  BY <1>1, <1>3 DEF Typed, TypeOK
<1>5. /\ DOMAIN mst'.pins = DOMAIN mst.pins \ gone
      /\ Within(mst'.pins, mst.pins)
  <2>1. mst \in State /\ mst.pins \in PinSets
    BY <1>1 DEF Typed, TypeOK, State
  <2>2. mst'.pins = Restrict(mst.pins, DOMAIN mst.pins \ gone)
    BY <1>3, <2>1 DEF State
  <2> QED
    BY <2>1, <2>2, RestrictIs
<1>6. /\ now \in Nat
      /\ \A c \in DOMAIN mst.pins : mst.pins[c] \in Nat
      /\ \A c \in DOMAIN mem.pins : mem.pins[c] \in Nat
      /\ \A c \in DOMAIN disk.pins : disk.pins[c] \in Nat
      /\ \A c \in DOMAIN answer : answer[c] \in Nat
  BY <1>1, Numbers
<1>7. \A c \in gone : c \in DOMAIN mst.pins /\ now > mst.pins[c]
  BY <1>3 DEF Expired, Pins
<1>8. \A c \in gone : /\ c \in DOMAIN mem.pins /\ mem.pins[c] < now
                      /\ c \in DOMAIN answer => answer[c] < now
                      /\ ~Asked(c)
  BY <1>2, <1>6, <1>7 DEF IInv, Copies, Longer, Claims, Keeps
<1>9. Marked' /\ Places'
  BY <1>2, <1>3 DEF IInv, Marked, HasWriter, Places, Asked
<1>10. Copies'
  BY <1>2, <1>3, <1>5 DEF IInv, Copies, Within, Agree, Longer, HasWriter
<1>11. Bounds'
  BY <1>2, <1>5 DEF IInv, Bounds, Bounded, Within
<1>12. Keeps(mem.pins)' /\ Keeps(prev.pins)' /\ Keeps(nxt.pins)'
  <2>1. Keeps(mem.pins)'
    BY <1>2, <1>4, <1>6, <1>8 DEF IInv, Claims, Keeps, Live, InGit, Asked
  <2>2. prev = Empty /\ nxt = Empty
    BY <1>2 DEF IInv, Places
  <2>3. Empty.pins = NoPins /\ DOMAIN NoPins = {}
    BY EmptyIs
  <2> QED
    BY <1>2, <2>1, <2>2, <2>3 DEF Keeps, Live
<1>13. Keeps(mst.pins)'
  BY <1>2, <1>4, <1>5 DEF IInv, Claims, Keeps, Live, InGit, Asked, Within
<1>14. Claims'
  <2>1. \A c \in DOMAIN answer : now <= answer[c] => c \notin gone
    BY <1>6, <1>8
  <2>2. \A c \in Commits : uses[c] # 0 \/ Asked(c) => c \notin gone
    BY <1>2, <1>8 DEF NoUses
  <2> QED
    BY <1>2, <1>4, <1>12, <1>13, <2>1, <2>2 DEF IInv, Claims, Live, InGit, Asked,
                                               ServedPinsStay, SharedHeld
<1>15. OnDisk'
  <2>1. CASE "restart" \in Faults /\ MFails
    <3>1. Agree(mem.pins, disk.pins) /\ Live(disk.pins)
      BY <1>2, <2>1 DEF NotAllThree, MFails, IInv, Copies, OnDisk
    <3>2. \A c \in gone : c \in DOMAIN disk.pins => disk.pins[c] < now
      BY <1>8, <3>1 DEF Agree
    <3>3. Live(disk.pins)'
      BY <1>2, <1>4, <1>6, <3>1, <3>2 DEF Live, InGit
    <3> QED
      BY <3>3 DEF OnDisk
  <2>2. CASE "restart" \in Faults /\ ~MFails
    BY <1>2, <1>3, <2>2 DEF OnDisk, MFails
  <2>3. CASE "restart" \notin Faults
    BY <1>2, <2>3 DEF OnDisk
  <2> QED
    BY <2>1, <2>2, <2>3
<1> QED
  BY <1>1, <1>9, <1>10, <1>11, <1>14, <1>15 DEF IInv

\* What refs reach is never collected.
LEMMA GarbageKeeps == ASSUME IInv, Maintain, Collected, MGc \/ MFail PROVE IInv'
<1>1. Safe' /\ Typed
  BY MaintainSafe DEF IInv, Safe
<1>2. /\ UNCHANGED <<now, up, rpc, prev, nxt, snap, late, answer, rd, disk, mem, mst, uses>>
      /\ dirty => dirty'
      /\ \/ mpc = "gc" /\ mpc' = "persist"
         \/ mpc \in {"begin", "gc", "persist"} /\ mpc' = "release" /\ MFails
         \/ mpc = "end" /\ mpc' = "release" /\ "finish" \in Faults
  <2>1. UNCHANGED <<now, up, rpc, prev, nxt, snap, late, answer, rd, disk, mem, mst, uses>>
    BY DEF Maintain, refreshV, MGc, MFail
  <2>2. dirty => dirty'
    BY <1>1 DEF MGc, MFail, Typed, TypeOK
  <2>3. \/ mpc = "gc" /\ mpc' = "persist"
        \/ mpc \in {"begin", "gc", "persist"} /\ mpc' = "release" /\ MFails
        \/ mpc = "end" /\ mpc' = "release" /\ "finish" \in Faults
    BY DEF MGc, MFail, MStep
  <2> QED
    BY <2>1, <2>2, <2>3
<1>3. PICK keep \in SUBSET (git.objs \ Reachable(git)) :
        git' = [git EXCEPT !.objs = (@ \cap Reachable(git)) \cup keep]
  BY DEF Collected
<1>4. /\ git'.pins = git.pins
      /\ git'.objs = (git.objs \cap Reachable(git)) \cup keep
  BY <1>1, <1>3 DEF Typed, TypeOK
<1>5. \A c : c \in git.pins \cap git.objs => c \in git'.pins \cap git'.objs
  BY <1>4 DEF Reachable
<1>6. Marked'
  BY <1>2 DEF IInv, Marked, HasWriter, Asked
<1>7. Places'
  BY <1>2, <1>4 DEF IInv, Places, Pins
<1>8. Copies' /\ Bounds'
  BY <1>2 DEF IInv, Copies, Within, Agree, Longer, HasWriter, Bounds, Bounded
<1>9. Claims'
  BY <1>2, <1>5 DEF IInv, Claims, Keeps, Live, InGit, Asked, ServedPinsStay, HasWriter
<1>10. OnDisk'
  <2>1. mpc = "end" => Live(disk.pins)
    BY DEF IInv, Copies, Claims, Keeps, HasWriter
  <2> QED
    BY <1>2, <1>5, <2>1 DEF IInv, OnDisk, Live, InGit
<1> QED
  BY <1>1, <1>6, <1>7, <1>8, <1>9, <1>10 DEF IInv

\* maintain() writes its copy of the state, and then stores it; nothing
\* else writes the memory between.
LEMMA PublishKeeps == ASSUME IInv, Maintain, MPersist \/ MPublish PROVE IInv'
<1>1. Safe'
  BY MaintainSafe DEF IInv
<1>2. /\ UNCHANGED <<now, up, rpc, prev, nxt, snap, late, answer, rd, git, mst, dirty, uses>>
      /\ \/ /\ mpc = "persist" /\ disk' = mst /\ mem' = mem
            /\ mpc' = "end" \/ (mpc' = "release" /\ "finish" \in Faults)
         \/ mpc = "publish" /\ mpc' = "release" /\ mem' = mst /\ disk' = disk
  BY DEF Maintain, refreshV, MPersist, MPublish, MStep, MUnfinished, durable
<1>3. /\ HasWriter /\ rpc = "idle" /\ prev = Empty /\ nxt = Empty /\ up
      /\ mpc = "publish" => disk = mst
  BY <1>2 DEF IInv, Marked, Safe, Fenced, HasWriter, Copies, Places
<1>4. Empty.pins = NoPins /\ DOMAIN NoPins = {}
  BY EmptyIs
<1>5. Marked' /\ Places'
  BY <1>2, <1>3 DEF IInv, Marked, HasWriter, Asked, Places
<1>6. Copies'
  BY <1>2, <1>3, <1>4 DEF IInv, Copies, Within, Agree, Longer, HasWriter
<1>7. Bounds'
  BY <1>2, <1>3 DEF IInv, Bounds, Bounded
<1>8. Claims'
  BY <1>2, <1>3 DEF IInv, Claims, Keeps, Live, InGit, Asked, ServedPinsStay, HasWriter
<1>9. OnDisk'
  BY <1>2, <1>3 DEF IInv, OnDisk, Claims, Keeps, Live, InGit
<1> QED
  BY <1>1, <1>5, <1>6, <1>7, <1>8, <1>9 DEF IInv

\* Whatever maintain() does, the invariant stays.
LEMMA MaintainKeeps == ASSUME NotAllThree, IInv, Maintain PROVE IInv'
<1>1. MGc \/ MFail => git' = git \/ Collected
  BY DEF MGc, MFail
<1>2. MStart \/ MDrain \/ MBegin \/ MEnd \/ MRelease => git' = git
  BY DEF MStart, MDrain, MBegin, MEnd, MRelease, durable
<1>3. MGc => Collected
  BY DEF MGc
<1> QED
  BY <1>1, <1>2, <1>3, MarkKeeps, CollectKeeps, PruneKeeps, GarbageKeeps, PublishKeeps
  DEF Maintain

\* A lease is for a pin that is in Git: a receipt's because its time is not
\* over, a reader's because the pin was looked for under the lock.
LEMMA LeaseKeeps == ASSUME IInv, Lease PROVE IInv'
<1>1. Safe' /\ Typed
  BY LeaseSafe DEF IInv, Safe
<1>2. UNCHANGED <<now, git, disk, dirty, barred, up, mem, rpc, prev, nxt, snap, late, mpc, mst,
                  drained, answer>>
  BY DEF Lease, durable, refreshV, maintV
<1>3. PICK r \in Readers : (\E c \in Commits : Ask(r, c)) \/ Open(r) \/ Close(r)
  BY DEF Lease
<1>4. /\ DOMAIN answer \subseteq Commits /\ now \in Nat
      /\ \A c \in DOMAIN answer : answer[c] \in Nat
      /\ \A s \in {mem, disk, prev, nxt, mst} : \A c \in DOMAIN s.pins : s.pins[c] \in Nat
  BY <1>1, Numbers
<1>5. /\ rd \in [Readers -> [at   : {"idle", "asked", "open"},
                             sha  : Commits \cup {None},
                             kind : {"receipt", "read"}]]
      /\ \A q \in Readers : rd[q].at # "idle" => rd[q].sha \in Commits
      /\ uses \in [Commits -> 0..MaxTime]
  BY <1>1 DEF Typed, TypeOK
<1> DEFINE Rest == /\ HasWriter => uses' = NoUses
                   /\ \A c \in Commits : uses'[c] <= now
                   /\ \A c \in Commits : uses'[c] # 0 => InGit(c)
                   /\ \A q \in Readers : rd'[q].at = "open" => InGit(rd'[q].sha)
                   /\ \A q \in Readers :
                        /\ rd'[q].at = "asked" /\ rd'[q].kind = "receipt"
                        => \/ Asked(rd'[q].sha)
                           \/ /\ up /\ rd'[q].sha \in DOMAIN answer
                              /\ now <= answer[rd'[q].sha]
<1>6. ASSUME NEW c \in Commits, Ask(r, c) PROVE Rest
  <2>1. PICK kind \in {"receipt", "read"} :
          /\ kind = "receipt" => up /\ c \in DOMAIN answer /\ now <= answer[c]
          /\ rd' = [rd EXCEPT ![r] = [at |-> "asked", sha |-> c, kind |-> kind]]
    BY <1>6 DEF Ask
  <2> DEFINE asked == [at |-> "asked", sha |-> c, kind |-> kind]
  <2>2. asked.at = "asked" /\ asked.sha = c /\ asked.kind = kind
    OBVIOUS
  <2>3. uses' = uses
    BY <1>6 DEF Ask
  <2>4. rd'[r] = asked /\ \A q \in Readers \ {r} : rd'[q] = rd[q]
    BY <1>5, <2>1
  <2> HIDE DEF asked
  <2> QED
    BY <2>1, <2>2, <2>3, <2>4 DEF Asked, IInv, Marked, Bounds, Claims, ServedPinsStay
<1>7. ASSUME Open(r) PROVE Rest
  <2>1. /\ rd[r].at = "asked" /\ ~drained
        /\ rd[r].kind = "read" => rd[r].sha \in git.pins
        /\ rd' = [rd EXCEPT ![r].at = "open"]
        /\ uses' = [uses EXCEPT ![rd[r].sha] = now]
    BY <1>7 DEF Open, Refused
  <2>2. /\ rd'[r].at = "open" /\ rd'[r].sha = rd[r].sha
        /\ \A q \in Readers \ {r} : rd'[q] = rd[q]
    BY <1>5, <2>1
  <2>3. rd[r].sha \in Commits /\ rd[r].kind \in {"receipt", "read"}
    BY <1>5, <2>1
  <2>4. InGit(rd[r].sha)
    BY <2>1, <2>3 DEF IInv, Safe, Rooted, Claims, Asked, InGit
  <2>5. \A c \in Commits : uses'[c] = IF c = rd[r].sha THEN now ELSE uses[c]
    BY <1>5, <2>1, <2>3
  <2>6. ~HasWriter
    BY <2>1 DEF IInv, Safe, Fenced
  <2> QED
    BY <1>4, <2>1, <2>2, <2>4, <2>5, <2>6
    DEF Asked, IInv, Marked, Bounds, Claims, ServedPinsStay
<1>8. ASSUME Close(r) PROVE Rest
  <2>1. /\ rd'[r].at = "idle" /\ \A q \in Readers \ {r} : rd'[q] = rd[q]
        /\ uses' = uses
    BY <1>5, <1>8 DEF Close, NoReader
  <2> QED
    BY <2>1 DEF Asked, IInv, Marked, Bounds, Claims, ServedPinsStay
<1>9. Rest
  BY <1>3, <1>6, <1>7, <1>8
<1> HIDE DEF Rest
<1>10. \A c : Asked(c)' => Asked(c) \/ (up /\ c \in DOMAIN answer /\ now <= answer[c])
  BY <1>9 DEF Rest, Asked
<1>11. Marked' /\ Places' /\ Copies' /\ Bounds'
  BY <1>2, <1>9, <1>10 DEF Rest, IInv, Marked, HasWriter, Places, Pins, Copies, Within,
                           Agree, Longer, Bounds, Bounded
<1>12. /\ up => Keeps(mem.pins)'
       /\ Keeps(prev.pins)' /\ Keeps(nxt.pins)'
       /\ HasWriter => Keeps(mst.pins)'
  BY <1>2, <1>4, <1>10 DEF IInv, Claims, Keeps, Live, InGit
<1>13. Claims'
  BY <1>2, <1>9, <1>10, <1>12 DEF Rest, IInv, Claims, Live, InGit, ServedPinsStay, HasWriter
<1>14. OnDisk'
  BY <1>2 DEF IInv, OnDisk, Live, InGit
<1> QED
  BY <1>1, <1>11, <1>13, <1>14 DEF IInv

\* The worker dies: what is left is what the state file says.
LEMMA CrashKeeps == ASSUME IInv, Crash PROVE IInv'
<1>1. Safe' /\ Typed
  BY OthersSafe DEF IInv, Safe
<1>2. /\ UNCHANGED <<now, git, disk, dirty, uses>>
      /\ up' = FALSE
      /\ rpc' = "idle" /\ prev' = Empty /\ nxt' = Empty /\ late' = NoCopies
      /\ mpc' = "off" /\ mst' = Empty /\ mem' = disk /\ answer' = NoPins
      /\ mpc \in {"gc", "persist"} => MFails
  BY DEF Crash, durable
<1>3. \A r \in Readers : rd'[r] = IF rd[r].kind = "receipt" THEN NoReader ELSE rd[r]
  BY DEF Crash
<1>4. NoReader.at = "idle"
  BY DEF NoReader
<1>5. Empty.pins = NoPins /\ DOMAIN NoPins = {}
  BY EmptyIs
<1>6. \A c : ~Asked(c)'
  BY <1>3, <1>4 DEF Asked
<1>7. Marked' /\ Places'
  BY <1>2, <1>6 DEF IInv, Marked, HasWriter, Places
<1>8. Copies' /\ Bounds'
  BY <1>2, <1>5 DEF IInv, Copies, Within, Agree, HasWriter, Bounds, Bounded
<1>9. Claims'
  BY <1>2, <1>3, <1>4, <1>5, <1>6
  DEF IInv, Claims, Keeps, Live, InGit, ServedPinsStay, HasWriter
<1>10. OnDisk'
  BY <1>2 DEF IInv, OnDisk, Live, InGit
<1> QED
  BY <1>1, <1>7, <1>8, <1>9, <1>10 DEF IInv

\* The worker comes back, with a recovered state or with the file's.
LEMMA RestartKeeps == ASSUME IInv, Restart PROVE IInv'
<1>1. Safe' /\ Typed
  BY OthersSafe DEF IInv, Safe
<1>2. /\ UNCHANGED <<now, git, uses, rpc, prev, nxt, snap, late, mpc, mst, answer, rd>>
      /\ ~up /\ up'
      /\ rpc = "idle" /\ mpc = "off" /\ prev = Empty /\ nxt = Empty
      /\ answer = NoPins /\ (\A c \in Commits : ~Asked(c))
      /\ \/ mem' \in Recoveries(disk) /\ disk' = mem'
         \/ /\ "restart" \in Faults
            /\ mem' \in {disk} \cup Recoveries(disk) /\ disk' = disk /\ dirty' = dirty
  BY DEF Restart, refreshV, maintV, IInv, Marked, Places
<1>3. disk \in State /\ DOMAIN disk.pins \subseteq Commits
  BY <1>1, Numbers DEF Typed, TypeOK
<1>4. "restart" \in Faults => Live(disk.pins)
  BY <1>2 DEF IInv, OnDisk
<1>5. /\ Within(mem'.pins, disk.pins) /\ Within(disk'.pins, disk.pins)
      /\ disk' = disk \/ disk' = mem'
      /\ Live(mem'.pins)
      /\ "restart" \in Faults \/ ~dirty' => Live(disk'.pins)
  <2>1. ASSUME mem' \in Recoveries(disk)
        PROVE  Within(mem'.pins, disk.pins) /\ Live(mem'.pins)
    BY <1>3, <2>1, RecoveriesAre DEF Pins, Live, InGit
  <2>2. Within(disk.pins, disk.pins)
    BY DEF Within
  <2> QED
    BY <1>2, <1>4, <2>1, <2>2
<1>6. Empty.pins = NoPins /\ DOMAIN NoPins = {}
  BY EmptyIs
<1>7. Marked' /\ Places'
  BY <1>2 DEF IInv, Marked, HasWriter, Places
<1>8. Copies' /\ Bounds'
  BY <1>2, <1>5, <1>6 DEF IInv, Copies, Within, Agree, HasWriter, Bounds, Bounded
<1>9. Keeps(mem.pins)'
  BY <1>2, <1>3, <1>5, <1>6 DEF Keeps, Live, InGit, Asked, Within
<1>10. Claims'
  BY <1>2, <1>9 DEF IInv, Claims, Keeps, Live, InGit, Asked, ServedPinsStay, HasWriter
<1>11. OnDisk'
  BY <1>2, <1>5 DEF OnDisk, Live, InGit
<1> QED
  BY <1>1, <1>7, <1>8, <1>10, <1>11 DEF IInv

\* The upstream moves.
LEMMA PushKeeps == ASSUME IInv, Push PROVE IInv'
<1>1. Safe'
  BY OthersSafe DEF IInv
<1>2. UNCHANGED <<now, git, disk, dirty, uses, up, mem, rpc, prev, nxt, snap, late, mpc, mst,
                  drained, answer, rd>>
  BY DEF Push, durable, refreshV, maintV
<1> QED
  BY <1>1, <1>2 DEF IInv, Marked, HasWriter, Places, Pins, Copies, Within, Agree, Longer,
     Bounds, Bounded, Claims, Keeps, Live, InGit, Asked, ServedPinsStay, OnDisk

\* Time passes while no job and no lease is being taken.
LEMMA TickKeeps == ASSUME IInv, Tick PROVE IInv'
<1>1. Safe' /\ Typed
  BY OthersSafe DEF IInv, Safe
<1>2. /\ UNCHANGED <<git, disk, dirty, uses, up, mem, rpc, prev, nxt, snap, late, mpc, mst, rd>>
      /\ now' = now + 1 /\ rpc = "idle"
      /\ \A r \in Readers : rd[r].at # "asked"
      /\ answer' = Restrict(answer, {c \in DOMAIN answer : now < answer[c]})
  BY DEF Tick, durable, refreshV, maintV
<1>3. Within(answer', answer)
  BY <1>1, <1>2, RestrictIs DEF Typed, TypeOK
<1>4. /\ now \in Nat /\ Keep \in Nat
      /\ \A s \in {mem, disk, prev, nxt, mst} : \A c \in DOMAIN s.pins : s.pins[c] \in Nat
      /\ \A c \in DOMAIN answer : answer[c] \in Nat
      /\ \A c \in Commits : uses[c] \in Nat
  BY <1>1, Numbers
<1>5. \A c : ~Asked(c)'
  BY <1>2 DEF Asked
<1>6. ~up => answer' = NoPins
  <2>1. ASSUME answer = NoPins PROVE answer' = NoPins
    <3>1. DOMAIN answer = {} /\ answer = [c \in {} |-> 0]
      BY <2>1, EmptyIs DEF NoPins
    <3>2. answer' = [c \in {} |-> answer[c]]
      BY <1>2, <3>1 DEF Restrict
    <3> QED
      BY <3>2 DEF NoPins
  <2> QED
    BY <2>1 DEF IInv, Marked
<1>7. Marked' /\ Places'
  BY <1>2, <1>5, <1>6 DEF IInv, Marked, HasWriter, Places
<1>8. Copies'
  BY <1>2 DEF IInv, Copies, Within, Agree, Longer, HasWriter
<1>9. Bounds'
  BY <1>2, <1>3, <1>4 DEF IInv, Bounds, Bounded, Within
<1>10. ASSUME NEW f, Live(f), \A c \in DOMAIN f : f[c] \in Nat
       PROVE  \A c \in DOMAIN f : now' <= f[c] => InGit(c)
  BY <1>2, <1>4, <1>10 DEF Live
<1>11. ASSUME NEW f, Keeps(f), \A c \in DOMAIN f : f[c] \in Nat
       PROVE  \A c \in DOMAIN f :
                c \in DOMAIN answer' /\ now' <= answer'[c] => answer'[c] <= f[c]
  BY <1>2, <1>3, <1>4, <1>11 DEF Keeps, Within
<1>12. /\ up => Keeps(mem.pins)'
       /\ Keeps(prev.pins)' /\ Keeps(nxt.pins)'
       /\ HasWriter => Keeps(mst.pins)'
  BY <1>2, <1>4, <1>5, <1>10, <1>11 DEF IInv, Claims, Keeps, Live, InGit
<1>13. Claims'
  BY <1>2, <1>3, <1>4, <1>5, <1>12 DEF IInv, Claims, Live, InGit, ServedPinsStay, HasWriter,
                                       Within
<1>14. OnDisk'
  BY <1>2, <1>4, <1>10 DEF IInv, OnDisk, Live, InGit
<1> QED
  BY <1>1, <1>7, <1>8, <1>9, <1>13, <1>14 DEF IInv

\* The inductive invariant, unless a copy of the state overwrites it, or
\* three failures meet.
THEOREM Invariant == ASSUME NoOverwrite, NotAllThree PROVE Spec => []IInv
<1>1. IInv /\ UNCHANGED vars => IInv'
  BY DEF vars, durable, refreshV, maintV, Safe, Typed, TypeOK, Fenced, Rooted, ReadsStay,
     SharedHeld, IInv, Marked, HasWriter, Places, Pins, Copies, Within, Agree, Longer, Bounds,
     Bounded, Claims, Keeps, Live, InGit, Asked, ServedPinsStay, OnDisk
<1>2. IInv /\ [Next]_vars => IInv'
  BY <1>1, RefreshKeeps, MaintainKeeps, LeaseKeeps, CrashKeeps, RestartKeeps, PushKeeps,
     TickKeeps DEF Next
<1> QED
  BY <1>2, InitInv, PTL DEF Spec

\* A pin and its commit stay in the repository while a lease that serves
\* them is open, whatever fails, unless a job that gave up overwrites the
\* state (gitmirror_coordinator.go:323-325, 359), or maintenance breaks
\* off, a state is written by a step that fails and the worker starts
\* with recover() failed, all three.
THEOREM ServedPinsAreSafe ==
  ASSUME NoOverwrite, NotAllThree PROVE Spec => []ServedPinsStay
<1>1. IInv => ServedPinsStay
  BY DEF IInv, Claims
<1>2. Spec => []IInv
  BY Invariant
<1> QED
  BY <1>1, <1>2, PTL

\* What the state file claims for a time that is not over is in Git, unless
\* it is marked in progress, under the same two conditions.
THEOREM DiskIsTrue ==
  ASSUME NoOverwrite, NotAllThree PROVE Spec => []DiskIsBacked
<1>1. IInv => DiskIsBacked
  BY DEF IInv, OnDisk, Live, DiskIsBacked, Pins
<1>2. Spec => []IInv
  BY Invariant
<1> QED
  BY <1>1, <1>2, PTL

-----------------------------------------------------------------------------
(* The promise of retention *)

\* Maintenance loses no use record that a promise rests on.
UsesCollected == "use" \in Promises => ~MFails

\* A copy of the pins: no promise outlasts its pin, or the use record that
\* will extend it.
Covered(f) ==
  \A c \in DOMAIN f :
    now <= promised[c] =>
      \/ promised[c] <= f[c]
      \/ "use" \in Promises /\ uses[c] # 0 /\ promised[c] <= uses[c] + Keep

Promised ==
  /\ \A c \in Commits : promised[c] <= now + Keep
  /\ PromisesKept
  /\ ~HasWriter \/ MFails =>
       Covered(mem.pins) /\ Covered(disk.pins) /\ Covered(prev.pins) /\ Covered(nxt.pins)
  /\ HasWriter => Covered(mst.pins)

\* Nothing has been promised at the start.
LEMMA InitPromised == Init => Promised
<1> SUFFICES ASSUME Init PROVE Promised
  OBVIOUS
<1>1. now = 1 /\ (\A c \in Commits : promised[c] = 0) /\ mpc = "off"
      /\ prev = Empty /\ nxt = Empty
      /\ mem = disk /\ disk.pins = [c \in {upstream} |-> 1 + Keep] /\ upstream \in Commits
  BY DEF Init, NoUses
<1>2. Keep \in Nat /\ Empty.pins = NoPins /\ DOMAIN NoPins = {}
  BY StoreAssumption, EmptyIs
<1> QED
  BY <1>1, <1>2 DEF Promised, PromisesKept, Covered, HasWriter

\* A part of a covered copy is covered.
LEMMA PartCovered ==
  ASSUME NEW f, NEW g, Covered(f), Within(g, f)
  PROVE  Covered(g)
BY DEF Covered, Within

\* Steps of refresh() that promise nothing.
LEMMA RefreshPromises ==
  ASSUME NoOverwrite, IInv, Promised, Refresh, ~Ended
  PROVE  Promised'
<1>1. /\ UNCHANGED <<now, uses, mpc, mst>>
      /\ \/ RAdmit \/ RGiveUp \/ RStart \/ Looked \/ Recovered \/ Pinned \/ Persisted
         \/ Failed \/ HalfRecovered \/ Unfinished
  BY RefreshSteps, NothingCopied DEF IInv, Safe
<1>2. Empty.pins = NoPins /\ DOMAIN NoPins = {}
  BY EmptyIs
<1>3. /\ now \in Nat /\ Keep \in Nat /\ \A c \in Commits : promised[c] \in Nat
      /\ prev \in State /\ nxt \in State /\ answer \in PinSets
      /\ now + Keep \in 1..(MaxTime + Keep)
  BY Numbers, StoreAssumption DEF IInv, Safe, Typed, TypeOK
<1> DEFINE Rest ==
      /\ promised' = promised
      /\ git.pins \subseteq git'.pins /\ git.objs \subseteq git'.objs
      /\ ~HasWriter \/ MFails => /\ Covered(mem'.pins) /\ Covered(disk'.pins)
                                 /\ Covered(prev'.pins) /\ Covered(nxt'.pins)
<1>4. ASSUME RAdmit \/ RGiveUp \/ RStart PROVE Rest
  <2>1. /\ UNCHANGED <<git, disk, promised>>
        /\ mem' = mem /\ prev' \in {prev, mem} /\ nxt' = nxt
    BY <1>4 DEF RAdmit, RGiveUp, RStart, durable
  <2> QED
    BY <2>1 DEF Promised
<1>5. ASSUME Looked PROVE Rest
  BY <1>5 DEF Looked, Gains, Promised
<1>6. ASSUME Recovered PROVE Rest
  <2>1. Within(prev'.pins, prev.pins)
    BY <1>3, <1>6, RecoveriesAre DEF Recovered
  <2> QED
    BY <1>6, <2>1, PartCovered DEF Recovered, Promised
<1>7. ASSUME Pinned PROVE Rest
  <2>1. snap \in Commits /\ nxt' = Retain([prev EXCEPT !.ref = snap], snap, now + Keep)
    BY <1>7 DEF Pinned, IInv, Safe, Typed
  <2>2. /\ DOMAIN nxt'.pins = DOMAIN prev.pins \cup {snap}
        /\ nxt'.pins[snap] = now + Keep
        /\ \A d \in DOMAIN prev.pins : d # snap => nxt'.pins[d] = prev.pins[d]
    BY <1>3, <2>1, RetainIs DEF Pins
  <2>3. ~HasWriter \/ MFails => Covered(nxt'.pins)
    BY <2>1, <2>2 DEF Promised, Covered
  <2> QED
    BY <1>7, <2>3 DEF Pinned, Promised
<1>8. ASSUME Persisted PROVE Rest
  BY <1>8 DEF Persisted, Promised
<1>9. ASSUME Failed \/ HalfRecovered \/ Unfinished PROVE Rest
  <2>1. PICK s \in {prev} \cup Recoveries(prev) : Outcome(s) /\ disk' \in {disk, s, nxt}
    BY <1>9 DEF Failed, HalfRecovered, Unfinished
  <2>2. s \in State /\ Within(s.pins, prev.pins)
    BY <1>3, <2>1, RecoveriesAre DEF Within
  <2>3. mem' = s /\ prev' = Empty /\ nxt' = Empty
    BY <1>3, <2>1, <2>2, OutcomeTyped
  <2>4. Covered(NoPins)
    BY <1>2 DEF Covered
  <2>5. /\ promised' = promised
        /\ git.pins \subseteq git'.pins /\ git.objs \subseteq git'.objs
    BY <1>9 DEF Failed, HalfRecovered, Unfinished, Gains
  <2> QED
    BY <1>2, <2>1, <2>2, <2>3, <2>4, <2>5, PartCovered DEF Promised
<1>10. Rest
  BY <1>1, <1>4, <1>5, <1>6, <1>7, <1>8, <1>9
<1> HIDE DEF Rest
<1> QED
  BY <1>1, <1>10 DEF Rest, Promised, PromisesKept, Covered, InGit, HasWriter

\* A confirmation promises the pin it has just made.
LEMMA EndPromises == ASSUME IInv, Promised, Refresh, Ended PROVE Promised'
<1>1. /\ UNCHANGED <<now, uses, mpc, mst, git, disk>>
      /\ Outcome(nxt) /\ Promise("confirmation", snap, now) /\ rpc = "end"
      /\ snap \in Commits /\ nxt \in State /\ answer \in PinSets
      /\ ~HasWriter /\ disk = nxt
  BY RefreshSteps DEF Ended, IInv, Safe, Typed, TypeOK, Fenced, Copies
<1>2. mem' = nxt /\ prev' = Empty /\ nxt' = Empty
  BY <1>1, OutcomeTyped
<1>3. Empty.pins = NoPins /\ DOMAIN NoPins = {}
  BY EmptyIs
<1>4. /\ now \in Nat /\ Keep \in Nat /\ \A c \in Commits : promised[c] \in Nat
      /\ promised \in [Commits -> 0..(MaxTime + Keep)]
  BY Numbers DEF IInv, Safe, Typed, TypeOK
<1>5. \A c \in Commits :
         promised'[c] = IF c = snap /\ "confirmation" \in Promises THEN now + Keep
                        ELSE promised[c]
  BY <1>1, <1>4 DEF Promise, Later, Promised
<1>6. InGit(snap) /\ nxt.pins[snap] = now + Keep /\ DOMAIN nxt.pins \subseteq Commits
  BY <1>1, Numbers DEF IInv, Safe, Rooted, Places, InGit
<1>7. Covered(nxt.pins)'
  BY <1>1, <1>2, <1>3 DEF Covered
<1>8. Covered(disk.pins)' /\ Covered(mem.pins)'
  BY <1>1, <1>2, <1>4, <1>5, <1>6 DEF Promised, Covered
<1> QED
  BY <1>1, <1>2, <1>3, <1>4, <1>5, <1>6, <1>7, <1>8
  DEF Promised, PromisesKept, InGit, HasWriter, Covered

\* Maintenance takes over what it collects, and gives it back.
LEMMA MaintainPromises ==
  ASSUME UsesCollected, IInv, Promised, Maintain
  PROVE  Promised'
<1>1. UNCHANGED <<now, prev, nxt, promised, rpc>>
  BY DEF Maintain, refreshV
<1>2. /\ now \in Nat /\ Keep \in Nat /\ \A c \in Commits : promised[c] \in Nat
      /\ \A c \in Commits : uses[c] \in Nat
      /\ \A s \in {mem, disk, prev, nxt, mst} : /\ DOMAIN s.pins \subseteq Commits
                                              /\ \A c \in DOMAIN s.pins : s.pins[c] \in Nat
  BY Numbers DEF IInv, Safe
<1>3. CASE git' = git /\ (MStart \/ MDrain \/ MBegin \/ MEnd \/ MFail \/ MRelease)
  <2>1. UNCHANGED <<git, disk, uses, mem>>
    BY <1>3 DEF MStart, MDrain, MBegin, MEnd, MFail, MRelease, durable
  <2>2. /\ HasWriter' => HasWriter /\ mst' = mst
        /\ HasWriter /\ ~HasWriter' => MFails
    BY <1>3 DEF MStart, MDrain, MBegin, MEnd, MFail, MRelease, MStep, MUnfinished, HasWriter
  <2> QED
    BY <1>1, <2>1, <2>2 DEF Promised, PromisesKept, Covered, InGit
<1>4. CASE MLock
  <2>1. UNCHANGED <<git, disk, mem>> /\ mpc = "lock"
    BY <1>4 DEF MLock, MStep, durable
  <2>2. CASE Refreshing
    <3>1. mpc' = "release" /\ UNCHANGED <<mst, uses>>
      BY <1>4, <2>2 DEF MLock, MStep
    <3> QED
      BY <1>1, <2>1, <3>1 DEF Promised, PromisesKept, Covered, InGit, HasWriter
  <2>3. CASE ~Refreshing
    <3>1. mpc' = "begin" /\ mst' = WithUses(mem) /\ uses' = NoUses
      BY <1>4, <2>3 DEF MLock, MStep
    <3>2. /\ DOMAIN mst'.pins = DOMAIN mem.pins
          /\ \A c \in DOMAIN mem.pins :
               /\ uses[c] = 0 => mst'.pins[c] = mem.pins[c]
               /\ uses[c] # 0 => mst'.pins[c] = Later(mem.pins[c], uses[c] + Keep)
      BY <3>1, UsesAre DEF IInv, Safe, Typed, TypeOK, Pins
    <3>3. Covered(mem.pins)
      BY <2>1 DEF Promised, HasWriter
    <3>4. \A c \in DOMAIN mem.pins : now <= promised[c] => promised[c] <= mst'.pins[c]
      BY <1>2, <3>2, <3>3 DEF Covered, Later
    <3>5. Covered(mst.pins)'
      BY <1>1, <3>2, <3>4 DEF Covered
    <3>6. ASSUME MFails
          PROVE  /\ Covered(mem.pins)' /\ Covered(disk.pins)'
                 /\ Covered(prev.pins)' /\ Covered(nxt.pins)'
      BY <1>1, <2>1, <3>6 DEF Promised, Covered, HasWriter, UsesCollected
    <3> QED
      BY <1>1, <2>1, <3>1, <3>5, <3>6 DEF Promised, PromisesKept, InGit, HasWriter, MFails
  <2> QED
    BY <2>2, <2>3
<1>5. CASE MPrune
  <2>1. /\ UNCHANGED <<disk, mem, uses>>
        /\ mpc = "prune" /\ HasWriter /\ uses = NoUses
    BY <1>5 DEF MPrune, MStep, IInv, Marked, HasWriter
  <2>2. PICK gone \in SUBSET Expired(mst) :
          /\ mpc' = "gc" \/ (MFails /\ mpc' = "release")
          /\ git' = [git EXCEPT !.pins = @ \ gone]
          /\ mst' = [mst EXCEPT !.pins = Restrict(@, DOMAIN @ \ gone)]
    BY <1>5 DEF MPrune, MStep
  <2>3. git'.pins = git.pins \ gone /\ git'.objs = git.objs
    BY <2>2 DEF IInv, Safe, Typed, TypeOK
  <2>4. Within(mst'.pins, mst.pins)
    <3>1. mst \in State /\ mst.pins \in PinSets
      BY DEF IInv, Safe, Typed, TypeOK, State
    <3>2. mst'.pins = Restrict(mst.pins, DOMAIN mst.pins \ gone)
      BY <2>2, <3>1 DEF State
    <3> QED
      BY <3>1, <3>2, RestrictIs
  <2>5. \A c \in gone : c \in DOMAIN mst.pins /\ now > mst.pins[c]
    BY <2>2 DEF Expired, Pins
  <2>6. \A c \in gone : promised[c] < now
    <3>1. Covered(mst.pins)
      BY <2>1 DEF Promised
    <3>2. SUFFICES ASSUME NEW c \in gone, now <= promised[c] PROVE FALSE
      BY <1>2, <2>5
    <3>3. c \in Commits /\ uses[c] = 0
      BY <1>2, <2>1, <2>5 DEF NoUses
    <3> QED
      BY <1>2, <2>5, <3>1, <3>2, <3>3 DEF Covered
  <2>7. PromisesKept'
    BY <1>1, <1>2, <2>3, <2>6 DEF Promised, PromisesKept, InGit
  <2>8. Covered(mst.pins)'
    BY <1>1, <2>1, <2>4 DEF Promised, Covered, Within
  <2> QED
    BY <1>1, <2>1, <2>2, <2>7, <2>8 DEF Promised, Covered, HasWriter, MFails
<1>6. CASE Collected /\ (MGc \/ MFail)
  <2>1. /\ UNCHANGED <<disk, mem, uses, mst>>
        /\ HasWriter
        /\ (mpc = "gc" /\ mpc' = "persist") \/ (mpc' = "release" /\ MFails)
    BY <1>6 DEF MGc, MFail, MStep, HasWriter
  <2>2. PICK keep \in SUBSET (git.objs \ Reachable(git)) :
          git' = [git EXCEPT !.objs = (@ \cap Reachable(git)) \cup keep]
    BY <1>6 DEF Collected
  <2>3. /\ git'.pins = git.pins
        /\ git'.objs = (git.objs \cap Reachable(git)) \cup keep
    BY <2>2 DEF IInv, Safe, Typed, TypeOK
  <2>4. git.pins \cap git.objs \subseteq git'.pins \cap git'.objs
    BY <2>3 DEF Reachable
  <2> QED
    BY <1>1, <2>1, <2>4 DEF Promised, PromisesKept, Covered, InGit, HasWriter
<1>7. CASE MPersist \/ MPublish
  <2>1. /\ UNCHANGED <<git, mst, uses>>
        /\ \/ /\ mpc = "persist" /\ disk' = mst /\ mem' = mem
              /\ mpc' = "end" \/ (mpc' = "release" /\ MFails)
           \/ mpc = "publish" /\ mpc' = "release" /\ mem' = mst /\ disk' = disk
    BY <1>7 DEF MPersist, MPublish, MStep, MUnfinished, durable
  <2>2. /\ HasWriter /\ prev = Empty /\ nxt = Empty
        /\ mpc = "publish" => disk = mst
    BY <2>1 DEF IInv, Safe, Fenced, HasWriter, Copies, Places
  <2>3. Empty.pins = NoPins /\ DOMAIN NoPins = {}
    BY EmptyIs
  <2> QED
    BY <1>1, <2>1, <2>2, <2>3 DEF Promised, PromisesKept, Covered, InGit, HasWriter
<1> QED
  <2>1. MGc \/ MFail => git' = git \/ Collected
    BY DEF MGc, MFail
  <2>2. MStart \/ MDrain \/ MBegin \/ MEnd \/ MRelease => git' = git
    BY DEF MStart, MDrain, MBegin, MEnd, MRelease, durable
  <2>3. MGc => Collected
    BY DEF MGc
  <2> QED
    BY <1>3, <1>4, <1>5, <1>6, <1>7, <2>1, <2>2, <2>3 DEF Maintain

\* A use under a lease promises a pin that is there, and records itself.
LEMMA LeasePromises == ASSUME IInv, Promised, Lease PROVE Promised'
<1>1. UNCHANGED <<now, git, disk, mem, prev, nxt, mpc, mst, drained>>
  BY DEF Lease, durable, refreshV, maintV
<1>2. PICK r \in Readers : (\E c \in Commits : Ask(r, c)) \/ Open(r) \/ Close(r)
  BY DEF Lease
<1>3. ASSUME UNCHANGED <<uses, promised>> PROVE Promised'
  BY <1>1, <1>3 DEF Promised, PromisesKept, Covered, InGit, HasWriter
<1>4. ASSUME Open(r) PROVE Promised'
  <2> DEFINE c == rd[r].sha
  <2>1. /\ rd[r].at = "asked" /\ ~drained
        /\ uses' = [uses EXCEPT ![c] = now]
        /\ Promise("use", c, now)
        /\ rd' = [rd EXCEPT ![r].at = "open"]
    BY <1>4 DEF Open, Refused
  <2>2. /\ c \in Commits
        /\ rd'[r].at = "open" /\ rd'[r].sha = c
    BY <2>1 DEF IInv, Safe, Typed
  <2>3. InGit(c)
    <3>1. ServedPinsStay'
      BY LeaseKeeps DEF IInv, Claims
    <3> QED
      BY <1>1, <2>2, <3>1 DEF ServedPinsStay, InGit
  <2>4. ~HasWriter
    BY <2>1 DEF IInv, Safe, Fenced
  <2>5. /\ now \in Nat \ {0} /\ Keep \in Nat /\ \A d \in Commits : promised[d] \in Nat
        /\ promised \in [Commits -> 0..(MaxTime + Keep)]
        /\ uses \in [Commits -> 0..MaxTime]
        /\ \A s \in {mem, disk, prev, nxt} : DOMAIN s.pins \subseteq Commits
    BY Numbers DEF IInv, Safe, Typed, TypeOK
  <2> HIDE DEF c
  <2>6. \A d \in Commits :
           /\ uses'[d] = IF d = c THEN now ELSE uses[d]
           /\ promised'[d] = IF d = c /\ "use" \in Promises THEN now + Keep ELSE promised[d]
    BY <2>1, <2>2, <2>5 DEF Promise, Later, Promised
  <2>7. ASSUME NEW f, Covered(f), DOMAIN f \subseteq Commits
        PROVE  \A d \in DOMAIN f :
                 now <= promised'[d] =>
                   \/ promised'[d] <= f[d]
                   \/ "use" \in Promises /\ uses'[d] # 0 /\ promised'[d] <= uses'[d] + Keep
    BY <2>5, <2>6, <2>7 DEF Covered, Promised
  <2>8. /\ Covered(mem.pins)' /\ Covered(disk.pins)'
        /\ Covered(prev.pins)' /\ Covered(nxt.pins)'
    BY <1>1, <2>4, <2>5, <2>7 DEF Promised, Covered
  <2>9. PromisesKept'
    BY <1>1, <2>3, <2>6 DEF Promised, PromisesKept, InGit
  <2> QED
    BY <1>1, <2>4, <2>5, <2>6, <2>8, <2>9 DEF Promised, HasWriter
<1> QED
  BY <1>2, <1>3, <1>4 DEF Ask, Close

\* A crash loses no promise, nor does a restart, a push, or time.
LEMMA OthersPromise ==
  ASSUME IInv, Promised, Crash \/ Restart \/ Push \/ Tick
  PROVE  Promised'
<1>1. /\ now \in Nat /\ Keep \in Nat /\ \A c \in Commits : promised[c] \in Nat
      /\ \A s \in {mem, disk, prev, nxt, mst} : DOMAIN s.pins \subseteq Commits
  BY Numbers DEF IInv, Safe
<1>2. Empty.pins = NoPins /\ DOMAIN NoPins = {}
  BY EmptyIs
<1>3. CASE Crash
  <2>1. /\ UNCHANGED <<now, git, disk, uses, promised>>
        /\ prev' = Empty /\ nxt' = Empty /\ mpc' = "off" /\ mem' = disk
        /\ mpc \in {"begin", "prune", "gc", "persist"} => MFails
    BY <1>3 DEF Crash, durable
  <2>2. Covered(disk.pins)
    BY <2>1 DEF Promised, HasWriter, IInv, Copies
  <2> QED
    BY <1>2, <2>1, <2>2 DEF Promised, PromisesKept, Covered, InGit, HasWriter
<1>4. CASE Restart
  <2>1. /\ UNCHANGED <<now, git, uses, prev, nxt, mpc, mst, promised>>
        /\ mem' \in {disk} \cup Recoveries(disk)
        /\ disk' \in {disk, mem'}
    BY <1>4 DEF Restart, refreshV, maintV
  <2>2. Within(mem'.pins, disk.pins)
    BY <2>1, RecoveriesAre DEF IInv, Safe, Typed, TypeOK, Within
  <2> QED
    BY <2>1, <2>2 DEF Promised, PromisesKept, Covered, InGit, HasWriter, Within
<1>5. CASE Push
  BY <1>5 DEF Push, durable, refreshV, maintV, Promised, PromisesKept, Covered, InGit, HasWriter
<1>6. CASE Tick
  <2>1. /\ UNCHANGED <<git, disk, uses, mem, prev, nxt, mpc, mst>>
        /\ now' = now + 1
        /\ \A c \in Commits : promised'[c] = IF now < promised[c] THEN promised[c] ELSE 0
    BY <1>6 DEF Tick, durable, refreshV, maintV
  <2>2. ASSUME NEW f, Covered(f), DOMAIN f \subseteq Commits
        PROVE  \A c \in DOMAIN f :
                 now' <= promised'[c] =>
                   \/ promised'[c] <= f[c]
                   \/ "use" \in Promises /\ uses[c] # 0 /\ promised'[c] <= uses[c] + Keep
    BY <1>1, <2>1, <2>2 DEF Covered
  <2>3. /\ Covered(mem.pins) => Covered(mem.pins)'
        /\ Covered(disk.pins) => Covered(disk.pins)'
        /\ Covered(prev.pins) => Covered(prev.pins)'
        /\ Covered(nxt.pins) => Covered(nxt.pins)'
        /\ Covered(mst.pins) => Covered(mst.pins)'
    BY <1>1, <2>1, <2>2 DEF Covered
  <2>4. /\ PromisesKept'
        /\ \A c \in Commits : promised'[c] <= now' + Keep
    BY <1>1, <2>1 DEF Promised, PromisesKept, InGit
  <2> QED
    BY <2>1, <2>3, <2>4 DEF Promised, HasWriter
<1> QED
  BY <1>3, <1>4, <1>5, <1>6

\* The retention promise: what a refresh confirmed or a lease served stays
\* pinned for its time, whatever fails, unless a job that gave up
\* overwrites the state, or three failures meet (see ServedPinsAreSafe), or
\* maintenance breaks off after it removed the use records that were
\* promised.
THEOREM RetentionIsKept ==
  ASSUME NoOverwrite, NotAllThree, UsesCollected
  PROVE  Spec => []PromisesKept
<1>1. Spec => []IInv
  BY Invariant
<1>2. IInv /\ Promised /\ [Next]_vars => Promised'
  <2>1. Promised /\ UNCHANGED vars => Promised'
    BY DEF vars, durable, refreshV, maintV, Promised, PromisesKept, Covered, InGit, HasWriter
  <2> QED
    BY <2>1, RefreshPromises, EndPromises, MaintainPromises, LeasePromises, OthersPromise
    DEF Next
<1>3. Promised => PromisesKept
  BY DEF Promised
<1> QED
  BY <1>1, <1>2, <1>3, InitPromised, PTL DEF Spec

=============================================================================
