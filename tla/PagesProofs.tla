---------------------------- MODULE PagesProofs ----------------------------
(* Proofs about Pages: for any kinds of page, intervals, timeouts, locales *)
(* and number of requests, what a page says it shows is there.             *)
EXTENDS Pages, PageContextProofs

-----------------------------------------------------------------------------
(* FirstUsable: what publish(), hold(), release() and mark() do to the      *)
(* closure of the marker, for any page and any clock.                      *)

\* A closure has these four fields.
Closure(u) ==
  u = [waiting |-> u.waiting, pending |-> u.pending,
       finished |-> u.finished, marker |-> u.marker]

\* What the marker publishes about the language of the page.
Announces(marker, pending) ==
  /\ marker.ready
  /\ marker.state = pending.state
  /\ marker.locale = current
  /\ marker.language = element.lang
  /\ marker.dir = element.dir

\* How a change of one field changes the others.
LEMMA ClosureWaiting ==
  ASSUME NEW u, Closure(u), NEW a
  PROVE  /\ Closure([u EXCEPT !.waiting = a])
         /\ [u EXCEPT !.waiting = a].waiting = a
         /\ [u EXCEPT !.waiting = a].pending = u.pending
         /\ [u EXCEPT !.waiting = a].finished = u.finished
         /\ [u EXCEPT !.waiting = a].marker = u.marker
         /\ u.waiting = a => [u EXCEPT !.waiting = a] = u
BY DEF Closure

\* The same of the mark,
LEMMA ClosurePending ==
  ASSUME NEW u, Closure(u), NEW a
  PROVE  /\ Closure([u EXCEPT !.pending = a])
         /\ [u EXCEPT !.pending = a].waiting = u.waiting
         /\ [u EXCEPT !.pending = a].pending = a
         /\ [u EXCEPT !.pending = a].finished = u.finished
         /\ [u EXCEPT !.pending = a].marker = u.marker
BY DEF Closure

\* of the end,
LEMMA ClosureFinished ==
  ASSUME NEW u, Closure(u), NEW a
  PROVE  /\ Closure([u EXCEPT !.finished = a])
         /\ [u EXCEPT !.finished = a].waiting = u.waiting
         /\ [u EXCEPT !.finished = a].pending = u.pending
         /\ [u EXCEPT !.finished = a].finished = a
         /\ [u EXCEPT !.finished = a].marker = u.marker
BY DEF Closure

\* and of what is published.
LEMMA ClosureMarker ==
  ASSUME NEW u, Closure(u), NEW a
  PROVE  /\ Closure([u EXCEPT !.marker = a])
         /\ [u EXCEPT !.marker = a].waiting = u.waiting
         /\ [u EXCEPT !.marker = a].pending = u.pending
         /\ [u EXCEPT !.marker = a].finished = u.finished
         /\ [u EXCEPT !.marker = a].marker = a
BY DEF Closure

\* publish() leaves the closure alone, or finishes an unfinished one that has
\* a mark and no hold.
LEMMA PublishDoes ==
  ASSUME NEW u, Closure(u), NEW clock
  PROVE  \/ Publish(u, clock) = u
         \/ /\ ~u.finished
            /\ u.pending # NoMark
            /\ u.waiting = {}
            /\ Closure(Publish(u, clock))
            /\ Publish(u, clock).waiting = {}
            /\ Publish(u, clock).pending = u.pending
            /\ Publish(u, clock).finished
            /\ Announces(Publish(u, clock).marker, u.pending)
<1> DEFINE new == [ready |-> TRUE, page |-> u.pending.page, state |-> u.pending.state,
                   locale |-> current, language |-> element.lang,
                   dir |-> element.dir, clock |-> clock]
           v == [u EXCEPT !.finished = TRUE, !.marker = new]
<1>1. CASE Publish(u, clock) = u
  BY <1>1
<1>2. CASE Publish(u, clock) # u
  <2>1. ~u.finished /\ u.pending # NoMark /\ u.waiting = {} /\ Publish(u, clock) = v
    BY <1>2 DEF Publish
  <2>2. Announces(new, u.pending)
    BY DEF Announces
  <2>3. /\ Closure(v)
        /\ v.waiting = u.waiting
        /\ v.pending = u.pending
        /\ v.finished = TRUE
        /\ v.marker = new
    <3> DEFINE yes == TRUE
               w   == [u EXCEPT !.finished = yes]
               x   == [w EXCEPT !.marker = new]
    <3> HIDE DEF new, yes
    <3>1. /\ Closure(w)
          /\ w.waiting = u.waiting
          /\ w.pending = u.pending
          /\ w.finished = yes
      BY ClosureFinished
    <3>2. /\ Closure(x)
          /\ x.waiting = w.waiting
          /\ x.pending = w.pending
          /\ x.finished = w.finished
          /\ x.marker = new
      <4> HIDE DEF w
      <4>1. QED
        BY <3>1, ClosureMarker
    <3>3. v = x
      BY Zenon DEF yes
    <3>4. QED
      BY <3>1, <3>2, <3>3, Zenon DEF yes
  <2>4. QED
    BY <2>1, <2>2, <2>3
<1>3. QED
  BY <1>1, <1>2

\* A closure that has published has nothing to wait for, and what it
\* published is its mark.
Good(u) ==
  /\ Closure(u)
  /\ u.marker.ready <=> u.finished
  /\ u.finished => /\ u.waiting = {}
                   /\ u.pending # NoMark
                   /\ Announces(u.marker, u.pending)

\* publish() keeps a closure good, and changes neither its holds nor its mark.
LEMMA PublishGood ==
  ASSUME NEW u, Good(u), NEW clock
  PROVE  /\ Good(Publish(u, clock))
         /\ Publish(u, clock).waiting = u.waiting
         /\ Publish(u, clock).pending = u.pending
         /\ u.finished => Publish(u, clock) = u
<1>1. CASE Publish(u, clock) = u
  BY <1>1
<1>2. CASE Publish(u, clock) # u
  BY <1>2, PublishDoes DEF Good, Announces
<1>3. QED
  BY <1>1, <1>2

\* A hold is there, unless the page has published; it marks nothing.
LEMMA HoldGood ==
  ASSUME NEW u, Good(u), NEW name
  PROVE  /\ Good(Hold(u, name))
         /\ u.finished => Hold(u, name) = u
         /\ ~u.finished => name \in Hold(u, name).waiting
         /\ u.waiting \subseteq Hold(u, name).waiting
         /\ Hold(u, name).waiting \subseteq u.waiting \cup {name}
         /\ Hold(u, name).pending = u.pending
<1> DEFINE more == u.waiting \cup {name}
           v == [u EXCEPT !.waiting = more]
<1>1. CASE u.finished
  BY <1>1 DEF Hold
<1>2. CASE ~u.finished
  <2>1. Hold(u, name) = v
    BY <1>2 DEF Hold
  <2>2. /\ Closure(v)
        /\ v.waiting = more
        /\ v.pending = u.pending
        /\ v.finished = u.finished
        /\ v.marker = u.marker
    <3> HIDE DEF more
    <3>1. QED
      BY ClosureWaiting DEF Good
  <2> HIDE DEF v
  <2>3. Good(v)
    BY <1>2, <2>2 DEF Good
  <2>4. QED
    BY <1>2, <2>1, <2>2, <2>3
<1>3. QED
  BY <1>1, <1>2

\* The end of one hold leaves the others, and marks nothing.
LEMMA ReleaseGood ==
  ASSUME NEW u, Good(u), NEW name, NEW clock
  PROVE  /\ Good(Release(u, name, clock))
         /\ u.finished => Release(u, name, clock) = u
         /\ u.waiting \ {name} \subseteq Release(u, name, clock).waiting
         /\ Release(u, name, clock).waiting \subseteq u.waiting
         /\ Release(u, name, clock).pending = u.pending
<1> DEFINE less == u.waiting \ {name}
           v == [u EXCEPT !.waiting = less]
<1>1. Release(u, name, clock) = Publish(v, clock)
  BY DEF Release
<1>2. /\ Closure(v)
      /\ v.waiting = less
      /\ v.pending = u.pending
      /\ v.finished = u.finished
      /\ v.marker = u.marker
      /\ u.waiting = less => v = u
  <2> HIDE DEF less
  <2>1. QED
    BY ClosureWaiting DEF Good
<1>3. u.finished => u.waiting = less
  BY DEF Good
<1> HIDE DEF v
<1>4. Good(v)
  BY <1>2, <1>3 DEF Good, Announces
<1> HIDE DEF less
<1>5. QED
  BY <1>1, <1>2, <1>3, <1>4, PublishGood DEF less

\* A mark counts when it is the first one.
LEMMA MarkGood ==
  ASSUME NEW u, Good(u), NEW page, NEW state, NEW clock
  PROVE  /\ Good(Mark(u, page, state, clock))
         /\ u.finished => Mark(u, page, state, clock) = u
         /\ Mark(u, page, state, clock).waiting = u.waiting
         /\ \/ Mark(u, page, state, clock).pending = u.pending
            \/ Mark(u, page, state, clock).pending = [page |-> page, state |-> state]
<1> DEFINE mark == [page |-> page, state |-> state]
           v == [u EXCEPT !.pending = mark]
<1>1. CASE Mark(u, page, state, clock) = u
  BY <1>1
<1>2. CASE Mark(u, page, state, clock) # u
  <2>1. ~u.finished /\ Mark(u, page, state, clock) = Publish(v, clock)
    BY <1>2 DEF Mark
  <2>2. /\ Closure(v)
        /\ v.waiting = u.waiting
        /\ v.pending = mark
        /\ v.finished = u.finished
        /\ v.marker = u.marker
    <3> HIDE DEF mark
    <3>1. QED
      BY ClosurePending DEF Good
  <2> HIDE DEF v, mark
  <2>3. Good(v)
    BY <2>1, <2>2 DEF Good
  <2>4. QED
    BY <2>1, <2>2, <2>3, PublishGood DEF mark
<1>3. QED
  BY <1>1, <1>2

-----------------------------------------------------------------------------
(* Requests: what each step of a request does to its slot, for any number  *)
(* of slots.                                                               *)

\* A request has these five fields.
Request(r) ==
  r = [state |-> r.state, timer |-> r.timer, transport |-> r.transport,
       rows |-> r.rows, byHand |-> r.byHand]

Alive ==
  /\ reqs = [i \in Slots |-> reqs[i]]
  /\ \A i \in Slots : Request(reqs[i])

\* The slots beside i are as they were.
Beside(i) == \A j \in Slots \ {i} : reqs'[j] = reqs[j]

\* A free slot shows nothing.
LEMMA IdleShows ==
  /\ Request(Idle)
  /\ Idle.state = "idle"
  /\ Idle.transport = "over"
  /\ Idle.rows = 0
  /\ Idle.timer = 0
BY DEF Idle, Request

\* The page starts without requests.
LEMMA InitAlive == RequestsInit => Alive
BY IdleShows DEF RequestsInit, Alive

\* A request starts in a free slot.
LEMMA SendDoes ==
  ASSUME Alive, NEW ms, NEW byHand, Send(ms, byHand)
  PROVE  \E i \in Slots :
           /\ reqs[i] = Idle
           /\ Alive'
           /\ Beside(i)
           /\ reqs'[i].state = "open"
           /\ reqs'[i].timer = ms
           /\ reqs'[i].transport = "sent"
           /\ reqs'[i].rows = 0
<1> DEFINE new == [state |-> "open", timer |-> ms, transport |-> "sent",
                   rows |-> 0, byHand |-> byHand]
<1>1. PICK i \in Slots : reqs[i] = Idle /\ reqs' = [reqs EXCEPT ![i] = new]
  BY DEF Send
<1>2. /\ Request(new)
      /\ new.state = "open"
      /\ new.timer = ms
      /\ new.transport = "sent"
      /\ new.rows = 0
  BY DEF Request
<1> HIDE DEF new
<1>3. QED
  BY <1>1, <1>2 DEF Alive, Beside

\* The server's rows are those of the moment it reads them.
LEMMA ServeDoes ==
  ASSUME Alive, NEW i \in Slots, NEW v, Serve(i, v)
  PROVE  /\ Alive'
         /\ Beside(i)
         /\ reqs'[i].state = reqs[i].state
         /\ reqs'[i].timer = reqs[i].timer
         /\ reqs'[i].transport = "served"
         /\ reqs'[i].rows = v
<1> DEFINE old == reqs[i]
           w   == [old EXCEPT !.transport = "served"]
           x   == [w EXCEPT !.rows = v]
           new == [old EXCEPT !.transport = "served", !.rows = v]
<1>1. Request(old)
  BY DEF Alive
<1>2. Request(w) /\ w.state = old.state /\ w.timer = old.timer /\ w.transport = "served"
  <2> HIDE DEF old
  <2>1. QED
    BY <1>1 DEF Request
<1>3. /\ Request(x)
      /\ x.state = w.state
      /\ x.timer = w.timer
      /\ x.transport = w.transport
      /\ x.rows = v
  <2> HIDE DEF w
  <2>1. QED
    BY <1>2 DEF Request
<1>4. new = x
  OBVIOUS
<1>5. reqs' = [reqs EXCEPT ![i] = new]
  BY DEF Serve
<1> HIDE DEF new, x, w
<1>6. QED
  BY <1>2, <1>3, <1>4, <1>5 DEF Alive, Beside

\* The timer leaves the transport behind, without rows.
LEMMA ExpireDoes ==
  ASSUME Alive, NEW i \in Slots, Expire(i)
  PROVE  /\ Alive'
         /\ Beside(i)
         /\ reqs'[i].state = "done"
         /\ reqs'[i].transport = "sent"
         /\ reqs'[i].rows = 0
         /\ reqs'[i].timer = 0
BY DEF Alive, Request, Expire, Idle, Beside

\* The end of the transport frees the slot.
LEMMA EndDoes ==
  ASSUME Alive, NEW i \in Slots, NEW transports, End(i, transports)
  PROVE  Alive' /\ Beside(i) /\ reqs'[i] = Idle
BY IdleShows DEF Alive, Request, End, Beside

\* A tick moves the timers of open requests and nothing else.
LEMMA TickedDoes ==
  ASSUME Alive, reqs' = Ticked
  PROVE  /\ Alive'
         /\ \A j \in Slots :
              /\ reqs'[j].state = reqs[j].state
              /\ reqs'[j].transport = reqs[j].transport
              /\ reqs'[j].rows = reqs[j].rows
              /\ reqs'[j].timer = IF Open(j) THEN reqs[j].timer - 1 ELSE reqs[j].timer
BY DEF Alive, Request, Ticked, Open

-----------------------------------------------------------------------------
(* The inductive invariant *)

\* How far the scripts are: the language is sealed by the first one, the
\* frame is held until it is complete, and before the page's own script
\* nothing is read, shown or marked.
Placed ==
  /\ kind \in Kinds
  /\ phase \in {"none", "runtime", "catalog", "page"}
  /\ initialized <=> phase # "none"
  /\ phase # "none" /\ ~header => "chrome" \in usable.waiting
  /\ phase # "page" => /\ \A i \in Slots : reqs[i] = Idle
                       /\ usable.pending = NoMark
                       /\ shown.state = "nothing"
                       /\ poll = Off
  /\ posted # "nothing" => phase = "page" /\ kind.guard = "single"

\* A mark is backed by what is shown, in the language the page speaks, and so
\* is the action of a row.
Backed ==
  /\ usable.pending # NoMark =>
       /\ shown.state # "nothing"
       /\ usable.pending.state = "data" => shown.rows > 0
  /\ shown.rows > 0 \/ posted = "action" => shown.state # "nothing"
  /\ shown.state # "nothing" => shown.voice = Voice

\* Nothing is newer than the data on the server.
Versions ==
  /\ version \in Nat
  /\ shown.rows \in 0 .. version
  /\ \A i \in Slots : reqs[i].rows \in 0 .. version

PageInv == ContextInv /\ Good(usable) /\ Alive /\ Placed /\ Backed /\ Versions

\* What every step has to keep.
Keeps == PageInv' /\ (usable.finished => usable' = usable)

-----------------------------------------------------------------------------
\* A page starts with nothing.
LEMMA InitPageInv == PageInit => PageInv
<1> SUFFICES ASSUME PageInit PROVE PageInv
  OBVIOUS
<1> DEFINE elements == ElementsOf(PageLangs, {""}, {"http"})
<1>1. ContextInv
  <2>1. elements \subseteq ElementsOf({e.lang : e \in elements},
                                      {e.requested : e \in elements},
                                      {e.source : e \in elements})
    BY DEF ElementsOf
  <2>2. ContextInit(elements)
    BY DEF PageInit
  <2> HIDE DEF elements
  <2>3. QED
    BY <2>1, <2>2, InitContext
<1>2. Good(usable)
  BY DEF PageInit, FirstUsableInit, Good, Closure, Unready
<1>3. Alive
  BY InitAlive DEF PageInit
<1>4. \A i \in Slots : reqs[i] = Idle
  BY DEF PageInit, RequestsInit
<1>5. usable.pending = NoMark
  BY DEF PageInit, FirstUsableInit
<1>6. Placed
  BY <1>4, <1>5 DEF PageInit, ContextInit, Placed
<1>7. Backed
  <2>1. shown.rows = 0 /\ shown.state = "nothing" /\ posted = "nothing"
    BY DEF PageInit
  <2>2. QED
    BY <1>5, <2>1 DEF Backed
<1>8. Versions
  <2>1. version = 1 /\ shown.rows = 0
    BY DEF PageInit
  <2>2. QED
    BY <1>4, <2>1, IdleShows DEF Versions
<1>9. QED
  BY <1>1, <1>2, <1>3, <1>6, <1>7, <1>8 DEF PageInv

\* While the language stands, so does what was said of it.
LEMMA LanguageStands ==
  ASSUME UNCHANGED contextVars
  PROVE  /\ ContextInv => ContextInv'
         /\ Good(usable') => Good(usable)'
<1>1. ContextInv => ContextInv'
  BY DEF contextVars, ContextInv, ElementHonest, ContextAgrees
<1>2. Good(usable') => Good(usable)'
  BY DEF contextVars, Good, Announces, Closure
<1>3. QED
  BY <1>1, <1>2

\* A load holds the marker, and sends a request unless one is under way that
\* will do.
LEMMA LoadDoes ==
  ASSUME Alive, NEW u, Good(u), NEW byHand, Load(u, byHand)
  PROVE  /\ Alive'
         /\ Good(usable')
         /\ u.finished => usable' = u
         /\ u.waiting \subseteq usable'.waiting
         /\ usable'.waiting \subseteq u.waiting \cup {"primary"}
         /\ usable'.pending = u.pending
         /\ \/ kind.guard = "single" /\ Busy /\ UNCHANGED <<reqs, superseded>>
            \/ /\ kind.guard = "single" => ~Busy
               /\ superseded' = IF kind.guard = "generation" THEN OpenSlots ELSE {}
               /\ \E i \in Slots :
                    /\ reqs[i] = Idle
                    /\ Beside(i)
                    /\ reqs'[i].state = "open"
                    /\ reqs'[i].timer = kind.timeout
                    /\ reqs'[i].transport = "sent"
                    /\ reqs'[i].rows = 0
<1>1. usable' = u \/ usable' = Hold(u, "primary")
  BY DEF Load
<1>2. /\ Good(usable')
      /\ u.finished => usable' = u
      /\ u.waiting \subseteq usable'.waiting
      /\ usable'.waiting \subseteq u.waiting \cup {"primary"}
      /\ usable'.pending = u.pending
  BY <1>1, HoldGood
<1>3. CASE kind.guard = "single" /\ Busy
  <2>1. UNCHANGED <<reqs, superseded>>
    BY <1>3 DEF Load
  <2>2. Alive'
    BY <2>1 DEF Alive, Slots
  <2>3. QED
    BY <1>2, <1>3, <2>1, <2>2
<1>4. CASE ~(kind.guard = "single" /\ Busy)
  <2>1. /\ Send(kind.timeout, byHand)
        /\ superseded' = IF kind.guard = "generation" THEN OpenSlots ELSE {}
    BY <1>4 DEF Load
  <2>2. QED
    BY <1>2, <1>4, <2>1, SendDoes
<1>5. QED
  BY <1>3, <1>4

\* What a settled read changes.
LEMMA SettleDoes ==
  ASSUME Good(usable), NEW i, NEW rows, NEW clock, Settle(i, rows, clock)
  PROVE  /\ Good(usable')
         /\ usable.finished => usable' = usable
         /\ usable.waiting \ {"primary"} \subseteq usable'.waiting
         /\ usable'.waiting \subseteq usable.waiting
         /\ superseded' = superseded \ {i}
         /\ \/ /\ i \in superseded
               /\ shown' = shown
               /\ usable'.pending = usable.pending
            \/ /\ i \notin superseded
               /\ shown'.state # "nothing"
               /\ shown'.voice = Voice
               /\ shown'.rows = IF rows > 0 THEN rows ELSE shown.rows
               /\ \/ usable'.pending = usable.pending
                  \/ usable'.pending.state = "data" => rows > 0
<1> DEFINE ends   == IF rows > 0 THEN "data" ELSE "error"
           mark   == Mark(usable, kind.page, ends, clock)
           marked == IF i \in superseded THEN usable ELSE mark
<1>1. /\ usable' = IF Framed THEN Release(marked, "primary", clock) ELSE marked
      /\ shown' = IF i \in superseded THEN shown
                  ELSE [rows |-> IF rows > 0 THEN rows ELSE shown.rows,
                        state |-> ends, voice |-> Voice]
      /\ superseded' = superseded \ {i}
  BY DEF Settle
<1>2. i \notin superseded =>
        /\ shown'.state # "nothing"
        /\ shown'.voice = Voice
        /\ shown'.rows = IF rows > 0 THEN rows ELSE shown.rows
  BY <1>1
<1>3. /\ Good(mark)
      /\ usable.finished => mark = usable
      /\ mark.waiting = usable.waiting
      /\ mark.pending = usable.pending \/ (mark.pending.state = "data" => rows > 0)
  <2>1. ends = "data" => rows > 0
    OBVIOUS
  <2> HIDE DEF ends
  <2>2. /\ Good(mark)
        /\ usable.finished => mark = usable
        /\ mark.waiting = usable.waiting
        /\ \/ mark.pending = usable.pending
           \/ mark.pending = [page |-> kind.page, state |-> ends]
    BY MarkGood
  <2> HIDE DEF mark
  <2>3. QED
    BY <2>1, <2>2
<1> HIDE DEF mark
<1>4. /\ Good(marked)
      /\ usable.finished => marked = usable
      /\ marked.waiting = usable.waiting
      /\ marked.pending = IF i \in superseded THEN usable.pending ELSE mark.pending
  BY <1>3
<1> HIDE DEF marked
<1>5. /\ Good(usable')
      /\ marked.finished => usable' = marked
      /\ marked.waiting \ {"primary"} \subseteq usable'.waiting
      /\ usable'.waiting \subseteq marked.waiting
      /\ usable'.pending = marked.pending
  BY <1>1, <1>4, ReleaseGood
<1>6. CASE i \in superseded
  BY <1>1, <1>4, <1>5, <1>6
<1>7. CASE i \notin superseded
  BY <1>1, <1>2, <1>3, <1>4, <1>5, <1>7
<1>8. QED
  BY <1>6, <1>7

-----------------------------------------------------------------------------
(* The steps *)

\* A load, whoever asks for it.
LEMMA LoadKeeps ==
  ASSUME PageInv, NEW byHand, Load(usable, byHand),
         phase # "none", phase' = "page", posted' \in {posted, "nothing"},
         UNCHANGED <<contextVars, kind, catalog, header, version, shown>>
  PROVE  Keeps
<1>1. /\ Alive'
      /\ Good(usable')
      /\ usable.finished => usable' = usable
      /\ usable.waiting \subseteq usable'.waiting
      /\ usable'.pending = usable.pending
  BY LoadDoes DEF PageInv
<1>2. ContextInv' /\ Good(usable)'
  BY <1>1, LanguageStands DEF PageInv
<1>3. Placed'
  BY <1>1 DEF PageInv, Placed, contextVars
<1>4. Backed'
  BY <1>1 DEF PageInv, Backed, Voice, contextVars
<1>5. Versions'
  <2>1. CASE UNCHANGED reqs
    BY <2>1 DEF PageInv, Versions, Slots
  <2>2. CASE \E i \in Slots : Beside(i) /\ reqs'[i].rows = 0
    BY <2>2 DEF PageInv, Versions, Slots, Beside
  <2>3. QED
    BY <2>1, <2>2, LoadDoes DEF PageInv
<1>6. QED
  BY <1>1, <1>2, <1>3, <1>4, <1>5 DEF Keeps, PageInv

\* A request that ends, whatever its outcome and whether anyone listens.
LEMMA OutcomeKeeps ==
  ASSUME PageInv, NEW i \in Slots, NEW rows \in 0 .. version, Outcome(i, rows),
         phase = "page", Alive', Beside(i), reqs'[i].rows = 0
  PROVE  Keeps
<1>1. UNCHANGED <<contextVars, kind, phase, catalog, header, posted, version>>
  BY DEF Outcome
<1>2. CASE Open(i)
  <2>1. PICK clock \in Clocks : Settle(i, rows, clock)
    BY <1>2 DEF Outcome
  <2>2. /\ Good(usable')
        /\ usable.finished => usable' = usable
        /\ usable.waiting \ {"primary"} \subseteq usable'.waiting
        /\ \/ /\ shown' = shown
              /\ usable'.pending = usable.pending
           \/ /\ shown'.state # "nothing"
              /\ shown'.voice = Voice
              /\ shown'.rows = IF rows > 0 THEN rows ELSE shown.rows
              /\ \/ usable'.pending = usable.pending
                 \/ usable'.pending.state = "data" => rows > 0
    BY <2>1, SettleDoes DEF PageInv
  <2>3. QED
    <3>1. ContextInv' /\ Good(usable)'
      BY <1>1, <2>2, LanguageStands DEF PageInv
    <3>2. Placed'
      BY <1>1, <2>2 DEF PageInv, Placed, contextVars
    <3>3. Backed'
      BY <1>1, <2>2 DEF PageInv, Backed, Versions, Voice, contextVars
    <3>4. Versions'
      BY <1>1, <2>2 DEF PageInv, Versions, Slots, Beside
    <3>5. QED
      BY <2>2, <3>1, <3>2, <3>3, <3>4 DEF Keeps, PageInv
<1>3. CASE ~Open(i)
  <2>1. UNCHANGED <<usable, shown>>
    BY <1>3 DEF Outcome, usableVars
  <2>2. ContextInv' /\ Good(usable)'
    BY <1>1, <2>1, LanguageStands DEF PageInv
  <2>3. Placed' /\ Backed'
    BY <1>1, <2>1 DEF PageInv, Placed, Backed, Voice, contextVars
  <2>4. Versions'
    BY <1>1, <2>1 DEF PageInv, Versions, Slots, Beside
  <2>5. QED
    BY <2>1, <2>2, <2>3, <2>4 DEF Keeps, PageInv
<1>4. QED
  BY <1>2, <1>3

\* A step of the reader, the server or the clock that shows nothing.
LEMMA QuietKeeps ==
  ASSUME PageInv, Alive', version' \in Nat, version <= version',
         \A i \in Slots : reqs'[i].rows \in 0 .. version',
         phase = "page",
         UNCHANGED <<contextVars, usable, kind, phase, catalog, header, posted, shown>>
  PROVE  Keeps
<1>1. ContextInv' /\ Good(usable)'
  BY LanguageStands DEF PageInv
<1>2. Placed' /\ Backed'
  BY DEF PageInv, Placed, Backed, Voice, contextVars
<1>3. Versions'
  BY DEF PageInv, Versions, Slots
<1>4. QED
  BY <1>1, <1>2, <1>3 DEF Keeps, PageInv

\* The runtime seals the language, with nothing shown or marked yet.
LEMMA RunRuntimeKeeps ==
  ASSUME PageInv, RunRuntime
  PROVE  Keeps
<1> DEFINE decision == [requested |-> "", source |-> ""]
<1>1. /\ phase = "none"
      /\ InitPage(decision)
      /\ phase' \in {"runtime", "catalog"}
      /\ header' = ~Framed
      /\ usable' = IF Framed THEN Hold(usable, "chrome") ELSE usable
      /\ UNCHANGED <<reqs, kind, poll, posted, version, shown>>
  BY DEF RunRuntime
<1>2. /\ ~initialized
      /\ usable.pending = NoMark
      /\ ~usable.finished
  BY <1>1 DEF PageInv, Placed, Good
<1>3. ContextInv' /\ initialized'
  <2> HIDE DEF decision
  <2>1. ContextInv'
    BY <1>1, InitPageContext DEF PageInv
  <2>2. initialized' = TRUE
    BY <1>1, <1>2 DEF InitPage
  <2>3. QED
    BY <2>1, <2>2
<1>4. /\ Good(usable')
      /\ Framed => "chrome" \in usable'.waiting
      /\ usable'.pending = NoMark
  BY <1>1, <1>2, HoldGood DEF PageInv
<1>5. Good(usable)'
  <2>1. ~usable'.finished
    BY <1>4 DEF Good
  <2>2. QED
    BY <1>4, <2>1 DEF Good, Closure
<1>6. Alive' /\ Versions'
  BY <1>1 DEF PageInv, Alive, Versions, Slots
<1>7. Placed' /\ Backed'
  BY <1>1, <1>3, <1>4 DEF PageInv, Placed, Backed, Slots
<1>8. QED
  BY <1>2, <1>3, <1>5, <1>6, <1>7 DEF Keeps, PageInv

\* The catalog script runs while nothing is shown.
LEMMA RunCatalogKeeps ==
  ASSUME PageInv, RunCatalog
  PROVE  Keeps
<1>1. /\ phase = "runtime"
      /\ phase' = "catalog"
      /\ UNCHANGED <<contextVars, usable, reqs, kind, header, poll, posted, version, shown>>
  BY DEF RunCatalog, usableVars
<1>2. ContextInv' /\ Good(usable)'
  BY <1>1, LanguageStands DEF PageInv
<1>3. Alive' /\ Versions'
  BY <1>1 DEF PageInv, Alive, Versions, Slots
<1>4. Placed' /\ Backed'
  BY <1>1 DEF PageInv, Placed, Backed, Slots, contextVars
<1>5. QED
  BY <1>1, <1>2, <1>3, <1>4 DEF Keeps, PageInv

\* The frame is complete and its hold ends.
LEMMA HeaderSettlesKeeps ==
  ASSUME PageInv, HeaderSettles
  PROVE  Keeps
<1>1. /\ phase = "page"
      /\ header' = TRUE
      /\ UNCHANGED <<contextVars, reqs, kind, phase, catalog, posted, version, shown>>
  BY DEF HeaderSettles
<1>2. PICK clock \in Clocks : usable' = Release(usable, "chrome", clock)
  BY DEF HeaderSettles
<1>3. /\ Good(usable')
      /\ usable.finished => usable' = usable
      /\ usable'.pending = usable.pending
  BY <1>2, ReleaseGood DEF PageInv
<1>4. ContextInv' /\ Good(usable)'
  BY <1>1, <1>3, LanguageStands DEF PageInv
<1>5. Alive' /\ Versions'
  BY <1>1 DEF PageInv, Alive, Versions, Slots
<1>6. Placed' /\ Backed'
  BY <1>1, <1>3 DEF PageInv, Placed, Backed, Voice, contextVars
<1>7. QED
  BY <1>3, <1>4, <1>5, <1>6 DEF Keeps, PageInv

\* The three ways a request ends.
LEMMA EndsKeep ==
  ASSUME PageInv, NEW i \in Slots, Answered(i) \/ Failed(i) \/ TimedOut(i)
  PROVE  Keeps
<1>1. phase = "page"
  BY IdleShows DEF PageInv, Placed, Answered, Failed, TimedOut, End, Expire, Due, Open
<1>2. CASE Answered(i)
  <2>1. End(i, {"served"}) /\ Outcome(i, reqs[i].rows) /\ reqs[i].rows \in 0 .. version
    BY <1>2 DEF Answered, PageInv, Versions
  <2>2. Alive' /\ Beside(i) /\ reqs'[i].rows = 0
    BY <2>1, EndDoes, IdleShows DEF PageInv
  <2>3. QED
    BY <1>1, <2>1, <2>2, OutcomeKeeps
<1>3. CASE Failed(i)
  <2>1. End(i, {"sent", "served"}) /\ Outcome(i, 0) /\ 0 \in 0 .. version
    BY <1>3 DEF Failed, PageInv, Versions
  <2>2. Alive' /\ Beside(i) /\ reqs'[i].rows = 0
    BY <2>1, EndDoes, IdleShows DEF PageInv
  <2>3. QED
    BY <1>1, <2>1, <2>2, OutcomeKeeps
<1>4. CASE TimedOut(i)
  <2>1. Expire(i) /\ Outcome(i, 0) /\ 0 \in 0 .. version
    BY <1>4 DEF TimedOut, PageInv, Versions
  <2>2. Alive' /\ Beside(i) /\ reqs'[i].rows = 0
    BY <2>1, ExpireDoes DEF PageInv
  <2>3. QED
    BY <1>1, <2>1, <2>2, OutcomeKeeps
<1>5. QED
  BY <1>2, <1>3, <1>4

\* The interval and the reader start reads, or change what none looks at.
LEMMA ReaderKeeps ==
  ASSUME PageInv, RunPage \/ Poll \/ Resume \/ Refresh \/ PostAnswered
  PROVE  Keeps
<1>1. CASE RunPage
  <2>1. phase # "none" /\ phase' = "page" /\ Load(usable, FALSE)
    BY <1>1 DEF RunPage
  <2>2. UNCHANGED <<contextVars, kind, catalog, header, posted, version, shown>>
    BY <1>1 DEF RunPage
  <2>3. QED
    BY <2>1, <2>2, LoadKeeps
<1>2. CASE Poll
  <2>1. /\ phase = "page"
        /\ UNCHANGED <<contextVars, kind, phase, catalog, header, posted, version, shown>>
    BY <1>2 DEF Poll, PageInv, Placed, Off
  <2>2. CASE Load(usable, FALSE)
    BY <2>1, <2>2, LoadKeeps
  <2>3. CASE UNCHANGED <<usable, reqs, superseded>>
    BY <2>1, <2>3, QuietKeeps DEF PageInv, Alive, Versions, Slots
  <2>4. QED
    BY <1>2, <2>2, <2>3 DEF Poll
<1>3. CASE Resume
  <2>1. phase = "page" /\ Load(usable, TRUE)
    BY <1>3 DEF Resume
  <2>2. UNCHANGED <<contextVars, kind, phase, catalog, header, posted, version, shown>>
    BY <1>3 DEF Resume
  <2>3. QED
    BY <2>1, <2>2, LoadKeeps
<1>4. CASE Refresh
  <2>1. phase = "page" /\ Load(usable, TRUE)
    BY <1>4 DEF Refresh, Seen
  <2>2. UNCHANGED <<contextVars, kind, phase, catalog, header, posted, version, shown>>
    BY <1>4 DEF Refresh, Seen
  <2>3. QED
    BY <2>1, <2>2, LoadKeeps
<1>5. CASE PostAnswered
  <2>1. phase = "page" /\ Load(usable, TRUE) /\ posted' = "nothing"
    BY <1>5 DEF PostAnswered, PageInv, Placed
  <2>2. UNCHANGED <<contextVars, kind, phase, catalog, header, version, shown>>
    BY <1>5 DEF PostAnswered
  <2>3. QED
    BY <2>1, <2>2, LoadKeeps
<1>6. QED
  BY <1>1, <1>2, <1>3, <1>4, <1>5

\* A page that is hidden, or seen, shows what it showed.
LEMMA SightKeeps ==
  ASSUME PageInv, Pause \/ SeenEarly
  PROVE  Keeps
<1>1. /\ UNCHANGED <<contextVars, usable, reqs, kind, phase, catalog, header, posted,
                     version, shown>>
      /\ poll' \in {poll, Off}
  BY DEF Pause, SeenEarly, usableVars
<1>2. ContextInv' /\ Good(usable)'
  BY <1>1, LanguageStands DEF PageInv
<1>3. Alive' /\ Versions'
  BY <1>1 DEF PageInv, Alive, Versions, Slots
<1>4. Placed' /\ Backed'
  BY <1>1 DEF PageInv, Placed, Backed, Voice, Slots, contextVars
<1>5. QED
  BY <1>1, <1>2, <1>3, <1>4 DEF Keeps, PageInv

\* What the reader asks, and its failure, change the notice alone.
LEMMA AskKeeps ==
  ASSUME PageInv, Act \/ Unlock \/ PostFailed
  PROVE  Keeps
<1>1. /\ phase = "page" /\ kind.guard = "single"
      /\ UNCHANGED <<contextVars, usable, reqs, kind, phase, catalog, header, version>>
  BY DEF Act, Unlock, PostFailed, Seen, usableVars, PageInv, Placed
<1>2. /\ shown'.rows = shown.rows
      /\ \/ shown' = shown /\ posted' # "action"
         \/ /\ shown'.state # "nothing"
            /\ shown'.voice = Voice
  <2>1. CASE Act
    BY <2>1 DEF Act, PageInv, Backed
  <2>2. CASE Unlock
    BY <2>2 DEF Unlock
  <2>3. CASE PostFailed
    BY <2>3 DEF PostFailed
  <2>4. QED
    BY <2>1, <2>2, <2>3
<1>3. ContextInv' /\ Good(usable)'
  BY <1>1, LanguageStands DEF PageInv
<1>4. Alive' /\ Versions'
  BY <1>1, <1>2 DEF PageInv, Alive, Versions, Slots
<1>5. Placed'
  BY <1>1 DEF PageInv, Placed, contextVars
<1>6. Backed'
  BY <1>1, <1>2 DEF PageInv, Backed, Voice, contextVars
<1>7. QED
  BY <1>1, <1>3, <1>4, <1>5, <1>6 DEF Keeps, PageInv

\* The server and the clock change requests and versions only.
LEMMA WorldKeeps ==
  ASSUME PageInv, DataChanges \/ Tick \/ \E i \in Slots : ServerServes(i)
  PROVE  Keeps
<1>1. CASE DataChanges
  <2>1. /\ version' = version + 1
        /\ UNCHANGED <<contextVars, usable, reqs, kind, phase, catalog, header, poll,
                       posted, shown>>
    BY <1>1 DEF DataChanges, usableVars
  <2>2. ContextInv' /\ Good(usable)'
    BY <2>1, LanguageStands DEF PageInv
  <2>3. Alive' /\ Placed' /\ Backed'
    BY <2>1 DEF PageInv, Alive, Placed, Backed, Voice, Slots, contextVars
  <2>4. Versions'
    BY <2>1 DEF PageInv, Versions, Slots
  <2>5. QED
    BY <2>1, <2>2, <2>3, <2>4 DEF Keeps, PageInv
<1>2. CASE Tick
  <2>1. /\ phase = "page"
        /\ reqs' = Ticked
        /\ UNCHANGED <<contextVars, usable, kind, phase, catalog, header, posted,
                       version, shown>>
    BY <1>2 DEF Tick, usableVars
  <2>2. Alive' /\ \A i \in Slots : reqs'[i].rows = reqs[i].rows
    BY <2>1, TickedDoes DEF PageInv
  <2>3. QED
    BY <2>1, <2>2, QuietKeeps DEF PageInv, Versions
<1>3. CASE \E i \in Slots : ServerServes(i)
  <2>1. PICK i \in Slots : ServerServes(i)
    BY <1>3
  <2>2. /\ Serve(i, version)
        /\ UNCHANGED <<contextVars, usable, kind, phase, catalog, header, posted,
                       version, shown>>
    BY <2>1 DEF ServerServes, usableVars
  <2>3. phase = "page"
    BY <2>2, IdleShows DEF PageInv, Placed, Serve, Open
  <2>4. Alive' /\ Beside(i) /\ reqs'[i].rows = version
    BY <2>2, ServeDoes DEF PageInv, Versions
  <2>5. \A j \in Slots : reqs'[j].rows \in 0 .. version
    BY <2>4 DEF PageInv, Versions, Beside
  <2>6. QED
    BY <2>2, <2>3, <2>4, <2>5, QuietKeeps DEF PageInv, Versions
<1>4. QED
  BY <1>1, <1>2, <1>3

\* Every step keeps the invariant and a marker that was published.
LEMMA NextKeeps ==
  ASSUME PageInv, [Next]_pageVars
  PROVE  Keeps
<1>1. CASE Next
  <2>1. CASE Scripts
    BY <2>1, RunRuntimeKeeps, RunCatalogKeeps, HeaderSettlesKeeps, ReaderKeeps DEF Scripts
  <2>2. CASE ~Scripts
    BY <1>1, <2>2, ReaderKeeps, SightKeeps, AskKeeps, WorldKeeps, EndsKeep DEF Next
  <2>3. QED
    BY <2>1, <2>2
<1>2. CASE UNCHANGED pageVars
  <2>1. UNCHANGED <<contextVars, usable, reqs, kind, phase, catalog, header, poll, posted,
                    version, shown>>
    BY <1>2 DEF pageVars, usableVars
  <2>2. ContextInv' /\ Good(usable)'
    BY <2>1, LanguageStands DEF PageInv
  <2>3. Alive' /\ Placed' /\ Backed' /\ Versions'
    BY <2>1 DEF PageInv, Alive, Placed, Backed, Versions, Voice, Slots, contextVars
  <2>4. QED
    BY <2>1, <2>2, <2>3 DEF Keeps, PageInv
<1>3. QED
  BY <1>1, <1>2

-----------------------------------------------------------------------------
\* The invariant holds in every state of a page.
THEOREM PageInvariant == Spec => []PageInv
<1>1. PageInv /\ [Next]_pageVars => PageInv'
  BY NextKeeps DEF Keeps
<1>2. QED
  BY <1>1, InitPageInv, PTL DEF Spec

\* A page that says it is ready shows what it says it shows, in the language
\* it says, with its frame, for any intervals, timeouts and locales.
THEOREM ReadyIsTrue == Spec => []ReadyShowsContent
<1>1. PageInv => ReadyShowsContent
  <2> SUFFICES ASSUME PageInv, usable.marker.ready PROVE ReadyShowsContent
    BY DEF ReadyShowsContent
  <2>1. /\ usable.waiting = {}
        /\ usable.pending # NoMark
        /\ usable.marker.state = usable.pending.state
        /\ usable.marker.locale = current
        /\ usable.marker.language = element.lang
        /\ usable.marker.dir = element.dir
    BY DEF PageInv, Good, Announces
  <2>2. header /\ initialized
    BY <2>1 DEF PageInv, Placed
  <2>3. /\ pageContext.resolvedTag = current
        /\ current = Resolve(element.lang)
        /\ element.dir = pageContext.direction
    BY <2>2 DEF PageInv, ContextInv, ContextAgrees
  <2>4. QED
    BY <2>1, <2>2, <2>3 DEF PageInv, Backed, Voice, ReadyShowsContent
<1>2. QED
  BY <1>1, PageInvariant, PTL

\* No later read, hold, release or mark moves the published moment.
THEOREM MomentStands == Spec => FirstMomentStands
<1>1. PageInv /\ [Next]_pageVars => [usable.marker.ready => UNCHANGED usable]_pageVars
  BY NextKeeps DEF Keeps, PageInv, Good
<1>2. QED
  BY <1>1, PageInvariant, PTL DEF Spec, FirstMomentStands

-----------------------------------------------------------------------------
(* Rows and their order *)

\* Where reads are kept apart.
Kept == ~(kind.guard = "none" /\ (resumed \/ kind.timeout >= kind.interval))

\* A request whose rows would still be shown.
Listening(i) == Open(i) /\ i \notin superseded

\* Without a guard and without a read by hand, a read has ended before the
\* interval that follows it.
Timers ==
  /\ poll \in 0 .. Off
  /\ \A i \in Slots : Open(i) => reqs[i].timer \in Nat
  /\ kind.guard = "none" /\ Kept /\ poll # Off =>
       \A i \in Slots :
         Open(i) => reqs[i].timer + (kind.interval - kind.timeout) <= poll

\* One read is listened to, and what it brings is no older than what is shown.
Apart ==
  /\ kind.guard # "generation" => superseded = {}
  /\ Kept =>
       /\ \A i, j \in Slots : Listening(i) /\ Listening(j) => i = j
       /\ \A i \in Slots :
            Listening(i) /\ reqs[i].transport = "served" => shown.rows <= reqs[i].rows

OrderInv == PageInv /\ Timers /\ Apart

\* What every step has to keep.
Moves == Timers' /\ Apart' /\ (Kept => shown'.rows >= shown.rows)

\* The bounds of a page's clock.
LEMMA KindBounds ==
  ASSUME PageInv
  PROVE  /\ kind.guard \in {"none", "single", "generation"}
         /\ kind.interval \in Nat
         /\ 0 < kind.interval
         /\ kind.interval < Off
         /\ kind.timeout \in Nat
         /\ Off \in Nat
<1>1. kind \in Kinds
  BY DEF PageInv, Placed
<1>2. /\ kind.guard \in {"none", "single", "generation"}
      /\ kind.interval \in 1 .. Off - 1
      /\ kind.timeout \in Nat
  BY <1>1, KindsAssumption, Zenon
<1>3. Off \in Nat
  BY DEF Off
<1>4. QED
  BY <1>2, <1>3

\* A page without requests keeps them apart.
LEMMA InitOrder == PageInit => Timers /\ Apart
<1> SUFFICES ASSUME PageInit PROVE Timers /\ Apart
  OBVIOUS
<1>1. \A i \in Slots : ~Open(i)
  BY IdleShows DEF PageInit, RequestsInit, Open
<1>2. poll = Off /\ superseded = {}
  BY DEF PageInit
<1>3. QED
  BY <1>1, <1>2 DEF Timers, Apart, Listening, Off

\* A load beside no other read, or one that supersedes them.
LEMMA LoadMoves ==
  ASSUME OrderInv, NEW u, Good(u), NEW byHand, Load(u, byHand), UNCHANGED <<kind, shown>>,
         Kept' => Kept,
         kind.guard = "none" /\ Kept' => ~Busy,
         poll' \in 0 .. Off,
         kind.guard = "none" /\ Kept' => kind.interval <= poll'
  PROVE  Moves
<1> USE KindBounds DEF OrderInv
<1>1. shown'.rows >= shown.rows
  BY DEF PageInv, Versions
<1>2. CASE UNCHANGED <<reqs, superseded>> /\ kind.guard = "single"
  BY <1>1, <1>2 DEF Moves, Timers, Apart, Listening, Open, Slots
<1>3. CASE ~(UNCHANGED <<reqs, superseded>> /\ kind.guard = "single")
  <2>1. /\ kind.guard = "single" => ~Busy
        /\ superseded' = IF kind.guard = "generation" THEN OpenSlots ELSE {}
    BY <1>3, LoadDoes DEF PageInv
  <2>2. PICK i \in Slots :
          /\ reqs[i] = Idle
          /\ Beside(i)
          /\ reqs'[i].state = "open"
          /\ reqs'[i].timer = kind.timeout
          /\ reqs'[i].transport = "sent"
    BY <1>3, LoadDoes DEF PageInv
  <2>3. \A j \in Slots : j # i => (Open(j)' <=> Open(j)) /\ reqs'[j] = reqs[j]
    BY <2>2 DEF Beside, Open
  <2>4. ~Busy => \A j \in Slots : ~Open(j)
    BY DEF Busy, OpenSlots
  <2>5. Timers'
    BY <2>2, <2>3, <2>4 DEF Timers, Slots
  <2>6. Apart'
    <3>1. \A j \in Slots : Kept' /\ Listening(j)' => j = i
      BY <2>1, <2>3, <2>4 DEF Listening, OpenSlots
    <3>2. kind'.guard # "generation" => superseded' = {}
      BY <2>1
    <3>3. QED
      BY <2>2, <3>1, <3>2 DEF Apart, Slots
  <2>7. QED
    BY <1>1, <2>5, <2>6 DEF Moves
<1>4. QED
  BY <1>2, <1>3

\* A request that ends, whatever its outcome and whether anyone listens.
LEMMA OutcomeMoves ==
  ASSUME OrderInv, NEW i \in Slots, NEW rows \in 0 .. version, Outcome(i, rows),
         Beside(i), reqs'[i].state # "open",
         rows = 0 \/ (rows = reqs[i].rows /\ reqs[i].transport = "served")
  PROVE  Moves
<1> USE DEF OrderInv
<1>1. UNCHANGED <<kind, resumed>>
  BY DEF Outcome
<1>2. \A j \in Slots : /\ Open(j)' => j # i /\ Open(j)
                       /\ j # i => reqs'[j] = reqs[j]
  BY DEF Beside, Open
<1>3. CASE Open(i)
  <2>1. PICK clock \in Clocks : Settle(i, rows, clock)
    BY <1>3 DEF Outcome
  <2>2. /\ superseded' = superseded \ {i}
        /\ i \in superseded => shown' = shown
        /\ i \notin superseded => shown'.rows = IF rows > 0 THEN rows ELSE shown.rows
    BY <2>1, SettleDoes DEF PageInv
  <2>3. poll' \in {poll, kind.interval} /\ (kind.guard = "none" => poll' = poll)
    BY <2>1 DEF Settle, Framed
  <2>4. Timers'
    <3>1. poll' \in 0 .. Off
      <4>1. poll \in 0 .. Off
        BY DEF Timers
      <4>2. kind.interval \in 0 .. Off
        BY KindBounds
      <4>3. QED
        BY <2>3, <4>1, <4>2, Zenon
    <3>2. \A j \in Slots : Open(j)' => reqs'[j].timer \in Nat
      BY <1>2 DEF Timers
    <3>3. ASSUME kind'.guard = "none", Kept', poll' # Off, NEW j \in Slots, Open(j)'
          PROVE  reqs'[j].timer + (kind'.interval - kind'.timeout) <= poll'
      <4>1. kind.guard = "none" /\ Kept /\ poll' = poll
        BY <1>1, <2>3, <3>3 DEF Kept
      <4>2. Open(j) /\ reqs'[j] = reqs[j]
        BY <1>2, <3>3
      <4>3. reqs[j].timer + (kind.interval - kind.timeout) <= poll
        BY <3>3, <4>1, <4>2 DEF Timers
      <4>4. QED
        BY <1>1, <4>1, <4>2, <4>3
    <3>4. QED
      BY <3>1, <3>2, <3>3 DEF Timers, Slots
  <2>5. Apart'
    <3>1. \A j \in Slots : Listening(j)' => j # i /\ Listening(j)
      BY <1>2, <2>2 DEF Listening
    <3>2. Kept' => Kept
      BY <1>1 DEF Kept
    <3>3. \A j \in Slots : Kept /\ Listening(j)' => shown' = shown \/ shown'.rows = shown.rows
      BY <1>3, <2>2, <3>1 DEF Apart, Listening
    <3>4. QED
      BY <1>1, <1>2, <2>2, <3>1, <3>2, <3>3 DEF Apart, Slots
  <2>6. Kept => shown'.rows >= shown.rows
    BY <1>3, <2>2 DEF Apart, Listening, PageInv, Versions
  <2>7. QED
    BY <2>4, <2>5, <2>6 DEF Moves
<1>4. CASE ~Open(i)
  <2>1. UNCHANGED <<shown, poll, superseded>>
    BY <1>4 DEF Outcome
  <2>2. Timers'
    BY <1>1, <1>2, <2>1 DEF Timers, Kept, Slots
  <2>3. Apart'
    BY <1>1, <1>2, <2>1 DEF Apart, Listening, Kept, Slots
  <2>4. QED
    BY <2>1, <2>2, <2>3 DEF Moves, PageInv, Versions
<1>5. QED
  BY <1>3, <1>4

\* The three ways a request ends.
LEMMA EndsMove ==
  ASSUME OrderInv, NEW i \in Slots, Answered(i) \/ Failed(i) \/ TimedOut(i)
  PROVE  Moves
<1>1. CASE Answered(i)
  <2>1. /\ End(i, {"served"}) /\ Outcome(i, reqs[i].rows)
        /\ reqs[i].rows \in 0 .. version
        /\ reqs[i].transport = "served"
    BY <1>1 DEF Answered, End, OrderInv, PageInv, Versions
  <2>2. Beside(i) /\ reqs'[i].state # "open"
    BY <2>1, EndDoes, IdleShows DEF OrderInv, PageInv
  <2>3. QED
    BY <2>1, <2>2, OutcomeMoves
<1>2. CASE Failed(i)
  <2>1. End(i, {"sent", "served"}) /\ Outcome(i, 0) /\ 0 \in 0 .. version
    BY <1>2 DEF Failed, OrderInv, PageInv, Versions
  <2>2. Beside(i) /\ reqs'[i].state # "open"
    BY <2>1, EndDoes, IdleShows DEF OrderInv, PageInv
  <2>3. QED
    BY <2>1, <2>2, OutcomeMoves
<1>3. CASE TimedOut(i)
  <2>1. Expire(i) /\ Outcome(i, 0) /\ 0 \in 0 .. version
    BY <1>3 DEF TimedOut, OrderInv, PageInv, Versions
  <2>2. Beside(i) /\ reqs'[i].state # "open"
    BY <2>1, ExpireDoes DEF OrderInv, PageInv
  <2>3. QED
    BY <2>1, <2>2, OutcomeMoves
<1>4. QED
  BY <1>1, <1>2, <1>3

\* Steps that neither send nor settle.
LEMMA QuietMoves ==
  ASSUME OrderInv, UNCHANGED <<reqs, kind, poll, resumed, superseded>>,
         shown'.rows = shown.rows
  PROVE  Moves
BY DEF OrderInv, Moves, Timers, Apart, Listening, Open, Kept, Slots, PageInv, Versions

\* The steps that start reads.
LEMMA ReaderMoves ==
  ASSUME OrderInv, RunPage \/ Poll \/ Pause \/ Resume \/ Refresh \/ PostAnswered
  PROVE  Moves
<1>0. Good(usable)
  BY DEF OrderInv, PageInv
<1>1. CASE RunPage
  <2>1. /\ Load(usable, FALSE)
        /\ UNCHANGED <<kind, resumed, shown>>
        /\ poll' = IF Framed THEN Off ELSE kind.interval
        /\ phase # "page"
    BY <1>1 DEF RunPage
  <2>2. ~Busy
    BY <2>1, IdleShows DEF OrderInv, PageInv, Placed, Busy, OpenSlots, Open
  <2>3. Kept' => Kept
    BY <2>1 DEF Kept
  <2>4. poll' \in 0 .. Off /\ (kind.guard = "none" => kind.interval <= poll')
    BY <2>1, KindBounds DEF OrderInv, Framed
  <2>5. QED
    BY <1>0, <2>1, <2>2, <2>3, <2>4, LoadMoves
<1>2. CASE Poll
  <2>1. /\ poll = 0
        /\ poll' = kind.interval
        /\ UNCHANGED <<kind, resumed, shown>>
    BY <1>2 DEF Poll
  <2>2. Kept' => Kept
    BY <2>1 DEF Kept
  <2>3. poll' \in 0 .. Off /\ kind.interval <= poll'
    BY <2>1, KindBounds DEF OrderInv
  <2>4. CASE Load(usable, FALSE)
    <3>1. kind.guard = "none" /\ Kept => ~Busy
      BY <2>1, KindBounds DEF OrderInv, Timers, Kept, Busy, OpenSlots, Off
    <3>2. QED
      BY <1>0, <2>1, <2>2, <2>3, <2>4, <3>1, LoadMoves
  <2>5. CASE kind.guard = "generation" /\ UNCHANGED <<usable, reqs, superseded>>
    <3>1. Timers'
      BY <2>1, <2>3, <2>5 DEF OrderInv, Timers, Open, Slots
    <3>2. Apart'
      BY <2>1, <2>2, <2>5 DEF OrderInv, Apart, Listening, Open, Slots
    <3>3. QED
      BY <2>1, <3>1, <3>2 DEF Moves, OrderInv, PageInv, Versions
  <2>6. QED
    BY <1>2, <2>4, <2>5 DEF Poll
<1>3. CASE Pause
  <2>1. /\ UNCHANGED <<reqs, kind, resumed, shown, superseded>>
        /\ poll' = poll \/ poll' = Off
    BY <1>3 DEF Pause
  <2>2. Timers'
    BY <2>1 DEF OrderInv, Timers, Open, Kept, Slots, Off
  <2>3. Apart'
    BY <2>1 DEF OrderInv, Apart, Listening, Open, Kept, Slots
  <2>4. QED
    BY <2>1, <2>2, <2>3 DEF Moves, OrderInv, PageInv, Versions
<1>4. CASE Resume
  <2>1. /\ Load(usable, TRUE)
        /\ resumed' = ~Framed
        /\ poll' = IF kind.guard = "generation" THEN poll ELSE kind.interval
        /\ UNCHANGED <<kind, shown>>
    BY <1>4 DEF Resume
  <2>2. (kind.guard = "none" => ~Kept') /\ (Kept' => Kept)
    BY <2>1 DEF Kept, Framed
  <2>3. poll' \in 0 .. Off
    <3>1. poll \in 0 .. Off
      BY DEF OrderInv, Timers
    <3>2. kind.interval \in 0 .. Off
      BY KindBounds DEF OrderInv
    <3>3. QED
      BY <2>1, <3>1, <3>2, Zenon
  <2>4. QED
    BY <1>0, <2>1, <2>2, <2>3, LoadMoves
<1>5. CASE Refresh \/ PostAnswered
  <2>1. /\ Load(usable, TRUE)
        /\ kind.guard # "none"
        /\ UNCHANGED <<kind, poll, resumed, shown>>
    BY <1>5 DEF Refresh, Framed, PostAnswered, OrderInv, PageInv, Placed
  <2>2. Kept' => Kept
    BY <2>1 DEF Kept
  <2>3. poll' \in 0 .. Off
    BY <2>1 DEF OrderInv, Timers
  <2>4. QED
    BY <1>0, <2>1, <2>2, <2>3, LoadMoves
<1>6. QED
  BY <1>1, <1>2, <1>3, <1>4, <1>5

\* The clock counts a read and its interval together; the server reads what
\* is newest.
LEMMA WorldMoves ==
  ASSUME OrderInv, Tick \/ \E i \in Slots : ServerServes(i)
  PROVE  Moves
<1>1. CASE Tick
  <2>1. /\ poll # 0
        /\ \A i \in Slots : ~Due(i)
        /\ poll' = IF poll = Off THEN Off ELSE poll - 1
        /\ reqs' = Ticked
        /\ UNCHANGED <<kind, resumed, shown, superseded>>
    BY <1>1 DEF Tick
  <2>2. \A j \in Slots :
          /\ reqs'[j].state = reqs[j].state
          /\ reqs'[j].transport = reqs[j].transport
          /\ reqs'[j].rows = reqs[j].rows
          /\ reqs'[j].timer = IF Open(j) THEN reqs[j].timer - 1 ELSE reqs[j].timer
    BY <2>1, TickedDoes DEF OrderInv, PageInv
  <2>3. \A j \in Slots : Open(j)' <=> Open(j)
    BY <2>2 DEF Open
  <2>4. \A j \in Slots : Open(j) => reqs[j].timer \in Nat /\ reqs[j].timer # 0
    BY <2>1 DEF Due, OrderInv, Timers
  <2>5. Timers'
    <3>1. poll' \in 0 .. Off
      BY <2>1 DEF OrderInv, Timers, Off
    <3>2. \A j \in Slots : Open(j)' => reqs'[j].timer \in Nat
      BY <2>2, <2>3, <2>4
    <3>3. ASSUME kind.guard = "none", Kept, poll' # Off, NEW j \in Slots, Open(j)
          PROVE  reqs'[j].timer + (kind.interval - kind.timeout) <= poll'
      BY <2>1, <2>2, <2>4, <3>3, KindBounds DEF OrderInv, Timers, Off
    <3>4. QED
      BY <2>1, <2>3, <3>1, <3>2, <3>3 DEF Timers, Kept, Slots
  <2>6. Apart'
    BY <2>1, <2>2, <2>3 DEF OrderInv, Apart, Listening, Kept, Slots
  <2>7. QED
    BY <2>1, <2>5, <2>6 DEF Moves, OrderInv, PageInv, Versions
<1>2. CASE \E i \in Slots : ServerServes(i)
  <2>1. PICK i \in Slots : ServerServes(i)
    BY <1>2
  <2>2. /\ Serve(i, version)
        /\ UNCHANGED <<kind, poll, resumed, shown, superseded>>
    BY <2>1 DEF ServerServes
  <2>3. /\ Beside(i)
        /\ reqs'[i].state = reqs[i].state
        /\ reqs'[i].timer = reqs[i].timer
        /\ reqs'[i].rows = version
    BY <2>2, ServeDoes DEF OrderInv, PageInv, Versions
  <2>4. \A j \in Slots :
          /\ Open(j)' <=> Open(j)
          /\ reqs'[j].timer = reqs[j].timer
          /\ j # i => reqs'[j] = reqs[j]
    BY <2>3 DEF Beside, Open
  <2>5. Timers'
    BY <2>2, <2>4 DEF OrderInv, Timers, Kept, Slots
  <2>6. Apart'
    BY <2>2, <2>3, <2>4 DEF OrderInv, Apart, Listening, Kept, Slots, PageInv, Versions
  <2>7. QED
    BY <2>2, <2>5, <2>6 DEF Moves, OrderInv, PageInv, Versions
<1>3. QED
  BY <1>1, <1>2

\* Every step keeps the order.
LEMMA NextMoves ==
  ASSUME OrderInv, [Next]_pageVars
  PROVE  Moves
<1>1. CASE \/ RunRuntime \/ RunCatalog \/ HeaderSettles \/ DataChanges
           \/ SeenEarly \/ Act \/ Unlock \/ PostFailed \/ UNCHANGED pageVars
  <2>1. CASE \/ RunRuntime \/ RunCatalog \/ HeaderSettles \/ DataChanges
             \/ SeenEarly \/ Unlock \/ UNCHANGED pageVars
    <3>1. UNCHANGED <<reqs, kind, resumed, superseded, poll, shown>>
      BY <2>1 DEF RunRuntime, RunCatalog, HeaderSettles, DataChanges, SeenEarly, Unlock,
         pageVars
    <3>2. QED
      BY <3>1, QuietMoves
  <2>2. CASE Act \/ PostFailed
    <3>1. UNCHANGED <<reqs, kind, resumed, superseded, poll>> /\ shown'.rows = shown.rows
      BY <2>2 DEF Act, PostFailed
    <3>2. QED
      BY <3>1, QuietMoves
  <2>3. QED
    BY <1>1, <2>1, <2>2
<1>2. CASE RunPage \/ Poll \/ Pause \/ Resume \/ Refresh \/ PostAnswered
  BY <1>2, ReaderMoves
<1>3. CASE Tick \/ \E i \in Slots : ServerServes(i)
  BY <1>3, WorldMoves
<1>4. CASE \E i \in Slots : Answered(i) \/ Failed(i) \/ TimedOut(i)
  BY <1>4, EndsMove
<1>5. QED
  BY <1>1, <1>2, <1>3, <1>4 DEF Next, Scripts

-----------------------------------------------------------------------------
\* Rows never give way to older ones where a guard, or an interval longer than
\* the timeout, keeps reads apart: for any such page.
THEOREM RowsKeepOrder == Spec => RowsNeverGoBack
<1>1. PageInit => OrderInv
  BY InitPageInv, InitOrder DEF OrderInv
<1>2. OrderInv /\ [Next]_pageVars => OrderInv'
  BY NextKeeps, NextMoves DEF OrderInv, Keeps, Moves
<1>3. OrderInv /\ [Next]_pageVars =>
        [\/ kind.guard = "none" /\ (resumed \/ kind.timeout >= kind.interval)
         \/ shown'.rows >= shown.rows]_pageVars
  BY NextMoves DEF Moves, Kept
<1>4. QED
  BY <1>1, <1>2, <1>3, PTL DEF Spec, RowsNeverGoBack
-----------------------------------------------------------------------------
(* Types, and rows that grow old *)

\* A sample of a finished render.
Sample ==
  [locale : DOMAIN LocaleData, page : {k.page : k \in Kinds}, state : {"data", "error"}]

\* The part of the types that the invariants above leave out.
Shapes ==
  /\ usable.waiting \subseteq {"chrome", "primary"}
  /\ samples \in Seq(Sample)
  /\ Len(samples) <= MaxSamples
  /\ \A i \in Slots : reqs[i].timer \in 0 .. kind.timeout
  /\ poll \in 0 .. kind.interval \cup {Off}
  /\ shown.state \in {"nothing", "data", "error"}

\* A read that settles before the shown rows are too old.
Coming(i) == Open(i) /\ age + reqs[i].timer <= MaxAge

\* While a page is polling and shows rows as good, the next interval comes
\* early enough for its read to settle in time, or such a read is under way.
Rounds ==
  /\ age \in 0 .. MaxAge
  /\ kind.guard = "generation" => age = 0
  /\ kind.guard = "none" /\ phase = "page" /\ ~paused => poll # Off
  /\ kind.guard # "generation" /\ ~paused /\ shown.state # "nothing" => poll # Off
  /\ kind.guard # "generation" /\ ~paused /\ shown.state = "data" =>
       \/ age + poll + kind.timeout <= MaxAge
       \/ \E i \in Slots : Coming(i)

RoundInv == PageInv /\ Shapes /\ Rounds

\* What every step has to keep.
Turns == Shapes' /\ Rounds'

\* The queue of samples forgets its oldest in time.
LEMMA MeasureDoes ==
  ASSUME NEW S, NEW queue \in Seq(S), Len(queue) <= MaxSamples, NEW page, NEW state,
         [locale |-> current, page |-> page, state |-> state] \in S
  PROVE  /\ Measure(queue, page, state) \in Seq(S)
         /\ Len(Measure(queue, page, state)) <= MaxSamples
<1> DEFINE new == [locale |-> current, page |-> page, state |-> state]
           longer == Append(queue, new)
<1>1. \/ Measure(queue, page, state) = queue
      \/ /\ Len(longer) > MaxSamples
         /\ Measure(queue, page, state) = Tail(longer)
      \/ /\ Len(longer) <= MaxSamples
         /\ Measure(queue, page, state) = longer
  <2>1. Len(longer) \in Nat /\ MaxSamples \in Nat
    <3> HIDE DEF new
    <3>1. QED
      BY SamplesAssumption
  <2>2. QED
    BY <2>1 DEF Measure
<1> HIDE DEF new
<1>2. longer \in Seq(S) /\ Len(longer) = Len(queue) + 1
  BY DEF new
<1>3. Tail(longer) \in Seq(S) /\ Len(Tail(longer)) = Len(queue)
  <2> HIDE DEF longer
  <2>1. longer # <<>> /\ Len(queue) \in Nat
    BY <1>2
  <2>2. QED
    BY <1>2, <2>1
<1>4. QED
  BY <1>1, <1>2, <1>3

\* The longest age is a number.
LEMMA MaxAgeIs ==
  ASSUME PageInv
  PROVE  /\ MaxAge \in Nat
         /\ MaxAge = kind.timeout + kind.interval + kind.timeout
BY KindBounds DEF MaxAge

\* A page starts with nothing, and nothing is old.
LEMMA InitTurns == PageInit => Shapes /\ Rounds
<1> SUFFICES ASSUME PageInit PROVE Shapes /\ Rounds
  OBVIOUS
<1>1. PageInv /\ \A i \in Slots : reqs[i] = Idle
  BY InitPageInv DEF PageInit, RequestsInit
<1>2. /\ usable.waiting = {} /\ samples = <<>> /\ poll = Off /\ age = 0
      /\ phase = "none" /\ shown.state = "nothing"
  BY DEF PageInit, FirstUsableInit
<1>3. Shapes
  BY <1>1, <1>2, IdleShows, KindBounds, SamplesAssumption DEF Shapes
<1>4. Rounds
  BY <1>1, <1>2, MaxAgeIs DEF Rounds
<1>5. QED
  BY <1>3, <1>4

\* After a load a read is under way, and those that were still are.
LEMMA LoadOpens ==
  ASSUME PageInv, Shapes, NEW byHand, Load(usable, byHand), UNCHANGED kind
  PROVE  /\ usable'.waiting \subseteq {"chrome", "primary"}
         /\ \A i \in Slots : reqs'[i].timer \in 0 .. kind.timeout
         /\ \A i \in Slots : Open(i) => reqs'[i] = reqs[i]
         /\ \E i \in Slots : Open(i)'
<1>1. usable'.waiting \subseteq usable.waiting \cup {"primary"}
  BY LoadDoes DEF PageInv
<1>2. CASE kind.guard = "single" /\ Busy /\ UNCHANGED <<reqs, superseded>>
  BY <1>1, <1>2 DEF Shapes, Busy, OpenSlots, Open, Slots
<1>3. CASE \E i \in Slots : /\ reqs[i] = Idle
                            /\ Beside(i)
                            /\ reqs'[i].state = "open"
                            /\ reqs'[i].timer = kind.timeout
  <2>1. PICK i \in Slots : /\ reqs[i] = Idle
                           /\ Beside(i)
                           /\ reqs'[i].state = "open"
                           /\ reqs'[i].timer = kind.timeout
    BY <1>3
  <2>2. ~Open(i) /\ Open(i)'
    BY <2>1, IdleShows DEF Open
  <2>3. kind.timeout \in 0 .. kind.timeout
    BY KindBounds
  <2>4. QED
    BY <1>1, <2>1, <2>2, <2>3 DEF Shapes, Beside
<1>4. QED
  BY <1>2, <1>3, LoadDoes DEF PageInv

\* Steps that start, pause and resume reads.
LEMMA ReaderTurns ==
  ASSUME RoundInv, RunPage \/ Poll \/ Pause \/ Resume \/ Refresh \/ PostAnswered
  PROVE  Turns
<1> USE DEF RoundInv
<1>0. /\ kind.timeout \in Nat /\ kind.interval \in Nat /\ 0 < kind.interval
      /\ kind.interval < Off /\ MaxAge \in Nat
      /\ MaxAge = kind.timeout + kind.interval + kind.timeout
      /\ kind.interval \in 0 .. kind.interval
  BY KindBounds, MaxAgeIs
<1>1. ASSUME NEW byHand, Load(usable, byHand), UNCHANGED <<kind, samples, shown>>,
             poll' \in 0 .. kind.interval \cup {Off}
      PROVE  Shapes'
  BY <1>1, LoadOpens DEF Shapes, Slots
<1>2. CASE RunPage
  <2>1. /\ Load(usable, FALSE) /\ UNCHANGED <<kind, samples, shown, age, paused>>
        /\ poll' = IF Framed THEN Off ELSE kind.interval
        /\ shown.state = "nothing"
    BY <1>2 DEF RunPage, PageInv, Placed
  <2>2. Shapes'
    BY <1>0, <1>1, <2>1
  <2>3. Rounds'
    BY <1>0, <2>1 DEF Rounds, MaxAge, Framed, Off
  <2>4. QED
    BY <2>2, <2>3 DEF Turns
<1>3. CASE Poll
  <2>1. /\ poll = 0 /\ poll' = kind.interval
        /\ UNCHANGED <<kind, samples, phase, paused, shown, age>>
    BY <1>3 DEF Poll
  <2>2. CASE kind.guard = "generation" /\ UNCHANGED <<usable, reqs>>
    <3>1. Shapes'
      BY <1>0, <2>1, <2>2 DEF Shapes, Slots
    <3>2. Rounds'
      BY <1>0, <2>1, <2>2 DEF Rounds, MaxAge, Off
    <3>3. QED
      BY <3>1, <3>2 DEF Turns
  <2>3. CASE Load(usable, FALSE)
    <3>1. Shapes'
      BY <1>0, <1>1, <2>1, <2>3
    <3>2. PICK i \in Slots : Open(i)' /\ reqs'[i].timer \in 0 .. kind.timeout
      BY <2>1, <2>3, LoadOpens
    <3>3. ASSUME kind.guard # "generation", ~paused, shown.state = "data"
          PROVE  \E j \in Slots : Coming(j)'
      <4>1. CASE age + poll + kind.timeout <= MaxAge
        BY <1>0, <2>1, <3>2, <4>1 DEF Coming, MaxAge, Slots, Rounds
      <4>2. CASE \E j \in Slots : Coming(j)
        <5>1. PICK j \in Slots : Coming(j)
          BY <4>2
        <5>2. reqs'[j] = reqs[j]
          BY <2>1, <2>3, <5>1, LoadOpens DEF Coming
        <5>3. QED
          BY <2>1, <5>1, <5>2 DEF Coming, Open, MaxAge, Slots
      <4>3. QED
        BY <3>3, <4>1, <4>2 DEF Rounds
    <3>4. Rounds'
      BY <1>0, <2>1, <3>3 DEF Rounds, MaxAge, Off, Slots
    <3>5. QED
      BY <3>1, <3>4 DEF Turns
  <2>4. QED
    BY <1>3, <2>2, <2>3 DEF Poll
<1>4. CASE Pause
  <2>1. /\ UNCHANGED <<usable, samples, reqs, kind, shown, age>>
        /\ paused' /\ poll' \in {poll, Off}
    BY <1>4 DEF Pause, usableVars
  <2>2. Shapes'
    BY <2>1 DEF Shapes, Slots
  <2>3. Rounds'
    BY <1>0, <2>1 DEF Rounds, MaxAge
  <2>4. QED
    BY <2>2, <2>3 DEF Turns
<1>5. CASE Resume
  <2>1. /\ Load(usable, TRUE) /\ UNCHANGED <<kind, samples, shown>>
        /\ age' = 0
        /\ poll' = IF kind.guard = "generation" THEN poll ELSE kind.interval
    BY <1>5 DEF Resume
  <2>2. Shapes'
    BY <1>0, <1>1, <2>1 DEF Shapes
  <2>3. Rounds'
    BY <1>0, <2>1 DEF Rounds, MaxAge, Off
  <2>4. QED
    BY <2>2, <2>3 DEF Turns
<1>6. CASE Refresh \/ PostAnswered
  <2>1. /\ Load(usable, TRUE) /\ UNCHANGED <<kind, samples, shown, age, poll, paused, phase>>
        /\ kind.guard # "none"
    BY <1>6 DEF Refresh, Framed, PostAnswered, PageInv, Placed
  <2>2. Shapes'
    BY <1>1, <2>1 DEF Shapes
  <2>3. \A i \in Slots : Coming(i) => Coming(i)'
    BY <2>1, LoadOpens DEF Coming, Open, MaxAge
  <2>4. Rounds'
    BY <2>1, <2>3 DEF Rounds, MaxAge, Slots
  <2>5. QED
    BY <2>2, <2>4 DEF Turns
<1>7. QED
  BY <1>2, <1>3, <1>4, <1>5, <1>6

\* A request that ends, whatever its outcome and whether anyone listens: what
\* it brings is no older than its timeout.
LEMMA OutcomeTurns ==
  ASSUME RoundInv, NEW i \in Slots, NEW rows \in 0 .. version, Outcome(i, rows),
         phase = "page", Beside(i), reqs'[i].timer = 0, ~Open(i)'
  PROVE  Turns
<1> USE DEF RoundInv
<1>0. /\ kind.guard \in {"none", "single", "generation"}
      /\ kind.timeout \in Nat /\ kind.interval \in Nat /\ 0 < kind.interval
      /\ kind.interval < Off /\ MaxAge \in Nat
      /\ MaxAge = kind.timeout + kind.interval + kind.timeout
      /\ kind.interval \in 0 .. kind.interval
  BY KindBounds, MaxAgeIs
<1>1. UNCHANGED <<kind, phase, paused>>
  BY DEF Outcome
<1>2. \A j \in Slots : reqs'[j].timer \in 0 .. kind.timeout
  BY <1>0 DEF Shapes, Beside
<1>3. CASE Open(i)
  <2>1. PICK clock \in Clocks : Settle(i, rows, clock)
    BY <1>3 DEF Outcome
  <2>2. usable'.waiting \subseteq {"chrome", "primary"}
    BY <2>1, SettleDoes DEF PageInv, Shapes
  <2>3. samples' \in Seq(Sample) /\ Len(samples') <= MaxSamples
    <3>1. [locale |-> current, page |-> kind.page, state |-> "data"] \in Sample
      BY DEF PageInv, ContextInv, Placed, Sample
    <3>2. \/ samples' = samples
          \/ samples' = Measure(samples, kind.page, "data")
      BY <2>1 DEF Settle, PageInv, Versions
    <3>3. QED
      BY <3>1, <3>2, MeasureDoes DEF Shapes
  <2>4. shown'.state \in {"nothing", "data", "error"}
    BY <2>1 DEF Settle, Shapes
  <2>5. /\ age' \in 0 .. kind.timeout
        /\ kind.guard = "generation" => age' = 0
    BY <1>0, <2>1 DEF Settle, Shapes
  <2>6. /\ poll' \in 0 .. kind.interval \cup {Off}
        /\ kind.guard = "none" => poll' = poll
        /\ kind.guard = "single" /\ ~paused => poll' # Off
    <3>1. poll' = IF Framed /\ poll = Off /\ ~(kind.guard = "single" /\ paused)
                  THEN kind.interval ELSE poll
      BY <2>1 DEF Settle
    <3>2. poll \in 0 .. kind.interval \cup {Off}
      BY DEF Shapes
    <3>3. QED
      BY <1>0, <3>1, <3>2 DEF Framed
  <2>7. Shapes'
    BY <1>1, <1>2, <2>2, <2>3, <2>4, <2>6 DEF Shapes, Slots, Sample
  <2>8. Rounds'
    <3>1. age' \in 0 .. MaxAge
      BY <1>0, <2>5
    <3>2. kind.guard \in {"none", "single"} /\ ~paused => poll' # Off
      BY <2>6 DEF Rounds
    <3>3. poll' # Off => age' + poll' + kind.timeout <= MaxAge
      BY <1>0, <2>5, <2>6
    <3>4. QED
      BY <1>0, <1>1, <2>5, <3>1, <3>2, <3>3 DEF Rounds, MaxAge
  <2>9. QED
    BY <2>7, <2>8 DEF Turns
<1>4. CASE ~Open(i)
  <2>1. UNCHANGED <<usable, samples, shown, age, poll>>
    BY <1>4 DEF Outcome, usableVars
  <2>2. \A j \in Slots : Coming(j) => Coming(j)'
    BY <1>1, <1>4, <2>1 DEF Coming, Open, Beside, MaxAge
  <2>3. Shapes'
    BY <1>1, <1>2, <2>1 DEF Shapes, Slots
  <2>4. Rounds'
    BY <1>1, <2>1, <2>2 DEF Rounds, MaxAge, Slots
  <2>5. QED
    BY <2>3, <2>4 DEF Turns
<1>5. QED
  BY <1>3, <1>4

\* The three ways a request ends.
LEMMA EndsTurn ==
  ASSUME RoundInv, NEW i \in Slots, Answered(i) \/ Failed(i) \/ TimedOut(i)
  PROVE  Turns
<1>1. phase = "page"
  BY IdleShows DEF RoundInv, PageInv, Placed, Answered, Failed, TimedOut, End, Expire,
     Due, Open
<1>2. CASE Answered(i)
  <2>1. End(i, {"served"}) /\ Outcome(i, reqs[i].rows) /\ reqs[i].rows \in 0 .. version
    BY <1>2 DEF Answered, RoundInv, PageInv, Versions
  <2>2. Beside(i) /\ reqs'[i].timer = 0 /\ ~Open(i)'
    BY <2>1, EndDoes, IdleShows DEF RoundInv, PageInv, Open
  <2>3. QED
    BY <1>1, <2>1, <2>2, OutcomeTurns
<1>3. CASE Failed(i)
  <2>1. End(i, {"sent", "served"}) /\ Outcome(i, 0) /\ 0 \in 0 .. version
    BY <1>3 DEF Failed, RoundInv, PageInv, Versions
  <2>2. Beside(i) /\ reqs'[i].timer = 0 /\ ~Open(i)'
    BY <2>1, EndDoes, IdleShows DEF RoundInv, PageInv, Open
  <2>3. QED
    BY <1>1, <2>1, <2>2, OutcomeTurns
<1>4. CASE TimedOut(i)
  <2>1. Expire(i) /\ Outcome(i, 0) /\ 0 \in 0 .. version
    BY <1>4 DEF TimedOut, RoundInv, PageInv, Versions
  <2>2. Beside(i) /\ reqs'[i].timer = 0 /\ ~Open(i)'
    BY <2>1, ExpireDoes DEF RoundInv, PageInv, Open
  <2>3. QED
    BY <1>1, <2>1, <2>2, OutcomeTurns
<1>5. QED
  BY <1>2, <1>3, <1>4

\* The clock: what grows older comes nearer to its renewal.
LEMMA TickTurns ==
  ASSUME RoundInv, Tick
  PROVE  Turns
<1> USE DEF RoundInv
<1>0. /\ kind.timeout \in Nat /\ kind.interval \in Nat
      /\ kind.interval < Off /\ MaxAge \in Nat
  BY KindBounds, MaxAgeIs
<1>1. /\ poll # 0 /\ \A i \in Slots : ~Due(i)
      /\ poll' = IF poll = Off THEN Off ELSE poll - 1
      /\ age' = IF shown.state = "data" /\ Aging THEN age + 1 ELSE age
      /\ UNCHANGED <<usable, samples, kind, phase, paused, shown>>
  BY DEF Tick, usableVars
<1>2. \A j \in Slots :
        /\ reqs'[j].state = reqs[j].state
        /\ reqs'[j].timer = IF Open(j) THEN reqs[j].timer - 1 ELSE reqs[j].timer
  BY TickedDoes DEF Tick, PageInv
<1>3. \A j \in Slots : /\ reqs[j].timer \in 0 .. kind.timeout
                       /\ Open(j) => reqs[j].timer # 0
  BY <1>1 DEF Due, Shapes
<1>4. \A j \in Slots : reqs'[j].timer \in 0 .. kind.timeout
  BY <1>0, <1>2, <1>3
<1>5. poll \in 0 .. kind.interval \cup {Off} /\ poll' \in 0 .. kind.interval \cup {Off}
  BY <1>0, <1>1 DEF Shapes
<1>6. Shapes'
  BY <1>1, <1>4, <1>5 DEF Shapes, Slots
<1>7. age \in 0 .. MaxAge /\ age' \in {age, age + 1}
  BY <1>1 DEF Rounds
<1>8. ASSUME kind.guard # "generation", ~paused, shown.state = "data"
      PROVE  /\ poll' # Off
             /\ age' <= MaxAge
             /\ \/ age' + poll' + kind.timeout <= MaxAge
                \/ \E i \in Slots : Coming(i)'
  <2>1. poll # Off /\ poll \in 0 .. kind.interval /\ poll' = poll - 1 /\ poll' # Off
    BY <1>0, <1>1, <1>5, <1>8 DEF Rounds
  <2>2. CASE age + poll + kind.timeout <= MaxAge
    BY <1>0, <1>1, <1>7, <2>1, <2>2
  <2>3. CASE \E i \in Slots : Coming(i)
    <3>1. PICK i \in Slots : Coming(i)
      BY <2>3
    <3>2. Open(i)' /\ reqs'[i].timer = reqs[i].timer - 1
      BY <1>2, <3>1 DEF Coming, Open
    <3>3. age' + reqs'[i].timer <= MaxAge /\ age' <= MaxAge
      BY <1>0, <1>3, <1>7, <3>1, <3>2 DEF Coming
    <3>4. Coming(i)'
      BY <1>1, <3>2, <3>3 DEF Coming, MaxAge
    <3>5. QED
      BY <2>1, <3>3, <3>4
  <2>4. QED
    BY <1>8, <2>2, <2>3 DEF Rounds
<1>9. Rounds'
  <2>1. ~(kind.guard # "generation" /\ ~paused /\ shown.state = "data") => age' = age
    BY <1>1 DEF Aging
  <2>2. age' \in 0 .. MaxAge
    BY <1>0, <1>7, <1>8, <2>1
  <2>3. poll # Off => poll' # Off
    BY <1>0, <1>1, <1>5
  <2>4. QED
    BY <1>1, <1>8, <2>1, <2>2, <2>3 DEF Rounds, MaxAge, Slots
<1>10. QED
  BY <1>6, <1>9 DEF Turns

\* Steps that neither send nor settle.
LEMMA QuietTurns ==
  ASSUME RoundInv, UNCHANGED <<samples, kind, poll, paused, shown, age>>,
         usable'.waiting \subseteq {"chrome", "primary"},
         phase' = "page" => phase = "page",
         \A i \in Slots : reqs'[i].state = reqs[i].state /\ reqs'[i].timer = reqs[i].timer
  PROVE  Turns
<1>1. \A i \in Slots : Coming(i) => Coming(i)'
  BY DEF Coming, Open, MaxAge
<1>2. Shapes'
  BY DEF RoundInv, Shapes, Slots
<1>3. Rounds'
  BY <1>1 DEF RoundInv, Rounds, MaxAge, Slots
<1>4. QED
  BY <1>2, <1>3 DEF Turns

\* The scripts before the page's own, the header, the server, and no step.
LEMMA OthersTurn ==
  ASSUME RoundInv, \/ RunRuntime \/ RunCatalog \/ HeaderSettles \/ DataChanges
                   \/ (\E i \in Slots : ServerServes(i)) \/ UNCHANGED pageVars
  PROVE  Turns
<1> USE DEF RoundInv
<1>0. Good(usable) /\ Alive /\ usable.waiting \subseteq {"chrome", "primary"}
  BY DEF PageInv, Shapes
<1>1. CASE RunRuntime
  <2>1. /\ UNCHANGED <<samples, reqs, kind, poll, paused, shown, age>>
        /\ phase' # "page"
        /\ usable' \in {usable, Hold(usable, "chrome")}
    BY <1>1 DEF RunRuntime
  <2>2. usable'.waiting \subseteq {"chrome", "primary"}
    BY <1>0, <2>1, HoldGood
  <2>3. QED
    BY <2>1, <2>2, QuietTurns
<1>2. CASE HeaderSettles
  <2>1. /\ UNCHANGED <<samples, reqs, kind, phase, poll, paused, shown, age>>
        /\ \E clock : usable' = Release(usable, "chrome", clock)
    BY <1>2 DEF HeaderSettles
  <2>2. usable'.waiting \subseteq {"chrome", "primary"}
    BY <1>0, <2>1, ReleaseGood
  <2>3. QED
    BY <2>1, <2>2, QuietTurns
<1>3. CASE RunCatalog \/ DataChanges \/ UNCHANGED pageVars
  <2>1. /\ UNCHANGED <<usable, samples, reqs, kind, poll, paused, shown, age>>
        /\ phase' = "page" => phase = "page"
    BY <1>3 DEF RunCatalog, DataChanges, pageVars, usableVars
  <2>2. QED
    BY <1>0, <2>1, QuietTurns
<1>4. CASE \E i \in Slots : ServerServes(i)
  <2>1. PICK i \in Slots : ServerServes(i)
    BY <1>4
  <2>2. /\ Serve(i, version)
        /\ UNCHANGED <<usable, samples, kind, phase, poll, paused, shown, age>>
    BY <2>1 DEF ServerServes, usableVars
  <2>3. \A j \in Slots : reqs'[j].state = reqs[j].state /\ reqs'[j].timer = reqs[j].timer
    BY <1>0, <2>2, ServeDoes DEF Beside
  <2>4. QED
    BY <1>0, <2>2, <2>3, QuietTurns
<1>5. QED
  BY <1>1, <1>2, <1>3, <1>4

\* An action takes an error away, and with it the age; its failure says so
\* again.  A page that is seen early has nothing to show yet.
LEMMA AskTurns ==
  ASSUME RoundInv, Act \/ Unlock \/ PostFailed \/ SeenEarly
  PROVE  Turns
<1> USE DEF RoundInv
<1>0. /\ kind.timeout \in Nat /\ kind.interval \in Nat /\ MaxAge \in Nat
      /\ MaxAge = kind.timeout + kind.interval + kind.timeout
  BY KindBounds, MaxAgeIs
<1>1. UNCHANGED <<usable, samples, reqs, kind, phase, poll>>
  BY DEF Act, Unlock, PostFailed, SeenEarly, usableVars
<1>2. \A i \in Slots : age' = age => (Coming(i) => Coming(i)')
  BY <1>1 DEF Coming, Open, MaxAge
<1>3. CASE Act
  <2>1. /\ ~paused /\ paused' = paused /\ shown.state # "nothing" /\ shown'.state = "data"
        /\ age' = IF shown.state = "data" THEN age ELSE 0
    BY <1>3 DEF Act, Seen, PageInv, Backed
  <2>2. Shapes'
    BY <1>1, <2>1 DEF Shapes, Slots
  <2>3. poll # Off => 0 + poll + kind.timeout <= MaxAge
    BY <1>0 DEF Shapes
  <2>4. Rounds'
    BY <1>0, <1>1, <1>2, <2>1, <2>3 DEF Rounds, MaxAge, Slots
  <2>5. QED
    BY <2>2, <2>4 DEF Turns
<1>4. CASE Unlock \/ SeenEarly
  <2>1. /\ UNCHANGED <<shown, age>>
        /\ paused' = paused \/ (phase # "page" /\ shown.state = "nothing")
    BY <1>4 DEF Unlock, SeenEarly, PageInv, Placed
  <2>2. Shapes'
    BY <1>1, <2>1 DEF Shapes, Slots
  <2>3. Rounds'
    BY <1>1, <1>2, <2>1 DEF Rounds, MaxAge, Slots
  <2>4. QED
    BY <2>2, <2>3 DEF Turns
<1>5. CASE PostFailed
  <2>1. /\ paused' = paused
        /\ \/ UNCHANGED <<shown, age>>
           \/ shown.state # "nothing" /\ shown'.state = "error" /\ age' = 0
    BY <1>5 DEF PostFailed, PageInv, Backed
  <2>2. Shapes'
    BY <1>1, <2>1 DEF Shapes, Slots
  <2>3. Rounds'
    BY <1>0, <1>1, <1>2, <2>1 DEF Rounds, MaxAge, Slots
  <2>4. QED
    BY <2>2, <2>3 DEF Turns
<1>6. QED
  BY <1>3, <1>4, <1>5

\* Every step renews what is shown in time.
LEMMA NextTurns ==
  ASSUME RoundInv, [Next]_pageVars
  PROVE  Turns
<1>1. CASE RunPage \/ Poll \/ Pause \/ Resume \/ Refresh \/ PostAnswered
  BY <1>1, ReaderTurns
<1>2. CASE \E i \in Slots : Answered(i) \/ Failed(i) \/ TimedOut(i)
  BY <1>2, EndsTurn
<1>3. CASE Tick
  BY <1>3, TickTurns
<1>4. QED
  BY <1>1, <1>2, <1>3, OthersTurn, AskTurns DEF Next, Scripts

\* The invariant of types and age holds in every state of a page.
THEOREM RoundsGoOn == Spec => []RoundInv
<1>1. PageInit => RoundInv
  BY InitPageInv, InitTurns DEF RoundInv
<1>2. RoundInv /\ [Next]_pageVars => RoundInv'
  BY NextKeeps, NextTurns DEF RoundInv, Keeps, Turns
<1>3. QED
  BY <1>1, <1>2, PTL DEF Spec

\* Every variable has the shape of what it stands for.
THEOREM TypeCorrect == Spec => []TypeOK
<1>1. RoundInv => TypeOK
  BY DEF RoundInv, Shapes, PageInv, Versions, TypeOK
<1>2. QED
  BY <1>1, RoundsGoOn, PTL

\* While a page is polling, rows older than one round of reads are not shown
\* as good: for any interval and timeout, and whatever the server does.
THEOREM NoSilentAge == Spec => []StaleRowsSaySo
<1>1. RoundInv => StaleRowsSaySo
  BY MaxAgeIs DEF RoundInv, Rounds, StaleRowsSaySo
<1>2. QED
  BY <1>1, RoundsGoOn, PTL
-----------------------------------------------------------------------------
(* A pause *)

\* A service page may be hidden at any time, another is paused once it runs;
\* the interval is then off, but for the board's, which runs on and skips its
\* reads.
Quiet ==
  paused => /\ Framed \/ phase = "page"
            /\ kind.guard # "generation" => poll = Off

\* What no step of a paused page does.
AsksNothing ==
  paused /\ paused' =>
    /\ \/ OpenSlots' \subseteq OpenSlots
       \/ phase = "catalog"
       \/ posted # "nothing" /\ posted' = "nothing"
    /\ posted' # "nothing" => posted' = posted

\* What every step has to keep.
Rests == Quiet' /\ AsksNothing

\* The reader and the interval: each of their reads ends a pause or waits for
\* its end.
LEMMA ReaderRests ==
  ASSUME PageInv, Quiet, RunPage \/ Poll \/ Pause \/ SeenEarly \/ Resume \/ Refresh
  PROVE  Rests
<1> USE DEF Quiet, AsksNothing, Rests
<1>1. CASE RunPage
  BY <1>1 DEF RunPage, Framed
<1>2. CASE Poll
  <2>1. /\ poll = 0
        /\ UNCHANGED <<kind, phase, paused, posted>>
        /\ paused /\ kind.guard = "generation" => UNCHANGED reqs
    BY <1>2 DEF Poll
  <2>2. paused => kind.guard = "generation"
    BY <2>1 DEF Off
  <2>3. paused => OpenSlots' \subseteq OpenSlots
    BY <2>1, <2>2 DEF OpenSlots, Open, Slots
  <2>4. QED
    BY <2>1, <2>2, <2>3 DEF Framed
<1>3. CASE Pause
  BY <1>3 DEF Pause, CanPause, Framed
<1>4. CASE SeenEarly \/ Resume
  BY <1>4 DEF SeenEarly, Resume
<1>5. CASE Refresh
  BY <1>5 DEF Refresh, Seen
<1>6. QED
  BY <1>1, <1>2, <1>3, <1>4, <1>5

\* What the reader asks, it asks of a page that is seen; the answer is the one
\* to what was asked.
LEMMA AskRests ==
  ASSUME PageInv, Quiet, Act \/ Unlock \/ PostAnswered \/ PostFailed
  PROVE  Rests
<1>1. UNCHANGED <<kind, phase, poll, paused>>
  BY DEF Act, Unlock, PostAnswered, PostFailed
<1>2. ~paused \/ (posted # "nothing" /\ posted' = "nothing")
  BY DEF Act, Unlock, PostAnswered, PostFailed, Seen
<1>3. QED
  BY <1>1, <1>2 DEF Quiet, AsksNothing, Rests, Framed

\* An answer, a failure or a timeout that arrives in a pause starts nothing.
LEMMA EndsRest ==
  ASSUME PageInv, Quiet, NEW i \in Slots, Answered(i) \/ Failed(i) \/ TimedOut(i)
  PROVE  Rests
<1>1. PICK rows : Outcome(i, rows)
  BY DEF Answered, Failed, TimedOut
<1>2. Beside(i) /\ reqs'[i].state # "open"
  BY EndDoes, ExpireDoes, IdleShows DEF Answered, Failed, TimedOut, PageInv
<1>3. OpenSlots' \subseteq OpenSlots
  BY <1>2 DEF OpenSlots, Open, Beside, Slots
<1>4. UNCHANGED <<kind, phase, paused, posted>>
  BY <1>1 DEF Outcome
<1>5. paused /\ kind.guard # "generation" => poll' = poll
  <2>1. kind.guard \in {"none", "single", "generation"}
    BY KindBounds
  <2>2. CASE Open(i)
    BY <1>1, <2>1, <2>2 DEF Outcome, Settle, Framed
  <2>3. CASE ~Open(i)
    BY <1>1, <2>3 DEF Outcome
  <2>4. QED
    BY <2>2, <2>3
<1>6. QED
  BY <1>3, <1>4, <1>5 DEF Quiet, AsksNothing, Rests, Framed

\* Every step keeps a pause quiet.
LEMMA NextRests ==
  ASSUME PageInv, Quiet, [Next]_pageVars
  PROVE  Rests
<1>1. CASE RunPage \/ Poll \/ Pause \/ SeenEarly \/ Resume \/ Refresh
  BY <1>1, ReaderRests
<1>2. CASE \E i \in Slots : Answered(i) \/ Failed(i) \/ TimedOut(i)
  BY <1>2, EndsRest
<1>3. CASE Act \/ Unlock \/ PostAnswered \/ PostFailed
  BY <1>3, AskRests
<1>4. CASE RunRuntime \/ RunCatalog \/ HeaderSettles \/ DataChanges \/ UNCHANGED pageVars
  <2>1. /\ UNCHANGED <<reqs, kind, poll, paused, posted>>
        /\ phase = "page" => phase' = "page"
    BY <1>4 DEF RunRuntime, RunCatalog, HeaderSettles, DataChanges, pageVars
  <2>2. QED
    BY <2>1 DEF Quiet, AsksNothing, Rests, OpenSlots, Open, Slots, Framed
<1>5. CASE Tick
  <2>1. \A j \in Slots : reqs'[j].state = reqs[j].state
    BY <1>5, TickedDoes DEF Tick, PageInv
  <2>2. OpenSlots' \subseteq OpenSlots
    BY <2>1 DEF OpenSlots, Open, Slots
  <2>3. /\ UNCHANGED <<kind, phase, paused, posted>>
        /\ poll = Off => poll' = Off
    BY <1>5 DEF Tick
  <2>4. QED
    BY <2>2, <2>3 DEF Quiet, AsksNothing, Rests, Framed
<1>6. CASE \E i \in Slots : ServerServes(i)
  <2>1. PICK i \in Slots : ServerServes(i)
    BY <1>6
  <2>2. Beside(i) /\ reqs'[i].state = reqs[i].state
    BY <2>1, ServeDoes DEF ServerServes, PageInv, Versions
  <2>3. OpenSlots' \subseteq OpenSlots
    BY <2>2 DEF OpenSlots, Open, Beside, Slots
  <2>4. QED
    BY <2>1, <2>3 DEF ServerServes, Quiet, AsksNothing, Rests, Framed
<1>7. QED
  BY <1>1, <1>2, <1>3, <1>4, <1>5, <1>6 DEF Next, Scripts

\* While a page is paused, or hidden, nothing new is asked of the server: what
\* still goes out is the first read of a page hidden before its script ran, and
\* the read after the answer to what the reader had asked.  For any kinds of
\* page, and whatever arrives in the meantime.
THEOREM PauseIsQuiet == Spec => PausedAsksNothing
<1>1. PageInit => PageInv /\ Quiet
  BY InitPageInv DEF PageInit, Quiet
<1>2. PageInv /\ Quiet /\ [Next]_pageVars => PageInv' /\ Quiet'
  BY NextKeeps, NextRests DEF Keeps, Rests
<1>3. PageInv /\ Quiet /\ [Next]_pageVars => [AsksNothing]_pageVars
  BY NextRests DEF Rests
<1>4. QED
  BY <1>1, <1>2, <1>3, PTL DEF Spec, PausedAsksNothing, AsksNothing
=============================================================================
