------------------------------- MODULE Pages -------------------------------
(* A page at work: its scripts run in order, the kernel seals its          *)
(* language, its reads go out on a timer and by hand, and what they bring  *)
(* is rendered, measured and marked.  Three kinds of page share the        *)
(* kernel's pieces and differ in how they keep overlapping reads apart:    *)
(*   none        the landing page of the caching proxy and of its parser   *)
(*   single      the images page of the download agent                     *)
(*   generation  the board of the pool control service                     *)
EXTENDS FirstUsable, Requests, FiniteSets

CONSTANTS
  Kinds,       \* [page, guard, interval, timeout, slots], times in ticks; slots
               \*   bounds the requests alive
  PageLangs,   \* what the server may write into <html lang>
  MaxVersion   \* bound: versions of the data on the server

Off == 1000    \* no interval runs

ASSUME KindsAssumption ==
  \A k \in Kinds :
    /\ k.guard \in {"none", "single", "generation"}
    /\ k.interval \in 1 .. Off - 1
    /\ k.timeout \in Nat

VARIABLES
  kind,        \* the page
  phase,       \* the script that ran last: none, runtime, catalog, page
  catalog,     \* the table of the page's locale is registered
  header,      \* the page's frame is complete
  poll,        \* ticks to the next interval, or Off
  paused,      \* paused by its button, or hidden (the service pages)
  resumed,     \* a read has gone out by hand where nothing keeps reads apart
  posted,      \* what the reader has asked of the server: nothing, action, unlock
  version,     \* the data on the server
  shown,       \* [rows, state, voice]; rows 0 are none
  age,         \* ticks since the shown rows were read, polling resumed, or an
               \*   action took the error away
  superseded   \* the reads of an older generation than the last

pageVars == <<contextVars, usableVars, reqs, kind, phase, catalog, header, poll,
              paused, resumed, posted, version, shown, age, superseded>>

Framed == kind.guard # "none"  \* the service pages have a header and a footer

\* The longest a page may show rows as good: the time they may take to
\* arrive, the interval that sends the next read, the time that one may take.
MaxAge == kind.timeout + kind.interval + kind.timeout

PageInit ==
  /\ kind \in Kinds
  /\ ContextInit(ElementsOf(PageLangs, {""}, {"http"}))
  /\ FirstUsableInit
  /\ RequestsInit
  /\ phase = "none"
  /\ catalog = FALSE
  /\ header = FALSE
  /\ poll = Off
  /\ paused = FALSE
  /\ resumed = FALSE
  /\ posted = "nothing"
  /\ version = 1
  /\ shown = [rows |-> 0, state |-> "nothing", voice |-> ""]
  /\ age = 0
  /\ superseded = {}

-----------------------------------------------------------------------------
(* Reads *)

Busy == OpenSlots # {}

\* Mutant: a read under way is no reason to wait.
LoadAlways(u, byHand) ==
  /\ Cardinality(UsedSlots) < kind.slots
  /\ Send(kind.timeout, byHand)
  /\ superseded' = {}
  /\ usable' = IF Framed THEN Hold(u, "primary") ELSE u

\* load() and refresh(): single-flight pages answer a second call with the
\* read that is under way; the framed ones hold the marker while they read.
Load(u, byHand) ==
  IF kind.guard = "single" /\ Busy
  THEN usable' = u /\ UNCHANGED <<reqs, superseded>>
  ELSE /\ Cardinality(UsedSlots) < kind.slots
       /\ Send(kind.timeout, byHand)
       /\ superseded' = IF kind.guard = "generation" THEN OpenSlots ELSE {}
       /\ usable' = IF Framed THEN Hold(u, "primary") ELSE u

Voice == IF catalog THEN current ELSE DEFAULT_TAG

\* The then() of a read that answered, and the catch() of one that did not,
\* each with the finish() after it.
Settle(i, rows, clock) ==
  LET ignored == i \in superseded
      state   == IF rows > 0 THEN "data" ELSE "error"
      marked  == IF ignored THEN usable ELSE Mark(usable, kind.page, state, clock)
      first   == Framed /\ poll = Off /\ ~(kind.guard = "single" /\ paused)
  IN  /\ usable' = IF Framed THEN Release(marked, "primary", clock) ELSE marked
      /\ samples' = IF ignored \/ rows = 0 THEN samples
                    ELSE Measure(samples, kind.page, state)
      /\ shown' = IF ignored THEN shown
                  ELSE [rows |-> IF rows > 0 THEN rows ELSE shown.rows,
                        state |-> state, voice |-> Voice]
      /\ age' = IF rows = 0 \/ kind.guard = "generation" THEN 0
                ELSE kind.timeout - reqs[i].timer
      /\ poll' = IF first THEN kind.interval ELSE poll
      /\ superseded' = superseded \ {i}

\* The outcome of a request; after the timer its promise does not listen.
Outcome(i, rows) ==
  /\ IF Open(i)
     THEN \E clock \in Clocks : Settle(i, rows, clock)
     ELSE UNCHANGED <<usableVars, shown, age, poll, superseded>>
  /\ UNCHANGED <<contextVars, kind, phase, catalog, header, paused, resumed,
                 posted, version>>

Answered(i) == End(i, {"served"}) /\ Outcome(i, reqs[i].rows)
Failed(i)   == End(i, {"sent", "served"}) /\ Outcome(i, 0)

\* Mutant: the timer aborts and tells nobody.
TimedOutSilently(i) ==
  /\ Expire(i)
  /\ UNCHANGED <<contextVars, usableVars, kind, phase, catalog, header, poll,
                 paused, resumed, posted, version, shown, age, superseded>>

TimedOut(i) == Expire(i) /\ Outcome(i, 0)

-----------------------------------------------------------------------------
(* The scripts of the page, in their order *)

\* The runtime: seal the language, hold the marker for the page's frame.  The
\* pages without a runtime carry the kernel and the table in one script.
RunRuntime ==
  /\ phase = "none"
  /\ InitPage([requested |-> "", source |-> ""])
  /\ phase' = IF Framed THEN "runtime" ELSE "catalog"
  /\ catalog' = ~Framed
  /\ header' = ~Framed
  /\ usable' = IF Framed THEN Hold(usable, "chrome") ELSE usable
  /\ UNCHANGED <<samples, reqs, kind, poll, paused, resumed, posted, version,
                 shown, age, superseded>>

\* The separate catalog script runs, or does not load.
RunCatalog ==
  /\ phase = "runtime"
  /\ phase' = "catalog"
  /\ catalog' \in BOOLEAN
  /\ UNCHANGED <<contextVars, usableVars, reqs, kind, header, poll, paused,
                 resumed, posted, version, shown, age, superseded>>

RunPage ==
  /\ phase = "catalog"
  /\ phase' = "page"
  /\ Load(usable, FALSE)
  /\ poll' = IF Framed THEN Off ELSE kind.interval
  /\ UNCHANGED <<contextVars, samples, kind, catalog, header, paused, resumed,
                 posted, version, shown, age>>

\* The header's own read settles either way and ends the hold on the frame.
HeaderSettles ==
  /\ phase = "page"
  /\ ~header
  /\ header' = TRUE
  /\ \E clock \in Clocks : usable' = Release(usable, "chrome", clock)
  /\ UNCHANGED <<contextVars, samples, reqs, kind, phase, catalog, poll, paused,
                 resumed, posted, version, shown, age, superseded>>

-----------------------------------------------------------------------------
(* The timer and the reader *)

\* The board lets its interval run while it is hidden and skips the read.
Poll ==
  /\ poll = 0
  /\ poll' = kind.interval
  /\ IF paused /\ kind.guard = "generation"
     THEN UNCHANGED <<usable, reqs, superseded>>
     ELSE Load(usable, FALSE)
  /\ UNCHANGED <<contextVars, samples, kind, phase, catalog, header, paused,
                 resumed, posted, version, shown, age>>

\* A page may be hidden from the start; the button is the page script's.
CanPause == ~paused /\ (Framed \/ phase = "page")

\* Mutant: the interval keeps running.
PauseInName ==
  /\ CanPause
  /\ paused' = TRUE
  /\ UNCHANGED <<contextVars, usableVars, reqs, kind, phase, catalog, header,
                 poll, resumed, posted, version, shown, age, superseded>>

Pause ==
  /\ CanPause
  /\ paused' = TRUE
  /\ poll' = IF kind.guard = "generation" THEN poll ELSE Off
  /\ UNCHANGED <<contextVars, usableVars, reqs, kind, phase, catalog, header,
                 resumed, posted, version, shown, age, superseded>>

\* Bound: one read by hand at a time; on a service page none beside another,
\* and after the interval that is due.
FreeHand ==
  IF Framed THEN ~Busy /\ poll # 0 ELSE \A i \in OpenSlots : ~reqs[i].byHand

\* Before its script runs, a page does not notice that it is seen.
SeenEarly ==
  /\ paused
  /\ phase # "page"
  /\ paused' = FALSE
  /\ UNCHANGED <<contextVars, usableVars, reqs, kind, phase, catalog, header, poll,
                 resumed, posted, version, shown, age, superseded>>

Resume ==
  /\ paused
  /\ phase = "page"
  /\ FreeHand
  /\ paused' = FALSE
  /\ resumed' = ~Framed
  /\ age' = 0
  /\ poll' = IF kind.guard = "generation" THEN poll ELSE kind.interval
  /\ Load(usable, TRUE)
  /\ UNCHANGED <<contextVars, samples, kind, phase, catalog, header, posted,
                 version, shown>>

Seen == phase = "page" /\ ~paused

\* The refresh control of the images page, a period of the board, and the
\* countdown of both, which a hidden page halts.
Refresh ==
  /\ Seen
  /\ Framed
  /\ FreeHand
  /\ Load(usable, TRUE)
  /\ UNCHANGED <<contextVars, samples, kind, phase, catalog, header, poll, paused,
                 resumed, posted, version, shown, age>>

-----------------------------------------------------------------------------
(* What the reader asks of the server on the images page: a row's action, or *)
(* to unlock the actions.  The answer may take any time, also into a pause.  *)
(* Bound: one at a time.                                                     *)

\* act(): the notice goes before the request does.
Act ==
  /\ Seen
  /\ kind.guard = "single"
  /\ posted = "nothing"
  /\ shown.rows > 0
  /\ posted' = "action"
  /\ shown' = [rows |-> shown.rows, state |-> "data", voice |-> shown.voice]
  /\ age' = IF shown.state = "data" THEN age ELSE 0
  /\ UNCHANGED <<contextVars, usableVars, reqs, kind, phase, catalog, header, poll,
                 paused, resumed, version, superseded>>

Unlock ==
  /\ Seen
  /\ kind.guard = "single"
  /\ posted = "nothing"
  /\ posted' = "unlock"
  /\ UNCHANGED <<contextVars, usableVars, reqs, kind, phase, catalog, header, poll,
                 paused, resumed, version, shown, age, superseded>>

\* The page reads again on the answer, seen or not (after it unlocked, once it
\* has asked for its rights).
PostAnswered ==
  /\ posted # "nothing"
  /\ posted' = "nothing"
  /\ Load(usable, TRUE)
  /\ UNCHANGED <<contextVars, samples, kind, phase, catalog, header, poll, paused,
                 resumed, version, shown, age>>

\* An action that fails says so where the reads do, the form beside itself.
PostFailed ==
  /\ posted # "nothing"
  /\ posted' = "nothing"
  /\ IF posted = "action"
     THEN /\ shown' = [rows |-> shown.rows, state |-> "error", voice |-> Voice]
          /\ age' = 0
     ELSE UNCHANGED <<shown, age>>
  /\ UNCHANGED <<contextVars, usableVars, reqs, kind, phase, catalog, header, poll,
                 paused, resumed, version, superseded>>

-----------------------------------------------------------------------------
(* The server and the clock *)

ServerServes(i) ==
  /\ Serve(i, version)
  /\ UNCHANGED <<contextVars, usableVars, kind, phase, catalog, header, poll,
                 paused, resumed, posted, version, shown, age, superseded>>

DataChanges ==
  /\ version < MaxVersion
  /\ version' = version + 1
  /\ UNCHANGED <<contextVars, usableVars, reqs, kind, phase, catalog, header,
                 poll, paused, resumed, posted, shown, age, superseded>>

\* Bound: where no property looks at it, the age stands still.
Aging == ~paused /\ kind.guard # "generation" /\ age <= MaxAge

\* Timers fire when they are due, in any order.
Tick ==
  /\ phase = "page"
  /\ poll # 0
  /\ \A i \in Slots : ~Due(i)
  /\ poll' = IF poll = Off THEN Off ELSE poll - 1
  /\ reqs' = Ticked
  /\ age' = IF shown.state = "data" /\ Aging THEN age + 1 ELSE age
  /\ UNCHANGED <<contextVars, usableVars, kind, phase, catalog, header, paused,
                 resumed, posted, version, shown, superseded>>

Scripts == RunRuntime \/ RunCatalog \/ RunPage \/ HeaderSettles

Next ==
  \/ Scripts
  \/ Poll \/ Pause \/ SeenEarly \/ Resume \/ Refresh
  \/ Act \/ Unlock \/ PostAnswered \/ PostFailed
  \/ DataChanges \/ Tick
  \/ \E i \in Slots : Answered(i) \/ Failed(i) \/ TimedOut(i) \/ ServerServes(i)

Spec == PageInit /\ [][Next]_pageVars

\* The browser runs the scripts it has, its clock goes on, due timers fire,
\* and an aborted fetch ends.  Nothing says that a server ever answers.
Fairness ==
  /\ WF_pageVars(Scripts)
  /\ WF_pageVars(Tick)
  /\ WF_pageVars(Poll)
  /\ \A i \in Slots :
       /\ WF_pageVars(TimedOut(i))
       /\ WF_pageVars(~Open(i) /\ Failed(i))

FairSpec == Spec /\ Fairness

-----------------------------------------------------------------------------
TypeOK ==
  /\ usable.waiting \subseteq {"chrome", "primary"}
  /\ Len(samples) <= MaxSamples
  /\ \A i \in Slots : reqs[i].timer \in 0 .. kind.timeout /\ reqs[i].rows <= version
  /\ poll \in 0 .. kind.interval \cup {Off}
  /\ shown.rows <= version
  /\ shown.state \in {"nothing", "data", "error"}

\* A page that says it is ready shows rows or says that it could not read
\* them, has its frame, speaks the sealed language (the default one only if
\* its table did not load) and names that language and its direction: no
\* timer and no parsed document makes it ready.
ReadyShowsContent ==
  usable.marker.ready =>
    /\ header
    /\ shown.state # "nothing"
    /\ usable.marker.state = "data" => shown.rows > 0
    /\ shown.voice = IF catalog THEN pageContext.resolvedTag ELSE DEFAULT_TAG
    /\ usable.marker.locale = current
    /\ usable.marker.dir = pageContext.direction
    /\ Resolve(usable.marker.language) = usable.marker.locale

\* The first published moment stands: later reads, holds and releases do not
\* move it.
FirstMomentStands == [][usable.marker.ready => UNCHANGED usable]_pageVars

\* Rows never give way to older ones where reads are kept apart: by a guard,
\* or because a read ends before the next interval and none goes out by hand.
RowsNeverGoBack ==
  [][\/ kind.guard = "none" /\ (resumed \/ kind.timeout >= kind.interval)
     \/ shown'.rows >= shown.rows]_pageVars

\* While a page is polling, rows older than one round of reads are not shown
\* as good: the page says that its refresh failed.  (Aging leaves the board
\* out: there a read may be superseded before it ends.)
StaleRowsSaySo ==
  shown.state = "data" => age <= MaxAge

\* While a page is paused, or hidden, nothing new is asked of the server: no
\* interval, no control and no read that ends sends another.  What still goes
\* out is what was under way when the pause began: the first read of a page
\* that was hidden before its script ran, and the read that follows the answer
\* to what the reader had asked.
PausedAsksNothing ==
  [][paused /\ paused' =>
       /\ \/ OpenSlots' \subseteq OpenSlots
          \/ phase = "catalog"
          \/ posted # "nothing" /\ posted' = "nothing"
       /\ posted' # "nothing" => posted' = posted]_pageVars

\* A paused page asks for nothing, and what was under way comes to an end.
PauseHolds ==
  /\ PausedAsksNothing
  /\ paused ~> ~paused \/ ~Busy

\* Every read settles, also when the transport never answers.
ReadsSettle == \A i \in Slots : Open(i) ~> ~Open(i)

=============================================================================
