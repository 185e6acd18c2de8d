---------------------------- MODULE FirstUsable ----------------------------
(* When a page says it can be used                                         *)
(* (globalization/kernel/yuruna.first-usable.js).  Renderers mark what     *)
(* they show, loaders hold the marker back while they work, and the first  *)
(* moment with a mark and no hold is published, once.  The milliseconds    *)
(* are left out; clock says where they were read.                          *)
EXTENDS PageContext, Naturals, Sequences

CONSTANTS
  Now,         \* performance.now(): "number", "unusable" or "absent"
  Measuring,   \* window.YurunaMeasureRenders
  MaxSamples   \* renders kept; 1000 in the code

ASSUME SamplesAssumption == MaxSamples \in Nat

VARIABLES
  usable,      \* what the closure keeps: [waiting, pending, finished, marker]
  samples      \* YurunaRenderMeasurements.samples

usableVars == <<usable, samples>>

NoMark == [page |-> "", state |-> "pending"]

Unready ==
  [ready |-> FALSE, page |-> "", state |-> "pending", locale |-> "",
   language |-> "", dir |-> "", clock |-> "unavailable"]

FirstUsableInit ==
  /\ usable = [waiting |-> {}, pending |-> NoMark, finished |-> FALSE, marker |-> Unready]
  /\ samples = <<>>

\* Where the milliseconds may come from: the wall clock answers only when it
\* has not gone behind the start of the navigation.
Clocks ==
  CASE Now = "number"   -> {"performance.now"}
    [] Now = "unusable" -> {"navigationStart", "unavailable"}
    [] OTHER            -> {"unavailable"}

\* Mutant: a hold holds nothing back.
PublishUnheld(u, clock) ==
  IF u.finished \/ u.pending = NoMark
  THEN u
  ELSE [u EXCEPT
          !.finished = TRUE,
          !.marker = [ready |-> TRUE, page |-> u.pending.page, state |-> u.pending.state,
                      locale |-> current, language |-> element.lang,
                      dir |-> element.dir, clock |-> clock]]

\* publish(): nothing until there is a mark, no hold, and a page that says
\* its language and direction; nothing ever again after that.
Publish(u, clock) ==
  IF \/ u.finished
     \/ u.pending = NoMark
     \/ u.waiting # {}
     \/ element.lang = ""
     \/ element.dir \notin {"ltr", "rtl"}
  THEN u
  ELSE [u EXCEPT
          !.finished = TRUE,
          !.marker = [ready |-> TRUE, page |-> u.pending.page, state |-> u.pending.state,
                      locale |-> current, language |-> element.lang,
                      dir |-> element.dir, clock |-> clock]]

Hold(u, name) == IF u.finished THEN u ELSE [u EXCEPT !.waiting = @ \cup {name}]


Release(u, name, clock) == Publish([u EXCEPT !.waiting = @ \ {name}], clock)

\* Mutant: the last mark counts.
MarkAgain(u, page, state, clock) ==
  Publish([u EXCEPT !.pending = [page |-> page, state |-> state]], clock)

\* mark(): the first valid mark counts.
Mark(u, page, state, clock) ==
  IF u.finished \/ u.pending # NoMark \/ page = "" \/ state \notin {"data", "empty", "error", "static"}
  THEN u
  ELSE Publish([u EXCEPT !.pending = [page |-> page, state |-> state]], clock)

\* Mutant: the queue is one too long.
MeasureOneMore(queue, page, state) ==
  LET longer == Append(queue, [locale |-> current, page |-> page, state |-> state])
  IN  IF Len(queue) > MaxSamples THEN Tail(longer) ELSE longer

\* measure(): a finished render leaves a sample, in a queue that forgets its
\* oldest.
Measure(queue, page, state) ==
  LET longer == Append(queue, [locale |-> current, page |-> page, state |-> state])
  IN  IF ~Measuring \/ Now # "number" THEN queue
      ELSE IF Len(longer) > MaxSamples THEN Tail(longer) ELSE longer
=============================================================================
