------------------------------ MODULE Requests ------------------------------
(* A bounded request (yurunaRequest() of globalization/kernel/             *)
(* yuruna.rawpage.js; Y.api() of the service pages settles in the same     *)
(* way): a timer, a transport that may answer late or never, and a promise *)
(* that the first of the two settles.                                      *)
EXTENDS Integers

CONSTANTS MaxOpen  \* bound: requests alive at once

VARIABLES reqs     \* the requests alive, each in a slot

\* transport: "sent", then "served" once the server has read its rows; a
\* slot is done when the promise has settled, and free when the transport
\* has ended too.
Idle ==
  [state |-> "idle", timer |-> 0, transport |-> "over", rows |-> 0,
   byHand |-> FALSE]

Slots == 1 .. MaxOpen

RequestsInit == reqs = [i \in Slots |-> Idle]

Open(i) == reqs[i].state = "open"
UsedSlots == {i \in Slots : reqs[i] # Idle}
OpenSlots == {i \in Slots : Open(i)}

Due(i) == Open(i) /\ reqs[i].timer = 0

\* A request starts, in the first free slot: the timer runs and the fetch is
\* on its way.
Send(ms, byHand) ==
  \E i \in Slots :
    /\ reqs[i] = Idle
    /\ \A j \in 1 .. i - 1 : reqs[j] # Idle
    /\ reqs' = [reqs EXCEPT ![i] = [state |-> "open", timer |-> ms, transport |-> "sent",
                                      rows |-> 0, byHand |-> byHand]]

\* The server reads what it answers with.
Serve(i, version) ==
  /\ Open(i)
  /\ reqs[i].transport = "sent"
  /\ reqs' = [reqs EXCEPT ![i] = [@ EXCEPT !.transport = "served", !.rows = version]]

\* Mutant: the promise waits for the transport to report the abort.
ExpireWithTransport(i) ==
  /\ Due(i)
  /\ reqs[i].transport = "over"
  /\ reqs' = [reqs EXCEPT ![i] = Idle]

\* The timer: abort, and settle without waiting for the transport.
Expire(i) ==
  /\ Due(i)
  /\ reqs' = [reqs EXCEPT ![i] = [Idle EXCEPT !.state = "done", !.transport = "sent"]]

\* The fetch resolves or rejects; whether the promise still listens is the
\* caller's question.
End(i, transports) ==
  /\ reqs[i].transport \in transports
  /\ reqs' = [reqs EXCEPT ![i] = Idle]

Ticked == [i \in Slots |-> IF Open(i) THEN [reqs[i] EXCEPT !.timer = @ - 1] ELSE reqs[i]]
=============================================================================
