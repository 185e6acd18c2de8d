--------------------------- MODULE MirrorAnswers ---------------------------
(***************************************************************************)
(* What the Git mirror's scheduler promises the hosts that ask it, without *)
(* locks, slots, queues or maintenance: MirrorJobs implements it.          *)
(*                                                                         *)
(* Requests are grouped into operations. An operation ends with an answer  *)
(* or fails. Of a published repository the answer is the upstream at some  *)
(* time after every request of the group was made, and later answers are   *)
(* never older than earlier ones. A repository has at most two operations  *)
(* under way, and one while it is first populated; the whole mirror has at *)
(* most Limit.                                                             *)
(***************************************************************************)
EXTENDS Integers, FiniteSets

CONSTANTS
    Repos,        \* the registered repositories
    Ops,          \* identifiers of operations
    None,         \* no repository
    Limit,        \* operations that may be under way at once
    MaxUpstream   \* bound: [Repos -> how often its upstream changes]

VARIABLES
    upstream,     \* [Repos -> version of the upstream repository]
    published,    \* [Repos -> BOOLEAN]: the mirror has a copy
    served,       \* [Repos -> version of the last answer]
    op            \* [Ops -> what is known of the operation]

vars == <<upstream, published, served, op>>

(* at: "none", "open", "answered" or "failed"; asked: the upstream version *)
(* at its last request; seen: the version it answers, once it has.         *)
Unused == [at |-> "none", repo |-> None, population |-> FALSE, asked |-> 0,
           seen |-> 0]

OpenOps   == {i \in Ops : op[i].at = "open"}
OpenOf(r) == {i \in OpenOps : op[i].repo = r}

Init ==
    /\ upstream = [r \in Repos |-> 0]
    /\ published \in [Repos -> BOOLEAN]
    /\ served = [r \in Repos |-> 0]
    /\ op = [i \in Ops |-> Unused]

Push(r) ==
    /\ upstream[r] < MaxUpstream[r]
    /\ upstream' = [upstream EXCEPT ![r] = @ + 1]
    /\ UNCHANGED <<published, served, op>>

(* A request gets an operation of its own.                                 *)
Ask(r, i) ==
    /\ op[i] = Unused
    /\ Cardinality(OpenOps) < Limit
    /\ \A k, l \in OpenOf(r) : k = l
    /\ published[r] \/ OpenOf(r) = {}
    /\ op' = [op EXCEPT ![i] = [at |-> "open", repo |-> r,
                                population |-> ~published[r],
                                asked |-> upstream[r], seen |-> 0]]
    /\ UNCHANGED <<upstream, published, served>>

(* A request shares one that is under way.                                 *)
Join(i) ==
    /\ op[i].at = "open"
    /\ op' = [op EXCEPT ![i].asked = upstream[op[i].repo]]
    /\ UNCHANGED <<upstream, published, served>>

Answer(i) ==
    LET r == op[i].repo IN
    /\ op[i].at = "open"
    /\ \E v \in served[r] .. upstream[r] :
          /\ op[i].population \/ op[i].asked <= v
          /\ op' = [op EXCEPT ![i].at = "answered", ![i].seen = v]
          /\ served' = [served EXCEPT ![r] = v]
    /\ published' = [published EXCEPT ![r] = TRUE]
    /\ UNCHANGED upstream

(* A failed operation may be forgotten at once, when its time is up.       *)
Fail(i) ==
    /\ op[i].at = "open"
    /\ \/ op' = [op EXCEPT ![i].at = "failed"]
       \/ op' = [op EXCEPT ![i] = Unused]
    /\ UNCHANGED <<upstream, published, served>>

Drop(i) ==
    /\ op[i].at \in {"answered", "failed"}
    /\ op' = [op EXCEPT ![i] = Unused]
    /\ UNCHANGED <<upstream, published, served>>

Next ==
    \/ \E r \in Repos : Push(r) \/ \E i \in Ops : Ask(r, i)
    \/ \E i \in Ops : Join(i) \/ Answer(i) \/ Fail(i) \/ Drop(i)

Spec == Init /\ [][Next]_vars
=============================================================================
