-------------------------- MODULE CriticalSection --------------------------
(***************************************************************************)
(* CriticalSectionGuard in pkg/util/cs.go: a critical section that callers *)
(* enter in the order in which they asked for it.  The handlers of VSRs    *)
(* use it to change state that they share: the cluster state (StateGuard), *)
(* the data of the volumes on a node (LMDGuard) and the reservations of    *)
(* capacity (reservationCS).                                               *)
(*                                                                         *)
(* Every method holds csg.mux, so that an action is what a goroutine does  *)
(* between two releases of it.  cond.Wait releases the mutex: a goroutine  *)
(* sleeps until a broadcast, and only then competes for the mutex.         *)
(***************************************************************************)
EXTENDS Integers, Sequences

CONSTANTS Threads,   \* the goroutines that use the guard
          Ids,       \* the identifiers they give, e.g. those of requests
          IdOf,      \* the identifier that a goroutine gives
          MaxCalls   \* bound: calls of Enter

ASSUME IdsAssumption == IdOf \in [Threads -> Ids]
ASSUME BoundAssumption == MaxCalls \in Nat

VARIABLES
    queue,    \* csg.queue: the identifiers of the holder and of those waiting
    closed,   \* csg.closed
    used,     \* csg.Used
    pc,       \* where a goroutine is: it holds the ticket if "in"
    drain,    \* where the goroutine that calls Drain is
    ticket,   \* history: the number of the last call of a goroutine
    calls

vars == <<queue, closed, used, pc, drain, ticket, calls>>

Init ==
    /\ queue = <<>>
    /\ closed = FALSE
    /\ used = 0
    /\ pc = [t \in Threads |-> "out"]
    /\ drain = "none"
    /\ ticket = [t \in Threads |-> 0]
    /\ calls = 0

Queued(id) == \E i \in 1 .. Len(queue) : queue[i] = id

(* A call of Enter is refused with an error ...                            *)
Refused(t) ==
    /\ Queued(IdOf[t]) \/ closed
    /\ UNCHANGED <<queue, pc, ticket>>

(* ... or queued, and has to wait or not.                                  *)
Admitted(t, q, enters) ==
    /\ ~Queued(IdOf[t]) /\ ~closed
    /\ queue' = q
    /\ pc' = [pc EXCEPT ![t] = IF enters THEN "in" ELSE "asleep"]
    /\ ticket' = [ticket EXCEPT ![t] = calls + 1]

Call(t) ==
    /\ pc[t] = "out" /\ calls < MaxCalls
    /\ calls' = calls + 1
    /\ UNCHANGED <<closed, used, drain>>

(* Mutants: a caller is queued before all those who wait; a caller enters  *)
(* if there is one other in the queue.                                     *)
Enter_Barges(t) ==
    /\ Call(t)
    /\ \/ Refused(t)
       \/ Admitted(t, IF queue = <<>> THEN <<IdOf[t]>>
                       ELSE <<queue[1], IdOf[t]>> \o Tail(queue),
                    queue = <<>>)

Enter_OffByOne(t) ==
    /\ Call(t)
    /\ Refused(t) \/ Admitted(t, Append(queue, IdOf[t]), Len(queue) < 2)

(* Enter, up to its return or to cond.Wait                                 *)
Enter(t) ==
    /\ Call(t)
    /\ Refused(t) \/ Admitted(t, Append(queue, IdOf[t]), queue = <<>>)

(* A goroutine that was woken up gets the mutex and looks again.           *)
Wake(t) ==
    /\ pc[t] = "awake"
    /\ pc' = [pc EXCEPT ![t] = IF closed THEN "out"
                               ELSE IF queue[1] = IdOf[t] THEN "in"
                               ELSE "asleep"]
    /\ UNCHANGED <<queue, closed, used, drain, ticket, calls>>

(* Mutant: cond.Signal, which wakes up one goroutine.                      *)
Awakened_One(t) ==
    LET sleepers == {u \in Threads : pc[u] = "asleep"} IN
    [u \in Threads |-> IF u = t THEN "out"
                       ELSE IF u \in sleepers /\ u = CHOOSE v \in sleepers : TRUE
                       THEN "awake" ELSE pc[u]]

(* cond.Broadcast, when goroutine t is done with what it does              *)
Awakened(t) ==
    [u \in Threads |-> IF u = t THEN "out"
                       ELSE IF pc[u] = "asleep" THEN "awake" ELSE pc[u]]

(* Leave: the ticket is invalid afterwards in any case.                    *)
Leave(t) ==
    LET first == queue # <<>> /\ queue[1] = IdOf[t] IN
    /\ pc[t] = "in"
    /\ queue' = IF first THEN Tail(queue) ELSE queue
    /\ used' = IF first THEN used + 1 ELSE used
    /\ pc' = IF first THEN Awakened(t) ELSE [pc EXCEPT ![t] = "out"]
    /\ drain' = IF first /\ drain = "asleep" THEN "awake" ELSE drain
    /\ UNCHANGED <<closed, ticket, calls>>

(* Drain closes the guard, drops all but the first of the queue ...        *)
Drain ==
    /\ drain = "none"
    /\ closed' = TRUE
    /\ queue' = IF Len(queue) > 1 THEN <<queue[1]>> ELSE queue
    /\ pc' = [u \in Threads |-> IF pc[u] = "asleep" THEN "awake" ELSE pc[u]]
    /\ drain' = IF queue = <<>> THEN "done" ELSE "asleep"
    /\ UNCHANGED <<used, ticket, calls>>

(* ... and waits until the queue is empty.                                 *)
DrainWakes ==
    /\ drain = "awake"
    /\ drain' = IF queue = <<>> THEN "done" ELSE "asleep"
    /\ UNCHANGED <<queue, closed, used, pc, ticket, calls>>

(* All calls of Enter are made and have returned.                          *)
Finished ==
    /\ calls = MaxCalls /\ \A t \in Threads : pc[t] = "out"
    /\ drain \in {"asleep", "done"}
    /\ UNCHANGED vars

Next ==
    \/ \E t \in Threads : Enter(t) \/ Wake(t) \/ Leave(t)
    \/ Drain \/ DrainWakes \/ Finished

Spec == Init /\ [][Next]_vars

(* Goroutines get the mutex eventually, and leave the critical section.    *)
FairSpec ==
    /\ Spec
    /\ \A t \in Threads : WF_vars(Wake(t)) /\ WF_vars(Leave(t))
    /\ WF_vars(DrainWakes)

-----------------------------------------------------------------------------
(* Properties *)

Waiting(t) == pc[t] \in {"asleep", "awake"}

(* Types: Used only counts goroutines that have left.                      *)
TypeOK ==
    /\ queue \in Seq(Ids)
    /\ closed \in BOOLEAN
    /\ used \in Nat
    /\ pc \in [Threads -> {"out", "asleep", "awake", "in"}]
    /\ drain \in {"none", "asleep", "awake", "done"}
    /\ ticket \in [Threads -> Nat]
    /\ calls \in Nat

(* At most one goroutine is in the critical section, also when some of     *)
(* them use the same identifier and while the guard is being drained.      *)
MutualExclusion ==
    \A t, u \in Threads : pc[t] = "in" /\ pc[u] = "in" => t = u

(* Access is fair ("supports fair access to a critical section"): who is   *)
(* in it has called Enter before everybody who is still waiting.           *)
FirstComeFirstServed ==
    \A t, u \in Threads :
        pc[t] = "in" /\ Waiting(u) => ticket[t] < ticket[u]

=============================================================================
