----------------------- MODULE CriticalSectionProofs -----------------------
(***************************************************************************)
(* Proofs about CriticalSection, for any goroutines and identifiers.       *)
(***************************************************************************)
EXTENDS CriticalSection, TLAPS

Active(t) == pc[t] # "out"

(* Who is in the critical section is the first of the queue.               *)
HoldersFirst ==
    \A t \in Threads : pc[t] = "in" => queue # <<>> /\ queue[1] = IdOf[t]

(* Until the guard is closed, everybody who waits is in the queue.         *)
ActiveQueued == ~closed => \A t \in Threads : Active(t) => Queued(IdOf[t])

(* Identifiers tell active goroutines apart, and are queued once.          *)
IdsDistinct ==
    \A t, u \in Threads : Active(t) /\ Active(u) /\ IdOf[t] = IdOf[u] => t = u
QueuedOnce ==
    \A i, j \in 1 .. Len(queue) : queue[i] = queue[j] => i = j

(* The queue is in the order of the calls, and calls are numbered upwards. *)
QueueOrdered ==
    ~closed =>
        \A t, u \in Threads : \A i, j \in 1 .. Len(queue) :
            /\ Active(t) /\ Active(u) /\ i < j
            /\ queue[i] = IdOf[t] /\ queue[j] = IdOf[u]
            => ticket[t] < ticket[u]
TicketsIssued == \A t \in Threads : ticket[t] <= calls

Queueing ==
    /\ HoldersFirst /\ ActiveQueued /\ IdsDistinct /\ QueuedOnce
    /\ QueueOrdered /\ TicketsIssued /\ FirstComeFirstServed

IInv == TypeOK /\ Queueing

(* Two goroutines that are in the critical section have the identifier at  *)
(* the head of the queue, hence are the same.                              *)
LEMMA HeadIsUnique ==
    ASSUME HoldersFirst, IdsDistinct
    PROVE  MutualExclusion
BY DEF HoldersFirst, IdsDistinct, MutualExclusion, Active

(* In an open guard the goroutine whose identifier is at the head of the   *)
(* queue has called before all the others that are active.                 *)
LEMMA HeadIsOldest ==
    ASSUME TypeOK, ActiveQueued, IdsDistinct, QueueOrdered, ~closed,
           NEW t \in Threads, NEW u \in Threads, t # u,
           Active(t), Active(u), queue # <<>>, queue[1] = IdOf[t]
    PROVE  ticket[t] < ticket[u]
<1>1. PICK j \in 1 .. Len(queue) : queue[j] = IdOf[u]
  BY DEF ActiveQueued, Queued
<1>2. 1 \in 1 .. Len(queue)
  BY DEF TypeOK
<1>3. IdOf[t] # IdOf[u]
  BY DEF IdsDistinct
<1>4. 1 < j
  BY <1>1, <1>2, <1>3
<1> QED BY <1>1, <1>2, <1>4 DEF QueueOrdered

(* Init: nobody is queued.                                                 *)
LEMMA InitIInv == Init => IInv
<1> SUFFICES ASSUME Init PROVE IInv
  OBVIOUS
<1>1. TypeOK
  <2>1. used \in Nat /\ calls \in Nat /\ queue \in Seq(Ids)
    BY DEF Init
  <2>2. ticket \in [Threads -> Nat]
    BY DEF Init
  <2> QED BY <2>1, <2>2 DEF Init, TypeOK
<1>2. Len(queue) = 0 /\ \A t \in Threads : pc[t] = "out" /\ ticket[t] = 0
  BY DEF Init
<1>3. \A i \in 1 .. Len(queue) : FALSE
  BY <1>2
<1>4. HoldersFirst /\ ActiveQueued /\ IdsDistinct /\ FirstComeFirstServed
  BY <1>2 DEF HoldersFirst, ActiveQueued, IdsDistinct, FirstComeFirstServed,
              Active
<1>5. QueuedOnce /\ QueueOrdered
  BY <1>3 DEF QueuedOnce, QueueOrdered
<1>6. TicketsIssued
  <2>1. calls = 0 /\ 0 <= 0
    BY DEF Init
  <2> QED BY <2>1, <1>2 DEF TicketsIssued
<1> QED BY <1>1, <1>4, <1>5, <1>6 DEF IInv, Queueing

(* Every step of every goroutine keeps the types.                          *)
LEMMA TypeStep ==
    ASSUME TypeOK, [Next]_vars
    PROVE  TypeOK'
<1> USE IdsAssumption, BoundAssumption DEF TypeOK
<1>1. ASSUME NEW t \in Threads, Call(t), Refused(t) PROVE TypeOK'
  BY <1>1 DEF Call, Refused
<1>2. ASSUME NEW t \in Threads, Call(t),
             Admitted(t, Append(queue, IdOf[t]), queue = <<>>)
      PROVE  TypeOK'
  <2>1. IdOf[t] \in Ids
    OBVIOUS
  <2>2. queue' \in Seq(Ids)
    BY <1>2, <2>1 DEF Admitted
  <2> QED BY <1>2, <2>2 DEF Call, Admitted
<1>3. ASSUME NEW t \in Threads, Wake(t) PROVE TypeOK'
  BY <1>3 DEF Wake
<1>4. ASSUME NEW t \in Threads, Leave(t) PROVE TypeOK'
  <2>1. queue' \in Seq(Ids)
    BY <1>4 DEF Leave
  <2>2. pc' \in [Threads -> {"out", "asleep", "awake", "in"}]
    BY <1>4 DEF Leave, Awakened
  <2> QED BY <1>4, <2>1, <2>2 DEF Leave
<1>5. CASE Drain
  <2>1. queue' \in Seq(Ids)
    BY <1>5 DEF Drain
  <2>2. pc' \in [Threads -> {"out", "asleep", "awake", "in"}]
    BY <1>5 DEF Drain
  <2> QED BY <1>5, <2>1, <2>2 DEF Drain
<1>6. CASE DrainWakes
  BY <1>6 DEF DrainWakes
<1>7. CASE UNCHANGED vars
  BY <1>7 DEF vars
<1> QED BY <1>1, <1>2, <1>3, <1>4, <1>5, <1>6, <1>7 DEF Next, Enter, Finished

(* What a broadcast or a step of no consequence keeps: if queue, closed,   *)
(* tickets and calls are the same, and the goroutines that are active or   *)
(* in the critical section were so before, then so is Queueing.            *)
LEMMA FewerActive ==
    ASSUME Queueing,
           UNCHANGED <<queue, closed, ticket, calls>>,
           \A t \in Threads : Active(t)' => Active(t),
           \A t \in Threads : (pc[t] = "in")' => pc[t] = "in",
           \A t \in Threads : Waiting(t)' => Waiting(t)
    PROVE  Queueing'
<1> USE DEF Queueing
<1>1. HoldersFirst'
  BY DEF HoldersFirst
<1>2. ActiveQueued'
  BY DEF ActiveQueued, Queued
<1>3. IdsDistinct' /\ QueuedOnce'
  BY DEF IdsDistinct, QueuedOnce
<1>4. QueueOrdered'
  BY DEF QueueOrdered
<1>5. TicketsIssued' /\ FirstComeFirstServed'
  BY DEF TicketsIssued, FirstComeFirstServed
<1> QED BY <1>1, <1>2, <1>3, <1>4, <1>5

(* Enter queues an identifier that is not queued yet behind all the others,*)
(* with the highest number.                                                *)
LEMMA EnterQueueing ==
    ASSUME IInv, NEW t \in Threads, Call(t),
           Admitted(t, Append(queue, IdOf[t]), queue = <<>>)
    PROVE  Queueing'
<1> USE IdsAssumption DEF IInv, Queueing
<1>1. /\ ~closed /\ ~closed' /\ IdOf[t] \in Ids
      /\ \A i \in 1 .. Len(queue) : queue[i] # IdOf[t]
      /\ calls' = calls + 1 /\ calls \in Nat /\ ticket'[t] = calls + 1
      /\ pc[t] = "out" /\ pc'[t] = IF queue = <<>> THEN "in" ELSE "asleep"
      /\ \A u \in Threads \ {t} : pc'[u] = pc[u] /\ ticket'[u] = ticket[u]
  BY DEF Call, Admitted, Queued, TypeOK
<1>2. /\ Len(queue) \in Nat /\ Len(queue') = Len(queue) + 1
      /\ \A i \in 1 .. Len(queue) : queue'[i] = queue[i]
      /\ queue'[Len(queue) + 1] = IdOf[t]
  BY <1>1 DEF Admitted, TypeOK
<1>3. queue # <<>> => Len(queue) > 0
  BY DEF TypeOK
<1>4. queue' # <<>>
  BY <1>1, <1>2 DEF Admitted, TypeOK
<1>5. \A u \in Threads \ {t} : Active(u) => IdOf[u] # IdOf[t]
  BY <1>1 DEF ActiveQueued, Queued
<1>6. HoldersFirst'
  <2> SUFFICES ASSUME NEW u \in Threads, pc'[u] = "in"
               PROVE  queue'[1] = IdOf[u]
    BY <1>4 DEF HoldersFirst
  <2>1. CASE u = t
    <3>1. queue = <<>>
      BY <2>1, <1>1
    <3>2. Len(queue) = 0
      BY <3>1
    <3> QED BY <3>2, <1>2, <2>1
  <2>2. CASE u # t
    BY <2>2, <1>1, <1>2, <1>3 DEF HoldersFirst
  <2> QED BY <2>1, <2>2
<1>7. ActiveQueued'
  <2> SUFFICES ASSUME NEW u \in Threads, Active(u)'
               PROVE  \E i \in 1 .. Len(queue') : queue'[i] = IdOf[u]
    BY DEF ActiveQueued, Queued
  <2>1. CASE u = t
    BY <2>1, <1>2
  <2>2. CASE u # t
    <3>1. PICK i \in 1 .. Len(queue) : queue[i] = IdOf[u]
      BY <2>2, <1>1 DEF ActiveQueued, Queued, Active
    <3> QED BY <3>1, <1>2
  <2> QED BY <2>1, <2>2
<1>8. IdsDistinct'
  <2> SUFFICES ASSUME NEW u \in Threads, NEW v \in Threads,
                      Active(u)', Active(v)', IdOf[u] = IdOf[v]
               PROVE  u = v
    BY DEF IdsDistinct
  <2>1. \A w \in Threads \ {t} : Active(w)' => Active(w)
    BY <1>1 DEF Active
  <2> QED BY <2>1, <1>5 DEF IdsDistinct
<1>9. QueuedOnce'
  <2> SUFFICES ASSUME NEW i \in 1 .. Len(queue'), NEW j \in 1 .. Len(queue'),
                      queue'[i] = queue'[j]
               PROVE  i = j
    BY DEF QueuedOnce
  <2>1. CASE i <= Len(queue) /\ j <= Len(queue)
    BY <2>1, <1>2 DEF QueuedOnce
  <2>2. CASE i = Len(queue) + 1 /\ j <= Len(queue)
    BY <2>2, <1>1, <1>2
  <2>3. CASE i <= Len(queue) /\ j = Len(queue) + 1
    BY <2>3, <1>1, <1>2
  <2> QED BY <2>1, <2>2, <2>3, <1>2
<1>10. TicketsIssued'
  BY <1>1 DEF TicketsIssued, TypeOK
<1>11. \A u \in Threads \ {t} : ticket'[u] < ticket'[t]
  BY <1>1 DEF TicketsIssued, TypeOK
<1>12. QueueOrdered'
  <2> SUFFICES ASSUME NEW u \in Threads, NEW v \in Threads,
                      NEW i \in 1 .. Len(queue'), NEW j \in 1 .. Len(queue'),
                      Active(u)', Active(v)', i < j,
                      queue'[i] = IdOf[u], queue'[j] = IdOf[v]
               PROVE  ticket'[u] < ticket'[v]
    BY DEF QueueOrdered
  <2>1. i <= Len(queue)
    BY <1>2
  <2>2. u # t
    BY <2>1, <1>1, <1>2
  <2>3. CASE v = t
    BY <2>2, <2>3, <1>11
  <2>4. CASE v # t
    <3>1. Active(u) /\ Active(v)
      BY <2>2, <2>4, <1>1 DEF Active
    <3>2. j # Len(queue) + 1
      BY <3>1, <2>4, <1>2, <1>5
    <3>3. j <= Len(queue)
      BY <3>2, <1>2
    <3> QED BY <2>1, <2>2, <2>4, <3>1, <3>3, <1>1, <1>2 DEF QueueOrdered
  <2> QED BY <2>3, <2>4
<1>13. FirstComeFirstServed'
  <2> SUFFICES ASSUME NEW u \in Threads, NEW v \in Threads,
                      pc'[u] = "in", Waiting(v)'
               PROVE  ticket'[u] < ticket'[v]
    BY DEF FirstComeFirstServed
  <2>1. CASE u = t
    <3>1. queue = <<>>
      BY <2>1, <1>1
    <3>2. Len(queue) = 0
      BY <3>1
    <3>3. \A w \in Threads : ~Active(w)
      BY <3>2, <1>1 DEF ActiveQueued, Queued
    <3> QED BY <2>1, <3>1, <3>3, <1>1 DEF Waiting, Active
  <2>2. CASE u # t /\ v = t
    BY <2>2, <1>11
  <2>3. CASE u # t /\ v # t
    BY <2>3, <1>1 DEF FirstComeFirstServed, Waiting
  <2> QED BY <2>1, <2>2, <2>3
<1> QED BY <1>6, <1>7, <1>8, <1>9, <1>10, <1>12, <1>13

(* A goroutine that is woken up enters only if it is the oldest one.       *)
LEMMA WakeQueueing ==
    ASSUME IInv, NEW t \in Threads, Wake(t)
    PROVE  Queueing'
<1> USE DEF IInv, Queueing
<1>1. /\ UNCHANGED <<queue, closed, ticket, calls>>
      /\ pc[t] = "awake" /\ Active(t)
      /\ \A u \in Threads \ {t} : pc'[u] = pc[u]
  BY DEF Wake, TypeOK, Active
<1>2. CASE closed \/ queue[1] # IdOf[t]
  <2>1. pc'[t] \in {"out", "asleep"}
    BY <1>2 DEF Wake, TypeOK
  <2> QED BY <1>1, <2>1, FewerActive DEF Active, Waiting
<1>3. CASE ~closed /\ queue[1] = IdOf[t]
  <2>1. pc'[t] = "in"
    BY <1>3 DEF Wake, TypeOK
  <2>2. queue # <<>>
    <3>1. PICK i \in 1 .. Len(queue) : queue[i] = IdOf[t]
      BY <1>1, <1>3 DEF ActiveQueued, Queued
    <3> QED BY <3>1 DEF TypeOK
  <2>3. \A u \in Threads : Active(u)' <=> Active(u)
    BY <1>1, <2>1 DEF Active
  <2>4. HoldersFirst'
    BY <1>1, <1>3, <2>2 DEF HoldersFirst
  <2>5. ActiveQueued' /\ QueueOrdered'
    BY <1>1, <2>3 DEF ActiveQueued, QueueOrdered, Queued
  <2>6. IdsDistinct' /\ QueuedOnce' /\ TicketsIssued'
    BY <1>1, <2>3 DEF IdsDistinct, QueuedOnce, TicketsIssued
  <2>7. FirstComeFirstServed'
    <3> SUFFICES ASSUME NEW u \in Threads, NEW v \in Threads,
                        pc'[u] = "in", Waiting(v)'
                 PROVE  ticket[u] < ticket[v]
      BY <1>1 DEF FirstComeFirstServed
    <3>1. v # t /\ Waiting(v) /\ Active(v)
      BY <1>1, <2>1 DEF Waiting, Active
    <3>2. CASE u = t
      BY <3>1, <3>2, <1>1, <1>3, <2>2, HeadIsOldest
    <3>3. CASE u # t
      BY <3>1, <3>3, <1>1 DEF FirstComeFirstServed
    <3> QED BY <3>2, <3>3
  <2> QED BY <2>4, <2>5, <2>6, <2>7
<1> QED BY <1>2, <1>3

(* Leave takes its own identifier, and no other, from the queue.           *)
LEMMA LeaveQueueing ==
    ASSUME IInv, NEW t \in Threads, Leave(t)
    PROVE  Queueing'
<1> USE IdsAssumption DEF IInv, Queueing
<1>1. pc[t] = "in" /\ queue # <<>> /\ queue[1] = IdOf[t]
  BY DEF Leave, HoldersFirst
<1>2. /\ queue' = Tail(queue) /\ pc' = Awakened(t)
      /\ UNCHANGED <<closed, ticket, calls>>
  BY <1>1 DEF Leave
<1>3. /\ Len(queue) \in Nat /\ Len(queue) > 0
      /\ Len(queue') = Len(queue) - 1
      /\ \A i \in 1 .. Len(queue') : queue'[i] = queue[i + 1]
  BY <1>1, <1>2 DEF TypeOK
<1>4. /\ pc'[t] = "out"
      /\ \A u \in Threads \ {t} :
            pc'[u] = IF pc[u] = "asleep" THEN "awake" ELSE pc[u]
  BY <1>2 DEF Awakened
<1>5. \A u \in Threads : Active(u)' => Active(u) /\ u # t
  BY <1>4 DEF Active
<1>6. \A u \in Threads : pc'[u] # "in"
  <2>1. MutualExclusion
    BY HeadIsUnique
  <2> QED BY <2>1, <1>1, <1>4 DEF MutualExclusion
<1>7. HoldersFirst' /\ FirstComeFirstServed'
  BY <1>6 DEF HoldersFirst, FirstComeFirstServed
<1>8. ActiveQueued'
  <2> SUFFICES ASSUME NEW u \in Threads, ~closed, Active(u)'
               PROVE  \E i \in 1 .. Len(queue') : queue'[i] = IdOf[u]
    BY <1>2 DEF ActiveQueued, Queued
  <2>1. PICK i \in 1 .. Len(queue) : queue[i] = IdOf[u]
    BY <1>5 DEF ActiveQueued, Queued
  <2>2. IdOf[u] # IdOf[t]
    BY <1>1, <1>5 DEF IdsDistinct, Active
  <2>3. i - 1 \in 1 .. Len(queue') /\ (i - 1) + 1 = i
    BY <2>1, <2>2, <1>1, <1>3
  <2> QED BY <2>1, <2>3, <1>3
<1>9. IdsDistinct'
  BY <1>5 DEF IdsDistinct
<1>10. \A i \in 1 .. Len(queue') : i + 1 \in 1 .. Len(queue)
  BY <1>3
<1>11. QueuedOnce'
  <2> SUFFICES ASSUME NEW i \in 1 .. Len(queue'), NEW j \in 1 .. Len(queue'),
                      queue'[i] = queue'[j]
               PROVE  i = j
    BY DEF QueuedOnce
  <2>1. i + 1 = j + 1
    BY <1>3, <1>10 DEF QueuedOnce
  <2> QED BY <2>1, <1>3
<1>12. QueueOrdered'
  <2> SUFFICES ASSUME NEW u \in Threads, NEW v \in Threads, ~closed,
                      NEW i \in 1 .. Len(queue'), NEW j \in 1 .. Len(queue'),
                      Active(u)', Active(v)', i < j,
                      queue'[i] = IdOf[u], queue'[j] = IdOf[v]
               PROVE  ticket[u] < ticket[v]
    BY <1>2 DEF QueueOrdered
  <2>1. i + 1 < j + 1 /\ queue[i + 1] = IdOf[u] /\ queue[j + 1] = IdOf[v]
    BY <1>3
  <2> QED BY <2>1, <1>5, <1>10 DEF QueueOrdered
<1>13. TicketsIssued'
  BY <1>2 DEF TicketsIssued
<1> QED BY <1>7, <1>8, <1>9, <1>11, <1>12, <1>13

(* Drain keeps the head of the queue, hence the holder, and closes.        *)
LEMMA DrainQueueing ==
    ASSUME IInv, Drain
    PROVE  Queueing'
<1> USE DEF IInv, Queueing
<1>1. closed' /\ UNCHANGED <<ticket, calls>>
  BY DEF Drain
<1>2. \A u \in Threads : pc'[u] = IF pc[u] = "asleep" THEN "awake" ELSE pc[u]
  BY DEF Drain
<1>3. \A u \in Threads : /\ (pc'[u] = "in") <=> (pc[u] = "in")
                         /\ Active(u)' <=> Active(u)
                         /\ Waiting(u)' <=> Waiting(u)
  BY <1>2 DEF Active, Waiting
<1>4. CASE Len(queue) > 1
  <2>1. queue' = <<queue[1]>>
    BY <1>4 DEF Drain
  <2>2. Len(queue') = 1 /\ queue' # <<>> /\ queue'[1] = queue[1]
    BY <2>1
  <2>3. HoldersFirst'
    BY <2>2, <1>3 DEF HoldersFirst
  <2>4. QueuedOnce'
    BY <2>2 DEF QueuedOnce
  <2> QED BY <2>3, <2>4, <1>1, <1>3
          DEF ActiveQueued, IdsDistinct, QueueOrdered, TicketsIssued,
              FirstComeFirstServed
<1>5. CASE ~(Len(queue) > 1)
  <2>1. queue' = queue
    BY <1>5 DEF Drain
  <2> QED BY <2>1, <1>1, <1>3
          DEF HoldersFirst, QueuedOnce, ActiveQueued, IdsDistinct,
              QueueOrdered, TicketsIssued, FirstComeFirstServed
<1> QED BY <1>4, <1>5

(* Every step keeps the inductive invariant.                               *)
LEMMA NextIInv == IInv /\ [Next]_vars => IInv'
<1> SUFFICES ASSUME IInv, [Next]_vars PROVE IInv'
  OBVIOUS
<1>1. TypeOK'
  BY TypeStep DEF IInv
<1>2. ASSUME NEW t \in Threads, Call(t), Refused(t) PROVE Queueing'
  <2>1. calls \in Nat /\ calls' = calls + 1
        /\ UNCHANGED <<queue, closed, pc, ticket>>
    BY <1>2 DEF IInv, TypeOK, Call, Refused
  <2>2. TicketsIssued'
    BY <2>1 DEF IInv, TypeOK, Queueing, TicketsIssued
  <2> QED BY <2>1, <2>2
          DEF IInv, Queueing, HoldersFirst, ActiveQueued, Queued, IdsDistinct,
              QueuedOnce, QueueOrdered, FirstComeFirstServed, Active, Waiting
<1>3. ASSUME UNCHANGED <<queue, closed, pc, ticket, calls>> PROVE Queueing'
  BY <1>3, FewerActive DEF IInv, Active, Waiting
<1>4. ASSUME DrainWakes \/ UNCHANGED vars PROVE Queueing'
  BY <1>4, <1>3 DEF DrainWakes, vars
<1>5. ASSUME NEW t \in Threads, Enter(t) PROVE Queueing'
  BY <1>2, <1>5, EnterQueueing DEF Enter
<1>6. ASSUME NEW t \in Threads, Wake(t) \/ Leave(t) PROVE Queueing'
  BY <1>6, WakeQueueing, LeaveQueueing
<1>7. ASSUME Drain PROVE Queueing'
  BY <1>7, DrainQueueing
<1>8. Queueing'
  BY <1>4, <1>5, <1>6, <1>7 DEF Next, Finished
<1> QED BY <1>1, <1>8 DEF IInv

(* The inductive invariant holds in every reachable state of the guard.    *)
THEOREM Invariance == Spec => []IInv
BY InitIInv, NextIInv, PTL DEF Spec

(* The queue, the count of uses and the states of goroutines keep their    *)
(* types, for any number of goroutines.                                    *)
THEOREM TypeCorrect == Spec => []TypeOK
<1>1. IInv => TypeOK
  BY DEF IInv
<1> QED BY <1>1, Invariance, PTL

(* CriticalSectionGuard admits one goroutine at a time, whatever the       *)
(* identifiers that goroutines use and whenever Drain is called.           *)
THEOREM MutexCorrect == Spec => []MutualExclusion
<1>1. IInv => MutualExclusion
  BY HeadIsUnique DEF IInv, Queueing
<1> QED BY <1>1, Invariance, PTL

(* Enter is fair: the holder has called it before everybody who waits.     *)
THEOREM FifoCorrect == Spec => []FirstComeFirstServed
<1>1. IInv => FirstComeFirstServed
  BY DEF IInv, Queueing
<1> QED BY <1>1, Invariance, PTL
=============================================================================
