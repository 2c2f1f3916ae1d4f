------------------------- MODULE VsrAnimatorProofs -------------------------
(***************************************************************************)
(* Proofs about module VsrAnimator: its type invariant, and that no two    *)
(* daemons are in handlers of a request at the same time.                  *)
(*                                                                         *)
(* There is no lock: a daemon takes a request whose state it has the       *)
(* handler of, and lets go of it by writing a state of another daemon.     *)
(* What it knows may be old by then.  That is harmless as long as it is    *)
(* known to be old: doneRequests and the version of the goroutine are      *)
(* ahead of the version in the list (Outdated), and a write is refused     *)
(* unless its version is that of the database.  The rule is broken by a    *)
(* cancel that is noticed in the very write that hands the request over:   *)
(* the goroutine goes on to undo, beside the next daemon.  Then the others *)
(* have nothing to undo themselves, if the undo states of the operations   *)
(* all belong to one daemon (Split); if not, handlers may overlap.         *)
(***************************************************************************)
EXTENDS VsrAnimator, TLAPS

-----------------------------------------------------------------------------
(* The inductive invariant *)

(* What a goroutine (its state r) keeps to, for a request with operations  *)
(* o that is d in the database: it is in the handler of the state that it  *)
(* has written last, its lists are from the plan, and it has the version   *)
(* and the cancelRequested of some earlier d.                              *)
Coherent(r, o, d) ==
    /\ r \in Handlers
    /\ r.pc = "run" => /\ r.part # "final" /\ r.todo # <<>>
                       /\ r.state = r.todo[1]
    /\ r.pc = "write" =>
          \/ r.part = "forward" /\ r.todo # <<>>
             /\ (r.state = r.todo[1] \/ r.state \in WaitStates(r.todo[1]))
          \/ r.part = "undo" /\ r.todo # <<>> /\ r.state = r.todo[1]
          \/ r.part = "final" /\ r.state \in Finals
    /\ r.pc = "next" => r.state \notin Finals
    /\ r.part = "forward" => r.todo \in Seq(Planned(o))
    /\ r.part = "undo" => r.todo \in Seq(Undoing(o))
    /\ r.undos \in Seq(Undoing(o))
    /\ r.cancel \/ r.canceling => d.cancel
    /\ r.ver <= d.ver

(* A daemon with a goroutine, the daemon that has the handler of the state *)
(* in the database, and one about to find that the handler is not its own. *)
Active(p) == rhs[p].pc # "none"
Owner == GetProcess(db.state, ops)
Handing(p) == Running(p) /\ ~Own(p)

(* The request that p has listed is outdated, and p knows.                 *)
Outdated(p) ==
    doneVer[p] > seen[p].ver \/ (Active(p) /\ rhs[p].ver > seen[p].ver)

(* As a rule the daemon of the state in the database is alone ...          *)
Alone ==
    \A p \in Processes :
        /\ Active(p) => Owner = p \/ Handing(p)
        /\ seen[p] # NoRequest => Owner = p \/ Outdated(p)

(* The daemon that undoes what is undone of the operations, if it is one   *)
(* only: else the operations are overlapping.                              *)
Home == CHOOSE u \in Processes : Contained(ops, u)
Overlapping ==
    ops \in Cancelable /\ \A u \in Processes : ~Contained(ops, u)

(* ... unless one notices a cancel as it hands the request over: it goes   *)
(* on undoing.  Then those other than Home have nothing to do but to write *)
(* a state of Home.                                                        *)
Leaving(r) ==
    \/ r.part = "undo" /\ ~r.abortUndo /\ r.todo # <<>>
    \/ r.pc = "next" /\ r.part = "forward" /\ r.canceling

Split ==
    /\ db.cancel
    /\ \A p \in Processes \ {Home} :
          /\ Active(p) => Handing(p) \/ Leaving(rhs[p])
          /\ seen[p] # NoRequest => seen[p].cancel \/ Outdated(p)
    /\ db.state \in Finals =>
          /\ ~Active(Home)
          /\ seen[Home] # NoRequest => doneVer[Home] > seen[Home].ver

(* The request that p has listed is an earlier state of the one in the     *)
(* database, in which p had its handler.                                   *)
Known(p) ==
    /\ seen[p].ver <= db.ver /\ (seen[p].cancel => db.cancel)
    /\ seen[p].state \in Reach(ops)
    /\ seen[p] # NoRequest => GetProcess(seen[p].state, ops) = p

(* The goroutine of p has not been done with a later version, and knows    *)
(* what to undo if it is not the daemon that undoes.                       *)
Prepared(p) ==
    Active(p) => /\ doneVer[p] <= rhs[p].ver
                 /\ ~Overlapping /\ ops \in Cancelable /\ p # Home =>
                       rhs[p].undos # <<>>

Consistent ==
    /\ db.ver > 0 /\ db.state \in Reach(ops)
    /\ db.cancel => ops \in Cancelable
    /\ \A p \in Processes :
          Coherent(rhs[p], ops, db) /\ Known(p) /\ Prepared(p)
    /\ Overlapping \/ Alone \/ (ops \in Cancelable /\ Split)

IInv == TypeOK /\ Consistent

-----------------------------------------------------------------------------
(* Lemmas about the tables and the plans *)

(* Exactly three states end a request; the states named by the animator    *)
(* and its handlers are not among them.                                    *)
LEMMA Terminals ==
    /\ Finals \subseteq States
    /\ \A s \in States : IsTerminal(s) <=> s \in Finals
<1>1. Finals \subseteq States
  BY DEF Finals, States, Order
<1>2. \A s \in Finals : Order[s] = 999
  BY DEF Finals, Order
<1>3. \A s \in States : s \notin Finals => Order[s] < 999 /\ Order[s] \in Int
  BY DEF Finals, States, Order
<1> QED
  BY <1>1, <1>2, <1>3 DEF IsTerminal, soTerminationStatesOrder

(* The states that the animator and the handlers name do not end a         *)
(* request.                                                                *)
LEMMA NamedStates ==
    {"NEW", "UNDO_CREATING_FROM_SNAPSHOT", "BINDING", "CHANGING_CAPACITY",
     "PLACEMENT", "CAPACITY_WAIT", "STORAGE_WAIT", "SIZING"} \subseteq Working
BY DEF Working, Finals, States, Order

(* Nothing is undone by a state that ends the request.                     *)
LEMMA UndoWorks ==
    ASSUME NEW s, Undo(s) # None
    PROVE  Undo(s) \in Working
<1>1. \A u \in DOMAIN UndoTable : UndoTable[u] \in Working
  BY DEF UndoTable, Working, Finals, States, Order
<1> QED
  BY <1>1 DEF Undo

(* Only states of the table are undone.                                    *)
LEMMA UndoneStates == DOMAIN UndoTable \subseteq States
BY DEF UndoTable, States, Order

(* A state that a daemon has the handler of does not end the request.      *)
LEMMA OwnedWorks ==
    ASSUME NEW o, NEW s \in States, GetProcess(s, o) \in Processes
    PROVE  s \in Working
<1> SUFFICES ASSUME s \in Finals
             PROVE  FALSE
  BY DEF Working
<1>1. s # "NEW" /\ s \notin AgentdStates /\ s \notin ClusterdStates
  BY DEF Finals, AgentdStates, ClusterdStates
<1>2. IsTerminal(s)
  BY Terminals
<1>3. GetProcess(s, o) = NoProcess
  BY <1>1, <1>2 DEF GetProcess
<1> QED
  BY <1>3 DEF NoProcess, Processes

(* No handler ends the request by itself.                                  *)
LEMMA WaitsWork ==
    ASSUME NEW s \in States
    PROVE  WaitStates(s) \subseteq Working
BY NamedStates DEF WaitStates

(* The lists of a plan are made of the states of the plan.                 *)
LEMMA Plans ==
    ASSUME NEW o \in OpSets, NEW v \in Volumes, NEW s \in States
    PROVE  /\ ForwardStates(o, v, s) \in Seq(Planned(o))
           /\ UndoStates(o, v, s) \in Seq(Undoing(o))
<1>1. /\ ForwardStates(o, v, s) \in Seq(Working)
      /\ UndoStates(o, v, s) \in Seq(Working)
  BY PlanAssumption
<1>2. Elements(ForwardStates(o, v, s)) \subseteq Planned(o)
  BY DEF Planned
<1>3. Elements(UndoStates(o, v, s)) \subseteq Undoing(o)
  BY DEF Undoing
<1>4. \A f : f \in Seq(Working) => f \in Seq(Elements(f))
  BY DEF Elements
<1> QED
  BY <1>1, <1>2, <1>3, <1>4

(* Plans consist of states of the table, and do not end the request.       *)
LEMMA PlanStates ==
    ASSUME NEW o \in OpSets
    PROVE  /\ Planned(o) \subseteq Working
           /\ Undoing(o) \subseteq Working
           /\ Reach(o) \subseteq States
<1>1. Planned(o) \subseteq Working
  BY PlanAssumption DEF Planned, Elements
<1>2. Undoing(o) \subseteq Working
  BY PlanAssumption, UndoWorks DEF Undoing, Elements
<1>3. Working \subseteq States
  BY DEF Working
<1>4. UNION {WaitStates(f) : f \in Planned(o)} \subseteq Working
  BY <1>1, <1>3, WaitsWork
<1> QED
  BY <1>1, <1>2, <1>3, <1>4, Terminals, NamedStates DEF Reach

(* A list that is reversed has the same elements, and is not empty unless  *)
(* it was.                                                                 *)
LEMMA Reversed ==
    ASSUME NEW S, NEW s \in Seq(S)
    PROVE  /\ Reverse(s) \in Seq(S)
           /\ s # <<>> => Reverse(s) # <<>>
<1>1. Len(s) \in Nat /\ \A i \in 1 .. Len(s) : s[i] \in S
  OBVIOUS
<1>2. \A i \in 1 .. Len(s) : Len(s) + 1 - i \in 1 .. Len(s)
  BY <1>1
<1>3. Reverse(s) \in Seq(S) /\ Len(Reverse(s)) = Len(s)
  BY <1>1, <1>2 DEF Reverse
<1> QED
  BY <1>3

-----------------------------------------------------------------------------
(* Lemmas about the steps of a goroutine *)

(* The request moves on in the database: the goroutine is only later.      *)
LEMMA CoherentLater ==
    ASSUME NEW r, NEW o, NEW d, NEW e, Coherent(r, o, d),
           d.ver \in Nat, e.ver \in Nat, d.ver <= e.ver, d.cancel => e.cancel
    PROVE  Coherent(r, o, e)
<1>1. r.ver \in Nat
  BY DEF Coherent, Handlers
<1>2. r.ver <= e.ver
  BY <1>1 DEF Coherent
<1> QED
  BY <1>2 DEF Coherent

(* What the handler record of a goroutine that did not change keeps to.    *)
LEMMA IdleCoherent ==
    ASSUME NEW o \in OpSets, NEW d, d.ver \in Nat
    PROVE  Coherent(Idle, o, d)
<1>1. Idle \in Handlers
  BY NamedStates DEF Idle, Handlers, Working
<1>2. <<>> \in Seq(Planned(o)) /\ <<>> \in Seq(Undoing(o))
  OBVIOUS
<1> QED
  BY <1>1, <1>2 DEF Coherent, Idle

(* The state that requestAnimator (request.go) takes instead of the one in *)
(* the database does not end the request either.                           *)
LEMMA MemoryState ==
    ASSUME NEW s \in Working, NEW t \in BOOLEAN
    PROVE  StateInMemory(s, t) \in Working
BY NamedStates DEF StateInMemory

(* The undo list of a goroutine that starts on the undo path ...           *)
LEMMA WithCurrentType ==
    ASSUME NEW o \in OpSets, NEW u \in Seq(Undoing(o)),
           NEW f \in Seq(Planned(o))
    PROVE  /\ WithCurrent(u, f) \in Seq(Undoing(o))
           /\ u # <<>> => WithCurrent(u, f) # <<>>
<1>1. CASE f = <<>> \/ Undo(f[1]) = None
  BY <1>1 DEF WithCurrent
<1>2. CASE f # <<>> /\ Undo(f[1]) # None
  <2>1. f[1] \in Planned(o)
    BY <1>2
  <2>2. Undo(f[1]) \in Undoing(o)
    BY <2>1, <1>2 DEF Undoing
  <2>3. WithCurrent(u, f) = Append(u, Undo(f[1]))
    BY <1>2 DEF WithCurrent
  <2> QED
    BY <2>2, <2>3
<1> QED
  BY <1>1, <1>2

(* ... and the goroutine as it starts.                                     *)
LEMMA Begins ==
    ASSUME TypeOK, NEW req \in Requests, NEW failed \in BOOLEAN,
           req.state \in Working, req.ver <= db.ver, req.cancel => db.cancel
    PROVE  LET r == Begin(req, failed) IN
           /\ Coherent(r, ops, db)
           /\ r.pc = "next" /\ r.ver = req.ver /\ ~r.abortUndo
           /\ r.undos = UndoStates(ops, vol, req.state)
           /\ failed \/ req.cancel =>
                 r.part = "undo" /\ (r.undos # <<>> => r.todo # <<>>)
<1> DEFINE timedOut == expired
           inError == failed \/ (~timedOut /\ undoOnly(ops, req.state))
           states == ForwardStates(ops, vol, req.state)
           undos == UndoStates(ops, vol, req.state)
           forward == ~inError /\ ~timedOut /\ ~req.cancel
           todo == IF forward THEN states
                   ELSE Reverse(WithCurrent(undos, states))
           r == [pc |-> "next", part |-> IF forward THEN "forward" ELSE "undo",
                 state |-> StateInMemory(req.state, timedOut),
                 ver |-> req.ver, cancel |-> req.cancel, inError |-> inError,
                 timedOut |-> timedOut, canceling |-> req.cancel,
                 abortUndo |-> FALSE, loaded |-> ~failed,
                 todo |-> todo, undos |-> undos]
<1>1. Begin(req, failed) = r
  BY DEF Begin
<1>2. /\ ops \in OpSets /\ vol \in Volumes /\ timedOut \in BOOLEAN
      /\ req.state \in States /\ req.ver \in Nat /\ req.cancel \in BOOLEAN
  BY DEF TypeOK, Requests
<1>3. states \in Seq(Planned(ops)) /\ undos \in Seq(Undoing(ops))
  BY <1>2, Plans
<1>4. /\ Reverse(WithCurrent(undos, states)) \in Seq(Undoing(ops))
      /\ undos # <<>> => Reverse(WithCurrent(undos, states)) # <<>>
  BY <1>2, <1>3, WithCurrentType, Reversed
<1>5. /\ Planned(ops) \subseteq States /\ Undoing(ops) \subseteq States
      /\ StateInMemory(req.state, timedOut) \in Working
  BY <1>2, PlanStates, MemoryState DEF Working
<1>6. inError \in BOOLEAN
  BY <1>2 DEF undoOnly, Has
<1> HIDE DEF timedOut, inError, states, undos
<1>7. todo \in Seq(States) /\ undos \in Seq(States)
  BY <1>3, <1>4, <1>5
<1>8. r \in Handlers
  BY <1>2, <1>5, <1>6, <1>7 DEF Handlers, Working
<1>9. Coherent(r, ops, db)
  BY <1>2, <1>3, <1>4, <1>5, <1>8 DEF Coherent, Working
<1>10. failed \/ req.cancel => ~forward
  BY DEF inError
<1> QED
  BY <1>1, <1>4, <1>9, <1>10 DEF undos

(* What is left of a goroutine that panicked (failOnPanic).                *)
LEMMA Panics ==
    ASSUME NEW o \in OpSets, NEW d, NEW r, Coherent(r, o, d),
           r.state \notin Finals
    PROVE  LET x == Panicked(r) IN
           /\ Coherent(x, o, d)
           /\ x.pc = "next" /\ x.part = "final" /\ x.ver = r.ver
           /\ x.undos = r.undos
<1> DEFINE x == Panicked(r)
<1>1. r \in Handlers
  BY DEF Coherent
<1>2. /\ x.pc = "next" /\ x.part = "final" /\ x.state = r.state
      /\ x.todo = r.todo /\ x.undos = r.undos /\ x.ver = r.ver
      /\ x.cancel = r.cancel /\ x.canceling = r.canceling
  BY <1>1 DEF Handlers, Panicked
<1>3. x \in Handlers
  BY <1>1 DEF Handlers, Panicked
<1> HIDE DEF x
<1>4. Coherent(x, o, d)
  BY <1>2, <1>3 DEF Coherent
<1> QED
  BY <1>2, <1>4 DEF x

(* Entering a state of the list, or the final state.                       *)
LEMMA Enters ==
    ASSUME NEW o \in OpSets, NEW d, NEW r, Coherent(r, o, d), r.pc = "next",
           NEW s \in States,
           \/ r.part # "final" /\ r.todo # <<>> /\ s = r.todo[1]
           \/ r.part = "final" /\ s \in Finals
    PROVE  /\ Coherent(Enter(r, s), o, d)
           /\ Enter(r, s).part = r.part /\ Enter(r, s).todo = r.todo
           /\ Enter(r, s).undos = r.undos /\ Enter(r, s).ver = r.ver
           /\ Enter(r, s).abortUndo = r.abortUndo
           /\ Enter(r, s).pc \in {"run", "write"}
<1> DEFINE x == Enter(r, s)
<1>1. r \in Handlers
  BY DEF Coherent
<1>2. x = [r EXCEPT !.state = s,
                    !.pc = IF r.state = s THEN "run" ELSE "write"]
  BY DEF Enter
<1>3. /\ x.state = s /\ x.pc = (IF r.state = s THEN "run" ELSE "write")
      /\ x.part = r.part /\ x.ver = r.ver /\ x.cancel = r.cancel
      /\ x.canceling = r.canceling /\ x.todo = r.todo /\ x.undos = r.undos
      /\ x.abortUndo = r.abortUndo /\ x.pc \in {"run", "write"}
  BY <1>1, <1>2 DEF Handlers
<1>4. x \in Handlers
  BY <1>1, <1>2 DEF Handlers
<1>5. r.part = "final" => x.pc = "write"
  BY <1>3 DEF Coherent
<1>6. r.part \in {"forward", "undo", "final"}
  BY <1>1 DEF Handlers
<1>7. Coherent(x, o, d)
  BY <1>3, <1>4, <1>5, <1>6 DEF Coherent
<1> QED
  BY <1>2, <1>3, <1>7

(* Behind a handler.                                                       *)
LEMMA Advances ==
    ASSUME NEW o \in OpSets, NEW d, NEW r, Coherent(r, o, d), r.pc = "run"
    PROVE  /\ Coherent(Advance(r), o, d)
           /\ Advance(r).pc = "next" /\ Advance(r).ver = r.ver
           /\ r.undos # <<>> => Advance(r).undos # <<>>
<1> DEFINE u == Undo(r.todo[1])
           x == Advance(r)
           undos == IF r.part = "forward" /\ u # None /\ ~Contains(r.undos, u)
                    THEN Append(r.undos, u) ELSE r.undos
<1>1. r \in Handlers
  BY DEF Coherent
<1>2. x = [r EXCEPT !.pc = "next", !.todo = Tail(r.todo), !.undos = undos]
  BY <1>1 DEF Advance, Handlers
<1>3. /\ r.todo \in Seq(States) /\ r.undos \in Seq(States)
      /\ r.undos \in Seq(Undoing(o)) /\ r.todo # <<>> /\ r.part # "final"
      /\ r.state = r.todo[1]
  BY <1>1 DEF Coherent, Handlers
<1>4. r.part = "forward" /\ u # None => u \in Undoing(o)
  BY <1>3 DEF Undoing, Coherent
<1>5. undos \in Seq(Undoing(o)) /\ (r.undos # <<>> => undos # <<>>)
  BY <1>3, <1>4
<1>6. undos \in Seq(States) /\ Tail(r.todo) \in Seq(States)
  BY <1>3, <1>5, PlanStates DEF Working
<1> HIDE DEF undos, x
<1>7. /\ x.pc = "next" /\ x.todo = Tail(r.todo) /\ x.undos = undos
      /\ x.part = r.part /\ x.state = r.state /\ x.ver = r.ver
      /\ x.cancel = r.cancel /\ x.canceling = r.canceling
  BY <1>1, <1>2 DEF Handlers
<1>8. x \in Handlers
  BY <1>1, <1>2, <1>6 DEF Handlers
<1>9. r.part = "forward" => x.todo \in Seq(Planned(o)) /\ x.state \notin Finals
  BY <1>3, <1>7, PlanStates DEF Coherent, Working
<1>10. r.part = "undo" => x.todo \in Seq(Undoing(o)) /\ x.state \notin Finals
  BY <1>3, <1>7, PlanStates DEF Coherent, Working
<1>11. r.part \in {"forward", "undo"}
  BY <1>1, <1>3 DEF Handlers
<1>12. x.ver <= d.ver /\ (x.cancel \/ x.canceling => d.cancel)
  BY <1>7 DEF Coherent
<1>13. Coherent(x, o, d)
  BY <1>5, <1>7, <1>8, <1>9, <1>10, <1>11, <1>12 DEF Coherent
<1> QED
  BY <1>5, <1>7, <1>13 DEF x

(* The object is fetched again.                                            *)
LEMMA Refetches ==
    ASSUME NEW o, NEW r, Coherent(r, o, db), db \in Requests
    PROVE  /\ Coherent(Refetched(r), o, db)
           /\ Refetched(r).ver = db.ver /\ Refetched(r).pc = r.pc
           /\ Refetched(r).part = r.part /\ Refetched(r).todo = r.todo
           /\ Refetched(r).abortUndo = r.abortUndo
           /\ Refetched(r).undos = r.undos /\ Refetched(r).state = r.state
<1> DEFINE x == Refetched(r)
<1>1. r \in Handlers /\ db.ver \in Nat /\ db.cancel \in BOOLEAN
  BY DEF Coherent, Requests
<1>2. /\ x.ver = db.ver /\ x.pc = r.pc /\ x.part = r.part
      /\ x.todo = r.todo /\ x.abortUndo = r.abortUndo /\ x.undos = r.undos
      /\ x.state = r.state /\ x.cancel = (r.cancel \/ db.cancel)
      /\ x.canceling = (r.canceling \/ (db.cancel /\ ~r.cancel))
  BY <1>1 DEF Refetched, Handlers
<1>3. x \in Handlers
  BY <1>1 DEF Refetched, Handlers
<1>4. (x.cancel \/ x.canceling => db.cancel) /\ x.ver <= db.ver
  BY <1>1, <1>2 DEF Coherent
<1>5. Coherent(x, o, db)
  BY <1>2, <1>3, <1>4 DEF Coherent
<1> QED
  BY <1>2, <1>5

-----------------------------------------------------------------------------
(* Lemmas about the steps of the daemons *)

(* Operations that are not overlapping are undone by Home.                 *)
LEMMA HomeUndoes ==
    ASSUME ~Overlapping, ops \in Cancelable
    PROVE  Home \in Processes /\ Contained(ops, Home)
BY DEF Overlapping, Home

(* In a split the daemons other than Home are not in handlers.             *)
LEMMA AwayIsOut ==
    ASSUME ~Overlapping, IInv, ops \in Cancelable, Split,
           NEW p \in Processes, p # Home, Running(p)
    PROVE  ~Own(p)
<1>1. CASE Handing(p)
  BY <1>1 DEF Handing
<1>2. CASE Leaving(rhs[p])
  <2>1. Coherent(rhs[p], ops, db) /\ rhs[p].pc = "run"
    BY DEF IInv, Consistent, Running
  <2>2. rhs[p].part = "undo" /\ rhs[p].todo # <<>>
    BY <1>2, <2>1 DEF Leaving
  <2>3. rhs[p].todo \in Seq(Undoing(ops))
    BY <2>1, <2>2 DEF Coherent
  <2>4. rhs[p].todo[1] \in Undoing(ops)
    BY <2>2, <2>3
  <2>5. GetProcess(rhs[p].todo[1], ops) = Home
    BY <2>4, HomeUndoes DEF Contained
  <2> QED
    BY <2>5 DEF Own
<1>3. Active(p)
  BY DEF Active, Running
<1> QED
  BY <1>1, <1>2, <1>3 DEF Split

(* A daemon that is not about to hand the request over is the owner of its *)
(* state, Home, or about to leave; the request has not ended then, unless  *)
(* it is about to leave.                                                   *)
LEMMA Positions ==
    ASSUME ~Overlapping, IInv, NEW p \in Processes, Active(p), ~Handing(p)
    PROVE  \/ Alone /\ Owner = p /\ db.state \notin Finals
           \/ Split /\ ops \in Cancelable /\ p = Home /\ db.state \notin Finals
           \/ /\ Split /\ ops \in Cancelable /\ p # Home
              /\ Leaving(rhs[p]) /\ ~Running(p)
<1>1. CASE Alone
  <2>1. Owner = p
    BY <1>1 DEF Alone
  <2>2. db.state \in States
    BY DEF IInv, TypeOK, Requests
  <2>3. db.state \in Working
    BY <2>1, <2>2, OwnedWorks DEF Owner
  <2> QED
    BY <1>1, <2>1, <2>3 DEF Working
<1>2. CASE ops \in Cancelable /\ Split /\ p = Home
  BY <1>2 DEF Split
<1>3. CASE ops \in Cancelable /\ Split /\ p # Home
  <2>1. Leaving(rhs[p])
    BY <1>3 DEF Split
  <2>2. ~Running(p)
    BY <1>3, AwayIsOut DEF Handing
  <2> QED
    BY <1>3, <2>1, <2>2
<1> QED
  BY <1>1, <1>2, <1>3 DEF IInv, Consistent

(* The goroutine of p changes, but nothing that others see.                *)
LEMMA Works ==
    ASSUME IInv, NEW p \in Processes, Active(p), ~Handing(p),
           NEW x, Coherent(x, ops, db), Put(p, x), x.pc # "none",
           x.ver = rhs[p].ver \/ x.ver = db.ver,
           rhs[p].undos # <<>> => x.undos # <<>>,
           /\ ~Overlapping /\ ops \in Cancelable /\ p # Home
           /\ ~Running(p) /\ Leaving(rhs[p])
           => Leaving(x),
           UNCHANGED <<ops, db, seen, doneVer>>
    PROVE  Consistent'
<1>1. /\ rhs \in [Processes -> Handlers] /\ db \in Requests
      /\ doneVer \in [Processes -> Nat] /\ seen \in [Processes -> Requests]
  BY DEF IInv, TypeOK
<1>2. /\ rhs'[p] = x /\ \A q \in Processes : q # p => rhs'[q] = rhs[q]
  BY <1>1 DEF Put
<1>3. rhs[p].ver <= db.ver /\ rhs[p].ver \in Nat /\ db.ver \in Nat
      /\ x.ver \in Nat
  BY <1>1 DEF IInv, Consistent, Coherent, Requests, Handlers
<1>4. rhs[p].ver <= x.ver
  BY <1>3
<1>5. \A q \in Processes : Coherent(rhs'[q], ops, db)
  BY <1>2 DEF IInv, Consistent
<1>6. \A q \in Processes : Known(q)'
  BY DEF IInv, Consistent, Known
<1>7. Home' = Home /\ Owner' = Owner /\ (Overlapping' <=> Overlapping)
  BY DEF Home, Owner, Overlapping
<1>8. \A q \in Processes : Active(q)' <=> Active(q)
  BY <1>2 DEF Active
<1>9. \A q \in Processes : Prepared(q)'
  <2> SUFFICES ASSUME NEW q \in Processes
               PROVE  Prepared(q)'
    OBVIOUS
  <2>1. Prepared(q)
    BY DEF IInv, Consistent
  <2>2. CASE q # p
    BY <1>2, <1>7, <1>8, <2>1, <2>2 DEF Prepared
  <2>3. CASE q = p
    <3>1. doneVer[p] <= rhs[p].ver
      BY <2>1, <2>3 DEF Prepared
    <3>2. doneVer[p] <= x.ver
      BY <3>1, <1>1, <1>3, <1>4
    <3>3. ~Overlapping /\ ops \in Cancelable /\ p # Home => x.undos # <<>>
      BY <2>1, <2>3 DEF Prepared
    <3> QED
      BY <1>2, <1>7, <1>8, <2>3, <3>2, <3>3 DEF Prepared
  <2> QED
    BY <2>2, <2>3
<1>10. \A q \in Processes : q # p => (Handing(q)' <=> Handing(q))
  BY <1>2 DEF Handing, Running, Own
<1>11. \A q \in Processes : Outdated(q) => Outdated(q)'
  <2> SUFFICES ASSUME NEW q \in Processes, Outdated(q)
               PROVE  Outdated(q)'
    OBVIOUS
  <2>1. CASE q # p
    BY <1>2, <1>8, <2>1 DEF Outdated
  <2>2. CASE q = p /\ rhs[p].ver > seen[p].ver
    <3>1. seen[p].ver \in Nat
      BY <1>1 DEF Requests
    <3>2. x.ver > seen[p].ver
      BY <3>1, <2>2, <1>3, <1>4
    <3> QED
      BY <3>2, <2>2, <1>2, <1>8 DEF Outdated
  <2>3. CASE q = p /\ doneVer[p] > seen[p].ver
    BY <2>3 DEF Outdated
  <2> QED
    BY <2>1, <2>2, <2>3 DEF Outdated
<1>12. ASSUME ~Overlapping
       PROVE  Alone' \/ (ops \in Cancelable /\ Split)'
  <2>1. CASE Alone /\ Owner = p
    BY <2>1, <1>7, <1>8, <1>10, <1>11 DEF Alone
  <2>2. CASE Split /\ ops \in Cancelable /\ p = Home /\ db.state \notin Finals
    BY <2>2, <1>2, <1>7, <1>8, <1>10, <1>11 DEF Split
  <2>3. CASE Split /\ ops \in Cancelable /\ p # Home /\ Leaving(x)
    <3>1. \A q \in Processes : Leaving(rhs[q]) => Leaving(rhs'[q])
      BY <2>3, <1>2
    <3>2. \A q \in Processes \ {Home} :
             Active(q)' => Handing(q)' \/ Leaving(rhs'[q])
      BY <2>3, <3>1, <1>2, <1>8, <1>10 DEF Split
    <3>3. \A q \in Processes \ {Home} :
             seen'[q] # NoRequest => seen'[q].cancel \/ Outdated(q)'
      BY <2>3, <1>11 DEF Split
    <3>4. db'.state \in Finals =>
             /\ ~Active(Home)'
             /\ seen'[Home] # NoRequest => doneVer'[Home] > seen'[Home].ver
      BY <1>12, <2>3, <1>7, <1>8, HomeUndoes DEF Split
    <3> QED
      BY <2>3, <3>2, <3>3, <3>4, <1>7 DEF Split
  <2> QED
    BY <1>12, <2>1, <2>2, <2>3, Positions
<1> QED
  BY <1>7, <1>5, <1>6, <1>9, <1>12 DEF IInv, Consistent

(* The goroutine of p is done.                                             *)
LEMMA Finishes ==
    ASSUME IInv, NEW p \in Processes, Active(p),
           Finish(p, rhs[p]),
           UNCHANGED <<ops, db, seen>>
    PROVE  Consistent'
<1>1. /\ rhs \in [Processes -> Handlers] /\ db \in Requests
      /\ doneVer \in [Processes -> Nat] /\ seen \in [Processes -> Requests]
      /\ ops \in OpSets
  BY DEF IInv, TypeOK
<1>2. rhs[p] \in Handlers /\ rhs[p].ver \in Nat /\ db.ver \in Nat
      /\ doneVer[p] \in Nat
  BY <1>1 DEF Handlers, Requests
<1>3. /\ rhs'[p] = Idle /\ doneVer'[p] = rhs[p].ver
      /\ \A q \in Processes : q # p =>
            rhs'[q] = rhs[q] /\ doneVer'[q] = doneVer[q]
  BY <1>1, <1>2 DEF Finish
<1>4. \A q \in Processes : Coherent(rhs'[q], ops, db)
  BY <1>1, <1>2, <1>3, IdleCoherent DEF IInv, Consistent
<1>5. \A q \in Processes : Known(q)'
  BY DEF IInv, Consistent, Known
<1>6. Home' = Home /\ Owner' = Owner /\ (Overlapping' <=> Overlapping)
  BY DEF Home, Owner, Overlapping
<1>7. /\ ~Active(p)'
      /\ \A q \in Processes : q # p => (Active(q)' <=> Active(q))
  BY <1>3 DEF Active, Idle
<1>8. \A q \in Processes : Prepared(q)'
  BY <1>3, <1>6, <1>7 DEF IInv, Consistent, Prepared
<1>9. \A q \in Processes : q # p => (Handing(q)' <=> Handing(q))
  BY <1>3 DEF Handing, Running, Own
<1>10. \A q \in Processes : Outdated(q) => Outdated(q)'
  <2> SUFFICES ASSUME NEW q \in Processes, Outdated(q)
               PROVE  Outdated(q)'
    OBVIOUS
  <2>1. CASE q # p
    BY <1>3, <1>7, <2>1 DEF Outdated
  <2>2. CASE q = p
    <3>1. seen[p].ver \in Nat
      BY <1>1 DEF Requests
    <3>2. doneVer[p] <= rhs[p].ver
      BY DEF IInv, Consistent, Prepared
    <3>3. rhs[p].ver > seen[p].ver
      BY <3>1, <3>2, <1>2, <2>2 DEF Outdated
    <3> QED
      BY <3>3, <1>3, <2>2 DEF Outdated
  <2> QED
    BY <2>1, <2>2
<1>11. ASSUME ~Overlapping
       PROVE  Alone' \/ (ops \in Cancelable /\ Split)'
  <2>1. CASE Alone
    BY <2>1, <1>6, <1>7, <1>9, <1>10 DEF Alone
  <2>2. CASE ops \in Cancelable /\ Split
    <3>1. \A q \in Processes \ {Home} :
             /\ Active(q)' => Handing(q)' \/ Leaving(rhs'[q])
             /\ seen'[q] # NoRequest => seen'[q].cancel \/ Outdated(q)'
      BY <2>2, <1>3, <1>7, <1>9, <1>10 DEF Split
    <3>2. ASSUME db'.state \in Finals
          PROVE  /\ ~Active(Home)'
                 /\ seen'[Home] # NoRequest =>
                       doneVer'[Home] > seen'[Home].ver
      <4>1. ~Active(Home) /\ Home \in Processes /\ p # Home
        BY <1>11, <2>2, <3>2, HomeUndoes DEF Split
      <4>2. doneVer'[Home] = doneVer[Home] /\ ~Active(Home)'
        BY <4>1, <1>3, <1>6, <1>7
      <4> QED
        BY <2>2, <3>2, <4>2 DEF Split
    <3> QED
      BY <2>2, <3>1, <3>2, <1>6 DEF Split
  <2> QED
    BY <1>11, <2>1, <2>2 DEF IInv, Consistent
<1> QED
  BY <1>6, <1>4, <1>5, <1>8, <1>11 DEF IInv, Consistent

(* The goroutine of p, now x, writes state s: it is done, or in the        *)
(* handler of s, or has noticed a cancel.                                  *)
LEMMA Writes ==
    ASSUME IInv, NEW p \in Processes, Active(p), ~Handing(p),
           db.state \notin Finals, NEW s \in Reach(ops),
           db' = [ver |-> db.ver + 1, state |-> s, cancel |-> db.cancel],
           NEW x, Coherent(x, ops, db'), Put(p, x),
           UNCHANGED <<ops, seen>>,
           \/ x = Idle /\ doneVer' = [doneVer EXCEPT ![p] = db.ver + 1]
           \/ /\ doneVer' = doneVer
              /\ s \notin Finals /\ x.ver = db.ver + 1
              /\ rhs[p].undos # <<>> => x.undos # <<>>
              /\ \/ x.pc = "run" /\ x.todo[1] = s
                 \/ /\ x.pc = "next" /\ x.part = "forward" /\ x.canceling
                    /\ ~Leaving(rhs[p]),
           ~Running(p) /\ Leaving(rhs[p]) => x = Idle \/ Leaving(x),
           Leaving(rhs[p]) => s \notin Finals
    PROVE  Consistent'
<1>1. /\ rhs \in [Processes -> Handlers] /\ db \in Requests
      /\ doneVer \in [Processes -> Nat] /\ seen \in [Processes -> Requests]
      /\ ops \in OpSets
  BY DEF IInv, TypeOK
<1>2. rhs[p] \in Handlers /\ rhs[p].ver \in Nat /\ db.ver \in Nat
      /\ doneVer[p] \in Nat /\ rhs[p].ver <= db.ver
      /\ doneVer[p] <= rhs[p].ver /\ x \in Handlers
      /\ \A q \in Processes : seen[q].ver \in Nat /\ seen[q].ver <= db.ver
  BY <1>1 DEF Handlers, Requests, IInv, Consistent, Coherent, Known, Prepared
<1>3. /\ rhs'[p] = x
      /\ \A q \in Processes : q # p =>
            rhs'[q] = rhs[q] /\ doneVer'[q] = doneVer[q]
  BY <1>1 DEF Put
<1>4. \A q \in Processes : Coherent(rhs'[q], ops, db')
  <2>1. db.ver <= db'.ver /\ db'.ver \in Nat
    BY <1>2
  <2> QED
    BY <2>1, <1>2, <1>3, CoherentLater DEF IInv, Consistent
<1>5. \A q \in Processes : Known(q)'
  BY <1>2 DEF IInv, Consistent, Known
<1>6. Home' = Home /\ Owner' = GetProcess(s, ops)
      /\ (Overlapping' <=> Overlapping)
  BY DEF Home, Owner, Overlapping
<1>17. \/ /\ x = Idle /\ x.pc = "none"
          /\ doneVer' = [doneVer EXCEPT ![p] = db.ver + 1]
       \/ /\ x # Idle /\ x.pc \in {"run", "next"} /\ doneVer' = doneVer
          /\ x.ver = db.ver + 1 /\ s \notin Finals
  <2>1. Idle.pc = "none"
    BY DEF Idle
  <2>2. CASE x = Idle /\ doneVer' = [doneVer EXCEPT ![p] = db.ver + 1]
    BY <2>1, <2>2
  <2>3. CASE /\ x.pc \in {"run", "next"} /\ doneVer' = doneVer
             /\ x.ver = db.ver + 1 /\ s \notin Finals
    BY <2>1, <2>3
  <2> QED
    BY <2>2, <2>3
<1>7. /\ Active(p)' <=> x # Idle
      /\ \A q \in Processes : q # p => (Active(q)' <=> Active(q))
  <2>1. Active(p)' <=> x.pc # "none"
    BY <1>3 DEF Active
  <2>2. \A q \in Processes : q # p => (Active(q)' <=> Active(q))
    BY <1>3 DEF Active
  <2> QED
    BY <2>1, <2>2, <1>17
<1>8. \A q \in Processes : Prepared(q)'
  <2> SUFFICES ASSUME NEW q \in Processes
               PROVE  Prepared(q)'
    OBVIOUS
  <2>1. Prepared(q)
    BY DEF IInv, Consistent
  <2>2. CASE q # p
    BY <1>3, <1>6, <1>7, <2>1, <2>2 DEF Prepared
  <2>3. CASE q = p /\ x # Idle
    <3>1. doneVer'[p] <= x.ver
      BY <2>3, <1>2, <1>17
    <3>2. rhs[p].undos # <<>> => x.undos # <<>>
      BY <2>3
    <3> QED
      BY <1>3, <1>6, <1>7, <2>1, <2>3, <3>1, <3>2 DEF Prepared
  <2>4. CASE q = p /\ x = Idle
    BY <1>7, <2>4 DEF Prepared
  <2> QED
    BY <2>2, <2>3, <2>4
<1>9. \A q \in Processes : q # p => (Handing(q)' <=> Handing(q))
  BY <1>3 DEF Handing, Running, Own
<1>10. \A q \in Processes : q # p /\ Outdated(q) => Outdated(q)'
  BY <1>3, <1>7 DEF Outdated
<1>11. Outdated(p)'
  <2>1. CASE x = Idle
    <3>1. doneVer'[p] = db.ver + 1
      BY <2>1, <1>1, <1>17
    <3> QED
      BY <3>1, <1>2 DEF Outdated
  <2>2. CASE x # Idle
    <3>1. x.ver > seen[p].ver
      BY <2>2, <1>2, <1>17
    <3> QED
      BY <2>2, <3>1, <1>3, <1>7 DEF Outdated
  <2> QED
    BY <2>1, <2>2
<1>12. x.pc = "run" => Handing(p)' \/ Owner' = p
  <2>1. x.pc = "run" => x.todo[1] = s
    BY <1>17
  <2> QED
    BY <2>1, <1>3, <1>6 DEF Handing, Running, Own
<1>13. ASSUME Alone /\ Owner = p
       PROVE  Alone' \/ (ops \in Cancelable /\ Split)'
  <2>1. \A q \in Processes : q # p /\ Active(q)' => Handing(q)'
    BY <1>13, <1>7, <1>9 DEF Alone
  <2>2. \A q \in Processes : seen'[q] # NoRequest => Outdated(q)'
    BY <1>13, <1>10, <1>11 DEF Alone
  <2>3. CASE x = Idle \/ x.pc = "run"
    <3>1. Alone'
      BY <2>1, <2>2, <2>3, <1>7, <1>12 DEF Alone
    <3> QED
      BY <3>1
  <2>4. CASE x # Idle /\ x.pc = "next"
    <3>1. Leaving(x) /\ x.canceling
      BY <2>4 DEF Leaving
    <3>2. db'.cancel /\ ops \in Cancelable
      BY <3>1 DEF Coherent, IInv, Consistent
    <3>3. \A q \in Processes \ {Home} :
             /\ Active(q)' => Handing(q)' \/ Leaving(rhs'[q])
             /\ seen'[q] # NoRequest => seen'[q].cancel \/ Outdated(q)'
      BY <2>1, <2>2, <3>1, <1>3
    <3>4. Split'
      BY <2>4, <3>2, <3>3, <1>6 DEF Split
    <3> QED
      BY <3>2, <3>4
  <2> QED
    BY <2>3, <2>4
<1>14. ASSUME /\ Split /\ ops \in Cancelable
              /\ p = Home \/ (Leaving(rhs[p]) /\ ~Running(p))
       PROVE  Alone' \/ (ops \in Cancelable /\ Split)'
  <2>1. db'.cancel
    BY <1>14 DEF Split
  <2>2. \A q \in Processes \ {Home} :
           /\ Active(q)' => Handing(q)' \/ Leaving(rhs'[q])
           /\ seen'[q] # NoRequest => seen'[q].cancel \/ Outdated(q)'
    <3> SUFFICES ASSUME NEW q \in Processes \ {Home}
                 PROVE  /\ Active(q)' => Handing(q)' \/ Leaving(rhs'[q])
                        /\ seen'[q] # NoRequest =>
                              seen'[q].cancel \/ Outdated(q)'
      OBVIOUS
    <3>1. CASE q # p
      BY <3>1, <1>3, <1>7, <1>9, <1>10, <1>14 DEF Split
    <3>2. CASE q = p
      <4>1. Leaving(rhs[p]) /\ ~Running(p)
        BY <3>2, <1>14
      <4> QED
        BY <4>1, <3>2, <1>3, <1>7, <1>11
    <3> QED
      BY <3>1, <3>2
  <2>3. db'.state \in Finals =>
           /\ ~Active(Home)'
           /\ seen'[Home] # NoRequest => doneVer'[Home] > seen'[Home].ver
    <3> SUFFICES ASSUME s \in Finals
                 PROVE  /\ ~Active(Home)'
                        /\ seen'[Home] # NoRequest =>
                              doneVer'[Home] > seen'[Home].ver
      OBVIOUS
    <3>1. x = Idle
      BY <1>17
    <3>2. p = Home
      BY <1>14
    <3>3. ~Active(p)' /\ doneVer'[p] > seen'[p].ver
      BY <3>1, <1>7, <1>11 DEF Outdated
    <3> QED
      BY <3>2, <3>3, <1>6
  <2> QED
    BY <2>1, <2>2, <2>3, <1>6, <1>14 DEF Split
<1>15. ASSUME ~Overlapping
       PROVE  Alone' \/ (ops \in Cancelable /\ Split)'
  BY <1>15, <1>13, <1>14, Positions
<1>16. db'.ver > 0 /\ db'.state \in Reach(ops)
  BY <1>2
<1> QED
  BY <1>6, <1>4, <1>5, <1>8, <1>15, <1>16 DEF IInv, Consistent

-----------------------------------------------------------------------------
(* The steps of a goroutine *)

(* The heads of the loops of requestAnimator (request.go), and its end.    *)
LEMMA NextStateStep ==
    ASSUME IInv, NEW p \in Processes, NextState(p)
    PROVE  Consistent'
<1> DEFINE r == rhs[p]
<1>1. /\ r.pc = "next" /\ Active(p) /\ ~Running(p) /\ ~Handing(p)
      /\ UNCHANGED <<ops, db, seen, doneVer>>
  BY DEF NextState, Active, Running, Handing
<1>2. Coherent(r, ops, db) /\ r \in Handlers /\ ops \in OpSets
  BY DEF IInv, TypeOK, Consistent, Coherent
<1>3. CASE /\ r.part = "forward" /\ r.todo # <<>> /\ ~r.inError
           /\ ~r.canceling /\ Put(p, Enter(r, r.todo[1]))
  <2>1. r.todo[1] \in States
    BY <1>2, <1>3 DEF Handlers
  <2>2. ~Leaving(r)
    BY <1>3 DEF Leaving
  <2> QED
    BY <1>1, <1>2, <1>3, <2>1, <2>2, Enters, Works
<1>4. CASE /\ r.part = "forward"
           /\ ~(r.todo # <<>> /\ ~r.inError /\ ~r.canceling)
           /\ Put(p, [r EXCEPT !.abortUndo = FALSE,
                        !.part = IF r.inError \/ r.canceling
                                 THEN "undo" ELSE "final",
                        !.todo = Reverse(r.undos)])
  <2> DEFINE x == [r EXCEPT !.abortUndo = FALSE,
                     !.part = IF r.inError \/ r.canceling
                              THEN "undo" ELSE "final",
                     !.todo = Reverse(r.undos)]
  <2>1. /\ r.undos \in Seq(Undoing(ops)) /\ r.undos \in Seq(States)
        /\ r.state \notin Finals
    BY <1>1, <1>2 DEF Coherent, Handlers
  <2>2. /\ Reverse(r.undos) \in Seq(Undoing(ops))
        /\ Reverse(r.undos) \in Seq(States)
        /\ r.undos # <<>> => Reverse(r.undos) # <<>>
    BY <2>1, Reversed
  <2>3. /\ x.part = (IF r.inError \/ r.canceling THEN "undo" ELSE "final")
        /\ x.todo = Reverse(r.undos) /\ x.abortUndo = FALSE
        /\ x.pc = "next" /\ x.state = r.state /\ x.undos = r.undos
        /\ x.ver = r.ver /\ x.cancel = r.cancel /\ x.canceling = r.canceling
    BY <1>1, <1>2 DEF Handlers
  <2>4. x \in Handlers
    BY <1>2, <2>2 DEF Handlers
  <2> HIDE DEF x
  <2>5. Coherent(x, ops, db)
    BY <1>2, <2>1, <2>2, <2>3, <2>4 DEF Coherent
  <2>6. ~Overlapping /\ ops \in Cancelable /\ p # Home => r.undos # <<>>
    BY <1>1 DEF IInv, Consistent, Prepared
  <2>7. Leaving(r) => r.canceling
    BY <1>4 DEF Leaving
  <2>8. ~Overlapping /\ ops \in Cancelable /\ p # Home /\ Leaving(r) =>
           Leaving(x)
    BY <2>2, <2>3, <2>6, <2>7 DEF Leaving
  <2>9. Put(p, x)
    BY <1>4 DEF x
  <2> QED
    BY <1>1, <2>3, <2>5, <2>8, <2>9, Works
<1>5. CASE /\ r.part = "undo" /\ r.todo # <<>> /\ ~r.abortUndo
           /\ Put(p, Enter(r, r.todo[1]))
  <2>1. r.todo[1] \in States
    BY <1>2, <1>5 DEF Handlers
  <2>2. Leaving(Enter(r, r.todo[1]))
    BY <1>1, <1>2, <1>5, <2>1, Enters DEF Leaving
  <2> QED
    BY <1>1, <1>2, <1>5, <2>1, <2>2, Enters, Works
<1>6. CASE /\ r.part = "undo" /\ ~(r.todo # <<>> /\ ~r.abortUndo)
           /\ Put(p, [r EXCEPT !.part = "final"])
  <2> DEFINE x == [r EXCEPT !.part = "final"]
  <2>1. /\ x.part = "final" /\ x.todo = r.todo /\ x.pc = "next"
        /\ x.state = r.state /\ x.undos = r.undos /\ x.ver = r.ver
        /\ x.cancel = r.cancel /\ x.canceling = r.canceling
        /\ x \in Handlers
    BY <1>1, <1>2 DEF Handlers
  <2> HIDE DEF x
  <2>2. Coherent(x, ops, db)
    BY <1>1, <1>2, <2>1 DEF Coherent
  <2>3. ~Leaving(r)
    BY <1>6 DEF Leaving
  <2>4. Put(p, x)
    BY <1>6 DEF x
  <2> QED
    BY <1>1, <2>1, <2>2, <2>3, <2>4, Works
<1>7. CASE r.part = "final" /\ Put(p, Enter(r, FinalState(r)))
  <2>1. FinalState(r) \in Finals
    BY DEF FinalState, Finals
  <2>2. FinalState(r) \in States
    BY <2>1, Terminals
  <2>3. ~Leaving(r)
    BY <1>7 DEF Leaving
  <2> QED
    BY <1>1, <1>2, <1>7, <2>1, <2>2, <2>3, Enters, Works
<1> QED
  BY <1>3, <1>4, <1>5, <1>6, <1>7 DEF NextState

(* What the goroutine of p, about to write its state, may write.           *)
LEMMA Writable ==
    ASSUME NEW r, TypeOK, Coherent(r, ops, db), r.pc = "write"
    PROVE  /\ r.state \in Reach(ops)
           /\ r.part = "final" <=> r.state \in Finals
           /\ r.part = "final" \/ HandlersWrite(r) \/ r.state = r.todo[1]
           /\ r.part \in {"forward", "undo"} => r.todo # <<>>
<1>1. ops \in OpSets
  BY DEF TypeOK
<1>2. CASE r.part = "forward"
  <2>1. /\ r.todo \in Seq(Planned(ops)) /\ r.todo # <<>>
        /\ r.state = r.todo[1] \/ r.state \in WaitStates(r.todo[1])
    BY <1>2 DEF Coherent
  <2>2. r.todo[1] \in Planned(ops)
    BY <2>1
  <2>3. r.todo[1] \in Working /\ WaitStates(r.todo[1]) \subseteq Working
    BY <1>1, <2>2, PlanStates, WaitsWork DEF Working
  <2>4. WaitStates(r.todo[1]) \subseteq Reach(ops) /\ r.todo[1] \in Reach(ops)
    BY <2>2 DEF Reach
  <2> QED
    BY <1>2, <2>1, <2>3, <2>4 DEF HandlersWrite, Working
<1>3. CASE r.part = "undo"
  <2>1. r.todo \in Seq(Undoing(ops)) /\ r.todo # <<>> /\ r.state = r.todo[1]
    BY <1>3 DEF Coherent
  <2>2. r.todo[1] \in Undoing(ops)
    BY <2>1
  <2>3. r.todo[1] \in Working /\ r.todo[1] \in Reach(ops)
    BY <1>1, <2>2, PlanStates DEF Reach
  <2> QED
    BY <1>3, <2>1, <2>3 DEF Working
<1>4. CASE r.part = "final"
  BY <1>4 DEF Coherent, Reach
<1> QED
  BY <1>2, <1>3, <1>4 DEF Coherent, Handlers

(* A goroutine takes over the version of what it wrote.                    *)
LEMMA HandlerVersion ==
    ASSUME NEW r \in Handlers, NEW v \in Nat
    PROVE  [r EXCEPT !.ver = v] \in Handlers
BY DEF Handlers

(* SetAndUpdateRequestState (request.go) succeeds.                         *)
LEMMA UpdateOKStep ==
    ASSUME IInv, NEW p \in Processes, UpdateOK(p)
    PROVE  Consistent'
<1> DEFINE o == rhs[p]
           r == [o EXCEPT !.ver = db.ver + 1]
           x == [r EXCEPT !.pc = IF r.part = "forward" /\ r.canceling
                                 THEN "next" ELSE "run"]
<1>1. /\ o.pc = "write" /\ Active(p) /\ ~Running(p) /\ ~Handing(p)
      /\ ~IsTerminal(db.state) /\ UNCHANGED <<ops, seen>>
      /\ o.ver = db.ver
  BY DEF UpdateOK, Active, Running, Handing, IInv, TypeOK, Handlers
<1>2. /\ Coherent(o, ops, db) /\ o \in Handlers /\ ops \in OpSets
      /\ db \in Requests /\ TypeOK /\ db.ver \in Nat /\ db.ver + 1 \in Nat
  BY DEF IInv, TypeOK, Consistent, Coherent, Requests
<1>3. db.state \notin Finals
  BY <1>1, <1>2, Terminals DEF Requests
<1>4. /\ r.ver = db.ver + 1 /\ r.part = o.part /\ r.state = o.state
      /\ r.todo = o.todo /\ r.canceling = o.canceling
      /\ HandlersWrite(r) <=> HandlersWrite(o)
  BY <1>2 DEF Handlers, HandlersWrite
<1>5. db' = [ver |-> db.ver + 1, state |-> o.state, cancel |-> db.cancel]
  BY <1>2, <1>4 DEF UpdateOK, Requests
<1>6. /\ o.state \in Reach(ops)
      /\ o.part = "final" <=> o.state \in Finals
      /\ o.part = "final" \/ HandlersWrite(o) \/ o.state = o.todo[1]
      /\ o.part \in {"forward", "undo"} => o.todo # <<>>
  BY <1>1, <1>2, Writable
<1>7. Leaving(o) => o.part = "undo"
  BY <1>1 DEF Leaving
<1>8. CASE o.part = "final" \/ HandlersWrite(o)
  <2>1. Finish(p, r)
    BY <1>4, <1>8 DEF UpdateOK
  <2>2. /\ Put(p, Idle) /\ doneVer' = [doneVer EXCEPT ![p] = db.ver + 1]
    BY <1>4, <2>1 DEF Finish, Put
  <2>3. Coherent(Idle, ops, db')
    BY <1>2, <1>5, IdleCoherent
  <2> HIDE DEF r, x
  <2> QED
    BY <1>1, <1>3, <1>5, <1>6, <1>7, <2>2, <2>3, Writes
<1>9. CASE ~(o.part = "final" \/ HandlersWrite(o))
  <2>1. Put(p, x) /\ doneVer' = doneVer
    BY <1>4, <1>9 DEF UpdateOK
  <2>2. /\ x.pc = (IF o.part = "forward" /\ o.canceling THEN "next" ELSE "run")
        /\ x.part = o.part /\ x.state = o.state /\ x.todo = o.todo
        /\ x.undos = o.undos /\ x.ver = db.ver + 1 /\ x.cancel = o.cancel
        /\ x.canceling = o.canceling /\ x.abortUndo = o.abortUndo
    BY <1>2 DEF Handlers
  <2>10. r \in Handlers
    BY <1>2, HandlerVersion
  <2> HIDE DEF r
  <2>3. x \in Handlers
    BY <2>10 DEF Handlers
  <2> HIDE DEF x
  <2>4. o.state = o.todo[1] /\ o.state \notin Finals /\ o.part # "final"
        /\ o.todo # <<>>
    BY <1>6, <1>9, <1>2 DEF Handlers
  <2>5. Coherent(x, ops, db')
    BY <1>1, <1>2, <1>5, <2>2, <2>3, <2>4 DEF Coherent
  <2>6. Leaving(o) => Leaving(x)
    BY <1>7, <2>2 DEF Leaving
  <2>7. x.pc = "next" => /\ x.part = "forward" /\ x.canceling /\ ~Leaving(o)
    BY <1>7, <2>2
  <2>8. x.pc \in {"run", "next"}
    BY <2>2
  <2> QED
    BY <1>1, <1>3, <1>5, <1>6, <2>1, <2>2, <2>4, <2>5, <2>6, <2>7, <2>8,
       Writes
<1> QED
  BY <1>8, <1>9

(* The version has changed: UpdateRequestWithItems fetches the request     *)
(* again.                                                                  *)
LEMMA UpdateConflictStep ==
    ASSUME IInv, NEW p \in Processes, UpdateConflict(p)
    PROVE  Consistent'
<1> DEFINE x == Refetched(rhs[p])
<1>1. /\ rhs[p].pc = "write" /\ Active(p) /\ ~Running(p) /\ ~Handing(p)
      /\ UNCHANGED <<ops, db, seen, doneVer>> /\ Put(p, x)
  BY DEF UpdateConflict, Active, Running, Handing
<1>2. Coherent(rhs[p], ops, db) /\ db \in Requests
  BY DEF IInv, TypeOK, Consistent
<1>3. /\ Coherent(x, ops, db) /\ x.ver = db.ver /\ x.pc = "write"
      /\ x.part = rhs[p].part /\ x.todo = rhs[p].todo
      /\ x.abortUndo = rhs[p].abortUndo /\ x.undos = rhs[p].undos
  BY <1>1, <1>2, Refetches
<1>4. Leaving(rhs[p]) => Leaving(x)
  BY <1>1, <1>3 DEF Leaving
<1> QED
  BY <1>1, <1>3, <1>4, Works

(* The request has terminated meanwhile, or the call fails.                *)
LEMMA UpdateFailsStep ==
    ASSUME IInv, NEW p \in Processes, UpdateFails(p)
    PROVE  Consistent'
<1> DEFINE r == rhs[p]
           undos == IF Undo(r.todo[1]) = None THEN r.undos
                    ELSE Append(r.undos, Undo(r.todo[1]))
           x == [r EXCEPT !.inError = TRUE, !.pc = "next", !.undos = undos]
<1>1. /\ r.pc = "write" /\ Active(p) /\ ~Running(p) /\ ~Handing(p)
      /\ UNCHANGED <<ops, db, seen>>
  BY DEF UpdateFails, Active, Running, Handing
<1>2. Coherent(r, ops, db) /\ r \in Handlers /\ ops \in OpSets
  BY DEF IInv, TypeOK, Consistent, Coherent
<1>3. CASE /\ HandlersWrite(r) /\ r.state = "STORAGE_WAIT"
           /\ Put(p, x) /\ doneVer' = doneVer
  <2>1. /\ r.part = "forward" /\ r.todo # <<>> /\ r.todo \in Seq(Planned(ops))
        /\ r.undos \in Seq(Undoing(ops))
    BY <1>1, <1>2, <1>3 DEF HandlersWrite, Coherent
  <2>2. r.todo[1] \in Planned(ops)
    BY <2>1
  <2>10. Undo(r.todo[1]) # None => Undo(r.todo[1]) \in Undoing(ops)
    BY <2>2 DEF Undoing
  <2>3. undos \in Seq(Undoing(ops)) /\ (r.undos # <<>> => undos # <<>>)
    BY <2>1, <2>10
  <2>4. undos \in Seq(States)
    BY <1>2, <2>3, PlanStates DEF Working
  <2> HIDE DEF undos
  <2>5. /\ x.pc = "next" /\ x.part = r.part /\ x.state = r.state
        /\ x.todo = r.todo /\ x.undos = undos /\ x.ver = r.ver
        /\ x.cancel = r.cancel /\ x.canceling = r.canceling
    BY <1>2 DEF Handlers
  <2>6. x \in Handlers
    BY <1>2, <2>4 DEF Handlers
  <2> HIDE DEF x
  <2>7. r.state \notin Finals
    BY <1>3 DEF Finals
  <2>8. Coherent(x, ops, db)
    BY <1>2, <2>1, <2>3, <2>5, <2>6, <2>7 DEF Coherent
  <2>9. ~Leaving(r)
    BY <1>1, <2>1 DEF Leaving
  <2> QED
    BY <1>1, <1>3, <2>3, <2>5, <2>8, <2>9, Works
<1>4. CASE Finish(p, r)
  BY <1>1, <1>4, Finishes
<1> QED
  BY <1>3, <1>4 DEF UpdateFails

(* In a handler of its own.                                                *)
LEMMA InHandler ==
    ASSUME IInv, NEW p \in Processes, Running(p), Own(p)
    PROVE  /\ Active(p) /\ ~Handing(p)
           /\ Coherent(rhs[p], ops, db) /\ rhs[p] \in Handlers
           /\ rhs[p].pc = "run" /\ rhs[p].part # "final"
           /\ rhs[p].todo # <<>> /\ rhs[p].todo[1] \in Working
           /\ rhs[p].state = rhs[p].todo[1] /\ rhs[p].todo[1] \in Reach(ops)
<1>1. /\ Coherent(rhs[p], ops, db) /\ rhs[p].pc = "run" /\ ops \in OpSets
  BY DEF IInv, Consistent, TypeOK, Running
<1>2. /\ rhs[p] \in Handlers /\ rhs[p].part # "final" /\ rhs[p].todo # <<>>
      /\ rhs[p].state = rhs[p].todo[1]
  BY <1>1 DEF Coherent
<1>3. CASE rhs[p].part = "forward"
  <2>1. rhs[p].todo[1] \in Planned(ops)
    BY <1>1, <1>2, <1>3 DEF Coherent
  <2> QED
    BY <1>1, <1>2, <2>1, PlanStates DEF Reach, Active, Handing
<1>4. CASE rhs[p].part = "undo"
  <2>1. rhs[p].todo[1] \in Undoing(ops)
    BY <1>1, <1>2, <1>4 DEF Coherent
  <2> QED
    BY <1>1, <1>2, <2>1, PlanStates DEF Reach, Active, Handing
<1> QED
  BY <1>2, <1>3, <1>4 DEF Handlers

(* What handlers report, and the default handlers that hand over.          *)
LEMMA HandlerStep ==
    ASSUME IInv, NEW p \in Processes, Handler(p)
    PROVE  Consistent'
<1> DEFINE r == rhs[p]
           s == r.todo[1]
           a == Advance(r)
<1>1. CASE HandOver(p)
  BY <1>1, Finishes DEF HandOver, Running, Active
<1>2. ~HandOver(p) => Running(p) /\ Own(p)
  BY DEF Handler, HandlerDone, HandlerRetries, HandlerWaits, HandlerSaves,
         HandlerFails, HandlerPanics, HandlerIsLate
<1> SUFFICES ASSUME Running(p), Own(p)
             PROVE  Consistent'
  BY <1>1, <1>2
<1>3. /\ Active(p) /\ ~Handing(p) /\ Coherent(r, ops, db) /\ r \in Handlers
      /\ r.pc = "run" /\ r.part # "final" /\ r.todo # <<>> /\ s \in Working
      /\ r.state = s /\ s \in Reach(ops) /\ ops \in OpSets
  BY InHandler DEF IInv, TypeOK
<1>4. /\ Coherent(a, ops, db) /\ a.pc = "next" /\ a.ver = r.ver
      /\ r.undos # <<>> => a.undos # <<>>
      /\ a \in Handlers
  BY <1>3, Advances DEF Coherent
<1>5. CASE HandlerDone(p)
  BY <1>3, <1>4, <1>5, Works DEF HandlerDone
<1>6. CASE HandlerRetries(p)
  BY <1>3, <1>6, Finishes DEF HandlerRetries
<1>7. CASE HandlerWaits(p)
  <2>1. PICK w \in WaitStates(s) :
           Put(p, [r EXCEPT !.state = w, !.pc = "write"])
    BY <1>7 DEF HandlerWaits
  <2> DEFINE x == [r EXCEPT !.state = w, !.pc = "write"]
  <2>2. r.part = "forward" /\ UNCHANGED <<ops, db, seen, doneVer>>
    BY <1>7 DEF HandlerWaits
  <2>3. w \in States
    BY <1>3, WaitsWork DEF Working
  <2>4. /\ x.pc = "write" /\ x.part = r.part /\ x.state = w
        /\ x.todo = r.todo /\ x.undos = r.undos /\ x.ver = r.ver
        /\ x.cancel = r.cancel /\ x.canceling = r.canceling
    BY <1>3 DEF Handlers
  <2>5. x \in Handlers
    BY <1>3, <2>3 DEF Handlers
  <2>6. Put(p, x)
    BY <2>1
  <2> HIDE DEF x
  <2>7. Coherent(x, ops, db)
    BY <1>3, <2>2, <2>4, <2>5 DEF Coherent
  <2> QED
    BY <1>3, <2>2, <2>4, <2>6, <2>7, Works
<1>8. CASE HandlerSaves(p)
  <2> DEFINE f == Refetched(r)
             x == [f EXCEPT !.ver = db.ver + 1]
  <2>1. db \in Requests /\ db.ver \in Nat
    BY DEF IInv, TypeOK, Requests
  <2>2. db.state \notin Finals
    BY <1>8, <2>1, Terminals DEF HandlerSaves, Requests
  <2>3. db' = [ver |-> db.ver + 1, state |-> s, cancel |-> db.cancel]
    BY <1>3, <1>8, <2>1 DEF HandlerSaves, Requests
  <2>4. /\ Coherent(f, ops, db) /\ f.pc = "run" /\ f.part = r.part
        /\ f.todo = r.todo /\ f.undos = r.undos /\ f.state = s
        /\ f.abortUndo = r.abortUndo /\ f \in Handlers
    BY <1>3, <2>1, Refetches DEF Coherent
  <2>5. Put(p, x) /\ UNCHANGED <<ops, seen, doneVer>>
    BY <1>8 DEF HandlerSaves
  <2> HIDE DEF f
  <2>6. /\ x.pc = "run" /\ x.part = r.part /\ x.todo = r.todo
        /\ x.undos = r.undos /\ x.state = s /\ x.abortUndo = r.abortUndo
        /\ x.ver = db.ver + 1 /\ x.cancel = f.cancel
        /\ x.canceling = f.canceling
    BY <2>4 DEF Handlers
  <2>7. x \in Handlers
    BY <2>1, <2>4, HandlerVersion
  <2> HIDE DEF x
  <2>8. db'.ver = db.ver + 1 /\ db'.cancel = db.cancel
    BY <2>3
  <2>9. Coherent(x, ops, db')
    BY <1>3, <2>1, <2>4, <2>6, <2>7, <2>8 DEF Coherent
  <2>10. s \notin Finals
    BY <1>3 DEF Working
  <2> QED
    BY <1>3, <2>2, <2>3, <2>5, <2>6, <2>9, <2>10, Writes
<1>9. CASE HandlerFails(p)
  <2>1. PICK abort \in BOOLEAN :
           Put(p, [a EXCEPT !.inError = TRUE, !.abortUndo = abort])
    BY <1>9 DEF HandlerFails
  <2> DEFINE x == [a EXCEPT !.inError = TRUE, !.abortUndo = abort]
  <2>2. UNCHANGED <<ops, db, seen, doneVer>>
    BY <1>9 DEF HandlerFails
  <2> HIDE DEF a
  <2>3. /\ x.pc = "next" /\ x.part = a.part /\ x.state = a.state
        /\ x.todo = a.todo /\ x.undos = a.undos /\ x.ver = a.ver
        /\ x.cancel = a.cancel /\ x.canceling = a.canceling
    BY <1>4 DEF Handlers
  <2>4. x \in Handlers
    BY <1>4 DEF Handlers
  <2>5. Put(p, x)
    BY <2>1
  <2> HIDE DEF x
  <2>6. Coherent(x, ops, db)
    BY <1>4, <2>3, <2>4 DEF Coherent
  <2> QED
    BY <1>3, <1>4, <2>2, <2>3, <2>5, <2>6, Works
<1>10. CASE HandlerPanics(p)
  <2> DEFINE x == Panicked(r)
  <2>1. Put(p, x) /\ UNCHANGED <<ops, db, seen, doneVer>>
    BY <1>10 DEF HandlerPanics
  <2>2. r.state \notin Finals
    BY <1>3 DEF Working
  <2>3. /\ Coherent(x, ops, db)
        /\ x.pc = "next" /\ x.part = "final" /\ x.ver = r.ver
        /\ x.undos = r.undos
    BY <1>3, <2>2, Panics
  <2> HIDE DEF x
  <2> QED
    BY <1>3, <2>1, <2>3, Works
<1>11. CASE HandlerIsLate(p)
  <2> DEFINE x == [a EXCEPT !.timedOut = FALSE]
  <2>1. Put(p, x) /\ UNCHANGED <<ops, db, seen, doneVer>>
    BY <1>11 DEF HandlerIsLate
  <2> HIDE DEF a
  <2>2. /\ x.pc = "next" /\ x.part = a.part /\ x.state = a.state
        /\ x.todo = a.todo /\ x.undos = a.undos /\ x.ver = a.ver
        /\ x.cancel = a.cancel /\ x.canceling = a.canceling
    BY <1>4 DEF Handlers
  <2>3. x \in Handlers
    BY <1>4 DEF Handlers
  <2> HIDE DEF x
  <2>4. Coherent(x, ops, db)
    BY <1>4, <2>2, <2>3 DEF Coherent
  <2> QED
    BY <1>3, <1>4, <2>1, <2>2, <2>4, Works
<1> QED
  BY <1>1, <1>5, <1>6, <1>7, <1>8, <1>9, <1>10, <1>11 DEF Handler

-----------------------------------------------------------------------------
(* The steps of a run loop and of the environment *)

(* RunBody lists the requests of a daemon (animator.go).                   *)
LEMMA ListStep ==
    ASSUME IInv, NEW p \in Processes, List(p)
    PROVE  Consistent'
<1>1. /\ seen \in [Processes -> Requests] /\ doneVer \in [Processes -> Nat]
      /\ db \in Requests /\ rhs \in [Processes -> Handlers]
      /\ db.ver \in Nat /\ rhs[p].ver \in Nat
  BY DEF IInv, TypeOK, Requests, Handlers
<1>2. /\ Owner = p /\ UNCHANGED <<ops, db, rhs>>
      /\ seen'[p] = db /\ doneVer'[p] = 0
      /\ \A q \in Processes : q # p =>
            seen'[q] = seen[q] /\ doneVer'[q] = doneVer[q]
  BY <1>1 DEF List, Owner
<1>3. Home' = Home /\ Owner' = Owner /\ (Overlapping' <=> Overlapping)
  BY <1>2 DEF Home, Owner, Overlapping
<1>4. \A q \in Processes : /\ Active(q)' <=> Active(q)
                           /\ Handing(q)' <=> Handing(q)
  BY <1>2 DEF Active, Handing, Running, Own
<1>5. \A q \in Processes : Coherent(rhs'[q], ops', db')
  BY <1>2 DEF IInv, Consistent
<1>6. \A q \in Processes : Known(q)'
  <2> SUFFICES ASSUME NEW q \in Processes
               PROVE  Known(q)'
    OBVIOUS
  <2>1. CASE q # p
    BY <1>2, <2>1 DEF IInv, Consistent, Known
  <2>2. CASE q = p
    BY <1>1, <1>2, <2>2 DEF IInv, Consistent, Known, Owner
  <2> QED
    BY <2>1, <2>2
<1>7. \A q \in Processes : Prepared(q)'
  <2> SUFFICES ASSUME NEW q \in Processes
               PROVE  Prepared(q)'
    OBVIOUS
  <2>1. Prepared(q)
    BY DEF IInv, Consistent
  <2>2. CASE q # p
    BY <1>2, <1>3, <1>4, <2>1, <2>2 DEF Prepared
  <2>3. CASE q = p
    <3>1. doneVer'[p] <= rhs[p].ver
      BY <1>1, <1>2
    <3> QED
      BY <1>2, <1>3, <1>4, <2>1, <2>3, <3>1 DEF Prepared
  <2> QED
    BY <2>2, <2>3
<1>8. \A q \in Processes : q # p /\ Outdated(q) => Outdated(q)'
  BY <1>2, <1>4 DEF Outdated
<1>9. db.state \notin Finals
  BY <1>1, <1>2, OwnedWorks DEF Owner, Requests, Working
<1>10. ASSUME ~Overlapping
       PROVE  Alone' \/ (ops \in Cancelable /\ Split)'
  <2>1. CASE Alone
    BY <2>1, <1>2, <1>3, <1>4, <1>8 DEF Alone
  <2>2. CASE ops \in Cancelable /\ Split
    <3>1. \A q \in Processes \ {Home} :
             /\ Active(q)' => Handing(q)' \/ Leaving(rhs'[q])
             /\ seen'[q] # NoRequest => seen'[q].cancel \/ Outdated(q)'
      BY <2>2, <1>2, <1>4, <1>8 DEF Split
    <3> QED
      BY <2>2, <3>1, <1>2, <1>3, <1>9 DEF Split
  <2> QED
    BY <1>10, <2>1, <2>2 DEF IInv, Consistent
<1> QED
  BY <1>3, <1>2, <1>5, <1>6, <1>7, <1>10 DEF IInv, Consistent

(* The goroutine of p starts, or the request is skipped.                   *)
LEMMA Starts ==
    ASSUME IInv, NEW p \in Processes, seen[p] # NoRequest,
           NEW failed \in BOOLEAN,
           seen' = [seen EXCEPT ![p] = NoRequest],
           UNCHANGED <<ops, db, doneVer>>,
           \/ rhs' = rhs
           \/ ~skipProcessing(p) /\ Put(p, Begin(seen[p], failed))
           \/ /\ ~skipProcessing(p) /\ PlanReadsVolume(seen[p].state)
              /\ Put(p, Panicked(Begin(seen[p], failed)))
    PROVE  Consistent'
<1>1. /\ seen \in [Processes -> Requests] /\ doneVer \in [Processes -> Nat]
      /\ db \in Requests /\ rhs \in [Processes -> Handlers]
      /\ db.ver \in Nat /\ ops \in OpSets /\ vol \in Volumes
      /\ doneVer[p] \in Nat /\ seen[p] \in Requests /\ seen[p].ver \in Nat
  BY DEF IInv, TypeOK, Requests
<1>2. /\ seen'[p] = NoRequest
      /\ \A q \in Processes : q # p => seen'[q] = seen[q]
  BY <1>1
<1>3. Home' = Home /\ Owner' = Owner /\ (Overlapping' <=> Overlapping)
  BY DEF Home, Owner, Overlapping
<1>4. /\ NoRequest.ver <= db.ver /\ ~NoRequest.cancel
      /\ NoRequest.state \in Reach(ops)
  BY <1>1 DEF NoRequest, Reach
<1>5. \A q \in Processes : Known(q)'
  BY <1>2, <1>4 DEF IInv, Consistent, Known
<1>6. CASE rhs' = rhs
  <2>1. \A q \in Processes : /\ Active(q)' <=> Active(q)
                             /\ Handing(q)' <=> Handing(q)
    BY <1>6 DEF Active, Handing, Running, Own
  <2>2. \A q \in Processes : Coherent(rhs'[q], ops', db') /\ Prepared(q)'
    BY <1>3, <1>6, <2>1 DEF IInv, Consistent, Prepared
  <2>3. \A q \in Processes : q # p /\ Outdated(q) => Outdated(q)'
    BY <1>2, <1>6, <2>1 DEF Outdated
  <2>4. ASSUME ~Overlapping
      PROVE  Alone' \/ (ops \in Cancelable /\ Split)'
    <3>1. CASE Alone
      BY <3>1, <1>2, <1>3, <2>1, <2>3 DEF Alone
    <3>2. CASE ops \in Cancelable /\ Split
      <4>1. \A q \in Processes \ {Home} :
               /\ Active(q)' => Handing(q)' \/ Leaving(rhs'[q])
               /\ seen'[q] # NoRequest => seen'[q].cancel \/ Outdated(q)'
        BY <3>2, <1>2, <1>6, <2>1, <2>3 DEF Split
      <4>2. db'.state \in Finals =>
               /\ ~Active(Home)
               /\ seen'[Home] # NoRequest => doneVer'[Home] > seen'[Home].ver
        BY <2>4, <3>2, <1>2, HomeUndoes DEF Split
      <4> QED
        BY <2>4, <3>2, <4>1, <4>2, <1>3, <2>1, HomeUndoes DEF Split
    <3> QED
      BY <2>4, <3>1, <3>2 DEF IInv, Consistent
  <2> QED
    BY <1>3, <1>5, <2>2, <2>4 DEF IInv, Consistent
<1>7. ASSUME ~skipProcessing(p), NEW x, Put(p, x),
             \/ x = Begin(seen[p], failed)
             \/ /\ PlanReadsVolume(seen[p].state)
                /\ x = Panicked(Begin(seen[p], failed))
      PROVE  Consistent'
  <2>1. /\ ~Active(p) /\ doneVer[p] <= seen[p].ver /\ ~Outdated(p)
    BY <1>1, <1>7 DEF skipProcessing, Active, Outdated
  <2>2. /\ Known(p) /\ GetProcess(seen[p].state, ops) = p
        /\ seen[p].state \in Reach(ops) /\ seen[p].state \in Working
    <3>1. Known(p)
      BY DEF IInv, Consistent
    <3> QED
      BY <1>1, <3>1, OwnedWorks DEF Known, Requests
  <2>3. /\ Coherent(x, ops, db) /\ x.pc = "next" /\ x.ver = seen[p].ver
        /\ ~x.abortUndo /\ x.undos = UndoStates(ops, vol, seen[p].state)
        /\ \/ PlanReadsVolume(seen[p].state)
           \/ seen[p].cancel =>
                 x.part = "undo" /\ (x.undos # <<>> => x.todo # <<>>)
    <3> DEFINE b == Begin(seen[p], failed)
    <3>1. /\ Coherent(b, ops, db) /\ b.pc = "next" /\ b.ver = seen[p].ver
          /\ ~b.abortUndo /\ b.undos = UndoStates(ops, vol, seen[p].state)
          /\ seen[p].cancel =>
                b.part = "undo" /\ (b.undos # <<>> => b.todo # <<>>)
      BY <1>1, <2>2, Begins DEF IInv, Known
    <3> HIDE DEF b
    <3>2. /\ Coherent(Panicked(b), ops, db) /\ Panicked(b).pc = "next"
          /\ Panicked(b).ver = b.ver /\ Panicked(b).undos = b.undos
      BY <1>1, <3>1, Panics DEF Coherent
    <3>3. ~Panicked(b).abortUndo
      BY <3>1 DEF Coherent, Handlers, Panicked
    <3> QED
      BY <1>7, <3>1, <3>2, <3>3 DEF b
  <2>4. /\ rhs'[p] = x
        /\ \A q \in Processes : q # p => rhs'[q] = rhs[q]
    BY <1>1, <1>7 DEF Put
  <2>5. /\ Active(p)' /\ ~Handing(p)'
        /\ \A q \in Processes : q # p => /\ Active(q)' <=> Active(q)
                                         /\ Handing(q)' <=> Handing(q)
    BY <2>3, <2>4 DEF Active, Handing, Running, Own
  <2>6. ~Overlapping /\ ops \in Cancelable /\ p # Home => x.undos # <<>>
    BY <1>1, <2>2, <2>3, HomeUndoes DEF Contained
  <2>7. \A q \in Processes : Coherent(rhs'[q], ops', db')
    BY <1>3, <2>3, <2>4 DEF IInv, Consistent
  <2>8. \A q \in Processes : Prepared(q)'
    <3> SUFFICES ASSUME NEW q \in Processes
                 PROVE  Prepared(q)'
      OBVIOUS
    <3>1. CASE q # p
      BY <3>1, <1>3, <2>4, <2>5 DEF IInv, Consistent, Prepared
    <3>2. CASE q = p
      BY <3>2, <1>3, <2>1, <2>3, <2>4, <2>6 DEF Prepared
    <3> QED
      BY <3>1, <3>2
  <2>9. \A q \in Processes : q # p /\ Outdated(q) => Outdated(q)'
    BY <1>2, <2>4, <2>5 DEF Outdated
  <2>10. ASSUME ~Overlapping
       PROVE  Alone' \/ (ops \in Cancelable /\ Split)'
    <3>1. CASE Alone
      <4>1. Owner = p
        BY <3>1, <2>1 DEF Alone
      <4> QED
        BY <3>1, <4>1, <1>2, <1>3, <2>5, <2>9 DEF Alone
    <3>2. CASE ops \in Cancelable /\ Split
      <4>5. ~PlanReadsVolume(seen[p].state)
        BY <1>1, <2>10, <3>2, HomeUndoes
           DEF Contained, PlanReadsVolume, Has
      <4>1. p # Home => Leaving(x)
        BY <2>10, <3>2, <2>1, <2>3, <2>6, <4>5 DEF Split, Leaving
      <4>2. \A q \in Processes \ {Home} :
               /\ Active(q)' => Handing(q)' \/ Leaving(rhs'[q])
               /\ seen'[q] # NoRequest => seen'[q].cancel \/ Outdated(q)'
        BY <3>2, <4>1, <1>2, <2>4, <2>5, <2>9 DEF Split
      <4>3. db'.state \in Finals => p # Home
        BY <3>2, <1>1, <2>1 DEF Split
      <4>4. db'.state \in Finals =>
               /\ ~Active(Home)'
               /\ seen'[Home] # NoRequest => doneVer'[Home] > seen'[Home].ver
        BY <2>10, <3>2, <4>3, <1>2, <1>3, <2>5, HomeUndoes DEF Split
      <4> QED
        BY <3>2, <4>2, <4>4, <1>3 DEF Split
    <3> QED
      BY <2>10, <3>1, <3>2 DEF IInv, Consistent
  <2> QED
    BY <1>3, <1>5, <2>7, <2>8, <2>10 DEF IInv, Consistent
<1> QED
  BY <1>6, <1>7

(* A daemon loses its list, its goroutine and doneRequests.                *)
LEMMA RestartStep ==
    ASSUME IInv, NEW p \in Processes, Restart(p)
    PROVE  Consistent'
<1>1. /\ seen \in [Processes -> Requests] /\ doneVer \in [Processes -> Nat]
      /\ db \in Requests /\ rhs \in [Processes -> Handlers]
      /\ db.ver \in Nat /\ ops \in OpSets
  BY DEF IInv, TypeOK, Requests
<1>2. /\ UNCHANGED <<ops, db>>
      /\ seen'[p] = NoRequest /\ doneVer'[p] = 0 /\ rhs'[p] = Idle
      /\ \A q \in Processes : q # p =>
            seen'[q] = seen[q] /\ doneVer'[q] = doneVer[q] /\ rhs'[q] = rhs[q]
  BY <1>1 DEF Restart
<1>3. Home' = Home /\ Owner' = Owner /\ (Overlapping' <=> Overlapping)
  BY <1>2 DEF Home, Owner, Overlapping
<1>4. /\ ~Active(p)'
      /\ \A q \in Processes : q # p => /\ Active(q)' <=> Active(q)
                                       /\ Handing(q)' <=> Handing(q)
  BY <1>2 DEF Active, Handing, Running, Own, Idle
<1>5. \A q \in Processes : Coherent(rhs'[q], ops', db')
  BY <1>1, <1>2, IdleCoherent DEF IInv, Consistent
<1>6. /\ NoRequest.ver <= db.ver /\ ~NoRequest.cancel
      /\ NoRequest.state \in Reach(ops)
  BY <1>1 DEF NoRequest, Reach
<1>7. \A q \in Processes : Known(q)'
  BY <1>2, <1>6 DEF IInv, Consistent, Known
<1>8. \A q \in Processes : Prepared(q)'
  BY <1>2, <1>3, <1>4 DEF IInv, Consistent, Prepared
<1>9. \A q \in Processes : q # p /\ Outdated(q) => Outdated(q)'
  BY <1>2, <1>4 DEF Outdated
<1>10. ASSUME ~Overlapping
       PROVE  Alone' \/ (ops \in Cancelable /\ Split)'
  <2>1. CASE Alone
    BY <2>1, <1>2, <1>3, <1>4, <1>9 DEF Alone
  <2>2. CASE ops \in Cancelable /\ Split
    <3>1. \A q \in Processes \ {Home} :
             /\ Active(q)' => Handing(q)' \/ Leaving(rhs'[q])
             /\ seen'[q] # NoRequest => seen'[q].cancel \/ Outdated(q)'
      BY <2>2, <1>2, <1>4, <1>9 DEF Split
    <3>2. db'.state \in Finals =>
             /\ ~Active(Home)'
             /\ seen'[Home] # NoRequest => doneVer'[Home] > seen'[Home].ver
      BY <1>10, <2>2, <1>2, <1>3, <1>4, HomeUndoes DEF Split
    <3> QED
      BY <2>2, <3>1, <3>2, <1>2, <1>3 DEF Split
  <2> QED
    BY <1>10, <2>1, <2>2 DEF IInv, Consistent
<1> QED
  BY <1>3, <1>2, <1>5, <1>7, <1>8, <1>10 DEF IInv, Consistent

(* A cancel changes the version only: no daemon is alone that was not.     *)
LEMMA CancelStep ==
    ASSUME IInv, Cancel
    PROVE  Consistent'
<1>1. /\ db \in Requests /\ db.ver \in Nat /\ seen \in [Processes -> Requests]
      /\ \A q \in Processes : seen[q].ver \in Nat
  BY DEF IInv, TypeOK, Requests
<1>2. /\ ops \in Cancelable /\ ~db.cancel
      /\ UNCHANGED <<ops, seen, doneVer, rhs>>
  BY DEF Cancel
<1>3. db' = [ver |-> db.ver + 1, state |-> db.state, cancel |-> TRUE]
  BY <1>1 DEF Cancel, Requests
<1>4. Home' = Home /\ Owner' = Owner /\ (Overlapping' <=> Overlapping)
  BY <1>2, <1>3 DEF Home, Owner, Overlapping
<1>5. \A q \in Processes : Coherent(rhs'[q], ops', db')
  <2>1. db'.ver \in Nat /\ db.ver <= db'.ver /\ db'.cancel
    BY <1>1, <1>3
  <2> QED
    BY <1>1, <1>2, <2>1, CoherentLater DEF IInv, Consistent
<1>6. \A q \in Processes : Known(q)'
  BY <1>1, <1>2, <1>3 DEF IInv, Consistent, Known
<1>7. \A q \in Processes : Prepared(q)'
  BY <1>2, <1>4 DEF IInv, Consistent, Prepared, Active
<1>8. ~Overlapping => Alone
  BY <1>2 DEF IInv, Consistent, Split
<1>9. ~Overlapping => Alone'
  BY <1>2, <1>4, <1>8 DEF Alone, Active, Handing, Running, Own, Outdated
<1>10. db'.ver > 0 /\ db'.state \in Reach(ops)
  BY <1>1, <1>3 DEF IInv, Consistent
<1> QED
  BY <1>2, <1>4, <1>5, <1>6, <1>7, <1>9, <1>10 DEF IInv, Consistent

(* Steps that change nothing of the request and of the daemons.            *)
LEMMA OtherStep ==
    ASSUME IInv, UNCHANGED <<ops, db, seen, doneVer, rhs>>
    PROVE  Consistent'
BY DEF IInv, Consistent, Known, Prepared, Alone, Split, Active, Handing,
       Running, Own, Outdated, Owner, Home, Overlapping

-----------------------------------------------------------------------------
(* Types *)

(* The history grows by states.                                            *)
Histories == [effects : SUBSET States, completed : SUBSET States,
              fault : BOOLEAN, gaveUp : BOOLEAN, late : BOOLEAN]

(* The effects that are recorded are states.                               *)
LEMMA Effects ==
    ASSUME NEW s
    PROVE  Effect(s) \subseteq States
BY UndoneStates DEF Effect

(* Variables that only a few kinds of steps change.                        *)
LEMMA TypeFrame ==
    ASSUME TypeOK, Consistent', UNCHANGED ops,
           \/ rhs' = rhs
           \/ \E p \in Processes : \E x : rhs' = [rhs EXCEPT ![p] = x],
           \/ db' = db
           \/ db' = [ver |-> db.ver + 1, state |-> db'.state,
                     cancel |-> db'.cancel] /\ db'.cancel \in BOOLEAN,
           \/ doneVer' = doneVer
           \/ \E p \in Processes, v \in Nat :
                 doneVer' = [doneVer EXCEPT ![p] = v],
           \/ seen' = seen
           \/ \E p \in Processes : \E q \in {NoRequest, db} :
                 seen' = [seen EXCEPT ![p] = q],
           vol' = vol \/ \E s : vol' = Cleared(s),
           expired' \in BOOLEAN, hist' \in Histories,
           retries' = retries \/ retries' = retries + 1,
           faults' = faults \/ faults' = faults + 1
    PROVE  TypeOK'
<1>1. rhs' \in [Processes -> Handlers]
  <2>1. \A q \in Processes : rhs'[q] \in Handlers
    BY DEF Consistent, Coherent
  <2>2. rhs' = [q \in Processes |-> rhs'[q]]
    BY DEF TypeOK
  <2> QED
    BY <2>1, <2>2
<1>2. db' \in Requests
  <2>1. db'.state \in States
    BY PlanStates DEF Consistent, TypeOK
  <2> QED
    BY <2>1 DEF TypeOK, Requests
<1>3. doneVer' \in [Processes -> Nat]
  BY DEF TypeOK
<1>4. seen' \in [Processes -> Requests]
  <2>1. NoRequest \in Requests
    BY NamedStates DEF NoRequest, Requests, Working
  <2> QED
    BY <2>1 DEF TypeOK
<1>5. vol' \in Volumes
  BY DEF TypeOK, Cleared, Volumes
<1>6. retries' \in Nat /\ faults' \in Nat
  BY DEF TypeOK
<1> QED
  BY <1>1, <1>2, <1>3, <1>4, <1>5, <1>6 DEF TypeOK, Histories

(* Types, in the steps of a goroutine ...                                  *)
LEMMA GoroutineTypes ==
    ASSUME IInv, Consistent', NEW p \in Processes, requestAnimator(p)
    PROVE  TypeOK'
<1>1. /\ db \in Requests /\ db.ver \in Nat /\ db.cancel \in BOOLEAN
      /\ vol \in Volumes /\ expired \in BOOLEAN /\ hist \in Histories
      /\ doneVer \in [Processes -> Nat] /\ rhs[p] \in Handlers
      /\ rhs[p].ver \in Nat /\ TypeOK
  BY DEF IInv, TypeOK, Requests, Histories, Handlers
<1>2. /\ hist.effects \subseteq States /\ hist.completed \subseteq States
      /\ hist.fault \in BOOLEAN /\ hist.gaveUp \in BOOLEAN
      /\ hist.late \in BOOLEAN
  BY <1>1 DEF Histories
<1>3. CASE NextState(p)
  BY <1>1, <1>3, TypeFrame DEF NextState, Put
<1>4. CASE UpdateOK(p)
  <2>1. db' = [ver |-> db.ver + 1, state |-> db'.state, cancel |-> db'.cancel]
        /\ db'.cancel \in BOOLEAN
    BY <1>1, <1>4 DEF UpdateOK, Requests
  <2>2. [rhs[p] EXCEPT !.ver = db.ver + 1].ver = db.ver + 1
    BY <1>1 DEF Handlers
  <2>3. \/ doneVer' = doneVer
        \/ doneVer' = [doneVer EXCEPT ![p] = db.ver + 1]
    BY <1>4, <2>2 DEF UpdateOK, Finish
  <2>4. \E x : rhs' = [rhs EXCEPT ![p] = x]
    BY <1>4 DEF UpdateOK, Finish, Put
  <2>5. UNCHANGED <<ops, vol, expired, seen, hist, retries, faults>>
    BY <1>4 DEF UpdateOK
  <2>6. db.ver + 1 \in Nat
    BY <1>1
  <2> QED
    BY <1>1, <2>1, <2>3, <2>4, <2>5, <2>6, TypeFrame
<1>5. CASE UpdateConflict(p)
  BY <1>1, <1>5, TypeFrame DEF UpdateConflict, Put
<1>6. CASE UpdateFails(p)
  <2>1. hist' \in Histories
    BY <1>1, <1>6 DEF UpdateFails, Histories
  <2>2. \/ doneVer' = doneVer
        \/ doneVer' = [doneVer EXCEPT ![p] = rhs[p].ver]
    BY <1>6 DEF UpdateFails, Finish
  <2>3. \E x : rhs' = [rhs EXCEPT ![p] = x]
    BY <1>6 DEF UpdateFails, Finish, Put
  <2>4. faults' = faults \/ faults' = faults + 1
    BY <1>6 DEF UpdateFails
  <2>5. UNCHANGED <<ops, db, vol, expired, seen, retries>>
    BY <1>6 DEF UpdateFails
  <2> QED
    BY <1>1, <2>1, <2>2, <2>3, <2>4, <2>5, TypeFrame
<1>7. CASE HandOver(p)
  BY <1>1, <1>7, TypeFrame DEF HandOver, Finish
<1>8. CASE Running(p) /\ Own(p) /\ Handler(p)
  <2> DEFINE s == rhs[p].todo[1]
  <2>1. s \in States /\ Effect(s) \subseteq States
    BY <1>8, InHandler, Effects DEF Working, IInv
  <2>2. CASE HandlerDone(p)
    <3>1. hist' \in Histories
      <4>1. /\ (hist.effects \ UndoneBy(s)) \cup Effect(s) \subseteq States
            /\ (hist.completed \ UndoneBy(s)) \cup {s} \subseteq States
        BY <1>2, <2>1
      <4>2. hist' = [hist EXCEPT
                !.effects = (hist.effects \ UndoneBy(s)) \cup Effect(s),
                !.completed = (hist.completed \ UndoneBy(s)) \cup {s}]
        BY <1>1, <2>2 DEF HandlerDone, Histories
      <4> QED
        BY <1>1, <4>1, <4>2 DEF Histories
    <3>2. /\ vol' = Cleared(s) /\ \E x : rhs' = [rhs EXCEPT ![p] = x]
          /\ UNCHANGED <<ops, db, expired, seen, doneVer, retries, faults>>
      BY <2>2 DEF HandlerDone, Put
    <3> QED
      BY <1>1, <3>1, <3>2, TypeFrame
  <2>3. CASE HandlerRetries(p)
    <3>1. hist' \in Histories
      BY <1>1, <1>2, <2>1, <2>3 DEF HandlerRetries, Histories
    <3>2. /\ retries' = retries + 1
          /\ rhs' = [rhs EXCEPT ![p] = Idle]
          /\ doneVer' = [doneVer EXCEPT ![p] = rhs[p].ver]
          /\ UNCHANGED <<ops, db, vol, expired, seen, faults>>
      BY <2>3 DEF HandlerRetries, Finish
    <3> QED
      BY <1>1, <3>1, <3>2, TypeFrame
  <2>4. CASE HandlerWaits(p)
    <3>1. PICK w \in WaitStates(s) :
             /\ Put(p, [rhs[p] EXCEPT !.state = w, !.pc = "write"])
             /\ hist' = [hist EXCEPT !.effects =
                  IF w = "SIZING" THEN hist.effects \ {s}
                  ELSE hist.effects \cup Effect(s)]
      BY <1>1, <2>4 DEF HandlerWaits, Histories
    <3>2. hist' \in Histories
      <4>1. (IF w = "SIZING" THEN hist.effects \ {s}
             ELSE hist.effects \cup Effect(s)) \subseteq States
        BY <1>2, <2>1
      <4> QED
        BY <1>1, <3>1, <4>1 DEF Histories
    <3>3. /\ \E x : rhs' = [rhs EXCEPT ![p] = x]
          /\ retries' = retries + 1
          /\ UNCHANGED <<ops, db, vol, expired, seen, doneVer, faults>>
      BY <2>4, <3>1 DEF HandlerWaits, Put
    <3> QED
      BY <1>1, <3>2, <3>3, TypeFrame
  <2>5. CASE HandlerSaves(p)
    <3>1. db' = [ver |-> db.ver + 1, state |-> db'.state,
                 cancel |-> db'.cancel] /\ db'.cancel \in BOOLEAN
      BY <1>1, <2>5 DEF HandlerSaves, Requests
    <3>2. /\ \E x : rhs' = [rhs EXCEPT ![p] = x]
          /\ retries' = retries + 1
          /\ UNCHANGED <<ops, vol, expired, seen, doneVer, hist, faults>>
      BY <2>5 DEF HandlerSaves, Put
    <3> QED
      BY <1>1, <3>1, <3>2, TypeFrame
  <2>6. CASE HandlerFails(p)
    <3>1. hist' = [hist EXCEPT !.effects = hist.effects \cup Effect(s),
                     !.fault = TRUE,
                     !.gaveUp = hist.gaveUp \/ rhs[p].part = "undo"]
      BY <1>1, <2>6 DEF HandlerFails, Histories
    <3>2. hist.effects \cup Effect(s) \subseteq States
          /\ (hist.gaveUp \/ rhs[p].part = "undo") \in BOOLEAN
      BY <1>2, <2>1
    <3>3. hist' \in Histories
      BY <1>1, <3>1, <3>2 DEF Histories
    <3>4. /\ \E x : rhs' = [rhs EXCEPT ![p] = x]
          /\ faults' = faults + 1
          /\ UNCHANGED <<ops, db, vol, expired, seen, doneVer, retries>>
      BY <2>6 DEF HandlerFails, Put
    <3> QED
      BY <1>1, <3>3, <3>4, TypeFrame
  <2>7. CASE HandlerPanics(p)
    <3>1. hist' = [hist EXCEPT !.effects = hist.effects \cup Effect(s),
                     !.fault = TRUE, !.gaveUp = TRUE]
      BY <1>1, <2>7 DEF HandlerPanics, Histories
    <3>2. hist.effects \cup Effect(s) \subseteq States
      BY <1>2, <2>1
    <3>3. hist' \in Histories
      BY <1>1, <3>1, <3>2 DEF Histories
    <3>4. /\ \E x : rhs' = [rhs EXCEPT ![p] = x]
          /\ faults' \in {faults, faults + 1}
          /\ UNCHANGED <<ops, db, vol, expired, seen, doneVer, retries>>
      BY <2>7 DEF HandlerPanics, Put
    <3> QED
      BY <1>1, <3>3, <3>4, TypeFrame
  <2>8. CASE HandlerIsLate(p)
    <3>1. hist' \in Histories
      BY <1>1, <2>8 DEF HandlerIsLate, Histories
    <3>2. /\ \E x : rhs' = [rhs EXCEPT ![p] = x]
          /\ UNCHANGED <<ops, db, vol, expired, seen, doneVer>>
          /\ UNCHANGED <<retries, faults>>
      BY <2>8 DEF HandlerIsLate, Put
    <3> QED
      BY <1>1, <3>1, <3>2, TypeFrame
  <2>9. CASE HandOver(p)
    BY <1>8, <2>9 DEF HandOver
  <2> QED
    BY <1>8, <2>2, <2>3, <2>4, <2>5, <2>6, <2>7, <2>8, <2>9 DEF Handler
<1>9. Handler(p) => HandOver(p) \/ (Running(p) /\ Own(p))
  BY DEF Handler, HandlerDone, HandlerRetries, HandlerWaits, HandlerSaves,
         HandlerFails, HandlerPanics, HandlerIsLate
<1> QED
  BY <1>3, <1>4, <1>5, <1>6, <1>7, <1>8, <1>9 DEF requestAnimator

(* ... and in the other steps.                                             *)
LEMMA OtherTypes ==
    ASSUME IInv, Consistent', NEW p \in Processes,
           RunLoop(p) \/ Restart(p) \/ Cancel \/ Expire \/ UNCHANGED vars
    PROVE  TypeOK'
<1>1. /\ db \in Requests /\ db.ver \in Nat /\ expired \in BOOLEAN
      /\ hist \in Histories /\ TypeOK /\ 0 \in Nat
  BY DEF IInv, TypeOK, Requests, Histories
<1>2. CASE List(p)
  BY <1>1, <1>2, TypeFrame DEF List
<1>3. CASE Dispatch(p)
  <2>1. rhs' = rhs \/ \E x : rhs' = [rhs EXCEPT ![p] = x]
    BY <1>3 DEF Dispatch
  <2>2. /\ seen' = [seen EXCEPT ![p] = NoRequest]
        /\ UNCHANGED <<ops, db, vol, expired, doneVer, hist, retries, faults>>
    BY <1>3 DEF Dispatch
  <2> QED
    BY <1>1, <2>1, <2>2, TypeFrame
<1>4. CASE DispatchFails(p)
  <2>1. rhs' = rhs \/ \E x : rhs' = [rhs EXCEPT ![p] = x]
    BY <1>4 DEF DispatchFails
  <2>2. hist' \in Histories
    BY <1>1, <1>4 DEF DispatchFails, Histories
  <2>3. /\ seen' = [seen EXCEPT ![p] = NoRequest] /\ faults' = faults + 1
        /\ UNCHANGED <<ops, db, vol, expired, doneVer, retries>>
    BY <1>4 DEF DispatchFails
  <2> QED
    BY <1>1, <2>1, <2>2, <2>3, TypeFrame
<1>5. CASE Restart(p)
  <2>1. Effect(rhs[p].todo[1]) \subseteq States
    BY Effects
  <2>2. hist' \in Histories
    BY <1>1, <1>5, <2>1 DEF Restart, Histories
  <2>3. /\ seen' = [seen EXCEPT ![p] = NoRequest] /\ faults' = faults + 1
        /\ doneVer' = [doneVer EXCEPT ![p] = 0]
        /\ rhs' = [rhs EXCEPT ![p] = Idle]
        /\ UNCHANGED <<ops, db, vol, expired, retries>>
    BY <1>5 DEF Restart
  <2> QED
    BY <1>1, <2>2, <2>3, TypeFrame
<1>6. CASE Cancel
  <2>1. db' = [ver |-> db.ver + 1, state |-> db'.state, cancel |-> db'.cancel]
        /\ db'.cancel \in BOOLEAN
    BY <1>1, <1>6 DEF Cancel, Requests
  <2> QED
    BY <1>1, <1>6, <2>1, TypeFrame DEF Cancel
<1>7. CASE Expire
  BY <1>1, <1>7, TypeFrame DEF Expire
<1>8. CASE UNCHANGED vars
  BY <1>1, <1>8, TypeFrame DEF vars
<1> QED
  BY <1>2, <1>3, <1>4, <1>5, <1>6, <1>7, <1>8 DEF RunLoop

-----------------------------------------------------------------------------
(* The theorems *)

(* The invariant holds at first, with nobody at work,                      *)
LEMMA InitInv == Init => IInv
<1> SUFFICES ASSUME Init
             PROVE  IInv
  OBVIOUS
<1>1. /\ ops \in OpSets /\ vol \in Volumes /\ expired = FALSE
      /\ db = [ver |-> 1, state |-> "NEW", cancel |-> FALSE]
      /\ seen = [p \in Processes |-> NoRequest]
      /\ doneVer = [p \in Processes |-> 0]
      /\ rhs = [p \in Processes |-> Idle]
      /\ hist = [effects |-> {}, completed |-> {}, fault |-> FALSE,
                 gaveUp |-> FALSE, late |-> FALSE]
      /\ retries = 0 /\ faults = 0
  BY DEF Init
<1>2. \A p \in Processes : Coherent(rhs[p], ops, db)
  BY <1>1, IdleCoherent
<1>3. TypeOK
  <2>1. "NEW" \in States
    BY NamedStates DEF Working
  <2>2. Idle \in Handlers
    BY <1>1, IdleCoherent DEF Coherent
  <2> QED
    BY <1>1, <2>1, <2>2 DEF TypeOK, Requests, NoRequest
<1>4. "NEW" \in Reach(ops)
  BY DEF Reach
<1>5. \A p \in Processes : Known(p) /\ Prepared(p)
  <2>1. \A p \in Processes : seen[p] = NoRequest /\ rhs[p] = Idle
    BY <1>1
  <2>2. /\ NoRequest.ver = 0 /\ ~NoRequest.cancel /\ Idle.pc = "none"
        /\ NoRequest.state = "NEW" /\ db.ver = 1
    BY <1>1 DEF NoRequest, Idle
  <2>3. NoRequest.state \in Reach(ops) /\ NoRequest.ver <= db.ver
    BY <1>4, <2>2
  <2>4. \A p \in Processes : Known(p)
    BY <2>1, <2>2, <2>3 DEF Known
  <2>5. \A p \in Processes : Prepared(p)
    BY <2>1, <2>2 DEF Prepared, Active
  <2> QED
    BY <2>4, <2>5
<1>6. Alone
  BY <1>1 DEF Alone, Active, Idle
<1> QED
  BY <1>1, <1>2, <1>3, <1>4, <1>5, <1>6 DEF IInv, Consistent

(* and every step preserves it.                                            *)
LEMMA NextInv ==
    ASSUME IInv, [Next]_vars
    PROVE  IInv'
<1>1. ASSUME NEW p \in Processes, RunLoop(p)
      PROVE  Consistent'
  <2>1. CASE List(p)
    BY <2>1, ListStep
  <2>2. CASE Dispatch(p)
    <3>1. rhs' = rhs \/ (~skipProcessing(p) /\ Put(p, Begin(seen[p], FALSE)))
      BY <2>2 DEF Dispatch, Put
    <3> QED
      BY <2>2, <3>1, Starts DEF Dispatch
  <2>3. CASE DispatchFails(p)
    <3>1. \/ rhs' = rhs
          \/ ~skipProcessing(p) /\ Put(p, Begin(seen[p], TRUE))
          \/ /\ ~skipProcessing(p) /\ PlanReadsVolume(seen[p].state)
             /\ Put(p, Panicked(Begin(seen[p], TRUE)))
      BY <2>3 DEF DispatchFails, Put
    <3> QED
      BY <2>3, <3>1, Starts DEF DispatchFails
  <2> QED
    BY <1>1, <2>1, <2>2, <2>3 DEF RunLoop
<1>2. ASSUME NEW p \in Processes, requestAnimator(p)
      PROVE  Consistent'
  BY <1>2, NextStateStep, UpdateOKStep, UpdateConflictStep, UpdateFailsStep,
     HandlerStep DEF requestAnimator
<1>3. CASE Expire \/ Over \/ UNCHANGED vars
  <2>1. UNCHANGED <<ops, db, seen, doneVer, rhs>>
    BY <1>3 DEF Expire, Over, vars
  <2>2. Consistent'
    BY <2>1, OtherStep
  <2>3. Expire \/ UNCHANGED vars
    BY <1>3 DEF Over
  <2>4. "agentd" \in Processes
    BY DEF Processes
  <2> QED
    BY <2>2, <2>3, <2>4, OtherTypes DEF IInv
<1>4. CASE Cancel
  <2>1. "agentd" \in Processes
    BY DEF Processes
  <2> QED
    BY <1>4, <2>1, CancelStep, OtherTypes DEF IInv
<1>5. ASSUME NEW p \in Processes, RunLoop(p) \/ Restart(p)
      PROVE  IInv'
  BY <1>1, <1>5, RestartStep, OtherTypes DEF IInv
<1>6. ASSUME NEW p \in Processes, requestAnimator(p)
      PROVE  IInv'
  BY <1>2, <1>6, GoroutineTypes DEF IInv
<1> QED
  BY <1>3, <1>4, <1>5, <1>6 DEF Next

(* The invariant: a goroutine is alone with the request, or those of the   *)
(* other daemons are about to leave it to the one that undoes (request.go, *)
(* animator.go).                                                           *)
THEOREM Invariance == Spec => []IInv
<1>1. IInv /\ [Next]_vars => IInv'
  BY NextInv
<1> QED
  BY <1>1, InitInv, PTL DEF Spec

(* Only known states are written to the database, and no list of states    *)
(* that requestAnimator (request.go) builds has a hole.                    *)
THEOREM TypeCorrect == Spec => []TypeOK
<1>1. IInv => TypeOK
  BY DEF IInv
<1> QED
  BY <1>1, Invariance, PTL

(* However the daemons are interleaved, restarted and retried, no two of   *)
(* them are in handlers of a request at the same time, and none is once    *)
(* the request has terminated (animator.go, request.go): for every set of  *)
(* operations of which those that can be canceled are undone by one        *)
(* daemon.                                                                 *)
THEOREM OneAnimatorCorrect ==
    ASSUME \A o \in Cancelable : \E u \in Processes : Contained(o, u)
    PROVE  Spec => []OneAnimator
<1>1. IInv => OneAnimator
  <2> SUFFICES ASSUME IInv
               PROVE  OneAnimator
    OBVIOUS
  <2>0. ~Overlapping
    BY DEF Overlapping
  <2>1. ASSUME NEW p \in Processes, Running(p), Own(p)
        PROVE  /\ db.state \notin Finals
               /\ \/ Alone /\ Owner = p
                  \/ Split /\ ops \in Cancelable /\ p = Home
    <3>1. Active(p) /\ ~Handing(p)
      BY <2>1, InHandler
    <3> QED
      BY <2>1, <2>0, <3>1, Positions, AwayIsOut
  <2>2. ASSUME NEW p \in Processes, NEW q \in Processes,
               Running(p), Own(p), Running(q), Own(q)
        PROVE  p = q
    <3>1. CASE Split /\ ops \in Cancelable
      BY <2>2, <2>0, <3>1, AwayIsOut
    <3>2. CASE Alone /\ ~(Split /\ ops \in Cancelable)
      BY <2>1, <2>2, <3>2
    <3> QED
      BY <2>0, <3>1, <3>2 DEF IInv, Consistent
  <2>3. IsTerminal(db.state) => db.state \in Finals
    BY Terminals DEF IInv, TypeOK, Requests
  <2> QED
    BY <2>1, <2>2, <2>3 DEF OneAnimator
<1> QED
  BY <1>1, Invariance, PTL
============================================================================
