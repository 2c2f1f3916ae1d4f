----------------------------- MODULE ApiObjects -----------------------------
(***************************************************************************)
(* The object handlers of centrald (src/pkg/centrald/handlers) and the     *)
(* locking that keeps the references between stored objects valid.         *)
(*                                                                         *)
(* Every handler has the same shape.  A create or an update takes c.RLock  *)
(* (a few creates take c.Lock), fetches the objects it is about to refer   *)
(* to, and writes.  A delete fetches the object, takes c.Lock, counts the  *)
(* objects that still refer to it, and deletes it when there is none.      *)
(* What differs from one object type to the next (which fields refer to    *)
(* what, which of them a handler validates, under which lock, and what a   *)
(* delete counts) is data: the tables below are constants here and are     *)
(* given their values, handler by handler, in module ApiTables.            *)
(*                                                                         *)
(* One object of each type is modelled (a slot), with one lifetime: object *)
(* identifiers are never used again.  `focus' is the small set of slots    *)
(* whose handlers run in a behaviour; every other object is there all the  *)
(* time and refers to nothing in the focus.                                *)
(***************************************************************************)
EXTENDS Naturals, FiniteSets

CONSTANTS
    Client,     \* the goroutines of the API server
    Slot,       \* one object of each type
    Request,    \* the slots whose objects terminate (isTerminated filter)
    Fields,     \* Fields[s]: reference fields of s, each with the slot meant
    CreateOf,   \* CreateOf[s]: the create handler, for s that has one
    UpdateOf,   \* UpdateOf[s]: the update handler
    DeleteOf,   \* DeleteOf[s]: the delete handler
    Copied,     \* references that are found in an object referred to as well
    Protected,  \* the references the API promises never dangle
    Focus       \* the sets of slots a behaviour may be about

Lock == {"none", "R", "W"}
Ref(s) == DOMAIN Fields[s]
AnyRef == UNION {Ref(s) : s \in Slot}

(***************************************************************************)
(* The discipline a table must obey for the locking to protect a           *)
(* reference: every handler that sets it validates it under the lock, and  *)
(* the delete handler of its target counts it (or removes it) without      *)
(* exception.  A request must be deleted in a terminal state only, and     *)
(* must stay in it.                                                        *)
(***************************************************************************)
Counted(s, f) == \E q \in DeleteOf[Fields[s][f]].counts : q.of = s /\ f \in q.by

Disciplined ==
    \A p \in Protected :
        LET s == p[1]  f == p[2]  t == Fields[s][f] IN
        /\ p = <<s, f>>
        /\ s \in Slot /\ f \in Ref(s) /\ t \in Slot
        /\ s \in DOMAIN CreateOf =>
              f \notin CreateOf[s].blind
        /\ f \notin UpdateOf[s].blind \cup UpdateOf[s].unlocked
        /\ \/ Counted(s, f) /\ s \notin DeleteOf[t].exempt
           \/ p \in DeleteOf[t].cascade /\ s \notin Request
        /\ p \in DOMAIN Copied =>
              LET q == <<Fields[s][Copied[p].via], Copied[p].f>> IN
              /\ Copied[p].via \in Ref(s)
              /\ q \in Protected /\ q[1] \notin Request
              /\ Fields[q[1]][q[2]] = t

ASSUME TableAssumption ==
    /\ Slot # {} /\ Request \subseteq Slot
    /\ DOMAIN Fields = Slot /\ DOMAIN UpdateOf = Slot /\ DOMAIN DeleteOf = Slot
    /\ DOMAIN CreateOf \subseteq Slot
    /\ \A s \in DOMAIN CreateOf : CreateOf[s].lock \in {"R", "W"}
    /\ \A s \in Slot : UpdateOf[s].fetchFirst \in BOOLEAN
    /\ \A s \in Slot : UpdateOf[s].ends \subseteq {"set", "clear"}
    /\ \A s \in Request : UpdateOf[s].final /\ DeleteOf[s].needsDone
    /\ Focus \subseteq SUBSET Slot
    /\ Disciplined

-----------------------------------------------------------------------------
VARIABLES
    focus,  \* the slots whose handlers run
    obj,    \* the stored objects
    pc,     \* where each goroutine is in its handler
    call    \* the arguments of its call and what it has read

vars == <<focus, obj, pc, call>>

Object == [st : {"never", "live", "gone"}, refs : SUBSET AnyRef,
           done : BOOLEAN]
NoObject == [st |-> "never", refs |-> {}, done |-> FALSE]

\* An object of the focus with a reference to another object of the focus.
InFocus(s) == {f \in Ref(s) : Fields[s][f] \in focus}

Call == [op : {"create", "update", "delete"}, s : Slot, lock : Lock,
         add : SUBSET AnyRef,
         drop : SUBSET AnyRef,
         done : {"keep", "set", "clear"}, seen : Object, fresh : BOOLEAN]

NoCall == [op |-> "delete", s |-> CHOOSE s \in Slot : TRUE, lock |-> "none",
           add |-> {}, drop |-> {}, done |-> "keep", seen |-> NoObject, fresh |-> FALSE]

IsLive(s) == obj[s].st = "live"

\* What a list or a count with isTerminated = false sees of an object.
IsActive(s) == IsLive(s) /\ (s \in Request => ~obj[s].done)

Holds(s, f) == IsActive(s) /\ f \in obj[s].refs

(***************************************************************************)
(* c.mux, a sync.RWMutex: goroutines between their Lock or RLock and the   *)
(* deferred Unlock hold it.                                                *)
(***************************************************************************)
Inside(c) == pc[c] \in {"locked", "checked"}
CanLockMutant(c) ==   \* a writer does not wait for the readers
    \A d \in Client \ {c} : Inside(d) /\ call[c].lock # "none" => call[d].lock # "W"
CanLock(c) ==
    \A d \in Client \ {c} :
        Inside(d) => /\ call[c].lock = "W" => call[d].lock = "none"
                     /\ call[c].lock = "R" => call[d].lock # "W"

Init ==
    /\ focus \in Focus
    /\ obj = [s \in Slot |->
                IF s \in focus /\ s \in DOMAIN CreateOf THEN NoObject
                ELSE [NoObject EXCEPT !.st = "live"]]
    /\ pc = [c \in Client |-> "idle"]
    /\ call = [c \in Client |-> NoCall]

-----------------------------------------------------------------------------
(***************************************************************************)
(* Entering a handler: the arguments, and what is read before the lock.    *)
(***************************************************************************)
Enter(c, k) ==
    /\ pc[c] = "idle"
    /\ pc' = [pc EXCEPT ![c] = "waiting"]
    /\ call' = [call EXCEPT ![c] = k]
    /\ UNCHANGED <<focus, obj>>

\* A create handler; its payload refers to objects of the focus or to others.
BeginCreate(c, s) ==
    /\ s \in focus \cap DOMAIN CreateOf
    /\ obj[s].st # "gone"
    /\ \E add \in SUBSET ((CreateOf[s].sets \cup CreateOf[s].blind) \cap InFocus(s)) :
         Enter(c, [op |-> "create", s |-> s, lock |-> CreateOf[s].lock, add |-> add,
                   drop |-> {}, done |-> "keep", seen |-> NoObject, fresh |-> FALSE])

\* An update handler.  Most fetch the object under the lock; a few fetch it
\* first (fetchFirst) and lock only when a field that needs it is modified.
\* References in `unlocked' are validated here, before any lock.
BeginUpdate(c, s) ==
    LET u == UpdateOf[s] IN
    /\ s \in focus /\ IsLive(s)
    /\ \E add \in SUBSET ((u.sets \cup u.unlocked \cup u.blind) \cap InFocus(s)),
          drop \in SUBSET (u.drops \cap InFocus(s)),
          done \in u.ends \cup {"keep"} :
         /\ add # {} \/ drop # {} \/ done # "keep"
         /\ \A f \in add \cap u.unlocked : IsLive(Fields[s][f])
         /\ Enter(c, [op |-> "update", s |-> s,
                      lock |-> IF u.fetchFirst /\ (add \cup drop) \cap u.sets = {}
                               THEN "none" ELSE "R",
                      add |-> add, drop |-> drop \ add, done |-> done,
                      seen |-> IF u.fetchFirst THEN obj[s] ELSE NoObject,
                      fresh |-> u.fetchFirst])

\* A delete handler: it fetches the object before it takes the lock.
BeginDelete(c, s) ==
    /\ s \in focus /\ IsLive(s)
    /\ Enter(c, [op |-> "delete", s |-> s, lock |-> "W", add |-> {}, drop |-> {},
                 done |-> "keep", seen |-> obj[s], fresh |-> FALSE])

\* c.Lock() or c.RLock() returns.
Acquire(c) ==
    /\ pc[c] = "waiting"
    /\ CanLock(c)
    /\ pc' = [pc EXCEPT ![c] = "locked"]
    /\ UNCHANGED <<focus, obj, call>>

(***************************************************************************)
(* The checks made under the lock.                                         *)
(***************************************************************************)

\* A reference is validated by fetching its target, or by finding it in
\* another object that the call refers to and that is fetched.
Valid(s, f, add) ==
    IF <<s, f>> \in DOMAIN Copied
    THEN LET q == Copied[<<s, f>>]
             t == Fields[s][q.via]
         IN q.via \in add /\ IsLive(t) /\ q.f \in obj[t].refs
    ELSE IsLive(Fields[s][f])

CheckCreate(c) ==
    LET k == call[c] IN
    /\ pc[c] = "locked" /\ k.op = "create"
    /\ \A f \in k.add \cap CreateOf[k.s].sets : Valid(k.s, f, k.add)
    /\ pc' = [pc EXCEPT ![c] = "checked"]
    /\ UNCHANGED <<focus, obj, call>>

\* A request in a terminal state keeps it.
KeepsItsEndMutant(k, seen) == TRUE   \* the check is left out
KeepsItsEnd(k, seen) == UpdateOf[k.s].final /\ seen.done => k.done = "keep"

\* The references already in the copy that was fetched are not validated
\* again where the handler compares lists (delta).
CheckUpdate(c) ==
    LET k == call[c]
        u == UpdateOf[k.s]
        seen == IF u.fetchFirst THEN k.seen ELSE obj[k.s]
    IN
    /\ pc[c] = "locked" /\ k.op = "update"
    /\ seen.st = "live"
    /\ \A f \in k.add \cap u.sets :
          (f \in u.delta /\ f \in seen.refs) \/ Valid(k.s, f, k.add)
    /\ KeepsItsEnd(k, seen)
    /\ pc' = [pc EXCEPT ![c] = "checked"]
    /\ call' = [call EXCEPT ![c] = [k EXCEPT !.seen = seen,
                                             !.fresh = IF u.fetchFirst THEN @ ELSE TRUE]]
    /\ UNCHANGED <<focus, obj>>

\* No object that refers to this one may be found.  The state of the object
\* itself is that of the copy fetched before the lock.
CheckDelete(c) ==
    LET k == call[c]
        d == DeleteOf[k.s]
    IN
    /\ pc[c] = "locked" /\ k.op = "delete"
    /\ d.needsDone => k.seen.done
    /\ d.clear \cap k.seen.refs = {}
    /\ \A f \in d.needs \cap k.seen.refs : IsLive(Fields[k.s][f])
    /\ \A q \in d.counts :
          ~(k.seen.done /\ q.of \in d.exempt) =>
             ~(IsActive(q.of) /\ \E f \in q.by \cap obj[q.of].refs : Fields[q.of][f] = k.s)
    /\ pc' = [pc EXCEPT ![c] = "checked"]
    /\ UNCHANGED <<focus, obj, call>>

(***************************************************************************)
(* The operation on the data store, and the deferred unlock.  The version  *)
(* of an object changes with every write to it: `fresh' says that the copy *)
(* a goroutine has fetched still has the version in the store.             *)
(***************************************************************************)
Return(c, written) ==
    /\ pc' = [pc EXCEPT ![c] = "idle"]
    /\ call' = [d \in Client |->
                  IF d = c THEN NoCall
                  ELSE IF call[d].s \in written THEN [call[d] EXCEPT !.fresh = FALSE]
                  ELSE call[d]]
    /\ UNCHANGED focus

\* InsertOne: refused by a unique index when the object is there already.
DsCreate(c) ==
    LET k == call[c] IN
    /\ pc[c] = "checked" /\ k.op = "create"
    /\ obj[k.s].st = "never"
    /\ obj' = [obj EXCEPT ![k.s] = [st |-> "live", refs |-> k.add, done |-> FALSE]]
    /\ Return(c, {k.s})

\* The update query: $set of what the payload has, $unset of what is empty.
Updated(o, k) ==
    [o EXCEPT !.refs = (@ \ k.drop) \cup k.add,
              !.done = IF k.done = "keep" THEN @ ELSE k.done = "set"]

\* UpdateOne: conditional on the version of the copy that was validated.
DsUpdate(c) ==
    LET k == call[c]
        o == obj[k.s]
    IN
    /\ pc[c] = "checked" /\ k.op = "update"
    /\ o.st = "live" /\ k.fresh
    /\ obj' = [obj EXCEPT ![k.s] = Updated(o, k)]
    /\ Return(c, {k.s})

\* DeleteOne, preceded by the removal of the object from lists that name it.
DsDelete(c) ==
    LET k == call[c]
        casc == DeleteOf[k.s].cascade
    IN
    /\ pc[c] = "checked" /\ k.op = "delete"
    /\ IsLive(k.s)
    /\ obj' = [s \in Slot |->
                 IF s = k.s THEN [obj[s] EXCEPT !.st = "gone"]
                 ELSE [obj[s] EXCEPT !.refs = {f \in @ : <<s, f>> \notin casc}]]
    /\ Return(c, {k.s} \cup {p[1] : p \in casc})

\* Any error return: bad arguments, no permission, audit log not ready, a
\* check that fails, a version that does not match.
Refuse(c) ==
    /\ pc[c] \in {"locked", "checked"}
    /\ Return(c, {})
    /\ UNCHANGED obj

Next ==
    \E c \in Client :
        \/ \E s \in Slot : BeginCreate(c, s) \/ BeginUpdate(c, s) \/ BeginDelete(c, s)
        \/ Acquire(c)
        \/ CheckCreate(c) \/ CheckUpdate(c) \/ CheckDelete(c)
        \/ DsCreate(c) \/ DsUpdate(c) \/ DsDelete(c)
        \/ Refuse(c)

Spec == Init /\ [][Next]_vars

-----------------------------------------------------------------------------
TypeOK ==
    /\ focus \in Focus
    /\ obj \in [Slot -> Object]
    /\ pc \in [Client -> {"idle", "waiting", "locked", "checked"}]
    /\ call \in [Client -> Call]

\* The messages of the delete handlers promise it ("pools are still associated
\* with ...", "active storage requests are still associated with ..."): while
\* an object that is not a terminated request holds a protected reference, the
\* object it refers to is in the store, however the creates, the updates and
\* the deletes of both sides interleave.
RefsResolve ==
    \A p \in Protected : Holds(p[1], p[2]) => IsLive(Fields[p[1]][p[2]])

\* storageRequestDelete and volumeSeriesRequestDelete look at the state of a
\* copy fetched before the lock: a request that is deleted has nevertheless
\* terminated, because no update takes it out of a terminal state.
DeletesOnlyTerminated ==
    [][\A s \in Request : IsLive(s) /\ obj'[s].st = "gone" => obj[s].done]_vars
=============================================================================
