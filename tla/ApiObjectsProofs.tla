-------------------------- MODULE ApiObjectsProofs --------------------------
(***************************************************************************)
(* What the locking of the object handlers guarantees, for any number of   *)
(* goroutines and for every set of tables that obeys the discipline stated *)
(* in ApiObjects.  TLC evaluates that assumption for the tables of module  *)
(* ApiTables, so the theorems hold of this API.                            *)
(***************************************************************************)
EXTENDS ApiObjects, TLAPS

(***************************************************************************)
(* The inductive invariant.  RefsResolve alone is not inductive: a call    *)
(* that has made its checks will write, so what it has checked must stay   *)
(* true until then.                                                        *)
(***************************************************************************)

\* A goroutine that holds the write lock is alone with those that took none.
LockExclusion ==
    \A c, d \in Client :
        c # d /\ Inside(c) /\ Inside(d) /\ call[c].lock = "W" => call[d].lock = "none"

\* A call has the lock its handler takes, and the references it may set.
CallShape(c) ==
    LET k == call[c] IN
    /\ k.op = "create" =>
          /\ k.s \in DOMAIN CreateOf
          /\ k.lock \in {"R", "W"}
          /\ k.add \subseteq CreateOf[k.s].sets \cup CreateOf[k.s].blind
    /\ k.op = "update" =>
          /\ k.add \subseteq UpdateOf[k.s].sets \cup UpdateOf[k.s].unlocked
                             \cup UpdateOf[k.s].blind
          /\ k.lock = "R" \/ (k.lock = "none" /\ k.add \cap UpdateOf[k.s].sets = {})
    /\ k.op = "delete" =>
          /\ k.lock = "W"
          /\ obj[k.s].st # "never"
          /\ k.s \in Request /\ k.seen.done => obj[k.s].done

\* A copy of the current version is a copy of the current object.
CopyIsCurrent(c) == call[c].fresh => call[c].seen = obj[call[c].s]

\* What a create or an update has checked.
RefsValidated(c) ==
    LET k == call[c] IN
    \A f \in k.add :
        <<k.s, f>> \in Protected =>
            IsLive(Fields[k.s][f]) \/ (k.op = "update" /\ f \in k.seen.refs)

\* What a delete has checked.
Unreferenced(c) ==
    LET k == call[c] IN
    /\ k.s \in Request => k.seen.done
    /\ \A s, f : <<s, f>> \in Protected /\ Fields[s][f] = k.s
                    /\ <<s, f>> \notin DeleteOf[k.s].cascade => ~Holds(s, f)

CallInv(c) ==
    /\ pc[c] # "idle" => CallShape(c)
    /\ CopyIsCurrent(c)
    /\ pc[c] = "checked" /\ call[c].op # "delete" => RefsValidated(c)
    /\ pc[c] = "checked" /\ call[c].op = "update" => KeepsItsEnd(call[c], call[c].seen)
    /\ pc[c] = "checked" /\ call[c].op = "delete" => Unreferenced(c)

IInv == TypeOK /\ LockExclusion /\ (\A c \in Client : CallInv(c)) /\ RefsResolve

-----------------------------------------------------------------------------
(* Facts about the tables.                                                 *)

LEMMA Tables ==
    /\ Request \subseteq Slot /\ DOMAIN CreateOf \subseteq Slot
    /\ \A s \in DOMAIN CreateOf : CreateOf[s].lock \in {"R", "W"}
    /\ \A s \in Slot : UpdateOf[s].fetchFirst \in BOOLEAN
    /\ \A s \in Slot : UpdateOf[s].ends \subseteq {"set", "clear"}
    /\ \A s \in Request : UpdateOf[s].final /\ DeleteOf[s].needsDone
    /\ Focus \subseteq SUBSET Slot
    /\ \A s \in Slot : Ref(s) \subseteq AnyRef
BY TableAssumption DEF AnyRef

LEMMA ProtectedRef ==
    ASSUME NEW s, NEW f, <<s, f>> \in Protected
    PROVE  /\ s \in Slot /\ f \in Ref(s) /\ Fields[s][f] \in Slot
           /\ s \in DOMAIN CreateOf => f \notin CreateOf[s].blind
           /\ f \notin UpdateOf[s].blind \cup UpdateOf[s].unlocked
           /\ \/ Counted(s, f) /\ s \notin DeleteOf[Fields[s][f]].exempt
              \/ <<s, f>> \in DeleteOf[Fields[s][f]].cascade /\ s \notin Request
<1>1. <<s, f>>[1] = s /\ <<s, f>>[2] = f
  OBVIOUS
<1> QED BY <1>1, TableAssumption DEF Disciplined

LEMMA CopiedRef ==
    ASSUME NEW s, NEW f, <<s, f>> \in Protected, <<s, f>> \in DOMAIN Copied
    PROVE  LET t == Fields[s][Copied[<<s, f>>].via]
               g == Copied[<<s, f>>].f
           IN <<t, g>> \in Protected /\ t \notin Request /\ Fields[t][g] = Fields[s][f]
<1> DEFINE t == Fields[s][Copied[<<s, f>>].via]
<1> DEFINE g == Copied[<<s, f>>].f
<1>1. <<s, f>>[1] = s /\ <<s, f>>[2] = f
  OBVIOUS
<1>2. <<t, g>>[1] = t /\ <<t, g>>[2] = g
  OBVIOUS
<1> QED BY <1>1, <1>2, TableAssumption DEF Disciplined

LEMMA ResolvePairs ==
    RefsResolve <=> \A s, f : <<s, f>> \in Protected /\ Holds(s, f) => IsLive(Fields[s][f])
<1>1. \A p \in Protected : p = <<p[1], p[2]>>
  BY TableAssumption DEF Disciplined
<1>2. \A s, f : <<s, f>>[1] = s /\ <<s, f>>[2] = f
  OBVIOUS
<1> QED BY <1>1, <1>2 DEF RefsResolve

LEMMA ResolveNext ==
    ASSUME \A s, f : <<s, f>> \in Protected /\ Holds(s, f)' => IsLive(Fields[s][f])'
    PROVE  RefsResolve'
<1>1. \A p \in Protected : p = <<p[1], p[2]>>
  BY TableAssumption DEF Disciplined
<1> QED BY <1>1 DEF RefsResolve

-----------------------------------------------------------------------------
(* Type correctness.                                                       *)

LEMMA NoCallType == NoCall \in Call /\ NoObject \in Object
<1>1. (CHOOSE s \in Slot : TRUE) \in Slot
  BY TableAssumption
<1>2. NoObject \in Object
  BY DEF NoObject, Object
<1> QED BY <1>1, <1>2 DEF NoCall, Call, Lock

LEMMA InitType == Init => TypeOK
<1> SUFFICES ASSUME Init PROVE TypeOK
  OBVIOUS
<1>1. NoObject \in Object /\ [NoObject EXCEPT !.st = "live"] \in Object
  BY DEF NoObject, Object
<1>2. obj \in [Slot -> Object]
  BY <1>1 DEF Init
<1>3. call \in [Client -> Call]
  BY NoCallType DEF Init
<1> QED BY <1>2, <1>3 DEF Init, TypeOK

LEMMA EnterType ==
    ASSUME TypeOK, NEW c \in Client, NEW k \in Call, Enter(c, k)
    PROVE  TypeOK'
BY DEF TypeOK, Enter

LEMMA ReturnType ==
    ASSUME TypeOK, NEW c \in Client, NEW W, Return(c, W), obj' \in [Slot -> Object]
    PROVE  TypeOK'
<1>1. \A d \in Client : [call[d] EXCEPT !.fresh = FALSE] \in Call
  BY DEF TypeOK, Call
<1>2. call' \in [Client -> Call]
  BY <1>1, NoCallType DEF TypeOK, Return
<1> QED BY <1>2 DEF TypeOK, Return

LEMMA StepType ==
    ASSUME TypeOK, [Next]_vars
    PROVE  TypeOK'
<1>0. obj \in [Slot -> Object] /\ call \in [Client -> Call] /\ focus \subseteq Slot
  BY Tables DEF TypeOK
<1>1. ASSUME NEW c \in Client, NEW s \in Slot, BeginCreate(c, s) PROVE TypeOK'
  <2>1. PICK add \in SUBSET ((CreateOf[s].sets \cup CreateOf[s].blind) \cap InFocus(s)) :
          Enter(c, [op |-> "create", s |-> s, lock |-> CreateOf[s].lock, add |-> add,
                    drop |-> {}, done |-> "keep", seen |-> NoObject, fresh |-> FALSE])
    BY <1>1 DEF BeginCreate
  <2>2. add \in SUBSET AnyRef
    BY Tables DEF InFocus
  <2>3. CreateOf[s].lock \in Lock
    BY <1>1, Tables DEF BeginCreate, Lock
  <2> QED BY <2>1, <2>2, <2>3, NoCallType, EnterType DEF Call
<1>2. ASSUME NEW c \in Client, NEW s \in Slot, BeginUpdate(c, s) PROVE TypeOK'
  <2> DEFINE u == UpdateOf[s]
  <2>1. PICK add \in SUBSET ((u.sets \cup u.unlocked \cup u.blind) \cap InFocus(s)),
             drop \in SUBSET (u.drops \cap InFocus(s)),
             done \in u.ends \cup {"keep"} :
          Enter(c, [op |-> "update", s |-> s,
                    lock |-> IF u.fetchFirst /\ (add \cup drop) \cap u.sets = {}
                             THEN "none" ELSE "R",
                    add |-> add, drop |-> drop \ add, done |-> done,
                    seen |-> IF u.fetchFirst THEN obj[s] ELSE NoObject,
                    fresh |-> u.fetchFirst])
    BY <1>2 DEF BeginUpdate
  <2>2. add \in SUBSET AnyRef /\ drop \ add \in SUBSET AnyRef
    BY Tables DEF InFocus
  <2>3. done \in {"keep", "set", "clear"} /\ u.fetchFirst \in BOOLEAN
    BY Tables
  <2>4. (IF u.fetchFirst THEN obj[s] ELSE NoObject) \in Object
    BY <1>0, NoCallType
  <2>5. (IF u.fetchFirst /\ (add \cup drop) \cap u.sets = {} THEN "none" ELSE "R") \in Lock
    BY DEF Lock
  <2> HIDE DEF u
  <2> QED BY <2>1, <2>2, <2>3, <2>4, <2>5, EnterType DEF Call
<1>3. ASSUME NEW c \in Client, NEW s \in Slot, BeginDelete(c, s) PROVE TypeOK'
  <2>1. obj[s] \in Object
    BY <1>0
  <2> QED BY <1>3, <2>1, EnterType DEF BeginDelete, Call, Lock
<1>4. ASSUME NEW c \in Client, Acquire(c) \/ CheckCreate(c) \/ CheckDelete(c) PROVE TypeOK'
  BY <1>4 DEF TypeOK, Acquire, CheckCreate, CheckDelete
<1>5. ASSUME NEW c \in Client, CheckUpdate(c) PROVE TypeOK'
  <2> DEFINE k == call[c]
  <2> DEFINE seen == IF UpdateOf[k.s].fetchFirst THEN k.seen ELSE obj[k.s]
  <2> DEFINE fresh == IF UpdateOf[k.s].fetchFirst THEN k.fresh ELSE TRUE
  <2>1. k \in Call
    BY <1>0
  <2>2. k.s \in Slot /\ k.seen \in Object /\ k.fresh \in BOOLEAN
    BY <2>1 DEF Call
  <2>3. seen \in Object /\ fresh \in BOOLEAN
    BY <1>0, <2>2
  <2>4. [k EXCEPT !.seen = seen, !.fresh = fresh] \in Call
    BY <2>1, <2>3 DEF Call
  <2>5. /\ call' = [call EXCEPT ![c] = [k EXCEPT !.seen = seen, !.fresh = fresh]]
        /\ pc' = [pc EXCEPT ![c] = "checked"] /\ UNCHANGED <<focus, obj>>
    BY <1>5, <2>1 DEF CheckUpdate, Call
  <2> HIDE DEF seen, fresh, k
  <2> QED BY <2>4, <2>5 DEF TypeOK
<1>6. ASSUME NEW c \in Client, DsCreate(c) PROVE TypeOK'
  <2>1. call[c] \in Call
    BY <1>0
  <2>2. [st |-> "live", refs |-> call[c].add, done |-> FALSE] \in Object /\ call[c].s \in Slot
    BY <2>1 DEF Call, Object
  <2>3. obj' \in [Slot -> Object]
    BY <1>0, <1>6, <2>2 DEF DsCreate
  <2> QED BY <1>6, <2>3, ReturnType DEF DsCreate
<1>7. ASSUME NEW c \in Client, DsUpdate(c) PROVE TypeOK'
  <2>1. call[c] \in Call
    BY <1>0
  <2>2. call[c].s \in Slot /\ obj[call[c].s] \in Object
    BY <1>0, <2>1 DEF Call
  <2>3. Updated(obj[call[c].s], call[c]) \in Object
    BY <2>1, <2>2 DEF Call, Object, Updated
  <2>4. obj' \in [Slot -> Object]
    BY <1>0, <1>7, <2>2, <2>3 DEF DsUpdate
  <2> QED BY <1>7, <2>4, ReturnType DEF DsUpdate
<1>8. ASSUME NEW c \in Client, DsDelete(c) PROVE TypeOK'
  <2> DEFINE casc == DeleteOf[call[c].s].cascade
  <2>1. \A s \in Slot : /\ [obj[s] EXCEPT !.st = "gone"] \in Object
                        /\ [obj[s] EXCEPT !.refs = {f \in @ : <<s, f>> \notin casc}] \in Object
    BY <1>0 DEF Object
  <2>2. obj' \in [Slot -> Object]
    BY <1>8, <2>1 DEF DsDelete
  <2> QED BY <1>8, <2>2, ReturnType DEF DsDelete
<1>9. ASSUME NEW c \in Client, Refuse(c) PROVE TypeOK'
  BY <1>0, <1>9, ReturnType DEF Refuse
<1>10. CASE UNCHANGED vars
  BY <1>10 DEF vars, TypeOK
<1> QED BY <1>1, <1>2, <1>3, <1>4, <1>5, <1>6, <1>7, <1>8, <1>9, <1>10 DEF Next

\* The handlers never store anything that is not an object, and no goroutine
\* leaves the protocol of its handler.
THEOREM TypeCorrect == Spec => []TypeOK
BY InitType, StepType, PTL DEF Spec

-----------------------------------------------------------------------------
(* The inductive invariant, action by action.                              *)

LEMMA InitInv == Init => IInv
<1> SUFFICES ASSUME Init PROVE IInv
  OBVIOUS
<1>1. TypeOK
  BY InitType
<1>2. \A s \in Slot : obj[s].refs = {}
  BY DEF Init, NoObject
<1>3. \A c \in Client : pc[c] = "idle" /\ call[c] = NoCall
  BY DEF Init
<1>4. LockExclusion
  BY <1>3 DEF LockExclusion, Inside
<1>5. NoCall.fresh = FALSE
  BY DEF NoCall
<1>6. \A c \in Client : CallInv(c)
  BY <1>3, <1>5 DEF CallInv, CopyIsCurrent
<1>7. RefsResolve
  <2> SUFFICES ASSUME NEW s, NEW f, <<s, f>> \in Protected, Holds(s, f)
               PROVE  IsLive(Fields[s][f])
    BY ResolvePairs
  <2> QED BY <1>2, ProtectedRef DEF Holds
<1> QED BY <1>1, <1>4, <1>6, <1>7 DEF IInv

\* A step that leaves the store alone keeps what does not depend on the caller.
LEMMA OthersKept ==
    ASSUME IInv, UNCHANGED obj, NEW c \in Client, NEW d \in Client, d # c,
           pc'[d] = pc[d], call'[d] = call[d]
    PROVE  CallInv(d)'
<1>1. CallInv(d)
  BY DEF IInv
<1> QED BY <1>1 DEF CallInv, CallShape, CopyIsCurrent, RefsValidated, KeepsItsEnd,
           Unreferenced, IsLive, Holds, IsActive

LEMMA StoreKept ==
    ASSUME RefsResolve, UNCHANGED obj
    PROVE  RefsResolve'
BY DEF RefsResolve, Holds, IsActive, IsLive

LEMMA EnterInv ==
    ASSUME IInv, NEW c \in Client, NEW k \in Call, Enter(c, k),
           CallShape(c)', k.fresh => k.seen = obj[k.s]
    PROVE  IInv'
<1>0. pc \in [Client -> {"idle", "waiting", "locked", "checked"}] /\ call \in [Client -> Call]
  BY DEF IInv, TypeOK
<1>1. TypeOK'
  BY EnterType DEF IInv
<1>2. /\ pc'[c] = "waiting" /\ call'[c] = k /\ UNCHANGED obj
      /\ \A d \in Client : d # c => pc'[d] = pc[d] /\ call'[d] = call[d]
  BY <1>0 DEF Enter
<1>3. LockExclusion'
  BY <1>2 DEF IInv, LockExclusion, Inside
<1>4. CallInv(c)'
  BY <1>2 DEF CallInv, CopyIsCurrent
<1>5. \A d \in Client : CallInv(d)'
  BY <1>2, <1>4, OthersKept
<1> QED BY <1>1, <1>2, <1>3, <1>5, StoreKept DEF IInv

LEMMA BeginCreateInv ==
    ASSUME IInv, NEW c \in Client, NEW s \in Slot, BeginCreate(c, s)
    PROVE  IInv'
<1>0. pc \in [Client -> {"idle", "waiting", "locked", "checked"}] /\ call \in [Client -> Call]
  BY DEF IInv, TypeOK
<1>1. PICK add \in SUBSET ((CreateOf[s].sets \cup CreateOf[s].blind) \cap InFocus(s)) :
        Enter(c, [op |-> "create", s |-> s, lock |-> CreateOf[s].lock, add |-> add,
                  drop |-> {}, done |-> "keep", seen |-> NoObject, fresh |-> FALSE])
  BY DEF BeginCreate
<1> DEFINE k == [op |-> "create", s |-> s, lock |-> CreateOf[s].lock, add |-> add,
                 drop |-> {}, done |-> "keep", seen |-> NoObject, fresh |-> FALSE]
<1>2. s \in DOMAIN CreateOf /\ CreateOf[s].lock \in {"R", "W"}
  BY Tables DEF BeginCreate
<1>3. add \in SUBSET AnyRef
  BY Tables DEF InFocus
<1>4. k \in Call
  BY <1>2, <1>3, NoCallType DEF Call, Lock
<1>5. call'[c] = k
  BY <1>0, <1>1 DEF Enter
<1>6. CallShape(c)'
  BY <1>2, <1>5 DEF CallShape
<1> QED BY <1>1, <1>4, <1>6, EnterInv

LEMMA BeginUpdateInv ==
    ASSUME IInv, NEW c \in Client, NEW s \in Slot, BeginUpdate(c, s)
    PROVE  IInv'
<1>0. /\ pc \in [Client -> {"idle", "waiting", "locked", "checked"}]
      /\ call \in [Client -> Call] /\ obj \in [Slot -> Object]
  BY DEF IInv, TypeOK
<1> DEFINE u == UpdateOf[s]
<1> DEFINE K(add, drop, done) ==
      [op |-> "update", s |-> s,
       lock |-> IF u.fetchFirst /\ (add \cup drop) \cap u.sets = {} THEN "none" ELSE "R",
       add |-> add, drop |-> drop \ add, done |-> done,
       seen |-> IF u.fetchFirst THEN obj[s] ELSE NoObject, fresh |-> u.fetchFirst]
<1>1. PICK add \in SUBSET ((u.sets \cup u.unlocked \cup u.blind) \cap InFocus(s)),
           drop \in SUBSET (u.drops \cap InFocus(s)),
           done \in u.ends \cup {"keep"} : Enter(c, K(add, drop, done))
  BY DEF BeginUpdate
<1>2. add \in SUBSET AnyRef /\ drop \ add \in SUBSET AnyRef
  BY Tables DEF InFocus
<1>3. done \in {"keep", "set", "clear"} /\ u.fetchFirst \in BOOLEAN
  BY Tables
<1>4. (IF u.fetchFirst THEN obj[s] ELSE NoObject) \in Object
  BY <1>0, NoCallType
<1>5. (IF u.fetchFirst /\ (add \cup drop) \cap u.sets = {} THEN "none" ELSE "R") \in Lock
  BY DEF Lock
<1>6. K(add, drop, done) \in Call
  <2> HIDE DEF u
  <2> QED BY <1>2, <1>3, <1>4, <1>5 DEF Call
<1>7. call'[c] = K(add, drop, done) /\ UNCHANGED obj
  BY <1>0, <1>1 DEF Enter
<1>8. CallShape(c)'
  <2>1. /\ call'[c].op = "update" /\ call'[c].s = s /\ call'[c].add = add
        /\ call'[c].lock = IF u.fetchFirst /\ (add \cup drop) \cap u.sets = {}
                           THEN "none" ELSE "R"
    BY <1>7
  <2>2. add \subseteq u.sets \cup u.unlocked \cup u.blind
    OBVIOUS
  <2> QED BY <2>1, <2>2 DEF CallShape
<1>9. K(add, drop, done).fresh => K(add, drop, done).seen = obj[K(add, drop, done).s]
  OBVIOUS
<1> HIDE DEF K
<1> QED BY <1>1, <1>6, <1>8, <1>9, EnterInv

LEMMA BeginDeleteInv ==
    ASSUME IInv, NEW c \in Client, NEW s \in Slot, BeginDelete(c, s)
    PROVE  IInv'
<1>0. /\ pc \in [Client -> {"idle", "waiting", "locked", "checked"}]
      /\ call \in [Client -> Call] /\ obj \in [Slot -> Object]
  BY DEF IInv, TypeOK
<1> DEFINE k == [op |-> "delete", s |-> s, lock |-> "W", add |-> {}, drop |-> {},
                 done |-> "keep", seen |-> obj[s], fresh |-> FALSE]
<1>1. Enter(c, k)
  BY DEF BeginDelete
<1>2. k \in Call
  BY <1>0 DEF Call, Lock
<1>3. call'[c] = k /\ UNCHANGED obj /\ obj[s].st = "live"
  BY <1>0, <1>1 DEF Enter, BeginDelete, IsLive
<1>4. CallShape(c)'
  BY <1>3 DEF CallShape
<1> QED BY <1>1, <1>2, <1>4, EnterInv

\* A step of c that neither writes nor changes the lock c asks for.
LEMMA AcquireInv ==
    ASSUME IInv, NEW c \in Client, Acquire(c)
    PROVE  IInv'
<1>0. pc \in [Client -> {"idle", "waiting", "locked", "checked"}] /\ call \in [Client -> Call]
  BY DEF IInv, TypeOK
<1>1. TypeOK'
  BY StepType DEF IInv, Next
<1>2. /\ pc[c] = "waiting" /\ pc'[c] = "locked" /\ UNCHANGED <<obj, call>>
      /\ \A d \in Client : d # c => pc'[d] = pc[d]
  BY <1>0 DEF Acquire
<1>3. \A d \in Client : call[d].lock \in Lock
  BY <1>0 DEF Call
<1>4. LockExclusion'
  <2> SUFFICES ASSUME NEW d \in Client, NEW e \in Client, d # e,
                      Inside(d)', Inside(e)', call[d].lock = "W"
               PROVE  call[e].lock = "none"
    BY <1>2 DEF LockExclusion
  <2>1. CASE d # c /\ e # c
    BY <1>2, <2>1 DEF IInv, LockExclusion, Inside
  <2>2. CASE d = c
    BY <1>2, <2>2 DEF Acquire, CanLock, Inside
  <2>3. CASE e = c
    BY <1>2, <1>3, <2>3 DEF Acquire, CanLock, Inside, Lock
  <2> QED BY <2>1, <2>2, <2>3
<1>5. CallInv(c)'
  BY <1>2 DEF IInv, CallInv, CallShape, CopyIsCurrent
<1>6. \A d \in Client : CallInv(d)'
  BY <1>2, <1>5, OthersKept
<1> QED BY <1>1, <1>2, <1>4, <1>6, StoreKept DEF IInv

\* A protected reference found valid leads to an object.
LEMMA ValidIsLive ==
    ASSUME IInv, NEW s, NEW f, NEW add, <<s, f>> \in Protected, Valid(s, f, add)
    PROVE  IsLive(Fields[s][f])
<1>1. CASE <<s, f>> \notin DOMAIN Copied
  BY <1>1 DEF Valid
<1>2. CASE <<s, f>> \in DOMAIN Copied
  <2> DEFINE t == Fields[s][Copied[<<s, f>>].via]
  <2> DEFINE g == Copied[<<s, f>>].f
  <2>1. <<t, g>> \in Protected /\ t \notin Request /\ Fields[t][g] = Fields[s][f]
    BY <1>2, CopiedRef
  <2>2. IsLive(t) /\ g \in obj[t].refs
    BY <1>2 DEF Valid
  <2> HIDE DEF t, g
  <2>3. Holds(t, g)
    BY <2>1, <2>2 DEF Holds, IsActive
  <2> QED BY <2>1, <2>3, ResolvePairs DEF IInv
<1> QED BY <1>1, <1>2

\* A step of c from "locked" to "checked" that leaves locks and store alone.
LEMMA CheckInv ==
    ASSUME IInv, TypeOK', NEW c \in Client,
           pc[c] = "locked", pc' = [pc EXCEPT ![c] = "checked"], UNCHANGED obj,
           call'[c].lock = call[c].lock, \A d \in Client \ {c} : call'[d] = call[d],
           CallInv(c)'
    PROVE  IInv'
<1>0. pc \in [Client -> {"idle", "waiting", "locked", "checked"}]
  BY DEF IInv, TypeOK
<1>1. pc'[c] = "checked" /\ \A d \in Client : d # c => pc'[d] = pc[d] /\ call'[d] = call[d]
  BY <1>0
<1>2. LockExclusion'
  BY <1>1 DEF IInv, LockExclusion, Inside
<1>3. \A d \in Client : CallInv(d)'
  BY <1>1, OthersKept
<1> QED BY <1>2, <1>3, StoreKept DEF IInv

LEMMA CheckCreateInv ==
    ASSUME IInv, NEW c \in Client, CheckCreate(c)
    PROVE  IInv'
<1>0. pc \in [Client -> {"idle", "waiting", "locked", "checked"}] /\ call \in [Client -> Call]
  BY DEF IInv, TypeOK
<1>1. TypeOK'
  BY StepType DEF IInv, Next
<1> DEFINE k == call[c]
<1>2. /\ pc[c] = "locked" /\ pc'[c] = "checked" /\ UNCHANGED <<obj, call>> /\ k.op = "create"
  BY <1>0 DEF CheckCreate
<1>3. CallShape(c) /\ CopyIsCurrent(c)
  BY <1>2 DEF IInv, CallInv
<1>4. ASSUME NEW f \in k.add, <<k.s, f>> \in Protected PROVE IsLive(Fields[k.s][f])
  <2>1. f \in CreateOf[k.s].sets
    BY <1>2, <1>3, <1>4, ProtectedRef DEF CallShape
  <2>2. Valid(k.s, f, k.add)
    BY <2>1 DEF CheckCreate
  <2> QED BY <1>4, <2>2, ValidIsLive
<1>5. RefsValidated(c)'
  BY <1>2, <1>4 DEF RefsValidated, IsLive
<1>6. CallInv(c)'
  BY <1>2, <1>3, <1>5 DEF CallInv, CallShape, CopyIsCurrent
<1> QED BY <1>1, <1>2, <1>6, CheckInv DEF CheckCreate

LEMMA CheckUpdateInv ==
    ASSUME IInv, NEW c \in Client, CheckUpdate(c)
    PROVE  IInv'
<1>0. /\ pc \in [Client -> {"idle", "waiting", "locked", "checked"}]
      /\ call \in [Client -> Call] /\ call[c] \in Call
  BY DEF IInv, TypeOK
<1>1. TypeOK'
  BY StepType DEF IInv, Next
<1> DEFINE k == call[c]
<1> DEFINE u == UpdateOf[k.s]
<1> DEFINE seen == IF u.fetchFirst THEN k.seen ELSE obj[k.s]
<1> DEFINE fresh == IF u.fetchFirst THEN k.fresh ELSE TRUE
<1>2. /\ pc[c] = "locked" /\ pc' = [pc EXCEPT ![c] = "checked"] /\ UNCHANGED obj
      /\ k.op = "update" /\ call' = [call EXCEPT ![c] = [k EXCEPT !.seen = seen, !.fresh = fresh]]
  BY <1>0 DEF CheckUpdate, Call
<1>3. /\ \A f \in k.add \cap u.sets :
            (f \in u.delta /\ f \in seen.refs) \/ Valid(k.s, f, k.add)
      /\ KeepsItsEnd(k, seen)
  BY DEF CheckUpdate
<1>4. CallShape(c) /\ CopyIsCurrent(c)
  BY <1>2 DEF IInv, CallInv
<1> HIDE DEF seen, fresh
<1>5. /\ call'[c].op = "update" /\ call'[c].s = k.s /\ call'[c].lock = k.lock
      /\ call'[c].add = k.add /\ call'[c].done = k.done
      /\ call'[c].seen = seen /\ call'[c].fresh = fresh /\ pc'[c] = "checked"
      /\ \A d \in Client \ {c} : call'[d] = call[d]
  BY <1>0, <1>2 DEF Call
<1>6. CallShape(c)'
  BY <1>2, <1>4, <1>5 DEF CallShape
<1>7. CopyIsCurrent(c)'
  BY <1>2, <1>4, <1>5 DEF CopyIsCurrent, seen, fresh
<1>8. RefsValidated(c)'
  <2> SUFFICES ASSUME NEW f \in k.add, <<k.s, f>> \in Protected
               PROVE  IsLive(Fields[k.s][f]) \/ f \in seen.refs
    BY <1>2, <1>5 DEF RefsValidated, IsLive
  <2>1. f \in u.sets
    BY <1>2, <1>4, ProtectedRef DEF CallShape
  <2> QED BY <1>3, <2>1, ValidIsLive
<1>9. KeepsItsEnd(call[c], call[c].seen)'
  BY <1>3, <1>5 DEF KeepsItsEnd
<1>10. CallInv(c)'
  BY <1>5, <1>6, <1>7, <1>8, <1>9 DEF CallInv
<1> QED BY <1>1, <1>2, <1>5, <1>10, CheckInv

LEMMA CheckDeleteInv ==
    ASSUME IInv, NEW c \in Client, CheckDelete(c)
    PROVE  IInv'
<1>0. /\ pc \in [Client -> {"idle", "waiting", "locked", "checked"}]
      /\ call \in [Client -> Call] /\ call[c] \in Call
  BY DEF IInv, TypeOK
<1>1. TypeOK'
  BY StepType DEF IInv, Next
<1> DEFINE k == call[c]
<1>2. /\ pc[c] = "locked" /\ pc'[c] = "checked" /\ UNCHANGED <<obj, call>> /\ k.op = "delete"
  BY <1>0 DEF CheckDelete
<1>3. CallShape(c) /\ CopyIsCurrent(c)
  BY <1>2 DEF IInv, CallInv
<1>4. k.s \in Request => k.seen.done
  BY Tables DEF CheckDelete
<1>5. ASSUME NEW s, NEW f, <<s, f>> \in Protected, Fields[s][f] = k.s,
             <<s, f>> \notin DeleteOf[k.s].cascade
      PROVE  ~Holds(s, f)
  <2>1. Counted(s, f) /\ s \notin DeleteOf[k.s].exempt
    BY <1>5, ProtectedRef
  <2>2. PICK q \in DeleteOf[k.s].counts : q.of = s /\ f \in q.by
    BY <1>5, <2>1 DEF Counted
  <2>3. ~(IsActive(s) /\ \E g \in q.by \cap obj[s].refs : Fields[s][g] = k.s)
    BY <2>1, <2>2 DEF CheckDelete
  <2> QED BY <1>5, <2>2, <2>3 DEF Holds
<1>6. Unreferenced(c)'
  BY <1>2, <1>4, <1>5 DEF Unreferenced, Holds, IsActive, IsLive
<1>7. CallInv(c)'
  BY <1>2, <1>3, <1>6 DEF CallInv, CallShape, CopyIsCurrent
<1> QED BY <1>1, <1>2, <1>7, CheckInv DEF CheckDelete

\* What every write owes to the calls of the other goroutines.
LEMMA WriteInv ==
    ASSUME IInv, NEW c \in Client, NEW W, Return(c, W), pc[c] = "checked",
           obj' \in [Slot -> Object],
           \A s \in Slot \ W : obj'[s] = obj[s],
           \A s \in Slot : obj[s].st # "never" => obj'[s].st # "never",
           \A s \in Request : obj[s].st # "never" /\ obj[s].done => obj'[s].done,
           call[c].lock = "W" \/ \A s \in Slot : IsLive(s) => IsLive(s)',
           \/ call[c].lock # "none"
           \/ \A s, f : <<s, f>> \in Protected /\ Holds(s, f)' => Holds(s, f),
           RefsResolve'
    PROVE  IInv'
<1>0. /\ pc \in [Client -> {"idle", "waiting", "locked", "checked"}]
      /\ call \in [Client -> Call] /\ \A d \in Client : call[d] \in Call
  BY DEF IInv, TypeOK
<1>1. TypeOK'
  BY ReturnType DEF IInv
<1>2. pc'[c] = "idle" /\ call'[c] = NoCall /\ NoCall.fresh = FALSE
  BY <1>0 DEF Return, NoCall
<1>3. ASSUME NEW d \in Client, d # c
      PROVE  /\ pc'[d] = pc[d]
             /\ call'[d].op = call[d].op /\ call'[d].s = call[d].s
             /\ call'[d].lock = call[d].lock /\ call'[d].add = call[d].add
             /\ call'[d].done = call[d].done /\ call'[d].seen = call[d].seen
             /\ call'[d].fresh => call[d].fresh /\ call[d].s \notin W
             /\ call[d].s \in Slot
  <2>1. pc'[d] = pc[d] /\ call[d] \in Call
    BY <1>0, <1>3 DEF Return
  <2>2. call'[d] = IF call[d].s \in W THEN [call[d] EXCEPT !.fresh = FALSE] ELSE call[d]
    BY <1>3 DEF Return
  <2> QED BY <2>1, <2>2 DEF Call
<1>4. LockExclusion'
  BY <1>2, <1>3 DEF IInv, LockExclusion, Inside
<1>5. ASSUME NEW d \in Client, d # c PROVE CallInv(d)'
  <2>0. CallInv(d)
    BY DEF IInv
  <2>1. pc'[d] # "idle" => CallShape(d)'
    BY <1>3, <1>5, <2>0 DEF CallInv, CallShape
  <2>2. CopyIsCurrent(d)'
    BY <1>3, <1>5, <2>0 DEF CallInv, CopyIsCurrent
  <2>3. ASSUME pc'[d] = "checked", call'[d].op # "delete" PROVE RefsValidated(d)'
    <3> DEFINE k == call[d]
    <3>1. pc[d] = "checked" /\ k.op # "delete" /\ k \in Call
      BY <1>0, <1>3, <1>5, <2>3
    <3>2. RefsValidated(d) /\ CallShape(d)
      BY <2>0, <3>1 DEF CallInv
    <3>0. PICK s \in Slot : s = k.s
      BY <1>3, <1>5
    <3> SUFFICES ASSUME NEW f \in k.add, <<k.s, f>> \in Protected
                 PROVE  IsLive(Fields[s][f])' \/ (k.op = "update" /\ f \in k.seen.refs)
      BY <1>3, <1>5, <3>0 DEF RefsValidated
    <3>3. IsLive(Fields[k.s][f]) \/ (k.op = "update" /\ f \in k.seen.refs)
      BY <3>2 DEF RefsValidated
    <3>4. Fields[k.s][f] \in Slot
      BY ProtectedRef
    <3>5. k.op \in {"create", "update"}
      BY <3>1 DEF Call
    <3>6. k.lock # "none"
      BY <3>2, <3>5, ProtectedRef DEF CallShape
    <3>7. call[c].lock # "W"
      BY <1>5, <3>1, <3>6 DEF IInv, LockExclusion, Inside
    <3> QED BY <3>0, <3>3, <3>4, <3>7
  <2>4. pc'[d] = "checked" /\ call'[d].op = "update" => KeepsItsEnd(call[d], call[d].seen)'
    BY <1>3, <1>5, <2>0 DEF CallInv, KeepsItsEnd
  <2>5. ASSUME pc'[d] = "checked", call'[d].op = "delete" PROVE Unreferenced(d)'
    <3>1. pc[d] = "checked" /\ call[d].op = "delete"
      BY <1>3, <1>5, <2>5
    <3>2. Unreferenced(d) /\ CallShape(d)
      BY <2>0, <3>1 DEF CallInv
    <3>3. call[c].lock = "none"
      BY <1>5, <3>1, <3>2 DEF IInv, LockExclusion, Inside, CallShape
    <3>4. \A s, f : <<s, f>> \in Protected /\ Holds(s, f)' => Holds(s, f)
      BY <3>3
    <3> QED BY <1>3, <1>5, <3>2, <3>4 DEF Unreferenced
  <2> QED BY <2>1, <2>2, <2>3, <2>4, <2>5 DEF CallInv
<1>6. CallInv(c)'
  BY <1>2 DEF CallInv, CopyIsCurrent
<1> QED BY <1>1, <1>4, <1>5, <1>6 DEF IInv

LEMMA DsCreateInv ==
    ASSUME IInv, NEW c \in Client, DsCreate(c)
    PROVE  IInv'
<1> DEFINE k == call[c]
<1>0. /\ obj \in [Slot -> Object] /\ k \in Call /\ k.s \in Slot /\ k.op = "create"
      /\ pc[c] = "checked" /\ obj[k.s].st = "never"
  BY DEF IInv, TypeOK, Call, DsCreate
<1>1. obj' \in [Slot -> Object]
  BY StepType DEF IInv, Next, TypeOK
<1>2. CallShape(c) /\ RefsValidated(c)
  BY <1>0 DEF IInv, CallInv
<1>3. /\ obj'[k.s] = [st |-> "live", refs |-> k.add, done |-> FALSE]
      /\ \A s \in Slot \ {k.s} : obj'[s] = obj[s]
  BY <1>0 DEF DsCreate
<1>4. \A s \in Slot : IsLive(s) => IsLive(s)'
  BY <1>3 DEF IsLive
<1>5. RefsResolve'
  <2> SUFFICES ASSUME NEW s, NEW f, <<s, f>> \in Protected, Holds(s, f)'
               PROVE  IsLive(Fields[s][f])'
    BY ResolveNext
  <2>0. s \in Slot /\ Fields[s][f] \in Slot
    BY ProtectedRef
  <2>1. CASE s = k.s
    <3>1. f \in k.add
      BY <1>3, <2>1 DEF Holds
    <3>2. IsLive(Fields[s][f])
      BY <1>0, <1>2, <2>1, <3>1 DEF RefsValidated
    <3> QED BY <1>4, <2>0, <3>2
  <2>2. CASE s # k.s
    <3>1. Holds(s, f)
      BY <1>3, <2>0, <2>2 DEF Holds, IsActive, IsLive
    <3>2. IsLive(Fields[s][f])
      BY <3>1, ResolvePairs DEF IInv
    <3> QED BY <1>4, <2>0, <3>2
  <2> QED BY <2>1, <2>2
<1>6. \A s \in Slot : obj[s].st # "never" => obj'[s].st # "never"
  BY <1>3
<1>7. \A s \in Request : obj[s].st # "never" /\ obj[s].done => obj'[s].done
  BY <1>0, <1>3, Tables
<1>8. call[c].lock # "none"
  BY <1>0, <1>2 DEF CallShape
<1> QED BY <1>0, <1>1, <1>3, <1>4, <1>5, <1>6, <1>7, <1>8, WriteInv DEF DsCreate

LEMMA DsUpdateInv ==
    ASSUME IInv, NEW c \in Client, DsUpdate(c)
    PROVE  IInv'
<1> DEFINE k == call[c]
<1>0. /\ obj \in [Slot -> Object] /\ k \in Call /\ k.s \in Slot /\ k.op = "update"
      /\ pc[c] = "checked" /\ obj[k.s].st = "live" /\ obj[k.s] \in Object /\ k.fresh
  BY DEF IInv, TypeOK, Call, DsUpdate
<1>1. obj' \in [Slot -> Object]
  BY StepType DEF IInv, Next, TypeOK
<1>2. /\ CallShape(c) /\ RefsValidated(c) /\ KeepsItsEnd(k, k.seen)
      /\ k.seen = obj[k.s]
  BY <1>0 DEF IInv, CallInv, CopyIsCurrent
<1>3. /\ obj'[k.s].st = "live"
      /\ obj'[k.s].refs = (obj[k.s].refs \ k.drop) \cup k.add
      /\ k.done = "keep" => obj'[k.s].done = obj[k.s].done
      /\ \A s \in Slot \ {k.s} : obj'[s] = obj[s]
  BY <1>0 DEF DsUpdate, Updated, Object
<1>4. \A s \in Slot : IsLive(s) => IsLive(s)'
  BY <1>3 DEF IsLive
<1>5. k.s \in Request /\ obj[k.s].done => obj'[k.s].done
  BY <1>2, <1>3, Tables DEF KeepsItsEnd
<1>6. \A s : s = k.s => (IsActive(s)' => IsActive(s))
  BY <1>0, <1>5 DEF IsActive, IsLive
<1>7. RefsResolve'
  <2> SUFFICES ASSUME NEW s, NEW f, <<s, f>> \in Protected, Holds(s, f)'
               PROVE  IsLive(Fields[s][f])'
    BY ResolveNext
  <2>0. s \in Slot /\ Fields[s][f] \in Slot
    BY ProtectedRef
  <2>1. CASE s = k.s /\ f \in k.add
    <3>1. CASE IsLive(Fields[s][f])
      BY <1>4, <2>0, <3>1
    <3>2. CASE f \in k.seen.refs
      <4>1. Holds(s, f)
        BY <1>2, <1>6, <2>1, <3>2 DEF Holds
      <4> QED BY <1>4, <2>0, <4>1, ResolvePairs DEF IInv
    <3> QED BY <1>2, <2>1, <3>1, <3>2 DEF RefsValidated
  <2>2. CASE ~(s = k.s /\ f \in k.add)
    <3>1. Holds(s, f)
      BY <1>3, <1>6, <2>0, <2>2 DEF Holds, IsActive, IsLive
    <3> QED BY <1>4, <2>0, <3>1, ResolvePairs DEF IInv
  <2> QED BY <2>1, <2>2
<1>8. \A s \in Slot : obj[s].st # "never" => obj'[s].st # "never"
  BY <1>3
<1>9. \A s \in Request : obj[s].st # "never" /\ obj[s].done => obj'[s].done
  BY <1>3, <1>5, Tables
<1>10. ASSUME call[c].lock = "none", NEW s, NEW f, <<s, f>> \in Protected, Holds(s, f)'
       PROVE  Holds(s, f)
  <2>0. s \in Slot
    BY <1>10, ProtectedRef
  <2>1. ~(s = k.s /\ f \in k.add)
    BY <1>0, <1>2, <1>10, ProtectedRef DEF CallShape
  <2> QED BY <1>3, <1>6, <1>10, <2>0, <2>1 DEF Holds, IsActive, IsLive
<1>11. Return(c, {k.s})
  BY DEF DsUpdate
<1> QED BY <1>0, <1>1, <1>3, <1>4, <1>7, <1>8, <1>9, <1>10, <1>11, WriteInv

LEMMA DsDeleteInv ==
    ASSUME IInv, NEW c \in Client, DsDelete(c)
    PROVE  IInv'
<1> DEFINE k == call[c]
<1> DEFINE casc == DeleteOf[k.s].cascade
<1> DEFINE W == {k.s} \cup {p[1] : p \in casc}
<1>0. /\ obj \in [Slot -> Object] /\ k \in Call /\ k.s \in Slot /\ k.op = "delete"
      /\ pc[c] = "checked" /\ \A s \in Slot : obj[s] \in Object
  BY DEF IInv, TypeOK, Call, DsDelete
<1>1. obj' \in [Slot -> Object]
  BY StepType DEF IInv, Next, TypeOK
<1>2. CallShape(c) /\ Unreferenced(c)
  BY <1>0 DEF IInv, CallInv
<1>3. /\ obj'[k.s] = [obj[k.s] EXCEPT !.st = "gone"]
      /\ \A s \in Slot \ {k.s} :
            obj'[s] = [obj[s] EXCEPT !.refs = {f \in @ : <<s, f>> \notin casc}]
  BY <1>0 DEF DsDelete
<1>4. /\ obj'[k.s].st = "gone" /\ obj'[k.s].done = obj[k.s].done
      /\ \A s \in Slot \ {k.s} :
            /\ obj'[s].st = obj[s].st /\ obj'[s].done = obj[s].done
            /\ obj'[s].refs = {f \in obj[s].refs : <<s, f>> \notin casc}
  BY <1>0, <1>3 DEF Object
<1>5. ASSUME NEW s \in Slot \ W PROVE obj'[s] = obj[s]
  <2>1. s # k.s
    BY <1>5
  <2>2. \A f : <<s, f>> \in casc => <<s, f>>[1] \in {p[1] : p \in casc}
    OBVIOUS
  <2>3. \A f : <<s, f>> \notin casc
    BY <1>5, <2>2
  <2>4. {f \in obj[s].refs : <<s, f>> \notin casc} = obj[s].refs
    BY <2>3
  <2>5. obj'[s] = [obj[s] EXCEPT !.refs = obj[s].refs]
    BY <1>3, <2>1, <2>4
  <2> QED BY <1>0, <2>5 DEF Object
<1>6. RefsResolve'
  <2> SUFFICES ASSUME NEW s, NEW f, <<s, f>> \in Protected, Holds(s, f)'
               PROVE  IsLive(Fields[s][f])'
    BY ResolveNext
  <2>0. s \in Slot /\ Fields[s][f] \in Slot
    BY ProtectedRef
  <2>1. s # k.s
    BY <1>4 DEF Holds, IsActive, IsLive
  <2>2. Holds(s, f) /\ <<s, f>> \notin casc
    BY <1>4, <2>0, <2>1 DEF Holds, IsActive, IsLive
  <2>3. Fields[s][f] # k.s
    BY <1>2, <2>2 DEF Unreferenced
  <2>4. IsLive(Fields[s][f])
    BY <2>2, ResolvePairs DEF IInv
  <2> QED BY <1>4, <2>0, <2>3, <2>4 DEF IsLive
<1>7. \A s \in Slot : obj[s].st # "never" => obj'[s].st # "never"
  BY <1>4
<1>8. \A s \in Request : obj[s].st # "never" /\ obj[s].done => obj'[s].done
  BY <1>4, Tables
<1>9. call[c].lock = "W"
  BY <1>0, <1>2 DEF CallShape
<1>10. Return(c, W)
  BY DEF DsDelete
<1> HIDE DEF W
<1> QED BY <1>0, <1>1, <1>5, <1>6, <1>7, <1>8, <1>9, <1>10, WriteInv

LEMMA RefuseInv ==
    ASSUME IInv, NEW c \in Client, Refuse(c)
    PROVE  IInv'
<1>0. /\ pc \in [Client -> {"idle", "waiting", "locked", "checked"}]
      /\ call \in [Client -> Call] /\ UNCHANGED obj
  BY DEF IInv, TypeOK, Refuse
<1>1. TypeOK'
  BY StepType DEF IInv, Next
<1>2. pc'[c] = "idle" /\ call'[c] = NoCall /\ NoCall.fresh = FALSE
  BY <1>0 DEF Refuse, Return, NoCall
<1>3. \A d \in Client : d # c => pc'[d] = pc[d] /\ call'[d] = call[d]
  BY <1>0 DEF Refuse, Return
<1>4. LockExclusion'
  BY <1>2, <1>3 DEF IInv, LockExclusion, Inside
<1>5. CallInv(c)'
  BY <1>2 DEF CallInv, CopyIsCurrent
<1>6. \A d \in Client : CallInv(d)'
  BY <1>0, <1>3, <1>5, OthersKept
<1> QED BY <1>0, <1>1, <1>4, <1>6, StoreKept DEF IInv

LEMMA StepInv ==
    ASSUME IInv, [Next]_vars
    PROVE  IInv'
<1>1. CASE Next
  BY <1>1, BeginCreateInv, BeginUpdateInv, BeginDeleteInv, AcquireInv, CheckCreateInv,
     CheckUpdateInv, CheckDeleteInv, DsCreateInv, DsUpdateInv, DsDeleteInv, RefuseInv
     DEF Next
<1>2. CASE UNCHANGED vars
  BY <1>2 DEF vars, IInv, TypeOK, LockExclusion, CallInv, CallShape, CopyIsCurrent,
     RefsValidated, KeepsItsEnd, Unreferenced, RefsResolve, Holds, IsActive, IsLive, Inside
<1> QED BY <1>1, <1>2

\* The lock protocol of the handlers keeps the inductive invariant.
THEOREM Invariance == Spec => []IInv
BY InitInv, StepInv, PTL DEF Spec

\* No protected reference of a stored object ever dangles, whatever creates,
\* updates and deletes of whatever objects run at the same time.
THEOREM RefsCorrect == Spec => []RefsResolve
<1>1. IInv => RefsResolve
  BY DEF IInv
<1> QED BY <1>1, Invariance, PTL

\* A request is only ever deleted in a terminal state, although the delete
\* handler decides on a copy it fetched before it had the lock.
THEOREM DeletesCorrect == Spec => DeletesOnlyTerminated
<1> DEFINE D == \A s \in Request : IsLive(s) /\ obj'[s].st = "gone" => obj[s].done
<1>1. ASSUME IInv, [Next]_vars PROVE [D]_vars
  <2> SUFFICES ASSUME NEW s \in Request, obj[s].st = "live", obj'[s].st = "gone"
               PROVE  obj[s].done
    BY DEF IsLive
  <2>0. obj \in [Slot -> Object] /\ call \in [Client -> Call] /\ s \in Slot
    BY <1>1, Tables DEF IInv, TypeOK
  <2>a. obj' # obj /\ Next
    BY <1>1 DEF vars
  <2>b. \A c \in Client, t \in Slot :
          (BeginCreate(c, t) \/ BeginUpdate(c, t) \/ BeginDelete(c, t)) => obj' = obj
    BY DEF BeginCreate, BeginUpdate, BeginDelete, Enter
  <2>c. \A c \in Client :
          Acquire(c) \/ CheckCreate(c) \/ CheckUpdate(c) \/ CheckDelete(c) \/ Refuse(c)
            => obj' = obj
    BY DEF Acquire, CheckCreate, CheckUpdate, CheckDelete, Refuse
  <2>1. PICK c \in Client : DsCreate(c) \/ DsUpdate(c) \/ DsDelete(c)
    BY <2>a, <2>b, <2>c DEF Next
  <2>2. call[c].s \in Slot /\ obj[s] \in Object
    BY <2>0 DEF Call
  <2>3. ~DsCreate(c)
    BY <2>0, <2>2 DEF DsCreate
  <2>4. ~DsUpdate(c)
    <3>1. \A t \in Slot : Updated(obj[t], call[c]).st = obj[t].st
      BY <2>0 DEF Updated, Object
    <3> QED BY <2>0, <2>2, <3>1 DEF DsUpdate
  <2>5. DsDelete(c) /\ call[c].s = s
    BY <2>0, <2>1, <2>2, <2>3, <2>4 DEF DsDelete, Object
  <2>6. pc[c] = "checked" /\ call[c].op = "delete"
    BY <2>5 DEF DsDelete
  <2>7. CallShape(c) /\ Unreferenced(c)
    BY <1>1, <2>6 DEF IInv, CallInv
  <2> QED BY <2>5, <2>6, <2>7 DEF CallShape, Unreferenced
<1> QED BY <1>1, Invariance, PTL DEF Spec, DeletesOnlyTerminated
=============================================================================
