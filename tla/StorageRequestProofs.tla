------------------------ MODULE StorageRequestProofs ------------------------
(***************************************************************************)
(* Theorems about StorageRequest, for every set of requests, Storage       *)
(* objects, volumes and nodes, and every bound on faults and restarts:     *)
(*                                                                         *)
(*   TypeCorrect        the type invariant                                 *)
(*   OneDaemonCorrect   one daemon works on a request at a time            *)
(*   OneRequestCorrect  two requests never work on the same storage        *)
(*   ProvisionedCorrect provisioned storage belongs to a request that has  *)
(*                      not failed                                         *)
(*   OrphansCorrect     a volume that no Storage object names has a tag,   *)
(*                      if VolumeList does not fail                        *)
(*                                                                         *)
(* The invariant is inductive in layers (module StorageRequestInv): Inv1   *)
(* is the shape of a goroutine (the lists of states and the sub-state of   *)
(* its handler), Inv2 who works on a request, Inv3 which storage a request *)
(* and its goroutine hold, Inv4 what is still to be undone, Inv5 which     *)
(* volumes there are of a storage.  In every layer there is a lemma per    *)
(* action or per kind of action, named after the layer (Type..., Shape..., *)
(* Work..., Own..., Pend..., Kept..., Rest..., Backed..., Cloud...).       *)
(***************************************************************************)
EXTENDS StorageRequestInv, TLAPS, SequenceTheorems, FiniteSetTheorems

-----------------------------------------------------------------------------
(***************************************************************************)
(* The types of the helpers of the animators, and of each action.          *)
(***************************************************************************)

\* A goroutine of the table of an animator is a goroutine.
LEMMA GoType ==
    ASSUME TypeOK, NEW d \in Daemon, NEW r \in SR
    PROVE  G(d, r) \in Goroutines
BY DEF TypeOK, G

\* A step that replaces one goroutine keeps the type of the table.
LEMMA BecomeType ==
    ASSUME TypeOK, NEW d \in Daemon, NEW r \in SR, NEW g \in Goroutines, Become(d, r, g)
    PROVE  go' \in [Daemon \X SR -> Goroutines]
BY DEF TypeOK, Become

\* A handler that goes on to its next sub-state.
LEMMA CallType ==
    ASSUME NEW g \in Goroutines, NEW sub \in Subs
    PROVE  Call(g, sub) \in Goroutines
BY DEF Call, Goroutines

\* The undo list of one state (undoStateMap).
LEMMA UndoOfType == \A st : UndoOf(st) \in Seq(States)
<1>1. DOMAIN undoStateMap = {"PROVISIONING", "ATTACHING", "DETACHING"}
  BY DEF undoStateMap
<1>2. \A st \in DOMAIN undoStateMap : undoStateMap[st] \in States
  BY <1>1 DEF undoStateMap, States
<1> QED BY <1>2 DEF UndoOf

\* A handler that returns to the loop of requestAnimator.
LEMMA ReturnType ==
    ASSUME NEW d, NEW r, NEW g \in Goroutines
    PROVE  Return(d, r, g) \in Goroutines
<1> DEFINE pc == IF g.back THEN "next"
                     ELSE IF g.err \/ g.retry \/ g.todo = <<>> THEN "turn" ELSE "next"
           undo == IF d = "centrald" /\ ~g.back /\ ~Has(r, "REATTACH")
                       THEN g.undo \o UndoOf(g.st) ELSE g.undo
<1>1. g.undo \in Seq(States) BY DEF Goroutines
<1>2. undo \in Seq(States) BY <1>1, UndoOfType
<1>3. pc \in {"next", "turn"} OBVIOUS
<1>4. Return(d, r, g) = [g EXCEPT !.sub = None, !.ids = FALSE, !.pc = pc, !.undo = undo]
  BY DEF Return
<1> HIDE DEF pc, undo
<1> QED BY <1>2, <1>3, <1>4 DEF Goroutines, None

\* A list of at most one state, as the state lists are built from.
LEMMA WhenType ==
    ASSUME NEW S, NEW c, NEW st, c => st \in S
    PROVE  When(c, st) \in Seq(S)
BY DEF When

\* Lists of states are appended to one another.
LEMMA ConcatType ==
    ASSUME NEW S, NEW a \in Seq(S), NEW b \in Seq(S)
    PROVE  a \o b \in Seq(S)
OBVIOUS

\* centrald's list of the states that remain.
LEMMA CentralTodoType ==
    ASSUME NEW r, NEW o
    PROVE  CentralTodo(r, o) \in Seq(States)
<1> DEFINE n == Order(req[r].st)
           s0 == IF Has(r, "REATTACH") THEN CentralReattach(r, o) ELSE <<>>
           s1 == When(Has(r, "PROVISION") /\ n <= 1, "PROVISIONING")
           s2 == When(Has(r, "ATTACH") /\ n <= 2, "ATTACHING")
           s3 == When(Has(r, "FORMAT") /\ n <= 3, "FORMATTING")
           s4 == When(Has(r, "USE") /\ ~Has(r, "FORMAT") /\ n <= 4, "USING")
           s5 == When(Has(r, "CLOSE") /\ n <= 5, "CLOSING")
           s6 == When(Has(r, "DETACH") /\ n <= 6, "DETACHING")
           s7 == When(Has(r, "RELEASE") /\ n <= 7, "RELEASING")
           s8 == When(Has(r, "PROVISION") /\ n <= 7, "REMOVING_TAG")
<1>1. s0 \in Seq(States)
  <2> DEFINE w == When(req[r].node # req[r].target, "REATTACHING")
  <2>1. w \in Seq(States) BY WhenType DEF States
  <2>2. <<"ATTACHING", "USING">> \in Seq(States) BY DEF States
  <2>3. w \o <<"ATTACHING", "USING">> \in Seq(States) BY <2>1, <2>2, ConcatType
  <2>4. /\ <<"USING">> \in Seq(States) /\ <<"CLOSING">> \in Seq(States)
        /\ <<"DETACHING", "REATTACHING", "ATTACHING", "USING">> \in Seq(States)
    BY DEF States
  <2>5. CentralReattach(r, o) \in Seq(States) BY <2>3, <2>4 DEF CentralReattach
  <2> QED BY <2>5
<1>2. /\ s1 \in Seq(States) /\ s2 \in Seq(States) /\ s3 \in Seq(States) /\ s4 \in Seq(States)
      /\ s5 \in Seq(States) /\ s6 \in Seq(States) /\ s7 \in Seq(States) /\ s8 \in Seq(States)
  BY WhenType DEF States
<1>3. CentralTodo(r, o) = s0 \o s1 \o s2 \o s3 \o s4 \o s5 \o s6 \o s7 \o s8
  BY DEF CentralTodo
<1> HIDE DEF s0, s1, s2, s3, s4, s5, s6, s7, s8
<1> QED BY <1>1, <1>2, <1>3, ConcatType

\* What centrald lists of earlier runs to undo.
LEMMA CentralUndoType ==
    ASSUME NEW r
    PROVE  CentralUndo(r) \in Seq(States)
<1> DEFINE n == Order(req[r].st)
           s1 == When(Has(r, "PROVISION") /\ n \in 2..10, "UNDO_PROVISIONING")
           s2 == When(Has(r, "ATTACH") /\ n \in 3..9, "UNDO_ATTACHING")
           s3 == When(Has(r, "DETACH") /\ n \in 7..8, "UNDO_DETACHING")
<1>1. /\ s1 \in Seq(States) /\ s2 \in Seq(States) /\ s3 \in Seq(States)
  BY WhenType DEF States
<1>2. CentralUndo(r) = s1 \o s2 \o s3 BY DEF CentralUndo
<1> HIDE DEF s1, s2, s3
<1> QED BY <1>1, <1>2, ConcatType

\* agentd's list of the states that remain.
LEMMA AgentTodoType ==
    ASSUME NEW r, NEW n, NEW o
    PROVE  AgentTodo(r, n, o) \in Seq(States)
<1> DEFINE k == AgentOrder(req[r].st)
           s1 == When(Has(r, "FORMAT") /\ k <= 1, "FORMATTING")
           s2 == When(Has(r, "USE") /\ k <= 2, "USING")
           s3 == When(Has(r, "CLOSE") /\ k <= 3, "CLOSING")
           s4 == When(Has(r, "CLOSE") /\ Has(r, "DETACH") /\ k <= 3, "DETACHING")
           s5 == When(Has(r, "PROVISION") /\ k <= 4, "REMOVING_TAG")
           s6 == When(o.dev \in {"OPENING", "UNUSED", "ERROR"}, "USING")
           s7 == When(o.dev # "UNUSED", "CLOSING")
<1>1. /\ s1 \in Seq(States) /\ s2 \in Seq(States) /\ s3 \in Seq(States) /\ s4 \in Seq(States)
      /\ s5 \in Seq(States) /\ s6 \in Seq(States) /\ s7 \in Seq(States)
  BY WhenType DEF States
<1>2. AgentReattach(r, n, o) \in {<<>>, s6, s7 \o <<"DETACHING">>}
  BY DEF AgentReattach
<1>3. <<>> \in Seq(States) /\ <<"DETACHING">> \in Seq(States) BY DEF States
<1>4. AgentTodo(r, n, o) \in {AgentReattach(r, n, o), s1 \o s2 \o s3 \o s4 \o s5}
  BY DEF AgentTodo
<1> HIDE DEF s1, s2, s3, s4, s5, s6, s7
<1>5. s7 \o <<"DETACHING">> \in Seq(States) BY <1>1, <1>3, ConcatType
<1>6. AgentReattach(r, n, o) \in Seq(States) BY <1>1, <1>2, <1>3, <1>5
<1>7. s1 \o s2 \o s3 \o s4 \o s5 \in Seq(States) BY <1>1, ConcatType
<1> QED BY <1>4, <1>6, <1>7

\* getInitialState of every handler names one of its sub-states, or none.
LEMMA FirstSubType == \A d, st, o : FirstSub(d, st, o) \in Subs \cup {None}
BY DEF FirstSub, ProvisionFirst, AttachFirst, DetachFirst, ReleaseFirst, FormatFirst, UseFirst,
       Subs, None

\* requestAnimator enters the next state of its list.
LEMMA EnterStateType ==
    ASSUME TypeOK, NEW d, NEW r \in SR, NEW g0 \in Goroutines, NEW st \in States,
           g0.todo # <<>>
    PROVE  EnterState(d, r, g0, st) \in Goroutines
<1> DEFINE node == IF st = "REATTACHING" THEN req[r].target ELSE g0.node
           retry == HandsOver(d, st)
           noid == g0.noid \/ st \in {"RELEASING", "UNDO_PROVISIONING"}
           ids == st = "PROVISIONING" /\ g0.mem.prov # None
           err == g0.err \/ (st = "USING" /\ d # "centrald" /\ g0.mem.media # "FORMATTED")
           g == [g0 EXCEPT !.st = st, !.todo = Tail(g0.todo), !.retry = retry, !.node = node,
                           !.noid = noid, !.ids = ids, !.err = err]
           sub == FirstSub(d, st, g.mem)
<1>1. node \in Node \cup {None} BY DEF TypeOK, Requests, Goroutines
<1>2. Tail(g0.todo) \in Seq(States) BY DEF Goroutines
<1>3. retry \in BOOLEAN /\ noid \in BOOLEAN /\ ids \in BOOLEAN /\ err \in BOOLEAN
  <2>1. retry \in BOOLEAN
    <3>1. CASE d = "centrald" BY <3>1 DEF HandsOver
    <3>2. CASE d # "centrald" BY <3>2 DEF HandsOver
    <3> QED BY <3>1, <3>2
  <2>2. noid \in BOOLEAN BY DEF Goroutines
  <2>3. ids \in BOOLEAN OBVIOUS
  <2>4. err \in BOOLEAN BY DEF Goroutines
  <2> QED BY <2>1, <2>2, <2>3, <2>4
<1>4. EnterState(d, r, g0, st) = IF sub = None THEN Return(d, r, g) ELSE [g EXCEPT !.pc = "call", !.sub = sub]
  BY DEF EnterState
<1>5. sub \in Subs \cup {None} BY FirstSubType
<1>6. g \in Goroutines
  <2> HIDE DEF node, retry, noid, ids, err
  <2> QED BY <1>1, <1>2, <1>3 DEF Goroutines
<1> HIDE DEF g, sub
<1>7. [g EXCEPT !.pc = "call", !.sub = sub] \in Goroutines
  BY <1>5, <1>6 DEF Goroutines
<1> QED BY <1>4, <1>6, <1>7, ReturnType

\* A handler that returns to be retried, or with an error.
LEMMA LaterType ==
    ASSUME NEW d, NEW r, NEW g \in Goroutines
    PROVE  Later(d, r, g) \in Goroutines /\ Failing(d, r, g) \in Goroutines
<1>1. [g EXCEPT !.retry = TRUE] \in Goroutines /\ [g EXCEPT !.err = TRUE] \in Goroutines
  BY DEF Goroutines
<1> QED BY <1>1, ReturnType DEF Later, Failing

\* No goroutine.
LEMMA IdleType == Idle \in Goroutines
BY DEF Idle, Goroutines, NoStorage, Storage, None

\* The end of the forward loop of an animator, or of the backward one.
LEMMA FinishType ==
    ASSUME NEW d, NEW r, NEW g \in Goroutines
    PROVE  Finish(d, r, g) \in Goroutines
<1> DEFINE pc == IF d # "centrald" /\ (g.err \/ g.late) /\ ~Has(r, "REATTACH")
                          THEN "reset" ELSE "final"
<1>1. pc \in {"reset", "final"} OBVIOUS
<1>2. Finish(d, r, g) = IF g.retry THEN Idle ELSE [g EXCEPT !.pc = pc, !.todo = <<>>, !.undo = <<>>]
  BY DEF Finish
<1> HIDE DEF pc
<1>3. ASSUME NEW nil \in Seq(States)
      PROVE  [g EXCEPT !.pc = pc, !.todo = nil, !.undo = nil] \in Goroutines
  BY <1>1 DEF Goroutines
<1>4. <<>> \in Seq(States) OBVIOUS
<1>5. [g EXCEPT !.pc = pc, !.todo = <<>>, !.undo = <<>>] \in Goroutines
  BY <1>3, <1>4
<1> QED BY <1>2, <1>5, IdleType

\* dispatchRequests starts a goroutine.
LEMMA StartType ==
    ASSUME TypeOK, NEW d \in Daemon, NEW r \in SR, NEW o \in Storage,
           NEW todo \in Seq(States), NEW undo \in Seq(States), NEW err,
           Start(d, r, o, todo, undo, err), err \in BOOLEAN
    PROVE  go' \in [Daemon \X SR -> Goroutines]
<1> DEFINE pc == IF r \in expired \/ err THEN "turn" ELSE "next"
           late == r \in expired
           g == [Idle EXCEPT !.pc = pc,
                     !.st = req[r].st, !.sid = req[r].sid, !.node = req[r].node, !.mem = o,
                     !.todo = todo, !.undo = undo, !.err = err, !.late = late]
<1>1. pc \in {"turn", "next"} /\ late \in BOOLEAN OBVIOUS
<1>2. /\ req[r].st \in States \cup {None} /\ req[r].sid \in Stg \cup {None}
      /\ req[r].node \in Node \cup {None}
  BY DEF TypeOK, Requests
<1>3. go' = [go EXCEPT ![<<d, r>>] = g] BY DEF Start
<1> HIDE DEF pc, late
<1>4. g \in Goroutines BY <1>1, <1>2, IdleType DEF Goroutines
<1> HIDE DEF g
<1> QED BY <1>3, <1>4 DEF TypeOK

\* What a fetch of a Storage object returns, if it is there or not.
LEMMA FetchedType ==
    ASSUME TypeOK, NEW s \in Stg \cup {None}
    PROVE  Fetched(s) \in Storage
<1>1. NoStorage \in Storage BY DEF NoStorage, Storage, None
<1> QED BY <1>1 DEF Fetched, TypeOK, Exists

(* What an update of the Storage object of a goroutine leaves. *)
LEMMA StorageUpdateType ==
    ASSUME TypeOK, NEW d \in Daemon, NEW r \in SR, NEW new \in Storage, NEW ok \in Goroutines,
           NEW failed \in Goroutines, StorageUpdate(d, r, new, ok, failed)
    PROVE  /\ stg' \in [Stg -> Storage]
           /\ go' \in [Daemon \X SR -> Goroutines]
           /\ faults' \in Nat
<1> DEFINE g == G(d, r)
           s == g.sid
           current == /\ Exists(s) /\ \A f \in {"att", "dev", "media", "node"} : stg[s][f] = g.mem[f]
                      /\ stg[s].prov \in {g.mem.prov, "PROVISIONING"}
           saved == [new EXCEPT !.vol = IF g.sub = "setProvisioned" THEN @ ELSE stg[s].vol]
<1>1. g \in Goroutines BY GoType
<1>2. \/ /\ Exists(s) /\ stg' = [stg EXCEPT ![s] = saved]
         /\ Become(d, r, [ok EXCEPT !.mem = saved]) /\ UNCHANGED faults
      \/ (UNCHANGED faults \/ faults' = faults + 1) /\ Become(d, r, failed) /\ UNCHANGED stg
  BY DEF StorageUpdate, Fault
<1>3. CASE /\ Exists(s) /\ stg' = [stg EXCEPT ![s] = saved]
           /\ Become(d, r, [ok EXCEPT !.mem = saved]) /\ UNCHANGED faults
  <2>1. s \in Stg BY <1>1, <1>3 DEF Exists, Goroutines
  <2>2. saved \in Storage
    <3> DEFINE v == IF g.sub = "setProvisioned" THEN new.vol ELSE stg[s].vol
    <3>1. v \in Vol \cup {None} BY <2>1 DEF Storage, TypeOK
    <3>2. saved = [new EXCEPT !.vol = v] OBVIOUS
    <3> HIDE DEF v, saved
    <3> QED BY <3>1, <3>2 DEF Storage
  <2> HIDE DEF saved
  <2>3. [ok EXCEPT !.mem = saved] \in Goroutines BY <2>2 DEF Goroutines
  <2>4. go' \in [Daemon \X SR -> Goroutines] BY <1>3, <2>3, BecomeType
  <2> QED BY <1>3, <2>1, <2>2, <2>4 DEF TypeOK
<1>4. CASE (UNCHANGED faults \/ faults' = faults + 1) /\ Become(d, r, failed) /\ UNCHANGED stg
  BY <1>4, BecomeType DEF TypeOK
<1> QED BY <1>2, <1>3, <1>4

\* The update of a request by setAndUpdateRequestState.
LEMMA WrittenType ==
    ASSUME TypeOK, NEW d, NEW r \in SR, NEW g \in Goroutines, NEW st \in States \cup {None}
    PROVE  [req EXCEPT ![r] = Written(d, r, g, st)] \in [SR -> Requests]
<1> DEFINE sid == IF d = "centrald" /\ ~g.noid THEN g.sid ELSE req[r].sid
           node == IF d = "centrald" /\ req[r].st = g.st THEN g.node ELSE req[r].node
<1>1. req[r] \in Requests BY DEF TypeOK
<1>2. sid \in Stg \cup {None} /\ node \in Node \cup {None}
  BY <1>1 DEF Goroutines, Requests
<1>3. Written(d, r, g, st) = [req[r] EXCEPT !.st = st, !.sid = sid, !.node = node]
  BY DEF Written
<1> HIDE DEF sid, node
<1>4. Written(d, r, g, st) \in Requests BY <1>1, <1>2, <1>3 DEF Requests
<1> QED BY <1>4 DEF TypeOK

\* The update of a request by setAndUpdateRequestMessage.
LEMMA SaysWhyType ==
    ASSUME TypeOK, NEW r \in SR, SaysWhy(r)
    PROVE  req' \in [SR -> Requests]
<1>1. G("centrald", r).st \in States \cup {None} BY GoType DEF Goroutines, Daemon
<1>2. [req[r] EXCEPT !.st = G("centrald", r).st] \in Requests
  BY <1>1 DEF TypeOK, Requests
<1> QED BY <1>2 DEF SaysWhy, TypeOK

\* centrald is a daemon and no node is centrald.
LEMMA CentralIs == "centrald" \in Daemon /\ \A n \in Node : n \in Daemon /\ n # "centrald"
BY SizesAssumption DEF Daemon

\* storageRequestCreate keeps the types.
LEMMA TypeCreate ==
    ASSUME TypeOK, NEW r \in SR, StorageRequestCreate(r)
    PROVE  TypeOK'
<1>1. PICK ops \in Plans, n \in Node :
          \/ CreateProvision(r, ops, n)
          \/ \E s \in Stg : CreateOnStorage(r, ops, n, s)
  BY DEF StorageRequestCreate
<1>2. NoRequest \in Requests BY DEF NoRequest, Requests
<1>4. CASE CreateProvision(r, ops, n)
  <2> DEFINE node == IF "ATTACH" \in ops THEN n ELSE None
             q == [NoRequest EXCEPT !.st = "NEW", !.ops = ops, !.node = node]
  <2>1. node \in Node \cup {None} OBVIOUS
  <2>2. req' = [req EXCEPT ![r] = q] BY <1>4 DEF CreateProvision
  <2> HIDE DEF node
  <2>3. q \in Requests BY <1>2, <2>1 DEF Requests, States
  <2> HIDE DEF q
  <2>4. req' \in [SR -> Requests] BY <2>2, <2>3 DEF TypeOK
  <2> QED BY <2>4 DEF TypeOK, StorageRequestCreate
<1>5. CASE \E s \in Stg : CreateOnStorage(r, ops, n, s)
  <2>1. PICK s \in Stg : CreateOnStorage(r, ops, n, s) BY <1>5
  <2> DEFINE o == stg[s]
             attached == o.att # "DETACHED" /\ o.node # None
             node == IF attached \/ ("REATTACH" \in ops /\ o.node # None) THEN o.node
                     ELSE IF ops \cap {"ATTACH", "REATTACH"} # {} THEN n ELSE None
             target == IF "REATTACH" \in ops THEN n ELSE None
             q == [st |-> "NEW", ops |-> ops, sid |-> s, node |-> node, target |-> target]
  <2>2. o.node \in Node \cup {None} BY DEF TypeOK, Storage
  <2>3. node \in Node \cup {None} /\ target \in Node \cup {None} BY <2>2
  <2>4. req' = [req EXCEPT ![r] = q] BY <2>1 DEF CreateOnStorage
  <2> HIDE DEF node, target
  <2>5. q \in Requests BY <2>3 DEF Requests, States
  <2> HIDE DEF q
  <2>6. req' \in [SR -> Requests] BY <2>4, <2>5 DEF TypeOK
  <2> QED BY <2>6 DEF TypeOK, StorageRequestCreate
<1> QED BY <1>1, <1>4, <1>5

\* dispatchRequests of both daemons keeps the types.
LEMMA TypeDispatch ==
    ASSUME TypeOK, NEW r \in SR,
           CentralDispatch(r) \/ \E n \in Node : AgentDispatch(n, r)
    PROVE  TypeOK'
<1>1. req[r].sid \in Stg \cup {None} BY DEF TypeOK, Requests
<1>2. Fetched(req[r].sid) \in Storage BY <1>1, FetchedType
<1>3. CASE CentralDispatch(r)
  <2> DEFINE o == Fetched(req[r].sid)
             lost == req[r].sid # None /\ ~Exists(req[r].sid) /\ req[r].st # "RELEASING"
             err == lost \/ (r \notin expired /\ undoOnly(req[r].st))
             todo == CentralTodo(r, o)
             more == IF (err \/ r \in expired) /\ todo # <<>> /\ ~Has(r, "REATTACH")
                               THEN UndoOf(todo[1]) ELSE <<>>
  <2>1. Start("centrald", r, o, todo, CentralUndo(r) \o more, err)
    BY <1>3 DEF CentralDispatch
  <2>2. more \in Seq(States) BY UndoOfType
  <2>3. todo \in Seq(States) BY CentralTodoType
  <2>4. err \in BOOLEAN OBVIOUS
  <2>5. CentralUndo(r) \in Seq(States) BY CentralUndoType
  <2> HIDE DEF o, err, todo, more
  <2>6. CentralUndo(r) \o more \in Seq(States) BY <2>2, <2>5, ConcatType
  <2>7. o \in Storage BY <1>2 DEF o
  <2>8. PICK e \in BOOLEAN : Start("centrald", r, o, todo, CentralUndo(r) \o more, e)
    BY <2>1, <2>4
  <2>9. go' \in [Daemon \X SR -> Goroutines]
    BY <2>3, <2>6, <2>7, <2>8, CentralIs, StartType
  <2> QED BY <1>3, <2>9 DEF TypeOK, CentralDispatch
<1>4. CASE \E n \in Node : AgentDispatch(n, r)
  <2>1. PICK n \in Node : AgentDispatch(n, r) BY <1>4
  <2> DEFINE o == Fetched(req[r].sid)
             here == o.att = "ATTACHED" /\ o.node = n
             odd == /\ Has(r, "REATTACH") /\ here
                    /\ IF n = req[r].target THEN o.dev \notin {"OPENING", "UNUSED", "ERROR", "OPEN"}
                       ELSE o.dev \notin {"OPEN", "CLOSING", "ERROR", "UNUSED"}
             err == ~here \/ odd
  <2>2. Start(n, r, o, AgentTodo(r, n, o), <<>>, err) BY <2>1 DEF AgentDispatch
  <2>3. err \in BOOLEAN OBVIOUS
  <2>4. o \in Storage BY <1>2
  <2>5. AgentTodo(r, n, o) \in Seq(States) /\ <<>> \in Seq(States) BY AgentTodoType
  <2> HIDE DEF o, err
  <2>6. PICK e \in BOOLEAN : Start(n, r, o, AgentTodo(r, n, o), <<>>, e)
    BY <2>2, <2>3
  <2>7. go' \in [Daemon \X SR -> Goroutines]
    BY <2>4, <2>5, <2>6, StartType, CentralIs
  <2> QED BY <2>1, <2>7 DEF TypeOK, AgentDispatch
<1> QED BY <1>3, <1>4

\* The loops of requestAnimator keep the types.
LEMMA TypeAnimate ==
    ASSUME TypeOK, NEW d \in Daemon, NEW r \in SR, Animate(d, r)
    PROVE  TypeOK'
<1> DEFINE g == G(d, r)
           st == Head(g.todo)
<1>0. g \in Goroutines BY GoType
<1>1. CASE NextState(d, r)
  <2>0. g.todo # <<>> /\ UNCHANGED <<stg, vol, expired, cleanup, crashes>>
    BY <1>1 DEF NextState
  <2>1. g.todo \in Seq(States) BY <1>0 DEF Goroutines
  <2>2. st \in States BY <2>0, <2>1
  <2>3. CASE st = g.st /\ Become(d, r, EnterState(d, r, g, st)) /\ UNCHANGED <<req, faults>>
    <3>1. EnterState(d, r, g, st) \in Goroutines BY <1>0, <2>0, <2>2, EnterStateType
    <3> QED BY <2>0, <2>3, <3>1, BecomeType DEF TypeOK
  <2>4. CASE /\ req' = [req EXCEPT ![r] = Written(d, r, g, st)]
             /\ Become(d, r, EnterState(d, r, [g EXCEPT !.node = req'[r].node], st))
             /\ UNCHANGED faults
    <3>1. req' \in [SR -> Requests] BY <1>0, <2>2, <2>4, WrittenType
    <3>2. [g EXCEPT !.node = req'[r].node] \in Goroutines
      BY <1>0, <3>1 DEF Goroutines, Requests
    <3>3. [g EXCEPT !.node = req'[r].node].todo # <<>> BY <1>0, <2>0 DEF Goroutines
    <3>4. EnterState(d, r, [g EXCEPT !.node = req'[r].node], st) \in Goroutines
      BY <2>2, <3>2, <3>3, EnterStateType
    <3> QED BY <2>0, <2>4, <3>1, <3>4, BecomeType DEF TypeOK
  <2>5. CASE \E e \in BOOLEAN, t \in BOOLEAN :
                Become(d, r, [g EXCEPT !.err = e, !.retry = t, !.todo = <<>>,
                                       !.pc = IF g.back THEN "next" ELSE "turn"])
                /\ UNCHANGED req /\ faults' \in Nat
    <3>1. PICK e \in BOOLEAN, t \in BOOLEAN :
                Become(d, r, [g EXCEPT !.err = e, !.retry = t, !.todo = <<>>,
                                       !.pc = IF g.back THEN "next" ELSE "turn"])
      BY <2>5
    <3>2. ASSUME NEW nil \in Seq(States), NEW pc \in {"next", "turn"}
          PROVE  [g EXCEPT !.err = e, !.retry = t, !.todo = nil, !.pc = pc] \in Goroutines
      BY <1>0 DEF Goroutines
    <3>3. <<>> \in Seq(States) OBVIOUS
    <3>4. [g EXCEPT !.err = e, !.retry = t, !.todo = <<>>,
                    !.pc = IF g.back THEN "next" ELSE "turn"] \in Goroutines
      BY <3>2, <3>3
    <3> QED BY <2>0, <2>5, <3>1, <3>4, BecomeType DEF TypeOK
  <2>6. CASE /\ Become(d, r, [g EXCEPT !.err = TRUE, !.todo = <<>>, !.pc = IF g.back THEN "next" ELSE "turn"])
             /\ UNCHANGED <<req, faults>>
    <3>1. ASSUME NEW nil \in Seq(States), NEW pc \in {"next", "turn"}
          PROVE  [g EXCEPT !.err = TRUE, !.todo = nil, !.pc = pc] \in Goroutines
      BY <1>0 DEF Goroutines
    <3>2. <<>> \in Seq(States) OBVIOUS
    <3>3. [g EXCEPT !.err = TRUE, !.todo = <<>>,
                    !.pc = IF g.back THEN "next" ELSE "turn"] \in Goroutines
      BY <3>1, <3>2
    <3> QED BY <2>0, <2>6, <3>3, BecomeType DEF TypeOK
  <2>7. ASSUME Fault,
               \E e \in IF st \in AgentStates THEN BOOLEAN ELSE {FALSE} :
                Become(d, r, [g EXCEPT !.err = @ \/ e, !.retry = ~e, !.todo = <<>>,
                                       !.pc = IF g.back THEN "next" ELSE "turn"]),
               UNCHANGED req
        PROVE  TypeOK'
    <3>1. PICK e \in BOOLEAN :
                Become(d, r, [g EXCEPT !.err = @ \/ e, !.retry = ~e, !.todo = <<>>,
                                       !.pc = IF g.back THEN "next" ELSE "turn"])
      BY <2>7
    <3>2. (g.err \/ e) \in BOOLEAN /\ (~e) \in BOOLEAN OBVIOUS
    <3>3. faults' \in Nat BY <2>7 DEF Fault, TypeOK
    <3> QED BY <2>5, <2>7, <3>1, <3>2, <3>3
  <2> QED BY <1>1, <2>3, <2>4, <2>6, <2>7 DEF NextState
<1>2. CASE Turn(d, r)
  <2>1. Finish(d, r, g) \in Goroutines BY <1>0, FinishType
  <2>2. [g EXCEPT !.pc = "handback"] \in Goroutines /\ [g EXCEPT !.pc = "turn"] \in Goroutines
    BY <1>0 DEF Goroutines
  <2> DEFINE n == Len(g.undo)
             rev == [i \in 1..n |-> g.undo[n + 1 - i]]
  <2>3. rev \in Seq(States)
    <3>1. g.undo \in Seq(States) BY <1>0 DEF Goroutines
    <3> QED BY <3>1
  <2> HIDE DEF rev
  <2>4. ASSUME NEW nil \in Seq(States)
        PROVE  [g EXCEPT !.pc = "next", !.back = TRUE, !.todo = rev, !.undo = nil] \in Goroutines
    BY <1>0, <2>3 DEF Goroutines
  <2>5. [g EXCEPT !.pc = "next", !.back = TRUE, !.todo = rev, !.undo = <<>>] \in Goroutines
    <3>1. <<>> \in Seq(States) OBVIOUS
    <3> QED BY <2>4, <3>1
  <2>6. \E h \in Goroutines : Become(d, r, h)
    <3>1. \/ Become(d, r, [g EXCEPT !.pc = "next", !.back = TRUE, !.todo = rev, !.undo = <<>>])
          \/ Become(d, r, [g EXCEPT !.pc = "handback"])
          \/ Become(d, r, Finish(d, r, g))
          \/ Become(d, r, [g EXCEPT !.pc = "turn"])
      BY <1>2 DEF Turn, rev
    <3> QED BY <2>1, <2>2, <2>5, <3>1
  <2> QED BY <1>2, <2>6, BecomeType DEF TypeOK, Turn
<1>3. CASE EnterTerminal(d, r)
  <2> DEFINE fin == IF g.err \/ g.late THEN "FAILED" ELSE "SUCCEEDED"
  <2>1. fin \in States BY DEF States, Terminal
  <2>2. [req EXCEPT ![r] = Written(d, r, g, fin)] \in [SR -> Requests]
    BY <1>0, <2>1, WrittenType
  <2>3. req' \in {req, [req EXCEPT ![r] = Written(d, r, g, fin)]} /\ faults' \in {faults, faults + 1}
    BY <1>3 DEF EnterTerminal, Fault
  <2>4. Become(d, r, Idle) /\ UNCHANGED <<stg, vol, expired, cleanup, crashes>>
    BY <1>3 DEF EnterTerminal
  <2>5. go' \in [Daemon \X SR -> Goroutines] BY <2>4, IdleType, BecomeType
  <2> QED BY <2>2, <2>3, <2>4, <2>5 DEF TypeOK
<1> QED BY <1>1, <1>2, <1>3 DEF Animate

(* A handler that calls the cloud service changes its goroutine, and the   *)
(* request by SaysWhy.                                                     *)
LEMMA TypeFrame ==
    ASSUME TypeOK, stg' \in [Stg -> Storage], go' \in [Daemon \X SR -> Goroutines],
           vol' \in [Vol -> [stg : Stg \cup {None}, tag : SR \cup {None}, at : Node \cup {None}]],
           req' \in [SR -> Requests], faults' \in Nat, UNCHANGED <<expired, cleanup, crashes>>
    PROVE  TypeOK'
BY DEF TypeOK

\* All that a handler of centrald can make of its goroutine has the type of
\* one.
LEMMA CentralGoes ==
    ASSUME TypeOK, NEW r \in SR
    PROVE  LET g == G("centrald", r) IN
           /\ g \in Goroutines
           /\ \A sub \in Subs : Call(g, sub) \in Goroutines
           /\ Return("centrald", r, g) \in Goroutines
           /\ Later("centrald", r, g) \in Goroutines
           /\ Failing("centrald", r, g) \in Goroutines
           /\ \A h \in Goroutines : Become("centrald", r, h) =>
                  go' \in [Daemon \X SR -> Goroutines]
<1>1. G("centrald", r) \in Goroutines BY GoType, CentralIs
<1>2. /\ \A sub \in Subs : Call(G("centrald", r), sub) \in Goroutines
      /\ Return("centrald", r, G("centrald", r)) \in Goroutines
      /\ Later("centrald", r, G("centrald", r)) \in Goroutines
      /\ Failing("centrald", r, G("centrald", r)) \in Goroutines
  BY <1>1, CallType, ReturnType, LaterType
<1>3. ASSUME NEW h \in Goroutines, Become("centrald", r, h)
      PROVE  go' \in [Daemon \X SR -> Goroutines]
  BY <1>3, CentralIs, BecomeType
<1> QED BY <1>1, <1>2, <1>3

\* A call that fails is counted.
LEMMA FaultType ==
    ASSUME TypeOK, Fault \/ UNCHANGED faults
    PROVE  faults' \in Nat
BY DEF TypeOK, Fault

\* A sub-state of centrald that only updates the Storage object keeps the
\* types.
LEMMA CentralSaveType ==
    ASSUME TypeOK, NEW r \in SR, NEW sub, NEW new \in Storage, NEW ok \in Goroutines,
           CentralSave(r, sub, new, ok)
    PROVE  TypeOK'
<1>1. StorageUpdate("centrald", r, new, ok, Later("centrald", r, G("centrald", r)))
  BY DEF CentralSave
<1>2. Later("centrald", r, G("centrald", r)) \in Goroutines BY CentralGoes
<1>3. stg' \in [Stg -> Storage] /\ go' \in [Daemon \X SR -> Goroutines] /\ faults' \in Nat
  BY <1>1, <1>2, CentralIs, StorageUpdateType
<1>4. SaysWhy(r) \/ UNCHANGED req BY DEF CentralSave
<1>5. req' \in [SR -> Requests] BY <1>4, SaysWhyType DEF TypeOK
<1>6. UNCHANGED <<vol, expired, cleanup, crashes>> BY DEF CentralSave
<1> QED BY <1>3, <1>5, <1>6, TypeFrame DEF TypeOK

\* ProvisionStorage keeps the types.
LEMMA TypeProvision ==
    ASSUME TypeOK, NEW r \in SR, Provision(r)
    PROVE  TypeOK'
<1> DEFINE g == G("centrald", r)
<1>0. g \in Goroutines BY CentralGoes
<1>1. CASE getCapacity(r)
  <2>1. \E h \in Goroutines : Become("centrald", r, h)
    BY <1>1, CentralGoes DEF getCapacity, Subs
  <2>2. go' \in [Daemon \X SR -> Goroutines] BY <2>1, CentralGoes
  <2>3. faults' \in Nat BY <1>1, FaultType DEF getCapacity
  <2> QED BY <1>1, <2>2, <2>3, TypeFrame DEF getCapacity, TypeOK
<1>2. CASE createStorage(r)
  <2> DEFINE new == [NoStorage EXCEPT !.prov = "PROVISIONING"]
  <2>1. new \in Storage BY DEF NoStorage, Storage, None
  <2>2. \A s \in Stg : [Call(g, "setIds") EXCEPT !.sid = s, !.mem = new] \in Goroutines
    <3> HIDE DEF new, g
    <3>1. Call(g, "setIds") \in Goroutines BY CentralGoes DEF Subs, g
    <3> QED BY <2>1, <3>1 DEF Goroutines
  <2>3. \E h \in Goroutines : Become("centrald", r, h)
    BY <1>2, <2>2, CentralGoes DEF createStorage
  <2>4. go' \in [Daemon \X SR -> Goroutines] BY <2>3, CentralGoes
  <2>5. faults' \in Nat BY <1>2, FaultType DEF createStorage
  <2>6. stg' \in [Stg -> Storage]
    <3>1. UNCHANGED stg \/ \E s \in Stg : stg' = [stg EXCEPT ![s] = new]
      BY <1>2 DEF createStorage
    <3> HIDE DEF new
    <3> QED BY <2>1, <3>1 DEF TypeOK
  <2> QED BY <1>2, <2>4, <2>5, <2>6, TypeFrame DEF createStorage, TypeOK
<1>3. CASE setIds(r)
  <2>1. \E h \in Goroutines : Become("centrald", r, h)
    BY <1>3, CentralGoes DEF setIds, Subs
  <2>2. go' \in [Daemon \X SR -> Goroutines] BY <2>1, CentralGoes
  <2>3. faults' \in Nat BY <1>3, FaultType DEF setIds
  <2>4. g.st \in States \cup {None} BY <1>0 DEF Goroutines
  <2>5. req' \in [SR -> Requests]
    <3>1. req' \in {req, [req EXCEPT ![r] = Written("centrald", r, g, g.st)]}
      BY <1>3 DEF setIds
    <3> QED BY <1>0, <2>4, <3>1, WrittenType DEF TypeOK
  <2> QED BY <1>3, <2>2, <2>3, <2>5, TypeFrame DEF setIds, TypeOK
<1>4. CASE createCSPVolume(r)
  <2>1. Call(g, "setProvisioned") \in Goroutines BY CentralGoes DEF Subs
  <2>2. \A v \in Vol : [Call(g, "setProvisioned") EXCEPT !.mem.vol = v, !.mem.prov = "PROVISIONED"] \in Goroutines
    <3> DEFINE c == Call(g, "setProvisioned")
    <3>1. c.mem \in Storage BY <2>1 DEF Goroutines
    <3>2. \A v \in Vol : [c.mem EXCEPT !.vol = v, !.prov = "PROVISIONED"] \in Storage
      BY <3>1 DEF Storage
    <3>3. \A v \in Vol : [c EXCEPT !.mem.vol = v, !.mem.prov = "PROVISIONED"]
                          = [c EXCEPT !.mem = [c.mem EXCEPT !.vol = v, !.prov = "PROVISIONED"]]
      BY <2>1 DEF Goroutines, Storage
    <3> HIDE DEF c
    <3>4. \A m \in Storage : [c EXCEPT !.mem = m] \in Goroutines
      BY <2>1 DEF Goroutines, c
    <3>5. \A v \in Vol : [c EXCEPT !.mem.vol = v, !.mem.prov = "PROVISIONED"] \in Goroutines
      BY <3>2, <3>3, <3>4
    <3> QED BY <3>5 DEF c
  <2>3. \E h \in Goroutines : Become("centrald", r, h)
    <3>1. \/ \E v \in Vol : Become("centrald", r, [Call(g, "setProvisioned") EXCEPT !.mem.vol = v, !.mem.prov = "PROVISIONED"])
          \/ Become("centrald", r, Failing("centrald", r, g))
          \/ Become("centrald", r, Later("centrald", r, g))
      BY <1>4 DEF createCSPVolume, UnusedVolumes
    <3> QED BY <2>2, <3>1, CentralGoes
  <2>4. go' \in [Daemon \X SR -> Goroutines] BY <2>3, CentralGoes
  <2>5. faults' \in Nat BY <1>4, FaultType DEF createCSPVolume
  <2>6. \/ UNCHANGED vol
        \/ \E v \in Vol : vol' = [vol EXCEPT ![v] = [stg |-> g.sid, tag |-> r, at |-> None]]
    BY <1>4 DEF createCSPVolume, UnusedVolumes
  <2>7. vol' \in [Vol -> [stg : Stg \cup {None}, tag : SR \cup {None}, at : Node \cup {None}]]
    <3>1. [stg |-> g.sid, tag |-> r, at |-> None] \in [stg : Stg \cup {None}, tag : SR \cup {None}, at : Node \cup {None}]
      BY <1>0 DEF Goroutines
    <3> QED BY <2>6, <3>1 DEF TypeOK
  <2> QED BY <1>4, <2>4, <2>5, <2>7, TypeFrame DEF createCSPVolume, TypeOK
<1>5. CASE setProvisioned(r)
  <2>1. g.mem \in Storage BY <1>0 DEF Goroutines
  <2>2. StorageUpdate("centrald", r, g.mem, Return("centrald", r, g), Failing("centrald", r, g))
    BY <1>5 DEF setProvisioned
  <2>3. Return("centrald", r, g) \in Goroutines /\ Failing("centrald", r, g) \in Goroutines
    BY CentralGoes
  <2>4. stg' \in [Stg -> Storage] /\ go' \in [Daemon \X SR -> Goroutines] /\ faults' \in Nat
    BY <2>1, <2>2, <2>3, CentralIs, StorageUpdateType
  <2> QED BY <1>5, <2>4, TypeFrame DEF setProvisioned, TypeOK
<1>6. CASE removeCSPVolumeTag(r)
  <2>1. \E h \in Goroutines : Become("centrald", r, h)
    BY <1>6, CentralGoes DEF removeCSPVolumeTag
  <2>2. go' \in [Daemon \X SR -> Goroutines] BY <2>1, CentralGoes
  <2>3. faults' \in Nat BY <1>6, FaultType DEF removeCSPVolumeTag
  <2>4. vol' \in {vol, [vol EXCEPT ![g.mem.vol].tag = None]}
    BY <1>6 DEF removeCSPVolumeTag
  <2>5. vol' \in [Vol -> [stg : Stg \cup {None}, tag : SR \cup {None}, at : Node \cup {None}]]
    BY <2>4 DEF TypeOK
  <2> QED BY <1>6, <2>2, <2>3, <2>5, TypeFrame DEF removeCSPVolumeTag, TypeOK
<1> QED BY <1>1, <1>2, <1>3, <1>4, <1>5, <1>6 DEF Provision

\* AttachStorage keeps the types.
LEMMA TypeAttach ==
    ASSUME TypeOK, NEW r \in SR, Attach(r)
    PROVE  TypeOK'
<1> DEFINE g == G("centrald", r)
<1>0. g \in Goroutines /\ g.mem \in Storage /\ g.node \in Node \cup {None}
  <2>1. g \in Goroutines BY CentralGoes
  <2> QED BY <2>1 DEF Goroutines
<1> HIDE DEF g
<1>1. CASE setAttaching(r)
  <2>1. CentralSave(r, "setAttaching", [g.mem EXCEPT !.att = "ATTACHING", !.node = g.node],
                Call(g, "attachStorage"))
    BY <1>1 DEF setAttaching, g
  <2>2. [g.mem EXCEPT !.att = "ATTACHING", !.node = g.node] \in Storage
    BY <1>0 DEF Storage
  <2>3. Call(g, "attachStorage") \in Goroutines BY CentralGoes DEF Subs, g
  <2> QED BY <2>1, <2>2, <2>3, CentralSaveType
<1>2. CASE attachStorage(r)
  <2>1. \E h \in Goroutines : Become("centrald", r, h)
    BY <1>2, CentralGoes DEF attachStorage, Subs
  <2>2. go' \in [Daemon \X SR -> Goroutines] BY <2>1, CentralGoes
  <2>3. faults' \in Nat BY <1>2, FaultType DEF attachStorage
  <2>4. vol' \in {vol, [vol EXCEPT ![g.mem.vol].at = g.node]}
    BY <1>2 DEF attachStorage, g
  <2>5. vol' \in [Vol -> Volumes] BY <1>0, <2>4 DEF TypeOK, Volumes
  <2> QED BY <1>2, <2>2, <2>3, <2>5, TypeFrame DEF attachStorage, TypeOK, Volumes
<1>3. CASE setAttached(r)
  <2>1. CentralSave(r, "setAttached", [g.mem EXCEPT !.att = "ATTACHED"], Return("centrald", r, g))
    BY <1>3 DEF setAttached, g
  <2>2. [g.mem EXCEPT !.att = "ATTACHED"] \in Storage BY <1>0 DEF Storage
  <2>3. Return("centrald", r, g) \in Goroutines BY CentralGoes DEF g
  <2> QED BY <2>1, <2>2, <2>3, CentralSaveType
<1> QED BY <1>1, <1>2, <1>3 DEF Attach

\* DetachStorage and its undo keep the types.
LEMMA TypeDetach ==
    ASSUME TypeOK, NEW r \in SR, Detach(r)
    PROVE  TypeOK'
<1> DEFINE g == G("centrald", r)
<1>0. g \in Goroutines /\ g.mem \in Storage
  <2>1. g \in Goroutines BY CentralGoes
  <2> QED BY <2>1 DEF Goroutines
<1> HIDE DEF g
<1>1. CASE setDetaching(r)
  <2>1. CentralSave(r, "setDetaching", [g.mem EXCEPT !.att = "DETACHING"], Call(g, "detachStorage"))
    BY <1>1 DEF setDetaching, g
  <2>2. [g.mem EXCEPT !.att = "DETACHING"] \in Storage BY <1>0 DEF Storage
  <2>3. Call(g, "detachStorage") \in Goroutines BY CentralGoes DEF Subs, g
  <2> QED BY <2>1, <2>2, <2>3, CentralSaveType
<1>2. CASE detachStorage(r)
  <2>1. \E h \in Goroutines : Become("centrald", r, h)
    BY <1>2, CentralGoes DEF detachStorage, Subs
  <2>2. go' \in [Daemon \X SR -> Goroutines] BY <2>1, CentralGoes
  <2>3. faults' \in Nat BY <1>2, FaultType DEF detachStorage
  <2>4. \E n \in Node \cup {None} : vol' \in {vol, [vol EXCEPT ![g.mem.vol].at = n], [vol EXCEPT ![g.mem.vol].at = @]}
    BY <1>2 DEF detachStorage, g
  <2>5. vol' \in [Vol -> Volumes] BY <2>4 DEF TypeOK, Volumes
  <2>6. SaysWhy(r) \/ UNCHANGED req BY <1>2 DEF detachStorage
  <2>7. req' \in [SR -> Requests] BY <2>6, SaysWhyType DEF TypeOK
  <2> QED BY <1>2, <2>2, <2>3, <2>5, <2>7, TypeFrame DEF detachStorage, TypeOK, Volumes
<1>3. CASE setDetached(r)
  <2> DEFINE dev == IF req[r].ops = {"DETACH"} THEN "UNUSED" ELSE g.mem.dev
             o == [g.mem EXCEPT !.att = "DETACHED", !.node = None, !.dev = dev]
  <2>1. CentralSave(r, "setDetached", o, Return("centrald", r, g))
    BY <1>3 DEF setDetached, g
  <2>2. o \in Storage
    <3>1. dev \in {"UNUSED", "FORMATTING", "OPENING", "OPEN", "CLOSING", "ERROR"}
      BY <1>0 DEF Storage
    <3> HIDE DEF dev
    <3> QED BY <1>0, <3>1 DEF Storage
  <2>3. Return("centrald", r, g) \in Goroutines BY CentralGoes DEF g
  <2> HIDE DEF o
  <2> QED BY <2>1, <2>2, <2>3, CentralSaveType
<1>4. CASE cleanupDetach(r)
  <2>1. StorageUpdate("centrald", r, [g.mem EXCEPT !.att = "ERROR"],
                     Return("centrald", r, g), Return("centrald", r, g))
    BY <1>4 DEF cleanupDetach, g
  <2>2. [g.mem EXCEPT !.att = "ERROR"] \in Storage BY <1>0 DEF Storage
  <2>3. Return("centrald", r, g) \in Goroutines BY CentralGoes DEF g
  <2>4. stg' \in [Stg -> Storage] /\ go' \in [Daemon \X SR -> Goroutines] /\ faults' \in Nat
    BY <2>1, <2>2, <2>3, CentralIs, StorageUpdateType
  <2> QED BY <1>4, <2>4, TypeFrame DEF cleanupDetach, TypeOK
<1> QED BY <1>1, <1>2, <1>3, <1>4 DEF Detach

\* ReleaseStorage, also as the undo of PROVISIONING, keeps the types.
LEMMA TypeRelease ==
    ASSUME TypeOK, NEW r \in SR, Release(r)
    PROVE  TypeOK'
<1> DEFINE g == G("centrald", r)
<1>0. g \in Goroutines /\ g.mem \in Storage
  <2>1. g \in Goroutines BY CentralGoes
  <2> QED BY <2>1 DEF Goroutines
<1> HIDE DEF g
<1>1. CASE setStorageState(r)
  <2>1. CentralSave(r, "setStorageState", [g.mem EXCEPT !.prov = "UNPROVISIONING"], Call(g, "deleteVolume"))
    BY <1>1 DEF setStorageState, g
  <2>2. [g.mem EXCEPT !.prov = "UNPROVISIONING"] \in Storage BY <1>0 DEF Storage
  <2>3. Call(g, "deleteVolume") \in Goroutines BY CentralGoes DEF Subs, g
  <2> QED BY <2>1, <2>2, <2>3, CentralSaveType
<1>2. CASE deleteVolume(r)
  <2>1. \E h \in Goroutines : Become("centrald", r, h)
    BY <1>2, CentralGoes DEF deleteVolume, Subs
  <2>2. go' \in [Daemon \X SR -> Goroutines] BY <2>1, CentralGoes
  <2>3. faults' \in Nat BY <1>2, FaultType DEF deleteVolume
  <2>4. vol' \in {vol, [vol EXCEPT ![g.mem.vol] = NoVolume]}
    BY <1>2 DEF deleteVolume, g
  <2>5. vol' \in [Vol -> Volumes]
    <3>1. NoVolume \in Volumes BY DEF NoVolume, Volumes
    <3> QED BY <2>4, <3>1 DEF TypeOK, Volumes
  <2>6. SaysWhy(r) \/ UNCHANGED req BY <1>2 DEF deleteVolume
  <2>7. req' \in [SR -> Requests] BY <2>6, SaysWhyType DEF TypeOK
  <2> QED BY <1>2, <2>2, <2>3, <2>5, <2>7, TypeFrame DEF deleteVolume, TypeOK, Volumes
<1>3. CASE deleteStorage(r)
  <2>1. \E h \in Goroutines : Become("centrald", r, h)
    BY <1>3, CentralGoes DEF deleteStorage
  <2>2. go' \in [Daemon \X SR -> Goroutines] BY <2>1, CentralGoes
  <2>3. faults' \in Nat BY <1>3, FaultType DEF deleteStorage
  <2>4. stg' \in {stg, [stg EXCEPT ![g.sid] = NoStorage]}
    BY <1>3 DEF deleteStorage, g
  <2>5. stg' \in [Stg -> Storage]
    <3>1. NoStorage \in Storage BY DEF NoStorage, Storage, None
    <3> QED BY <2>4, <3>1 DEF TypeOK
  <2>6. SaysWhy(r) \/ UNCHANGED req BY <1>3 DEF deleteStorage
  <2>7. req' \in [SR -> Requests] BY <2>6, SaysWhyType DEF TypeOK
  <2> QED BY <1>3, <2>2, <2>3, <2>5, <2>7, TypeFrame DEF deleteStorage, TypeOK
<1> QED BY <1>1, <1>2, <1>3 DEF Release

\* The handlers of agentd and the end of its animator keep the types.
LEMMA TypeAgent ==
    ASSUME TypeOK, NEW n \in Node, NEW r \in SR, 
           HandBack(n, r) \/ ResetDevice(n, r) \/ FormatStorage(n, r)
           \/ UseStorage(n, r) \/ CloseStorage(n, r)
    PROVE  TypeOK'
<1> DEFINE g == G(n, r)
<1>0. n \in Daemon /\ g \in Goroutines /\ g.mem \in Storage
  <2>1. n \in Daemon BY CentralIs
  <2>2. g \in Goroutines BY <2>1, GoType
  <2> QED BY <2>1, <2>2 DEF Goroutines
<1>1. ASSUME NEW new \in Storage, NEW ok \in Goroutines, NEW failed \in Goroutines,
             StorageUpdate(n, r, new, ok, failed), UNCHANGED <<req, vol, expired, cleanup, crashes>>
      PROVE  TypeOK'
  <2>1. stg' \in [Stg -> Storage] /\ go' \in [Daemon \X SR -> Goroutines] /\ faults' \in Nat
    BY <1>0, <1>1, StorageUpdateType
  <2> QED BY <1>1, <2>1, TypeFrame DEF TypeOK
<1>2. ASSUME NEW sub, NEW dev \in {"FORMATTING", "OPENING", "CLOSING"}, NEW next \in Subs,
             SetDeviceState(n, r, sub, dev, next)
      PROVE  TypeOK'
  <2>1. StorageUpdate(n, r, [g.mem EXCEPT !.dev = dev], Call(g, next), Later(n, r, g))
    BY <1>2 DEF SetDeviceState
  <2> HIDE DEF g
  <2>2. [g.mem EXCEPT !.dev = dev] \in Storage BY <1>0 DEF Storage
  <2>3. Call(g, next) \in Goroutines /\ Later(n, r, g) \in Goroutines
    BY <1>0, CallType, LaterType
  <2> QED BY <1>1, <1>2, <2>1, <2>2, <2>3 DEF SetDeviceState
<1>3. ASSUME NEW sub, NEW new \in Storage, NEW worst \in Storage, CallDevice(n, r, sub, new, worst)
      PROVE  TypeOK'
  <2>1. \/ StorageUpdate(n, r, new, Return(n, r, g), Later(n, r, g))
        \/ Fault /\ Become(n, r, Failing(n, r, [g EXCEPT !.mem = worst])) /\ UNCHANGED stg
    BY <1>3 DEF CallDevice
  <2>2. UNCHANGED <<req, vol, expired, cleanup, crashes>> BY <1>3 DEF CallDevice
  <2> HIDE DEF g
  <2>3. Return(n, r, g) \in Goroutines /\ Later(n, r, g) \in Goroutines
    BY <1>0, ReturnType, LaterType
  <2>4. [g EXCEPT !.mem = worst] \in Goroutines BY <1>0 DEF Goroutines
  <2>5. CASE Fault /\ Become(n, r, Failing(n, r, [g EXCEPT !.mem = worst])) /\ UNCHANGED stg
    <3>1. Failing(n, r, [g EXCEPT !.mem = worst]) \in Goroutines BY <2>4, LaterType
    <3>2. go' \in [Daemon \X SR -> Goroutines] /\ faults' \in Nat
      BY <1>0, <2>5, <3>1, BecomeType, FaultType
    <3> QED BY <2>2, <2>5, <3>2, TypeFrame DEF TypeOK
  <2> QED BY <1>1, <2>1, <2>2, <2>3, <2>5
<1>4. CASE HandBack(n, r)
  <2>1. Idle \in Goroutines /\ [g EXCEPT !.pc = "reset"] \in Goroutines
    BY <1>0, IdleType DEF Goroutines
  <2>2. go' \in [Daemon \X SR -> Goroutines]
    BY <1>0, <1>4, <2>1, BecomeType DEF HandBack
  <2>3. faults' \in Nat BY <1>4, FaultType DEF HandBack
  <2>4. req' \in [SR -> Requests]
    <3>1. [req[r] EXCEPT !.st = "UNDO_ATTACHING"] \in Requests
      BY DEF TypeOK, Requests, States
    <3> QED BY <1>4, <3>1 DEF HandBack, TypeOK
  <2> QED BY <1>4, <2>2, <2>3, <2>4, TypeFrame DEF HandBack, TypeOK
<1>5. CASE ResetDevice(n, r)
  <2> DEFINE dev == IF Has(r, "CLOSE") THEN "OPEN" ELSE "UNUSED"
  <2>1. StorageUpdate(n, r, [g.mem EXCEPT !.dev = dev], [g EXCEPT !.pc = "final"], [g EXCEPT !.pc = "final"])
    BY <1>5 DEF ResetDevice
  <2>2. dev \in {"OPEN", "UNUSED"} OBVIOUS
  <2> HIDE DEF g, dev
  <2>3. [g.mem EXCEPT !.dev = dev] \in Storage BY <1>0, <2>2 DEF Storage
  <2>4. [g EXCEPT !.pc = "final"] \in Goroutines BY <1>0 DEF Goroutines
  <2> QED BY <1>1, <1>5, <2>1, <2>3, <2>4 DEF ResetDevice
<1>6. CASE FormatStorage(n, r)
  <2> DEFINE dev == IF Has(r, "USE") THEN "OPENING" ELSE "UNUSED"
             o == [g.mem EXCEPT !.media = "FORMATTED", !.dev = dev]
             w == [g.mem EXCEPT !.media = "UNFORMATTED"]
  <2>1. \/ SetDeviceState(n, r, "setFormatting", "FORMATTING", "formatDevice")
        \/ CallDevice(n, r, "formatDevice", o, w)
    BY <1>6 DEF FormatStorage
  <2>2. dev \in {"OPENING", "UNUSED"} OBVIOUS
  <2>3. o \in Storage /\ w \in Storage
    <3> HIDE DEF dev, g
    <3> QED BY <1>0, <2>2 DEF Storage
  <2> HIDE DEF o, w
  <2> QED BY <1>2, <1>3, <2>1, <2>3 DEF Subs
<1>7. CASE UseStorage(n, r)
  <2> DEFINE o == [g.mem EXCEPT !.dev = "OPEN"]
  <2>1. \/ SetDeviceState(n, r, "setOpening", "OPENING", "useDevice")
        \/ CallDevice(n, r, "useDevice", o, g.mem)
    BY <1>7 DEF UseStorage
  <2>2. o \in Storage BY <1>0 DEF Storage
  <2> HIDE DEF o
  <2> QED BY <1>0, <1>2, <1>3, <2>1, <2>2 DEF Subs
<1>8. CASE CloseStorage(n, r)
  <2> DEFINE o == [g.mem EXCEPT !.dev = "UNUSED"]
  <2>1. \/ SetDeviceState(n, r, "setClosing", "CLOSING", "closeDevice")
        \/ CallDevice(n, r, "closeDevice", o, g.mem)
    BY <1>8 DEF CloseStorage
  <2>2. o \in Storage BY <1>0 DEF Storage
  <2> HIDE DEF o
  <2> QED BY <1>0, <1>2, <1>3, <2>1, <2>2 DEF Subs
<1> QED BY <1>4, <1>5, <1>6, <1>7, <1>8

\* A restart of a daemon, with RecoverStorageInUse, keeps the types.
LEMMA TypeCrash ==
    ASSUME TypeOK, CrashCentrald \/ \E n \in Node : CrashAgentd(n)
    PROVE  TypeOK'
<1>1. ASSUME NEW d, Forget(d)
      PROVE  go' \in [Daemon \X SR -> Goroutines]
  BY <1>1, IdleType DEF Forget, TypeOK
<1>2. CASE CrashCentrald BY <1>1, <1>2 DEF CrashCentrald, TypeOK
<1>3. CASE \E n \in Node : CrashAgentd(n)
  <2>1. PICK n \in Node : CrashAgentd(n) BY <1>3
  <2>2. PICK bad \in SUBSET Stg : stg' = [s \in Stg |-> Recovered(n, bad, s)]
    BY <2>1 DEF CrashAgentd
  <2>3. ASSUME NEW s \in Stg PROVE Recovered(n, bad, s) \in Storage
    <3>1. stg[s] \in Storage BY DEF TypeOK
    <3>2. /\ [stg[s] EXCEPT !.att = "DETACHED", !.node = None, !.dev = "UNUSED"] \in Storage
          /\ [stg[s] EXCEPT !.dev = "ERROR"] \in Storage
      BY <3>1 DEF Storage
    <3> QED BY <3>1, <3>2 DEF Recovered
  <2>4. go' \in [Daemon \X SR -> Goroutines] BY <1>1, <2>1 DEF CrashAgentd
  <2> QED BY <2>1, <2>2, <2>3, <2>4 DEF CrashAgentd, TypeOK
<1> QED BY <1>2, <1>3

\* The startup cleanup of centrald keeps the types.
LEMMA TypeCleanup ==
    ASSUME TypeOK, Cleanup
    PROVE  TypeOK'
<1>1. CASE releaseOrphanedCSPVolumes
  <2>1. PICK kept \in SUBSET Tagged :
          /\ faults' = faults + Cardinality(kept)
          /\ faults + Cardinality(kept) <= MaxFaults
          /\ vol' = [v \in Vol |->
                IF v \in kept \/ v \notin Tagged THEN vol[v]
                ELSE IF v \in Orphans THEN IF vol[v].at = None THEN NoVolume ELSE vol[v]
                ELSE IF ~Active(vol[v].tag) THEN [vol[v] EXCEPT !.tag = None]
                ELSE vol[v]]
    BY <1>1 DEF releaseOrphanedCSPVolumes
  <2>2. \A v \in Vol : /\ vol[v] \in Volumes /\ NoVolume \in Volumes
                       /\ [vol[v] EXCEPT !.tag = None] \in Volumes
    BY DEF TypeOK, Volumes, NoVolume
  <2>3. vol' \in [Vol -> Volumes] BY <2>1, <2>2
  <2>4. faults' \in Nat
    <3>1. kept \subseteq Vol BY DEF Tagged
    <3>2. Cardinality(kept) \in Nat
      BY <3>1, SizesAssumption, FS_Subset, FS_CardinalityType
    <3> QED BY <2>1, <3>2 DEF TypeOK
  <2> QED BY <1>1, <2>3, <2>4 DEF releaseOrphanedCSPVolumes, TypeOK, Volumes
<1>2. CASE makeProvisioningStorageUnprovisioned
  <2>1. \/ UNCHANGED req
        \/ \E r \in SR : req' = [req EXCEPT ![r].sid = None]
    BY <1>2 DEF makeProvisioningStorageUnprovisioned
  <2>2. req' \in [SR -> Requests]
    <3>1. \A r \in SR : [req[r] EXCEPT !.sid = None] \in Requests
      BY DEF TypeOK, Requests
    <3> QED BY <2>1, <3>1 DEF TypeOK
  <2>3. UNCHANGED stg \/ \E s \in Stg : stg' = [stg EXCEPT ![s].prov = "UNPROVISIONED"]
    BY <1>2 DEF makeProvisioningStorageUnprovisioned
  <2>4. stg' \in [Stg -> Storage]
    <3>1. \A s \in Stg : [stg[s] EXCEPT !.prov = "UNPROVISIONED"] \in Storage
      BY DEF TypeOK, Storage
    <3> QED BY <2>3, <3>1 DEF TypeOK
  <2>5. cleanup' \in {cleanup, "unprovisioned"} /\ UNCHANGED <<vol, go, expired, faults, crashes>>
    BY <1>2 DEF makeProvisioningStorageUnprovisioned
  <2> QED BY <2>2, <2>4, <2>5 DEF TypeOK
<1>3. CASE deleteUnprovisionedStorage
  <2>1. NoStorage \in Storage BY DEF NoStorage, Storage, None
  <2> QED BY <1>3, <2>1 DEF deleteUnprovisionedStorage, TypeOK
<1> QED BY <1>1, <1>2, <1>3 DEF Cleanup

\* Every step keeps the types.
LEMMA TypeStep == TypeOK /\ [Next]_vars => TypeOK'
<1> SUFFICES ASSUME TypeOK, [Next]_vars
             PROVE  TypeOK'
  OBVIOUS
<1>1. ASSUME NEW r \in SR, Expire(r)
      PROVE  TypeOK'
  BY <1>1 DEF Expire, TypeOK
<1>2. ASSUME NEW r \in SR, Central(r)
      PROVE  TypeOK'
  BY <1>2, CentralIs, TypeDispatch, TypeAnimate, TypeProvision, TypeAttach, TypeDetach, TypeRelease
     DEF Central
<1>3. ASSUME NEW r \in SR, NEW n \in Node, Agent(n, r)
      PROVE  TypeOK'
  BY <1>3, CentralIs, TypeDispatch, TypeAnimate, TypeAgent DEF Agent
<1>4. CASE UNCHANGED vars BY <1>4 DEF vars, TypeOK
<1> QED BY <1>1, <1>2, <1>3, <1>4, TypeCreate, TypeCleanup, TypeCrash DEF Next

\* The initial state has the types.
LEMMA TypeInit == Init => TypeOK
<1> SUFFICES ASSUME Init PROVE TypeOK OBVIOUS
<1>1. NoRequest \in Requests /\ NoStorage \in Storage /\ NoVolume \in Volumes
  BY DEF NoRequest, Requests, NoStorage, Storage, NoVolume, Volumes, None
<1>2. req \in [SR -> Requests] /\ stg \in [Stg -> Storage] /\ vol \in [Vol -> Volumes]
  BY <1>1 DEF Init
<1>3. go \in [Daemon \X SR -> Goroutines] BY IdleType DEF Init
<1> QED BY <1>2, <1>3 DEF Init, TypeOK, Volumes

\* Requests, Storage objects, volumes and the goroutines of both animators
\* always have their types, whatever fails and restarts.
THEOREM TypeCorrect == Spec => []TypeOK
BY TypeInit, TypeStep, PTL DEF Spec

-----------------------------------------------------------------------------
(***************************************************************************)
(* Inv1: the shape of a goroutine.  The lists of states hold states that   *)
(* serve the operations of the request, the undo list undo states only;    *)
(* the sub-state of a handler of centrald is one of the handler's.         *)
(***************************************************************************)

\* The states that remain after the first of a list, which requestAnimator
\* enters.
LEMMA OnlyTail ==
    ASSUME NEW T, NEW S, NEW q \in Seq(T), q # <<>>, Only(q, S)
    PROVE  Only(Tail(q), S) /\ Head(q) \in S
BY DEF Only

\* What holds of the members of two lists holds of those of one appended to the
\* other.
LEMMA OnlyConcat ==
    ASSUME NEW T, NEW S, NEW a \in Seq(T), NEW b \in Seq(T), Only(a, S), Only(b, S)
    PROVE  Only(a \o b, S)
BY DEF Only

\* The empty list.
LEMMA OnlyEmpty == \A S, st : Only(<<>>, S) /\ ~Includes(<<>>, st)
BY DEF Only, Includes

\* The backward loop runs the undo list from its end: it has the same members.
LEMMA OnlyReversed ==
    ASSUME NEW T, NEW q \in Seq(T)
    PROVE  LET rev == [i \in 1 .. Len(q) |-> q[Len(q) + 1 - i]] IN
           /\ rev \in Seq(T)
           /\ \A S : Only(q, S) => Only(rev, S)
           /\ \A st : Includes(q, st) => Includes(rev, st)
<1> DEFINE rev == [i \in 1 .. Len(q) |-> q[Len(q) + 1 - i]]
<1>1. Len(q) \in Nat /\ \A i \in 1 .. Len(q) : Len(q) + 1 - i \in 1 .. Len(q)
  OBVIOUS
<1>2. rev \in Seq(T) /\ Len(rev) = Len(q) BY <1>1
<1>3. \A S : Only(q, S) => Only(rev, S) BY <1>1, <1>2 DEF Only
<1>4. ASSUME NEW st, Includes(q, st) PROVE Includes(rev, st)
  <2>1. PICK i \in 1 .. Len(q) : q[i] = st BY <1>4 DEF Includes
  <2>2. rev[Len(q) + 1 - i] = st /\ Len(q) + 1 - i \in 1 .. Len(rev)
    BY <1>1, <1>2, <2>1
  <2> QED BY <2>2 DEF Includes
<1> QED BY <1>2, <1>3, <1>4

\* A member of two lists appended is a member of one of them.
LEMMA IncludesConcat ==
    ASSUME NEW T, NEW a \in Seq(T), NEW b \in Seq(T), NEW st
    PROVE  Includes(a \o b, st) <=> Includes(a, st) \/ Includes(b, st)
<1>1. Len(a \o b) = Len(a) + Len(b) /\ Len(a) \in Nat /\ Len(b) \in Nat OBVIOUS
<1>2. ASSUME Includes(a, st) PROVE Includes(a \o b, st) BY <1>1, <1>2 DEF Includes
<1>3. ASSUME Includes(b, st) PROVE Includes(a \o b, st)
  <2>1. PICK i \in 1 .. Len(b) : b[i] = st BY <1>3 DEF Includes
  <2>2. (a \o b)[Len(a) + i] = st /\ Len(a) + i \in 1 .. Len(a \o b) BY <1>1, <2>1
  <2> QED BY <2>2 DEF Includes
<1>4. ASSUME Includes(a \o b, st) PROVE Includes(a, st) \/ Includes(b, st)
  <2>1. PICK i \in 1 .. Len(a \o b) : (a \o b)[i] = st BY <1>4 DEF Includes
  <2>2. CASE i <= Len(a) BY <1>1, <2>1, <2>2 DEF Includes
  <2>3. CASE i > Len(a)
    <3>1. i - Len(a) \in 1 .. Len(b) /\ b[i - Len(a)] = st BY <1>1, <2>1, <2>3
    <3> QED BY <3>1 DEF Includes
  <2> QED BY <1>1, <2>1, <2>2, <2>3
<1> QED BY <1>2, <1>3, <1>4

\* A member of a list is its first one or one of the rest.
LEMMA IncludesTail ==
    ASSUME NEW T, NEW q \in Seq(T), q # <<>>, NEW st
    PROVE  Includes(q, st) <=> Head(q) = st \/ Includes(Tail(q), st)
<1>1. Len(Tail(q)) = Len(q) - 1 /\ Len(q) \in Nat \ {0} /\ Head(q) = q[1] OBVIOUS
<1>2. ASSUME Includes(q, st), Head(q) # st PROVE Includes(Tail(q), st)
  <2>1. PICK i \in 1 .. Len(q) : q[i] = st BY <1>2 DEF Includes
  <2>2. i - 1 \in 1 .. Len(Tail(q)) /\ Tail(q)[i - 1] = st BY <1>1, <1>2, <2>1
  <2> QED BY <2>2 DEF Includes
<1>3. ASSUME Includes(Tail(q), st) PROVE Includes(q, st)
  <2>1. PICK i \in 1 .. Len(Tail(q)) : Tail(q)[i] = st BY <1>3 DEF Includes
  <2>2. i + 1 \in 1 .. Len(q) /\ q[i + 1] = st BY <1>1, <2>1
  <2> QED BY <2>2 DEF Includes
<1>4. Head(q) = st => Includes(q, st) BY <1>1 DEF Includes
<1> QED BY <1>2, <1>3, <1>4

\* A state that serves a request adds to the undo list what serves it too; only
\* PROVISIONING adds UNDO_PROVISIONING.
LEMMA UndoOfServes ==
    ASSUME NEW ops, NEW st \in Serving(ops), "REATTACH" \notin ops
    PROVE  /\ Only(UndoOf(st), Undoing \cap Serving(ops))
           /\ st = "PROVISIONING" => Includes(UndoOf(st), UP)
           /\ st \notin {"PROVISIONING", "ATTACHING", "DETACHING"} => UndoOf(st) = <<>>
           /\ st = "PROVISIONING" => Only(UndoOf(st), {UP})
<1>1. DOMAIN undoStateMap = {"PROVISIONING", "ATTACHING", "DETACHING"}
  BY DEF undoStateMap
<1>2. CASE st \notin DOMAIN undoStateMap BY <1>1, <1>2, OnlyEmpty DEF UndoOf
<1>3. CASE st \in DOMAIN undoStateMap
  <2>1. UndoOf(st) = <<undoStateMap[st]>> BY <1>3 DEF UndoOf
  <2>2. undoStateMap[st] \in Undoing \cap Serving(ops)
    BY <1>1, <1>3 DEF undoStateMap, Undoing, Serving, States
  <2>3. st = "PROVISIONING" => undoStateMap[st] = UP BY DEF undoStateMap, UP
  <2> QED BY <1>1, <1>3, <2>1, <2>2, <2>3 DEF Only, Includes
<1> QED BY <1>2, <1>3

(* The fields that Return changes. *)
LEMMA ReturnIs ==
    ASSUME NEW d, NEW r, NEW g \in Goroutines
    PROVE  LET h == Return(d, r, g) IN
           /\ h.pc = IF g.back THEN "next"
                     ELSE IF g.err \/ g.retry \/ g.todo = <<>> THEN "turn" ELSE "next"
           /\ h.undo = IF d = "centrald" /\ ~g.back /\ ~Has(r, "REATTACH")
                       THEN g.undo \o UndoOf(g.st) ELSE g.undo
           /\ h.sub = None /\ h.st = g.st /\ h.sid = g.sid /\ h.todo = g.todo /\ h.mem = g.mem
           /\ h.err = g.err /\ h.late = g.late /\ h.retry = g.retry /\ h.noid = g.noid
           /\ h.back = g.back /\ h.node = g.node
BY DEF Return, Goroutines

\* A handler that returns leaves a goroutine of the right shape to the loop.
LEMMA ReturnShape ==
    ASSUME NEW d, NEW r, NEW g \in Goroutines, InState(d, req[r].ops, g),
           ~g.back => ~(g.err /\ g.retry)
    PROVE  Shape(d, req[r].ops, Return(d, r, g))
<1> DEFINE h == Return(d, r, g)
           ops == req[r].ops
<1>1. g.undo \in Seq(States) /\ g.todo \in Seq(States) BY DEF Goroutines
<1>2. Only(h.undo, Undoing \cap Serving(ops))
  <2>1. CASE d = "centrald" /\ ~g.back /\ ~Has(r, "REATTACH")
    <3>1. Only(UndoOf(g.st), Undoing \cap Serving(ops))
      BY <2>1, UndoOfServes DEF InState, Has
    <3>2. Only(g.undo \o UndoOf(g.st), Undoing \cap Serving(ops))
      BY <1>1, <3>1, OnlyConcat, UndoOfType DEF InState, Lists
    <3> QED BY <2>1, <3>2, ReturnIs
  <2>2. CASE ~(d = "centrald" /\ ~g.back /\ ~Has(r, "REATTACH"))
    BY <2>2, ReturnIs DEF InState, Lists
  <2> QED BY <2>1, <2>2
<1>3. Lists(d, ops, h) BY <1>2, ReturnIs DEF InState, Lists, Fails
<1>4. CASE g.back BY <1>3, <1>4, ReturnIs DEF Shape
<1>5. CASE ~g.back /\ (g.err \/ g.retry \/ g.todo = <<>>)
  BY <1>3, <1>5, ReturnIs DEF Shape, Fails, InState
<1>6. CASE ~g.back /\ ~(g.err \/ g.retry \/ g.todo = <<>>)
  <2>1. ~Includes(Tail(g.todo), "PROVISIONING") /\ Head(g.todo) # "PROVISIONING"
    BY <1>1, <1>6, IncludesTail DEF InState
  <2>2. h.pc = "next" /\ ~h.back /\ ~Fails(h) /\ ~h.retry /\ h.st \notin Undoing /\ h.todo = g.todo
    BY <1>6, ReturnIs DEF InState, Fails
  <2> QED BY <1>3, <2>1, <2>2 DEF Shape
<1> QED BY <1>4, <1>5, <1>6

(* A handler that fails, or that is to be called again later.              *)
LEMMA LaterShape ==
    ASSUME NEW d, NEW r, NEW g \in Goroutines, g.pc = "call", Shape(d, req[r].ops, g)
    PROVE  /\ Shape(d, req[r].ops, Later(d, r, g))
           /\ Shape(d, req[r].ops, Failing(d, r, g))
           /\ Shape(d, req[r].ops, Return(d, r, g))
           /\ Handled(g, Return(d, r, g)) /\ Handled(g, Later(d, r, g)) /\ Handled(g, Failing(d, r, g))
<1> DEFINE l == [g EXCEPT !.retry = TRUE]
           f == [g EXCEPT !.err = TRUE]
           ops == req[r].ops
<1>1. l \in Goroutines /\ f \in Goroutines BY DEF Goroutines
<1>2. InState(d, ops, g) /\ ~g.retry /\ (~g.back => ~g.err) BY DEF Shape
<1>3. /\ l.todo = g.todo /\ l.undo = g.undo /\ l.st = g.st /\ l.back = g.back /\ l.err = g.err
      /\ l.late = g.late /\ l.noid = g.noid
      /\ f.todo = g.todo /\ f.undo = g.undo /\ f.st = g.st /\ f.back = g.back /\ f.err = TRUE
      /\ f.late = g.late /\ f.noid = g.noid /\ f.retry = g.retry
  BY DEF Goroutines
<1> HIDE DEF l, f
<1>4. InState(d, ops, l) BY <1>2, <1>3 DEF InState, Lists, Fails
<1>5. InState(d, ops, f) BY <1>2, <1>3 DEF InState, Lists, Fails
<1>6. Shape(d, ops, Return(d, r, l)) BY <1>1, <1>2, <1>3, <1>4, ReturnShape
<1>7. Shape(d, ops, Return(d, r, f)) BY <1>1, <1>2, <1>3, <1>5, ReturnShape
<1>8. Shape(d, ops, Return(d, r, g)) BY <1>2, ReturnShape
<1>9. Handled(g, Return(d, r, g)) /\ Handled(g, Return(d, r, l)) /\ Handled(g, Return(d, r, f))
  BY <1>1, <1>3, ReturnIs DEF Handled
<1> QED BY <1>6, <1>7, <1>8, <1>9 DEF Later, Failing, l, f

\* The shape does not depend on the copy of the storage or on its identifier.
LEMMA ShapeOfCopy ==
    ASSUME NEW d, NEW ops, NEW g, NEW h, Alike(g, h), Shape(d, ops, g)
    PROVE  Shape(d, ops, h)
<1>1. Lists(d, ops, g) => Lists(d, ops, h) BY DEF Lists, Fails, Alike
<1>2. InState(d, ops, g) => InState(d, ops, h) BY <1>1 DEF InState, Alike
<1> QED BY <1>1, <1>2 DEF Shape, SubOf, Fails, Alike

\* A goroutine that has saved its Storage object keeps its shape.
LEMMA ShapeOfMem ==
    ASSUME NEW d, NEW ops, NEW g \in Goroutines, NEW m \in Storage, Shape(d, ops, g)
    PROVE  /\ [g EXCEPT !.mem = m] \in Goroutines /\ Shape(d, ops, [g EXCEPT !.mem = m])
           /\ Alike(g, [g EXCEPT !.mem = m])
<1> DEFINE h == [g EXCEPT !.mem = m]
<1>1. h \in Goroutines BY DEF Goroutines
<1>2. Alike(g, h) BY DEF Goroutines, Alike
<1> QED BY <1>1, <1>2, ShapeOfCopy

(* The next sub-state of a handler.                                        *)
LEMMA CallShape ==
    ASSUME NEW d, NEW ops, NEW g \in Goroutines, NEW sub \in Subs, g.pc = "call",
           Shape(d, ops, g),
           d = C => /\ sub \in ProvisionSubs <=> g.sub \in ProvisionSubs
                    /\ sub \in ReleaseSubs <=> g.sub \in ReleaseSubs
                    /\ sub = "removeCSPVolumeTag" <=> g.sub = "removeCSPVolumeTag"
    PROVE  Shape(d, ops, Call(g, sub)) /\ Handled(g, Call(g, sub))
<1> DEFINE h == Call(g, sub)
<1>1. /\ h.todo = g.todo /\ h.undo = g.undo /\ h.st = g.st /\ h.back = g.back /\ h.err = g.err
      /\ h.late = g.late /\ h.noid = g.noid /\ h.retry = g.retry /\ h.pc = "call" /\ h.sub = sub
  BY DEF Goroutines, Call
<1> HIDE DEF h
<1>2. InState(d, ops, g) => InState(d, ops, h) BY <1>1 DEF InState, Lists, Fails
<1>3. Shape(d, ops, h) BY <1>1, <1>2 DEF Shape, SubOf
<1>4. Handled(g, h) BY <1>1 DEF Handled
<1> QED BY <1>3, <1>4 DEF h

\* The sub-states getInitialState starts with belong to the state; there is
\* none in a state of the other daemon.
LEMMA FirstSubs ==
    /\ \A d, st, o : HandsOver(d, st) => FirstSub(d, st, o) = None
    /\ \A d, o : d # "centrald" /\ o.media # "FORMATTED" => FirstSub(d, "USING", o) = None
    /\ \A st, o : LET sub == FirstSub("centrald", st, o) IN
          sub # None => /\ sub \in ProvisionSubs <=> st = "PROVISIONING"
                        /\ sub \in ReleaseSubs <=> st \in {"RELEASING", UP}
                        /\ sub = "removeCSPVolumeTag" <=> st = "REMOVING_TAG"
<1>1. \A d, st, o : HandsOver(d, st) => FirstSub(d, st, o) = None
  BY DEF HandsOver, FirstSub, AgentStates
<1>2. \A d, o : d # "centrald" /\ o.media # "FORMATTED" => FirstSub(d, "USING", o) = None
  BY DEF FirstSub, UseFirst
<1>3. ASSUME NEW st, NEW o, FirstSub("centrald", st, o) # None
      PROVE  LET sub == FirstSub("centrald", st, o) IN
                        /\ sub \in ProvisionSubs <=> st = "PROVISIONING"
                        /\ sub \in ReleaseSubs <=> st \in {"RELEASING", UP}
                        /\ sub = "removeCSPVolumeTag" <=> st = "REMOVING_TAG"
  BY <1>3 DEF FirstSub, ProvisionFirst, AttachFirst, DetachFirst, ReleaseFirst, None, UP,
       ProvisionSubs, ReleaseSubs
<1> QED BY <1>1, <1>2, <1>3

\* What entering a state does to the fields of a goroutine, before its handler
\* starts.
LEMMA EnteringIs ==
    ASSUME TypeOK, NEW d, NEW r \in SR, NEW g0 \in Goroutines, NEW st \in States, g0.todo # <<>>,
           NEW g, g = Entering(d, r, g0, st), NEW sub, sub = FirstSub(d, st, g0.mem)
    PROVE  /\ g \in Goroutines
           /\ g.todo = Tail(g0.todo) /\ g.undo = g0.undo /\ g.st = st /\ g.back = g0.back
           /\ g.late = g0.late /\ g.mem = g0.mem /\ g.sid = g0.sid /\ g.pc = g0.pc
           /\ (g.retry <=> HandsOver(d, st))
           /\ (g.noid <=> g0.noid \/ st \in {"RELEASING", "UNDO_PROVISIONING"})
           /\ (g.ids <=> st = "PROVISIONING" /\ g0.mem.prov # None)
           /\ (g.err <=> g0.err \/ (st = "USING" /\ d # "centrald" /\ g0.mem.media # "FORMATTED"))
           /\ sub = None => EnterState(d, r, g0, st) = Return(d, r, g)
           /\ sub # None => EnterState(d, r, g0, st) = Calling(g, sub)
<1> DEFINE node == IF st = "REATTACHING" THEN req[r].target ELSE g0.node
           retry == HandsOver(d, st)
           noid == g0.noid \/ st \in {"RELEASING", "UNDO_PROVISIONING"}
           ids == st = "PROVISIONING" /\ g0.mem.prov # None
           err == g0.err \/ (st = "USING" /\ d # "centrald" /\ g0.mem.media # "FORMATTED")
<1>1. g = [g0 EXCEPT !.st = st, !.todo = Tail(g0.todo), !.retry = retry, !.node = node,
                           !.noid = noid, !.ids = ids, !.err = err]
  BY DEF Entering
<1>2. node \in Node \cup {None} BY DEF TypeOK, Requests, Goroutines
<1>3. Tail(g0.todo) \in Seq(States) BY DEF Goroutines
<1>4. retry \in BOOLEAN /\ noid \in BOOLEAN /\ ids \in BOOLEAN /\ err \in BOOLEAN
  <2>1. retry \in BOOLEAN
    <3>1. CASE d = "centrald" BY <3>1 DEF HandsOver
    <3>2. CASE d # "centrald" BY <3>2 DEF HandsOver
    <3> QED BY <3>1, <3>2
  <2>2. noid \in BOOLEAN BY DEF Goroutines
  <2>3. ids \in BOOLEAN OBVIOUS
  <2>4. err \in BOOLEAN BY DEF Goroutines
  <2> QED BY <2>1, <2>2, <2>3, <2>4
<1>5. EnterState(d, r, g0, st) = IF FirstSub(d, st, g.mem) = None THEN Return(d, r, g)
                                 ELSE [g EXCEPT !.pc = "call", !.sub = FirstSub(d, st, g.mem)]
  BY DEF EnterState, Entering
<1>6. /\ g \in Goroutines
      /\ g.todo = Tail(g0.todo) /\ g.undo = g0.undo /\ g.st = st /\ g.back = g0.back
      /\ g.late = g0.late /\ g.mem = g0.mem /\ g.sid = g0.sid /\ g.pc = g0.pc
      /\ (g.retry <=> retry) /\ (g.noid <=> noid) /\ (g.ids <=> ids) /\ (g.err <=> err)
  <2> HIDE DEF node, retry, noid, ids, err
  <2>1. g \in Goroutines
    <3>1. [g0 EXCEPT !.st = st, !.todo = Tail(g0.todo), !.retry = retry, !.node = node,
                     !.noid = noid, !.ids = ids, !.err = err] \in Goroutines
      BY <1>2, <1>3, <1>4 DEF Goroutines
    <3> QED BY <1>1, <3>1
  <2>2. /\ g.todo = Tail(g0.todo) /\ g.undo = g0.undo /\ g.st = st /\ g.back = g0.back
        /\ g.late = g0.late /\ g.mem = g0.mem /\ g.sid = g0.sid /\ g.pc = g0.pc
    BY <1>1 DEF Goroutines
  <2>3. g.retry <=> retry BY <1>1 DEF Goroutines
  <2>4. g.noid <=> noid BY <1>1 DEF Goroutines
  <2>5. g.ids <=> ids BY <1>1 DEF Goroutines
  <2>6. g.err <=> err BY <1>1 DEF Goroutines
  <2> QED BY <2>1, <2>2, <2>3, <2>4, <2>5, <2>6
<1>7. EnterState(d, r, g0, st) = IF sub = None THEN Return(d, r, g) ELSE Calling(g, sub)
  BY <1>5, <1>6 DEF Calling
<1> QED BY <1>6, <1>7

\* A goroutine that enters the first state of its list keeps its shape.
LEMMA EnterShape ==
    ASSUME TypeOK, NEW d, NEW r \in SR, NEW g0 \in Goroutines, g0.pc = "next",
           g0.todo # <<>>, Shape(d, req[r].ops, g0), NEW st, st = Head(g0.todo)
    PROVE  /\ Shape(d, req[r].ops, EnterState(d, r, g0, st))
           /\ InState(d, req[r].ops, Entering(d, r, g0, st))
<1> DEFINE g == Entering(d, r, g0, st)
           ops == req[r].ops
           sub == FirstSub(d, st, g0.mem)
<1>0. g0.todo # <<>> OBVIOUS
<1>1. g0.todo \in Seq(States) /\ st \in States BY DEF Goroutines
<1>2. Lists(d, ops, g0) BY DEF Shape
<1>3. /\ Only(Tail(g0.todo), IF g0.back THEN Undoing \cap Serving(ops) ELSE Serving(ops) \ Undoing)
      /\ st \in IF g0.back THEN Undoing \cap Serving(ops) ELSE Serving(ops) \ Undoing
      /\ d # C => Only(Tail(g0.todo), AgentStates \cup {"DETACHING", "REMOVING_TAG"})
  BY <1>1, <1>2, OnlyTail DEF Lists
<1>4. /\ g.todo = Tail(g0.todo) /\ g.undo = g0.undo /\ g.st = st /\ g.back = g0.back
      /\ g.late = g0.late /\ (g.retry <=> HandsOver(d, st))
      /\ (g.noid <=> g0.noid \/ st \in {"RELEASING", "UNDO_PROVISIONING"})
      /\ (g.err <=> g0.err \/ (st = "USING" /\ d # "centrald" /\ g0.mem.media # "FORMATTED"))
      /\ sub = None => EnterState(d, r, g0, st) = Return(d, r, g)
      /\ sub # None => EnterState(d, r, g0, st) = Calling(g, sub)
      /\ g \in Goroutines
  BY <1>1, EnteringIs
<1> HIDE DEF g, sub
<1>5. g.noid => g.back \/ "RELEASE" \in ops
  BY <1>2, <1>3, <1>4 DEF Lists, Serving, Undoing
<1>6. Lists(d, ops, g) BY <1>2, <1>3, <1>4, <1>5 DEF Lists, Fails
<1>7. ~g.back => ~g0.late /\ ~g0.err /\ ~Includes(g.todo, "PROVISIONING") /\ (g.st = "PROVISIONING" => g.undo = <<>>)
  BY <1>4 DEF Shape, Fails
<1>8. InState(d, ops, g) BY <1>3, <1>4, <1>6, <1>7 DEF InState, Undoing
<1>9. g.retry => sub = None BY <1>4, FirstSubs DEF sub
<1>10. ~g.back /\ g.err => sub = None /\ ~g.retry
  BY <1>4, <1>7, FirstSubs DEF HandsOver, C, sub
<1>11. ASSUME sub = None PROVE Shape(d, ops, EnterState(d, r, g0, st))
  BY <1>4, <1>8, <1>10, <1>11, ReturnShape
<1>12. ASSUME sub # None PROVE Shape(d, ops, EnterState(d, r, g0, st))
  <2> DEFINE h == Calling(g, sub)
  <2>1. /\ h.todo = g.todo /\ h.undo = g.undo /\ h.st = g.st /\ h.back = g.back /\ h.err = g.err
        /\ h.late = g.late /\ h.noid = g.noid /\ h.retry = g.retry /\ h.pc = "call" /\ h.sub = sub
    BY <1>4 DEF Goroutines, Calling
  <2> HIDE DEF h
  <2>2. InState(d, ops, h) BY <1>8, <2>1 DEF InState, Lists, Fails
  <2>3. d = C => SubOf(h) BY <1>4, <1>12, <2>1, FirstSubs DEF SubOf, C, sub
  <2>4. Shape(d, ops, h) BY <1>9, <1>10, <1>12, <2>1, <2>2, <2>3 DEF Shape
  <2> QED BY <1>4, <1>12, <2>4 DEF h
<1> QED BY <1>8, <1>11, <1>12 DEF g

\* What becomes of a goroutine that enters a state: it calls the handler, or
\* returns from it at once.
LEMMA EnterIs ==
    ASSUME TypeOK, NEW d, NEW r \in SR, NEW g0 \in Goroutines, NEW st \in States, g0.todo # <<>>
    PROVE  Entered(d, r, g0, st, EnterState(d, r, g0, st))
<1> DEFINE g == Entering(d, r, g0, st)
           sub == FirstSub(d, st, g0.mem)
<1>1. /\ g.todo = Tail(g0.todo) /\ g.undo = g0.undo /\ g.st = st /\ g.back = g0.back
      /\ g.late = g0.late /\ g.mem = g0.mem /\ g.sid = g0.sid
      /\ (g.retry <=> HandsOver(d, st))
      /\ (g.noid <=> g0.noid \/ st \in {"RELEASING", "UNDO_PROVISIONING"})
      /\ (g.ids <=> st = "PROVISIONING" /\ g0.mem.prov # None)
      /\ (g.err <=> g0.err \/ (st = "USING" /\ d # "centrald" /\ g0.mem.media # "FORMATTED"))
      /\ sub = None => EnterState(d, r, g0, st) = Return(d, r, g)
      /\ sub # None => EnterState(d, r, g0, st) = Calling(g, sub)
      /\ g \in Goroutines
  BY EnteringIs
<1> HIDE DEF g, sub
<1>2. CASE sub = None
  <2> DEFINE h == Return(d, r, g)
  <2>0. g \in Goroutines BY <1>1
  <2>1. /\ h.pc = IF g.back THEN "next"
                  ELSE IF g.err \/ g.retry \/ g.todo = <<>> THEN "turn" ELSE "next"
        /\ h.undo = IF d = "centrald" /\ ~g.back /\ ~Has(r, "REATTACH")
                    THEN g.undo \o UndoOf(g.st) ELSE g.undo
        /\ h.sub = None /\ h.st = g.st /\ h.sid = g.sid /\ h.todo = g.todo /\ h.mem = g.mem
        /\ h.err = g.err /\ h.late = g.late /\ h.retry = g.retry /\ h.noid = g.noid
        /\ h.back = g.back
    BY <2>0, ReturnIs
  <2> HIDE DEF h
  <2>2. Entered(d, r, g0, st, h) BY <1>1, <1>2, <2>1 DEF Entered, sub
  <2> QED BY <1>1, <1>2, <2>2 DEF h
<1>3. CASE sub # None
  <2> DEFINE h == Calling(g, sub)
  <2>1. /\ h.pc = "call" /\ h.sub = sub /\ h.undo = g.undo /\ h.ids = g.ids /\ h.st = g.st
        /\ h.sid = g.sid /\ h.todo = g.todo /\ h.mem = g.mem /\ h.back = g.back
        /\ h.err = g.err /\ h.late = g.late /\ h.retry = g.retry /\ h.noid = g.noid
    BY <1>1 DEF Calling, Goroutines
  <2> HIDE DEF h
  <2>2. Entered(d, r, g0, st, h) BY <1>1, <1>3, <2>1 DEF Entered, sub
  <2> QED BY <1>1, <1>3, <2>2 DEF h
<1> QED BY <1>2, <1>3

\* A step of one goroutine that keeps its shape keeps this layer.
LEMMA ShapedFrame ==
    ASSUME Inv1, NEW d \in Daemon, NEW r \in SR, NEW h, Goes(d, r, h), KeepsRequests,
           UNCHANGED cleanup, req[r].st # None, Running(d, r) \/ cleanup = "done" \/ d # C
    PROVE  Shaped' /\ Asked' /\ Idled'
<1>1. \A e \in Daemon, q \in SR : G(e, q)' = IF e = d /\ q = r THEN h ELSE G(e, q)
  BY DEF Inv1, TypeOK, Goes, Become, G
<1>2. Shaped'
  <2> SUFFICES ASSUME NEW e \in Daemon, NEW q \in SR
               PROVE  Shape(e, req'[q].ops, G(e, q)') /\ (Running(e, q)' => req'[q].st # None)
    BY DEF Shaped
  <2>1. Shape(e, req[q].ops, G(e, q)) /\ (Running(e, q) => req[q].st # None)
    BY DEF Inv1, Shaped
  <2>2. Shape(e, req[q].ops, IF e = d /\ q = r THEN h ELSE G(e, q)) BY <2>1 DEF Goes
  <2>3. Shape(e, req'[q].ops, G(e, q)') BY <1>1, <2>2 DEF KeepsRequests
  <2> QED BY <1>1, <2>1, <2>3 DEF KeepsRequests, Running
<1>3. Asked' BY DEF Inv1, Asked, KeepsRequests
<1>4. Idled' BY <1>1, CentralIs DEF Inv1, Idled, Running, C
<1> QED BY <1>2, <1>3, <1>4

(* Updates of a Storage object. *)
LEMMA UpdateGoes ==
    ASSUME Inv1, NEW d \in Daemon, NEW r \in SR, NEW new \in Storage, NEW ok \in Goroutines,
           NEW failed \in Goroutines, StorageUpdate(d, r, new, ok, failed),
           Shape(d, req[r].ops, ok), Shape(d, req[r].ops, failed)
    PROVE  \E h : Goes(d, r, h) /\ ((Alike(h, ok) /\ h.sid = ok.sid) \/ h = failed)
<1> DEFINE s == G(d, r).sid
           vv == IF G(d, r).sub = "setProvisioned" THEN new.vol ELSE stg[s].vol
           saved == [new EXCEPT !.vol = vv]
<1>1. G(d, r).sid \in Stg \cup {None} /\ G(d, r) \in Goroutines
  BY GoType DEF Inv1, Goroutines
<1>2. \/ Exists(s) /\ Become(d, r, [ok EXCEPT !.mem = saved])
      \/ Become(d, r, failed)
  BY DEF StorageUpdate
<1>3. CASE Exists(s) /\ Become(d, r, [ok EXCEPT !.mem = saved])
  <2>1. vv \in Vol \cup {None} BY <1>1, <1>3 DEF Exists, Storage, Inv1, TypeOK
  <2>2. saved \in Storage
    <3> HIDE DEF vv
    <3> QED BY <2>1 DEF Storage
  <2> HIDE DEF saved
  <2>3. Alike([ok EXCEPT !.mem = saved], ok) /\ [ok EXCEPT !.mem = saved].sid = ok.sid
    BY <2>2, ShapeOfMem DEF Alike, Goroutines
  <2>4. Goes(d, r, [ok EXCEPT !.mem = saved]) BY <1>3, <2>2, ShapeOfMem DEF Goes
  <2> QED BY <2>3, <2>4
<1>4. CASE Become(d, r, failed) BY <1>4 DEF Goes
<1> QED BY <1>2, <1>3, <1>4

\* StorageUpdate, done or failed, leaves one of two goroutines of the right
\* shape.
LEMMA UpdateShape ==
    ASSUME Inv1, NEW d \in Daemon, NEW r \in SR, NEW new \in Storage, NEW ok \in Goroutines,
           NEW failed \in Goroutines, StorageUpdate(d, r, new, ok, failed),
           Shape(d, req[r].ops, ok), Shape(d, req[r].ops, failed),
           Handled(G(d, r), ok), Handled(G(d, r), failed)
    PROVE  \E h : Handles(d, r, h)
<1> PICK h : Goes(d, r, h) /\ ((Alike(h, ok) /\ h.sid = ok.sid) \/ h = failed)
  BY UpdateGoes
<1> QED BY DEF Handles, Handled, Alike

\* setAndUpdateRequestMessage changes nothing of a request that a shape depends
\* on.
LEMMA Saying ==
    ASSUME Inv1, NEW r \in SR, SaysWhy(r) \/ UNCHANGED req, G(C, r).pc = "call"
    PROVE  KeepsRequests
<1>1. G(C, r).st # None
  <2>1. Shape(C, req[r].ops, G(C, r)) BY CentralIs DEF Inv1, Shaped, C
  <2> QED BY <2>1 DEF Shape, InState, Serving, States, None, Terminal
<1> QED BY <1>1 DEF SaysWhy, KeepsRequests, Inv1, TypeOK, Requests, Active, C

\* A sub-state of centrald that only saves the Storage object keeps the shape.
LEMMA SaveShape ==
    ASSUME Inv1, NEW r \in SR, NEW sub, NEW new \in Storage, NEW ok \in Goroutines,
           CentralSave(r, sub, new, ok), Shape(C, req[r].ops, ok), Handled(G(C, r), ok)
    PROVE  (\E h : Handles(C, r, h)) /\ KeepsRequests
<1>1. /\ StorageUpdate(C, r, new, ok, Later(C, r, G(C, r)))
      /\ SaysWhy(r) \/ UNCHANGED req
      /\ G(C, r).pc = "call"
  BY DEF CentralSave, C, InSub
<1>2. /\ Later(C, r, G(C, r)) \in Goroutines /\ G(C, r) \in Goroutines
      /\ Shape(C, req[r].ops, G(C, r))
  BY CentralGoes, CentralIs DEF Inv1, Shaped, C
<1>3. Shape(C, req[r].ops, Later(C, r, G(C, r))) /\ Handled(G(C, r), Later(C, r, G(C, r)))
  BY <1>1, <1>2, LaterShape
<1> QED BY <1>1, <1>2, <1>3, UpdateShape, Saying, CentralIs DEF C

\* Whatever a handler of centrald makes of its goroutine has the right shape.
LEMMA CentralShapes ==
    ASSUME Inv1, NEW r \in SR, G(C, r).pc = "call"
    PROVE  /\ Shape(C, req[r].ops, G(C, r)) /\ InState(C, req[r].ops, G(C, r)) /\ SubOf(G(C, r))
           /\ Shape(C, req[r].ops, Return(C, r, G(C, r)))
           /\ Shape(C, req[r].ops, Later(C, r, G(C, r)))
           /\ Shape(C, req[r].ops, Failing(C, r, G(C, r)))
           /\ Handled(G(C, r), Return(C, r, G(C, r))) /\ Handled(G(C, r), Later(C, r, G(C, r)))
           /\ Handled(G(C, r), Failing(C, r, G(C, r)))
           /\ ~G(C, r).retry /\ req[r].st # None /\ G(C, r).st \in States
<1>1. /\ Shape(C, req[r].ops, G(C, r)) /\ req[r].st # None
      /\ G(C, r) \in Goroutines
  BY CentralIs, GoType DEF Inv1, Shaped, C, Running
<1>2. InState(C, req[r].ops, G(C, r)) /\ SubOf(G(C, r)) /\ ~G(C, r).retry
  BY <1>1 DEF Shape
<1> QED BY <1>1, <1>2, LaterShape DEF InState, Serving

(* The goroutine goes on to a step of the same handler.                    *)
LEMMA CallGoes ==
    ASSUME Inv1, NEW r \in SR, NEW from, NEW sub \in Subs, InSub(C, r, from),
           /\ sub \in ProvisionSubs <=> from \in ProvisionSubs
           /\ sub \in ReleaseSubs <=> from \in ReleaseSubs
           /\ sub = "removeCSPVolumeTag" <=> from = "removeCSPVolumeTag"
    PROVE  /\ Shape(C, req[r].ops, Call(G(C, r), sub))
           /\ Call(G(C, r), sub) \in Goroutines /\ Handled(G(C, r), Call(G(C, r), sub))
           /\ G(C, r).pc = "call"
<1>1. G(C, r).pc = "call" /\ G(C, r).sub = from BY DEF InSub
<1>2. G(C, r) \in Goroutines /\ Shape(C, req[r].ops, G(C, r))
  BY <1>1, CentralShapes, CentralIs, GoType DEF C, Inv1
<1>3. Shape(C, req[r].ops, Call(G(C, r), sub)) /\ Handled(G(C, r), Call(G(C, r), sub))
  BY <1>1, <1>2, CallShape
<1> QED BY <1>1, <1>2, <1>3, CallType

\* ProvisionStorage keeps the shape of its goroutine.
LEMMA ShapeProvision ==
    ASSUME Inv1, NEW r \in SR, Provision(r)
    PROVE  (\E h : Handles(C, r, h)) /\ KeepsRequests /\ UNCHANGED cleanup /\ G(C, r).pc = "call"
<1> DEFINE g == G(C, r)
<1>0. /\ g \in Goroutines /\ Return(C, r, g) \in Goroutines /\ Later(C, r, g) \in Goroutines
      /\ Failing(C, r, g) \in Goroutines /\ C \in Daemon
  BY CentralGoes, CentralIs DEF C, Inv1
<1>1. g.pc = "call" /\ UNCHANGED cleanup
  BY DEF Provision, getCapacity, createStorage, setIds, createCSPVolume, setProvisioned,
         removeCSPVolumeTag, InSub, C
<1>2. CASE getCapacity(r)
  <2>1. InSub(C, r, "getCapacity") /\ UNCHANGED req BY <1>2 DEF getCapacity, C
  <2>2. Shape(C, req[r].ops, Call(g, "createStorage")) /\ Call(g, "createStorage") \in Goroutines /\ Handled(g, Call(g, "createStorage"))
    BY <2>1, CallGoes DEF Subs, ProvisionSubs, ReleaseSubs
  <2>3. Become(C, r, Call(g, "createStorage")) \/ Become(C, r, Failing(C, r, g)) \/ Become(C, r, Later(C, r, g))
    BY <1>2 DEF getCapacity, C
  <2> HIDE DEF g
  <2> QED BY <1>0, <1>1, <2>1, <2>2, <2>3, CentralShapes DEF Handles, Goes, KeepsRequests, g
<1>3. CASE createStorage(r)
  <2> DEFINE c == Call(g, "setIds")
             new == [NoStorage EXCEPT !.prov = "PROVISIONING"]
  <2>1. InSub(C, r, "createStorage") /\ UNCHANGED req BY <1>3 DEF createStorage, C
  <2>2. Shape(C, req[r].ops, c) /\ c \in Goroutines /\ Handled(g, c)
    BY <2>1, CallGoes DEF Subs, ProvisionSubs, ReleaseSubs
  <2>3. \/ \E s \in Stg : Become(C, r, [c EXCEPT !.sid = s, !.mem = new])
        \/ Become(C, r, Failing(C, r, g))
    BY <1>3 DEF createStorage, C
  <2>4. new \in Storage BY DEF NoStorage, Storage, None
  <2> HIDE DEF g, c, new
  <2>5. ASSUME NEW s \in Stg
        PROVE  [c EXCEPT !.sid = s, !.mem = new] \in Goroutines /\ Alike(c, [c EXCEPT !.sid = s, !.mem = new])
    BY <2>2, <2>4 DEF Goroutines, Alike
  <2>6. CASE Become(C, r, Failing(C, r, g))
    BY <1>0, <1>1, <2>1, <2>6, CentralShapes DEF Handles, Goes, KeepsRequests, g
  <2>7. CASE \E s \in Stg : Become(C, r, [c EXCEPT !.sid = s, !.mem = new])
    <3>1. PICK s \in Stg : Become(C, r, [c EXCEPT !.sid = s, !.mem = new]) BY <2>7
    <3> DEFINE h == [c EXCEPT !.sid = s, !.mem = new]
    <3>2. h \in Goroutines /\ Alike(c, h) /\ Become(C, r, h) BY <2>5, <3>1
    <3> HIDE DEF h
    <3>3. Handles(C, r, h)
      BY <2>2, <3>2, ShapeOfCopy DEF Handles, Goes, Handled, Alike, g
    <3> QED BY <1>1, <2>1, <3>3 DEF KeepsRequests, g
  <2> QED BY <2>3, <2>6, <2>7
<1>4. CASE setIds(r)
  <2>1. /\ InSub(C, r, "setIds")
        /\ \/ req' = [req EXCEPT ![r] = Written(C, r, g, g.st)]
           \/ UNCHANGED req
    BY <1>4 DEF setIds, C
  <2>2. /\ Shape(C, req[r].ops, Call(g, "createCSPVolume"))
        /\ Call(g, "createCSPVolume") \in Goroutines /\ Handled(g, Call(g, "createCSPVolume"))
    BY <2>1, CallGoes DEF Subs, ProvisionSubs, ReleaseSubs
  <2>3. Become(C, r, Call(g, "createCSPVolume")) \/ Become(C, r, Failing(C, r, g))
    BY <1>4 DEF setIds, C
  <2>4. KeepsRequests
    <3>1. g.st # None /\ req[r].st # None
      BY <1>1, CentralShapes DEF States, None, Terminal
    <3>2. /\ Written(C, r, g, g.st).st = g.st
          /\ Written(C, r, g, g.st).ops = req[r].ops
      BY DEF Written, Inv1, TypeOK, Requests
    <3> QED BY <2>1, <3>1, <3>2 DEF KeepsRequests, Inv1, TypeOK
  <2> HIDE DEF g
  <2> QED BY <1>0, <1>1, <2>2, <2>3, <2>4, CentralShapes DEF Handles, Goes, g
<1>5. CASE createCSPVolume(r)
  <2> DEFINE c == Call(g, "setProvisioned")
  <2>1. InSub(C, r, "createCSPVolume") /\ UNCHANGED req
    BY <1>5 DEF createCSPVolume, C
  <2>2. Shape(C, req[r].ops, c) /\ c \in Goroutines /\ Handled(g, c)
    BY <2>1, CallGoes DEF Subs, ProvisionSubs, ReleaseSubs
  <2>3. \/ \E v \in Vol : Become(C, r, [c EXCEPT !.mem.vol = v, !.mem.prov = "PROVISIONED"])
        \/ Become(C, r, Failing(C, r, g))
        \/ Become(C, r, Later(C, r, g))
    BY <1>5 DEF createCSPVolume, UnusedVolumes, C
  <2>4. \A v \in Vol : [c.mem EXCEPT !.vol = v, !.prov = "PROVISIONED"] \in Storage
    <3>1. c.mem \in Storage BY <2>2 DEF Goroutines
    <3> HIDE DEF c
    <3> QED BY <3>1 DEF Storage
  <2>5. \A v \in Vol : [c EXCEPT !.mem.vol = v, !.mem.prov = "PROVISIONED"]
                     = [c EXCEPT !.mem = [c.mem EXCEPT !.vol = v, !.prov = "PROVISIONED"]]
    BY <2>2 DEF Goroutines, Storage
  <2> HIDE DEF c, g
  <2>6. CASE \E v \in Vol : Become(C, r, [c EXCEPT !.mem.vol = v, !.mem.prov = "PROVISIONED"])
    <3>1. PICK m \in Storage : Become(C, r, [c EXCEPT !.mem = m])
      BY <2>4, <2>5, <2>6
    <3>2. Handles(C, r, [c EXCEPT !.mem = m])
      BY <2>2, <3>1, ShapeOfMem DEF Handles, Goes, Handled, Alike, g
    <3> QED BY <1>1, <2>1, <3>2 DEF KeepsRequests, g
  <2>7. CASE Become(C, r, Failing(C, r, g)) \/ Become(C, r, Later(C, r, g))
    BY <1>0, <1>1, <2>1, <2>7, CentralShapes DEF Handles, Goes, KeepsRequests, g
  <2> QED BY <2>3, <2>6, <2>7
<1>6. CASE setProvisioned(r)
  <2>1. g.mem \in Storage BY <1>0 DEF Goroutines
  <2>2. StorageUpdate(C, r, g.mem, Return(C, r, g), Failing(C, r, g)) /\ UNCHANGED req
    BY <1>6 DEF setProvisioned, C
  <2> QED BY <1>0, <1>1, <2>1, <2>2, UpdateShape, CentralShapes DEF KeepsRequests
<1>7. CASE removeCSPVolumeTag(r)
  <2>1. (Become(C, r, Return(C, r, g)) \/ Become(C, r, Later(C, r, g))) /\ UNCHANGED req
    BY <1>7 DEF removeCSPVolumeTag, C
  <2> HIDE DEF g
  <2> QED BY <1>0, <1>1, <2>1, CentralShapes DEF Handles, Goes, KeepsRequests, g
<1> QED BY <1>1, <1>2, <1>3, <1>4, <1>5, <1>6, <1>7 DEF Provision

\* AttachStorage keeps the shape of its goroutine.
LEMMA ShapeAttach ==
    ASSUME Inv1, NEW r \in SR, Attach(r)
    PROVE  (\E h : Handles(C, r, h)) /\ KeepsRequests /\ UNCHANGED cleanup /\ G(C, r).pc = "call"
<1> DEFINE g == G(C, r)
<1>0. /\ g \in Goroutines /\ Return(C, r, g) \in Goroutines /\ Later(C, r, g) \in Goroutines
      /\ Failing(C, r, g) \in Goroutines /\ C \in Daemon
      /\ g.mem \in Storage /\ g.node \in Node \cup {None}
  <2>1. g \in Goroutines /\ C \in Daemon BY CentralGoes, CentralIs DEF C, Inv1
  <2> QED BY <2>1, LaterType, ReturnType DEF Goroutines
<1>1. g.pc = "call" /\ UNCHANGED cleanup
  BY DEF Attach, setAttaching, attachStorage, setAttached, CentralSave, InSub, C
<1>2. CASE setAttaching(r)
  <2> DEFINE new == [g.mem EXCEPT !.att = "ATTACHING", !.node = g.node]
  <2>1. CentralSave(r, "setAttaching", new, Call(g, "attachStorage"))
    BY <1>2 DEF setAttaching, C
  <2>2. InSub(C, r, "setAttaching") BY <1>2 DEF setAttaching, CentralSave, C
  <2>3. /\ Shape(C, req[r].ops, Call(g, "attachStorage"))
        /\ Call(g, "attachStorage") \in Goroutines /\ Handled(g, Call(g, "attachStorage"))
    BY <2>2, CallGoes DEF Subs, ProvisionSubs, ReleaseSubs
  <2> HIDE DEF g
  <2>4. new \in Storage BY <1>0 DEF Storage
  <2> HIDE DEF new
  <2> QED BY <1>1, <2>1, <2>3, <2>4, SaveShape DEF g
<1>3. CASE attachStorage(r)
  <2>1. InSub(C, r, "attachStorage") /\ UNCHANGED req BY <1>3 DEF attachStorage, C
  <2>2. /\ Shape(C, req[r].ops, Call(g, "setAttached"))
        /\ Call(g, "setAttached") \in Goroutines /\ Handled(g, Call(g, "setAttached"))
    BY <2>1, CallGoes DEF Subs, ProvisionSubs, ReleaseSubs
  <2>3. \/ Become(C, r, Call(g, "setAttached"))
        \/ Become(C, r, Failing(C, r, g)) \/ Become(C, r, Later(C, r, g))
    BY <1>3 DEF attachStorage, C
  <2> HIDE DEF g
  <2> QED BY <1>0, <1>1, <2>1, <2>2, <2>3, CentralShapes DEF Handles, Goes, KeepsRequests, g
<1>4. CASE setAttached(r)
  <2> DEFINE new == [g.mem EXCEPT !.att = "ATTACHED"]
  <2>1. CentralSave(r, "setAttached", new, Return(C, r, g))
    BY <1>4 DEF setAttached, C
  <2> HIDE DEF g
  <2>2. new \in Storage BY <1>0 DEF Storage
  <2> HIDE DEF new
  <2> QED BY <1>0, <1>1, <2>1, <2>2, SaveShape, CentralShapes DEF g
<1> QED BY <1>2, <1>3, <1>4 DEF Attach

\* DetachStorage keeps the shape of its goroutine.
LEMMA ShapeDetach ==
    ASSUME Inv1, NEW r \in SR, Detach(r)
    PROVE  (\E h : Handles(C, r, h)) /\ KeepsRequests /\ UNCHANGED cleanup /\ G(C, r).pc = "call"
<1> DEFINE g == G(C, r)
<1>0. /\ g \in Goroutines /\ Return(C, r, g) \in Goroutines /\ Later(C, r, g) \in Goroutines
      /\ Failing(C, r, g) \in Goroutines /\ C \in Daemon
      /\ g.mem \in Storage
  <2>1. g \in Goroutines /\ C \in Daemon BY CentralGoes, CentralIs DEF C, Inv1
  <2> QED BY <2>1, LaterType, ReturnType DEF Goroutines
<1>1. g.pc = "call" /\ UNCHANGED cleanup
  BY DEF Detach, setDetaching, detachStorage, setDetached, cleanupDetach, CentralSave, InSub, C
<1>2. CASE setDetaching(r)
  <2> DEFINE new == [g.mem EXCEPT !.att = "DETACHING"]
  <2>1. CentralSave(r, "setDetaching", new, Call(g, "detachStorage"))
    BY <1>2 DEF setDetaching, C
  <2>2. InSub(C, r, "setDetaching") BY <1>2 DEF setDetaching, CentralSave, C
  <2>3. /\ Shape(C, req[r].ops, Call(g, "detachStorage"))
        /\ Call(g, "detachStorage") \in Goroutines /\ Handled(g, Call(g, "detachStorage"))
    BY <2>2, CallGoes DEF Subs, ProvisionSubs, ReleaseSubs
  <2> HIDE DEF g
  <2>4. new \in Storage BY <1>0 DEF Storage
  <2> HIDE DEF new
  <2> QED BY <1>1, <2>1, <2>3, <2>4, SaveShape DEF g
<1>3. CASE detachStorage(r)
  <2>1. InSub(C, r, "detachStorage") /\ (SaysWhy(r) \/ UNCHANGED req)
    BY <1>3 DEF detachStorage, C
  <2>2. /\ Shape(C, req[r].ops, Call(g, "setDetached"))
        /\ Call(g, "setDetached") \in Goroutines /\ Handled(g, Call(g, "setDetached"))
    BY <2>1, CallGoes DEF Subs, ProvisionSubs, ReleaseSubs
  <2>3. Become(C, r, Call(g, "setDetached")) \/ Become(C, r, Later(C, r, g))
    BY <1>3 DEF detachStorage, C
  <2> HIDE DEF g
  <2> QED BY <1>0, <1>1, <2>1, <2>2, <2>3, CentralShapes, Saying DEF Handles, Goes, g
<1>4. CASE setDetached(r)
  <2> DEFINE dev == IF req[r].ops = {"DETACH"} THEN "UNUSED" ELSE g.mem.dev
             new == [g.mem EXCEPT !.att = "DETACHED", !.node = None, !.dev = dev]
  <2>1. CentralSave(r, "setDetached", new, Return(C, r, g))
    BY <1>4 DEF setDetached, C
  <2> HIDE DEF g
  <2>2. new \in Storage
    <3>1. dev \in {"UNUSED", "FORMATTING", "OPENING", "OPEN", "CLOSING", "ERROR"}
      BY <1>0 DEF Storage
    <3> HIDE DEF dev
    <3> QED BY <1>0, <3>1 DEF Storage
  <2> HIDE DEF new
  <2> QED BY <1>0, <1>1, <2>1, <2>2, SaveShape, CentralShapes DEF g
<1>5. CASE cleanupDetach(r)
  <2> DEFINE new == [g.mem EXCEPT !.att = "ERROR"]
  <2>1. StorageUpdate(C, r, new, Return(C, r, g), Return(C, r, g)) /\ UNCHANGED req
    BY <1>5 DEF cleanupDetach, C
  <2> HIDE DEF g
  <2>2. new \in Storage BY <1>0 DEF Storage
  <2> HIDE DEF new
  <2>3. Shape(C, req[r].ops, Return(C, r, g)) /\ Handled(g, Return(C, r, g))
    BY <1>1, CentralShapes DEF g
  <2> QED BY <1>0, <1>1, <2>1, <2>2, <2>3, UpdateShape DEF KeepsRequests, g
<1> QED BY <1>2, <1>3, <1>4, <1>5 DEF Detach

\* ReleaseStorage keeps the shape of its goroutine.
LEMMA ShapeRelease ==
    ASSUME Inv1, NEW r \in SR, Release(r)
    PROVE  (\E h : Handles(C, r, h)) /\ KeepsRequests /\ UNCHANGED cleanup /\ G(C, r).pc = "call"
<1> DEFINE g == G(C, r)
<1>0. /\ g \in Goroutines /\ Return(C, r, g) \in Goroutines /\ Later(C, r, g) \in Goroutines
      /\ C \in Daemon /\ g.mem \in Storage
  <2>1. g \in Goroutines /\ C \in Daemon BY CentralGoes, CentralIs DEF C, Inv1
  <2> QED BY <2>1, LaterType, ReturnType DEF Goroutines
<1>1. g.pc = "call" /\ UNCHANGED cleanup
  BY DEF Release, setStorageState, deleteVolume, deleteStorage, CentralSave, InSub, C
<1>2. CASE setStorageState(r)
  <2> DEFINE new == [g.mem EXCEPT !.prov = "UNPROVISIONING"]
  <2>1. CentralSave(r, "setStorageState", new, Call(g, "deleteVolume"))
    BY <1>2 DEF setStorageState, C
  <2>2. InSub(C, r, "setStorageState") BY <1>2 DEF setStorageState, CentralSave, C
  <2>3. /\ Shape(C, req[r].ops, Call(g, "deleteVolume"))
        /\ Call(g, "deleteVolume") \in Goroutines /\ Handled(g, Call(g, "deleteVolume"))
    BY <2>2, CallGoes DEF Subs, ProvisionSubs, ReleaseSubs
  <2> HIDE DEF g
  <2>4. new \in Storage BY <1>0 DEF Storage
  <2> HIDE DEF new
  <2> QED BY <1>1, <2>1, <2>3, <2>4, SaveShape DEF g
<1>3. CASE deleteVolume(r)
  <2>1. InSub(C, r, "deleteVolume") /\ (SaysWhy(r) \/ UNCHANGED req)
    BY <1>3 DEF deleteVolume, C
  <2>2. /\ Shape(C, req[r].ops, Call(g, "deleteStorage"))
        /\ Call(g, "deleteStorage") \in Goroutines /\ Handled(g, Call(g, "deleteStorage"))
    BY <2>1, CallGoes DEF Subs, ProvisionSubs, ReleaseSubs
  <2>3. Become(C, r, Call(g, "deleteStorage")) \/ Become(C, r, Later(C, r, g))
    BY <1>3 DEF deleteVolume, C
  <2> HIDE DEF g
  <2> QED BY <1>0, <1>1, <2>1, <2>2, <2>3, CentralShapes, Saying DEF Handles, Goes, g
<1>4. CASE deleteStorage(r)
  <2>1. InSub(C, r, "deleteStorage") /\ (SaysWhy(r) \/ UNCHANGED req)
    BY <1>4 DEF deleteStorage, C
  <2>2. Become(C, r, Return(C, r, g)) \/ Become(C, r, Later(C, r, g))
    BY <1>4 DEF deleteStorage, C
  <2> HIDE DEF g
  <2> QED BY <1>0, <1>1, <2>1, <2>2, CentralShapes, Saying DEF Handles, Goes, g
<1> QED BY <1>2, <1>3, <1>4 DEF Release

\* The handlers of agentd keep the shape of their goroutine.
LEMMA ShapeDevice ==
    ASSUME Inv1, NEW n \in Node, NEW r \in SR, DeviceStep(n, r)
    PROVE  (\E h : Handles(n, r, h)) /\ KeepsRequests /\ UNCHANGED cleanup /\ G(n, r).pc = "call"
<1> DEFINE g == G(n, r)
           ops == req[r].ops
<1>0. /\ n \in Daemon /\ n # C /\ g \in Goroutines /\ g.mem \in Storage
      /\ Return(n, r, g) \in Goroutines /\ Later(n, r, g) \in Goroutines
      /\ Shape(n, ops, g)
  <2>1. n \in Daemon /\ n # C BY CentralIs DEF C
  <2>2. g \in Goroutines /\ Shape(n, ops, g) BY <2>1, GoType DEF Inv1, Shaped
  <2> QED BY <2>1, <2>2, LaterType, ReturnType DEF Goroutines
<1>1. /\ g.pc = "call" /\ UNCHANGED <<req, cleanup>>
  BY DEF DeviceStep, FormatStorage, UseStorage, CloseStorage, SetDeviceState, CallDevice, InSub
<1>2. KeepsRequests BY <1>1 DEF KeepsRequests
<1>3. /\ Shape(n, ops, Return(n, r, g)) /\ Shape(n, ops, Later(n, r, g))
      /\ Handled(g, Return(n, r, g)) /\ Handled(g, Later(n, r, g))
  BY <1>0, <1>1, LaterShape
<1>4. ASSUME NEW sub, NEW dev \in {"FORMATTING", "OPENING", "CLOSING"}, NEW next \in Subs,
             SetDeviceState(n, r, sub, dev, next)
      PROVE  \E h : Handles(n, r, h)
  <2>1. StorageUpdate(n, r, [g.mem EXCEPT !.dev = dev], Call(g, next), Later(n, r, g))
    BY <1>4 DEF SetDeviceState
  <2> HIDE DEF g
  <2>2. [g.mem EXCEPT !.dev = dev] \in Storage BY <1>0 DEF Storage
  <2>3. Call(g, next) \in Goroutines /\ Shape(n, ops, Call(g, next)) /\ Handled(g, Call(g, next))
    BY <1>0, <1>1, CallType, CallShape
  <2> QED BY <1>0, <1>3, <2>1, <2>2, <2>3, UpdateShape DEF g
<1>5. ASSUME NEW sub, NEW new \in Storage, NEW worst \in Storage, CallDevice(n, r, sub, new, worst)
      PROVE  \E h : Handles(n, r, h)
  <2>1. \/ StorageUpdate(n, r, new, Return(n, r, g), Later(n, r, g))
        \/ Become(n, r, Failing(n, r, [g EXCEPT !.mem = worst]))
    BY <1>5 DEF CallDevice
  <2> HIDE DEF g
  <2>2. CASE StorageUpdate(n, r, new, Return(n, r, g), Later(n, r, g))
    BY <1>0, <1>3, <2>2, UpdateShape DEF g
  <2>3. CASE Become(n, r, Failing(n, r, [g EXCEPT !.mem = worst]))
    <3> DEFINE w == [g EXCEPT !.mem = worst]
    <3>1. w \in Goroutines /\ Shape(n, ops, w) BY <1>0, ShapeOfMem
    <3>2. w.pc = "call" /\ w.st = g.st BY <1>0, <1>1 DEF Goroutines
    <3> HIDE DEF w
    <3>3. /\ Failing(n, r, w) \in Goroutines /\ Shape(n, ops, Failing(n, r, w))
          /\ Handled(g, Failing(n, r, w))
      BY <3>1, <3>2, LaterShape, LaterType DEF Handled
    <3> QED BY <2>3, <3>3 DEF Handles, Goes, w, g
  <2> QED BY <2>1, <2>2, <2>3
<1>6. CASE FormatStorage(n, r)
  <2> DEFINE dev == IF Has(r, "USE") THEN "OPENING" ELSE "UNUSED"
             o == [g.mem EXCEPT !.media = "FORMATTED", !.dev = dev]
             w == [g.mem EXCEPT !.media = "UNFORMATTED"]
  <2>1. \/ SetDeviceState(n, r, "setFormatting", "FORMATTING", "formatDevice")
        \/ CallDevice(n, r, "formatDevice", o, w)
    BY <1>6 DEF FormatStorage
  <2>2. dev \in {"OPENING", "UNUSED"} OBVIOUS
  <2>3. o \in Storage /\ w \in Storage
    <3> HIDE DEF dev, g
    <3> QED BY <1>0, <2>2 DEF Storage
  <2> HIDE DEF o, w
  <2> QED BY <1>1, <1>2, <1>4, <1>5, <2>1, <2>3 DEF Subs
<1>7. CASE UseStorage(n, r)
  <2> DEFINE o == [g.mem EXCEPT !.dev = "OPEN"]
  <2>1. \/ SetDeviceState(n, r, "setOpening", "OPENING", "useDevice")
        \/ CallDevice(n, r, "useDevice", o, g.mem)
    BY <1>7 DEF UseStorage
  <2>2. o \in Storage BY <1>0 DEF Storage
  <2> HIDE DEF o
  <2> QED BY <1>0, <1>1, <1>2, <1>4, <1>5, <2>1, <2>2 DEF Subs
<1>8. CASE CloseStorage(n, r)
  <2> DEFINE o == [g.mem EXCEPT !.dev = "UNUSED"]
  <2>1. \/ SetDeviceState(n, r, "setClosing", "CLOSING", "closeDevice")
        \/ CallDevice(n, r, "closeDevice", o, g.mem)
    BY <1>8 DEF CloseStorage
  <2>2. o \in Storage BY <1>0 DEF Storage
  <2> HIDE DEF o
  <2> QED BY <1>0, <1>1, <1>2, <1>4, <1>5, <2>1, <2>2 DEF Subs
<1> QED BY <1>6, <1>7, <1>8 DEF DeviceStep

\* agentd hands the undo of an ATTACH back to centrald, once: then its
\* goroutine ends.
LEMMA ShapeHandBack ==
    ASSUME Inv1, NEW n \in Node, NEW r \in SR, HandBack(n, r)
    PROVE  /\ KeepsRequests /\ UNCHANGED <<cleanup, stg, vol>> /\ Running(n, r) /\ G(n, r).pc = "handback"
           /\ \/ /\ Goes(n, r, Idle)
                 /\ UNCHANGED req \/ (Active(r) /\ req' = [req EXCEPT ![r].st = "UNDO_ATTACHING"])
              \/ ~Active(r) /\ UNCHANGED req /\ \E h : Goes(n, r, h) /\ SameWork(G(n, r), h)
<1> DEFINE g == G(n, r)
           ops == req[r].ops
<1>0. /\ n \in Daemon /\ n # C /\ g \in Goroutines /\ Shape(n, ops, g)
  <2>1. n \in Daemon /\ n # C BY CentralIs DEF C
  <2> QED BY <2>1, GoType DEF Inv1, Shaped
<1>1. /\ g.pc = "handback" /\ UNCHANGED <<cleanup, stg, vol>>
      /\ \/ Become(n, r, Idle) /\ (UNCHANGED req \/ (Active(r) /\ req' = [req EXCEPT ![r].st = "UNDO_ATTACHING"]))
         \/ ~Active(r) /\ UNCHANGED req /\ Become(n, r, [g EXCEPT !.pc = "reset"])
  BY DEF HandBack
<1>2. KeepsRequests
  <2>1. CASE UNCHANGED req BY <2>1 DEF KeepsRequests
  <2>2. CASE Active(r) /\ req' = [req EXCEPT ![r].st = "UNDO_ATTACHING"]
    <3>1. req \in [SR -> Requests] /\ req[r].st # None /\ "UNDO_ATTACHING" # None
      BY <2>2 DEF Inv1, TypeOK, Active, None
    <3>2. \A q \in SR : req'[q] = IF q = r THEN [req[r] EXCEPT !.st = "UNDO_ATTACHING"] ELSE req[q]
      BY <2>2, <3>1
    <3>3. req'[r].ops = req[r].ops /\ req'[r].st = "UNDO_ATTACHING"
      BY <3>1, <3>2 DEF Requests
    <3> QED BY <3>1, <3>2, <3>3 DEF KeepsRequests
  <2> QED BY <1>1, <2>1, <2>2
<1> HIDE DEF g
<1>3. Idle \in Goroutines /\ Shape(n, ops, Idle) BY IdleType DEF Shape, Idle
<1> DEFINE h == [g EXCEPT !.pc = "reset"]
<1>4. h \in Goroutines /\ Shape(n, ops, h) /\ SameWork(g, h)
  <2>1. /\ h \in Goroutines /\ h.pc = "reset" /\ (h.retry <=> g.retry) /\ (h.back <=> g.back)
        /\ (h.err <=> g.err) /\ (h.late <=> g.late) /\ h.st = g.st /\ h.sid = g.sid
        /\ h.sub = g.sub
    BY <1>0 DEF Goroutines
  <2> HIDE DEF h
  <2>2. Shape(n, ops, h) BY <1>0, <1>1, <2>1 DEF Shape, Fails
  <2> QED BY <2>1, <2>2 DEF SameWork
<1> HIDE DEF h
<1>5. Become(n, r, [g EXCEPT !.pc = "reset"]) => Goes(n, r, h) BY <1>4 DEF Goes, h
<1>6. Become(n, r, Idle) => Goes(n, r, Idle) BY <1>3 DEF Goes
<1>7. Running(n, r) /\ G(n, r).pc = "handback" BY <1>1 DEF Running, g
<1>8. SameWork(G(n, r), h) BY <1>4 DEF g
<1>9. CASE Become(n, r, Idle) /\ (UNCHANGED req \/ (Active(r) /\ req' = [req EXCEPT ![r].st = "UNDO_ATTACHING"]))
  BY <1>1, <1>2, <1>6, <1>7, <1>9
<1>10. CASE ~Active(r) /\ UNCHANGED req /\ Become(n, r, [g EXCEPT !.pc = "reset"])
  BY <1>1, <1>2, <1>5, <1>7, <1>8, <1>10
<1> QED BY <1>1, <1>9, <1>10

\* agentd resets the state of the device before it ends a request that has
\* failed.
LEMMA ShapeReset ==
    ASSUME Inv1, NEW n \in Node, NEW r \in SR, ResetDevice(n, r)
    PROVE  /\ KeepsRequests /\ UNCHANGED <<req, cleanup, vol>> /\ Running(n, r) /\ G(n, r).pc = "reset"
           /\ \E h : Goes(n, r, h) /\ SameWork(G(n, r), h) /\ h.pc = "final"
<1> DEFINE g == G(n, r)
           ops == req[r].ops
           dev == IF Has(r, "CLOSE") THEN "OPEN" ELSE "UNUSED"
           new == [g.mem EXCEPT !.dev = dev]
           h == [g EXCEPT !.pc = "final"]
<1>0. /\ n \in Daemon /\ g \in Goroutines /\ g.mem \in Storage /\ Shape(n, ops, g)
  <2>1. n \in Daemon BY CentralIs DEF C
  <2>2. g \in Goroutines /\ Shape(n, ops, g) BY <2>1, GoType DEF Inv1, Shaped
  <2> QED BY <2>1, <2>2 DEF Goroutines
<1>1. /\ StorageUpdate(n, r, new, h, h) /\ g.pc = "reset" /\ UNCHANGED <<req, cleanup, vol>>
  BY DEF ResetDevice
<1>2. Running(n, r) /\ G(n, r).pc = "reset" /\ KeepsRequests
  BY <1>1 DEF Running, KeepsRequests
<1> HIDE DEF g
<1>3. new \in Storage
  <2>1. dev \in {"OPEN", "UNUSED"} OBVIOUS
  <2> HIDE DEF dev
  <2> QED BY <1>0, <2>1 DEF Storage
<1>4. h \in Goroutines /\ h.pc = "final" /\ SameWork(g, h)
  BY <1>0 DEF Goroutines, SameWork
<1> HIDE DEF new, h
<1>5. Shape(n, ops, h) BY <1>0, <1>1, <1>4 DEF Shape, SameWork
<1>6. PICK k : Goes(n, r, k) /\ (Alike(k, h) \/ k = h) /\ k.sid = h.sid
  BY <1>0, <1>1, <1>3, <1>4, <1>5, UpdateGoes DEF g
<1>7. SameWork(G(n, r), k) /\ k.pc = "final" BY <1>4, <1>6 DEF SameWork, Alike, g
<1> QED BY <1>1, <1>2, <1>6, <1>7

\* No goroutine has every shape.
LEMMA IdleShape == \A d, ops : Shape(d, ops, Idle)
BY DEF Shape, Idle

(* A request that is written keeps its operations.                         *)
LEMMA WritingKeeps ==
    ASSUME Inv1, NEW d, NEW r \in SR, NEW g, NEW st, st # None, req[r].st # None,
           req' = [req EXCEPT ![r] = Written(d, r, g, st)]
    PROVE  KeepsRequests
<1>1. req \in [SR -> Requests] BY DEF Inv1, TypeOK
<1>2. Written(d, r, g, st).ops = req[r].ops /\ Written(d, r, g, st).st = st
  BY <1>1 DEF Requests, Written
<1> QED BY <1>1, <1>2 DEF KeepsRequests

(* What is left of a goroutine that could not write its state.             *)
LEMMA UnwrittenShape ==
    ASSUME NEW d, NEW ops, NEW g \in Goroutines, g.pc = "next", g.todo # <<>>, ~g.retry,
           Shape(d, ops, g), NEW err \in BOOLEAN, NEW retry \in BOOLEAN,
           g.err => err, ~g.err /\ retry => ~err,
           NEW h, h = [g EXCEPT !.err = err, !.retry = retry, !.todo = <<>>,
                                !.pc = IF g.back THEN "next" ELSE "turn"]
    PROVE  h \in Goroutines /\ Shape(d, ops, h) /\ (err \/ retry => Stopped(g, h))
<1> DEFINE pc == IF g.back THEN "next" ELSE "turn"
<1>1. ASSUME NEW nil \in Seq(States)
      PROVE  [g EXCEPT !.err = err, !.retry = retry, !.todo = nil, !.pc = pc] \in Goroutines
  <2>1. pc \in {"next", "turn"} OBVIOUS
  <2> HIDE DEF pc
  <2> QED BY <1>1, <2>1 DEF Goroutines
<1>2. <<>> \in Seq(States) OBVIOUS
<1>3. h \in Goroutines BY <1>1, <1>2
<1>4. /\ h.pc = pc /\ (h.err <=> err) /\ (h.retry <=> retry) /\ h.todo = <<>>
      /\ h.undo = g.undo /\ (h.late <=> g.late) /\ (h.back <=> g.back) /\ (h.noid <=> g.noid)
      /\ h.st = g.st /\ h.sid = g.sid /\ h.mem = g.mem /\ h.sub = g.sub
  BY DEF Goroutines
<1>5. Lists(d, ops, g) BY DEF Shape
<1>6. Lists(d, ops, h) BY <1>4, <1>5, OnlyEmpty DEF Lists, Fails
<1>7. ~g.back => ~Fails(g) BY DEF Shape
<1>8. Shape(d, ops, h) BY <1>4, <1>6, <1>7 DEF Shape, Fails
<1>9. err \/ retry => Stopped(g, h) BY <1>4 DEF Stopped
<1> QED BY <1>3, <1>8, <1>9

\* requestAnimator goes on to the next state: it is entered, or the loop ends
\* with an error or to be retried.
LEMMA ShapeNext ==
    ASSUME Inv1, NEW d \in Daemon, NEW r \in SR, NextState(d, r)
    PROVE  /\ \E h : Goes(d, r, h) /\ NextIs(d, r, h)
           /\ KeepsRequests /\ UNCHANGED <<cleanup, stg, vol>> /\ Running(d, r)
<1> DEFINE g == G(d, r)
           ops == req[r].ops
           st == Head(g.todo)
<1>0. /\ g \in Goroutines /\ Shape(d, ops, g) /\ TypeOK BY GoType DEF Inv1, Shaped
<1>1. g.pc = "next" /\ g.todo # <<>> /\ ~g.retry /\ UNCHANGED <<cleanup, stg, vol>>
  BY DEF NextState
<1>2. Running(d, r) /\ req[r].st # None BY <1>1 DEF Running, Inv1, Shaped
<1>3. g.todo \in Seq(States) /\ st \in States /\ st # None
  <2>1. g.todo \in Seq(States) BY <1>0 DEF Goroutines
  <2>2. st \in States BY <1>1, <2>1
  <2> HIDE DEF st
  <2> QED BY <2>1, <2>2 DEF States, Terminal, None
<1>4. CASE Become(d, r, EnterState(d, r, g, st)) /\ UNCHANGED req /\ st = g.st
  <2>1. /\ EnterState(d, r, g, st) \in Goroutines /\ Shape(d, ops, EnterState(d, r, g, st))
        /\ Entered(d, r, g, st, EnterState(d, r, g, st))
    <3> HIDE DEF g, st
    <3> QED BY <1>0, <1>1, <1>3, EnterStateType, EnterShape, EnterIs DEF st
  <2>2. NextIs(d, r, EnterState(d, r, g, st)) BY <1>4, <2>1 DEF NextIs
  <2> QED BY <1>1, <1>2, <1>4, <2>1, <2>2 DEF Goes, KeepsRequests
<1>5. CASE /\ st # g.st /\ Writable(d, r, g)
           /\ req' = [req EXCEPT ![r] = Written(d, r, g, st)]
           /\ Become(d, r, EnterState(d, r, [g EXCEPT !.node = req'[r].node], st))
  <2> DEFINE node == req'[r].node
             h == [g EXCEPT !.node = node]
  <2>1. KeepsRequests BY <1>2, <1>3, <1>5, WritingKeeps
  <2>2. req' \in [SR -> Requests] BY <1>0, <1>3, <1>5, WrittenType
  <2>3. node \in Node \cup {None} BY <2>2 DEF Requests
  <2> HIDE DEF node
  <2>4. h \in Goroutines /\ Alike(g, h) /\ h.todo = g.todo /\ h.sid = g.sid /\ h.mem = g.mem
    BY <1>0, <2>3 DEF Goroutines, Alike
  <2>5. Shape(d, ops, h) /\ h.pc = "next" BY <1>0, <1>1, <2>4, ShapeOfCopy DEF Alike
  <2> HIDE DEF h
  <2>6. /\ EnterState(d, r, h, st) \in Goroutines /\ Shape(d, ops, EnterState(d, r, h, st))
        /\ Entered(d, r, h, st, EnterState(d, r, h, st))
    BY <1>0, <1>1, <1>3, <2>4, <2>5, EnterStateType, EnterShape, EnterIs
  <2>7. Entered(d, r, g, st, EnterState(d, r, h, st))
    BY <2>4, <2>6 DEF Entered, Alike
  <2>8. NextIs(d, r, EnterState(d, r, h, st)) BY <1>5, <2>7 DEF NextIs
  <2> QED BY <1>1, <1>2, <1>5, <2>1, <2>6, <2>8 DEF Goes, h, node
<1>6. ASSUME NEW err \in BOOLEAN, NEW retry \in BOOLEAN,
             g.err => err, ~g.err /\ retry => ~err, err \/ retry, UNCHANGED req,
             retry \/ ~Writable(d, r, g) \/ st \in AgentStates,
             Become(d, r, [g EXCEPT !.err = err, !.retry = retry, !.todo = <<>>,
                                    !.pc = IF g.back THEN "next" ELSE "turn"])
      PROVE  (\E h : Goes(d, r, h) /\ NextIs(d, r, h)) /\ KeepsRequests
  <2> DEFINE h == [g EXCEPT !.err = err, !.retry = retry, !.todo = <<>>,
                                    !.pc = IF g.back THEN "next" ELSE "turn"]
  <2>1. h \in Goroutines /\ Shape(d, ops, h) /\ Stopped(g, h)
    BY <1>0, <1>1, <1>6, UnwrittenShape
  <2>0. h.retry <=> retry BY <1>0 DEF Goroutines
  <2>2. Become(d, r, h) BY <1>6
  <2> HIDE DEF h
  <2> QED BY <1>6, <2>0, <2>1, <2>2 DEF Goes, KeepsRequests, NextIs
<1>7. CASE /\ Become(d, r, [g EXCEPT !.err = TRUE, !.todo = <<>>, !.pc = IF g.back THEN "next" ELSE "turn"])
           /\ UNCHANGED req /\ ~Writable(d, r, g)
  <2>1. [g EXCEPT !.err = TRUE, !.todo = <<>>, !.pc = IF g.back THEN "next" ELSE "turn"]
        = [g EXCEPT !.err = TRUE, !.retry = FALSE, !.todo = <<>>, !.pc = IF g.back THEN "next" ELSE "turn"]
    BY <1>0, <1>1 DEF Goroutines
  <2>2. Become(d, r, [g EXCEPT !.err = TRUE, !.retry = FALSE, !.todo = <<>>, !.pc = IF g.back THEN "next" ELSE "turn"])
    BY <1>7, <2>1
  <2> HIDE DEF g
  <2> QED BY <1>1, <1>2, <1>6, <1>7, <2>2
<1>8. CASE /\ UNCHANGED req
           /\ \E e \in BOOLEAN :
                /\ e => st \in AgentStates
                /\ Become(d, r, [g EXCEPT !.err = @ \/ e, !.retry = ~e, !.todo = <<>>,
                                          !.pc = IF g.back THEN "next" ELSE "turn"])
  <2>1. PICK e \in BOOLEAN :
                /\ e => st \in AgentStates
                /\ Become(d, r, [g EXCEPT !.err = g.err \/ e, !.retry = ~e, !.todo = <<>>,
                                          !.pc = IF g.back THEN "next" ELSE "turn"])
    BY <1>8
  <2> DEFINE err == g.err \/ e
             retry == ~e
  <2>2. err \in BOOLEAN /\ retry \in BOOLEAN /\ (g.err => err) /\ (~g.err /\ retry => ~err)
        /\ (err \/ retry) /\ (retry \/ st \in AgentStates)
    BY <1>0, <2>1 DEF Goroutines
  <2>3. Become(d, r, [g EXCEPT !.err = err, !.retry = retry, !.todo = <<>>,
                                       !.pc = IF g.back THEN "next" ELSE "turn"])
    BY <2>1
  <2> HIDE DEF g, err, retry
  <2> QED BY <1>1, <1>2, <1>6, <1>8, <2>2, <2>3
<1>9. \/ Become(d, r, EnterState(d, r, g, st)) /\ UNCHANGED req /\ st = g.st
      \/ /\ st # g.st /\ Writable(d, r, g)
         /\ req' = [req EXCEPT ![r] = Written(d, r, g, st)]
         /\ Become(d, r, EnterState(d, r, [g EXCEPT !.node = req'[r].node], st))
      \/ /\ Become(d, r, [g EXCEPT !.err = TRUE, !.todo = <<>>, !.pc = IF g.back THEN "next" ELSE "turn"])
         /\ UNCHANGED req /\ ~Writable(d, r, g)
      \/ /\ UNCHANGED req
         /\ \E e \in BOOLEAN :
                /\ e => st \in AgentStates
                /\ Become(d, r, [g EXCEPT !.err = @ \/ e, !.retry = ~e, !.todo = <<>>,
                                          !.pc = IF g.back THEN "next" ELSE "turn"])
  BY DEF NextState
<1> QED BY <1>4, <1>5, <1>7, <1>8, <1>9

\* The end of a loop of an animator keeps the shape.
LEMMA FinishShape ==
    ASSUME NEW d, NEW r, NEW ops, NEW g \in Goroutines,
           d # C /\ Fails(g) => ~g.back
    PROVE  /\ Finish(d, r, g) \in Goroutines /\ Shape(d, ops, Finish(d, r, g))
           /\ g.retry => Finish(d, r, g) = Idle
           /\ ~g.retry =>
                 LET h == Finish(d, r, g) IN
                 /\ Kept(g, h) /\ (h.back <=> g.back)
                 /\ h.pc = IF d # C /\ Fails(g) /\ ~Has(r, "REATTACH") THEN "reset" ELSE "final"
<1> DEFINE h == Finish(d, r, g)
<1>1. h \in Goroutines BY FinishType
<1>2. CASE g.retry BY <1>1, <1>2, IdleShape DEF Finish
<1>3. CASE ~g.retry
  <2>1. /\ h.pc = IF d # C /\ Fails(g) /\ ~Has(r, "REATTACH") THEN "reset" ELSE "final"
        /\ (h.retry <=> g.retry) /\ (h.back <=> g.back) /\ (h.err <=> g.err) /\ (h.late <=> g.late)
        /\ (h.noid <=> g.noid) /\ h.st = g.st /\ h.sid = g.sid /\ h.mem = g.mem
        /\ h.sub = g.sub
    BY <1>3 DEF Finish, Goroutines, C, Fails
  <2> HIDE DEF h
  <2>2. Shape(d, ops, h) BY <1>3, <2>1 DEF Shape, Fails
  <2>3. Kept(g, h) BY <2>1 DEF Kept
  <2> QED BY <1>1, <1>3, <2>1, <2>2, <2>3 DEF h
<1> QED BY <1>2, <1>3

\* From the forward loop to the backward one, or to the end of the request.
LEMMA ShapeTurn ==
    ASSUME Inv1, NEW d \in Daemon, NEW r \in SR, Turn(d, r)
    PROVE  /\ \E h : Goes(d, r, h) /\ TurnIs(d, r, h)
           /\ KeepsRequests /\ UNCHANGED <<req, cleanup, stg, vol>> /\ Running(d, r)
<1> DEFINE g == G(d, r)
           ops == req[r].ops
           n == Len(g.undo)
           failing == g.err \/ g.late
           rev == [i \in 1..n |-> g.undo[n + 1 - i]]
           h1 == [g EXCEPT !.pc = "next", !.back = TRUE, !.todo = rev, !.undo = <<>>]
           h2 == [g EXCEPT !.pc = "handback"]
           h3 == [g EXCEPT !.pc = "turn"]
<1>0. /\ g \in Goroutines /\ Shape(d, ops, g) /\ g.undo \in Seq(States)
  <2>1. /\ g \in Goroutines /\ Shape(d, ops, g) BY GoType DEF Inv1, Shaped
  <2> QED BY <2>1 DEF Goroutines
<1>1. g.pc \in {"turn", "next"} /\ UNCHANGED <<req, cleanup, stg, vol>> BY DEF Turn
<1>2. Running(d, r) /\ KeepsRequests BY <1>1 DEF Running, KeepsRequests
<1>3. \/ /\ g.pc = "turn"
         /\ \/ d = C /\ failing /\ ~g.retry /\ n > 0 /\ Become(d, r, h1)
            \/ d # C /\ failing /\ Has(r, "ATTACH") /\ Become(d, r, h2)
            \/ /\ d = C => ~failing \/ g.retry \/ ~(n > 0)
               /\ d # C => ~(failing /\ Has(r, "ATTACH"))
               /\ Become(d, r, Finish(d, r, g))
      \/ /\ g.pc = "next" /\ (g.todo = <<>> \/ g.retry)
         /\ \/ g.back /\ Become(d, r, Finish(d, r, g))
            \/ ~g.back /\ Become(d, r, h3)
  BY DEF Turn, C
<1> HIDE DEF g, failing, rev
<1>4. CASE g.pc = "turn" /\ d = C /\ failing /\ ~g.retry /\ n > 0 /\ Become(d, r, h1)
  <2>1. rev \in Seq(States) /\ (Only(g.undo, Undoing \cap Serving(ops)) => Only(rev, Undoing \cap Serving(ops)))
    BY <1>0, OnlyReversed DEF rev
  <2>9. /\ \A S : Only(g.undo, S) => Only(rev, S)
        /\ \A st : Includes(g.undo, st) => Includes(rev, st)
    BY <1>0, OnlyReversed DEF rev
  <2>2. ASSUME NEW nil \in Seq(States)
        PROVE  [g EXCEPT !.pc = "next", !.back = TRUE, !.todo = rev, !.undo = nil] \in Goroutines
    BY <1>0, <2>1, <2>2 DEF Goroutines
  <2>3. <<>> \in Seq(States) OBVIOUS
  <2>4. h1 \in Goroutines BY <2>2, <2>3
  <2>5. /\ h1.pc = "next" /\ h1.back = TRUE /\ h1.todo = rev /\ h1.undo = <<>>
        /\ (h1.err <=> g.err) /\ (h1.late <=> g.late) /\ (h1.noid <=> g.noid)
        /\ (h1.retry <=> g.retry) /\ h1.st = g.st /\ h1.sid = g.sid /\ h1.mem = g.mem /\ h1.sub = g.sub
    BY <1>0 DEF Goroutines
  <2> HIDE DEF h1
  <2>6. Lists(d, ops, g) BY <1>0, <1>4 DEF Shape
  <2>7. Lists(d, ops, h1)
    BY <1>4, <2>1, <2>5, <2>6, OnlyEmpty DEF Lists, Fails, failing
  <2>8. Shape(d, ops, h1) BY <2>5, <2>7 DEF Shape
  <2>10. TurnIs(d, r, h1)
    <3>1. Kept(g, h1) BY <2>5 DEF Kept
    <3>2. TurnsBack(d, g, h1) BY <1>4, <2>5, <2>9 DEF TurnsBack, Fails, failing
    <3> QED BY <3>1, <3>2 DEF TurnIs, g
  <2> QED BY <1>1, <1>2, <1>4, <2>4, <2>8, <2>10 DEF Goes
<1>5. CASE g.pc = "turn" /\ d # C /\ failing /\ Has(r, "ATTACH") /\ Become(d, r, h2)
  <2>1. /\ h2 \in Goroutines /\ h2.pc = "handback" /\ (h2.back <=> g.back) /\ (h2.retry <=> g.retry)
        /\ (h2.err <=> g.err) /\ (h2.late <=> g.late) /\ (h2.noid <=> g.noid)
        /\ h2.st = g.st /\ h2.sid = g.sid /\ h2.mem = g.mem /\ h2.sub = g.sub
    BY <1>0 DEF Goroutines
  <2> HIDE DEF h2
  <2>2. Shape(d, ops, h2) BY <1>0, <1>5, <2>1 DEF Shape, Fails, failing, Has
  <2>3. TurnIs(d, r, h2)
    <3>1. Kept(g, h2) BY <2>1 DEF Kept
    <3>2. HandsBack(d, r, g, h2) BY <1>5, <2>1 DEF HandsBack, Fails, failing
    <3> QED BY <3>1, <3>2 DEF TurnIs, g
  <2> QED BY <1>1, <1>2, <1>5, <2>1, <2>2, <2>3 DEF Goes
<1>6. CASE /\ Become(d, r, Finish(d, r, g))
           /\ \/ /\ g.pc = "turn"
                 /\ d = C => ~failing \/ g.retry \/ ~(n > 0)
                 /\ d # C => ~(failing /\ Has(r, "ATTACH"))
              \/ g.pc = "next" /\ (g.todo = <<>> \/ g.retry) /\ g.back
  <2>1. g.pc = "turn" => ~g.back BY <1>0 DEF Shape
  <2>2. g.back => d = C BY <1>0, <1>1, <2>1 DEF Shape, Lists
  <2> DEFINE h == Finish(d, r, g)
  <2>3. /\ h \in Goroutines /\ Shape(d, ops, h)
        /\ g.retry => h = Idle
        /\ ~g.retry => /\ Kept(g, h) /\ (h.back <=> g.back)
                       /\ h.pc = IF d # C /\ Fails(g) /\ ~Has(r, "REATTACH") THEN "reset" ELSE "final"
    BY <1>0, <2>2, FinishShape
  <2> HIDE DEF h
  <2>4. TurnIs(d, r, h)
    <3>1. n \in Nat BY <1>0
    <3>2. ~g.retry => Ends(d, r, g, h) BY <1>6, <2>3, <3>1 DEF Ends, Fails, failing
    <3> QED BY <2>3, <3>2 DEF TurnIs, g
  <2> QED BY <1>1, <1>2, <1>6, <2>3, <2>4 DEF Goes, h
<1>7. CASE g.pc = "next" /\ ~g.back /\ (g.todo = <<>> \/ g.retry) /\ Become(d, r, h3)
  <2>1. /\ h3 \in Goroutines /\ h3.pc = "turn" /\ (h3.back <=> g.back) /\ (h3.retry <=> g.retry)
        /\ (h3.err <=> g.err) /\ (h3.late <=> g.late) /\ (h3.noid <=> g.noid)
        /\ h3.todo = g.todo /\ h3.undo = g.undo
        /\ h3.st = g.st /\ h3.sid = g.sid /\ h3.mem = g.mem /\ h3.sub = g.sub
    BY <1>0 DEF Goroutines
  <2> HIDE DEF h3
  <2>2. Lists(d, ops, h3) /\ ~Fails(g) BY <1>0, <1>7, <2>1 DEF Shape, Fails, Lists
  <2>3. Shape(d, ops, h3) BY <1>7, <2>1, <2>2 DEF Shape, Fails
  <2>4. TurnIs(d, r, h3)
    <3>1. Kept(g, h3) BY <2>1 DEF Kept
    <3>2. Turns(g, h3) BY <1>7, <2>1 DEF Turns
    <3> QED BY <3>1, <3>2 DEF TurnIs, g
  <2> QED BY <1>1, <1>2, <1>7, <2>1, <2>3, <2>4 DEF Goes
<1> QED BY <1>3, <1>4, <1>5, <1>6, <1>7

\* The last update of a request ends its goroutine.
LEMMA ShapeTerminal ==
    ASSUME Inv1, NEW d \in Daemon, NEW r \in SR, EnterTerminal(d, r)
    PROVE  /\ Goes(d, r, Idle) /\ G(d, r).pc = "final"
           /\ KeepsRequests /\ UNCHANGED <<cleanup, stg, vol>> /\ Running(d, r)
           /\ \/ UNCHANGED req
              \/ /\ Writable(d, r, G(d, r))
                 /\ \E st \in {"FAILED", "SUCCEEDED"} : EndsAs(d, r, G(d, r), st)
<1> DEFINE g == G(d, r)
<1>1. g.pc = "final" /\ Become(d, r, Idle) /\ UNCHANGED <<cleanup, stg, vol>>
  BY DEF EnterTerminal
<1>2. \/ UNCHANGED req
      \/ /\ Active(r) /\ Writable(d, r, g)
         /\ \E st \in {"FAILED", "SUCCEEDED"} : EndsAs(d, r, g, st)
  <2>1. \/ UNCHANGED req
        \/ /\ Writable(d, r, g)
           /\ req' = [req EXCEPT ![r] = Written(d, r, g, IF Fails(g) THEN "FAILED" ELSE "SUCCEEDED")]
    BY DEF EnterTerminal, Fails
  <2>2. Writable(d, r, g) => Active(r) BY DEF Writable
  <2>3. CASE Fails(g) /\ ~UNCHANGED req
    <3>1. EndsAs(d, r, g, "FAILED") /\ Writable(d, r, g) BY <2>1, <2>3 DEF EndsAs
    <3> QED BY <2>2, <3>1
  <2>4. CASE ~Fails(g) /\ ~UNCHANGED req
    <3>1. EndsAs(d, r, g, "SUCCEEDED") /\ Writable(d, r, g) BY <2>1, <2>4 DEF EndsAs
    <3> QED BY <2>2, <3>1
  <2> QED BY <2>3, <2>4
<1>3. KeepsRequests
  <2> HIDE DEF g
  <2>1. CASE UNCHANGED req BY <2>1 DEF KeepsRequests
  <2>2. CASE Active(r) /\ ~(UNCHANGED req)
    <3>1. PICK st \in {"FAILED", "SUCCEEDED"} : req' = [req EXCEPT ![r] = Written(d, r, g, st)]
      BY <1>2, <2>2 DEF EndsAs
    <3>2. st # None /\ req[r].st # None BY <2>2 DEF Active, None
    <3> QED BY <3>1, <3>2, WritingKeeps
  <2> QED BY <1>2, <2>1, <2>2
<1> QED
  <2>1. Goes(d, r, Idle) /\ Running(d, r)
    BY <1>1, IdleType, IdleShape DEF Goes, Running
  <2> QED BY <1>1, <1>2, <1>3, <2>1

\* The members of a list are in the set it is a list over.
LEMMA OnlySeq ==
    ASSUME NEW S, NEW q \in Seq(S)
    PROVE  Only(q, S)
BY DEF Only

\* A list over a set is a list over a larger one.
LEMMA SeqSub ==
    ASSUME NEW S, NEW T, S \subseteq T, NEW q \in Seq(S)
    PROVE  q \in Seq(T)
OBVIOUS

\* PROVISIONING stays first in a list that other states are appended to.
LEMMA StartsConcat ==
    ASSUME NEW S, NEW c, NEW a, Starts(a, S, c), NEW b \in Seq(S \ {"PROVISIONING"})
    PROVE  Starts(a \o b, S, c)
<1> DEFINE P == S \ {"PROVISIONING"}
<1>1. a \in Seq(S) /\ b \in Seq(S) /\ b \in Seq(P) /\ P \subseteq S
  BY SeqSub DEF Starts
<1>2. a \o b \in Seq(S) BY <1>1, ConcatType
<1>3. CASE a = <<>>
  <2>1. a \o b = b BY <1>1, <1>3
  <2>2. b # <<>> => Only(Tail(b), P) /\ Head(b) \in P BY <1>1, OnlySeq, OnlyTail
  <2> QED BY <1>1, <2>1, <2>2 DEF Starts
<1>4. CASE a # <<>>
  <2>1. /\ a \o b # <<>> /\ Head(a \o b) = Head(a) /\ Tail(a \o b) = Tail(a) \o b
        /\ Tail(a) \in Seq(S)
    BY <1>1, <1>4
  <2>2. Only(Tail(a), P) /\ Only(b, P) BY <1>1, <1>4, OnlySeq DEF Starts
  <2>3. Only(Tail(a) \o b, P) BY <1>1, <2>1, <2>2, OnlyConcat
  <2> QED BY <1>2, <1>4, <2>1, <2>3 DEF Starts
<1> QED BY <1>3, <1>4

(* What centrald puts on its list serves the request, and it only creates  *)
(* storage as the first thing.                                             *)
LEMMA CentralTodoServes ==
    ASSUME NEW r, NEW o, req[r].ops \in Plans
    PROVE  /\ Only(CentralTodo(r, o), Serving(req[r].ops) \ Undoing)
           /\ CentralTodo(r, o) # <<>> =>
                 /\ ~Includes(Tail(CentralTodo(r, o)), "PROVISIONING")
                 /\ Head(CentralTodo(r, o)) = "PROVISIONING" => Order(req[r].st) <= 1
<1> DEFINE S == Serving(req[r].ops) \ Undoing
           P == S \ {"PROVISIONING"}
           n == Order(req[r].st)
           s0 == IF Has(r, "REATTACH") THEN CentralReattach(r, o) ELSE <<>>
           s1 == When(Has(r, "PROVISION") /\ n <= 1, "PROVISIONING")
           s2 == When(Has(r, "ATTACH") /\ n <= 2, "ATTACHING")
           s3 == When(Has(r, "FORMAT") /\ n <= 3, "FORMATTING")
           s4 == When(Has(r, "USE") /\ ~Has(r, "FORMAT") /\ n <= 4, "USING")
           s5 == When(Has(r, "CLOSE") /\ n <= 5, "CLOSING")
           s6 == When(Has(r, "DETACH") /\ n <= 6, "DETACHING")
           s7 == When(Has(r, "RELEASE") /\ n <= 7, "RELEASING")
           s8 == When(Has(r, "PROVISION") /\ n <= 7, "REMOVING_TAG")
<1>1. s0 \in Seq(P)
  <2>1. CASE Has(r, "REATTACH")
    <3>1. {"ATTACHING", "USING", "CLOSING", "DETACHING", "REATTACHING"} \subseteq P
      BY <2>1 DEF Serving, Undoing, States, Has
    <3> DEFINE w == When(req[r].node # req[r].target, "REATTACHING")
    <3> HIDE DEF P
    <3>2. w \in Seq(P) BY <3>1, WhenType
    <3>3. <<"ATTACHING", "USING">> \in Seq(P) BY <3>1
    <3>4. w \o <<"ATTACHING", "USING">> \in Seq(P) BY <3>2, <3>3, ConcatType
    <3>5. /\ <<"USING">> \in Seq(P) /\ <<"CLOSING">> \in Seq(P)
          /\ <<"DETACHING", "REATTACHING", "ATTACHING", "USING">> \in Seq(P)
      BY <3>1
    <3> QED BY <2>1, <3>4, <3>5 DEF CentralReattach
  <2>2. CASE ~Has(r, "REATTACH") BY <2>2
  <2> QED BY <2>1, <2>2
<1>2. /\ Has(r, "ATTACH") => "ATTACHING" \in P
      /\ Has(r, "FORMAT") => "FORMATTING" \in P
      /\ Has(r, "USE") => "USING" \in P
      /\ Has(r, "CLOSE") => "CLOSING" \in P
      /\ Has(r, "DETACH") => "DETACHING" \in P
      /\ Has(r, "RELEASE") => "RELEASING" \in P
      /\ Has(r, "PROVISION") => "REMOVING_TAG" \in P
      /\ Has(r, "PROVISION") => "PROVISIONING" \in S
  BY DEF Serving, Undoing, States, Has
<1>3. CentralTodo(r, o) = s0 \o s1 \o s2 \o s3 \o s4 \o s5 \o s6 \o s7 \o s8
  BY DEF CentralTodo
<1>4. Has(r, "PROVISION") => s0 = <<>> BY PlansAssumption DEF Families, Has
<1> HIDE DEF P
<1>5. /\ s2 \in Seq(P) /\ s3 \in Seq(P) /\ s4 \in Seq(P) /\ s5 \in Seq(P) /\ s6 \in Seq(P)
      /\ s7 \in Seq(P) /\ s8 \in Seq(P)
  BY <1>2, WhenType
<1>6. s1 = <<>> \/ (s1 = <<"PROVISIONING">> /\ Has(r, "PROVISION") /\ n <= 1)
  BY DEF When
<1> HIDE DEF s0, s1, s2, s3, s4, s5, s6, s7, s8
<1>7. P = S \ {"PROVISIONING"} BY DEF P
<1>8. Starts(s0 \o s1, S, n <= 1)
  <2>1. CASE s1 = <<>>
    <3>1. s0 \o s1 = s0 BY <1>1, <2>1
    <3>2. s0 \in Seq(S) /\ (s0 # <<>> => Only(Tail(s0), P) /\ Head(s0) \in P)
      BY <1>1, <1>7, OnlySeq, OnlyTail, SeqSub
    <3> QED BY <1>7, <3>1, <3>2 DEF Starts
  <2>2. CASE s1 = <<"PROVISIONING">> /\ Has(r, "PROVISION") /\ n <= 1
    <3>1. s0 \o s1 = <<"PROVISIONING">> BY <1>4, <2>2
    <3>2. <<"PROVISIONING">> \in Seq(S) /\ Tail(<<"PROVISIONING">>) = <<>>
      BY <1>2, <2>2
    <3> QED BY <2>2, <3>1, <3>2, OnlyEmpty DEF Starts
  <2> QED BY <1>6, <2>1, <2>2
<1> HIDE DEF S
<1>9. Starts(s0 \o s1 \o s2 \o s3 \o s4, S, n <= 1)
  BY <1>5, <1>7, <1>8, StartsConcat
<1>10. Starts(CentralTodo(r, o), S, n <= 1) BY <1>3, <1>5, <1>7, <1>9, StartsConcat
<1>11. Only(CentralTodo(r, o), S) BY <1>10, OnlySeq DEF Starts
<1>12. CentralTodo(r, o) # <<>> => ~Includes(Tail(CentralTodo(r, o)), "PROVISIONING")
  BY <1>10 DEF Starts, Only, Includes
<1> QED BY <1>10, <1>11, <1>12 DEF Starts, S

\* What centrald finds to undo in a request of an earlier run serves it; a
\* request in PROVISIONING or before has nothing to undo yet.
LEMMA CentralUndoServes ==
    ASSUME NEW r
    PROVE  /\ Only(CentralUndo(r), Undoing \cap Serving(req[r].ops))
           /\ Order(req[r].st) <= 1 => CentralUndo(r) = <<>>
<1> DEFINE n == Order(req[r].st)
           S == Undoing \cap Serving(req[r].ops)
           s1 == When(Has(r, "PROVISION") /\ n \in 2..10, "UNDO_PROVISIONING")
           s2 == When(Has(r, "ATTACH") /\ n \in 3..9, "UNDO_ATTACHING")
           s3 == When(Has(r, "DETACH") /\ n \in 7..8, "UNDO_DETACHING")
<1>1. /\ s1 \in Seq(S) /\ s2 \in Seq(S) /\ s3 \in Seq(S)
  <2>1. /\ Has(r, "PROVISION") => "UNDO_PROVISIONING" \in S
        /\ Has(r, "ATTACH") => "UNDO_ATTACHING" \in S
        /\ Has(r, "DETACH") => "UNDO_DETACHING" \in S
    BY DEF Serving, Undoing, States, Has
  <2> HIDE DEF S, n
  <2> QED BY <2>1, WhenType
<1>2. CentralUndo(r) = s1 \o s2 \o s3 BY DEF CentralUndo
<1>3. n \in Nat BY DEF Order
<1>4. n <= 1 => s1 = <<>> /\ s2 = <<>> /\ s3 = <<>>
  <2> HIDE DEF n
  <2> QED BY <1>3 DEF When
<1> HIDE DEF s1, s2, s3
<1>5. CentralUndo(r) \in Seq(S) BY <1>1, <1>2, ConcatType
<1>6. n <= 1 => CentralUndo(r) = <<>> BY <1>2, <1>4
<1> QED BY <1>5, <1>6, OnlySeq

\* agentd's list has states that serve the request, its own and those that hand
\* over.
LEMMA AgentTodoServes ==
    ASSUME NEW r, NEW n, NEW o, req[r].ops \in Plans
    PROVE  /\ Only(AgentTodo(r, n, o), Serving(req[r].ops) \ Undoing)
           /\ Only(AgentTodo(r, n, o), AgentStates \cup {"DETACHING", "REMOVING_TAG"})
           /\ ~Includes(AgentTodo(r, n, o), "PROVISIONING")
<1> DEFINE T == AgentStates \cup {"DETACHING", "REMOVING_TAG"}
           P == (Serving(req[r].ops) \ Undoing) \cap T
           k == AgentOrder(req[r].st)
           s1 == When(Has(r, "FORMAT") /\ k <= 1, "FORMATTING")
           s2 == When(Has(r, "USE") /\ k <= 2, "USING")
           s3 == When(Has(r, "CLOSE") /\ k <= 3, "CLOSING")
           s4 == When(Has(r, "CLOSE") /\ Has(r, "DETACH") /\ k <= 3, "DETACHING")
           s5 == When(Has(r, "PROVISION") /\ k <= 4, "REMOVING_TAG")
           s6 == When(o.dev \in {"OPENING", "UNUSED", "ERROR"}, "USING")
           s7 == When(o.dev # "UNUSED", "CLOSING")
<1>1. /\ Has(r, "FORMAT") => "FORMATTING" \in P
      /\ Has(r, "USE") => "USING" \in P
      /\ Has(r, "CLOSE") => "CLOSING" \in P
      /\ Has(r, "DETACH") => "DETACHING" \in P
      /\ Has(r, "PROVISION") => "REMOVING_TAG" \in P
      /\ Has(r, "REATTACH") => {"USING", "CLOSING", "DETACHING"} \subseteq P
  BY DEF Serving, Undoing, States, Has, AgentStates
<1>2. AgentReattach(r, n, o) \in {<<>>, s6, s7 \o <<"DETACHING">>}
  BY DEF AgentReattach
<1>3. AgentTodo(r, n, o) = IF Has(r, "REATTACH") THEN AgentReattach(r, n, o)
                           ELSE s1 \o s2 \o s3 \o s4 \o s5
  BY DEF AgentTodo
<1> HIDE DEF P, k
<1>4. /\ s1 \in Seq(P) /\ s2 \in Seq(P) /\ s3 \in Seq(P) /\ s4 \in Seq(P) /\ s5 \in Seq(P)
  BY <1>1, WhenType
<1>5. Has(r, "REATTACH") => s6 \in Seq(P) /\ s7 \in Seq(P) /\ <<"DETACHING">> \in Seq(P)
  BY <1>1, WhenType
<1> HIDE DEF s1, s2, s3, s4, s5, s6, s7
<1>6. s1 \o s2 \o s3 \o s4 \o s5 \in Seq(P) BY <1>4, ConcatType
<1>7. Has(r, "REATTACH") => s7 \o <<"DETACHING">> \in Seq(P) BY <1>5, ConcatType
<1>8. <<>> \in Seq(P) OBVIOUS
<1>9. AgentTodo(r, n, o) \in Seq(P) BY <1>2, <1>3, <1>5, <1>6, <1>7, <1>8
<1>10. Only(AgentTodo(r, n, o), P) BY <1>9, OnlySeq
<1>11. "PROVISIONING" \notin T BY DEF AgentStates
<1> QED BY <1>10, <1>11 DEF Only, Includes, P

\* The fields of a goroutine that dispatchRequests starts.
LEMMA StartIs ==
    ASSUME TypeOK, NEW d \in Daemon, NEW r \in SR, NEW o \in Storage,
           NEW todo \in Seq(States), NEW undo \in Seq(States), NEW err, err \in BOOLEAN,
           Start(d, r, o, todo, undo, err)
    PROVE  \E h \in Goroutines : Become(d, r, h) /\ Started(r, o, todo, undo, err, h)
<1> DEFINE pc == IF r \in expired \/ err THEN "turn" ELSE "next"
           late == r \in expired
           h == [Idle EXCEPT !.pc = pc,
                     !.st = req[r].st, !.sid = req[r].sid, !.node = req[r].node, !.mem = o,
                     !.todo = todo, !.undo = undo, !.err = err, !.late = late]
<1>1. pc \in {"turn", "next"} /\ late \in BOOLEAN OBVIOUS
<1>2. /\ req[r].st \in States \cup {None} /\ req[r].sid \in Stg \cup {None}
      /\ req[r].node \in Node \cup {None}
  BY DEF TypeOK, Requests
<1>3. Become(d, r, h) BY DEF Start, Become
<1> HIDE DEF pc, late
<1>4. h \in Goroutines BY <1>1, <1>2, IdleType DEF Goroutines
<1>5. /\ h.pc = pc
      /\ h.st = req[r].st /\ h.sid = req[r].sid /\ h.mem = o
      /\ h.todo = todo /\ h.undo = undo /\ (h.err <=> err) /\ (h.late <=> late)
      /\ ~h.retry /\ ~h.noid /\ ~h.back /\ h.sub = None
  BY DEF Idle
<1> HIDE DEF h
<1> QED BY <1>3, <1>4, <1>5 DEF pc, late, Started

\* The dispatch of centrald starts a goroutine of the right shape.
LEMMA ShapeCentralDispatch ==
    ASSUME Inv1, NEW r \in SR, CentralDispatch(r)
    PROVE  /\ \E h : Goes(C, r, h) /\ CentralStarted(r, h)
           /\ Active(r) /\ ~Running(C, r) /\ ~CentralSkips(r) /\ UNCHANGED <<req, stg, vol>>
           /\ KeepsRequests /\ UNCHANGED cleanup /\ cleanup = "done" /\ req[r].st # None
<1> DEFINE o == Fetched(req[r].sid)
           ops == req[r].ops
           err == Lost(r)
           todo == CentralTodo(r, o)
           extra == IF (err \/ r \in expired) /\ todo # <<>> /\ ~Has(r, "REATTACH")
                    THEN UndoOf(todo[1]) ELSE <<>>
           undo == CentralUndo(r) \o extra
<1>0. C \in Daemon /\ TypeOK BY CentralIs DEF C, Inv1
<1>1. /\ cleanup = "done" /\ UNCHANGED <<req, cleanup, stg, vol>> /\ req[r].st # None
      /\ Active(r) /\ ~Running(C, r) /\ ~CentralSkips(r)
      /\ Start(C, r, o, todo, undo, err)
  BY DEF CentralDispatch, C, Active, Lost
<1>2. o \in Storage /\ err \in BOOLEAN
  <2>1. req[r].sid \in Stg \cup {None} BY <1>0 DEF TypeOK, Requests
  <2> QED BY <1>0, <2>1, FetchedType DEF Lost
<1>3. todo \in Seq(States) /\ CentralUndo(r) \in Seq(States) /\ extra \in Seq(States)
  <2>1. todo \in Seq(States) /\ CentralUndo(r) \in Seq(States)
    BY CentralTodoType, CentralUndoType
  <2>2. <<>> \in Seq(States) OBVIOUS
  <2> QED BY <2>1, <2>2, UndoOfType
<1>4. ops \in Plans BY <1>1 DEF Inv1, Asked
<1>5. /\ Only(todo, Serving(ops) \ Undoing)
      /\ todo # <<>> => /\ ~Includes(Tail(todo), "PROVISIONING")
                        /\ Head(todo) = "PROVISIONING" => Order(req[r].st) <= 1
  BY <1>4, CentralTodoServes
<1>6. Only(extra, Undoing \cap Serving(ops))
  <2>1. CASE (err \/ r \in expired) /\ todo # <<>> /\ ~Has(r, "REATTACH")
    <3>1. todo[1] \in Serving(ops) BY <1>3, <1>5, <2>1 DEF Only
    <3> HIDE DEF todo, err
    <3> QED BY <2>1, <3>1, UndoOfServes DEF Has
  <2>2. CASE ~((err \/ r \in expired) /\ todo # <<>> /\ ~Has(r, "REATTACH"))
    BY <2>2, OnlyEmpty
  <2> QED BY <2>1, <2>2
<1>7. undo \in Seq(States) /\ Only(undo, Undoing \cap Serving(ops))
  <2> HIDE DEF extra
  <2> QED BY <1>3, <1>6, CentralUndoServes, OnlyConcat, ConcatType
<1>8. ~err /\ r \notin expired => /\ req[r].st \notin Undoing
                                  /\ Order(req[r].st) <= 1 => undo = <<>>
  <2>1. \A st \in Undoing : undoOnly(st) BY DEF Undoing, undoOnly, Order
  <2>2. ASSUME ~err, r \notin expired, Order(req[r].st) <= 1
        PROVE  undo = <<>>
    <3>1. extra = <<>> /\ CentralUndo(r) = <<>> BY <2>2, CentralUndoServes
    <3> HIDE DEF extra
    <3> QED BY <3>1
  <2> QED BY <2>1, <2>2 DEF Lost
<1>13. \A h : Started(r, o, todo, undo, err, h) => CentralStarted(r, h)
  BY DEF CentralStarted
<1> HIDE DEF o, err, todo, undo
<1>9. PICK h \in Goroutines : Become(C, r, h) /\ Started(r, o, todo, undo, err, h)
  BY <1>0, <1>1, <1>2, <1>3, <1>7, StartIs
<1>10. Lists(C, ops, h) BY <1>5, <1>7, <1>9 DEF Lists, Started
<1>11. Shape(C, ops, h) BY <1>5, <1>8, <1>9, <1>10 DEF Shape, Fails, Started
<1>12. Goes(C, r, h) BY <1>9, <1>11 DEF Goes
<1> QED BY <1>1, <1>9, <1>12, <1>13 DEF KeepsRequests

\* The dispatch of agentd starts a goroutine of the right shape.
LEMMA ShapeAgentDispatch ==
    ASSUME Inv1, NEW n \in Node, NEW r \in SR, AgentDispatch(n, r)
    PROVE  /\ \E h, todo, err :
                 /\ Goes(n, r, h) /\ Started(r, Fetched(req[r].sid), todo, <<>>, err, h)
           /\ Active(r) /\ ~Running(n, r) /\ UNCHANGED <<req, stg, vol>>
           /\ KeepsRequests /\ UNCHANGED cleanup /\ req[r].st # None
<1> DEFINE o == Fetched(req[r].sid)
           ops == req[r].ops
           todo == AgentTodo(r, n, o)
           nil == <<>>
           here == o.att = "ATTACHED" /\ o.node = n
           odd == /\ Has(r, "REATTACH") /\ here
                  /\ IF n = req[r].target THEN o.dev \notin {"OPENING", "UNUSED", "ERROR", "OPEN"}
                     ELSE o.dev \notin {"OPEN", "CLOSING", "ERROR", "UNUSED"}
           err == ~here \/ odd
<1>0. n \in Daemon /\ n # C /\ TypeOK BY CentralIs DEF C, Inv1
<1>1. /\ UNCHANGED <<req, cleanup, stg, vol>> /\ req[r].st # None
      /\ Active(r) /\ ~Running(n, r)
      /\ Start(n, r, o, todo, nil, err)
  BY DEF AgentDispatch, Active
<1>2. o \in Storage /\ err \in BOOLEAN
  <2>1. req[r].sid \in Stg \cup {None} BY <1>0 DEF TypeOK, Requests
  <2> QED BY <1>0, <2>1, FetchedType
<1>3. todo \in Seq(States) /\ nil \in Seq(States) BY AgentTodoType
<1>7. nil = <<>> OBVIOUS
<1>4. ops \in Plans BY <1>1 DEF Inv1, Asked
<1>5. /\ Only(todo, Serving(ops) \ Undoing)
      /\ Only(todo, AgentStates \cup {"DETACHING", "REMOVING_TAG"})
      /\ ~Includes(todo, "PROVISIONING")
  BY <1>4, AgentTodoServes
<1> HIDE DEF o, todo, err, nil, here, odd
<1>6. todo # <<>> => ~Includes(Tail(todo), "PROVISIONING") /\ Head(todo) # "PROVISIONING"
  BY <1>3, <1>5, IncludesTail
<1>8. PICK h \in Goroutines : Become(n, r, h) /\ Started(r, o, todo, nil, err, h)
  BY <1>0, <1>1, <1>2, <1>3, StartIs
<1>9. Lists(n, ops, h) BY <1>5, <1>7, <1>8, OnlyEmpty DEF Lists, Started
<1>10. Shape(n, ops, h) BY <1>0, <1>6, <1>8, <1>9 DEF Shape, Fails, Started
<1>11. Goes(n, r, h) BY <1>8, <1>10 DEF Goes
<1> QED BY <1>1, <1>7, <1>8, <1>11 DEF KeepsRequests, o

\* The loops of an animator keep the shape of its goroutine.
LEMMA ShapeAnimate ==
    ASSUME Inv1, NEW d \in Daemon, NEW r \in SR, Animate(d, r)
    PROVE  (\E h : Goes(d, r, h)) /\ KeepsRequests /\ UNCHANGED cleanup /\ Running(d, r)
BY ShapeNext, ShapeTurn, ShapeTerminal DEF Animate

\* Every step of centrald on a request keeps this layer.
LEMMA ShapeCentral ==
    ASSUME Inv1, NEW r \in SR, Central(r)
    PROVE  Shaped' /\ Asked' /\ Idled'
<1>1. /\ (\E h : Goes(C, r, h)) /\ KeepsRequests /\ UNCHANGED cleanup
      /\ Running(C, r) \/ (cleanup = "done" /\ req[r].st # None)
  <2>1. CASE CentralDispatch(r) BY <2>1, ShapeCentralDispatch DEF Active
  <2>2. CASE Animate("centrald", r)
    <3>1. Animate(C, r) /\ C \in Daemon BY <2>2, CentralIs DEF C
    <3> QED BY <3>1, ShapeAnimate
  <2>3. CASE Provision(r) \/ Attach(r) \/ Detach(r) \/ Release(r)
    <3>1. (\E h : Goes(C, r, h)) /\ KeepsRequests /\ UNCHANGED cleanup /\ G(C, r).pc = "call"
      BY <2>3, ShapeProvision, ShapeAttach, ShapeDetach, ShapeRelease DEF Handles
    <3>2. Running(C, r) BY <3>1 DEF Running
    <3> QED BY <3>1, <3>2
  <2> QED BY <2>1, <2>2, <2>3 DEF Central
<1>2. C \in Daemon /\ (Running(C, r) => req[r].st # None)
  BY CentralIs DEF C, Inv1, Shaped
<1> QED BY <1>1, <1>2, ShapedFrame

\* Every step of agentd on a request keeps this layer.
LEMMA ShapeAgent ==
    ASSUME Inv1, NEW n \in Node, NEW r \in SR, Agent(n, r)
    PROVE  Shaped' /\ Asked' /\ Idled'
<1>0. n \in Daemon /\ n # C BY CentralIs DEF C
<1>1. (\E h : Goes(n, r, h)) /\ KeepsRequests /\ UNCHANGED cleanup /\ (Running(n, r) \/ req[r].st # None)
  <2>1. CASE AgentDispatch(n, r) BY <2>1, ShapeAgentDispatch
  <2>2. CASE Animate(n, r) BY <1>0, <2>2, ShapeAnimate
  <2>3. CASE HandBack(n, r) \/ ResetDevice(n, r) BY <2>3, ShapeHandBack, ShapeReset
  <2>4. CASE DeviceStep(n, r)
    <3>1. (\E h : Goes(n, r, h)) /\ KeepsRequests /\ UNCHANGED cleanup /\ G(n, r).pc = "call"
      BY <2>4, ShapeDevice DEF Handles
    <3> QED BY <3>1 DEF Running
  <2> QED BY <2>1, <2>2, <2>3, <2>4 DEF Agent, DeviceStep
<1>2. Running(n, r) => req[r].st # None BY <1>0 DEF Inv1, Shaped
<1> QED BY <1>0, <1>1, <1>2, ShapedFrame

\* storageRequestCreate keeps this layer.
LEMMA ShapeCreate ==
    ASSUME Inv1, NEW r \in SR, StorageRequestCreate(r)
    PROVE  Shaped' /\ Asked' /\ Idled'
<1>1. req[r].st = None /\ UNCHANGED <<go, cleanup>> BY DEF StorageRequestCreate
<1>2. PICK ops \in Plans, n \in Node :
          CreateProvision(r, ops, n) \/ \E s \in Stg : CreateOnStorage(r, ops, n, s)
  BY DEF StorageRequestCreate
<1>3. \E q : q.st = "NEW" /\ q.ops = ops /\ req' = [req EXCEPT ![r] = q]
  <2>1. CASE CreateProvision(r, ops, n)
    <3> DEFINE node == IF "ATTACH" \in ops THEN n ELSE None
               q == [NoRequest EXCEPT !.st = "NEW", !.ops = ops, !.node = node]
    <3>1. req' = [req EXCEPT ![r] = q] BY <2>1 DEF CreateProvision
    <3> HIDE DEF node
    <3>2. q.st = "NEW" /\ q.ops = ops BY DEF NoRequest
    <3> HIDE DEF q
    <3> QED BY <3>1, <3>2
  <2>2. CASE \E s \in Stg : CreateOnStorage(r, ops, n, s)
    <3>1. PICK s \in Stg : CreateOnStorage(r, ops, n, s) BY <2>2
    <3> DEFINE o == stg[s]
               attached == o.att # "DETACHED" /\ o.node # None
               node == IF attached \/ ("REATTACH" \in ops /\ o.node # None) THEN o.node
                       ELSE IF ops \cap {"ATTACH", "REATTACH"} # {} THEN n ELSE None
               target == IF "REATTACH" \in ops THEN n ELSE None
               q == [st |-> "NEW", ops |-> ops, sid |-> s, node |-> node, target |-> target]
    <3>2. req' = [req EXCEPT ![r] = q] BY <3>1 DEF CreateOnStorage
    <3> HIDE DEF node, target
    <3>3. q.st = "NEW" /\ q.ops = ops OBVIOUS
    <3> HIDE DEF q
    <3> QED BY <3>2, <3>3
  <2> QED BY <1>2, <2>1, <2>2
<1>4. PICK q : q.st = "NEW" /\ q.ops = ops /\ req' = [req EXCEPT ![r] = q] BY <1>3
<1>5. \A x \in SR : req'[x] = IF x = r THEN q ELSE req[x] BY <1>4 DEF Inv1, TypeOK
<1>6. \A e \in Daemon, x \in SR : G(e, x)' = G(e, x) BY <1>1 DEF G
<1>7. Shaped'
  <2> SUFFICES ASSUME NEW e \in Daemon, NEW x \in SR
               PROVE  Shape(e, req'[x].ops, G(e, x)') /\ (Running(e, x)' => req'[x].st # None)
    BY DEF Shaped
  <2>1. Shape(e, req[x].ops, G(e, x)) /\ (Running(e, x) => req[x].st # None)
    BY DEF Inv1, Shaped
  <2>2. CASE x = r
    <3>1. G(e, x).pc = "idle" BY <1>1, <2>1, <2>2 DEF Running
    <3> QED BY <1>6, <3>1 DEF Shape, Running
  <2>3. CASE x # r BY <1>5, <1>6, <2>1, <2>3 DEF Running
  <2> QED BY <2>2, <2>3
<1>8. Asked' BY <1>4, <1>5 DEF Inv1, Asked, None
<1>9. Idled' BY <1>1, <1>6, CentralIs DEF Inv1, Idled, Running, C
<1> QED BY <1>7, <1>8, <1>9

(* Steps that leave the goroutines alone, or end some.                     *)
LEMMA ShapeStays ==
    ASSUME Inv1, KeepsRequests,
           \A e \in Daemon, x \in SR : G(e, x)' = G(e, x) \/ G(e, x)'.pc = "idle",
           cleanup' # "done" => cleanup # "done" \/ \A x \in SR : G(C, x)'.pc = "idle"
    PROVE  Shaped' /\ Asked' /\ Idled'
<1>1. Shaped'
  <2> SUFFICES ASSUME NEW e \in Daemon, NEW x \in SR
               PROVE  Shape(e, req'[x].ops, G(e, x)') /\ (Running(e, x)' => req'[x].st # None)
    BY DEF Shaped
  <2>1. Shape(e, req[x].ops, G(e, x)) /\ (Running(e, x) => req[x].st # None)
    BY DEF Inv1, Shaped
  <2>2. CASE G(e, x)'.pc = "idle" BY <2>2 DEF Shape, Running
  <2>3. CASE G(e, x)' = G(e, x) BY <2>1, <2>3 DEF Running, KeepsRequests
  <2> QED BY <2>2, <2>3
<1>2. Asked' BY DEF Inv1, Asked, KeepsRequests
<1>3. Idled' BY CentralIs DEF Inv1, Idled, Running, C
<1> QED BY <1>1, <1>2, <1>3

\* A daemon that restarts has no goroutines; those of the others are left
\* alone.
LEMMA ForgetIs ==
    ASSUME NEW d, Forget(d)
    PROVE  \A e \in Daemon, x \in SR : G(e, x)' = IF e = d THEN Idle ELSE G(e, x)
BY DEF Forget, G

\* Restarts, the startup cleanup and time keep this layer.
LEMMA ShapeOthers ==
    ASSUME Inv1,
           \/ Cleanup \/ CrashCentrald \/ (\E n \in Node : CrashAgentd(n))
           \/ (\E r \in SR : Expire(r)) \/ UNCHANGED vars
    PROVE  Shaped' /\ Asked' /\ Idled'
<1>1. CASE (\E r \in SR : Expire(r)) \/ UNCHANGED vars
  <2>1. UNCHANGED <<req, go, cleanup>> BY <1>1 DEF Expire, vars
  <2> QED BY <2>1, ShapeStays DEF KeepsRequests, G
<1>2. CASE CrashCentrald
  <2>1. Forget("centrald") /\ UNCHANGED req BY <1>2 DEF CrashCentrald
  <2>2. \A e \in Daemon, x \in SR : G(e, x)' = IF e = C THEN Idle ELSE G(e, x)
    BY <2>1, ForgetIs DEF C
  <2> QED BY <2>1, <2>2, ShapeStays, CentralIs DEF KeepsRequests, Idle, C
<1>3. CASE \E n \in Node : CrashAgentd(n)
  <2>1. PICK n \in Node : CrashAgentd(n) BY <1>3
  <2>2. Forget(n) /\ UNCHANGED <<req, cleanup>> BY <2>1 DEF CrashAgentd
  <2>3. \A e \in Daemon, x \in SR : G(e, x)' = IF e = n THEN Idle ELSE G(e, x)
    BY <2>2, ForgetIs
  <2> QED BY <2>2, <2>3, ShapeStays DEF KeepsRequests, Idle
<1>4. CASE Cleanup
  <2>1. /\ UNCHANGED go
        /\ cleanup # "done"
        /\ UNCHANGED req \/ \E r \in SR : Active(r) /\ req' = [req EXCEPT ![r].sid = None]
    BY <1>4 DEF Cleanup, releaseOrphanedCSPVolumes, makeProvisioningStorageUnprovisioned,
                deleteUnprovisionedStorage
  <2>2. KeepsRequests
    <3>1. CASE UNCHANGED req BY <3>1 DEF KeepsRequests
    <3>2. ASSUME NEW r \in SR, Active(r), req' = [req EXCEPT ![r].sid = None]
          PROVE  KeepsRequests
      <4>1. req \in [SR -> Requests] /\ req[r].st # None
        BY <3>2 DEF Inv1, TypeOK, Active
      <4>2. \A x \in SR : req'[x] = IF x = r THEN [req[r] EXCEPT !.sid = None] ELSE req[x]
        BY <3>2, <4>1
      <4>3. req'[r].ops = req[r].ops /\ req'[r].st = req[r].st
        BY <4>1, <4>2 DEF Requests
      <4> QED BY <4>1, <4>2, <4>3 DEF KeepsRequests
    <3> QED BY <2>1, <3>1, <3>2
  <2> QED BY <2>1, <2>2, ShapeStays DEF G
<1> QED BY <1>1, <1>2, <1>3, <1>4

\* Every step keeps Inv1.
LEMMA Step1 == Inv1 /\ [Next]_vars => Inv1'
<1> SUFFICES ASSUME Inv1, [Next]_vars
             PROVE  Inv1'
  OBVIOUS
<1>1. TypeOK' BY TypeStep DEF Inv1
<1>2. Shaped' /\ Asked' /\ Idled'
  BY ShapeCreate, ShapeCentral, ShapeAgent, ShapeOthers DEF Next
<1> QED BY <1>1, <1>2 DEF Inv1

\* Inv1 holds initially.
LEMMA Init1 == Init => Inv1
<1> SUFFICES ASSUME Init
             PROVE  Inv1
  OBVIOUS
<1>1. \A e \in Daemon, x \in SR : G(e, x) = Idle BY DEF Init, G
<1>2. \A x \in SR : req[x] = NoRequest /\ req[x].st = None BY DEF Init, NoRequest
<1>3. Idle.pc = "idle" /\ C \in Daemon BY CentralIs DEF Idle, C
<1> QED BY <1>1, <1>2, <1>3, TypeInit, IdleShape DEF Inv1, Shaped, Asked, Idled, Running

-----------------------------------------------------------------------------
(***************************************************************************)
(* Inv2: who works on a request.  The two daemons share nothing but the    *)
(* request, and its state tells them whose turn it is.                     *)
(***************************************************************************)

\* storageRequestCreate accepts operations of one family only
\* (storageRequestOperationSequences).
LEMMA PlanFamily ==
    ASSUME NEW ops \in Plans
    PROVE  /\ ops # {}
           /\ \/ ops \subseteq {"PROVISION", "ATTACH", "FORMAT", "USE"}
              \/ ops \subseteq {"CLOSE", "DETACH", "RELEASE"}
              \/ ops = {"REATTACH"}
<1>1. PICK fam \in Families : ops # {} /\ ops \subseteq fam BY PlansAssumption
<1>2. \/ fam = {"PROVISION", "ATTACH", "FORMAT", "USE"} \/ fam = {"CLOSE", "DETACH", "RELEASE"}
      \/ fam = {"REATTACH"}
  BY DEF Families
<1> QED BY <1>1, <1>2

(* Only one daemon works on a request.                                     *)
LEMMA OneOwner ==
    ASSUME Inv2, NEW r \in SR, NEW d \in Daemon, NEW e \in Daemon, d # e, Busy(d, r)
    PROVE  ~Busy(e, r)
<1> SUFFICES ASSUME Busy(e, r) PROVE FALSE OBVIOUS
<1>1. /\ Active(r) /\ Owns(d, r) /\ Owns(e, r) /\ ~Moves(r) /\ RequestOK(r)
  BY DEF Inv2, Worked, WorkOK, Requested, Busy
<1>2. req[r].ops \in Plans BY <1>1 DEF Inv2, Inv1, Asked, Active
<1>3. ASSUME AgentOwns(r), ~CentralSkips(r)
      PROVE  FALSE
  <2>1. req[r].st \notin AgentStates
    BY <1>3 DEF AgentOwns, CentralSkips, Moves, Has, AgentStates
  <2>2. CASE req[r].st = "NEW"
    BY <1>1, <1>3, <2>2 DEF AgentOwns, CentralSkips, Moves, Has
  <2>3. CASE req[r].st # "NEW"
    <3>1. req[r].st \in Serving(req[r].ops) BY <1>1, <2>3 DEF RequestOK
    <3>2. req[r].ops \subseteq {"FORMAT", "USE"}
      BY <1>1, <1>2, <1>3, <2>1, <2>3, PlanFamily DEF AgentOwns, Moves, Has, AgentStates
    <3> QED BY <2>1, <3>1, <3>2 DEF Serving, AgentStates
  <2> QED BY <2>2, <2>3
<1> QED BY <1>1, <1>3 DEF Owns

\* A step of one goroutine keeps this layer if its request and its own claim to
\* it are in order.
LEMMA WorkedFrame ==
    ASSUME Inv2, NEW d \in Daemon, NEW r \in SR, NEW h, Goes(d, r, h), KeepsRequests, Others(r),
           SameState(r) \/ Moves(r) \/ Busy(d, r),
           RequestOK(r)', WorkOK(d, r)'
    PROVE  Requested' /\ Worked'
<1>1. \A e \in Daemon, q \in SR : G(e, q)' = IF e = d /\ q = r THEN h ELSE G(e, q)
  BY DEF Inv2, Inv1, TypeOK, Goes, Become, G
<1>2. ASSUME NEW q \in SR, q # r
      PROVE  RequestOK(q)'
  <2>1. RequestOK(q) /\ req'[q] = req[q] BY <1>2 DEF Inv2, Requested, Others
  <2> QED BY <2>1 DEF RequestOK, Active, Moves, Has
<1>3. ASSUME NEW e \in Daemon, NEW q \in SR, e # d \/ q # r
      PROVE  WorkOK(e, q)'
  <2>1. G(e, q)' = G(e, q) /\ req'[q].ops = req[q].ops /\ WorkOK(e, q)
    BY <1>1, <1>3 DEF KeepsRequests, Inv2, Worked
  <2>2. Busy(e, q)' <=> Busy(e, q) BY <2>1 DEF Busy, Running, Moves, Has
  <2>3. CASE req'[q].st = req[q].st /\ req'[q].node = req[q].node
    <3>1. (Active(q)' <=> Active(q)) /\ (Owns(e, q)' <=> Owns(e, q))
      BY <2>1, <2>3 DEF Active, Owns, CentralSkips, AgentOwns, Has
    <3>2. G(e, q)'.st = G(e, q).st /\ G(e, q)'.pc = G(e, q).pc /\ (Has(q, "ATTACH")' <=> Has(q, "ATTACH"))
          /\ (Fails(G(e, q)') <=> Fails(G(e, q)))
      BY <2>1 DEF Has
    <3> QED BY <2>1, <2>2, <2>3, <3>1, <3>2 DEF WorkOK
  <2>4. CASE q = r /\ e # d /\ (Moves(r) \/ Busy(d, r))
    <3>1. ~Busy(e, q) BY <2>4, OneOwner DEF Busy
    <3> QED BY <2>2, <3>1 DEF WorkOK
  <2> QED BY <1>3, <2>3, <2>4 DEF SameState, Others
<1>4. Requested' BY <1>2 DEF Requested
<1>5. Worked'
  <2> SUFFICES ASSUME NEW e \in Daemon, NEW q \in SR
               PROVE  WorkOK(e, q)'
    BY DEF Worked
  <2> QED BY <1>3
<1> QED BY <1>4, <1>5

(* What a handler of centrald may write into its request.                  *)
LEMMA HandlerWrites ==
    ASSUME NEW r \in SR, CentralStep(r)
    PROVE  \/ UNCHANGED req \/ SaysWhy(r)
           \/ req' = [req EXCEPT ![r] = Written(C, r, G(C, r), G(C, r).st)]
<1>1. CASE Provision(r)
  <2>1. CASE setIds(r) BY <2>1 DEF setIds, C
  <2>2. CASE ~setIds(r)
    BY <1>1, <2>2 DEF Provision, getCapacity, createStorage, createCSPVolume, setProvisioned,
                      removeCSPVolumeTag
  <2> QED BY <2>1, <2>2
<1>2. CASE Attach(r)
  BY <1>2 DEF Attach, setAttaching, attachStorage, setAttached, CentralSave
<1>3. CASE Detach(r)
  BY <1>3 DEF Detach, setDetaching, detachStorage, setDetached, cleanupDetach, CentralSave
<1>4. CASE Release(r)
  BY <1>4 DEF Release, setStorageState, deleteVolume, deleteStorage, CentralSave
<1> QED BY <1>1, <1>2, <1>3, <1>4 DEF CentralStep

(* Handlers do not change the state of a request.                          *)
LEMMA HandlerKeeps ==
    ASSUME Inv2, NEW r \in SR, CentralStep(r), G(C, r).pc = "call"
    PROVE  /\ Others(r)
           /\ Busy(C, r) => req'[r].st = req[r].st
           /\ Busy(C, r) \/ Moves(r)
<1>1. req \in [SR -> Requests] BY DEF Inv2, Inv1, TypeOK
<1>2. Busy(C, r) \/ Moves(r)
  <2>1. ~G(C, r).retry BY CentralShapes DEF Inv2
  <2> QED BY <2>1 DEF Busy, Running
<1>3. Busy(C, r) => G(C, r).st = req[r].st BY CentralIs DEF Inv2, Worked, WorkOK, C
<1>4. CASE UNCHANGED req BY <1>2, <1>4 DEF Others
<1>5. CASE SaysWhy(r)
  <2>1. \A q \in SR : req'[q] = IF q = r /\ Active(r) THEN [req[r] EXCEPT !.st = G(C, r).st] ELSE req[q]
    BY <1>1, <1>5 DEF SaysWhy, C
  <2>2. Active(r) => req'[r].st = G(C, r).st BY <1>1, <2>1 DEF Requests
  <2> QED BY <1>2, <1>3, <2>1, <2>2 DEF Others
<1>6. CASE req' = [req EXCEPT ![r] = Written(C, r, G(C, r), G(C, r).st)]
  <2>1. Written(C, r, G(C, r), G(C, r).st).st = G(C, r).st
    BY <1>1 DEF Requests, Written
  <2> QED BY <1>1, <1>2, <1>3, <1>6, <2>1 DEF Others
<1> QED BY <1>4, <1>5, <1>6, HandlerWrites

(* The invariant of a request whose state is kept.                         *)
LEMMA StateKept ==
    ASSUME Inv2, NEW r \in SR, req'[r].ops = req[r].ops,
           \/ Moves(r)
           \/ /\ req'[r].st = req[r].st
              /\ req'[r].sid # req[r].sid => req[r].st # "NEW" \/ ~Has(r, "PROVISION")
    PROVE  RequestOK(r)'
<1>1. RequestOK(r) /\ (req[r].st # None => req[r].ops \in Plans)
  BY DEF Inv2, Requested, Inv1, Asked
<1>2. CASE Moves(r)
  <2>1. req[r].st # None BY <1>2 DEF Moves, Has, Inv2, Inv1, Asked, NoRequest
  <2>2. ~Has(r, "PROVISION") BY <1>1, <1>2, <2>1, PlanFamily DEF Moves, Has
  <2> QED BY <1>2, <2>2 DEF RequestOK, Moves, Has
<1>3. CASE ~Moves(r) BY <1>1, <1>3 DEF RequestOK, Moves, Has, Active
<1> QED BY <1>2, <1>3

(* A request that has been written by its goroutine.                       *)
LEMMA WorkKept ==
    ASSUME Inv2, NEW d \in Daemon, NEW r \in SR, NEW h, Goes(d, r, h), req'[r].ops = req[r].ops,
           Busy(d, r) => req'[r].st = req[r].st /\ (d # C => req'[r].node = req[r].node),
           h.st = G(d, r).st,
           Busy(d, r) \/ Moves(r),
           d # C /\ h.pc \in {"reset", "final"} /\ Has(r, "ATTACH") /\ Busy(d, r) => ~Fails(h)
    PROVE  WorkOK(d, r)'
<1>1. G(d, r)' = h BY DEF Inv2, Inv1, TypeOK, Goes, Become, G
<1>2. WorkOK(d, r) BY DEF Inv2, Worked
<1>3. CASE Moves(r) BY <1>3 DEF WorkOK, Busy, Moves, Has
<1>4. CASE Busy(d, r)
  <2>1. (Active(r)' <=> Active(r)) /\ (Owns(d, r)' <=> Owns(d, r))
    BY <1>4 DEF Active, Owns, CentralSkips, AgentOwns, Has
  <2>2. Has(r, "ATTACH")' <=> Has(r, "ATTACH") BY DEF Has
  <2> QED BY <1>1, <1>2, <1>4, <2>1, <2>2 DEF WorkOK
<1> QED BY <1>3, <1>4

\* The handlers of centrald keep the request in the state whose handler they
\* are.
LEMMA WorkCentralStep ==
    ASSUME Inv2, NEW r \in SR, CentralStep(r)
    PROVE  Requested' /\ Worked'
<1>1. PICK h : Handles(C, r, h)
  BY ShapeProvision, ShapeAttach, ShapeDetach, ShapeRelease DEF CentralStep, Inv2
<1>2. KeepsRequests /\ G(C, r).pc = "call"
  BY ShapeProvision, ShapeAttach, ShapeDetach, ShapeRelease DEF CentralStep, Inv2
<1>3. /\ Others(r) /\ (Busy(C, r) => req'[r].st = req[r].st)
      /\ Busy(C, r) \/ Moves(r)
  BY <1>2, HandlerKeeps
<1>4. C \in Daemon BY CentralIs DEF C
<1>5. G(C, r).st # "NEW" /\ (Busy(C, r) => G(C, r).st = req[r].st)
  <2>1. G(C, r).st # "NEW" BY <1>2, CentralShapes DEF Inv2, InState, Serving
  <2> QED BY <1>4, <2>1 DEF Inv2, Worked, WorkOK
<1>6. RequestOK(r)' BY <1>2, <1>3, <1>5, StateKept DEF KeepsRequests
<1>7. WorkOK(C, r)'
  BY <1>1, <1>2, <1>3, <1>4, WorkKept DEF Handles, Handled, KeepsRequests
<1> QED BY <1>1, <1>2, <1>3, <1>4, <1>6, <1>7, WorkedFrame DEF Handles

\* The handlers of agentd do not write the request.
LEMMA WorkDevice ==
    ASSUME Inv2, NEW n \in Node, NEW r \in SR, DeviceStep(n, r)
    PROVE  Requested' /\ Worked'
<1>0. n \in Daemon /\ n # C BY CentralIs DEF C
<1>1. PICK h : Handles(n, r, h) BY ShapeDevice DEF Inv2
<1>2. KeepsRequests /\ G(n, r).pc = "call" /\ UNCHANGED req
  BY ShapeDevice DEF Inv2, DeviceStep, FormatStorage, UseStorage, CloseStorage, SetDeviceState, CallDevice
<1>3. Others(r) /\ SameState(r) BY <1>2 DEF Others, SameState
<1>4. Busy(n, r) \/ Moves(r)
  <2>1. ~G(n, r).retry BY <1>0, <1>2 DEF Inv2, Inv1, Shaped, Shape
  <2> QED BY <1>2, <2>1 DEF Busy, Running
<1>5. RequestOK(r)' BY <1>2, StateKept
<1>6. WorkOK(n, r)' BY <1>0, <1>1, <1>2, <1>4, WorkKept DEF Handles, Handled
<1> QED BY <1>0, <1>1, <1>2, <1>3, <1>5, <1>6, WorkedFrame DEF Handles

\* What the update of a request writes: its state, from centrald its storage
\* and node too.
LEMMA WrittenIs ==
    ASSUME Inv1, NEW d, NEW r \in SR, NEW g, NEW st, Writes(d, r, g, st)
    PROVE  /\ Others(r)
           /\ req'[r].st = st /\ req'[r].ops = req[r].ops
           /\ req'[r].sid = (IF d = C /\ ~g.noid THEN g.sid ELSE req[r].sid)
           /\ d # C => req'[r].node = req[r].node
<1>1. req \in [SR -> Requests] BY DEF Inv1, TypeOK
<1>2. /\ Written(d, r, g, st).st = st /\ Written(d, r, g, st).ops = req[r].ops
      /\ Written(d, r, g, st).sid = (IF d = "centrald" /\ ~g.noid THEN g.sid ELSE req[r].sid)
      /\ d # "centrald" => Written(d, r, g, st).node = req[r].node
  BY <1>1 DEF Requests, Written
<1>3. /\ req'[r] = Written(d, r, g, st)
      /\ \A q \in SR \ {r} : req'[q] = req[q]
  BY <1>1 DEF Writes
<1> QED BY <1>2, <1>3 DEF Others, C

\* A state is written before its handler runs; a state of the other daemon ends
\* the work of this one.
LEMMA WorkNext ==
    ASSUME Inv2, NEW d \in Daemon, NEW r \in SR, NextState(d, r)
    PROVE  Requested' /\ Worked'
<1> DEFINE g == G(d, r)
           ops == req[r].ops
           st == Head(g.todo)
<1>1. PICK h : Goes(d, r, h) /\ NextIs(d, r, h) BY ShapeNext DEF Inv2
<1>2. KeepsRequests /\ Running(d, r) /\ g.pc = "next" /\ g.todo # <<>> /\ ~g.retry
  BY ShapeNext DEF Inv2, NextState
<1>3. Busy(d, r) \/ Moves(r) BY <1>2 DEF Busy
<1>4. G(d, r)' = h /\ req'[r].ops = ops
  BY <1>1, <1>2 DEF Inv2, Inv1, TypeOK, Goes, Become, G, KeepsRequests
<1>5. g \in Goroutines /\ Shape(d, ops, g) /\ g.todo \in Seq(States)
  <2>1. g \in Goroutines /\ Shape(d, ops, g) BY GoType DEF Inv2, Inv1, Shaped
  <2> QED BY <2>1 DEF Goroutines
<1>6. h.pc \in {"call", "next", "turn"} BY <1>1 DEF NextIs, Stopped, Entered
<1>7. CASE UNCHANGED req /\ h.st = g.st
  <2>1. RequestOK(r)' BY <1>7, StateKept
  <2>2. WorkOK(d, r)' BY <1>1, <1>3, <1>6, <1>7, WorkKept
  <2> QED BY <1>1, <1>2, <1>7, <2>1, <2>2, WorkedFrame DEF Others, SameState
<1>8. CASE /\ Entered(d, r, g, st, h) /\ Writable(d, r, g)
           /\ req' = [req EXCEPT ![r] = Written(d, r, g, st)]
  <2>1. /\ Others(r) /\ req'[r].st = st
        /\ d # C => req'[r].node = req[r].node
    <3>1. Writes(d, r, g, st) BY <1>8 DEF Writes
    <3> HIDE DEF g, st
    <3> QED BY <3>1, WrittenIs DEF Inv2
  <2>2. st \in Serving(ops) /\ (d # C => st \in AgentStates \cup {"DETACHING", "REMOVING_TAG"})
    <3>1. Lists(d, ops, g) BY <1>2, <1>5 DEF Shape
    <3>2. st \in IF g.back THEN Undoing \cap Serving(ops) ELSE Serving(ops) \ Undoing
      BY <1>2, <1>5, <3>1, OnlyTail DEF Lists
    <3>3. d # C => st \in AgentStates \cup {"DETACHING", "REMOVING_TAG"}
      BY <1>2, <1>5, <3>1, OnlyTail DEF Lists
    <3> QED BY <3>2, <3>3
  <2>3. h.st = st /\ (h.retry <=> HandsOver(d, st)) BY <1>8 DEF Entered
  <2>4. ops \in Plans BY <1>2 DEF Inv2, Inv1, Shaped, Asked
  <2> HIDE DEF st
  <2>5. st \notin {"NEW", None} /\ st \notin Terminal
    BY <2>2 DEF Serving, Terminal, None
  <2>6. RequestOK(r)'
    <3>1. RequestOK(r) /\ req[r].st # None BY <1>2 DEF Inv2, Requested, Inv1, Shaped
    <3> QED BY <1>4, <2>1, <2>2, <2>5, <3>1 DEF RequestOK, Moves, Has
  <2>7. WorkOK(d, r)'
    <3> SUFFICES ASSUME Busy(d, r)'
                 PROVE  WorkOK(d, r)'
      BY DEF WorkOK
    <3>1. ~h.retry /\ ~Moves(r) BY <1>4 DEF Busy, Moves, Has
    <3>2. Active(r)' BY <2>1, <2>5 DEF Active
    <3>3. Owns(d, r)'
      <4>1. CASE d = C
        <5>1. st \notin AgentStates BY <2>3, <3>1, <4>1 DEF HandsOver, C
        <5>2. ~CentralSkips(r)'
          BY <1>4, <2>1, <2>5, <3>1, <5>1 DEF CentralSkips, Moves, Has
        <5> QED BY <4>1, <5>2 DEF Owns
      <4>2. CASE d # C
        <5>1. st \in AgentStates BY <2>2, <2>3, <3>1, <4>2 DEF HandsOver, C
        <5>2. req'[r].node = d
          BY <1>3, <2>1, <3>1, <4>2 DEF Inv2, Worked, WorkOK, Owns
        <5>3. \/ st = "FORMATTING" /\ "FORMAT" \in ops
              \/ st = "USING" /\ "USE" \in ops
              \/ st = "CLOSING" /\ "CLOSE" \in ops
          BY <2>2, <3>1, <5>1 DEF Serving, AgentStates, Moves, Has
        <5>4. AgentOwns(r)' BY <1>4, <2>1, <2>4, <5>3, PlanFamily DEF AgentOwns, Has
        <5> QED BY <4>2, <5>2, <5>4 DEF Owns
      <4> QED BY <4>1, <4>2
    <3> QED BY <1>4, <1>6, <2>1, <2>3, <3>2, <3>3 DEF WorkOK
  <2> QED BY <1>1, <1>2, <1>3, <2>1, <2>6, <2>7, WorkedFrame
<1> QED BY <1>1, <1>7, <1>8 DEF NextIs, Stopped, Entered

\* The turn from forwards to backwards does not write the request.
LEMMA WorkTurn ==
    ASSUME Inv2, NEW d \in Daemon, NEW r \in SR, Turn(d, r)
    PROVE  Requested' /\ Worked'
<1> DEFINE g == G(d, r)
<1>1. PICK h : Goes(d, r, h) /\ TurnIs(d, r, h) BY ShapeTurn DEF Inv2
<1>2. KeepsRequests /\ UNCHANGED req /\ Running(d, r) BY ShapeTurn DEF Inv2
<1>3. RequestOK(r)' BY <1>2, StateKept
<1>4. G(d, r)' = h BY <1>1 DEF Inv2, Inv1, TypeOK, Goes, Become, G
<1>5. WorkOK(d, r)'
  <2>1. CASE h = Idle BY <1>4, <2>1 DEF WorkOK, Busy, Running, Idle
  <2>2. CASE h.retry \/ Moves(r) BY <1>2, <1>4, <2>2 DEF WorkOK, Busy, Moves, Has
  <2>3. CASE h # Idle /\ ~h.retry /\ ~Moves(r)
    <3>1. Kept(g, h) BY <1>1, <2>3 DEF TurnIs
    <3>2. Busy(d, r) BY <1>2, <2>3, <3>1 DEF Busy, Kept
    <3>3. d # C /\ h.pc \in {"reset", "final"} /\ Has(r, "ATTACH") => ~Fails(h)
      <4> SUFFICES ASSUME d # C, h.pc \in {"reset", "final"}, Has(r, "ATTACH")
                   PROVE  ~Fails(h)
        OBVIOUS
      <4>1. Ends(d, r, g, h) BY <1>1, <2>3 DEF TurnIs, TurnsBack, HandsBack, Turns
      <4>2. Shape(d, req[r].ops, g) BY DEF Inv2, Inv1, Shaped
      <4>3. g.pc = "turn" BY <4>1, <4>2 DEF Ends, Shape, Lists
      <4> QED BY <3>1, <4>1, <4>3 DEF Ends, Kept, Fails
    <3> QED BY <1>1, <1>2, <3>1, <3>2, <3>3, WorkKept DEF Kept
  <2> QED BY <2>1, <2>2, <2>3
<1> QED BY <1>1, <1>2, <1>3, <1>5, WorkedFrame DEF Others, SameState

\* The last update of a request ends the work on it.
LEMMA WorkTerminal ==
    ASSUME Inv2, NEW d \in Daemon, NEW r \in SR, EnterTerminal(d, r)
    PROVE  Requested' /\ Worked'
<1>1. /\ Goes(d, r, Idle) /\ G(d, r).pc = "final" /\ KeepsRequests /\ Running(d, r)
      /\ \/ UNCHANGED req
         \/ \E st \in {"FAILED", "SUCCEEDED"} : req' = [req EXCEPT ![r] = Written(d, r, G(d, r), st)]
  BY ShapeTerminal DEF Inv2, EndsAs
<1>2. Busy(d, r) \/ Moves(r) BY <1>1 DEF Inv2, Inv1, Shaped, Shape, Busy
<1>3. WorkOK(d, r)'
  <2>1. G(d, r)' = Idle BY <1>1 DEF Inv2, Inv1, TypeOK, Goes, Become, G
  <2> QED BY <2>1 DEF WorkOK, Busy, Running, Idle
<1>4. Others(r) /\ RequestOK(r)'
  <2>1. CASE UNCHANGED req BY <2>1, StateKept DEF Others
  <2>2. CASE \E st \in {"FAILED", "SUCCEEDED"} : req' = [req EXCEPT ![r] = Written(d, r, G(d, r), st)]
    <3>1. PICK st \in {"FAILED", "SUCCEEDED"} : Writes(d, r, G(d, r), st)
      BY <2>2 DEF Writes
    <3>2. Others(r) /\ req'[r].st = st /\ req'[r].ops = req[r].ops
      BY <3>1, WrittenIs DEF Inv2
    <3>3. RequestOK(r) /\ req[r].st # None BY <1>1 DEF Inv2, Requested, Inv1, Shaped
    <3> QED BY <3>2, <3>3 DEF RequestOK, Active, Terminal, Has, None
  <2> QED BY <1>1, <2>1, <2>2
<1> QED BY <1>1, <1>2, <1>3, <1>4, WorkedFrame

\* A request handed back with UNDO_ATTACHING is centrald's.
LEMMA WorkHandBack ==
    ASSUME Inv2, NEW n \in Node, NEW r \in SR, HandBack(n, r)
    PROVE  Requested' /\ Worked'
<1>0. n \in Daemon /\ n # C BY CentralIs DEF C
<1>1. /\ KeepsRequests /\ Running(n, r) /\ G(n, r).pc = "handback"
      /\ \/ /\ Goes(n, r, Idle)
            /\ UNCHANGED req \/ (Active(r) /\ req' = [req EXCEPT ![r].st = "UNDO_ATTACHING"])
         \/ ~Active(r) /\ UNCHANGED req /\ \E h : Goes(n, r, h)
  BY ShapeHandBack DEF Inv2
<1>2. (Busy(n, r) \/ Moves(r)) /\ Has(r, "ATTACH")
  BY <1>0, <1>1 DEF Inv2, Inv1, Shaped, Shape, Busy, Has
<1>3. CASE Goes(n, r, Idle)
  <2>1. WorkOK(n, r)'
    <3>1. G(n, r)' = Idle BY <1>0, <1>3 DEF Inv2, Inv1, TypeOK, Goes, Become, G
    <3> QED BY <3>1 DEF WorkOK, Busy, Running, Idle
  <2>2. Others(r) /\ RequestOK(r)'
    <3>1. CASE UNCHANGED req BY <3>1, StateKept DEF Others
    <3>2. CASE Active(r) /\ req' = [req EXCEPT ![r].st = "UNDO_ATTACHING"]
      <4>1. req \in [SR -> Requests] BY DEF Inv2, Inv1, TypeOK
      <4>2. \A q \in SR : req'[q] = IF q = r THEN [req[r] EXCEPT !.st = "UNDO_ATTACHING"] ELSE req[q]
        BY <3>2, <4>1
      <4>3. req'[r].ops = req[r].ops /\ req'[r].st = "UNDO_ATTACHING" /\ Others(r)
        BY <4>1, <4>2 DEF Requests, Others
      <4>4. RequestOK(r) /\ req[r].st # None
        BY <1>0, <1>1 DEF Inv2, Requested, Inv1, Shaped
      <4>5. "UNDO_ATTACHING" \in Serving(req[r].ops)
        BY <1>2 DEF Serving, Has, States
      <4> QED BY <4>3, <4>4, <4>5 DEF RequestOK, Has, None
    <3> QED BY <1>1, <1>3, <3>1, <3>2
  <2> QED BY <1>0, <1>1, <1>2, <1>3, <2>1, <2>2, WorkedFrame
<1>4. CASE ~Active(r) /\ UNCHANGED req /\ \E h : Goes(n, r, h)
  <2>1. PICK h : Goes(n, r, h) BY <1>4
  <2>2. Moves(r) BY <1>0, <1>2, <1>4 DEF Inv2, Worked, WorkOK
  <2>3. WorkOK(n, r)' BY <1>4, <2>2 DEF WorkOK, Busy, Moves, Has
  <2> QED BY <1>0, <1>1, <1>4, <2>1, <2>3, StateKept, WorkedFrame DEF Others, SameState
<1> QED BY <1>1, <1>3, <1>4

\* ResetDevice does not write the request.
LEMMA WorkReset ==
    ASSUME Inv2, NEW n \in Node, NEW r \in SR, ResetDevice(n, r)
    PROVE  Requested' /\ Worked'
<1>0. n \in Daemon /\ n # C BY CentralIs DEF C
<1>1. KeepsRequests /\ UNCHANGED req /\ Running(n, r) /\ G(n, r).pc = "reset"
  BY ShapeReset DEF Inv2
<1>2. PICK h : Goes(n, r, h) /\ SameWork(G(n, r), h) /\ h.pc = "final"
  BY ShapeReset DEF Inv2
<1>3. Busy(n, r) \/ Moves(r) BY <1>0, <1>1 DEF Inv2, Inv1, Shaped, Shape, Busy
<1>4. Busy(n, r) /\ Has(r, "ATTACH") => ~Fails(h)
  BY <1>0, <1>1, <1>2 DEF Inv2, Worked, WorkOK, SameWork, Fails
<1>5. WorkOK(n, r)' BY <1>0, <1>1, <1>2, <1>3, <1>4, WorkKept DEF SameWork
<1> QED BY <1>0, <1>1, <1>2, <1>5, StateKept, WorkedFrame DEF Others, SameState

\* A dispatch of a request that belongs to the daemon keeps this layer.
LEMMA WorkDispatch ==
    ASSUME Inv2, NEW d \in Daemon, NEW r \in SR, NEW h, Goes(d, r, h), KeepsRequests, UNCHANGED req,
           Active(r), Owns(d, r), h.st = req[r].st, h.pc \notin {"reset", "final"}
    PROVE  Requested' /\ Worked'
<1>1. G(d, r)' = h BY DEF Inv2, Inv1, TypeOK, Goes, Become, G
<1>2. Active(r)' /\ Owns(d, r)' BY DEF Active, Owns, CentralSkips, AgentOwns, Has
<1>3. WorkOK(d, r)' BY <1>1, <1>2 DEF WorkOK
<1> QED BY <1>3, StateKept, WorkedFrame DEF Others, SameState

\* centrald takes a request only if it is its turn.
LEMMA WorkCentralDispatch ==
    ASSUME Inv2, NEW r \in SR, CentralDispatch(r)
    PROVE  Requested' /\ Worked'
<1>1. /\ KeepsRequests /\ UNCHANGED req /\ Active(r) /\ ~CentralSkips(r)
  BY ShapeCentralDispatch DEF Inv2
<1>2. PICK h : Goes(C, r, h) /\ CentralStarted(r, h)
  BY ShapeCentralDispatch DEF Inv2
<1>3. h.st = req[r].st /\ h.pc \notin {"reset", "final"}
  BY <1>2 DEF CentralStarted, Started
<1> QED BY <1>1, <1>2, <1>3, WorkDispatch, CentralIs DEF Owns, C

\* agentd takes a request only if it is its turn.
LEMMA WorkAgentDispatch ==
    ASSUME Inv2, NEW n \in Node, NEW r \in SR, AgentDispatch(n, r)
    PROVE  Requested' /\ Worked'
<1>0. n \in Daemon /\ n # C BY CentralIs DEF C
<1>1. KeepsRequests /\ UNCHANGED req /\ Active(r) BY ShapeAgentDispatch DEF Inv2
<1>2. PICK h, todo, err : Goes(n, r, h) /\ Started(r, Fetched(req[r].sid), todo, <<>>, err, h)
  BY ShapeAgentDispatch DEF Inv2
<1>3. h.st = req[r].st /\ h.pc \notin {"reset", "final"} BY <1>2 DEF Started
<1>4. Owns(n, r) BY <1>0 DEF AgentDispatch, Owns, AgentOwns
<1> QED BY <1>0, <1>1, <1>2, <1>3, <1>4, WorkDispatch

\* Every step of centrald on a request keeps this layer.
LEMMA WorkCentral ==
    ASSUME Inv2, NEW r \in SR, Central(r)
    PROVE  Requested' /\ Worked'
<1>1. CASE CentralDispatch(r) BY <1>1, WorkCentralDispatch
<1>2. CASE Animate("centrald", r)
  BY <1>2, CentralIs, WorkNext, WorkTurn, WorkTerminal DEF Animate
<1>3. CASE CentralStep(r) BY <1>3, WorkCentralStep
<1> QED BY <1>1, <1>2, <1>3 DEF Central, CentralStep

\* Every step of agentd on a request keeps this layer.
LEMMA WorkAgent ==
    ASSUME Inv2, NEW n \in Node, NEW r \in SR, Agent(n, r)
    PROVE  Requested' /\ Worked'
<1>1. n \in Daemon BY CentralIs
<1>2. CASE Animate(n, r) BY <1>1, <1>2, WorkNext, WorkTurn, WorkTerminal DEF Animate
<1>3. CASE DeviceStep(n, r) BY <1>3, WorkDevice
<1> QED BY <1>2, <1>3, WorkAgentDispatch, WorkHandBack, WorkReset DEF Agent, DeviceStep

\* What storageRequestCreate adds.
LEMMA CreateIs ==
    ASSUME NEW r \in SR, StorageRequestCreate(r)
    PROVE  /\ req[r].st = None /\ UNCHANGED <<stg, vol, go, cleanup>>
           /\ \E q : \E ops \in Plans : NewRequest(r, ops, q)
<1>1. req[r].st = None /\ UNCHANGED <<stg, vol, go, cleanup>>
  BY DEF StorageRequestCreate
<1>2. PICK ops \in Plans, n \in Node :
          CreateProvision(r, ops, n) \/ \E s \in Stg : CreateOnStorage(r, ops, n, s)
  BY DEF StorageRequestCreate
<1>3. CASE CreateProvision(r, ops, n)
  <2> DEFINE node == IF "ATTACH" \in ops THEN n ELSE None
             q == [NoRequest EXCEPT !.st = "NEW", !.ops = ops, !.node = node]
  <2>1. /\ req' = [req EXCEPT ![r] = q]
        /\ ops \cap {"FORMAT", "USE"} # {} => "ATTACH" \in ops
    BY <1>3 DEF CreateProvision
  <2> HIDE DEF node
  <2>2. q.st = "NEW" /\ q.ops = ops /\ q.sid = None BY DEF NoRequest
  <2> HIDE DEF q
  <2>3. NewRequest(r, ops, q) BY <2>1, <2>2 DEF NewRequest
  <2> QED BY <1>1, <2>3
<1>4. CASE \E s \in Stg : CreateOnStorage(r, ops, n, s)
  <2>1. PICK s \in Stg : CreateOnStorage(r, ops, n, s) BY <1>4
  <2> DEFINE o == stg[s]
             attached == o.att # "DETACHED" /\ o.node # None
             node == IF attached \/ ("REATTACH" \in ops /\ o.node # None) THEN o.node
                     ELSE IF ops \cap {"ATTACH", "REATTACH"} # {} THEN n ELSE None
             target == IF "REATTACH" \in ops THEN n ELSE None
             q == [st |-> "NEW", ops |-> ops, sid |-> s, node |-> node, target |-> target]
  <2>2. /\ req' = [req EXCEPT ![r] = q]
        /\ "PROVISION" \notin ops /\ Exists(s) /\ ~InUse(s) /\ stg[s].prov \in {"PROVISIONED", "UNPROVISIONING"}
    BY <2>1 DEF CreateOnStorage, ClientAsks
  <2> HIDE DEF node, target
  <2>3. q.st = "NEW" /\ q.ops = ops /\ q.sid = s OBVIOUS
  <2> HIDE DEF q
  <2>4. NewRequest(r, ops, q) BY <2>2, <2>3 DEF NewRequest
  <2> QED BY <1>1, <2>4
<1> QED BY <1>2, <1>3, <1>4

\* A new request is nobody's work yet.
LEMMA WorkCreate ==
    ASSUME Inv2, NEW r \in SR, StorageRequestCreate(r)
    PROVE  Requested' /\ Worked'
<1>1. req[r].st = None /\ UNCHANGED go BY CreateIs
<1>0. PICK q : \E ops \in Plans : NewRequest(r, ops, q) BY CreateIs
<1>2. PICK ops \in Plans : NewRequest(r, ops, q) BY <1>0
<1>3. \A x \in SR : req'[x] = IF x = r THEN q ELSE req[x]
  BY <1>2 DEF Inv2, Inv1, TypeOK, NewRequest
<1>4. \A e \in Daemon, x \in SR : G(e, x)' = G(e, x) BY <1>1 DEF G
<1>5. ASSUME NEW x \in SR
      PROVE  RequestOK(x)'
  <2>1. CASE x = r BY <1>2, <1>3, <2>1 DEF RequestOK, NewRequest, Has
  <2>2. CASE x # r
    <3>1. RequestOK(x) /\ req'[x] = req[x] BY <1>3, <2>2 DEF Inv2, Requested
    <3> QED BY <3>1 DEF RequestOK, Active, Moves, Has
  <2> QED BY <2>1, <2>2
<1>6. ASSUME NEW e \in Daemon, NEW x \in SR
      PROVE  WorkOK(e, x)'
  <2>1. CASE x = r
    <3>1. ~Running(e, x) BY <1>1, <2>1 DEF Inv2, Inv1, Shaped
    <3> QED BY <1>4, <3>1 DEF WorkOK, Busy, Running
  <2>2. CASE x # r
    <3>1. WorkOK(e, x) /\ req'[x] = req[x] /\ G(e, x)' = G(e, x)
      BY <1>3, <1>4, <2>2 DEF Inv2, Worked
    <3>2. /\ Busy(e, x)' <=> Busy(e, x)
          /\ Active(x)' <=> Active(x)
          /\ Owns(e, x)' <=> Owns(e, x)
      BY <3>1 DEF Busy, Running, Active, Owns, CentralSkips, AgentOwns, Moves, Has
    <3> QED BY <3>1, <3>2 DEF WorkOK, Has
  <2> QED BY <2>1, <2>2
<1> QED BY <1>5, <1>6 DEF Requested, Worked

(* Steps that leave the goroutines alone, or end some.                     *)
LEMMA WorkStays ==
    ASSUME Inv2,
           \A x \in SR : /\ req'[x].ops = req[x].ops /\ req'[x].st = req[x].st /\ req'[x].node = req[x].node
                         /\ req'[x].sid \in {req[x].sid, None},
           \A e \in Daemon, x \in SR : G(e, x)' = G(e, x) \/ G(e, x)'.pc = "idle"
    PROVE  Requested' /\ Worked'
<1>1. ASSUME NEW x \in SR
      PROVE  RequestOK(x)'
  <2>1. RequestOK(x) BY DEF Inv2, Requested
  <2> QED BY <2>1 DEF RequestOK, Active, Moves, Has
<1>2. ASSUME NEW e \in Daemon, NEW x \in SR
      PROVE  WorkOK(e, x)'
  <2>1. CASE G(e, x)'.pc = "idle" BY <2>1 DEF WorkOK, Busy, Running
  <2>2. CASE G(e, x)' = G(e, x)
    <3>1. WorkOK(e, x) BY DEF Inv2, Worked
    <3>2. /\ Busy(e, x)' <=> Busy(e, x)
          /\ Active(x)' <=> Active(x)
          /\ Owns(e, x)' <=> Owns(e, x)
      BY <2>2 DEF Busy, Running, Active, Owns, CentralSkips, AgentOwns, Moves, Has
    <3> QED BY <2>2, <3>1, <3>2 DEF WorkOK, Has
  <2> QED BY <2>1, <2>2
<1> QED BY <1>1, <1>2 DEF Requested, Worked

\* Restarts, the startup cleanup and time: requests keep all but their link,
\* goroutines end.
LEMMA OthersAre ==
    ASSUME TypeOK,
           \/ Cleanup \/ CrashCentrald \/ (\E n \in Node : CrashAgentd(n))
           \/ (\E r \in SR : Expire(r)) \/ UNCHANGED vars
    PROVE  /\ \A x \in SR : /\ req'[x].ops = req[x].ops /\ req'[x].st = req[x].st
                            /\ req'[x].node = req[x].node
                            /\ req'[x].sid \in {req[x].sid, None}
           /\ \A e \in Daemon, x \in SR : G(e, x)' = G(e, x) \/ G(e, x)' = Idle
<1>1. CASE (\E r \in SR : Expire(r)) \/ UNCHANGED vars BY <1>1 DEF Expire, vars, G
<1>2. CASE CrashCentrald BY <1>2, ForgetIs DEF CrashCentrald
<1>3. CASE \E n \in Node : CrashAgentd(n) BY <1>3, ForgetIs DEF CrashAgentd
<1>4. CASE Cleanup
  <2>1. /\ UNCHANGED go
        /\ UNCHANGED req \/ \E r \in SR : Active(r) /\ req' = [req EXCEPT ![r].sid = None]
    BY <1>4 DEF Cleanup, releaseOrphanedCSPVolumes, makeProvisioningStorageUnprovisioned,
                deleteUnprovisionedStorage
  <2>2. ASSUME NEW r \in SR, req' = [req EXCEPT ![r].sid = None], NEW x \in SR
        PROVE  /\ req'[x].ops = req[x].ops /\ req'[x].st = req[x].st /\ req'[x].node = req[x].node
               /\ req'[x].sid \in {req[x].sid, None}
    <3>1. req \in [SR -> Requests] BY DEF TypeOK
    <3>2. req'[x] = IF x = r THEN [req[r] EXCEPT !.sid = None] ELSE req[x]
      BY <2>2, <3>1
    <3> QED BY <3>1, <3>2 DEF Requests
  <2>3. \A e \in Daemon, x \in SR : G(e, x)' = G(e, x) BY <2>1 DEF G
  <2> QED BY <2>1, <2>2, <2>3
<1> QED BY <1>1, <1>2, <1>3, <1>4

\* Every step keeps Inv2.
LEMMA Step2 == Inv2 /\ [Next]_vars => Inv2'
<1> SUFFICES ASSUME Inv2, [Next]_vars
             PROVE  Inv2'
  OBVIOUS
<1>1. Inv1' BY Step1 DEF Inv2
<1>2. CASE \/ Cleanup \/ CrashCentrald \/ (\E n \in Node : CrashAgentd(n))
           \/ (\E r \in SR : Expire(r)) \/ UNCHANGED vars
  <2>1. /\ \A x \in SR : /\ req'[x].ops = req[x].ops /\ req'[x].st = req[x].st
                         /\ req'[x].node = req[x].node
                         /\ req'[x].sid \in {req[x].sid, None}
        /\ \A e \in Daemon, x \in SR : G(e, x)' = G(e, x) \/ G(e, x)' = Idle
    BY <1>2, OthersAre DEF Inv2, Inv1
  <2>2. Idle.pc = "idle" BY DEF Idle
  <2>3. \A e \in Daemon, x \in SR : G(e, x)' = G(e, x) \/ G(e, x)'.pc = "idle"
    BY <2>1, <2>2
  <2>4. Requested' /\ Worked' BY <2>1, <2>3, WorkStays
  <2> QED BY <1>1, <2>4 DEF Inv2
<1>3. CASE \E r \in SR : StorageRequestCreate(r) \/ Central(r) \/ \E n \in Node : Agent(n, r)
  <2>1. Requested' /\ Worked' BY <1>3, WorkCreate, WorkCentral, WorkAgent
  <2> QED BY <1>1, <2>1 DEF Inv2
<1> QED BY <1>2, <1>3 DEF Next

\* Inv2 holds initially.
LEMMA Init2 == Init => Inv2
<1> SUFFICES ASSUME Init
             PROVE  Inv2
  OBVIOUS
<1>1. Inv1 /\ \A e \in Daemon, x \in SR : G(e, x) = Idle BY Init1 DEF Init, G
<1>2. \A x \in SR : req[x].st = None /\ req[x].sid = None BY DEF Init, NoRequest
<1>3. Requested BY <1>2 DEF Requested, RequestOK, Active, None, Has
<1>4. Worked BY <1>1 DEF Worked, WorkOK, Busy, Running, Idle
<1> QED BY <1>1, <1>3, <1>4 DEF Inv2

(* A request is worked on by one daemon at a time, although nothing but its *)
(* state and what it asks for tells the daemons whose turn it is.           *)
OneDaemon ==
    \A r \in SR : \A d, e \in Daemon : Busy(d, r) /\ Busy(e, r) => d = e

\* dispatchRequests of centrald and of agentd never work on one request
\* together (REATTACH excepted): the state that one of them writes is what
\* keeps the other away.
THEOREM OneDaemonCorrect == Spec => []OneDaemon
<1>1. Inv2 => OneDaemon BY OneOwner DEF OneDaemon
<1> QED BY <1>1, Init2, Step2, PTL DEF Spec

-----------------------------------------------------------------------------
(***************************************************************************)
(* Inv3: which storage a request and its goroutines hold, what the copy in *)
(* memory may say of it, and that no two requests hold the same.           *)
(***************************************************************************)

\* The storage of a request or goroutine is a Storage object or none.
LEMMA SidType ==
    ASSUME TypeOK, NEW d \in Daemon, NEW r \in SR
    PROVE  /\ req[r].sid \in Stg \cup {None} /\ G(d, r).sid \in Stg \cup {None}
           /\ None \notin Stg
BY GoType, SizesAssumption DEF TypeOK, Requests, Goroutines

(* A request that a step leaves alone.                                     *)
LEMMA OwnStays ==
    ASSUME Inv3, NEW q \in SR, req'[q] = req[q],
           \A e \in Daemon : \/ G(e, q)' = G(e, q) \/ G(e, q)'.pc = "idle"
                             \/ G(e, q)'.retry /\ ~Moves(q),
           \A s \in Stg : Holds(q, s) => stg'[s].prov = Prov(s),
           \A s \in Stg : stg'[s].prov = "PROVISIONING" => Prov(s) = "PROVISIONING" \/ req[q].sid # s
    PROVE  OwnOK(q)' /\ \A s \in Stg : Holds(q, s)' => Holds(q, s)
<1>0. TypeOK /\ OwnOK(q) BY DEF Inv3, Inv2, Inv1, Owned
<1>1. (Active(q)' <=> Active(q)) /\ (Moves(q)' <=> Moves(q))
      /\ (Has(q, "PROVISION")' <=> Has(q, "PROVISION")) /\ (Has(q, "RELEASE")' <=> Has(q, "RELEASE"))
  BY DEF Active, Moves, Has
<1>2. \A e \in Daemon : Running(e, q)' /\ (Moves(q) \/ ~G(e, q)'.retry)
                          => Running(e, q) /\ G(e, q)' = G(e, q)
  BY DEF Running
<1>3. \A e \in Daemon : Busy(e, q)' => Busy(e, q) /\ G(e, q)' = G(e, q)
  BY <1>1, <1>2 DEF Busy
<1>4. \A s \in Stg : Holds(q, s)' => Holds(q, s) BY <1>1, <1>3 DEF Holds
<1>5. LinkOK(q)'
  <2>1. CASE req[q].sid = None BY <2>1 DEF LinkOK
  <2>2. CASE req[q].sid # None
    <3>1. req[q].sid \in Stg /\ LinkOK(q)
      BY <1>0, <2>2, CentralIs, SidType DEF OwnOK
    <3>2. Active(q) => stg'[req[q].sid].prov = Prov(req[q].sid)
      BY <2>2, <3>1 DEF Holds
    <3>3. Prov(req[q].sid)' = stg'[req[q].sid].prov BY DEF Prov
    <3> QED BY <1>1, <3>1, <3>2, <3>3 DEF LinkOK
  <2> QED BY <2>1, <2>2
<1>6. ASSUME NEW e \in Daemon, Busy(e, q)', G(e, q).sid # None
      PROVE  Prov(G(e, q).sid)' = Prov(G(e, q).sid)
  <2>1. G(e, q).sid \in Stg /\ Holds(q, G(e, q).sid)
    BY <1>0, <1>3, <1>6, SidType DEF Holds
  <2>2. stg'[G(e, q).sid].prov = Prov(G(e, q).sid) /\ G(e, q)' = G(e, q)
    BY <1>3, <1>6, <2>1
  <2> QED BY <2>2 DEF Prov
<1>7. Busy(C, q)' /\ Fresh(q) => Fresh(q)'
  <2> SUFFICES ASSUME Busy(C, q)', Fresh(q) PROVE Fresh(q)' OBVIOUS
  <2>1. C \in Daemon /\ G(C, q)' = G(C, q) BY <1>3, CentralIs DEF C
  <2>2. Prov(G(C, q).sid)' = Prov(G(C, q).sid) BY <1>6, <2>1 DEF Fresh
  <2> QED BY <2>1, <2>2 DEF Fresh
<1>8. ASSUME NEW e \in Daemon
      PROVE  SidOK(e, q)'
  BY <1>0, <1>1, <1>2, <1>3, <1>7 DEF OwnOK, SidOK
<1>9. CentralOK(q)'
  <2> SUFFICES ASSUME Busy(C, q)' PROVE CentralOK(q)' BY DEF CentralOK
  <2>1. C \in Daemon /\ G(C, q)' = G(C, q) /\ CentralOK(q) /\ Busy(C, q)
    BY <1>0, <1>3, CentralIs DEF C, OwnOK
  <2>2. G(C, q).sid # None => Prov(G(C, q).sid)' = Prov(G(C, q).sid) BY <1>6, <2>1
  <2> DEFINE g == G(C, q)
  <2>3. MemOK(q, g) /\ ProvisioningOK(g) /\ CallOK(q, g) BY <2>1 DEF CentralOK
  <2>4. MemOK(q, G(C, q))' BY <1>1, <2>1, <2>2, <2>3 DEF MemOK, Made, Gone
  <2>5. ProvisioningOK(G(C, q))' BY <2>1, <2>2, <2>3 DEF ProvisioningOK
  <2>6. CallOK(q, G(C, q))' BY <1>7, <2>1, <2>2, <2>3 DEF CallOK
  <2> QED BY <2>4, <2>5, <2>6 DEF CentralOK
<1> QED BY <1>4, <1>5, <1>8, <1>9 DEF OwnOK

(* A step of one goroutine.                                                *)
LEMMA OwnFrame ==
    ASSUME Inv3, NEW d \in Daemon, NEW r \in SR, NEW h, Become(d, r, h), Others(r),
           \A s \in Stg : \/ stg'[s].prov = Prov(s)
                          \/ Holds(r, s) /\ stg'[s].prov # "PROVISIONING"
                          \/ Unused(s),
           \A s \in Stg : Holds(r, s)' => Holds(r, s) \/ Unused(s),
           OwnOK(r)'
    PROVE  Owned' /\ Apart'
<1>0. TypeOK BY DEF Inv3, Inv2, Inv1
<1>1. \A e \in Daemon, q \in SR : G(e, q)' = IF e = d /\ q = r THEN h ELSE G(e, q)
  BY <1>0 DEF TypeOK, Become, G
<1>2. ASSUME NEW q \in SR, NEW s \in Stg, Unused(s)
      PROVE  ~Holds(q, s) /\ req[q].sid # s
  BY <1>2 DEF Unused, Holds
<1>3. ASSUME NEW q \in SR, q # r
      PROVE  OwnOK(q)' /\ \A s \in Stg : Holds(q, s)' => Holds(q, s)
  <2>1. \A s \in Stg : Holds(q, s) => ~Holds(r, s) BY <1>3 DEF Inv3, Apart
  <2>2. \A s \in Stg : Holds(q, s) => stg'[s].prov = Prov(s) BY <1>2, <2>1
  <2>3. \A s \in Stg : stg'[s].prov = "PROVISIONING" => Prov(s) = "PROVISIONING" \/ req[q].sid # s
    BY <1>2
  <2>4. req'[q] = req[q] /\ \A e \in Daemon : G(e, q)' = G(e, q)
    BY <1>1, <1>3 DEF Others
  <2> QED BY <2>2, <2>3, <2>4, OwnStays
<1>4. Owned' BY <1>3 DEF Owned
<1>5. Apart'
  <2> SUFFICES ASSUME NEW p \in SR, NEW q \in SR, NEW s \in Stg, p # q, Holds(p, s)', Holds(q, s)'
               PROVE  FALSE
    BY DEF Apart
  <2>1. ~(Holds(p, s) /\ Holds(q, s)) BY DEF Inv3, Apart
  <2> QED BY <1>2, <1>3, <2>1
<1> QED BY <1>4, <1>5

\* What Inv3 says of one request.
LEMMA InThree ==
    ASSUME Inv3, NEW r \in SR
    PROVE  /\ TypeOK /\ Inv1 /\ Inv2 /\ OwnOK(r) /\ LinkOK(r) /\ CentralOK(r) /\ RequestOK(r)
           /\ \A d \in Daemon : /\ SidOK(d, r) /\ WorkOK(d, r) /\ Shape(d, req[r].ops, G(d, r))
                                /\ G(d, r) \in Goroutines
                                /\ Running(d, r) => req[r].st # None /\ req[r].ops \in Plans
           /\ C \in Daemon
BY GoType, CentralIs DEF Inv3, Inv2, Inv1, Owned, OwnOK, Requested, Worked, Shaped, Asked, C

(* Only a handler that creates storage works on storage its request is not *)
(* linked to.                                                              *)
LEMMA CallIsLinked ==
    ASSUME Inv3, NEW r \in SR, G(C, r).pc = "call", G(C, r).sub # "setIds"
    PROVE  G(C, r).sid = req[r].sid /\ ~Fresh(r)
<1>1. InState(C, req[r].ops, G(C, r)) /\ ~G(C, r).retry /\ (~G(C, r).back => ~G(C, r).err)
  BY InThree DEF Shape
<1>2. ~Fresh(r) BY <1>1 DEF Fresh, InState, Undoing
<1> QED BY <1>1, <1>2, InThree DEF SidOK, Busy, Running

\* A REATTACH comes alone.
LEMMA MovesOnly ==
    ASSUME Inv3, NEW r \in SR, Moves(r)
    PROVE  req[r].st # None /\ req[r].ops = {"REATTACH"}
<1>1. req[r].st # None BY DEF Moves, Has, Inv3, Inv2, Inv1, Asked, NoRequest
<1>2. req[r].ops \in Plans BY <1>1 DEF Inv3, Inv2, Inv1, Asked
<1> QED BY <1>1, <1>2, PlanFamily DEF Moves, Has

(* The handlers that attach, detach and remove the tag find storage that   *)
(* is provisioned no more, or not any longer being provisioned.            *)
LEMMA Settled ==
    ASSUME Inv3, NEW r \in SR, G(C, r).pc = "call", G(C, r).sub \notin ProvisionSubs,
           G(C, r).sub \notin ReleaseSubs, G(C, r).sid # None
    PROVE  Prov(G(C, r).sid) # "PROVISIONING"
<1>1. SubOf(G(C, r)) /\ ~G(C, r).retry BY InThree DEF Shape
<1>2. G(C, r).sid = req[r].sid BY CallIsLinked DEF ProvisionSubs
<1>3. CASE Moves(r) BY <1>2, <1>3, InThree DEF LinkOK
<1>4. CASE ~Moves(r)
  <2>1. Active(r) /\ G(C, r).st = req[r].st
    BY <1>1, <1>4, InThree DEF WorkOK, Busy, Running
  <2> QED BY <1>1, <1>2, <2>1, InThree DEF LinkOK, SubOf
<1> QED BY <1>3, <1>4

(* agentd works on storage that is no longer being provisioned.            *)
LEMMA AgentSettled ==
    ASSUME Inv3, NEW n \in Node, NEW r \in SR, Busy(n, r)
    PROVE  /\ Active(r) /\ (Has(r, "PROVISION") => req[r].st \notin Undoing)
           /\ req[r].sid # None => Prov(req[r].sid) # "PROVISIONING"
<1>1. n \in Daemon /\ n # C BY CentralIs DEF C
<1>2. Active(r) /\ AgentOwns(r) /\ ~Moves(r) BY <1>1, InThree DEF WorkOK, Owns, Busy
<1>3. Has(r, "PROVISION") => req[r].st \in {"FORMATTING", "USING"}
  BY <1>2 DEF AgentOwns, Has
<1>4. req[r].sid # None /\ Prov(req[r].sid) = "PROVISIONING" => FALSE
  <2> SUFFICES ASSUME req[r].sid # None, Prov(req[r].sid) = "PROVISIONING"
               PROVE  FALSE
    OBVIOUS
  <2>1. req[r].st \in {"PROVISIONING", UP} BY <1>2, InThree DEF LinkOK
  <2>2. req[r].st \in Serving(req[r].ops) BY <1>2, <2>1, InThree DEF RequestOK, UP
  <2> QED BY <1>3, <2>1, <2>2 DEF Serving, Has, UP
<1> QED BY <1>2, <1>3, <1>4 DEF Undoing

(* A step of agentd.                                                       *)
LEMMA OwnAgent ==
    ASSUME Inv3, NEW n \in Node, NEW r \in SR, NEW h, Become(n, r, h), Others(r),
           req'[r].ops = req[r].ops, req'[r].sid = req[r].sid, Active(r)' => Active(r),
           Busy(n, r) \/ (Moves(r) /\ Running(n, r)), \A s \in Stg : stg'[s].prov = Prov(s),
           h.pc = "idle" \/ h.sid = G(n, r).sid
    PROVE  Owned' /\ Apart'
<1>0. n \in Daemon /\ n # C /\ C \in Daemon BY CentralIs DEF C
<1>1. \A e \in Daemon, q \in SR : G(e, q)' = IF e = n /\ q = r THEN h ELSE G(e, q)
  BY <1>0, InThree DEF TypeOK, Become, G
<1>2. /\ Moves(r)' <=> Moves(r)
      /\ Has(r, "PROVISION")' <=> Has(r, "PROVISION")
  BY DEF Moves, Has
<1>3. G(n, r).sid = req[r].sid
  <2>1. CASE Busy(n, r) BY <1>0, <2>1, InThree DEF SidOK
  <2>2. CASE Moves(r) /\ Running(n, r) BY <1>0, <2>2, InThree DEF SidOK
  <2> QED BY <2>1, <2>2
<1>4. ~Busy(C, r)
  <2>1. CASE Busy(n, r) BY <1>0, <2>1, InThree, OneOwner
  <2>2. CASE Moves(r) BY <2>2 DEF Busy
  <2> QED BY <2>1, <2>2
<1>5. ~Busy(C, r)' BY <1>0, <1>1, <1>2, <1>4 DEF Busy, Running
<1>6. CentralOK(r)' BY <1>5 DEF CentralOK
<1>7. ASSUME NEW e \in Daemon
      PROVE  SidOK(e, r)'
  <2>1. CASE e = n BY <1>1, <1>3, <2>1 DEF SidOK, Busy, Running
  <2>2. CASE e # n
    <3>1. SidOK(e, r) /\ G(e, r)' = G(e, r) BY <1>1, <2>2, InThree
    <3>2. (Busy(e, r)' <=> Busy(e, r)) /\ (Running(e, r)' <=> Running(e, r))
      BY <1>2, <3>1 DEF Busy, Running
    <3> QED BY <1>2, <1>4, <3>1, <3>2 DEF SidOK
  <2> QED BY <2>1, <2>2
<1>8. LinkOK(r)'
  <2>1. CASE req[r].sid = None BY <2>1 DEF LinkOK
  <2>2. CASE req[r].sid # None
    <3>1. Prov(req[r].sid)' = Prov(req[r].sid) /\ LinkOK(r)
      BY <2>2, SidType, InThree DEF Prov
    <3>2. CASE Busy(n, r)
      <4>1. /\ Active(r) /\ (Has(r, "PROVISION") => req[r].st \notin Undoing) /\ ~Moves(r)
            /\ Prov(req[r].sid) # "PROVISIONING"
        BY <2>2, <3>2, AgentSettled DEF Busy
      <4> QED BY <1>2, <3>1, <4>1 DEF LinkOK
    <3>3. CASE Moves(r)
      <4>1. ~Has(r, "PROVISION") BY <3>3, MovesOnly DEF Has
      <4> QED BY <1>2, <3>1, <3>3, <4>1 DEF LinkOK
    <3> QED BY <3>2, <3>3
  <2> QED BY <2>1, <2>2
<1>9. OwnOK(r)' BY <1>6, <1>7, <1>8 DEF OwnOK
<1>10. ASSUME NEW s \in Stg, Holds(r, s)'
       PROVE  Holds(r, s)
  <2>1. CASE Active(r)' /\ req'[r].sid = s BY <1>10, <2>1 DEF Holds
  <2>2. CASE \E e \in Daemon : Busy(e, r)' /\ G(e, r)'.sid = s
    <3>1. PICK e \in Daemon : Busy(e, r)' /\ G(e, r)'.sid = s BY <2>2
    <3>2. CASE e = n
      <4>1. ~Moves(r) /\ G(n, r).sid = s BY <1>1, <1>2, <3>1, <3>2 DEF Busy, Running
      <4> QED BY <1>0, <1>10, <4>1 DEF Holds
    <3>3. CASE e # n
      <4>1. Busy(e, r) /\ G(e, r).sid = s
        BY <1>1, <1>2, <3>1, <3>3 DEF Busy, Running
      <4> QED BY <1>10, <4>1 DEF Holds
    <3> QED BY <3>2, <3>3
  <2> QED BY <1>10, <2>1, <2>2 DEF Holds
<1> QED BY <1>0, <1>9, <1>10, OwnFrame

\* What Inv3 says of a goroutine of centrald that works on.
LEMMA GoIsOK ==
    ASSUME Inv3, NEW r \in SR, Busy(C, r)
    PROVE  GoOK(r, G(C, r)) /\ Active(r) /\ G(C, r).st = req[r].st /\ ~Moves(r)
BY InThree DEF GoOK, CentralOK, SidOK, WorkOK, Busy

\* A step of centrald on a request keeps this layer if it provisions nothing
\* that is not its own and what it holds afterwards it held before, or was
\* unused.
LEMMA OwnCentral ==
    ASSUME Inv3, NEW r \in SR, NEW h, Become(C, r, h), Others(r), req'[r].ops = req[r].ops,
           Busy(C, r) \/ (Moves(r) /\ Running(C, r)), Active(r)' => Active(r),
           \A s \in Stg : \/ stg'[s].prov = Prov(s)
                          \/ Busy(C, r) /\ G(C, r).sid = s /\ stg'[s].prov # "PROVISIONING"
                          \/ Unused(s),
           req'[r].sid = req[r].sid \/ (Busy(C, r) /\ req'[r].sid = G(C, r).sid),
           h.pc = "idle" \/ h.sid = G(C, r).sid \/ (Busy(C, r) /\ Unused(h.sid)),
           LinkOK(r)',
           ~Moves(r) /\ h.pc # "idle" /\ ~h.retry => GoOK(r, h)'
    PROVE  Owned' /\ Apart'
<1>0. C \in Daemon BY CentralIs DEF C
<1>1. \A e \in Daemon, q \in SR : G(e, q)' = IF e = C /\ q = r THEN h ELSE G(e, q)
  BY <1>0, InThree DEF TypeOK, Become, G
<1>2. Moves(r)' <=> Moves(r) BY DEF Moves, Has
<1>3. CentralOK(r)'
  <2> SUFFICES ASSUME Busy(C, r)' PROVE CentralOK(r)' BY DEF CentralOK
  <2>1. G(C, r)' = h BY <1>0, <1>1
  <2>2. ~Moves(r) /\ h.pc # "idle" /\ ~h.retry BY <1>2, <2>1 DEF Busy, Running
  <2> QED BY <2>1, <2>2 DEF CentralOK, GoOK
<1>4. ASSUME NEW e \in Daemon
      PROVE  SidOK(e, r)'
  <2>1. CASE e = C
    <3>1. G(C, r)' = h BY <1>0, <1>1
    <3>2. Busy(C, r)' => h.sid = req'[r].sid \/ Fresh(r)'
      <4> SUFFICES ASSUME Busy(C, r)' PROVE h.sid = req'[r].sid \/ Fresh(r)' OBVIOUS
      <4>1. ~Moves(r) /\ h.pc # "idle" /\ ~h.retry BY <1>2, <3>1 DEF Busy, Running
      <4> QED BY <4>1 DEF GoOK
    <3>3. Running(C, r)' /\ Moves(r)' => h.sid = req'[r].sid
      <4> SUFFICES ASSUME Running(C, r)', Moves(r) PROVE h.sid = req'[r].sid BY <1>2
      <4>1. ~Busy(C, r) /\ Running(C, r) /\ h.pc # "idle" BY <3>1 DEF Busy, Running
      <4>2. G(C, r).sid = req[r].sid BY <1>0, <4>1, InThree DEF SidOK
      <4> QED BY <4>1, <4>2
    <3> QED BY <2>1, <3>1, <3>2, <3>3 DEF SidOK
  <2>2. CASE e # C
    <3>1. SidOK(e, r) /\ G(e, r)' = G(e, r) BY <1>1, <2>2, InThree
    <3>2. (Busy(e, r)' <=> Busy(e, r)) /\ (Running(e, r)' <=> Running(e, r))
      BY <1>2, <3>1 DEF Busy, Running
    <3>3. Busy(C, r) => ~Busy(e, r) /\ ~Moves(r)
      BY <1>0, <2>2, InThree, OneOwner DEF Busy
    <3> QED BY <1>2, <2>2, <3>1, <3>2, <3>3 DEF SidOK
  <2> QED BY <2>1, <2>2
<1>5. OwnOK(r)' BY <1>3, <1>4 DEF OwnOK
<1>6. ASSUME NEW s \in Stg, Holds(r, s)'
      PROVE  Holds(r, s) \/ Unused(s)
  <2>1. CASE Active(r)' /\ req'[r].sid = s BY <1>0, <1>6, <2>1 DEF Holds
  <2>2. CASE \E e \in Daemon : Busy(e, r)' /\ G(e, r)'.sid = s
    <3>1. PICK e \in Daemon : Busy(e, r)' /\ G(e, r)'.sid = s BY <2>2
    <3>2. CASE e = C
      <4>1. ~Moves(r) /\ h.pc # "idle" /\ h.sid = s
        BY <1>1, <1>2, <3>1, <3>2 DEF Busy, Running
      <4> QED BY <1>0, <1>6, <4>1 DEF Holds
    <3>3. CASE e # C
      <4>1. Busy(e, r) /\ G(e, r).sid = s
        BY <1>1, <1>2, <3>1, <3>3 DEF Busy, Running
      <4> QED BY <1>6, <4>1 DEF Holds
    <3> QED BY <3>2, <3>3
  <2> QED BY <1>6, <2>1, <2>2 DEF Holds
<1>7. \A s \in Stg : \/ stg'[s].prov = Prov(s)
                     \/ Holds(r, s) /\ stg'[s].prov # "PROVISIONING"
                     \/ Unused(s)
  <2> SUFFICES ASSUME NEW s \in Stg, stg'[s].prov # Prov(s), ~Unused(s)
               PROVE  Holds(r, s) /\ stg'[s].prov # "PROVISIONING"
    OBVIOUS
  <2>1. Busy(C, r) /\ G(C, r).sid = s /\ stg'[s].prov # "PROVISIONING" /\ s # None
    BY SizesAssumption
  <2> QED BY <1>0, <2>1 DEF Holds
<1> QED BY <1>0, <1>5, <1>6, <1>7, OwnFrame

(* A request of which neither the link nor the state is changed.           *)
LEMMA LinkKept ==
    ASSUME Inv3, NEW r \in SR, req'[r].ops = req[r].ops, req'[r].sid = req[r].sid,
           Active(r)' => Active(r), req'[r].st = req[r].st \/ Moves(r) \/ ~Active(r)',
           req[r].sid # None => stg'[req[r].sid].prov = Prov(req[r].sid)
    PROVE  LinkOK(r)'
<1>1. LinkOK(r) /\ (Moves(r)' <=> Moves(r)) /\ (Has(r, "PROVISION")' <=> Has(r, "PROVISION"))
  BY InThree DEF Moves, Has
<1>2. CASE req[r].sid = None BY <1>2 DEF LinkOK
<1>3. CASE req[r].sid # None
  <2>1. Prov(req[r].sid)' = Prov(req[r].sid) BY <1>3 DEF Prov
  <2>2. Moves(r) => ~Has(r, "PROVISION") BY MovesOnly DEF Has
  <2> QED BY <1>1, <1>3, <2>1, <2>2 DEF LinkOK
<1> QED BY <1>2, <1>3

(* Storage is still not linked.                                            *)
LEMMA FreshKept ==
    ASSUME Inv3, NEW r \in SR, Fresh(r), NEW h, Become(C, r, h), req'[r].sid = req[r].sid,
           stg'[G(C, r).sid].prov = Prov(G(C, r).sid),
           h.sid = G(C, r).sid, h.st = G(C, r).st, ~h.noid,
           h.err
    PROVE  Fresh(r)'
<1>1. G(C, r)' = h BY InThree DEF TypeOK, Become, G
<1>2. G(C, r).sid # None /\ req[r].sid = None /\ G(C, r).st = "PROVISIONING"
      /\ Prov(G(C, r).sid) = "PROVISIONING"
  BY DEF Fresh
<1>3. Prov(h.sid)' = "PROVISIONING" BY <1>2 DEF Prov
<1> QED BY <1>1, <1>2, <1>3 DEF Fresh

(* A goroutine that only returns.                                          *)
LEMMA OwnReturns ==
    ASSUME Inv3, NEW d \in Daemon, NEW r \in SR, NEW h, Become(d, r, h), UNCHANGED <<req, stg>>,
           h.pc = "idle" \/ (h.retry /\ ~Moves(r))
    PROVE  Owned' /\ Apart'
<1>1. \A e \in Daemon, q \in SR : G(e, q)' = IF e = d /\ q = r THEN h ELSE G(e, q)
  BY InThree DEF TypeOK, Become, G
<1>2. ASSUME NEW q \in SR
      PROVE  OwnOK(q)' /\ \A s \in Stg : Holds(q, s)' => Holds(q, s)
  <2>1. \A e \in Daemon : \/ G(e, q)' = G(e, q) \/ G(e, q)'.pc = "idle"
                          \/ G(e, q)'.retry /\ ~Moves(q)
    BY <1>1
  <2>2. \A s \in Stg : stg'[s].prov = Prov(s) BY DEF Prov
  <2>3. req'[q] = req[q] OBVIOUS
  <2> QED BY <2>1, <2>2, <2>3, OwnStays
<1> QED BY <1>2 DEF Owned, Apart, Inv3

(* A turn of centrald, the end of a goroutine.                             *)
LEMMA OwnTurn ==
    ASSUME Inv3, NEW d \in Daemon, NEW r \in SR, Turn(d, r)
    PROVE  Owned' /\ Apart'
<1> DEFINE g == G(d, r)
<1>1. PICK h : Goes(d, r, h) /\ TurnIs(d, r, h) BY ShapeTurn, InThree
<1>2. KeepsRequests /\ UNCHANGED <<req, stg>> /\ Running(d, r) BY ShapeTurn, InThree
<1>3. Become(d, r, h) /\ Others(r) /\ req'[r] = req[r] /\ (Active(r)' <=> Active(r))
  BY <1>1, <1>2 DEF Goes, Others, Active
<1>4. \A s \in Stg : stg'[s].prov = Prov(s) BY <1>2 DEF Prov
<1>5. h = Idle \/ Kept(g, h) BY <1>1 DEF TurnIs
<1>6. h.pc = "idle" \/ h.sid = g.sid BY <1>5 DEF Idle, Kept
<1>7. CASE Busy(d, r) \/ Moves(r)
  <2>1. CASE d \in Node BY <1>2, <1>3, <1>4, <1>6, <1>7, <2>1, OwnAgent
  <2>2. CASE d = C
    <3>1. LinkOK(r)'
      <4>1. req[r].sid # None => stg'[req[r].sid].prov = Prov(req[r].sid)
        BY <1>4, SidType, InThree
      <4> QED BY <1>3, <4>1, LinkKept
    <3>2. ASSUME ~Moves(r), h.pc # "idle", ~h.retry
          PROVE  GoOK(r, h)'
      <4>0. Kept(g, h) /\ ~g.retry /\ Busy(C, r)
        BY <1>5, <1>7, <2>2, <3>2 DEF Idle, Kept
      <4>1. GoOK(r, g) BY <2>2, <4>0, GoIsOK
      <4>2. h.sid = req'[r].sid \/ Fresh(r)'
        <5>1. CASE Fresh(r)
          <6>0. Shape(C, req[r].ops, g) BY <2>2, InThree
          <6>1. g.st = "PROVISIONING" /\ ~g.noid /\ (g.err \/ g.pc = "call") /\ req[r].sid = None /\ g.sid # None
                /\ Prov(g.sid) = "PROVISIONING"
            BY <2>2, <5>1 DEF Fresh
          <6>2. g.pc # "call"
            BY <1>1, <3>2 DEF TurnIs, TurnsBack, HandsBack, Ends, Turns, Idle
          <6>3. h.err /\ ~h.noid /\ h.sid = g.sid /\ h.st = g.st
            BY <4>0, <6>1, <6>2 DEF Kept
          <6>4. stg'[g.sid].prov = Prov(g.sid) BY <1>2 DEF Prov
          <6> QED BY <1>3, <2>2, <5>1, <6>3, <6>4, FreshKept
        <5>2. CASE ~Fresh(r) BY <1>3, <4>0, <4>1, <5>2 DEF GoOK, Kept
        <5> QED BY <5>1, <5>2
      <4>3. h.sid = g.sid /\ h.mem = g.mem /\ (h.err <=> g.err) BY <4>0 DEF Kept
      <4>4. /\ h.pc # "call" /\ g.pc # "call"
            /\ g.back => h.back
            /\ h.pc # "final" => g.pc # "final"
            /\ Only(g.undo, {UP}) => (h.pc # "final" => Only(h.undo, {UP}))
            /\ h.back => (Only(g.undo, {UP}) /\ (g.back => Only(g.todo, {UP}))
                             => (h.pc # "final" => Only(h.todo, {UP})))
            /\ ~(~h.back /\ h.pc = "next")
        BY <1>1, <2>2, <3>2, OnlyEmpty DEF TurnIs, TurnsBack, HandsBack, Ends, Turns, Idle
      <4>5. Prov(h.sid)' = Prov(h.sid) /\ (Has(r, "RELEASE")' <=> Has(r, "RELEASE"))
        BY <1>2, <1>3 DEF Prov, Has
      <4>6. MemOK(r, h)' BY <4>1, <4>3, <4>4, <4>5 DEF GoOK, MemOK, Made, Gone
      <4>7. ProvisioningOK(h)' BY <4>1, <4>3, <4>4, <4>5 DEF GoOK, ProvisioningOK
      <4>8. CallOK(r, h)' BY <4>4 DEF CallOK
      <4> QED BY <4>2, <4>6, <4>7, <4>8 DEF GoOK
    <3> QED BY <1>2, <1>3, <1>4, <1>6, <1>7, <2>2, <3>1, <3>2, OwnCentral
  <2> QED BY <2>1, <2>2 DEF Daemon, C
<1>8. CASE ~Busy(d, r) /\ ~Moves(r)
  <2>1. h.pc = "idle" \/ h.retry BY <1>2, <1>5, <1>8 DEF Busy, Idle, Kept
  <2> QED BY <1>2, <1>3, <1>8, <2>1, OwnReturns
<1> QED BY <1>7, <1>8

(* centrald goes on to the next state.                                     *)
LEMMA EnteredOK ==
    ASSUME Inv3, NEW r \in SR, Busy(C, r), G(C, r).pc = "next", G(C, r).todo # <<>>,
           NEW h, NEW st, st = Head(G(C, r).todo), Entered(C, r, G(C, r), st, h), ~h.retry, UNCHANGED stg,
           req'[r].ops = req[r].ops, req'[r].sid = G(C, r).sid
    PROVE  GoOK(r, h)'
<1> DEFINE g == G(C, r)
<1>0. /\ Shape(C, req[r].ops, g) /\ Lists(C, req[r].ops, g) /\ GoOK(r, g) /\ g \in Goroutines
      /\ g.todo \in Seq(States) /\ req[r].ops \in Plans /\ g.sid \in Stg \cup {None} /\ None \notin Stg
  <2>1. /\ Shape(C, req[r].ops, g) /\ GoOK(r, g) /\ g \in Goroutines
        /\ req[r].ops \in Plans
    BY InThree, GoIsOK DEF Busy
  <2> QED BY <2>1, SizesAssumption DEF Shape, Goroutines
<1>1. /\ h.sid = g.sid /\ h.mem = g.mem /\ (h.back <=> g.back) /\ h.todo = Tail(g.todo)
      /\ g.err => h.err
  BY DEF Entered
<1>2. /\ Prov(h.sid)' = Prov(h.sid) /\ (Has(r, "RELEASE")' <=> Has(r, "RELEASE"))
  BY DEF Prov, Has
<1>3. h.sid = req'[r].sid BY <1>1
<1>4. MemOK(r, h)' BY <1>0, <1>1, <1>2 DEF GoOK, MemOK, Made, Gone
<1>5. st \in Serving(req[r].ops) /\ (~g.back => st \notin Undoing) /\ (g.back => st \in Undoing)
  <2>1. st \in IF g.back THEN Undoing \cap Serving(req[r].ops) ELSE Serving(req[r].ops) \ Undoing
    BY <1>0, OnlyTail DEF Lists
  <2> QED BY <2>1
<1>6. ~g.back => ~g.err /\ g.sid = req[r].sid /\ g.st \notin Undoing /\ g.st = req[r].st /\ Active(r)
  <2> SUFFICES ASSUME ~g.back
               PROVE  ~g.err /\ g.sid = req[r].sid /\ g.st \notin Undoing /\ g.st = req[r].st /\ Active(r)
    OBVIOUS
  <2>1. ~g.err /\ g.st \notin Undoing BY <1>0 DEF Shape, Fails
  <2>2. ~Fresh(r) BY <2>1 DEF Fresh
  <2> QED BY <1>0, <2>1, <2>2, GoIsOK DEF GoOK
<1>7. st = "PROVISIONING" /\ g.sid # None => Prov(g.sid) \in {"PROVISIONING", "PROVISIONED"} /\ g.mem.prov = Prov(g.sid)
  <2> SUFFICES ASSUME st = "PROVISIONING", g.sid # None
               PROVE  Prov(g.sid) \in {"PROVISIONING", "PROVISIONED"} /\ g.mem.prov = Prov(g.sid)
    OBVIOUS
  <2>1. ~g.back /\ Has(r, "PROVISION") BY <1>5 DEF Undoing, Serving, Has
  <2>2. Prov(g.sid) \in {"PROVISIONING", "PROVISIONED"}
    BY <1>6, <2>1, InThree DEF LinkOK
  <2>3. ~Made(g) BY <1>6, <2>1 DEF Made
  <2>4. ~Gone(r, g) BY <2>2 DEF Gone, None
  <2> QED BY <1>0, <2>2, <2>3, <2>4 DEF GoOK, MemOK
<1>8. ProvisioningOK(h)'
  <2> SUFFICES ASSUME h.sid # None, Prov(h.sid) = "PROVISIONING", h.pc # "final"
               PROVE  /\ Only(h.undo, {UP})
                      /\ h.back => Only(h.todo, {UP})
                      /\ ~h.back /\ h.pc = "next" /\ h.todo # <<>> => Head(h.todo) = "PROVISIONING"
    BY <1>2 DEF ProvisioningOK
  <2>1. /\ Only(g.undo, {UP})
        /\ g.back => Only(g.todo, {UP})
        /\ ~g.back => st = "PROVISIONING"
    BY <1>0, <1>1 DEF GoOK, ProvisioningOK
  <2>2. CASE g.back
    <3>1. Only(h.todo, {UP}) BY <1>0, <1>1, <2>1, <2>2, OnlyTail
    <3>2. h.undo = g.undo BY <2>2 DEF Entered
    <3> QED BY <1>1, <2>1, <2>2, <3>1, <3>2
  <2>3. CASE ~g.back
    <3>1. st = "PROVISIONING" /\ g.mem.prov = "PROVISIONING"
      BY <1>1, <1>7, <2>1, <2>3
    <3>4. FirstSub(C, st, g.mem) = ProvisionFirst(g.mem) BY <3>1 DEF FirstSub, C
    <3>2. FirstSub(C, st, g.mem) = "createCSPVolume"
      BY <3>1, <3>4 DEF ProvisionFirst, None
    <3>3. h.pc = "call" /\ h.undo = g.undo BY <3>2 DEF Entered, None
    <3> QED BY <1>1, <2>1, <2>3, <3>3
  <2> QED BY <2>2, <2>3
<1>9. CallOK(r, h)'
  <2> SUFFICES ASSUME h.pc = "call"
               PROVE  CallOK(r, h)'
    BY DEF CallOK
  <2>1. h.sub = FirstSub(C, st, g.mem) /\ h.sub # None BY DEF Entered
  <2>2. CASE st = "PROVISIONING"
    <3>1. h.sub = ProvisionFirst(g.mem) BY <2>1, <2>2 DEF FirstSub, C
    <3>2. CASE g.sid = None
      <4>1. h.sub = "getCapacity"
        BY <1>0, <3>1, <3>2 DEF GoOK, MemOK, ProvisionFirst, None
      <4> QED BY <1>1, <3>2, <4>1 DEF CallOK
    <3>3. CASE g.sid # None
      <4>1. h.sub = "createCSPVolume" /\ Prov(h.sid) = "PROVISIONING"
        BY <1>1, <1>7, <2>1, <2>2, <3>1, <3>3 DEF ProvisionFirst, None
      <4> QED BY <1>1, <1>2, <1>3, <3>3, <4>1 DEF CallOK
    <3> QED BY <3>2, <3>3
  <2>3. CASE st # "PROVISIONING"
    <3>1. h.sub \notin ProvisionSubs BY <2>1, <2>3, FirstSubs DEF C
    <3> QED BY <3>1 DEF CallOK, ProvisionSubs
  <2> QED BY <2>2, <2>3
<1> QED BY <1>3, <1>4, <1>8, <1>9 DEF GoOK

(* centrald could not write the next state.                                *)
LEMMA StoppedOK ==
    ASSUME Inv3, NEW r \in SR, Busy(C, r), G(C, r).pc = "next",
           NEW h, Become(C, r, h), Stopped(G(C, r), h), ~h.retry, UNCHANGED <<req, stg>>
    PROVE  GoOK(r, h)'
<1> DEFINE g == G(C, r)
<1>0. GoOK(r, g) BY GoIsOK
<1>1. /\ h.sid = g.sid /\ h.mem = g.mem /\ (h.back <=> g.back) /\ h.todo = <<>> /\ h.undo = g.undo
      /\ h.err /\ h.pc \in {"next", "turn"} /\ h.st = g.st /\ (h.noid <=> g.noid)
  BY DEF Stopped
<1>2. /\ Prov(h.sid)' = Prov(h.sid) /\ (Has(r, "RELEASE")' <=> Has(r, "RELEASE"))
  BY DEF Prov, Has
<1>3. h.sid = req'[r].sid \/ Fresh(r)'
  <2>1. CASE Fresh(r)
    <3>1. ~h.noid /\ stg'[g.sid].prov = Prov(g.sid) BY <1>1, <2>1 DEF Fresh, Prov
    <3> QED BY <1>1, <2>1, <3>1, FreshKept
  <2>2. CASE ~Fresh(r) BY <1>0, <1>1, <2>2 DEF GoOK
  <2> QED BY <2>1, <2>2
<1>4. MemOK(r, h)' BY <1>0, <1>1, <1>2 DEF GoOK, MemOK, Made, Gone
<1>5. ProvisioningOK(h)' BY <1>0, <1>1, <1>2, OnlyEmpty DEF GoOK, ProvisioningOK
<1>6. CallOK(r, h)' BY <1>1 DEF CallOK
<1> QED BY <1>3, <1>4, <1>5, <1>6 DEF GoOK

(* The link of a request of which centrald writes the next state.          *)
LEMMA NextLinked ==
    ASSUME Inv3, NEW r \in SR, Busy(C, r), G(C, r).pc = "next", G(C, r).todo # <<>>,
           NEW st, st = Head(G(C, r).todo),
           Writes(C, r, G(C, r), st), UNCHANGED stg
    PROVE  LinkOK(r)' /\ req'[r].sid = G(C, r).sid
<1> DEFINE g == G(C, r)
<1>0. /\ Shape(C, req[r].ops, g) /\ Lists(C, req[r].ops, g) /\ GoOK(r, g) /\ g \in Goroutines
      /\ g.todo \in Seq(States) /\ Active(r) /\ g.st = req[r].st
  <2>1. /\ Shape(C, req[r].ops, g) /\ GoOK(r, g) /\ g \in Goroutines
    BY InThree, GoIsOK DEF Busy
  <2> QED BY <2>1, GoIsOK DEF Shape, Goroutines
<1>1. /\ req'[r].st = st /\ req'[r].ops = req[r].ops
      /\ req'[r].sid = (IF ~g.noid THEN g.sid ELSE req[r].sid)
  BY WrittenIs, InThree
<1>2. req'[r].sid = g.sid BY <1>0, <1>1 DEF GoOK, Fresh
<1>3. (~g.back => st \notin Undoing) /\ (g.back => st \in Undoing) /\ (g.back => \A S : Only(g.todo, S) => st \in S)
  <2>1. st \in IF g.back THEN Undoing \cap Serving(req[r].ops) ELSE Serving(req[r].ops) \ Undoing
    BY <1>0, OnlyTail DEF Lists
  <2>2. \A S : Only(g.todo, S) => st \in S BY <1>0, OnlyTail
  <2> QED BY <2>1, <2>2
<1>4. LinkOK(r)'
  <2>1. CASE g.sid = None BY <1>2, <2>1 DEF LinkOK
  <2>2. CASE g.sid # None
    <3>3. Prov(req[r].sid)' = Prov(g.sid) BY <1>2 DEF Prov
    <3>4. Prov(g.sid) = "PROVISIONING" => st \in {"PROVISIONING", UP}
      <4> SUFFICES ASSUME Prov(g.sid) = "PROVISIONING" PROVE st \in {"PROVISIONING", UP}
        OBVIOUS
      <4>1. /\ g.back => Only(g.todo, {UP})
            /\ ~g.back => st = "PROVISIONING"
        BY <1>0, <2>2 DEF GoOK, ProvisioningOK
      <4> QED BY <1>3, <4>1
    <3>5. Fresh(r) => Prov(g.sid) = "PROVISIONING" BY DEF Fresh
    <3>6. Prov(g.sid) # "UNPROVISIONED"
      BY <1>0, <2>2, <3>5, InThree DEF GoOK, LinkOK
    <3>7. Has(r, "PROVISION") /\ st \notin Undoing => Prov(g.sid) \in {"PROVISIONING", "PROVISIONED"}
      <4> SUFFICES ASSUME Has(r, "PROVISION"), st \notin Undoing
                   PROVE  Prov(g.sid) \in {"PROVISIONING", "PROVISIONED"}
        OBVIOUS
      <4>1. ~g.back BY <1>3
      <4>2. req[r].st \notin Undoing BY <1>0, <4>1 DEF Shape
      <4> QED BY <1>0, <2>2, <3>5, <4>2, InThree DEF GoOK, LinkOK
    <3>8. ~Moves(r)' BY <1>1, GoIsOK DEF Moves, Has
    <3>9. Has(r, "PROVISION")' <=> Has(r, "PROVISION") BY <1>1 DEF Has
    <3> HIDE DEF g
    <3> QED BY <1>1, <3>3, <3>4, <3>6, <3>7, <3>8, <3>9 DEF LinkOK
  <2> QED BY <2>1, <2>2
<1> QED BY <1>2, <1>4

\* The update that writes a state writes the storage that the goroutine has.
LEMMA OwnNext ==
    ASSUME Inv3, NEW d \in Daemon, NEW r \in SR, NextState(d, r)
    PROVE  Owned' /\ Apart'
<1> DEFINE g == G(d, r)
           st == Head(g.todo)
<1>1. PICK h : Goes(d, r, h) /\ NextIs(d, r, h) BY ShapeNext, InThree
<1>2. KeepsRequests /\ UNCHANGED stg /\ Running(d, r) /\ g.pc = "next" /\ g.todo # <<>> /\ ~g.retry
  BY ShapeNext, InThree DEF NextState
<1>3. Busy(d, r) \/ Moves(r) BY <1>2 DEF Busy
<1>4. Become(d, r, h) /\ req'[r].ops = req[r].ops
  BY <1>1, <1>2 DEF Goes, KeepsRequests
<1>5. h.sid = g.sid BY <1>1 DEF NextIs, Stopped, Entered
<1>6. \A s \in Stg : stg'[s].prov = Prov(s) BY <1>2 DEF Prov
<1>7. CASE UNCHANGED req
  <2>1. Others(r) /\ (Active(r)' <=> Active(r)) BY <1>7 DEF Others, Active
  <2>2. CASE d \in Node BY <1>2, <1>3, <1>4, <1>5, <1>6, <1>7, <2>1, <2>2, OwnAgent
  <2>3. CASE d = C
    <3>1. LinkOK(r)'
      <4>1. req[r].sid # None => stg'[req[r].sid].prov = Prov(req[r].sid)
        BY <1>6, SidType, InThree
      <4> QED BY <1>7, <2>1, <4>1, LinkKept
    <3>2. ASSUME ~Moves(r), h.pc # "idle", ~h.retry
          PROVE  GoOK(r, h)'
      <4>0. Busy(C, r) BY <1>3, <2>3, <3>2
      <4>1. CASE Stopped(g, h)
        BY <1>2, <1>4, <1>7, <2>3, <3>2, <4>0, <4>1, StoppedOK
      <4>2. CASE Entered(C, r, g, st, h) /\ st = g.st
        <5>1. ~Fresh(r)
          <6> SUFFICES ASSUME Fresh(r) PROVE FALSE OBVIOUS
          <6>1. /\ g.st = "PROVISIONING" /\ g.err /\ g.sid # None /\ Prov(g.sid) = "PROVISIONING"
            BY <1>2, <2>3 DEF Fresh
          <6>2. g.back /\ g.todo \in Seq(States)
            BY <1>2, <2>3, <6>1, InThree DEF Shape, Fails, Goroutines
          <6>3. Only(g.todo, {UP})
            BY <1>2, <2>3, <4>0, <6>1, <6>2, GoIsOK DEF GoOK, ProvisioningOK
          <6>4. st = UP BY <1>2, <6>2, <6>3, OnlyTail
          <6> QED BY <4>2, <6>1, <6>4 DEF UP
        <5>2. req'[r].sid = g.sid BY <1>7, <2>3, <4>0, <5>1, GoIsOK DEF GoOK
        <5> QED BY <1>2, <1>4, <2>3, <3>2, <4>0, <4>2, <5>2, EnteredOK
      <4>3. Stopped(g, h) \/ (Entered(C, r, g, st, h) /\ (st = g.st \/ ~UNCHANGED req))
            \/ (Entered(C, r, g, st, h) /\ Writes(C, r, g, st) /\ UNCHANGED req)
        BY <1>1, <2>3 DEF NextIs, Writes
      <4>4. CASE Entered(C, r, g, st, h) /\ Writes(C, r, g, st)
        <5>1. req'[r].sid = g.sid BY <1>2, <2>3, <4>0, <4>4, NextLinked
        <5> QED BY <1>2, <1>4, <2>3, <3>2, <4>0, <4>4, <5>1, EnteredOK
      <4> QED BY <1>7, <4>1, <4>2, <4>3, <4>4
    <3> QED BY <1>2, <1>3, <1>4, <1>5, <1>6, <1>7, <2>1, <2>3, <3>1, <3>2, OwnCentral
  <2> QED BY <2>2, <2>3 DEF Daemon, C
<1>8. CASE Entered(d, r, g, st, h) /\ Writable(d, r, g) /\ Writes(d, r, g, st)
  <2>1. Others(r) /\ Active(r) /\ req'[r].sid = (IF d = C /\ ~g.noid THEN g.sid ELSE req[r].sid)
    BY <1>8, WrittenIs, InThree DEF Writable
  <2>2. CASE d \in Node
    <3>1. req'[r].sid = req[r].sid BY <2>1, <2>2, CentralIs DEF C
    <3> QED BY <1>2, <1>3, <1>4, <1>5, <1>6, <2>1, <2>2, <3>1, OwnAgent
  <2>3. CASE d = C /\ Busy(C, r)
    <3>1. LinkOK(r)' /\ req'[r].sid = g.sid BY <1>2, <1>8, <2>3, NextLinked
    <3>2. ~h.retry => GoOK(r, h)' BY <1>2, <1>4, <1>8, <2>3, <3>1, EnteredOK
    <3> QED BY <1>2, <1>4, <1>5, <1>6, <2>1, <2>3, <3>1, <3>2, OwnCentral
  <2>4. CASE d = C /\ Moves(r)
    <3>1. req'[r].sid = req[r].sid BY <1>2, <2>1, <2>4, InThree DEF SidOK
    <3>2. LinkOK(r)'
      <4>1. req[r].sid # None => stg'[req[r].sid].prov = Prov(req[r].sid)
        BY <1>6, SidType, InThree
      <4> QED BY <1>4, <2>1, <2>4, <3>1, <4>1, LinkKept
    <3> QED BY <1>2, <1>4, <1>5, <1>6, <2>1, <2>4, <3>1, <3>2, OwnCentral
  <2> QED BY <1>3, <2>2, <2>3, <2>4 DEF Daemon, C
<1> QED BY <1>1, <1>7, <1>8 DEF NextIs, Writes

\* StorageUpdate: saved and copied back, or nothing.
LEMMA UpdateIs ==
    ASSUME TypeOK, NEW d \in Daemon, NEW r \in SR, NEW new \in Storage, NEW ok \in Goroutines,
           NEW failed, StorageUpdate(d, r, new, ok, failed)
    PROVE  \/ \E m, h : Saved(d, r, new, m) /\ Copies(ok, m, h) /\ Become(d, r, h)
           \/ UNCHANGED stg /\ Become(d, r, failed)
<1> DEFINE s == G(d, r).sid
           vv == IF G(d, r).sub = "setProvisioned" THEN new.vol ELSE stg[s].vol
           saved == [new EXCEPT !.vol = vv]
<1>1. G(d, r).sid \in Stg \cup {None} /\ G(d, r) \in Goroutines
  BY GoType DEF Goroutines
<1>2. \/ /\ Exists(s) /\ stg[s].prov \in {G(d, r).mem.prov, "PROVISIONING"}
         /\ stg' = [stg EXCEPT ![s] = saved] /\ Become(d, r, [ok EXCEPT !.mem = saved])
      \/ UNCHANGED stg /\ Become(d, r, failed)
  BY DEF StorageUpdate
<1>3. CASE /\ Exists(s) /\ stg[s].prov \in {G(d, r).mem.prov, "PROVISIONING"}
           /\ stg' = [stg EXCEPT ![s] = saved] /\ Become(d, r, [ok EXCEPT !.mem = saved])
  <2>0. s \in Stg BY <1>1, <1>3 DEF Exists
  <2>1. vv \in Vol \cup {None} BY <2>0 DEF Storage, TypeOK
  <2>2. saved \in Storage /\ saved.prov = new.prov /\ saved.vol = vv
    <3> HIDE DEF vv
    <3> QED BY <2>1 DEF Storage
  <2>3. Saved(d, r, new, saved)
    <3>1. stg' = [stg EXCEPT ![s] = saved] BY <1>3
    <3> HIDE DEF saved
    <3>2. Prov(s) \in {G(d, r).mem.prov, "PROVISIONING"} /\ Exists(s)
      BY <1>3 DEF Prov
    <3> QED BY <2>0, <2>2, <3>1, <3>2 DEF Saved
  <2>4. Become(d, r, [ok EXCEPT !.mem = saved]) BY <1>3
  <2> HIDE DEF saved
  <2>5. Copies(ok, saved, [ok EXCEPT !.mem = saved])
    BY <2>2 DEF Copies, Alike, Goroutines
  <2> QED BY <2>3, <2>4, <2>5
<1> QED BY <1>2, <1>3

\* The three ways a handler returns.
LEMMA ReturnedIs ==
    ASSUME NEW d, NEW r, NEW g \in Goroutines
    PROVE  /\ Returned(d, r, g, Return(d, r, g), g.err, g.retry)
           /\ Returned(d, r, g, Failing(d, r, g), TRUE, g.retry)
           /\ Returned(d, r, g, Later(d, r, g), g.err, TRUE)
<1>1. Returned(d, r, g, Return(d, r, g), g.err, g.retry) BY ReturnIs DEF Returned
<1>2. Returned(d, r, g, Failing(d, r, g), TRUE, g.retry)
  <2> DEFINE e == [g EXCEPT !.err = TRUE]
  <2>1. /\ e \in Goroutines /\ e.back = g.back /\ e.todo = g.todo /\ e.undo = g.undo /\ e.st = g.st
        /\ e.sid = g.sid /\ e.mem = g.mem /\ e.err /\ e.late = g.late /\ e.retry = g.retry /\ e.noid = g.noid
    BY DEF Goroutines
  <2>2. Failing(d, r, g) = Return(d, r, e) BY DEF Failing
  <2> HIDE DEF e
  <2>3. Returned(d, r, e, Return(d, r, e), e.err, e.retry)
    BY <2>1, ReturnIs DEF Returned
  <2> QED BY <2>1, <2>2, <2>3 DEF Returned
<1>3. Returned(d, r, g, Later(d, r, g), g.err, TRUE)
  <2> DEFINE e == [g EXCEPT !.retry = TRUE]
  <2>1. /\ e \in Goroutines /\ e.back = g.back /\ e.todo = g.todo /\ e.undo = g.undo /\ e.st = g.st
        /\ e.sid = g.sid /\ e.mem = g.mem /\ e.err = g.err /\ e.late = g.late /\ e.retry /\ e.noid = g.noid
    BY DEF Goroutines
  <2>2. Later(d, r, g) = Return(d, r, e) BY DEF Later
  <2> HIDE DEF e
  <2>3. Returned(d, r, e, Return(d, r, e), e.err, e.retry)
    BY <2>1, ReturnIs DEF Returned
  <2> QED BY <2>1, <2>2, <2>3 DEF Returned
<1> QED BY <1>1, <1>2, <1>3

\* An update of agentd leaves the stage and the volume of the storage alone.
LEMMA AgentUpdates ==
    ASSUME Inv3, NEW n \in Node, NEW r \in SR, NEW new \in Storage, NEW ok \in Goroutines,
           NEW failed, StorageUpdate(n, r, new, ok, failed), UNCHANGED req, new.prov = G(n, r).mem.prov,
           ok.sid = G(n, r).sid, failed.sid = G(n, r).sid, Busy(n, r) \/ (Moves(r) /\ Running(n, r))
    PROVE  AgentKeeps(n, r)
<1>0. n \in Daemon /\ n # C BY CentralIs DEF C
<1>1. PICK h : Become(n, r, h) /\ h.sid = G(n, r).sid
               /\ (UNCHANGED stg \/ \E m : Saved(n, r, new, m))
  BY <1>0, UpdateIs, InThree DEF Copies
<1>3. \A s \in Stg : stg'[s].prov = Prov(s)
  <2>1. CASE UNCHANGED stg BY <2>1 DEF Prov
  <2>2. CASE \E m : Saved(n, r, new, m)
    <3> DEFINE s == G(n, r).sid
    <3>1. PICK m : Saved(n, r, new, m) BY <2>2
    <3>2. s \in Stg /\ Exists(s) /\ Prov(s) \in {G(n, r).mem.prov, "PROVISIONING"} /\ m.prov = G(n, r).mem.prov
      BY <3>1 DEF Saved
    <3>3. s = req[r].sid /\ s # None BY <1>0, <3>2, InThree DEF SidOK, Busy, Exists
    <3>4. Prov(s) # "PROVISIONING"
      <4>1. CASE Busy(n, r) BY <3>3, <4>1, AgentSettled
      <4>2. CASE Moves(r) BY <3>3, <4>2, InThree DEF LinkOK
      <4> QED BY <4>1, <4>2
    <3>5. \A x \in Stg : stg'[x] = IF x = s THEN m ELSE stg[x]
      BY <3>1, InThree DEF Saved, TypeOK
    <3> QED BY <3>2, <3>4, <3>5 DEF Prov
  <2> QED BY <1>1, <2>1, <2>2
<1> QED BY <1>1, <1>3 DEF AgentKeeps

(* The device of a node.                                                   *)
LEMMA DeviceKeeps ==
    ASSUME Inv3, NEW n \in Node, NEW r \in SR, DeviceStep(n, r)
    PROVE  AgentKeeps(n, r) /\ UNCHANGED req /\ (Busy(n, r) \/ (Moves(r) /\ Running(n, r)))
<1> DEFINE g == G(n, r)
<1>0. /\ n \in Daemon /\ n # C /\ g \in Goroutines /\ g.mem \in Storage /\ g.sid = g.sid
      /\ Return(n, r, g) \in Goroutines /\ Later(n, r, g) \in Goroutines
      /\ Return(n, r, g).sid = g.sid /\ Later(n, r, g).sid = g.sid
  <2>1. n \in Daemon /\ n # C /\ g \in Goroutines BY CentralIs, InThree DEF C
  <2>2. [g EXCEPT !.retry = TRUE] \in Goroutines /\ [g EXCEPT !.retry = TRUE].sid = g.sid
    BY <2>1 DEF Goroutines
  <2> HIDE DEF g
  <2> QED BY <2>1, <2>2, ReturnType, ReturnIs, LaterType DEF Goroutines, Later
<1>1. g.pc = "call" /\ UNCHANGED req
  BY DEF DeviceStep, FormatStorage, UseStorage, CloseStorage, SetDeviceState, CallDevice, InSub
<1>2. Busy(n, r) \/ (Moves(r) /\ Running(n, r))
  BY <1>0, <1>1, InThree DEF Shape, Busy, Running
<1>3. ASSUME NEW sub, NEW dev \in {"FORMATTING", "OPENING", "CLOSING"}, NEW next \in Subs,
             SetDeviceState(n, r, sub, dev, next)
      PROVE  AgentKeeps(n, r)
  <2> DEFINE new == [g.mem EXCEPT !.dev = dev]
  <2>1. StorageUpdate(n, r, new, Call(g, next), Later(n, r, g))
    BY <1>3 DEF SetDeviceState
  <2> HIDE DEF g
  <2>2. new \in Storage /\ new.prov = g.mem.prov BY <1>0 DEF Storage
  <2>3. Call(g, next) \in Goroutines /\ Call(g, next).sid = g.sid
    BY <1>0 DEF Call, Goroutines
  <2> HIDE DEF new
  <2> QED BY <1>0, <1>1, <1>2, <2>1, <2>2, <2>3, AgentUpdates DEF g
<1>4. ASSUME NEW sub, NEW new \in Storage, NEW worst \in Storage, CallDevice(n, r, sub, new, worst), new.prov = g.mem.prov
      PROVE  AgentKeeps(n, r)
  <2>1. \/ StorageUpdate(n, r, new, Return(n, r, g), Later(n, r, g))
        \/ Become(n, r, Failing(n, r, [g EXCEPT !.mem = worst])) /\ UNCHANGED stg
    BY <1>4 DEF CallDevice
  <2>2. CASE StorageUpdate(n, r, new, Return(n, r, g), Later(n, r, g))
    BY <1>0, <1>1, <1>2, <1>4, <2>2, AgentUpdates
  <2>3. CASE Become(n, r, Failing(n, r, [g EXCEPT !.mem = worst])) /\ UNCHANGED stg
    <3> DEFINE w == [g EXCEPT !.mem = worst]
    <3>1. w \in Goroutines /\ w.sid = g.sid BY <1>0 DEF Goroutines
    <3>2. Failing(n, r, w).sid = g.sid
      <4> HIDE DEF w
      <4>1. Returned(n, r, w, Failing(n, r, w), TRUE, w.retry) BY <3>1, ReturnedIs
      <4> QED BY <3>1, <4>1 DEF Returned
    <3>3. Become(n, r, Failing(n, r, w)) BY <2>3
    <3> HIDE DEF w
    <3>5. \A s \in Stg : stg'[s].prov = Prov(s) BY <2>3 DEF Prov
    <3> QED BY <3>2, <3>3, <3>5 DEF AgentKeeps
  <2> QED BY <2>1, <2>2, <2>3
<1>6. CASE FormatStorage(n, r)
  <2> DEFINE dev == IF Has(r, "USE") THEN "OPENING" ELSE "UNUSED"
             o == [g.mem EXCEPT !.media = "FORMATTED", !.dev = dev]
             w == [g.mem EXCEPT !.media = "UNFORMATTED"]
  <2>1. \/ SetDeviceState(n, r, "setFormatting", "FORMATTING", "formatDevice")
        \/ CallDevice(n, r, "formatDevice", o, w)
    BY <1>6 DEF FormatStorage
  <2>2. dev \in {"OPENING", "UNUSED"} OBVIOUS
  <2> HIDE DEF dev, g
  <2>3. o \in Storage /\ w \in Storage /\ o.prov = g.mem.prov
    BY <1>0, <2>2 DEF Storage
  <2> HIDE DEF o, w
  <2> QED BY <1>1, <1>2, <1>3, <1>4, <2>1, <2>3 DEF Subs
<1>7. CASE UseStorage(n, r)
  <2> DEFINE o == [g.mem EXCEPT !.dev = "OPEN"]
  <2>1. \/ SetDeviceState(n, r, "setOpening", "OPENING", "useDevice")
        \/ CallDevice(n, r, "useDevice", o, g.mem)
    BY <1>7 DEF UseStorage
  <2> HIDE DEF g
  <2>3. o \in Storage /\ g.mem \in Storage /\ o.prov = g.mem.prov
    BY <1>0 DEF Storage
  <2> HIDE DEF o
  <2> QED BY <1>1, <1>2, <1>3, <1>4, <2>1, <2>3 DEF Subs
<1>8. CASE CloseStorage(n, r)
  <2> DEFINE o == [g.mem EXCEPT !.dev = "UNUSED"]
  <2>1. \/ SetDeviceState(n, r, "setClosing", "CLOSING", "closeDevice")
        \/ CallDevice(n, r, "closeDevice", o, g.mem)
    BY <1>8 DEF CloseStorage
  <2> HIDE DEF g
  <2>3. o \in Storage /\ g.mem \in Storage /\ o.prov = g.mem.prov
    BY <1>0 DEF Storage
  <2> HIDE DEF o
  <2> QED BY <1>1, <1>2, <1>3, <1>4, <2>1, <2>3 DEF Subs
<1> QED BY <1>1, <1>2, <1>6, <1>7, <1>8 DEF DeviceStep

(* A step of agentd that only saves the Storage object.                    *)
LEMMA OwnKeeps ==
    ASSUME Inv3, NEW n \in Node, NEW r \in SR, AgentKeeps(n, r), UNCHANGED req,
           Busy(n, r) \/ (Moves(r) /\ Running(n, r))
    PROVE  Owned' /\ Apart'
<1>1. Others(r) /\ req'[r] = req[r] /\ (Active(r)' <=> Active(r))
  BY DEF Others, Active
<1> QED BY <1>1, OwnAgent DEF AgentKeeps

\* The last update of a request keeps this layer.
LEMMA OwnTerminal ==
    ASSUME Inv3, NEW d \in Daemon, NEW r \in SR, EnterTerminal(d, r)
    PROVE  Owned' /\ Apart'
<1> DEFINE g == G(d, r)
<1>1. /\ Goes(d, r, Idle) /\ g.pc = "final" /\ KeepsRequests /\ Running(d, r) /\ UNCHANGED stg
      /\ \/ UNCHANGED req
         \/ /\ Writable(d, r, g)
            /\ \E st \in {"FAILED", "SUCCEEDED"} : EndsAs(d, r, g, st)
  BY ShapeTerminal, InThree
<1>2. Busy(d, r) \/ (Moves(r) /\ Running(d, r)) BY <1>1, InThree DEF Shape, Busy
<1>3. Become(d, r, Idle) /\ Idle.pc = "idle" /\ req'[r].ops = req[r].ops
  BY <1>1 DEF Goes, Idle, KeepsRequests
<1>4. \A s \in Stg : stg'[s].prov = Prov(s) BY <1>1 DEF Prov
<1>5. CASE UNCHANGED req
  <2>1. Others(r) /\ req'[r] = req[r] /\ (Active(r)' <=> Active(r))
    BY <1>5 DEF Others, Active
  <2> QED BY <1>1, <1>3, <1>5, OwnReturns
<1>6. ASSUME NEW st \in {"FAILED", "SUCCEEDED"}, Writes(d, r, g, st)
      PROVE  Owned' /\ Apart'
  <2>1. /\ Others(r) /\ req'[r].st = st
        /\ req'[r].sid = (IF d = C /\ ~g.noid THEN g.sid ELSE req[r].sid)
    BY <1>6, WrittenIs, InThree
  <2>2. ~Active(r)' BY <2>1 DEF Active, Terminal
  <2>3. CASE d \in Node
    <3>1. req'[r].sid = req[r].sid BY <2>1, <2>3, CentralIs DEF C
    <3> QED BY <1>2, <1>3, <1>4, <2>1, <2>2, <2>3, <3>1, OwnAgent
  <2>4. CASE d = C
    <3>1. req'[r].sid = req[r].sid \/ (Busy(C, r) /\ req'[r].sid = g.sid)
      BY <1>2, <2>1, <2>4, InThree DEF SidOK
    <3>2. LinkOK(r)'
      <4>1. CASE Busy(C, r)
        <5>1. ~Moves(r)' BY <1>3, <4>1 DEF Busy, Moves, Has
        <5> QED BY <2>2, <5>1 DEF LinkOK
      <4>2. CASE ~Busy(C, r)
        <5>1. req[r].sid # None => stg'[req[r].sid].prov = Prov(req[r].sid)
          BY <1>4, SidType, InThree
        <5> QED BY <1>3, <2>2, <3>1, <4>2, <5>1, LinkKept
      <4> QED BY <4>1, <4>2
    <3> QED BY <1>2, <1>3, <1>4, <2>1, <2>2, <2>4, <3>1, <3>2, OwnCentral
  <2> QED BY <2>3, <2>4 DEF Daemon, C
<1> QED BY <1>1, <1>5, <1>6 DEF EndsAs, Writes

\* Handing the request back to centrald keeps this layer.
LEMMA OwnHandBack ==
    ASSUME Inv3, NEW n \in Node, NEW r \in SR, HandBack(n, r)
    PROVE  Owned' /\ Apart'
<1>0. n \in Daemon /\ n # C BY CentralIs DEF C
<1>1. /\ KeepsRequests /\ Running(n, r) /\ G(n, r).pc = "handback" /\ UNCHANGED stg
      /\ \/ /\ Goes(n, r, Idle)
            /\ UNCHANGED req \/ (Active(r) /\ req' = [req EXCEPT ![r].st = "UNDO_ATTACHING"])
         \/ ~Active(r) /\ UNCHANGED req /\ \E h : Goes(n, r, h) /\ SameWork(G(n, r), h)
  BY ShapeHandBack, InThree
<1>2. Busy(n, r) \/ (Moves(r) /\ Running(n, r))
  BY <1>0, <1>1, InThree DEF Shape, Busy
<1>3. PICK h : Become(n, r, h) /\ (h.pc = "idle" \/ h.sid = G(n, r).sid)
  BY <1>1 DEF Goes, Idle, SameWork
<1>4. \A s \in Stg : stg'[s].prov = Prov(s) BY <1>1 DEF Prov
<1>5. Others(r) /\ req'[r].ops = req[r].ops /\ req'[r].sid = req[r].sid /\ (Active(r)' => Active(r))
  <2>1. CASE UNCHANGED req BY <2>1 DEF Others, Active
  <2>2. CASE Active(r) /\ req' = [req EXCEPT ![r].st = "UNDO_ATTACHING"]
    <3>1. req \in [SR -> Requests] BY InThree DEF TypeOK
    <3>2. \A q \in SR : req'[q] = IF q = r THEN [req[r] EXCEPT !.st = "UNDO_ATTACHING"] ELSE req[q]
      BY <2>2, <3>1
    <3> QED BY <2>2, <3>1, <3>2 DEF Requests, Others
  <2> QED BY <1>1, <2>1, <2>2
<1> QED BY <1>2, <1>3, <1>4, <1>5, OwnAgent

\* ResetDevice leaves the stage and the volume of the storage alone.
LEMMA ResetKeeps ==
    ASSUME Inv3, NEW n \in Node, NEW r \in SR, ResetDevice(n, r)
    PROVE  AgentKeeps(n, r) /\ UNCHANGED req /\ (Busy(n, r) \/ (Moves(r) /\ Running(n, r)))
<1> DEFINE g == G(n, r)
           dev == IF Has(r, "CLOSE") THEN "OPEN" ELSE "UNUSED"
           new == [g.mem EXCEPT !.dev = dev]
           h == [g EXCEPT !.pc = "final"]
<1>0. n \in Daemon /\ n # C /\ g \in Goroutines /\ g.mem \in Storage
  BY CentralIs, InThree DEF C, Goroutines
<1>1. StorageUpdate(n, r, new, h, h) /\ g.pc = "reset" /\ UNCHANGED req
  BY DEF ResetDevice
<1>2. Busy(n, r) \/ (Moves(r) /\ Running(n, r))
  BY <1>0, <1>1, InThree DEF Shape, Busy, Running
<1>3. dev \in {"OPEN", "UNUSED"} OBVIOUS
<1> HIDE DEF g, dev
<1>4. new \in Storage /\ new.prov = g.mem.prov /\ h \in Goroutines /\ h.sid = g.sid
  BY <1>0, <1>3 DEF Storage, Goroutines
<1> HIDE DEF new, h
<1> QED BY <1>1, <1>2, <1>4, AgentUpdates DEF g

(* A goroutine that is started.                                            *)
LEMMA OwnDispatch ==
    ASSUME Inv3, NEW d \in Daemon, NEW r \in SR, NEW h, Become(d, r, h), UNCHANGED <<req, stg>>,
           Active(r), h.sid = req[r].sid,
           d = C => (~Moves(r) => MemOK(r, h) /\ ProvisioningOK(h) /\ h.pc # "call")
    PROVE  Owned' /\ Apart'
<1>1. \A e \in Daemon, q \in SR : G(e, q)' = IF e = d /\ q = r THEN h ELSE G(e, q)
  BY InThree DEF TypeOK, Become, G
<1>2. /\ Moves(r)' <=> Moves(r)
      /\ Has(r, "RELEASE")' <=> Has(r, "RELEASE")
  BY DEF Moves, Has
<1>3. Others(r) /\ \A s \in Stg : stg'[s].prov = Prov(s) BY DEF Others, Prov
<1>4. LinkOK(r)'
  <2>1. req[r].sid # None => stg'[req[r].sid].prov = Prov(req[r].sid)
    BY <1>3, SidType, InThree
  <2> QED BY <2>1, LinkKept DEF Active
<1>5. ASSUME NEW e \in Daemon
      PROVE  SidOK(e, r)'
  <2>1. CASE e = d BY <1>1, <2>1 DEF SidOK
  <2>2. CASE e # d
    <3>1. G(e, r)' = G(e, r) /\ SidOK(e, r) BY <1>1, <2>2, InThree
    <3>2. (Busy(e, r)' <=> Busy(e, r)) /\ (Running(e, r)' <=> Running(e, r))
      BY <1>2, <3>1 DEF Busy, Running
    <3>3. e = C /\ Fresh(r) => Fresh(r)' BY <3>1 DEF Fresh, Prov
    <3> QED BY <1>2, <3>1, <3>2, <3>3 DEF SidOK
  <2> QED BY <2>1, <2>2
<1>6. CentralOK(r)'
  <2> SUFFICES ASSUME Busy(C, r)' PROVE CentralOK(r)' BY DEF CentralOK
  <2>0. C \in Daemon BY InThree
  <2>1. CASE d = C
    <3>1. G(C, r)' = h /\ ~Moves(r) BY <1>1, <1>2, <2>0, <2>1 DEF Busy
    <3>2. Prov(h.sid)' = Prov(h.sid) BY DEF Prov
    <3>3. MemOK(r, h)' BY <1>2, <2>1, <3>1, <3>2 DEF MemOK, Made, Gone
    <3>4. ProvisioningOK(h)' BY <2>1, <3>1, <3>2 DEF ProvisioningOK
    <3>5. CallOK(r, h)' BY <2>1, <3>1 DEF CallOK
    <3> QED BY <3>1, <3>3, <3>4, <3>5 DEF CentralOK
  <2>2. CASE d # C
    <3>1. G(C, r)' = G(C, r) BY <1>1, <2>0, <2>2
    <3>2. Busy(C, r) /\ CentralOK(r) BY <1>2, <3>1, InThree DEF Busy, Running
    <3> DEFINE g == G(C, r)
    <3>3. Prov(G(C, r).sid)' = Prov(G(C, r).sid) BY <3>1 DEF Prov
    <3>4. MemOK(r, G(C, r))'
      BY <1>2, <3>1, <3>2, <3>3 DEF CentralOK, MemOK, Made, Gone
    <3>5. ProvisioningOK(G(C, r))' BY <3>1, <3>2, <3>3 DEF CentralOK, ProvisioningOK
    <3>6. CallOK(r, G(C, r))'
      <4>1. Fresh(r)' <=> Fresh(r) BY <3>1, <3>3 DEF Fresh
      <4> QED BY <3>1, <3>2, <3>3, <4>1 DEF CentralOK, CallOK
    <3> QED BY <3>4, <3>5, <3>6 DEF CentralOK
  <2> QED BY <2>1, <2>2
<1>7. OwnOK(r)' BY <1>4, <1>5, <1>6 DEF OwnOK
<1>8. ASSUME NEW s \in Stg, Holds(r, s)'
      PROVE  Holds(r, s)
  <2>1. CASE Active(r)' /\ req'[r].sid = s BY <1>8, <2>1 DEF Holds
  <2>2. CASE \E e \in Daemon : Busy(e, r)' /\ G(e, r)'.sid = s
    <3>1. PICK e \in Daemon : Busy(e, r)' /\ G(e, r)'.sid = s BY <2>2
    <3>2. CASE e = d BY <1>1, <1>8, <3>1, <3>2 DEF Holds
    <3>3. CASE e # d
      <4>1. Busy(e, r) /\ G(e, r).sid = s
        BY <1>1, <1>2, <3>1, <3>3 DEF Busy, Running
      <4> QED BY <1>8, <4>1 DEF Holds
    <3> QED BY <3>2, <3>3
  <2> QED BY <1>8, <2>1, <2>2 DEF Holds
<1> QED BY <1>3, <1>7, <1>8, OwnFrame

\* A list stays first in a longer one.
LEMMA BeginsConcat ==
    ASSUME NEW x, NEW a, NEW b \in Seq(States), Begins(a, x)
    PROVE  Begins(a \o b, x)
BY DEF Begins

(* A request that is to provision does so first.                           *)
LEMMA ProvisionsFirst ==
    ASSUME NEW r, NEW o, Has(r, "PROVISION"), ~Has(r, "REATTACH"), Order(req[r].st) = 1
    PROVE  Begins(CentralTodo(r, o), "PROVISIONING")
<1> DEFINE n == Order(req[r].st)
           s2 == When(Has(r, "ATTACH") /\ n <= 2, "ATTACHING")
           s3 == When(Has(r, "FORMAT") /\ n <= 3, "FORMATTING")
           s4 == When(Has(r, "USE") /\ ~Has(r, "FORMAT") /\ n <= 4, "USING")
           s5 == When(Has(r, "CLOSE") /\ n <= 5, "CLOSING")
           s6 == When(Has(r, "DETACH") /\ n <= 6, "DETACHING")
           s7 == When(Has(r, "RELEASE") /\ n <= 7, "RELEASING")
           s8 == When(Has(r, "PROVISION") /\ n <= 7, "REMOVING_TAG")
<1>1. When(Has(r, "PROVISION") /\ n <= 1, "PROVISIONING") = <<"PROVISIONING">>
  BY DEF When
<1>2. CentralTodo(r, o) = <<>> \o <<"PROVISIONING">> \o s2 \o s3 \o s4 \o s5 \o s6 \o s7 \o s8
  BY <1>1 DEF CentralTodo
<1>3. /\ s2 \in Seq(States) /\ s3 \in Seq(States) /\ s4 \in Seq(States) /\ s5 \in Seq(States)
      /\ s6 \in Seq(States) /\ s7 \in Seq(States) /\ s8 \in Seq(States)
  BY WhenType DEF States
<1> HIDE DEF s2, s3, s4, s5, s6, s7, s8
<1>4. Begins(<<>> \o <<"PROVISIONING">>, "PROVISIONING") BY DEF Begins, States
<1> QED BY <1>2, <1>3, <1>4, BeginsConcat

(* What is to be undone when a request is found whose storage is being     *)
(* provisioned.                                                            *)
LEMMA StartsProvisioning ==
    ASSUME Inv3, NEW r \in SR, Active(r), ~Moves(r), req[r].sid # None, Prov(req[r].sid) = "PROVISIONING",
           NEW h, CentralStarted(r, h)
    PROVE  /\ Only(h.undo, {UP})
           /\ h.todo # <<>> => Head(h.todo) = "PROVISIONING"
<1> DEFINE o == Fetched(req[r].sid)
           todo == CentralTodo(r, o)
           extra == IF (Lost(r) \/ r \in expired) /\ todo # <<>> /\ ~Has(r, "REATTACH")
                    THEN UndoOf(todo[1]) ELSE <<>>
<1>1. h.todo = todo /\ h.undo = CentralUndo(r) \o extra
  BY DEF CentralStarted, Started
<1>2. req[r].st \in {"PROVISIONING", UP} BY InThree DEF LinkOK
<1>3. Has(r, "PROVISION") /\ ~Has(r, "RELEASE") /\ ~Has(r, "CLOSE") /\ ~Has(r, "DETACH") /\ ~Has(r, "REATTACH")
  <2>1. req[r].st \in Serving(req[r].ops) BY <1>2, InThree DEF RequestOK, UP
  <2>2. "PROVISION" \in req[r].ops BY <1>2, <2>1 DEF Serving, UP
  <2>3. req[r].ops \in Plans BY <1>2 DEF Inv3, Inv2, Inv1, Asked, UP, None
  <2> QED BY <2>2, <2>3, PlanFamily DEF Has
<1>4. CASE req[r].st = "PROVISIONING"
  <2>1. Order(req[r].st) = 1 BY <1>4 DEF Order
  <2>2. CentralUndo(r) = <<>> BY <1>3, <2>1 DEF CentralUndo, When
  <2>3. todo # <<>> /\ todo[1] = "PROVISIONING"
    BY <1>3, <2>1, ProvisionsFirst DEF Begins
  <2>4. extra \in {<<>>, UndoOf("PROVISIONING")} BY <2>3
  <2>5. UndoOf("PROVISIONING") = <<UP>> BY DEF UndoOf, undoStateMap, UP
  <2>6. h.undo \in {<<>>, <<UP>>}
    <3>1. <<>> \o <<>> = <<>> /\ <<>> \o <<UP>> = <<UP>> OBVIOUS
    <3> HIDE DEF extra
    <3> QED BY <1>1, <2>2, <2>4, <2>5, <3>1
  <2>7. Only(h.undo, {UP}) BY <2>6 DEF Only
  <2>8. todo \in Seq(States) BY CentralTodoType
  <2> QED BY <1>1, <2>3, <2>7, <2>8
<1>5. CASE req[r].st = UP
  <2>1. Order(req[r].st) = 10 BY <1>5 DEF Order, UP
  <2>2. CentralUndo(r) = <<UP>> BY <1>3, <2>1 DEF CentralUndo, When, UP
  <2>3. todo = <<>> BY <1>3, <2>1 DEF CentralTodo, When
  <2> QED BY <1>1, <2>2, <2>3 DEF Only
<1> QED BY <1>2, <1>4, <1>5

\* A goroutine starts with the storage of its request.
LEMMA OwnDispatches ==
    ASSUME Inv3, NEW r \in SR,
           CentralDispatch(r) \/ \E n \in Node : AgentDispatch(n, r)
    PROVE  Owned' /\ Apart'
<1>1. CASE CentralDispatch(r)
  <2>1. Active(r) /\ UNCHANGED <<req, stg>> /\ C \in Daemon
    BY <1>1, ShapeCentralDispatch, InThree
  <2>2. PICK h : Goes(C, r, h) /\ CentralStarted(r, h)
    BY <1>1, ShapeCentralDispatch, InThree
  <2>3. Become(C, r, h) /\ h.sid = req[r].sid /\ h.mem = Fetched(req[r].sid) /\ ~h.back
        /\ h.pc \in {"next", "turn"}
    BY <2>2 DEF Goes, CentralStarted, Started
  <2>4. h.mem.prov = (IF h.sid = None THEN None ELSE Prov(h.sid))
    BY <2>3 DEF Fetched, Exists, NoStorage, Prov, None
  <2>5. MemOK(r, h) BY <2>4 DEF MemOK
  <2>6. ~Moves(r) => ProvisioningOK(h)
    BY <2>1, <2>2, <2>3, StartsProvisioning DEF ProvisioningOK
  <2> QED BY <2>1, <2>3, <2>5, <2>6, OwnDispatch
<1>2. ASSUME NEW n \in Node, AgentDispatch(n, r)
      PROVE  Owned' /\ Apart'
  <2>1. Active(r) /\ UNCHANGED <<req, stg>> /\ n \in Daemon /\ n # C
    BY <1>2, ShapeAgentDispatch, InThree, CentralIs DEF C
  <2>2. PICK h, todo, err : Goes(n, r, h) /\ Started(r, Fetched(req[r].sid), todo, <<>>, err, h)
    BY <1>2, ShapeAgentDispatch, InThree
  <2>3. Become(n, r, h) /\ h.sid = req[r].sid BY <2>2 DEF Goes, Started
  <2> QED BY <2>1, <2>3, OwnDispatch
<1> QED BY <1>1, <1>2

\* Every step of agentd on a request keeps this layer.
LEMMA OwnsAgent ==
    ASSUME Inv3, NEW n \in Node, NEW r \in SR, Agent(n, r)
    PROVE  Owned' /\ Apart'
<1>1. n \in Daemon BY CentralIs
<1>2. CASE Animate(n, r) BY <1>1, <1>2, OwnNext, OwnTurn, OwnTerminal DEF Animate
<1>3. CASE DeviceStep(n, r) BY <1>3, DeviceKeeps, OwnKeeps
<1> QED BY <1>2, <1>3, OwnDispatches, OwnHandBack, ResetKeeps, OwnKeeps DEF Agent, DeviceStep

\* A handler of centrald that returns keeps its storage and its copy.
LEMMA ReturnKeeps ==
    ASSUME NEW r, NEW g, NEW h, NEW err, NEW retry, Returned(C, r, g, h, err, retry),
           g.err => err
    PROVE  Keeps(r, g, h) /\ (h.err <=> err) /\ (h.retry <=> retry) /\ h.mem = g.mem /\ h.pc # "call"
BY DEF Returned, Keeps, C

\* A handler of centrald that goes on keeps its storage and its copy.
LEMMA CallKeeps ==
    ASSUME NEW r, NEW g \in Goroutines, g.pc = "call", NEW sub
    PROVE  Keeps(r, g, Call(g, sub)) /\ Call(g, sub).mem = g.mem /\ Call(g, sub).pc = "call"
           /\ Call(g, sub).sub = sub /\ (Call(g, sub).retry <=> g.retry)
BY DEF Keeps, Call, Goroutines

(* What a call leaves of the list of states of a goroutine whose storage   *)
(* is being provisioned.                                                   *)
LEMMA ProvisioningKept ==
    ASSUME Inv3, NEW r \in SR, Busy(C, r), G(C, r).pc = "call", NEW h, Keeps(r, G(C, r), h),
           h.sid # None /\ Prov(h.sid)' = "PROVISIONING" => Prov(h.sid) = "PROVISIONING",
           ~G(C, r).back => (h.sid # None /\ Prov(h.sid)' = "PROVISIONING" =>
               G(C, r).st = "PROVISIONING" /\ (h.err \/ h.retry \/ h.pc = "call"))
    PROVE  ProvisioningOK(h)'
<1> DEFINE g == G(C, r)
<1>1. ProvisioningOK(g) /\ g \in Goroutines /\ g.undo \in Seq(States)
  <2>1. ProvisioningOK(g) /\ g \in Goroutines BY GoIsOK, InThree DEF GoOK
  <2> QED BY <2>1 DEF Goroutines
<1> SUFFICES ASSUME h.sid # None, Prov(h.sid)' = "PROVISIONING", h.pc # "final"
             PROVE  /\ Only(h.undo, {UP})
                    /\ h.back => Only(h.todo, {UP})
                    /\ ~h.back /\ h.pc = "next" /\ h.todo # <<>> => Head(h.todo) = "PROVISIONING"
  BY DEF ProvisioningOK
<1>2. Only(g.undo, {UP}) /\ (g.back => Only(g.todo, {UP})) /\ h.sid = g.sid
  BY <1>1 DEF ProvisioningOK, Keeps
<1>3. CASE g.back BY <1>2, <1>3 DEF Keeps
<1>4. CASE ~g.back
  <2>1. g.st = "PROVISIONING" /\ (h.err \/ h.retry \/ h.pc = "call") /\ ~h.back
    BY <1>4 DEF Keeps
  <2>2. h.pc # "next" BY <1>4, <2>1 DEF Keeps
  <2>3. UndoOf("PROVISIONING") = <<UP>> BY DEF UndoOf, undoStateMap, UP
  <2>4. <<UP>> \in Seq(States) /\ Only(<<UP>>, {UP}) BY DEF States, UP, Only
  <2>5. Only(g.undo \o <<UP>>, {UP}) BY <1>1, <1>2, <2>4, OnlyConcat
  <2>6. Only(h.undo, {UP}) BY <1>2, <1>4, <2>1, <2>3, <2>5 DEF Keeps
  <2> QED BY <2>1, <2>2, <2>6
<1> QED BY <1>3, <1>4

\* setAndUpdateRequestMessage leaves the storage of the request alone.
LEMMA SayingIs ==
    ASSUME Inv3, NEW r \in SR, SaysWhy(r) \/ UNCHANGED req
    PROVE  /\ Others(r) /\ req'[r].ops = req[r].ops /\ req'[r].sid = req[r].sid
           /\ Active(r)' => Active(r)
           /\ Busy(C, r) => req'[r].st = req[r].st
<1>1. CASE UNCHANGED req BY <1>1 DEF Others, Active
<1>2. CASE SaysWhy(r)
  <2>1. req \in [SR -> Requests] BY InThree DEF TypeOK
  <2>2. \A q \in SR : req'[q] = IF q = r /\ Active(r) THEN [req[r] EXCEPT !.st = G(C, r).st] ELSE req[q]
    BY <1>2, <2>1 DEF SaysWhy, C
  <2>3. /\ Others(r) /\ req'[r].ops = req[r].ops /\ req'[r].sid = req[r].sid
        /\ ~Active(r) => req'[r] = req[r]
        /\ Active(r) => req'[r].st = G(C, r).st
    BY <2>1, <2>2 DEF Requests, Others
  <2>4. Active(r)' => Active(r) BY <2>3 DEF Active
  <2>5. Busy(C, r) => req'[r].st = req[r].st BY <2>3, GoIsOK
  <2> QED BY <2>3, <2>4, <2>5
<1> QED BY <1>1, <1>2

(* A handler of centrald that does not provision.                          *)
LEMMA OwnWorks ==
    ASSUME Inv3, NEW r \in SR, G(C, r).pc = "call", G(C, r).sub \notin ProvisionSubs,
           NEW h, Become(C, r, h), Keeps(r, G(C, r), h), SaysWhy(r) \/ UNCHANGED req,
           \A s \in Stg : \/ stg'[s].prov = Prov(s)
                          \/ Busy(C, r) /\ G(C, r).sid = s /\ stg'[s].prov # "PROVISIONING",
           h.pc = "call" => h.sub \notin ProvisionSubs,
           ~Moves(r) => MemOK(r, h)', LinkOK(r)'
    PROVE  Owned' /\ Apart'
<1> DEFINE g == G(C, r)
<1>1. /\ InState(C, req[r].ops, g) /\ SubOf(g) /\ ~g.retry /\ Running(C, r)
  BY InThree DEF Shape, Running
<1>2. g.sid = req[r].sid /\ h.sid = g.sid BY CallIsLinked DEF ProvisionSubs, Keeps
<1>3. /\ Others(r) /\ req'[r].ops = req[r].ops /\ req'[r].sid = req[r].sid
      /\ Active(r)' => Active(r)
  BY SayingIs
<1>4. Busy(C, r) \/ Moves(r) BY <1>1 DEF Busy
<1>5. ASSUME ~Moves(r)
      PROVE  GoOK(r, h)'
  <2>1. Busy(C, r) BY <1>4, <1>5
  <2>2. h.sid # None /\ Prov(h.sid)' = "PROVISIONING" => Prov(h.sid) = "PROVISIONING"
    <3>1. h.sid # None => h.sid \in Stg BY <1>2, SidType, InThree
    <3> QED BY <3>1 DEF Prov
  <2>3. ~g.back => ~(h.sid # None /\ Prov(h.sid) = "PROVISIONING")
    <3> SUFFICES ASSUME ~g.back, h.sid # None, Prov(h.sid) = "PROVISIONING"
                 PROVE  FALSE
      OBVIOUS
    <3>1. Active(r) /\ g.st = req[r].st BY <2>1, GoIsOK
    <3>2. g.st \in {"PROVISIONING", UP} BY <1>2, <3>1, InThree DEF LinkOK
    <3> QED BY <1>1, <3>2 DEF InState, SubOf, Undoing, UP
  <2>4. ProvisioningOK(h)' BY <2>1, <2>2, <2>3, ProvisioningKept
  <2>5. CallOK(r, h)' BY DEF CallOK, ProvisionSubs
  <2> QED BY <1>2, <1>3, <1>5, <2>4, <2>5 DEF GoOK
<1> QED BY <1>1, <1>2, <1>3, <1>4, <1>5, OwnCentral

\* A handler that neither provisions nor releases keeps this layer.
LEMMA OwnPlain ==
    ASSUME Inv3, NEW r \in SR, G(C, r).pc = "call", G(C, r).sub \notin ProvisionSubs, Plainly(r)
    PROVE  Owned' /\ Apart'
<1>0. PICK h : /\ Become(C, r, h) /\ Keeps(r, G(C, r), h) /\ Steady
               /\ SaysWhy(r) \/ UNCHANGED req
               /\ h.pc = "call" => h.sub \notin ProvisionSubs
               /\ h.mem.prov = G(C, r).mem.prov
  BY DEF Plainly
<1> DEFINE g == G(C, r)
<1>1. /\ InState(C, req[r].ops, g) /\ ~g.retry BY InThree DEF Shape
<1>2. g.sid = req[r].sid /\ h.sid = g.sid
  BY <1>0, CallIsLinked DEF ProvisionSubs, Keeps
<1>3. /\ Others(r) /\ req'[r].ops = req[r].ops /\ req'[r].sid = req[r].sid
      /\ Active(r)' => Active(r)
      /\ Busy(C, r) => req'[r].st = req[r].st
  BY <1>0, SayingIs
<1>4. Busy(C, r) \/ Moves(r) BY <1>1 DEF Busy, Running
<1>5. h.sid # None => h.sid \in Stg BY <1>2, SidType, InThree
<1>6. h.sid # None => Prov(h.sid)' = Prov(h.sid) BY <1>0, <1>5 DEF Prov, Steady
<1>7. ASSUME ~Moves(r)
      PROVE  MemOK(r, h)'
  <2>1. MemOK(r, g) BY <1>4, <1>7, GoIsOK DEF GoOK
  <2>2. Has(r, "RELEASE")' <=> Has(r, "RELEASE") BY <1>3 DEF Has
  <2>3. g.err => h.err BY <1>0 DEF Keeps
  <2> QED BY <1>0, <1>2, <1>6, <2>1, <2>2, <2>3 DEF MemOK, Made, Gone, Keeps, ProvisionSubs
<1>8. LinkOK(r)'
  <2>1. req[r].sid # None => stg'[req[r].sid].prov = Prov(req[r].sid)
    BY <1>0, <1>2, <1>5 DEF Steady
  <2> QED BY <1>3, <1>4, <2>1, LinkKept
<1> QED BY <1>0, <1>7, <1>8, OwnWorks DEF Steady

\* An update that keeps the stage neither provisions nor releases.
LEMMA PlainSave ==
    ASSUME Inv3, NEW r \in SR, G(C, r).pc = "call", G(C, r).sub \notin ProvisionSubs,
           G(C, r).sub \notin ReleaseSubs,
           NEW new \in Storage, NEW ok \in Goroutines, NEW failed, StorageUpdate(C, r, new, ok, failed),
           SaysWhy(r) \/ UNCHANGED req, new.prov = G(C, r).mem.prov,
           Keeps(r, G(C, r), ok), Keeps(r, G(C, r), failed),
           ok.pc = "call" => ok.sub \notin ProvisionSubs, failed.pc # "call", failed.mem = G(C, r).mem
    PROVE  Plainly(r)
<1> DEFINE g == G(C, r)
<1>1. CASE UNCHANGED stg /\ Become(C, r, failed)
  <2>1. Steady BY <1>1 DEF Prov, Steady
  <2> QED BY <1>1, <2>1 DEF Plainly
<1>2. CASE \E m, h : Saved(C, r, new, m) /\ Copies(ok, m, h) /\ Become(C, r, h)
  <2>1. PICK m, h : Saved(C, r, new, m) /\ Copies(ok, m, h) /\ Become(C, r, h)
    BY <1>2
  <2>2. /\ g.sid \in Stg /\ g.sid # None /\ Prov(g.sid) \in {g.mem.prov, "PROVISIONING"} /\ m.prov = g.mem.prov
    BY <2>1 DEF Saved, Exists
  <2>3. Prov(g.sid) = m.prov BY <2>2, Settled
  <2>4. \A s \in Stg : stg'[s] = IF s = g.sid THEN m ELSE stg[s]
    BY <2>1, InThree DEF Saved, TypeOK
  <2>5. Steady /\ m.vol = stg[g.sid].vol
    <3>1. m.vol = stg[g.sid].vol BY <2>1 DEF Saved, ProvisionSubs
    <3> QED BY <2>3, <2>4, <3>1 DEF Prov, Steady
  <2>6. Keeps(r, g, h) /\ h.mem.prov = g.mem.prov /\ h.mem = m /\ (h.pc = "call" => h.sub \notin ProvisionSubs)
    BY <2>1, <2>2 DEF Copies, Alike, Keeps
  <2> QED BY <2>1, <2>2, <2>5, <2>6 DEF Plainly
<1> QED BY <1>1, <1>2, UpdateIs, InThree

(* Where a handler may go.                                                 *)
LEMMA Goings ==
    ASSUME Inv3, NEW r \in SR, G(C, r).pc = "call"
    PROVE  LET g == G(C, r) IN
           /\ g \in Goroutines /\ g.mem \in Storage /\ ~g.retry
           /\ Return(C, r, g) \in Goroutines /\ Later(C, r, g) \in Goroutines /\ Failing(C, r, g) \in Goroutines
           /\ Keeps(r, g, Return(C, r, g)) /\ Return(C, r, g).pc # "call" /\ Return(C, r, g).mem = g.mem
           /\ Keeps(r, g, Later(C, r, g)) /\ Later(C, r, g).pc # "call" /\ Later(C, r, g).mem = g.mem
           /\ Later(C, r, g).retry
           /\ Keeps(r, g, Failing(C, r, g)) /\ Failing(C, r, g).pc # "call" /\ Failing(C, r, g).mem = g.mem
           /\ Failing(C, r, g).err
           /\ \A sub \in Subs : /\ Call(g, sub) \in Goroutines /\ Keeps(r, g, Call(g, sub)) /\ Call(g, sub).mem = g.mem
                                /\ Call(g, sub).pc = "call" /\ Call(g, sub).sub = sub
<1> DEFINE g == G(C, r)
<1>1. g \in Goroutines /\ ~g.retry /\ g.mem \in Storage
  <2>1. g \in Goroutines /\ ~g.retry BY InThree DEF Shape
  <2> QED BY <2>1 DEF Goroutines
<1> HIDE DEF g
<1>2. Return(C, r, g) \in Goroutines /\ Later(C, r, g) \in Goroutines /\ Failing(C, r, g) \in Goroutines
  BY <1>1, ReturnType, LaterType
<1>3. /\ Returned(C, r, g, Return(C, r, g), g.err, g.retry)
      /\ Returned(C, r, g, Failing(C, r, g), TRUE, g.retry)
      /\ Returned(C, r, g, Later(C, r, g), g.err, TRUE)
  BY <1>1, ReturnedIs
<1>4. /\ Keeps(r, g, Return(C, r, g)) /\ Return(C, r, g).pc # "call" /\ Return(C, r, g).mem = g.mem
  BY <1>3, ReturnKeeps
<1>5. /\ Keeps(r, g, Later(C, r, g)) /\ Later(C, r, g).pc # "call" /\ Later(C, r, g).mem = g.mem
      /\ Later(C, r, g).retry
  BY <1>3, ReturnKeeps
<1>6. /\ Keeps(r, g, Failing(C, r, g)) /\ Failing(C, r, g).pc # "call" /\ Failing(C, r, g).mem = g.mem
      /\ Failing(C, r, g).err
  BY <1>3, ReturnKeeps
<1>7. ASSUME NEW sub \in Subs
      PROVE  /\ Call(g, sub) \in Goroutines /\ Keeps(r, g, Call(g, sub)) /\ Call(g, sub).mem = g.mem
             /\ Call(g, sub).pc = "call" /\ Call(g, sub).sub = sub
  BY <1>1, CallType, CallKeeps DEF g
<1> QED BY <1>1, <1>2, <1>4, <1>5, <1>6, <1>7 DEF g

\* A sub-state that only saves, and keeps the stage, neither provisions nor
\* releases.
LEMMA PlainCentralSave ==
    ASSUME Inv3, NEW r \in SR, NEW sub, sub \notin ProvisionSubs, sub \notin ReleaseSubs,
           NEW new \in Storage, NEW ok \in Goroutines, CentralSave(r, sub, new, ok),
           new.prov = G(C, r).mem.prov, Keeps(r, G(C, r), ok),
           ok.pc = "call" => ok.sub \notin ProvisionSubs
    PROVE  Plainly(r)
<1>1. /\ StorageUpdate(C, r, new, ok, Later(C, r, G(C, r)))
      /\ SaysWhy(r) \/ UNCHANGED req
      /\ G(C, r).pc = "call" /\ G(C, r).sub = sub
  BY DEF CentralSave, C, InSub
<1>2. Keeps(r, G(C, r), Later(C, r, G(C, r))) /\ Later(C, r, G(C, r)).pc # "call"
      /\ Later(C, r, G(C, r)).mem = G(C, r).mem
  BY <1>1, Goings
<1> QED BY <1>1, <1>2, PlainSave

\* AttachStorage neither provisions nor releases.
LEMMA PlainAttach ==
    ASSUME Inv3, NEW r \in SR, Attach(r)
    PROVE  Plainly(r)
<1> DEFINE g == G(C, r)
<1>0. G(C, r) = G("centrald", r) /\ C = "centrald" BY DEF C
<1>1. g.pc = "call"
  BY <1>0 DEF Attach, setAttaching, attachStorage, setAttached, CentralSave, InSub
<1>2. /\ g \in Goroutines /\ g.mem \in Storage /\ g.node \in Node \cup {None}
  <2>1. g \in Goroutines /\ g.mem \in Storage BY <1>1, Goings
  <2> QED BY <2>1 DEF Goroutines
<1>3. /\ Return(C, r, g) \in Goroutines /\ Keeps(r, g, Return(C, r, g)) /\ Return(C, r, g).pc # "call"
      /\ Call(g, "attachStorage") \in Goroutines /\ Keeps(r, g, Call(g, "attachStorage"))
      /\ Call(g, "attachStorage").sub = "attachStorage"
      /\ Keeps(r, g, Call(g, "setAttached")) /\ Call(g, "setAttached").mem = g.mem
      /\ Call(g, "setAttached").sub = "setAttached"
      /\ Keeps(r, g, Later(C, r, g)) /\ Later(C, r, g).pc # "call" /\ Later(C, r, g).mem = g.mem
      /\ Keeps(r, g, Failing(C, r, g)) /\ Failing(C, r, g).pc # "call" /\ Failing(C, r, g).mem = g.mem
  BY <1>1, Goings DEF Subs
<1>4. CASE setAttaching(r)
  <2> DEFINE new == [g.mem EXCEPT !.att = "ATTACHING", !.node = g.node]
  <2>1. CentralSave(r, "setAttaching", new, Call(g, "attachStorage"))
    BY <1>4, <1>0 DEF setAttaching
  <2> HIDE DEF g
  <2>2. new \in Storage /\ new.prov = g.mem.prov BY <1>2 DEF Storage
  <2> HIDE DEF new
  <2> QED BY <1>3, <2>1, <2>2, PlainCentralSave DEF g, ProvisionSubs, ReleaseSubs
<1>5. CASE setAttached(r)
  <2> DEFINE new == [g.mem EXCEPT !.att = "ATTACHED"]
  <2>1. CentralSave(r, "setAttached", new, Return(C, r, g))
    BY <1>5, <1>0 DEF setAttached
  <2> HIDE DEF g
  <2>2. new \in Storage /\ new.prov = g.mem.prov BY <1>2 DEF Storage
  <2> HIDE DEF new
  <2> QED BY <1>3, <2>1, <2>2, PlainCentralSave DEF g, ProvisionSubs, ReleaseSubs
<1>6. CASE attachStorage(r)
  <2>1. /\ g.sub = "attachStorage" /\ UNCHANGED <<req, stg>>
        /\ \/ Become(C, r, Call(g, "setAttached")) \/ Become(C, r, Failing(C, r, g))
           \/ Become(C, r, Later(C, r, g))
    BY <1>6, <1>0 DEF attachStorage, InSub
  <2>2. Steady BY <2>1 DEF Prov, Steady
  <2>3. PICK h : Become(C, r, h) /\ Keeps(r, g, h) /\ h.mem = g.mem /\ (h.pc = "call" => h.sub \notin ProvisionSubs)
    BY <1>3, <2>1 DEF ProvisionSubs
  <2> QED BY <2>1, <2>2, <2>3 DEF Plainly
<1> QED BY <1>4, <1>5, <1>6 DEF Attach

\* DetachStorage neither provisions nor releases.
LEMMA PlainDetach ==
    ASSUME Inv3, NEW r \in SR, Detach(r)
    PROVE  Plainly(r)
<1> DEFINE g == G(C, r)
<1>0. G(C, r) = G("centrald", r) /\ C = "centrald" BY DEF C
<1>1. g.pc = "call"
  BY <1>0 DEF Detach, setDetaching, detachStorage, setDetached, cleanupDetach, CentralSave, InSub
<1>2. /\ g \in Goroutines /\ g.mem \in Storage BY <1>1, Goings
<1>3. /\ Return(C, r, g) \in Goroutines /\ Keeps(r, g, Return(C, r, g)) /\ Return(C, r, g).pc # "call"
      /\ Return(C, r, g).mem = g.mem
      /\ Call(g, "detachStorage") \in Goroutines /\ Keeps(r, g, Call(g, "detachStorage"))
      /\ Call(g, "detachStorage").sub = "detachStorage"
      /\ Keeps(r, g, Call(g, "setDetached")) /\ Call(g, "setDetached").mem = g.mem
      /\ Call(g, "setDetached").sub = "setDetached"
      /\ Keeps(r, g, Later(C, r, g)) /\ Later(C, r, g).pc # "call" /\ Later(C, r, g).mem = g.mem
  BY <1>1, Goings DEF Subs
<1>4. CASE setDetaching(r)
  <2> DEFINE new == [g.mem EXCEPT !.att = "DETACHING"]
  <2>1. CentralSave(r, "setDetaching", new, Call(g, "detachStorage"))
    BY <1>4, <1>0 DEF setDetaching
  <2> HIDE DEF g
  <2>2. new \in Storage /\ new.prov = g.mem.prov BY <1>2 DEF Storage
  <2> HIDE DEF new
  <2> QED BY <1>3, <2>1, <2>2, PlainCentralSave DEF g, ProvisionSubs, ReleaseSubs
<1>5. CASE setDetached(r)
  <2> DEFINE dev == IF req[r].ops = {"DETACH"} THEN "UNUSED" ELSE g.mem.dev
             new == [g.mem EXCEPT !.att = "DETACHED", !.node = None, !.dev = dev]
  <2>1. CentralSave(r, "setDetached", new, Return(C, r, g))
    BY <1>5, <1>0 DEF setDetached
  <2> HIDE DEF g
  <2>3. dev \in {"UNUSED", "FORMATTING", "OPENING", "OPEN", "CLOSING", "ERROR"}
    BY <1>2 DEF Storage
  <2> HIDE DEF dev
  <2>2. new \in Storage /\ new.prov = g.mem.prov BY <1>2, <2>3 DEF Storage
  <2> HIDE DEF new
  <2> QED BY <1>3, <2>1, <2>2, PlainCentralSave DEF g, ProvisionSubs, ReleaseSubs
<1>6. CASE detachStorage(r)
  <2>1. /\ g.sub = "detachStorage" /\ UNCHANGED stg /\ (SaysWhy(r) \/ UNCHANGED req)
        /\ \/ Become(C, r, Call(g, "setDetached")) \/ Become(C, r, Later(C, r, g))
    BY <1>6, <1>0 DEF detachStorage, InSub
  <2>2. Steady BY <2>1 DEF Prov, Steady
  <2>3. PICK h : Become(C, r, h) /\ Keeps(r, g, h) /\ h.mem = g.mem /\ (h.pc = "call" => h.sub \notin ProvisionSubs)
    BY <1>3, <2>1 DEF ProvisionSubs
  <2> QED BY <2>1, <2>2, <2>3 DEF Plainly
<1>7. CASE cleanupDetach(r)
  <2> DEFINE new == [g.mem EXCEPT !.att = "ERROR"]
  <2>1. StorageUpdate(C, r, new, Return(C, r, g), Return(C, r, g)) /\ g.sub = "cleanup" /\ UNCHANGED req
    BY <1>7, <1>0 DEF cleanupDetach, InSub
  <2> HIDE DEF g
  <2>2. new \in Storage /\ new.prov = g.mem.prov BY <1>2 DEF Storage
  <2> HIDE DEF new
  <2> QED BY <1>1, <1>3, <2>1, <2>2, PlainSave DEF g, ProvisionSubs, ReleaseSubs
<1> QED BY <1>4, <1>5, <1>6, <1>7 DEF Detach

(* What centrald releases storage for.                                     *)
LEMMA Releasing ==
    ASSUME Inv3, NEW r \in SR, G(C, r).pc = "call", G(C, r).sub \in ReleaseSubs
    PROVE  /\ Busy(C, r) /\ ~Moves(r) /\ G(C, r).sid = req[r].sid
           /\ Has(r, "PROVISION") => req[r].st \in Undoing
           /\ G(C, r).back \/ Has(r, "RELEASE")
<1> DEFINE g == G(C, r)
<1>1. InState(C, req[r].ops, g) /\ SubOf(g) /\ ~g.retry /\ Running(C, r) /\ req[r].ops \in Plans
  BY InThree DEF Shape, Running
<1>2. g.st \in {"RELEASING", UP} /\ g.st \in Serving(req[r].ops) /\ (g.st \in Undoing <=> g.back)
  BY <1>1 DEF SubOf, InState
<1>3. (g.st = "RELEASING" /\ Has(r, "RELEASE")) \/ (g.st = UP /\ Has(r, "PROVISION") /\ g.back)
  BY <1>2 DEF Serving, Has, UP, Undoing
<1>4. ~Moves(r) /\ ~(Has(r, "RELEASE") /\ Has(r, "PROVISION"))
  BY <1>1, <1>3, PlanFamily DEF Moves, Has
<1>5. Busy(C, r) /\ g.st = req[r].st BY <1>1, <1>4, GoIsOK DEF Busy
<1>6. g.sid = req[r].sid BY CallIsLinked DEF ReleaseSubs
<1> QED BY <1>3, <1>4, <1>5, <1>6 DEF Undoing, UP

(* The storage of a request that is released may be in any stage that is   *)
(* not provisioned any more.                                               *)
LEMMA ReleasedLink ==
    ASSUME Inv3, NEW r \in SR, G(C, r).pc = "call", G(C, r).sub \in ReleaseSubs,
           SaysWhy(r) \/ UNCHANGED req,
           req[r].sid # None => stg'[req[r].sid].prov \notin {"UNPROVISIONED", "PROVISIONING"}
    PROVE  LinkOK(r)'
<1>1. /\ req'[r].ops = req[r].ops /\ req'[r].sid = req[r].sid /\ req'[r].st = req[r].st
  BY Releasing, SayingIs
<1>2. (Has(r, "PROVISION")' <=> Has(r, "PROVISION")) /\ (Moves(r)' <=> Moves(r))
  BY <1>1 DEF Has, Moves
<1>3. req'[r].sid # None => stg'[req'[r].sid].prov \notin {"UNPROVISIONED", "PROVISIONING"}
  BY <1>1
<1> QED BY <1>1, <1>2, <1>3, Releasing DEF LinkOK, Prov

\* Storage that is to be released is marked by the request that holds it.
LEMMA OwnSetState ==
    ASSUME Inv3, NEW r \in SR, setStorageState(r)
    PROVE  Owned' /\ Apart'
<1> DEFINE g == G(C, r)
           new == [g.mem EXCEPT !.prov = "UNPROVISIONING"]
<1>0. G(C, r) = G("centrald", r) /\ C = "centrald" BY DEF C
<1>1. /\ g.pc = "call" /\ g.sub = "setStorageState"
      /\ StorageUpdate(C, r, new, Call(g, "deleteVolume"), Later(C, r, g))
      /\ SaysWhy(r) \/ UNCHANGED req
  BY <1>0 DEF setStorageState, CentralSave, InSub
<1>2. /\ g \in Goroutines /\ g.mem \in Storage
      /\ Call(g, "deleteVolume") \in Goroutines /\ Keeps(r, g, Call(g, "deleteVolume"))
      /\ Call(g, "deleteVolume").sub = "deleteVolume" /\ Call(g, "deleteVolume").mem = g.mem
      /\ Keeps(r, g, Later(C, r, g)) /\ Later(C, r, g).pc # "call" /\ Later(C, r, g).mem = g.mem
  BY <1>1, Goings DEF Subs
<1>3. g.sub \notin ProvisionSubs /\ g.sub \in ReleaseSubs
  BY <1>1 DEF ProvisionSubs, ReleaseSubs
<1>4. Busy(C, r) /\ g.sid = req[r].sid BY <1>1, <1>3, Releasing
<1> HIDE DEF g
<1>5. new \in Storage /\ new.prov = "UNPROVISIONING" BY <1>2 DEF Storage
<1> HIDE DEF new
<1>6. CASE UNCHANGED stg /\ Become(C, r, Later(C, r, g))
  <2>1. Steady BY <1>6 DEF Prov, Steady
  <2>2. Plainly(r) BY <1>1, <1>2, <1>6, <2>1 DEF Plainly, g
  <2> QED BY <1>1, <1>3, <2>2, OwnPlain DEF g
<1>7. ASSUME NEW m, NEW h, Saved(C, r, new, m), Copies(Call(g, "deleteVolume"), m, h), Become(C, r, h)
      PROVE  Owned' /\ Apart'
  <2>1. /\ g.sid \in Stg /\ m.prov = "UNPROVISIONING"
        /\ \A s \in Stg : stg'[s] = IF s = g.sid THEN m ELSE stg[s]
    BY <1>5, <1>7, InThree DEF Saved, TypeOK, g
  <2>2. Keeps(r, g, h) /\ h.mem = m /\ h.sid = g.sid /\ (h.pc = "call" => h.sub \notin ProvisionSubs)
    BY <1>2, <1>7 DEF Copies, Alike, Keeps, ProvisionSubs
  <2>3. \A s \in Stg : \/ stg'[s].prov = Prov(s)
                       \/ Busy(C, r) /\ g.sid = s /\ stg'[s].prov # "PROVISIONING"
    BY <1>4, <2>1 DEF Prov
  <2>4. MemOK(r, h)'
    <3>1. Prov(h.sid)' = m.prov BY <2>1, <2>2 DEF Prov
    <3>2. h.sid # None BY <2>1, <2>2, SizesAssumption
    <3> QED BY <2>2, <3>1, <3>2 DEF MemOK
  <2>5. LinkOK(r)'
    <3>1. stg'[req[r].sid].prov \notin {"UNPROVISIONED", "PROVISIONING"}
      BY <1>4, <2>1
    <3> QED BY <1>1, <1>3, <3>1, ReleasedLink DEF g
  <2> QED BY <1>1, <1>3, <1>7, <2>2, <2>3, <2>4, <2>5, OwnWorks DEF g
<1> QED BY <1>1, <1>2, <1>5, <1>6, <1>7, UpdateIs, InThree DEF g

\* A Storage object is deleted by the request that holds it.
LEMMA OwnDeleteStorage ==
    ASSUME Inv3, NEW r \in SR, deleteStorage(r)
    PROVE  Owned' /\ Apart'
<1> DEFINE g == G(C, r)
<1>0. G(C, r) = G("centrald", r) /\ C = "centrald" BY DEF C
<1>1. /\ g.pc = "call" /\ g.sub = "deleteStorage"
      /\ SaysWhy(r) \/ UNCHANGED req
      /\ Become(C, r, Return(C, r, g)) \/ Become(C, r, Later(C, r, g))
      /\ stg' \in {stg, [stg EXCEPT ![g.sid] = NoStorage]}
  BY <1>0 DEF deleteStorage, InSub
<1>2. PICK h : Become(C, r, h) /\ Keeps(r, g, h) /\ h.mem = g.mem /\ h.pc # "call"
  BY <1>1, Goings
<1>3. g.sub \notin ProvisionSubs /\ g.sub \in ReleaseSubs
  BY <1>1 DEF ProvisionSubs, ReleaseSubs
<1>4. Busy(C, r) /\ g.sid = req[r].sid /\ (g.back \/ Has(r, "RELEASE"))
  BY <1>1, <1>3, Releasing
<1>5. CASE stg' = stg
  <2>1. Steady BY <1>5 DEF Prov, Steady
  <2>2. Plainly(r) BY <1>1, <1>2, <2>1 DEF Plainly
  <2> QED BY <1>1, <1>3, <2>2, OwnPlain
<1>6. CASE stg' = [stg EXCEPT ![g.sid] = NoStorage]
  <2>1. \A s \in Stg : stg'[s] = IF s = g.sid THEN NoStorage ELSE stg[s]
    BY <1>6, InThree DEF TypeOK
  <2>2. NoStorage.prov = None BY DEF NoStorage
  <2>3. \A s \in Stg : \/ stg'[s].prov = Prov(s)
                       \/ Busy(C, r) /\ g.sid = s /\ stg'[s].prov # "PROVISIONING"
    BY <1>4, <2>1, <2>2 DEF Prov, None
  <2>4. g.sid # None => g.sid \in Stg /\ stg'[g.sid].prov = None
    BY <2>1, <2>2, SidType, InThree
  <2>5. MemOK(r, h)'
    <3>1. MemOK(r, g) BY <1>4, GoIsOK DEF GoOK
    <3>2. Has(r, "RELEASE")' <=> Has(r, "RELEASE") BY <1>1, SayingIs DEF Has
    <3>4. h.sid = g.sid /\ (h.back <=> g.back) BY <1>2 DEF Keeps
    <3>3. h.sid # None => Prov(h.sid)' = None BY <2>4, <3>4 DEF Prov
    <3> QED BY <1>2, <1>4, <3>1, <3>2, <3>3, <3>4 DEF MemOK, Gone
  <2>6. LinkOK(r)'
    <3>1. req[r].sid # None => stg'[req[r].sid].prov \notin {"UNPROVISIONED", "PROVISIONING"}
      BY <1>4, <2>4 DEF None
    <3> QED BY <1>1, <1>3, <3>1, ReleasedLink
  <2> QED BY <1>1, <1>2, <1>3, <2>3, <2>5, <2>6, OwnWorks
<1> QED BY <1>1, <1>5, <1>6

(* deleteVolume changes only the volume.                                   *)
LEMMA PlainDeleteVolume ==
    ASSUME Inv3, NEW r \in SR, deleteVolume(r)
    PROVE  Plainly(r)
<1> DEFINE g == G(C, r)
<1>0. G(C, r) = G("centrald", r) /\ C = "centrald" BY DEF C
<1>1. /\ g.pc = "call" /\ g.sub = "deleteVolume" /\ UNCHANGED stg /\ (SaysWhy(r) \/ UNCHANGED req)
      /\ Become(C, r, Call(g, "deleteStorage")) \/ Become(C, r, Later(C, r, g))
  BY <1>0 DEF deleteVolume, InSub
<1>2. Steady BY <1>1 DEF Prov, Steady
<1>3. PICK h : Become(C, r, h) /\ Keeps(r, g, h) /\ h.mem = g.mem /\ (h.pc = "call" => h.sub \notin ProvisionSubs)
  <2>1. /\ Keeps(r, g, Call(g, "deleteStorage")) /\ Call(g, "deleteStorage").mem = g.mem
        /\ Call(g, "deleteStorage").sub = "deleteStorage"
        /\ Keeps(r, g, Later(C, r, g)) /\ Later(C, r, g).mem = g.mem /\ Later(C, r, g).pc # "call"
    BY <1>1, Goings DEF Subs
  <2> QED BY <1>1, <2>1 DEF ProvisionSubs
<1> QED BY <1>1, <1>2, <1>3 DEF Plainly

\* ReleaseStorage keeps this layer.
LEMMA OwnRelease ==
    ASSUME Inv3, NEW r \in SR, Release(r)
    PROVE  Owned' /\ Apart'
<1>1. CASE deleteVolume(r)
  <2>1. Plainly(r) BY <1>1, PlainDeleteVolume
  <2>2. G(C, r).pc = "call" /\ G(C, r).sub \notin ProvisionSubs
    BY <1>1 DEF deleteVolume, InSub, ProvisionSubs, C
  <2> QED BY <2>1, <2>2, OwnPlain
<1> QED BY <1>1, OwnSetState, OwnDeleteStorage DEF Release

(* What centrald provisions storage for.                                   *)
LEMMA Provides ==
    ASSUME Inv3, NEW r \in SR, G(C, r).pc = "call", G(C, r).sub \in ProvisionSubs
    PROVE  LET g == G(C, r) IN
           /\ g.st = "PROVISIONING" /\ req[r].st = "PROVISIONING" /\ Has(r, "PROVISION")
           /\ Busy(C, r) /\ ~Moves(r) /\ Active(r) /\ GoOK(r, g)
           /\ ~g.back /\ ~g.err /\ ~g.retry /\ ~g.noid /\ g.undo = <<>>
<1> DEFINE g == G(C, r)
<1>1. InState(C, req[r].ops, g) /\ SubOf(g) /\ ~g.retry /\ (~g.back => ~g.err) /\ Running(C, r) /\ req[r].ops \in Plans
  BY InThree DEF Shape, Running
<1>2. g.st = "PROVISIONING" /\ "PROVISION" \in req[r].ops /\ ~g.back /\ g.undo = <<>> /\ Lists(C, req[r].ops, g)
  BY <1>1 DEF SubOf, InState, Undoing, Serving
<1>3. ~g.noid /\ ~Moves(r) BY <1>1, <1>2, PlanFamily DEF Lists, Moves, Has
<1>4. Busy(C, r) BY <1>1, <1>3 DEF Busy
<1> QED BY <1>1, <1>2, <1>3, <1>4, GoIsOK DEF Has

(* What is left to do and to undo after a sub-state of PROVISIONING.       *)
LEMMA ProvidesOn ==
    ASSUME NEW h, ~h.back, \/ h.pc = "call" /\ h.undo = <<>>
                           \/ h.pc = "turn" /\ h.undo = <<UP>>
    PROVE  ProvisioningOK(h)'
BY DEF ProvisioningOK, Only

\* ProvisionStorage that fails leaves the loop with UNDO_PROVISIONING alone to
\* undo.
LEMMA ProvidesStops ==
    ASSUME Inv3, NEW r \in SR, G(C, r).pc = "call", G(C, r).sub \in ProvisionSubs,
           NEW h, Keeps(r, G(C, r), h), h.pc # "call", h.err \/ h.retry
    PROVE  ~h.back /\ h.pc = "turn" /\ h.undo = <<UP>>
<1>1. UndoOf("PROVISIONING") = <<UP>> BY DEF UndoOf, undoStateMap, UP
<1>2. <<>> \o <<UP>> = <<UP>> OBVIOUS
<1> QED BY <1>1, <1>2, Provides DEF Keeps, Moves

(* A handler that fails, or only goes on.                                  *)
LEMMA ProvidesFails ==
    ASSUME Inv3, NEW r \in SR, G(C, r).pc = "call", G(C, r).sub \in ProvisionSubs,
           NEW h, Become(C, r, h), Keeps(r, G(C, r), h), h.mem = G(C, r).mem, h.pc # "call", h.err,
           UNCHANGED req, G(C, r).sid # None => stg'[G(C, r).sid].prov = Prov(G(C, r).sid)
    PROVE  GoOK(r, h)'
<1> DEFINE g == G(C, r)
<1>1. GoOK(r, g) /\ g.st = "PROVISIONING" /\ ~g.noid BY Provides
<1>2. h.sid = g.sid /\ h.st = g.st /\ ~h.noid /\ (h.back <=> g.back)
  BY <1>1 DEF Keeps
<1>3. h.sid # None => Prov(h.sid)' = Prov(h.sid) BY <1>2 DEF Prov
<1>4. h.sid = req'[r].sid \/ Fresh(r)'
  <2>1. CASE Fresh(r)
    <3>1. stg'[g.sid].prov = Prov(g.sid) BY <2>1 DEF Fresh
    <3> QED BY <1>2, <2>1, <3>1, FreshKept
  <2>2. CASE ~Fresh(r) BY <1>1, <1>2, <2>2 DEF GoOK
  <2> QED BY <2>1, <2>2
<1>5. MemOK(r, h)'
  <2>1. MemOK(r, g) /\ (Has(r, "RELEASE")' <=> Has(r, "RELEASE"))
    BY <1>1 DEF GoOK, Has
  <2> QED BY <1>2, <1>3, <2>1 DEF MemOK, Made, Gone
<1>6. ProvisioningOK(h)' BY ProvidesStops, ProvidesOn
<1>7. CallOK(r, h)' BY DEF CallOK
<1> QED BY <1>4, <1>5, <1>6, <1>7 DEF GoOK

(* A handler that changes neither the request nor its storage.             *)
LEMMA OwnProvides ==
    ASSUME Inv3, NEW r \in SR, G(C, r).pc = "call", G(C, r).sub \in ProvisionSubs,
           NEW h, Become(C, r, h), UNCHANGED req,
           \A s \in Stg : stg'[s].prov = Prov(s) \/ Unused(s),
           h.sid = G(C, r).sid \/ Unused(h.sid),
           ~h.retry => GoOK(r, h)'
    PROVE  Owned' /\ Apart'
<1>1. Others(r) /\ req'[r] = req[r] /\ (Active(r)' <=> Active(r))
  BY DEF Others, Active
<1>2. LinkOK(r)'
  <2>1. req[r].sid # None => req[r].sid \in Stg /\ ~Unused(req[r].sid)
    BY SidType, InThree DEF Unused
  <2>2. req[r].sid # None => stg'[req[r].sid].prov = Prov(req[r].sid) BY <2>1
  <2> QED BY <1>1, <2>2, LinkKept
<1> QED BY <1>1, <1>2, Provides, OwnCentral

(* What every failure of a provisioning handler does.                      *)
LEMMA OwnStopsProviding ==
    ASSUME Inv3, NEW r \in SR, G(C, r).pc = "call", G(C, r).sub \in ProvisionSubs,
           Become(C, r, Failing(C, r, G(C, r))) \/ Become(C, r, Later(C, r, G(C, r))),
           UNCHANGED req, \A s \in Stg : stg'[s].prov = Prov(s) \/ Unused(s)
    PROVE  Owned' /\ Apart'
<1> DEFINE g == G(C, r)
<1>1. PICK h : Become(C, r, h) /\ Keeps(r, g, h) /\ h.mem = g.mem /\ h.pc # "call" /\ (h.err \/ h.retry)
  BY Goings
<1>2. g.sid # None => stg'[g.sid].prov = Prov(g.sid)
  <2>1. g.sid # None => g.sid \in Stg /\ ~Unused(g.sid)
    BY SidType, InThree DEF Unused
  <2> QED BY <2>1
<1>3. h.sid = g.sid BY <1>1 DEF Keeps
<1>4. ~h.retry => GoOK(r, h)' BY <1>1, <1>2, ProvidesFails
<1> QED BY <1>1, <1>3, <1>4, OwnProvides

(* Getting the capacity of a pool.                                         *)
LEMMA OwnGetCapacity ==
    ASSUME Inv3, NEW r \in SR, getCapacity(r)
    PROVE  Owned' /\ Apart'
<1> DEFINE g == G(C, r)
<1>0. G(C, r) = G("centrald", r) /\ C = "centrald" BY DEF C
<1>1. /\ g.pc = "call" /\ g.sub = "getCapacity" /\ UNCHANGED <<req, stg>>
      /\ \/ Become(C, r, Call(g, "createStorage"))
         \/ Become(C, r, Failing(C, r, g)) \/ Become(C, r, Later(C, r, g))
  BY <1>0 DEF getCapacity, InSub
<1>2. g.sub \in ProvisionSubs /\ \A s \in Stg : stg'[s].prov = Prov(s)
  BY <1>1 DEF ProvisionSubs, Prov
<1>3. CASE Become(C, r, Call(g, "createStorage"))
  <2>0. PICK h : h = Call(g, "createStorage") OBVIOUS
  <2>1. Keeps(r, g, h) /\ h.mem = g.mem /\ h.pc = "call" /\ h.sub = "createStorage"
    BY <1>1, <2>0, Goings DEF Subs
  <2>2. Become(C, r, h) BY <1>3, <2>0
  <2>3. GoOK(r, g) /\ ~g.back /\ g.undo = <<>> BY <1>1, <1>2, Provides
  <2>4. ~h.back /\ h.undo = <<>> /\ h.sid = g.sid BY <2>1, <2>3 DEF Keeps
  <2>5. g.sid = None /\ g.sid = req[r].sid
    BY <1>1, <2>3, CallIsLinked DEF GoOK, CallOK
  <2>6. MemOK(r, h)' BY <2>1, <2>3, <2>4, <2>5 DEF GoOK, MemOK
  <2>7. ProvisioningOK(h)' BY <2>1, <2>4, ProvidesOn
  <2>8. CallOK(r, h)' BY <2>1, <2>4, <2>5 DEF CallOK
  <2>9. GoOK(r, h)' BY <1>1, <2>4, <2>5, <2>6, <2>7, <2>8 DEF GoOK
  <2> QED BY <1>1, <1>2, <2>2, <2>4, <2>9, OwnProvides
<1> QED BY <1>1, <1>2, <1>3, OwnStopsProviding

(* Creating the Storage object.                                            *)
LEMMA OwnCreateStorage ==
    ASSUME Inv3, NEW r \in SR, createStorage(r)
    PROVE  Owned' /\ Apart'
<1> DEFINE g == G(C, r)
           new == [NoStorage EXCEPT !.prov = "PROVISIONING"]
<1>0. G(C, r) = G("centrald", r) /\ C = "centrald" BY DEF C
<1>1. /\ g.pc = "call" /\ g.sub = "createStorage" /\ UNCHANGED req
      /\ \/ \E s \in Stg : /\ Unused(s) /\ stg' = [stg EXCEPT ![s] = new]
                           /\ \/ Become(C, r, [Call(g, "setIds") EXCEPT !.sid = s, !.mem = new])
                              \/ Become(C, r, Failing(C, r, g))
         \/ UNCHANGED stg /\ Become(C, r, Failing(C, r, g))
  BY <1>0 DEF createStorage, InSub
<1>2. g.sub \in ProvisionSubs BY <1>1 DEF ProvisionSubs
<1>3. new.prov = "PROVISIONING" BY DEF NoStorage
<1> HIDE DEF new
<1>4. CASE UNCHANGED stg /\ Become(C, r, Failing(C, r, g))
  <2>1. \A s \in Stg : stg'[s].prov = Prov(s) BY <1>4 DEF Prov
  <2> QED BY <1>1, <1>2, <1>4, <2>1, OwnStopsProviding
<1>5. ASSUME NEW s \in Stg, Unused(s), stg' = [stg EXCEPT ![s] = new],
             \/ Become(C, r, [Call(g, "setIds") EXCEPT !.sid = s, !.mem = new])
             \/ Become(C, r, Failing(C, r, g))
      PROVE  Owned' /\ Apart'
  <2>1. \A x \in Stg : stg'[x] = IF x = s THEN new ELSE stg[x]
    BY <1>5, InThree DEF TypeOK
  <2>2. \A x \in Stg : stg'[x].prov = Prov(x) \/ Unused(x) BY <1>5, <2>1 DEF Prov
  <2>3. CASE Become(C, r, Failing(C, r, g))
    BY <1>1, <1>2, <2>2, <2>3, OwnStopsProviding
  <2>4. CASE Become(C, r, [Call(g, "setIds") EXCEPT !.sid = s, !.mem = new])
    <3>0. PICK h : h = [Call(g, "setIds") EXCEPT !.sid = s, !.mem = new] OBVIOUS
    <3>1. Become(C, r, h) BY <2>4, <3>0
    <3>2. /\ g.st = "PROVISIONING" /\ ~g.back /\ ~g.noid /\ g.undo = <<>> /\ GoOK(r, g) /\ g \in Goroutines
      BY <1>1, <1>2, Provides, InThree
    <3>3. req[r].sid = None BY <1>1, <3>2, CallIsLinked DEF GoOK, CallOK
    <3> HIDE DEF g
    <3>4. /\ h.pc = "call" /\ h.sub = "setIds" /\ h.sid = s /\ h.mem = new /\ h.st = "PROVISIONING"
          /\ ~h.noid /\ ~h.back /\ h.undo = <<>>
      BY <1>1, <3>0, <3>2 DEF Call, Goroutines
    <3>5. s # None /\ stg'[s].prov = "PROVISIONING" BY <1>3, <2>1, SizesAssumption
    <3>6. G(C, r)' = h BY <3>1, InThree DEF TypeOK, Become, G
    <3>7. Prov(h.sid)' = "PROVISIONING" BY <3>4, <3>5 DEF Prov
    <3>8. Fresh(r)' BY <1>1, <3>3, <3>4, <3>5, <3>6, <3>7 DEF Fresh
    <3>9. MemOK(r, h)'
      <4>1. h.mem.prov = "PROVISIONING" /\ h.sid # None BY <1>3, <3>4, <3>5
      <4> QED BY <3>7, <4>1 DEF MemOK
    <3>10. ProvisioningOK(h)' BY <3>4, ProvidesOn
    <3>11. CallOK(r, h)' BY <3>4, <3>8 DEF CallOK
    <3>12. GoOK(r, h)' BY <3>8, <3>9, <3>10, <3>11 DEF GoOK
    <3> QED BY <1>1, <1>2, <1>5, <2>2, <3>1, <3>4, <3>12, OwnProvides DEF g
  <2> QED BY <1>5, <2>3, <2>4
<1> QED BY <1>1, <1>4, <1>5

(* Linking the request to the storage.                                     *)
LEMMA OwnSetIds ==
    ASSUME Inv3, NEW r \in SR, setIds(r)
    PROVE  Owned' /\ Apart'
<1> DEFINE g == G(C, r)
<1>0. G(C, r) = G("centrald", r) /\ C = "centrald" BY DEF C
<1>1. /\ g.pc = "call" /\ g.sub = "setIds" /\ UNCHANGED stg
      /\ \/ Writes(C, r, g, g.st) /\ Become(C, r, Call(g, "createCSPVolume"))
         \/ UNCHANGED req /\ Become(C, r, Failing(C, r, g))
  BY <1>0 DEF setIds, InSub, Writes
<1>2. g.sub \in ProvisionSubs /\ \A s \in Stg : stg'[s].prov = Prov(s)
  BY <1>1 DEF ProvisionSubs, Prov
<1>3. CASE Writes(C, r, g, g.st) /\ Become(C, r, Call(g, "createCSPVolume"))
  <2>0. PICK h : h = Call(g, "createCSPVolume") OBVIOUS
  <2>1. Keeps(r, g, h) /\ h.mem = g.mem /\ h.pc = "call" /\ h.sub = "createCSPVolume"
    BY <1>1, <2>0, Goings DEF Subs
  <2>2. Become(C, r, h) BY <1>3, <2>0
  <2>3. /\ GoOK(r, g) /\ ~g.back /\ g.undo = <<>> /\ ~g.noid /\ ~g.err /\ g.st = "PROVISIONING"
        /\ req[r].st = "PROVISIONING" /\ Busy(C, r) /\ ~Moves(r) /\ Active(r)
    BY <1>1, <1>2, Provides
  <2>4. ~h.back /\ h.undo = <<>> /\ h.sid = g.sid BY <2>1, <2>3 DEF Keeps
  <2>5. Fresh(r) /\ g.sid # None /\ Prov(g.sid) = "PROVISIONING"
    BY <1>1, <2>3 DEF GoOK, CallOK, Fresh
  <2>6. Others(r) /\ req'[r].st = "PROVISIONING" /\ req'[r].ops = req[r].ops /\ req'[r].sid = g.sid
    BY <1>3, <2>3, WrittenIs, InThree
  <2>7. /\ Prov(h.sid)' = "PROVISIONING" /\ stg'[g.sid].prov = "PROVISIONING"
    BY <1>1, <2>4, <2>5 DEF Prov
  <2>8. g.mem.prov = "PROVISIONING"
    <3>1. MemOK(r, g) BY <2>3 DEF GoOK
    <3> QED BY <1>1, <2>3, <2>5, <3>1 DEF MemOK, Made, Gone, None
  <2>9. MemOK(r, h)' BY <2>1, <2>4, <2>5, <2>7, <2>8 DEF MemOK
  <2>10. ProvisioningOK(h)' BY <2>1, <2>4, ProvidesOn
  <2>11. CallOK(r, h)' BY <2>1, <2>4, <2>5, <2>6, <2>7 DEF CallOK
  <2>12. GoOK(r, h)' BY <2>4, <2>6, <2>9, <2>10, <2>11 DEF GoOK
  <2>13. LinkOK(r)'
    <3>1. ~Moves(r)' BY <2>3, <2>6 DEF Moves, Has
    <3> QED BY <2>6, <2>7, <3>1 DEF LinkOK, Prov
  <2> QED BY <1>2, <2>2, <2>3, <2>4, <2>6, <2>12, <2>13, OwnCentral
<1> QED BY <1>1, <1>2, <1>3, OwnStopsProviding

(* Creating the volume.                                                    *)
LEMMA OwnCreateVolume ==
    ASSUME Inv3, NEW r \in SR, createCSPVolume(r)
    PROVE  Owned' /\ Apart'
<1> DEFINE g == G(C, r)
           made(v) == [Call(g, "setProvisioned") EXCEPT !.mem.vol = v, !.mem.prov = "PROVISIONED"]
<1>0. G(C, r) = G("centrald", r) /\ C = "centrald" BY DEF C
<1>1. /\ g.pc = "call" /\ g.sub = "createCSPVolume" /\ UNCHANGED <<req, stg>>
      /\ \/ \E v \in Vol : Become(C, r, made(v))
         \/ Become(C, r, Failing(C, r, g)) \/ Become(C, r, Later(C, r, g))
  BY <1>0 DEF createCSPVolume, InSub, UnusedVolumes
<1>2. g.sub \in ProvisionSubs /\ \A s \in Stg : stg'[s].prov = Prov(s)
  BY <1>1 DEF ProvisionSubs, Prov
<1>3. ASSUME NEW v \in Vol, Become(C, r, made(v))
      PROVE  Owned' /\ Apart'
  <2>0. PICK h : h = made(v) OBVIOUS
  <2>1. Become(C, r, h) BY <1>3, <2>0
  <2>2. /\ GoOK(r, g) /\ ~g.back /\ g.undo = <<>> /\ g \in Goroutines
    BY <1>1, <1>2, Provides, InThree
  <2>3. g.sid # None /\ g.sid = req[r].sid /\ Prov(g.sid) = "PROVISIONING"
    BY <1>1, <2>2 DEF GoOK, CallOK
  <2> HIDE DEF g
  <2>4. /\ h.pc = "call" /\ h.sub = "setProvisioned" /\ h.sid = g.sid /\ ~h.back /\ h.undo = <<>>
        /\ h.mem.prov = "PROVISIONED"
    <3>1. Call(g, "setProvisioned") = [g EXCEPT !.sub = "setProvisioned"]
      BY DEF Call
    <3>2. g.mem \in Storage BY <2>2 DEF Goroutines
    <3> QED BY <1>1, <2>0, <2>2, <3>1, <3>2 DEF Goroutines, Storage
  <2>5. Prov(h.sid)' = "PROVISIONING" BY <1>1, <2>3, <2>4 DEF Prov
  <2>6. MemOK(r, h)' BY <2>3, <2>4, <2>5 DEF MemOK, Made
  <2>7. ProvisioningOK(h)' BY <2>4, ProvidesOn
  <2>8. CallOK(r, h)' BY <1>1, <2>3, <2>4, <2>5 DEF CallOK
  <2>9. GoOK(r, h)' BY <1>1, <2>3, <2>4, <2>6, <2>7, <2>8 DEF GoOK
  <2> QED BY <1>1, <1>2, <2>1, <2>4, <2>9, OwnProvides DEF g
<1> QED BY <1>1, <1>2, <1>3, OwnStopsProviding

(* Noting that the storage is there.                                       *)
LEMMA OwnSetProvisioned ==
    ASSUME Inv3, NEW r \in SR, setProvisioned(r)
    PROVE  Owned' /\ Apart'
<1> DEFINE g == G(C, r)
<1>0. G(C, r) = G("centrald", r) /\ C = "centrald" BY DEF C
<1>1. /\ g.pc = "call" /\ g.sub = "setProvisioned" /\ UNCHANGED req
      /\ StorageUpdate(C, r, g.mem, Return(C, r, g), Failing(C, r, g))
  BY <1>0 DEF setProvisioned, InSub
<1>2. g.sub \in ProvisionSubs BY <1>1 DEF ProvisionSubs
<1>3. /\ g \in Goroutines /\ g.mem \in Storage /\ Return(C, r, g) \in Goroutines
      /\ Keeps(r, g, Return(C, r, g)) /\ Return(C, r, g).pc # "call"
  BY <1>1, Goings
<1>4. CASE UNCHANGED stg /\ Become(C, r, Failing(C, r, g))
  <2>1. \A s \in Stg : stg'[s].prov = Prov(s) BY <1>4 DEF Prov
  <2> QED BY <1>1, <1>2, <1>4, <2>1, OwnStopsProviding
<1>5. ASSUME NEW m, NEW h, Saved(C, r, g.mem, m), Copies(Return(C, r, g), m, h), Become(C, r, h)
      PROVE  Owned' /\ Apart'
  <2>1. /\ GoOK(r, g) /\ req[r].st = "PROVISIONING" /\ Busy(C, r) /\ ~Moves(r) /\ Has(r, "PROVISION")
    BY <1>1, <1>2, Provides
  <2>2. g.sid # None /\ g.sid = req[r].sid /\ g.mem.prov = "PROVISIONED"
    BY <1>1, <2>1 DEF GoOK, CallOK
  <2>3. /\ g.sid \in Stg /\ m.prov = "PROVISIONED"
        /\ \A s \in Stg : stg'[s] = IF s = g.sid THEN m ELSE stg[s]
    BY <1>5, <2>2, InThree DEF Saved, TypeOK
  <2>4. h.mem = m /\ h.sid = g.sid /\ h.pc # "call"
    BY <1>3, <1>5 DEF Copies, Alike, Keeps
  <2>5. \A s \in Stg : stg'[s].prov = Prov(s) \/ (g.sid = s /\ stg'[s].prov # "PROVISIONING")
    BY <2>3 DEF Prov
  <2>6. Prov(h.sid)' = "PROVISIONED" BY <2>3, <2>4 DEF Prov
  <2>7. MemOK(r, h)' BY <2>2, <2>3, <2>4, <2>6 DEF MemOK
  <2>8. ProvisioningOK(h)' BY <2>6 DEF ProvisioningOK
  <2>9. CallOK(r, h)' BY <2>4 DEF CallOK
  <2>10. GoOK(r, h)' BY <1>1, <2>2, <2>4, <2>7, <2>8, <2>9 DEF GoOK
  <2>11. LinkOK(r)'
    <3>1. ~Moves(r)' /\ req'[r].sid = h.sid /\ (Has(r, "PROVISION")' <=> Has(r, "PROVISION"))
      BY <1>1, <2>1, <2>2, <2>4 DEF Moves, Has
    <3> QED BY <2>6, <3>1 DEF LinkOK, Prov
  <2>12. Others(r) /\ req'[r] = req[r] /\ (Active(r)' <=> Active(r))
    BY <1>1 DEF Others, Active
  <2> QED BY <1>5, <2>1, <2>4, <2>5, <2>10, <2>11, <2>12, OwnCentral
<1> QED BY <1>1, <1>3, <1>4, <1>5, UpdateIs, InThree

(* removeCSPVolumeTag changes only the volume.                             *)
LEMMA PlainRemoveTag ==
    ASSUME Inv3, NEW r \in SR, removeCSPVolumeTag(r)
    PROVE  Plainly(r)
<1> DEFINE g == G(C, r)
<1>0. G(C, r) = G("centrald", r) /\ C = "centrald" BY DEF C
<1>1. /\ g.pc = "call" /\ g.sub = "removeCSPVolumeTag" /\ UNCHANGED <<req, stg>>
      /\ Become(C, r, Return(C, r, g)) \/ Become(C, r, Later(C, r, g))
  BY <1>0 DEF removeCSPVolumeTag, InSub
<1>2. Steady BY <1>1 DEF Prov, Steady
<1>3. PICK h : Become(C, r, h) /\ Keeps(r, g, h) /\ h.mem = g.mem /\ h.pc # "call"
  BY <1>1, Goings
<1> QED BY <1>1, <1>2, <1>3 DEF Plainly

(* The handlers that neither provision nor release.                        *)
LEMMA PlainWhen ==
    ASSUME Inv3, NEW r \in SR, Attach(r) \/ Detach(r) \/ removeCSPVolumeTag(r)
    PROVE  Plainly(r) /\ G(C, r).pc = "call" /\ G(C, r).sub \notin ProvisionSubs /\ G(C, r).sub \notin ReleaseSubs
<1>1. Plainly(r) BY PlainAttach, PlainDetach, PlainRemoveTag
<1>2. G(C, r).pc = "call" /\ G(C, r).sub \notin ProvisionSubs /\ G(C, r).sub \notin ReleaseSubs
  <2>1. G(C, r) = G("centrald", r) BY DEF C
  <2> QED
    BY <2>1 DEF Attach, Detach, removeCSPVolumeTag, setAttaching, attachStorage, setAttached, CentralSave, InSub,
       setDetaching, detachStorage, setDetached, cleanupDetach, ProvisionSubs, ReleaseSubs
<1> QED BY <1>1, <1>2

(* Every step of centrald on a request.                                    *)
LEMMA OwnsCentral ==
    ASSUME Inv3, NEW r \in SR, Central(r)
    PROVE  Owned' /\ Apart'
<1>1. "centrald" \in Daemon BY CentralIs
<1>2. CASE Animate("centrald", r)
  BY <1>1, <1>2, OwnNext, OwnTurn, OwnTerminal DEF Animate
<1>3. CASE Provision(r)
  BY <1>3, OwnGetCapacity, OwnCreateStorage, OwnSetIds, OwnCreateVolume, OwnSetProvisioned, PlainWhen, OwnPlain
     DEF Provision
<1> QED BY <1>2, <1>3, OwnDispatches, PlainWhen, OwnPlain, OwnRelease DEF Central

(* Storage that no active request is linked to, and that is not being      *)
(* provisioned by a goroutine, belongs to nobody.                          *)
LEMMA NotHeld ==
    ASSUME Inv3, NEW s \in Stg, \A q \in SR : Active(q) => req[q].sid # s,
           Prov(s) # "PROVISIONING" \/ \A q \in SR : ~Running(C, q)
    PROVE  \A q \in SR : ~Holds(q, s)
<1> SUFFICES ASSUME NEW q \in SR, Holds(q, s)
             PROVE  FALSE
  OBVIOUS
<1>1. PICK d \in Daemon : Busy(d, q) /\ G(d, q).sid = s BY DEF Holds
<1>2. Active(q) BY <1>1, InThree DEF WorkOK
<1>3. d = C /\ Fresh(q) BY <1>1, <1>2, InThree DEF SidOK
<1> QED BY <1>1, <1>3 DEF Fresh, Busy

(* A new request.                                                          *)
LEMMA OwnCreate ==
    ASSUME Inv3, NEW r \in SR, StorageRequestCreate(r)
    PROVE  Owned' /\ Apart'
<1>1. req[r].st = None /\ UNCHANGED <<stg, vol, go, cleanup>> BY CreateIs
<1>2. PICK q : \E ops \in Plans : NewRequest(r, ops, q) BY CreateIs
<1>3. PICK ops \in Plans : NewRequest(r, ops, q) BY <1>2
<1>4. req'[r] = q /\ \A x \in SR \ {r} : req'[x] = req[x]
  BY <1>3, InThree DEF NewRequest, TypeOK
<1>5. \A e \in Daemon, x \in SR : G(e, x)' = G(e, x) BY <1>1 DEF G
<1>6. \A e \in Daemon : ~Running(e, r) /\ ~Running(e, r)'
  BY <1>1, <1>5, InThree DEF Running
<1>7. \A s \in Stg : stg'[s].prov = Prov(s) BY <1>1 DEF Prov
<1>8. ASSUME NEW x \in SR, x # r
      PROVE  OwnOK(x)' /\ \A s \in Stg : Holds(x, s)' => Holds(x, s)
  BY <1>4, <1>5, <1>7, <1>8, OwnStays
<1>9. q.sid # None => /\ q.sid \in Stg /\ ~InUse(q.sid) /\ Prov(q.sid) \in {"PROVISIONED", "UNPROVISIONING"}
                      /\ "PROVISION" \notin q.ops
  BY <1>3 DEF NewRequest, Prov
<1>10. OwnOK(r)'
  <2>1. LinkOK(r)'
    <3>1. q.sid # None => stg'[q.sid].prov \in {"PROVISIONED", "UNPROVISIONING"}
      BY <1>7, <1>9
    <3> QED BY <1>4, <1>9, <3>1 DEF LinkOK, Has, Prov
  <2>2. CentralOK(r)' /\ \A d \in Daemon : SidOK(d, r)'
    BY <1>6, CentralIs DEF CentralOK, SidOK, Busy, C
  <2> QED BY <2>1, <2>2 DEF OwnOK
<1>11. ASSUME NEW s \in Stg, Holds(r, s)'
       PROVE  \A x \in SR : ~Holds(x, s)
  <2>1. s = q.sid /\ s # None BY <1>4, <1>6, <1>11 DEF Holds, Busy
  <2> QED BY <1>9, <2>1, NotHeld DEF InUse
<1>12. Owned' BY <1>8, <1>10 DEF Owned
<1>13. Apart' BY <1>8, <1>11 DEF Apart, Inv3
<1> QED BY <1>12, <1>13

(* Steps that change neither the requests nor what stage storage is in.    *)
LEMMA OwnStill ==
    ASSUME Inv3, UNCHANGED req, \A s \in Stg : stg'[s].prov = Prov(s),
           \A e \in Daemon, q \in SR : G(e, q)' = G(e, q) \/ G(e, q)'.pc = "idle"
    PROVE  Owned' /\ Apart'
<1>1. ASSUME NEW q \in SR
      PROVE  OwnOK(q)' /\ \A s \in Stg : Holds(q, s)' => Holds(q, s)
  <2>1. req'[q] = req[q] OBVIOUS
  <2> QED BY <2>1, OwnStays
<1> QED BY <1>1 DEF Owned, Apart, Inv3

\* Restarts, time and the cleanup of volumes keep this layer.
LEMMA OwnOthers ==
    ASSUME Inv3, \/ CrashCentrald \/ (\E n \in Node : CrashAgentd(n))
                 \/ (\E r \in SR : Expire(r)) \/ UNCHANGED vars \/ releaseOrphanedCSPVolumes
    PROVE  Owned' /\ Apart'
<1>1. \A e \in Daemon, q \in SR : G(e, q)' = G(e, q) \/ G(e, q)'.pc = "idle"
  <2>1. \A e \in Daemon, q \in SR : G(e, q)' = G(e, q) \/ G(e, q)' = Idle
    BY InThree, OthersAre DEF Cleanup, Inv3, Inv2, Inv1
  <2> QED BY <2>1 DEF Idle
<1>2. UNCHANGED req
  BY DEF CrashCentrald, CrashAgentd, Expire, vars, releaseOrphanedCSPVolumes
<1>3. \A s \in Stg : stg'[s].prov = Prov(s)
  <2>1. CASE \E n \in Node : CrashAgentd(n)
    <3>1. PICK n \in Node : CrashAgentd(n) BY <2>1
    <3>2. PICK bad \in SUBSET Stg : stg' = [s \in Stg |-> Recovered(n, bad, s)]
      BY <3>1 DEF CrashAgentd
    <3>3. ASSUME NEW s \in Stg
          PROVE  Recovered(n, bad, s).prov = stg[s].prov
      <4>1. stg[s] \in Storage BY DEF Inv3, Inv2, Inv1, TypeOK
      <4> QED BY <4>1 DEF Recovered, Storage
    <3> QED BY <3>2, <3>3 DEF Prov
  <2>2. CASE \/ CrashCentrald \/ (\E r \in SR : Expire(r)) \/ UNCHANGED vars \/ releaseOrphanedCSPVolumes
    BY <2>2 DEF CrashCentrald, Expire, vars, releaseOrphanedCSPVolumes, Prov
  <2> QED BY <2>1, <2>2
<1> QED BY <1>1, <1>2, <1>3, OwnStill

(* The startup cleanup takes storage away from requests it finds           *)
(* half-provisioned, at a time when nobody provisions.                     *)
LEMMA OwnCleanup ==
    ASSUME Inv3, makeProvisioningStorageUnprovisioned \/ deleteUnprovisionedStorage
    PROVE  Owned' /\ Apart'
<1>0. TypeOK BY DEF Inv3, Inv2, Inv1
<1>1. cleanup # "done" /\ UNCHANGED go
  BY DEF makeProvisioningStorageUnprovisioned, deleteUnprovisionedStorage
<1>2. \A q \in SR : ~Running(C, q) BY <1>1 DEF Inv3, Inv2, Inv1, Idled
<1>3. \A e \in Daemon, q \in SR : G(e, q)' = G(e, q) BY <1>1 DEF G
<1>4. \/ UNCHANGED <<req, stg>>
      \/ \E s \in Stg : /\ Prov(s) = "PROVISIONING" /\ UNCHANGED stg
                        /\ \E r \in SR : Active(r) /\ req[r].sid = s /\ req' = [req EXCEPT ![r].sid = None]
      \/ \E s \in Stg : /\ Prov(s) = "PROVISIONING" /\ ~InUse(s) /\ UNCHANGED req
                        /\ stg' = [stg EXCEPT ![s].prov = "UNPROVISIONED"]
      \/ \E s \in Stg : /\ Prov(s) = "UNPROVISIONED" /\ UNCHANGED req
                        /\ stg' = [stg EXCEPT ![s] = NoStorage]
  BY DEF makeProvisioningStorageUnprovisioned, deleteUnprovisionedStorage, Prov
<1>5. CASE UNCHANGED <<req, stg>>
  <2>1. \A s \in Stg : stg'[s].prov = Prov(s) BY <1>5 DEF Prov
  <2> QED BY <1>3, <1>5, <2>1, OwnStill
<1>6. ASSUME NEW s \in Stg, NEW r \in SR, Prov(s) = "PROVISIONING", UNCHANGED stg,
             Active(r), req[r].sid = s, req' = [req EXCEPT ![r].sid = None]
      PROVE  Owned' /\ Apart'
  <2>1. /\ \A q \in SR \ {r} : req'[q] = req[q]
        /\ req'[r].sid = None /\ req'[r].ops = req[r].ops
    BY <1>0, <1>6 DEF TypeOK, Requests
  <2>2. \A x \in Stg : stg'[x].prov = Prov(x) BY <1>6 DEF Prov
  <2>3. s # None BY SizesAssumption
  <2>4. ~Moves(r) /\ ~Moves(r)'
    <3>1. ~Moves(r) BY <1>6, <2>3, InThree DEF LinkOK
    <3> QED BY <2>1, <3>1 DEF Moves, Has
  <2>5. \A e \in Daemon : ~Busy(e, r)
    <3>1. ~Busy(C, r) BY <1>2 DEF Busy
    <3>2. \A n \in Node : ~Busy(n, r) BY <1>6, <2>3, AgentSettled
    <3> QED BY <3>1, <3>2 DEF Daemon, C
  <2>6. \A e \in Daemon : ~Busy(e, r)' BY <1>3, <2>4, <2>5 DEF Busy, Running
  <2>7. OwnOK(r)'
    <3>1. LinkOK(r)' BY <2>1 DEF LinkOK
    <3>2. CentralOK(r)' /\ \A d \in Daemon : SidOK(d, r)'
      BY <2>4, <2>6, CentralIs DEF CentralOK, SidOK, C
    <3> QED BY <3>1, <3>2 DEF OwnOK
  <2>8. \A x \in Stg : ~Holds(r, x)' BY <2>1, <2>6, SizesAssumption DEF Holds
  <2>9. ASSUME NEW q \in SR, q # r
        PROVE  OwnOK(q)' /\ \A x \in Stg : Holds(q, x)' => Holds(q, x)
    <3>1. req'[q] = req[q] BY <2>1, <2>9
    <3> QED BY <1>3, <2>2, <3>1, OwnStays
  <2>10. Owned' BY <2>7, <2>9 DEF Owned
  <2>11. Apart' BY <2>8, <2>9 DEF Apart, Inv3
  <2> QED BY <2>10, <2>11
<1>7. ASSUME NEW s \in Stg, NEW o, o.prov # "PROVISIONING", stg' = [stg EXCEPT ![s] = o], UNCHANGED req,
             \A q \in SR : ~Holds(q, s)
      PROVE  Owned' /\ Apart'
  <2>1. \A x \in Stg : stg'[x] = IF x = s THEN o ELSE stg[x]
    BY <1>0, <1>7 DEF TypeOK
  <2>2. \A x \in Stg : stg'[x].prov = "PROVISIONING" => Prov(x) = "PROVISIONING"
    BY <1>7, <2>1 DEF Prov
  <2>3. ASSUME NEW q \in SR
        PROVE  OwnOK(q)' /\ \A x \in Stg : Holds(q, x)' => Holds(q, x)
    <3>1. req'[q] = req[q] BY <1>7
    <3>2. \A x \in Stg : Holds(q, x) => stg'[x].prov = Prov(x)
      BY <1>7, <2>1 DEF Prov
    <3> QED BY <1>3, <2>2, <3>1, <3>2, OwnStays
  <2> QED BY <2>3 DEF Owned, Apart, Inv3
<1>8. ASSUME NEW s \in Stg, Prov(s) = "PROVISIONING", ~InUse(s), UNCHANGED req,
             stg' = [stg EXCEPT ![s].prov = "UNPROVISIONED"]
      PROVE  Owned' /\ Apart'
  <2> DEFINE o == [stg[s] EXCEPT !.prov = "UNPROVISIONED"]
  <2>1. stg' = [stg EXCEPT ![s] = o] BY <1>8
  <2>2. o.prov = "UNPROVISIONED" BY <1>0 DEF TypeOK, Storage
  <2>3. \A q \in SR : ~Holds(q, s) BY <1>2, <1>8, NotHeld DEF InUse
  <2> HIDE DEF o
  <2> QED BY <1>7, <1>8, <2>1, <2>2, <2>3
<1>9. ASSUME NEW s \in Stg, Prov(s) = "UNPROVISIONED", UNCHANGED req,
             stg' = [stg EXCEPT ![s] = NoStorage]
      PROVE  Owned' /\ Apart'
  <2>1. \A q \in SR : Active(q) => req[q].sid # s
    BY <1>9, InThree, SizesAssumption DEF LinkOK
  <2>2. \A q \in SR : ~Holds(q, s) BY <1>9, <2>1, NotHeld
  <2>3. NoStorage.prov # "PROVISIONING" BY DEF NoStorage, None
  <2> QED BY <1>7, <1>9, <2>2, <2>3
<1> QED BY <1>4, <1>5, <1>6, <1>8, <1>9

\* Every step keeps Inv3.
LEMMA Step3 == Inv3 /\ [Next]_vars => Inv3'
<1> SUFFICES ASSUME Inv3, [Next]_vars
             PROVE  Inv3'
  OBVIOUS
<1>1. Inv2' BY Step2 DEF Inv3
<1>2. Owned' /\ Apart'
  <2>1. CASE \/ CrashCentrald \/ (\E n \in Node : CrashAgentd(n))
             \/ (\E r \in SR : Expire(r)) \/ UNCHANGED vars
    BY <2>1, OwnOthers
  <2>2. CASE Cleanup BY <2>2, OwnOthers, OwnCleanup DEF Cleanup
  <2>3. CASE \E r \in SR : StorageRequestCreate(r) \/ Central(r) \/ \E n \in Node : Agent(n, r)
    BY <2>3, OwnCreate, OwnsCentral, OwnsAgent
  <2> QED BY <2>1, <2>2, <2>3 DEF Next
<1> QED BY <1>1, <1>2 DEF Inv3

\* Inv3 holds initially.
LEMMA Init3 == Init => Inv3
<1> SUFFICES ASSUME Init
             PROVE  Inv3
  OBVIOUS
<1>1. Inv2 /\ TypeOK BY Init2, TypeInit
<1>2. \A e \in Daemon, x \in SR : G(e, x) = Idle BY DEF Init, G
<1>3. \A x \in SR : req[x].st = None /\ req[x].sid = None BY DEF Init, NoRequest
<1>4. \A e \in Daemon, x \in SR : ~Running(e, x) /\ ~Busy(e, x)
  BY <1>2 DEF Running, Busy, Idle
<1>5. Owned BY <1>3, <1>4, CentralIs DEF Owned, OwnOK, LinkOK, CentralOK, SidOK, C
<1>6. Apart BY <1>3, <1>4, SizesAssumption DEF Apart, Holds, Active
<1> QED BY <1>1, <1>5, <1>6 DEF Inv3

(* What a goroutine works on belongs to its request.                       *)
LEMMA WorksHolds ==
    ASSUME Inv3, NEW d \in Daemon, NEW r \in SR, Works(d, r), ~Overtaken(r)
    PROVE  Holds(r, G(d, r).sid)
<1>1. Running(d, r) /\ ~G(d, r).retry /\ G(d, r).sid # None BY DEF Works
<1>2. CASE Moves(r)
  <2>1. Active(r) /\ G(d, r).sid = req[r].sid
    BY <1>1, <1>2, InThree DEF Overtaken, Moves, SidOK
  <2> QED BY <1>1, <2>1 DEF Holds
<1>3. CASE ~Moves(r) BY <1>1, <1>3 DEF Busy, Holds
<1> QED BY <1>2, <1>3

\* storageRequestCreate refuses a Storage object that an active request is on;
\* two requests never work on the same storage, although a new object is linked
\* to its request only after it was created and a request may be taken over by
\* the other daemon.
THEOREM OneRequestCorrect == Spec => []OneRequestPerStorage
<1>1. Inv3 => OneRequestPerStorage
  <2> SUFFICES ASSUME Inv3, NEW r1 \in SR, NEW r2 \in SR, NEW d1 \in Daemon, NEW d2 \in Daemon,
                      r1 # r2, Works(d1, r1), Works(d2, r2), ~Overtaken(r1), ~Overtaken(r2),
                      G(d1, r1).sid = G(d2, r2).sid
               PROVE  FALSE
    BY DEF OneRequestPerStorage
  <2>1. Holds(r1, G(d1, r1).sid) /\ Holds(r2, G(d1, r1).sid) BY WorksHolds
  <2>2. G(d1, r1).sid \in Stg BY SidType, InThree DEF Works
  <2> QED BY <2>1, <2>2 DEF Inv3, Apart
<1> QED BY <1>1, Init3, Step3, PTL DEF Spec

-----------------------------------------------------------------------------
(***************************************************************************)
(* Inv4: what is left to undo.  A goroutine whose storage is provisioned has *)
(* UNDO_PROVISIONING in one of its lists until the request succeeds.       *)
(***************************************************************************)

(* Steps that leave the goroutines of centrald alone, or end them.         *)
LEMMA StillPends ==
    ASSUME Inv4, \A s \in Stg : stg'[s].prov = "PROVISIONED" => Prov(s) = "PROVISIONED",
           \A q \in SR : \/ G(C, q)' = G(C, q) /\ req'[q].ops = req[q].ops
                         \/ G(C, q)'.pc = "idle"
    PROVE  Pended'
<1> SUFFICES ASSUME NEW q \in SR, Busy(C, q)', Has(q, "PROVISION")', G(C, q)'.sid # None,
                    stg'[G(C, q)'.sid].prov = "PROVISIONED"
             PROVE  Pending(G(C, q))'
  BY DEF Pended, PendingOK, Prov
<1>1. G(C, q)' = G(C, q) /\ req'[q].ops = req[q].ops BY DEF Busy, Running
<1>2. Busy(C, q) /\ Has(q, "PROVISION") BY <1>1 DEF Busy, Running, Has, Moves
<1>3. G(C, q).sid \in Stg BY <1>1, SidType, InThree DEF Inv4
<1>4. Prov(G(C, q).sid) = "PROVISIONED" BY <1>1, <1>3
<1>5. Pending(G(C, q)) BY <1>1, <1>2, <1>4 DEF Inv4, Pended, PendingOK
<1> QED BY <1>1, <1>5 DEF Pending, Provisioner

(* A step of centrald on a request.                                        *)
LEMMA PendsFrame ==
    ASSUME Inv4, NEW r \in SR, NEW h, Become(C, r, h), Others(r), req'[r].ops = req[r].ops,
           \A s \in Stg : stg'[s].prov = "PROVISIONED" => Prov(s) = "PROVISIONED" \/ Holds(r, s),
           ~Moves(r) /\ Has(r, "PROVISION") /\ h.pc # "idle" /\ ~h.retry /\ h.sid # None
              /\ stg'[h.sid].prov = "PROVISIONED" => Pending(h)
    PROVE  Pended'
<1>0. Inv3 BY DEF Inv4
<1>1. \A q \in SR : G(C, q)' = IF q = r THEN h ELSE G(C, q)
  BY <1>0, InThree DEF TypeOK, Become, G
<1> SUFFICES ASSUME NEW q \in SR, Busy(C, q)', Has(q, "PROVISION")', G(C, q)'.sid # None,
                    stg'[G(C, q)'.sid].prov = "PROVISIONED"
             PROVE  Pending(G(C, q))'
  BY DEF Pended, PendingOK, Prov
<1>2. CASE q = r BY <1>1, <1>2 DEF Busy, Running, Has, Moves, Pending, Provisioner
<1>3. CASE q # r
  <2>1. G(C, q)' = G(C, q) /\ req'[q] = req[q] BY <1>1, <1>3 DEF Others
  <2>2. Busy(C, q) /\ Has(q, "PROVISION") BY <2>1 DEF Busy, Running, Has, Moves
  <2>3. G(C, q).sid \in Stg /\ Holds(q, G(C, q).sid)
    BY <1>0, <2>1, <2>2, SidType, InThree DEF Holds
  <2>4. Prov(G(C, q).sid) = "PROVISIONED" BY <1>0, <1>3, <2>1, <2>3 DEF Inv3, Apart
  <2>5. Pending(G(C, q)) BY <2>1, <2>2, <2>4 DEF Inv4, Pended, PendingOK
  <2> QED BY <2>1, <2>5 DEF Pending, Provisioner
<1> QED BY <1>2, <1>3

\* What Inv4 says, and which requests provision.
LEMMA InFour ==
    ASSUME Inv4
    PROVE  /\ Inv3 /\ Pended /\ ProvisionedIsOwned /\ TypeOK
           /\ \A r \in SR : Has(r, "PROVISION") /\ req[r].st # None =>
                 /\ req[r].ops \subseteq {"PROVISION", "ATTACH", "FORMAT", "USE"} /\ ~Moves(r)
                 /\ req[r].ops \in Plans
<1>1. Inv3 /\ Pended /\ ProvisionedIsOwned /\ TypeOK /\ Asked
  BY DEF Inv4, Inv3, Inv2, Inv1
<1> SUFFICES ASSUME NEW r \in SR, Has(r, "PROVISION"), req[r].st # None
             PROVE  /\ req[r].ops \subseteq {"PROVISION", "ATTACH", "FORMAT", "USE"} /\ ~Moves(r)
                    /\ req[r].ops \in Plans
  BY <1>1
<1>2. req[r].ops \in Plans /\ "PROVISION" \in req[r].ops BY <1>1 DEF Asked, Has
<1>3. req[r].ops \subseteq {"PROVISION", "ATTACH", "FORMAT", "USE"}
  BY <1>2, PlanFamily
<1> QED BY <1>2, <1>3 DEF Moves, Has

(* The goroutine of a request whose storage is provisioned: nothing that   *)
(* it names can have gone.                                                 *)
LEMMA PendingIs ==
    ASSUME Inv4, NEW r \in SR, Busy(C, r), Has(r, "PROVISION"), G(C, r).sid # None,
           Prov(G(C, r).sid) = "PROVISIONED"
    PROVE  /\ Pending(G(C, r)) /\ Writable(C, r, G(C, r)) /\ G(C, r).sid \in Stg
           /\ G(C, r).sid = req[r].sid
           /\ G(C, r).mem.prov = "PROVISIONED"
<1> DEFINE g == G(C, r)
<1>0. Inv3 /\ g.sid \in Stg BY InFour, SidType, InThree
<1>1. Pending(g) BY InFour DEF Pended, PendingOK
<1>2. GoOK(r, g) /\ Active(r) BY <1>0, GoIsOK
<1>3. Exists(g.sid) BY DEF Exists, Prov, None
<1>4. g.sid = req[r].sid BY <1>2 DEF GoOK, Fresh
<1>5. g.mem.prov = "PROVISIONED" BY <1>2 DEF GoOK, MemOK, Made, Gone, None
<1> QED BY <1>0, <1>1, <1>2, <1>3, <1>4, <1>5 DEF Writable

(* A request that is found: what it has provisioned is on the list.        *)
LEMMA PendDispatch ==
    ASSUME Inv4, NEW r \in SR, CentralDispatch(r)
    PROVE  Pended'
<1>0. Inv3 /\ Inv1 BY InFour, InThree
<1>1. PICK h : Goes(C, r, h) /\ CentralStarted(r, h) BY <1>0, ShapeCentralDispatch
<1>2. Active(r) /\ UNCHANGED <<req, stg>> /\ req[r].st # None
  BY <1>0, ShapeCentralDispatch
<1> DEFINE o == Fetched(req[r].sid)
           todo == CentralTodo(r, o)
           extra == IF (Lost(r) \/ r \in expired) /\ todo # <<>> /\ ~Has(r, "REATTACH")
                    THEN UndoOf(todo[1]) ELSE <<>>
<1>3. /\ h.todo = todo /\ h.undo = CentralUndo(r) \o extra /\ h.sid = req[r].sid /\ ~h.back
      /\ h.pc = IF r \in expired \/ Lost(r) THEN "turn" ELSE "next"
  BY <1>1 DEF CentralStarted, Started
<1>4. ASSUME ~Moves(r), Has(r, "PROVISION"), h.sid # None
      PROVE  Pending(h)
  <2>1. req[r].st \in Serving(req[r].ops) /\ req[r].st # "NEW"
    BY <1>0, <1>2, <1>3, <1>4, InThree DEF RequestOK
  <2>2. req[r].ops \subseteq {"PROVISION", "ATTACH", "FORMAT", "USE"}
    BY <1>2, <1>4, InFour
  <2>3. req[r].st \in {"PROVISIONING", "REMOVING_TAG", "UNDO_PROVISIONING", "ATTACHING", "UNDO_ATTACHING",
                       "FORMATTING", "USING"}
    BY <2>1, <2>2 DEF Serving
  <2>4. CASE req[r].st = "PROVISIONING"
    <3>1. Order(req[r].st) = 1 BY <2>4 DEF Order
    <3>2. todo \in Seq(States) /\ todo # <<>> /\ todo[1] = "PROVISIONING"
      BY <1>4, <3>1, ProvisionsFirst DEF Begins, Moves
    <3>3. CASE h.pc = "next" BY <1>3, <3>2, <3>3 DEF Pending, Provisioner
    <3>4. CASE h.pc = "turn"
      <4>1. extra = UndoOf("PROVISIONING") BY <1>3, <1>4, <3>2, <3>4 DEF Moves
      <4>2. UndoOf("PROVISIONING") = <<UP>> BY DEF UndoOf, undoStateMap, UP
      <4> HIDE DEF extra
      <4>3. <<UP>> \in Seq(States) /\ Includes(<<UP>>, UP)
        BY DEF States, UP, Includes
      <4>4. Includes(CentralUndo(r) \o <<UP>>, UP)
        BY <4>3, CentralUndoType, IncludesConcat
      <4> QED BY <1>3, <3>4, <4>1, <4>2, <4>4 DEF Pending
    <3> QED BY <1>3, <3>3, <3>4
  <2>5. CASE req[r].st # "PROVISIONING"
    <3> DEFINE n == Order(req[r].st)
               s2 == When(Has(r, "ATTACH") /\ n \in 3..9, "UNDO_ATTACHING")
               s3 == When(Has(r, "DETACH") /\ n \in 7..8, "UNDO_DETACHING")
    <3>1. n \in 2..10 BY <2>3, <2>5 DEF Order
    <3>2. CentralUndo(r) = <<UP>> \o s2 \o s3
      BY <1>4, <3>1 DEF CentralUndo, When, UP
    <3>3. s2 \in Seq(States) /\ s3 \in Seq(States) /\ extra \in Seq(States) /\ <<UP>> \in Seq(States)
      <4>1. todo \in Seq(States) /\ <<>> \in Seq(States) /\ <<UP>> \in Seq(States)
        BY CentralTodoType DEF States, UP
      <4> HIDE DEF todo
      <4>2. extra \in Seq(States) BY <4>1, UndoOfType
      <4> HIDE DEF extra, n
      <4> QED BY <4>1, <4>2, WhenType DEF States
    <3>4. Includes(<<UP>>, UP) BY DEF Includes
    <3> HIDE DEF s2, s3, extra
    <3>5. <<UP>> \o s2 \in Seq(States) /\ <<UP>> \o s2 \o s3 \in Seq(States)
      BY <3>3, ConcatType
    <3>6. Includes(<<UP>> \o s2 \o s3, UP) BY <3>3, <3>4, <3>5, IncludesConcat
    <3>7. Includes(h.undo, UP)
      <4>1. Includes(CentralUndo(r), UP) /\ CentralUndo(r) \in Seq(States)
        BY <3>2, <3>5, <3>6
      <4>2. Includes(CentralUndo(r) \o extra, UP) BY <3>3, <4>1, IncludesConcat
      <4> QED BY <1>3, <4>2
    <3> QED BY <1>3, <3>7 DEF Pending
  <2> QED BY <2>4, <2>5
<1>5. Become(C, r, h) /\ Others(r) /\ req'[r].ops = req[r].ops
  BY <1>1, <1>2 DEF Goes, Others
<1>6. \A s \in Stg : stg'[s].prov = Prov(s) BY <1>2 DEF Prov
<1> HIDE DEF o, todo, extra
<1> QED BY <1>4, <1>5, <1>6, PendsFrame

(* agentd does not touch the goroutines of centrald.                       *)
LEMMA PendAgent ==
    ASSUME Inv4, NEW n \in Node, NEW r \in SR, NEW h, Become(n, r, h), KeepsRequests,
           \A s \in Stg : stg'[s].prov = Prov(s)
    PROVE  Pended'
<1>1. n # C /\ TypeOK BY InFour, CentralIs DEF C
<1>2. \A q \in SR : G(C, q)' = G(C, q) BY <1>1, CentralIs DEF TypeOK, Become, G, C
<1>3. \A q \in SR : req'[q].ops = req[q].ops BY DEF KeepsRequests
<1>4. \A s \in Stg : stg'[s].prov = "PROVISIONED" => Prov(s) = "PROVISIONED" OBVIOUS
<1> QED BY <1>2, <1>3, <1>4, StillPends

\* The undo of PROVISIONING.
LEMMA UndoOfProvisioning ==
    UndoOf("PROVISIONING") = <<UP>> /\ <<UP>> \in Seq(States) /\ Includes(<<UP>>, UP)
BY DEF UndoOf, undoStateMap, UP, States, Includes

(* The handler of the next state is called.                                *)
LEMMA EnteredPends ==
    ASSUME Inv4, NEW r \in SR, Busy(C, r), ~Moves(r), NEW g, g = G(C, r), g.pc = "next", g.todo # <<>>,
           NEW st, st = Head(g.todo), NEW h, Entered(C, r, g, st, h),
           Pending(g), g.mem.prov = "PROVISIONED"
    PROVE  Pending(h)
<1>0. g \in Goroutines /\ ~Has(r, "REATTACH") /\ C = "centrald"
  BY InFour, InThree DEF Moves, C
<1>1. /\ g.todo \in Seq(States) /\ g.undo \in Seq(States) /\ st \in States
  BY <1>0 DEF Goroutines
<1> DEFINE sub == FirstSub(C, st, g.mem)
<1>2. /\ h.st = st /\ h.todo = Tail(g.todo) /\ (h.back <=> g.back)
      /\ sub # None => h.pc = "call" /\ h.undo = g.undo
      /\ sub = None => /\ h.pc \in {"next", "turn"}
                       /\ ~g.back => h.undo = g.undo \o UndoOf(st)
  BY <1>0 DEF Entered
<1>3. CASE ~g.back
  <2>1. Includes(g.undo, UP) \/ st = "PROVISIONING" BY <1>3 DEF Pending, Provisioner
  <2>2. CASE sub # None BY <1>2, <1>3, <2>1, <2>2 DEF Pending, Provisioner
  <2>3. CASE sub = None
    <3>1. UndoOf(st) \in Seq(States) BY <1>1, UndoOfType
    <3>2. st = "PROVISIONING" => Includes(UndoOf(st), UP) BY UndoOfProvisioning
    <3>3. Includes(g.undo \o UndoOf(st), UP)
      BY <1>1, <2>1, <3>1, <3>2, IncludesConcat
    <3> QED BY <1>2, <1>3, <2>3, <3>3 DEF Pending
  <2> QED BY <2>2, <2>3
<1>4. CASE g.back
  <2>1. Includes(g.todo, UP) BY <1>4 DEF Pending
  <2>2. st = UP \/ Includes(h.todo, UP) BY <1>1, <1>2, <2>1, IncludesTail
  <2>3. st = UP => sub # None
    <3>1. FirstSub("centrald", "UNDO_PROVISIONING", g.mem) = ReleaseFirst(g.mem)
      BY DEF FirstSub
    <3>2. ReleaseFirst(g.mem) = "setStorageState" BY DEF ReleaseFirst, None
    <3> QED BY <3>1, <3>2 DEF UP, C, None
  <2>4. h.pc \in {"call", "next", "turn"} BY <1>2
  <2> QED BY <1>2, <1>4, <2>2, <2>3, <2>4 DEF Pending
<1> QED BY <1>3, <1>4

\* A goroutine that enters a state keeps what it has to undo.
LEMMA PendNext ==
    ASSUME Inv4, NEW r \in SR, NextState(C, r)
    PROVE  Pended'
<1> DEFINE g == G(C, r)
           st == Head(g.todo)
<1>0. Inv3 /\ Inv1 /\ C \in Daemon BY InFour, InThree
<1>1. PICK h : Goes(C, r, h) /\ NextIs(C, r, h) BY <1>0, ShapeNext
<1>2. KeepsRequests /\ UNCHANGED stg /\ Running(C, r) /\ g.pc = "next" /\ g.todo # <<>> /\ ~g.retry
  BY <1>0, ShapeNext DEF NextState
<1>3. UNCHANGED req \/ Writes(C, r, g, st) BY <1>1 DEF NextIs, Writes
<1>4. Become(C, r, h) /\ Others(r) /\ req'[r].ops = req[r].ops
  BY <1>0, <1>1, <1>2, <1>3, WrittenIs DEF Goes, KeepsRequests, Others
<1>5. \A s \in Stg : stg'[s].prov = Prov(s) BY <1>2 DEF Prov
<1>6. ASSUME ~Moves(r), Has(r, "PROVISION"), h.pc # "idle", ~h.retry, h.sid # None,
             stg'[h.sid].prov = "PROVISIONED"
      PROVE  Pending(h)
  <2>1. h.sid = g.sid /\ Busy(C, r)
    BY <1>1, <1>2, <1>6 DEF NextIs, Stopped, Entered, Busy
  <2>2. Pending(g) /\ Writable(C, r, g) /\ g.mem.prov = "PROVISIONED"
    BY <1>2, <1>6, <2>1, PendingIs DEF Prov
  <2>3. CASE Entered(C, r, g, st, h)
    <3> HIDE DEF g, st
    <3> QED BY <1>2, <1>6, <2>1, <2>2, <2>3, EnteredPends DEF g, st
  <2>4. CASE Stopped(g, h) /\ st \in AgentStates
    <3>1. Lists(C, req[r].ops, g) /\ g.todo \in Seq(States)
      <4>1. Shape(C, req[r].ops, g) /\ g \in Goroutines BY <1>0, InThree
      <4> QED BY <1>2, <4>1 DEF Shape, Goroutines
    <3>2. ~g.back BY <1>2, <2>4, <3>1, OnlyTail DEF Lists, Undoing, AgentStates
    <3>3. Includes(g.undo, UP)
      BY <1>2, <2>2, <2>4, <3>2 DEF Pending, Provisioner, AgentStates
    <3> QED BY <2>4, <3>2, <3>3 DEF Stopped, Pending
  <2> QED BY <1>1, <1>6, <2>2, <2>3, <2>4 DEF NextIs
<1> HIDE DEF g, st
<1> QED BY <1>4, <1>5, <1>6, PendsFrame

(* The list of the states to undo is turned round, or there was nothing    *)
(* left of it.                                                             *)
LEMMA PendTurn ==
    ASSUME Inv4, NEW r \in SR, Turn(C, r)
    PROVE  Pended'
<1> DEFINE g == G(C, r)
<1>0. Inv3 /\ Inv1 /\ C \in Daemon BY InFour, InThree
<1>1. PICK h : Goes(C, r, h) /\ TurnIs(C, r, h) BY <1>0, ShapeTurn
<1>2. UNCHANGED <<req, stg>> /\ Running(C, r) BY <1>0, ShapeTurn
<1>4. Become(C, r, h) /\ Others(r) /\ req'[r].ops = req[r].ops
  BY <1>1, <1>2 DEF Goes, Others
<1>5. \A s \in Stg : stg'[s].prov = Prov(s) BY <1>2 DEF Prov
<1>6. ASSUME ~Moves(r), Has(r, "PROVISION"), h.pc # "idle", ~h.retry, h.sid # None,
             stg'[h.sid].prov = "PROVISIONED"
      PROVE  Pending(h)
  <2>1. Kept(g, h) /\ (TurnsBack(C, g, h) \/ Ends(C, r, g, h) \/ Turns(g, h))
    BY <1>1, <1>6 DEF TurnIs, Idle, HandsBack
  <2>2. Busy(C, r) /\ h.sid = g.sid /\ (Fails(g) <=> Fails(h))
    BY <1>2, <1>6, <2>1 DEF Kept, Busy, Fails
  <2>3. Pending(g) /\ Shape(C, req[r].ops, g) /\ g \in Goroutines
    BY <1>0, <1>2, <1>6, <2>2, PendingIs, InThree DEF Prov
  <2>4. g.pc = "turn" => ~g.back BY <2>3 DEF Shape
  <2>5. CASE TurnsBack(C, g, h)
    <3>1. Includes(g.undo, UP)
      BY <2>3, <2>4, <2>5 DEF TurnsBack, Pending, Provisioner
    <3> QED BY <2>5, <3>1 DEF TurnsBack, Pending
  <2>6. CASE Ends(C, r, g, h)
    <3>1. h.pc = "final" BY <2>6 DEF Ends
    <3>2. CASE g.pc = "turn"
      <4>1. Includes(g.undo, UP) BY <2>3, <2>4, <3>2 DEF Pending, Provisioner
      <4>2. ~Fails(g) \/ Len(g.undo) = 0 BY <2>6, <3>2 DEF Ends
      <4>3. Len(g.undo) # 0 BY <4>1 DEF Includes
      <4> QED BY <2>2, <3>1, <4>2, <4>3 DEF Pending
    <3>3. CASE g.pc = "next" /\ g.back /\ g.todo = <<>>
      BY <2>3, <3>3, OnlyEmpty DEF Pending
    <3> QED BY <2>6, <3>2, <3>3 DEF Ends
  <2>7. CASE Turns(g, h)
    <3>1. Includes(g.undo, UP)
      <4>1. ~g.retry BY <1>6, <2>1 DEF Kept
      <4> QED BY <2>3, <2>7, <4>1 DEF Turns, Pending, Provisioner
    <3> QED BY <2>7, <3>1 DEF Turns, Pending
  <2> QED BY <2>1, <2>5, <2>6, <2>7
<1> HIDE DEF g
<1> QED BY <1>4, <1>5, <1>6, PendsFrame

\* A request ends when nothing is left to undo, or it has succeeded.
LEMMA PendTerminal ==
    ASSUME Inv4, NEW r \in SR, EnterTerminal(C, r)
    PROVE  Pended'
<1>0. Inv3 /\ Inv1 /\ C \in Daemon BY InFour, InThree
<1>1. /\ Become(C, r, Idle) /\ UNCHANGED stg /\ KeepsRequests
  BY <1>0, ShapeTerminal DEF Goes
<1>2. \A q \in SR : G(C, q)' = IF q = r THEN Idle ELSE G(C, q)
  BY <1>0, <1>1, InThree DEF TypeOK, Become, G
<1>3. \A s \in Stg : stg'[s].prov = "PROVISIONED" => Prov(s) = "PROVISIONED"
  BY <1>1 DEF Prov
<1>4. \A q \in SR : req'[q].ops = req[q].ops BY <1>1 DEF KeepsRequests
<1>5. Idle.pc = "idle" BY DEF Idle
<1>6. \A q \in SR : (G(C, q)' = G(C, q) /\ req'[q].ops = req[q].ops) \/ G(C, q)'.pc = "idle"
  BY <1>2, <1>4, <1>5
<1> HIDE DEF Inv4
<1> QED BY <1>3, <1>6, StillPends

(* A handler that does not provision.                                      *)
LEMMA PendHandler ==
    ASSUME Inv4, NEW r \in SR, G(C, r).pc = "call", G(C, r).sub \notin ProvisionSubs,
           NEW h, Become(C, r, h), Keeps(r, G(C, r), h), SaysWhy(r) \/ UNCHANGED req,
           \A s \in Stg : stg'[s].prov = "PROVISIONED" => Prov(s) = "PROVISIONED",
           G(C, r).sub \in ReleaseSubs /\ h.pc # "call" /\ ~h.retry
             /\ G(C, r).sid # None => stg'[G(C, r).sid].prov # "PROVISIONED"
    PROVE  Pended'
<1> DEFINE g == G(C, r)
<1>0. Inv3 /\ g \in Goroutines BY InFour, InThree
<1>1. Others(r) /\ req'[r].ops = req[r].ops BY <1>0, SayingIs
<1>2. ASSUME ~Moves(r), Has(r, "PROVISION"), h.pc # "idle", ~h.retry, h.sid # None,
             stg'[h.sid].prov = "PROVISIONED"
      PROVE  Pending(h)
  <2>1. h.sid = g.sid /\ Busy(C, r) /\ SubOf(g)
    BY <1>0, <1>2, InThree DEF Keeps, Busy, Running, Shape
  <2>2. Pending(g)
    <3>1. g.sid \in Stg BY <1>0, <1>2, <2>1, SidType, InThree
    <3>2. Prov(g.sid) = "PROVISIONED" BY <1>2, <2>1, <3>1
    <3> QED BY <1>2, <2>1, <3>2, PendingIs
  <2>3. g.undo \in Seq(States) /\ UndoOf(g.st) \in Seq(States)
    BY <1>0, UndoOfType DEF Goroutines
  <2>4. CASE ~g.back
    <3>1. Includes(g.undo, UP) BY <2>1, <2>2, <2>4 DEF Pending, Provisioner, SubOf
    <3>2. Includes(g.undo \o UndoOf(g.st), UP) BY <2>3, <3>1, IncludesConcat
    <3>3. Includes(h.undo, UP) /\ ~h.back /\ h.pc # "final"
      BY <2>4, <3>1, <3>2 DEF Keeps
    <3> QED BY <3>3 DEF Pending
  <2>5. CASE g.back
    <3>1. h.todo = g.todo /\ h.back /\ h.st = g.st /\ h.pc # "final"
      BY <2>5 DEF Keeps
    <3>2. Includes(g.todo, UP) \/ g.st = UP BY <2>2, <2>5 DEF Pending
    <3>3. g.st = UP => h.pc = "call" BY <1>2, <2>1 DEF SubOf
    <3> QED BY <3>1, <3>2, <3>3 DEF Pending
  <2> QED BY <2>4, <2>5
<1> QED BY <1>1, <1>2, PendsFrame

\* Handlers that neither provision nor release keep what is to be undone.
LEMMA PendPlain ==
    ASSUME Inv4, NEW r \in SR, Attach(r) \/ Detach(r) \/ removeCSPVolumeTag(r)
    PROVE  Pended'
<1>1. Plainly(r) /\ G(C, r).pc = "call" /\ G(C, r).sub \notin ProvisionSubs /\ G(C, r).sub \notin ReleaseSubs
  BY InFour, PlainWhen
<1>2. PICK h : /\ Become(C, r, h) /\ Keeps(r, G(C, r), h) /\ Steady
               /\ SaysWhy(r) \/ UNCHANGED req
  BY <1>1 DEF Plainly
<1>3. \A s \in Stg : stg'[s].prov = "PROVISIONED" => Prov(s) = "PROVISIONED"
  BY <1>2 DEF Steady
<1> QED BY <1>1, <1>2, <1>3, PendHandler

\* ReleaseStorage undoes what was provisioned, or leaves it to a later run.
LEMMA PendRelease ==
    ASSUME Inv4, NEW r \in SR, Release(r)
    PROVE  Pended'
<1> DEFINE g == G(C, r)
<1>0. G(C, r) = G("centrald", r) /\ C = "centrald" /\ Inv3 BY InFour DEF C
<1>1. CASE setStorageState(r)
  <2> DEFINE new == [g.mem EXCEPT !.prov = "UNPROVISIONING"]
  <2>1. /\ g.pc = "call" /\ g.sub = "setStorageState"
        /\ StorageUpdate(C, r, new, Call(g, "deleteVolume"), Later(C, r, g))
        /\ SaysWhy(r) \/ UNCHANGED req
    BY <1>0, <1>1 DEF setStorageState, CentralSave, InSub
  <2>2. /\ g \in Goroutines /\ g.mem \in Storage
        /\ Call(g, "deleteVolume") \in Goroutines /\ Keeps(r, g, Call(g, "deleteVolume"))
        /\ Call(g, "deleteVolume").pc = "call"
        /\ Keeps(r, g, Later(C, r, g)) /\ Later(C, r, g).retry
    BY <1>0, <2>1, Goings DEF Subs
  <2>3. g.sub \notin ProvisionSubs BY <2>1 DEF ProvisionSubs
  <2> HIDE DEF g
  <2>5. new \in Storage /\ new.prov = "UNPROVISIONING" BY <2>2 DEF Storage
  <2> HIDE DEF new
  <2>6. CASE UNCHANGED stg /\ Become(C, r, Later(C, r, g))
    <3>1. \A s \in Stg : stg'[s].prov = "PROVISIONED" => Prov(s) = "PROVISIONED"
      BY <2>6 DEF Prov
    <3> QED BY <2>1, <2>2, <2>3, <2>6, <3>1, PendHandler DEF g
  <2>7. ASSUME NEW m, NEW h, Saved(C, r, new, m), Copies(Call(g, "deleteVolume"), m, h), Become(C, r, h)
        PROVE  Pended'
    <3>1. \A s \in Stg : stg'[s] = IF s = g.sid THEN m ELSE stg[s]
      BY <1>0, <2>7, InThree DEF Saved, TypeOK, g
    <3>2. m.prov = "UNPROVISIONING" BY <2>5, <2>7 DEF Saved
    <3>3. \A s \in Stg : stg'[s].prov = "PROVISIONED" => Prov(s) = "PROVISIONED"
      BY <3>1, <3>2 DEF Prov
    <3>4. Keeps(r, g, h) /\ h.pc = "call" BY <2>2, <2>7 DEF Copies, Alike, Keeps
    <3> QED BY <2>1, <2>3, <2>7, <3>3, <3>4, PendHandler DEF g
  <2> QED BY <1>0, <2>1, <2>2, <2>5, <2>6, <2>7, UpdateIs, InThree DEF g
<1>2. CASE deleteVolume(r)
  <2>1. /\ g.pc = "call" /\ g.sub = "deleteVolume" /\ UNCHANGED stg /\ (SaysWhy(r) \/ UNCHANGED req)
        /\ Become(C, r, Call(g, "deleteStorage")) \/ Become(C, r, Later(C, r, g))
    BY <1>0, <1>2 DEF deleteVolume, InSub
  <2>2. \A s \in Stg : stg'[s].prov = "PROVISIONED" => Prov(s) = "PROVISIONED"
    BY <2>1 DEF Prov
  <2>3. PICK h : Become(C, r, h) /\ Keeps(r, g, h) /\ (h.pc = "call" \/ h.retry)
    <3>1. /\ Keeps(r, g, Call(g, "deleteStorage")) /\ Call(g, "deleteStorage").pc = "call"
          /\ Keeps(r, g, Later(C, r, g)) /\ Later(C, r, g).retry
      BY <1>0, <2>1, Goings DEF Subs
    <3> QED BY <2>1, <3>1
  <2> QED BY <2>1, <2>2, <2>3, PendHandler DEF ProvisionSubs
<1>3. CASE deleteStorage(r)
  <2>1. /\ g.pc = "call" /\ g.sub = "deleteStorage" /\ (SaysWhy(r) \/ UNCHANGED req)
        /\ \/ stg' = [stg EXCEPT ![g.sid] = NoStorage] /\ Become(C, r, Return(C, r, g))
           \/ stg' \in {stg, [stg EXCEPT ![g.sid] = NoStorage]} /\ Become(C, r, Later(C, r, g))
    BY <1>0, <1>3 DEF deleteStorage, InSub
  <2>2. NoStorage.prov = None BY DEF NoStorage
  <2>3. CASE stg' = [stg EXCEPT ![g.sid] = NoStorage]
    <3>1. \A s \in Stg : stg'[s] = IF s = g.sid THEN NoStorage ELSE stg[s]
      BY <1>0, <2>3, InThree DEF TypeOK
    <3>2. \A s \in Stg : stg'[s].prov = "PROVISIONED" => Prov(s) = "PROVISIONED"
      BY <2>2, <3>1 DEF Prov, None
    <3>3. g.sid # None => stg'[g.sid].prov # "PROVISIONED"
      BY <1>0, <2>2, <3>1, SidType, InThree DEF None
    <3>4. PICK h : Become(C, r, h) /\ Keeps(r, g, h) BY <1>0, <2>1, Goings
    <3> QED BY <2>1, <3>2, <3>3, <3>4, PendHandler DEF ProvisionSubs
  <2>4. CASE UNCHANGED stg /\ Become(C, r, Later(C, r, g))
    <3>1. Keeps(r, g, Later(C, r, g)) /\ Later(C, r, g).retry BY <1>0, <2>1, Goings
    <3>2. \A s \in Stg : stg'[s].prov = "PROVISIONED" => Prov(s) = "PROVISIONED"
      BY <2>4 DEF Prov
    <3> QED BY <2>1, <2>4, <3>1, <3>2, PendHandler DEF ProvisionSubs
  <2> QED BY <2>1, <2>3, <2>4
<1> QED BY <1>1, <1>2, <1>3 DEF Release

\* The request that provisioned some storage is still linked to it, and so is
\* its goroutine.
LEMMA OwnerIs ==
    ASSUME Inv4, NEW r \in SR, NEW s \in Stg, OwnerOf(s, r), Prov(s) = "PROVISIONED"
    PROVE  /\ ~Moves(r) /\ req[r].st # None /\ s # None /\ req[r].sid = s
           /\ Busy(C, r) => G(C, r).sid = s /\ Pending(G(C, r)) /\ G(C, r).st = req[r].st
<1>1. s # None /\ req[r].sid = s /\ Has(r, "PROVISION") /\ req[r].st # None
  <2>1. s # None BY SizesAssumption
  <2>2. req[r].st = None => req[r] = NoRequest BY DEF Inv4, Inv3, Inv2, Inv1, Asked
  <2> QED BY <2>1, <2>2 DEF OwnerOf, NoRequest
<1>2. ~Moves(r) BY <1>1, InFour
<1>3. ASSUME Busy(C, r)
      PROVE  G(C, r).sid = s /\ Pending(G(C, r)) /\ G(C, r).st = req[r].st
  <2>1. GoOK(r, G(C, r)) /\ G(C, r).st = req[r].st BY <1>3, InFour, GoIsOK
  <2>2. G(C, r).sid = s BY <1>1, <2>1 DEF GoOK, Fresh
  <2> QED BY <1>1, <1>3, <2>1, <2>2, PendingIs
<1> QED BY <1>1, <1>2, <1>3

(* A request that is written and not failed.                               *)
LEMMA WritesOwn ==
    ASSUME Inv4, NEW d \in Daemon, NEW r \in SR, Running(d, r), ~G(d, r).retry,
           NEW st, Writes(d, r, G(d, r), st),
           NEW s \in Stg, OwnerOf(s, r), Prov(s) = "PROVISIONED", st # "FAILED"
    PROVE  OwnerOf(s, r)'
<1>1. /\ req'[r].st = st /\ req'[r].ops = req[r].ops
      /\ req'[r].sid = (IF d = C /\ ~G(d, r).noid THEN G(d, r).sid ELSE req[r].sid)
  BY InFour, InThree, WrittenIs
<1>2. ~Moves(r) /\ req[r].sid = s /\ (Busy(C, r) => G(C, r).sid = s) BY OwnerIs
<1>3. d = C => Busy(C, r) BY <1>2 DEF Busy
<1> QED BY <1>1, <1>2, <1>3 DEF OwnerOf, Has

\* A request that is not written stays the owner of its storage.
LEMMA SameOwns ==
    ASSUME NEW r \in SR, req'[r] = req[r], NEW s, OwnerOf(s, r)
    PROVE  OwnerOf(s, r)'
BY DEF OwnerOf, Has

\* A request that goes on, or back, stays the owner of its storage.
LEMMA KeptNext ==
    ASSUME Inv4, NEW d \in Daemon, NEW r \in SR, NextState(d, r)
    PROVE  KeepsOwner
<1>0. Inv3 /\ Inv1 BY InFour, InThree
<1> DEFINE g == G(d, r)
           st == Head(g.todo)
<1>1. PICK h : Goes(d, r, h) /\ NextIs(d, r, h) BY <1>0, ShapeNext
<1>2. Running(d, r) /\ ~g.retry /\ g.todo # <<>> /\ g.pc = "next"
  BY <1>0, ShapeNext DEF NextState
<1>3. UNCHANGED req \/ Writes(d, r, g, st) BY <1>1 DEF NextIs, Writes
<1>4. CASE UNCHANGED req BY <1>4, SameOwns DEF KeepsOwner
<1>5. CASE Writes(d, r, g, st)
  <2>1. st # "FAILED"
    <3>1. Lists(d, req[r].ops, g) /\ g.todo \in Seq(States)
      <4>1. Shape(d, req[r].ops, g) /\ g \in Goroutines BY <1>0, InThree
      <4> QED BY <1>2, <4>1 DEF Shape, Goroutines
    <3>2. st \in Serving(req[r].ops) BY <1>2, <3>1, OnlyTail DEF Lists
    <3> QED BY <3>2 DEF Serving
  <2>2. Others(r) BY <1>0, <1>5, WrittenIs
  <2> HIDE DEF st, g
  <2>3. ASSUME NEW s \in Stg, OwnerOf(s, r), Prov(s) = "PROVISIONED"
        PROVE  OwnerOf(s, r)'
    BY <1>2, <1>5, <2>1, <2>3, WritesOwn DEF g
  <2> QED BY <2>2, <2>3, SameOwns DEF Others, KeepsOwner
<1> QED BY <1>3, <1>4, <1>5

(* A request fails only when its storage has been given back.              *)
LEMMA KeptTerminal ==
    ASSUME Inv4, NEW d \in Daemon, NEW r \in SR, EnterTerminal(d, r)
    PROVE  KeepsOwner
<1>0. Inv3 /\ Inv1 BY InFour, InThree
<1> DEFINE g == G(d, r)
<1>1. /\ g.pc = "final" /\ Running(d, r)
      /\ UNCHANGED req \/ \E st \in {"FAILED", "SUCCEEDED"} : EndsAs(d, r, g, st)
  BY <1>0, ShapeTerminal
<1>2. CASE UNCHANGED req BY <1>2, SameOwns DEF KeepsOwner
<1>3. ASSUME NEW st, EndsAs(d, r, g, st)
      PROVE  KeepsOwner
  <2>1. Writes(d, r, g, st) /\ (st = "FAILED" <=> Fails(g))
    BY <1>3 DEF EndsAs, Writes
  <2>2. Others(r) BY <1>0, <2>1, WrittenIs
  <2>3. ~g.retry
    <3>1. Shape(d, req[r].ops, g) BY <1>0, InThree
    <3> QED BY <1>1, <3>1 DEF Shape
  <2> HIDE DEF g
  <2>4. ASSUME NEW s \in Stg, OwnerOf(s, r), Prov(s) = "PROVISIONED"
        PROVE  OwnerOf(s, r)'
    <3>1. Busy(d, r) /\ Has(r, "PROVISION") /\ req[r].st # None
      BY <1>1, <2>3, <2>4, OwnerIs DEF Busy, OwnerOf, g
    <3>2. ~Fails(g)
      <4>1. CASE d = C
        <5>1. Pending(g) BY <2>4, <3>1, <4>1, OwnerIs DEF g
        <5> QED BY <1>1, <5>1 DEF Pending, g
      <4>2. CASE d # C
        <5>1. WorkOK(d, r) /\ RequestOK(r) BY <1>0, InThree
        <5>2. req[r].ops \cap {"FORMAT", "USE", "CLOSE", "REATTACH"} # {}
          BY <3>1, <4>2, <5>1 DEF WorkOK, Owns, AgentOwns
        <5>3. req[r].ops \subseteq {"PROVISION", "ATTACH", "FORMAT", "USE"}
          BY <3>1, InFour
        <5>4. Has(r, "ATTACH") BY <3>1, <5>1, <5>2, <5>3 DEF RequestOK
        <5> QED BY <1>1, <3>1, <4>2, <5>1, <5>4 DEF WorkOK, g
      <4> QED BY <4>1, <4>2
    <3> QED BY <1>1, <2>1, <2>3, <2>4, <3>2, WritesOwn DEF g
  <2> QED BY <2>2, <2>4, SameOwns DEF Others, KeepsOwner
<1> QED BY <1>1, <1>2, <1>3

\* A request handed back stays the owner of its storage.
LEMMA KeptHandBack ==
    ASSUME Inv4, NEW n \in Node, NEW r \in SR, HandBack(n, r)
    PROVE  KeepsOwner
<1>0. Inv3 /\ Inv1 BY InFour, InThree
<1>1. \/ UNCHANGED req
      \/ Active(r) /\ req' = [req EXCEPT ![r].st = "UNDO_ATTACHING"]
  BY <1>0, ShapeHandBack
<1>2. CASE UNCHANGED req BY <1>2, SameOwns DEF KeepsOwner
<1>3. CASE req' = [req EXCEPT ![r].st = "UNDO_ATTACHING"]
  <2>1. req \in [SR -> Requests] BY InFour DEF TypeOK
  <2>2. /\ \A q \in SR : q # r => req'[q] = req[q]
        /\ req'[r].st = "UNDO_ATTACHING" /\ req'[r].ops = req[r].ops /\ req'[r].sid = req[r].sid
    BY <1>3, <2>1 DEF Requests
  <2>3. \A s \in Stg : OwnerOf(s, r) => OwnerOf(s, r)' BY <2>2 DEF OwnerOf, Has
  <2> QED BY <2>2, <2>3, SameOwns DEF KeepsOwner
<1> QED BY <1>1, <1>2, <1>3

\* A handler of centrald leaves the owner of provisioned storage its owner.
LEMMA KeptHandler ==
    ASSUME Inv4, NEW r \in SR, CentralStep(r), G(C, r).pc = "call"
    PROVE  KeepsOwner
<1>0. Inv3 /\ Inv1 /\ Inv2 /\ C \in Daemon BY InFour, InThree
<1>1. Others(r) /\ (Busy(C, r) => req'[r].st = req[r].st) /\ Running(C, r) /\ ~G(C, r).retry
  <2>1. Shape(C, req[r].ops, G(C, r)) BY <1>0, InThree
  <2> QED BY <1>0, <2>1, HandlerKeeps DEF Running, Shape
<1>2. \/ UNCHANGED req \/ SaysWhy(r) \/ Writes(C, r, G(C, r), G(C, r).st)
  BY HandlerWrites DEF Writes
<1>3. ASSUME NEW s \in Stg, OwnerOf(s, r), Prov(s) = "PROVISIONED"
      PROVE  OwnerOf(s, r)'
  <2>1. Busy(C, r) /\ G(C, r).st = req[r].st BY <1>1, <1>3, OwnerIs DEF Busy
  <2>2. CASE UNCHANGED req \/ SaysWhy(r)
    <3>1. req'[r].ops = req[r].ops /\ req'[r].sid = req[r].sid /\ req'[r].st = req[r].st
      BY <1>0, <2>1, <2>2, SayingIs
    <3> QED BY <1>3, <3>1 DEF OwnerOf, Has
  <2>3. CASE Writes(C, r, G(C, r), G(C, r).st)
    <3>1. req[r].st # "FAILED" BY <1>3 DEF OwnerOf
    <3> QED BY <1>0, <1>1, <1>3, <2>1, <2>3, <3>1, WritesOwn
  <2> QED BY <1>2, <2>2, <2>3
<1> QED BY <1>1, <1>3, SameOwns DEF Others, KeepsOwner

(* A handler that provisions: whatever comes of it is to be undone.        *)
LEMMA PendProvides ==
    ASSUME Inv4, NEW r \in SR, G(C, r).pc = "call", G(C, r).sub \in ProvisionSubs,
           NEW h, Become(C, r, h), Others(r), req'[r].ops = req[r].ops,
           \A s \in Stg : stg'[s].prov = "PROVISIONED" => Prov(s) = "PROVISIONED" \/ Holds(r, s),
           \/ Keeps(r, G(C, r), h)
           \/ h.pc = "call" /\ ~h.back /\ h.st = "PROVISIONING"
    PROVE  Pended'
<1> DEFINE g == G(C, r)
<1>1. g.st = "PROVISIONING" /\ ~Moves(r) /\ ~g.back /\ g.undo = <<>>
  BY InFour, Provides
<1>2. Pending(h)
  <2>1. CASE Keeps(r, g, h)
    <3>1. h.st = "PROVISIONING" /\ ~h.back /\ (h.pc = "call" \/ (h.pc \in {"next", "turn"} /\ h.undo = <<>> \o <<UP>>))
      BY <1>1, <2>1, UndoOfProvisioning DEF Keeps, Moves
    <3>2. <<>> \o <<UP>> = <<UP>> OBVIOUS
    <3> QED BY <3>1, <3>2, UndoOfProvisioning DEF Pending, Provisioner
  <2>2. CASE h.pc = "call" /\ ~h.back /\ h.st = "PROVISIONING"
    BY <2>2 DEF Pending, Provisioner
  <2> QED BY <2>1, <2>2
<1> QED BY <1>2, PendsFrame

\* ProvisionStorage notes what it has to undo before any of it is visible.
LEMMA PendProvision ==
    ASSUME Inv4, NEW r \in SR,
           getCapacity(r) \/ createStorage(r) \/ setIds(r) \/ createCSPVolume(r)
    PROVE  Pended'
<1> DEFINE g == G(C, r)
<1>0. G(C, r) = G("centrald", r) /\ C = "centrald" /\ Inv3 BY InFour DEF C
<1>1. g.pc = "call" /\ g.sub \in ProvisionSubs
  BY <1>0 DEF getCapacity, createStorage, setIds, createCSPVolume, InSub, ProvisionSubs
<1>2. /\ Keeps(r, g, Failing(C, r, g)) /\ Keeps(r, g, Later(C, r, g))
      /\ \A sub \in Subs : Keeps(r, g, Call(g, sub))
      /\ g \in Goroutines /\ ~g.back /\ g.st = "PROVISIONING"
  BY <1>0, <1>1, Goings, Provides
<1>3. Others(r) /\ req'[r].ops = req[r].ops
  <2>1. UNCHANGED req \/ Writes(C, r, g, g.st)
    BY <1>0 DEF getCapacity, createStorage, setIds, createCSPVolume, Writes
  <2>2. CASE UNCHANGED req BY <2>2 DEF Others
  <2>3. CASE Writes(C, r, g, g.st) BY <1>0, <2>3, InThree, WrittenIs
  <2> QED BY <2>1, <2>2, <2>3
<1>4. \A s \in Stg : stg'[s].prov = "PROVISIONED" => Prov(s) = "PROVISIONED"
  <2>1. CASE UNCHANGED stg BY <2>1 DEF Prov
  <2>2. CASE createStorage(r) /\ ~UNCHANGED stg
    <3> DEFINE new == [NoStorage EXCEPT !.prov = "PROVISIONING"]
    <3>1. PICK s \in Stg : stg' = [stg EXCEPT ![s] = new] BY <2>2 DEF createStorage
    <3>2. new.prov = "PROVISIONING" BY DEF NoStorage
    <3> HIDE DEF new
    <3>3. \A x \in Stg : stg'[x] = IF x = s THEN new ELSE stg[x]
      BY <1>0, <3>1, InThree DEF TypeOK
    <3> QED BY <3>2, <3>3 DEF Prov
  <2> QED BY <2>1, <2>2 DEF getCapacity, setIds, createCSPVolume
<1>5. \E h : Become(C, r, h) /\ (Keeps(r, g, h) \/ (h.pc = "call" /\ ~h.back /\ h.st = "PROVISIONING"))
  <2>1. CASE getCapacity(r)
    <3>1. \/ Become(C, r, Call(g, "createStorage"))
          \/ Become(C, r, Failing(C, r, g)) \/ Become(C, r, Later(C, r, g))
      BY <1>0, <2>1 DEF getCapacity
    <3> QED BY <1>2, <3>1 DEF Subs
  <2>2. CASE setIds(r)
    <3>1. Become(C, r, Call(g, "createCSPVolume")) \/ Become(C, r, Failing(C, r, g))
      BY <1>0, <2>2 DEF setIds
    <3> QED BY <1>2, <3>1 DEF Subs
  <2>3. CASE createStorage(r)
    <3> DEFINE new == [NoStorage EXCEPT !.prov = "PROVISIONING"]
    <3>1. \/ \E s \in Stg : Become(C, r, [Call(g, "setIds") EXCEPT !.sid = s, !.mem = new])
          \/ Become(C, r, Failing(C, r, g))
      BY <1>0, <2>3 DEF createStorage
    <3>2. ASSUME NEW s, NEW m, NEW h, h = [Call(g, "setIds") EXCEPT !.sid = s, !.mem = m]
          PROVE  h.pc = "call" /\ ~h.back /\ h.st = "PROVISIONING"
      BY <1>1, <1>2, <3>2 DEF Call, Goroutines
    <3> HIDE DEF new, g
    <3> QED BY <1>2, <3>1, <3>2
  <2>4. CASE createCSPVolume(r)
    <3>1. \/ \E v \in Vol : Become(C, r, [Call(g, "setProvisioned") EXCEPT !.mem.vol = v, !.mem.prov = "PROVISIONED"])
          \/ Become(C, r, Failing(C, r, g)) \/ Become(C, r, Later(C, r, g))
      BY <1>0, <2>4 DEF createCSPVolume, UnusedVolumes
    <3>2. ASSUME NEW v, NEW h, h = [Call(g, "setProvisioned") EXCEPT !.mem.vol = v, !.mem.prov = "PROVISIONED"]
          PROVE  h.pc = "call" /\ ~h.back /\ h.st = "PROVISIONING"
      BY <1>1, <1>2, <3>2 DEF Call, Goroutines
    <3> HIDE DEF g
    <3> QED BY <1>2, <3>1, <3>2
  <2> QED BY <2>1, <2>2, <2>3, <2>4
<1>6. PICK h : Become(C, r, h) /\ (Keeps(r, g, h) \/ (h.pc = "call" /\ ~h.back /\ h.st = "PROVISIONING"))
  BY <1>5
<1> QED BY <1>1, <1>3, <1>4, <1>6, PendProvides

(* Storage is PROVISIONED only by a request that is linked to it.          *)
LEMMA PendProvisioned ==
    ASSUME Inv4, NEW r \in SR, setProvisioned(r)
    PROVE  /\ Pended' /\ UNCHANGED req /\ OwnerOf(G(C, r).sid, r)
           /\ \A s \in Stg : stg'[s].prov = "PROVISIONED" => Prov(s) = "PROVISIONED" \/ s = G(C, r).sid
<1> DEFINE g == G(C, r)
<1>0. G(C, r) = G("centrald", r) /\ C = "centrald" /\ Inv3 BY InFour DEF C
<1>1. /\ g.pc = "call" /\ g.sub = "setProvisioned" /\ UNCHANGED req
      /\ StorageUpdate(C, r, g.mem, Return(C, r, g), Failing(C, r, g))
  BY <1>0 DEF setProvisioned, InSub
<1>2. g.sub \in ProvisionSubs BY <1>1 DEF ProvisionSubs
<1>3. /\ g \in Goroutines /\ g.mem \in Storage /\ Return(C, r, g) \in Goroutines
      /\ Keeps(r, g, Return(C, r, g)) /\ Return(C, r, g).pc # "call"
      /\ Keeps(r, g, Failing(C, r, g))
  BY <1>0, <1>1, Goings
<1>4. /\ req[r].st = "PROVISIONING" /\ Busy(C, r) /\ Has(r, "PROVISION") /\ GoOK(r, g)
  BY <1>0, <1>1, <1>2, Provides
<1>5. g.sid # None /\ g.sid = req[r].sid BY <1>1, <1>4 DEF GoOK, CallOK
<1>6. OwnerOf(g.sid, r) /\ Holds(r, g.sid) /\ Others(r)
  <2>1. Others(r) BY <1>1 DEF Others
  <2>2. Active(r) BY <1>4 DEF Active, Terminal, None
  <2> QED BY <1>4, <1>5, <2>1, <2>2 DEF OwnerOf, Holds
<1>7. PICK h : /\ Become(C, r, h) /\ Keeps(r, g, h)
               /\ \A s \in Stg : stg'[s].prov = "PROVISIONED" => Prov(s) = "PROVISIONED" \/ s = g.sid
  <2>1. CASE UNCHANGED stg /\ Become(C, r, Failing(C, r, g)) BY <1>3, <2>1 DEF Prov
  <2>2. ASSUME NEW m, NEW h, Saved(C, r, g.mem, m), Copies(Return(C, r, g), m, h), Become(C, r, h)
        PROVE  Keeps(r, g, h) /\ \A s \in Stg : stg'[s] = IF s = g.sid THEN m ELSE stg[s]
    <3>1. Keeps(r, g, h) BY <1>3, <2>2 DEF Copies, Alike, Keeps
    <3> QED BY <1>0, <2>2, <3>1, InThree DEF Saved, TypeOK
  <2>3. \/ \E m, h : Saved(C, r, g.mem, m) /\ Copies(Return(C, r, g), m, h) /\ Become(C, r, h)
        \/ UNCHANGED stg /\ Become(C, r, Failing(C, r, g))
    BY <1>0, <1>1, <1>3, UpdateIs, InThree
  <2> HIDE DEF g
  <2> QED BY <2>1, <2>2, <2>3 DEF Prov
<1>8. Pended' BY <1>1, <1>2, <1>6, <1>7, PendProvides
<1> QED BY <1>1, <1>6, <1>7, <1>8

(* No storage is provisioned and no owner lost.                            *)
LEMMA StillOwned ==
    ASSUME Inv4, KeepsOwner,
           \A s \in Stg : stg'[s].prov = "PROVISIONED" =>
               Prov(s) = "PROVISIONED" \/ \E r \in SR : OwnerOf(s, r)'
    PROVE  ProvisionedIsOwned'
<1> SUFFICES ASSUME NEW s \in Stg, stg'[s].prov = "PROVISIONED"
             PROVE  \E r \in SR : OwnerOf(s, r)'
  BY DEF ProvisionedIsOwned, OwnerOf, Has
<1>1. CASE Prov(s) = "PROVISIONED"
  <2>1. PICK r \in SR : OwnerOf(s, r)
    BY <1>1 DEF Inv4, ProvisionedIsOwned, OwnerOf, Prov
  <2> QED BY <1>1, <2>1 DEF KeepsOwner
<1> QED BY <1>1

\* ReleaseStorage provisions nothing.
LEMMA ReleaseProvidesNone ==
    ASSUME Inv4, NEW r \in SR, Release(r)
    PROVE  NoneProvisioned
<1> DEFINE g == G(C, r)
<1>0. G(C, r) = G("centrald", r) /\ C = "centrald" /\ Inv3 /\ C \in Daemon
  BY InFour, InThree DEF C
<1>1. CASE UNCHANGED stg BY <1>1 DEF NoneProvisioned, Prov
<1>2. ASSUME NEW s \in Stg, NEW o, o.prov # "PROVISIONED", stg' = [stg EXCEPT ![s] = o]
      PROVE  NoneProvisioned
  <2>1. \A x \in Stg : stg'[x] = IF x = s THEN o ELSE stg[x]
    BY <1>0, <1>2, InThree DEF TypeOK
  <2> QED BY <1>2, <2>1 DEF NoneProvisioned, Prov
<1>3. CASE deleteStorage(r)
  <2>1. UNCHANGED stg \/ stg' = [stg EXCEPT ![g.sid] = NoStorage]
    BY <1>0, <1>3 DEF deleteStorage
  <2>2. CASE g.sid \in Stg /\ stg' = [stg EXCEPT ![g.sid] = NoStorage]
    <3>1. NoStorage.prov # "PROVISIONED" BY DEF NoStorage, None
    <3> QED BY <1>2, <2>2, <3>1
  <2>3. CASE g.sid \notin Stg /\ stg' = [stg EXCEPT ![g.sid] = NoStorage]
    <3>1. \A x \in Stg : stg'[x] = stg[x] BY <1>0, <2>3, InThree DEF TypeOK
    <3> QED BY <3>1 DEF NoneProvisioned, Prov
  <2> QED BY <1>1, <2>1, <2>2, <2>3
<1>4. CASE setStorageState(r)
  <2> DEFINE new == [g.mem EXCEPT !.prov = "UNPROVISIONING"]
  <2>1. g.pc = "call" /\ StorageUpdate(C, r, new, Call(g, "deleteVolume"), Later(C, r, g))
    BY <1>0, <1>4 DEF setStorageState, CentralSave, InSub
  <2>2. g.mem \in Storage /\ Call(g, "deleteVolume") \in Goroutines
    BY <1>0, <2>1, Goings DEF Subs
  <2> HIDE DEF g
  <2>3. new \in Storage /\ new.prov = "UNPROVISIONING" BY <2>2 DEF Storage
  <2> HIDE DEF new
  <2>4. UNCHANGED stg \/ \E m : Saved(C, r, new, m)
    BY <1>0, <2>1, <2>2, <2>3, UpdateIs, InThree DEF g
  <2>5. ASSUME NEW m, Saved(C, r, new, m)
        PROVE  NoneProvisioned
    BY <1>2, <2>3, <2>5 DEF Saved
  <2> QED BY <1>1, <2>4, <2>5
<1>5. deleteVolume(r) => UNCHANGED stg BY DEF deleteVolume
<1> QED BY <1>1, <1>3, <1>4, <1>5 DEF Release

\* ProvisionStorage before its last sub-state provisions nothing.
LEMMA ProvisionProvidesNone ==
    ASSUME Inv4, NEW r \in SR,
           getCapacity(r) \/ createStorage(r) \/ setIds(r) \/ createCSPVolume(r)
    PROVE  NoneProvisioned
<1>1. CASE UNCHANGED stg BY <1>1 DEF Prov, NoneProvisioned
<1>2. CASE createStorage(r) /\ ~UNCHANGED stg
  <2> DEFINE new == [NoStorage EXCEPT !.prov = "PROVISIONING"]
  <2>1. PICK s \in Stg : stg' = [stg EXCEPT ![s] = new] BY <1>2 DEF createStorage
  <2>2. new.prov = "PROVISIONING" BY DEF NoStorage
  <2> HIDE DEF new
  <2>3. \A x \in Stg : stg'[x] = IF x = s THEN new ELSE stg[x]
    BY <2>1, InFour DEF TypeOK
  <2> QED BY <2>2, <2>3 DEF Prov, NoneProvisioned
<1> QED BY <1>1, <1>2 DEF getCapacity, setIds, createCSPVolume

\* Every step of centrald on a request keeps this layer.
LEMMA CentralKeeps ==
    ASSUME Inv4, NEW r \in SR, Central(r)
    PROVE  Pended' /\ ProvisionedIsOwned'
<1>0. Inv3 /\ Inv1 /\ C = "centrald" /\ C \in Daemon BY InFour, InThree DEF C
<1>1. CASE CentralDispatch(r)
  <2>1. UNCHANGED <<req, stg>> BY <1>0, <1>1, ShapeCentralDispatch
  <2>2. NoneProvisioned /\ KeepsOwner
    BY <2>1, SameOwns DEF NoneProvisioned, KeepsOwner, Prov
  <2> QED BY <1>1, <2>2, PendDispatch, StillOwned DEF NoneProvisioned
<1>2. CASE Animate(C, r)
  <2>1. UNCHANGED stg BY <1>0, <1>2, ShapeNext, ShapeTurn, ShapeTerminal DEF Animate
  <2>2. NoneProvisioned BY <2>1 DEF NoneProvisioned, Prov
  <2>3. KeepsOwner
    <3>1. CASE Turn(C, r)
      <4>1. UNCHANGED req BY <1>0, <3>1, ShapeTurn
      <4> QED BY <4>1, SameOwns DEF KeepsOwner
    <3> QED BY <1>0, <1>2, <3>1, KeptNext, KeptTerminal DEF Animate
  <2> QED
    BY <1>0, <1>2, <2>2, <2>3, PendNext, PendTurn, PendTerminal, StillOwned DEF Animate, NoneProvisioned
<1>3. CASE CentralStep(r)
  <2>1. G(C, r).pc = "call"
    BY <1>0, <1>3, ShapeProvision, ShapeAttach, ShapeDetach, ShapeRelease DEF CentralStep
  <2>2. KeepsOwner BY <1>3, <2>1, KeptHandler
  <2>3. CASE setProvisioned(r)
    <3>1. /\ Pended' /\ UNCHANGED req /\ OwnerOf(G(C, r).sid, r)
          /\ \A s \in Stg : stg'[s].prov = "PROVISIONED" => Prov(s) = "PROVISIONED" \/ s = G(C, r).sid
      BY <2>3, PendProvisioned
    <3>2. \A s \in Stg : OwnerOf(s, r) => OwnerOf(s, r)' BY <3>1, SameOwns
    <3> QED BY <2>2, <3>1, <3>2, StillOwned
  <2>4. CASE Attach(r) \/ Detach(r) \/ removeCSPVolumeTag(r)
    <3>1. Plainly(r) BY <1>0, <2>4, PlainWhen
    <3>2. NoneProvisioned BY <3>1 DEF Plainly, Steady, NoneProvisioned
    <3> QED BY <2>2, <2>4, <3>2, PendPlain, StillOwned DEF NoneProvisioned
  <2>5. CASE Release(r)
    <3>1. NoneProvisioned BY <2>5, ReleaseProvidesNone DEF NoneProvisioned
    <3> QED BY <2>2, <2>5, <3>1, PendRelease, StillOwned DEF NoneProvisioned
  <2>6. CASE getCapacity(r) \/ createStorage(r) \/ setIds(r) \/ createCSPVolume(r)
    <3>1. NoneProvisioned BY <2>6, ProvisionProvidesNone DEF NoneProvisioned
    <3> QED BY <2>2, <2>6, <3>1, PendProvision, StillOwned DEF NoneProvisioned
  <2> QED BY <1>3, <2>3, <2>4, <2>5, <2>6 DEF CentralStep, Provision
<1> QED BY <1>0, <1>1, <1>2, <1>3 DEF Central, CentralStep

\* Every step of agentd on a request keeps this layer.
LEMMA AgentsKeep ==
    ASSUME Inv4, NEW n \in Node, NEW r \in SR, Agent(n, r)
    PROVE  Pended' /\ ProvisionedIsOwned'
<1>0. Inv3 /\ Inv1 /\ n \in Daemon BY InFour, InThree, CentralIs
<1>1. KeepsOwner
  <2>1. CASE AgentDispatch(n, r) \/ Turn(n, r) \/ ResetDevice(n, r) \/ DeviceStep(n, r)
    <3>1. UNCHANGED req
      BY <1>0, <2>1, ShapeAgentDispatch, ShapeTurn, ShapeReset, DeviceKeeps
    <3> QED BY <3>1, SameOwns DEF KeepsOwner
  <2> QED BY <1>0, <2>1, KeptNext, KeptTerminal, KeptHandBack DEF Agent, Animate, DeviceStep
<1>2. \E h : Become(n, r, h) /\ KeepsRequests /\ \A s \in Stg : stg'[s].prov = Prov(s)
  <2>1. CASE ResetDevice(n, r) \/ DeviceStep(n, r)
    <3>1. AgentKeeps(n, r) /\ UNCHANGED req BY <1>0, <2>1, ResetKeeps, DeviceKeeps
    <3> QED BY <3>1 DEF AgentKeeps, KeepsRequests
  <2>2. CASE AgentDispatch(n, r) \/ Animate(n, r) \/ HandBack(n, r)
    <3>1. (\E h : Become(n, r, h)) /\ KeepsRequests /\ UNCHANGED stg
      <4>1. CASE AgentDispatch(n, r) BY <1>0, <4>1, ShapeAgentDispatch DEF Goes
      <4>2. CASE NextState(n, r) BY <1>0, <4>2, ShapeNext DEF Goes
      <4>3. CASE Turn(n, r) BY <1>0, <4>3, ShapeTurn DEF Goes
      <4>4. CASE EnterTerminal(n, r) BY <1>0, <4>4, ShapeTerminal DEF Goes
      <4>5. CASE HandBack(n, r) BY <1>0, <4>5, ShapeHandBack DEF Goes
      <4> QED BY <2>2, <4>1, <4>2, <4>3, <4>4, <4>5 DEF Animate
    <3> QED BY <3>1 DEF Prov
  <2> QED BY <2>1, <2>2 DEF Agent, DeviceStep
<1>3. PICK h : Become(n, r, h) /\ KeepsRequests /\ \A s \in Stg : stg'[s].prov = Prov(s)
  BY <1>2
<1> QED BY <1>1, <1>3, PendAgent, StillOwned

\* Restarts, the startup cleanup and time keep this layer.
LEMMA OthersKeep ==
    ASSUME Inv4,
           \/ Cleanup \/ CrashCentrald \/ (\E n \in Node : CrashAgentd(n))
           \/ (\E r \in SR : Expire(r)) \/ UNCHANGED vars
    PROVE  Pended' /\ ProvisionedIsOwned'
<1>0. TypeOK /\ Inv3 BY InFour
<1>1. /\ \A x \in SR : /\ req'[x].ops = req[x].ops /\ req'[x].st = req[x].st
                       /\ req'[x].sid \in {req[x].sid, None}
      /\ \A q \in SR : G(C, q)' = G(C, q) \/ G(C, q)'.pc = "idle"
  <2>1. Idle.pc = "idle" /\ C \in Daemon BY CentralIs DEF Idle, C
  <2> QED BY <1>0, <2>1, OthersAre
<1>2. NoneProvisioned
  <2>1. CASE makeProvisioningStorageUnprovisioned \/ deleteUnprovisionedStorage
    <3>1. \/ UNCHANGED stg
          \/ \E s \in Stg : stg' = [stg EXCEPT ![s].prov = "UNPROVISIONED"]
          \/ \E s \in Stg : stg' = [stg EXCEPT ![s] = NoStorage]
      BY <2>1 DEF makeProvisioningStorageUnprovisioned, deleteUnprovisionedStorage
    <3>2. ASSUME NEW s \in Stg, NEW o, o.prov # "PROVISIONED", stg' = [stg EXCEPT ![s] = o]
          PROVE  NoneProvisioned
      <4>1. \A x \in Stg : stg'[x] = IF x = s THEN o ELSE stg[x]
        BY <1>0, <3>2 DEF TypeOK
      <4> QED BY <3>2, <4>1 DEF NoneProvisioned, Prov
    <3>3. \A s \in Stg : [stg[s] EXCEPT !.prov = "UNPROVISIONED"].prov = "UNPROVISIONED"
      BY <1>0 DEF TypeOK, Storage
    <3>4. NoStorage.prov = None BY DEF NoStorage
    <3>5. CASE \E s \in Stg : stg' = [stg EXCEPT ![s].prov = "UNPROVISIONED"]
      <4>1. PICK s \in Stg : stg' = [stg EXCEPT ![s].prov = "UNPROVISIONED"] BY <3>5
      <4> DEFINE o == [stg[s] EXCEPT !.prov = "UNPROVISIONED"]
      <4>2. stg' = [stg EXCEPT ![s] = o] /\ o.prov = "UNPROVISIONED" BY <3>3, <4>1
      <4> HIDE DEF o
      <4> QED BY <3>2, <4>2
    <3>6. CASE \E s \in Stg : stg' = [stg EXCEPT ![s] = NoStorage]
      BY <3>2, <3>4, <3>6 DEF None
    <3> QED BY <3>1, <3>5, <3>6 DEF NoneProvisioned, Prov
  <2>2. CASE \E n \in Node : CrashAgentd(n)
    <3>1. PICK n \in Node : CrashAgentd(n) BY <2>2
    <3>2. PICK bad \in SUBSET Stg : stg' = [s \in Stg |-> Recovered(n, bad, s)]
      BY <3>1 DEF CrashAgentd
    <3>3. ASSUME NEW s \in Stg
          PROVE  Recovered(n, bad, s).prov = stg[s].prov
      <4>1. stg[s] \in Storage BY <1>0 DEF TypeOK
      <4> QED BY <4>1 DEF Recovered, Storage
    <3> QED BY <3>2, <3>3 DEF NoneProvisioned, Prov
  <2> QED
    BY <2>1, <2>2 DEF Cleanup, CrashCentrald, Expire, vars, releaseOrphanedCSPVolumes, NoneProvisioned, Prov
<1>3. KeepsOwner
  <2> SUFFICES ASSUME NEW r \in SR, NEW s \in Stg, OwnerOf(s, r), Prov(s) = "PROVISIONED"
               PROVE  req'[r].sid = s
    BY <1>1 DEF KeepsOwner, OwnerOf, Has
  <2>1. CASE makeProvisioningStorageUnprovisioned
    <3>1. \/ UNCHANGED req
          \/ \E x \in Stg, q \in SR : /\ Prov(x) = "PROVISIONING" /\ req[q].sid = x
                                      /\ req' = [req EXCEPT ![q].sid = None]
      BY <2>1 DEF makeProvisioningStorageUnprovisioned, Prov
    <3> QED BY <1>0, <3>1 DEF TypeOK, OwnerOf
  <2>2. CASE UNCHANGED req BY <2>2 DEF OwnerOf
  <2> QED
    BY <2>1, <2>2 DEF Cleanup, CrashCentrald, CrashAgentd, Expire, vars, releaseOrphanedCSPVolumes,
       deleteUnprovisionedStorage
<1> QED BY <1>1, <1>2, <1>3, StillPends, StillOwned DEF NoneProvisioned

\* storageRequestCreate keeps this layer.
LEMMA CreateKeeps ==
    ASSUME Inv4, NEW r \in SR, StorageRequestCreate(r)
    PROVE  Pended' /\ ProvisionedIsOwned'
<1>0. TypeOK /\ Inv3 /\ Inv1 /\ C \in Daemon BY InFour, InThree
<1>1. req[r].st = None /\ UNCHANGED <<stg, go>> /\ \E q : req' = [req EXCEPT ![r] = q]
  BY CreateIs DEF NewRequest
<1>2. \A q \in SR : q # r => req'[q] = req[q] BY <1>0, <1>1 DEF TypeOK
<1>3. ~Running(C, r) /\ \A q \in SR : G(C, q)' = G(C, q)
  BY <1>0, <1>1, InThree DEF G
<1>4. NoneProvisioned BY <1>1 DEF NoneProvisioned, Prov
<1>5. KeepsOwner
  <2>1. \A s \in Stg : ~OwnerOf(s, r)
    BY <1>0, <1>1, SizesAssumption DEF Inv1, Asked, OwnerOf, NoRequest
  <2> QED BY <1>2, <2>1, SameOwns DEF KeepsOwner
<1>6. \A q \in SR : (G(C, q)' = G(C, q) /\ req'[q].ops = req[q].ops) \/ G(C, q)'.pc = "idle"
  BY <1>2, <1>3 DEF Running
<1> QED BY <1>4, <1>5, <1>6, StillPends, StillOwned DEF NoneProvisioned

\* Every step keeps Inv4.
LEMMA Step4 == Inv4 /\ [Next]_vars => Inv4'
<1> SUFFICES ASSUME Inv4, [Next]_vars
             PROVE  Inv4'
  OBVIOUS
<1>1. Inv3' BY InFour, Step3
<1>2. CASE \/ Cleanup \/ CrashCentrald \/ (\E n \in Node : CrashAgentd(n))
           \/ (\E r \in SR : Expire(r)) \/ UNCHANGED vars
  BY <1>1, <1>2, OthersKeep DEF Inv4
<1>3. CASE \E r \in SR : StorageRequestCreate(r) \/ Central(r) \/ \E n \in Node : Agent(n, r)
  BY <1>1, <1>3, CreateKeeps, CentralKeeps, AgentsKeep DEF Inv4
<1> QED BY <1>2, <1>3 DEF Next

\* Inv4 holds initially.
LEMMA Init4 == Init => Inv4
<1> SUFFICES ASSUME Init
             PROVE  Inv4
  OBVIOUS
<1>1. Inv3 /\ C \in Daemon BY Init3, CentralIs DEF C
<1>2. \A r \in SR : ~Busy(C, r) BY <1>1 DEF Init, Busy, Running, G, Idle
<1>3. \A s \in Stg : stg[s].prov = None BY DEF Init, NoStorage
<1> QED BY <1>1, <1>2, <1>3 DEF Inv4, Pended, PendingOK, ProvisionedIsOwned, None

(* A PROVISION request that fails gives everything back, whichever daemon  *)
(* ends it and however often it was interrupted.                           *)
THEOREM ProvisionedCorrect == Spec => []ProvisionedIsOwned
<1>1. Inv4 => ProvisionedIsOwned BY DEF Inv4
<1> QED BY <1>1, Init4, Step4, PTL DEF Spec

-----------------------------------------------------------------------------
(***************************************************************************)
(* Inv5: the volumes of a storage.  There is at most one, it carries the tag of *)
(* the request that provisions the storage, and loses it only when the Storage *)
(* object names it; what a goroutine knows of its volume is true.          *)
(***************************************************************************)

(* A step of one goroutine.                                                *)
LEMMA RestFrame ==
    ASSUME TypeOK, Resting, NEW d \in Daemon, NEW r \in SR, NEW h, Become(d, r, h),
           d # C => RestOK(h)
    PROVE  Resting'
<1>1. \A e \in Daemon, q \in SR : G(e, q)' = IF e = d /\ q = r THEN h ELSE G(e, q)
  BY DEF TypeOK, Become, G
<1> SUFFICES ASSUME NEW n \in Node, NEW q \in SR
             PROVE  RestOK(G(n, q))'
  BY DEF Resting
<1>2. n \in Daemon /\ n # C BY CentralIs DEF C
<1>3. G(n, q)' = IF n = d /\ q = r THEN h ELSE G(n, q) BY <1>1, <1>2
<1>4. RestOK(G(n, q)) BY DEF Resting
<1> QED BY <1>2, <1>3, <1>4 DEF RestOK

(* Steps that leave the goroutines of agentd alone, or end them.           *)
LEMMA RestSame ==
    ASSUME Resting, \A n \in Node, q \in SR : G(n, q)' = G(n, q) \/ G(n, q)' = Idle
    PROVE  Resting'
<1>1. RestOK(Idle) BY DEF RestOK, Idle
<1> SUFFICES ASSUME NEW n \in Node, NEW q \in SR
             PROVE  RestOK(G(n, q))'
  BY DEF Resting
<1>2. G(n, q)' = G(n, q) \/ G(n, q)' = Idle OBVIOUS
<1>3. RestOK(G(n, q)) BY DEF Resting
<1> QED BY <1>1, <1>2, <1>3 DEF RestOK

(* requestAnimator calls handlers and ends with none.                      *)
LEMMA RestAnimate ==
    ASSUME Inv1, Resting, NEW n \in Node, NEW r \in SR, Animate(n, r)
    PROVE  Resting'
<1>0. n \in Daemon /\ TypeOK /\ RestOK(G(n, r)) /\ RestOK(Idle)
  BY CentralIs DEF Inv1, Resting, RestOK, Idle
<1>1. CASE NextState(n, r)
  <2>1. PICK h : Become(n, r, h) /\ NextIs(n, r, h)
    BY <1>0, <1>1, ShapeNext DEF Goes
  <2>2. G(n, r).pc = "next" BY <1>1 DEF NextState
  <2>3. Stopped(G(n, r), h) => RestOK(h) BY <1>0, <2>2 DEF Stopped, RestOK
  <2>4. \A st : Entered(n, r, G(n, r), st, h) => RestOK(h) BY DEF Entered, RestOK
  <2>5. RestOK(h) BY <2>1, <2>3, <2>4 DEF NextIs
  <2> QED BY <1>0, <2>1, <2>5, RestFrame
<1>2. CASE Turn(n, r)
  <2>1. PICK h : Become(n, r, h) /\ TurnIs(n, r, h)
    BY <1>0, <1>2, ShapeTurn DEF Goes
  <2>2. G(n, r).pc # "call" BY <1>2 DEF Turn
  <2>3. RestOK(h) BY <1>0, <2>1, <2>2 DEF TurnIs, Kept, RestOK
  <2> QED BY <1>0, <2>1, <2>3, RestFrame
<1>3. CASE EnterTerminal(n, r) BY <1>0, <1>3, RestFrame DEF EnterTerminal
<1> QED BY <1>1, <1>2, <1>3 DEF Animate

(* The handlers of agentd.                                                 *)
LEMMA RestDevice ==
    ASSUME Inv1, Resting, NEW n \in Node, NEW r \in SR, DeviceStep(n, r)
    PROVE  Resting'
<1> DEFINE g == G(n, r)
<1>0. /\ n \in Daemon /\ TypeOK /\ g \in Goroutines /\ g.mem \in Storage
  <2>1. n \in Daemon /\ TypeOK BY CentralIs DEF Inv1
  <2>2. g \in Goroutines BY <2>1, GoType
  <2> QED BY <2>1, <2>2 DEF Goroutines
<1>1. g.pc = "call"
  BY DEF DeviceStep, FormatStorage, UseStorage, CloseStorage, SetDeviceState, CallDevice, InSub
<1>2. /\ RestOK(Return(n, r, g)) /\ RestOK(Later(n, r, g)) /\ RestOK(Failing(n, r, g))
      /\ Return(n, r, g) \in Goroutines /\ Later(n, r, g) \in Goroutines
  <2> HIDE DEF g
  <2>1. /\ Returned(n, r, g, Return(n, r, g), g.err, g.retry)
        /\ Returned(n, r, g, Failing(n, r, g), TRUE, g.retry)
        /\ Returned(n, r, g, Later(n, r, g), g.err, TRUE)
    BY <1>0, ReturnedIs
  <2> QED BY <1>0, <2>1, ReturnType, LaterType DEF Returned, RestOK
<1>3. ASSUME NEW new \in Storage, NEW ok \in Goroutines, NEW failed,
             StorageUpdate(n, r, new, ok, failed), RestOK(ok), RestOK(failed)
      PROVE  Resting'
  <2>1. PICK h : Become(n, r, h) /\ (h = failed \/ Alike(ok, h))
    BY <1>0, <1>3, UpdateIs DEF Copies
  <2>2. RestOK(h) BY <1>3, <2>1 DEF RestOK, Alike
  <2> QED BY <1>0, <2>1, <2>2, RestFrame
<1>4. ASSUME NEW sub, NEW dev \in {"FORMATTING", "OPENING", "CLOSING"}, NEW next \in Subs,
             SetDeviceState(n, r, sub, dev, next)
      PROVE  Resting'
  <2> DEFINE new == [g.mem EXCEPT !.dev = dev]
  <2>1. StorageUpdate(n, r, new, Call(g, next), Later(n, r, g))
    BY <1>4 DEF SetDeviceState
  <2> HIDE DEF g
  <2>2. new \in Storage BY <1>0 DEF Storage
  <2>3. Call(g, next) \in Goroutines /\ RestOK(Call(g, next))
    BY <1>0, <1>1 DEF Call, Goroutines, RestOK
  <2> HIDE DEF new
  <2> QED BY <1>2, <1>3, <2>1, <2>2, <2>3
<1>5. ASSUME NEW sub, NEW new \in Storage, NEW worst \in Storage, CallDevice(n, r, sub, new, worst)
      PROVE  Resting'
  <2>1. \/ StorageUpdate(n, r, new, Return(n, r, g), Later(n, r, g))
        \/ Become(n, r, Failing(n, r, [g EXCEPT !.mem = worst]))
    BY <1>5 DEF CallDevice
  <2>2. CASE StorageUpdate(n, r, new, Return(n, r, g), Later(n, r, g))
    BY <1>2, <1>3, <2>2
  <2>3. CASE Become(n, r, Failing(n, r, [g EXCEPT !.mem = worst]))
    <3> DEFINE w == [g EXCEPT !.mem = worst]
    <3>1. w \in Goroutines BY <1>0 DEF Goroutines
    <3>2. Become(n, r, Failing(n, r, w)) BY <2>3
    <3> HIDE DEF w
    <3>3. RestOK(Failing(n, r, w))
      <4>1. Returned(n, r, w, Failing(n, r, w), TRUE, w.retry) BY <3>1, ReturnedIs
      <4> QED BY <4>1 DEF Returned, RestOK
    <3> QED BY <1>0, <3>2, <3>3, RestFrame
  <2> QED BY <2>1, <2>2, <2>3
<1>6. CASE FormatStorage(n, r)
  <2> DEFINE dev == IF Has(r, "USE") THEN "OPENING" ELSE "UNUSED"
             o == [g.mem EXCEPT !.media = "FORMATTED", !.dev = dev]
             w == [g.mem EXCEPT !.media = "UNFORMATTED"]
  <2>1. \/ SetDeviceState(n, r, "setFormatting", "FORMATTING", "formatDevice")
        \/ CallDevice(n, r, "formatDevice", o, w)
    BY <1>6 DEF FormatStorage
  <2>2. dev \in {"OPENING", "UNUSED"} OBVIOUS
  <2> HIDE DEF dev, g
  <2>3. o \in Storage /\ w \in Storage BY <1>0, <2>2 DEF Storage
  <2> HIDE DEF o, w
  <2> QED BY <1>4, <1>5, <2>1, <2>3 DEF Subs
<1>7. CASE UseStorage(n, r)
  <2> DEFINE o == [g.mem EXCEPT !.dev = "OPEN"]
  <2>1. \/ SetDeviceState(n, r, "setOpening", "OPENING", "useDevice")
        \/ CallDevice(n, r, "useDevice", o, g.mem)
    BY <1>7 DEF UseStorage
  <2> HIDE DEF g
  <2>3. o \in Storage /\ g.mem \in Storage BY <1>0 DEF Storage
  <2> HIDE DEF o
  <2> QED BY <1>4, <1>5, <2>1, <2>3 DEF Subs
<1>8. CASE CloseStorage(n, r)
  <2> DEFINE o == [g.mem EXCEPT !.dev = "UNUSED"]
  <2>1. \/ SetDeviceState(n, r, "setClosing", "CLOSING", "closeDevice")
        \/ CallDevice(n, r, "closeDevice", o, g.mem)
    BY <1>8 DEF CloseStorage
  <2> HIDE DEF g
  <2>3. o \in Storage /\ g.mem \in Storage BY <1>0 DEF Storage
  <2> HIDE DEF o
  <2> QED BY <1>4, <1>5, <2>1, <2>3 DEF Subs
<1> QED BY <1>6, <1>7, <1>8 DEF DeviceStep

(* Volumes of the cloud service, and what centrald's handlers know of them. *)

\* What Inv5 says.
LEMMA InFive ==
    ASSUME Inv5, NEW r \in SR
    PROVE  /\ Inv4 /\ Inv3 /\ Inv2 /\ Inv1 /\ TypeOK
           /\ Resting /\ AllBacked /\ Stored /\ Clouded /\ BackedOK(r)
           /\ C \in Daemon /\ G(C, r) \in Goroutines
BY GoType, CentralIs DEF Inv5, Inv4, Inv3, Inv2, Inv1, AllBacked, C

(* The types of what is read of the cloud and of a goroutine.              *)
LEMMA CloudType ==
    ASSUME TypeOK, NEW r \in SR
    PROVE  /\ G(C, r) \in Goroutines /\ G(C, r).mem \in Storage
           /\ G(C, r).mem.vol \in Vol \cup {None} /\ G(C, r).sid \in Stg \cup {None}
           /\ None \notin Vol /\ None \notin Stg /\ None \notin SR
           /\ \A v \in Vol : vol[v].stg \in Stg \cup {None} /\ vol[v].tag \in SR \cup {None}
           /\ \A s \in Stg : stg[s] \in Storage /\ stg[s].vol \in Vol \cup {None}
<1>1. G(C, r) \in Goroutines BY GoType, CentralIs DEF C
<1>2. G(C, r).mem \in Storage /\ G(C, r).sid \in Stg \cup {None}
  BY <1>1 DEF Goroutines
<1>3. G(C, r).mem.vol \in Vol \cup {None} BY <1>2 DEF Storage
<1>4. None \notin Vol /\ None \notin Stg /\ None \notin SR BY SizesAssumption
<1>5. \A v \in Vol : vol[v].stg \in Stg \cup {None} /\ vol[v].tag \in SR \cup {None}
  BY DEF TypeOK
<1>6. \A s \in Stg : stg[s] \in Storage /\ stg[s].vol \in Vol \cup {None}
  BY DEF TypeOK, Storage
<1> QED BY <1>1, <1>2, <1>3, <1>4, <1>5, <1>6

(* What a goroutine of centrald knows of its volume survives the steps     *)
(* that leave its storage alone and create no volume for it.               *)
LEMMA BackedStays ==
    ASSUME Inv5, NEW q \in SR,
           Busy(C, q)' => /\ G(C, q)' = G(C, q) /\ req'[q].sid = req[q].sid
                          /\ req'[q].ops = req[q].ops,
           \A s \in Stg : Busy(C, q) /\ G(C, q).sid = s =>
                             stg'[s].prov = Prov(s) /\ stg'[s].vol = stg[s].vol,
           \A v \in Vol : Busy(C, q) =>
               \/ vol'[v].stg = vol[v].stg
               \/ vol'[v].stg = None /\ vol[v].stg # G(C, q).sid
               \/ v \in UnusedVolumes /\ vol'[v].stg # G(C, q).sid
    PROVE  BackedOK(q)'
<1> SUFFICES ASSUME Busy(C, q)'
             PROVE  /\ Backed(G(C, q))' /\ (Fresh(q)' => NoVolumeOf(G(C, q).sid)')
                    /\ G(C, q)'.pc = "call" => VolumeCallOK(G(C, q))'
  BY DEF BackedOK
<1>1. PICK g : g = G(C, q) OBVIOUS
<1>2. G(C, q)' = g /\ req'[q].sid = req[q].sid /\ req'[q].ops = req[q].ops BY <1>1
<1>3. Busy(C, q) BY <1>1, <1>2 DEF Busy, Running, Moves, Has
<1>4. /\ g.mem.vol \in Vol \cup {None} /\ g.sid \in Stg \cup {None}
      /\ None \notin Vol /\ None \notin Stg
  BY <1>1, InFive, CloudType
<1>5. g.mem.vol \notin UnusedVolumes
  <2>1. <<C, q>> \in DOMAIN go BY InFive DEF TypeOK
  <2> QED BY <1>1, <2>1 DEF UnusedVolumes, G
<1>6. Backed(g) /\ (Fresh(q) => NoVolumeOf(g.sid)) /\ (g.pc = "call" => VolumeCallOK(g))
  BY <1>1, <1>3, InFive DEF BackedOK
<1>7. g.sid # None => stg'[g.sid].prov = Prov(g.sid) /\ stg'[g.sid].vol = stg[g.sid].vol
  BY <1>1, <1>3, <1>4
<1>8. g.mem.vol # None => /\ g.mem.vol \in Vol
                          /\ \/ vol'[g.mem.vol].stg = vol[g.mem.vol].stg
                             \/ vol'[g.mem.vol].stg = None /\ vol[g.mem.vol].stg # g.sid
  BY <1>1, <1>3, <1>4, <1>5
<1>9. g.sid # None /\ NoVolumeOf(g.sid) => NoVolumeOf(g.sid)'
  <2> SUFFICES ASSUME g.sid # None, NoVolumeOf(g.sid), NEW v \in Vol
               PROVE  vol'[v].stg # g.sid
    BY DEF NoVolumeOf
  <2> QED BY <1>1, <1>3 DEF NoVolumeOf
<1>10. Backed(g)' BY <1>6, <1>7, <1>8 DEF Backed, Prov
<1>11. Fresh(q)' => Fresh(q) /\ g.sid # None BY <1>1, <1>2, <1>7 DEF Fresh, Prov
<1>12. g.pc = "call" /\ g.sub = "createCSPVolume" => g.sid # None
  BY <1>1, <1>3, InFive, InThree DEF CentralOK, CallOK
<1>13. g.pc = "call" => VolumeCallOK(g)' BY <1>6, <1>8, <1>9, <1>12 DEF VolumeCallOK
<1> QED BY <1>1, <1>2, <1>6, <1>9, <1>10, <1>11, <1>13 DEF Backed, VolumeCallOK, NoVolumeOf, Prov

(* Steps that leave the objects and the volumes to whom they belong.       *)
LEMMA BackedQuiet ==
    ASSUME Inv5, Steady, \A v \in Vol : vol'[v].stg = vol[v].stg,
           \A q \in SR : Busy(C, q)' => /\ G(C, q)' = G(C, q) /\ req'[q].sid = req[q].sid
                                        /\ req'[q].ops = req[q].ops
    PROVE  AllBacked'
<1> SUFFICES ASSUME NEW q \in SR
             PROVE  BackedOK(q)'
  BY DEF AllBacked
<1> QED BY BackedStays DEF Steady

(* A step of centrald for r disturbs no other request.                     *)
LEMMA BackedFrame ==
    ASSUME Inv5, NEW r \in SR, NEW h, Become(C, r, h), Others(r),
           \A s \in Stg : \/ stg'[s].prov = Prov(s) /\ stg'[s].vol = stg[s].vol
                          \/ Holds(r, s) \/ Unused(s),
           \A v \in Vol : \/ vol'[v].stg = vol[v].stg
                          \/ vol'[v].stg = None /\ Holds(r, vol[v].stg)
                          \/ v \in UnusedVolumes /\ Holds(r, vol'[v].stg),
           BackedOK(r)'
    PROVE  AllBacked'
<1> SUFFICES ASSUME NEW q \in SR, q # r
             PROVE  BackedOK(q)'
  BY DEF AllBacked
<1>0. TypeOK /\ Inv3 /\ Apart /\ C \in Daemon BY InFive DEF Inv3
<1>1. G(C, q)' = G(C, q) /\ req'[q] = req[q] BY <1>0 DEF Become, G, TypeOK, Others
<1>2. G(C, q).sid \in Stg \cup {None} /\ None \notin Stg BY <1>0, CloudType
<1>3. Busy(C, q) /\ G(C, q).sid # None => Holds(q, G(C, q).sid) BY <1>0 DEF Holds
<1>4. Busy(C, q) /\ G(C, q).sid # None => ~Holds(r, G(C, q).sid)
  BY <1>0, <1>2, <1>3 DEF Apart
<1>5. \A s \in Stg : Unused(s) => G(C, q).sid # s BY <1>0 DEF Unused
<1>6. ASSUME NEW s \in Stg, Busy(C, q), G(C, q).sid = s
      PROVE  stg'[s].prov = Prov(s) /\ stg'[s].vol = stg[s].vol
  BY <1>2, <1>4, <1>5, <1>6
<1>7. ASSUME NEW v \in Vol, Busy(C, q)
      PROVE  \/ vol'[v].stg = vol[v].stg
             \/ vol'[v].stg = None /\ vol[v].stg # G(C, q).sid
             \/ v \in UnusedVolumes /\ vol'[v].stg # G(C, q).sid
  BY <1>4, <1>7 DEF Holds
<1> QED BY <1>1, <1>6, <1>7, BackedStays

(* The request itself: a volume may be unknown to it only while it is not  *)
(* linked to its storage.                                                  *)
LEMMA BackedGo ==
    ASSUME Inv5, NEW r \in SR, Busy(C, r), NEW h, Become(C, r, h),
           req'[r].ops = req[r].ops, req'[r].sid \in {req[r].sid, G(C, r).sid},
           h.sid = G(C, r).sid,
           h.pc # "idle" /\ ~h.retry => Backed(h)' /\ (h.pc = "call" => VolumeCallOK(h)'),
           Fresh(r) => \A v \in Vol : vol'[v].stg \in {vol[v].stg, None}
    PROVE  BackedOK(r)'
<1> SUFFICES ASSUME Busy(C, r)'
             PROVE  /\ Backed(G(C, r))' /\ (Fresh(r)' => NoVolumeOf(G(C, r).sid)')
                    /\ G(C, r)'.pc = "call" => VolumeCallOK(G(C, r))'
  BY DEF BackedOK
<1>0. TypeOK /\ Inv3 /\ C \in Daemon BY InFive
<1>1. G(C, r)' = h BY <1>0 DEF Become, G, TypeOK
<1>2. h.pc # "idle" /\ ~h.retry BY <1>1 DEF Busy, Running
<1>3. G(C, r).sid = req[r].sid \/ Fresh(r) BY <1>0, InThree DEF SidOK
<1>a. PICK g : g = G(C, r) OBVIOUS
<1>4. Fresh(r) => NoVolumeOf(g.sid) /\ g.sid # None
  BY <1>a, InFive DEF BackedOK, Fresh
<1>5. Fresh(r) => NoVolumeOf(g.sid)' BY <1>4 DEF NoVolumeOf
<1>6. Fresh(r)' => Fresh(r) BY <1>1, <1>3 DEF Fresh
<1>7. Backed(h)' /\ (h.pc = "call" => VolumeCallOK(h)') BY <1>2
<1>8. Backed(G(C, r))' /\ (h.pc = "call" => VolumeCallOK(G(C, r))')
  BY <1>1, <1>7 DEF Backed, VolumeCallOK, NoVolumeOf, Prov
<1>9. Fresh(r)' => NoVolumeOf(G(C, r).sid)' BY <1>1, <1>a, <1>5, <1>6 DEF NoVolumeOf
<1> QED BY <1>1, <1>8, <1>9

\* Deleting a volume, or the tag of one its storage names, keeps this layer.
LEMMA CloudStays ==
    ASSUME Inv5, Steady,
           \A v \in Vol : /\ vol'[v].stg \in {vol[v].stg, None}
                          /\ vol'[v].stg = None \/ vol'[v].tag = vol[v].tag \/ Named(v),
           \A q \in SR : Active(q)' =>
               \/ Active(q) /\ req'[q].sid = req[q].sid
               \/ req'[q].sid = None
               \/ NoVolumeOf(req'[q].sid)
               \/ req'[q].sid \in Stg /\ Prov(req'[q].sid) # "PROVISIONING"
    PROVE  Stored' /\ Clouded'
<1>0. TypeOK BY DEF Inv5, Inv4, Inv3, Inv2, Inv1
<1>1. ASSUME NEW s \in Stg
      PROVE  StorageOK(s)'
  <2>1. StorageOK(s) /\ stg'[s].prov = Prov(s) /\ stg'[s].vol = stg[s].vol
    BY DEF Inv5, Stored, Steady
  <2>2. stg[s].vol \in Vol \cup {None} BY <1>0 DEF TypeOK, Storage
  <2> QED BY <2>1, <2>2 DEF StorageOK, Prov
<1>2. ASSUME NEW v \in Vol, vol'[v].stg # None
      PROVE  VolumeOK(v)'
  <2>0. PICK s : s = vol[v].stg OBVIOUS
  <2>1. VolumeOK(v) /\ s \in Stg BY <1>0, <1>2, <2>0 DEF Inv5, Clouded, TypeOK
  <2>2. s \in Stg /\ stg'[s].prov = Prov(s) /\ stg'[s].vol = stg[s].vol
    BY <2>1 DEF Steady
  <2>3. vol'[v].stg = s /\ (vol'[v].tag = vol[v].tag \/ (stg[s].vol = v /\ Prov(s) # "PROVISIONING"))
    BY <1>2, <2>0 DEF Named
  <2>4. ASSUME stg'[s].prov = "PROVISIONING", NEW q \in SR, Active(q)', req'[q].sid = s
        PROVE  vol'[v].tag = q
    <3>1. Active(q) /\ req[q].sid = s BY <1>2, <2>0, <2>2, <2>3, <2>4 DEF NoVolumeOf
    <3> QED BY <1>2, <2>0, <2>1, <2>2, <2>3, <2>4, <3>1 DEF VolumeOK
  <2>5. \A w \in Vol : vol'[w].stg = s => w = v
    BY <1>2, <2>0, <2>1, <2>3 DEF VolumeOK
  <2>6. /\ stg'[s].prov = "PROVISIONED" => stg'[s].vol = v
        /\ stg'[s].vol = v \/ vol'[v].tag # None
    BY <1>2, <2>0, <2>1, <2>2, <2>3 DEF VolumeOK, Prov
  <2> QED BY <2>3, <2>4, <2>5, <2>6 DEF VolumeOK, Prov
<1> QED BY <1>1, <1>2 DEF Stored, Clouded, VolumeOK

(* Only setProvisioned writes the volume of a Storage object.              *)
LEMMA UpdateKeepsVolume ==
    ASSUME TypeOK, NEW d, NEW r, NEW new \in Storage, NEW ok, NEW failed,
           StorageUpdate(d, r, new, ok, failed), G(d, r).sub # "setProvisioned"
    PROVE  \A s \in Stg : stg'[s].vol = stg[s].vol
<1> DEFINE g == G(d, r)
           m == [new EXCEPT !.vol = stg[g.sid].vol]
<1>1. UNCHANGED stg \/ stg' = [stg EXCEPT ![g.sid] = m] BY DEF StorageUpdate
<1>2. m.vol = stg[g.sid].vol BY DEF Storage
<1> HIDE DEF m, g
<1> QED BY <1>1, <1>2 DEF TypeOK

(* The handlers of agentd write neither the volume nor the stage of a      *)
(* Storage object.                                                         *)
LEMMA AgentSteady ==
    ASSUME Inv5, NEW n \in Node, NEW r \in SR, Agent(n, r)
    PROVE  Steady /\ UNCHANGED vol
<1> DEFINE g == G(n, r)
<1>0. /\ Inv4 /\ Inv3 /\ Inv1 /\ TypeOK /\ RestOK(g)
      /\ n \in Daemon /\ g \in Goroutines /\ g.mem \in Storage
  BY InFive, InThree, CentralIs DEF Resting, Goroutines
<1>1. CASE AgentDispatch(n, r) \/ Animate(n, r) \/ HandBack(n, r)
  <2>1. UNCHANGED <<stg, vol>>
    BY <1>0, <1>1, ShapeAgentDispatch, ShapeNext, ShapeTurn, ShapeTerminal, ShapeHandBack DEF Animate
  <2> QED BY <2>1 DEF Steady, Prov
<1>2. CASE ResetDevice(n, r)
  <2> DEFINE dev == IF Has(r, "CLOSE") THEN "OPEN" ELSE "UNUSED"
             new == [g.mem EXCEPT !.dev = dev]
             h == [g EXCEPT !.pc = "final"]
  <2>1. StorageUpdate(n, r, new, h, h) /\ g.pc = "reset" /\ UNCHANGED vol
    BY <1>2 DEF ResetDevice
  <2>2. dev \in {"OPEN", "UNUSED"} OBVIOUS
  <2>3. g.sub # "setProvisioned" BY <1>0, <2>1 DEF RestOK, None
  <2>4. \A s \in Stg : stg'[s].prov = Prov(s)
    BY <1>0, <1>2, ResetKeeps DEF AgentKeeps
  <2> HIDE DEF dev, g, h
  <2>5. new \in Storage BY <1>0, <2>2 DEF Storage
  <2> HIDE DEF new
  <2>6. \A s \in Stg : stg'[s].vol = stg[s].vol
    BY <1>0, <2>1, <2>3, <2>5, UpdateKeepsVolume DEF g
  <2> QED BY <2>1, <2>4, <2>6 DEF Steady
<1>3. CASE DeviceStep(n, r)
  <2>1. \A s \in Stg : stg'[s].prov = Prov(s)
    BY <1>0, <1>3, DeviceKeeps DEF AgentKeeps
  <2>2. UNCHANGED vol
    BY <1>3 DEF DeviceStep, FormatStorage, UseStorage, CloseStorage, SetDeviceState, CallDevice
  <2>3. ASSUME NEW sub, NEW dev \in {"FORMATTING", "OPENING", "CLOSING"}, NEW next,
               SetDeviceState(n, r, sub, dev, next), sub # "setProvisioned"
        PROVE  \A s \in Stg : stg'[s].vol = stg[s].vol
    <3> DEFINE new == [g.mem EXCEPT !.dev = dev]
    <3>1. StorageUpdate(n, r, new, Call(g, next), Later(n, r, g)) /\ g.sub # "setProvisioned"
      BY <2>3 DEF SetDeviceState, InSub
    <3> HIDE DEF g
    <3>2. new \in Storage BY <1>0 DEF Storage
    <3> HIDE DEF new
    <3> QED BY <1>0, <3>1, <3>2, UpdateKeepsVolume DEF g
  <2>4. ASSUME NEW sub, NEW new \in Storage, NEW worst, CallDevice(n, r, sub, new, worst),
               sub # "setProvisioned"
        PROVE  \A s \in Stg : stg'[s].vol = stg[s].vol
    <3>1. \/ StorageUpdate(n, r, new, Return(n, r, g), Later(n, r, g))
          \/ UNCHANGED stg
      BY <2>4 DEF CallDevice
    <3>2. G(n, r).sub # "setProvisioned" BY <2>4 DEF CallDevice, InSub
    <3> QED BY <1>0, <3>1, <3>2, UpdateKeepsVolume
  <2>5. CASE FormatStorage(n, r)
    <3> DEFINE dev == IF Has(r, "USE") THEN "OPENING" ELSE "UNUSED"
               o == [g.mem EXCEPT !.media = "FORMATTED", !.dev = dev]
               w == [g.mem EXCEPT !.media = "UNFORMATTED"]
    <3>1. \/ SetDeviceState(n, r, "setFormatting", "FORMATTING", "formatDevice")
          \/ CallDevice(n, r, "formatDevice", o, w)
      BY <2>5 DEF FormatStorage
    <3>2. dev \in {"OPENING", "UNUSED"} OBVIOUS
    <3> HIDE DEF dev, g
    <3>3. o \in Storage BY <1>0, <3>2 DEF Storage
    <3> HIDE DEF o, w
    <3> QED BY <2>1, <2>2, <2>3, <2>4, <3>1, <3>3 DEF Steady
  <2>6. CASE UseStorage(n, r)
    <3> DEFINE o == [g.mem EXCEPT !.dev = "OPEN"]
    <3>1. \/ SetDeviceState(n, r, "setOpening", "OPENING", "useDevice")
          \/ CallDevice(n, r, "useDevice", o, g.mem)
      BY <2>6 DEF UseStorage
    <3> HIDE DEF g
    <3>3. o \in Storage BY <1>0 DEF Storage
    <3> HIDE DEF o
    <3> QED BY <2>1, <2>2, <2>3, <2>4, <3>1, <3>3 DEF Steady
  <2>7. CASE CloseStorage(n, r)
    <3> DEFINE o == [g.mem EXCEPT !.dev = "UNUSED"]
    <3>1. \/ SetDeviceState(n, r, "setClosing", "CLOSING", "closeDevice")
          \/ CallDevice(n, r, "closeDevice", o, g.mem)
      BY <2>7 DEF CloseStorage
    <3> HIDE DEF g
    <3>3. o \in Storage BY <1>0 DEF Storage
    <3> HIDE DEF o
    <3> QED BY <2>1, <2>2, <2>3, <2>4, <3>1, <3>3 DEF Steady
  <2> QED BY <1>3, <2>5, <2>6, <2>7 DEF DeviceStep
<1> QED BY <1>1, <1>2, <1>3 DEF Agent, DeviceStep

(* Every step of agentd ends a handler without a sub-state.                *)
LEMMA RestAgent ==
    ASSUME Inv5, NEW n \in Node, NEW r \in SR, Agent(n, r)
    PROVE  Resting'
<1>0. /\ Inv4 /\ Inv3 /\ Inv1 /\ TypeOK /\ Resting /\ RestOK(G(n, r)) /\ n \in Daemon
      /\ RestOK(Idle)
  BY InFive, InThree, CentralIs DEF Resting, RestOK, Idle
<1>1. CASE AgentDispatch(n, r)
  <2>1. PICK h, todo, err : Goes(n, r, h) /\ Started(r, Fetched(req[r].sid), todo, <<>>, err, h)
    BY <1>0, <1>1, ShapeAgentDispatch
  <2>2. Become(n, r, h) /\ RestOK(h) BY <2>1 DEF Goes, Started, RestOK
  <2> QED BY <1>0, <2>2, RestFrame
<1>2. CASE HandBack(n, r)
  <2>1. PICK h : Become(n, r, h) /\ (h = Idle \/ SameWork(G(n, r), h))
    BY <1>0, <1>2, ShapeHandBack DEF Goes
  <2>2. G(n, r).pc = "handback" BY <1>0, <1>2, ShapeHandBack
  <2>3. RestOK(h) BY <1>0, <2>1, <2>2 DEF SameWork, RestOK
  <2> QED BY <1>0, <2>1, <2>3, RestFrame
<1>3. CASE ResetDevice(n, r)
  <2>1. PICK h : Become(n, r, h) /\ SameWork(G(n, r), h)
    BY <1>0, <1>3, ShapeReset DEF Goes
  <2>2. G(n, r).pc = "reset" BY <1>0, <1>3, ShapeReset
  <2>3. RestOK(h) BY <1>0, <2>1, <2>2 DEF SameWork, RestOK
  <2> QED BY <1>0, <2>1, <2>3, RestFrame
<1> QED BY <1>0, <1>1, <1>2, <1>3, RestAnimate, RestDevice DEF Agent, DeviceStep

(* agentd does not write which storage a request works on, and does not    *)
(* bring back one that has ended.                                          *)
LEMMA AgentLinks ==
    ASSUME Inv5, NEW n \in Node, NEW r \in SR, Agent(n, r), NEW q \in SR
    PROVE  /\ G(C, q)' = G(C, q)
           /\ req'[q].ops = req[q].ops /\ req'[q].sid = req[q].sid /\ (Active(q)' => Active(q))
<1>0. /\ Inv4 /\ Inv3 /\ Inv1 /\ TypeOK /\ n \in Daemon /\ n # C /\ C \in Daemon
  BY InFive, CentralIs DEF C
<1>1. PICK h : Become(n, r, h)
  <2>1. CASE ResetDevice(n, r) \/ DeviceStep(n, r)
    BY <1>0, <2>1, ResetKeeps, DeviceKeeps DEF AgentKeeps
  <2> QED BY <1>0, <2>1, ShapeAgentDispatch, ShapeAnimate, ShapeHandBack DEF Goes, Agent, DeviceStep
<1>2. G(C, q)' = G(C, q) BY <1>0, <1>1 DEF Become, G, TypeOK
<1>3. CASE UNCHANGED req BY <1>2, <1>3 DEF Active
<1>4. ASSUME NEW st, Writes(n, r, G(n, r), st), Active(r) \/ st \in Terminal
      PROVE  req'[q].ops = req[q].ops /\ req'[q].sid = req[q].sid /\ (Active(q)' => Active(q))
  <2>1. Others(r) /\ req'[r].st = st /\ req'[r].ops = req[r].ops /\ req'[r].sid = req[r].sid
    BY <1>0, <1>4, WrittenIs
  <2> QED BY <1>4, <2>1 DEF Others, Active
<1>5. CASE NextState(n, r)
  <2>1. PICK h1 : NextIs(n, r, h1) BY <1>0, <1>5, ShapeNext
  <2>2. UNCHANGED req \/ (Active(r) /\ Writes(n, r, G(n, r), Head(G(n, r).todo)))
    BY <2>1 DEF NextIs, Writes, Writable
  <2> QED BY <1>2, <1>3, <1>4, <2>2
<1>6. CASE EnterTerminal(n, r)
  <2>1. UNCHANGED req \/ \E st \in {"FAILED", "SUCCEEDED"} : EndsAs(n, r, G(n, r), st)
    BY <1>0, <1>6, ShapeTerminal
  <2>2. UNCHANGED req \/ \E st \in Terminal : Writes(n, r, G(n, r), st)
    BY <2>1 DEF EndsAs, Writes, Terminal
  <2> QED BY <1>2, <1>3, <1>4, <2>2
<1>7. CASE HandBack(n, r)
  <2>1. UNCHANGED req \/ (Active(r) /\ req' = [req EXCEPT ![r].st = "UNDO_ATTACHING"])
    BY <1>0, <1>7, ShapeHandBack
  <2>2. CASE Active(r) /\ req' = [req EXCEPT ![r].st = "UNDO_ATTACHING"]
    BY <1>0, <1>2, <2>2 DEF TypeOK, Requests, Active
  <2> QED BY <1>3, <2>1, <2>2
<1>8. CASE AgentDispatch(n, r) \/ Turn(n, r) \/ ResetDevice(n, r) \/ DeviceStep(n, r)
  <2>1. UNCHANGED req
    BY <1>0, <1>8, ShapeAgentDispatch, ShapeTurn, ShapeReset, DeviceKeeps
  <2> QED BY <1>3, <2>1
<1> QED BY <1>2, <1>5, <1>6, <1>7, <1>8 DEF Agent, Animate, DeviceStep

\* agentd writes neither volumes nor which volume a storage has.
LEMMA CloudAgent ==
    ASSUME Inv5, NEW n \in Node, NEW r \in SR, Agent(n, r)
    PROVE  AllBacked' /\ Stored' /\ Clouded'
<1>1. Steady /\ \A v \in Vol : vol'[v].stg = vol[v].stg /\ vol'[v].tag = vol[v].tag
  BY AgentSteady
<1>2. \A q \in SR : /\ G(C, q)' = G(C, q)
                    /\ req'[q].ops = req[q].ops /\ req'[q].sid = req[q].sid /\ (Active(q)' => Active(q))
  BY AgentLinks
<1>3. AllBacked' BY <1>1, <1>2, BackedQuiet
<1> QED BY <1>1, <1>2, <1>3, CloudStays

(* A new request works on storage that is not being provisioned.           *)
LEMMA CloudCreate ==
    ASSUME Inv5, NEW r \in SR, StorageRequestCreate(r)
    PROVE  Resting' /\ AllBacked' /\ Stored' /\ Clouded'
<1>0. TypeOK /\ Inv3 /\ Inv1 /\ Resting BY InFive
<1>1. /\ req[r].st = None /\ UNCHANGED <<stg, vol, go>>
      /\ \E q : \E ops \in Plans : NewRequest(r, ops, q)
  BY CreateIs
<1>2. PICK new : /\ req' = [req EXCEPT ![r] = new]
                 /\ \/ new.sid = None
                    \/ new.sid \in Stg /\ stg[new.sid].prov \in {"PROVISIONED", "UNPROVISIONING"}
  BY <1>1 DEF NewRequest
<1>3. \A q \in SR : req'[q] = IF q = r THEN new ELSE req[q] BY <1>0, <1>2 DEF TypeOK
<1>4. \A d \in Daemon, q \in SR : G(d, q)' = G(d, q) BY <1>1 DEF G
<1>5. ~Running(C, r) /\ C \in Daemon BY <1>0, <1>1, InThree
<1>6. Steady /\ \A v \in Vol : vol'[v].stg = vol[v].stg /\ vol'[v].tag = vol[v].tag
  BY <1>1 DEF Steady, Prov
<1>7. Resting'
  <2>1. \A n \in Node : n \in Daemon BY CentralIs
  <2> QED BY <1>0, <1>4, <2>1, RestSame
<1>8. AllBacked'
  <2>1. \A q \in SR : Busy(C, q)' => /\ G(C, q)' = G(C, q) /\ req'[q].sid = req[q].sid
                                     /\ req'[q].ops = req[q].ops
    BY <1>3, <1>4, <1>5 DEF Busy, Running
  <2> QED BY <1>6, <2>1, BackedQuiet
<1>9. Stored' /\ Clouded'
  <2>1. \A q \in SR : Active(q)' =>
            \/ Active(q) /\ req'[q].sid = req[q].sid
            \/ req'[q].sid = None
            \/ NoVolumeOf(req'[q].sid)
            \/ req'[q].sid \in Stg /\ Prov(req'[q].sid) # "PROVISIONING"
    BY <1>2, <1>3 DEF Active, Prov
  <2> QED BY <1>6, <2>1, CloudStays
<1> QED BY <1>7, <1>8, <1>9

(* Steps after which goroutines of centrald go on as they were, or not at  *)
(* all, and requests work on the same storage, or on none.                 *)
LEMMA CloudStill ==
    ASSUME Inv5, Steady, UNCHANGED vol,
           \A q \in SR : /\ req'[q].ops = req[q].ops /\ req'[q].st = req[q].st
                         /\ \/ req'[q].sid = req[q].sid
                            \/ req'[q].sid = None /\ ~Running(C, q)
                         /\ G(C, q)' = G(C, q) \/ G(C, q)' = Idle
    PROVE  AllBacked' /\ Stored' /\ Clouded'
<1>1. \A v \in Vol : vol'[v].stg = vol[v].stg /\ vol'[v].tag = vol[v].tag OBVIOUS
<1>2. \A q \in SR : Busy(C, q)' => /\ G(C, q)' = G(C, q) /\ req'[q].sid = req[q].sid
                                   /\ req'[q].ops = req[q].ops
  BY DEF Busy, Running, Idle
<1>3. AllBacked' BY <1>1, <1>2, BackedQuiet
<1>4. \A q \in SR : Active(q)' =>
          \/ Active(q) /\ req'[q].sid = req[q].sid
          \/ req'[q].sid = None
  BY DEF Active
<1> QED BY <1>1, <1>3, <1>4, CloudStays

(* The startup cleanup gives up volumes that no storage has, and the tags  *)
(* of those that a storage has.                                            *)
LEMMA CloudOrphans ==
    ASSUME Inv5, releaseOrphanedCSPVolumes
    PROVE  AllBacked' /\ Stored' /\ Clouded'
<1>0. TypeOK /\ Inv1 /\ Clouded BY DEF Inv5, Inv4, Inv3, Inv2, Inv1
<1>1. cleanup = "volumes" /\ UNCHANGED <<req, stg, go>>
  BY DEF releaseOrphanedCSPVolumes
<1>2. \A q \in SR : ~Running(C, q) BY <1>0, <1>1 DEF Inv1, Idled
<1>3. AllBacked' BY <1>1, <1>2 DEF AllBacked, BackedOK, Busy, Running, G
<1>4. PICK kept \in SUBSET Tagged :
          vol' = [v \in Vol |->
                IF v \in kept \/ v \notin Tagged THEN vol[v]
                ELSE IF v \in Orphans THEN IF vol[v].at = None THEN NoVolume ELSE vol[v]
                ELSE IF ~Active(vol[v].tag) THEN [vol[v] EXCEPT !.tag = None]
                ELSE vol[v]]
  BY DEF releaseOrphanedCSPVolumes
<1>5. ASSUME NEW v \in Vol
      PROVE  /\ vol'[v].stg \in {vol[v].stg, None}
             /\ vol'[v].stg = None \/ vol'[v].tag = vol[v].tag \/ Named(v)
  <2>1. \/ vol'[v] = vol[v]
        \/ vol'[v] = NoVolume
        \/ v \in Tagged /\ v \notin Orphans /\ vol'[v] = [vol[v] EXCEPT !.tag = None]
    BY <1>4
  <2>2. CASE v \in Tagged /\ v \notin Orphans /\ vol'[v] = [vol[v] EXCEPT !.tag = None]
    <3>1. vol[v].stg # None /\ Prov(vol[v].stg) = "PROVISIONED"
      BY <2>2 DEF Tagged, Orphans, Prov
    <3>2. Named(v) BY <1>0, <3>1 DEF Clouded, VolumeOK, Named
    <3>3. vol'[v].stg = vol[v].stg BY <1>0, <2>2 DEF TypeOK
    <3> QED BY <3>2, <3>3
  <2> QED BY <2>1, <2>2 DEF NoVolume
<1>6. Steady /\ \A q \in SR : Active(q)' => Active(q) /\ req'[q].sid = req[q].sid
  BY <1>1 DEF Steady, Prov, Active
<1> QED BY <1>3, <1>5, <1>6, CloudStays

(* The storage that is marked or deleted by the startup cleanup names no   *)
(* volume.                                                                 *)
LEMMA CloudGives ==
    ASSUME Inv5, NEW s \in Stg, NEW o, o.prov \notin {"PROVISIONING", "PROVISIONED"}, o.vol = None,
           stg' = [stg EXCEPT ![s] = o], stg[s].vol = None, UNCHANGED <<vol, req, go>>,
           \A q \in SR : ~Running(C, q)
    PROVE  AllBacked' /\ Stored' /\ Clouded'
<1>0. TypeOK /\ Clouded /\ Stored BY DEF Inv5, Inv4, Inv3, Inv2, Inv1
<1>1. AllBacked' BY DEF AllBacked, BackedOK, Busy, Running, G
<1>2. \A x \in Stg : stg'[x] = IF x = s THEN o ELSE stg[x] BY <1>0 DEF TypeOK
<1>3. Stored' BY <1>0, <1>2 DEF Stored, StorageOK, Prov
<1>4. ASSUME NEW v \in Vol, vol[v].stg # None
      PROVE  VolumeOK(v)'
  <2>1. VolumeOK(v) /\ vol[v].stg \in Stg /\ v # None
    BY <1>0, <1>4, SizesAssumption DEF Clouded, TypeOK
  <2> QED BY <1>2, <1>4, <2>1 DEF VolumeOK, Prov, Active
<1> QED BY <1>1, <1>3, <1>4 DEF Clouded, VolumeOK

\* Restarts, the startup cleanup and time keep this layer.
LEMMA CloudOthers ==
    ASSUME Inv5,
           \/ Cleanup \/ CrashCentrald \/ (\E n \in Node : CrashAgentd(n))
           \/ (\E r \in SR : Expire(r)) \/ UNCHANGED vars
    PROVE  Resting' /\ AllBacked' /\ Stored' /\ Clouded'
<1>0. /\ TypeOK /\ Resting /\ Inv1 /\ Stored /\ C \in Daemon /\ \A n \in Node : n \in Daemon
  BY CentralIs DEF Inv5, Inv4, Inv3, Inv2, Inv1, C
<1>1. /\ \A x \in SR : /\ req'[x].ops = req[x].ops /\ req'[x].st = req[x].st
                       /\ req'[x].sid \in {req[x].sid, None}
      /\ \A e \in Daemon, x \in SR : G(e, x)' = G(e, x) \/ G(e, x)' = Idle
  BY <1>0, OthersAre
<1>2. Resting' BY <1>0, <1>1, RestSame
<1>3. ASSUME Steady, UNCHANGED vol, UNCHANGED req \/ \A q \in SR : ~Running(C, q)
      PROVE  AllBacked' /\ Stored' /\ Clouded'
  BY <1>0, <1>1, <1>3, CloudStill
<1>4. CASE releaseOrphanedCSPVolumes BY <1>2, <1>4, CloudOrphans
<1>5. CASE CrashCentrald \/ (\E r \in SR : Expire(r)) \/ UNCHANGED vars
  <2>1. UNCHANGED <<req, stg, vol>> BY <1>5 DEF CrashCentrald, Expire, vars
  <2>2. Steady BY <2>1 DEF Steady, Prov
  <2> QED BY <1>2, <1>3, <2>1, <2>2
<1>6. CASE \E n \in Node : CrashAgentd(n)
  <2>1. PICK n \in Node : CrashAgentd(n) BY <1>6
  <2>2. PICK bad \in SUBSET Stg : stg' = [s \in Stg |-> Recovered(n, bad, s)]
    BY <2>1 DEF CrashAgentd
  <2>3. ASSUME NEW s \in Stg
        PROVE  Recovered(n, bad, s).prov = stg[s].prov /\ Recovered(n, bad, s).vol = stg[s].vol
    <3>1. stg[s] \in Storage BY <1>0 DEF TypeOK
    <3> QED BY <3>1 DEF Recovered, Storage
  <2>4. Steady /\ UNCHANGED <<req, vol>>
    BY <2>1, <2>2, <2>3 DEF Steady, Prov, CrashAgentd
  <2> QED BY <1>2, <1>3, <2>4
<1>7. CASE makeProvisioningStorageUnprovisioned \/ deleteUnprovisionedStorage
  <2>1. UNCHANGED <<vol, go>> /\ cleanup # "done"
    BY <1>7 DEF makeProvisioningStorageUnprovisioned, deleteUnprovisionedStorage
  <2>2. \A q \in SR : ~Running(C, q) BY <1>0, <2>1 DEF Inv1, Idled
  <2>3. \/ UNCHANGED stg
        \/ UNCHANGED req /\ \E s \in Stg : Prov(s) = "PROVISIONING" /\ stg' = [stg EXCEPT ![s].prov = "UNPROVISIONED"]
        \/ UNCHANGED req /\ \E s \in Stg : Prov(s) = "UNPROVISIONED" /\ stg' = [stg EXCEPT ![s] = NoStorage]
    BY <1>7 DEF makeProvisioningStorageUnprovisioned, deleteUnprovisionedStorage, Prov
  <2>4. CASE UNCHANGED stg
    <3>1. Steady BY <2>4 DEF Steady, Prov
    <3> QED BY <1>2, <1>3, <2>1, <2>2, <3>1
  <2>5. CASE UNCHANGED req /\ \E s \in Stg : Prov(s) = "PROVISIONING" /\ stg' = [stg EXCEPT ![s].prov = "UNPROVISIONED"]
    <3>1. PICK s \in Stg : Prov(s) = "PROVISIONING" /\ stg' = [stg EXCEPT ![s].prov = "UNPROVISIONED"]
      BY <2>5
    <3>2. stg[s].vol = None BY <1>0, <3>1 DEF Stored, StorageOK
    <3>3. PICK o : o = [stg[s] EXCEPT !.prov = "UNPROVISIONED"] OBVIOUS
    <3>4. o.prov = "UNPROVISIONED" /\ o.vol = None
      BY <1>0, <3>2, <3>3 DEF TypeOK, Storage
    <3>5. stg' = [stg EXCEPT ![s] = o] BY <3>1, <3>3
    <3> QED BY <1>2, <2>1, <2>2, <2>5, <3>2, <3>4, <3>5, CloudGives
  <2>6. CASE UNCHANGED req /\ \E s \in Stg : Prov(s) = "UNPROVISIONED" /\ stg' = [stg EXCEPT ![s] = NoStorage]
    <3>1. PICK s \in Stg : Prov(s) = "UNPROVISIONED" /\ stg' = [stg EXCEPT ![s] = NoStorage]
      BY <2>6
    <3>2. stg[s].vol = None BY <1>0, <3>1 DEF Stored, StorageOK
    <3>3. PICK o : o = NoStorage OBVIOUS
    <3>4. o.prov \notin {"PROVISIONING", "PROVISIONED"} /\ o.vol = None
      BY <3>3 DEF NoStorage, None
    <3> QED BY <1>2, <2>1, <2>2, <2>6, <3>1, <3>2, <3>3, <3>4, CloudGives
  <2> QED BY <2>3, <2>4, <2>5, <2>6
<1> QED BY <1>4, <1>5, <1>6, <1>7 DEF Cleanup

(* A goroutine that works on storage its request is not linked to has not  *)
(* created a volume.                                                       *)
LEMMA LinkedOrFresh ==
    ASSUME Inv5, NEW r \in SR, Running(C, r), ~G(C, r).retry
    PROVE  G(C, r).sid = req[r].sid \/ NoVolumeOf(G(C, r).sid)
<1>1. SidOK(C, r) /\ BackedOK(r) BY InFive, InThree
<1> QED BY <1>1 DEF SidOK, BackedOK, Busy, Moves

(* A step of centrald for r that leaves the Storage objects' stages and    *)
(* volumes alone.                                                          *)
LEMMA CloudStep ==
    ASSUME Inv5, NEW r \in SR, NEW h, Become(C, r, h), Others(r), Running(C, r),
           req'[r].ops = req[r].ops, req'[r].sid \in {req[r].sid, G(C, r).sid},
           Active(r)' => Active(r),
           ~G(C, r).retry \/ ((h.pc = "idle" \/ h.retry) /\ UNCHANGED req),
           Steady,
           \A v \in Vol : /\ vol'[v].stg = vol[v].stg
                             \/ (vol'[v].stg = None /\ Holds(r, vol[v].stg))
                          /\ vol'[v].stg = None \/ vol'[v].tag = vol[v].tag \/ Named(v),
           ~Moves(r) /\ h.pc # "idle" /\ ~h.retry =>
               h.sid = G(C, r).sid /\ Backed(h)' /\ (h.pc = "call" => VolumeCallOK(h)')
    PROVE  AllBacked' /\ Stored' /\ Clouded'
<1>0. TypeOK /\ C \in Daemon BY InFive
<1>1. G(C, r)' = h /\ (Moves(r)' <=> Moves(r))
  BY <1>0 DEF Become, G, TypeOK, Moves, Has
<1>2. BackedOK(r)'
  <2>1. CASE Moves(r) \/ h.pc = "idle" \/ h.retry
    BY <1>1, <2>1 DEF BackedOK, Busy, Running
  <2>2. CASE ~Moves(r) /\ h.pc # "idle" /\ ~h.retry
    <3>1. Busy(C, r) BY <2>2 DEF Busy
    <3>2. \A v \in Vol : vol'[v].stg \in {vol[v].stg, None} OBVIOUS
    <3> QED BY <2>2, <3>1, <3>2, BackedGo
  <2> QED BY <2>1, <2>2
<1>3. AllBacked' BY <1>2, BackedFrame DEF Steady
<1>4. \A v \in Vol : /\ vol'[v].stg \in {vol[v].stg, None}
                     /\ vol'[v].stg = None \/ vol'[v].tag = vol[v].tag \/ Named(v)
  OBVIOUS
<1>5. \A q \in SR : Active(q)' =>
          \/ Active(q) /\ req'[q].sid = req[q].sid
          \/ NoVolumeOf(req'[q].sid)
  <2> SUFFICES ASSUME NEW q \in SR, Active(q)'
               PROVE  \/ Active(q) /\ req'[q].sid = req[q].sid
                      \/ NoVolumeOf(req'[q].sid)
    OBVIOUS
  <2>1. CASE q # r BY <2>1 DEF Others, Active
  <2>2. CASE q = r BY <2>2, LinkedOrFresh
  <2> QED BY <2>1, <2>2
<1> QED BY <1>3, <1>4, <1>5, CloudStays

(* Copies keep what is so while objects and volumes do not change.         *)
LEMMA BackedCopy ==
    ASSUME Inv5, NEW r \in SR, Busy(C, r), NEW h, h.sid = G(C, r).sid, h.mem = G(C, r).mem,
           UNCHANGED <<stg, vol>>
    PROVE  Backed(h)'
<1>1. Backed(G(C, r)) BY InFive DEF BackedOK
<1> QED BY <1>1 DEF Backed, Prov

\* dispatchRequests of centrald fetches the Storage object, and its volume with
\* it.
LEMMA CloudDispatch ==
    ASSUME Inv5, NEW r \in SR, CentralDispatch(r)
    PROVE  AllBacked' /\ Stored' /\ Clouded'
<1>0. Inv1 /\ TypeOK /\ C \in Daemon /\ Stored BY InFive
<1>1. PICK h : Become(C, r, h) /\ CentralStarted(r, h)
  BY <1>0, ShapeCentralDispatch DEF Goes
<1>2. UNCHANGED <<req, stg, vol>> BY <1>0, ShapeCentralDispatch
<1>3. h.sid = req[r].sid /\ h.mem = Fetched(req[r].sid) /\ h.pc # "call"
  BY <1>1 DEF CentralStarted, Started
<1>4. h.sid \in Stg \cup {None} /\ None \notin Stg
  BY <1>0, <1>3, SizesAssumption DEF TypeOK, Requests
<1>5. Backed(h)
  <2>1. CASE Exists(h.sid)
    BY <1>0, <1>3, <1>4, <2>1 DEF Backed, Fetched, Exists, Stored, StorageOK
  <2>2. CASE ~Exists(h.sid)
    <3>1. h.mem.vol = None BY <1>3, <2>2 DEF Fetched, NoStorage
    <3>2. h.sid # None => Prov(h.sid) = None BY <2>2 DEF Exists, Prov
    <3>3. h.sid # None => stg[h.sid].vol = None
      BY <1>0, <1>4, <3>2 DEF Stored, StorageOK
    <3> QED BY <3>1, <3>3 DEF Backed
  <2> QED BY <2>1, <2>2
<1>6. G(C, r)' = h BY <1>0, <1>1 DEF Become, G, TypeOK
<1>7. BackedOK(r)'
  <2>1. ~Fresh(r)' BY <1>2, <1>3, <1>6 DEF Fresh
  <2>2. Backed(G(C, r))' BY <1>2, <1>5, <1>6 DEF Backed, Prov
  <2> QED BY <1>3, <1>6, <2>1, <2>2 DEF BackedOK
<1>8. Steady /\ Others(r) /\ \A v \in Vol : vol'[v].stg = vol[v].stg /\ vol'[v].tag = vol[v].tag
  BY <1>2 DEF Steady, Others, Prov
<1>9. AllBacked' BY <1>1, <1>7, <1>8, BackedFrame DEF Steady
<1>10. \A q \in SR : Active(q)' => Active(q) /\ req'[q].sid = req[q].sid
  BY <1>2 DEF Active
<1> QED BY <1>8, <1>9, <1>10, CloudStays

\* The loops of requestAnimator keep this layer.
LEMMA CloudAnimate ==
    ASSUME Inv5, NEW r \in SR, Animate(C, r)
    PROVE  AllBacked' /\ Stored' /\ Clouded'
<1> DEFINE g == G(C, r)
<1>0. Inv1 /\ Inv3 /\ TypeOK /\ C \in Daemon /\ g \in Goroutines BY InFive
<1>1. UNCHANGED <<stg, vol>> /\ KeepsRequests /\ Running(C, r)
  BY <1>0, ShapeNext, ShapeTurn, ShapeTerminal DEF Animate
<1>2. /\ Steady /\ req'[r].ops = req[r].ops
      /\ \A v \in Vol : vol'[v].stg = vol[v].stg /\ vol'[v].tag = vol[v].tag
  BY <1>1 DEF Steady, Prov, KeepsRequests
<1>3. ASSUME NEW st, Writes(C, r, g, st), Active(r) \/ st \in Terminal
      PROVE  /\ Others(r) /\ req'[r].sid \in {req[r].sid, g.sid} /\ (Active(r)' => Active(r))
  <2>1. /\ Others(r) /\ req'[r].st = st
        /\ req'[r].sid = (IF C = C /\ ~g.noid THEN g.sid ELSE req[r].sid)
    BY <1>0, <1>3, WrittenIs
  <2> QED BY <1>3, <2>1 DEF Active
<1>4. UNCHANGED req => Others(r) /\ req'[r].sid \in {req[r].sid, g.sid} /\ (Active(r)' => Active(r))
  BY DEF Others, Active
<1>5. CASE NextState(C, r)
  <2>1. PICK h : Become(C, r, h) /\ NextIs(C, r, h)
    BY <1>0, <1>5, ShapeNext DEF Goes
  <2>2. g.pc = "next" /\ g.todo # <<>> /\ ~g.retry BY <1>5 DEF NextState
  <2> DEFINE st == Head(g.todo)
  <2>3. UNCHANGED req \/ (Active(r) /\ Writes(C, r, g, st))
    BY <2>1 DEF NextIs, Writes, Writable
  <2>4. Others(r) /\ req'[r].sid \in {req[r].sid, g.sid} /\ (Active(r)' => Active(r))
    BY <1>3, <1>4, <2>3
  <2>5. h.sid = g.sid /\ h.mem = g.mem BY <2>1 DEF NextIs, Stopped, Entered
  <2>6. ~Moves(r) => Backed(h)' BY <1>1, <2>2, <2>5, BackedCopy DEF Busy
  <2>7. h.pc = "call" => VolumeCallOK(h)'
    <3>1. CASE Stopped(g, h) BY <3>1 DEF Stopped
    <3>2. CASE Entered(C, r, g, st, h)
      <4> SUFFICES ASSUME h.pc = "call"
                   PROVE  VolumeCallOK(h)'
        OBVIOUS
      <4>1. h.sub = FirstSub(C, st, g.mem) /\ (h.ids <=> st = "PROVISIONING" /\ g.mem.prov # None)
        BY <3>2 DEF Entered
      <4>2. /\ h.sub \notin {"setProvisioned", "deleteStorage"}
            /\ h.sub = "createCSPVolume" => st = "PROVISIONING" /\ g.mem.prov # None
            /\ h.sub = "deleteVolume" => g.mem.prov = "UNPROVISIONING"
        BY <4>1 DEF FirstSub, ProvisionFirst, AttachFirst, DetachFirst, ReleaseFirst, C, None
      <4> QED BY <2>5, <4>1, <4>2 DEF VolumeCallOK
    <3> QED BY <2>1, <3>1, <3>2 DEF NextIs
  <2> QED BY <1>1, <1>2, <2>1, <2>2, <2>4, <2>5, <2>6, <2>7, CloudStep
<1>6. CASE Turn(C, r)
  <2>1. PICK h : Become(C, r, h) /\ TurnIs(C, r, h)
    BY <1>0, <1>6, ShapeTurn DEF Goes
  <2>2. UNCHANGED req BY <1>0, <1>6, ShapeTurn
  <2>3. \/ h.pc = "idle" \/ h.retry
        \/ ~g.retry /\ Kept(g, h) /\ h.pc # "call"
    BY <2>1 DEF TurnIs, Idle, Kept, TurnsBack, HandsBack, Ends, Turns
  <2>4. ~Moves(r) /\ h.pc # "idle" /\ ~h.retry => h.sid = g.sid /\ Backed(h)' /\ h.pc # "call"
    BY <1>1, <2>3, BackedCopy DEF Busy, Kept
  <2> QED BY <1>1, <1>2, <1>4, <2>1, <2>2, <2>3, <2>4, CloudStep
<1>7. CASE EnterTerminal(C, r)
  <2>1. Become(C, r, Idle) /\ g.pc = "final" /\ Idle.pc = "idle"
    BY <1>0, <1>7, ShapeTerminal DEF Goes, Idle
  <2>2. ~g.retry BY <1>0, <2>1, InThree DEF Shape
  <2>3. UNCHANGED req \/ \E st \in {"FAILED", "SUCCEEDED"} : EndsAs(C, r, g, st)
    BY <1>0, <1>7, ShapeTerminal
  <2>4. UNCHANGED req \/ \E st \in Terminal : Writes(C, r, g, st)
    BY <2>3 DEF EndsAs, Writes, Terminal
  <2>5. Others(r) /\ req'[r].sid \in {req[r].sid, g.sid} /\ (Active(r)' => Active(r))
    BY <1>3, <1>4, <2>4
  <2> QED BY <1>1, <1>2, <2>1, <2>2, <2>5, CloudStep
<1> QED BY <1>5, <1>6, <1>7 DEF Animate

(* A copy that was read from, or written to, the storage again.            *)
LEMMA BackedPlain ==
    ASSUME Inv5, NEW r \in SR, Busy(C, r), Steady,
           \A v \in Vol : vol'[v].stg \in {vol[v].stg, None},
           NEW h, h.sid = G(C, r).sid, h.mem.prov = G(C, r).mem.prov,
           \/ h.mem.vol = G(C, r).mem.vol
           \/ G(C, r).sid \in Stg /\ h.mem.vol = stg[G(C, r).sid].vol
    PROVE  Backed(h)'
<1> DEFINE g == G(C, r)
<1>0. Backed(g) /\ TypeOK /\ Stored BY InFive DEF BackedOK
<1>1. g.mem.vol \in Vol \cup {None} /\ g.sid \in Stg \cup {None} /\ None \notin Stg
  BY <1>0, CloudType
<1>2. g.sid # None => /\ StorageOK(g.sid) /\ stg'[g.sid].prov = Prov(g.sid)
                      /\ stg'[g.sid].vol = stg[g.sid].vol /\ stg[g.sid].vol \in Vol \cup {None}
  BY <1>0, <1>1, CloudType DEF Stored, Steady
<1> HIDE DEF g
<1>3. h.sid = g.sid /\ h.mem.prov = g.mem.prov
      /\ \/ h.mem.vol = g.mem.vol
         \/ g.sid \in Stg /\ h.mem.vol = stg[g.sid].vol
  BY DEF g
<1>4. h.mem.vol # None => h.sid # None /\ vol'[h.mem.vol].stg \in {h.sid, None}
  BY <1>0, <1>1, <1>2, <1>3 DEF Backed, StorageOK
<1>5. h.sid # None /\ h.mem.prov = stg'[h.sid].prov => h.mem.vol = stg'[h.sid].vol
  BY <1>0, <1>1, <1>2, <1>3 DEF Backed
<1> QED BY <1>4, <1>5 DEF Backed, Prov

(* The volume of storage that is not deleted is the one it names.          *)
LEMMA CopyNames ==
    ASSUME Inv5, NEW r \in SR, Busy(C, r), NEW v \in Vol, G(C, r).mem.vol = v, vol[v].stg # None
    PROVE  /\ vol[v].stg = G(C, r).sid /\ G(C, r).sid \in Stg
           /\ Holds(r, vol[v].stg)
           /\ \/ stg[vol[v].stg].vol = v
              \/ Made(G(C, r)) \/ Gone(r, G(C, r))
<1> DEFINE g == G(C, r)
<1>0. Backed(g) /\ TypeOK /\ MemOK(r, g) /\ C \in Daemon
  BY InFive, InThree DEF BackedOK, CentralOK
<1>1. g.sid \in Stg \cup {None} /\ None \notin Vol BY <1>0, CloudType
<1>2. vol[v].stg = g.sid /\ g.sid # None BY <1>0, <1>1 DEF Backed
<1>3. Holds(r, vol[v].stg) BY <1>0, <1>2 DEF Holds
<1>4. g.mem.prov = Prov(g.sid) => stg[g.sid].vol = v BY <1>0, <1>2 DEF Backed
<1> QED BY <1>0, <1>1, <1>2, <1>3, <1>4 DEF MemOK

(* What is attached, detached or loses its tag stays the volume it is.     *)
LEMMA CloudPlain ==
    ASSUME Inv5, Inv4', NEW r \in SR, Attach(r) \/ Detach(r) \/ removeCSPVolumeTag(r)
    PROVE  AllBacked' /\ Stored' /\ Clouded'
<1> DEFINE g == G(C, r)
<1>0. Inv4 /\ Inv3 /\ TypeOK /\ C \in Daemon BY InFive
<1>1. Plainly(r) /\ g.pc = "call" /\ g.sub \notin ProvisionSubs /\ g.sub \notin ReleaseSubs
  BY <1>0, PlainWhen
<1>2. PICK h : /\ Become(C, r, h) /\ Keeps(r, g, h) /\ Steady
               /\ SaysWhy(r) \/ UNCHANGED req
               /\ h.pc = "call" => h.sub \notin ProvisionSubs
               /\ h.mem.prov = g.mem.prov
               /\ \/ h.mem.vol = g.mem.vol
                  \/ g.sid \in Stg /\ h.mem.vol = stg[g.sid].vol
  BY <1>1 DEF Plainly
<1>3. /\ Others(r) /\ req'[r].ops = req[r].ops /\ req'[r].sid = req[r].sid
      /\ (Active(r)' => Active(r))
  BY <1>0, <1>2, SayingIs
<1>4. G(C, r)' = h BY <1>0, <1>2 DEF Become, G, TypeOK
<1>5. h.pc = "call" => h.sub \notin ReleaseSubs
  <2>1. Shape(C, req[r].ops, g) BY <1>0, InThree
  <2>2. Shape(C, req[r].ops, h)
    BY <1>0, <1>3, <1>4 DEF Inv4, Inv3, Inv2, Inv1, Shaped
  <2>3. h.st = g.st BY <1>2 DEF Keeps
  <2> QED BY <1>1, <2>1, <2>2, <2>3 DEF Shape, SubOf
<1>6. h.pc = "call" => VolumeCallOK(h)'
  BY <1>2, <1>5 DEF VolumeCallOK, ProvisionSubs, ReleaseSubs
<1>7. ~g.retry /\ Running(C, r) BY <1>0, <1>1, InThree DEF Shape, Running
<1>8. \A v \in Vol : /\ vol'[v].stg = vol[v].stg
                     /\ vol'[v].stg = None \/ vol'[v].tag = vol[v].tag \/ Named(v)
  <2>1. CASE Attach(r) \/ Detach(r)
    <3>1. UNCHANGED vol \/ \E v, at : vol' = [vol EXCEPT ![v].at = at]
      BY <2>1 DEF Attach, Detach, setAttaching, attachStorage, setAttached, setDetaching,
         detachStorage, setDetached, cleanupDetach, CentralSave
    <3> QED BY <1>0, <3>1 DEF TypeOK
  <2>2. CASE removeCSPVolumeTag(r)
    <3>1. g.sub = "removeCSPVolumeTag"
          /\ (UNCHANGED vol \/ vol' = [vol EXCEPT ![g.mem.vol].tag = None])
      BY <2>2 DEF removeCSPVolumeTag, InSub, C
    <3>2. ~Moves(r) /\ ~g.back /\ ~Has(r, "RELEASE")
      <4>1. /\ InState(C, req[r].ops, g) /\ g.st = "REMOVING_TAG"
            /\ req[r].ops \in Plans
        BY <1>0, <1>1, <1>7, <3>1, InThree DEF Shape, SubOf
      <4>2. "PROVISION" \in req[r].ops BY <4>1 DEF InState, Serving
      <4>3. ~g.back BY <4>1 DEF InState, Undoing
      <4> QED BY <4>1, <4>2, <4>3, PlanFamily DEF Moves, Has
    <3>3. Busy(C, r) BY <1>7, <3>2 DEF Busy
    <3>4. ASSUME NEW v \in Vol, g.mem.vol = v, vol[v].stg # None
          PROVE  Named(v)
      <4>1. /\ vol[v].stg = g.sid /\ g.sid \in Stg
            /\ stg[vol[v].stg].vol = v \/ Made(g) \/ Gone(r, g)
        BY <3>3, <3>4, CopyNames
      <4>2. g.sid # None BY <4>1, SizesAssumption
      <4>3. Prov(g.sid) # "PROVISIONING" BY <1>0, <1>1, <4>2, Settled
      <4> QED BY <3>2, <4>1, <4>3 DEF Made, Gone, Named
    <3>5. ASSUME vol' = [vol EXCEPT ![g.mem.vol].tag = None], NEW v \in Vol
          PROVE  /\ vol'[v].stg = vol[v].stg
                 /\ vol'[v].tag = vol[v].tag \/ g.mem.vol = v
      BY <1>0, <3>5 DEF TypeOK
    <3> QED BY <3>1, <3>4, <3>5
  <2> QED BY <2>1, <2>2
<1>9. ~Moves(r) => h.sid = g.sid /\ Backed(h)'
  <2>1. h.sid = g.sid BY <1>2 DEF Keeps
  <2>2. \A v \in Vol : vol'[v].stg \in {vol[v].stg, None} BY <1>8
  <2>3. ~Moves(r) => Busy(C, r) BY <1>7 DEF Busy
  <2> QED BY <1>2, <2>1, <2>2, <2>3, BackedPlain
<1> QED BY <1>2, <1>3, <1>6, <1>7, <1>8, <1>9, CloudStep

(* A handler that returns, or goes on to a sub-state that relies on        *)
(* nothing, with the copies it had.                                        *)
LEMMA CloudReturns ==
    ASSUME Inv5, NEW r \in SR, G(C, r).pc = "call", NEW h, Become(C, r, h),
           UNCHANGED <<stg, vol>>, h.sid = G(C, r).sid, h.mem = G(C, r).mem,
           h.pc = "call" => VolumeCallOK(h)',
           Others(r), req'[r].ops = req[r].ops, req'[r].sid \in {req[r].sid, G(C, r).sid},
           Active(r)' => Active(r)
    PROVE  AllBacked' /\ Stored' /\ Clouded'
<1>1. ~G(C, r).retry /\ Running(C, r) BY InFive, InThree DEF Shape, Running
<1>2. ~Moves(r) => Backed(h)' BY <1>1, BackedCopy DEF Busy
<1>3. Steady /\ \A v \in Vol : vol'[v].stg = vol[v].stg /\ vol'[v].tag = vol[v].tag
  BY DEF Steady, Prov
<1> QED BY <1>1, <1>2, <1>3, CloudStep

(* The volume of storage that is released is deleted first.                *)
LEMMA CloudDeleteVolume ==
    ASSUME Inv5, NEW r \in SR, deleteVolume(r)
    PROVE  AllBacked' /\ Stored' /\ Clouded'
<1> DEFINE g == G(C, r)
           v == g.mem.vol
<1>0. /\ Inv3 /\ Inv4 /\ TypeOK /\ C \in Daemon /\ g.pc = "call" /\ g.sub = "deleteVolume"
      /\ g.sub \in ReleaseSubs
  BY InFive DEF deleteVolume, InSub, C, ReleaseSubs
<1>1. Busy(C, r) /\ ~Moves(r) BY <1>0, Releasing
<1>2. VolumeCallOK(g) /\ v \in Vol \cup {None} /\ None \notin Vol
  BY <1>0, <1>1, InFive, CloudType DEF BackedOK
<1>3. g.mem.prov = "UNPROVISIONING" BY <1>0, <1>2 DEF VolumeCallOK
<1>4. \/ UNCHANGED vol
      \/ v \in Vol /\ vol' = [vol EXCEPT ![v] = NoVolume]
  BY <1>2 DEF deleteVolume, C
<1>5. PICK h : /\ Become(C, r, h) /\ UNCHANGED stg
               /\ SaysWhy(r) \/ UNCHANGED req
               /\ \/ /\ h = Call(g, "deleteStorage")
                     /\ v \in Vol => vol' = [vol EXCEPT ![v] = NoVolume]
                  \/ h = Later(C, r, g)
  BY <1>2 DEF deleteVolume, C
<1>6. /\ Others(r) /\ req'[r].ops = req[r].ops /\ req'[r].sid = req[r].sid
      /\ (Active(r)' => Active(r))
  BY <1>0, <1>5, SayingIs
<1>7. Keeps(r, g, h) /\ h.mem = g.mem
      /\ \/ h.sub = "deleteStorage" /\ h = Call(g, "deleteStorage")
         \/ h.pc # "call"
  BY <1>0, <1>5, Goings DEF Subs
<1>8. \A w \in Vol : /\ vol'[w].stg = vol[w].stg
                        \/ (vol'[w].stg = None /\ Holds(r, vol[w].stg))
                     /\ vol'[w].stg = None \/ vol'[w].tag = vol[w].tag \/ Named(w)
  <2>1. CASE UNCHANGED vol BY <2>1
  <2>2. CASE v \in Vol /\ vol' = [vol EXCEPT ![v] = NoVolume]
    <3>1. vol[v].stg = None \/ Holds(r, vol[v].stg) BY <1>1, <2>2, CopyNames
    <3>2. \A w \in Vol : vol'[w] = IF w = v THEN NoVolume ELSE vol[w]
      BY <1>0, <2>2 DEF TypeOK
    <3> HIDE DEF v
    <3> QED BY <3>1, <3>2 DEF NoVolume
  <2> QED BY <1>4, <2>1, <2>2
<1>9. h.pc = "call" => VolumeCallOK(h)'
  <2> SUFFICES ASSUME h.pc = "call"
               PROVE  VolumeCallOK(h)'
    OBVIOUS
  <2>1. h.sub = "deleteStorage" /\ h = Call(g, "deleteStorage") /\ h.mem = g.mem
    BY <1>7
  <2>2. Call(g, "deleteStorage") # Later(C, r, g) \/ h.pc # "call"
    BY <1>0, Goings DEF Subs
  <2>3. v \in Vol => vol' = [vol EXCEPT ![v] = NoVolume] BY <1>5, <2>1, <2>2
  <2>4. v \in Vol => vol'[v].stg = None BY <1>0, <2>3 DEF TypeOK, NoVolume
  <2> QED BY <1>2, <1>3, <2>1, <2>4 DEF VolumeCallOK
<1>10. h.sid = g.sid /\ Backed(h)'
  <2>1. h.sid = g.sid /\ Steady /\ \A w \in Vol : vol'[w].stg \in {vol[w].stg, None}
    BY <1>5, <1>7, <1>8 DEF Keeps, Steady, Prov
  <2> QED BY <1>1, <1>7, <2>1, BackedPlain
<1>11. Steady /\ ~g.retry /\ Running(C, r) BY <1>1, <1>5 DEF Steady, Prov, Busy
<1> QED BY <1>5, <1>6, <1>8, <1>9, <1>10, <1>11, CloudStep

\* A request that starts to provision has no storage and no volume.
LEMMA CloudGetCapacity ==
    ASSUME Inv5, NEW r \in SR, getCapacity(r)
    PROVE  AllBacked' /\ Stored' /\ Clouded'
<1> DEFINE g == G(C, r)
<1>0. Inv3 /\ g.pc = "call" /\ UNCHANGED <<req, stg, vol>>
  BY InFive DEF getCapacity, InSub, C
<1>1. PICK h : /\ Become(C, r, h)
               /\ h = Call(g, "createStorage") \/ h = Failing(C, r, g) \/ h = Later(C, r, g)
  BY DEF getCapacity, C
<1>2. /\ Keeps(r, g, h) /\ h.mem = g.mem
      /\ h.pc = "call" => h.sub = "createStorage"
  BY <1>0, <1>1, Goings DEF Subs
<1>3. h.sid = g.sid /\ (h.pc = "call" => VolumeCallOK(h)')
  BY <1>2 DEF Keeps, VolumeCallOK
<1>4. Others(r) /\ (Active(r)' => Active(r)) /\ req'[r].ops = req[r].ops /\ req'[r].sid = req[r].sid
  BY <1>0 DEF Others, Active
<1> QED BY <1>0, <1>1, <1>2, <1>3, <1>4, CloudReturns

(* The identifiers are saved before a volume is created.                   *)
LEMMA CloudSetIds ==
    ASSUME Inv5, NEW r \in SR, setIds(r)
    PROVE  AllBacked' /\ Stored' /\ Clouded'
<1> DEFINE g == G(C, r)
<1>0. /\ Inv3 /\ Inv1 /\ g.pc = "call" /\ g.sub = "setIds" /\ g.sub \in ProvisionSubs
      /\ UNCHANGED <<stg, vol>>
  BY InFive DEF setIds, InSub, C, ProvisionSubs
<1>1. Busy(C, r) /\ Active(r) /\ CallOK(r, g) /\ BackedOK(r)
  BY <1>0, Provides, InFive DEF GoOK
<1>2. NoVolumeOf(g.sid) BY <1>0, <1>1 DEF CallOK, BackedOK
<1>3. PICK h : /\ Become(C, r, h)
               /\ \/ h = Call(g, "createCSPVolume") /\ Writes(C, r, g, g.st)
                  \/ h = Failing(C, r, g) /\ UNCHANGED req
  BY DEF setIds, C, Writes
<1>4. /\ Keeps(r, g, h) /\ h.mem = g.mem
      /\ h.pc = "call" => h.sub = "createCSPVolume"
  BY <1>0, <1>3, Goings DEF Subs
<1>5. PICK s : s = g.sid OBVIOUS
<1>6. NoVolumeOf(s)' BY <1>0, <1>2, <1>5 DEF NoVolumeOf
<1>7. h.sid = g.sid /\ (h.pc = "call" => VolumeCallOK(h)')
  BY <1>4, <1>5, <1>6 DEF Keeps, VolumeCallOK, NoVolumeOf
<1>8. Others(r) /\ req'[r].ops = req[r].ops /\ req'[r].sid \in {req[r].sid, g.sid}
  <2>1. CASE UNCHANGED req BY <2>1 DEF Others
  <2>2. CASE Writes(C, r, g, g.st) BY <1>0, <2>2, WrittenIs
  <2> QED BY <1>3, <2>1, <2>2
<1> QED BY <1>0, <1>1, <1>3, <1>4, <1>7, <1>8, CloudReturns

(* The storage of r is written.                                            *)
LEMMA CloudWrites ==
    ASSUME Inv5, NEW r \in SR, Busy(C, r), NEW s \in Stg, s = G(C, r).sid,
           NEW m, Fit(m, s), stg' = [stg EXCEPT ![s] = m], UNCHANGED vol,
           NEW h, Become(C, r, h), h.sid = s, CopyFits(h, m, s),
           Others(r), req'[r].ops = req[r].ops, req'[r].sid = req[r].sid, Active(r)' => Active(r)
    PROVE  AllBacked' /\ Stored' /\ Clouded'
<1>0. TypeOK /\ C \in Daemon /\ Stored /\ Clouded /\ Inv3 BY InFive
<1>1. \A x \in Stg : stg'[x] = IF x = s THEN m ELSE stg[x] BY <1>0 DEF TypeOK
<1>2. s # None BY SizesAssumption
<1>3. ~h.retry => Backed(h)' BY <1>1, <1>2 DEF Backed, Prov, CopyFits
<1>4. h.pc = "call" => VolumeCallOK(h)' BY DEF VolumeCallOK, CopyFits
<1>5. BackedOK(r)' BY <1>3, <1>4, BackedGo
<1>6. Holds(r, s) BY <1>0, <1>2 DEF Holds
<1>7. AllBacked'
  <2>1. \A x \in Stg : \/ stg'[x].prov = Prov(x) /\ stg'[x].vol = stg[x].vol
                       \/ Holds(r, x) \/ Unused(x)
    BY <1>1, <1>6 DEF Prov
  <2> QED BY <1>5, <2>1, BackedFrame
<1>8. Stored' BY <1>0, <1>1 DEF Stored, StorageOK, Prov, Fit
<1>9. ASSUME NEW v \in Vol, vol[v].stg # None
      PROVE  VolumeOK(v)'
  <2>1. VolumeOK(v) /\ vol[v].stg \in Stg BY <1>0, <1>9 DEF Clouded, TypeOK
  <2>2. CASE vol[v].stg = s BY <1>1, <1>9, <2>1, <2>2 DEF VolumeOK, Prov, Fit
  <2>3. CASE vol[v].stg # s
    <3>1. PICK x \in Stg : x = vol[v].stg BY <2>1
    <3>2. stg'[x] = stg[x] BY <1>1, <2>3, <3>1
    <3>3. \A q \in SR : Active(q)' /\ req'[q].sid = x => Active(q) /\ req[q].sid = x
      BY DEF Others, Active
    <3> QED BY <1>9, <2>1, <3>1, <3>2, <3>3 DEF VolumeOK, Prov
  <2> QED BY <2>2, <2>3
<1> QED BY <1>7, <1>8, <1>9 DEF Clouded, VolumeOK

(* A storage is marked before its volume is deleted.                       *)
LEMMA CloudSetState ==
    ASSUME Inv5, NEW r \in SR, setStorageState(r)
    PROVE  AllBacked' /\ Stored' /\ Clouded'
<1> DEFINE g == G(C, r)
           new == [g.mem EXCEPT !.prov = "UNPROVISIONING"]
<1>0. Inv3 /\ TypeOK /\ Stored /\ Clouded BY InFive
<1>1. /\ g.pc = "call" /\ g.sub = "setStorageState" /\ UNCHANGED vol
      /\ StorageUpdate(C, r, new, Call(g, "deleteVolume"), Later(C, r, g))
      /\ SaysWhy(r) \/ UNCHANGED req
  BY DEF setStorageState, CentralSave, InSub, C
<1>2. /\ g \in Goroutines /\ g.mem \in Storage
      /\ Call(g, "deleteVolume") \in Goroutines /\ Keeps(r, g, Call(g, "deleteVolume"))
      /\ Call(g, "deleteVolume").sub = "deleteVolume"
      /\ Keeps(r, g, Later(C, r, g)) /\ Later(C, r, g).pc # "call" /\ Later(C, r, g).mem = g.mem
  BY <1>0, <1>1, Goings DEF Subs
<1>3. Busy(C, r) BY <1>0, <1>1, Releasing DEF ReleaseSubs
<1>4. /\ Others(r) /\ req'[r].ops = req[r].ops /\ req'[r].sid = req[r].sid
      /\ (Active(r)' => Active(r))
  BY <1>0, <1>1, SayingIs
<1> HIDE DEF g
<1>5. new \in Storage /\ new.prov = "UNPROVISIONING" BY <1>2 DEF Storage
<1> HIDE DEF new
<1>6. CASE UNCHANGED stg /\ Become(C, r, Later(C, r, g))
  <2>1. PICK h : h = Later(C, r, g) OBVIOUS
  <2>2. /\ h.sid = G(C, r).sid /\ h.mem = G(C, r).mem /\ h.pc # "call"
        /\ G(C, r).pc = "call" /\ Become(C, r, h)
    BY <1>1, <1>2, <1>6, <2>1 DEF Keeps, g
  <2>3. UNCHANGED <<stg, vol>> BY <1>1, <1>6
  <2> QED BY <1>4, <2>2, <2>3, CloudReturns
<1>7. ASSUME NEW m, NEW h, Saved(C, r, new, m), Copies(Call(g, "deleteVolume"), m, h), Become(C, r, h)
      PROVE  AllBacked' /\ Stored' /\ Clouded'
  <2>0. PICK s : s = g.sid OBVIOUS
  <2>1. /\ s \in Stg /\ m.prov = "UNPROVISIONING" /\ m.vol = stg[s].vol
        /\ stg' = [stg EXCEPT ![s] = m]
    BY <1>1, <1>5, <1>7, <2>0 DEF Saved, g
  <2>2. h.mem = m /\ h.sid = s /\ h.sub = "deleteVolume"
    BY <1>2, <1>7, <2>0 DEF Copies, Alike, Keeps
  <2>3. StorageOK(s) /\ \A v \in Vol : vol[v].stg = s => stg[s].vol = v \/ vol[v].tag # None
    BY <1>0, <2>1, SizesAssumption DEF Stored, Clouded, VolumeOK
  <2>4. m.vol # None => m.vol \in Vol /\ vol[m.vol].stg \in {s, None}
    BY <1>0, <2>1, <2>3 DEF StorageOK, TypeOK, Storage
  <2>5. m.prov \notin {None, "UNPROVISIONED", "PROVISIONED", "PROVISIONING"}
    BY <2>1 DEF None
  <2>6. s = G(C, r).sid BY <2>0 DEF g
  <2>7. Fit(m, s) BY <2>1, <2>3, <2>4, <2>5 DEF Fit
  <2>8. CopyFits(h, m, s) BY <2>1, <2>2, <2>4 DEF CopyFits
  <2>9. UNCHANGED vol BY <1>1
  <2> QED BY <1>3, <1>4, <1>7, <2>1, <2>2, <2>6, <2>7, <2>8, <2>9, CloudWrites
<1>8. \/ \E m, h : Saved(C, r, new, m) /\ Copies(Call(g, "deleteVolume"), m, h) /\ Become(C, r, h)
      \/ UNCHANGED stg /\ Become(C, r, Later(C, r, g))
  <2>1. C \in Daemon BY CentralIs DEF C
  <2> QED BY <1>0, <1>1, <1>2, <1>5, <2>1, UpdateIs
<1> QED BY <1>6, <1>7, <1>8

(* The object goes when the volume it named is gone.                       *)
LEMMA CloudDeleteStorage ==
    ASSUME Inv5, NEW r \in SR, deleteStorage(r)
    PROVE  AllBacked' /\ Stored' /\ Clouded'
<1> DEFINE g == G(C, r)
<1>0. Inv3 /\ TypeOK /\ Stored /\ Clouded BY InFive
<1>1. /\ g.pc = "call" /\ g.sub = "deleteStorage" /\ g.sub \in ReleaseSubs /\ UNCHANGED vol
  BY DEF deleteStorage, InSub, C, ReleaseSubs
<1>2. Busy(C, r) /\ g.sid = req[r].sid BY <1>0, <1>1, Releasing
<1>3. PICK h : /\ Become(C, r, h)
               /\ h = Return(C, r, g) \/ h = Later(C, r, g)
               /\ SaysWhy(r) \/ UNCHANGED req
               /\ UNCHANGED stg \/ stg' = [stg EXCEPT ![g.sid] = NoStorage]
  BY DEF deleteStorage, C
<1>4. Keeps(r, g, h) /\ h.pc # "call" /\ h.mem = g.mem BY <1>0, <1>1, <1>3, Goings
<1>5. /\ Others(r) /\ req'[r].ops = req[r].ops /\ req'[r].sid = req[r].sid
      /\ (Active(r)' => Active(r))
  BY <1>0, <1>3, SayingIs
<1>6. h.sid = g.sid BY <1>4 DEF Keeps
<1>7. CASE UNCHANGED stg BY <1>1, <1>3, <1>4, <1>5, <1>6, <1>7, CloudReturns
<1>8. CASE stg' = [stg EXCEPT ![g.sid] = NoStorage] /\ g.sid \in Stg
  <2>1. PICK s \in Stg : s = g.sid BY <1>8
  <2>2. s # None BY SizesAssumption
  <2>3. Backed(g) /\ VolumeCallOK(g) /\ MemOK(r, g) /\ g.mem.vol \in Vol \cup {None}
    BY <1>0, <1>1, <1>2, InFive, InThree, CloudType DEF BackedOK, CentralOK
  <2>4. /\ g.mem.prov = "UNPROVISIONING"
        /\ g.mem.vol # None => vol[g.mem.vol].stg = None
    BY <1>1, <2>3 DEF VolumeCallOK
  <2>5. ASSUME NEW v \in Vol, vol[v].stg = s
        PROVE  vol[v].tag # None
    <3>1. stg[s].vol = v \/ vol[v].tag # None
      BY <1>0, <2>2, <2>5 DEF Clouded, VolumeOK
    <3>2. ASSUME stg[s].vol = v
          PROVE  FALSE
      <4>1. v # None BY SizesAssumption
      <4>2. Prov(s) # None BY <1>0, <3>2, <4>1 DEF Stored, StorageOK
      <4>3. g.mem.prov = Prov(s)
        BY <2>1, <2>2, <2>3, <2>4, <4>2 DEF MemOK, Made, Gone
      <4>4. g.mem.vol = v BY <2>1, <2>2, <2>3, <3>2, <4>3 DEF Backed
      <4> QED BY <2>2, <2>4, <2>5, <4>1, <4>4
    <3> QED BY <3>1, <3>2
  <2>6. PICK m : m = NoStorage OBVIOUS
  <2>7. m.prov = None /\ m.vol = None BY <2>6 DEF NoStorage
  <2>8. stg' = [stg EXCEPT ![s] = m] /\ h.sid = s /\ s = G(C, r).sid
    BY <1>6, <1>8, <2>1, <2>6
  <2>9. h.mem.vol # None => vol[h.mem.vol].stg \in {s, None} BY <1>4, <2>4
  <2>10. h.mem.prov # m.prov /\ m.prov \notin {"PROVISIONING", "PROVISIONED"}
    BY <1>4, <2>4, <2>7 DEF None
  <2>11. Fit(m, s) BY <2>2, <2>5, <2>7, <2>10 DEF Fit
  <2>12. CopyFits(h, m, s) BY <1>4, <2>9, <2>10 DEF CopyFits
  <2>13. UNCHANGED vol BY <1>1
  <2>14. Become(C, r, h) /\ Busy(C, r) BY <1>2, <1>3
  <2> HIDE DEF g
  <2> QED BY <1>5, <2>1, <2>8, <2>11, <2>12, <2>13, <2>14, CloudWrites
<1>9. CASE g.sid \notin Stg
  <2>1. stg' = stg BY <1>0, <1>3, <1>9 DEF TypeOK
  <2> QED BY <1>7, <2>1
<1> QED BY <1>3, <1>7, <1>8, <1>9

(* The storage gets the only volume that was created for it.               *)
LEMMA CloudSetProvisioned ==
    ASSUME Inv5, NEW r \in SR, setProvisioned(r)
    PROVE  AllBacked' /\ Stored' /\ Clouded'
<1> DEFINE g == G(C, r)
<1>0. Inv3 /\ TypeOK /\ Stored /\ Clouded /\ C \in Daemon BY InFive
<1>1. /\ g.pc = "call" /\ g.sub = "setProvisioned" /\ UNCHANGED <<req, vol>>
      /\ StorageUpdate(C, r, g.mem, Return(C, r, g), Failing(C, r, g))
  BY DEF setProvisioned, InSub, C
<1>2. g.sub \in ProvisionSubs BY <1>1 DEF ProvisionSubs
<1>3. /\ g \in Goroutines /\ g.mem \in Storage /\ Return(C, r, g) \in Goroutines
      /\ Keeps(r, g, Return(C, r, g)) /\ Return(C, r, g).pc # "call"
      /\ Keeps(r, g, Failing(C, r, g)) /\ Failing(C, r, g).pc # "call" /\ Failing(C, r, g).mem = g.mem
  BY <1>0, <1>1, Goings
<1>4. Others(r) /\ req'[r].ops = req[r].ops /\ req'[r].sid = req[r].sid /\ (Active(r)' => Active(r))
  BY <1>1 DEF Others, Active
<1>5. CASE UNCHANGED stg /\ Become(C, r, Failing(C, r, g))
  <2>1. Failing(C, r, g).sid = g.sid BY <1>3 DEF Keeps
  <2> QED BY <1>1, <1>3, <1>4, <1>5, <2>1, CloudReturns
<1>6. ASSUME NEW m, NEW h, Saved(C, r, g.mem, m), Copies(Return(C, r, g), m, h), Become(C, r, h)
      PROVE  AllBacked' /\ Stored' /\ Clouded'
  <2>0. PICK s : s = g.sid OBVIOUS
  <2>1. Busy(C, r) /\ g.mem.prov = "PROVISIONED" /\ g.sid # None
    BY <1>0, <1>1, <1>2, Provides DEF GoOK, CallOK
  <2>2. /\ s \in Stg /\ m.prov = "PROVISIONED" /\ m.vol = g.mem.vol
        /\ stg' = [stg EXCEPT ![s] = m]
    BY <1>1, <1>6, <2>0, <2>1 DEF Saved
  <2>3. h.mem = m /\ h.sid = s /\ h.pc # "call"
    BY <1>3, <1>6, <2>0 DEF Copies, Alike, Keeps
  <2>4. m.vol \in Vol /\ vol[m.vol].stg = s /\ s # None
    BY <1>0, <1>1, <2>0, <2>1, <2>2, InFive, CloudType DEF BackedOK, VolumeCallOK
  <2>5. \A v \in Vol : vol[v].stg = s => m.vol = v
    BY <1>0, <2>4 DEF Clouded, VolumeOK
  <2>6. m.prov \notin {None, "UNPROVISIONED", "PROVISIONING"} BY <2>2 DEF None
  <2>7. s = G(C, r).sid BY <2>0
  <2>8. Fit(m, s) BY <2>2, <2>4, <2>5, <2>6 DEF Fit
  <2>9. CopyFits(h, m, s) BY <2>2, <2>3, <2>4 DEF CopyFits
  <2>10. UNCHANGED vol BY <1>1
  <2>11. Become(C, r, h) /\ Busy(C, r) /\ s \in Stg /\ stg' = [stg EXCEPT ![s] = m] /\ h.sid = s
    BY <1>6, <2>1, <2>2, <2>3
  <2> HIDE DEF g
  <2> QED BY <1>4, <2>2, <2>7, <2>8, <2>9, <2>10, <2>11, CloudWrites
<1>7. \/ \E m, h : Saved(C, r, g.mem, m) /\ Copies(Return(C, r, g), m, h) /\ Become(C, r, h)
      \/ UNCHANGED stg /\ Become(C, r, Failing(C, r, g))
  BY <1>0, <1>1, <1>3, UpdateIs
<1> QED BY <1>5, <1>6, <1>7

(* A new storage has no volume.                                            *)
LEMMA CloudCreateStorage ==
    ASSUME Inv5, NEW r \in SR, createStorage(r)
    PROVE  AllBacked' /\ Stored' /\ Clouded'
<1> DEFINE g == G(C, r)
           new == [NoStorage EXCEPT !.prov = "PROVISIONING"]
<1>0. Inv3 /\ TypeOK /\ Stored /\ Clouded /\ C \in Daemon BY InFive
<1>1. /\ g.pc = "call" /\ g.sub = "createStorage" /\ UNCHANGED <<req, vol>>
      /\ \/ \E s \in Stg : /\ Unused(s) /\ stg' = [stg EXCEPT ![s] = new]
                           /\ \/ Become(C, r, [Call(g, "setIds") EXCEPT !.sid = s, !.mem = new])
                              \/ Become(C, r, Failing(C, r, g))
         \/ UNCHANGED stg /\ Become(C, r, Failing(C, r, g))
  BY DEF createStorage, InSub, C
<1>2. g.sub \in ProvisionSubs BY <1>1 DEF ProvisionSubs
<1>3. new.prov = "PROVISIONING" /\ new.vol = None BY DEF NoStorage
<1> HIDE DEF new
<1>4. /\ Keeps(r, g, Failing(C, r, g)) /\ Failing(C, r, g).pc # "call" /\ Failing(C, r, g).mem = g.mem
  BY <1>0, <1>1, Goings
<1>5. Others(r) /\ req'[r].ops = req[r].ops /\ req'[r].sid = req[r].sid /\ (Active(r)' => Active(r))
  BY <1>1 DEF Others, Active
<1>6. Failing(C, r, g).sid = g.sid BY <1>4 DEF Keeps
<1>7. CASE UNCHANGED stg /\ Become(C, r, Failing(C, r, g))
  BY <1>1, <1>4, <1>5, <1>6, <1>7, CloudReturns
<1>8. ASSUME NEW s \in Stg, Unused(s), stg' = [stg EXCEPT ![s] = new], NEW h, Become(C, r, h),
             \/ h = [Call(g, "setIds") EXCEPT !.sid = s, !.mem = new]
             \/ h = Failing(C, r, g)
      PROVE  AllBacked' /\ Stored' /\ Clouded'
  <2>1. \A x \in Stg : stg'[x] = IF x = s THEN new ELSE stg[x]
    BY <1>0, <1>8 DEF TypeOK
  <2>2. s # None /\ NoVolumeOf(s) /\ NoVolumeOf(s)'
    BY <1>1, <1>8, SizesAssumption DEF Unused, NoVolumeOf
  <2>3. G(C, r)' = h BY <1>0, <1>8 DEF TypeOK, Become, G
  <2>4. Busy(C, r) /\ g.sid = None /\ g \in Goroutines
    BY <1>0, <1>1, <1>2, Provides, InThree DEF GoOK, CallOK
  <2>5. BackedOK(r)'
    <3>1. CASE h = Failing(C, r, g)
      <4>1. h.sid = None /\ h.mem = g.mem /\ h.pc # "call" BY <1>4, <1>6, <2>4, <3>1
      <4>2. h.mem.vol = None BY <2>4, <4>1, InFive DEF BackedOK, Backed
      <4>3. Backed(G(C, r))' /\ ~Fresh(r)' BY <2>3, <4>1, <4>2 DEF Backed, Fresh
      <4> QED BY <2>3, <4>1, <4>3 DEF BackedOK
    <3>2. CASE h = [Call(g, "setIds") EXCEPT !.sid = s, !.mem = new]
      <4> HIDE DEF g
      <4>1. h.sid = s /\ h.mem = new /\ h.sub = "setIds"
        BY <2>4, <3>2 DEF Call, Goroutines
      <4> USE DEF g
      <4>2. Backed(G(C, r))' /\ VolumeCallOK(G(C, r))'
        BY <1>3, <2>1, <2>2, <2>3, <4>1 DEF Backed, VolumeCallOK, Prov
      <4>3. NoVolumeOf(G(C, r).sid)' BY <2>2, <2>3, <4>1 DEF NoVolumeOf
      <4> QED BY <4>2, <4>3 DEF BackedOK
    <3> QED BY <1>8, <3>1, <3>2
  <2>6. AllBacked'
    <3>1. \A x \in Stg : \/ stg'[x].prov = Prov(x) /\ stg'[x].vol = stg[x].vol
                         \/ Holds(r, x) \/ Unused(x)
      BY <1>8, <2>1 DEF Prov
    <3>2. \A v \in Vol : vol'[v].stg = vol[v].stg BY <1>1
    <3> QED BY <1>5, <1>8, <2>5, <3>1, <3>2, BackedFrame
  <2>7. Stored' BY <1>0, <1>1, <1>3, <2>1 DEF Stored, StorageOK, Prov
  <2>8. ASSUME NEW v \in Vol, vol[v].stg # None
        PROVE  VolumeOK(v)'
    <3>1. PICK x \in Stg : x = vol[v].stg BY <1>0, <2>8 DEF TypeOK
    <3>2. stg'[x] = stg[x] BY <2>1, <2>2, <3>1 DEF NoVolumeOf
    <3> QED BY <1>0, <1>1, <2>8, <3>1, <3>2 DEF Clouded, VolumeOK, Prov, Active
  <2> QED BY <1>1, <2>6, <2>7, <2>8 DEF Clouded, VolumeOK
<1>9. ASSUME NEW s \in Stg, Unused(s), stg' = [stg EXCEPT ![s] = new],
             \/ Become(C, r, [Call(g, "setIds") EXCEPT !.sid = s, !.mem = new])
             \/ Become(C, r, Failing(C, r, g))
      PROVE  AllBacked' /\ Stored' /\ Clouded'
  BY <1>8, <1>9
<1> QED BY <1>1, <1>7, <1>9

(* A volume is created only when there is none for the storage.            *)
LEMMA CreatesFirst ==
    ASSUME Inv5, NEW r \in SR, G(C, r).pc = "call", G(C, r).sub = "createCSPVolume",
           ~G(C, r).ids \/ {v \in Vol : vol[v].stg = G(C, r).sid /\ vol[v].tag = r} = {}
    PROVE  NoVolumeOf(G(C, r).sid)
<1> DEFINE g == G(C, r)
<1>1. Inv3 /\ Clouded /\ g.sub \in ProvisionSubs /\ BackedOK(r)
  BY InFive DEF ProvisionSubs
<1>2. Busy(C, r) /\ Active(r) /\ CallOK(r, g) BY <1>1, Provides DEF GoOK
<1>3. g.sid # None /\ g.sid = req[r].sid /\ Prov(g.sid) = "PROVISIONING"
  BY <1>2 DEF CallOK
<1>4. ASSUME NEW v \in Vol, vol[v].stg = g.sid
      PROVE  vol[v].tag = r
  BY <1>1, <1>2, <1>3, <1>4 DEF Clouded, VolumeOK
<1>5. ~g.ids => NoVolumeOf(g.sid) BY <1>1, <1>2 DEF BackedOK, VolumeCallOK
<1> QED BY <1>4, <1>5 DEF NoVolumeOf

\* The volume that VolumeCreate makes is the only one of its storage, and has
\* the tag of the request.
LEMMA CloudNewVolume ==
    ASSUME Inv5, NEW r \in SR, G(C, r).pc = "call", G(C, r).sub = "createCSPVolume",
           NoVolumeOf(G(C, r).sid), NEW v \in UnusedVolumes,
           vol' = [vol EXCEPT ![v] = [stg |-> G(C, r).sid, tag |-> r, at |-> None]],
           UNCHANGED <<req, stg>>, NEW h, Become(C, r, h), h.sid = G(C, r).sid,
           \/ h.pc # "call" /\ h.mem = G(C, r).mem
           \/ h.sub = "setProvisioned" /\ h.mem.vol = v /\ h.mem.prov = "PROVISIONED"
    PROVE  AllBacked' /\ Stored' /\ Clouded'
<1> DEFINE g == G(C, r)
<1>0. Inv3 /\ Apart /\ TypeOK /\ Stored /\ Clouded /\ C \in Daemon /\ g.sub \in ProvisionSubs
  BY InFive DEF ProvisionSubs, Inv3
<1>1. Busy(C, r) /\ Active(r) /\ CallOK(r, g) /\ BackedOK(r)
  BY <1>0, Provides, InFive DEF GoOK
<1>2. PICK s \in Stg : s = g.sid /\ s = req[r].sid /\ Prov(s) = "PROVISIONING" /\ s # None
  BY <1>0, <1>1, CloudType DEF CallOK
<1>3. v \in Vol /\ v # None /\ r # None BY SizesAssumption DEF UnusedVolumes
<1>4. /\ \A w \in Vol : w # v => vol'[w] = vol[w]
      /\ vol'[v].stg = s /\ vol'[v].tag = r
  BY <1>0, <1>2, <1>3 DEF TypeOK
<1>5. Holds(r, s) /\ Others(r) /\ ~Fresh(r) /\ req'[r] = req[r]
  BY <1>0, <1>1, <1>2 DEF Holds, Others, Fresh
<1>6. Backed(h)' /\ (h.pc = "call" => VolumeCallOK(h)')
  <2>1. CASE h.sub = "setProvisioned" /\ h.mem.vol = v /\ h.mem.prov = "PROVISIONED"
    <3>1. stg'[s].prov = "PROVISIONING" BY <1>2 DEF Prov
    <3>2. h.sid = s BY <1>2
    <3> HIDE DEF g
    <3>3. Backed(h)' BY <1>2, <1>4, <2>1, <3>1, <3>2 DEF Backed, Prov
    <3>4. VolumeCallOK(h)' BY <1>3, <1>4, <2>1, <3>2 DEF VolumeCallOK
    <3> QED BY <3>3, <3>4
  <2>2. CASE h.pc # "call" /\ h.mem = g.mem
    <3>1. Backed(g) /\ g.mem.vol \in Vol \cup {None}
      BY <1>0, <1>1, CloudType DEF BackedOK
    <3>2. g.mem.vol # v
      <4>1. <<C, r>> \in DOMAIN go BY <1>0 DEF TypeOK
      <4> QED BY <4>1 DEF UnusedVolumes, G
    <3>3. h.sid = g.sid OBVIOUS
    <3> HIDE DEF g
    <3> QED BY <1>2, <1>4, <2>2, <3>1, <3>2, <3>3 DEF Backed, Prov
  <2> QED BY <2>1, <2>2
<1>7. BackedOK(r)' BY <1>1, <1>5, <1>6, BackedGo
<1>8. AllBacked'
  <2>1. \A x \in Stg : stg'[x].prov = Prov(x) /\ stg'[x].vol = stg[x].vol
    BY DEF Prov
  <2>2. \A w \in Vol : \/ vol'[w].stg = vol[w].stg
                       \/ w \in UnusedVolumes /\ Holds(r, vol'[w].stg)
    BY <1>4, <1>5
  <2> QED BY <1>5, <1>7, <2>1, <2>2, BackedFrame
<1>9. Stored'
  <2>1. \A x \in Stg : stg[x].vol # v /\ stg[x].vol \in Vol \cup {None}
    BY <1>0 DEF UnusedVolumes, TypeOK, Storage
  <2> QED BY <1>0, <1>4, <2>1 DEF Stored, StorageOK, Prov
<1>10. VolumeOK(v)'
  <2>1. \A w \in Vol : vol'[w].stg = s => w = v BY <1>2, <1>4 DEF NoVolumeOf
  <2>2. ASSUME NEW q \in SR, Active(q)', req'[q].sid = s
        PROVE  vol'[v].tag = q
    <3>1. Holds(q, s) BY <1>2, <2>2 DEF Holds, Active
    <3> QED BY <1>0, <1>4, <1>5, <3>1 DEF Apart
  <2>3. stg'[s].prov = "PROVISIONING" BY <1>2 DEF Prov
  <2> QED BY <1>3, <1>4, <2>1, <2>2, <2>3 DEF VolumeOK, Prov
<1>11. ASSUME NEW w \in Vol, w # v
       PROVE  VolumeOK(w)'
  <2>1. vol'[w] = vol[w] /\ VolumeOK(w) /\ vol[w].stg # s
    BY <1>0, <1>2, <1>4, <1>11 DEF Clouded, NoVolumeOf
  <2>2. vol[w].stg # None => \A x \in Vol : vol'[x].stg = vol[w].stg => x = w
    BY <1>4, <2>1 DEF VolumeOK
  <2> QED BY <2>1, <2>2 DEF VolumeOK, Prov, Active
<1> QED BY <1>8, <1>9, <1>10, <1>11 DEF Clouded

\* createCSPVolume takes the volume VolumeList finds by its tag and creates one
\* only when there is none.
LEMMA CloudCreateVolume ==
    ASSUME Inv5, ~ListFails, NEW r \in SR, createCSPVolume(r)
    PROVE  AllBacked' /\ Stored' /\ Clouded'
<1> DEFINE g == G(C, r)
           found == {v \in Vol : vol[v].stg = g.sid /\ vol[v].tag = r}
           made(v) == [Call(g, "setProvisioned") EXCEPT !.mem.vol = v, !.mem.prov = "PROVISIONED"]
           new(v) == [vol EXCEPT ![v] = [stg |-> g.sid, tag |-> r, at |-> None]]
<1>0. Inv3 /\ TypeOK BY InFive
<1>1. /\ g.pc = "call" /\ g.sub = "createCSPVolume" /\ UNCHANGED <<req, stg>>
      /\ \/ \E v \in found : Become(C, r, made(v)) /\ UNCHANGED vol
         \/ (~g.ids \/ found = {}) /\ \E v \in UnusedVolumes : vol' = new(v) /\ Become(C, r, made(v))
         \/ /\ ~g.ids \/ found = {}
            /\ Become(C, r, Failing(C, r, g))
            /\ UNCHANGED vol \/ \E v \in UnusedVolumes : vol' = new(v)
         \/ Become(C, r, Later(C, r, g)) /\ UNCHANGED vol
  BY DEF createCSPVolume, InSub, C
<1>2. ~g.ids \/ found = {} => NoVolumeOf(g.sid) BY <1>1, CreatesFirst
<1>3. Others(r) /\ req'[r].ops = req[r].ops /\ req'[r].sid = req[r].sid /\ (Active(r)' => Active(r))
  BY <1>1 DEF Others, Active
<1>4. /\ g \in Goroutines /\ g.mem \in Storage
      /\ Keeps(r, g, Failing(C, r, g)) /\ Failing(C, r, g).pc # "call" /\ Failing(C, r, g).mem = g.mem
      /\ Keeps(r, g, Later(C, r, g)) /\ Later(C, r, g).pc # "call" /\ Later(C, r, g).mem = g.mem
  BY <1>0, <1>1, Goings
<1>5. Failing(C, r, g).sid = g.sid /\ Later(C, r, g).sid = g.sid BY <1>4 DEF Keeps
<1>6. ASSUME NEW v \in Vol
      PROVE  /\ made(v).sub = "setProvisioned" /\ made(v).sid = g.sid /\ made(v).pc = "call"
             /\ made(v).mem.vol = v /\ made(v).mem.prov = "PROVISIONED"
  <2> HIDE DEF g
  <2>1. Call(g, "setProvisioned") = [g EXCEPT !.sub = "setProvisioned"] BY DEF Call
  <2> QED BY <1>1, <1>4, <2>1 DEF Goroutines, Storage
<1>7. ASSUME NEW v \in found, Become(C, r, made(v)), UNCHANGED vol
      PROVE  AllBacked' /\ Stored' /\ Clouded'
  <2>1. v \in Vol /\ vol[v].stg = g.sid OBVIOUS
  <2>2. PICK h : h = made(v) OBVIOUS
  <2>3. /\ h.sub = "setProvisioned" /\ h.sid = g.sid
        /\ h.mem.vol = v /\ h.mem.prov = "PROVISIONED" /\ Become(C, r, h)
    BY <1>6, <1>7, <2>1, <2>2
  <2>4. PICK s : s = g.sid OBVIOUS
  <2>5. Busy(C, r) /\ Prov(s) = "PROVISIONING" /\ s # None /\ v # None
    <3>1. g.sub \in ProvisionSubs BY <1>1 DEF ProvisionSubs
    <3> QED BY <1>0, <1>1, <2>1, <2>4, <3>1, Provides, SizesAssumption DEF GoOK, CallOK
  <2>6. Backed(h)' /\ VolumeCallOK(h)'
    BY <1>1, <1>7, <2>1, <2>3, <2>4, <2>5 DEF Backed, VolumeCallOK, Prov
  <2>7. Steady /\ \A w \in Vol : vol'[w].stg = vol[w].stg /\ vol'[w].tag = vol[w].tag
    BY <1>1, <1>7 DEF Steady, Prov
  <2>8. ~g.retry /\ Running(C, r) BY <2>5 DEF Busy
  <2> QED BY <1>3, <2>3, <2>6, <2>7, <2>8, CloudStep
<1>8. ASSUME NEW v \in UnusedVolumes, vol' = new(v), Become(C, r, made(v)), NoVolumeOf(g.sid)
      PROVE  AllBacked' /\ Stored' /\ Clouded'
  <2>1. v \in Vol BY DEF UnusedVolumes
  <2>2. PICK h : h = made(v) OBVIOUS
  <2>3. /\ h.sub = "setProvisioned" /\ h.sid = g.sid
        /\ h.mem.vol = v /\ h.mem.prov = "PROVISIONED" /\ Become(C, r, h)
    BY <1>6, <1>8, <2>1, <2>2
  <2> QED BY <1>1, <1>8, <2>3, CloudNewVolume
<1>9. ASSUME NEW v \in UnusedVolumes, vol' = new(v), Become(C, r, Failing(C, r, g)), NoVolumeOf(g.sid)
      PROVE  AllBacked' /\ Stored' /\ Clouded'
  BY <1>1, <1>4, <1>5, <1>9, CloudNewVolume
<1>10. ASSUME UNCHANGED vol, NEW h, h = Failing(C, r, g) \/ h = Later(C, r, g), Become(C, r, h)
       PROVE  AllBacked' /\ Stored' /\ Clouded'
  <2>1. h.sid = g.sid /\ h.mem = g.mem /\ h.pc # "call" BY <1>4, <1>5, <1>10
  <2> QED BY <1>1, <1>3, <1>10, <2>1, CloudReturns
<1> HIDE DEF found, made, new
<1> QED BY <1>1, <1>2, <1>7, <1>8, <1>9, <1>10

(* The goroutines of agentd are not those of centrald.                     *)
LEMMA RestCentral ==
    ASSUME Inv5, NEW r \in SR, Central(r)
    PROVE  Resting'
<1>0. Inv1 /\ TypeOK /\ Resting /\ C \in Daemon BY InFive
<1>1. \E h : Become(C, r, h)
  <2>1. CASE CentralDispatch(r) BY <1>0, <2>1, ShapeCentralDispatch DEF Goes
  <2>2. CASE Animate("centrald", r)
    <3>1. Animate(C, r) BY <2>2 DEF C
    <3> QED BY <1>0, <3>1, ShapeAnimate DEF Goes
  <2>3. CASE Provision(r) \/ Attach(r) \/ Detach(r) \/ Release(r)
    BY <1>0, <2>3, ShapeProvision, ShapeAttach, ShapeDetach, ShapeRelease DEF Handles, Goes
  <2> QED BY <2>1, <2>2, <2>3 DEF Central
<1>2. PICK h : Become(C, r, h) BY <1>1
<1> QED BY <1>0, <1>2, RestFrame

(* Every step of centrald on a request keeps this layer.                   *)
LEMMA CloudCentral ==
    ASSUME Inv5, Inv4', ~ListFails, NEW r \in SR, Central(r)
    PROVE  Resting' /\ AllBacked' /\ Stored' /\ Clouded'
<1>1. CASE CentralDispatch(r) BY <1>1, RestCentral, CloudDispatch
<1>2. CASE Animate("centrald", r)
  <2>1. Animate(C, r) BY <1>2 DEF C
  <2> QED BY <2>1, RestCentral, CloudAnimate
<1>3. CASE Attach(r) \/ Detach(r) \/ removeCSPVolumeTag(r)
  BY <1>3, RestCentral, CloudPlain
<1>4. CASE Provision(r)
  BY <1>3, <1>4, RestCentral, CloudGetCapacity, CloudCreateStorage, CloudSetIds, CloudCreateVolume,
     CloudSetProvisioned DEF Provision
<1>5. CASE Release(r)
  BY <1>5, RestCentral, CloudSetState, CloudDeleteVolume, CloudDeleteStorage DEF Release
<1> QED BY <1>1, <1>2, <1>3, <1>4, <1>5 DEF Central

(* Every step keeps Inv5.                                                  *)
LEMMA Step5 == ASSUME ~ListFails PROVE Inv5 /\ [Next]_vars => Inv5'
<1> SUFFICES ASSUME Inv5, [Next]_vars
             PROVE  Inv5'
  OBVIOUS
<1>1. Inv4' BY Step4 DEF Inv5
<1>2. CASE \/ Cleanup \/ CrashCentrald \/ (\E n \in Node : CrashAgentd(n))
           \/ (\E r \in SR : Expire(r)) \/ UNCHANGED vars
  BY <1>1, <1>2, CloudOthers DEF Inv5
<1>3. CASE \E r \in SR : StorageRequestCreate(r) BY <1>1, <1>3, CloudCreate DEF Inv5
<1>4. CASE \E r \in SR : Central(r) BY <1>1, <1>4, CloudCentral DEF Inv5
<1>5. CASE \E r \in SR, n \in Node : Agent(n, r)
  BY <1>1, <1>5, CloudAgent, RestAgent DEF Inv5
<1> QED BY <1>2, <1>3, <1>4, <1>5 DEF Next

(* Inv5 holds initially.                                                   *)
LEMMA Init5 == Init => Inv5
<1> SUFFICES ASSUME Init
             PROVE  Inv5
  OBVIOUS
<1>1. Inv4 /\ C \in Daemon /\ \A n \in Node : n \in Daemon BY Init4, CentralIs DEF C
<1>2. \A d \in Daemon, r \in SR : G(d, r) = Idle BY DEF Init, G
<1>3. \A s \in Stg : stg[s].prov = None /\ stg[s].vol = None BY DEF Init, NoStorage
<1>4. \A v \in Vol : vol[v].stg = None BY DEF Init, NoVolume
<1>5. Resting BY <1>1, <1>2 DEF Resting, RestOK, Idle
<1>6. AllBacked BY <1>1, <1>2 DEF AllBacked, BackedOK, Busy, Running, Idle
<1> QED BY <1>1, <1>3, <1>4, <1>5, <1>6 DEF Inv5, Stored, StorageOK, Clouded, VolumeOK

(* What remains of a volume whose storage does not name it can be found by *)
(* its tag.                                                                *)
LEMMA TagsFollow == Inv5 => OrphansAreTagged
<1> SUFFICES ASSUME Inv5, NEW v \in Vol, vol[v].stg # None
             PROVE  (\E s \in Stg : Exists(s) /\ stg[s].vol = v) \/ vol[v].tag # None
  BY DEF OrphansAreTagged
<1>0. TypeOK BY DEF Inv5, Inv4, Inv3, Inv2, Inv1
<1>1. PICK s \in Stg : s = vol[v].stg BY <1>0 DEF TypeOK
<1>2. stg[s].vol = v \/ vol[v].tag # None BY <1>1 DEF Inv5, Clouded, VolumeOK
<1>3. v # None /\ s # None BY SizesAssumption
<1>4. stg[s].vol = v => Exists(s) BY <1>3 DEF Inv5, Stored, StorageOK, Exists, Prov
<1> QED BY <1>2, <1>4

(* A volume that no Storage object names keeps the tag it was created with *)
(* as long as the cloud service lists what it has when it is asked to.     *)
THEOREM OrphansCorrect == ASSUME ~ListFails PROVE Spec => []OrphansAreTagged
<1>1. Inv5 /\ [Next]_vars => Inv5' BY Step5
<1> QED BY <1>1, TagsFollow, Init5, PTL DEF Spec
=============================================================================
