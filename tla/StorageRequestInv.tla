-------------------------- MODULE StorageRequestInv --------------------------
(***************************************************************************)
(* The inductive invariant of StorageRequest, in five layers: a step that  *)
(* starts in a layer and in those before it ends in that layer.  With each *)
(* layer come the relations that say what a step does to the part of the   *)
(* state the layer is about: they group the actions by their effect, and   *)
(* the proofs in StorageRequestProofs go from an action to its relation    *)
(* and from the relation to the layer.                                     *)
(***************************************************************************)
EXTENDS StorageRequest

-----------------------------------------------------------------------------
(***************************************************************************)
(* Inv1: the shape of a goroutine.                                         *)
(***************************************************************************)

\* The records of the volumes of the cloud service provider.
Volumes == [stg : Stg \cup {None}, tag : SR \cup {None}, at : Node \cup {None}]

\* The daemon centrald, the last state of its undo lists, and the states of
\* those lists.
C == "centrald"
UP == "UNDO_PROVISIONING"
Undoing == {"UNDO_PROVISIONING", "UNDO_ATTACHING", "UNDO_DETACHING"}

\* The states in which the operations ops are carried out or undone.
Serving(ops) ==
    {st \in States :
        \/ "PROVISION" \in ops /\ st \in {"PROVISIONING", "REMOVING_TAG", "UNDO_PROVISIONING"}
        \/ "ATTACH" \in ops /\ st \in {"ATTACHING", "UNDO_ATTACHING"}
        \/ "FORMAT" \in ops /\ st = "FORMATTING"
        \/ "USE" \in ops /\ st = "USING"
        \/ "CLOSE" \in ops /\ st = "CLOSING"
        \/ "DETACH" \in ops /\ st \in {"DETACHING", "UNDO_DETACHING"}
        \/ "RELEASE" \in ops /\ st = "RELEASING"
        \/ /\ "REATTACH" \in ops
           /\ st \in {"ATTACHING", "USING", "CLOSING", "DETACHING", "REATTACHING"}}

\* A list of states that are all in S, and one that has the state st.
Only(q, S) == \A i \in 1 .. Len(q) : q[i] \in S
Includes(q, st) == \E i \in 1 .. Len(q) : q[i] = st

\* The sub-states of the handlers that provision and that release.
ProvisionSubs == {"getCapacity", "createStorage", "setIds", "createCSPVolume", "setProvisioned"}
ReleaseSubs == {"setStorageState", "deleteVolume", "deleteStorage"}

\* A goroutine of a request that has failed or whose time is over.
Fails(g) == g.err \/ g.late

\* The states a goroutine still has to enter and those it would undo.
Lists(d, ops, g) ==
    /\ Only(g.todo, IF g.back THEN Undoing \cap Serving(ops) ELSE Serving(ops) \ Undoing)
    /\ d # C => Only(g.todo, AgentStates \cup {"DETACHING", "REMOVING_TAG"})
    /\ Only(g.undo, Undoing \cap Serving(ops))
    /\ g.back => d = C /\ Fails(g)
    /\ g.noid => g.back \/ "RELEASE" \in ops

\* A goroutine whose handler is at work.
InState(d, ops, g) ==
    /\ Lists(d, ops, g)
    /\ g.st \in Serving(ops) /\ (g.st \in Undoing <=> g.back)
    /\ ~g.back => ~g.late /\ ~Includes(g.todo, "PROVISIONING")
    /\ g.st = "PROVISIONING" => g.undo = <<>>

\* The sub-states of a handler of centrald are those of its state.
SubOf(g) ==
    /\ g.sub \in ProvisionSubs <=> g.st = "PROVISIONING"
    /\ g.sub \in ReleaseSubs <=> g.st \in {"RELEASING", UP}
    /\ g.sub = "removeCSPVolumeTag" <=> g.st = "REMOVING_TAG"

\* What the fields of a goroutine are at each place in the loop of
\* requestAnimator.
Shape(d, ops, g) ==
    \/ g.pc = "idle"
    \/ /\ g.pc = "call" /\ InState(d, ops, g) /\ ~g.retry /\ (~g.back => ~g.err)
       /\ d = C => SubOf(g)
    \/ /\ g.pc = "next" /\ ~g.back /\ Lists(d, ops, g)
       /\ ~Fails(g) /\ ~g.retry /\ (d = C => g.st \notin Undoing)
       /\ g.todo # <<>> => /\ ~Includes(Tail(g.todo), "PROVISIONING")
                           /\ Head(g.todo) = "PROVISIONING" => g.undo = <<>>
    \/ g.pc = "next" /\ g.back /\ Lists(d, ops, g)
    \/ /\ g.pc = "turn" /\ ~g.back /\ Lists(d, ops, g)
       /\ d # C => ~(Fails(g) /\ g.retry)
    \/ /\ g.pc \in {"handback", "reset"} /\ d # C /\ ~g.retry /\ ~g.back /\ Fails(g)
       /\ g.pc = "handback" => "ATTACH" \in ops
    \/ g.pc = "final" /\ ~g.retry

\* A handler that goes on or returns.
Handled(g, h) == h.st = g.st /\ h.pc \in {"call", "next", "turn"}

\* Every goroutine has its shape, a request asks for one of the plans, and
\* centrald dispatches nothing before its cleanup is over.
Shaped == \A d \in Daemon, r \in SR :
              /\ Shape(d, req[r].ops, G(d, r))
              /\ Running(d, r) => req[r].st # None

Asked == \A r \in SR : /\ req[r].st # None => req[r].ops \in Plans
                       /\ req[r].st = None => req[r] = NoRequest
Idled == cleanup # "done" => \A r \in SR : ~Running(C, r)

Inv1 == TypeOK /\ Shaped /\ Asked /\ Idled

\* The shape of a goroutine does not depend on the copies it holds.
Alike(g, h) ==
    /\ h.pc = g.pc /\ h.st = g.st /\ h.sub = g.sub /\ h.todo = g.todo /\ h.undo = g.undo
    /\ (h.err <=> g.err) /\ (h.late <=> g.late) /\ (h.retry <=> g.retry)
    /\ (h.noid <=> g.noid) /\ (h.back <=> g.back)

\* What EnterState makes of a goroutine before it calls the handler.
Entering(d, r, g0, st) ==
    [g0 EXCEPT !.st = st, !.todo = Tail(@),
               !.retry = HandsOver(d, st),
               !.node = IF st = "REATTACHING" THEN req[r].target ELSE @,
               !.noid = @ \/ st \in {"RELEASING", "UNDO_PROVISIONING"},
               !.ids = st = "PROVISIONING" /\ g0.mem.prov # None,
               !.err = @ \/ (st = "USING" /\ d # "centrald" /\ g0.mem.media # "FORMATTED")]

\* A handler in its first sub-state.
Calling(g, sub) == [g EXCEPT !.pc = "call", !.sub = sub]

\* What a goroutine is when it has entered a state.
Entered(d, r, g, st, h) ==
    LET sub == FirstSub(d, st, g.mem) IN
    /\ h.st = st /\ h.sid = g.sid /\ h.mem = g.mem /\ h.todo = Tail(g.todo)
    /\ (h.back <=> g.back) /\ (h.late <=> g.late) /\ (h.retry <=> HandsOver(d, st))
    /\ (h.noid <=> g.noid \/ st \in {"RELEASING", "UNDO_PROVISIONING"})
    /\ (h.err <=> g.err \/ (st = "USING" /\ d # "centrald" /\ g.mem.media # "FORMATTED"))
    /\ sub # None => /\ h.pc = "call" /\ h.sub = sub /\ h.undo = g.undo
                     /\ (h.ids <=> st = "PROVISIONING" /\ g.mem.prov # None)
    /\ sub = None =>
          /\ h.sub = None
          /\ h.pc = IF h.back THEN "next"
                    ELSE IF h.err \/ h.retry \/ h.todo = <<>> THEN "turn" ELSE "next"
          /\ h.undo = IF d = "centrald" /\ ~g.back /\ ~Has(r, "REATTACH")
                      THEN g.undo \o UndoOf(st) ELSE g.undo

\* A step of a goroutine that leaves its shape, and one that its handler makes.
Goes(d, r, h) == Become(d, r, h) /\ h \in Goroutines /\ Shape(d, req[r].ops, h)
Handles(d, r, h) == Goes(d, r, h) /\ Handled(G(d, r), h)

\* A step that makes no request and changes no plan.
KeepsRequests ==
    \A q \in SR : /\ req'[q].ops = req[q].ops
                  /\ req[q].st = None => req'[q] = req[q]
                  /\ req[q].st # None => req'[q].st # None

\* The handlers of agentd that use the device.
DeviceStep(n, r) == FormatStorage(n, r) \/ UseStorage(n, r) \/ CloseStorage(n, r)

\* What is kept of a goroutine that only goes on to another place.
SameWork(g, h) ==
    /\ h.st = g.st /\ h.sid = g.sid /\ h.sub = g.sub
    /\ (h.err <=> g.err) /\ (h.late <=> g.late) /\ (h.retry <=> g.retry)

\* A goroutine that could not write its state.
Stopped(g, h) ==
    /\ h.st = g.st /\ h.sid = g.sid /\ h.mem = g.mem /\ h.todo = <<>> /\ h.undo = g.undo
    /\ h.sub = g.sub /\ (h.back <=> g.back) /\ (h.late <=> g.late) /\ (h.noid <=> g.noid)
    /\ h.err \/ h.retry
    /\ h.pc = IF g.back THEN "next" ELSE "turn"

\* What NextState does.
NextIs(d, r, h) ==
    LET g == G(d, r)
        st == Head(g.todo)
    IN
    \/ /\ Stopped(g, h) /\ UNCHANGED req
       /\ h.retry \/ ~Writable(d, r, g) \/ st \in AgentStates
    \/ /\ Entered(d, r, g, st, h)
       /\ \/ st = g.st /\ UNCHANGED req
          \/ st # g.st /\ Writable(d, r, g) /\ req' = [req EXCEPT ![r] = Written(d, r, g, st)]

\* What the turn of a goroutine keeps.
Kept(g, h) ==
    /\ h.st = g.st /\ h.sid = g.sid /\ h.mem = g.mem /\ h.sub = g.sub
    /\ (h.err <=> g.err) /\ (h.late <=> g.late) /\ (h.retry <=> g.retry) /\ (h.noid <=> g.noid)

\* centrald walks back.
TurnsBack(d, g, h) ==
    /\ d = C /\ g.pc = "turn" /\ Fails(g) /\ ~g.retry
    /\ h.pc = "next" /\ h.back /\ h.undo = <<>>
    /\ \A S : Only(g.undo, S) => Only(h.todo, S)
    /\ \A st : Includes(g.undo, st) => Includes(h.todo, st)

\* agentd is to hand the request back.
HandsBack(d, r, g, h) ==
    /\ d # C /\ g.pc = "turn" /\ Fails(g) /\ Has(r, "ATTACH")
    /\ h.pc = "handback" /\ (h.back <=> g.back)

\* The states are done.
Ends(d, r, g, h) ==
    /\ ~g.retry
    /\ g.pc = "turn" \/ (g.pc = "next" /\ g.back /\ g.todo = <<>>)
    /\ g.pc = "turn" => /\ d = C => ~Fails(g) \/ Len(g.undo) = 0
                        /\ d # C => ~(Fails(g) /\ Has(r, "ATTACH"))
    /\ h.pc = IF d # C /\ Fails(g) /\ ~Has(r, "REATTACH") THEN "reset" ELSE "final"
    /\ (h.back <=> g.back)

\* The forward loop ends.
Turns(g, h) ==
    /\ g.pc = "next" /\ ~g.back /\ (g.todo = <<>> \/ g.retry)
    /\ h.pc = "turn" /\ ~h.back /\ h.todo = g.todo /\ h.undo = g.undo

\* What a goroutine does at the end of a loop.
TurnIs(d, r, h) ==
    LET g == G(d, r) IN
    \/ g.retry /\ h = Idle
    \/ /\ Kept(g, h)
       /\ TurnsBack(d, g, h) \/ HandsBack(d, r, g, h) \/ Ends(d, r, g, h) \/ Turns(g, h)

\* A request is given its final state.
EndsAs(d, r, g, st) ==
    req' = [req EXCEPT ![r] = Written(d, r, g, st)] /\ (st = "FAILED" <=> Fails(g))

\* A list whose first state only may be PROVISIONING.
Starts(q, S, c) ==
    /\ q \in Seq(S)
    /\ q # <<>> => /\ Only(Tail(q), S \ {"PROVISIONING"})
                   /\ Head(q) = "PROVISIONING" => c

\* A goroutine that is started.
Started(r, o, todo, undo, err, h) ==
    /\ h.pc = IF r \in expired \/ err THEN "turn" ELSE "next"
    /\ h.st = req[r].st /\ h.sid = req[r].sid /\ h.mem = o
    /\ h.todo = todo /\ h.undo = undo /\ (h.err <=> err) /\ (h.late <=> r \in expired)
    /\ ~h.retry /\ ~h.noid /\ ~h.back /\ h.sub = None

\* centrald considers a request it has dispatched to have failed.
Lost(r) ==
    \/ req[r].sid # None /\ ~Exists(req[r].sid) /\ req[r].st # "RELEASING"
    \/ r \notin expired /\ undoOnly(req[r].st)

\* A goroutine that centrald starts.
CentralStarted(r, h) ==
    LET o == Fetched(req[r].sid)
        todo == CentralTodo(r, o)
        extra == IF (Lost(r) \/ r \in expired) /\ todo # <<>> /\ ~Has(r, "REATTACH")
                 THEN UndoOf(todo[1]) ELSE <<>>
    IN Started(r, o, todo, CentralUndo(r) \o extra, Lost(r), h)

-----------------------------------------------------------------------------
(***************************************************************************)
(* Inv2: whose turn it is.                                                 *)
(***************************************************************************)

\* A request that re-attaches, which the two daemons work on in turn.
Moves(r) == Has(r, "REATTACH")

\* A goroutine that goes on working: one with `retry' only returns, and a
\* REATTACH is shared by the daemons.
Busy(d, r) == Running(d, r) /\ ~G(d, r).retry /\ ~Moves(r)

\* The requests agentd takes.
AgentOwns(r) ==
    /\ req[r].ops \cap {"FORMAT", "USE", "CLOSE", "REATTACH"} # {}
    /\ req[r].ops \cap {"PROVISION", "ATTACH"} # {} => req[r].st \in {"FORMATTING", "USING"}
    /\ Has(r, "CLOSE") => req[r].st \in {"NEW", "CLOSING"}

\* The requests a daemon takes.
Owns(d, r) == IF d = C THEN ~CentralSkips(r) ELSE req[r].node = d /\ AgentOwns(r)

\* What the state of a request says of its plan.
RequestOK(r) ==
    LET q == req[r] IN
    /\ Active(r) /\ q.st # "NEW" /\ ~Moves(r) => q.st \in Serving(q.ops)
    /\ q.st = "NEW" /\ Has(r, "PROVISION") => q.sid = None
    /\ q.st # None /\ Has(r, "PROVISION") /\ q.ops \cap {"FORMAT", "USE"} # {} => Has(r, "ATTACH")

\* A goroutine that works on is its daemon's to have, in the state it has
\* written.
WorkOK(d, r) ==
    Busy(d, r) =>
      /\ Active(r) /\ Owns(d, r) /\ G(d, r).st = req[r].st
      /\ d # C /\ G(d, r).pc \in {"reset", "final"} /\ Has(r, "ATTACH") => ~Fails(G(d, r))

Requested == \A r \in SR : RequestOK(r)
Worked == \A d \in Daemon, r \in SR : WorkOK(d, r)

Inv2 == Inv1 /\ Requested /\ Worked

\* A step of one goroutine, which may write its request.
Others(r) == \A q \in SR \ {r} : req'[q] = req[q]
SameState(r) == req'[r].st = req[r].st /\ req'[r].node = req[r].node

\* The handlers of centrald.
CentralStep(r) == Provision(r) \/ Attach(r) \/ Detach(r) \/ Release(r)

\* The update of the request by a goroutine in the state st.
Writes(d, r, g, st) == req' = [req EXCEPT ![r] = Written(d, r, g, st)]

\* A new request.
NewRequest(r, ops, q) ==
    /\ q.st = "NEW" /\ q.ops = ops
    /\ "PROVISION" \in ops => /\ q.sid = None
                              /\ ops \cap {"FORMAT", "USE"} # {} => "ATTACH" \in ops
    /\ \/ q.sid = None
       \/ /\ q.sid \in Stg /\ Exists(q.sid) /\ ~InUse(q.sid)
          /\ stg[q.sid].prov \in {"PROVISIONED", "UNPROVISIONING"}
    /\ req' = [req EXCEPT ![r] = q]

-----------------------------------------------------------------------------
(***************************************************************************)
(* Inv3: which storage a request and its goroutines hold, and that no two  *)
(* requests hold the same.                                                 *)
(***************************************************************************)

\* The stage of provisioning of the storage s.
Prov(s) == stg[s].prov

\* centrald has created a Storage object and not yet linked the request to it.
Fresh(r) ==
    LET g == G(C, r) IN
    /\ g.st = "PROVISIONING" /\ ~g.noid
    /\ (g.pc = "call" /\ g.sub = "setIds") \/ g.err
    /\ req[r].sid = None /\ g.sid # None
    /\ Prov(g.sid) = "PROVISIONING"

\* The storage a request is on.
LinkOK(r) ==
    LET q == req[r] IN
    q.sid # None =>
      /\ Active(r) => /\ Prov(q.sid) # "UNPROVISIONED"
                      /\ Prov(q.sid) = "PROVISIONING" => q.st \in {"PROVISIONING", UP}
                      /\ Has(r, "PROVISION") /\ q.st \notin Undoing =>
                            Prov(q.sid) \in {"PROVISIONING", "PROVISIONED"}
      /\ Moves(r) => Prov(q.sid) # "PROVISIONING"

\* A goroutine is on the storage of its request.
SidOK(d, r) ==
    /\ Busy(d, r) => G(d, r).sid = req[r].sid \/ (d = C /\ Fresh(r))
    /\ Running(d, r) /\ Moves(r) => G(d, r).sid = req[r].sid

\* The copy of the storage that centrald has in memory: it is ahead of the
\* object while that is not yet saved, or the object is gone.
Made(g) ==
    /\ g.mem.prov = "PROVISIONED" /\ Prov(g.sid) = "PROVISIONING"
    /\ (g.pc = "call" /\ g.sub = "setProvisioned") \/ g.err
Gone(r, g) == Prov(g.sid) = None /\ (g.back \/ Has(r, "RELEASE"))

MemOK(r, g) ==
    /\ g.sid = None => g.mem.prov = None
    /\ g.sid # None => g.mem.prov = Prov(g.sid) \/ Made(g) \/ Gone(r, g)

\* Until storage is provisioned there is nothing to undo but that.
ProvisioningOK(g) ==
    g.sid # None /\ Prov(g.sid) = "PROVISIONING" /\ g.pc # "final" =>
      /\ Only(g.undo, {UP})
      /\ g.back => Only(g.todo, {UP})
      /\ ~g.back /\ g.pc = "next" /\ g.todo # <<>> => Head(g.todo) = "PROVISIONING"

\* What the handlers that provision rely on in their sub-states.
CallOK(r, g) ==
    g.pc = "call" =>
      /\ g.sub \in {"getCapacity", "createStorage"} => g.sid = None
      /\ g.sub = "setIds" => Fresh(r)
      /\ g.sub \in {"createCSPVolume", "setProvisioned"} =>
            g.sid # None /\ g.sid = req[r].sid /\ Prov(g.sid) = "PROVISIONING"
      /\ g.sub = "setProvisioned" => g.mem.prov = "PROVISIONED"

\* What holds of a goroutine of centrald that works.
CentralOK(r) ==
    Busy(C, r) => MemOK(r, G(C, r)) /\ ProvisioningOK(G(C, r)) /\ CallOK(r, G(C, r))

\* What a request has for itself.
Holds(r, s) ==
    s # None /\ ((Active(r) /\ req[r].sid = s) \/ \E d \in Daemon : Busy(d, r) /\ G(d, r).sid = s)

OwnOK(r) == LinkOK(r) /\ CentralOK(r) /\ \A d \in Daemon : SidOK(d, r)
Owned == \A r \in SR : OwnOK(r)

\* Two requests never hold one storage.
Apart == \A r \in SR, q \in SR, s \in Stg : r # q /\ Holds(r, s) => ~Holds(q, s)

Inv3 == Inv2 /\ Owned /\ Apart

\* What holds of a goroutine of centrald that works on.
GoOK(r, h) ==
    /\ h.sid = req[r].sid \/ Fresh(r)
    /\ MemOK(r, h) /\ ProvisioningOK(h) /\ CallOK(r, h)

\* What a successful update of the Storage object of a goroutine saves.
Saved(d, r, new, m) ==
    LET g == G(d, r) IN
    /\ Exists(g.sid) /\ g.sid \in Stg /\ Prov(g.sid) \in {g.mem.prov, "PROVISIONING"}
    /\ m \in Storage /\ m.prov = new.prov
    /\ m.vol = IF g.sub = "setProvisioned" THEN new.vol ELSE stg[g.sid].vol
    /\ stg' = [stg EXCEPT ![g.sid] = m]

Copies(ok, m, h) == Alike(ok, h) /\ h.sid = ok.sid /\ h.mem = m /\ (h.ids <=> ok.ids)

\* A handler that returns.
Returned(d, r, g, h, err, retry) ==
    /\ h.pc = IF g.back THEN "next" ELSE IF err \/ retry \/ g.todo = <<>> THEN "turn" ELSE "next"
    /\ h.undo = IF d = "centrald" /\ ~g.back /\ ~Has(r, "REATTACH") THEN g.undo \o UndoOf(g.st) ELSE g.undo
    /\ h.sub = None /\ h.st = g.st /\ h.sid = g.sid /\ h.todo = g.todo /\ h.mem = g.mem
    /\ (h.err <=> err) /\ (h.late <=> g.late) /\ (h.retry <=> retry)
    /\ (h.noid <=> g.noid) /\ (h.back <=> g.back)

\* What the other steps of agentd do to its copies.
AgentKeeps(n, r) ==
    \E h : /\ Become(n, r, h) /\ h.sid = G(n, r).sid
           /\ \A s \in Stg : stg'[s].prov = Prov(s)

\* A list that starts with the state x.
Begins(a, x) == a \in Seq(States) /\ a # <<>> /\ a[1] = x

\* A handler of centrald goes on, or returns.
Keeps(r, g, h) ==
    /\ h.sid = g.sid /\ h.st = g.st /\ h.todo = g.todo /\ (h.back <=> g.back)
    /\ (h.noid <=> g.noid) /\ (g.err => h.err)
    /\ \/ h.pc = "call" /\ h.undo = g.undo
       \/ /\ h.pc \in {"next", "turn"}
          /\ h.undo = IF ~g.back /\ ~Has(r, "REATTACH") THEN g.undo \o UndoOf(g.st) ELSE g.undo
          /\ h.pc = "next" => g.back \/ (~h.err /\ ~h.retry /\ g.todo # <<>>)

\* Neither the stage nor the volume of any storage is changed.
Steady == \A s \in Stg : stg'[s].prov = Prov(s) /\ stg'[s].vol = stg[s].vol

\* A handler that neither provisions nor releases.
Plainly(r) ==
    \E h : /\ Become(C, r, h) /\ Keeps(r, G(C, r), h) /\ Steady
           /\ SaysWhy(r) \/ UNCHANGED req
           /\ h.pc = "call" => h.sub \notin ProvisionSubs
           /\ h.mem.prov = G(C, r).mem.prov
           /\ \/ h.mem.vol = G(C, r).mem.vol
              \/ G(C, r).sid \in Stg /\ h.mem.vol = stg[G(C, r).sid].vol

-----------------------------------------------------------------------------
(***************************************************************************)
(* Inv4: what is still to be undone.                                       *)
(***************************************************************************)

\* A goroutine that provisions, or has provisioned, goes on to undo it unless
\* the request succeeds.
Provisioner(g) ==
    \/ g.pc = "call" /\ g.st = "PROVISIONING"
    \/ g.pc = "next" /\ g.todo # <<>> /\ Head(g.todo) = "PROVISIONING"

\* What is to be undone is still on one of the lists.
Pending(g) ==
    IF g.pc = "final" THEN ~Fails(g)
    ELSE IF g.back THEN Includes(g.todo, UP) \/ (g.pc = "call" /\ g.st = UP)
    ELSE Includes(g.undo, UP) \/ Provisioner(g)

\* While the request is not done, storage it has provisioned is still to be
\* undone if it fails.
PendingOK(r) ==
    LET g == G(C, r) IN
    Busy(C, r) /\ Has(r, "PROVISION") /\ g.sid # None /\ Prov(g.sid) = "PROVISIONED" => Pending(g)

Pended == \A r \in SR : PendingOK(r)

\* The request that provisions the storage s and has not failed.
OwnerOf(s, r) == req[r].sid = s /\ Has(r, "PROVISION") /\ req[r].st # "FAILED"

Inv4 == Inv3 /\ Pended /\ ProvisionedIsOwned

\* The request that has provisioned some storage keeps it.
KeepsOwner == \A r \in SR, s \in Stg : OwnerOf(s, r) /\ Prov(s) = "PROVISIONED" => OwnerOf(s, r)'

\* A step that provisions nothing.
NoneProvisioned == \A s \in Stg : stg'[s].prov = "PROVISIONED" => Prov(s) = "PROVISIONED"

-----------------------------------------------------------------------------
(***************************************************************************)
(* Inv5: which volumes there are of a storage.                             *)
(***************************************************************************)

\* A goroutine of agentd that is not in a handler has no sub-state.
RestOK(h) == h.pc # "call" => h.sub = None
Resting == \A n \in Node, r \in SR : RestOK(G(n, r))

\* No volume was created for the storage s.
NoVolumeOf(s) == \A v \in Vol : vol[v].stg # s

\* The volume of a copy in memory is that of the storage, or is gone.
Backed(g) ==
    /\ g.mem.vol # None => g.sid # None /\ vol[g.mem.vol].stg \in {g.sid, None}
    /\ g.sid # None /\ g.mem.prov = Prov(g.sid) => g.mem.vol = stg[g.sid].vol

\* What the handlers of centrald rely on in their sub-states.
VolumeCallOK(g) ==
    /\ g.sub = "createCSPVolume" /\ ~g.ids => NoVolumeOf(g.sid)
    /\ g.sub = "setProvisioned" => g.mem.vol # None /\ vol[g.mem.vol].stg = g.sid
    /\ g.sub \in {"deleteVolume", "deleteStorage"} => g.mem.prov = "UNPROVISIONING"
    /\ g.sub = "deleteStorage" /\ g.mem.vol # None => vol[g.mem.vol].stg = None

\* What holds of the volumes of a goroutine of centrald that works.
BackedOK(r) ==
    Busy(C, r) =>
      /\ Backed(G(C, r))
      /\ Fresh(r) => NoVolumeOf(G(C, r).sid)
      /\ G(C, r).pc = "call" => VolumeCallOK(G(C, r))

\* The volume a Storage object names is its own, or is gone.
StorageOK(s) ==
    /\ Prov(s) \in {None, "PROVISIONING", "UNPROVISIONED"} => stg[s].vol = None
    /\ stg[s].vol # None => vol[stg[s].vol].stg \in {s, None}

\* A volume is its storage's only one. While that is being provisioned it
\* carries the tag of the request, and it loses the tag only when the storage
\* names it.
VolumeOK(v) ==
    LET s == vol[v].stg IN
    s # None =>
      /\ \A w \in Vol : vol[w].stg = s => w = v
      /\ Prov(s) = "PROVISIONED" => stg[s].vol = v
      /\ Prov(s) = "PROVISIONING" => \A r \in SR : Active(r) /\ req[r].sid = s => vol[v].tag = r
      /\ stg[s].vol = v \/ vol[v].tag # None

AllBacked == \A r \in SR : BackedOK(r)
Stored == \A s \in Stg : StorageOK(s)
Clouded == \A v \in Vol : VolumeOK(v)

Inv5 == Inv4 /\ Resting /\ AllBacked /\ Stored /\ Clouded

\* Steps that create no volume and leave the objects to whom they belong: a
\* volume may be deleted, and lose its tag once its storage names it.
Named(v) == stg[vol[v].stg].vol = v /\ Prov(vol[v].stg) # "PROVISIONING"

\* What may be written to the storage s, and the handler's copy of it.
Fit(m, s) ==
    /\ m.prov # "PROVISIONING" /\ (m.prov \in {None, "UNPROVISIONED"} => m.vol = None)
    /\ m.vol # None => m.vol \in Vol /\ vol[m.vol].stg \in {s, None}
    /\ \A v \in Vol : vol[v].stg = s => /\ m.prov = "PROVISIONED" => m.vol = v
                                        /\ m.vol = v \/ vol[v].tag # None

CopyFits(h, m, s) ==
    /\ h.pc = "call" => h.sub = "deleteVolume" /\ h.mem.prov = "UNPROVISIONING"
    /\ ~h.retry => /\ h.mem.vol # None => vol[h.mem.vol].stg \in {s, None}
                   /\ h.mem.prov = m.prov => h.mem.vol = m.vol

==============================================================================
