------------------------------- MODULE Crude -------------------------------
(***************************************************************************)
(* CRUD events and the loops they wake (pkg/crude, the run loops of the    *)
(* animators, of util.worker and of the request waiter).                   *)
(*                                                                         *)
(* A process of the upstream service (centrald, or clusterd for agentd)    *)
(* turns every successful write of an object into an event; a downstream   *)
(* process watches it over a web socket, gives the events to its own       *)
(* watchers and so wakes a loop, which reads the object again.  One object *)
(* stands for all; its versions are the data.  Events can be lost: they    *)
(* are sent to the watchers there are, a connection can break, and the     *)
(* loops therefore also wake up by themselves.                             *)
(***************************************************************************)
EXTENDS Naturals, Sequences, FiniteSets, TLC

CONSTANTS
    Kinds,       \* loops to consider: "animator", "worker", "waiter"
    MayStop,     \* those that are stopped in the course of the behaviour
    MaxVer,      \* bound: versions of the object
    MaxConns,    \* bound: connections the upstream monitor makes
    MaxFaults    \* bound: failed calls, broken connections, restarts

VARIABLES
    kind,    \* the loop of this behaviour
    ver,     \* version of the object in the data store
    posted,  \* versions whose write has been answered, not yet dispatched
    uw,      \* upstream watchers, one per connection
    mon,     \* upstreamMonitor: pc, attempt, connOpen, upMonStop
    dw,      \* the watcher of the loop in the downstream manager
    cl,      \* the loop
    term,    \* TerminateAllWatchers of the downstream manager
    faults

vars == <<kind, ver, posted, uw, mon, dw, cl, term, faults>>

Conns == 1..MaxConns

NoWatcher == [in |-> FALSE, active |-> FALSE, terminate |-> FALSE,
              run |-> FALSE, ceQ |-> <<>>]

(* A loop before its first pass: seen is the version it last read, due the *)
(* newest version it was notified of, held the version its goroutine has.  *)
Loop0 == [pc |-> "start", flagged |-> FALSE, seen |-> 0, due |-> 0,
          active |-> FALSE, held |-> 0, doneVer |-> 0]

Init ==
    /\ kind \in Kinds
    /\ ver = 0 /\ posted = {}
    /\ uw = [k \in Conns |-> NoWatcher @@ [wire |-> <<>>, open |-> FALSE]]
    /\ mon = [pc |-> "create", k |-> 1, connOpen |-> FALSE, stop |-> FALSE]
    /\ dw = NoWatcher
    /\ cl = Loop0
    /\ term = "no"
    /\ faults = 0

Fault == faults < MaxFaults /\ faults' = faults + 1

(***************************************************************************)
(* The upstream manager                                                    *)
(***************************************************************************)

Busy(w) == w.in /\ w.run

(* dispatchEvent appends the event to the queue of every active watcher;  *)
(* m.mux makes numbering and queueing one step.  Every watcher considered  *)
(* matches the object and may see it.                                      *)
dispatchEvent(w, ce) ==
    IF w.in /\ w.active THEN [w EXCEPT !.ceQ = Append(@, ce)] ELSE w

(* A write succeeds; its event is dispatched only after the handler has    *)
(* answered, so that another write may come in between.                    *)
Write ==
    /\ ver < MaxVer
    /\ ver' = ver + 1
    /\ posted' = posted \cup {ver + 1}
    /\ UNCHANGED <<kind, uw, mon, dw, cl, term, faults>>

CollectorMiddleware(v) ==
    /\ v \in posted
    /\ posted' = posted \ {v}
    /\ uw' = [k \in Conns |-> dispatchEvent(uw[k], v)]
    /\ UNCHANGED <<kind, ver, mon, dw, cl, term, faults>>

removeWatcher(w) == NoWatcher @@ w

mustTerminate(w) == [w EXCEPT !.terminate = TRUE]

(* purgeExpiredInLock: whatever was created and not fetched within the     *)
(* limit goes at the next activation.                                      *)
purgeExpired(W, k) ==
    [j \in Conns |-> IF j < k /\ W[j].in /\ ~W[j].active
                     THEN removeWatcher(W[j]) ELSE W[j]]

(* deliverEvents of a web socket watcher: the head of the queue is written *)
(* to the connection, outside the lock; a failed write ends the watcher.   *)
Send(k) ==
    /\ Busy(uw[k]) /\ ~uw[k].terminate /\ uw[k].ceQ # <<>>
    /\ uw' = [uw EXCEPT ![k] =
                 IF uw[k].open
                 THEN [@ EXCEPT !.wire = Append(@, Head(uw[k].ceQ)),
                                !.ceQ = Tail(@)]
                 ELSE removeWatcher(@)]
    /\ UNCHANGED <<kind, ver, posted, mon, dw, cl, term, faults>>

(* recv and pingTimer: a connection that is no longer there ends its       *)
(* watcher; deliverEvents then writes the close message and removes it.    *)
UpTerminates(k) ==
    /\ Busy(uw[k]) /\ ~uw[k].open /\ ~uw[k].terminate
    /\ uw' = [uw EXCEPT ![k] = mustTerminate(@)]
    /\ UNCHANGED <<kind, ver, posted, mon, dw, cl, term, faults>>

UpQuits(k) ==
    /\ Busy(uw[k]) /\ uw[k].terminate
    /\ uw' = [uw EXCEPT ![k] = removeWatcher(@)]
    /\ UNCHANGED <<kind, ver, posted, mon, dw, cl, term, faults>>

(* The upstream process stops and starts: watchers, connections and events *)
(* that were not dispatched are gone.                                      *)
UpRestart ==
    /\ Fault
    /\ uw' = [k \in Conns |-> [removeWatcher(uw[k]) EXCEPT !.open = FALSE]]
    /\ posted' = {}
    /\ UNCHANGED <<kind, ver, mon, dw, cl, term>>

(***************************************************************************)
(* The upstream monitor of the downstream manager                          *)
(***************************************************************************)

(* newWatcher: registered, inactive.  A call that fails ends the attempt.  *)
WatcherCreate ==
    /\ mon.pc = "create" /\ mon.k <= MaxConns
    /\ \/ /\ uw' = [uw EXCEPT ![mon.k].in = TRUE]
          /\ mon' = [mon EXCEPT !.pc = "dial"]
          /\ UNCHANGED faults
       \/ /\ Fault
          /\ mon' = [mon EXCEPT !.pc = "backoff"]
          /\ UNCHANGED uw
    /\ UNCHANGED <<kind, ver, posted, dw, cl, term>>

(* watcherFetch activates the watcher, upgrades the connection and starts  *)
(* to deliver.  The call fails when the watcher is unknown (it expired, or *)
(* the upstream process restarted) and when the connection cannot be       *)
(* upgraded: then the watcher stays active and nobody delivers its queue.  *)
Dial ==
    /\ mon.pc = "dial"
    /\ LET k == mon.k
           W == purgeExpired(uw, k)
           here == W[k].in /\ ~W[k].terminate /\ ~W[k].active
       IN  \/ /\ here
              /\ uw' = [W EXCEPT ![k].active = TRUE, ![k].run = TRUE,
                                 ![k].open = TRUE]
              /\ mon' = [mon EXCEPT !.pc = "dialed"]
              /\ UNCHANGED faults
           \/ /\ ~here
              /\ uw' = W
              /\ mon' = [mon EXCEPT !.pc = "backoff"]
              /\ UNCHANGED faults
           \/ /\ here /\ Fault
              /\ uw' \in {uw, [W EXCEPT ![k].active = TRUE]}
              /\ mon' = [mon EXCEPT !.pc = "backoff"]
    /\ UNCHANGED <<kind, ver, posted, dw, cl, term>>

(* u.connOpen is set after the dialer has returned, without connMux.       *)
ConnOpen ==
    /\ mon.pc = "dialed"
    /\ mon' = [mon EXCEPT !.pc = "read", !.connOpen = TRUE]
    /\ UNCHANGED <<kind, ver, posted, uw, dw, cl, term, faults>>

(* ReadJSON and the local dispatch; the error of a connection that is gone *)
(* (messages on their way may be lost) ends the attempt.                   *)
ReadJSON ==
    /\ mon.pc = "read"
    /\ LET k == mon.k
           w == uw[k].wire
       IN  \/ /\ w # <<>>
              /\ uw' = [uw EXCEPT ![k].wire = Tail(@)]
              /\ dw' = dispatchEvent(dw, Head(w))
              /\ UNCHANGED mon
           \/ /\ ~uw[k].open
              /\ mon' = [mon EXCEPT !.pc = "backoff", !.connOpen = FALSE]
              /\ uw' = [uw EXCEPT ![k].wire = <<>>]
              /\ UNCHANGED dw
    /\ UNCHANGED <<kind, ver, posted, cl, term, faults>>

(* The network, a proxy or a failed ping (closeConn) ends the connection.  *)
Break ==
    /\ Fault
    /\ \E k \in Conns : uw[k].open /\ uw' = [uw EXCEPT ![k].open = FALSE]
    /\ UNCHANGED <<kind, ver, posted, mon, dw, cl, term>>

(* run: another attempt after the back-off, unless it has to stop.         *)
Backoff ==
    /\ mon.pc = "backoff"
    /\ mon' = IF mon.stop THEN [mon EXCEPT !.pc = "gone"]
              ELSE [mon EXCEPT !.pc = "create", !.k = @ + 1]
    /\ UNCHANGED <<kind, ver, posted, uw, dw, cl, term, faults>>

(***************************************************************************)
(* The downstream manager: the watcher of the loop and the end of it all   *)
(***************************************************************************)

(* TerminateAllWatchers: stopInLock closes the connection if it is open,   *)
(* inactive watchers are removed, the others told to terminate ...         *)
TerminateAllWatchers ==
    /\ kind \in MayStop
    /\ term = "no" /\ cl.pc # "start" /\ cl.pc # "activate"
    /\ term' = IF mon.pc \in {"create", "dial", "dialed"} THEN "late" ELSE "wait"
    /\ mon' = [mon EXCEPT !.stop = TRUE, !.connOpen = FALSE]
    /\ uw' = IF mon.connOpen THEN [uw EXCEPT ![mon.k].open = FALSE] ELSE uw
    /\ dw' = CASE dw.in /\ ~dw.active -> removeWatcher(dw)
               [] dw.in /\ dw.active -> mustTerminate(dw)
               [] OTHER -> dw
    /\ UNCHANGED <<kind, ver, posted, cl, faults>>

(* ... and the call waits until the watchers and the monitor are gone.     *)
AllTerminated ==
    /\ term \in {"wait", "late"}
    /\ ~dw.in /\ mon.pc = "gone"
    /\ term' = "done"
    /\ UNCHANGED <<kind, ver, posted, uw, mon, dw, cl, faults>>

Notify(c) == [c EXCEPT !.flagged = TRUE]

(* skipProcessing: the request is active here, or was done here at a later *)
(* version than that of the event.                                         *)
skipProcessing(v) ==
    \/ cl.active
    \/ cl.doneVer > v

(* CrudeNotify of the loop.  Only the animators look at the event.         *)
CrudeNotify(v) ==
    IF kind = "animator" /\ skipProcessing(v) THEN cl
    ELSE [Notify(cl) EXCEPT !.due = IF v > @ THEN v ELSE @]

(* deliverEvents of the local watcher.                                     *)
Deliver ==
    /\ Busy(dw)
    /\ \/ /\ ~dw.terminate /\ dw.ceQ # <<>>
          /\ cl' = CrudeNotify(Head(dw.ceQ))
          /\ dw' = [dw EXCEPT !.ceQ = Tail(@)]
       \/ /\ dw.terminate
          /\ dw' = removeWatcher(dw)
          /\ UNCHANGED cl
    /\ UNCHANGED <<kind, ver, posted, uw, mon, term, faults>>

(***************************************************************************)
(* The loops                                                               *)
(***************************************************************************)

LoopOnly == UNCHANGED <<kind, ver, posted, uw, mon, term, faults>>

At(p) == cl.pc = p
Goto(c, p) == [c EXCEPT !.pc = p]

(* The first thing a loop does: notifyReset(true), then newWatcher.        *)
Start ==
    /\ At("start")
    /\ dw' = [NoWatcher EXCEPT !.in = TRUE]
    /\ cl' = [Goto(cl, "activate") EXCEPT !.flagged = FALSE, !.seen = ver]
    /\ LoopOnly

(* activateWatcher and the goroutine that delivers.                        *)
Watch ==
    /\ At("activate")
    /\ dw' = [dw EXCEPT !.active = TRUE, !.run = TRUE]
    /\ cl' = Goto(cl, IF kind = "waiter" THEN "check" ELSE "reset")
    /\ LoopOnly

(* Mutant: the flag is cleared after the list has been read.               *)
notifyReset_Late ==
    \/ /\ At("reset") /\ cl' = Goto(cl, IF kind = "waiter" THEN "wait"
                                        ELSE "list")
       /\ UNCHANGED dw /\ LoopOnly
    \/ /\ At("dispatch") /\ cl.flagged
       /\ cl' = [cl EXCEPT !.flagged = FALSE]
       /\ UNCHANGED dw /\ LoopOnly

(* notifyReset(false), and doneRequests emptied, before the body.          *)
notifyReset ==
    /\ At("reset")
    /\ cl' = [Goto(cl, IF kind = "waiter" THEN "wait" ELSE "list")
                 EXCEPT !.flagged = FALSE, !.doneVer = 0]
    /\ UNCHANGED dw /\ LoopOnly

(* RunBody or Buzz: the object is read.                                    *)
RunBody ==
    /\ At("list")
    /\ cl' = [Goto(cl, "dispatch") EXCEPT !.seen = ver, !.due = 0]
    /\ UNCHANGED dw /\ LoopOnly

(* DispatchRequests starts a goroutine for a request that is not active;   *)
(* whether this process has something to do is the request's business.     *)
DispatchRequests ==
    /\ At("dispatch")
    /\ \/ cl' = Goto(cl, "wait")
       \/ /\ kind = "animator" /\ ~skipProcessing(cl.seen)
          /\ cl' = [Goto(cl, "wait") EXCEPT !.active = TRUE, !.held = cl.seen]
    /\ UNCHANGED dw /\ LoopOnly

(* The goroutine updates its request (only the current version can be), or *)
(* takes over the version it finds, and in the end is done.                *)
GoroutineUpdates ==
    /\ cl.active
    /\ \/ /\ ver < MaxVer
          /\ ver' = ver + 1 /\ posted' = posted \cup {ver + 1}
          /\ cl' = [cl EXCEPT !.held = ver + 1]
       \/ /\ cl.held # ver
          /\ cl' = [cl EXCEPT !.held = ver]
          /\ UNCHANGED <<ver, posted>>
    /\ UNCHANGED <<kind, uw, mon, dw, term, faults>>

Done ==
    /\ cl.active
    /\ cl' = [cl EXCEPT !.active = FALSE, !.doneVer = cl.held,
                        !.held = 0]
    /\ UNCHANGED dw /\ LoopOnly

(* The select: the notification ...                                        *)
Awakened ==
    /\ At("wait") /\ cl.flagged
    /\ cl' = Goto(cl, IF kind = "waiter" THEN "fetch" ELSE "reset")
    /\ UNCHANGED dw /\ LoopOnly

(* Mutant: the loop waits for the notification only.                       *)
NewInterval_Never == FALSE /\ UNCHANGED vars

(* ... or the interval has passed ...                                      *)
NewInterval ==
    /\ At("wait")
    /\ cl' = Goto(cl, IF kind = "waiter" THEN "fetch" ELSE "reset")
    /\ UNCHANGED dw /\ LoopOnly

(* ... or the context ends (a loop that is stopped, a wait that expired).  *)
CtxDone ==
    /\ At("wait") /\ term # "no"
    /\ cl' = Goto(cl, "end")
    /\ UNCHANGED dw /\ LoopOnly

(* waitForRequest: fetch, then look whether the request is over.           *)
Fetch ==
    /\ At("fetch")
    /\ cl' = [Goto(cl, "check") EXCEPT !.seen = ver, !.due = 0]
    /\ UNCHANGED dw /\ LoopOnly

Check ==
    /\ At("check")
    /\ cl' = Goto(cl, IF cl.seen = MaxVer THEN "end" ELSE "reset")
    /\ dw' = IF cl.seen = MaxVer /\ dw.active THEN mustTerminate(dw) ELSE dw
    /\ LoopOnly

(* A fetch that fails, or an inspector that will not wait on the request,  *)
(* ends the wait.                                                          *)
GiveUp ==
    /\ kind = "waiter" /\ (At("fetch") \/ At("check")) /\ Fault
    /\ cl' = Goto(cl, "end")
    /\ dw' = IF dw.active THEN mustTerminate(dw) ELSE dw
    /\ UNCHANGED <<kind, ver, posted, uw, mon, term>>

------------------------------------------------------------------------------
Upstream ==
    \/ \E v \in posted : CollectorMiddleware(v)
    \/ \E k \in Conns : Send(k) \/ UpTerminates(k) \/ UpQuits(k)

Monitor == WatcherCreate \/ Dial \/ ConnOpen \/ ReadJSON \/ Backoff

LoopStep == Start \/ Watch \/ notifyReset \/ RunBody \/ DispatchRequests
            \/ Awakened \/ NewInterval \/ CtxDone \/ Fetch \/ Check

Next ==
    \/ Write \/ Upstream \/ UpRestart
    \/ Monitor \/ Break
    \/ Deliver \/ TerminateAllWatchers \/ AllTerminated
    \/ LoopStep \/ GiveUp \/ GoroutineUpdates \/ Done

(* Every goroutine runs; nobody has to write, to break or to stop.         *)
Fairness ==
    /\ WF_vars(Upstream) /\ WF_vars(Monitor)
    /\ WF_vars(Deliver) /\ WF_vars(AllTerminated)
    /\ WF_vars(LoopStep) /\ WF_vars(Done)

Spec == Init /\ [][Next]_vars /\ Fairness

------------------------------------------------------------------------------
(* A notification about a version that is newer than what the loop last    *)
(* read never finds the loop going to sleep: the flag stays set until the  *)
(* object has been read again (animator.run and worker.run reset it before *)
(* they read).                                                             *)
NotifiedIsFlagged == cl.pc = "wait" /\ cl.due > cl.seen => cl.flagged
NoLostWakeup == kind # "waiter" => NotifiedIsFlagged

(* The same of the request waiter, as its comment has it: "notifications   *)
(* while body is running will force another call" (waitForRequest).  It    *)
(* resets the flag between the fetch and the wait.                         *)
WaiterIsWoken == kind = "waiter" => NotifiedIsFlagged

(* Whatever is lost on the way (connections, events that were skipped,     *)
(* restarts of the upstream process), a loop that is not stopped ends up   *)
(* having read the last version of the object.                             *)
UpToDate == cl.seen = ver \/ cl.pc = "end" \/ cl.active

(* TerminateAllWatchers returns: every watcher and the upstream monitor    *)
(* end.  (It does not when it is called while the monitor connects: nobody *)
(* closes the connection it makes then, and it reads until that breaks.)   *)
TerminationEnds == (term = "wait") ~> (term = "done")

(* The same without the exception.                                         *)
TerminationAlwaysEnds == (term # "no") ~> (term = "done")
=============================================================================
