----------------------------- MODULE MCProgress -----------------------------
(* Model checking of what everybody waits for: RequestSync, VsrAnimator    *)
(* and CriticalSection, each in its own behaviours.                        *)
EXTENDS CriticalSection

CONSTANTS t1, t2, t3, t4

VARIABLES
    part,  \* the module of this behaviour
    x1, x2, x3, x4, x5, x6, x7, x8, x9, x10, x11, x12, x13

x == <<x1, x2, x3, x4, x5, x6, x7, x8, x9, x10, x11, x12, x13>>

(* Four goroutines, two of which use the same identifier.                  *)
MCThreads == {t1, t2, t3, t4}
MCIdOf == [t \in MCThreads |-> IF t = t4 THEN t3 ELSE t]

(* One request for each way a handler may stop or go back.                 *)
Various ==
    {<<"BIND">>, <<"ALLOCATE_CAPACITY">>, <<"UNMOUNT">>, <<"RENAME">>,
     <<"VOL_SNAPSHOT_CREATE">>, <<"CREATE_FROM_SNAPSHOT">>, <<"CG_SNAPSHOT_CREATE">>}

------------------------------------------------------------------------------
S == INSTANCE RequestSync WITH
    coord <- x1, pc <- x2, phase <- x3, origGen <- x4, view <- x5,
    flagged <- x6, canceled <- x7, events <- x8, localCancel <- x9,
    expired <- x10, reached <- x11, touches <- x12, crashes <- x13,
    Peers <- {1, 2, 3}, NumPhases <- 2, MaxTouches <- 0, MaxCrashes <- 0,
    Cancelable <- FALSE

V == INSTANCE VsrAnimator WITH
    ops <- x1, db <- x2, vol <- x3, expired <- x4, seen <- x5, doneVer <- x6,
    rhs <- x7, hist <- x8, retries <- x9, faults <- x10, OpSets <- Various,
    MaxRetries <- [o \in Various |-> 1], MaxFaults <- 1, Cancelable <- Various, CanExpire <- TRUE

------------------------------------------------------------------------------
PartsInit ==
    /\ Init
    /\ \/ part = "sync" /\ S!Init
       \/ part = "vsr" /\ V!Init /\ x11 = 0 /\ x12 = 0 /\ x13 = 0
       \/ part = "guard" /\ x1 = 0 /\ x2 = 0 /\ x3 = 0 /\ x4 = 0 /\ x5 = 0 /\ x6 = 0 /\ x7 = 0 /\ x8 = 0 /\ x9 = 0 /\ x10 = 0 /\ x11 = 0 /\ x12 = 0 /\ x13 = 0

PartsNext ==
    /\ UNCHANGED part
    /\ \/ part = "sync" /\ S!Next /\ UNCHANGED vars
       \/ part = "vsr" /\ V!Next /\ UNCHANGED <<x11, x12, x13>> /\ UNCHANGED vars
       \/ part = "guard" /\ Next /\ UNCHANGED x

syncVars == S!vars
vsrVars == V!vars

(* The fairness of the modules: their FairSpec.                            *)
Fairness ==
    /\ \A p \in {1, 2, 3} : WF_syncVars(part = "sync" /\ S!Step(p))
    /\ \A p \in V!Processes :
          /\ WF_vsrVars(part = "vsr" /\ V!RunLoop(p))
          /\ WF_vsrVars(part = "vsr" /\ V!requestAnimator(p))
    /\ \A t \in Threads :
          WF_vars(part = "guard" /\ Wake(t)) /\ WF_vars(part = "guard" /\ Leave(t))
    /\ WF_vars(part = "guard" /\ DrainWakes)

PartsSpec ==
    PartsInit /\ [][PartsNext]_<<part, vars, x>> /\ Fairness

------------------------------------------------------------------------------
(* Participants that nothing disturbs get through every phase; a request   *)
(* terminates, whatever is retried, fails or restarts; a call of Enter     *)
(* returns.                                                                *)
EverythingEnds ==
    <>[](CASE part = "sync" -> S!Completed
           [] part = "vsr" -> V!Ended
           [] part = "guard" -> \A t \in Threads : ~Waiting(t))
==============================================================================
