--------------------------- MODULE MCVsrAnimator ---------------------------
(* Model checking of VsrAnimator with the combinations of operations that  *)
(* clients request.                                                        *)
EXTENDS VsrAnimator

(* Requests that hold something that has to be given back if they fail,    *)
(* and some that give back what earlier requests hold.                     *)
Regular ==
    {<<"BIND", "MOUNT">>, <<"MOUNT", "VOL_SNAPSHOT_RESTORE">>, <<"UNMOUNT">>,
     <<"CONFIGURE">>, <<"CHANGE_CAPACITY">>, <<"ALLOCATE_CAPACITY">>,
     <<"VOL_SNAPSHOT_CREATE">>, <<"CREATE_FROM_SNAPSHOT">>,
     <<"CG_SNAPSHOT_CREATE">>, <<"NODE_DELETE">>, <<"UNMOUNT", "UNBIND">>}

(* Those that are canceled here.  Each of them is undone by one daemon     *)
(* (README, "Overlap after a cancel").                                     *)
Canceled == {<<"ALLOCATE_CAPACITY">>, <<"CG_SNAPSHOT_CREATE">>, <<"UNMOUNT">>}

(* One that has waited for storage may go back to SIZING when it is called *)
(* again.                                                                  *)
Retries ==
    [o \in Regular |-> IF Has(o, {"MOUNT", "CONFIGURE"}) THEN 2 ELSE 1]

ASSUME CanceledAssumption ==
    \A o \in Canceled : \E u \in Processes : Contained(o, u)
=============================================================================
