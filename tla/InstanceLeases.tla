--------------------------- MODULE InstanceLeases ---------------------------
(***************************************************************************)
(* What a store of instances promises to those who call through it (the    *)
(* docstring of InMemoryStateStore), with no keys, no LRU order, no lock   *)
(* and no counts: who leases an instance, and what may become of it.       *)
(***************************************************************************)
CONSTANTS
    Users,   \* tasks that call
    Insts    \* instances

VARIABLES
    life,      \* "none", "starting", "live", "stopping" or "stopped"
    leases,    \* the tasks that call on each instance
    published, \* the instances a new call may get
    status     \* "open", until the store is closed

vars == <<life, leases, published, status>>

Init ==
    /\ life = [i \in Insts |-> "none"]
    /\ leases = [i \in Insts |-> {}]
    /\ published = {}
    /\ status = "open"

Become(i, what) == life' = [life EXCEPT ![i] = what]

\* A new object; its identity may be that of one that is gone.
Create(i) ==
    /\ life[i] \in {"none", "stopped"} /\ leases[i] = {}
    /\ status = "open"
    /\ Become(i, "starting")
    /\ UNCHANGED <<leases, published, status>>

\* An instance is published once it has started, never after the store has closed.
Start(i) ==
    /\ status = "open" /\ life[i] = "starting"
    /\ Become(i, "live")
    /\ published' = published \union {i}
    /\ UNCHANGED <<leases, status>>

Abandon(i) ==
    /\ life[i] = "starting"
    /\ Become(i, "stopped")
    /\ UNCHANGED <<leases, published, status>>

\* A call gets an instance that is published, and so live.
Lease(u, i) ==
    /\ status = "open" /\ i \in published
    /\ \A j \in Insts : u \notin leases[j]
    /\ leases' = [leases EXCEPT ![i] = @ \union {u}]
    /\ UNCHANGED <<life, published, status>>

Last(u, i) == status = "open" /\ i \notin published /\ leases[i] = {u}

\* The end of a call stops the instance if, and only if, it is the last one on
\* an instance that was retired meanwhile.
End(u, i) ==
    /\ u \in leases[i]
    /\ leases' = [leases EXCEPT ![i] = @ \ {u}]
    /\ IF Last(u, i) THEN Become(i, "stopping") ELSE UNCHANGED life
    /\ UNCHANGED <<published, status>>

Free(i) == leases[i] = {}

\* An instance leaves the store: it is stopped at once if, and only if, no call
\* is on it.
Retire(i) ==
    /\ i \in published
    /\ published' = published \ {i}
    /\ IF Free(i) THEN Become(i, "stopping") ELSE UNCHANGED life
    /\ UNCHANGED <<leases, status>>

Close ==
    /\ status = "open"
    /\ status' = "closed"
    /\ published' = {}
    /\ UNCHANGED <<life, leases>>

\* Once the store is closed it stops what is live, leased or not.
StopAfterClose(i) ==
    /\ status = "closed" /\ life[i] = "live"
    /\ Become(i, "stopping")
    /\ UNCHANGED <<leases, published, status>>

StopEnds(i) ==
    /\ life[i] = "stopping"
    /\ Become(i, "stopped")
    /\ UNCHANGED <<leases, published, status>>

Next ==
    \/ \E i \in Insts :
          \/ Create(i) \/ Start(i) \/ Abandon(i) \/ Retire(i)
          \/ StopAfterClose(i) \/ StopEnds(i)
          \/ \E u \in Users : Lease(u, i) \/ End(u, i)
    \/ Close

Spec == Init /\ [][Next]_vars

-----------------------------------------------------------------------------

\* "A call parked on a slice never runs on a stopped object".
LeasedIsLive ==
    \A i \in Insts : status = "open" /\ leases[i] # {} => life[i] = "live"

\* A live instance that no new call can get is still running for a call.
RetiredIsLeased ==
    \A i \in Insts :
        status = "open" /\ life[i] = "live" /\ i \notin published => leases[i] # {}

=============================================================================
