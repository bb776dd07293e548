----------------------------- MODULE PipelineMC -----------------------------
(***************************************************************************)
(* Two callers of one slice and one of another compete for the only slot   *)
(* of an endpoint in the default order; fewer go through chains with other *)
(* links or orders.                                                        *)
(***************************************************************************)
EXTENDS Pipeline

CONSTANTS k1, k2, k3, tenant1, tenant2

Tenants == [k \in Callers |-> IF k = k3 THEN tenant2 ELSE tenant1]
AllTenants == {tenant1, tenant2}

Load(c, callers) == [chain |-> c, callers |-> callers]

SomeWorkloads ==
    {Load(<<"concurrency", "retry", "timeout">>, {k1, k2, k3}),
     Load(<<"degradation", "retry", "timeout">>, {k1}),
     Load(<<"degradation", "concurrency", "timeout">>, {k1, k2}),
     Load(<<"retry", "concurrency", "timeout">>, {k1, k2}),
     Load(<<"timeout", "retry", "concurrency">>, {k1, k2}),
     Load(<<"concurrency", "retry">>, {k1, k2})}

Budget == {Never, 2}
=============================================================================
