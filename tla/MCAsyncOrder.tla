---------------------------- MODULE MCAsyncOrder ----------------------------
(* Two purchases with their own or with one correlation id (a retry), and  *)
(* one restart of the adapter.                                             *)
EXTENDS AsyncOrder

CONSTANTS r1, r2, c1, c2

PurchaseRuns == {r1, r2}
CorrelationIds == {c1, c2}
OwnOrShared == {[r \in PurchaseRuns |-> c1],
                [r \in PurchaseRuns |-> IF r = r1 THEN c1 ELSE c2]}
=============================================================================
