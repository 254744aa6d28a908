----------------------------- MODULE MCStorePull ----------------------------
EXTENDS StorePull

\* Every order of every batch: two devices can lock two rows crosswise.
AllOrders == {o \in UNION {[1 .. n -> Items] : n \in 1 .. Cardinality(Items)} :
                \A m, n \in DOMAIN o : o[m] = o[n] => m = n}
=============================================================================
