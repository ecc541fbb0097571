------------------------------- MODULE MCSearch -------------------------------
\* Files are numbers, so that rows have an order: one list prefers new rows, the
\* other old ones.
EXTENDS Search, TLC

MCTenantOf == [r \in Requests |-> CHOOSE t \in Tenants : TRUE]
MCRank == [k \in Rankings |-> [row \in Files \X (1..MaxVersion) |->
              IF k = "ann" THEN 10 * row[2] + row[1] ELSE 10 * (MaxVersion - row[2]) + row[1]]]
Symmetry == Permutations(Requests)
================================================================================
