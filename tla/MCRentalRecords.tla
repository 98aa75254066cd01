-------------------------- MODULE MCRentalRecords --------------------------
EXTENDS RentalRecords, TLC

Interchangeable ==
    Permutations(Tenants) \cup Permutations(Leases) \cup Permutations(Calls)
      \cup Permutations(Properties)
=============================================================================
