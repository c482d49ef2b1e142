------------------------------ MODULE MCPortal ------------------------------
EXTENDS Portal

MCQuotaPerDay == [u \in Users |-> 2]
=============================================================================
