------------------------------ MODULE MCCallJobs ------------------------------
EXTENDS CallJobs, TLC
Perm == Permutations(Schedulers) \cup Permutations(Leads)
===============================================================================
