-------------------------------- MODULE MCOffice --------------------------------
EXTENDS Office, TLC
CONSTANTS r1, r2, u1, u2, c1, c2, c3
MCCodes == {"role.create", "role.update", "role.delete", "user.update",
            "property_ownership.update", "platform"}
MCSystem == {"super_admin", "admin"}
MCSystemCodes ==
  [k \in MCSystem |-> IF k = "super_admin" THEN MCCodes ELSE MCCodes \ {"platform"}]
\* What a deputy who edits roles and grants them needs, and a set that nobody of the
\* tenant may ask for.
MCAsked == {{"role.update", "user.update"}, {"role.update", "platform"}}
MCSymmetry == Permutations(Requests) \cup Permutations(Customers)
\* Bound: one register at a time, the other as it was at first.
Busy(ops) == \A r \in Requests : Free(r) \/ req[r].op \in ops
RolesOnly == DOMAIN share = {} /\ Busy(Ops \ {"add", "drop"})
SharesOnly == DOMAIN active = System /\ grants = {<<FirstAdmin, Admin>>} /\ Busy({"add", "drop"})
Focus == RolesOnly \/ SharesOnly
================================================================================
