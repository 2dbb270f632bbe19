--------------------------------- MODULE Office ---------------------------------
(***************************************************************************)
(* A tenant's back office: which role grants which permissions, who holds  *)
(* which role, and the co-owner shares that staff with the right permission *)
(* register on one ownership record.                                       *)
(*                                                                         *)
(* A request is a READ COMMITTED transaction. It reads the caller's        *)
(* permissions once, at its start; each later step is a statement that     *)
(* sees what is committed and waits for rows another request has written;  *)
(* Commit makes its writes visible.                                        *)
(***************************************************************************)
EXTENDS Naturals, FiniteSets, FiniteSetsExt

CONSTANTS
  Requests,   \* transactions in progress at the same time
  Users,      \* active users of the tenant
  Custom,     \* roles of the tenant's own
  System,     \* platform-defined roles
  SuperAdmin, \* the system role whose holders have no tenant
  Codes,      \* permission codes
  SystemCodes,\* the permissions of each system role, seeded by migrations
  Asked,      \* permission sets a request may ask for: a bound
  FirstAdmin, \* the user the tenant starts with, and the role it holds
  Admin,
  Customers,  \* candidates for co-owner
  Shares,     \* percentages a request may give (none counts as 0)
  None

Roles == Custom \cup System

ASSUME OfficeAssumption ==
  /\ Custom \cap System = {}
  /\ SuperAdmin \in System /\ Admin \in System \ {SuperAdmin}
  /\ SystemCodes \in [System -> SUBSET Codes]
  /\ Asked \subseteq SUBSET Codes
  /\ FirstAdmin \in Users
  /\ Shares \subseteq 0..100
  /\ None \notin Roles /\ None \notin Users /\ None \notin Customers /\ None \notin Shares

VARIABLES
  active,  \* roles.is_active of each role created so far
  perms,   \* role_permissions of the tenant's roles
  grants,  \* user_roles with is_active
  share,   \* property_ownership_co_owners of one ownership
  req      \* requests

vars == <<active, perms, grants, share, req>>

-----------------------------------------------------------------------------
(* Rows *)

\* saw: the co-owners its trigger summed over, those removed since left out (history).
CoOwner == [pct : Shares, saw : SUBSET Customers]
Ops == {"create", "update", "deactivate", "replace", "assign", "remove", "add", "drop"}
Steps == {"scan", "delete", "write", "commit"}
ReqRow == [op : Ops, at : Steps, ctx : SUBSET Codes, role : Roles \cup {None},
           user : Users \cup {None}, flag : BOOLEAN, codes : SUBSET Codes,
           gone : SUBSET Codes, who : Customers \cup {None}, pct : Shares \cup {None},
           saw : SUBSET Customers]
Idle == [op |-> "create", at |-> "scan", ctx |-> {}, role |-> None, user |-> None,
         flag |-> FALSE, codes |-> {}, gone |-> {}, who |-> None, pct |-> None, saw |-> {}]

\* Every variable keeps to its tables.
TypeOK ==
  /\ \E R \in SUBSET Roles : active \in [R -> BOOLEAN]
  /\ perms \subseteq Custom \X Codes
  /\ grants \subseteq Users \X Roles
  /\ \E C \in SUBSET Customers : share \in [C -> CoOwner]
  /\ req \in [Requests -> ReqRow]

Init ==
  /\ active = [k \in System |-> TRUE]
  /\ perms = {}
  /\ grants = {<<FirstAdmin, Admin>>}
  /\ share = [c \in {} |-> None]
  /\ req = [r \in Requests |-> Idle]

-----------------------------------------------------------------------------
(* Who may do what *)

CodesOf(k) == IF k \in System THEN SystemCodes[k] ELSE {c \in Codes : <<k, c>> \in perms}
Held(u) == {k \in DOMAIN active : active[k] /\ <<u, k>> \in grants}

\* The union over the roles in force of u; without one, or with a role no tenant
\* user may hold, the request is refused.
Permitted(u) == UNION {CodesOf(k) : k \in Held(u)}
Admitted(u) == Held(u) # {} /\ SuperAdmin \notin Held(u)

Free(r) == req[r] = Idle
At(r, op, step) == ~Free(r) /\ req[r].op = op /\ req[r].at = step
TablesKept == UNCHANGED <<active, perms, grants, share>>

Goto(r, step) == req' = [req EXCEPT ![r].at = step] /\ TablesKept

Allowed(u, code) == code \in Permitted(u)

\* u's request has passed the checks that precede its first write.
Begin(r, u, needs, row) ==
  /\ Free(r) /\ Admitted(u) /\ Allowed(u, needs)
  /\ req' = [req EXCEPT ![r] = [row EXCEPT !.ctx = Permitted(u)]]
  /\ TablesKept

-----------------------------------------------------------------------------
(* Roles *)

\* Names are unique: a role is created by one request at a time.
Create(r, u, k) ==
  /\ k \notin DOMAIN active
  /\ \A q \in Requests : ~(At(q, "create", "commit") /\ req[q].role = k)
  /\ Begin(r, u, "role.create", [Idle EXCEPT !.op = "create", !.at = "commit", !.role = k])

\* PATCH sets the role in or out of force without asking who holds it.
Update(r, u, k, flag) ==
  /\ k \in DOMAIN active \ System
  /\ Begin(r, u, "role.update",
           [Idle EXCEPT !.op = "update", !.at = "write", !.role = k, !.flag = flag])

\* DELETE is refused while someone holds the role, as far as the read can see.
Deactivate(r, u, k) ==
  /\ k \in DOMAIN active \ System
  /\ \A v \in Users : <<v, k>> \notin grants
  /\ Begin(r, u, "role.delete",
           [Idle EXCEPT !.op = "deactivate", !.at = "write", !.role = k])

\* The UPDATE of the role, which waits for another's.
WriteRole(r) ==
  /\ At(r, "update", "write") \/ At(r, "deactivate", "write")
  /\ \A q \in Requests : req[q].op \in {"update", "deactivate"} /\ req[q].at = "commit"
                           => req[q].role # req[r].role
  /\ Goto(r, "commit")

\* (a mutant: the requested permissions are not compared with the caller's.)
ReplaceUnchecked(r, u, k, codes) ==
  /\ k \in DOMAIN active \ System
  /\ Begin(r, u, "role.update",
           [Idle EXCEPT !.op = "replace", !.at = "scan", !.role = k, !.codes = codes])

\* A caller grants only what it holds itself.
Replace(r, u, k, codes) ==
  /\ k \in DOMAIN active \ System
  /\ codes \subseteq Permitted(u)
  /\ Begin(r, u, "role.update",
           [Idle EXCEPT !.op = "replace", !.at = "scan", !.role = k, !.codes = codes])

\* DELETE FROM role_permissions finds the committed rows ...
ScanCodes(r) ==
  /\ At(r, "replace", "scan")
  /\ req' = [req EXCEPT ![r].at = "delete", ![r].gone = CodesOf(req[r].role)]
  /\ TablesKept

\* Other replacements of the same role that have deleted or inserted its rows.
Rivals(r, step) ==
  {q \in Requests \ {r} : req[q].op = "replace" /\ req[q].role = req[r].role /\ req[q].at \in step}

\* ... waits for those that another request has deleted, and skips them if they went.
DeleteCodes(r) ==
  /\ At(r, "replace", "delete")
  /\ \A q \in Rivals(r, {"write", "commit"}) : req[q].gone \cap req[r].gone = {}
  /\ req' = [req EXCEPT ![r].at = "write", ![r].gone = @ \cap CodesOf(req[r].role)]
  /\ TablesKept

\* The INSERT waits for the same rows of another; one that is committed by now is a
\* duplicate key, and the request fails.
InsertCodes(r) ==
  /\ At(r, "replace", "write")
  /\ \A q \in Rivals(r, {"commit"}) : req[q].codes \cap req[r].codes = {}
  /\ req[r].codes \cap (CodesOf(req[r].role) \ req[r].gone) = {}
  /\ Goto(r, "commit")

-----------------------------------------------------------------------------
(* Grants: never one's own, and never the platform's super_admin *)

\* The role was read in force; it may be deactivated before the grant is written.
Assign(r, u, v, k) ==
  /\ u # v /\ k \in DOMAIN active /\ active[k] /\ k # SuperAdmin
  /\ k = Admin => "user.update" \in Permitted(u)
  /\ Begin(r, u, "user.update",
           [Idle EXCEPT !.op = "assign", !.at = "write", !.user = v, !.role = k])

Remove(r, u, v, k) ==
  /\ u # v /\ k \in Roles
  /\ Begin(r, u, "user.update",
           [Idle EXCEPT !.op = "remove", !.at = "write", !.user = v, !.role = k])

\* The upsert, or the UPDATE of an active grant, waits for another's write of the row.
WriteGrant(r) ==
  /\ At(r, "assign", "write") \/ At(r, "remove", "write")
  /\ \A q \in Requests : req[q].op \in {"assign", "remove"} /\ req[q].at = "commit"
                           => <<req[q].user, req[q].role>> # <<req[r].user, req[r].role>>
  /\ req[r].op = "remove" => <<req[r].user, req[r].role>> \in grants
  /\ Goto(r, "commit")

-----------------------------------------------------------------------------
(* Co-owner shares *)

Pct(c) == share[c].pct
Total(C) == MapThenSumSet(Pct, C)

AddCoOwner(r, u, c, pct) ==
  /\ Begin(r, u, "property_ownership.update",
           [Idle EXCEPT !.op = "add", !.at = "write", !.who = c, !.pct = pct])

\* Requests that have written c's row.
Writers(r, c) ==
  {q \in Requests \ {r} : req[q].op \in {"add", "drop"} /\ req[q].at = "commit" /\ req[q].who = c}

\* (a mutant: a BEFORE trigger, which does not see the row being inserted.)
BeforeInsert(r) == Total(DOMAIN share) <= 100

\* The trigger sums the rows that the inserting request sees: those committed and its own.
TriggerAllows(r) == Total(DOMAIN share) + req[r].pct <= 100

\* The INSERT, refused for a customer who is a co-owner already.
InsertCoOwner(r) ==
  /\ At(r, "add", "write") /\ Writers(r, req[r].who) = {}
  /\ req[r].who \notin DOMAIN share
  /\ TriggerAllows(r)
  /\ req' = [req EXCEPT ![r].at = "commit", ![r].saw = DOMAIN share]
  /\ TablesKept

DropCoOwner(r, u, c) ==
  /\ c \in DOMAIN share
  /\ Begin(r, u, "property_ownership.update",
           [Idle EXCEPT !.op = "drop", !.at = "write", !.who = c])

\* The DELETE fires the trigger too: refused while the others exceed 100.
DeleteCoOwner(r) ==
  /\ At(r, "drop", "write") /\ Writers(r, req[r].who) = {}
  /\ req[r].who \in DOMAIN share
  /\ Total(DOMAIN share \ {req[r].who}) <= 100
  /\ Goto(r, "commit")

-----------------------------------------------------------------------------
(* Ends of a request *)

ActiveAfter(x) ==
  CASE x.op = "create" -> [k \in DOMAIN active \cup {x.role} |-> k = x.role \/ active[k]]
    [] x.op = "update" -> [active EXCEPT ![x.role] = x.flag]
    [] x.op = "deactivate" -> [active EXCEPT ![x.role] = FALSE]
    [] OTHER -> active

PermsAfter(x) ==
  IF x.op = "replace" THEN (perms \ ({x.role} \X x.gone)) \cup ({x.role} \X x.codes) ELSE perms

GrantsAfter(x) ==
  CASE x.op = "assign" -> grants \cup {<<x.user, x.role>>}
    [] x.op = "remove" -> grants \ {<<x.user, x.role>>}
    [] OTHER -> grants

ShareAfter(x) ==
  CASE x.op = "add" -> [c \in DOMAIN share \cup {x.who} |->
                          IF c = x.who THEN [pct |-> x.pct, saw |-> x.saw] ELSE share[c]]
    [] x.op = "drop" -> [c \in DOMAIN share \ {x.who} |->
                          [share[c] EXCEPT !.saw = @ \ {x.who}]]
    [] OTHER -> share

Commit(r) ==
  LET x == req[r] IN
  /\ ~Free(r) /\ x.at = "commit"
  /\ active' = ActiveAfter(x) /\ perms' = PermsAfter(x)
  /\ grants' = GrantsAfter(x) /\ share' = ShareAfter(x)
  /\ req' = [q \in Requests |->
               IF q = r THEN Idle
               ELSE IF x.op = "drop" THEN [req[q] EXCEPT !.saw = @ \ {x.who}]
               ELSE req[q]]

\* A refusal, a database error or a lost connection rolls the request back.
Fail(r) == ~Free(r) /\ req' = [req EXCEPT ![r] = Idle] /\ TablesKept

Next == \E r \in Requests :
  \/ \E u \in Users, k \in Custom : Create(r, u, k) \/ Deactivate(r, u, k)
  \/ \E u \in Users, k \in Custom, flag \in BOOLEAN : Update(r, u, k, flag)
  \/ \E u \in Users, k \in Custom, codes \in Asked : Replace(r, u, k, codes)
  \/ \E u, v \in Users, k \in Roles : Assign(r, u, v, k) \/ Remove(r, u, v, k)
  \/ \E u \in Users, c \in Customers, pct \in Shares : AddCoOwner(r, u, c, pct)
  \/ \E u \in Users, c \in Customers : DropCoOwner(r, u, c)
  \/ WriteRole(r) \/ ScanCodes(r) \/ DeleteCodes(r) \/ InsertCodes(r)
  \/ WriteGrant(r) \/ InsertCoOwner(r) \/ DeleteCoOwner(r)
  \/ Commit(r) \/ Fail(r)

Spec == Init /\ [][Next]_vars

-----------------------------------------------------------------------------
(* Properties *)

\* What some system role open to a tenant's users permits.
TenantCodes == UNION {SystemCodes[k] : k \in System \ {SuperAdmin}}

\* However roles are created, edited, granted and withdrawn, and whoever delegates to
\* whom meanwhile, no role of the tenant ever permits what no tenant-held system role
\* does: each replacement is checked against permissions read at the request's start,
\* which may have been withdrawn since (replace_permissions).
TenantRolesStayTenant == \A k \in Custom : CodesOf(k) \subseteq TenantCodes

\* Co-owners each of whom was registered in sight of those before it never sum past
\* 100: only requests that raced can (add_co_owner, trg_fn_validate_co_owner_share).
InSight(C) == \A c, d \in C : c = d \/ c \in share[d].saw \/ d \in share[c].saw
SharesSeen == \A C \in SUBSET DOMAIN share : InSight(C) => Total(C) <= 100

\* "The DB only guarantees the co-owner SUM itself never exceeds 100"
\* (023_ownership_ledger.sql).
SharesWithin100 == Total(DOMAIN share) <= 100
================================================================================
