----------------------------- MODULE OfficeProofs -----------------------------
(***************************************************************************)
(* Delegation inside a tenant, for any number of requests, users and roles: *)
(* whatever is granted, edited and withdrawn meanwhile, nobody of the       *)
(* tenant comes by a permission that only the platform holds.               *)
(* Co-owner shares, for any number of customers and requests: only requests *)
(* that raced can pass 100 percent together.                                *)
(***************************************************************************)
EXTENDS Office, FiniteSetTheorems, WellFoundedInduction, TLAPS

\* What a request that has passed its checks asks for.
Checked(x) ==
  /\ x.op = "create" /\ x.at = "commit" => x.role \in Custom
  /\ x.op = "replace" => x.role \in Custom /\ x.codes \subseteq TenantCodes
  /\ x.op \in {"assign", "remove"} => x.user \in Users /\ x.role \in Roles
  /\ x.op = "assign" => x.role # SuperAdmin
  /\ x.op = "add" => x.who \in Customers /\ x.pct \in Shares
  /\ x.op = "drop" => x.who \in Customers

\* No user of the tenant holds the platform's role.
NobodySuper == \A u \in Users : <<u, SuperAdmin>> \notin grants

\* The inductive invariant.
OfficeInv ==
  /\ TypeOK
  /\ \A r \in Requests : Checked(req[r])
  /\ NobodySuper
  /\ TenantRolesStayTenant

-----------------------------------------------------------------------------
(* Requests *)

\* An idle request is one, and asks for nothing.
LEMMA IdleFacts == Idle \in ReqRow /\ Checked(Idle)
BY DEF Idle, ReqRow, Ops, Steps, Checked

\* A caller's permissions are a tenant's: they come from the system roles that are
\* open to it and from its own roles.
LEMMA PermittedIsTenants ==
  ASSUME TypeOK, TenantRolesStayTenant, NEW u \in Users, Admitted(u)
  PROVE  Permitted(u) \subseteq TenantCodes /\ Permitted(u) \subseteq Codes
<1>1. Held(u) \subseteq Roles /\ SuperAdmin \notin Held(u)
  BY DEF TypeOK, Held, Admitted
<1>2. \A k \in Held(u) : CodesOf(k) \subseteq TenantCodes
  BY <1>1 DEF TenantRolesStayTenant, TenantCodes, CodesOf, Roles
<1>3. TenantCodes \subseteq Codes
  BY OfficeAssumption DEF TenantCodes
<1> QED
  BY <1>2, <1>3 DEF Permitted

\* A request that begins changes nothing but its own record.
LEMMA BeginStep ==
  ASSUME OfficeInv, NEW r \in Requests, NEW u \in Users, NEW needs, NEW row \in ReqRow,
         Checked(row), Begin(r, u, needs, row)
  PROVE  OfficeInv'
<1> DEFINE new == [row EXCEPT !.ctx = Permitted(u)]
<1>1. Permitted(u) \subseteq Codes
  BY PermittedIsTenants DEF OfficeInv, Begin
<1>2. new \in ReqRow /\ Checked(new)
  BY <1>1 DEF ReqRow, Checked
<1>3. req' = [req EXCEPT ![r] = new] /\ UNCHANGED <<active, perms, grants, share>>
  BY DEF Begin, TablesKept
<1> HIDE DEF new
<1> QED
  BY <1>2, <1>3 DEF OfficeInv, TypeOK, NobodySuper, TenantRolesStayTenant, CodesOf

\* So does one that goes on, or ends without effect.
LEMMA RowStep ==
  ASSUME OfficeInv, NEW r \in Requests, NEW row \in ReqRow, Checked(row),
         req' = [req EXCEPT ![r] = row], TablesKept
  PROVE  OfficeInv'
BY DEF OfficeInv, TypeOK, NobodySuper, TenantRolesStayTenant, CodesOf, TablesKept

\* Each request begins with a record that its checks allow.
LEMMA BeginningsKeep ==
  ASSUME OfficeInv, NEW r \in Requests, NEW u \in Users
  PROVE  /\ \A k \in Custom : Create(r, u, k) \/ Deactivate(r, u, k) => OfficeInv'
         /\ \A k \in Custom, flag \in BOOLEAN : Update(r, u, k, flag) => OfficeInv'
         /\ \A k \in Custom, codes \in Asked : Replace(r, u, k, codes) => OfficeInv'
         /\ \A v \in Users, k \in Roles : Assign(r, u, v, k) \/ Remove(r, u, v, k) => OfficeInv'
         /\ \A c \in Customers, pct \in Shares : AddCoOwner(r, u, c, pct) => OfficeInv'
         /\ \A c \in Customers : DropCoOwner(r, u, c) => OfficeInv'
<1> USE DEF Idle, ReqRow, Ops, Steps, Checked
<1>1. ASSUME NEW k \in Custom, Create(r, u, k) PROVE OfficeInv'
  <2>1. [Idle EXCEPT !.op = "create", !.at = "commit", !.role = k] \in ReqRow
    BY DEF Roles
  <2> QED
    BY <1>1, <2>1, BeginStep DEF Create
<1>2. ASSUME NEW k \in Custom, Deactivate(r, u, k) PROVE OfficeInv'
  <2>1. [Idle EXCEPT !.op = "deactivate", !.at = "write", !.role = k] \in ReqRow
    BY DEF Roles
  <2> QED
    BY <1>2, <2>1, BeginStep DEF Deactivate
<1>3. ASSUME NEW k \in Custom, NEW flag \in BOOLEAN, Update(r, u, k, flag) PROVE OfficeInv'
  <2>1. [Idle EXCEPT !.op = "update", !.at = "write", !.role = k, !.flag = flag] \in ReqRow
    BY DEF Roles
  <2> QED
    BY <1>3, <2>1, BeginStep DEF Update
<1>4. ASSUME NEW k \in Custom, NEW codes \in Asked, Replace(r, u, k, codes) PROVE OfficeInv'
  <2> DEFINE row == [Idle EXCEPT !.op = "replace", !.at = "scan", !.role = k, !.codes = codes]
  <2>1. codes \subseteq TenantCodes
    BY <1>4, PermittedIsTenants DEF Replace, Begin, OfficeInv
  <2>2. row \in ReqRow /\ Checked(row)
    BY <2>1, OfficeAssumption DEF Roles
  <2> HIDE DEF row, Checked, ReqRow
  <2> QED
    BY <1>4, <2>2, BeginStep DEF Replace, row
<1>5. ASSUME NEW v \in Users, NEW k \in Roles, Assign(r, u, v, k) PROVE OfficeInv'
  <2> DEFINE row == [Idle EXCEPT !.op = "assign", !.at = "write", !.user = v, !.role = k]
  <2>1. row \in ReqRow /\ Checked(row)
    BY <1>5 DEF Assign
  <2> HIDE DEF row, Checked, ReqRow
  <2> QED
    BY <1>5, <2>1, BeginStep DEF Assign, row
<1>6. ASSUME NEW v \in Users, NEW k \in Roles, Remove(r, u, v, k) PROVE OfficeInv'
  <2> DEFINE row == [Idle EXCEPT !.op = "remove", !.at = "write", !.user = v, !.role = k]
  <2>1. row \in ReqRow /\ Checked(row)
    OBVIOUS
  <2> QED
    BY <1>6, <2>1, BeginStep DEF Remove
<1>7. ASSUME NEW c \in Customers, NEW pct \in Shares, AddCoOwner(r, u, c, pct) PROVE OfficeInv'
  <2> DEFINE row == [Idle EXCEPT !.op = "add", !.at = "write", !.who = c, !.pct = pct]
  <2>1. row \in ReqRow /\ Checked(row)
    OBVIOUS
  <2> QED
    BY <1>7, <2>1, BeginStep DEF AddCoOwner
<1>8. ASSUME NEW c \in Customers, DropCoOwner(r, u, c) PROVE OfficeInv'
  <2> DEFINE row == [Idle EXCEPT !.op = "drop", !.at = "write", !.who = c]
  <2>1. row \in ReqRow /\ Checked(row)
    OBVIOUS
  <2> QED
    BY <1>8, <2>1, BeginStep DEF DropCoOwner
<1> QED
  BY <1>1, <1>2, <1>3, <1>4, <1>5, <1>6, <1>7, <1>8

-----------------------------------------------------------------------------
(* Statements and ends *)

\* A statement moves the request on; what it found is of the right sort.
LEMMA StatementsKeep ==
  ASSUME OfficeInv, NEW r \in Requests,
         \/ WriteRole(r) \/ ScanCodes(r) \/ DeleteCodes(r) \/ InsertCodes(r)
         \/ WriteGrant(r) \/ InsertCoOwner(r) \/ DeleteCoOwner(r)
  PROVE  OfficeInv'
<1>1. req[r] \in ReqRow /\ Checked(req[r]) /\ DOMAIN req = Requests
  BY DEF OfficeInv, TypeOK
<1>2. ASSUME NEW step \in Steps, Goto(r, step), req[r].op # "create" PROVE OfficeInv'
  <2> DEFINE row == [req[r] EXCEPT !.at = step]
  <2>1. row \in ReqRow /\ Checked(row)
    BY <1>1, <1>2 DEF ReqRow, Checked
  <2>2. req' = [req EXCEPT ![r] = row] /\ TablesKept
    BY <1>2 DEF Goto
  <2> HIDE DEF row
  <2> QED
    BY <2>1, <2>2, RowStep
<1>3. CASE WriteRole(r) \/ InsertCodes(r) \/ WriteGrant(r) \/ DeleteCoOwner(r)
  BY <1>2, <1>3 DEF WriteRole, InsertCodes, WriteGrant, DeleteCoOwner, At, Steps
<1>4. CASE ScanCodes(r) \/ DeleteCodes(r)
  <2>1. req[r].role \in Custom
    BY <1>1, <1>4 DEF ScanCodes, DeleteCodes, At, Checked
  <2>2. CodesOf(req[r].role) \subseteq Codes
    BY <2>1, OfficeAssumption DEF CodesOf
  <2>3. PICK step \in {"delete", "write"}, gone \in SUBSET Codes :
           req' = [req EXCEPT ![r] = [req[r] EXCEPT !.at = step, !.gone = gone]] /\ TablesKept
    <3>1. CASE ScanCodes(r)
      BY <2>2, <3>1 DEF ScanCodes
    <3>2. CASE DeleteCodes(r)
      <4>1. req[r].gone \cap CodesOf(req[r].role) \in SUBSET Codes
        BY <2>2
      <4>2. req' = [req EXCEPT ![r] = [req[r] EXCEPT !.at = "write",
                                          !.gone = req[r].gone \cap CodesOf(req[r].role)]]
        BY <1>1, <3>2 DEF DeleteCodes, ReqRow
      <4> QED
        BY <3>2, <4>1, <4>2 DEF DeleteCodes
    <3> QED
      BY <1>4, <3>1, <3>2
  <2> DEFINE row == [req[r] EXCEPT !.at = step, !.gone = gone]
  <2>4. row \in ReqRow /\ Checked(row)
    BY <1>1, <2>3 DEF ReqRow, Checked, Steps
  <2> HIDE DEF row
  <2> QED
    BY <2>3, <2>4, RowStep DEF row
<1>5. CASE InsertCoOwner(r)
  <2> DEFINE row == [req[r] EXCEPT !.at = "commit", !.saw = DOMAIN share]
  <2>1. DOMAIN share \subseteq Customers /\ req[r].op = "add"
    BY <1>5 DEF OfficeInv, TypeOK, InsertCoOwner, At
  <2>2. row \in ReqRow /\ Checked(row)
    BY <1>1, <2>1 DEF ReqRow, Checked, Steps
  <2>3. req' = [req EXCEPT ![r] = row] /\ TablesKept
    BY <1>5 DEF InsertCoOwner
  <2> HIDE DEF row
  <2> QED
    BY <2>2, <2>3, RowStep
<1> QED
  BY <1>3, <1>4, <1>5

\* What a commit writes is of the right sort, and hands on no more than its request could.
LEMMA CommitKeeps ==
  ASSUME OfficeInv, NEW r \in Requests, Commit(r)
  PROVE  OfficeInv'
<1> DEFINE x == req[r]
<1>1. x \in ReqRow /\ Checked(x) /\ x.at = "commit"
  BY DEF OfficeInv, TypeOK, Commit
<1>2. \E R \in SUBSET Roles : active' \in [R -> BOOLEAN]
  <2>1. PICK R \in SUBSET Roles : active \in [R -> BOOLEAN]
    BY DEF OfficeInv, TypeOK
  <2>2. CASE x.op = "create"
    <3>1. active' \in [R \cup {x.role} -> BOOLEAN]
      BY <1>1, <2>1, <2>2 DEF Commit, ActiveAfter
    <3>2. R \cup {x.role} \in SUBSET Roles
      BY <1>1, <2>2 DEF Checked, Roles
    <3> QED
      BY <3>1, <3>2
  <2>3. CASE x.op # "create"
    BY <1>1, <2>1, <2>3 DEF Commit, ActiveAfter, ReqRow
  <2> QED
    BY <2>2, <2>3
<1>3. perms' \subseteq Custom \X Codes /\ TenantRolesStayTenant'
  <2>1. perms' \subseteq perms \cup ({x.role} \X x.codes)
        /\ (x.op # "replace" => perms' = perms)
    BY DEF Commit, PermsAfter
  <2>2. perms \subseteq Custom \X Codes /\ TenantRolesStayTenant
    BY DEF OfficeInv, TypeOK
  <2>3. TenantCodes \subseteq Codes
    BY OfficeAssumption DEF TenantCodes
  <2>4. \A k \in Custom, c \in Codes : <<k, c>> \in perms => c \in TenantCodes
    BY <2>2, OfficeAssumption DEF TenantRolesStayTenant, CodesOf
  <2>5. CASE x.op # "replace"
    BY <2>1, <2>2, <2>5 DEF TenantRolesStayTenant, CodesOf
  <2>6. CASE x.op = "replace"
    <3>1. x.role \in Custom /\ x.codes \subseteq TenantCodes
      BY <1>1, <2>6 DEF Checked
    <3>2. perms' \subseteq Custom \X Codes
      BY <2>1, <2>2, <2>3, <3>1
    <3>3. \A k \in Custom, c \in Codes : <<k, c>> \in perms' => c \in TenantCodes
      BY <2>1, <2>4, <3>1
    <3> QED
      BY <3>2, <3>3, OfficeAssumption DEF TenantRolesStayTenant, CodesOf
  <2> QED
    BY <2>5, <2>6
<1>4. grants' \subseteq Users \X Roles /\ NobodySuper'
  <2>1. grants' \subseteq grants \cup {<<x.user, x.role>>}
        /\ (x.op # "assign" => grants' \subseteq grants)
    BY DEF Commit, GrantsAfter
  <2>2. grants \subseteq Users \X Roles /\ NobodySuper
    BY DEF OfficeInv, TypeOK
  <2> QED
    BY <1>1, <2>1, <2>2 DEF Checked, NobodySuper
<1>5. \E C \in SUBSET Customers : share' \in [C -> CoOwner]
  <2>1. PICK C \in SUBSET Customers : share \in [C -> CoOwner]
    BY DEF OfficeInv, TypeOK
  <2>2. CASE x.op = "add"
    <3>1. [pct |-> x.pct, saw |-> x.saw] \in CoOwner /\ x.who \in Customers
      BY <1>1, <2>2 DEF Checked, ReqRow, CoOwner
    <3>2. share' \in [C \cup {x.who} -> CoOwner]
      BY <2>1, <2>2, <3>1 DEF Commit, ShareAfter
    <3> QED
      BY <3>1, <3>2
  <2>3. CASE x.op = "drop"
    <3>1. \A c \in C : [share[c] EXCEPT !.saw = @ \ {x.who}] \in CoOwner
      BY <2>1 DEF CoOwner
    <3>2. share' \in [C \ {x.who} -> CoOwner]
      BY <2>1, <2>3, <3>1 DEF Commit, ShareAfter
    <3> QED
      BY <3>2
  <2>4. CASE x.op \notin {"add", "drop"}
    BY <2>1, <2>4 DEF Commit, ShareAfter
  <2> QED
    BY <2>2, <2>3, <2>4
<1>6. \A q \in Requests : req'[q] \in ReqRow /\ Checked(req'[q])
  <2> SUFFICES ASSUME NEW q \in Requests PROVE req'[q] \in ReqRow /\ Checked(req'[q])
    OBVIOUS
  <2>1. req[q] \in ReqRow /\ Checked(req[q])
    BY DEF OfficeInv, TypeOK
  <2> DEFINE less == [req[q] EXCEPT !.saw = @ \ {x.who}]
  <2>2. less \in ReqRow /\ Checked(less)
    BY <2>1 DEF ReqRow, Checked
  <2>3. req'[q] \in {Idle, less, req[q]}
    BY DEF Commit
  <2> HIDE DEF less
  <2> QED
    BY <2>1, <2>2, <2>3, IdleFacts
<1>7. req' \in [Requests -> ReqRow]
  BY <1>6 DEF Commit
<1> QED
  BY <1>2, <1>3, <1>4, <1>5, <1>6, <1>7 DEF OfficeInv, TypeOK

-----------------------------------------------------------------------------
(* The invariant *)

\* A tenant starts with one administrator and no roles of its own.
LEMMA OfficeInit == Init => OfficeInv
<1> SUFFICES ASSUME Init PROVE OfficeInv
  OBVIOUS
<1>1. TypeOK /\ \A r \in Requests : Checked(req[r])
  <2>1. active \in [System -> BOOLEAN] /\ System \in SUBSET Roles
    BY DEF Init, Roles
  <2>2. share \in [{} -> CoOwner] /\ {} \in SUBSET Customers
    BY DEF Init
  <2>3. perms = {} /\ grants \subseteq Users \X Roles
    BY OfficeAssumption DEF Init, Roles
  <2> QED
    BY <2>1, <2>2, <2>3, IdleFacts DEF Init, TypeOK
<1>2. NobodySuper /\ TenantRolesStayTenant
  BY OfficeAssumption DEF Init, NobodySuper, TenantRolesStayTenant, CodesOf
<1> QED
  BY <1>1, <1>2 DEF OfficeInv

\* Every step keeps it.
LEMMA OfficeNext == OfficeInv /\ [Next]_vars => OfficeInv'
<1> SUFFICES ASSUME OfficeInv, [Next]_vars PROVE OfficeInv'
  OBVIOUS
<1>1. CASE UNCHANGED vars
  BY <1>1 DEF vars, OfficeInv, TypeOK, NobodySuper, TenantRolesStayTenant, CodesOf
<1>2. ASSUME NEW r \in Requests, Fail(r) PROVE OfficeInv'
  BY <1>2, IdleFacts, RowStep DEF Fail
<1>3. ASSUME NEW r \in Requests, Commit(r) PROVE OfficeInv'
  BY <1>3, CommitKeeps
<1> QED
  BY <1>1, <1>2, <1>3, BeginningsKeep, StatementsKeep DEF Next

\* The inductive invariant holds of every behaviour.
THEOREM OfficeInvariant == Spec => []OfficeInv
<1> QED
  BY OfficeInit, OfficeNext, PTL DEF Spec

\* Roles, grants, co-owners and requests keep their types.
THEOREM OfficeTyped == Spec => []TypeOK
<1>1. OfficeInv => TypeOK
  BY DEF OfficeInv
<1> QED
  BY <1>1, OfficeInvariant, PTL

\* No role of the tenant ever grants a permission of the platform (replace_permissions),
\* for any number of requests, users and roles.
THEOREM DelegationStaysInTenant == Spec => []TenantRolesStayTenant
<1>1. OfficeInv => TenantRolesStayTenant
  BY DEF OfficeInv
<1> QED
  BY <1>1, OfficeInvariant, PTL

\* Nobody of the tenant is ever given the platform's role (assign_role).
THEOREM NobodyBecomesSuper == Spec => []NobodySuper
<1>1. OfficeInv => NobodySuper
  BY DEF OfficeInv
<1> QED
  BY <1>1, OfficeInvariant, PTL

-----------------------------------------------------------------------------
(* Sums over finite sets *)

\* w gives each part of C the sum of p over it, taking one element off at a time.
One(s) == CHOOSE x \in s : TRUE
Adds(p, w, C) ==
  w = [s \in SUBSET C |-> IF s = {} THEN 0 ELSE p[One(s)] + w[s \ {One(s)}]]
SumOver(p, C) == (CHOOSE w : Adds(p, w, C))[C]

\* Induction on the parts of a finite set: among those that fail there is one
\* all of whose smaller parts succeed.
LEMMA LeastPart ==
  ASSUME NEW C, IsFiniteSet(C), NEW T, T \subseteq SUBSET C, T # {}
  PROVE  \E s \in T : \A t : t \subseteq s /\ t # s => t \notin T
<1>1. IsWellFoundedOn(StrictSubsetOrdering(C), SUBSET C)
  BY FS_StrictSubsetOrderingWellFounded, FS_FiniteSubsetsOfFinite
<1>2. \E s \in T : \A t \in T : ~ (<<t, s>> \in StrictSubsetOrdering(C))
  BY <1>1, WFMin
<1> QED
  BY <1>2 DEF StrictSubsetOrdering

\* What a sum is, part by part.
LEMMA AddsOne ==
  ASSUME NEW p, NEW w, NEW C, Adds(p, w, C), NEW s, s \subseteq C
  PROVE  /\ s = {} => w[s] = 0
         /\ s # {} => /\ One(s) \in s
                      /\ w[s] = p[One(s)] + w[s \ {One(s)}]
BY DEF Adds, One

\* The sum over a part depends on nothing but the numbers in that part.
LEMMA AddsAgree ==
  ASSUME NEW p, NEW q, NEW w, NEW v, NEW C, NEW D, IsFiniteSet(D),
         Adds(p, w, C), Adds(q, v, D), D \subseteq C,
         \A x \in D : p[x] = q[x]
  PROVE  \A s \in SUBSET D : w[s] = v[s]
<1> DEFINE T == {s \in SUBSET D : w[s] # v[s]}
<1> SUFFICES ASSUME T # {} PROVE FALSE
  OBVIOUS
<1>1. PICK s \in T : \A t : t \subseteq s /\ t # s => t \notin T
  BY LeastPart
<1>2. s \subseteq D /\ s \subseteq C /\ w[s] # v[s]
  BY <1>1
<1>3. s # {}
  BY <1>2, AddsOne
<1>4. /\ One(s) \in s
      /\ w[s] = p[One(s)] + w[s \ {One(s)}]
      /\ v[s] = q[One(s)] + v[s \ {One(s)}]
  <2>1. One(s) \in s /\ w[s] = p[One(s)] + w[s \ {One(s)}]
    BY <1>2, <1>3, AddsOne
  <2>2. v[s] = q[One(s)] + v[s \ {One(s)}]
    BY <1>2, <1>3, AddsOne
  <2> QED
    BY <2>1, <2>2
<1>5. w[s \ {One(s)}] = v[s \ {One(s)}]
  <2>1. s \ {One(s)} \subseteq s /\ s \ {One(s)} # s /\ s \ {One(s)} \in SUBSET D
    BY <1>2, <1>4
  <2>2. s \ {One(s)} \notin T
    <3> HIDE DEF T
    <3> QED
      BY <1>1, <2>1
  <2> QED
    BY <2>1, <2>2
<1>6. p[One(s)] = q[One(s)]
  BY <1>2, <1>4
<1> QED
  BY <1>2, <1>4, <1>5, <1>6

\* There is such a sum for every finite set.
LEMMA AddsExists ==
  ASSUME NEW p, NEW C, IsFiniteSet(C)
  PROVE  \E w : Adds(p, w, C)
<1> DEFINE T == {s \in SUBSET C : ~ \E w : Adds(p, w, s)}
<1> SUFFICES ASSUME T # {} PROVE FALSE
  OBVIOUS
<1>0. T \subseteq SUBSET C
  OBVIOUS
<1>1. PICK s \in T : \A t : t \subseteq s /\ t # s => t \notin T
  <2> HIDE DEF T
  <2> QED
    BY <1>0, LeastPart
<1> DEFINE W(t) == CHOOSE w : Adds(p, w, t)
           g == [t \in SUBSET s |-> IF t = {} THEN 0
                   ELSE p[One(t)] + W(t \ {One(t)})[t \ {One(t)}]]
<1>2. \A t : t \subseteq s /\ t # s => Adds(p, W(t), t) /\ IsFiniteSet(t)
  <2> SUFFICES ASSUME NEW t, t \subseteq s, t # s PROVE Adds(p, W(t), t) /\ IsFiniteSet(t)
    OBVIOUS
  <2>1. \E w : Adds(p, w, t)
    BY <1>1
  <2>2. IsFiniteSet(t)
    BY <1>1, FS_Subset
  <2> HIDE DEF T
  <2> QED
    BY <2>1, <2>2
<1>3. \A t : t # {} => One(t) \in t
  BY DEF One
<1> HIDE DEF T, W
<1>4. \A t : t \subseteq s /\ t # s => g[t] = W(t)[t]
  <2> SUFFICES ASSUME NEW t, t \subseteq s, t # s PROVE g[t] = W(t)[t]
    OBVIOUS
  <2>1. Adds(p, W(t), t)
    BY <1>2
  <2>2. CASE t = {}
    <3>1. W(t)[t] = 0
      BY <2>1, <2>2, AddsOne
    <3> QED
      BY <2>2, <3>1
  <2>3. CASE t # {}
    <3> DEFINE u == t \ {One(t)}
    <3>1. u \subseteq t /\ u \subseteq s /\ u # s
      BY <1>3, <2>3
    <3>2. Adds(p, W(u), u) /\ IsFiniteSet(u)
      BY <1>2, <3>1
    <3>3. W(t)[u] = W(u)[u]
      BY <2>1, <3>1, <3>2, AddsAgree
    <3>4. W(t)[t] = p[One(t)] + W(t)[u]
      BY <2>1, <2>3, AddsOne
    <3> QED
      BY <2>3, <3>3, <3>4
  <2> QED
    BY <2>2, <2>3
<1>5. \A t \in SUBSET s : t # {} => g[t \ {One(t)}] = W(t \ {One(t)})[t \ {One(t)}]
  <2> SUFFICES ASSUME NEW t \in SUBSET s, t # {}
               PROVE  g[t \ {One(t)}] = W(t \ {One(t)})[t \ {One(t)}]
    OBVIOUS
  <2>1. t \ {One(t)} \subseteq s /\ t \ {One(t)} # s
    BY <1>3
  <2> HIDE DEF g
  <2> QED
    BY <1>4, <2>1
<1>6. Adds(p, g, s)
  <2>1. g = [t \in SUBSET s |-> IF t = {} THEN 0
               ELSE p[One(t)] + W(t \ {One(t)})[t \ {One(t)}]]
    OBVIOUS
  <2> HIDE DEF g
  <2> QED
    BY <1>5, <2>1 DEF Adds
<1> QED
  BY <1>1, <1>6 DEF T

\* The sum over nothing is nothing; otherwise one element is taken off.
LEMMA SumUnfolds ==
  ASSUME NEW p, NEW C, IsFiniteSet(C)
  PROVE  /\ C = {} => SumOver(p, C) = 0
         /\ C # {} => /\ One(C) \in C
                      /\ SumOver(p, C) = p[One(C)] + SumOver(p, C \ {One(C)})
<1> DEFINE W(t) == CHOOSE w : Adds(p, w, t)
<1>1. \A t : SumOver(p, t) = W(t)[t]
  BY DEF SumOver
<1>2. \A t \in SUBSET C : Adds(p, W(t), t) /\ IsFiniteSet(t)
  BY AddsExists, FS_Subset
<1> HIDE DEF W
<1>3. ASSUME C # {} PROVE W(C)[C \ {One(C)}] = W(C \ {One(C)})[C \ {One(C)}]
  BY <1>2, AddsAgree
<1>4. C = {} => W(C)[C] = 0
  BY <1>2, AddsOne
<1>5. ASSUME C # {} PROVE One(C) \in C /\ W(C)[C] = p[One(C)] + W(C)[C \ {One(C)}]
  <2>1. Adds(p, W(C), C)
    BY <1>2
  <2> QED
    BY <1>5, <2>1, AddsOne
<1>6. C \ {One(C)} \in SUBSET C
  OBVIOUS
<1> QED
  BY <1>1, <1>3, <1>4, <1>5, <1>6

\* Two families of numbers that agree on a set have the same sum over it.
LEMMA SumAgrees ==
  ASSUME NEW p, NEW q, NEW C, IsFiniteSet(C), \A x \in C : p[x] = q[x]
  PROVE  SumOver(p, C) = SumOver(q, C)
<1> DEFINE w == CHOOSE w : Adds(p, w, C)
           v == CHOOSE v : Adds(q, v, C)
<1>1. Adds(p, w, C) /\ Adds(q, v, C)
  BY AddsExists
<1> HIDE DEF w, v
<1>2. w[C] = v[C]
  BY <1>1, AddsAgree
<1> QED
  BY <1>2 DEF SumOver, w, v

\* A sum of natural numbers is one.
LEMMA SumType ==
  ASSUME NEW p, NEW C, IsFiniteSet(C), \A x \in C : p[x] \in Nat
  PROVE  SumOver(p, C) \in Nat
<1> DEFINE T == {s \in SUBSET C : SumOver(p, s) \notin Nat}
<1>1. CASE T = {}
  BY <1>1
<1>2. CASE T # {}
  <2>1. T \subseteq SUBSET C
    OBVIOUS
  <2>2. PICK s \in T : \A t : t \subseteq s /\ t # s => t \notin T
    <3> HIDE DEF T
    <3> QED
      BY <1>2, <2>1, LeastPart
  <2>3. IsFiniteSet(s) /\ s \subseteq C
    BY <2>2, FS_Subset
  <2>4. s # {}
    <3>1. SumOver(p, s) \notin Nat
      BY <2>2
    <3> HIDE DEF T
    <3>2. s = {} => SumOver(p, s) = 0
      BY <2>3, SumUnfolds
    <3> QED
      BY <3>1, <3>2
  <2>5. SumOver(p, s) = p[One(s)] + SumOver(p, s \ {One(s)}) /\ One(s) \in s
    BY <2>3, <2>4, SumUnfolds
  <2>6. SumOver(p, s \ {One(s)}) \in Nat
    BY <2>2, <2>3, <2>5
  <2> QED
    BY <2>2, <2>3, <2>5, <2>6
<1> QED
  BY <1>1, <1>2

\* Any element may be taken off first: the order of the addition does not matter.
LEMMA SumTakes ==
  ASSUME NEW p, NEW C, IsFiniteSet(C), \A x \in C : p[x] \in Nat, NEW y \in C
  PROVE  SumOver(p, C) = p[y] + SumOver(p, C \ {y})
<1> DEFINE T == {s \in SUBSET C : \E z \in s : SumOver(p, s) # p[z] + SumOver(p, s \ {z})}
<1>1. CASE T = {}
  <2>1. C \notin T
    BY <1>1
  <2> QED
    BY <2>1
<1>2. CASE T # {}
  <2>1. T \subseteq SUBSET C
    OBVIOUS
  <2>2. PICK s \in T : \A t : t \subseteq s /\ t # s => t \notin T
    <3> HIDE DEF T
    <3> QED
      BY <1>2, <2>1, LeastPart
  <2>3. IsFiniteSet(s) /\ s \subseteq C
    BY <2>2, FS_Subset
  <2>4. PICK z \in s : SumOver(p, s) # p[z] + SumOver(p, s \ {z})
    BY <2>2
  <2> DEFINE c == One(s)
             u == s \ {c}
             v == s \ {z}
             b == (s \ {c}) \ {z}
  <2>5. c \in s /\ SumOver(p, s) = p[c] + SumOver(p, u)
    BY <2>3, <2>4, SumUnfolds
  <2>6. c # z
    BY <2>4, <2>5
  <2>7. \A t, x : t \subseteq s /\ t # s /\ x \in t
                   => SumOver(p, t) = p[x] + SumOver(p, t \ {x})
    BY <2>2, <2>3
  <2>8. SumOver(p, u) = p[z] + SumOver(p, b)
    <3>1. u \subseteq s /\ u # s /\ z \in u /\ u \ {z} = b
      BY <2>5, <2>6
    <3> HIDE DEF T, c, u, v, b
    <3> QED
      BY <2>7, <3>1
  <2>9. SumOver(p, v) = p[c] + SumOver(p, b)
    <3>1. v \subseteq s /\ v # s /\ c \in v /\ v \ {c} = b
      BY <2>5, <2>6
    <3> HIDE DEF T, c, u, v, b
    <3> QED
      BY <2>7, <3>1
  <2>10. SumOver(p, b) \in Nat /\ p[c] \in Nat /\ p[z] \in Nat
    <3>1. IsFiniteSet(b) /\ b \subseteq C
      BY <2>3, FS_Subset
    <3>2. \A x \in b : p[x] \in Nat
      BY <3>1
    <3>3. c \in C /\ z \in C
      BY <2>3, <2>5
    <3> HIDE DEF T, b, c
    <3> QED
      BY <3>1, <3>2, <3>3, SumType
  <2> HIDE DEF T, c, u, b
  <2> QED
    BY <2>4, <2>5, <2>8, <2>9, <2>10
<1> QED
  BY <1>1, <1>2

\* A part sums to no more than the whole.
LEMMA SumMonotonic ==
  ASSUME NEW p, NEW C, IsFiniteSet(C), \A x \in C : p[x] \in Nat, NEW D, D \subseteq C
  PROVE  SumOver(p, D) <= SumOver(p, C)
<1> DEFINE T == {s \in SUBSET C : D \subseteq s /\ ~(SumOver(p, D) <= SumOver(p, s))}
<1>1. CASE T = {}
  BY <1>1
<1>2. CASE T # {}
  <2>1. T \subseteq SUBSET C
    OBVIOUS
  <2>2. PICK s \in T : \A t : t \subseteq s /\ t # s => t \notin T
    <3> HIDE DEF T
    <3> QED
      BY <1>2, <2>1, LeastPart
  <2>3. IsFiniteSet(s) /\ s \subseteq C /\ D \subseteq s /\ ~(SumOver(p, D) <= SumOver(p, s))
    BY <2>2, FS_Subset
  <2>4. IsFiniteSet(D)
    BY FS_Subset
  <2>5. SumOver(p, D) \in Nat
    BY <2>4, SumType
  <2>6. D # s
    BY <2>3, <2>5
  <2>7. PICK y \in s : y \notin D
    BY <2>3, <2>6
  <2>8. SumOver(p, s) = p[y] + SumOver(p, s \ {y}) /\ p[y] \in Nat
    BY <2>3, SumTakes
  <2>9. SumOver(p, D) <= SumOver(p, s \ {y})
    BY <2>2, <2>3, <2>7
  <2>10. SumOver(p, s \ {y}) \in Nat
    <3>1. IsFiniteSet(s \ {y})
      BY <2>3, FS_Subset
    <3> QED
      BY <2>3, <3>1, SumType
  <2> HIDE DEF T
  <2> QED
    BY <2>3, <2>5, <2>8, <2>9, <2>10
<1> QED
  BY <1>1, <1>2

\* The trigger's total is such a sum.
Percents == [c \in DOMAIN share |-> share[c].pct]
LEMMA TotalIsSum ==
  ASSUME NEW C, IsFiniteSet(C), C \subseteq DOMAIN share
  PROVE  Total(C) = SumOver(Percents, C)
<1> DEFINE Body(w) == w = [s \in SUBSET C |->
             IF s = {} THEN 0 ELSE LET x == CHOOSE x \in s : TRUE IN Pct(x) + w[s \ {x}]]
           w == CHOOSE w : Body(w)
           v == CHOOSE v : Adds(Percents, v, C)
<1>1. Total(C) = w[C]
  BY DEF Total, MapThenSumSet, MapThenFoldSet
<1>2. Adds(Percents, v, C)
  BY AddsExists
<1>3. \A a : Adds(Percents, a, C) <=> Body(a)
  <2> SUFFICES ASSUME NEW a PROVE Adds(Percents, a, C) <=> Body(a)
    OBVIOUS
  <2>1. \A s \in SUBSET C : s # {} => One(s) \in s /\ Percents[One(s)] = Pct(One(s))
    BY DEF Percents, Pct, One
  <2>2. [s \in SUBSET C |-> IF s = {} THEN 0 ELSE Percents[One(s)] + a[s \ {One(s)}]]
        = [s \in SUBSET C |-> IF s = {} THEN 0 ELSE Pct(One(s)) + a[s \ {One(s)}]]
    BY <2>1
  <2> QED
    BY <2>2 DEF Adds, One
<1> HIDE DEF Body
<1>4. Adds(Percents, w, C)
  BY <1>2, <1>3
<1> HIDE DEF w
<1>5. w[C] = v[C]
  BY <1>2, <1>4, AddsAgree
<1> HIDE DEF v
<1> QED
  BY <1>1, <1>5 DEF SumOver, v

-----------------------------------------------------------------------------
(* Co-owner shares *)

\* A request that has inserted a co-owner, and one that has written a co-owner's row.
Added(x) == x.op = "add" /\ x.at = "commit"
Writing(x) == x.op \in {"add", "drop"} /\ x.at = "commit"

\* No two requests have written the same co-owner's row.
OneWriter ==
  \A q, r \in Requests : q # r /\ Writing(req[q]) /\ Writing(req[r]) => req[q].who # req[r].who

\* What a pending insert saw is still there, without its own row, and leaves room for it.
AddFits(x) ==
  /\ x.saw \subseteq DOMAIN share /\ x.who \notin DOMAIN share
  /\ SumOver(Percents, x.saw) + x.pct <= 100

\* Co-owners each of whom saw those before it sum to no more than 100.
SightSums == \A C \in SUBSET DOMAIN share : InSight(C) => SumOver(Percents, C) <= 100

\* The inductive invariant of the shares: a sum counts the committed rows its request
\* saw, and rows only leave it while the request is open.
ShareInv ==
  /\ IsFiniteSet(DOMAIN share)
  /\ \A d \in DOMAIN share : share[d].saw \subseteq DOMAIN share
  /\ \A r \in Requests : Added(req[r]) => AddFits(req[r])
  /\ OneWriter
  /\ SightSums

\* Percentages are natural numbers.
LEMMA PercentsNat ==
  ASSUME OfficeInv
  PROVE  /\ DOMAIN Percents = DOMAIN share
         /\ \A c \in DOMAIN share : Percents[c] = share[c].pct /\ Percents[c] \in Nat
<1>1. PICK C \in SUBSET Customers : share \in [C -> CoOwner]
  BY DEF OfficeInv, TypeOK
<1>2. \A c \in DOMAIN share : share[c].pct \in Shares
  <2>1. \A c \in DOMAIN share : share[c] \in CoOwner
    BY <1>1
  <2> QED
    BY <2>1 DEF CoOwner
<1>3. \A n \in Shares : n \in Nat
  BY OfficeAssumption
<1> QED
  BY <1>2, <1>3 DEF Percents

\* A step that leaves the table alone and lets no request reach the end of a write.
LEMMA QuietStep ==
  ASSUME ShareInv, share' = share,
         \A q \in Requests : Writing(req[q])' => req'[q] = req[q]
  PROVE  ShareInv'
<1>1. \A q \in Requests : Writing(req'[q]) => req'[q] = req[q]
  OBVIOUS
<1>2. OneWriter'
  BY <1>1 DEF ShareInv, OneWriter
<1>3. \A r \in Requests : (Added(req[r]) => AddFits(req[r]))'
  <2> SUFFICES ASSUME NEW r \in Requests, Added(req'[r]) PROVE AddFits(req[r])'
    BY DEF Added
  <2>1. req'[r] = req[r]
    BY <1>1 DEF Added, Writing
  <2>2. AddFits(req[r])
    BY <2>1 DEF ShareInv
  <2> QED
    BY <2>1, <2>2 DEF AddFits, Percents
<1> QED
  BY <1>2, <1>3 DEF ShareInv, SightSums, InSight, Percents

\* Before its commit a request writes nobody's row, but for the insert and the delete.
LEMMA QuietRow ==
  ASSUME OfficeInv, ShareInv, NEW r \in Requests, NEW row, ~Writing(row),
         req' = [req EXCEPT ![r] = row], TablesKept
  PROVE  ShareInv'
<1>1. \A q \in Requests : req'[q] = IF q = r THEN row ELSE req[q]
  BY DEF OfficeInv, TypeOK
<1> QED
  BY <1>1, QuietStep DEF TablesKept

\* A request that begins has written nothing.
LEMMA QuietBegin ==
  ASSUME OfficeInv, ShareInv, NEW r \in Requests, NEW u, NEW needs, NEW row,
         Begin(r, u, needs, row), ~Writing([row EXCEPT !.ctx = Permitted(u)])
  PROVE  ShareInv'
<1> DEFINE new == [row EXCEPT !.ctx = Permitted(u)]
<1>1. ~Writing(new)
  OBVIOUS
<1>2. req' = [req EXCEPT ![r] = new] /\ TablesKept
  BY DEF Begin
<1> HIDE DEF new
<1> QED
  BY <1>1, <1>2, QuietRow

\* So has one at any of the other statements, and one that gives up.
LEMMA QuietBeginnings ==
  ASSUME OfficeInv, ShareInv, NEW r \in Requests, NEW u \in Users
  PROVE  /\ \A k \in Custom : Create(r, u, k) \/ Deactivate(r, u, k) => ShareInv'
         /\ \A k \in Custom, flag \in BOOLEAN : Update(r, u, k, flag) => ShareInv'
         /\ \A k \in Custom, codes \in Asked : Replace(r, u, k, codes) => ShareInv'
         /\ \A v \in Users, k \in Roles : Assign(r, u, v, k) \/ Remove(r, u, v, k) => ShareInv'
         /\ \A c \in Customers, pct \in Shares : AddCoOwner(r, u, c, pct) => ShareInv'
         /\ \A c \in Customers : DropCoOwner(r, u, c) => ShareInv'
<1> USE QuietBegin DEF Writing, Idle
<1>1. ASSUME NEW k \in Custom, Create(r, u, k) PROVE ShareInv'
  BY <1>1 DEF Create
<1>2. ASSUME NEW k \in Custom, Deactivate(r, u, k) PROVE ShareInv'
  BY <1>2 DEF Deactivate
<1>3. ASSUME NEW k \in Custom, NEW flag \in BOOLEAN, Update(r, u, k, flag) PROVE ShareInv'
  BY <1>3 DEF Update
<1>4. ASSUME NEW k \in Custom, NEW codes \in Asked, Replace(r, u, k, codes) PROVE ShareInv'
  BY <1>4 DEF Replace
<1>5. ASSUME NEW v \in Users, NEW k \in Roles, Assign(r, u, v, k) PROVE ShareInv'
  BY <1>5 DEF Assign
<1>6. ASSUME NEW v \in Users, NEW k \in Roles, Remove(r, u, v, k) PROVE ShareInv'
  BY <1>6 DEF Remove
<1>7. ASSUME NEW c \in Customers, NEW pct \in Shares, AddCoOwner(r, u, c, pct) PROVE ShareInv'
  BY <1>7 DEF AddCoOwner
<1>8. ASSUME NEW c \in Customers, DropCoOwner(r, u, c) PROVE ShareInv'
  BY <1>8 DEF DropCoOwner
<1> QED
  BY <1>1, <1>2, <1>3, <1>4, <1>5, <1>6, <1>7, <1>8

\* A statement on roles or grants, or the end of a request without effect.
LEMMA QuietStatements ==
  ASSUME OfficeInv, ShareInv, NEW r \in Requests,
         \/ WriteRole(r) \/ ScanCodes(r) \/ DeleteCodes(r) \/ InsertCodes(r)
         \/ WriteGrant(r) \/ Fail(r)
  PROVE  ShareInv'
<1>1. req[r] \in ReqRow
  BY DEF OfficeInv, TypeOK
<1>2. ASSUME req[r].op \notin {"add", "drop"}, NEW step, Goto(r, step) PROVE ShareInv'
  <2> DEFINE row == [req[r] EXCEPT !.at = step]
  <2>1. ~Writing(row) /\ req' = [req EXCEPT ![r] = row] /\ TablesKept
    BY <1>1, <1>2 DEF Writing, ReqRow, Goto
  <2> HIDE DEF row
  <2> QED
    BY <2>1, QuietRow
<1>3. CASE WriteRole(r) \/ InsertCodes(r) \/ WriteGrant(r)
  BY <1>2, <1>3 DEF WriteRole, InsertCodes, WriteGrant, At
<1>4. CASE ScanCodes(r)
  <2> DEFINE row == [req[r] EXCEPT !.at = "delete", !.gone = CodesOf(req[r].role)]
  <2>1. ~Writing(row) /\ req' = [req EXCEPT ![r] = row] /\ TablesKept
    BY <1>1, <1>4 DEF Writing, ReqRow, ScanCodes
  <2> HIDE DEF row
  <2> QED
    BY <2>1, QuietRow
<1>5. CASE DeleteCodes(r)
  <2> DEFINE row == [req[r] EXCEPT !.at = "write", !.gone = @ \cap CodesOf(req[r].role)]
  <2>1. ~Writing(row) /\ req' = [req EXCEPT ![r] = row] /\ TablesKept
    BY <1>1, <1>5 DEF Writing, ReqRow, DeleteCodes
  <2> HIDE DEF row
  <2> QED
    BY <2>1, QuietRow
<1>6. CASE Fail(r)
  <2>1. ~Writing(Idle)
    BY DEF Writing, Idle
  <2> QED
    BY <1>6, <2>1, QuietRow DEF Fail
<1> QED
  BY <1>3, <1>4, <1>5, <1>6

\* Two requests at the end of a write, of which one has just got there.
LEMMA WriterStep ==
  ASSUME OfficeInv, ShareInv, NEW r \in Requests, NEW row, Writing(row),
         row.who = req[r].who, Writers(r, req[r].who) = {},
         Added(row) => AddFits(row),
         req' = [req EXCEPT ![r] = row], TablesKept
  PROVE  ShareInv'
<1>1. \A q \in Requests : req'[q] = IF q = r THEN row ELSE req[q]
  BY DEF OfficeInv, TypeOK
<1>2. \A q \in Requests \ {r} : Writing(req[q]) => req[q].who # row.who
  BY DEF Writers, Writing
<1>3. \A p, q \in Requests : p # q /\ Writing(req[p]) /\ Writing(req[q]) => req[p].who # req[q].who
  BY DEF ShareInv, OneWriter
<1>4. OneWriter'
  <2> SUFFICES ASSUME NEW p \in Requests, NEW q \in Requests, p # q,
                      Writing(req'[p]), Writing(req'[q])
               PROVE  req'[p].who # req'[q].who
    BY DEF OneWriter, Writing
  <2> QED
    BY <1>1, <1>2, <1>3
<1>5. \A q \in Requests : (Added(req[q]) => AddFits(req[q]))'
  <2> SUFFICES ASSUME NEW q \in Requests, Added(req'[q]) PROVE AddFits(req[q])'
    BY DEF Added
  <2>1. AddFits(req'[q])
    BY <1>1 DEF ShareInv
  <2> QED
    BY <2>1 DEF AddFits, Percents, TablesKept
<1> QED
  BY <1>4, <1>5 DEF ShareInv, SightSums, InSight, Percents, TablesKept

\* The insert sees the committed co-owners; the trigger leaves room for its own row.
LEMMA InsertKeeps ==
  ASSUME OfficeInv, ShareInv, NEW r \in Requests, InsertCoOwner(r)
  PROVE  ShareInv'
<1> DEFINE row == [req[r] EXCEPT !.at = "commit", !.saw = DOMAIN share]
<1>1. req[r] \in ReqRow /\ req[r].op = "add"
  BY DEF OfficeInv, TypeOK, InsertCoOwner, At
<1>2. /\ row.op = "add" /\ row.at = "commit" /\ row.saw = DOMAIN share
      /\ row.who = req[r].who /\ row.pct = req[r].pct
  BY <1>1 DEF ReqRow
<1>3. req' = [req EXCEPT ![r] = row] /\ TablesKept
  BY DEF InsertCoOwner
<1>4. Total(DOMAIN share) = SumOver(Percents, DOMAIN share)
  BY TotalIsSum DEF ShareInv
<1> HIDE DEF row
<1>5. AddFits(row)
  BY <1>2, <1>4 DEF InsertCoOwner, TriggerAllows, AddFits
<1>6. Writing(row) /\ Writers(r, req[r].who) = {}
  BY <1>2 DEF Writing, InsertCoOwner
<1> QED
  BY <1>2, <1>3, <1>5, <1>6, WriterStep

\* The delete holds its row alone.
LEMMA DeleteKeeps ==
  ASSUME OfficeInv, ShareInv, NEW r \in Requests, DeleteCoOwner(r)
  PROVE  ShareInv'
<1> DEFINE row == [req[r] EXCEPT !.at = "commit"]
<1>1. req[r] \in ReqRow /\ req[r].op = "drop"
  BY DEF OfficeInv, TypeOK, DeleteCoOwner, At
<1>2. row.op = "drop" /\ row.at = "commit" /\ row.who = req[r].who
  BY <1>1 DEF ReqRow
<1>3. req' = [req EXCEPT ![r] = row] /\ TablesKept
  BY DEF DeleteCoOwner, Goto
<1> HIDE DEF row
<1>4. Writing(row) /\ ~Added(row) /\ Writers(r, req[r].who) = {}
  BY <1>2 DEF Writing, Added, DeleteCoOwner
<1> QED
  BY <1>2, <1>3, <1>4, WriterStep

\* A commit leaves the other requests as they are, save for a co-owner it removes.
LEMMA CommitRequests ==
  ASSUME OfficeInv, ShareInv, NEW r \in Requests, Commit(r), NEW q \in Requests, Writing(req'[q])
  PROVE  /\ q # r /\ Writing(req[q])
         /\ req'[q].op = req[q].op /\ req'[q].at = req[q].at
         /\ req'[q].who = req[q].who /\ req'[q].pct = req[q].pct
         /\ req[r].op # "drop" => req'[q] = req[q]
         /\ req[r].op = "drop" => req'[q].saw = req[q].saw \ {req[r].who}
         /\ Writing(req[r]) => req[q].who # req[r].who
<1>1. req[q] \in ReqRow
  BY DEF OfficeInv, TypeOK
<1>2. q # r
  BY DEF Commit, Writing, Idle
<1>3. req'[q] = IF req[r].op = "drop" THEN [req[q] EXCEPT !.saw = @ \ {req[r].who}] ELSE req[q]
  BY <1>2 DEF Commit
<1>4. /\ req'[q].op = req[q].op /\ req'[q].at = req[q].at
      /\ req'[q].who = req[q].who /\ req'[q].pct = req[q].pct
      /\ req[r].op # "drop" => req'[q] = req[q]
      /\ req[r].op = "drop" => req'[q].saw = req[q].saw \ {req[r].who}
  BY <1>1, <1>3 DEF ReqRow
<1>5. Writing(req[q])
  BY <1>4 DEF Writing
<1> QED
  BY <1>2, <1>4, <1>5 DEF ShareInv, OneWriter

\* One co-owner's row is written by one request before and after a commit.
LEMMA CommitWriters ==
  ASSUME OfficeInv, ShareInv, NEW r \in Requests, Commit(r)
  PROVE  OneWriter'
<1> SUFFICES ASSUME NEW p \in Requests, NEW q \in Requests, p # q,
                    Writing(req'[p]), Writing(req'[q])
             PROVE  req'[p].who # req'[q].who
  BY DEF OneWriter, Writing
<1>1. Writing(req[p]) /\ Writing(req[q]) /\ req'[p].who = req[p].who /\ req'[q].who = req[q].who
  BY CommitRequests
<1> QED
  BY <1>1 DEF ShareInv, OneWriter

\* Once an insert commits, whoever saw its row has seen it committed: in any set of
\* co-owners in sight of each other that has the new one, it saw all the others.
LEMMA AddCommits ==
  ASSUME OfficeInv, ShareInv, NEW r \in Requests, Commit(r), req[r].op = "add"
  PROVE  ShareInv'
<1> DEFINE x == req[r]
           c == x.who
           D == DOMAIN share
<1>1. Added(x) /\ AddFits(x) /\ x.pct \in Nat
  <2>1. Added(x)
    BY DEF Commit, Added
  <2>2. x.pct \in Shares
    BY DEF OfficeInv, Checked
  <2>3. \A n \in Shares : n \in Nat
    BY OfficeAssumption
  <2> QED
    BY <2>1, <2>2, <2>3 DEF ShareInv
<1>2. /\ share' = [d \in D \cup {c} |-> IF d = c THEN [pct |-> x.pct, saw |-> x.saw] ELSE share[d]]
      /\ DOMAIN share' = D \cup {c}
      /\ c \notin D /\ x.saw \subseteq D
  BY <1>1 DEF Commit, ShareAfter, AddFits
<1>3. IsFiniteSet(DOMAIN share') /\ IsFiniteSet(D)
  BY <1>2, FS_AddElement DEF ShareInv
<1>4. \A d \in DOMAIN share' : share'[d].saw \subseteq DOMAIN share'
  BY <1>2 DEF ShareInv
<1>5. /\ \A d \in D : Percents'[d] = Percents[d] /\ Percents[d] \in Nat
      /\ Percents'[c] = x.pct
      /\ \A d \in D : share'[d].saw = share[d].saw
      /\ share'[c].saw = x.saw
  <2>1. \A d \in D : Percents[d] = share[d].pct /\ Percents[d] \in Nat
    BY PercentsNat
  <2>2. \A d \in DOMAIN share' : Percents'[d] = share'[d].pct
    BY DEF Percents
  <2>3. \A d \in D : share'[d] = share[d] /\ d \in DOMAIN share'
    BY <1>2
  <2>4. share'[c] = [pct |-> x.pct, saw |-> x.saw] /\ c \in DOMAIN share'
    BY <1>2
  <2> QED
    BY <2>1, <2>2, <2>3, <2>4
<1>6. \A C \in SUBSET D : IsFiniteSet(C) /\ SumOver(Percents', C) = SumOver(Percents, C)
  <2> SUFFICES ASSUME NEW C \in SUBSET D
               PROVE  IsFiniteSet(C) /\ SumOver(Percents', C) = SumOver(Percents, C)
    OBVIOUS
  <2>1. IsFiniteSet(C)
    BY <1>3, FS_Subset
  <2>2. \A d \in C : Percents'[d] = Percents[d]
    BY <1>5
  <2> QED
    BY <2>1, <2>2, SumAgrees
<1>7. SightSums'
  <2> SUFFICES ASSUME NEW C \in SUBSET DOMAIN share',
                      \A e, d \in C : e = d \/ e \in share'[d].saw \/ d \in share'[e].saw
               PROVE  SumOver(Percents', C) <= 100
    BY DEF SightSums, InSight
  <2>1. CASE c \notin C
    <3>1. C \in SUBSET D
      BY <1>2, <2>1
    <3>2. InSight(C)
      BY <1>5, <3>1 DEF InSight
    <3>3. SumOver(Percents, C) <= 100
      BY <3>1, <3>2 DEF ShareInv, SightSums
    <3> QED
      BY <1>6, <3>1, <3>3
  <2>2. CASE c \in C
    <3> DEFINE R == C \ {c}
    <3>1. R \in SUBSET D /\ IsFiniteSet(C)
      BY <1>2, <1>3, FS_Subset
    <3>2. R \subseteq x.saw
      <4> SUFFICES ASSUME NEW d \in R PROVE d \in x.saw
        OBVIOUS
      <4>1. d \in D /\ d # c /\ c \notin share[d].saw
        BY <1>2, <3>1 DEF ShareInv
      <4>2. c \in share'[d].saw \/ d \in share'[c].saw
        BY <2>2, <4>1
      <4> QED
        BY <1>5, <4>1, <4>2
    <3>3. SumOver(Percents', C) = x.pct + SumOver(Percents', R)
      <4>1. \A d \in C : Percents'[d] \in Nat
        BY <1>1, <1>2, <1>5
      <4> QED
        BY <1>5, <2>2, <3>1, <4>1, SumTakes
    <3>4. SumOver(Percents', R) = SumOver(Percents, R)
      BY <1>6, <3>1
    <3>5. /\ SumOver(Percents, R) <= SumOver(Percents, x.saw)
          /\ SumOver(Percents, R) \in Nat /\ SumOver(Percents, x.saw) \in Nat
      <4>1. \A d \in x.saw : Percents[d] \in Nat
        BY <1>2, <1>5
      <4>2. IsFiniteSet(x.saw) /\ IsFiniteSet(R)
        BY <1>2, <1>6, <3>1
      <4>3. \A d \in R : Percents[d] \in Nat
        BY <3>2, <4>1
      <4> HIDE DEF R, x
      <4> QED
        BY <3>2, <4>1, <4>2, <4>3, SumMonotonic, SumType
    <3>6. SumOver(Percents, x.saw) + x.pct <= 100
      BY <1>1 DEF AddFits
    <3> HIDE DEF R, x, c
    <3> QED
      BY <1>1, <3>3, <3>4, <3>5, <3>6
  <2> QED
    BY <2>1, <2>2
<1>8. \A q \in Requests : (Added(req[q]) => AddFits(req[q]))'
  <2> SUFFICES ASSUME NEW q \in Requests, Added(req'[q])
               PROVE  /\ req'[q].saw \subseteq DOMAIN share' /\ req'[q].who \notin DOMAIN share'
                      /\ SumOver(Percents', req'[q].saw) + req'[q].pct <= 100
    BY DEF Added, AddFits
  <2>1. req'[q] = req[q] /\ req[q].who # c
    BY <1>1, CommitRequests DEF Added, Writing
  <2>2. /\ req[q].saw \subseteq D /\ req[q].who \notin D
        /\ SumOver(Percents, req[q].saw) + req[q].pct <= 100
    BY <2>1 DEF ShareInv, AddFits
  <2>3. SumOver(Percents', req[q].saw) = SumOver(Percents, req[q].saw)
    BY <1>6, <2>2
  <2> QED
    BY <1>2, <2>1, <2>2, <2>3
<1> QED
  BY <1>3, <1>4, <1>7, <1>8, CommitWriters DEF ShareInv

\* A co-owner who leaves is taken out of what the others saw, and sums only fall.
LEMMA DropCommits ==
  ASSUME OfficeInv, ShareInv, NEW r \in Requests, Commit(r), req[r].op = "drop"
  PROVE  ShareInv'
<1> DEFINE c == req[r].who
           D == DOMAIN share
<1>1. /\ share' = [d \in D \ {c} |-> [share[d] EXCEPT !.saw = @ \ {c}]]
      /\ DOMAIN share' = D \ {c}
  BY DEF Commit, ShareAfter
<1>2. \A d \in D \ {c} : share'[d].pct = share[d].pct /\ share'[d].saw = share[d].saw \ {c}
  <2>1. \A d \in D : share[d] \in CoOwner
    BY DEF OfficeInv, TypeOK
  <2> QED
    BY <1>1, <2>1 DEF CoOwner
<1>3. IsFiniteSet(DOMAIN share') /\ IsFiniteSet(D)
  BY <1>1, FS_Subset DEF ShareInv
<1>4. \A d \in DOMAIN share' : share'[d].saw \subseteq DOMAIN share'
  BY <1>1, <1>2 DEF ShareInv
<1>5. \A d \in D \ {c} : Percents'[d] = Percents[d]
  <2>1. \A d \in D : Percents[d] = share[d].pct
    BY PercentsNat
  <2>2. \A d \in DOMAIN share' : Percents'[d] = share'[d].pct
    BY DEF Percents
  <2> QED
    BY <1>1, <1>2, <2>1, <2>2
<1>6. \A C \in SUBSET (D \ {c}) : SumOver(Percents', C) = SumOver(Percents, C)
  <2> SUFFICES ASSUME NEW C \in SUBSET (D \ {c})
               PROVE  SumOver(Percents', C) = SumOver(Percents, C)
    OBVIOUS
  <2>1. IsFiniteSet(C)
    BY <1>3, FS_Subset
  <2>2. \A d \in C : Percents'[d] = Percents[d]
    BY <1>5
  <2> QED
    BY <2>1, <2>2, SumAgrees
<1>7. SightSums'
  <2> SUFFICES ASSUME NEW C \in SUBSET DOMAIN share',
                      \A e, d \in C : e = d \/ e \in share'[d].saw \/ d \in share'[e].saw
               PROVE  SumOver(Percents', C) <= 100
    BY DEF SightSums, InSight
  <2>1. C \in SUBSET (D \ {c})
    BY <1>1
  <2>2. InSight(C)
    BY <1>2, <2>1 DEF InSight
  <2>3. SumOver(Percents, C) <= 100
    BY <2>1, <2>2 DEF ShareInv, SightSums
  <2> QED
    BY <1>6, <2>1, <2>3
<1>8. \A q \in Requests : (Added(req[q]) => AddFits(req[q]))'
  <2> SUFFICES ASSUME NEW q \in Requests, Added(req'[q])
               PROVE  /\ req'[q].saw \subseteq DOMAIN share' /\ req'[q].who \notin DOMAIN share'
                      /\ SumOver(Percents', req'[q].saw) + req'[q].pct <= 100
    BY DEF Added, AddFits
  <2> DEFINE old == req[q].saw
             new == old \ {c}
  <2>1. /\ Added(req[q]) /\ req'[q].saw = new
        /\ req'[q].who = req[q].who /\ req'[q].pct = req[q].pct
    BY CommitRequests DEF Added, Writing
  <2>2. /\ old \subseteq D /\ req[q].who \notin D
        /\ SumOver(Percents, old) + req[q].pct <= 100
    BY <2>1 DEF ShareInv, AddFits
  <2>3. SumOver(Percents', new) = SumOver(Percents, new)
    BY <1>6, <2>2
  <2>4. /\ SumOver(Percents, new) <= SumOver(Percents, old)
        /\ SumOver(Percents, new) \in Nat /\ SumOver(Percents, old) \in Nat
    <3>1. IsFiniteSet(old) /\ IsFiniteSet(new)
      BY <1>3, <2>2, FS_Subset
    <3>2. (\A d \in old : Percents[d] \in Nat) /\ (\A d \in new : Percents[d] \in Nat)
      BY <2>2, PercentsNat
    <3>3. new \subseteq old
      OBVIOUS
    <3> HIDE DEF new, old
    <3> QED
      BY <3>1, <3>2, <3>3, SumMonotonic, SumType
  <2>5. req[q].pct \in Nat
    <3>1. req[q].pct \in Shares
      BY <2>1 DEF OfficeInv, Checked, Added
    <3>2. \A n \in Shares : n \in Nat
      BY OfficeAssumption
    <3> QED
      BY <3>1, <3>2
  <2>6. new \subseteq D \ {c}
    BY <2>2
  <2> HIDE DEF new, old
  <2> QED
    BY <1>1, <2>1, <2>2, <2>3, <2>4, <2>5, <2>6
<1> QED
  BY <1>3, <1>4, <1>7, <1>8, CommitWriters DEF ShareInv

\* The commit of anything else.
LEMMA OtherCommits ==
  ASSUME OfficeInv, ShareInv, NEW r \in Requests, Commit(r), req[r].op \notin {"add", "drop"}
  PROVE  ShareInv'
<1>1. share' = share
  BY DEF Commit, ShareAfter
<1>2. \A q \in Requests : Writing(req'[q]) => req'[q] = req[q]
  BY CommitRequests
<1> QED
  BY <1>1, <1>2, QuietStep

\* Nobody is a co-owner at first.
LEMMA ShareInit == Init => ShareInv
<1> SUFFICES ASSUME Init PROVE ShareInv
  OBVIOUS
<1>1. DOMAIN share = {} /\ IsFiniteSet(DOMAIN share)
  BY FS_EmptySet DEF Init
<1>2. \A r \in Requests : ~Writing(req[r]) /\ ~Added(req[r])
  BY DEF Init, Idle, Writing, Added
<1>3. SightSums
  <2>1. SumOver(Percents, {}) = 0
    BY FS_EmptySet, SumUnfolds
  <2> QED
    BY <1>1, <2>1 DEF SightSums
<1> QED
  BY <1>1, <1>2, <1>3 DEF ShareInv, OneWriter

\* Every step keeps the invariant of the shares.
LEMMA ShareNext == OfficeInv /\ ShareInv /\ [Next]_vars => ShareInv'
<1> SUFFICES ASSUME OfficeInv, ShareInv, [Next]_vars PROVE ShareInv'
  OBVIOUS
<1>1. CASE UNCHANGED vars
  BY <1>1, QuietStep DEF vars, Writing
<1>2. ASSUME NEW r \in Requests, Commit(r) PROVE ShareInv'
  BY <1>2, AddCommits, DropCommits, OtherCommits
<1>3. ASSUME NEW r \in Requests, InsertCoOwner(r) \/ DeleteCoOwner(r) PROVE ShareInv'
  BY <1>3, InsertKeeps, DeleteKeeps
<1> QED
  BY <1>1, <1>2, <1>3, QuietBeginnings, QuietStatements DEF Next

\* Co-owners each of whom was registered in sight of those before it never sum past 100
\* (add_co_owner, trg_fn_validate_co_owner_share), however many there are, whatever is
\* removed meanwhile: only requests that raced can pass the limit.
THEOREM SharesStayInSight == Spec => []SharesSeen
<1>1. ShareInv => SharesSeen
  <2> SUFFICES ASSUME ShareInv, NEW C \in SUBSET DOMAIN share, InSight(C) PROVE Total(C) <= 100
    BY DEF SharesSeen
  <2>1. Total(C) = SumOver(Percents, C)
    BY FS_Subset, TotalIsSum DEF ShareInv
  <2> QED
    BY <2>1 DEF ShareInv, SightSums
<1> QED
  BY <1>1, OfficeInvariant, ShareInit, ShareNext, PTL DEF Spec

================================================================================
