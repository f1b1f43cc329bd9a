---------------------------- MODULE MembersProofs -----------------------------
(***************************************************************************)
(* Proofs about Members for every set of users, names, tokens, limits and  *)
(* requests: no token outlives its membership, the API fills no seat there *)
(* is not, takes the last admin away only behind its own back, and adds no *)
(* name twice but from a lookup that is out of date.                       *)
(***************************************************************************)
EXTENDS Members, FiniteSetTheorems, TLAPS

Operation == Add \cup SetRoleOf \cup RemoveUser \cup MintFor

\* What the invariant says of the rows.
RowsOK == RowsReferenced /\ UsersAreMembers /\ TokensOfMembers

\* What the invariant says of one request.
RequestOK(r) ==
    /\ pc[r] = "idle" <=> who[r] = Nothing
    /\ pc[r] \in {"idle", "authenticated"} <=> req[r] = Nothing
    /\ pc[r] \in {"named", "seated"} => req[r] \in Add
    /\ pc[r] \in {"found", "granted"} => req[r] \in SetRoleOf
    /\ pc[r] = "removing" => req[r] \in RemoveUser /\ req[r].user # who[r].user
    /\ pc[r] = "minting" => req[r] \in MintFor
    /\ pc[r] \in {"named", "seated", "found", "granted", "removing"} => IsAdmin(r)
    /\ r \in disturbed => pc[r] # "idle"
    /\ pc[r] # "idle" /\ r \notin disturbed =>
          /\ IsAdmin(r) => who[r].user \in Admins
          /\ pc[r] = "granted" => \E u \in Admins : u # req[r].user \/ req[r].role = "admin"
          /\ pc[r] \in {"named", "seated"} =>
                \A u \in Member \ ProviderUsers : name[u] # req[r].name
    /\ pc[r] = "seated" => ~Full

\* The invariant is about the rows, the lock and each request.
LEMMA InvariantParts ==
    IInv <=> /\ TypeOK /\ RowsOK /\ OneSeated
             /\ \A r \in Requests : RequestOK(r)
  BY DEF IInv, RowsOK, RequestsSound, CallersAdmin, NamesFree, SeatHeld, InFlight, RequestOK

\* The same of the next state.
LEMMA InvariantPartsNext ==
    ASSUME TypeOK', RowsOK', OneSeated', \A r \in Requests : RequestOK(r)'
    PROVE  IInv'
  BY DEF IInv, RowsOK, RequestsSound, CallersAdmin, NamesFree, SeatHeld, InFlight, RequestOK

\* Memberships can be counted.
LEMMA MembersCount ==
    ASSUME NEW roles
    PROVE  IsFiniteSet(MembersIn(roles)) /\ Cardinality(MembersIn(roles)) \in Nat
<1>1. IsFiniteSet(MembersIn(roles))
  BY UserAssumption, FS_Subset DEF MembersIn
<1>2. QED
  BY <1>1, FS_CardinalityType

\* Fewer members do not fill an org.
LEMMA FewerNotFull ==
    ASSUME TypeOK, limit' = limit, Member' \subseteq Member, ~Full
    PROVE  ~Full'
<1>1. /\ IsFiniteSet(Member) /\ Cardinality(Member) \in Nat
      /\ IsFiniteSet(Member') /\ Cardinality(Member') \in Nat
  BY MembersCount DEF Member
<1>2. Cardinality(Member') <= Cardinality(Member)
  BY <1>1, FS_Subset
<1>3. limit = NoLimit \/ limit \in Nat
  BY LimitAssumption DEF TypeOK
<1>4. QED
  BY <1>1, <1>2, <1>3 DEF Full

\* The initial states satisfy the invariant.
LEMMA InitIInv == Init => IInv
<1> SUFFICES ASSUME Init PROVE IInv
  OBVIOUS
<1>1. PICK u \in Users \ ProviderUsers, t \in Tokens :
         /\ name = [v \in Users |-> IF v = u THEN Root ELSE Nothing]
         /\ role = [v \in Users |-> IF v = u THEN "admin" ELSE "none"]
         /\ tokens = [s \in Tokens |-> IF s = t THEN u ELSE Nothing]
  BY DEF Init
<1>2. TypeOK
  BY <1>1, NameAssumption DEF Init, TypeOK, ControlPoint, Roles
<1>3. RowsOK
  BY <1>1, NameAssumption, NothingAssumption
  DEF RowsOK, RowsReferenced, UsersAreMembers, TokensOfMembers, Member, MembersIn
<1>4. \A r \in Requests : pc[r] = "idle" /\ who[r] = Nothing /\ req[r] = Nothing
  BY DEF Init
<1>5. \A r \in Requests : RequestOK(r)
  BY <1>4 DEF RequestOK, Init
<1>6. OneSeated
  BY <1>4 DEF OneSeated
<1>7. QED
  BY <1>2, <1>3, <1>5, <1>6, InvariantParts

\* A request that another step leaves where it is.
LEMMA OtherKept ==
    ASSUME NEW v \in Requests, RequestOK(v),
           pc'[v] = pc[v], who'[v] = who[v], req'[v] = req[v],
           v \in disturbed => v \in disturbed',
           v \in disturbed' => pc[v] # "idle",
           pc[v] # "idle" /\ v \notin disturbed' => Admins \subseteq Admins',
           pc[v] \in {"named", "seated"} /\ v \notin disturbed' =>
              \A u \in Member' \ ProviderUsers :
                 name'[u] # req[v].name \/ (u \in Member /\ name'[u] = name[u]),
           pc[v] = "seated" => ~Full'
    PROVE  RequestOK(v)'
  BY DEF RequestOK, IsAdmin

\* A request that changes its own state and no row.
LEMMA LocalStep ==
    ASSUME IInv, NEW r \in Requests, UNCHANGED <<name, role, tokens, limit>>,
           cache' \in [ProviderUsers \X Claims -> Roles \cup {Nothing}],
           NEW where \in ControlPoint, pc' = [pc EXCEPT ![r] = where],
           NEW id \in Identity \cup {Nothing}, who' = [who EXCEPT ![r] = id],
           NEW q \in Operation \cup {Nothing}, req' = [req EXCEPT ![r] = q],
           disturbed' \subseteq Requests, disturbed' \ {r} = disturbed \ {r},
           where = "seated" => OrgFree,
           RequestOK(r)'
    PROVE  IInv'
<1> USE InvariantParts
<1>1. TypeOK
  OBVIOUS
<1>2. TypeOK'
  BY <1>1 DEF TypeOK, Operation
<1>3. RowsOK'
  BY DEF RowsOK, RowsReferenced, UsersAreMembers, TokensOfMembers, Member
<1>4. /\ pc'[r] = where
      /\ \A v \in Requests \ {r} : pc'[v] = pc[v] /\ who'[v] = who[v] /\ req'[v] = req[v]
  BY <1>1 DEF TypeOK
<1>5. OneSeated'
  BY <1>4 DEF OneSeated, OrgFree
<1>6. Member' = Member /\ Admins' = Admins /\ Full' = Full
  BY DEF Member, Admins, Full
<1>7. ASSUME NEW v \in Requests \ {r} PROVE RequestOK(v)'
  <2>1. v \in disturbed <=> v \in disturbed'
    OBVIOUS
  <2>2. RequestOK(v)
    OBVIOUS
  <2>3. QED
    BY <1>4, <1>6, <2>1, <2>2 DEF RequestOK, IsAdmin
<1>8. QED
  BY <1>2, <1>3, <1>5, <1>7, InvariantPartsNext

\* Where a request's own records are.
LEMMA Records ==
    ASSUME TypeOK, NEW r \in Requests
    PROVE  /\ pc[r] \in ControlPoint
           /\ who[r] \in Identity \cup {Nothing}
           /\ req[r] \in Operation \cup {Nothing}
           /\ Nothing \notin Operation /\ Nothing \notin Identity
  BY RequestAssumption DEF TypeOK, Operation

\* A credential is accepted.
LEMMA TokenStep ==
    ASSUME IInv, NEW r \in Requests, NEW t \in Tokens, ByToken(r, t)
    PROVE  IInv'
<1> USE InvariantParts
<1>1. TypeOK /\ RequestOK(r) /\ pc[r] = "idle" /\ req[r] = Nothing
  BY DEF ByToken, Authenticated, RequestOK
<1> DEFINE id == [user |-> tokens[t], role |-> IF role[tokens[t]] = "none" THEN "member" ELSE role[tokens[t]],
                  token |-> t]
<1>2. id \in Identity
  BY <1>1 DEF ByToken, TypeOK, Identity, Roles
<1>3. /\ pc' = [pc EXCEPT ![r] = "authenticated"] /\ who' = [who EXCEPT ![r] = id]
      /\ UNCHANGED <<name, role, tokens, limit, cache, disturbed>>
      /\ req' = [req EXCEPT ![r] = Nothing]
  BY <1>1 DEF ByToken, Authenticated, Goto, TypeOK
<1>4. /\ pc'[r] = "authenticated" /\ who'[r] = id /\ req'[r] = Nothing
      /\ id.role = "admin" => id.user \in Admins
      /\ r \notin disturbed' /\ Admins' = Admins
  BY <1>1, <1>2, <1>3 DEF TypeOK, RequestOK, Admins, AdminsIn, ByToken
<1>5. RequestOK(r)'
  BY <1>2, <1>4, Records, <1>1 DEF RequestOK, IsAdmin
<1> HIDE DEF id
<1>6. QED
  BY <1>1, <1>2, <1>3, <1>5, LocalStep DEF TypeOK, ControlPoint

\* A JWT whose role is remembered: an admin's role is still the member's own, or the request is
\* disturbed.
LEMMA CachedJwtStep ==
    ASSUME IInv, NEW r \in Requests, NEW u \in ProviderUsers, NEW claim \in Claims,
           ByCachedJwt(r, u, claim)
    PROVE  IInv'
<1> USE InvariantParts
<1>1. TypeOK /\ RequestOK(r) /\ pc[r] = "idle" /\ req[r] = Nothing
  BY DEF ByCachedJwt, Authenticated, RequestOK
<1> DEFINE id == [user |-> u, role |-> cache[<<u, claim>>], token |-> Nothing]
<1>2. id \in Identity
  BY <1>1, UserAssumption DEF ByCachedJwt, TypeOK, Identity
<1>3. /\ pc' = [pc EXCEPT ![r] = "authenticated"] /\ who' = [who EXCEPT ![r] = id]
      /\ UNCHANGED <<name, role, tokens, limit, cache>>
      /\ req' = [req EXCEPT ![r] = Nothing]
      /\ disturbed' \subseteq Requests /\ disturbed' \ {r} = disturbed \ {r}
      /\ id.role = "admin" /\ role[u] # "admin" => r \in disturbed'
  BY <1>1 DEF ByCachedJwt, Authenticated, Goto, TypeOK
<1>4. /\ pc'[r] = "authenticated" /\ who'[r] = id /\ req'[r] = Nothing
      /\ id.role = "admin" /\ r \notin disturbed' => id.user \in Admins
      /\ Admins' = Admins
  BY <1>1, <1>2, <1>3, UserAssumption DEF TypeOK, Admins, AdminsIn
<1>5. RequestOK(r)'
  BY <1>2, <1>4, Records, <1>1 DEF RequestOK, IsAdmin
<1> HIDE DEF id
<1>6. QED
  BY <1>1, <1>2, <1>3, <1>5, LocalStep DEF TypeOK, ControlPoint

\* An answer that changes no row leaves the request with nothing.
LEMMA AnswerStep ==
    ASSUME IInv, NEW r \in Requests, Answer(r), disturbed' = disturbed \ {r}
    PROVE  /\ pc' = [pc EXCEPT ![r] = "idle"] /\ who' = [who EXCEPT ![r] = Nothing]
           /\ req' = [req EXCEPT ![r] = Nothing]
           /\ pc'[r] = "idle"
           /\ RequestOK(r)'
<1>1. TypeOK
  BY InvariantParts
<1>2. /\ pc' = [pc EXCEPT ![r] = "idle"] /\ who' = [who EXCEPT ![r] = Nothing]
      /\ req' = [req EXCEPT ![r] = Nothing]
      /\ pc'[r] = "idle" /\ who'[r] = Nothing /\ req'[r] = Nothing
  BY <1>1 DEF Answer, Goto, Ask, TypeOK
<1>3. QED
  BY <1>2 DEF RequestOK

\* A request that is given up leaves the rows as they are.
LEMMA DropStep ==
    ASSUME IInv, NEW r \in Requests, Drop(r)
    PROVE  IInv'
<1>1. /\ pc' = [pc EXCEPT ![r] = "idle"] /\ who' = [who EXCEPT ![r] = Nothing]
      /\ req' = [req EXCEPT ![r] = Nothing] /\ RequestOK(r)'
      /\ UNCHANGED <<name, role, tokens, limit, cache>> /\ disturbed' = disturbed \ {r}
  BY AnswerStep DEF Drop
<1>2. TypeOK
  BY InvariantParts
<1>3. QED
  BY <1>1, <1>2, LocalStep DEF TypeOK, ControlPoint

\* A lookup: the request learns what it is about, and no row changes.
LEMMA LookupStep ==
    ASSUME IInv, NEW r \in Requests, NEW where \in ControlPoint, Goto(r, where),
           NEW q \in Operation, Ask(r, q), pc[r] # "idle",
           UNCHANGED <<name, role, tokens, limit, cache, who, disturbed>>,
           where \notin {"idle", "authenticated"},
           where \in {"named", "seated"} => q \in Add,
           where \in {"found", "granted"} => q \in SetRoleOf,
           where = "removing" => q \in RemoveUser /\ q.user # who[r].user,
           where = "minting" => q \in MintFor,
           where # "minting" => IsAdmin(r),
           where = "granted" /\ r \notin disturbed =>
              \E u \in Admins : u # q.user \/ q.role = "admin",
           where \in {"named", "seated"} /\ r \notin disturbed =>
              \A u \in Member \ ProviderUsers : name[u] # q.name,
           where = "seated" => OrgFree /\ ~Full
    PROVE  IInv'
<1>1. TypeOK /\ RequestOK(r)
  BY InvariantParts
<1>2. /\ pc' = [pc EXCEPT ![r] = where] /\ req' = [req EXCEPT ![r] = q]
      /\ pc'[r] = where /\ req'[r] = q /\ who'[r] = who[r]
      /\ who' = [who EXCEPT ![r] = who[r]] /\ who[r] \in Identity \cup {Nothing}
  BY <1>1 DEF Goto, Ask, TypeOK
<1>3. /\ Member' = Member /\ Admins' = Admins /\ Full' = Full
      /\ IsAdmin(r)' = IsAdmin(r)
  BY <1>2 DEF Member, Admins, Full, IsAdmin
<1>4. q # Nothing
  BY <1>1, Records
<1>5. RequestOK(r)'
  BY <1>1, <1>2, <1>3, <1>4 DEF RequestOK
<1>6. QED
  BY <1>1, <1>2, <1>5, LocalStep DEF TypeOK

\* With two admins, one is not the user a request is about.
LEMMA AnotherAdmin ==
    ASSUME NEW u, Cardinality(Admins) > 1
    PROVE  \E v \in Admins : v # u
<1> SUFFICES ASSUME Admins \subseteq {u} PROVE FALSE
  OBVIOUS
<1>1. IsFiniteSet({u}) /\ Cardinality({u}) = 1
  BY FS_Singleton
<1>2. IsFiniteSet(Admins) /\ Cardinality(Admins) <= 1
  BY <1>1, FS_Subset
<1>3. Cardinality(Admins) \in Nat
  BY <1>2, FS_CardinalityType
<1>4. QED
  BY <1>2, <1>3

\* The name is looked up, then the seats are counted under the org's row.
LEMMA AddSteps ==
    ASSUME IInv, NEW r \in Requests, FindName(r) \/ LockSeats(r)
    PROVE  IInv'
<1>1. TypeOK /\ RequestOK(r)
  BY InvariantParts
<1>2. CASE FindName(r)
  <2>1. PICK q \in Add : NameFree(q.name) /\ Ask(r, q)
    BY <1>2 DEF FindName
  <2>2. /\ q \in Operation /\ Goto(r, "named") /\ pc[r] = "authenticated" /\ IsAdmin(r)
        /\ "named" \in ControlPoint
        /\ UNCHANGED <<name, role, tokens, limit, cache, who, disturbed>>
        /\ \A u \in Member : name[u] # q.name
    BY <1>2, <2>1 DEF FindName, Operation, ControlPoint, NameFree
  <2>3. QED
    BY <2>1, <2>2, LookupStep
<1>3. CASE LockSeats(r)
  <2>1. req[r] \in Add /\ req[r] \in Operation /\ IsAdmin(r) /\ Ask(r, req[r])
    BY <1>1, <1>3 DEF RequestOK, LockSeats, Operation, Ask, TypeOK
  <2>2. /\ Goto(r, "seated") /\ pc[r] = "named" /\ "seated" \in ControlPoint
        /\ UNCHANGED <<name, role, tokens, limit, cache, who, disturbed>>
        /\ OrgFree /\ ~Full
    BY <1>3 DEF LockSeats, ControlPoint
  <2>3. r \notin disturbed => \A u \in Member \ ProviderUsers : name[u] # req[r].name
    BY <1>1, <2>2 DEF RequestOK
  <2>4. QED
    BY <2>1, <2>2, <2>3, LookupStep
<1>4. QED
  BY <1>2, <1>3

\* The role is looked up, then the admins are counted; neither is read again.
LEMMA RoleSteps ==
    ASSUME IInv, NEW r \in Requests, FindForRole(r) \/ CountAdmins(r)
    PROVE  IInv'
<1>1. TypeOK /\ RequestOK(r)
  BY InvariantParts
<1>2. CASE FindForRole(r)
  <2>1. PICK u \in Member, to \in Roles :
           /\ Ask(r, [op |-> "role", user |-> u, role |-> to])
           /\ Goto(r, IF role[u] = "admin" /\ to # "admin" THEN "found" ELSE "granted")
    BY <1>2 DEF FindForRole
  <2> DEFINE q == [op |-> "role", user |-> u, role |-> to]
             where == IF role[u] = "admin" /\ to # "admin" THEN "found" ELSE "granted"
  <2>2. q \in SetRoleOf /\ q \in Operation
    BY DEF SetRoleOf, Operation, Member, MembersIn
  <2>3. /\ pc[r] = "authenticated" /\ IsAdmin(r)
        /\ UNCHANGED <<name, role, tokens, limit, cache, who, disturbed>>
    BY <1>2 DEF FindForRole
  <2>4. where = "granted" /\ r \notin disturbed =>
           \E v \in Admins : v # q.user \/ q.role = "admin"
    <3> SUFFICES ASSUME where = "granted", r \notin disturbed
                 PROVE  \E v \in Admins : v # u \/ to = "admin"
      OBVIOUS
    <3>1. who[r].user \in Admins
      BY <1>1, <2>3 DEF RequestOK
    <3>2. role[who[r].user] = "admin"
      BY <3>1 DEF Admins, AdminsIn
    <3>3. QED
      BY <3>1, <3>2
  <2>5. where \in {"found", "granted"} /\ where \in ControlPoint
    BY DEF ControlPoint
  <2>6. Goto(r, where) /\ Ask(r, q)
    BY <2>1
  <2> HIDE DEF q, where
  <2>7. QED
    BY <2>2, <2>3, <2>4, <2>5, <2>6, LookupStep
<1>3. CASE CountAdmins(r)
  <2>1. req[r] \in SetRoleOf /\ req[r] \in Operation /\ IsAdmin(r) /\ Ask(r, req[r])
    BY <1>1, <1>3 DEF RequestOK, CountAdmins, OthersAdmin, Operation, Ask, TypeOK
  <2>2. /\ Goto(r, "granted") /\ pc[r] = "found" /\ "granted" \in ControlPoint
        /\ UNCHANGED <<name, role, tokens, limit, cache, who, disturbed>>
        /\ Cardinality(Admins) > 1
    BY <1>3 DEF CountAdmins, OthersAdmin, ControlPoint
  <2>3. \E v \in Admins : v # req[r].user
    BY <2>2, AnotherAdmin
  <2>4. QED
    BY <2>1, <2>2, <2>3, LookupStep
<1>4. QED
  BY <1>2, <1>3

\* The member to be removed is looked up, and is not the caller.
LEMMA RemovalStep ==
    ASSUME IInv, NEW r \in Requests, FindForRemoval(r)
    PROVE  IInv'
<1>1. PICK u \in Member \ {who[r].user} : Ask(r, [op |-> "remove", user |-> u])
  BY DEF FindForRemoval
<1> DEFINE q == [op |-> "remove", user |-> u]
<1>2. q \in RemoveUser /\ q \in Operation /\ q.user # who[r].user /\ Ask(r, q)
  BY <1>1 DEF RemoveUser, Operation, Member, MembersIn
<1>3. /\ Goto(r, "removing") /\ pc[r] = "authenticated" /\ "removing" \in ControlPoint /\ IsAdmin(r)
      /\ UNCHANGED <<name, role, tokens, limit, cache, who, disturbed>>
  BY DEF FindForRemoval, ControlPoint
<1> HIDE DEF q
<1>4. QED
  BY <1>2, <1>3, LookupStep

\* The member a token is for is looked up.
LEMMA MintLookupStep ==
    ASSUME IInv, NEW r \in Requests, FindForMint(r)
    PROVE  IInv'
<1>1. TypeOK /\ RequestOK(r) /\ pc[r] = "authenticated"
  BY InvariantParts DEF FindForMint
<1>2. PICK u \in {who[r].user} \cup Member : Ask(r, [op |-> "mint", user |-> u])
  BY DEF FindForMint
<1>3. u \in Users
  BY <1>1, Records DEF RequestOK, Identity, Member, MembersIn
<1> DEFINE q == [op |-> "mint", user |-> u]
<1>4. q \in MintFor /\ q \in Operation /\ Ask(r, q)
  BY <1>2, <1>3 DEF MintFor, Operation
<1>5. /\ Goto(r, "minting") /\ "minting" \in ControlPoint
      /\ UNCHANGED <<name, role, tokens, limit, cache, who, disturbed>>
  BY DEF FindForMint, ControlPoint
<1> HIDE DEF q
<1>6. QED
  BY <1>1, <1>4, <1>5, LookupStep

\* A step that changes rows: the requests M move, and the others have read
\* nothing that it makes untrue.
LEMMA WriteStep ==
    ASSUME IInv, TypeOK', RowsOK', NEW M \in SUBSET Requests,
           \A v \in M : RequestOK(v)' /\ pc'[v] # "seated",
           \A v \in Requests \ M : pc'[v] = pc[v] /\ who'[v] = who[v] /\ req'[v] = req[v],
           \A v \in Requests \ M :
              /\ v \in disturbed => v \in disturbed'
              /\ v \in disturbed' => pc[v] # "idle"
              /\ pc[v] # "idle" /\ v \notin disturbed' => Admins \subseteq Admins'
              /\ pc[v] \in {"named", "seated"} /\ v \notin disturbed' =>
                    \A u \in Member' \ ProviderUsers :
                       name'[u] # req[v].name \/ (u \in Member /\ name'[u] = name[u])
              /\ pc[v] = "seated" => ~Full'
    PROVE  IInv'
<1>1. OneSeated'
  BY InvariantParts DEF OneSeated
<1>2. ASSUME NEW v \in Requests PROVE RequestOK(v)'
  <2>1. CASE v \in M
    BY <2>1
  <2>2. CASE v \notin M
    BY <2>2, OtherKept, InvariantParts
  <2>3. QED
    BY <2>1, <2>2
<1>3. QED
  BY <1>1, <1>2, InvariantPartsNext

\* The same of one request.
LEMMA MoveStep ==
    ASSUME IInv, TypeOK', RowsOK', NEW r \in Requests, RequestOK(r)', pc'[r] # "seated",
           \A v \in Requests \ {r} : pc'[v] = pc[v] /\ who'[v] = who[v] /\ req'[v] = req[v],
           \A v \in Requests \ {r} :
              /\ v \in disturbed => v \in disturbed'
              /\ v \in disturbed' => pc[v] # "idle"
              /\ pc[v] # "idle" /\ v \notin disturbed' => Admins \subseteq Admins'
              /\ pc[v] \in {"named", "seated"} /\ v \notin disturbed' =>
                    \A u \in Member' \ ProviderUsers :
                       name'[u] # req[v].name \/ (u \in Member /\ name'[u] = name[u])
              /\ pc[v] = "seated" => ~Full'
    PROVE  IInv'
<1> DEFINE M == {r}
<1>1. M \in SUBSET Requests /\ \A v \in M : RequestOK(v)' /\ pc'[v] # "seated"
  OBVIOUS
<1>2. Requests \ M = Requests \ {r}
  OBVIOUS
<1> HIDE DEF M
<1>3. QED
  BY <1>1, <1>2, WriteStep

\* An answer that changes rows: what is left to show.
LEMMA AnswerWrites ==
    ASSUME IInv, NEW r \in Requests, Answer(r), r \notin disturbed'
    PROVE  /\ pc' \in [Requests -> ControlPoint]
           /\ who' \in [Requests -> Identity \cup {Nothing}]
           /\ req' \in [Requests -> Operation \cup {Nothing}]
           /\ RequestOK(r)' /\ pc'[r] = "idle"
           /\ \A v \in Requests \ {r} : pc'[v] = pc[v] /\ who'[v] = who[v] /\ req'[v] = req[v]
<1>1. TypeOK
  BY InvariantParts
<1>2. /\ pc'[r] = "idle" /\ who'[r] = Nothing /\ req'[r] = Nothing
      /\ \A v \in Requests \ {r} : pc'[v] = pc[v] /\ who'[v] = who[v] /\ req'[v] = req[v]
      /\ pc' \in [Requests -> ControlPoint]
      /\ who' \in [Requests -> Identity \cup {Nothing}]
      /\ req' \in [Requests -> Operation \cup {Nothing}]
  BY <1>1 DEF Answer, Goto, Ask, TypeOK, ControlPoint, Operation
<1>3. QED
  BY <1>2 DEF RequestOK

\* A token is inserted or deleted.
LEMMA TokenWriteSteps ==
    ASSUME IInv, NEW r \in Requests, Mint(r) \/ Revoke(r)
    PROVE  IInv'
<1>1. TypeOK /\ RowsOK /\ RequestOK(r)
  BY InvariantParts
<1>2. Answer(r) /\ disturbed' = disturbed \ {r} /\ UNCHANGED <<name, role, limit, cache>>
  BY DEF Mint, Revoke
<1>3. \E t \in Tokens, u \in Users \cup {Nothing} :
         /\ tokens' = [tokens EXCEPT ![t] = u]
         /\ u # Nothing => name[u] # Nothing
  <2>1. CASE Mint(r)
    <3>1. req[r] \in MintFor /\ name[req[r].user] # Nothing
      BY <1>1, <2>1 DEF Mint, RequestOK
    <3>2. req[r].user \in Users
      BY <3>1 DEF MintFor
    <3>3. QED
      BY <2>1, <3>1, <3>2 DEF Mint
  <2>2. CASE Revoke(r)
    BY <2>2 DEF Revoke
  <2>3. QED
    BY <2>1, <2>2
<1>4. PICK t \in Tokens, u \in Users \cup {Nothing} :
         tokens' = [tokens EXCEPT ![t] = u] /\ (u # Nothing => name[u] # Nothing)
  BY <1>3
<1>5. Member' = Member /\ Admins' = Admins /\ Full' = Full
  BY <1>2 DEF Member, Admins, Full
<1>6. RowsOK'
  <2>1. RowsReferenced'
    BY <1>1, <1>2, <1>4, <1>5 DEF RowsOK, RowsReferenced, TypeOK
  <2>2. UsersAreMembers'
    BY <1>1, <1>2, <1>5 DEF RowsOK, UsersAreMembers
  <2>3. TokensOfMembers'
    BY <1>1, <1>2, <1>4, <1>5, NothingAssumption DEF RowsOK, UsersAreMembers, TokensOfMembers, TypeOK
  <2>4. QED
    BY <2>1, <2>2, <2>3 DEF RowsOK
<1>7. r \notin disturbed'
  BY <1>2
<1>8. TypeOK'
  <2>1. tokens' \in [Tokens -> Users \cup {Nothing}]
    BY <1>1, <1>4 DEF TypeOK
  <2>2. QED
    BY <1>1, <1>2, <1>7, <2>1, AnswerWrites DEF TypeOK, Operation
<1>9. ASSUME NEW v \in Requests \ {r}
      PROVE  /\ v \in disturbed <=> v \in disturbed'
             /\ v \in disturbed => pc[v] # "idle"
             /\ pc[v] = "seated" => ~Full
  BY <1>2, InvariantParts DEF RequestOK
<1>10. QED
  BY <1>2, <1>5, <1>6, <1>7, <1>8, <1>9, AnswerWrites, MoveStep, "idle" # "seated"

\* What a change of roles leaves of the requests that go on.
LEMMA Disturbs ==
    ASSUME IInv, NEW r \in Requests, NEW roles, Disturb(r, roles)
    PROVE  /\ disturbed' \subseteq Requests /\ r \notin disturbed'
           /\ \A v \in Requests \ {r} :
                 /\ v \in disturbed => v \in disturbed'
                 /\ v \in disturbed' => pc[v] # "idle"
                 /\ pc[v] # "idle" /\ v \notin disturbed' => Admins \subseteq AdminsIn(roles)
<1>1. TypeOK /\ \A v \in Requests : v \in disturbed => pc[v] # "idle"
  BY InvariantParts DEF RequestOK
<1>2. QED
  BY <1>1 DEF Disturb, InFlight, TypeOK

\* One UPDATE of a role.
LEMMA SetRoleStep ==
    ASSUME IInv, NEW r \in Requests, SetRole(r)
    PROVE  IInv'
<1> DEFINE u == req[r].user
           roles == IF role[u] = "none" THEN role ELSE [role EXCEPT ![u] = req[r].role]
<1>1. TypeOK /\ RowsOK /\ RequestOK(r)
  BY InvariantParts
<1>2. /\ pc[r] = "granted" /\ role' = roles /\ Disturb(r, roles) /\ Answer(r)
      /\ UNCHANGED <<name, tokens, limit, cache>>
  BY DEF SetRole
<1>3. u \in Users /\ req[r].role \in Roles
  BY <1>1, <1>2 DEF RequestOK, SetRoleOf
<1>4. role' \in [Users -> Roles \cup {"none"}]
  BY <1>1, <1>2, <1>3 DEF TypeOK
<1>5. Member' = Member
  BY <1>1, <1>2, <1>3 DEF Member, MembersIn, TypeOK, Roles
<1>6. RowsOK' /\ Full' = Full
  BY <1>1, <1>2, <1>5 DEF RowsOK, RowsReferenced, UsersAreMembers, TokensOfMembers, Full
<1> HIDE DEF roles
<1>7. Admins' = AdminsIn(roles)
  BY <1>2 DEF Admins, AdminsIn
<1>8. TypeOK'
  BY <1>1, <1>2, <1>4, Disturbs, AnswerWrites DEF TypeOK, Operation
<1>9. ASSUME NEW v \in Requests \ {r}
      PROVE  /\ v \in disturbed => v \in disturbed'
             /\ v \in disturbed' => pc[v] # "idle"
             /\ pc[v] # "idle" /\ v \notin disturbed' => Admins \subseteq Admins'
             /\ pc[v] = "seated" => ~Full'
  BY <1>2, <1>6, <1>7, Disturbs, InvariantParts DEF RequestOK
<1>10. \A w \in Member' : w \in Member /\ name'[w] = name[w]
  BY <1>2, <1>5
<1>11. /\ RequestOK(r)' /\ pc'[r] # "seated"
       /\ \A v \in Requests \ {r} : pc'[v] = pc[v] /\ who'[v] = who[v] /\ req'[v] = req[v]
  BY <1>2, Disturbs, AnswerWrites
<1>12. QED
  BY <1>6, <1>8, <1>9, <1>10, <1>11, MoveStep

\* An insert: the id is fresh, so that no admin and no name is overwritten.
LEMMA InsertStep ==
    ASSUME IInv, NEW r \in Requests, Insert(r)
    PROVE  IInv'
<1>1. TypeOK /\ RowsOK /\ RequestOK(r) /\ pc[r] = "seated"
  BY InvariantParts DEF Insert
<1>2. req[r] \in Add /\ req[r].name \in Names /\ req[r].name # Nothing
  BY <1>1, NothingAssumption DEF RequestOK, Add
<1>3. PICK u \in Users, as \in Roles :
         /\ Fresh(u)
         /\ name' = [name EXCEPT ![u] = req[r].name]
         /\ role' = [role EXCEPT ![u] = as]
         /\ \/ /\ Goto(r, "minting")
               /\ Ask(r, [op |-> "mint", user |-> u])
               /\ disturbed' = disturbed \cup Adding(req[r].name, r)
               /\ UNCHANGED who
            \/ /\ Answer(r)
               /\ disturbed' = (disturbed \ {r}) \cup Adding(req[r].name, r)
  BY DEF Insert
<1>4. UNCHANGED <<tokens, limit, cache>>
  BY DEF Insert
<1>5. name[u] = Nothing /\ u \notin ProviderUsers /\ u \notin Member
  BY <1>1, <1>3 DEF Fresh, RowsOK, RowsReferenced
<1>6. /\ name' \in [Users -> Names \cup {Nothing}] /\ role' \in [Users -> Roles \cup {"none"}]
      /\ name'[u] = req[r].name /\ role'[u] = as /\ as # "none"
      /\ \A w \in Users \ {u} : name'[w] = name[w] /\ role'[w] = role[w]
  BY <1>1, <1>2, <1>3 DEF TypeOK, Roles
<1>7. Member' = Member \cup {u} /\ Admins \subseteq Admins'
  BY <1>5, <1>6 DEF Member, MembersIn, Admins, AdminsIn
<1>8. RowsOK'
  <2>1. RowsReferenced'
    BY <1>1, <1>2, <1>4, <1>6, <1>7 DEF RowsOK, RowsReferenced, TypeOK, Member, MembersIn
  <2>2. UsersAreMembers'
    BY <1>1, <1>6, <1>7 DEF RowsOK, UsersAreMembers
  <2>3. TokensOfMembers'
    BY <1>1, <1>4, <1>7 DEF RowsOK, TokensOfMembers
  <2>4. QED
    BY <2>1, <2>2, <2>3 DEF RowsOK
<1>9. /\ \A v \in Requests \ {r} : pc'[v] = pc[v] /\ who'[v] = who[v] /\ req'[v] = req[v]
      /\ RequestOK(r)' /\ pc'[r] # "seated"
      /\ pc' \in [Requests -> ControlPoint]
      /\ who' \in [Requests -> Identity \cup {Nothing}]
      /\ req' \in [Requests -> Operation \cup {Nothing}]
  <2>1. CASE /\ Goto(r, "minting") /\ Ask(r, [op |-> "mint", user |-> u])
             /\ disturbed' = disturbed \cup Adding(req[r].name, r) /\ UNCHANGED who
    <3>1. [op |-> "mint", user |-> u] \in MintFor /\ [op |-> "mint", user |-> u] \in Operation
      BY DEF MintFor, Operation
    <3> DEFINE q == [op |-> "mint", user |-> u]
    <3>2. /\ pc' = [pc EXCEPT ![r] = "minting"] /\ req' = [req EXCEPT ![r] = q] /\ who' = who
          /\ q \in MintFor /\ q \in Operation /\ q # Nothing
      BY <2>1, <3>1, <1>1, Records DEF Goto, Ask
    <3> HIDE DEF q
    <3>3. /\ pc'[r] = "minting" /\ req'[r] = q /\ who'[r] = who[r]
          /\ \A v \in Requests \ {r} : pc'[v] = pc[v] /\ who'[v] = who[v] /\ req'[v] = req[v]
          /\ pc' \in [Requests -> ControlPoint]
          /\ who' \in [Requests -> Identity \cup {Nothing}]
          /\ req' \in [Requests -> Operation \cup {Nothing}]
      BY <1>1, <3>2 DEF TypeOK, ControlPoint, Operation
    <3>4. r \in disturbed' <=> r \in disturbed
      BY <2>1 DEF Adding
    <3>5. r \notin disturbed' /\ who'[r].role = "admin" => who'[r].user \in Admins'
      BY <1>1, <1>7, <3>3, <3>4 DEF RequestOK, IsAdmin
    <3>6. who'[r] # Nothing
      BY <1>1, <3>3 DEF RequestOK
    <3>7. RequestOK(r)'
      BY <3>2, <3>3, <3>5, <3>6 DEF RequestOK, IsAdmin
    <3>8. QED
      BY <3>3, <3>7
  <2>2. CASE Answer(r) /\ disturbed' = (disturbed \ {r}) \cup Adding(req[r].name, r)
    <3>1. r \notin disturbed'
      BY <2>2 DEF Adding
    <3>2. QED
      BY <2>2, <3>1, AnswerWrites
  <2>3. QED
    BY <1>3, <2>1, <2>2
<1>10. disturbed' \subseteq Requests
  BY <1>1, <1>3 DEF TypeOK, Adding
<1>11. TypeOK'
  BY <1>1, <1>4, <1>6, <1>9, <1>10 DEF TypeOK, Operation
<1>12. ASSUME NEW v \in Requests \ {r}
       PROVE  /\ v \in disturbed => v \in disturbed'
              /\ v \in disturbed' => pc[v] # "idle"
              /\ pc[v] \in {"named", "seated"} /\ v \notin disturbed' =>
                    \A w \in Member' \ ProviderUsers :
                       name'[w] # req[v].name \/ (w \in Member /\ name'[w] = name[w])
              /\ pc[v] # "seated"
  <2>1. v \in disturbed' <=> v \in disturbed \/ v \in Adding(req[r].name, r)
    BY <1>3
  <2>2. pc[v] # "seated"
    BY <1>1, InvariantParts DEF OneSeated
  <2>3. pc[v] \in {"named", "seated"} /\ v \notin disturbed' => req[v].name # req[r].name
    BY <2>1 DEF Adding
  <2>4. \A w \in Member : w \in Users /\ w # u /\ name'[w] = name[w]
    BY <1>5, <1>6 DEF Member, MembersIn
  <2>5. v \in disturbed => pc[v] # "idle"
    BY InvariantParts DEF RequestOK
  <2>6. QED
    BY <1>6, <1>7, <2>1, <2>2, <2>3, <2>4, <2>5 DEF Adding
<1>13. QED
  BY <1>7, <1>8, <1>9, <1>11, <1>12, MoveStep

\* A removal leaves the rows in order, whoever asks for it.
LEMMA RemovalRows ==
    ASSUME IInv, NEW u \in Users, RemoveMember(u)
    PROVE  /\ RowsOK'
           /\ name' \in [Users -> Names \cup {Nothing}]
           /\ role' \in [Users -> Roles \cup {"none"}]
           /\ tokens' \in [Tokens -> Users \cup {Nothing}]
           /\ Member' = Member \ {u}
           /\ \A w \in Member' : w \in Member /\ name'[w] = name[w]
           /\ Admins' = Admins \ {u}
           /\ Full' => Full
           /\ limit' = limit /\ cache' = cache
<1>1. TypeOK /\ RowsOK
  BY InvariantParts
<1>2. /\ role' = [role EXCEPT ![u] = "none"]
      /\ tokens' = [t \in Tokens |-> IF tokens[t] = u THEN Nothing ELSE tokens[t]]
      /\ name' = IF u \in Elsewhere THEN name ELSE [name EXCEPT ![u] = Nothing]
      /\ UNCHANGED <<limit, cache>>
  BY DEF RemoveMember
<1>3. /\ name' \in [Users -> Names \cup {Nothing}]
      /\ role' \in [Users -> Roles \cup {"none"}]
      /\ tokens' \in [Tokens -> Users \cup {Nothing}]
      /\ \A w \in Users \ {u} : name'[w] = name[w] /\ role'[w] = role[w]
      /\ role'[u] = "none" /\ (u \notin Elsewhere => name'[u] = Nothing)
      /\ (u \in Elsewhere => name'[u] = name[u])
  BY <1>1, <1>2 DEF TypeOK
<1>4. Member' = Member \ {u} /\ Admins' = Admins \ {u}
  BY <1>3 DEF Member, MembersIn, Admins, AdminsIn
<1>5. \A t \in Tokens : tokens'[t] # Nothing => tokens'[t] = tokens[t] /\ tokens'[t] # u
  BY <1>2
<1>6. \A w \in Member' : w \in Member /\ name'[w] = name[w]
  BY <1>3, <1>4 DEF Member, MembersIn
<1>7. RowsReferenced'
  BY <1>1, <1>3, <1>5, <1>6 DEF RowsOK, RowsReferenced, TypeOK
<1>8. UsersAreMembers'
  BY <1>1, <1>3, <1>4 DEF RowsOK, UsersAreMembers
<1>9. TokensOfMembers'
  BY <1>1, <1>4, <1>5, NothingAssumption DEF RowsOK, TokensOfMembers
<1>10. Full' => Full
  BY <1>1, <1>2, <1>4, FewerNotFull
<1>11. QED
  BY <1>2, <1>3, <1>4, <1>6, <1>7, <1>8, <1>9, <1>10 DEF RowsOK

\* The membership goes, and with it the member's tokens; whose request relied on it is disturbed.
LEMMA RemoveStep ==
    ASSUME IInv, NEW r \in Requests, Remove(r)
    PROVE  IInv'
<1> DEFINE u == req[r].user
           roles == [role EXCEPT ![u] = "none"]
<1>1. TypeOK /\ RequestOK(r)
  BY InvariantParts
<1>2. /\ pc[r] = "removing" /\ RemoveMember(u) /\ Disturb(r, roles) /\ Answer(r)
  BY DEF Remove
<1>3. u \in Users
  BY <1>1, <1>2 DEF RequestOK, RemoveUser
<1>4. role' = roles
  BY <1>2 DEF RemoveMember
<1> HIDE DEF u, roles
<1>5. Admins' = AdminsIn(roles)
  BY <1>4 DEF Admins, AdminsIn
<1>6. TypeOK'
  BY <1>1, <1>2, <1>3, RemovalRows, Disturbs, AnswerWrites DEF TypeOK, Operation
<1>7. ASSUME NEW v \in Requests \ {r}
      PROVE  /\ v \in disturbed => v \in disturbed'
             /\ v \in disturbed' => pc[v] # "idle"
             /\ pc[v] # "idle" /\ v \notin disturbed' => Admins \subseteq Admins'
             /\ pc[v] = "seated" => ~Full'
  BY <1>2, <1>3, <1>5, RemovalRows, Disturbs, InvariantParts DEF RequestOK
<1>8. RowsOK' /\ \A w \in Member' : w \in Member /\ name'[w] = name[w]
  BY <1>2, <1>3, RemovalRows
<1>9. /\ RequestOK(r)' /\ pc'[r] # "seated"
      /\ \A v \in Requests \ {r} : pc'[v] = pc[v] /\ who'[v] = who[v] /\ req'[v] = req[v]
  BY <1>2, Disturbs, AnswerWrites
<1>10. QED
  BY <1>6, <1>7, <1>8, <1>9, MoveStep

\* A JWT provisions its subject: no seat is held while it does.
LEMMA JwtStep ==
    ASSUME IInv, NEW r \in Requests, NEW u \in ProviderUsers, NEW claim \in Claims,
           ByJwt(r, u, claim)
    PROVE  IInv'
<1> DEFINE given == Provisioned(u, claim)
           roles == [role EXCEPT ![u] = given]
           id == [user |-> u, token |-> Nothing, role |-> given]
<1>1. TypeOK /\ RowsOK /\ RequestOK(r) /\ u \in Users
  BY InvariantParts, UserAssumption
<1>2. /\ OrgFree /\ role' = roles /\ cache' = [cache EXCEPT ![<<u, claim>>] = given]
      /\ Disturb(r, roles) /\ pc[r] = "idle" /\ pc' = [pc EXCEPT ![r] = "authenticated"]
      /\ who' = [who EXCEPT ![r] = id] /\ UNCHANGED <<tokens, limit, req>>
  BY DEF ByJwt, Authenticated, Goto
<1>3. PICK n \in ProviderNames : name' = [name EXCEPT ![u] = n]
  BY DEF ByJwt
<1>4. given \in Roles
  BY <1>1, ClaimAssumption DEF Provisioned, TypeOK, Roles
<1>5. given # "none"
  BY <1>4 DEF Roles
<1>6. id \in Identity
  BY <1>1, <1>4 DEF Identity
<1> HIDE DEF given
<1>7. /\ name' \in [Users -> Names \cup {Nothing}] /\ role' \in [Users -> Roles \cup {"none"}]
      /\ name'[u] = n /\ n # Nothing /\ role'[u] = given
      /\ \A w \in Users \ {u} : name'[w] = name[w] /\ role'[w] = role[w]
  BY <1>1, <1>2, <1>3, <1>4, NameAssumption, NothingAssumption DEF TypeOK
<1>8. cache' \in [ProviderUsers \X Claims -> Roles \cup {Nothing}]
  BY <1>1, <1>2, <1>4 DEF TypeOK
<1>9. Member' = Member \cup {u} /\ Admins' = AdminsIn(roles)
  BY <1>2, <1>5, <1>7 DEF Member, MembersIn, Admins, AdminsIn
<1>10. given = "admin" => u \in Admins'
  BY <1>1, <1>7 DEF Admins, AdminsIn
<1> HIDE DEF roles, id
<1>11. RowsOK'
  <2>1. RowsReferenced'
    BY <1>1, <1>2, <1>7, <1>9 DEF RowsOK, RowsReferenced, TypeOK, Member, MembersIn
  <2>2. UsersAreMembers'
    BY <1>1, <1>7, <1>9 DEF RowsOK, UsersAreMembers
  <2>3. TokensOfMembers'
    BY <1>1, <1>2, <1>9 DEF RowsOK, TokensOfMembers
  <2>4. QED
    BY <2>1, <2>2, <2>3 DEF RowsOK
<1>12. /\ pc'[r] = "authenticated" /\ who'[r] = id /\ req'[r] = Nothing /\ id # Nothing
       /\ \A v \in Requests \ {r} : pc'[v] = pc[v] /\ who'[v] = who[v] /\ req'[v] = req[v]
       /\ pc' \in [Requests -> ControlPoint] /\ who' \in [Requests -> Identity \cup {Nothing}]
  BY <1>1, <1>2, <1>6, Records DEF TypeOK, ControlPoint, RequestOK
<1>13. who'[r].role = "admin" => who'[r].user \in Admins'
  BY <1>10, <1>12 DEF id
<1>14. RequestOK(r)'
  BY <1>2, <1>12, <1>13, Disturbs DEF RequestOK, IsAdmin
<1>15. TypeOK'
  BY <1>1, <1>2, <1>7, <1>8, <1>12, Disturbs DEF TypeOK
<1>16. ASSUME NEW v \in Requests \ {r}
       PROVE  /\ v \in disturbed => v \in disturbed'
              /\ v \in disturbed' => pc[v] # "idle"
              /\ pc[v] # "idle" /\ v \notin disturbed' => Admins \subseteq Admins'
              /\ pc[v] # "seated"
  BY <1>2, <1>9, Disturbs DEF OrgFree
<1>17. \A w \in Member' \ ProviderUsers : w \in Member /\ name'[w] = name[w]
  BY <1>7, <1>9 DEF Member, MembersIn
<1>18. QED
  BY <1>11, <1>12, <1>14, <1>15, <1>16, <1>17, MoveStep

\* Steps that are no request's.
LEMMA OperatorSteps ==
    ASSUME IInv,
           \/ \E u \in ProviderUsers, claim \in Claims : Expire(u, claim)
           \/ \E u \in Users : ServiceRemove(u)
           \/ SetLimit
    PROVE  IInv'
<1>1. TypeOK /\ RowsOK /\ \A r \in Requests : RequestOK(r)
  BY InvariantParts
<1> DEFINE M == {}
<1>2. /\ M \in SUBSET Requests /\ Requests \ M = Requests
      /\ \A v \in M : RequestOK(v)' /\ pc'[v] # "seated"
  OBVIOUS
<1> HIDE DEF M
<1>3. CASE \E u \in ProviderUsers, claim \in Claims : Expire(u, claim)
  <2>1. PICK u \in ProviderUsers, claim \in Claims : Expire(u, claim)
    BY <1>3
  <2>2. /\ cache' = [cache EXCEPT ![<<u, claim>>] = Nothing]
        /\ UNCHANGED <<name, role, tokens, limit, pc, who, req, disturbed>>
    BY <2>1 DEF Expire
  <2>3. TypeOK'
    BY <1>1, <2>2 DEF TypeOK
  <2>4. /\ Member' = Member /\ Admins' = Admins /\ Full' = Full
    BY <2>2 DEF Member, Admins, Full
  <2>5. RowsOK'
    BY <1>1, <2>2, <2>4 DEF RowsOK, RowsReferenced, UsersAreMembers, TokensOfMembers
  <2>6. ASSUME NEW v \in Requests
        PROVE  (v \in disturbed => pc[v] # "idle") /\ (pc[v] = "seated" => ~Full)
    BY <1>1 DEF RequestOK
  <2>7. QED
    BY <1>2, <2>2, <2>3, <2>4, <2>5, <2>6, WriteStep
<1>4. CASE \E u \in Users : ServiceRemove(u)
  <2>1. PICK u \in Users : ServiceRemove(u)
    BY <1>4
  <2>2. /\ RemoveMember(u) /\ UNCHANGED <<pc, who, req>>
        /\ disturbed' = IF role[u] = "admin" THEN InFlight ELSE disturbed
    BY <2>1 DEF ServiceRemove
  <2>3. TypeOK'
    BY <1>1, <2>2, RemovalRows DEF TypeOK, InFlight
  <2>4. ASSUME NEW v \in Requests
        PROVE  /\ v \in disturbed => v \in disturbed'
               /\ v \in disturbed' => pc[v] # "idle"
               /\ pc[v] # "idle" /\ v \notin disturbed' => Admins \subseteq Admins'
               /\ pc[v] = "seated" => ~Full'
    <3>1. RequestOK(v) /\ Admins' = Admins \ {u} /\ (Full' => Full)
      BY <1>1, <2>2, RemovalRows
    <3>2. role[u] # "admin" => Admins \subseteq Admins'
      BY <3>1 DEF Admins, AdminsIn
    <3>3. QED
      BY <2>2, <3>1, <3>2 DEF RequestOK, InFlight
  <2>5. RowsOK' /\ \A w \in Member' : w \in Member /\ name'[w] = name[w]
    BY <2>2, RemovalRows
  <2>6. QED
    BY <1>2, <2>2, <2>3, <2>4, <2>5, WriteStep
<1>5. CASE SetLimit
  <2>1. /\ OrgFree /\ limit' \in SeatLimits
        /\ UNCHANGED <<name, role, tokens, cache, pc, who, req, disturbed>>
    BY <1>5 DEF SetLimit
  <2>2. TypeOK'
    BY <1>1, <2>1 DEF TypeOK
  <2>3. Member' = Member /\ Admins' = Admins
    BY <2>1 DEF Member, Admins
  <2>4. RowsOK'
    BY <1>1, <2>1, <2>3 DEF RowsOK, RowsReferenced, UsersAreMembers, TokensOfMembers
  <2>5. ASSUME NEW v \in Requests
        PROVE  (v \in disturbed => pc[v] # "idle") /\ pc[v] # "seated"
    BY <1>1, <2>1 DEF RequestOK, OrgFree
  <2>6. QED
    BY <1>2, <2>1, <2>2, <2>3, <2>4, <2>5, WriteStep
<1>6. QED
  BY <1>3, <1>4, <1>5

\* A secret no row has gets one, and is the root's.
LEMMA RegisterRootRows ==
    ASSUME TypeOK, RowsOK, NEW t \in Tokens, RegisterRoot(t)
    PROVE  /\ name' \in [Users -> Names \cup {Nothing}]
           /\ role' \in [Users -> Roles \cup {"none"}]
           /\ tokens' \in [Tokens -> Users \cup {Nothing}]
           /\ RowsOK'
           /\ Admins \subseteq Admins'
           /\ \A v \in Member' \ Member :
                 /\ Member' \subseteq Member \cup {v}
                 /\ \A w \in Member : name'[v] # name[w]
<1>1. CASE \E u \in Member : /\ name[u] = Root
                             /\ tokens' = [tokens EXCEPT ![t] = u]
                             /\ UNCHANGED <<name, role>>
  <2>1. PICK u \in Member : /\ tokens' = [tokens EXCEPT ![t] = u]
                            /\ UNCHANGED <<name, role>>
    BY <1>1
  <2>2. u \in Users /\ Member' = Member /\ Admins' = Admins
    BY <2>1 DEF Member, MembersIn, Admins
  <2>3. QED
    BY <2>1, <2>2 DEF TypeOK, RowsOK, RowsReferenced, UsersAreMembers, TokensOfMembers
<1>2. CASE /\ \A v \in Member : name[v] # Root
           /\ \E u \in Users \ ProviderUsers :
              /\ name[u] = Nothing
              /\ name' = [name EXCEPT ![u] = Root]
              /\ role' = [role EXCEPT ![u] = "admin"]
              /\ tokens' = [tokens EXCEPT ![t] = u]
  <2>1. PICK u \in Users \ ProviderUsers :
              /\ name[u] = Nothing
              /\ name' = [name EXCEPT ![u] = Root]
              /\ role' = [role EXCEPT ![u] = "admin"]
              /\ tokens' = [tokens EXCEPT ![t] = u]
    BY <1>2
  <2>2. Root \in Names /\ Root # Nothing
    BY NameAssumption, NothingAssumption
  <2>3. /\ name' \in [Users -> Names \cup {Nothing}] /\ role' \in [Users -> Roles \cup {"none"}]
        /\ tokens' \in [Tokens -> Users \cup {Nothing}]
        /\ name'[u] = Root /\ role'[u] = "admin" /\ tokens'[t] = u
        /\ \A w \in Users \ {u} : name'[w] = name[w] /\ role'[w] = role[w]
        /\ \A s \in Tokens \ {t} : tokens'[s] = tokens[s]
    BY <2>1, <2>2 DEF TypeOK, Roles
  <2>4. Member' = Member \cup {u} /\ Admins \subseteq Admins'
    BY <2>1, <2>3 DEF Member, MembersIn, Admins, AdminsIn
  <2>5. RowsReferenced'
    BY <2>2, <2>3, <2>4 DEF RowsOK, RowsReferenced, TypeOK, Member, MembersIn
  <2>6. UsersAreMembers'
    BY <2>3, <2>4 DEF RowsOK, UsersAreMembers
  <2>7. TokensOfMembers'
    BY <2>3, <2>4 DEF RowsOK, TokensOfMembers
  <2>8. \A v \in Member' \ Member : v = u /\ \A w \in Member : name'[v] # name[w]
    BY <1>2, <2>3, <2>4
  <2>9. QED
    BY <2>3, <2>4, <2>5, <2>6, <2>7, <2>8 DEF RowsOK
<1>3. QED
  BY <1>1, <1>2 DEF RegisterRoot

\* The server starts: no request is left, and the rows are in order.
LEMMA BootstrapRows ==
    ASSUME IInv, Restart
    PROVE  /\ name' \in [Users -> Names \cup {Nothing}]
           /\ role' \in [Users -> Roles \cup {"none"}]
           /\ tokens' \in [Tokens -> Users \cup {Nothing}]
           /\ RowsOK'
           /\ Admins \subseteq Admins'
           /\ \A v \in Member' \ Member :
                 /\ Member' \subseteq Member \cup {v}
                 /\ \A w \in Member : name'[v] # name[w]
<1>1. TypeOK /\ RowsOK
  BY InvariantParts
<1>2. CASE \E t \in Tokens : RegisterRoot(t)
  BY <1>1, <1>2, RegisterRootRows
<1>3. CASE UNCHANGED <<name, role, tokens>>
  <2>1. Member' = Member /\ Admins' = Admins
    BY <1>3 DEF Member, Admins
  <2>2. QED
    BY <1>1, <1>3, <2>1
    DEF TypeOK, RowsOK, RowsReferenced, UsersAreMembers, TokensOfMembers
<1>4. QED
  BY <1>2, <1>3, NameAssumption DEF Restart, Bootstrap

\* After a restart nothing is in flight or cached, and the bootstrap's rows are there.
LEMMA RestartStep ==
    ASSUME IInv, Restart
    PROVE  IInv'
<1>1. \A r \in Requests : pc'[r] = "idle" /\ who'[r] = Nothing /\ req'[r] = Nothing
  BY DEF Restart
<1>2. disturbed' = {}
  BY DEF Restart
<1>3. TypeOK'
  BY <1>2, BootstrapRows DEF Restart, TypeOK, ControlPoint
<1>4. \A r \in Requests : RequestOK(r)'
  BY <1>1, <1>2 DEF RequestOK
<1>5. OneSeated'
  BY <1>1 DEF OneSeated
<1>6. QED
  BY <1>3, <1>4, <1>5, BootstrapRows, InvariantPartsNext

\* Every step preserves the invariant.
LEMMA NextIInv == IInv /\ [Next]_vars => IInv'
<1> SUFFICES ASSUME IInv, [Next]_vars PROVE IInv'
  OBVIOUS
<1>1. ASSUME NEW r \in Requests, Authenticate(r) PROVE IInv'
  BY <1>1, TokenStep, CachedJwtStep, JwtStep DEF Authenticate
<1>2. ASSUME NEW r \in Requests, Handle(r) PROVE IInv'
  BY <1>2, AddSteps, InsertStep, RoleSteps, SetRoleStep, RemovalStep, RemoveStep,
     MintLookupStep, TokenWriteSteps, DropStep DEF Handle
<1>3. CASE \/ \E u \in ProviderUsers, claim \in Claims : Expire(u, claim)
           \/ \E u \in Users : ServiceRemove(u)
           \/ SetLimit
  BY <1>3, OperatorSteps
<1>4. CASE Restart
  BY <1>4, RestartStep
<1>5. CASE UNCHANGED vars
  BY <1>5 DEF vars, IInv, TypeOK, RequestsSound, RowsReferenced, UsersAreMembers, TokensOfMembers,
              CallersAdmin, NamesFree, SeatHeld, OneSeated, Full, Member, Admins, InFlight, IsAdmin
<1>6. QED
  BY <1>1, <1>2, <1>3, <1>4, <1>5 DEF Next

-----------------------------------------------------------------------------
(* The properties.                                                         *)

\* For any users, tokens and requests: the invariant holds.
THEOREM Invariance == Spec => []IInv
  BY InitIInv, NextIInv, PTL DEF Spec

\* No token is left of a user who is no member (removeMember revokes them, and
\* a token that is minted afterwards finds no user to refer to).
THEOREM MembersTokens == Spec => []TokensOfMembers
<1>1. IInv => TokensOfMembers
  BY DEF IInv
<1>2. QED
  BY Invariance, <1>1, PTL

\* The steps that change who is a member, or as what.
LEMMA RoleWriters ==
    ASSUME Next, role' # role
    PROVE  \/ \E r \in Requests : SetRole(r) \/ Remove(r) \/ Insert(r)
           \/ \E r \in Requests, u \in ProviderUsers, claim \in Claims : ByJwt(r, u, claim)
           \/ \E u \in Users : ServiceRemove(u)
           \/ Restart
<1>1. ASSUME NEW r \in Requests, Handle(r) PROVE SetRole(r) \/ Remove(r) \/ Insert(r)
  BY <1>1 DEF Handle, FindName, LockSeats, FindForRole, CountAdmins, FindForRemoval,
              FindForMint, Mint, Revoke, Drop
<1>2. ASSUME NEW r \in Requests, Authenticate(r)
      PROVE  \E u \in ProviderUsers, claim \in Claims : ByJwt(r, u, claim)
  BY <1>2 DEF Authenticate, ByToken, ByCachedJwt
<1>3. ~SetLimit /\ ~\E u \in ProviderUsers, claim \in Claims : Expire(u, claim)
  BY DEF SetLimit, Expire
<1>4. QED
  BY <1>1, <1>2, <1>3 DEF Next

\* Where a step of a request leaves the requests.
LEMMA OnlyOneMoves ==
    ASSUME IInv, NEW r \in Requests, SetRole(r) \/ Remove(r) \/ Insert(r),
           NEW v \in Requests
    PROVE  /\ pc'[v] # pc[v] => v = r
           /\ pc'[r] # pc[r]
<1>1. TypeOK
  BY InvariantParts
<1>2. /\ pc[r] \in {"granted", "removing", "seated"}
      /\ Goto(r, "idle") \/ (pc[r] = "seated" /\ Goto(r, "minting"))
  BY DEF SetRole, Remove, Insert, Answer
<1>3. QED
  BY <1>1, <1>2 DEF Goto, TypeOK

\* A demotion or a removal whose reads are not out of date leaves an admin:
\* the caller, or the one that was counted.
LEMMA AdminLeft ==
    ASSUME IInv, NEW r \in Requests, SetRole(r) \/ Remove(r), r \notin disturbed
    PROVE  Admins' # {}
<1>1. TypeOK /\ RequestOK(r)
  BY InvariantParts
<1>2. CASE SetRole(r)
  <2>1. PICK u \in Admins : u # req[r].user \/ req[r].role = "admin"
    BY <1>1, <1>2 DEF SetRole, RequestOK
  <2>2. u \in Users /\ role[u] = "admin"
    BY DEF Admins, AdminsIn
  <2>3. role'[u] = "admin"
    BY <1>1, <1>2, <2>1, <2>2 DEF SetRole, TypeOK
  <2>4. QED
    BY <2>2, <2>3 DEF Admins, AdminsIn
<1>3. CASE Remove(r)
  <2> DEFINE u == who[r].user
  <2>1. u \in Admins /\ u # req[r].user
    BY <1>1, <1>3 DEF Remove, RequestOK
  <2>2. u \in Users /\ role[u] = "admin"
    BY <2>1 DEF Admins, AdminsIn
  <2>3. role'[u] = "admin"
    BY <1>1, <1>3, <2>1, <2>2 DEF Remove, RemoveMember, TypeOK
  <2> HIDE DEF u
  <2>4. QED
    BY <2>2, <2>3 DEF Admins, AdminsIn
<1>4. QED
  BY <1>2, <1>3

\* Whatever runs at the same time, PATCH and DELETE take the last admin away
\* only when another admin was lost since they authenticated.
THEOREM LastAdmin == Spec => LastAdminKept
<1> DEFINE A == Admins # {} /\ Admins' = {} /\ pc' # pc =>
                   \E r \in Requests : pc'[r] # pc[r] /\ (pc[r] = "idle" \/ r \in disturbed)
<1>1. IInv /\ [Next]_vars => A
  <2> SUFFICES ASSUME IInv, [Next]_vars, Admins # {}, Admins' = {}, pc' # pc
               PROVE  \E r \in Requests : pc'[r] # pc[r] /\ (pc[r] = "idle" \/ r \in disturbed)
    OBVIOUS
  <2>1. role' # role
    BY DEF Admins, AdminsIn
  <2>2. Next /\ TypeOK
    BY InvariantParts DEF vars
  <2>3. ASSUME NEW r \in Requests, SetRole(r) \/ Remove(r)
        PROVE  pc'[r] # pc[r] /\ r \in disturbed
    BY <2>3, AdminLeft, OnlyOneMoves
  <2>4. ASSUME NEW r \in Requests, Insert(r) PROVE FALSE
    <3>1. PICK u \in Users, as \in Roles :
             name[u] = Nothing /\ role' = [role EXCEPT ![u] = as]
      BY <2>4 DEF Insert, Fresh
    <3>2. u \notin Member
      BY <3>1, InvariantParts DEF RowsOK, RowsReferenced
    <3>3. role[u] # "admin"
      BY <3>2 DEF Member, MembersIn
    <3>4. Admins \subseteq Admins'
      BY <3>1, <3>3, <2>2 DEF Admins, AdminsIn, TypeOK
    <3>5. QED
      BY <3>4
  <2>5. ASSUME NEW r \in Requests, NEW u \in ProviderUsers, NEW claim \in Claims, ByJwt(r, u, claim)
        PROVE  pc'[r] # pc[r] /\ pc[r] = "idle"
    BY <2>2, <2>5 DEF ByJwt, Authenticated, Goto, TypeOK
  <2>6. ASSUME NEW u \in Users, ServiceRemove(u) PROVE FALSE
    BY <2>6 DEF ServiceRemove
  <2>7. ~Restart
    BY BootstrapRows
  <2>8. QED
    BY <2>1, <2>2, <2>3, <2>4, <2>5, <2>6, <2>7, RoleWriters
<1>2. QED
  BY Invariance, <1>1, PTL DEF Spec, LastAdminKept

\* One more member than an org with a seat held for it has is within the limit.
LEMMA SeatEnough ==
    ASSUME TypeOK, NEW u, Member' \subseteq Member \cup {u}, ~Full
    PROVE  limit = NoLimit \/ Cardinality(Member') <= limit
<1> SUFFICES ASSUME limit # NoLimit PROVE Cardinality(Member') <= limit
  OBVIOUS
<1>1. /\ IsFiniteSet(Member) /\ Cardinality(Member) \in Nat
      /\ IsFiniteSet(Member') /\ Cardinality(Member') \in Nat
  BY MembersCount DEF Member
<1>2. /\ IsFiniteSet(Member \cup {u})
      /\ Cardinality(Member \cup {u}) = IF u \in Member THEN Cardinality(Member)
                                                        ELSE Cardinality(Member) + 1
  BY <1>1, FS_AddElement
<1>3. Cardinality(Member') <= Cardinality(Member \cup {u})
  BY <1>2, FS_Subset
<1>4. limit \in Nat
  BY LimitAssumption DEF TypeOK
<1>5. Cardinality(Member) < limit
  BY <1>1, <1>4 DEF Full
<1>6. QED
  BY <1>1, <1>2, <1>3, <1>4, <1>5

\* For any limit, and however many requests add members at the same time: the
\* org's seats are not exceeded by what the API adds.
THEOREM SeatLimit == Spec => SeatLimitHeld
<1> DEFINE A == \A r \in Requests :
                   pc[r] = "seated" /\ pc'[r] # "seated" /\ role' # role =>
                      limit = NoLimit \/ Cardinality(MembersIn(role')) <= limit
<1>1. IInv /\ [Next]_vars => A
  <2> SUFFICES ASSUME IInv, [Next]_vars, NEW r \in Requests,
                      pc[r] = "seated", pc'[r] # "seated", role' # role
               PROVE  limit = NoLimit \/ Cardinality(Member') <= limit
    BY DEF Member
  <2>1. TypeOK /\ ~Full /\ Next
    BY InvariantParts DEF RequestOK, vars
  <2>2. ASSUME NEW s \in Requests, SetRole(s) \/ Remove(s) PROVE FALSE
    <3>1. s = r
      BY <2>2, OnlyOneMoves
    <3>2. QED
      BY <2>2, <3>1 DEF SetRole, Remove
  <2>3. ASSUME NEW s \in Requests, Insert(s) PROVE \E u : Member' \subseteq Member \cup {u}
    <3>1. PICK u \in Users, as \in Roles : role' = [role EXCEPT ![u] = as]
      BY <2>3 DEF Insert
    <3>2. Member' \subseteq Member \cup {u}
      BY <2>1, <3>1 DEF Member, MembersIn, TypeOK
    <3>3. QED
      BY <3>2
  <2>4. ASSUME NEW s \in Requests, NEW u \in ProviderUsers, NEW claim \in Claims, ByJwt(s, u, claim)
        PROVE  FALSE
    BY <2>4 DEF ByJwt, OrgFree
  <2>5. ASSUME NEW u \in Users, ServiceRemove(u) PROVE FALSE
    BY <2>5 DEF ServiceRemove
  <2>6. CASE Restart
    <3>1. \A v \in Member' \ Member : Member' \subseteq Member \cup {v}
      BY <2>6, BootstrapRows
    <3>2. \E u : Member' \subseteq Member \cup {u}
      <4>1. CASE Member' \subseteq Member
        BY <4>1
      <4>2. CASE \E v \in Member' : v \notin Member
        BY <3>1, <4>2
      <4>3. QED
        BY <4>1, <4>2
    <3>3. QED
      BY <2>1, <3>2, SeatEnough
  <2>7. QED
    BY <2>1, <2>2, <2>3, <2>4, <2>5, <2>6, RoleWriters, SeatEnough
<1>2. QED
  BY Invariance, <1>1, PTL DEF Spec, SeatLimitHeld

\* For any names and requests: a member is given a name another one has only
\* by a request that looked it up before the other was added.
THEOREM DistinctNames == Spec => NamesDistinct
<1> DEFINE A == \A u \in MembersIn(role') \ (Member \cup ProviderUsers) :
                   \A v \in Member \ ProviderUsers :
                      name'[u] = name[v] =>
                         \E r \in disturbed : pc[r] = "seated" /\ pc'[r] # "seated"
<1>1. IInv /\ [Next]_vars => A
  <2> SUFFICES ASSUME IInv, [Next]_vars,
                      NEW u \in Member' \ (Member \cup ProviderUsers),
                      NEW v \in Member \ ProviderUsers, name'[u] = name[v]
               PROVE  \E r \in disturbed : pc[r] = "seated" /\ pc'[r] # "seated"
    BY DEF Member
  <2>1. role' # role
    BY DEF Member
  <2>2. Next /\ TypeOK /\ u \in Users /\ role[u] = "none" /\ role'[u] # "none"
    BY <2>1, InvariantParts DEF vars, Member, MembersIn
  <2>3. ASSUME NEW r \in Requests, SetRole(r) \/ Remove(r) PROVE FALSE
    BY <2>2, <2>3 DEF SetRole, Remove, RemoveMember, TypeOK
  <2>4. ASSUME NEW r \in Requests, Insert(r)
        PROVE  r \in disturbed /\ pc[r] = "seated" /\ pc'[r] # "seated"
    <3>1. PICK w \in Users, as \in Roles :
             name' = [name EXCEPT ![w] = req[r].name] /\ role' = [role EXCEPT ![w] = as]
      BY <2>4 DEF Insert
    <3>2. w = u
      BY <2>2, <3>1 DEF TypeOK
    <3>3. name'[u] = req[r].name
      BY <2>2, <3>1, <3>2 DEF TypeOK
    <3>4. pc[r] = "seated" /\ pc'[r] # pc[r]
      BY <2>4, OnlyOneMoves DEF Insert
    <3>5. r \in disturbed
      BY <3>3, <3>4, InvariantParts DEF RequestOK
    <3>6. QED
      BY <3>4, <3>5
  <2>5. ASSUME NEW r \in Requests, NEW w \in ProviderUsers, NEW claim \in Claims, ByJwt(r, w, claim)
        PROVE  FALSE
    BY <2>2, <2>5 DEF ByJwt, TypeOK
  <2>6. ASSUME NEW w \in Users, ServiceRemove(w) PROVE FALSE
    BY <2>2, <2>6 DEF ServiceRemove, RemoveMember, TypeOK
  <2>7. ~Restart
    BY BootstrapRows
  <2>8. QED
    BY <2>1, <2>2, <2>3, <2>4, <2>5, <2>6, <2>7, RoleWriters
<1>2. QED
  BY Invariance, <1>1, PTL DEF Spec, NamesDistinct
=============================================================================
