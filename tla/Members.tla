------------------------------- MODULE Members -------------------------------
(***************************************************************************)
(* Members, roles and credentials of one org: /v1/members and /v1/tokens   *)
(* (src/apps/server/src/routes/members.ts, tokens.ts) over auth/members.ts *)
(* and auth/tokens.ts, the provisioning of users by JWTs with its cache of *)
(* roles (auth/jwt.ts), the operator's calls (routes/service.ts) and the   *)
(* server's start (auth/bootstrap.ts).                                     *)
(*                                                                         *)
(* A member of Requests is a place a handler runs in, used again when it   *)
(* has answered.  Ids and secrets are random: a new user or token is one   *)
(* nothing refers to.  A ref a request gives (an id or a name) is the      *)
(* member it finds.                                                        *)
(***************************************************************************)
EXTENDS Integers, FiniteSets

CONSTANTS
    Users,          \* user ids
    ProviderUsers,  \* those that are subjects of an identity provider
    Elsewhere,      \* provider users that are members of another org too
    Names,          \* display names
    ProviderNames,  \* those that JWTs carry
    Root,           \* env-admin, the name of the user bootstrap creates
    Tokens,         \* access tokens
    EnvToken,       \* STIFT_ADMIN_TOKEN
    Claims,         \* what the role claims of JWTs map to
    SeatLimits,     \* values orgs.max_seats takes
    NoLimit,        \* null in that column: unlimited
    Requests,
    Nothing         \* no user row, no token, no entry of the cache

ASSUME UserAssumption ==
    IsFiniteSet(Users) /\ ProviderUsers \subseteq Users /\ Elsewhere \subseteq ProviderUsers

ASSUME NameAssumption ==
    Root \in Names /\ ProviderNames \subseteq Names /\ EnvToken \in Tokens

ASSUME LimitAssumption ==
    SeatLimits \subseteq Nat \cup {NoLimit} /\ NoLimit \notin Nat

ASSUME NothingAssumption == Nothing \notin Users \cup Names \cup Tokens

Roles == {"admin", "member"}

ASSUME ClaimAssumption == Claims \subseteq Roles \cup {"no claim"}

Identity == [user : Users, role : Roles, token : Tokens \cup {Nothing}]

Add == [op : {"add"}, name : Names]
SetRoleOf == [op : {"role"}, user : Users, role : Roles]
RemoveUser == [op : {"remove"}, user : Users]
MintFor == [op : {"mint"}, user : Users]

ASSUME RequestAssumption ==
    Nothing \notin Identity \cup Add \cup SetRoleOf \cup RemoveUser \cup MintFor \cup Roles

VARIABLES
    name,           \* users: the name of each row there is
    role,           \* memberships of the org: "none" where there is no row
    tokens,         \* tokens: the user of each row there is
    limit,          \* orgs.max_seats
    cache,          \* JwtAuthenticator.seen, by subject and role claim
    pc,             \* where each request is
    who,            \* c.var.identity: the caller, as of its authentication
    req,            \* what the request found and is about to do
    disturbed       \* history: requests since whose reads an admin stopped being
                    \* one, or the name they add was added

vars == <<name, role, tokens, limit, cache, pc, who, req, disturbed>>

ControlPoint == {"idle", "authenticated", "named", "seated", "found", "granted",
                 "removing", "minting"}

InFlight == {r \in Requests : pc[r] # "idle"}

MembersIn(roles) == {u \in Users : roles[u] # "none"}
AdminsIn(roles) == {u \in Users : roles[u] = "admin"}
Member == MembersIn(role)
Admins == AdminsIn(role)

NoOrgLock == TRUE

\* orgLimits(tx, orgId, true): the org's row, which memberships refer to.
OrgFree == \A r \in Requests : pc[r] # "seated"

\* A random id refers to nothing that is there or in a request.
Fresh(u) ==
    /\ u \notin ProviderUsers
    /\ name[u] = Nothing
    /\ \A r \in InFlight : who[r].user # u /\ (req[r] # Nothing /\ req[r].op # "add" => req[r].user # u)

Unused(t) == t # EnvToken /\ tokens[t] = Nothing /\ \A r \in InFlight : who[r].token # t

Goto(r, where) == pc' = [pc EXCEPT ![r] = where]

Ask(r, q) == req' = [req EXCEPT ![r] = q]

\* The response is sent.
Answer(r) ==
    /\ Goto(r, "idle")
    /\ who' = [who EXCEPT ![r] = Nothing]
    /\ Ask(r, Nothing)

\* Every other request that has read its identity is behind the times once
\* an admin is not one any more.
Disturb(r, roles) ==
    disturbed' = (disturbed \cup IF Admins \subseteq AdminsIn(roles) THEN {} ELSE InFlight) \ {r}

-----------------------------------------------------------------------------
(* Authentication.                                                         *)

Authenticated(r, id) ==
    /\ pc[r] = "idle"
    /\ Goto(r, "authenticated")
    /\ who' = [who EXCEPT ![r] = id]
    /\ UNCHANGED <<tokens, limit, req>>

\* TokenAuthenticator: the role is the membership's at this moment.
ByToken(r, t) ==
    /\ tokens[t] # Nothing
    /\ Authenticated(r, [user |-> tokens[t], token |-> t,
                         role |-> IF role[tokens[t]] = "none" THEN "member" ELSE role[tokens[t]]])
    /\ UNCHANGED <<name, role, cache, disturbed>>

\* A JWT whose subject and claim were seen less than a minute ago.
ByCachedJwt(r, u, claim) ==
    /\ cache[<<u, claim>>] # Nothing
    /\ Authenticated(r, [user |-> u, token |-> Nothing, role |-> cache[<<u, claim>>]])
    /\ disturbed' = IF cache[<<u, claim>>] = "admin" /\ role[u] # "admin"
                      THEN disturbed \cup {r} ELSE disturbed
    /\ UNCHANGED <<name, role, cache>>

\* The role a JWT leaves its subject with.
Provisioned(u, claim) ==
    IF claim # "no claim" THEN claim ELSE IF role[u] = "none" THEN "member" ELSE role[u]

\* provision: user and membership are upserted in a transaction, after which
\* the role is in the cache.  No seat is asked for.
ByJwt(r, u, claim) ==
    LET given == Provisioned(u, claim)
        roles == [role EXCEPT ![u] = given]
    IN
    /\ cache[<<u, claim>>] = Nothing
    /\ OrgFree
    /\ \E n \in ProviderNames : name' = [name EXCEPT ![u] = n]
    /\ role' = roles
    /\ cache' = [cache EXCEPT ![<<u, claim>>] = given]
    /\ Authenticated(r, [user |-> u, token |-> Nothing, role |-> given])
    /\ Disturb(r, roles)

\* A minute passes; so does one when the map is emptied at 10000 entries.
Expire(u, claim) ==
    /\ cache[<<u, claim>>] # Nothing
    /\ cache' = [cache EXCEPT ![<<u, claim>>] = Nothing]
    /\ UNCHANGED <<name, role, tokens, limit, pc, who, req, disturbed>>

IsAdmin(r) == who[r].role = "admin"

\* An answer that changes nothing: a read, a refusal, a failed statement or a
\* dropped connection.
Drop(r) ==
    /\ pc[r] # "idle"
    /\ Answer(r)
    /\ disturbed' = disturbed \ {r}
    /\ UNCHANGED <<name, role, tokens, limit, cache>>

-----------------------------------------------------------------------------
(* Members.                                                                *)

LooksUpIds(n) == n \notin Member

NameFree(n) == \A u \in Member : name[u] # n

\* POST: memberByName, outside the transaction; a name that is taken is a 409.
FindName(r) ==
    /\ pc[r] = "authenticated"
    /\ IsAdmin(r)
    /\ \E q \in Add :
          /\ NameFree(q.name)
          /\ Ask(r, q)
    /\ Goto(r, "named")
    /\ UNCHANGED <<name, role, tokens, limit, cache, who, disturbed>>

Full == limit # NoLimit /\ Cardinality(Member) >= limit

\* The limit is read under the lock; an org that is full is a 402.
LockSeats(r) ==
    /\ pc[r] = "named"
    /\ OrgFree
    /\ ~Full
    /\ Goto(r, "seated")
    /\ UNCHANGED <<name, role, tokens, limit, cache, who, req, disturbed>>

Adding(n, r) == {s \in Requests \ {r} : pc[s] \in {"named", "seated"} /\ req[s].name = n}

\* The user and its membership are inserted and committed; createToken, when
\* the request asks for it, comes after that.
Insert(r) ==
    /\ pc[r] = "seated"
    /\ \E u \in Users, as \in Roles :
          /\ Fresh(u)
          /\ name' = [name EXCEPT ![u] = req[r].name]
          /\ role' = [role EXCEPT ![u] = as]
          /\ \/ /\ Goto(r, "minting")
                /\ Ask(r, [op |-> "mint", user |-> u])
                /\ disturbed' = disturbed \cup Adding(req[r].name, r)
                /\ UNCHANGED who
             \/ /\ Answer(r)
                /\ disturbed' = (disturbed \ {r}) \cup Adding(req[r].name, r)
    /\ UNCHANGED <<tokens, limit, cache>>

\* PATCH: findMember.  Only the demotion of an admin counts the admins.
FindForRole(r) ==
    /\ pc[r] = "authenticated"
    /\ IsAdmin(r)
    /\ \E u \in Member, to \in Roles :
          /\ Ask(r, [op |-> "role", user |-> u, role |-> to])
          /\ Goto(r, IF role[u] = "admin" /\ to # "admin" THEN "found" ELSE "granted")
    /\ UNCHANGED <<name, role, tokens, limit, cache, who, disturbed>>

AnyAdmin(r) == pc[r] = "found" /\ Cardinality(Admins) >= 1

OthersAdmin(r) == pc[r] = "found" /\ Cardinality(Admins) > 1

\* countAdmins; the last one is a 400.
CountAdmins(r) ==
    /\ OthersAdmin(r)
    /\ Goto(r, "granted")
    /\ UNCHANGED <<name, role, tokens, limit, cache, who, req, disturbed>>

\* One UPDATE, which a membership that is gone lets through with no row.
SetRole(r) ==
    LET u == req[r].user
        roles == IF role[u] = "none" THEN role ELSE [role EXCEPT ![u] = req[r].role]
    IN
    /\ pc[r] = "granted"
    /\ role' = roles
    /\ Disturb(r, roles)
    /\ Answer(r)
    /\ UNCHANGED <<name, tokens, limit, cache>>

\* DELETE: findMember; the caller itself is a 400.
FindForRemoval(r) ==
    /\ pc[r] = "authenticated"
    /\ IsAdmin(r)
    /\ \E u \in Member \ {who[r].user} : Ask(r, [op |-> "remove", user |-> u])
    /\ Goto(r, "removing")
    /\ UNCHANGED <<name, role, tokens, limit, cache, who, disturbed>>

KeepsUser(u) ==
    /\ u \in Member
    /\ role' = [role EXCEPT ![u] = "none"]
    /\ tokens' = [t \in Tokens |-> IF tokens[t] = u THEN Nothing ELSE tokens[t]]
    /\ UNCHANGED <<name, limit, cache>>

\* removeMember, one transaction: the membership, the tokens, and the user's
\* row when it is a member nowhere else.
RemoveMember(u) ==
    /\ u \in Member
    /\ role' = [role EXCEPT ![u] = "none"]
    /\ tokens' = [t \in Tokens |-> IF tokens[t] = u THEN Nothing ELSE tokens[t]]
    /\ name' = IF u \in Elsewhere THEN name ELSE [name EXCEPT ![u] = Nothing]
    /\ UNCHANGED <<limit, cache>>

Remove(r) ==
    /\ pc[r] = "removing"
    /\ RemoveMember(req[r].user)
    /\ Disturb(r, [role EXCEPT ![req[r].user] = "none"])
    /\ Answer(r)

-----------------------------------------------------------------------------
(* Tokens.                                                                 *)

\* POST: a token is the caller's own, or an admin's for the member it names.
FindForMint(r) ==
    /\ pc[r] = "authenticated"
    /\ \E u \in {who[r].user} \cup (IF IsAdmin(r) THEN Member ELSE {}) :
          Ask(r, [op |-> "mint", user |-> u])
    /\ Goto(r, "minting")
    /\ UNCHANGED <<name, role, tokens, limit, cache, who, disturbed>>

\* The insert refers to the user's row, and fails when it is gone.
Mint(r) ==
    /\ pc[r] = "minting"
    /\ name[req[r].user] # Nothing
    /\ \E t \in Tokens : Unused(t) /\ tokens' = [tokens EXCEPT ![t] = req[r].user]
    /\ disturbed' = disturbed \ {r}
    /\ Answer(r)
    /\ UNCHANGED <<name, role, limit, cache>>

\* DELETE: never the token of the request, and only their own for members.
Revoke(r) ==
    /\ pc[r] = "authenticated"
    /\ \E t \in Tokens \ {who[r].token} :
          /\ tokens[t] # Nothing
          /\ IsAdmin(r) \/ tokens[t] = who[r].user
          /\ tokens' = [tokens EXCEPT ![t] = Nothing]
    /\ disturbed' = disturbed \ {r}
    /\ Answer(r)
    /\ UNCHANGED <<name, role, limit, cache>>

-----------------------------------------------------------------------------
(* The operator and the server.                                            *)

\* DELETE /v1/service/orgs/{id}/members/{userId}.
ServiceRemove(u) ==
    /\ RemoveMember(u)
    /\ disturbed' = IF role[u] = "admin" THEN InFlight ELSE disturbed
    /\ UNCHANGED <<pc, who, req>>

\* PUT /v1/service/orgs/{id}/limits waits for the org's row.
SetLimit ==
    /\ OrgFree
    /\ limit' \in SeatLimits
    /\ UNCHANGED <<name, role, tokens, cache, pc, who, req, disturbed>>

\* registerToken of a secret that no row has: it goes to the member that has
\* the root's name, or to a new admin of that name.
RegisterRoot(t) ==
    \/ \E u \in Member :
          /\ name[u] = Root
          /\ tokens' = [tokens EXCEPT ![t] = u]
          /\ UNCHANGED <<name, role>>
    \/ /\ \A u \in Member : name[u] # Root
       /\ \E u \in Users \ ProviderUsers :
             /\ name[u] = Nothing
             /\ name' = [name EXCEPT ![u] = Root]
             /\ role' = [role EXCEPT ![u] = "admin"]
             /\ tokens' = [tokens EXCEPT ![t] = u]

\* bootstrap, with STIFT_ADMIN_TOKEN or without.
Bootstrap ==
    \/ tokens[EnvToken] = Nothing /\ RegisterRoot(EnvToken)
    \/ /\ \A t \in Tokens : tokens[t] = Nothing
       /\ \E t \in Tokens : RegisterRoot(t)
    \/ /\ \E t \in Tokens : tokens[t] # Nothing
       /\ UNCHANGED <<name, role, tokens>>

\* The server stops, its requests with it, and starts again.
Restart ==
    /\ Bootstrap
    /\ limit' \in SeatLimits
    /\ cache' = [e \in ProviderUsers \X Claims |-> Nothing]
    /\ pc' = [r \in Requests |-> "idle"]
    /\ who' = [r \in Requests |-> Nothing]
    /\ req' = [r \in Requests |-> Nothing]
    /\ disturbed' = {}

\* After the first start.
Init ==
    /\ \E u \in Users \ ProviderUsers, t \in Tokens :
          /\ name = [v \in Users |-> IF v = u THEN Root ELSE Nothing]
          /\ role = [v \in Users |-> IF v = u THEN "admin" ELSE "none"]
          /\ tokens = [s \in Tokens |-> IF s = t THEN u ELSE Nothing]
    /\ limit \in SeatLimits
    /\ cache = [e \in ProviderUsers \X Claims |-> Nothing]
    /\ pc = [r \in Requests |-> "idle"]
    /\ who = [r \in Requests |-> Nothing]
    /\ req = [r \in Requests |-> Nothing]
    /\ disturbed = {}

Authenticate(r) ==
    \/ \E t \in Tokens : ByToken(r, t)
    \/ \E u \in ProviderUsers, claim \in Claims : ByCachedJwt(r, u, claim) \/ ByJwt(r, u, claim)

Handle(r) ==
    \/ FindName(r) \/ LockSeats(r) \/ Insert(r)
    \/ FindForRole(r) \/ CountAdmins(r) \/ SetRole(r)
    \/ FindForRemoval(r) \/ Remove(r)
    \/ FindForMint(r) \/ Mint(r) \/ Revoke(r)
    \/ Drop(r)

Next ==
    \/ \E r \in Requests : Authenticate(r) \/ Handle(r)
    \/ \E u \in ProviderUsers, claim \in Claims : Expire(u, claim)
    \/ \E u \in Users : ServiceRemove(u)
    \/ SetLimit
    \/ Restart

Spec == Init /\ [][Next]_vars

-----------------------------------------------------------------------------
(* Properties.                                                             *)

\* Types of the variables.
TypeOK ==
    /\ name \in [Users -> Names \cup {Nothing}]
    /\ role \in [Users -> Roles \cup {"none"}]
    /\ tokens \in [Tokens -> Users \cup {Nothing}]
    /\ limit \in SeatLimits
    /\ cache \in [ProviderUsers \X Claims -> Roles \cup {Nothing}]
    /\ pc \in [Requests -> ControlPoint]
    /\ who \in [Requests -> Identity \cup {Nothing}]
    /\ req \in [Requests -> Add \cup SetRoleOf \cup RemoveUser \cup MintFor \cup {Nothing}]
    /\ disturbed \subseteq Requests

\* Every request has an identity, and is of the kind its control point
\* belongs to; only admins get past the permission checks.
RequestsSound ==
    \A r \in Requests :
        /\ pc[r] = "idle" <=> who[r] = Nothing
        /\ pc[r] \in {"idle", "authenticated"} <=> req[r] = Nothing
        /\ pc[r] \in {"named", "seated"} => req[r] \in Add
        /\ pc[r] \in {"found", "granted"} => req[r] \in SetRoleOf
        /\ pc[r] = "removing" => req[r] \in RemoveUser /\ req[r].user # who[r].user
        /\ pc[r] = "minting" => req[r] \in MintFor
        /\ pc[r] \in {"named", "seated", "found", "granted", "removing"} => IsAdmin(r)
        /\ r \in disturbed => pc[r] # "idle"

\* The two foreign keys that memberships and tokens have to users.
RowsReferenced ==
    /\ \A u \in Member : name[u] # Nothing
    /\ \A t \in Tokens : tokens[t] # Nothing => name[tokens[t]] # Nothing

\* A user who is a member nowhere has no row.
UsersAreMembers == \A u \in Users \ Elsewhere : name[u] # Nothing => u \in Member

\* Removing a member revokes its tokens, the ones that requests in flight
\* are minting for it included: without a membership there are none, except
\* of users who stay because they are members of another org.
TokensOfMembers ==
    \A t \in Tokens : tokens[t] \in Users \ Elsewhere => tokens[t] \in Member

\* While no admin stopped being one since it was let in, the caller of a
\* request that was let in as an admin is one still, and the admins it counted
\* are there.
CallersAdmin ==
    \A r \in InFlight \ disturbed :
        /\ IsAdmin(r) => who[r].user \in Admins
        /\ pc[r] = "granted" =>
              \E u \in Admins : u # req[r].user \/ req[r].role = "admin"

\* There is a seat for the member a request is about to insert.
SeatHeld == \A r \in Requests : pc[r] = "seated" => ~Full

\* The name a request is about to add was looked up, and is still free unless
\* another request added it since.  The provider's members are not asked.
NamesFree ==
    \A r \in Requests \ disturbed :
        pc[r] \in {"named", "seated"} =>
            \A u \in Member \ ProviderUsers : name[u] # req[r].name

OneSeated == \A r, s \in Requests : pc[r] = "seated" /\ pc[s] = "seated" => r = s

\* What a request has read is still so when it writes, and the rows agree with
\* each other: no credential is left of who is no member.
IInv ==
    /\ TypeOK
    /\ RequestsSound
    /\ RowsReferenced
    /\ UsersAreMembers
    /\ TokensOfMembers
    /\ CallersAdmin
    /\ NamesFree
    /\ SeatHeld
    /\ OneSeated

\* "The server refuses to demote or remove the last admin": by PATCH and
\* DELETE the org loses it only if another admin was lost between the
\* authentication of the request and its write, which neither checks again.
\* The provider's claims and the operator are not asked.
LastAdminKept ==
    [][Admins # {} /\ Admins' = {} /\ pc' # pc =>
          \E r \in Requests : pc'[r] # pc[r] /\ (pc[r] = "idle" \/ r \in disturbed)]_vars

\* The API adds no member beyond the seats, whatever it adds at the same time
\* and however the limit and the provider's members change.
SeatLimitHeld ==
    [][\A r \in Requests :
          pc[r] = "seated" /\ pc'[r] # "seated" /\ role' # role =>
              limit = NoLimit \/ Cardinality(MembersIn(role')) <= limit]_vars

\* Names are unique among the members the API and the bootstrap create: what
\* adds a second one looked the name up before the first was added.
NamesDistinct ==
    [][\A u \in MembersIn(role') \ (Member \cup ProviderUsers) :
          \A v \in Member \ ProviderUsers :
             name'[u] = name[v] =>
                \E r \in disturbed : pc[r] = "seated" /\ pc'[r] # "seated"]_vars
=============================================================================
