---------------------------- MODULE BundleStore ----------------------------
(***************************************************************************)
(* The versioned units of one org: the handlers of PUT and DELETE          *)
(* /v1/bundles (src/apps/server/src/routes/bundles.ts) and the store       *)
(* methods they call, putBundle and deleteBundle                           *)
(* (src/apps/server/src/storage/store.ts), over Postgres at READ COMMITTED.*)
(*                                                                         *)
(* A member of Requests is one run of a handler; every database statement  *)
(* another run can come between is a step.  A transaction's writes are     *)
(* applied by its Commit, so a rolled back transaction leaves nothing.     *)
(* Row locks are not variables: which request holds one follows from how   *)
(* far it has come.  Every statement needs a connection of the pool; a     *)
(* transaction keeps its own until it ends.                                *)
(***************************************************************************)
EXTENDS Integers, Sequences, FiniteSets

CONSTANTS
    Units,          \* unit keys (scope, agent, project, name) of one org
    UserUnits,      \* those of scope "user"
    OrgUnits,       \* those of scope "org"; the rest are project scope
    LegacyUnits,    \* units that may be there from before users
    Users,
    Admins,         \* users whose role is admin
    NoUser,         \* null in bundles.user_id
    Shas,           \* digests of file contents
    Manifests,      \* file lists a client sends: sets of digests
    Parents,        \* parent versions a client sends
    SkillLimits,    \* values orgs.max_skills takes
    NoLimit,        \* null in that column: unlimited
    Requests,       \* handler runs, each serving one HTTP request
    NoRequest,      \* what a run that is not serving asks for
    PoolSize        \* connections of the pg.Pool

ASSUME ScopeAssumption ==
    /\ IsFiniteSet(Units)
    /\ UserUnits \subseteq Units
    /\ OrgUnits \subseteq Units
    /\ UserUnits \cap OrgUnits = {}
    /\ LegacyUnits \subseteq Units

ASSUME UserAssumption == Admins \subseteq Users /\ NoUser \notin Users

ASSUME InputAssumption ==
    /\ Manifests \subseteq SUBSET Shas
    /\ {} \in Manifests
    /\ Parents \subseteq Nat
    /\ 0 \in Parents

ASSUME LimitAssumption == SkillLimits \subseteq Nat \cup {NoLimit} /\ NoLimit \notin Nat

VARIABLES
    head,           \* bundles.head of the committed row; 0 when there is none
    owner,          \* bundles.user_id of the committed row
    users,          \* the users that have not been removed
    versions,       \* bundle_versions of the row: version number -> version
    index,          \* blobs: the digests the org has stored
    maxSkills,      \* orgs.max_skills
    pc,             \* where each request is
    req,            \* what it asks for
    inserted,       \* its transaction inserted the (uncommitted) unit row
    row             \* the unit row it read under the lock

storeVars == <<head, owner, users, versions, index, maxSkills>>
vars == <<head, owner, users, versions, index, maxSkills, pc, req, inserted, row>>

Request == [user : Users, unit : Units, parent : Parents, force : BOOLEAN,
            files : Manifests]

\* `by` and `forced` are history: whose request wrote it, with ?force=1.
Version == [parent : Parents, files : Manifests, by : Users, forced : BOOLEAN]

Row == [head : Nat, owner : Users \cup {NoUser}]

NoRow == [head |-> 0, owner |-> NoUser]

\* Control points.  "locked" to "limited" hold the unit's row lock, as does
\* "upserted" when the row is the transaction's own insert.
Locked == {"locked", "create", "extend", "limited"}
InTx == {"begun", "upserted"} \cup Locked
Answered == {"accepted", "refused"}
ControlPoint == {"new", "allowed", "ready", "remove", "deleting"} \cup InTx \cup Answered

-----------------------------------------------------------------------------
(* Locks, connections, permissions.                                        *)

Holds(r, u) ==
    /\ pc[r] \in Locked \/ (pc[r] = "upserted" /\ inserted[r])
    /\ req[r].unit = u

NoRowLock(u) == TRUE

RowFree(u) == \A r \in Requests : ~Holds(r, u)

NoOrgLock == TRUE

\* orgLimits(tx, orgId, true) has the org row FOR UPDATE until the commit.
OrgFree == \A r \in Requests : pc[r] # "limited"

Leaky == Cardinality({r \in Requests : pc[r] \in InTx \cup {"deleting"}}) + 1 < PoolSize

ConnFree == Cardinality({r \in Requests : pc[r] \in InTx \cup {"deleting"}}) < PoolSize

\* can(identity, bundle.write): `o` is the owner of the unit's row.
Can(user, u, o) ==
    \/ user \in Admins
    \/ u \in UserUnits /\ o \in {NoUser, user}
    \/ u \notin UserUnits \cup OrgUnits

LiveUnits == {u \in Units : head[u] > 0}

HasRoom == maxSkills = NoLimit \/ Cardinality(LiveUnits) < maxSkills

Goto(r, where) == pc' = [pc EXCEPT ![r] = where]

\* The handler answers: a transaction it was in has committed or rolled back,
\* its connection is back in the pool and nothing of the request is left.
Answer(r, how) ==
    /\ Goto(r, how)
    /\ req' = [req EXCEPT ![r] = NoRequest]
    /\ inserted' = [inserted EXCEPT ![r] = FALSE]
    /\ row' = [row EXCEPT ![r] = NoRow]

-----------------------------------------------------------------------------

\* A legacy unit, if there is one, has one version, written before anyone owned
\* units.
Init ==
    /\ \E legacy \in SUBSET LegacyUnits :
          head = [u \in Units |-> IF u \in legacy THEN 1 ELSE 0]
    /\ owner = [u \in Units |-> NoUser]
    /\ users = Users
    /\ \E w \in Users :
          versions = [u \in Units |->
                        [n \in 1..head[u] |->
                           [parent |-> 0, files |-> {}, by |-> w, forced |-> FALSE]]]
    /\ index = {}
    /\ maxSkills \in SkillLimits
    /\ pc = [r \in Requests |-> "new"]
    /\ req = [r \in Requests |-> NoRequest]
    /\ inserted = [r \in Requests |-> FALSE]
    /\ row = [r \in Requests |-> NoRow]

-----------------------------------------------------------------------------

(* Before the transaction.                                                 *)

\* denyWrite: bundleOwner is read in a statement of its own, and nothing
\* keeps it from changing before the transaction.
Admit(r, q, next) ==
    /\ pc[r] = "new"
    /\ ConnFree
    /\ IF Can(q.user, q.unit, owner[q.unit])
         THEN /\ Goto(r, next)
              /\ req' = [req EXCEPT ![r] = q]
              /\ UNCHANGED <<inserted, row>>
         ELSE Answer(r, "refused")
    /\ UNCHANGED storeVars

\* Removing a user removes their tokens, so nobody else asks.
StartPut(r) == \E q \in Request : q.user \in users /\ Admit(r, q, "allowed")

StartDelete(r) ==
    \E user \in users, u \in Units :
        Admit(r, [user |-> user, unit |-> u, parent |-> 0, force |-> FALSE,
                  files |-> {}], "remove")

UncheckedIfForced(r) == req[r].force \/ req[r].files \subseteq index

\* hasBlobs finds nothing missing.
BlobsThere(r) == req[r].files \subseteq index

\* hasBlobs, then parseSkills: a blob that is not stored is a 412.  With no
\* files there is no query.
CheckBlobs(r) ==
    /\ pc[r] = "allowed"
    /\ req[r].files # {} => ConnFree
    /\ IF BlobsThere(r)
         THEN Goto(r, "ready") /\ UNCHANGED <<req, inserted, row>>
         ELSE Answer(r, "refused")
    /\ UNCHANGED storeVars

-----------------------------------------------------------------------------
(* The transaction of putBundle.                                           *)

Begin(r) ==
    /\ pc[r] = "ready"
    /\ ConnFree
    /\ Goto(r, "begun")
    /\ UNCHANGED <<storeVars, req, inserted, row>>

\* INSERT ... ON CONFLICT DO NOTHING: waits while another transaction has
\* the same key inserted and not committed; does nothing if the row is there.
\* The owner of a new row is a foreign key.
Upsert(r) ==
    LET u == req[r].unit IN
    /\ pc[r] = "begun"
    /\ head[u] = 0 => RowFree(u)
    /\ IF head[u] > 0 \/ req[r].user \in users
         THEN /\ inserted' = [inserted EXCEPT ![r] = (head[u] = 0)]
              /\ Goto(r, "upserted")
              /\ UNCHANGED <<req, row>>
         ELSE Answer(r, "refused")
    /\ UNCHANGED storeVars

\* SELECT ... FOR UPDATE: waits for the holder of the committed row; the row
\* is gone if a delete committed since the upsert ("bundle row vanished").
LockRow(r) ==
    LET u == req[r].unit IN
    /\ pc[r] = "upserted"
    /\ (~inserted[r] /\ head[u] > 0) => RowFree(u)
    /\ IF inserted[r] \/ head[u] > 0
         THEN /\ row' = [row EXCEPT ![r] =
                           [head |-> head[u],
                            owner |-> IF inserted[r] THEN req[r].user ELSE owner[u]]]
              /\ Goto(r, "locked")
              /\ UNCHANGED <<req, inserted>>
         ELSE Answer(r, "refused")
    /\ UNCHANGED storeVars

StaleIfAhead(r) == ~req[r].force /\ req[r].parent > row[r].head

\* parent !== row.head and not forced: StaleError, a 409.
Stale(r) == ~req[r].force /\ req[r].parent # row[r].head

\* The blobs again, on a second connection, then the parent.  A new unit
\* still has to pass the limit.
Recheck(r) ==
    /\ pc[r] = "locked"
    /\ req[r].files # {} => ConnFree
    /\ IF BlobsThere(r) /\ ~Stale(r)
         THEN /\ Goto(r, IF row[r].head = 0 THEN "create" ELSE "extend")
              /\ UNCHANGED <<req, inserted, row>>
         ELSE Answer(r, "refused")
    /\ UNCHANGED storeVars

\* orgLimits locks the org row, countSkills counts committed units: a 402.
CheckLimit(r) ==
    /\ pc[r] = "create"
    /\ OrgFree
    /\ IF HasRoom
         THEN Goto(r, "limited") /\ UNCHANGED <<req, inserted, row>>
         ELSE Answer(r, "refused")
    /\ UNCHANGED storeVars

\* The version this request writes, HEAD+1 of the row it locked.
NewVersion(r) == [parent |-> req[r].parent, files |-> req[r].files,
                  by |-> req[r].user, forced |-> req[r].force]

NextNumber(r) == row[r].head + 1

TakenOver(r) == req[r].user

\* The first write claims an unowned row.
Claimed(r) == IF row[r].owner = NoUser THEN req[r].user ELSE row[r].owner

\* Claims the row, inserts the version and moves HEAD.  Inserting a number
\* that is there breaks the primary key of bundle_versions; the owner has to
\* exist.
Commit(r) ==
    LET u == req[r].unit
        n == NextNumber(r)
    IN
    /\ pc[r] \in {"limited", "extend"}
    /\ IF n \in DOMAIN versions[u] \/ Claimed(r) \notin users
         THEN Answer(r, "refused") /\ UNCHANGED storeVars
         ELSE /\ versions' = [versions EXCEPT ![u] =
                                [i \in DOMAIN versions[u] \cup {n} |->
                                   IF i = n THEN NewVersion(r) ELSE versions[u][i]]]
              /\ head' = [head EXCEPT ![u] = n]
              /\ owner' = [owner EXCEPT ![u] = Claimed(r)]
              /\ Answer(r, "accepted")
              /\ UNCHANGED <<users, index, maxSkills>>

\* A lost connection or a restarted server rolls the transaction back.
Abort(r) ==
    /\ pc[r] \notin {"new"} \cup Answered
    /\ Answer(r, "refused")
    /\ UNCHANGED storeVars

-----------------------------------------------------------------------------
(* deleteBundle.                                                           *)

BeginDelete(r) ==
    /\ pc[r] = "remove"
    /\ ConnFree
    /\ Goto(r, "deleting")
    /\ UNCHANGED <<storeVars, req, inserted, row>>

\* One DELETE ... WHERE head > 0 that cascades to the versions; it waits for
\* a locked row, and does not see one that is not committed.
Delete(r) ==
    LET u == req[r].unit IN
    /\ pc[r] = "deleting"
    /\ head[u] > 0 => RowFree(u)
    /\ IF head[u] > 0
         THEN /\ head' = [head EXCEPT ![u] = 0]
              /\ owner' = [owner EXCEPT ![u] = NoUser]
              /\ versions' = [versions EXCEPT ![u] = <<>>]
              /\ Answer(r, "accepted")
              /\ UNCHANGED <<users, index, maxSkills>>
         ELSE Answer(r, "refused") /\ UNCHANGED storeVars

-----------------------------------------------------------------------------
(* The rest of the server.                                                 *)

\* The last statement of putBlob (module BlobStore has the whole of it).
\* Nothing removes a blob.
IndexBlob ==
    /\ ConnFree
    /\ \E s \in Shas \ index : index' = index \cup {s}
    /\ UNCHANGED <<head, owner, users, versions, maxSkills, pc, req, inserted, row>>

\* setOrgLimits updates the org row, so it waits for a create that locked it.
SetLimit ==
    /\ ConnFree
    /\ OrgFree
    /\ maxSkills' \in SkillLimits
    /\ UNCHANGED <<head, owner, users, versions, index, pc, req, inserted, row>>

\* removeMember of a user in no other org deletes the user: the units they own
\* lose their owner (ON DELETE SET NULL).  It waits for the rows it changes,
\* and for transactions that insert a row of theirs.
RemoveUser ==
    \E w \in users :
        /\ ConnFree
        /\ \A u \in Units : owner[u] = w => RowFree(u)
        /\ \A r \in Requests : inserted[r] => req[r].user # w
        /\ users' = users \ {w}
        /\ owner' = [u \in Units |-> IF owner[u] = w THEN NoUser ELSE owner[u]]
        /\ UNCHANGED <<head, versions, index, maxSkills, pc, req, inserted, row>>

-----------------------------------------------------------------------------

Put(r) ==
    \/ StartPut(r) \/ CheckBlobs(r) \/ Begin(r) \/ Upsert(r) \/ LockRow(r)
    \/ Recheck(r) \/ CheckLimit(r) \/ Commit(r)

Del(r) == StartDelete(r) \/ BeginDelete(r) \/ Delete(r)

Next ==
    \/ \E r \in Requests : Put(r) \/ Del(r) \/ Abort(r)
    \/ IndexBlob
    \/ SetLimit
    \/ RemoveUser

Spec == Init /\ [][Next]_vars

\* A handler that has started goes on whenever its next statement can run;
\* clients need not send, and connections need not be lost.
Progress(r) ==
    \/ CheckBlobs(r) \/ Begin(r) \/ Upsert(r) \/ LockRow(r) \/ Recheck(r)
    \/ CheckLimit(r) \/ Commit(r) \/ BeginDelete(r) \/ Delete(r)

FairSpec == Spec /\ \A r \in Requests : WF_vars(Progress(r))

-----------------------------------------------------------------------------
(* Properties.                                                             *)

\* Types of the variables.
TypeOK ==
    /\ head \in [Units -> Nat]
    /\ owner \in [Units -> users \cup {NoUser}]
    /\ users \subseteq Users
    /\ versions \in [Units -> Seq(Version)]
    /\ \A u \in Units : Len(versions[u]) = head[u]
    /\ index \subseteq Shas
    /\ maxSkills \in SkillLimits
    /\ pc \in [Requests -> ControlPoint]
    /\ req \in [Requests -> Request \cup {NoRequest}]
    /\ \A r \in Requests : pc[r] \notin {"new"} \cup Answered => req[r] \in Request
    /\ inserted \in [Requests -> BOOLEAN]
    /\ row \in [Requests -> Row]

\* No accepted push is overwritten by one that had not seen it: a version
\* that was not forced has the version before it as its parent, whatever
\* pushes, deletes and re-creations of the unit ran at the same time.
NoLostUpdate ==
    \A u \in Units : \A n \in 1..head[u] :
        versions[u][n].forced \/ versions[u][n].parent = n - 1

\* Every version, not only HEAD, can be downloaded: the files of a manifest
\* are in the blob index.
ManifestsStored ==
    \A u \in Units : \A n \in 1..head[u] : versions[u][n].files \subseteq index

-----------------------------------------------------------------------------
(* The inductive invariant behind the properties.                          *)

\* At most one transaction holds a unit's row, and at most one the org row.
LocksExclusive ==
    \A r, s \in Requests :
        /\ \A u \in Units : Holds(r, u) /\ Holds(s, u) => r = s
        /\ pc[r] = "limited" /\ pc[s] = "limited" => r = s

\* What a transaction read under the row lock is still so: the committed row,
\* or no committed row when the transaction inserted its own.
RowsFresh ==
    \A r \in Requests :
        /\ inserted[r] => /\ pc[r] \in {"upserted"} \cup Locked
                          /\ head[req[r].unit] = 0
                          /\ req[r].user \in users
        /\ pc[r] \in Locked =>
              /\ row[r].head = head[req[r].unit]
              /\ IF inserted[r] THEN row[r].owner = req[r].user
                 ELSE head[req[r].unit] > 0 /\ row[r].owner = owner[req[r].unit]

\* The checks a transaction has passed still hold when it commits.
ChecksHold ==
    \A r \in Requests :
        /\ pc[r] \in {"ready"} \cup InTx => req[r].files \subseteq index
        /\ pc[r] \in {"create", "extend", "limited"} => ~Stale(r)
        /\ pc[r] \in {"create", "limited"} => row[r].head = 0
        /\ pc[r] = "extend" => row[r].head > 0
        /\ pc[r] = "limited" => HasRoom

\* Only a unit that exists has an owner.
OwnersLive == \A u \in Units : head[u] = 0 => owner[u] = NoUser

\* Whatever interleaving of handlers led here, the locks serialize them and
\* nothing a transaction read or checked has gone stale before it commits.
IInv ==
    /\ TypeOK
    /\ LocksExclusive
    /\ RowsFresh
    /\ ChecksHold
    /\ OwnersLive
    /\ NoLostUpdate
    /\ ManifestsStored

-----------------------------------------------------------------------------

\* A unit is only created while the org has room for it, by the limit in
\* force when it appears, however many creates run at once.
SkillLimitHeld ==
    [][(\E u \in Units : head[u] = 0 /\ head'[u] > 0)
         => maxSkills' = NoLimit
            \/ Cardinality({u \in Units : head'[u] > 0}) <= maxSkills']_vars

\* A unit that has an owner keeps it until the unit is deleted or the owner
\* removed: an admin's or a forced write, or a second writer of a unit without
\* one, does not take it over.
OwnerKept ==
    [][\A u \in Units :
          owner[u] # NoUser =>
            owner'[u] = owner[u] \/ head'[u] = 0 \/ owner[u] \notin users']_vars

\* The store's promise, for the histories as they are in the database.
Abs == INSTANCE VersionedUnits WITH Versions <- Version, history <- versions

AbsSpec == Abs!ASpec

\* Every request is answered.
EveryRequestAnswered ==
    \A r \in Requests : (pc[r] # "new") ~> (pc[r] \in Answered)
=============================================================================
