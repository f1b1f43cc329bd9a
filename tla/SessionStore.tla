---------------------------- MODULE SessionStore ----------------------------
(***************************************************************************)
(* The session archives of one org: POST and DELETE /v1/sessions           *)
(* (src/apps/server/src/routes/sessions.ts) over Store.put and             *)
(* Store.delete (storage/store.ts).  A session has a row in Postgres and   *)
(* an object in the object store, which cannot be written together.        *)
(*                                                                         *)
(* A member of Requests is one run of a handler.  newId() is random, so    *)
(* the session a request creates is given the request as its id.  An       *)
(* archive is identified with its digest.                                  *)
(***************************************************************************)
EXTENDS Integers, FiniteSets

CONSTANTS
    Keys,           \* sessions.key: what the client says a session is
    Archives,       \* contents, named by their digests
    SessionLimits,  \* values orgs.max_sessions takes
    NoLimit,        \* null in that column: unlimited
    Requests,
    Nothing         \* no row, no object, no request

ASSUME KeyAssumption == IsFiniteSet(Keys)

ASSUME LimitAssumption ==
    SessionLimits \subseteq Nat \cup {NoLimit} /\ NoLimit \notin Nat

Row == [id : Requests, archive : Archives]

Push == [op : {"push"}, key : Keys, archive : Archives]
Delete == [op : {"delete"}, id : Requests]

ASSUME NothingAssumption == Nothing \notin Row \cup Archives \cup Push \cup Delete

VARIABLES
    rows,           \* sessions: the row of each key
    objects,        \* <org>/sessions/<id>.tar.gz
    limit,          \* orgs.max_sessions
    pc,             \* where each request is
    req,            \* what it asks for
    seen,           \* the row it found
    torn            \* history: the ids whose object a push replaced that did
                    \* not save its row

vars == <<rows, objects, limit, pc, req, seen, torn>>

\* A transaction has ended under "cut" while the object store copies for it.
InFlight == {"staging", "staged", "absent", "limited", "ready", "promoted", "cut",
             "allowed", "unlinked"}
Answered == {"created", "updated", "unchanged", "deleted", "refused"}
ControlPoint == InFlight \cup Answered \cup {"new"}

Goto(r, where) == pc' = [pc EXCEPT ![r] = where]

Stored == {k \in Keys : rows[k] # Nothing}

\* The session a push writes to: the one it found, or its new one.
Id(r) == IF seen[r] = Nothing THEN r ELSE seen[r].id

WritingWhenRefused(r) == pc[r] \in {"ready", "promoted", "refused"} /\ req[r].op = "push"

\* A push that has made its checks and whose transaction is open.
Writing(r) == pc[r] \in {"ready", "promoted"}

\* SELECT ... FOR UPDATE holds the row it finds; where there is none, the
\* push goes on to the org's row.
HoldsRow(r, k) == Writing(r) /\ seen[r] # Nothing /\ req[r].key = k
HoldsOrg(r) == pc[r] = "limited" \/ (Writing(r) /\ seen[r] = Nothing)

NoRowLock(k) == TRUE

RowFree(k) == \A r \in Requests : ~HoldsRow(r, k)

NoOrgLock == TRUE

OrgFree == \A r \in Requests : ~HoldsOrg(r)

-----------------------------------------------------------------------------

Init ==
    /\ rows = [k \in Keys |-> Nothing]
    /\ objects = [r \in Requests |-> Nothing]
    /\ limit \in SessionLimits
    /\ pc = [r \in Requests |-> "new"]
    /\ req = [r \in Requests |-> Nothing]
    /\ seen = [r \in Requests |-> Nothing]
    /\ torn = {}

StartPush(r) ==
    /\ pc[r] = "new"
    /\ \E q \in Push : req' = [req EXCEPT ![r] = q]
    /\ Goto(r, "staging")
    /\ UNCHANGED <<rows, objects, limit, seen, torn>>

\* The route finds the session; one that is not there is a 404, and one that
\* can() says is another's a 403.
StartDelete(r) ==
    /\ pc[r] = "new"
    /\ \E k \in Stored : req' = [req EXCEPT ![r] = [op |-> "delete", id |-> rows[k].id]]
    /\ Goto(r, "allowed") \/ Goto(r, "refused")
    /\ UNCHANGED <<rows, objects, limit, seen, torn>>

\* The archive goes to a temporary key while it is hashed; one that is cut off
\* or too long ends the request.
Stage(r) ==
    /\ pc[r] = "staging"
    /\ \/ Goto(r, "staged")
       \/ Goto(r, "refused")
    /\ UNCHANGED <<rows, objects, limit, req, seen, torn>>

\* SELECT ... FOR UPDATE by key, in a new transaction.
Lock(r) ==
    LET row == rows[req[r].key] IN
    /\ pc[r] = "staged"
    /\ RowFree(req[r].key)
    /\ \/ row = Nothing /\ Goto(r, "absent") /\ UNCHANGED seen
       \/ /\ row # Nothing /\ row.archive = req[r].archive
          /\ Goto(r, "unchanged")
          /\ UNCHANGED seen
       \/ /\ row # Nothing /\ row.archive # req[r].archive
          /\ Goto(r, "ready")
          /\ seen' = [seen EXCEPT ![r] = row]
    /\ UNCHANGED <<rows, objects, limit, req, torn>>

\* orgLimits(tx, orgId, true).
LockOrg(r) ==
    /\ pc[r] = "absent"
    /\ OrgFree
    /\ Goto(r, "limited")
    /\ UNCHANGED <<rows, objects, limit, req, seen, torn>>

Full == limit # NoLimit /\ Cardinality(Stored) >= limit

\* countSessions; a session there is no room for is a 402.
CheckLimit(r) ==
    /\ pc[r] = "limited"
    /\ Goto(r, IF Full THEN "refused" ELSE "ready")
    /\ UNCHANGED <<rows, objects, limit, req, seen, torn>>

\* promote copies the staged object over the session's, all of it or nothing;
\* when it fails the transaction is rolled back.
Promote(r) ==
    /\ pc[r] = "ready"
    /\ \/ /\ objects' = [objects EXCEPT ![Id(r)] = req[r].archive]
          /\ torn' = torn \ {Id(r)}
          /\ Goto(r, "promoted")
       \/ Goto(r, "refused") /\ UNCHANGED <<objects, torn>>
    /\ UNCHANGED <<rows, limit, req, seen>>

NoUniqueKey(r) == seen[r] # Nothing => rows[req[r].key] # Nothing

\* The update finds its row; the insert does not find one with its key.
Saves(r) ==
    IF seen[r] = Nothing
      THEN rows[req[r].key] = Nothing
      ELSE rows[req[r].key] # Nothing /\ rows[req[r].key].id = seen[r].id

\* UPDATE or INSERT, and COMMIT.
Save(r) ==
    /\ pc[r] = "promoted"
    /\ Saves(r)
    /\ rows' = [rows EXCEPT ![req[r].key] = [id |-> Id(r), archive |-> req[r].archive]]
    /\ Goto(r, IF seen[r] = Nothing THEN "created" ELSE "updated")
    /\ UNCHANGED <<objects, limit, req, seen, torn>>

\* The statement fails, or the server or its connection does, before the
\* answer: the transaction is rolled back, and the object stays.
Abort(r) ==
    /\ pc[r] \in InFlight
    /\ Goto(r, "refused")
    /\ torn' = IF pc[r] = "promoted" THEN torn \cup {Id(r)} ELSE torn
    /\ UNCHANGED <<rows, objects, limit, req, seen>>

\* An insert that meets its key fails.
Duplicate(r) == pc[r] = "promoted" /\ ~Saves(r) /\ Abort(r)

\* The transaction ends while the object store copies: the row is free, and
\* the copy is still to come, or was made and not reported.
Cut(r) ==
    /\ pc[r] = "ready"
    /\ Goto(r, "cut")
    /\ UNCHANGED <<rows, objects, limit, req, seen, torn>>

Land(r) ==
    /\ pc[r] = "cut"
    /\ objects' = [objects EXCEPT ![Id(r)] = req[r].archive]
    /\ torn' = torn \cup {Id(r)}
    /\ Goto(r, "refused")
    /\ UNCHANGED <<rows, limit, req, seen>>

\* A delete that does not wait for the row.
DeletesHeldRow(r) ==
    /\ pc[r] = "allowed"
    /\ \E k \in Stored :
          /\ rows[k].id = req[r].id
          /\ rows' = [rows EXCEPT ![k] = Nothing]
    /\ Goto(r, "unlinked")
    /\ UNCHANGED <<objects, limit, req, seen, torn>>

\* DELETE FROM sessions ... RETURNING id, which waits for the row.
DeleteRow(r) ==
    /\ pc[r] = "allowed"
    /\ \/ \E k \in Stored :
             /\ rows[k].id = req[r].id
             /\ RowFree(k)
             /\ rows' = [rows EXCEPT ![k] = Nothing]
             /\ Goto(r, "unlinked")
       \/ /\ \A k \in Stored : rows[k].id # req[r].id
          /\ Goto(r, "refused")
          /\ UNCHANGED rows
    /\ UNCHANGED <<objects, limit, req, seen, torn>>

\* A failure to delete the object is ignored.
DeleteObject(r) ==
    /\ pc[r] = "unlinked"
    /\ \/ objects' = [objects EXCEPT ![req[r].id] = Nothing]
       \/ UNCHANGED objects
    /\ Goto(r, "deleted")
    /\ UNCHANGED <<rows, limit, req, seen, torn>>

\* UPDATE orgs waits for the org's row.
SetLimit ==
    /\ OrgFree
    /\ limit' \in SessionLimits
    /\ UNCHANGED <<rows, objects, pc, req, seen, torn>>

Progress(r) ==
    \/ Stage(r) \/ Lock(r) \/ LockOrg(r) \/ CheckLimit(r) \/ Promote(r) \/ Save(r)
    \/ Duplicate(r) \/ Land(r) \/ DeleteRow(r) \/ DeleteObject(r)

Next ==
    \/ \E r \in Requests :
          StartPush(r) \/ StartDelete(r) \/ Progress(r) \/ Cut(r) \/ Abort(r)
    \/ SetLimit

Spec == Init /\ [][Next]_vars

\* The server goes on with a request until it is answered.
FairSpec == Spec /\ \A r \in Requests : WF_vars(Progress(r))

-----------------------------------------------------------------------------
(* Properties.                                                             *)

\* Types of the variables.
TypeOK ==
    /\ rows \in [Keys -> Row \cup {Nothing}]
    /\ objects \in [Requests -> Archives \cup {Nothing}]
    /\ limit \in SessionLimits
    /\ pc \in [Requests -> ControlPoint]
    /\ req \in [Requests -> Push \cup Delete \cup {Nothing}]
    /\ seen \in [Requests -> Row \cup {Nothing}]
    /\ torn \subseteq Requests

\* The comment in put: a reader never sees metadata pointing at a missing
\* object.  Pushes that fail or are cut off halfway, and deletes of a session
\* that is pushed again meanwhile, leave every row with an object.
RowsBacked == \A k \in Stored : objects[rows[k].id] # Nothing

\* The object is the archive whose digest and size the row gives, except while
\* a push holds the row and after one that replaced the object and failed;
\* a later push of other content that succeeds repairs it.
Described ==
    \A k \in Stored :
        \/ objects[rows[k].id] = rows[k].archive
        \/ rows[k].id \in torn
        \/ \E r \in Requests : HoldsRow(r, k) /\ pc[r] = "promoted"

\* A session keeps its id for as long as it has a row, whoever pushes it and
\* however many first pushes of it there are at the same time.
UpdatedInPlace ==
    [][\A k \in Stored : rows'[k] # Nothing => rows'[k].id = rows[k].id]_vars

\* No session is added beyond the limit in force, by any interleaving of
\* first pushes of different sessions with changes of the limit.
SessionLimitHeld ==
    [][\A k \in Keys \ Stored :
          rows'[k] # Nothing => limit = NoLimit \/ Cardinality(Stored') <= limit]_vars

\* Ids are those of the pushes that created them, for the same key.
IdsOwn == \A k \in Stored : pc[rows[k].id] = "created" /\ req[rows[k].id].key = k

\* Every request is of the kind its control point belongs to.
RequestsSound ==
    \A r \in Requests :
        /\ pc[r] \in {"staging", "staged", "absent", "limited", "ready", "promoted",
                      "cut", "created", "updated", "unchanged"} => req[r] \in Push
        /\ pc[r] \in {"allowed", "unlinked", "deleted"} => req[r] \in Delete
        /\ pc[r] \in {"new", "staging", "staged", "absent", "limited"} => seen[r] = Nothing

\* At most one request holds a row, and at most one the org's.
LocksExclusive ==
    \A r, s \in Requests :
        /\ \A k \in Keys : HoldsRow(r, k) /\ HoldsRow(s, k) => r = s
        /\ HoldsOrg(r) /\ HoldsOrg(s) => r = s

\* The row a push holds is still what the push found.
RowsFresh == \A r \in Requests : \A k \in Keys : HoldsRow(r, k) => rows[k] = seen[r]

\* A push that will insert has room for its row.
RoomHeld == \A r \in Requests : Writing(r) /\ seen[r] = Nothing => ~Full

\* A promoted archive is in its place until its transaction ends, unless the
\* copy of an earlier transaction arrives on top of it.
PromotedStored ==
    \A r \in Requests :
        pc[r] = "promoted" =>
            /\ objects[Id(r)] # Nothing
            /\ Id(r) \notin torn => objects[Id(r)] = req[r].archive

\* A delete that removed a row will remove the object of no other.
UnlinkedGone ==
    \A r \in Requests :
        /\ pc[r] \in {"allowed", "unlinked"} => pc[req[r].id] = "created"
        /\ pc[r] = "unlinked" => \A k \in Stored : rows[k].id # req[r].id

\* What holds the two stores together: locks are exclusive, a push's reads
\* are still true when it writes, and deletes touch only what is gone.
IInv ==
    /\ TypeOK
    /\ RequestsSound
    /\ IdsOwn
    /\ LocksExclusive
    /\ RowsFresh
    /\ RoomHeld
    /\ PromotedStored
    /\ UnlinkedGone
    /\ RowsBacked
    /\ Described

\* The README says a push that is answered "unchanged" was a no-op because the
\* session is on the server as it is.  Only the row's digest is compared.
UnchangedIsStored ==
    [][\A r \in Requests :
          pc[r] # "unchanged" /\ pc'[r] = "unchanged" =>
              objects[rows[req[r].key].id] = req[r].archive]_vars

\* Every request comes to an answer, whatever the others hold and wherever
\* they are cut off.
EveryRequestAnswered ==
    \A r \in Requests : (pc[r] \in InFlight) ~> (pc[r] \in Answered)
=============================================================================
