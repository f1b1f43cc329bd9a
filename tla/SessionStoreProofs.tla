------------------------- MODULE SessionStoreProofs -------------------------
(***************************************************************************)
(* Proofs about SessionStore for every set of keys, archives, limits and   *)
(* requests: rows are backed, and by what they describe.                   *)
(***************************************************************************)
EXTENDS SessionStore, FiniteSetTheorems, TLAPS

\* What the invariant says of one request.
RequestOK(r) ==
    /\ pc[r] \in {"staging", "staged", "absent", "limited", "ready", "promoted",
                  "cut", "created", "updated", "unchanged"} => req[r] \in Push
    /\ pc[r] \in {"allowed", "unlinked", "deleted"} => req[r] \in Delete
    /\ pc[r] \in {"new", "staging", "staged", "absent", "limited"} => seen[r] = Nothing
    /\ \A k \in Keys : HoldsRow(r, k) => rows[k] = seen[r]
    /\ Writing(r) /\ seen[r] = Nothing => ~Full
    /\ pc[r] = "promoted" =>
          /\ objects[Id(r)] # Nothing
          /\ Id(r) \notin torn => objects[Id(r)] = req[r].archive
    /\ pc[r] \in {"allowed", "unlinked"} => pc[req[r].id] = "created"
    /\ pc[r] = "unlinked" => \A k \in Stored : rows[k].id # req[r].id

\* The invariant is about the rows, the locks and each request.
LEMMA InvariantParts ==
    IInv <=> /\ TypeOK /\ IdsOwn /\ LocksExclusive /\ RowsBacked /\ Described
             /\ \A r \in Requests : RequestOK(r)
  BY DEF IInv, RequestsSound, RowsFresh, RoomHeld, PromotedStored, UnlinkedGone, RequestOK

\* The initial states satisfy the invariant.
LEMMA InitIInv == Init => IInv
<1> SUFFICES ASSUME Init PROVE IInv
  OBVIOUS
<1>1. TypeOK
  BY DEF Init, TypeOK, ControlPoint
<1>2. Stored = {}
  BY DEF Init, Stored
<1>3. \A r \in Requests : pc[r] = "new" /\ seen[r] = Nothing
  BY DEF Init
<1>4. LocksExclusive
  BY <1>3 DEF LocksExclusive, HoldsRow, HoldsOrg, Writing
<1>5. \A r \in Requests : RequestOK(r)
  BY <1>3 DEF RequestOK, HoldsRow, Writing
<1>6. QED
  BY <1>1, <1>2, <1>4, <1>5, InvariantParts DEF IdsOwn, RowsBacked, Described

\* A request that changes its own state and nothing stored.  It may give up a
\* lock, and takes one only when it is free.
LEMMA LocalStep ==
    ASSUME IInv, NEW u \in Requests, UNCHANGED <<rows, objects, limit>>,
           NEW where \in ControlPoint \ {"promoted"}, pc' = [pc EXCEPT ![u] = where],
           NEW q \in Push \cup Delete \cup {Nothing}, req' = [req EXCEPT ![u] = q],
           NEW s \in Row \cup {Nothing}, seen' = [seen EXCEPT ![u] = s],
           torn' = IF pc[u] = "promoted" THEN torn \cup {Id(u)} ELSE torn,
           pc[u] # "created",
           \A k \in Keys : HoldsRow(u, k)' => HoldsRow(u, k) \/ RowFree(k),
           HoldsOrg(u)' => HoldsOrg(u) \/ OrgFree,
           RequestOK(u)'
    PROVE  IInv'
<1> USE InvariantParts
<1>1. TypeOK
  BY DEF IInv
<1>2. Id(u) \in Requests
  BY <1>1 DEF Id, TypeOK, Row
<1>3. TypeOK'
  BY <1>1, <1>2 DEF TypeOK
<1>4. /\ pc'[u] = where /\ req'[u] = q /\ seen'[u] = s
      /\ \A v \in Requests \ {u} : pc'[v] = pc[v] /\ req'[v] = req[v] /\ seen'[v] = seen[v]
  BY <1>1 DEF TypeOK
<1>5. /\ Stored' = Stored /\ (Full' <=> Full) /\ torn \subseteq torn'
  BY DEF Stored, Full
<1>6. ASSUME NEW v \in Requests \ {u}
      PROVE  /\ Id(v)' = Id(v) /\ (Writing(v)' <=> Writing(v)) /\ (HoldsOrg(v)' <=> HoldsOrg(v))
             /\ \A k \in Keys : HoldsRow(v, k)' <=> HoldsRow(v, k)
  BY <1>4 DEF Id, Writing, HoldsOrg, HoldsRow
<1>7. IdsOwn'
  BY <1>1, <1>4, <1>5 DEF IdsOwn, TypeOK, Stored, Row
<1>8. LocksExclusive'
  BY <1>4, <1>6 DEF LocksExclusive, RowFree, OrgFree
<1>9. RowsBacked'
  BY <1>5 DEF RowsBacked
<1>10. Described'
  <2> SUFFICES ASSUME NEW k \in Stored
               PROVE  \/ objects[rows[k].id] = rows[k].archive
                      \/ rows[k].id \in torn'
                      \/ \E r \in Requests : HoldsRow(r, k)' /\ pc'[r] = "promoted"
    BY <1>5 DEF Described
  <2>1. CASE HoldsRow(u, k) /\ pc[u] = "promoted"
    <3>1. k \in Keys /\ rows[k] # Nothing
      BY DEF Stored
    <3>2. rows[k] = seen[u]
      BY <2>1, <3>1 DEF RequestOK
    <3>3. Id(u) = rows[k].id
      BY <3>1, <3>2 DEF Id
    <3>4. QED
      BY <2>1, <3>3
  <2>2. CASE ~(HoldsRow(u, k) /\ pc[u] = "promoted")
    <3>1. k \in Keys
      BY DEF Stored
    <3>2. CASE objects[rows[k].id] = rows[k].archive \/ rows[k].id \in torn
      BY <1>5, <3>2
    <3>3. ASSUME NEW r \in Requests, HoldsRow(r, k), pc[r] = "promoted"
          PROVE  HoldsRow(r, k)' /\ pc'[r] = "promoted"
      BY <2>2, <3>1, <3>3, <1>4, <1>6
    <3>4. QED
      BY <3>2, <3>3 DEF Described
  <2>3. QED
    BY <2>1, <2>2
<1>11. ASSUME NEW v \in Requests \ {u} PROVE RequestOK(v)'
  <2>1. RequestOK(v)
    OBVIOUS
  <2>2. pc[v] \in {"allowed", "unlinked"} => req[v].id \in Requests \ {u}
    BY <2>1, <1>1 DEF RequestOK, Delete, TypeOK
  <2>3. QED
    BY <1>4, <1>5, <1>6, <2>1, <2>2 DEF RequestOK
<1>12. QED
  <2>1. \A v \in Requests : RequestOK(v)'
    BY <1>11
  <2>2. QED
    BY <1>3, <1>7, <1>8, <1>9, <1>10, <2>1
    DEF IInv, RequestsSound, RowsFresh, RoomHeld, PromotedStored, UnlinkedGone, RequestOK

\* A push that starts, or a delete of a session that is there.
LEMMA StartStep ==
    ASSUME IInv, NEW u \in Requests, StartPush(u) \/ StartDelete(u)
    PROVE  IInv'
<1> USE InvariantParts
<1>1. TypeOK /\ RequestOK(u) /\ pc[u] = "new" /\ seen[u] = Nothing
  BY DEF StartPush, StartDelete, RequestOK
<1>2. seen' = [seen EXCEPT ![u] = Nothing] /\ UNCHANGED <<rows, objects, limit, torn>>
  BY <1>1 DEF StartPush, StartDelete, TypeOK
<1>3. seen'[u] = Nothing
  BY <1>1, <1>2 DEF TypeOK
<1>4. CASE StartPush(u)
  <2>1. PICK q \in Push : req' = [req EXCEPT ![u] = q]
    BY <1>4 DEF StartPush
  <2>2. /\ pc' = [pc EXCEPT ![u] = "staging"] /\ pc'[u] = "staging" /\ req'[u] = q
        /\ "staging" \in ControlPoint \ {"promoted"}
    BY <1>1, <1>4, <2>1 DEF StartPush, Goto, TypeOK, ControlPoint, InFlight
  <2>3. /\ RequestOK(u)'
        /\ \A k \in Keys : ~HoldsRow(u, k)'
        /\ ~HoldsOrg(u)'
    BY <1>3, <2>2 DEF RequestOK, HoldsRow, HoldsOrg, Writing
  <2>4. QED
    BY <1>1, <1>2, <2>1, <2>2, <2>3, LocalStep
<1>5. CASE StartDelete(u)
  <2>1. PICK k \in Stored, where \in {"allowed", "refused"} :
           /\ req' = [req EXCEPT ![u] = [op |-> "delete", id |-> rows[k].id]]
           /\ Goto(u, where)
    BY <1>5 DEF StartDelete
  <2> DEFINE q == [op |-> "delete", id |-> rows[k].id]
  <2>2. q \in Delete
    BY <1>1 DEF TypeOK, Stored, Row, Delete
  <2>3. pc' = [pc EXCEPT ![u] = where] /\ where \in ControlPoint \ {"promoted"}
    BY <2>1 DEF Goto, ControlPoint, InFlight, Answered
  <2>4. pc'[u] = where /\ req'[u] = q
    BY <1>1, <2>1, <2>3 DEF TypeOK
  <2>5. q.id \in Requests /\ pc[q.id] = "created"
    BY <2>2 DEF Delete, IdsOwn
  <2>6. pc'[q.id] = "created"
    BY <1>1, <2>3, <2>5 DEF TypeOK
  <2> HIDE DEF q
  <2>7. /\ RequestOK(u)'
        /\ \A l \in Keys : ~HoldsRow(u, l)'
        /\ ~HoldsOrg(u)'
    BY <1>3, <2>2, <2>4, <2>6 DEF RequestOK, HoldsRow, HoldsOrg, Writing
  <2>8. req' = [req EXCEPT ![u] = q]
    BY <2>1 DEF q
  <2>9. QED
    BY <1>1, <1>2, <2>2, <2>3, <2>7, <2>8, LocalStep
<1>6. QED
  BY <1>4, <1>5

\* A step to another control point at which no lock is held.
LEMMA GotoStep ==
    ASSUME IInv, NEW u \in Requests,
           NEW where \in {"staged", "absent", "unchanged", "cut", "refused"},
           Goto(u, where), UNCHANGED <<rows, objects, limit, req, seen>>,
           torn' = IF pc[u] = "promoted" THEN torn \cup {Id(u)} ELSE torn,
           where # "refused" => req[u] \in Push,
           where \in {"staged", "absent"} => seen[u] = Nothing,
           pc[u] # "created"
    PROVE  IInv'
<1> USE InvariantParts
<1>1. TypeOK
  OBVIOUS
<1>2. /\ pc' = [pc EXCEPT ![u] = where] /\ req' = [req EXCEPT ![u] = req[u]]
      /\ seen' = [seen EXCEPT ![u] = seen[u]]
      /\ where \in ControlPoint \ {"promoted"}
  BY <1>1 DEF Goto, TypeOK, ControlPoint, InFlight, Answered
<1>3. pc'[u] = where /\ req'[u] = req[u] /\ seen'[u] = seen[u]
  BY <1>1, <1>2 DEF TypeOK
<1>4. /\ RequestOK(u)'
      /\ \A k \in Keys : ~HoldsRow(u, k)'
      /\ ~HoldsOrg(u)'
  BY <1>3 DEF RequestOK, HoldsRow, HoldsOrg, Writing
<1>5. req[u] \in Push \cup Delete \cup {Nothing} /\ seen[u] \in Row \cup {Nothing}
  BY <1>1 DEF TypeOK
<1>6. QED
  BY <1>2, <1>4, <1>5, LocalStep

\* The steps before the first write: the staged body, the row's lock and the
\* org's, and the count.
LEMMA CheckStep ==
    ASSUME IInv, NEW u \in Requests, Stage(u) \/ Lock(u) \/ LockOrg(u) \/ CheckLimit(u)
    PROVE  IInv'
<1> USE InvariantParts
<1>1. TypeOK /\ RequestOK(u)
  OBVIOUS
<1>2. CASE Stage(u)
  <2>1. PICK where \in {"staged", "refused"} : Goto(u, where)
    BY <1>2 DEF Stage
  <2>2. req[u] \in Push /\ seen[u] = Nothing
    BY <1>1, <1>2 DEF Stage, RequestOK
  <2>3. QED
    BY <1>2, <2>1, <2>2, GotoStep DEF Stage
<1>3. CASE Lock(u)
  <2> DEFINE k == req[u].key
  <2>1. req[u] \in Push /\ k \in Keys /\ seen[u] = Nothing /\ pc[u] = "staged"
    BY <1>1, <1>3 DEF Lock, RequestOK, Push
  <2>2. CASE \E where \in {"absent", "unchanged"} : Goto(u, where) /\ UNCHANGED seen
    BY <1>3, <2>1, <2>2, GotoStep DEF Lock
  <2>3. CASE rows[k] # Nothing /\ Goto(u, "ready") /\ seen' = [seen EXCEPT ![u] = rows[k]]
    <3>1. /\ pc' = [pc EXCEPT ![u] = "ready"] /\ req' = [req EXCEPT ![u] = req[u]]
          /\ UNCHANGED <<rows, objects, limit, torn>> /\ rows[k] \in Row
          /\ "ready" \in ControlPoint \ {"promoted"}
      BY <1>1, <1>3, <2>1, <2>3 DEF Lock, Goto, TypeOK, ControlPoint, InFlight
    <3>2. pc'[u] = "ready" /\ req'[u] = req[u] /\ seen'[u] = rows[k]
      BY <1>1, <2>3, <3>1 DEF TypeOK
    <3>3. RequestOK(u)'
      BY <2>1, <2>3, <3>1, <3>2 DEF RequestOK, HoldsRow, Writing
    <3>4. ~HoldsOrg(u)'
      BY <2>3, <3>2 DEF HoldsOrg
    <3>5. \A l \in Keys : HoldsRow(u, l)' => RowFree(l)
      BY <1>3, <3>2 DEF Lock, HoldsRow
    <3>6. req[u] \in Push \cup Delete \cup {Nothing} /\ rows[k] \in Row \cup {Nothing}
      BY <2>1, <3>1
    <3> HIDE DEF k
    <3>7. QED
      BY <2>1, <2>3, <3>1, <3>3, <3>4, <3>5, <3>6, LocalStep
  <2>4. QED
    BY <1>3, <2>2, <2>3 DEF Lock
<1>4. CASE LockOrg(u) \/ (CheckLimit(u) /\ ~Full)
  <2> DEFINE where == IF pc[u] = "absent" THEN "limited" ELSE "ready"
  <2>1. /\ pc[u] \in {"absent", "limited"} /\ req[u] \in Push /\ seen[u] = Nothing
        /\ pc[u] = "absent" => OrgFree
        /\ pc[u] = "limited" => ~Full
    BY <1>1, <1>4 DEF LockOrg, CheckLimit, RequestOK
  <2>2. /\ pc' = [pc EXCEPT ![u] = where] /\ req' = [req EXCEPT ![u] = req[u]]
        /\ seen' = [seen EXCEPT ![u] = Nothing]
        /\ UNCHANGED <<rows, objects, limit, torn>>
        /\ where \in ControlPoint \ {"promoted"}
    BY <1>1, <1>4, <2>1 DEF LockOrg, CheckLimit, Goto, TypeOK, ControlPoint, InFlight
  <2>3. pc'[u] = where /\ req'[u] = req[u] /\ seen'[u] = Nothing
    BY <1>1, <2>2 DEF TypeOK
  <2>4. Full' <=> Full
    BY <2>2 DEF Full, Stored
  <2>5. RequestOK(u)'
    BY <2>1, <2>3, <2>4 DEF RequestOK, HoldsRow, Writing
  <2>6. \A l \in Keys : ~HoldsRow(u, l)'
    BY <2>3 DEF HoldsRow
  <2>7. HoldsOrg(u) \/ OrgFree
    BY <2>1 DEF HoldsOrg
  <2> HIDE DEF where
  <2>8. QED
    BY <2>1, <2>2, <2>5, <2>6, <2>7, LocalStep
<1>5. CASE CheckLimit(u) /\ Full
  BY <1>5, GotoStep DEF CheckLimit
<1>6. QED
  BY <1>2, <1>3, <1>4, <1>5

\* A transaction that is rolled back, and one that ends under its handler.
LEMMA EndStep ==
    ASSUME IInv, NEW u \in Requests, Abort(u) \/ Cut(u)
    PROVE  IInv'
<1> USE InvariantParts
<1>1. CASE Abort(u)
  BY <1>1, GotoStep DEF Abort, InFlight
<1>2. CASE Cut(u)
  <2>1. RequestOK(u)
    OBVIOUS
  <2>2. QED
    BY <1>2, <2>1, GotoStep DEF Cut, RequestOK
<1>3. QED
  BY <1>1, <1>2

\* A push that is writing shares its session with no other, and holds the row
\* of the session if there is one.
LEMMA IdsApart ==
    ASSUME IInv, NEW u \in Requests, Writing(u)
    PROVE  /\ Id(u) \in Requests
           /\ \A v \in Requests \ {u} : Writing(v) => Id(v) # Id(u)
           /\ \A k \in Stored : rows[k].id = Id(u) => HoldsRow(u, k)
<1> USE InvariantParts
<1>1. ASSUME NEW v \in Requests, Writing(v), seen[v] # Nothing
      PROVE  /\ req[v].key \in Stored /\ HoldsRow(v, req[v].key)
             /\ rows[req[v].key].id = Id(v) /\ pc[Id(v)] = "created"
             /\ Id(v) \in Requests /\ req[Id(v)].key = req[v].key
  <2>1. req[v] \in Push /\ req[v].key \in Keys
    BY <1>1 DEF RequestOK, Writing, Push
  <2>2. HoldsRow(v, req[v].key) /\ rows[req[v].key] = seen[v]
    BY <1>1, <2>1 DEF RequestOK, HoldsRow
  <2>3. req[v].key \in Stored /\ seen[v] \in Row
    BY <1>1, <2>1, <2>2 DEF Stored, TypeOK
  <2>4. QED
    BY <1>1, <2>2, <2>3 DEF IdsOwn, Id, Row
<1>2. Id(u) \in Requests
  BY <1>1 DEF Id
<1>3. ASSUME NEW v \in Requests \ {u}, Writing(v) PROVE Id(v) # Id(u)
  <2>1. CASE seen[u] # Nothing /\ seen[v] # Nothing
    <3>1. Id(v) = Id(u) => HoldsRow(u, req[u].key) /\ HoldsRow(v, req[u].key)
      BY <1>1, <1>3, <2>1
    <3>2. req[u].key \in Keys
      BY <1>1, <2>1 DEF Stored
    <3>3. QED
      BY <3>1, <3>2 DEF LocksExclusive
  <2>2. CASE seen[u] = Nothing \/ seen[v] = Nothing
    BY <1>1, <1>3, <2>2 DEF Id, Writing
  <2>3. QED
    BY <2>1, <2>2
<1>4. ASSUME NEW k \in Stored, rows[k].id = Id(u) PROVE HoldsRow(u, k)
  <2>1. pc[Id(u)] = "created" /\ req[Id(u)].key = k
    BY <1>4 DEF IdsOwn
  <2>2. QED
    BY <1>1, <2>1 DEF Id, Writing
<1>5. QED
  BY <1>2, <1>3, <1>4

\* Nothing but its control point changes of one request, and nothing of others.
LEMMA FrameStep ==
    ASSUME TypeOK, NEW u \in Requests, NEW where, Goto(u, where), UNCHANGED <<req, seen>>
    PROVE  /\ pc'[u] = where
           /\ \A v \in Requests : Id(v)' = Id(v)
           /\ \A v \in Requests \ {u} :
                 /\ pc'[v] = pc[v] /\ (Writing(v)' <=> Writing(v))
                 /\ HoldsOrg(v)' <=> HoldsOrg(v)
                 /\ \A k \in Keys : HoldsRow(v, k)' <=> HoldsRow(v, k)
<1>1. pc'[u] = where /\ \A v \in Requests \ {u} : pc'[v] = pc[v]
  BY DEF Goto, TypeOK
<1>2. QED
  BY <1>1 DEF Id, Writing, HoldsOrg, HoldsRow

\* A copy that succeeds.
LEMMA PromoteStep ==
    ASSUME IInv, NEW u \in Requests, Promote(u)
    PROVE  IInv'
<1> USE InvariantParts
<1>1. TypeOK /\ RequestOK(u) /\ req[u] \in Push /\ pc[u] = "ready" /\ Writing(u)
  BY DEF Promote, RequestOK, Writing
<1>2. CASE Goto(u, "refused") /\ UNCHANGED <<objects, torn>>
  BY <1>1, <1>2, GotoStep DEF Promote
<1>3. CASE /\ objects' = [objects EXCEPT ![Id(u)] = req[u].archive]
           /\ torn' = torn \ {Id(u)}
           /\ Goto(u, "promoted")
  <2>1. UNCHANGED <<rows, limit, req, seen>>
    BY DEF Promote
  <2>2. /\ Id(u) \in Requests
        /\ \A v \in Requests \ {u} : Writing(v) => Id(v) # Id(u)
        /\ \A k \in Stored : rows[k].id = Id(u) => HoldsRow(u, k)
    BY <1>1, IdsApart
  <2>3. /\ pc'[u] = "promoted"
        /\ \A v \in Requests : Id(v)' = Id(v)
        /\ \A v \in Requests \ {u} :
              /\ pc'[v] = pc[v] /\ (Writing(v)' <=> Writing(v))
              /\ HoldsOrg(v)' <=> HoldsOrg(v)
              /\ \A k \in Keys : HoldsRow(v, k)' <=> HoldsRow(v, k)
    BY <1>1, <1>3, <2>1, FrameStep
  <2>4. /\ HoldsOrg(u)' <=> HoldsOrg(u)
        /\ \A k \in Keys : HoldsRow(u, k)' <=> HoldsRow(u, k)
    BY <1>1, <2>1, <2>3 DEF HoldsOrg, HoldsRow, Writing
  <2>5. req[u].archive \in Archives /\ req[u].archive # Nothing
    BY <1>1, NothingAssumption DEF Push
  <2>6. /\ objects'[Id(u)] = req[u].archive
        /\ \A i \in Requests \ {Id(u)} : objects'[i] = objects[i]
    BY <1>1, <1>3, <2>2 DEF TypeOK
  <2>7. Stored' = Stored /\ (Full' <=> Full)
    BY <2>1 DEF Stored, Full
  <2>8. \A k \in Stored : k \in Keys /\ rows[k].id \in Requests
    BY <1>1 DEF Stored, TypeOK, Row
  <2>9. TypeOK'
    <3>1. pc' \in [Requests -> ControlPoint]
      BY <1>1, <1>3 DEF TypeOK, Goto, ControlPoint, InFlight
    <3>2. objects' \in [Requests -> Archives \cup {Nothing}] /\ torn' \subseteq Requests
      BY <1>1, <1>3, <2>5 DEF TypeOK
    <3>3. QED
      BY <1>1, <2>1, <3>1, <3>2 DEF TypeOK
  <2>10. IdsOwn'
    BY <1>1, <2>1, <2>3, <2>7, <2>8 DEF IdsOwn
  <2>11. LocksExclusive'
    BY <2>3, <2>4 DEF LocksExclusive
  <2>12. RowsBacked'
    BY <2>1, <2>5, <2>6, <2>7, <2>8 DEF RowsBacked
  <2>13. Described'
    <3> SUFFICES ASSUME NEW k \in Stored
                 PROVE  \/ objects'[rows[k].id] = rows[k].archive
                        \/ rows[k].id \in torn'
                        \/ \E r \in Requests : HoldsRow(r, k)' /\ pc'[r] = "promoted"
      BY <2>1, <2>7 DEF Described
    <3>1. CASE rows[k].id = Id(u)
      BY <2>2, <2>3, <2>4, <2>8, <3>1
    <3>2. CASE rows[k].id # Id(u)
      <4>1. CASE objects[rows[k].id] = rows[k].archive \/ rows[k].id \in torn
        BY <1>3, <2>6, <2>8, <3>2, <4>1
      <4>2. CASE \E r \in Requests : HoldsRow(r, k) /\ pc[r] = "promoted"
        BY <1>1, <2>3, <2>8, <4>2
      <4>3. QED
        BY <4>1, <4>2 DEF Described
    <3>3. QED
      BY <3>1, <3>2
  <2>14. RequestOK(u)'
    BY <1>1, <2>1, <2>3, <2>4, <2>5, <2>6, <2>7, <1>3 DEF RequestOK, Writing
  <2>15. ASSUME NEW v \in Requests \ {u} PROVE RequestOK(v)'
    <3>1. RequestOK(v)
      OBVIOUS
    <3>2. pc[v] \in {"allowed", "unlinked"} => req[v].id \in Requests \ {u}
      BY <1>1, <3>1 DEF RequestOK, Delete
    <3>3. pc[v] = "promoted" => Id(v) # Id(u) /\ Id(v) \in Requests
      BY <2>2, IdsApart DEF Writing
    <3>4. QED
      BY <1>3, <2>1, <2>3, <2>6, <2>7, <3>1, <3>2, <3>3 DEF RequestOK
  <2>16. \A v \in Requests : RequestOK(v)'
    BY <2>14, <2>15
  <2>17. QED
    BY <2>9, <2>10, <2>11, <2>12, <2>13, <2>16
    DEF IInv, RequestsSound, RowsFresh, RoomHeld, PromotedStored, UnlinkedGone, RequestOK
<1>4. QED
  BY <1>2, <1>3 DEF Promote

\* A copy that arrives after its transaction has ended.
LEMMA LandStep ==
    ASSUME IInv, NEW u \in Requests, Land(u)
    PROVE  IInv'
<1> USE InvariantParts
<1>1. TypeOK /\ RequestOK(u) /\ req[u] \in Push /\ pc[u] = "cut" /\ Id(u) \in Requests
  BY DEF Land, RequestOK, TypeOK, Row, Id
<1>2. /\ objects' = [objects EXCEPT ![Id(u)] = req[u].archive]
      /\ torn' = torn \cup {Id(u)}
      /\ Goto(u, "refused") /\ UNCHANGED <<rows, limit, req, seen>>
  BY DEF Land
<1>3. /\ pc'[u] = "refused"
      /\ \A v \in Requests : Id(v)' = Id(v)
      /\ \A v \in Requests \ {u} :
            /\ pc'[v] = pc[v] /\ (Writing(v)' <=> Writing(v))
            /\ HoldsOrg(v)' <=> HoldsOrg(v)
            /\ \A k \in Keys : HoldsRow(v, k)' <=> HoldsRow(v, k)
  BY <1>1, <1>2, FrameStep
<1>4. ~Writing(u) /\ ~Writing(u)' /\ ~HoldsOrg(u)' /\ \A k \in Keys : ~HoldsRow(u, k)'
  BY <1>1, <1>3 DEF HoldsOrg, HoldsRow, Writing
<1>5. req[u].archive \in Archives /\ req[u].archive # Nothing
  BY <1>1, NothingAssumption DEF Push
<1>6. /\ objects'[Id(u)] = req[u].archive
      /\ \A i \in Requests \ {Id(u)} : objects'[i] = objects[i]
  BY <1>1, <1>2 DEF TypeOK
<1>7. Stored' = Stored /\ (Full' <=> Full)
  BY <1>2 DEF Stored, Full
<1>8. \A k \in Stored : k \in Keys /\ rows[k].id \in Requests
  BY <1>1 DEF Stored, TypeOK, Row
<1>9. TypeOK'
  <2>1. pc' \in [Requests -> ControlPoint]
    BY <1>1, <1>2 DEF TypeOK, Goto, ControlPoint, Answered
  <2>2. objects' \in [Requests -> Archives \cup {Nothing}] /\ torn' \subseteq Requests
    BY <1>1, <1>2, <1>5 DEF TypeOK
  <2>3. QED
    BY <1>1, <1>2, <2>1, <2>2 DEF TypeOK
<1>10. IdsOwn'
  BY <1>1, <1>2, <1>3, <1>7, <1>8 DEF IdsOwn
<1>11. LocksExclusive'
  BY <1>3, <1>4 DEF LocksExclusive
<1>12. RowsBacked'
  BY <1>2, <1>5, <1>6, <1>7, <1>8 DEF RowsBacked
<1>13. Described'
  <2> SUFFICES ASSUME NEW k \in Stored
               PROVE  \/ objects'[rows[k].id] = rows[k].archive
                      \/ rows[k].id \in torn'
                      \/ \E r \in Requests : HoldsRow(r, k)' /\ pc'[r] = "promoted"
    BY <1>2, <1>7 DEF Described
  <2>1. CASE rows[k].id = Id(u)
    BY <1>2, <2>1
  <2>2. CASE rows[k].id # Id(u)
    <3>1. CASE objects[rows[k].id] = rows[k].archive \/ rows[k].id \in torn
      BY <1>2, <1>6, <1>8, <2>2, <3>1
    <3>2. CASE \E r \in Requests : HoldsRow(r, k) /\ pc[r] = "promoted"
      BY <1>1, <1>3, <1>8, <3>2
    <3>3. QED
      BY <3>1, <3>2 DEF Described
  <2>3. QED
    BY <2>1, <2>2
<1>14. ASSUME NEW v \in Requests PROVE RequestOK(v)'
  <2>1. CASE v = u
    BY <1>3, <1>4, <2>1 DEF RequestOK
  <2>2. CASE v # u
    <3>1. RequestOK(v)
      OBVIOUS
    <3>2. pc[v] \in {"allowed", "unlinked"} => req[v].id \in Requests \ {u}
      BY <1>1, <3>1 DEF RequestOK, Delete
    <3>3. Id(v) \in Requests
      BY <1>1 DEF TypeOK, Row, Id
    <3>4. QED
      BY <1>2, <1>3, <1>5, <1>6, <1>7, <2>2, <3>1, <3>2, <3>3 DEF RequestOK
  <2>3. QED
    BY <2>1, <2>2
<1>15. QED
  <2>1. \A v \in Requests : RequestOK(v)'
    BY <1>14
  <2>2. QED
    BY <1>9, <1>10, <1>11, <1>12, <1>13, <2>1
    DEF IInv, RequestsSound, RowsFresh, RoomHeld, PromotedStored, UnlinkedGone, RequestOK

\* A row is written for the object that is in place, by the one push that may.
LEMMA SaveStep ==
    ASSUME IInv, NEW u \in Requests, Save(u)
    PROVE  IInv'
<1> USE InvariantParts
<1> DEFINE key == req[u].key
           row == [id |-> Id(u), archive |-> req[u].archive]
           where == IF seen[u] = Nothing THEN "created" ELSE "updated"
<1>1. /\ TypeOK /\ RequestOK(u) /\ req[u] \in Push /\ pc[u] = "promoted" /\ Writing(u)
      /\ key \in Keys /\ key = req[u].key
  BY DEF Save, RequestOK, Writing, Push
<1>2. /\ Saves(u) /\ rows' = [rows EXCEPT ![key] = row] /\ Goto(u, where)
      /\ UNCHANGED <<objects, limit, req, seen, torn>>
  BY DEF Save
<1>3. /\ Id(u) \in Requests
      /\ \A v \in Requests \ {u} : Writing(v) => Id(v) # Id(u)
  BY <1>1, IdsApart
<1>4. row \in Row /\ row # Nothing /\ row.id = Id(u) /\ row.archive = req[u].archive
  BY <1>1, <1>3, NothingAssumption DEF Row, Push
<1> HIDE DEF key, row
<1>5. /\ pc'[u] = where
      /\ \A v \in Requests : Id(v)' = Id(v)
      /\ \A v \in Requests \ {u} :
            /\ pc'[v] = pc[v] /\ (Writing(v)' <=> Writing(v))
            /\ HoldsOrg(v)' <=> HoldsOrg(v)
            /\ \A k \in Keys : HoldsRow(v, k)' <=> HoldsRow(v, k)
  BY <1>1, <1>2, FrameStep
<1>6. ~Writing(u)' /\ ~HoldsOrg(u)' /\ \A k \in Keys : ~HoldsRow(u, k)'
  BY <1>5 DEF HoldsOrg, HoldsRow, Writing
<1>7. rows'[key] = row /\ \A k \in Keys \ {key} : rows'[k] = rows[k]
  BY <1>1, <1>2 DEF TypeOK
<1>8. Stored' = Stored \cup {key}
  BY <1>1, <1>4, <1>7 DEF Stored
<1>9. \A k \in Stored : k \in Keys /\ rows[k] # Nothing /\ rows[k].id \in Requests
  BY <1>1 DEF Stored, TypeOK, Row
<1>10. /\ seen[u] = Nothing => key \notin Stored /\ Id(u) = u
       /\ seen[u] # Nothing => /\ key \in Stored /\ HoldsRow(u, key)
                               /\ rows[key].id = Id(u) /\ Stored' = Stored
  BY <1>1, <1>2, <1>8 DEF Saves, Stored, Id, HoldsRow
<1>11. \A v \in Requests \ {u} : ~HoldsRow(v, key)
  BY <1>1, <1>10 DEF LocksExclusive, RequestOK, HoldsRow, Stored
<1>12. TypeOK'
  <2>1. pc' \in [Requests -> ControlPoint]
    BY <1>1, <1>2 DEF TypeOK, Goto, ControlPoint, Answered
  <2>2. rows' \in [Keys -> Row \cup {Nothing}]
    BY <1>1, <1>2, <1>4 DEF TypeOK
  <2>3. QED
    BY <1>1, <1>2, <2>1, <2>2 DEF TypeOK
<1>13. IdsOwn'
  <2> SUFFICES ASSUME NEW k \in Stored'
               PROVE  pc'[rows'[k].id] = "created" /\ req[rows'[k].id].key = k
    BY <1>2 DEF IdsOwn
  <2>1. CASE k = key /\ seen[u] = Nothing
    BY <1>1, <1>4, <1>5, <1>7, <1>10, <2>1
  <2>2. CASE k = key /\ seen[u] # Nothing
    BY <1>1, <1>4, <1>5, <1>7, <1>9, <1>10, <2>2 DEF IdsOwn
  <2>3. CASE k # key
    BY <1>1, <1>5, <1>7, <1>8, <1>9, <2>3 DEF IdsOwn
  <2>4. QED
    BY <2>1, <2>2, <2>3
<1>14. LocksExclusive'
  BY <1>5, <1>6 DEF LocksExclusive
<1>15. RowsBacked' /\ Described'
  <2> SUFFICES ASSUME NEW k \in Stored'
               PROVE  /\ objects[rows'[k].id] # Nothing
                      /\ \/ objects[rows'[k].id] = rows'[k].archive
                         \/ rows'[k].id \in torn
                         \/ \E r \in Requests : HoldsRow(r, k)' /\ pc'[r] = "promoted"
    BY <1>2 DEF RowsBacked, Described
  <2>1. CASE k = key
    BY <1>1, <1>4, <1>7, <2>1 DEF RequestOK
  <2>2. CASE k # key
    <3>1. k \in Stored /\ rows'[k] = rows[k] /\ ~HoldsRow(u, k)
      BY <1>1, <1>7, <1>8, <1>9, <2>2 DEF HoldsRow
    <3>2. \A r \in Requests : HoldsRow(r, k) /\ pc[r] = "promoted"
                                 => HoldsRow(r, k)' /\ pc'[r] = "promoted"
      BY <1>5, <1>9, <3>1
    <3>3. QED
      BY <3>1, <3>2 DEF RowsBacked, Described
  <2>3. QED
    BY <2>1, <2>2
<1>16. RequestOK(u)'
  BY <1>1, <1>2, <1>5, <1>6 DEF RequestOK
<1>17. ASSUME NEW v \in Requests \ {u} PROVE RequestOK(v)'
  <2>1. RequestOK(v)
    OBVIOUS
  <2>2. pc[v] \in {"allowed", "unlinked"} => req[v].id \in Requests \ {u}
    BY <1>1, <2>1 DEF RequestOK, Delete
  <2>3. \A k \in Keys : HoldsRow(v, k) => rows'[k] = rows[k]
    BY <1>7, <1>11
  <2>4. Writing(v) /\ seen[v] = Nothing => Stored' = Stored
    BY <1>1, <1>10 DEF LocksExclusive, HoldsOrg
  <2>5. Stored' = Stored => (Full' <=> Full)
    BY <1>2 DEF Full
  <2>6. pc[v] = "unlinked" => \A k \in Stored' : rows'[k].id # req[v].id
    BY <1>1, <1>4, <1>7, <1>8, <1>9, <1>10, <2>1 DEF RequestOK
  <2>7. QED
    BY <1>2, <1>5, <2>1, <2>2, <2>3, <2>4, <2>5, <2>6 DEF RequestOK
<1>18. QED
  <2>1. \A v \in Requests : RequestOK(v)'
    BY <1>16, <1>17
  <2>2. QED
    BY <1>12, <1>13, <1>14, <1>15, <2>1
    DEF IInv, RequestsSound, RowsFresh, RoomHeld, PromotedStored, UnlinkedGone, RequestOK

\* A row is deleted that no push holds.
LEMMA DeleteRowStep ==
    ASSUME IInv, NEW u \in Requests, DeleteRow(u)
    PROVE  IInv'
<1> USE InvariantParts
<1>1. TypeOK /\ RequestOK(u) /\ pc[u] = "allowed"
  BY DEF DeleteRow
<1>2. CASE Goto(u, "refused") /\ UNCHANGED rows
  BY <1>1, <1>2, GotoStep DEF DeleteRow
<1>3. ASSUME NEW k \in Stored, rows[k].id = req[u].id, RowFree(k),
             rows' = [rows EXCEPT ![k] = Nothing], Goto(u, "unlinked")
      PROVE  IInv'
  <2>1. UNCHANGED <<objects, limit, req, seen, torn>> /\ req[u] \in Delete
        /\ req[u].id \in Requests \ {u} /\ pc[req[u].id] = "created"
    BY <1>1 DEF DeleteRow, RequestOK, Delete
  <2>2. /\ pc'[u] = "unlinked"
        /\ \A v \in Requests : Id(v)' = Id(v)
        /\ \A v \in Requests \ {u} :
              /\ pc'[v] = pc[v] /\ (Writing(v)' <=> Writing(v))
              /\ HoldsOrg(v)' <=> HoldsOrg(v)
              /\ \A l \in Keys : HoldsRow(v, l)' <=> HoldsRow(v, l)
    BY <1>1, <1>3, <2>1, FrameStep
  <2>3. ~Writing(u)' /\ ~HoldsOrg(u)' /\ \A l \in Keys : ~HoldsRow(u, l) /\ ~HoldsRow(u, l)'
    BY <1>1, <2>2 DEF HoldsOrg, HoldsRow, Writing
  <2>4. /\ k \in Keys /\ Stored' = Stored \ {k}
        /\ \A l \in Keys \ {k} : rows'[l] = rows[l]
    BY <1>1, <1>3 DEF TypeOK, Stored
  <2>5. \A l \in Stored : l \in Keys /\ rows[l].id \in Requests
    BY <1>1 DEF Stored, TypeOK, Row
  <2>6. Full' => Full
    <3>1. IsFiniteSet(Stored) /\ IsFiniteSet(Stored')
      BY <2>4, KeyAssumption, FS_Subset DEF Stored
    <3>2. Cardinality(Stored') \in Nat /\ Cardinality(Stored) \in Nat
      BY <3>1, FS_CardinalityType
    <3>3. Cardinality(Stored') <= Cardinality(Stored)
      BY <2>4, <3>1, FS_Subset
    <3>4. limit # NoLimit => limit \in Nat
      BY <1>1, LimitAssumption DEF TypeOK
    <3>5. QED
      BY <2>1, <3>2, <3>3, <3>4 DEF Full
  <2>7. TypeOK'
    <3>1. pc' \in [Requests -> ControlPoint]
      BY <1>1, <1>3 DEF TypeOK, Goto, ControlPoint, InFlight
    <3>2. rows' \in [Keys -> Row \cup {Nothing}]
      BY <1>1, <1>3 DEF TypeOK
    <3>3. QED
      BY <1>1, <2>1, <3>1, <3>2 DEF TypeOK
  <2>8. IdsOwn'
    BY <1>1, <2>1, <2>2, <2>4, <2>5 DEF IdsOwn
  <2>9. LocksExclusive'
    BY <2>2, <2>3 DEF LocksExclusive
  <2>10. RowsBacked'
    BY <2>1, <2>4, <2>5 DEF RowsBacked
  <2>11. Described'
    <3> SUFFICES ASSUME NEW l \in Stored \ {k}
                 PROVE  \/ objects[rows[l].id] = rows[l].archive
                        \/ rows[l].id \in torn
                        \/ \E r \in Requests : HoldsRow(r, l)' /\ pc'[r] = "promoted"
      BY <2>1, <2>4, <2>5 DEF Described
    <3>1. \A r \in Requests : HoldsRow(r, l) /\ pc[r] = "promoted"
                                => HoldsRow(r, l)' /\ pc'[r] = "promoted"
      BY <2>2, <2>3, <2>5
    <3>2. QED
      BY <3>1 DEF Described
  <2>12. RequestOK(u)'
    <3>1. \A l \in Stored \ {k} : rows[l].id # req[u].id
      BY <1>3, <2>5 DEF IdsOwn
    <3>2. pc'[req[u].id] = "created"
      BY <2>1, <2>2
    <3>3. QED
      BY <2>1, <2>2, <2>3, <2>4, <2>5, <3>1, <3>2 DEF RequestOK
  <2>13. ASSUME NEW v \in Requests \ {u} PROVE RequestOK(v)'
    <3>1. RequestOK(v)
      OBVIOUS
    <3>2. pc[v] \in {"allowed", "unlinked"} => req[v].id \in Requests \ {u}
      BY <1>1, <3>1 DEF RequestOK, Delete
    <3>3. \A l \in Keys : HoldsRow(v, l) => rows'[l] = rows[l]
      BY <1>3, <2>4 DEF RowFree
    <3>4. QED
      BY <2>1, <2>2, <2>4, <2>5, <2>6, <3>1, <3>2, <3>3 DEF RequestOK
  <2>14. QED
    <3>1. \A v \in Requests : RequestOK(v)'
      BY <2>12, <2>13
    <3>2. QED
      BY <2>7, <2>8, <2>9, <2>10, <2>11, <3>1
      DEF IInv, RequestsSound, RowsFresh, RoomHeld, PromotedStored, UnlinkedGone, RequestOK
<1>4. QED
  BY <1>2, <1>3 DEF DeleteRow

\* The object of a deleted row goes, which no row and no push needs.
LEMMA DeleteObjectStep ==
    ASSUME IInv, NEW u \in Requests, DeleteObject(u)
    PROVE  IInv'
<1> USE InvariantParts
<1> DEFINE gone == req[u].id
<1>1. /\ TypeOK /\ RequestOK(u) /\ pc[u] = "unlinked" /\ req[u] \in Delete
      /\ gone \in Requests \ {u} /\ pc[gone] = "created"
      /\ \A k \in Stored : rows[k].id # gone
  BY DEF DeleteObject, RequestOK, Delete
<1>2. Goto(u, "deleted") /\ UNCHANGED <<rows, limit, req, seen, torn>>
  BY DEF DeleteObject
<1>3. /\ objects' \in [Requests -> Archives \cup {Nothing}]
      /\ \A i \in Requests \ {gone} : objects'[i] = objects[i]
  BY <1>1 DEF DeleteObject, TypeOK
<1> HIDE DEF gone
<1>4. /\ pc'[u] = "deleted"
      /\ \A v \in Requests : Id(v)' = Id(v)
      /\ \A v \in Requests \ {u} :
            /\ pc'[v] = pc[v] /\ (Writing(v)' <=> Writing(v))
            /\ HoldsOrg(v)' <=> HoldsOrg(v)
            /\ \A k \in Keys : HoldsRow(v, k)' <=> HoldsRow(v, k)
  BY <1>1, <1>2, FrameStep
<1>5. ~Writing(u)' /\ ~HoldsOrg(u)' /\ \A k \in Keys : ~HoldsRow(u, k) /\ ~HoldsRow(u, k)'
  BY <1>1, <1>4 DEF HoldsOrg, HoldsRow, Writing
<1>6. Stored' = Stored /\ (Full' <=> Full)
  BY <1>2 DEF Stored, Full
<1>7. \A k \in Stored : k \in Keys /\ rows[k].id \in Requests \ {gone}
  BY <1>1 DEF Stored, TypeOK, Row
<1>8. TypeOK'
  <2>1. pc' \in [Requests -> ControlPoint]
    BY <1>1, <1>2 DEF TypeOK, Goto, ControlPoint, Answered
  <2>2. QED
    BY <1>1, <1>2, <1>3, <2>1 DEF TypeOK
<1>9. IdsOwn'
  BY <1>1, <1>2, <1>4, <1>6, <1>7 DEF IdsOwn
<1>10. LocksExclusive'
  BY <1>4, <1>5 DEF LocksExclusive
<1>11. RowsBacked'
  BY <1>2, <1>3, <1>6, <1>7 DEF RowsBacked
<1>12. Described'
  <2> SUFFICES ASSUME NEW k \in Stored
               PROVE  \/ objects'[rows[k].id] = rows[k].archive
                      \/ rows[k].id \in torn
                      \/ \E r \in Requests : HoldsRow(r, k)' /\ pc'[r] = "promoted"
    BY <1>2, <1>6 DEF Described
  <2>1. \A r \in Requests : HoldsRow(r, k) /\ pc[r] = "promoted"
                              => HoldsRow(r, k)' /\ pc'[r] = "promoted"
    BY <1>4, <1>5, <1>7
  <2>2. QED
    BY <1>3, <1>7, <2>1 DEF Described
<1>13. ASSUME NEW v \in Requests \ {u} PROVE RequestOK(v)'
  <2>1. RequestOK(v)
    OBVIOUS
  <2>2. pc[v] \in {"allowed", "unlinked"} => req[v].id \in Requests \ {u}
    BY <1>1, <2>1 DEF RequestOK, Delete
  <2>3. ASSUME pc[v] = "promoted" PROVE Id(v) \in Requests \ {gone}
    <3>1. Writing(v) /\ Id(v) \in Requests /\ req[v] \in Push /\ req[v].key \in Keys
      BY <2>1, <2>3, IdsApart DEF Writing, RequestOK, Push
    <3>2. CASE seen[v] = Nothing
      BY <1>1, <2>3, <3>1, <3>2 DEF Id
    <3>3. CASE seen[v] # Nothing
      BY <1>7, <2>1, <3>1, <3>3 DEF RequestOK, HoldsRow, Stored, Id
    <3>4. QED
      BY <3>2, <3>3
  <2>4. QED
    BY <1>2, <1>3, <1>4, <1>6, <2>1, <2>2, <2>3 DEF RequestOK
<1>14. RequestOK(u)'
  BY <1>1, <1>2, <1>4, <1>5 DEF RequestOK
<1>15. QED
  <2>1. \A v \in Requests : RequestOK(v)'
    BY <1>13, <1>14
  <2>2. QED
    BY <1>8, <1>9, <1>10, <1>11, <1>12, <2>1
    DEF IInv, RequestsSound, RowsFresh, RoomHeld, PromotedStored, UnlinkedGone, RequestOK

\* The limit changes while nobody relies on it.
LEMMA SetLimitStep ==
    ASSUME IInv, SetLimit
    PROVE  IInv'
<1> USE InvariantParts
<1>1. UNCHANGED <<rows, objects, pc, req, seen, torn>> /\ TypeOK'
  BY DEF SetLimit, TypeOK
<1>2. ASSUME NEW v \in Requests PROVE RequestOK(v)'
  <2>1. RequestOK(v) /\ ~HoldsOrg(v)
    BY DEF SetLimit, OrgFree
  <2>2. QED
    BY <1>1, <2>1 DEF RequestOK, HoldsOrg, HoldsRow, Writing, Id, Stored
<1>3. IdsOwn' /\ LocksExclusive' /\ RowsBacked' /\ Described'
  BY <1>1 DEF IdsOwn, LocksExclusive, RowsBacked, Described, HoldsOrg, HoldsRow, Writing, Stored
<1>4. QED
  <2>1. \A v \in Requests : RequestOK(v)'
    BY <1>2
  <2>2. QED
    BY <1>1, <1>3, <2>1
    DEF IInv, RequestsSound, RowsFresh, RoomHeld, PromotedStored, UnlinkedGone, RequestOK

\* Every step keeps the invariant.
LEMMA NextIInv == IInv /\ [Next]_vars => IInv'
<1> SUFFICES ASSUME IInv, [Next]_vars PROVE IInv'
  OBVIOUS
<1>1. CASE UNCHANGED vars
  BY <1>1 DEF vars, IInv, TypeOK, RequestsSound, IdsOwn, LocksExclusive, RowsFresh, RoomHeld,
              PromotedStored, UnlinkedGone, RowsBacked, Described, Stored, HoldsRow,
              HoldsOrg, Writing, Full, Id
<1>2. CASE SetLimit
  BY <1>2, SetLimitStep
<1>3. ASSUME NEW r \in Requests,
             StartPush(r) \/ StartDelete(r) \/ Progress(r) \/ Cut(r) \/ Abort(r)
      PROVE  IInv'
  <2>1. CASE StartPush(r) \/ StartDelete(r)
    BY <2>1, StartStep
  <2>2. CASE Stage(r) \/ Lock(r) \/ LockOrg(r) \/ CheckLimit(r)
    BY <2>2, CheckStep
  <2>3. CASE Promote(r)
    BY <2>3, PromoteStep
  <2>4. CASE Save(r)
    BY <2>4, SaveStep
  <2>5. CASE Duplicate(r) \/ Cut(r) \/ Abort(r)
    BY <2>5, EndStep DEF Duplicate
  <2>6. CASE Land(r)
    BY <2>6, LandStep
  <2>7. CASE DeleteRow(r)
    BY <2>7, DeleteRowStep
  <2>8. CASE DeleteObject(r)
    BY <2>8, DeleteObjectStep
  <2>9. QED
    BY <1>3, <2>1, <2>2, <2>3, <2>4, <2>5, <2>6, <2>7, <2>8 DEF Progress
<1>4. QED
  BY <1>1, <1>2, <1>3 DEF Next

\* The invariant, in every state the store reaches.
THEOREM Invariance == Spec => []IInv
  BY InitIInv, NextIInv, PTL DEF Spec

\* The comment in put: no row is ever without an object.
THEOREM RowsAlwaysBacked == Spec => []RowsBacked
<1>1. IInv => RowsBacked
  BY DEF IInv
<1>2. QED
  BY <1>1, Invariance, PTL

\* A row describes its object unless a push holds it or one has failed halfway.
THEOREM AlwaysDescribed == Spec => []Described
<1>1. IInv => Described
  BY DEF IInv
<1>2. QED
  BY <1>1, Invariance, PTL

\* Of all steps only Save and DeleteRow change the rows.
LEMMA RowsChange ==
    ASSUME [Next]_vars, rows' # rows
    PROVE  \E u \in Requests : Save(u) \/ DeleteRow(u)
  BY DEF Next, vars, Progress, StartPush, StartDelete, Stage, Lock, LockOrg, CheckLimit,
         Promote, Duplicate, Abort, Cut, Land, DeleteObject, SetLimit

\* However many first pushes there are, the session keeps the id it has.
THEOREM AlwaysInPlace == Spec => UpdatedInPlace
<1> DEFINE A == \A k \in Stored : rows'[k] # Nothing => rows'[k].id = rows[k].id
<1>1. IInv /\ [Next]_vars => A
  <2> SUFFICES ASSUME IInv, [Next]_vars, NEW k \in Stored, rows'[k] # Nothing
               PROVE  rows'[k].id = rows[k].id
    OBVIOUS
  <2>1. TypeOK /\ k \in Keys /\ rows[k] # Nothing
    BY DEF IInv, Stored
  <2>2. CASE rows' = rows
    BY <2>2
  <2>3. ASSUME NEW u \in Requests, DeleteRow(u) PROVE rows'[k] = rows[k]
    BY <2>1, <2>3 DEF DeleteRow, TypeOK
  <2>4. ASSUME NEW u \in Requests, Save(u) PROVE rows'[k].id = rows[k].id
    BY <2>1, <2>4 DEF Save, Saves, TypeOK, Id
  <2>5. QED
    BY <2>2, <2>3, <2>4, RowsChange
<1>2. [Next]_vars /\ A => [A]_vars
  OBVIOUS
<1>3. QED
  BY <1>1, <1>2, Invariance, PTL DEF Spec, UpdatedInPlace

\* The session limit holds whatever is pushed at the same time.
THEOREM SessionLimitSafe == Spec => SessionLimitHeld
<1> DEFINE A == \A k \in Keys \ Stored :
                   rows'[k] # Nothing => limit = NoLimit \/ Cardinality(Stored') <= limit
<1>1. IInv /\ [Next]_vars => A
  <2> SUFFICES ASSUME IInv, [Next]_vars, NEW k \in Keys \ Stored, rows'[k] # Nothing,
                      limit # NoLimit
               PROVE  Cardinality(Stored') <= limit
    OBVIOUS
  <2>1. TypeOK /\ rows[k] = Nothing
    BY DEF IInv, Stored
  <2>2. PICK u \in Requests : Save(u)
    <3>1. ASSUME NEW v \in Requests, DeleteRow(v) PROVE FALSE
      BY <2>1, <3>1 DEF DeleteRow, TypeOK, Stored
    <3>2. QED
      BY <2>1, <3>1, RowsChange
  <2>3. req[u].key = k /\ seen[u] = Nothing /\ Writing(u)
    BY <2>1, <2>2 DEF Save, Saves, TypeOK, Writing
  <2>4. ~Full
    BY <2>3 DEF IInv, RoomHeld
  <2>5. Stored' = Stored \cup {k}
    BY <2>1, <2>2, <2>3 DEF Save, Stored, TypeOK
  <2>6. IsFiniteSet(Stored)
    BY KeyAssumption, FS_Subset DEF Stored
  <2>7. Cardinality(Stored') = Cardinality(Stored) + 1 /\ Cardinality(Stored) \in Nat
    BY <2>5, <2>6, FS_AddElement, FS_CardinalityType
  <2>8. limit \in Nat
    BY <2>1, LimitAssumption DEF TypeOK
  <2>9. QED
    BY <2>4, <2>7, <2>8 DEF Full
<1>2. QED
  BY <1>1, Invariance, PTL DEF Spec, SessionLimitHeld
=============================================================================
