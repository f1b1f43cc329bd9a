---------------------------- MODULE StoreProofs ----------------------------
(***************************************************************************)
(* Proofs about the storage of one org, for every value of the constants:  *)
(* BlobStore (the index is backed by verified objects, and by how much the *)
(* limit can be exceeded), BundleStore (the inductive invariant IInv, what *)
(* follows from it, and that it implements VersionedUnits), and the two    *)
(* together (whatever a version lists can be downloaded).                  *)
(***************************************************************************)
EXTENDS BundleStore, BlobStore, FiniteSetTheorems, SequenceTheorems, TLAPS

-----------------------------------------------------------------------------
(* BlobStore.                                                              *)

\* What the invariant says of one upload.
UploadOK(u) ==
    /\ at[u] \in InFlight \cup {"stored"} => put[u] \in PutRequest
    /\ at[u] \in InFlight => put[u].size <= MaxBlob
    /\ at[u] = "limited" => seenLimit[u] \in StorageLimits \ {Unlimited}
    /\ at[u] = "staged" => staged[u] \in Files
    /\ at[u] = "verified" => staged[u] = put[u].sha
    /\ at[u] \in {"verified", "promoted"} => put[u].size = SizeOf[put[u].sha]
    /\ at[u] = "promoted" => objects[put[u].sha] = put[u].sha
    /\ at[u] = "stored" => rows[put[u].sha] # Nothing

\* The initial states satisfy the invariant.
LEMMA BlobInitIInv == BlobInit => BlobIInv
  BY NothingAssumption, StorageAssumption
  DEF BlobInit, BlobIInv, BlobTypeOK, UploadsSound, ContentAddressed, IndexSound, SmallOnly, Indexed,
      AckedStored, UploadPoint, InFlight, UploadAnswered

\* A step that changes one upload's own state, and nothing stored.
LEMMA UploadStep ==
    ASSUME BlobIInv, NEW u \in Uploads, UNCHANGED <<objects, rows, limit>>,
           NEW where \in UploadPoint, at' = [at EXCEPT ![u] = where],
           NEW t \in Files \cup {Nothing}, staged' = [staged EXCEPT ![u] = t],
           NEW l \in Nat \cup {Unlimited}, seenLimit' = [seenLimit EXCEPT ![u] = l],
           NEW q \in PutRequest \cup {Nothing}, put' = [put EXCEPT ![u] = q],
           UploadOK(u)'
    PROVE  BlobIInv'
<1>1. BlobTypeOK'
  BY DEF BlobIInv, BlobTypeOK
<1>2. ASSUME NEW v \in Uploads \ {u} PROVE UploadOK(v)'
  BY DEF BlobIInv, BlobTypeOK, UploadsSound, SmallOnly, AckedStored, UploadOK
<1>3. UploadsSound' /\ AckedStored'
  BY <1>2 DEF UploadsSound, AckedStored, UploadOK
<1>4. ContentAddressed' /\ IndexSound'
  BY DEF BlobIInv, ContentAddressed, IndexSound
<1>5. SmallOnly'
  BY <1>2 DEF BlobIInv, SmallOnly, Indexed, UploadOK
<1>6. QED
  BY <1>1, <1>3, <1>4, <1>5 DEF BlobIInv

\* An upload that is refused leaves what is stored as it was.
LEMMA RefuseStep ==
    ASSUME BlobIInv, NEW u \in Uploads, Refuse(u)
    PROVE  BlobIInv'
<1>1. /\ at' = [at EXCEPT ![u] = "refused"] /\ put' = [put EXCEPT ![u] = Nothing]
      /\ seenLimit' = [seenLimit EXCEPT ![u] = Unlimited]
      /\ staged' = [staged EXCEPT ![u] = Nothing]
      /\ UNCHANGED <<objects, rows, limit>>
  BY DEF Refuse, Discard, GoOn
<1>2. at'[u] = "refused"
  BY <1>1 DEF BlobIInv, BlobTypeOK
<1>3. UploadOK(u)'
  BY <1>2 DEF UploadOK, InFlight
<1>4. "refused" \in UploadPoint
  BY DEF UploadPoint, UploadAnswered
<1>5. QED
  BY <1>1, <1>3, <1>4, UploadStep

\* A step to another control point that changes nothing else.
LEMMA GoOnStep ==
    ASSUME BlobIInv, NEW u \in Uploads, NEW where \in UploadPoint, GoOn(u, where),
           UNCHANGED <<objects, rows, limit, staged, seenLimit, put>>,
           UploadOK(u)'
    PROVE  BlobIInv'
<1>1. /\ at' = [at EXCEPT ![u] = where] /\ put' = [put EXCEPT ![u] = put[u]]
      /\ seenLimit' = [seenLimit EXCEPT ![u] = seenLimit[u]]
      /\ staged' = [staged EXCEPT ![u] = staged[u]]
  BY DEF GoOn, BlobIInv, BlobTypeOK
<1>2. /\ put[u] \in PutRequest \cup {Nothing} /\ seenLimit[u] \in Nat \cup {Unlimited}
      /\ staged[u] \in Files \cup {Nothing}
  BY DEF BlobIInv, BlobTypeOK
<1>3. QED
  BY <1>1, <1>2, UploadStep

\* A request that starts.
LEMMA StartUploadStep ==
    ASSUME BlobIInv, NEW u \in Uploads, Start(u)
    PROVE  BlobIInv'
<1>1. PICK q \in PutRequest :
         IF q.size > MaxBlob
           THEN Refuse(u)
           ELSE /\ put' = [put EXCEPT ![u] = q]
                /\ GoOn(u, "asked")
                /\ staged' = [staged EXCEPT ![u] = Nothing]
                /\ seenLimit' = [seenLimit EXCEPT ![u] = Unlimited]
                /\ UNCHANGED <<objects, rows, limit>>
  BY DEF Start
<1>2. CASE q.size > MaxBlob
  BY <1>1, <1>2, RefuseStep
<1>3. CASE ~(q.size > MaxBlob)
  <2>1. at' = [at EXCEPT ![u] = "asked"] /\ "asked" \in UploadPoint
    BY <1>1, <1>3 DEF GoOn, UploadPoint, InFlight
  <2>2. at'[u] = "asked" /\ put'[u] = q
    BY <1>1, <1>3, <2>1 DEF BlobIInv, BlobTypeOK
  <2>5. q.size <= MaxBlob
    BY <1>3, SizeAssumption DEF PutRequest
  <2>3. UploadOK(u)'
    BY <2>2, <2>5 DEF UploadOK
  <2>4. QED
    BY <1>1, <1>3, <2>1, <2>3, UploadStep
<1>4. QED
  BY <1>2, <1>3

\* The reads before the body is: the index, the limit and the usage.
LEMMA ReadStep ==
    ASSUME BlobIInv, NEW u \in Uploads, CheckIndex(u) \/ ReadLimit(u) \/ ReadUsage(u)
    PROVE  BlobIInv'
<1>1. CASE CheckIndex(u)
  <2> DEFINE where == IF Present(u) THEN "stored" ELSE "absent"
  <2>1. GoOn(u, where) /\ UNCHANGED <<objects, rows, limit, staged, seenLimit, put>>
    BY <1>1 DEF CheckIndex
  <2>2. at'[u] = where /\ put[u] \in PutRequest /\ put[u].size <= MaxBlob
    BY <1>1, <2>1 DEF GoOn, BlobIInv, BlobTypeOK, UploadsSound, SmallOnly, CheckIndex, InFlight
  <2>3. UploadOK(u)'
    BY <2>1, <2>2 DEF UploadOK, Present
  <2>4. where \in UploadPoint
    BY DEF UploadPoint, InFlight, UploadAnswered
  <2> HIDE DEF where
  <2>5. QED
    BY <2>1, <2>3, <2>4, GoOnStep
<1>2. CASE ReadLimit(u)
  <2> DEFINE where == IF limit = Unlimited THEN "staging" ELSE "limited"
  <2>1. /\ at' = [at EXCEPT ![u] = where] /\ put' = [put EXCEPT ![u] = put[u]]
        /\ staged' = [staged EXCEPT ![u] = staged[u]]
        /\ seenLimit' = [seenLimit EXCEPT ![u] = limit]
        /\ UNCHANGED <<objects, rows, limit>>
    BY <1>2 DEF ReadLimit, GoOn, BlobIInv, BlobTypeOK
  <2>2. /\ put[u] \in PutRequest /\ staged[u] \in Files \cup {Nothing}
        /\ limit \in StorageLimits /\ limit \in Nat \cup {Unlimited}
        /\ put[u].size <= MaxBlob
    BY <1>2, StorageAssumption DEF BlobIInv, BlobTypeOK, UploadsSound, SmallOnly, ReadLimit, InFlight
  <2>3. at'[u] = where /\ seenLimit'[u] = limit /\ put'[u] = put[u]
    BY <2>1 DEF BlobIInv, BlobTypeOK
  <2>4. UploadOK(u)'
    BY <2>2, <2>3 DEF UploadOK
  <2>5. where \in UploadPoint
    BY DEF UploadPoint, InFlight
  <2> HIDE DEF where
  <2>6. QED
    BY <2>1, <2>2, <2>4, <2>5, UploadStep
<1>3. CASE ReadUsage(u)
  <2>1. CASE NoRoom(u)
    BY <1>3, <2>1, RefuseStep DEF ReadUsage
  <2>2. CASE ~NoRoom(u)
    <3>1. GoOn(u, "staging") /\ UNCHANGED <<objects, rows, limit, staged, seenLimit, put>>
      BY <1>3, <2>2 DEF ReadUsage
    <3>2. at'[u] = "staging" /\ put[u] \in PutRequest /\ put[u].size <= MaxBlob
      BY <1>3, <3>1 DEF GoOn, BlobIInv, BlobTypeOK, UploadsSound, SmallOnly, ReadUsage, InFlight
    <3>3. UploadOK(u)'
      BY <3>1, <3>2 DEF UploadOK
    <3>4. QED
      BY <3>1, <3>3, GoOnStep DEF UploadPoint, InFlight
  <2>3. QED
    BY <2>1, <2>2
<1>4. QED
  BY <1>1, <1>2, <1>3

\* Only a body with the digest and the length it was announced with is verified.
LEMMA StageStep ==
    ASSUME BlobIInv, NEW u \in Uploads, Stage(u) \/ Verify(u)
    PROVE  BlobIInv'
<1>1. CASE Refuse(u)
  BY <1>1, RefuseStep
<1>2. CASE Stage(u) /\ ~Refuse(u)
  <2>1. /\ at' = [at EXCEPT ![u] = "staged"] /\ put' = [put EXCEPT ![u] = put[u]]
        /\ staged' = [staged EXCEPT ![u] = put[u].body]
        /\ seenLimit' = [seenLimit EXCEPT ![u] = seenLimit[u]]
        /\ UNCHANGED <<objects, rows, limit>>
    BY <1>2 DEF Stage, GoOn, BlobIInv, BlobTypeOK
  <2>2. /\ put[u] \in PutRequest /\ seenLimit[u] \in Nat \cup {Unlimited}
        /\ put[u].size <= MaxBlob
    BY <1>2 DEF BlobIInv, BlobTypeOK, UploadsSound, SmallOnly, Stage, InFlight
  <2>3. put[u].body \in Files
    BY <2>2 DEF PutRequest
  <2>4. at'[u] = "staged" /\ put'[u] = put[u] /\ staged'[u] = put[u].body
    BY <2>1 DEF BlobIInv, BlobTypeOK
  <2>5. UploadOK(u)'
    BY <2>2, <2>3, <2>4 DEF UploadOK
  <2>6. "staged" \in UploadPoint
    BY DEF UploadPoint, InFlight
  <2>7. QED
    BY <2>1, <2>2, <2>3, <2>5, <2>6, UploadStep
<1>3. CASE Verify(u) /\ ~Refuse(u)
  <2>1. /\ Matches(u) /\ GoOn(u, "verified")
        /\ UNCHANGED <<objects, rows, limit, staged, seenLimit, put>>
    BY <1>3 DEF Verify
  <2>2. at'[u] = "verified" /\ put[u] \in PutRequest /\ put[u].size <= MaxBlob
    BY <1>3, <2>1 DEF GoOn, BlobIInv, BlobTypeOK, UploadsSound, SmallOnly, Verify, InFlight
  <2>5. staged[u] = put[u].sha /\ put[u].size = SizeOf[put[u].sha]
    BY <2>1 DEF Matches
  <2>6. put'[u] = put[u] /\ staged'[u] = staged[u]
    BY <2>1
  <2>3. UploadOK(u)'
    BY <2>2, <2>5, <2>6 DEF UploadOK, InFlight
  <2>4. QED
    BY <2>1, <2>3, GoOnStep DEF UploadPoint, InFlight
<1>4. QED
  BY <1>1, <1>2, <1>3

\* The copy puts the verified content at its own key.
LEMMA PromoteStep ==
    ASSUME BlobIInv, NEW u \in Uploads, Promote(u)
    PROVE  BlobIInv'
<1> DEFINE s == put[u].sha
<1>1. CASE Refuse(u)
  BY <1>1, RefuseStep
<1>2. CASE ~Refuse(u)
  <2>1. /\ objects' = [objects EXCEPT ![s] = staged[u]]
        /\ at' = [at EXCEPT ![u] = "promoted"]
        /\ staged' = [staged EXCEPT ![u] = Nothing]
        /\ UNCHANGED <<rows, limit, seenLimit, put>>
    BY <1>2 DEF Promote, GoOn, Discard
  <2>2. /\ put[u] \in PutRequest /\ staged[u] = s /\ put[u].size = SizeOf[s]
        /\ put[u].size <= MaxBlob
    BY DEF Promote, BlobIInv, UploadsSound, SmallOnly, InFlight
  <2>3. s \in Files
    BY <2>2 DEF PutRequest
  <2>4. /\ BlobTypeOK' /\ at'[u] = "promoted"
        /\ \A f \in Files : objects'[f] \in {objects[f], f} /\ objects'[s] = s
    BY <2>1, <2>2, <2>3 DEF BlobIInv, BlobTypeOK, UploadPoint, InFlight
  <2>5. ContentAddressed' /\ IndexSound'
    BY <2>1, <2>4, NothingAssumption DEF BlobIInv, ContentAddressed, IndexSound
  <2>6. ASSUME NEW v \in Uploads \ {u} PROVE UploadOK(v)'
    <3>1. at'[v] = at[v] /\ put'[v] = put[v] /\ staged'[v] = staged[v] /\ seenLimit'[v] = seenLimit[v]
      BY <2>1 DEF BlobIInv, BlobTypeOK
    <3>2. at[v] = "promoted" => objects'[put[v].sha] = put[v].sha
      <4>1. at[v] = "promoted" => put[v].sha \in Files /\ objects[put[v].sha] = put[v].sha
        BY DEF BlobIInv, UploadsSound, PutRequest, InFlight
      <4>2. QED
        BY <2>4, <4>1
    <3>3. QED
      BY <2>1, <3>1, <3>2 DEF BlobIInv, UploadsSound, SmallOnly, AckedStored, UploadOK
  <2>10. put'[u] = put[u] /\ objects'[put[u].sha] = put[u].sha
    BY <2>1, <2>3, <2>4
  <2>7. UploadOK(u)'
    BY <2>2, <2>4, <2>10 DEF UploadOK
  <2>8. UploadsSound' /\ AckedStored'
    BY <2>6, <2>7 DEF UploadsSound, AckedStored, UploadOK
  <2>11. SmallOnly'
    BY <2>1, <2>6, <2>7 DEF BlobIInv, SmallOnly, Indexed, UploadOK
  <2>9. QED
    BY <2>4, <2>5, <2>8, <2>11 DEF BlobIInv
<1>3. QED
  BY <1>1, <1>2

\* A row is written for an object that is there.
LEMMA IndexStep ==
    ASSUME BlobIInv, NEW u \in Uploads, Index(u)
    PROVE  BlobIInv'
<1> DEFINE s == put[u].sha
<1>1. CASE Refuse(u)
  BY <1>1, RefuseStep
<1>2. CASE ~Refuse(u)
  <2>1. /\ rows' = [rows EXCEPT ![s] = IF rows[s] = Nothing THEN put[u].size ELSE rows[s]]
        /\ at' = [at EXCEPT ![u] = "stored"]
        /\ seenLimit' = [seenLimit EXCEPT ![u] = Unlimited]
        /\ UNCHANGED <<objects, limit, staged, put>>
    BY <1>2 DEF Index, GoOn
  <2>2. /\ put[u] \in PutRequest /\ put[u].size = SizeOf[s] /\ objects[s] = s
        /\ SizeOf[s] <= MaxBlob
    BY DEF Index, BlobIInv, UploadsSound, SmallOnly, InFlight
  <2>3. s \in Files /\ SizeOf[s] \in Nat
    BY <2>2, SizeAssumption DEF PutRequest
  <2>4. /\ BlobTypeOK' /\ at'[u] = "stored" /\ rows'[s] # Nothing
        /\ \A f \in Files : f # s => rows'[f] = rows[f]
        /\ rows'[s] \in {rows[s], SizeOf[s]}
        /\ rows[s] # Nothing => rows'[s] = rows[s]
    BY <2>1, <2>2, <2>3, NothingAssumption DEF BlobIInv, BlobTypeOK, UploadPoint, UploadAnswered
  <2>5. IndexSound' /\ ContentAddressed'
    BY <2>1, <2>2, <2>3, <2>4 DEF BlobIInv, IndexSound, ContentAddressed
  <2>6. ASSUME NEW v \in Uploads \ {u} PROVE UploadOK(v)'
    <3>1. at'[v] = at[v] /\ put'[v] = put[v] /\ staged'[v] = staged[v] /\ seenLimit'[v] = seenLimit[v]
      BY <2>1 DEF BlobIInv, BlobTypeOK
    <3>2. at[v] = "stored" => rows'[put[v].sha] # Nothing
      <4>1. at[v] = "stored" => put[v].sha \in Files /\ rows[put[v].sha] # Nothing
        BY DEF BlobIInv, UploadsSound, AckedStored, PutRequest
      <4>2. QED
        BY <2>4, <4>1
    <3>3. QED
      BY <2>1, <3>1, <3>2 DEF BlobIInv, UploadsSound, SmallOnly, UploadOK
  <2>7. UploadOK(u)'
    BY <2>1, <2>2, <2>4 DEF UploadOK, InFlight
  <2>8. UploadsSound' /\ AckedStored'
    BY <2>6, <2>7 DEF UploadsSound, AckedStored, UploadOK
  <2>10. SmallOnly'
    BY <2>2, <2>4, <2>6, <2>7 DEF BlobIInv, SmallOnly, Indexed, UploadOK
  <2>9. QED
    BY <2>4, <2>5, <2>8, <2>10 DEF BlobIInv
<1>3. QED
  BY <1>1, <1>2

\* A crash forgets the uploads in flight and nothing that is stored.
LEMMA CrashStep ==
    ASSUME BlobIInv, Crash
    PROVE  BlobIInv'
<1>1. UNCHANGED <<objects, rows, limit>>
  BY DEF Crash
<1>2. BlobTypeOK'
  BY <1>1 DEF Crash, BlobIInv, BlobTypeOK, UploadPoint
<1>3. ASSUME NEW u \in Uploads PROVE UploadOK(u)'
  <2>1. at'[u] \notin InFlight /\ (at'[u] = "stored" => at[u] = "stored" /\ put'[u] = put[u])
    BY DEF Crash, InFlight
  <2>2. QED
    BY <1>1, <2>1 DEF UploadOK, BlobIInv, UploadsSound, AckedStored, InFlight
<1>4. UploadsSound' /\ AckedStored'
  BY <1>3 DEF UploadsSound, AckedStored, UploadOK
<1>5. ContentAddressed' /\ IndexSound'
  BY <1>1 DEF BlobIInv, ContentAddressed, IndexSound
<1>6. SmallOnly'
  BY <1>1, <1>3 DEF BlobIInv, SmallOnly, Indexed, UploadOK
<1>7. QED
  BY <1>2, <1>4, <1>5, <1>6 DEF BlobIInv

\* Every step keeps the invariant.
LEMMA BlobStepIInv == BlobIInv /\ [BlobNext]_blobVars => BlobIInv'
<1> SUFFICES ASSUME BlobIInv, [BlobNext]_blobVars PROVE BlobIInv'
  OBVIOUS
<1>1. ASSUME NEW u \in Uploads, Start(u) \/ PutBlob(u) PROVE BlobIInv'
  BY <1>1, StartUploadStep, ReadStep, StageStep, PromoteStep, IndexStep DEF PutBlob
<1>2. CASE Crash
  BY <1>2, CrashStep
<1>3. CASE SetStorageLimit
  BY <1>3 DEF SetStorageLimit, uploadVars, BlobIInv, BlobTypeOK, UploadsSound, ContentAddressed, IndexSound,
              SmallOnly, Indexed, AckedStored
<1>4. CASE UNCHANGED blobVars
  BY <1>4 DEF blobVars, uploadVars, BlobIInv, BlobTypeOK, UploadsSound, ContentAddressed, IndexSound,
              SmallOnly, Indexed, AckedStored
<1>5. QED
  BY <1>1, <1>2, <1>3, <1>4 DEF BlobNext

-----------------------------------------------------------------------------
(* Sums of lengths, as cardinalities.                                      *)

\* What the members of a set add up to is no more than the longest times as many.
LEMMA TotalBound ==
    ASSUME NEW S, IsFiniteSet(S), NEW B \in Nat,
           NEW size, \A x \in S : size[x] \in Nat /\ size[x] <= B
    PROVE  /\ IsFiniteSet(Bytes(S, size))
           /\ Total(S, size) \in Nat
           /\ Total(S, size) <= Cardinality(S) * B
<1>1. Bytes(S, size) \in SUBSET (S \X (1..B))
  BY DEF Bytes
<1>2. IsFiniteSet(1..B) /\ Cardinality(1..B) = B
  BY FS_Interval
<1>3. IsFiniteSet(S \X (1..B)) /\ Cardinality(S \X (1..B)) = Cardinality(S) * B
  BY <1>2, FS_Product
<1>4. /\ IsFiniteSet(Bytes(S, size))
      /\ Cardinality(Bytes(S, size)) <= Cardinality(S \X (1..B))
  BY <1>1, <1>3, FS_Subset
<1>5. QED
  BY <1>3, <1>4, FS_CardinalityType DEF Total

\* One member more adds its length.
LEMMA TotalAdd ==
    ASSUME NEW S, IsFiniteSet(S), NEW B \in Nat, NEW a, a \notin S, NEW T, T = S \cup {a},
           NEW size, \A x \in T : size[x] \in Nat /\ size[x] <= B
    PROVE  Total(T, size) = Total(S, size) + size[a]
<1> DEFINE Last == 1..size[a]
           New == {a} \X Last
<1>1. IsFiniteSet(Bytes(S, size)) /\ Total(S, size) \in Nat
  BY TotalBound
<1>2. \A n \in Nat : IsFiniteSet(1..n) /\ Cardinality(1..n) = n
  BY FS_Interval
<1>3. size[a] \in Nat /\ IsFiniteSet(Last) /\ Cardinality(Last) = size[a]
  BY <1>2
<1>4. IsFiniteSet({a}) /\ Cardinality({a}) = 1
  BY FS_Singleton
<1>5. Bytes(T, size) = Bytes(S, size) \cup New /\ Bytes(S, size) \cap New = {}
  BY DEF Bytes
<1> HIDE DEF Last
<1>6. IsFiniteSet(New) /\ Cardinality(New) = Cardinality({a}) * Cardinality(Last)
  BY <1>3, <1>4, FS_Product
<1>7. Cardinality(New) = size[a]
  BY <1>3, <1>4, <1>6
<1> HIDE DEF New
<1>8. Cardinality(Bytes(S, size) \cup New) =
         Cardinality(Bytes(S, size)) + Cardinality(New) - Cardinality(Bytes(S, size) \cap New)
  BY <1>1, <1>6, FS_Union
<1>9. Cardinality(Bytes(S, size) \cap New) = 0
  BY <1>5, FS_EmptySet
<1>10. Cardinality(Bytes(S, size)) \in Nat
  BY <1>1 DEF Total
<1>11. Cardinality(Bytes(T, size)) = Cardinality(Bytes(S, size) \cup New)
  BY <1>5
<1>12. \A b, n, i, t : b \in Nat /\ n \in Nat /\ i = 0 /\ t = b + n - i => t = b + n
  OBVIOUS
<1>13. Cardinality(Bytes(T, size)) = Cardinality(Bytes(S, size)) + size[a]
  BY <1>3, <1>7, <1>8, <1>9, <1>10, <1>11, <1>12
<1>14. QED
  BY <1>13 DEF Total

\* Fewer members, of the same lengths, add up to no more.
LEMMA TotalMonotone ==
    ASSUME NEW S, IsFiniteSet(S), NEW T \in SUBSET S, NEW B \in Nat,
           NEW size, \A x \in S : size[x] \in Nat /\ size[x] <= B,
           NEW old, \A x \in T : old[x] = size[x]
    PROVE  Total(T, old) \in Nat /\ Total(T, old) <= Total(S, size)
<1>1. IsFiniteSet(Bytes(S, size)) /\ Total(S, size) \in Nat
  BY TotalBound
<1>2. Bytes(T, old) \in SUBSET Bytes(S, size)
  BY DEF Bytes
<1>3. IsFiniteSet(Bytes(T, old)) /\ Cardinality(Bytes(T, old)) <= Cardinality(Bytes(S, size))
  BY <1>1, <1>2, FS_Subset
<1>4. QED
  BY <1>1, <1>3, FS_CardinalityType DEF Total

\* The two sums of the limit's bound: what is stored, and what is admitted.
LEMMA SumsTyped ==
    ASSUME BlobIInv
    PROVE  /\ IsFiniteSet(Indexed) /\ IsFiniteSet(Admitted)
           /\ Cardinality(Uploads) - 1 \in Nat
           /\ \A f \in Indexed : rows[f] \in Nat /\ rows[f] <= MaxBlob
           /\ \A u \in Admitted : Announced[u] = put[u].size
           /\ \A u \in Admitted : Announced[u] \in Nat /\ Announced[u] <= MaxBlob
           /\ Usage \in Nat /\ Total(Admitted, Announced) \in Nat
<1>1. Indexed \in SUBSET Files /\ Admitted \in SUBSET Uploads
  BY DEF Indexed, Admitted
<1>2. IsFiniteSet(Indexed) /\ IsFiniteSet(Admitted)
  BY <1>1, FiniteAssumption, FS_Subset
<1>3. \A f \in Indexed : rows[f] \in Nat /\ rows[f] <= MaxBlob
  BY DEF BlobIInv, BlobTypeOK, SmallOnly, Indexed
<1>4. \A u \in Admitted : Announced[u] = put[u].size
  BY DEF Announced
<1>5. ASSUME NEW u \in Admitted PROVE Announced[u] \in Nat /\ Announced[u] <= MaxBlob
  <2>1. put[u] \in PutRequest /\ put[u].size <= MaxBlob
    BY DEF Admitted, InFlight, BlobIInv, UploadsSound, SmallOnly
  <2>2. put[u].size \in Nat
    BY <2>1, SizeAssumption DEF PutRequest
  <2>3. QED
    BY <1>4, <2>1, <2>2
<1>6. MaxBlob \in Nat
  BY SizeAssumption
<1>7. Usage \in Nat
  BY <1>2, <1>3, <1>6, TotalBound DEF Usage
<1>8. Total(Admitted, Announced) \in Nat
  BY <1>2, <1>5, <1>6, TotalBound
<1>9. Cardinality(Uploads) \in Nat /\ Cardinality(Uploads) # 0
  BY FiniteAssumption, FS_CardinalityType, FS_EmptySet
<1>10. QED
  BY <1>2, <1>3, <1>4, <1>5, <1>7, <1>8, <1>9

\* A step that indexes nothing and admits nobody adds to neither sum.
LEMMA NobodyAdmitted ==
    ASSUME BlobIInv, OvershootBounded, UNCHANGED rows,
           \A u \in Admitted' : u \in Admitted /\ put'[u] = put[u]
    PROVE  OvershootBounded'
<1> SUFFICES ASSUME Unlimited \notin StorageLimits
             PROVE  \E most \in StorageLimits :
                       Usage' + Total(Admitted', Announced')
                          <= most + (Cardinality(Uploads) - 1) * MaxBlob
  BY DEF OvershootBounded
<1>1. PICK most \in StorageLimits :
         Usage + Total(Admitted, Announced) <= most + (Cardinality(Uploads) - 1) * MaxBlob
  BY DEF OvershootBounded
<1>2. most \in Nat /\ MaxBlob \in Nat
  BY StorageAssumption, SizeAssumption
<1>3. Usage' = Usage
  BY DEF Usage, Indexed
<1>4. Admitted' \in SUBSET Admitted
  OBVIOUS
<1>5. \A u \in Admitted' : Announced'[u] = Announced[u]
  BY DEF Announced
<1>6. Total(Admitted', Announced') \in Nat
      /\ Total(Admitted', Announced') <= Total(Admitted, Announced)
  <2>1. /\ IsFiniteSet(Admitted)
        /\ \A u \in Admitted : Announced[u] \in Nat /\ Announced[u] <= MaxBlob
    BY SumsTyped
  <2> QED
    BY <1>2, <1>4, <1>5, <2>1, TotalMonotone
<1>7. Usage \in Nat /\ Total(Admitted, Announced) \in Nat /\ Cardinality(Uploads) - 1 \in Nat
  BY SumsTyped
<1>8. \A a, s, t, m : a \in Nat /\ s \in Nat /\ t \in Nat /\ m \in Int /\ a + s <= m /\ t <= s
                       => a + t <= m
  OBVIOUS
<1>9. most + (Cardinality(Uploads) - 1) * MaxBlob \in Int
  BY <1>2, <1>7
<1>10. QED
  BY <1>1, <1>3, <1>6, <1>7, <1>8, <1>9

\* An upload that finds room leaves what it read of the limit to the others
\* in flight, whatever they were admitted with.
LEMMA AdmittedStep ==
    ASSUME BlobIInv, NEW u \in Uploads, ReadUsage(u), ~NoRoom(u)
    PROVE  OvershootBounded'
<1>1. /\ at[u] = "limited" /\ at' = [at EXCEPT ![u] = "staging"]
      /\ UNCHANGED <<objects, rows, limit, staged, seenLimit, put>>
  BY DEF ReadUsage, GoOn
<1>2. /\ seenLimit[u] \in StorageLimits \ {Unlimited} /\ put[u] \in PutRequest
      /\ put[u].size <= MaxBlob /\ Usage + put[u].size <= seenLimit[u]
  <2>1. seenLimit[u] \in StorageLimits \ {Unlimited} /\ put[u] \in PutRequest /\ put[u].size <= MaxBlob
    BY <1>1 DEF BlobIInv, UploadsSound, SmallOnly, InFlight
  <2>2. seenLimit[u] \in Nat /\ put[u].size \in Nat /\ Usage \in Nat
    BY <2>1, StorageAssumption, SizeAssumption, SumsTyped DEF PutRequest
  <2>3. QED
    BY <2>1, <2>2 DEF NoRoom
<1>3. seenLimit[u] \in Nat /\ put[u].size \in Nat /\ MaxBlob \in Nat /\ Usage \in Nat
  BY <1>2, StorageAssumption, SizeAssumption, SumsTyped DEF PutRequest
<1>4. Admitted' = Admitted \cup {u} /\ u \notin Admitted
  BY <1>1 DEF Admitted, BlobIInv, BlobTypeOK
<1>5. \A v \in Admitted' : Announced'[v] = put[v].size
  BY <1>1 DEF Announced
<1>6. Usage' = Usage
  BY <1>1 DEF Usage, Indexed
<1>7. /\ IsFiniteSet(Admitted)
      /\ \A v \in Admitted : Announced[v] = put[v].size
      /\ \A v \in Admitted : Announced[v] \in Nat /\ Announced[v] <= MaxBlob
  BY SumsTyped
<1>8. \A v \in Admitted' : Announced'[v] \in Nat /\ Announced'[v] <= MaxBlob
  BY <1>2, <1>3, <1>4, <1>5, <1>7
<1>9. Total(Admitted', Announced') = Total(Admitted, Announced') + Announced'[u]
  BY <1>3, <1>4, <1>7, <1>8, TotalAdd
<1>10. /\ Total(Admitted, Announced') \in Nat
       /\ Total(Admitted, Announced') <= Cardinality(Admitted) * MaxBlob
  BY <1>3, <1>4, <1>7, <1>8, TotalBound
<1>11. Cardinality(Admitted) \in Nat /\ Cardinality(Admitted) <= Cardinality(Uploads) - 1
  <2>1. /\ IsFiniteSet(Uploads \ {u})
        /\ Cardinality(Uploads \ {u}) = Cardinality(Uploads) - 1
    BY FiniteAssumption, FS_RemoveElement
  <2>2. Admitted \in SUBSET (Uploads \ {u})
    BY <1>4 DEF Admitted
  <2>3. QED
    BY <2>1, <2>2, FS_Subset, FS_CardinalityType
<1>12. Cardinality(Uploads) - 1 \in Nat
  BY SumsTyped
<1>13. Cardinality(Admitted) * MaxBlob <= (Cardinality(Uploads) - 1) * MaxBlob
       /\ Cardinality(Admitted) * MaxBlob \in Nat
       /\ (Cardinality(Uploads) - 1) * MaxBlob \in Nat
  <2>1. \A m, n, k \in Nat : m <= n => m * k <= n * k /\ m * k \in Nat /\ n * k \in Nat
    OBVIOUS
  <2>2. QED
    BY <1>3, <1>11, <1>12, <2>1
<1>14. Announced'[u] = put[u].size
  BY <1>4, <1>5
<1>15. \A a, b, c, d, e, l \in Nat : a + b <= l /\ c <= d /\ d <= e => a + (c + b) <= l + e
  OBVIOUS
<1>16. Usage' + Total(Admitted', Announced') <= seenLimit[u] + (Cardinality(Uploads) - 1) * MaxBlob
  BY <1>2, <1>3, <1>4, <1>6, <1>9, <1>10, <1>13, <1>14, <1>15
<1>17. QED
  BY <1>2, <1>16 DEF OvershootBounded

\* What an upload adds to the index is what it announced, so nothing is counted twice.
LEMMA IndexedStep ==
    ASSUME BlobIInv, OvershootBounded, NEW u \in Uploads, Index(u), ~Refuse(u)
    PROVE  OvershootBounded'
<1> DEFINE s == put[u].sha
           Others == Admitted \ {u}
<1>1. /\ at[u] = "promoted"
      /\ rows' = [rows EXCEPT ![s] = IF rows[s] = Nothing THEN put[u].size ELSE rows[s]]
      /\ at' = [at EXCEPT ![u] = "stored"]
      /\ UNCHANGED put
  BY DEF Index, GoOn
<1>2. put[u] \in PutRequest /\ put[u].size \in Nat /\ put[u].size <= MaxBlob /\ s \in Files
  BY <1>1, SizeAssumption DEF BlobIInv, UploadsSound, SmallOnly, InFlight, PutRequest
<1>3. u \in Admitted /\ Admitted' = Others
  BY <1>1 DEF Admitted, BlobIInv, BlobTypeOK
<1>4. CASE rows[s] # Nothing
  <2>1. UNCHANGED rows
    BY <1>1, <1>4 DEF BlobIInv, BlobTypeOK
  <2>2. QED
    BY <1>1, <1>3, <2>1, NobodyAdmitted
<1>5. CASE rows[s] = Nothing
  <2>1. /\ Indexed' = Indexed \cup {s} /\ s \notin Indexed
        /\ rows'[s] = put[u].size /\ \A f \in Indexed : rows'[f] = rows[f]
    BY <1>1, <1>2, <1>5, NothingAssumption DEF Indexed, BlobIInv, BlobTypeOK
  <2>2. /\ IsFiniteSet(Indexed) /\ IsFiniteSet(Admitted)
        /\ Cardinality(Uploads) - 1 \in Nat
        /\ \A f \in Indexed : rows[f] \in Nat /\ rows[f] <= MaxBlob
        /\ \A v \in Admitted : Announced[v] = put[v].size
        /\ \A v \in Admitted : Announced[v] \in Nat /\ Announced[v] <= MaxBlob
    BY SumsTyped
  <2>3. MaxBlob \in Nat
    BY SizeAssumption
  <2>4. Total(Indexed', rows') = Total(Indexed, rows') + rows'[s]
    <3>1. \A f \in Indexed' : rows'[f] \in Nat /\ rows'[f] <= MaxBlob
      BY <1>2, <2>1, <2>2
    <3>2. QED
      BY <2>1, <2>2, <2>3, <3>1, TotalAdd
  <2>5. Bytes(Indexed, rows') = Bytes(Indexed, rows)
    BY <2>1 DEF Bytes
  <2>6. Usage' = Usage + put[u].size
    BY <2>1, <2>4, <2>5 DEF Usage, Total
  <2>7. Total(Admitted, Announced) = Total(Others, Announced) + Announced[u]
    <3>1. IsFiniteSet(Others) /\ u \notin Others /\ Admitted = Others \cup {u}
      BY <1>3, <2>2, FS_Subset
    <3>2. QED
      BY <2>2, <2>3, <3>1, TotalAdd
  <2>9. \A v \in Others : Announced'[v] = Announced[v]
    BY <1>1, <1>3 DEF Announced
  <2>10. Bytes(Others, Announced') = Bytes(Others, Announced)
    BY <2>9 DEF Bytes
  <2>11. Total(Others, Announced) \in Nat
    BY <2>2, <2>3, TotalMonotone
  <2>12. Usage' + Total(Admitted', Announced') = Usage + Total(Admitted, Announced)
    <3>1. Usage \in Nat /\ Announced[u] = put[u].size
      BY <1>3, SumsTyped
    <3>2. \A a, b, c \in Nat : (a + b) + c = a + (c + b)
      OBVIOUS
    <3>3. /\ Total(Admitted', Announced') = Total(Others, Announced)
          /\ Total(Admitted, Announced) = Total(Others, Announced) + put[u].size
      BY <1>3, <2>7, <2>10, <3>1 DEF Total
    <3>4. QED
      BY <1>2, <2>6, <2>11, <3>1, <3>2, <3>3
  <2>13. QED
    BY <2>12 DEF OvershootBounded
<1>6. QED
  BY <1>4, <1>5

\* Every step keeps the bound.
LEMMA StepOvershoot == BlobIInv /\ OvershootBounded /\ [BlobNext]_blobVars => OvershootBounded'
<1> SUFFICES ASSUME BlobIInv, OvershootBounded, [BlobNext]_blobVars PROVE OvershootBounded'
  OBVIOUS
<1>1. ASSUME NEW u \in Uploads, Refuse(u) PROVE OvershootBounded'
  <2>1. UNCHANGED rows /\ \A v \in Admitted' : v \in Admitted /\ put'[v] = put[v]
    BY <1>1 DEF Refuse, GoOn, Discard, Admitted, BlobIInv, BlobTypeOK
  <2>2. QED
    BY <2>1, NobodyAdmitted
<1>2. ASSUME NEW u \in Uploads, Start(u), ~Refuse(u) PROVE OvershootBounded'
  <2>1. UNCHANGED rows /\ \A v \in Admitted' : v \in Admitted /\ put'[v] = put[v]
    BY <1>2 DEF Start, GoOn, Admitted, BlobIInv, BlobTypeOK
  <2>2. QED
    BY <2>1, NobodyAdmitted
<1>3. ASSUME NEW u \in Uploads, CheckIndex(u) PROVE OvershootBounded'
  <2>1. UNCHANGED rows /\ \A v \in Admitted' : v \in Admitted /\ put'[v] = put[v]
    BY <1>3 DEF CheckIndex, GoOn, Admitted, BlobIInv, BlobTypeOK
  <2>2. QED
    BY <2>1, NobodyAdmitted
<1>4. ASSUME NEW u \in Uploads, ReadLimit(u) PROVE OvershootBounded'
  <2>1. CASE limit # Unlimited
    <3>1. UNCHANGED rows /\ \A v \in Admitted' : v \in Admitted /\ put'[v] = put[v]
      BY <1>4, <2>1 DEF ReadLimit, GoOn, Admitted, BlobIInv, BlobTypeOK
    <3>2. QED
      BY <3>1, NobodyAdmitted
  <2>2. CASE limit = Unlimited
    <3>1. Unlimited \in StorageLimits
      BY <2>2 DEF BlobIInv, BlobTypeOK
    <3>2. QED
      BY <3>1 DEF OvershootBounded
  <2>3. QED
    BY <2>1, <2>2
<1>5. ASSUME NEW u \in Uploads, ReadUsage(u) PROVE OvershootBounded'
  BY <1>1, <1>5, AdmittedStep DEF ReadUsage
<1>6. ASSUME NEW u \in Uploads, Stage(u) \/ Verify(u) \/ Promote(u), ~Refuse(u)
      PROVE  OvershootBounded'
  <2>1. UNCHANGED rows /\ \A v \in Admitted' : v \in Admitted /\ put'[v] = put[v]
    BY <1>6 DEF Stage, Verify, Promote, GoOn, Admitted, BlobIInv, BlobTypeOK
  <2>2. QED
    BY <2>1, NobodyAdmitted
<1>7. CASE Crash
  <2>1. UNCHANGED rows /\ \A v \in Admitted' : v \in Admitted /\ put'[v] = put[v]
    BY <1>7 DEF Crash, Admitted, InFlight
  <2>2. QED
    BY <2>1, NobodyAdmitted
<1>8. CASE SetStorageLimit \/ UNCHANGED blobVars
  <2>1. UNCHANGED rows /\ \A v \in Admitted' : v \in Admitted /\ put'[v] = put[v]
    BY <1>8 DEF SetStorageLimit, blobVars, uploadVars, Admitted
  <2>2. QED
    BY <2>1, NobodyAdmitted
<1>9. QED
  BY <1>1, <1>2, <1>3, <1>4, <1>5, <1>6, <1>7, <1>8, IndexedStep DEF BlobNext, PutBlob

-----------------------------------------------------------------------------
(* Theorems.                                                               *)

\* What uploads have verified stays verified, whichever interleave, fail or
\* are lost in a crash.
THEOREM BlobInvariance == BlobSpec => []BlobIInv
<1>1. BlobInit => BlobIInv
  BY BlobInitIInv
<1>2. BlobIInv /\ [BlobNext]_blobVars => BlobIInv'
  BY BlobStepIInv
<1>3. QED
  BY <1>1, <1>2, PTL DEF BlobSpec

\* Every row of the blob index is backed by the whole, unaltered object.
THEOREM IndexAlwaysSound == BlobSpec => []IndexSound
<1>1. BlobIInv => IndexSound
  BY DEF BlobIInv
<1>2. QED
  BY <1>1, BlobInvariance, PTL

\* A file a client was told is stored is in the index.
THEOREM AcknowledgedIsStored == BlobSpec => []AckedStored
<1>1. BlobIInv => AckedStored
  BY DEF BlobIInv
<1>2. QED
  BY <1>1, BlobInvariance, PTL

\* The limit is checked without a lock, and yet uploads that interleave exceed
\* it by no more than one file for each of the others handled at the time,
\* however many there have been, whatever failed and whatever the limit was.
THEOREM OvershootAlwaysBounded == BlobSpec => []OvershootBounded
<1>1. BlobInit => OvershootBounded
  <2> SUFFICES ASSUME BlobInit, Unlimited \notin StorageLimits
               PROVE  \E most \in StorageLimits :
                         Usage + Total(Admitted, Announced)
                            <= most + (Cardinality(Uploads) - 1) * MaxBlob
    BY DEF OvershootBounded
  <2>1. BlobIInv
    BY BlobInitIInv
  <2>2. Indexed = {} /\ Admitted = {} /\ limit \in StorageLimits
    BY DEF BlobInit, Indexed, Admitted
  <2>3. Usage = 0 /\ Total(Admitted, Announced) = 0
    BY <2>2, FS_EmptySet DEF Usage, Total, Bytes
  <2>4. limit \in Nat /\ Cardinality(Uploads) - 1 \in Nat /\ MaxBlob \in Nat
    BY <2>1, <2>2, StorageAssumption, SizeAssumption, SumsTyped
  <2>5. \A l, n, k \in Nat : 0 + 0 <= l + n * k
    OBVIOUS
  <2>6. QED
    BY <2>2, <2>3, <2>4, <2>5
<1>2. BlobIInv /\ OvershootBounded /\ [BlobNext]_blobVars => OvershootBounded'
  BY StepOvershoot
<1>3. QED
  BY <1>1, <1>2, BlobInvariance, PTL DEF BlobSpec

-----------------------------------------------------------------------------
(* BundleStore.                                                            *)

\* A function on 1..n is a sequence of length n.
LEMMA FunctionIsSeq ==
    ASSUME NEW S, NEW n \in Nat, NEW f \in [1..n -> S]
    PROVE  f \in Seq(S) /\ Len(f) = n
  OBVIOUS

\* Inserting version HEAD+1 into a contiguous history appends to it.
LEMMA InsertIsAppend ==
    ASSUME NEW S, NEW s \in Seq(S), NEW e \in S, NEW n, n = Len(s) + 1
    PROVE  /\ n \notin DOMAIN s
           /\ [i \in DOMAIN s \cup {n} |-> IF i = n THEN e ELSE s[i]] = Append(s, e)
<1> DEFINE t == [i \in DOMAIN s \cup {n} |-> IF i = n THEN e ELSE s[i]]
<1>1. DOMAIN s = 1..Len(s) /\ Len(s) \in Nat
  BY LenProperties
<1>2. DOMAIN s \cup {n} = 1..n
  BY <1>1
<1>3. t \in [1..n -> S]
  BY <1>1, <1>2, ElementOfSeq
<1>4. t \in Seq(S) /\ Len(t) = n
  BY <1>1, <1>3
<1>5. Append(s, e) \in Seq(S) /\ Len(Append(s, e)) = n
  BY <1>1
<1>6. ASSUME NEW i \in 1..n PROVE t[i] = Append(s, e)[i]
  BY <1>1, <1>2
<1>7. t = Append(s, e)
  <2> HIDE DEF t
  <2> QED BY <1>4, <1>5, <1>6, SeqEqual
<1>8. QED
  BY <1>1, <1>7

\* The initial states satisfy the invariant.
LEMMA InitIInv == Init => IInv
<1> SUFFICES ASSUME Init PROVE IInv
  OBVIOUS
<1> USE ScopeAssumption, UserAssumption, InputAssumption, LimitAssumption DEF Init
<1>1. PICK w \in Users :
         versions = [u \in Units |->
                       [n \in 1..head[u] |->
                          [parent |-> 0, files |-> {}, by |-> w, forced |-> FALSE]]]
  OBVIOUS
<1>2. PICK legacy \in SUBSET LegacyUnits : head = [u \in Units |-> IF u \in legacy THEN 1 ELSE 0]
  OBVIOUS
<1>3. \A u \in Units : head[u] \in {0, 1}
  BY <1>2
<1>4. \A u \in Units : versions[u] \in Seq(Version) /\ Len(versions[u]) = head[u]
  <2> SUFFICES ASSUME NEW u \in Units
               PROVE  versions[u] \in Seq(Version) /\ Len(versions[u]) = head[u]
    OBVIOUS
  <2>1. [parent |-> 0, files |-> {}, by |-> w, forced |-> FALSE] \in Version
    BY DEF Version
  <2>2. versions[u] = [n \in 1..head[u] |->
                          [parent |-> 0, files |-> {}, by |-> w, forced |-> FALSE]]
    BY <1>1
  <2>3. head[u] \in Nat
    BY <1>3
  <2>4. versions[u] \in [1..head[u] -> Version]
    BY <2>1, <2>2
  <2>5. QED
    BY <2>3, <2>4, FunctionIsSeq
<1>5. TypeOK
  BY <1>1, <1>2, <1>3, <1>4 DEF TypeOK, ControlPoint, Row, NoRow, Answered
<1>6. LocksExclusive /\ RowsFresh /\ ChecksHold
  BY DEF LocksExclusive, RowsFresh, ChecksHold, Holds, Locked, InTx
<1>7. OwnersLive
  BY DEF OwnersLive
<1>8. NoLostUpdate /\ ManifestsStored
  BY <1>1, <1>3 DEF NoLostUpdate, ManifestsStored
<1>9. QED
  BY <1>5, <1>6, <1>7, <1>8 DEF IInv

-----------------------------------------------------------------------------
(* Steps.                                                                  *)

\* What holds of one request; IInv says it of each.
RequestOK(r) ==
    /\ pc[r] \notin {"new"} \cup Answered => req[r] \in Request
    /\ inserted[r] => /\ pc[r] \in {"upserted"} \cup Locked
                      /\ head[req[r].unit] = 0
                      /\ req[r].user \in users
    /\ pc[r] \in Locked =>
          /\ row[r].head = head[req[r].unit]
          /\ IF inserted[r] THEN row[r].owner = req[r].user
             ELSE head[req[r].unit] > 0 /\ row[r].owner = owner[req[r].unit]
    /\ pc[r] \in {"ready"} \cup InTx => req[r].files \subseteq index
    /\ pc[r] \in {"create", "extend", "limited"} => ~Stale(r)
    /\ pc[r] \in {"create", "limited"} => row[r].head = 0
    /\ pc[r] = "extend" => row[r].head > 0
    /\ pc[r] = "limited" => HasRoom

\* A step that changes one request's own state keeps the invariant when that
\* request's part of it holds and it takes no lock another request has.
LEMMA LocalStep ==
    ASSUME IInv, NEW r \in Requests, UNCHANGED storeVars,
           NEW where \in ControlPoint, pc' = [pc EXCEPT ![r] = where],
           NEW q \in Request \cup {NoRequest}, req' = [req EXCEPT ![r] = q],
           NEW b \in BOOLEAN, inserted' = [inserted EXCEPT ![r] = b],
           NEW w \in Row, row' = [row EXCEPT ![r] = w],
           RequestOK(r)',
           \A u \in Units : Holds(r, u)' => Holds(r, u) \/ RowFree(u),
           where = "limited" => OrgFree
    PROVE  IInv'
<1> USE DEF IInv
<1>1. TypeOK'
  BY DEF TypeOK, storeVars, RequestOK
<1>2. \A s \in Requests \ {r} : /\ pc'[s] = pc[s] /\ req'[s] = req[s]
                                /\ inserted'[s] = inserted[s] /\ row'[s] = row[s]
  BY DEF TypeOK
<1>3. LocksExclusive'
  <2> SUFFICES ASSUME NEW s \in Requests, NEW t \in Requests
               PROVE  /\ \A u \in Units : Holds(s, u)' /\ Holds(t, u)' => s = t
                      /\ pc'[s] = "limited" /\ pc'[t] = "limited" => s = t
    BY DEF LocksExclusive
  <2>1. ASSUME NEW u \in Units, Holds(s, u)', Holds(t, u)' PROVE s = t
    <3>1. \A v \in Requests \ {r} : Holds(v, u)' => Holds(v, u)
      BY <1>2 DEF Holds
    <3>2. CASE s = r \/ t = r
      BY <2>1, <3>1, <3>2 DEF LocksExclusive, RowFree
    <3>3. CASE s # r /\ t # r
      BY <2>1, <3>1, <3>3 DEF LocksExclusive
    <3>4. QED
      BY <3>2, <3>3
  <2>2. ASSUME pc'[s] = "limited", pc'[t] = "limited" PROVE s = t
    BY <1>2, <2>2 DEF LocksExclusive, OrgFree, TypeOK
  <2>3. QED
    BY <2>1, <2>2
<1>4. \A s \in Requests : RequestOK(s)'
  <2>1. ASSUME NEW s \in Requests \ {r} PROVE RequestOK(s)'
    BY <1>2 DEF RequestOK, RowsFresh, ChecksHold, TypeOK, Stale, HasRoom, LiveUnits, storeVars
  <2>2. QED
    BY <2>1
<1>5. RowsFresh' /\ ChecksHold'
  BY <1>4 DEF RequestOK, RowsFresh, ChecksHold
<1>6. OwnersLive' /\ NoLostUpdate' /\ ManifestsStored'
  BY DEF OwnersLive, NoLostUpdate, ManifestsStored, storeVars
<1>7. QED
  BY <1>1, <1>3, <1>5, <1>6

\* Answering without having changed the store keeps the invariant.
LEMMA AnswerStep ==
    ASSUME IInv, NEW r \in Requests, NEW how \in Answered, Answer(r, how),
           UNCHANGED storeVars
    PROVE  IInv'
<1>1. /\ pc' = [pc EXCEPT ![r] = how] /\ req' = [req EXCEPT ![r] = NoRequest]
      /\ inserted' = [inserted EXCEPT ![r] = FALSE]
      /\ row' = [row EXCEPT ![r] = NoRow]
  BY DEF Answer, Goto
<1>2. how \in ControlPoint /\ NoRow \in Row
  BY DEF ControlPoint, NoRow, Row
<1>3. pc'[r] = how /\ ~inserted'[r]
  BY <1>1 DEF IInv, TypeOK
<1>4. RequestOK(r)' /\ \A u \in Units : ~Holds(r, u)'
  BY <1>3 DEF RequestOK, Answered, Holds, Locked, InTx
<1>5. how # "limited"
  BY DEF Answered
<1>6. QED
  BY <1>1, <1>2, <1>4, <1>5, LocalStep

\* A step of the handler to another control point, changing none of what it
\* asked for or read.
LEMMA GotoStep ==
    ASSUME IInv, NEW r \in Requests, NEW where \in ControlPoint, Goto(r, where),
           UNCHANGED <<storeVars, req, inserted, row>>,
           RequestOK(r)',
           \A u \in Units : Holds(r, u)' => Holds(r, u),
           where = "limited" => OrgFree
    PROVE  IInv'
<1>1. /\ pc' = [pc EXCEPT ![r] = where] /\ req' = [req EXCEPT ![r] = req[r]]
      /\ inserted' = [inserted EXCEPT ![r] = inserted[r]]
      /\ row' = [row EXCEPT ![r] = row[r]]
  BY DEF Goto, IInv, TypeOK
<1>2. /\ req[r] \in Request \cup {NoRequest} /\ inserted[r] \in BOOLEAN
      /\ row[r] \in Row
  BY DEF IInv, TypeOK
<1>3. QED
  BY <1>1, <1>2, LocalStep

\* The permission check changes only the request's own state.
LEMMA AdmitStep ==
    ASSUME IInv, NEW r \in Requests, NEW q \in Request,
           NEW next \in {"allowed", "remove"}, Admit(r, q, next)
    PROVE  IInv'
<1>1. CASE Can(q.user, q.unit, owner[q.unit])
  <2>1. /\ pc' = [pc EXCEPT ![r] = next] /\ req' = [req EXCEPT ![r] = q]
        /\ inserted' = [inserted EXCEPT ![r] = inserted[r]]
        /\ row' = [row EXCEPT ![r] = row[r]]
        /\ UNCHANGED storeVars
    BY <1>1 DEF Admit, Goto, IInv, TypeOK
  <2>2. inserted[r] \in BOOLEAN /\ row[r] \in Row /\ next \in ControlPoint
    BY DEF IInv, TypeOK, ControlPoint
  <2>3. ~inserted[r]
    BY DEF IInv, RowsFresh, Admit, Locked
  <2>4. pc'[r] = next /\ req'[r] = q /\ ~inserted'[r]
    BY <2>1, <2>3 DEF IInv, TypeOK
  <2>5. RequestOK(r)' /\ \A u \in Units : ~Holds(r, u)'
    BY <2>4 DEF RequestOK, Holds, Locked, InTx
  <2>6. QED
    BY <2>1, <2>2, <2>5, LocalStep
<1>2. CASE ~Can(q.user, q.unit, owner[q.unit])
  BY <1>2, AnswerStep DEF Admit, Answered
<1>3. QED
  BY <1>1, <1>2

\* A request that starts, put or delete, keeps the invariant.
LEMMA StartStep ==
    ASSUME IInv, NEW r \in Requests, StartPut(r) \/ StartDelete(r)
    PROVE  IInv'
<1>1. CASE StartPut(r)
  BY <1>1, AdmitStep DEF StartPut
<1>2. CASE StartDelete(r)
  <2>1. PICK user \in Users, u \in Units :
           Admit(r, [user |-> user, unit |-> u, parent |-> 0, force |-> FALSE,
                     files |-> {}], "remove")
    BY <1>2 DEF StartDelete, IInv, TypeOK
  <2>2. [user |-> user, unit |-> u, parent |-> 0, force |-> FALSE, files |-> {}] \in Request
    BY InputAssumption DEF Request
  <2>3. QED
    BY <2>1, <2>2, AdmitStep
<1>3. QED
  BY <1>1, <1>2

\* The index only grows, so what the check before the transaction found there
\* stays there.
LEMMA CheckBlobsStep ==
    ASSUME IInv, NEW r \in Requests, CheckBlobs(r)
    PROVE  IInv'
<1>1. CASE BlobsThere(r)
  <2>1. Goto(r, "ready") /\ UNCHANGED <<storeVars, req, inserted, row>>
    BY <1>1 DEF CheckBlobs
  <2>2. pc'[r] = "ready" /\ ~inserted[r] /\ req[r] \in Request
    BY <2>1 DEF Goto, IInv, TypeOK, RowsFresh, CheckBlobs, Locked, Answered
  <2>3. RequestOK(r)' /\ \A u \in Units : ~Holds(r, u)'
    BY <1>1, <2>1, <2>2 DEF BlobsThere, RequestOK, Holds, Locked, InTx, storeVars
  <2>4. QED
    BY <2>1, <2>3, GotoStep DEF ControlPoint
<1>2. CASE ~BlobsThere(r)
  BY <1>2, AnswerStep DEF CheckBlobs, Answered
<1>3. QED
  BY <1>1, <1>2

\* Opening the transaction of a put takes no lock.
LEMMA BeginStep ==
    ASSUME IInv, NEW r \in Requests, Begin(r)
    PROVE  IInv'
<1>1. Goto(r, "begun") /\ UNCHANGED <<storeVars, req, inserted, row>>
  BY DEF Begin
<1>2. pc'[r] = "begun" /\ ~inserted[r] /\ req[r] \in Request /\ req[r].files \subseteq index
  BY <1>1 DEF Goto, IInv, TypeOK, RowsFresh, ChecksHold, Begin, Locked, Answered
<1>3. RequestOK(r)' /\ \A u \in Units : ~Holds(r, u)'
  BY <1>1, <1>2 DEF RequestOK, Holds, Locked, InTx, storeVars
<1>4. QED
  BY <1>1, <1>3, GotoStep DEF ControlPoint, InTx

\* Nor does a delete, before its one statement.
LEMMA BeginDeleteStep ==
    ASSUME IInv, NEW r \in Requests, BeginDelete(r)
    PROVE  IInv'
<1>1. Goto(r, "deleting") /\ UNCHANGED <<storeVars, req, inserted, row>>
  BY DEF BeginDelete
<1>2. pc'[r] = "deleting" /\ ~inserted[r] /\ req[r] \in Request
  BY <1>1 DEF Goto, IInv, TypeOK, RowsFresh, BeginDelete, Locked, Answered
<1>3. RequestOK(r)' /\ \A u \in Units : ~Holds(r, u)'
  BY <1>1, <1>2 DEF RequestOK, Holds, Locked, InTx, storeVars
<1>4. QED
  BY <1>1, <1>3, GotoStep DEF ControlPoint

\* The row is either there, or inserted by the only transaction to do so.
LEMMA UpsertStep ==
    ASSUME IInv, NEW r \in Requests, Upsert(r)
    PROVE  IInv'
<1> DEFINE u == req[r].unit
<1>1. CASE head[u] > 0 \/ req[r].user \in users
  <2>1. /\ pc' = [pc EXCEPT ![r] = "upserted"] /\ req' = [req EXCEPT ![r] = req[r]]
        /\ inserted' = [inserted EXCEPT ![r] = (head[u] = 0)]
        /\ row' = [row EXCEPT ![r] = row[r]]
        /\ UNCHANGED storeVars
    BY <1>1 DEF Upsert, Goto, IInv, TypeOK
  <2>2. req[r] \in Request /\ req[r].files \subseteq index /\ row[r] \in Row
    BY DEF Upsert, IInv, TypeOK, ChecksHold, InTx, Answered
  <2>3. pc'[r] = "upserted" /\ req'[r] = req[r] /\ inserted'[r] = (head[u] = 0)
    BY <2>1 DEF IInv, TypeOK
  <2>4. RequestOK(r)'
    <3>1. head[u] \in Nat
      BY <2>2 DEF IInv, TypeOK, Request
    <3>2. inserted'[r] => head'[u] = 0 /\ req[r].user \in users'
      <4>1. inserted'[r] => head[u] = 0
        BY <2>3, Zenon
      <4>2. head[u] = 0 => req[r].user \in users
        BY <1>1, <3>1
      <4>3. QED
        BY <2>1, <4>1, <4>2 DEF storeVars
    <3>3. QED
      BY <2>1, <2>2, <2>3, <3>2 DEF RequestOK, Locked, InTx, storeVars, Answered
  <2>5. \A v \in Units : Holds(r, v)' => RowFree(v)
    BY <2>3 DEF Holds, Locked, Upsert
  <2>6. (head[u] = 0) \in BOOLEAN /\ "upserted" \in ControlPoint
    BY DEF ControlPoint, InTx
  <2> HIDE DEF u
  <2>7. QED
    BY <2>1, <2>2, <2>4, <2>5, <2>6, LocalStep
<1>2. CASE ~(head[u] > 0 \/ req[r].user \in users)
  BY <1>2, AnswerStep DEF Upsert, Answered
<1>3. QED
  BY <1>1, <1>2

\* The row read under the lock is the committed one, or the inserted one.
LEMMA LockRowStep ==
    ASSUME IInv, NEW r \in Requests, LockRow(r)
    PROVE  IInv'
<1> DEFINE u == req[r].unit
           w == [head |-> head[u],
                 owner |-> IF inserted[r] THEN req[r].user ELSE owner[u]]
<1>1. CASE inserted[r] \/ head[u] > 0
  <2>1. /\ pc' = [pc EXCEPT ![r] = "locked"] /\ req' = [req EXCEPT ![r] = req[r]]
        /\ inserted' = [inserted EXCEPT ![r] = inserted[r]]
        /\ row' = [row EXCEPT ![r] = w]
        /\ UNCHANGED storeVars
    BY <1>1 DEF LockRow, Goto, IInv, TypeOK
  <2>2. /\ req[r] \in Request /\ req[r].files \subseteq index
        /\ inserted[r] \in BOOLEAN
        /\ inserted[r] => head[u] = 0 /\ req[r].user \in users
    BY DEF LockRow, IInv, TypeOK, ChecksHold, RowsFresh, InTx, Answered
  <2>3. u \in Units /\ req[r].user \in Users
    BY <2>2 DEF Request
  <2>4. w \in Row
    BY <2>3 DEF Row, IInv, TypeOK
  <2>5. /\ pc'[r] = "locked" /\ req'[r] = req[r] /\ inserted'[r] = inserted[r]
        /\ row'[r] = w
    BY <2>1 DEF IInv, TypeOK
  <2>6. RequestOK(r)'
    BY <1>1, <2>1, <2>2, <2>5 DEF RequestOK, Locked, InTx, storeVars, Answered
  <2>7. \A v \in Units : Holds(r, v)' => Holds(r, v) \/ RowFree(v)
    BY <1>1, <2>5 DEF Holds, Locked, LockRow
  <2>8. "locked" \in ControlPoint
    BY DEF ControlPoint, InTx, Locked
  <2> HIDE DEF u, w
  <2>9. QED
    BY <2>1, <2>2, <2>4, <2>6, <2>7, <2>8, LocalStep
<1>2. CASE ~(inserted[r] \/ head[u] > 0)
  BY <1>2, AnswerStep DEF LockRow, Answered
<1>3. QED
  BY <1>1, <1>2

\* Under the row lock the row read is the committed one, so the parent that is
\* not stale now is not stale at the commit.
LEMMA RecheckStep ==
    ASSUME IInv, NEW r \in Requests, Recheck(r)
    PROVE  IInv'
<1> DEFINE next == IF row[r].head = 0 THEN "create" ELSE "extend"
<1>1. CASE BlobsThere(r) /\ ~Stale(r)
  <2>1. Goto(r, next) /\ UNCHANGED <<storeVars, req, inserted, row>>
    BY <1>1 DEF Recheck
  <2>2. pc'[r] = next /\ req[r] \in Request /\ row[r].head \in Nat
    BY <2>1 DEF Goto, IInv, TypeOK, Recheck, Answered, Row
  <2>3. /\ row[r].head = head[req[r].unit]
        /\ IF inserted[r] THEN /\ head[req[r].unit] = 0 /\ row[r].owner = req[r].user
                               /\ req[r].user \in users
           ELSE head[req[r].unit] > 0 /\ row[r].owner = owner[req[r].unit]
    BY DEF IInv, RowsFresh, Recheck, Locked
  <2>4. RequestOK(r)'
    BY <1>1, <2>1, <2>2, <2>3 DEF BlobsThere, RequestOK, Locked, InTx, storeVars, Answered, Stale
  <2>5. \A v \in Units : Holds(r, v)' => Holds(r, v)
    BY <2>1 DEF Holds, Recheck, Locked
  <2>6. next \in ControlPoint /\ next # "limited"
    BY DEF ControlPoint, InTx, Locked
  <2>7. QED
    BY <2>1, <2>4, <2>5, <2>6, GotoStep
<1>2. CASE ~(BlobsThere(r) /\ ~Stale(r))
  BY <1>2, AnswerStep DEF Recheck, Answered
<1>3. QED
  BY <1>1, <1>2

\* The room found under the org lock.
LEMMA CheckLimitStep ==
    ASSUME IInv, NEW r \in Requests, CheckLimit(r)
    PROVE  IInv'
<1>1. CASE HasRoom
  <2>1. Goto(r, "limited") /\ UNCHANGED <<storeVars, req, inserted, row>>
    BY <1>1 DEF CheckLimit
  <2>2. pc'[r] = "limited" /\ req[r] \in Request /\ req[r].files \subseteq index
    BY <2>1 DEF Goto, IInv, TypeOK, CheckLimit, Answered, ChecksHold, InTx, Locked
  <2>3. /\ row[r].head = head[req[r].unit] /\ row[r].head = 0 /\ ~Stale(r)
        /\ IF inserted[r] THEN /\ head[req[r].unit] = 0 /\ row[r].owner = req[r].user
                               /\ req[r].user \in users
           ELSE head[req[r].unit] > 0 /\ row[r].owner = owner[req[r].unit]
    BY DEF IInv, RowsFresh, ChecksHold, CheckLimit, Locked
  <2>4. HasRoom'
    BY <1>1, <2>1 DEF HasRoom, LiveUnits, storeVars
  <2>5. RequestOK(r)'
    BY <2>1, <2>2, <2>3, <2>4 DEF RequestOK, Locked, InTx, storeVars, Answered, Stale
  <2>6. \A v \in Units : Holds(r, v)' => Holds(r, v)
    BY <2>1 DEF Holds, CheckLimit, Locked
  <2>7. "limited" \in ControlPoint /\ OrgFree
    BY DEF ControlPoint, InTx, Locked, CheckLimit
  <2>8. QED
    BY <2>1, <2>5, <2>6, <2>7, GotoStep
<1>2. CASE ~HasRoom
  BY <1>2, AnswerStep DEF CheckLimit, Answered
<1>3. QED
  BY <1>1, <1>2

\* What a commit does to the unit: one version appended to its history, HEAD
\* moved to it.  The primary key is never in the way; a claim by a user who is
\* gone fails.
LEMMA CommitEffect ==
    ASSUME IInv, NEW r \in Requests, Commit(r)
    PROVE  LET u == req[r].unit
               n == head[u] + 1
               m == NewVersion(r)
           IN  \/ Answer(r, "refused") /\ UNCHANGED storeVars
               \/ /\ u \in Units /\ Holds(r, u) /\ m \in Version
                  /\ versions' = [versions EXCEPT ![u] = Append(versions[u], m)]
                  /\ head' = [head EXCEPT ![u] = n]
                  /\ owner' = [owner EXCEPT ![u] = Claimed(r)]
                  /\ Answer(r, "accepted")
                  /\ UNCHANGED <<users, index, maxSkills>>
                  /\ m.forced \/ m.parent = head[u]
                  /\ m.files \subseteq index
                  /\ Claimed(r) \in users
<1> DEFINE u == req[r].unit
           n == head[u] + 1
           m == NewVersion(r)
<1>1. pc[r] \in {"limited", "extend"} /\ req[r] \in Request
  BY DEF Commit, IInv, TypeOK, Answered
<1>2. u \in Units /\ m \in Version /\ Holds(r, u)
  BY <1>1 DEF Request, NewVersion, Version, Holds, Locked
<1>3. row[r].head = head[u] /\ req[r].files \subseteq index /\ ~Stale(r)
  BY <1>1 DEF IInv, RowsFresh, ChecksHold, Locked, InTx
<1>4. NextNumber(r) = n
  BY <1>3 DEF NextNumber
<1>5. versions[u] \in Seq(Version) /\ n = Len(versions[u]) + 1
  BY <1>2 DEF IInv, TypeOK
<1>6. /\ n \notin DOMAIN versions[u]
      /\ [i \in DOMAIN versions[u] \cup {n} |-> IF i = n THEN m ELSE versions[u][i]]
           = Append(versions[u], m)
  <2> HIDE DEF n, m, u
  <2> QED BY <1>2, <1>5, InsertIsAppend
<1>7. m.forced \/ m.parent = head[u]
  BY <1>3 DEF NewVersion, Stale
<1>8. m.files \subseteq index
  BY <1>3 DEF NewVersion
<1>9. QED
  BY <1>2, <1>4, <1>6, <1>7, <1>8 DEF Commit

\* The row lock keeps every other transaction off the committed unit.
LEMMA CommitStep ==
    ASSUME IInv, NEW r \in Requests, Commit(r)
    PROVE  IInv'
<1> DEFINE u == req[r].unit
           m == NewVersion(r)
<1>1. CASE Answer(r, "refused") /\ UNCHANGED storeVars
  BY <1>1, AnswerStep DEF Answered
<1>2. CASE ~(Answer(r, "refused") /\ UNCHANGED storeVars)
  <2>1. /\ u \in Units /\ Holds(r, u) /\ m \in Version
        /\ versions' = [versions EXCEPT ![u] = Append(versions[u], m)]
        /\ head' = [head EXCEPT ![u] = head[u] + 1]
        /\ owner' = [owner EXCEPT ![u] = Claimed(r)]
        /\ UNCHANGED <<users, index, maxSkills>>
        /\ m.forced \/ m.parent = head[u]
        /\ m.files \subseteq index
        /\ Claimed(r) \in users
    BY <1>2, CommitEffect
  <2>2. /\ pc' = [pc EXCEPT ![r] = "accepted"] /\ req' = [req EXCEPT ![r] = NoRequest]
        /\ inserted' = [inserted EXCEPT ![r] = FALSE]
        /\ row' = [row EXCEPT ![r] = NoRow]
    BY <1>2, CommitEffect DEF Answer, Goto
  <2> HIDE DEF m
  <2> USE DEF IInv
  <2>3. TypeOK'
    <3>1. versions[u] \in Seq(Version) /\ Len(versions[u]) = head[u] /\ head[u] \in Nat
      BY <2>1 DEF TypeOK
    <3>2. Append(versions[u], m) \in Seq(Version) /\ Len(Append(versions[u], m)) = head[u] + 1
      BY <2>1, <3>1
    <3>3. versions' \in [Units -> Seq(Version)] /\ \A v \in Units : Len(versions'[v]) = head'[v]
      BY <2>1, <3>2 DEF TypeOK
    <3>4. head' \in [Units -> Nat] /\ owner' \in [Units -> users \cup {NoUser}]
      BY <2>1 DEF TypeOK
    <3>5. pc' \in [Requests -> ControlPoint] /\ row' \in [Requests -> Row]
      BY <2>2 DEF TypeOK, ControlPoint, Answered, NoRow, Row
    <3>6. QED
      BY <2>1, <2>2, <3>3, <3>4, <3>5 DEF TypeOK, Answered
  <2>4. \A s \in Requests \ {r} : /\ pc'[s] = pc[s] /\ req'[s] = req[s]
                                  /\ inserted'[s] = inserted[s] /\ row'[s] = row[s]
    BY <2>2 DEF TypeOK
  <2>5. pc'[r] = "accepted" /\ ~inserted'[r]
    BY <2>2 DEF TypeOK
  <2>6. LocksExclusive'
    BY <2>4, <2>5 DEF LocksExclusive, Holds, Locked
  <2>7. ASSUME NEW s \in Requests \ {r} PROVE RequestOK(s)'
    <3>1. pc[s] \in Locked \/ inserted[s] => req[s].unit # u
      BY <2>1 DEF RowsFresh, LocksExclusive, Holds
    <3>2. pc[s] \in Locked \/ inserted[s] => req[s].unit \in Units
      BY DEF RowsFresh, TypeOK, Locked, Answered, Request
    <3>3. pc[s] \in Locked \/ inserted[s] =>
             head'[req[s].unit] = head[req[s].unit] /\ owner'[req[s].unit] = owner[req[s].unit]
      BY <2>1, <3>1, <3>2 DEF TypeOK
    <3>4. pc[s] = "limited" => HasRoom'
      <4> SUFFICES ASSUME pc[s] = "limited" PROVE HasRoom'
        OBVIOUS
      <4>1. pc[r] = "extend"
        BY DEF LocksExclusive, Commit
      <4>2. head[u] > 0
        BY <4>1 DEF RowsFresh, ChecksHold, Locked
      <4>3. LiveUnits' = LiveUnits
        BY <2>1, <4>2 DEF LiveUnits, TypeOK
      <4>4. QED
        BY <2>1, <4>3 DEF HasRoom, ChecksHold
    <3>5. pc[s] \in {"create", "extend", "limited"} => ~Stale(s)'
      BY <2>4 DEF ChecksHold, Stale
    <3>6. QED
      BY <2>1, <2>4, <3>3, <3>4, <3>5 DEF RequestOK, RowsFresh, ChecksHold, TypeOK
  <2>8. RequestOK(r)'
    BY <2>5 DEF RequestOK, Answered, Locked, InTx
  <2>9. RowsFresh' /\ ChecksHold'
    BY <2>7, <2>8 DEF RequestOK, RowsFresh, ChecksHold
  <2>10. OwnersLive'
    BY <2>1 DEF OwnersLive, TypeOK
  <2>11. NoLostUpdate' /\ ManifestsStored'
    <3> SUFFICES ASSUME NEW v \in Units, NEW n \in 1..head'[v]
                 PROVE  /\ versions'[v][n].forced \/ versions'[v][n].parent = n - 1
                        /\ versions'[v][n].files \subseteq index'
      BY DEF NoLostUpdate, ManifestsStored
    <3>1. CASE v # u
      BY <2>1, <3>1 DEF NoLostUpdate, ManifestsStored, TypeOK
    <3>2. CASE v = u /\ n # head[u] + 1
      <4>1. n \in 1..head[u] /\ versions'[v][n] = versions[u][n]
        BY <2>1, <3>2 DEF TypeOK
      <4>2. QED
        BY <2>1, <3>2, <4>1 DEF NoLostUpdate, ManifestsStored
    <3>3. CASE v = u /\ n = head[u] + 1
      <4>1. versions'[v][n] = m /\ n - 1 = head[u]
        BY <2>1, <3>3 DEF TypeOK
      <4>2. QED
        BY <2>1, <4>1
    <3>4. QED
      BY <3>1, <3>2, <3>3
  <2>12. QED
    BY <2>3, <2>6, <2>9, <2>10, <2>11
<1>3. QED
  BY <1>1, <1>2

\* A delete waits for the lock, so no transaction's row disappears under it.
LEMMA DeleteStep ==
    ASSUME IInv, NEW r \in Requests, Delete(r)
    PROVE  IInv'
<1> DEFINE u == req[r].unit
<1>1. CASE head[u] = 0
  BY <1>1, AnswerStep DEF Delete, Answered
<1>2. CASE head[u] > 0
  <2> USE DEF IInv
  <2>1. /\ head' = [head EXCEPT ![u] = 0]
        /\ owner' = [owner EXCEPT ![u] = NoUser]
        /\ versions' = [versions EXCEPT ![u] = <<>>]
        /\ UNCHANGED <<users, index, maxSkills>>
        /\ RowFree(u)
    BY <1>2 DEF Delete
  <2>2. /\ pc' = [pc EXCEPT ![r] = "accepted"] /\ req' = [req EXCEPT ![r] = NoRequest]
        /\ inserted' = [inserted EXCEPT ![r] = FALSE]
        /\ row' = [row EXCEPT ![r] = NoRow]
    BY <1>2 DEF Delete, Answer, Goto
  <2>3. u \in Units
    BY DEF Delete, TypeOK, Answered, Request
  <2>4. TypeOK'
    <3>1. versions' \in [Units -> Seq(Version)] /\ \A v \in Units : Len(versions'[v]) = head'[v]
      BY <2>1, <2>3, EmptySeq DEF TypeOK
    <3>2. QED
      BY <2>1, <2>2, <3>1 DEF TypeOK, ControlPoint, Answered, NoRow, Row
  <2>5. \A s \in Requests \ {r} : /\ pc'[s] = pc[s] /\ req'[s] = req[s]
                                  /\ inserted'[s] = inserted[s] /\ row'[s] = row[s]
    BY <2>2 DEF TypeOK
  <2>6. pc'[r] = "accepted" /\ ~inserted'[r]
    BY <2>2 DEF TypeOK
  <2>7. LocksExclusive'
    BY <2>5, <2>6 DEF LocksExclusive, Holds, Locked
  <2>8. ASSUME NEW s \in Requests \ {r} PROVE RequestOK(s)'
    <3>1. pc[s] \in Locked \/ inserted[s] => req[s].unit # u
      BY <2>1 DEF RowsFresh, RowFree, Holds
    <3>2. pc[s] \in Locked \/ inserted[s] => req[s].unit \in Units
      BY DEF RowsFresh, TypeOK, Locked, Answered, Request
    <3>3. pc[s] \in Locked \/ inserted[s] =>
             head'[req[s].unit] = head[req[s].unit] /\ owner'[req[s].unit] = owner[req[s].unit]
      BY <2>1, <3>1, <3>2 DEF TypeOK
    <3>4. pc[s] \in {"create", "extend", "limited"} => ~Stale(s)'
      BY <2>5 DEF ChecksHold, Stale
    <3>5. pc[s] = "limited" => HasRoom'
      <4>1. IsFiniteSet(LiveUnits) /\ Cardinality(LiveUnits) \in Nat
        BY ScopeAssumption, FS_Subset, FS_CardinalityType DEF LiveUnits
      <4>2. LiveUnits' = LiveUnits \ {u}
        BY <2>1, <2>3 DEF LiveUnits, TypeOK
      <4>3. Cardinality(LiveUnits') <= Cardinality(LiveUnits) /\ Cardinality(LiveUnits') \in Nat
        BY <4>1, <4>2, FS_Subset, FS_CardinalityType
      <4>4. maxSkills \in Nat \cup {NoLimit}
        BY LimitAssumption DEF TypeOK
      <4>5. QED
        BY <2>1, <4>1, <4>3, <4>4 DEF HasRoom, ChecksHold
    <3>6. QED
      BY <2>1, <2>5, <3>3, <3>4, <3>5 DEF RequestOK, RowsFresh, ChecksHold, TypeOK
  <2>9. RequestOK(r)'
    BY <2>6 DEF RequestOK, Answered, Locked, InTx
  <2>10. RowsFresh' /\ ChecksHold'
    BY <2>8, <2>9 DEF RequestOK, RowsFresh, ChecksHold
  <2>11. OwnersLive'
    BY <2>1 DEF OwnersLive, TypeOK
  <2>12. NoLostUpdate' /\ ManifestsStored'
    <3>1. \A v \in Units \ {u} : versions'[v] = versions[v] /\ head'[v] = head[v]
      BY <2>1 DEF TypeOK
    <3>2. 1..head'[u] = {}
      BY <2>1, <2>3 DEF TypeOK
    <3>3. QED
      BY <2>1, <3>1, <3>2 DEF NoLostUpdate, ManifestsStored
  <2>13. QED
    BY <2>4, <2>7, <2>10, <2>11, <2>12
<1>3. head[u] \in Nat
  BY DEF IInv, TypeOK, Delete, Answered, Request
<1>4. QED
  BY <1>1, <1>2, <1>3

\* A transaction that is rolled back leaves the store as it was.
LEMMA AbortStep ==
    ASSUME IInv, NEW r \in Requests, Abort(r)
    PROVE  IInv'
  BY AnswerStep DEF Abort, Answered

\* The blob index only grows, so a manifest that was stored stays stored.
LEMMA IndexBlobStep ==
    ASSUME IInv, IndexBlob
    PROVE  IInv'
<1>1. /\ index \subseteq index' /\ index' \subseteq Shas
      /\ UNCHANGED <<head, owner, users, versions, maxSkills, pc, req, inserted, row>>
  BY DEF IndexBlob, IInv, TypeOK
<1>2. TypeOK' /\ OwnersLive' /\ NoLostUpdate'
  BY <1>1 DEF IInv, TypeOK, OwnersLive, NoLostUpdate
<1>3. LocksExclusive' /\ RowsFresh'
  BY <1>1 DEF IInv, LocksExclusive, RowsFresh, Holds
<1>4. \A r \in Requests : /\ HasRoom' = HasRoom /\ Stale(r)' = Stale(r)
                          /\ req'[r].files = req[r].files /\ pc'[r] = pc[r]
                          /\ row'[r] = row[r]
  BY <1>1 DEF HasRoom, LiveUnits, Stale
<1>5. ChecksHold'
  BY <1>1, <1>4 DEF IInv, ChecksHold
<1>6. ManifestsStored'
  BY <1>1 DEF IInv, ManifestsStored
<1>7. QED
  BY <1>2, <1>3, <1>5, <1>6 DEF IInv

\* An admin's new limit waits for the org row, so no create that has counted
\* commits against another limit.
LEMMA SetLimitStep ==
    ASSUME IInv, SetLimit
    PROVE  IInv'
<1>1. /\ maxSkills' \in SkillLimits /\ OrgFree
      /\ UNCHANGED <<head, owner, users, versions, index, pc, req, inserted, row>>
  BY DEF SetLimit
<1>2. TypeOK' /\ OwnersLive' /\ NoLostUpdate' /\ ManifestsStored'
  BY <1>1 DEF IInv, TypeOK, OwnersLive, NoLostUpdate, ManifestsStored
<1>3. LocksExclusive' /\ RowsFresh'
  BY <1>1 DEF IInv, LocksExclusive, RowsFresh, Holds
<1>4. ChecksHold'
  BY <1>1 DEF IInv, ChecksHold, OrgFree, Stale
<1>5. QED
  BY <1>2, <1>3, <1>4 DEF IInv

\* The rows of a removed user are not locked, and no transaction has one of
\* theirs inserted.
LEMMA RemoveUserStep ==
    ASSUME IInv, RemoveUser
    PROVE  IInv'
<1>1. PICK w \in users :
        /\ \A u \in Units : owner[u] = w => RowFree(u)
        /\ \A r \in Requests : inserted[r] => req[r].user # w
        /\ users' = users \ {w}
        /\ owner' = [u \in Units |-> IF owner[u] = w THEN NoUser ELSE owner[u]]
        /\ UNCHANGED <<head, versions, index, maxSkills, pc, req, inserted, row>>
  BY DEF RemoveUser
<1>2. TypeOK' /\ OwnersLive' /\ NoLostUpdate' /\ ManifestsStored'
  BY <1>1 DEF IInv, TypeOK, OwnersLive, NoLostUpdate, ManifestsStored
<1>3. LocksExclusive'
  BY <1>1 DEF IInv, LocksExclusive, Holds
<1>4. RowsFresh'
  <2>1. ASSUME NEW r \in Requests, pc[r] \in Locked
        PROVE  owner'[req[r].unit] = owner[req[r].unit] /\ req[r].unit \in Units
    <3>1. req[r].unit \in Units
      BY <2>1 DEF IInv, TypeOK, Locked, Answered, Request
    <3>2. ~RowFree(req[r].unit)
      BY <2>1 DEF RowFree, Holds
    <3>3. QED
      BY <1>1, <3>1, <3>2
  <2>2. \A r \in Requests : inserted[r] => req[r].user \in users'
    BY <1>1 DEF IInv, RowsFresh
  <2>3. QED
    BY <1>1, <2>1, <2>2 DEF IInv, RowsFresh
<1>5. ChecksHold'
  BY <1>1 DEF IInv, ChecksHold, Stale, HasRoom, LiveUnits
<1>6. QED
  BY <1>2, <1>3, <1>4, <1>5 DEF IInv

\* The invariant is about the variables alone.
LEMMA UnchangedStep ==
    ASSUME IInv, UNCHANGED vars
    PROVE  IInv'
<1>1. TypeOK' /\ OwnersLive' /\ NoLostUpdate' /\ ManifestsStored'
  BY DEF vars, IInv, TypeOK, OwnersLive, NoLostUpdate, ManifestsStored
<1>2. LocksExclusive' /\ RowsFresh'
  BY DEF vars, IInv, LocksExclusive, RowsFresh, Holds
<1>3. ChecksHold'
  BY DEF vars, IInv, ChecksHold, Stale, HasRoom, LiveUnits
<1>4. QED
  BY <1>1, <1>2, <1>3 DEF IInv

\* Every step of the store keeps the invariant.
LEMMA StepIInv == IInv /\ [Next]_vars => IInv'
<1> SUFFICES ASSUME IInv, [Next]_vars PROVE IInv'
  OBVIOUS
<1>1. ASSUME NEW r \in Requests, Put(r) PROVE IInv'
  BY <1>1, StartStep, CheckBlobsStep, BeginStep, UpsertStep, LockRowStep, RecheckStep,
     CheckLimitStep, CommitStep DEF Put
<1>2. ASSUME NEW r \in Requests, Del(r) PROVE IInv'
  BY <1>2, StartStep, BeginDeleteStep, DeleteStep DEF Del
<1>3. CASE IndexBlob
  BY <1>3, IndexBlobStep
<1>4. CASE SetLimit
  BY <1>4, SetLimitStep
<1>5. CASE RemoveUser
  BY <1>5, RemoveUserStep
<1>6. CASE UNCHANGED vars
  BY <1>6, UnchangedStep
<1>7. QED
  BY <1>1, <1>2, <1>3, <1>4, <1>5, <1>6, AbortStep DEF Next

-----------------------------------------------------------------------------
(* Theorems.                                                               *)

\* The row and org locks serialize the transactions of putBundle: whatever a
\* transaction read or checked is still so when it commits, histories stay
\* contiguous, and the versions and owners they hold are consistent.
THEOREM Invariance == Spec => []IInv
<1>1. Init => IInv
  BY InitIInv
<1>2. IInv /\ [Next]_vars => IInv'
  BY StepIInv
<1>3. QED
  BY <1>1, <1>2, PTL DEF Spec

\* The variables keep their types; a unit's versions are numbered 1..HEAD.
THEOREM TypeCorrect == Spec => []TypeOK
<1>1. IInv => TypeOK
  BY DEF IInv
<1>2. QED
  BY <1>1, Invariance, PTL

\* For any number of concurrent pushes, forced or not, and deletes: a version
\* that was not forced replaced the version its client had seen.
THEOREM LostUpdateFree == Spec => []NoLostUpdate
<1>1. IInv => NoLostUpdate
  BY DEF IInv
<1>2. QED
  BY <1>1, Invariance, PTL

\* No stored manifest, current or old, names a blob that is not stored.
THEOREM ManifestsAlwaysStored == Spec => []ManifestsStored
<1>1. IInv => ManifestsStored
  BY DEF IInv
<1>2. QED
  BY <1>1, Invariance, PTL

\* The steps that change the tables of units and limits.
LEMMA StoreSteps ==
    ASSUME [Next]_vars
    PROVE  \/ UNCHANGED <<head, owner, users, versions, maxSkills>>
           \/ \E r \in Requests : Commit(r) \/ Delete(r)
           \/ SetLimit
           \/ RemoveUser
<1>1. ASSUME NEW r \in Requests, Put(r), ~Commit(r)
      PROVE  UNCHANGED <<head, owner, users, versions, maxSkills>>
  BY <1>1 DEF Put, StartPut, Admit, CheckBlobs, Begin, Upsert, LockRow, Recheck,
              CheckLimit, storeVars
<1>2. ASSUME NEW r \in Requests, Del(r), ~Delete(r)
      PROVE  UNCHANGED <<head, owner, users, versions, maxSkills>>
  BY <1>2 DEF Del, StartDelete, Admit, BeginDelete, storeVars
<1>3. IndexBlob => UNCHANGED <<head, owner, users, versions, maxSkills>>
  BY DEF IndexBlob
<1>4. UNCHANGED vars => UNCHANGED <<head, owner, users, versions, maxSkills>>
  BY DEF vars
<1>5. ASSUME NEW r \in Requests, Abort(r)
      PROVE  UNCHANGED <<head, owner, users, versions, maxSkills>>
  BY <1>5 DEF Abort, storeVars
<1>6. QED
  BY <1>1, <1>2, <1>3, <1>4, <1>5 DEF Next

\* A delete that finds the unit removes its row and history; otherwise
\* nothing of the store changes.
LEMMA DeleteEffect ==
    ASSUME IInv, NEW r \in Requests, Delete(r)
    PROVE  \/ UNCHANGED <<head, owner, users, versions, maxSkills>>
           \/ /\ req[r].unit \in Units /\ head[req[r].unit] > 0
              /\ head' = [head EXCEPT ![req[r].unit] = 0]
              /\ owner' = [owner EXCEPT ![req[r].unit] = NoUser]
              /\ versions' = [versions EXCEPT ![req[r].unit] = <<>>]
              /\ UNCHANGED <<users, maxSkills>>
  BY DEF Delete, storeVars, IInv, TypeOK, Answered, Request

\* The room a create found under the org lock is still there at its commit.
THEOREM SkillLimitSafe == Spec => SkillLimitHeld
<1> DEFINE Created == \E u \in Units : head[u] = 0 /\ head'[u] > 0
           Within == \/ maxSkills' = NoLimit
                     \/ Cardinality({u \in Units : head'[u] > 0}) <= maxSkills'
<1>1. ASSUME IInv, [Next]_vars, Created PROVE Within
  <2>1. PICK u \in Units : head[u] = 0 /\ head'[u] > 0
    BY <1>1
  <2>2. PICK r \in Requests : Commit(r)
    <3>1. UNCHANGED <<head, owner, users, versions, maxSkills>> \/ SetLimit \/ RemoveUser => head' = head
      BY DEF SetLimit, RemoveUser
    <3>2. ASSUME NEW r \in Requests, Delete(r) PROVE head'[u] \in {head[u], 0}
      BY <1>1, <2>1, <3>2, DeleteEffect DEF IInv, TypeOK
    <3>3. QED
      BY <1>1, <2>1, <3>1, <3>2, StoreSteps
  <2>3. /\ head' = [head EXCEPT ![req[r].unit] = head[req[r].unit] + 1]
        /\ req[r].unit \in Units /\ UNCHANGED maxSkills
    BY <1>1, <2>1, <2>2, CommitEffect DEF storeVars
  <2>4. req[r].unit = u
    BY <1>1, <2>1, <2>3 DEF IInv, TypeOK
  <2>5. pc[r] = "limited"
    BY <1>1, <2>1, <2>2, <2>4 DEF Commit, IInv, RowsFresh, ChecksHold, Locked
  <2>6. HasRoom
    BY <1>1, <2>5 DEF IInv, ChecksHold
  <2>7. {v \in Units : head'[v] > 0} = LiveUnits \cup {u}
    BY <1>1, <2>1, <2>3, <2>4 DEF LiveUnits, IInv, TypeOK
  <2>8. IsFiniteSet(LiveUnits) /\ Cardinality(LiveUnits) \in Nat
    BY ScopeAssumption, FS_Subset, FS_CardinalityType DEF LiveUnits
  <2>9. Cardinality(LiveUnits \cup {u}) = Cardinality(LiveUnits) + 1
    <3>1. u \notin LiveUnits
      BY <2>1 DEF LiveUnits
    <3>2. QED
      BY <2>8, <3>1, FS_AddElement
  <2>10. maxSkills \in Nat \cup {NoLimit}
    BY <1>1, LimitAssumption DEF IInv, TypeOK
  <2>11. QED
    BY <2>3, <2>6, <2>7, <2>8, <2>9, <2>10 DEF HasRoom
<1>2. IInv /\ [Next]_vars => [Created => Within]_vars
  BY <1>1
<1>3. QED
  BY <1>2, Invariance, PTL DEF Spec, SkillLimitHeld

\* Nobody takes over a unit that has an owner, however writes interleave.
THEOREM OwnerSafe == Spec => OwnerKept
<1> DEFINE Kept == \A u \in Units :
                      owner[u] # NoUser =>
                        owner'[u] = owner[u] \/ head'[u] = 0 \/ owner[u] \notin users'
<1>1. ASSUME IInv, [Next]_vars PROVE Kept
  <2>1. CASE \E r \in Requests : Commit(r)
    <3>1. PICK r \in Requests : Commit(r)
      BY <2>1
    <3>2. CASE UNCHANGED storeVars
      BY <3>2 DEF storeVars
    <3>3. CASE ~UNCHANGED storeVars
      <4>1. owner' = [owner EXCEPT ![req[r].unit] = Claimed(r)] /\ req[r].unit \in Units
        BY <1>1, <3>1, <3>3, CommitEffect
      <4>2. head[req[r].unit] = 0 => owner[req[r].unit] = NoUser
        BY <1>1, <4>1 DEF IInv, OwnersLive
      <4>3. head[req[r].unit] > 0 => row[r].owner = owner[req[r].unit]
        BY <1>1, <3>1 DEF IInv, RowsFresh, Commit, Locked
      <4>4. head[req[r].unit] \in Nat
        BY <1>1, <4>1 DEF IInv, TypeOK
      <4>5. QED
        BY <1>1, <4>1, <4>2, <4>3, <4>4 DEF IInv, TypeOK, Claimed
    <3>4. QED
      BY <3>2, <3>3
  <2>2. CASE ~\E r \in Requests : Commit(r)
    BY <1>1, <2>2, StoreSteps, DeleteEffect DEF IInv, TypeOK, SetLimit, RemoveUser
  <2>3. QED
    BY <2>1, <2>2
<1>2. IInv /\ [Next]_vars => [Kept]_vars
  BY <1>1
<1>3. QED
  BY <1>2, Invariance, PTL DEF Spec, OwnerKept

\* The store implements the abstract specification of its interface: each
\* transaction of putBundle is one atomic Create or Extend, each delete one
\* atomic Remove, and every other step is invisible.
THEOREM Refinement == Spec => AbsSpec
<1>1. Init => Abs!AInit
  <2> SUFFICES ASSUME Init PROVE Abs!AInit
    OBVIOUS
  <2>1. IInv
    BY InitIInv
  <2>2. \A u \in Units : Len(versions[u]) \in {0, 1} /\ versions[u] \in Seq(Version)
    <3>1. \A u \in Units : head[u] \in {0, 1}
      BY DEF Init
    <3>2. QED
      BY <2>1, <3>1 DEF IInv, TypeOK
  <2>3. \A u \in Units : versions[u] \in {<<>>} \cup {<<m>> : m \in Version}
    <3> SUFFICES ASSUME NEW u \in Units
                 PROVE  versions[u] \in {<<>>} \cup {<<m>> : m \in Version}
      OBVIOUS
    <3>1. CASE Len(versions[u]) = 0
      BY <2>2, <3>1, EmptySeq
    <3>2. CASE Len(versions[u]) = 1
      <4>1. versions[u][1] \in Version
        BY <2>2, <3>2
      <4>2. <<versions[u][1]>> \in Seq(Version) /\ Len(<<versions[u][1]>>) = 1
        BY <4>1
      <4>3. versions[u] = <<versions[u][1]>>
        BY <2>2, <3>2, <4>1, <4>2, SeqEqual
      <4>4. QED
        BY <4>1, <4>3
    <3>3. QED
      BY <2>2, <3>1, <3>2
  <2>4. QED
    BY <2>1, <2>3 DEF Abs!AInit, IInv, TypeOK
<1>2. ASSUME IInv, [Next]_vars PROVE [Abs!ANext]_(Abs!avars)
  <2>1. \A u \in Units : versions[u] = <<>> <=> head[u] = 0
    BY <1>1, <1>2, EmptySeq DEF IInv, TypeOK
  <2>2. ASSUME NEW r \in Requests, Commit(r), ~UNCHANGED storeVars PROVE Abs!ANext
    <3> DEFINE u == req[r].unit
               m == NewVersion(r)
    <3>1. /\ u \in Units /\ m \in Version
          /\ versions' = [versions EXCEPT ![u] = Append(versions[u], m)]
          /\ m.forced \/ m.parent = head[u]
          /\ UNCHANGED maxSkills
      BY <1>2, <2>2, CommitEffect
    <3>2. Len(versions[u]) = head[u] /\ head[u] \in Nat
      BY <1>2, <3>1 DEF IInv, TypeOK
    <3>3. CASE head[u] > 0
      <4>1. versions[u] # <<>> /\ (m.forced \/ m.parent = Len(versions[u]))
        BY <2>1, <3>1, <3>2, <3>3
      <4> HIDE DEF m
      <4>2. \E v \in Version :
               /\ v.forced \/ v.parent = Len(versions[u])
               /\ versions' = [versions EXCEPT ![u] = Append(versions[u], v)]
        BY <3>1, <4>1
      <4>3. Abs!Extend(u)
        BY <3>1, <4>1, <4>2 DEF Abs!Extend
      <4>4. QED
        BY <3>1, <4>3 DEF Abs!ANext
    <3>4. CASE head[u] = 0
      <4>1. HasRoom
        BY <1>2, <2>2, <3>4 DEF IInv, RowsFresh, ChecksHold, Commit, Locked
      <4>2. Abs!Live = LiveUnits
        BY <1>2, <2>1 DEF Abs!Live, LiveUnits, IInv, TypeOK
      <4>3. Abs!HasRoom
        BY <4>1, <4>2 DEF HasRoom, Abs!HasRoom, Cardinality, Abs!Cardinality, IsFiniteSet, Abs!IsFiniteSet
      <4>4. versions[u] = <<>>
        BY <2>1, <3>1, <3>4
      <4>5. Append(versions[u], m) = <<m>>
        BY <3>1, <4>4
      <4>6. Abs!Create(u)
        <5> HIDE DEF m, u
        <5> QED BY <3>1, <3>4, <4>3, <4>4, <4>5 DEF Abs!Create
      <4>7. QED
        BY <3>1, <4>6 DEF Abs!ANext
    <3>5. QED
      BY <3>2, <3>3, <3>4
  <2>3. ASSUME NEW r \in Requests, Delete(r) PROVE [Abs!ANext]_(Abs!avars)
    BY <1>2, <2>1, <2>3, DeleteEffect DEF Abs!ANext, Abs!Remove, Abs!avars
  <2>4. SetLimit => Abs!ANext
    BY DEF SetLimit, Abs!ANext, Abs!SetLimit
  <2>5. RemoveUser \/ UNCHANGED storeVars => UNCHANGED (Abs!avars)
    BY DEF RemoveUser, Abs!avars, storeVars
  <2>6. QED
    BY <1>2, <2>2, <2>3, <2>4, <2>5, StoreSteps DEF Abs!avars
<1>3. QED
  BY <1>1, <1>2, Invariance, PTL DEF Spec, AbsSpec, Abs!ASpec

-----------------------------------------------------------------------------
(* The two together.                                                       *)

\* The index BundleStore reads is the one BlobStore writes: its rows, and
\* putBlob's last statement is the step IndexBlob stands for.
SharedIndex == index = Indexed

\* The object a digest names is in the object store, whole and unaltered.
Downloadable(sha) == sha \in Files /\ objects[sha] = sha

\* Whatever any version of any unit lists can be downloaded: pushes check the
\* index without a lock, before and in the transaction of putBundle, while
\* uploads fail, are cut off, crash, and overwrite each other's objects.
VersionsDownloadable ==
    \A u \in Units : \A n \in 1..head[u] : \A sha \in versions[u][n].files : Downloadable(sha)

\* The indexed digests are backed by their objects.
LEMMA IndexedDownloadable ==
    ManifestsStored /\ BlobIInv /\ SharedIndex => VersionsDownloadable
<1> SUFFICES ASSUME ManifestsStored, BlobIInv, SharedIndex,
                    NEW u \in Units, NEW n \in 1..head[u], NEW sha \in versions[u][n].files
             PROVE  Downloadable(sha)
  BY DEF VersionsDownloadable
<1>1. sha \in Indexed
  BY DEF ManifestsStored, SharedIndex
<1> QED
  BY <1>1 DEF Indexed, BlobIInv, IndexSound, Downloadable

\* The stores of one org, as putBundle and putBlob share it, keep every version
\* whole.
THEOREM EveryVersionDownloadable ==
    Spec /\ BlobSpec /\ []SharedIndex => []VersionsDownloadable
<1>1. ManifestsStored /\ BlobIInv /\ SharedIndex => VersionsDownloadable
  BY IndexedDownloadable
<1> QED
  BY <1>1, ManifestsAlwaysStored, BlobInvariance, PTL
=============================================================================
