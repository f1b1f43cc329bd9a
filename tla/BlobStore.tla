----------------------------- MODULE BlobStore -----------------------------
(***************************************************************************)
(* The content-addressed files of one org: PUT /v1/blobs/{sha}             *)
(* (src/apps/server/src/routes/blobs.ts), Store.putBlob (storage/store.ts) *)
(* and the staged write to the object store (storage/blobs.ts).            *)
(*                                                                         *)
(* A file is identified with its digest (SHA-256 does not collide here).   *)
(* A member of Uploads is a slot that serves one request after another;    *)
(* every database statement and object-store call is a step.  The server   *)
(* is one process: a crash ends all uploads, and what was written stays.   *)
(***************************************************************************)
EXTENDS Integers, FiniteSets

CONSTANTS
    Files,          \* file contents, named by their digests
    SizeOf,         \* the length of each
    MaxBlob,        \* limits.maxBlobBytes
    StorageLimits,  \* values orgs.max_storage_bytes takes
    Unlimited,      \* null in that column: unlimited
    Uploads,        \* requests the server handles at a time
    Nothing         \* no object, no row, no request

ASSUME SizeAssumption == SizeOf \in [Files -> Nat] /\ MaxBlob \in Nat

ASSUME FiniteAssumption == IsFiniteSet(Files) /\ IsFiniteSet(Uploads) /\ Uploads # {}

ASSUME StorageAssumption ==
    StorageLimits \subseteq Nat \cup {Unlimited} /\ Unlimited \notin Nat

ASSUME NothingAssumption == Nothing \notin Files /\ Nothing \notin Nat

VARIABLES
    objects,        \* the object at each file's key in the org's prefix
    rows,           \* the rows of blobs: digest -> size
    limit,          \* orgs.max_storage_bytes
    staged,         \* the temporary object of each upload
    seenLimit,      \* the limit an upload read
    at,             \* where each upload is
    put             \* what it asks for

uploadVars == <<staged, seenLimit, at, put>>
blobVars == <<objects, rows, limit, uploadVars>>

\* The digest in the path, the body, and its Content-Length.
PutRequest == [sha : Files, body : Files, size : {SizeOf[f] : f \in Files}]

InFlight == {"asked", "absent", "limited", "staging", "staged", "verified", "promoted"}
UploadAnswered == {"stored", "refused"}
UploadPoint == InFlight \cup UploadAnswered \cup {"new", "lost"}

Indexed == {f \in Files : rows[f] # Nothing}

\* The bytes of all members of S, when each has so many, and how many they are.
Bytes(S, size) == UNION {{x} \X (1..size[x]) : x \in S}
Total(S, size) == Cardinality(Bytes(S, size))

\* storageBytes: the bytes of the rows, which is what the limit is about.
Usage == Total(Indexed, rows)

GoOn(u, where) == at' = [at EXCEPT ![u] = where]

\* discard ignores a failure to delete the temporary object.  Its key is
\* random and no other upload reads it, so what is left there is not a state.
Discard(u) == staged' = [staged EXCEPT ![u] = Nothing]

Refuse(u) ==
    /\ GoOn(u, "refused")
    /\ put' = [put EXCEPT ![u] = Nothing]
    /\ seenLimit' = [seenLimit EXCEPT ![u] = Unlimited]
    /\ Discard(u)
    /\ UNCHANGED <<objects, rows, limit>>

-----------------------------------------------------------------------------

BlobInit ==
    /\ objects = [f \in Files |-> Nothing]
    /\ rows = [f \in Files |-> Nothing]
    /\ limit \in StorageLimits
    /\ staged = [u \in Uploads |-> Nothing]
    /\ seenLimit = [u \in Uploads |-> Unlimited]
    /\ at = [u \in Uploads |-> "new"]
    /\ put = [u \in Uploads |-> Nothing]

\* A Content-Length over the limit is a 413.
Start(u) ==
    /\ at[u] \notin InFlight
    /\ \E q \in PutRequest :
          IF q.size > MaxBlob
            THEN Refuse(u)
            ELSE /\ put' = [put EXCEPT ![u] = q]
                 /\ GoOn(u, "asked")
                 /\ staged' = [staged EXCEPT ![u] = Nothing]
                 /\ seenLimit' = [seenLimit EXCEPT ![u] = Unlimited]
                 /\ UNCHANGED <<objects, rows, limit>>

PresentAsObject(u) == objects[put[u].sha] # Nothing

\* hasBlobs finds the digest.
Present(u) == rows[put[u].sha] # Nothing

\* hasBlobs: a digest that is stored is not stored again.
CheckIndex(u) ==
    /\ at[u] = "asked"
    /\ GoOn(u, IF Present(u) THEN "stored" ELSE "absent")
    /\ UNCHANGED <<objects, rows, limit, staged, seenLimit, put>>

\* orgLimits, without a lock.
ReadLimit(u) ==
    /\ at[u] = "absent"
    /\ seenLimit' = [seenLimit EXCEPT ![u] = limit]
    /\ GoOn(u, IF limit = Unlimited THEN "staging" ELSE "limited")
    /\ UNCHANGED <<objects, rows, limit, staged, put>>

NoRoomIfFull(u) == Usage > seenLimit[u]

NoRoom(u) == Usage + put[u].size > seenLimit[u]

\* storageBytes: a file there is no room for is a 402.
ReadUsage(u) ==
    /\ at[u] = "limited"
    /\ IF NoRoom(u)
         THEN Refuse(u)
         ELSE /\ GoOn(u, "staging")
              /\ UNCHANGED <<objects, rows, limit, staged, seenLimit, put>>

\* stage: the body goes to a temporary key while it is hashed; a body that is
\* cut off is discarded.
Stage(u) ==
    /\ at[u] = "staging"
    /\ \/ /\ staged' = [staged EXCEPT ![u] = put[u].body]
          /\ GoOn(u, "staged")
          /\ UNCHANGED <<objects, rows, limit, seenLimit, put>>
       \/ Refuse(u)

MatchesSize(u) == SizeOf[staged[u]] = put[u].size

\* The size and the digest are what the request said.
Matches(u) == SizeOf[staged[u]] = put[u].size /\ staged[u] = put[u].sha

\* putVerified: anything else is a 400.
Verify(u) ==
    /\ at[u] = "staged"
    /\ IF Matches(u)
         THEN /\ GoOn(u, "verified")
              /\ UNCHANGED <<objects, rows, limit, staged, seenLimit, put>>
         ELSE Refuse(u)

\* promote: the object store copies the temporary object to its key, all of
\* it or nothing, and the temporary object is discarded either way.
Promote(u) ==
    /\ at[u] = "verified"
    /\ \/ /\ objects' = [objects EXCEPT ![put[u].sha] = staged[u]]
          /\ GoOn(u, "promoted")
          /\ Discard(u)
          /\ UNCHANGED <<rows, limit, seenLimit, put>>
       \/ Refuse(u)

\* INSERT ... ON CONFLICT DO NOTHING; when it fails the object has no row.
Index(u) ==
    /\ at[u] = "promoted"
    /\ \/ /\ rows' = [rows EXCEPT ![put[u].sha] = IF @ = Nothing THEN put[u].size ELSE @]
          /\ GoOn(u, "stored")
          /\ seenLimit' = [seenLimit EXCEPT ![u] = Unlimited]
          /\ UNCHANGED <<objects, limit, staged, put>>
       \/ Refuse(u)

Crash ==
    /\ \E u \in Uploads : at[u] \in InFlight
    /\ at' = [u \in Uploads |-> IF at[u] \in InFlight THEN "lost" ELSE at[u]]
    /\ put' = [u \in Uploads |-> IF at[u] \in InFlight THEN Nothing ELSE put[u]]
    /\ staged' = [u \in Uploads |-> Nothing]
    /\ seenLimit' = [u \in Uploads |-> Unlimited]
    /\ UNCHANGED <<objects, rows, limit>>

SetStorageLimit ==
    /\ limit' \in StorageLimits
    /\ UNCHANGED <<objects, rows, uploadVars>>

PutBlob(u) ==
    \/ CheckIndex(u) \/ ReadLimit(u) \/ ReadUsage(u) \/ Stage(u) \/ Verify(u)
    \/ Promote(u) \/ Index(u)

BlobNext ==
    \/ \E u \in Uploads : Start(u) \/ PutBlob(u)
    \/ Crash
    \/ SetStorageLimit

BlobSpec == BlobInit /\ [][BlobNext]_blobVars

-----------------------------------------------------------------------------
(* Properties.                                                             *)

\* Types of the variables.
BlobTypeOK ==
    /\ objects \in [Files -> Files \cup {Nothing}]
    /\ rows \in [Files -> Nat \cup {Nothing}]
    /\ limit \in StorageLimits
    /\ staged \in [Uploads -> Files \cup {Nothing}]
    /\ seenLimit \in [Uploads -> Nat \cup {Unlimited}]
    /\ at \in [Uploads -> UploadPoint]
    /\ put \in [Uploads -> PutRequest \cup {Nothing}]

\* A row is a promise to every reader and every manifest: the object it names
\* is in the store, whole and unaltered, and has the size the row says, through
\* crashes, failed copies and wrong bodies.
IndexSound ==
    \A f \in Files : rows[f] # Nothing => objects[f] = f /\ rows[f] = SizeOf[f]

\* A client that was told its file is stored finds it stored, also when it
\* was another request that stored it, or that overwrote its object.
AckedStored == \A u \in Uploads : at[u] = "stored" => rows[put[u].sha] # Nothing

\* No key ever holds another file's content, promoted by whichever upload.
ContentAddressed == \A f \in Files : objects[f] \in {f, Nothing}

\* What the steps of an upload have established by where it is.
UploadsSound ==
    \A u \in Uploads :
        /\ at[u] \in InFlight \cup {"stored"} => put[u] \in PutRequest
        /\ at[u] = "limited" => seenLimit[u] \in StorageLimits \ {Unlimited}
        /\ at[u] = "staged" => staged[u] \in Files
        /\ at[u] = "verified" => staged[u] = put[u].sha
        /\ at[u] \in {"verified", "promoted"} => put[u].size = SizeOf[put[u].sha]
        /\ at[u] = "promoted" => objects[put[u].sha] = put[u].sha

\* Nothing longer than MaxBlob is uploaded or stored.
SmallOnly ==
    /\ \A u \in Uploads : at[u] \in InFlight => put[u].size <= MaxBlob
    /\ \A f \in Indexed : rows[f] <= MaxBlob

\* Whatever crashes and failures led here, the index is backed by objects
\* that were verified, and each upload knows what it has verified.
BlobIInv ==
    /\ BlobTypeOK
    /\ UploadsSound
    /\ ContentAddressed
    /\ IndexSound
    /\ SmallOnly
    /\ AckedStored

\* The uploads that have passed the limit's check and will be indexed, unless
\* they fail or the file is indexed first.
Admitted == {u \in Uploads : at[u] \in {"staging", "staged", "verified", "promoted"}}

\* What the admitted uploads will add.
Announced == [u \in Admitted |-> put[u].size]

\* By how much the limit can be exceeded, while the org has one: one file for
\* every other upload that is handled at the time, however often slots are
\* reused and the limit is changed.
OvershootBounded ==
    Unlimited \notin StorageLimits =>
        \E most \in StorageLimits :
            Usage + Total(Admitted, Announced) <= most + (Cardinality(Uploads) - 1) * MaxBlob
=============================================================================
