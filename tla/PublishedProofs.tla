-------------------------- MODULE PublishedProofs --------------------------
(***************************************************************************)
(* Proofs about Published for every set of orgs, slugs, names, file lists  *)
(* and requests: refs keep resolving, and the tables implement the         *)
(* registry's promise.                                                     *)
(***************************************************************************)
EXTENDS Published, WellFoundedInduction, TLAPS

\* The newest of n versions that are not all hidden is one of them, and no
\* other that is not hidden is newer.
LEMMA NewestIsNewest ==
    ASSUME NEW n \in Nat, NEW H
    PROVE  /\ Newest(n, H) \in 0..n
           /\ (1..n) \ H = {} => Newest(n, H) = 0
           /\ (1..n) \ H # {} => /\ Newest(n, H) \in (1..n) \ H
                                 /\ \A w \in (1..n) \ H : w <= Newest(n, H)
<1> DEFINE S == (1..n) \ H
           T == {n - w : w \in S}
<1>1. CASE S = {}
  BY <1>1 DEF Newest
<1>2. CASE S # {}
  <2>1. T \subseteq Nat /\ T # {}
    BY <1>2
  <2>2. \E x \in T : \A y \in T : ~(<<y, x>> \in OpToRel(<, Nat))
    BY <2>1, WFMin, NatLessThanWellFounded
  <2>3. PICK x \in T : \A y \in T : ~(y < x)
    BY <2>1, <2>2 DEF OpToRel
  <2>4. PICK v \in S : x = n - v
    BY <2>3
  <2>5. ASSUME NEW w \in S PROVE w <= v
    <3>1. n - w \in T /\ ~(n - w < n - v)
      BY <2>3, <2>4
    <3>2. QED
      BY <2>4, <3>1
  <2>6. Newest(n, H) \in S /\ \A w \in S : w <= Newest(n, H)
    BY <1>2, <2>4, <2>5 DEF Newest
  <2>7. QED
    BY <1>2, <2>6
<1>3. QED
  BY <1>1, <1>2

\* A version that is not hidden, and newer than all others, is the newest.
LEMMA NewestIs ==
    ASSUME NEW n \in Nat, NEW H, NEW v \in (1..n) \ H, \A w \in (1..n) \ H : w <= v
    PROVE  Newest(n, H) = v
<1>1. Newest(n, H) \in (1..n) \ H /\ v <= Newest(n, H)
  BY NewestIsNewest
<1>2. QED
  BY <1>1

-----------------------------------------------------------------------------

\* What the invariant says of one request.
RequestOK(r) ==
    /\ pc[r] \in {"publish", "org", "skill", "fresh", "numbered"} => req[r] \in PublishRequest
    /\ pc[r] \in {"hiding", "hide", "marked", "recomputed"} => req[r] \in HideRequest
    /\ pc[r] \in {"moving", "slug", "unpublished", "free"} => req[r] \in SlugRequest
    /\ pc[r] \in {"org", "skill", "fresh", "numbered"} => slug[Org(r)] # DefaultSlug
    /\ pc[r] \in {"skill", "fresh", "numbered"} =>
          source[req[r].skill] \in {req[r].source, NoSource}
    /\ pc[r] \in {"fresh", "numbered"} => ~Duplicate(req[r].skill, req[r].files)
    /\ pc[r] = "numbered" => seen[r] = Len(files[req[r].skill])
    /\ pc[r] \in {"hide", "marked", "recomputed"} => source[req[r].skill] # NoSource
    /\ pc[r] \in {"marked", "recomputed"} => req[r].version \in DOMAIN files[req[r].skill]
    /\ pc[r] = "recomputed" => seen[r] = Latest(r)
    /\ pc[r] \in {"unpublished", "free"} => ~HasPublished(req[r].org)

\* What is said of all requests is said of each.
LEMMA RequestsOK == RequestsSound /\ ChecksHold <=> \A r \in Requests : RequestOK(r)
  BY DEF RequestsSound, ChecksHold, RequestOK

\* The part of the invariant that is about the tables alone.
TablesOK ==
    SlugsUnique /\ RowsSound /\ RefsKept /\ LatestNewest /\ NoDuplicates /\ DefaultUnpublished

\* A request that is the only one to hold the locks it holds.
LocksOwn(r) ==
    \A s \in Requests \ {r} :
        /\ pc[r] \in OrgLocked /\ pc[s] \in OrgLocked => Org(s) # Org(r)
        /\ pc[r] \in SkillLocked /\ pc[s] \in SkillLocked => req[s].skill # req[r].skill

\* The initial states satisfy the invariant.
LEMMA InitIInv == Init => IInv
<1> SUFFICES ASSUME Init PROVE IInv
  OBVIOUS
<1>1. TypeOK
  BY DEF Init, TypeOK, ControlPoint
<1>2. Len(<<>>) = 0 /\ DOMAIN <<>> = {} /\ (1..0) \ {} = {}
  OBVIOUS
<1>3. LatestNewest
  BY <1>2, NewestIsNewest DEF Init, LatestNewest
<1>4. RowsSound /\ NoDuplicates
  BY <1>2 DEF Init, RowsSound, NoDuplicates
<1>5. SlugsUnique /\ RefsKept
  BY DEF Init, SlugsUnique, RefsKept
<1>6. DefaultUnpublished
  BY DEF Init, DefaultUnpublished, HasPublished, Skills
<1>7. LocksExclusive /\ RequestsSound /\ ChecksHold
  BY DEF Init, LocksExclusive, RequestsSound, ChecksHold, OrgLocked, SkillLocked
<1>8. QED
  BY <1>1, <1>3, <1>4, <1>5, <1>6, <1>7 DEF IInv

\* A step of one request that leaves the tables as they are.
LEMMA LocalStep ==
    ASSUME IInv, NEW r \in Requests, UNCHANGED <<tables, promised>>,
           NEW where \in ControlPoint, pc' = [pc EXCEPT ![r] = where],
           NEW q \in Request \cup {NoRequest}, req' = [req EXCEPT ![r] = q],
           NEW n \in Nat, seen' = [seen EXCEPT ![r] = n],
           LocksOwn(r)', RequestOK(r)'
    PROVE  IInv'
<1>1. UNCHANGED <<slug, source, latest, off, files, hidden, promised>>
  BY DEF tables
<1>2. TypeOK'
  BY <1>1 DEF IInv, TypeOK
<1>3. TablesOK'
  BY <1>1 DEF IInv, TablesOK, SlugsUnique, RowsSound, RefsKept, LatestNewest, NoDuplicates,
              DefaultUnpublished, HasPublished
<1>4. ASSUME NEW s \in Requests \ {r}
      PROVE  /\ pc'[s] = pc[s] /\ req'[s] = req[s] /\ seen'[s] = seen[s]
             /\ Org(s)' = Org(s) /\ RequestOK(s)'
  <2>1. pc'[s] = pc[s] /\ req'[s] = req[s] /\ seen'[s] = seen[s]
    BY DEF IInv, TypeOK
  <2>2. Org(s)' = Org(s) /\ Latest(s)' = Latest(s)
    BY <1>1, <2>1 DEF Org, Latest, Marked
  <2>3. RequestOK(s)
    BY RequestsOK DEF IInv
  <2>4. QED
    BY <1>1, <2>1, <2>2, <2>3 DEF RequestOK, Duplicate, HasPublished
<1>5. LocksExclusive'
  BY <1>4 DEF LocksOwn, LocksExclusive, IInv
<1>6. RequestsSound' /\ ChecksHold'
  BY <1>4, RequestsOK DEF RequestsSound, ChecksHold, RequestOK
<1>7. QED
  BY <1>2, <1>3, <1>5, <1>6 DEF IInv, TablesOK

\* A request that goes on to another point without taking a lock.
LEMMA GotoStep ==
    ASSUME IInv, NEW r \in Requests, UNCHANGED <<tables, req, seen, promised>>,
           NEW where \in ControlPoint, Goto(r, where),
           where \in OrgLocked => pc[r] \in OrgLocked,
           where \in SkillLocked => pc[r] \in SkillLocked,
           RequestOK(r)'
    PROVE  IInv'
<1>1. /\ pc' = [pc EXCEPT ![r] = where] /\ req' = [req EXCEPT ![r] = req[r]]
      /\ seen' = [seen EXCEPT ![r] = seen[r]]
  BY DEF Goto, IInv, TypeOK
<1>2. req[r] \in Request \cup {NoRequest} /\ seen[r] \in Nat
  BY DEF IInv, TypeOK
<1>3. LocksOwn(r)'
  <2>1. \A s \in Requests : Org(s)' = Org(s) /\ (s # r => pc'[s] = pc[s])
    BY DEF Goto, Org, IInv, TypeOK
  <2>2. pc'[r] = where
    BY DEF Goto, IInv, TypeOK
  <2>3. QED
    BY <2>1, <2>2 DEF LocksOwn, LocksExclusive, IInv
<1>4. QED
  BY <1>1, <1>2, <1>3, LocalStep

\* An answered request holds nothing.
LEMMA AnsweredOK ==
    ASSUME IInv, NEW r \in Requests, NEW how \in Answered, Answer(r, how)
    PROVE  /\ pc'[r] = how /\ how \in ControlPoint /\ how \notin OrgLocked \cup SkillLocked
           /\ RequestOK(r)' /\ LocksOwn(r)'
<1>1. pc'[r] = how
  BY DEF Answer, Goto, IInv, TypeOK
<1>2. how \in ControlPoint /\ how \notin OrgLocked \cup SkillLocked
  BY DEF Answered, ControlPoint, OrgLocked, SkillLocked
<1>3. RequestOK(r)'
  BY <1>1 DEF RequestOK, Answered
<1>4. LocksOwn(r)'
  BY <1>1, <1>2 DEF LocksOwn
<1>5. QED
  BY <1>1, <1>2, <1>3, <1>4

\* An answer that changes no table.
LEMMA AnswerStep ==
    ASSUME IInv, NEW r \in Requests, NEW how \in Answered, Answer(r, how),
           UNCHANGED <<tables, promised>>
    PROVE  IInv'
<1>1. /\ pc' = [pc EXCEPT ![r] = how] /\ req' = [req EXCEPT ![r] = NoRequest]
      /\ seen' = [seen EXCEPT ![r] = 0]
  BY DEF Answer, Goto
<1>2. QED
  BY <1>1, AnsweredOK, LocalStep

\* A refusal, or a rollback, keeps the invariant.
LEMMA RefuseStep ==
    ASSUME IInv, NEW r \in Requests, Refuse(r)
    PROVE  IInv'
  BY AnswerStep DEF Refuse, Answered

\* A request that is sent.
LEMMA StartStep ==
    ASSUME IInv, NEW r \in Requests, StartPublish(r) \/ StartHide(r) \/ StartSlug(r)
    PROVE  IInv'
<1>1. PICK q \in Request, where \in {"publish", "hiding", "moving"} :
         /\ Start(r, q, where)
         /\ where = "publish" => q \in PublishRequest
         /\ where = "hiding" => q \in HideRequest
         /\ where = "moving" => q \in SlugRequest
  <2>1. CASE StartPublish(r)
    BY <2>1 DEF StartPublish, Request
  <2>2. CASE StartHide(r)
    <3>1. PICK k \in Skills, v \in 0..Cardinality(Files), b \in BOOLEAN :
             Start(r, [op |-> "hide", skill |-> k, version |-> v, hide |-> b], "hiding")
      BY <2>2 DEF StartHide
    <3>2. v \in Nat
      OBVIOUS
    <3>3. [op |-> "hide", skill |-> k, version |-> v, hide |-> b] \in HideRequest
      BY <3>2 DEF HideRequest
    <3>4. QED
      BY <3>1, <3>3 DEF Request
  <2>3. CASE StartSlug(r)
    BY <2>3 DEF StartSlug, Request
  <2>4. QED
    BY <2>1, <2>2, <2>3
<1>2. /\ pc' = [pc EXCEPT ![r] = where] /\ req' = [req EXCEPT ![r] = q]
      /\ seen' = [seen EXCEPT ![r] = seen[r]] /\ UNCHANGED <<tables, promised>>
  BY <1>1 DEF Start, Goto, IInv, TypeOK
<1>3. pc'[r] = where /\ req'[r] = q /\ seen[r] \in Nat
  BY <1>2 DEF IInv, TypeOK
<1>4. where \in ControlPoint /\ where \notin OrgLocked \cup SkillLocked
  BY DEF ControlPoint, OrgLocked, SkillLocked
<1>5. RequestOK(r)'
  BY <1>1, <1>3 DEF RequestOK
<1>6. LocksOwn(r)'
  BY <1>3, <1>4 DEF LocksOwn
<1>7. QED
  BY <1>2, <1>3, <1>4, <1>5, <1>6, LocalStep

-----------------------------------------------------------------------------
(* publish, until it commits.                                              *)

\* Locking the org's row keeps the invariant.
LEMMA LockOrgStep ==
    ASSUME IInv, NEW r \in Requests, LockOrg(r)
    PROVE  IInv'
<1>1. CASE slug[Org(r)] = DefaultSlug
  BY <1>1, RefuseStep DEF LockOrg
<1>2. CASE slug[Org(r)] # DefaultSlug
  <2>1. /\ pc[r] = "publish" /\ OrgFree(Org(r)) /\ Goto(r, "org")
        /\ UNCHANGED <<tables, req, seen, promised>>
    BY <1>2 DEF LockOrg
  <2>2. /\ pc' = [pc EXCEPT ![r] = "org"] /\ req' = [req EXCEPT ![r] = req[r]]
        /\ seen' = [seen EXCEPT ![r] = seen[r]] /\ pc'[r] = "org"
        /\ \A s \in Requests : s # r => pc'[s] = pc[s]
    BY <2>1 DEF Goto, IInv, TypeOK
  <2>3. \A s \in Requests : Org(s)' = Org(s)
    BY <2>1 DEF Org
  <2>4. LocksOwn(r)'
    BY <2>1, <2>2, <2>3 DEF LocksOwn, OrgFree, SkillLocked
  <2>5. req[r] \in PublishRequest /\ slug' = slug
    BY <2>1 DEF IInv, RequestsSound, tables
  <2>6. RequestOK(r)'
    BY <1>2, <2>1, <2>2, <2>3, <2>5 DEF RequestOK
  <2>7. "org" \in ControlPoint /\ req[r] \in Request /\ seen[r] \in Nat
    BY <2>5 DEF ControlPoint, OrgLocked, Request, IInv, TypeOK
  <2>8. QED
    BY <2>1, <2>2, <2>4, <2>6, <2>7, LocalStep
<1>3. QED
  BY <1>1, <1>2

\* Locking or inserting the skill's row keeps the invariant.
LEMMA LockSkillStep ==
    ASSUME IInv, NEW r \in Requests, LockSkill(r)
    PROVE  IInv'
<1> DEFINE k == req[r].skill
           ok == source[k] = req[r].source \/ (source[k] = NoSource /\ req[r].licensed)
<1>1. CASE ~ok
  BY <1>1, RefuseStep DEF LockSkill
<1>2. CASE ok
  <2>1. /\ pc[r] = "org" /\ SkillFree(k) /\ Goto(r, "skill")
        /\ UNCHANGED <<tables, req, seen, promised>>
    BY <1>2 DEF LockSkill
  <2>2. /\ pc' = [pc EXCEPT ![r] = "skill"] /\ req' = [req EXCEPT ![r] = req[r]]
        /\ seen' = [seen EXCEPT ![r] = seen[r]] /\ pc'[r] = "skill"
        /\ \A s \in Requests : s # r => pc'[s] = pc[s]
    BY <2>1 DEF Goto, IInv, TypeOK
  <2>3. \A s \in Requests : Org(s)' = Org(s)
    BY <2>1 DEF Org
  <2>4. LocksOwn(r)'
    BY <2>1, <2>2, <2>3 DEF LocksOwn, SkillFree, LocksExclusive, IInv, OrgLocked
  <2>5. req[r] \in PublishRequest /\ slug' = slug /\ source' = source /\ slug[Org(r)] # DefaultSlug
    BY <2>1 DEF IInv, RequestsSound, ChecksHold, tables
  <2>6. RequestOK(r)'
    BY <1>2, <2>1, <2>2, <2>3, <2>5 DEF RequestOK
  <2>7. "skill" \in ControlPoint /\ req[r] \in Request /\ seen[r] \in Nat
    BY <2>5 DEF ControlPoint, OrgLocked, Request, IInv, TypeOK
  <2>8. QED
    BY <2>1, <2>2, <2>4, <2>6, <2>7, LocalStep
<1>3. QED
  BY <1>1, <1>2

\* Comparing the files with every version keeps the invariant.
LEMMA CheckDuplicateStep ==
    ASSUME IInv, NEW r \in Requests, CheckDuplicate(r)
    PROVE  IInv'
<1>1. CASE Duplicate(req[r].skill, req[r].files)
  BY <1>1, RefuseStep DEF CheckDuplicate
<1>2. CASE ~Duplicate(req[r].skill, req[r].files)
  <2>1. /\ pc[r] = "skill" /\ Goto(r, "fresh") /\ UNCHANGED <<tables, req, seen, promised>>
    BY <1>2 DEF CheckDuplicate
  <2>2. pc'[r] = "fresh" /\ UNCHANGED <<slug, source, files>> /\ Org(r)' = Org(r)
    BY <2>1 DEF Goto, IInv, TypeOK, tables, Org
  <2>3. RequestOK(r)
    BY RequestsOK DEF IInv
  <2>4. RequestOK(r)'
    BY <1>2, <2>1, <2>2, <2>3 DEF RequestOK, Duplicate
  <2>5. QED
    BY <2>1, <2>4, GotoStep DEF ControlPoint, OrgLocked, SkillLocked
<1>3. QED
  BY <1>1, <1>2

\* Reading the last version's number keeps the invariant.
LEMMA ReadLastStep ==
    ASSUME IInv, NEW r \in Requests, ReadLast(r)
    PROVE  IInv'
<1> DEFINE n == Len(files[req[r].skill])
<1>1. /\ pc[r] = "fresh" /\ seen' = [seen EXCEPT ![r] = n]
      /\ pc' = [pc EXCEPT ![r] = "numbered"] /\ UNCHANGED <<tables, req, promised>>
  BY DEF ReadLast, Goto
<1>2. /\ pc'[r] = "numbered" /\ seen'[r] = n /\ req' = [req EXCEPT ![r] = req[r]]
      /\ UNCHANGED <<slug, source, files>>
      /\ \A s \in Requests : Org(s)' = Org(s) /\ (s # r => pc'[s] = pc[s])
  BY <1>1 DEF IInv, TypeOK, tables, Org
<1>3. RequestOK(r)
  BY RequestsOK DEF IInv
<1>4. req[r] \in PublishRequest
  BY <1>1, <1>3 DEF RequestOK
<1>5. n \in Nat /\ req[r] \in Request
  BY <1>4 DEF PublishRequest, Request, IInv, TypeOK
<1>6. RequestOK(r)'
  BY <1>1, <1>2, <1>3 DEF RequestOK, Duplicate
<1>7. LocksOwn(r)'
  BY <1>1, <1>2 DEF LocksOwn, LocksExclusive, IInv, OrgLocked, SkillLocked
<1>8. "numbered" \in ControlPoint
  BY DEF ControlPoint, OrgLocked
<1>9. QED
  BY <1>1, <1>2, <1>5, <1>6, <1>7, <1>8, LocalStep

-----------------------------------------------------------------------------
(* unpublish and restore, until they commit.                               *)

\* Locking the skill's row to unpublish or restore keeps the invariant.
LEMMA LockHideStep ==
    ASSUME IInv, NEW r \in Requests, LockHide(r)
    PROVE  IInv'
<1> DEFINE k == req[r].skill
<1>1. CASE source[k] = NoSource
  BY <1>1, RefuseStep DEF LockHide
<1>2. CASE source[k] # NoSource
  <2>1. /\ pc[r] = "hiding" /\ SkillFree(k) /\ Goto(r, "hide")
        /\ UNCHANGED <<tables, req, seen, promised>>
    BY <1>2 DEF LockHide
  <2>2. /\ pc' = [pc EXCEPT ![r] = "hide"] /\ req' = [req EXCEPT ![r] = req[r]]
        /\ seen' = [seen EXCEPT ![r] = seen[r]] /\ pc'[r] = "hide"
        /\ \A s \in Requests : s # r => pc'[s] = pc[s]
    BY <2>1 DEF Goto, IInv, TypeOK
  <2>3. LocksOwn(r)'
    BY <2>1, <2>2 DEF LocksOwn, SkillFree, OrgLocked
  <2>4. req[r] \in HideRequest /\ source' = source
    BY <2>1 DEF IInv, RequestsSound, tables
  <2>5. RequestOK(r)'
    BY <1>2, <2>1, <2>2, <2>4 DEF RequestOK
  <2>6. "hide" \in ControlPoint /\ req[r] \in Request /\ seen[r] \in Nat
    BY <2>4 DEF ControlPoint, SkillLocked, Request, IInv, TypeOK
  <2>7. QED
    BY <2>1, <2>2, <2>3, <2>5, <2>6, LocalStep
<1>3. QED
  BY <1>1, <1>2

\* Updating the version's row keeps the invariant.
LEMMA MarkVersionStep ==
    ASSUME IInv, NEW r \in Requests, MarkVersion(r)
    PROVE  IInv'
<1>1. CASE req[r].version \notin DOMAIN files[req[r].skill]
  BY <1>1, RefuseStep DEF MarkVersion
<1>2. CASE req[r].version \in DOMAIN files[req[r].skill]
  <2>1. /\ pc[r] = "hide" /\ Goto(r, "marked") /\ UNCHANGED <<tables, req, seen, promised>>
    BY <1>2 DEF MarkVersion
  <2>2. pc'[r] = "marked" /\ UNCHANGED <<source, files>>
    BY <2>1 DEF Goto, IInv, TypeOK, tables
  <2>3. RequestOK(r)
    BY RequestsOK DEF IInv
  <2>4. RequestOK(r)'
    BY <1>2, <2>1, <2>2, <2>3 DEF RequestOK
  <2>5. QED
    BY <2>1, <2>4, GotoStep DEF ControlPoint, OrgLocked, SkillLocked
<1>3. QED
  BY <1>1, <1>2

\* Querying the newest version keeps the invariant.
LEMMA RecomputeStep ==
    ASSUME IInv, NEW r \in Requests, Recompute(r)
    PROVE  IInv'
<1>1. /\ pc[r] = "marked" /\ seen' = [seen EXCEPT ![r] = Latest(r)]
      /\ pc' = [pc EXCEPT ![r] = "recomputed"] /\ UNCHANGED <<tables, req, promised>>
  BY DEF Recompute, Goto
<1>2. /\ pc'[r] = "recomputed" /\ seen'[r] = Latest(r) /\ req' = [req EXCEPT ![r] = req[r]]
      /\ UNCHANGED <<source, files, hidden>> /\ \A s \in Requests : s # r => pc'[s] = pc[s]
  BY <1>1 DEF IInv, TypeOK, tables
<1>3. Latest(r)' = Latest(r)
  BY <1>1, <1>2 DEF Latest, Marked
<1>4. RequestOK(r)
  BY RequestsOK DEF IInv
<1>5. req[r] \in HideRequest
  BY <1>1, <1>4 DEF RequestOK
<1>6. Len(files[req[r].skill]) \in Nat /\ req[r] \in Request
  BY <1>5 DEF HideRequest, Request, IInv, TypeOK
<1>7. Latest(r) \in Nat
  BY <1>6, NewestIsNewest DEF Latest
<1>8. RequestOK(r)'
  BY <1>1, <1>2, <1>3, <1>4 DEF RequestOK
<1>9. LocksOwn(r)'
  BY <1>1, <1>2 DEF LocksOwn, LocksExclusive, IInv, OrgLocked, SkillLocked
<1>10. "recomputed" \in ControlPoint
  BY DEF ControlPoint, SkillLocked
<1>11. QED
  BY <1>1, <1>2, <1>6, <1>7, <1>8, <1>9, <1>10, LocalStep

-----------------------------------------------------------------------------
(* updateOrg, until it commits.                                            *)

\* Locking the org's row to move it keeps the invariant.
LEMMA LockSlugStep ==
    ASSUME IInv, NEW r \in Requests, LockSlug(r)
    PROVE  IInv'
<1>1. CASE req[r].slug = slug[Org(r)]
  BY <1>1, AnswerStep DEF LockSlug, Answered
<1>2. CASE req[r].slug # slug[Org(r)]
  <2>1. /\ pc[r] = "moving" /\ OrgFree(Org(r)) /\ Goto(r, "slug")
        /\ UNCHANGED <<tables, req, seen, promised>>
    BY <1>2 DEF LockSlug
  <2>2. /\ pc' = [pc EXCEPT ![r] = "slug"] /\ req' = [req EXCEPT ![r] = req[r]]
        /\ seen' = [seen EXCEPT ![r] = seen[r]] /\ pc'[r] = "slug"
        /\ \A s \in Requests : s # r => pc'[s] = pc[s]
    BY <2>1 DEF Goto, IInv, TypeOK
  <2>3. \A s \in Requests : Org(s)' = Org(s)
    BY <2>1 DEF Org
  <2>4. LocksOwn(r)'
    BY <2>1, <2>2, <2>3 DEF LocksOwn, OrgFree, SkillLocked
  <2>5. req[r] \in SlugRequest
    BY <2>1 DEF IInv, RequestsSound
  <2>6. RequestOK(r)'
    BY <2>1, <2>2, <2>5 DEF RequestOK
  <2>7. "slug" \in ControlPoint /\ req[r] \in Request /\ seen[r] \in Nat
    BY <2>5 DEF ControlPoint, OrgLocked, Request, IInv, TypeOK
  <2>8. QED
    BY <2>1, <2>2, <2>4, <2>6, <2>7, LocalStep
<1>3. QED
  BY <1>1, <1>2

\* The two checks of a move keep the invariant.
LEMMA CheckSlugStep ==
    ASSUME IInv, NEW r \in Requests, CheckPublished(r) \/ CheckTaken(r)
    PROVE  IInv'
<1>1. CASE Refuse(r)
  BY <1>1, RefuseStep
<1>2. CASE ~Refuse(r)
  <2>1. PICK where \in {"unpublished", "free"} :
           /\ pc[r] \in {"slug", "unpublished"} /\ Goto(r, where)
           /\ pc[r] = "slug" => ~HasPublished(req[r].org)
           /\ UNCHANGED <<tables, req, seen, promised>>
    BY <1>2 DEF CheckPublished, CheckTaken
  <2>2. pc'[r] = where /\ source' = source
    BY <2>1 DEF Goto, IInv, TypeOK, tables
  <2>3. RequestOK(r)
    BY RequestsOK DEF IInv
  <2>4. RequestOK(r)'
    BY <2>1, <2>2, <2>3 DEF RequestOK, HasPublished
  <2>5. /\ where \in ControlPoint /\ pc[r] \in OrgLocked /\ where \notin SkillLocked
    BY <2>1 DEF ControlPoint, OrgLocked, SkillLocked
  <2>6. QED
    BY <2>1, <2>4, <2>5, GotoStep
<1>3. QED
  BY <1>1, <1>2

-----------------------------------------------------------------------------
(* The steps that change the tables.                                       *)

TableTypes ==
    /\ slug \in [Orgs -> Slugs]
    /\ source \in [Skills -> Sources \cup {NoSource}]
    /\ latest \in [Skills -> Nat]
    /\ off \subseteq Skills
    /\ files \in [Skills -> Seq(Files)]
    /\ hidden \in [Skills -> SUBSET Nat]
    /\ promised \subseteq [slug : Slugs, name : Names, version : Nat, files : Files]

\* The request that commits is answered; what is left is what its writes do
\* to the tables and to the other requests.
LEMMA CommitFrame ==
    ASSUME IInv, NEW r \in Requests, Answer(r, "accepted"),
           TableTypes', TablesOK', \A s \in Requests \ {r} : RequestOK(s)'
    PROVE  IInv'
<1>1. "accepted" \in Answered
  BY DEF Answered
<1>2. /\ pc'[r] = "accepted" /\ "accepted" \in ControlPoint
      /\ "accepted" \notin OrgLocked \cup SkillLocked /\ RequestOK(r)'
  BY <1>1, AnsweredOK
<1>3. TypeOK'
  BY <1>2 DEF Answer, Goto, TableTypes, IInv, TypeOK
<1>4. \A s \in Requests : s # r => pc'[s] = pc[s] /\ req'[s] = req[s] /\ Org(s)' = Org(s)
  BY DEF Answer, Goto, Org, IInv, TypeOK
<1>5. LocksExclusive'
  BY <1>2, <1>4 DEF LocksExclusive, IInv
<1>6. RequestsSound' /\ ChecksHold'
  BY <1>2 DEF RequestsSound, ChecksHold, RequestOK
<1>7. QED
  BY <1>3, <1>5, <1>6 DEF IInv, TablesOK

\* Another request sees nothing of a commit under locks it does not hold.
LEMMA OthersOK ==
    ASSUME IInv, NEW r \in Requests, NEW s \in Requests \ {r}, Answer(r, "accepted"),
           pc[s] \in OrgLocked =>
               /\ slug'[Org(s)] # DefaultSlug \/ slug'[Org(s)] = slug[Org(s)]
               /\ \A n \in Names : source'[<<Org(s), n>>] = source[<<Org(s), n>>],
           pc[s] \in SkillLocked =>
               /\ source'[req[s].skill] = source[req[s].skill]
               /\ files'[req[s].skill] = files[req[s].skill]
               /\ hidden'[req[s].skill] = hidden[req[s].skill]
    PROVE  RequestOK(s)'
<1>1. /\ pc'[s] = pc[s] /\ req'[s] = req[s] /\ seen'[s] = seen[s] /\ Org(s)' = Org(s)
  BY DEF Answer, Goto, Org, IInv, TypeOK
<1>2. RequestOK(s)
  BY RequestsOK DEF IInv
<1>3. pc[s] \in {"moving", "slug", "unpublished", "free"} => Org(s) = req[s].org
  BY <1>2 DEF RequestOK, SlugRequest, Org
<1>4. pc[s] = "recomputed" => Latest(s)' = Latest(s)
  BY <1>1 DEF SkillLocked, Latest, Marked
<1>5. QED
  BY <1>1, <1>2, <1>3, <1>4 DEF RequestOK, OrgLocked, SkillLocked, Duplicate, HasPublished

\* A version is added to a skill whose row, and whose org's row, are locked.
LEMMA CommitStep ==
    ASSUME IInv, NEW r \in Requests, Commit(r)
    PROVE  IInv'
<1> DEFINE k == req[r].skill
           n == seen[r] + 1
           p == [slug |-> slug[k[1]], name |-> k[2], version |-> n, files |-> req[r].files]
<1>1. CASE n \in DOMAIN files[k]
  BY <1>1, RefuseStep DEF Commit
<1>2. CASE n \notin DOMAIN files[k]
  <2>1. /\ pc[r] = "numbered"
        /\ source' = [source EXCEPT ![k] = req[r].source]
        /\ files' = [files EXCEPT ![k] = Append(files[k], req[r].files)]
        /\ latest' = [latest EXCEPT ![k] = n] /\ off' = off \ {k}
        /\ promised' = promised \cup {p}
        /\ Answer(r, "accepted") /\ UNCHANGED <<slug, hidden>>
    BY <1>2 DEF Commit
  <2>2. /\ req[r] \in PublishRequest /\ slug[Org(r)] # DefaultSlug
        /\ ~Duplicate(k, req[r].files) /\ seen[r] = Len(files[k])
    BY <2>1 DEF IInv, RequestsSound, ChecksHold
  <2>3. /\ k \in Skills /\ k[1] \in Orgs /\ k[2] \in Names /\ k = <<k[1], k[2]>>
        /\ req[r].source \in Sources /\ req[r].files \in Files /\ Org(r) = k[1]
    BY <2>2 DEF PublishRequest, Skills, Org
  <2>4. /\ files[k] \in Seq(Files) /\ n = Len(files[k]) + 1 /\ n \in Nat
        /\ files'[k] = Append(files[k], req[r].files)
        /\ \A j \in Skills \ {k} : files'[j] = files[j] /\ source'[j] = source[j] /\ latest'[j] = latest[j]
        /\ source'[k] = req[r].source /\ latest'[k] = n
    BY <2>1, <2>2, <2>3 DEF IInv, TypeOK
  <2>5. /\ Len(files'[k]) = n /\ DOMAIN files'[k] = 1..n /\ DOMAIN files[k] = 1..(n - 1)
        /\ files'[k][n] = req[r].files /\ \A v \in 1..(n - 1) : files'[k][v] = files[k][v]
        /\ files'[k] \in Seq(Files) /\ files'[k] # <<>>
    BY <2>3, <2>4
  <2>6. TableTypes'
    <3>1. p \in [slug : Slugs, name : Names, version : Nat, files : Files]
      BY <2>3, <2>4 DEF IInv, TypeOK
    <3>2. QED
      BY <2>1, <2>3, <2>4, <2>5, <3>1 DEF TableTypes, IInv, TypeOK
  <2>7. SlugsUnique'
    BY <2>1 DEF SlugsUnique, IInv
  <2>8. RowsSound'
    BY <2>1, <2>3, <2>4, <2>5, SourceAssumption DEF RowsSound, IInv
  <2>9. RefsKept'
    <3>1. ASSUME NEW q \in promised
          PROVE  \E o \in Orgs : /\ slug[o] = q.slug /\ \A x \in Orgs \ {o} : slug[x] # q.slug
                                 /\ q.version \in DOMAIN files'[<<o, q.name>>]
                                 /\ files'[<<o, q.name>>][q.version] = q.files
      <4>1. PICK o \in Orgs : /\ slug[o] = q.slug /\ \A x \in Orgs \ {o} : slug[x] # q.slug
                              /\ q.version \in DOMAIN files[<<o, q.name>>]
                              /\ files[<<o, q.name>>][q.version] = q.files
        BY DEF IInv, RefsKept
      <4>2. <<o, q.name>> \in Skills
        BY DEF IInv, TypeOK, Skills
      <4>3. /\ q.version \in DOMAIN files'[<<o, q.name>>]
            /\ files'[<<o, q.name>>][q.version] = q.files
        <5>1. CASE <<o, q.name>> = k
          <6>1. q.version \in 1..(n - 1)
            BY <2>5, <4>1, <5>1
          <6>2. q.version \in 1..n /\ files'[k][q.version] = files[k][q.version]
            BY <2>4, <2>5, <6>1
          <6>3. QED
            BY <2>5, <4>1, <5>1, <6>2
        <5>2. CASE <<o, q.name>> # k
          BY <2>4, <4>1, <4>2, <5>2
        <5>3. QED
          BY <5>1, <5>2
      <4>4. QED
        BY <4>1, <4>3
    <3>2. /\ slug[k[1]] = p.slug /\ \A x \in Orgs \ {k[1]} : slug[x] # p.slug
          /\ p.version \in DOMAIN files'[<<k[1], p.name>>]
          /\ files'[<<k[1], p.name>>][p.version] = p.files
      <4>1. p.slug = slug[k[1]] /\ p.name = k[2] /\ p.version = n /\ p.files = req[r].files
        OBVIOUS
      <4>2. k = <<k[1], p.name>> /\ k[1] \in Orgs
        BY <2>3, <4>1
      <4>3. \A x \in Orgs \ {k[1]} : slug[x] # slug[k[1]]
        BY <4>2 DEF IInv, SlugsUnique
      <4>4. p.version \in DOMAIN files'[k] /\ files'[k][p.version] = p.files
        BY <2>4, <2>5, <4>1
      <4> HIDE DEF p, k, n
      <4>5. QED
        BY <4>1, <4>2, <4>3, <4>4
    <3> HIDE DEF p
    <3>3. QED
      BY <2>1, <2>3, <3>1, <3>2 DEF RefsKept
  <2>10. LatestNewest'
    <3>1. hidden[k] \subseteq 1..(n - 1)
      BY <2>3, <2>5 DEF IInv, RowsSound
    <3>2. Newest(n, hidden[k]) = n
      BY <2>4, <3>1, NewestIs
    <3>3. QED
      BY <2>1, <2>3, <2>4, <2>5, <3>2 DEF LatestNewest, IInv
  <2>11. NoDuplicates'
    <3>1. \A v \in 1..(n - 1) : files[k][v] # req[r].files
      BY <2>2, <2>5 DEF Duplicate
    <3>2. ASSUME NEW v \in 1..n, NEW w \in 1..n, files'[k][v] = files'[k][w] PROVE v = w
      <4>5. \A x, y \in 1..(n - 1) : files[k][x] = files[k][y] => x = y
        BY <2>3, <2>5 DEF IInv, NoDuplicates
      <4>1. v \in 1..(n - 1) /\ w \in 1..(n - 1) => v = w
        BY <2>5, <3>2, <4>5
      <4>2. v = n \/ v \in 1..(n - 1)
        BY <2>4
      <4>3. w = n \/ w \in 1..(n - 1)
        BY <2>4
      <4>4. QED
        BY <2>5, <3>1, <3>2, <4>1, <4>2, <4>3
    <3>3. \A j \in Skills \ {k} : \A v, w \in DOMAIN files'[j] : files'[j][v] = files'[j][w] => v = w
      BY <2>4 DEF NoDuplicates, IInv
    <3>4. \A v, w \in DOMAIN files'[k] : files'[k][v] = files'[k][w] => v = w
      BY <2>5, <3>2
    <3>5. QED
      BY <3>3, <3>4 DEF NoDuplicates
  <2>12. DefaultUnpublished'
    <3>1. ASSUME NEW o \in Orgs, slug[o] = DefaultSlug PROVE ~HasPublished(o)'
      <4>1. o # k[1]
        BY <2>2, <2>3, <3>1
      <4>2. \A m \in Names : <<o, m>> \in Skills \ {k}
        BY <2>3, <4>1 DEF Skills
      <4>3. \A m \in Names : source'[<<o, m>>] = source[<<o, m>>]
        BY <2>4, <4>2
      <4>4. ~HasPublished(o)
        BY <3>1 DEF IInv, DefaultUnpublished
      <4>5. QED
        BY <4>3, <4>4 DEF HasPublished
    <3>2. QED
      BY <2>1, <3>1 DEF DefaultUnpublished
  <2>13. ASSUME NEW s \in Requests \ {r} PROVE RequestOK(s)'
    <3>1. /\ pc[s] \in OrgLocked => Org(s) # k[1]
          /\ pc[s] \in SkillLocked => req[s].skill # k
      BY <2>1, <2>3 DEF IInv, LocksExclusive, OrgLocked, SkillLocked
    <3>2. pc[s] \in OrgLocked => \A m \in Names : source'[<<Org(s), m>>] = source[<<Org(s), m>>]
      BY <2>1, <2>3, <3>1 DEF IInv, TypeOK
    <3>3. pc[s] \in SkillLocked => /\ source'[req[s].skill] = source[req[s].skill]
                                   /\ files'[req[s].skill] = files[req[s].skill]
      BY <2>1, <3>1 DEF IInv, TypeOK
    <3>4. QED
      BY <2>1, <3>2, <3>3, OthersOK
  <2>14. TablesOK'
    BY <2>7, <2>8, <2>9, <2>10, <2>11, <2>12 DEF TablesOK
  <2>15. QED
    BY <2>1, <2>6, <2>13, <2>14, CommitFrame
<1>3. QED
  BY <1>1, <1>2

\* A skill is hidden or restored as a whole.
LEMMA HideSkillStep ==
    ASSUME IInv, NEW r \in Requests, HideSkill(r)
    PROVE  IInv'
<1> DEFINE k == req[r].skill
<1>1. /\ pc[r] = "hide" /\ Answer(r, "accepted")
      /\ UNCHANGED <<slug, source, latest, files, hidden, promised>>
      /\ off' \in {off \cup {k}, off \ {k}}
  BY DEF HideSkill
<1>2. req[r] \in HideRequest /\ source[k] # NoSource
  BY <1>1 DEF IInv, RequestsSound, ChecksHold
<1>3. k \in Skills
  BY <1>2 DEF HideRequest
<1>4. TableTypes'
  BY <1>1, <1>3 DEF TableTypes, IInv, TypeOK
<1>5. RowsSound'
  BY <1>1, <1>2, <1>3 DEF RowsSound, IInv
<1>6. TablesOK'
  BY <1>1, <1>5 DEF TablesOK, SlugsUnique, RefsKept, LatestNewest, NoDuplicates,
                    DefaultUnpublished, HasPublished, IInv
<1>7. ASSUME NEW s \in Requests \ {r} PROVE RequestOK(s)'
  BY <1>1, OthersOK
<1>8. QED
  BY <1>1, <1>4, <1>6, <1>7, CommitFrame

\* A version is hidden or restored.
LEMMA CommitHideStep ==
    ASSUME IInv, NEW r \in Requests, CommitHide(r)
    PROVE  IInv'
<1> DEFINE k == req[r].skill
<1>1. /\ pc[r] = "recomputed" /\ Answer(r, "accepted")
      /\ hidden' = [hidden EXCEPT ![k] = Marked(r)]
      /\ latest' = [latest EXCEPT ![k] = seen[r]]
      /\ UNCHANGED <<slug, source, off, files, promised>>
  BY DEF CommitHide
<1>2. /\ req[r] \in HideRequest /\ req[r].version \in DOMAIN files[k]
      /\ seen[r] = Newest(Len(files[k]), Marked(r))
  BY <1>1 DEF IInv, RequestsSound, ChecksHold, Latest
<1>3. k \in Skills /\ req[r].version \in Nat /\ seen[r] \in Nat
  BY <1>2 DEF HideRequest, IInv, TypeOK
<1>4. Marked(r) \subseteq DOMAIN files[k] /\ Marked(r) \in SUBSET Nat
  BY <1>2, <1>3 DEF Marked, IInv, RowsSound, TypeOK
<1>5. TableTypes'
  BY <1>1, <1>3, <1>4 DEF TableTypes, IInv, TypeOK
<1>6. /\ hidden'[k] = Marked(r) /\ latest'[k] = seen[r]
      /\ \A j \in Skills \ {k} : hidden'[j] = hidden[j] /\ latest'[j] = latest[j]
  BY <1>1, <1>3 DEF IInv, TypeOK
<1>7. RowsSound'
  BY <1>1, <1>4, <1>6 DEF RowsSound, IInv
<1>8. LatestNewest'
  BY <1>1, <1>2, <1>6 DEF LatestNewest, IInv
<1>9. TablesOK'
  BY <1>1, <1>7, <1>8 DEF TablesOK, SlugsUnique, RefsKept, NoDuplicates,
                          DefaultUnpublished, HasPublished, IInv
<1>10. ASSUME NEW s \in Requests \ {r} PROVE RequestOK(s)'
  <2>1. pc[s] \in SkillLocked => req[s].skill # k
    BY <1>1 DEF IInv, LocksExclusive, SkillLocked
  <2>2. pc[s] \in SkillLocked => hidden'[req[s].skill] = hidden[req[s].skill]
    BY <1>1, <2>1 DEF IInv, TypeOK
  <2>3. QED
    BY <1>1, <2>2, OthersOK
<1>11. QED
  BY <1>1, <1>5, <1>9, <1>10, CommitFrame

\* The tables after the move of an org that has published nothing.
LEMMA MoveTables ==
    ASSUME IInv, NEW o \in Orgs, NEW t \in Slugs, ~HasPublished(o), ~Taken(o, t),
           slug' = [slug EXCEPT ![o] = t], UNCHANGED <<source, latest, off, files, hidden, promised>>
    PROVE  TableTypes' /\ TablesOK'
<1>1. slug'[o] = t /\ \A x \in Orgs \ {o} : slug'[x] = slug[x] /\ slug[x] # t
  BY DEF IInv, TypeOK, Taken
<1>2. TableTypes'
  BY DEF TableTypes, IInv, TypeOK
<1>3. SlugsUnique'
  BY <1>1 DEF SlugsUnique, IInv
<1>4. RefsKept'
  <2>1. ASSUME NEW q \in promised
        PROVE  \E x \in Orgs : /\ slug'[x] = q.slug /\ \A y \in Orgs \ {x} : slug'[y] # q.slug
                               /\ q.version \in DOMAIN files[<<x, q.name>>]
                               /\ files[<<x, q.name>>][q.version] = q.files
    <3>1. PICK x \in Orgs : /\ slug[x] = q.slug /\ \A y \in Orgs \ {x} : slug[y] # q.slug
                            /\ q.version \in DOMAIN files[<<x, q.name>>]
                            /\ files[<<x, q.name>>][q.version] = q.files
      BY DEF IInv, RefsKept
    <3>2. q.name \in Names /\ <<x, q.name>> \in Skills
      BY DEF IInv, TypeOK, Skills
    <3>3. files[<<x, q.name>>] # <<>>
      BY <3>1
    <3>4. x # o
      BY <3>2, <3>3 DEF IInv, RowsSound, HasPublished
    <3>5. QED
      BY <1>1, <3>1, <3>4
  <2>2. QED
    BY <2>1 DEF RefsKept
<1>5. DefaultUnpublished'
  BY <1>1 DEF DefaultUnpublished, HasPublished, IInv
<1>6. QED
  BY <1>2, <1>3, <1>4, <1>5 DEF TablesOK, RowsSound, LatestNewest, NoDuplicates, IInv

\* A committed move keeps the invariant.
LEMMA CommitSlugStep ==
    ASSUME IInv, NEW r \in Requests, CommitSlug(r)
    PROVE  IInv'
<1>1. CASE Taken(req[r].org, req[r].slug)
  BY <1>1, RefuseStep DEF CommitSlug
<1>2. CASE ~Taken(req[r].org, req[r].slug)
  <2>1. /\ pc[r] = "free" /\ slug' = [slug EXCEPT ![req[r].org] = req[r].slug]
        /\ Answer(r, "accepted") /\ UNCHANGED <<source, latest, off, files, hidden, promised>>
    BY <1>2 DEF CommitSlug
  <2>2. req[r] \in SlugRequest /\ ~HasPublished(req[r].org)
    BY <2>1 DEF IInv, RequestsSound, ChecksHold
  <2>3. req[r].org \in Orgs /\ req[r].slug \in Slugs /\ Org(r) = req[r].org
    BY <2>2 DEF SlugRequest, Org
  <2>4. TableTypes' /\ TablesOK'
    BY <1>2, <2>1, <2>2, <2>3, MoveTables
  <2>5. ASSUME NEW s \in Requests \ {r} PROVE RequestOK(s)'
    <3>1. pc[s] \in OrgLocked => Org(s) # req[r].org
      BY <2>1, <2>3 DEF IInv, LocksExclusive, OrgLocked
    <3>2. pc[s] \in OrgLocked => slug'[Org(s)] = slug[Org(s)]
      BY <2>1, <3>1 DEF IInv, TypeOK
    <3>3. QED
      BY <2>1, <3>2, OthersOK
  <2>6. QED
    BY <2>1, <2>4, <2>5, CommitFrame
<1>3. QED
  BY <1>1, <1>2

\* The move a restart makes keeps the invariant.
LEMMA BootstrapStep ==
    ASSUME IInv, BootstrapSlug
    PROVE  IInv'
<1>1. PICK t \in Slugs : ~Taken(DefaultOrg, t) /\ slug' = [slug EXCEPT ![DefaultOrg] = t]
  BY DEF BootstrapSlug
<1>2. /\ OrgFree(DefaultOrg) /\ slug[DefaultOrg] = DefaultSlug
      /\ UNCHANGED <<source, latest, off, files, hidden, pc, req, seen, promised>>
  BY DEF BootstrapSlug
<1>3. ~HasPublished(DefaultOrg)
  BY <1>2, SlugAssumption DEF IInv, DefaultUnpublished
<1>4. TableTypes' /\ TablesOK'
  BY <1>1, <1>2, <1>3, SlugAssumption, MoveTables
<1>5. TypeOK'
  BY <1>2, <1>4 DEF TableTypes, IInv, TypeOK
<1>6. LocksExclusive' /\ RequestsSound'
  BY <1>2 DEF LocksExclusive, RequestsSound, Org, IInv
<1>7. ASSUME NEW r \in Requests PROVE RequestOK(r)'
  <2>1. pc[r] \in OrgLocked => slug'[Org(r)] = slug[Org(r)]
    BY <1>1, <1>2 DEF OrgFree, IInv, TypeOK
  <2>2. RequestOK(r) /\ Org(r)' = Org(r) /\ Latest(r)' = Latest(r)
    BY <1>2, RequestsOK DEF IInv, Org, Latest, Marked
  <2>3. QED
    BY <1>2, <2>1, <2>2 DEF RequestOK, OrgLocked, Duplicate, HasPublished
<1>8. ChecksHold'
  BY <1>7 DEF ChecksHold, RequestOK
<1>9. QED
  BY <1>4, <1>5, <1>6, <1>8 DEF IInv, TablesOK

-----------------------------------------------------------------------------

\* Every step keeps the invariant.
LEMMA StepIInv == IInv /\ [Next]_vars => IInv'
<1> SUFFICES ASSUME IInv, [Next]_vars PROVE IInv'
  OBVIOUS
<1>1. ASSUME NEW r \in Requests, Publish(r) PROVE IInv'
  BY <1>1, StartStep, LockOrgStep, LockSkillStep, CheckDuplicateStep, ReadLastStep, CommitStep
  DEF Publish
<1>2. ASSUME NEW r \in Requests, Hide(r) PROVE IInv'
  BY <1>2, StartStep, LockHideStep, HideSkillStep, MarkVersionStep, RecomputeStep, CommitHideStep
  DEF Hide
<1>3. ASSUME NEW r \in Requests, Move(r) PROVE IInv'
  BY <1>3, StartStep, LockSlugStep, CheckSlugStep, CommitSlugStep DEF Move
<1>4. ASSUME NEW r \in Requests, Abort(r) PROVE IInv'
  BY <1>4, RefuseStep DEF Abort
<1>5. CASE BootstrapSlug
  BY <1>5, BootstrapStep
<1>6. CASE UNCHANGED vars
  <2>1. UNCHANGED <<slug, source, latest, off, files, hidden, pc, req, seen, promised>>
    BY <1>6 DEF vars, tables
  <2>2. ASSUME NEW r \in Requests PROVE Org(r)' = Org(r) /\ Latest(r)' = Latest(r)
    BY <2>1 DEF Org, Latest, Marked
  <2>3. TypeOK' /\ SlugsUnique' /\ LocksExclusive' /\ RequestsSound' /\ RowsSound'
    BY <2>1, <2>2 DEF IInv, TypeOK, SlugsUnique, LocksExclusive, RequestsSound, RowsSound
  <2>4. ChecksHold'
    BY <2>1, <2>2 DEF IInv, ChecksHold, Duplicate, HasPublished
  <2>5. RefsKept' /\ LatestNewest' /\ NoDuplicates' /\ DefaultUnpublished'
    BY <2>1 DEF IInv, RefsKept, LatestNewest, NoDuplicates, DefaultUnpublished, HasPublished
  <2>6. QED
    BY <2>3, <2>4, <2>5 DEF IInv
<1>7. QED
  BY <1>1, <1>2, <1>3, <1>4, <1>5, <1>6 DEF Next

-----------------------------------------------------------------------------
(* Theorems.                                                               *)

\* Whatever handlers interleave, roll back or restart the server, what each
\* has read under its locks stays true until it commits.
THEOREM Invariance == Spec => []IInv
<1>1. Init => IInv
  BY InitIInv
<1>2. IInv /\ [Next]_vars => IInv'
  BY StepIInv
<1>3. QED
  BY <1>1, <1>2, PTL DEF Spec

\* A published ref resolves to the files it was published with for ever, and
\* in one org: updateOrg, a restart's bootstrap and later publishes keep it.
THEOREM RefsAlwaysKept == Spec => []RefsKept
<1>1. IInv => RefsKept
  BY DEF IInv
<1>2. QED
  BY <1>1, Invariance, PTL

\* `latest` always is the newest version that is not hidden.
THEOREM LatestAlwaysNewest == Spec => []LatestNewest
<1>1. IInv => LatestNewest
  BY DEF IInv
<1>2. QED
  BY <1>1, Invariance, PTL

\* No skill ever has the same files twice.
THEOREM NeverDuplicated == Spec => []NoDuplicates
<1>1. IInv => NoDuplicates
  BY DEF IInv
<1>2. QED
  BY <1>1, Invariance, PTL

\* An org with the seeded slug never has published anything.
THEOREM DefaultNeverPublished == Spec => []DefaultUnpublished
<1>1. IInv => DefaultUnpublished
  BY DEF IInv
<1>2. QED
  BY <1>1, Invariance, PTL

-----------------------------------------------------------------------------
(* The tables implement the registry's promise.                            *)

Ref(k) == <<slug[k[1]], k[2]>>

\* A skill's ref resolves to it alone, and shows its rows.
Shown(k) ==
    /\ Ref(k) \in Refs /\ Resolved(Ref(k)) = {k}
    /\ RefFiles[Ref(k)] = files[k] /\ RefHidden[Ref(k)] = hidden[k]
    /\ RefLatest[Ref(k)] = latest[k] /\ (Ref(k) \in RefsOff <=> k \in off)

Blank(ref) ==
    RefFiles[ref] = <<>> /\ RefHidden[ref] = {} /\ RefLatest[ref] = 0 /\ ref \notin RefsOff

\* What a ref shows is a skill's rows or nothing.
RefsSound ==
    /\ \A k \in Skills : Shown(k)
    /\ \A ref \in Refs : /\ \A k \in Resolved(ref) : k \in Skills /\ ref = Ref(k)
                         /\ Resolved(ref) = {} => Blank(ref)

\* A ref shows the skill of the one org that has its slug.
LEMMA RefsAreSound == IInv => RefsSound
<1> SUFFICES ASSUME IInv PROVE RefsSound
  OBVIOUS
<1>1. ASSUME NEW k \in Skills PROVE Shown(k)
  <2>1. k[1] \in Orgs /\ k[2] \in Names /\ Ref(k) \in Refs
    BY DEF Skills, Ref, Refs, IInv, TypeOK
  <2>2. Ref(k)[1] = slug[k[1]] /\ Ref(k)[2] = k[2]
    BY DEF Ref
  <2>3. \A j \in Skills : slug[j[1]] = slug[k[1]] /\ j[2] = k[2] => j = k
    BY <2>1 DEF Skills, IInv, SlugsUnique
  <2>4. Resolved(Ref(k)) = {k}
    BY <2>2, <2>3 DEF Resolved
  <2>5. QED
    BY <2>1, <2>4 DEF Shown, RefFiles, RefHidden, RefLatest, RefsOff, OfRef
<1>2. ASSUME NEW ref \in Refs
      PROVE  /\ \A k \in Resolved(ref) : k \in Skills /\ ref = Ref(k)
             /\ Resolved(ref) = {} => Blank(ref)
  BY DEF Resolved, Ref, Refs, Blank, RefFiles, RefHidden, RefLatest, RefsOff, OfRef
<1>3. QED
  BY <1>1, <1>2 DEF RefsSound

\* The same after a step.
LEMMA RefsStaySound == IInv' => RefsSound'
  BY RefsAreSound, PTL

\* A step that changes the rows of one skill changes what its ref shows, and
\* no other ref.
LEMMA OneRef ==
    ASSUME IInv, IInv', NEW k \in Skills, slug' = slug,
           \A j \in Skills \ {k} : /\ files'[j] = files[j] /\ hidden'[j] = hidden[j]
                                   /\ latest'[j] = latest[j] /\ (j \in off' <=> j \in off)
    PROVE  /\ RefFiles' = [RefFiles EXCEPT ![Ref(k)] = files'[k]]
           /\ RefHidden' = [RefHidden EXCEPT ![Ref(k)] = hidden'[k]]
           /\ RefLatest' = [RefLatest EXCEPT ![Ref(k)] = latest'[k]]
           /\ RefsOff' = IF k \in off' THEN RefsOff \cup {Ref(k)} ELSE RefsOff \ {Ref(k)}
<1>1. \A j \in Skills : Ref(j)' = Ref(j)
  BY DEF Ref
<1>2. \A ref \in Refs : Resolved(ref)' = Resolved(ref)
  BY DEF Resolved
<1>3. /\ RefFiles'[Ref(k)] = files'[k] /\ RefHidden'[Ref(k)] = hidden'[k]
      /\ RefLatest'[Ref(k)] = latest'[k] /\ (Ref(k) \in RefsOff' <=> k \in off')
      /\ Ref(k) \in Refs
  BY <1>1, RefsStaySound DEF RefsSound, Shown
<1>4. ASSUME NEW ref \in Refs \ {Ref(k)}
      PROVE  /\ RefFiles'[ref] = RefFiles[ref] /\ RefHidden'[ref] = RefHidden[ref]
             /\ RefLatest'[ref] = RefLatest[ref] /\ (ref \in RefsOff' <=> ref \in RefsOff)
  <2>1. CASE Resolved(ref) = {}
    BY <1>2, <2>1, RefsAreSound, RefsStaySound DEF RefsSound, Blank
  <2>2. CASE Resolved(ref) # {}
    <3>1. PICK j \in Resolved(ref) : TRUE
      BY <2>2
    <3>2. j \in Skills \ {k} /\ ref = Ref(j)
      BY <3>1, RefsAreSound DEF RefsSound
    <3>3. QED
      BY <1>1, <3>2, RefsAreSound, RefsStaySound DEF RefsSound, Shown
  <2>3. QED
    BY <2>1, <2>2
<1>5. /\ RefFiles = [ref \in Refs |-> RefFiles[ref]] /\ RefFiles' = [ref \in Refs |-> RefFiles'[ref]]
      /\ RefHidden = [ref \in Refs |-> RefHidden[ref]] /\ RefHidden' = [ref \in Refs |-> RefHidden'[ref]]
      /\ RefLatest = [ref \in Refs |-> RefLatest[ref]] /\ RefLatest' = [ref \in Refs |-> RefLatest'[ref]]
      /\ RefsOff \subseteq Refs /\ RefsOff' \subseteq Refs
  BY DEF RefFiles, RefHidden, RefLatest, RefsOff
<1>6. RefFiles' = [RefFiles EXCEPT ![Ref(k)] = files'[k]]
  BY <1>3, <1>4, <1>5
<1>7. RefHidden' = [RefHidden EXCEPT ![Ref(k)] = hidden'[k]]
  BY <1>3, <1>4, <1>5
<1>8. RefLatest' = [RefLatest EXCEPT ![Ref(k)] = latest'[k]]
  BY <1>3, <1>4, <1>5
<1>9. RefsOff' = IF k \in off' THEN RefsOff \cup {Ref(k)} ELSE RefsOff \ {Ref(k)}
  BY <1>3, <1>4, <1>5
<1>10. QED
  BY <1>6, <1>7, <1>8, <1>9

\* What the refs show does not change with a move of an org that has
\* published nothing.
LEMMA MoveInvisible ==
    ASSUME IInv, IInv', NEW o \in Orgs, NEW t, ~HasPublished(o),
           slug' = [slug EXCEPT ![o] = t], UNCHANGED <<source, latest, off, files, hidden>>
    PROVE  UNCHANGED <<RefFiles, RefHidden, RefLatest, RefsOff>>
<1>1. \A j \in Skills : j[1] # o => Ref(j)' = Ref(j)
  BY DEF Ref, Skills, IInv, TypeOK
<1>2. ASSUME NEW j \in Skills, j[1] = o
      PROVE  files[j] = <<>> /\ hidden[j] = {} /\ latest[j] = 0 /\ j \notin off
  <2>1. j = <<o, j[2]>> /\ j[2] \in Names
    BY <1>2 DEF Skills
  <2>2. source[j] = NoSource
    BY <2>1 DEF HasPublished
  <2>3. files[j] = <<>> /\ hidden[j] \subseteq {} /\ j \notin off
    BY <2>2 DEF IInv, RowsSound
  <2>4. latest[j] = Newest(0, {})
    BY <2>3 DEF IInv, LatestNewest
  <2>5. QED
    BY <2>3, <2>4, NewestIsNewest
<1>3. ASSUME NEW ref \in Refs, \A j \in Resolved(ref) : j[1] = o PROVE Blank(ref)
  <2>1. CASE Resolved(ref) = {}
    BY <2>1, RefsAreSound DEF RefsSound
  <2>2. CASE Resolved(ref) # {}
    <3>1. PICK j \in Resolved(ref) : TRUE
      BY <2>2
    <3>2. j \in Skills /\ ref = Ref(j) /\ j[1] = o
      BY <1>3, <3>1, RefsAreSound DEF RefsSound
    <3>3. QED
      BY <1>2, <3>2, RefsAreSound DEF RefsSound, Shown, Blank
  <2>3. QED
    BY <2>1, <2>2
<1>4. ASSUME NEW ref \in Refs, \A j \in Resolved(ref)' : j[1] = o PROVE Blank(ref)'
  <2>1. CASE Resolved(ref)' = {}
    BY <2>1, RefsStaySound DEF RefsSound
  <2>2. CASE Resolved(ref)' # {}
    <3>1. PICK j \in Resolved(ref)' : TRUE
      BY <2>2
    <3>2. j \in Skills /\ ref = Ref(j)' /\ j[1] = o
      BY <1>4, <3>1, RefsStaySound DEF RefsSound
    <3>3. QED
      BY <1>2, <3>2, RefsStaySound DEF RefsSound, Shown, Blank
  <2>3. QED
    BY <2>1, <2>2
<1>5. ASSUME NEW ref \in Refs
      PROVE  /\ RefFiles'[ref] = RefFiles[ref] /\ RefHidden'[ref] = RefHidden[ref]
             /\ RefLatest'[ref] = RefLatest[ref] /\ (ref \in RefsOff' <=> ref \in RefsOff)
  <2>1. CASE \E j \in Resolved(ref) : j[1] # o
    <3>1. PICK j \in Resolved(ref) : j[1] # o
      BY <2>1
    <3>2. j \in Skills /\ ref = Ref(j) /\ ref = Ref(j)'
      BY <1>1, <3>1, RefsAreSound DEF RefsSound
    <3>3. QED
      BY <3>2, RefsAreSound, RefsStaySound DEF RefsSound, Shown
  <2>2. CASE \E j \in Resolved(ref)' : j[1] # o
    <3>1. PICK j \in Resolved(ref)' : j[1] # o
      BY <2>2
    <3>2. j \in Skills /\ ref = Ref(j)' /\ ref = Ref(j)
      BY <1>1, <3>1, RefsStaySound DEF RefsSound
    <3>3. QED
      BY <3>2, RefsAreSound, RefsStaySound DEF RefsSound, Shown
  <2>3. CASE (\A j \in Resolved(ref) : j[1] = o) /\ (\A j \in Resolved(ref)' : j[1] = o)
    BY <1>3, <1>4, <2>3 DEF Blank
  <2>4. QED
    BY <2>1, <2>2, <2>3
<1>6. QED
  BY <1>5 DEF RefFiles, RefHidden, RefLatest, RefsOff

\* Before anything is published no ref resolves.
LEMMA InitRefines == Init => Abs!AInit
<1> SUFFICES ASSUME Init PROVE Abs!AInit
  OBVIOUS
<1>1. ASSUME NEW ref \in Refs
      PROVE  /\ RefFiles[ref] = <<>> /\ RefHidden[ref] = {}
             /\ RefLatest[ref] = 0 /\ ref \notin RefsOff
  <2>1. \A k \in Resolved(ref) : k \in Skills
    BY DEF Resolved
  <2>2. Resolved(ref) # {} => (CHOOSE k \in Resolved(ref) : TRUE) \in Skills
    BY <2>1
  <2>3. QED
    BY <2>2 DEF Init, RefFiles, RefHidden, RefLatest, RefsOff, OfRef
<1>2. QED
  BY <1>1 DEF Abs!AInit, RefFiles, RefHidden, RefLatest, RefsOff

\* A commit of publish is a publication of the ref.
LEMMA CommitRefines ==
    ASSUME IInv, IInv', NEW r \in Requests, Commit(r)
    PROVE  Abs!ANext \/ UNCHANGED Abs!avars
<1> DEFINE k == req[r].skill
           n == seen[r] + 1
<1>1. CASE Refuse(r)
  <2>1. UNCHANGED <<slug, files, hidden, latest, off>>
    BY <1>1 DEF Refuse, tables
  <2>2. QED
    BY <2>1 DEF Abs!avars, RefFiles, RefHidden, RefLatest, RefsOff, OfRef, Resolved
<1>2. CASE ~Refuse(r)
  <2>1. /\ pc[r] = "numbered" /\ files' = [files EXCEPT ![k] = Append(files[k], req[r].files)]
        /\ latest' = [latest EXCEPT ![k] = n] /\ off' = off \ {k} /\ UNCHANGED <<slug, hidden>>
    BY <1>2 DEF Commit
  <2>2. /\ req[r] \in PublishRequest /\ ~Duplicate(k, req[r].files) /\ seen[r] = Len(files[k])
    BY <2>1 DEF IInv, RequestsSound, ChecksHold
  <2>3. k \in Skills /\ req[r].files \in Files /\ files[k] \in Seq(Files)
    BY <2>2 DEF PublishRequest, IInv, TypeOK
  <2>4. /\ files'[k] = Append(files[k], req[r].files) /\ latest'[k] = n /\ hidden'[k] = hidden[k]
        /\ n = Len(Append(files[k], req[r].files))
        /\ \A j \in Skills \ {k} : /\ files'[j] = files[j] /\ latest'[j] = latest[j]
                                   /\ hidden'[j] = hidden[j] /\ (j \in off' <=> j \in off)
    BY <2>1, <2>2, <2>3 DEF IInv, TypeOK
  <2>5. /\ RefFiles' = [RefFiles EXCEPT ![Ref(k)] = files'[k]]
        /\ RefHidden' = [RefHidden EXCEPT ![Ref(k)] = hidden'[k]]
        /\ RefLatest' = [RefLatest EXCEPT ![Ref(k)] = latest'[k]]
        /\ RefsOff' = RefsOff \ {Ref(k)}
    BY <2>1, <2>3, <2>4, OneRef
  <2>6. Ref(k) \in Refs /\ RefFiles[Ref(k)] = files[k] /\ RefHidden[Ref(k)] = hidden[k]
    BY <2>3, RefsAreSound DEF RefsSound, Shown
  <2>7. RefHidden' = RefHidden
    BY <2>4, <2>5, <2>6 DEF RefHidden
  <2>8. req[r].files \in Files \ {RefFiles[Ref(k)][v] : v \in DOMAIN RefFiles[Ref(k)]}
    BY <2>2, <2>3, <2>6 DEF Duplicate
  <2>9. /\ RefFiles' = [RefFiles EXCEPT ![Ref(k)] = Append(RefFiles[Ref(k)], req[r].files)]
        /\ RefLatest' = [RefLatest EXCEPT ![Ref(k)] = Len(RefFiles'[Ref(k)])]
    BY <2>4, <2>5, <2>6 DEF RefFiles
  <2>10. Abs!APublish(Ref(k))
    BY <2>5, <2>7, <2>8, <2>9 DEF Abs!APublish
  <2>11. QED
    BY <2>6, <2>10 DEF Abs!ANext
<1>3. QED
  BY <1>1, <1>2

\* The registry's newest version is recomputeLatest's.
LEMMA SameNewest == \A n, h : Newest(n, h) = Abs!Newest(n, h)
  BY DEF Newest, Abs!Newest

\* An unpublish or restore of a skill, or of a version, is one of the ref.
LEMMA HideRefines ==
    ASSUME IInv, IInv', NEW r \in Requests, HideSkill(r) \/ CommitHide(r)
    PROVE  Abs!ANext
<1> DEFINE k == req[r].skill
<1>1. /\ req[r] \in HideRequest /\ source[k] # NoSource
      /\ pc[r] = "recomputed" => /\ req[r].version \in DOMAIN files[k]
                                 /\ seen[r] = Newest(Len(files[k]), Marked(r))
  BY DEF HideSkill, CommitHide, IInv, RequestsSound, ChecksHold, Latest
<1>2. k \in Skills /\ files[k] # <<>>
  BY <1>1 DEF HideRequest, IInv, RowsSound
<1>3. /\ Ref(k) \in Refs /\ RefFiles[Ref(k)] = files[k] /\ RefHidden[Ref(k)] = hidden[k]
      /\ RefLatest[Ref(k)] = latest[k] /\ (Ref(k) \in RefsOff <=> k \in off)
  BY <1>2, RefsAreSound DEF RefsSound, Shown
<1>4. CASE HideSkill(r)
  <2>1. /\ UNCHANGED <<slug, latest, files, hidden>> /\ off' \in {off \cup {k}, off \ {k}}
    BY <1>4 DEF HideSkill
  <2>2. /\ RefFiles' = [RefFiles EXCEPT ![Ref(k)] = files[k]]
        /\ RefHidden' = [RefHidden EXCEPT ![Ref(k)] = hidden[k]]
        /\ RefLatest' = [RefLatest EXCEPT ![Ref(k)] = latest[k]]
        /\ RefsOff' = IF k \in off' THEN RefsOff \cup {Ref(k)} ELSE RefsOff \ {Ref(k)}
    BY <1>2, <2>1, OneRef
  <2>3. UNCHANGED <<RefFiles, RefHidden, RefLatest>>
    BY <1>3, <2>2 DEF RefFiles, RefHidden, RefLatest
  <2>4. Abs!AFlag(Ref(k))
    BY <1>2, <1>3, <2>2, <2>3 DEF Abs!AFlag
  <2>5. QED
    BY <1>3, <2>4 DEF Abs!ANext
<1>5. CASE CommitHide(r)
  <2>1. /\ pc[r] = "recomputed" /\ UNCHANGED <<slug, off, files>>
        /\ hidden' = [hidden EXCEPT ![k] = Marked(r)] /\ latest' = [latest EXCEPT ![k] = seen[r]]
    BY <1>5 DEF CommitHide
  <2>2. /\ hidden'[k] = Marked(r) /\ latest'[k] = seen[r]
        /\ \A j \in Skills \ {k} : hidden'[j] = hidden[j] /\ latest'[j] = latest[j]
    BY <1>2, <2>1 DEF IInv, TypeOK
  <2>3. /\ RefFiles' = [RefFiles EXCEPT ![Ref(k)] = files[k]]
        /\ RefHidden' = [RefHidden EXCEPT ![Ref(k)] = hidden'[k]]
        /\ RefLatest' = [RefLatest EXCEPT ![Ref(k)] = latest'[k]]
        /\ RefsOff' = IF k \in off THEN RefsOff \cup {Ref(k)} ELSE RefsOff \ {Ref(k)}
    BY <1>2, <2>1, <2>2, OneRef
  <2>4. UNCHANGED <<RefFiles, RefsOff>>
    BY <1>3, <2>3 DEF RefFiles
  <2>5. req[r].version \in DOMAIN RefFiles[Ref(k)]
    BY <1>1, <1>3, <2>1
  <2>6. Marked(r) \in {RefHidden[Ref(k)] \cup {req[r].version}, RefHidden[Ref(k)] \ {req[r].version}}
    BY <1>3 DEF Marked
  <2>7. RefLatest' = [RefLatest EXCEPT ![Ref(k)] = Abs!Newest(Len(RefFiles[Ref(k)]), Marked(r))]
    <3>1. latest'[k] = Newest(Len(files[k]), Marked(r))
      BY <1>1, <2>1, <2>2
    <3>2. latest'[k] = Abs!Newest(Len(RefFiles[Ref(k)]), Marked(r))
      BY <1>3, <3>1, SameNewest
    <3>3. QED
      BY <2>3, <3>2
  <2>8. Abs!AMark(Ref(k))
    BY <2>2, <2>3, <2>4, <2>5, <2>6, <2>7 DEF Abs!AMark
  <2>9. QED
    BY <1>3, <2>8 DEF Abs!ANext
<1>6. QED
  BY <1>4, <1>5

\* Every step is a step of the registry, or invisible to it.
LEMMA StepRefines == IInv /\ IInv' /\ [Next]_vars => [Abs!ANext]_(Abs!avars)
<1> SUFFICES ASSUME IInv, IInv', [Next]_vars PROVE Abs!ANext \/ UNCHANGED Abs!avars
  OBVIOUS
<1>1. CASE UNCHANGED <<slug, files, hidden, latest, off>>
  BY <1>1 DEF Abs!avars, RefFiles, RefHidden, RefLatest, RefsOff, OfRef, Resolved
<1>2. ASSUME NEW r \in Requests, Commit(r) PROVE Abs!ANext \/ UNCHANGED Abs!avars
  BY <1>2, CommitRefines
<1>3. ASSUME NEW r \in Requests, HideSkill(r) \/ CommitHide(r) PROVE Abs!ANext
  BY <1>3, HideRefines
<1>4. ASSUME NEW r \in Requests, CommitSlug(r) PROVE UNCHANGED Abs!avars
  <2>1. CASE Refuse(r)
    BY <2>1 DEF Refuse, tables, Abs!avars, RefFiles, RefHidden, RefLatest, RefsOff, OfRef, Resolved
  <2>2. CASE ~Refuse(r)
    <3>1. /\ pc[r] = "free" /\ slug' = [slug EXCEPT ![req[r].org] = req[r].slug]
          /\ UNCHANGED <<source, latest, off, files, hidden>>
      BY <1>4, <2>2 DEF CommitSlug
    <3>2. req[r].org \in Orgs /\ ~HasPublished(req[r].org)
      BY <3>1 DEF IInv, RequestsSound, ChecksHold, SlugRequest
    <3>3. QED
      BY <3>1, <3>2, MoveInvisible DEF Abs!avars
  <2>3. QED
    BY <2>1, <2>2
<1>5. CASE BootstrapSlug
  <2>1. PICK t \in Slugs : slug' = [slug EXCEPT ![DefaultOrg] = t]
    BY <1>5 DEF BootstrapSlug
  <2>2. UNCHANGED <<source, latest, off, files, hidden>> /\ ~HasPublished(DefaultOrg)
    BY <1>5, SlugAssumption DEF BootstrapSlug, IInv, DefaultUnpublished
  <2>3. QED
    BY <2>1, <2>2, SlugAssumption, MoveInvisible DEF Abs!avars
<1>6. ASSUME NEW r \in Requests, Publish(r) \/ Hide(r) \/ Move(r) \/ Abort(r)
      PROVE  \/ UNCHANGED <<slug, files, hidden, latest, off>>
             \/ Commit(r) \/ HideSkill(r) \/ CommitHide(r) \/ CommitSlug(r)
  BY <1>6 DEF Publish, StartPublish, LockOrg, LockSkill, CheckDuplicate, ReadLast, Hide, StartHide,
              LockHide, MarkVersion, Recompute, Move, StartSlug, LockSlug, CheckPublished,
              CheckTaken, Abort, Start, Refuse, Answer, tables
<1>7. QED
  BY <1>1, <1>2, <1>3, <1>4, <1>5, <1>6 DEF Next, vars, tables

\* The handlers implement the registry's promise of refs.
THEOREM Refinement == Spec => AbsSpec
<1>1. Init => Abs!AInit
  BY InitRefines
<1>2. IInv /\ IInv' /\ [Next]_vars => [Abs!ANext]_(Abs!avars)
  BY StepRefines
<1>3. QED
  BY <1>1, <1>2, Invariance, PTL DEF Spec, AbsSpec, Abs!ASpec
=============================================================================
