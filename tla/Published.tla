----------------------------- MODULE Published -----------------------------
(***************************************************************************)
(* Public sharing: publish, unpublish and restore                          *)
(* (src/apps/server/src/storage/published.ts) and the moves of an org to   *)
(* another slug (auth/orgs.ts, auth/bootstrap.ts) they have to be          *)
(* serialized with, over Postgres at READ COMMITTED, as anyone who         *)
(* resolves @<slug>/<name> sees them (storage/registry.ts).                *)
(*                                                                         *)
(* A member of Requests is one run of a handler; each statement that       *)
(* another run can come between is a step, and a transaction's writes are  *)
(* applied by its last step.  Which request holds a row lock follows from  *)
(* how far it has come.                                                    *)
(***************************************************************************)
EXTENDS Integers, Sequences, FiniteSets

CONSTANTS
    Orgs,
    Slugs,          \* values of orgs.slug
    DefaultSlug,    \* the slug an org is seeded with
    DefaultOrg,     \* the org of a self-hosted server
    Names,          \* public names
    Sources,        \* org-scope units (agent and name) to publish from
    NoSource,       \* there is no published_skills row
    Files,          \* file lists
    Requests,
    NoRequest

ASSUME SlugAssumption == DefaultSlug \in Slugs /\ DefaultOrg \in Orgs

ASSUME SourceAssumption == NoSource \notin Sources

ASSUME FilesAssumption == Files # {}

Skills == Orgs \X Names

VARIABLES
    slug,           \* orgs.slug
    source,         \* the unit a published_skills row is published from
    latest,         \* published_skills.latest
    off,            \* the skills with unpublished_at set
    files,          \* the manifests of a skill's published_versions, by number
    hidden,         \* the version numbers with unpublished_at set
    pc,             \* where each request is
    req,            \* what it asks for
    seen,           \* the number its last max(version) query found
    promised        \* history: every ref that was published, with its files

tables == <<slug, source, latest, off, files, hidden>>
vars == <<tables, pc, req, seen, promised>>

PublishRequest == [op : {"publish"}, skill : Skills, source : Sources, files : Files,
                   licensed : BOOLEAN]
HideRequest == [op : {"hide"}, skill : Skills, version : Nat, hide : BOOLEAN]
SlugRequest == [op : {"slug"}, org : Orgs, slug : Slugs]
Request == PublishRequest \cup HideRequest \cup SlugRequest

\* Control points that hold the org's row, and those that hold the skill's.
OrgLocked == {"org", "skill", "fresh", "numbered", "slug", "unpublished", "free"}
SkillLocked == {"skill", "fresh", "numbered", "hide", "marked", "recomputed"}
Answered == {"accepted", "refused"}
ControlPoint == {"new", "publish", "hiding", "moving"} \cup OrgLocked \cup SkillLocked \cup Answered

Org(r) == IF req[r].op = "slug" THEN req[r].org ELSE req[r].skill[1]

NoOrgLock(o) == TRUE

OrgFree(o) == \A r \in Requests : pc[r] \in OrgLocked => Org(r) # o

NoSkillLock(k) == TRUE

SkillFree(k) == \A r \in Requests : pc[r] \in SkillLocked => req[r].skill # k

\* max(version) of the rows not hidden; 0 when there is none.
Newest(n, hide) ==
    IF (1..n) \ hide = {} THEN 0 ELSE CHOOSE v \in (1..n) \ hide :
                                         \A w \in (1..n) \ hide : w <= v

Goto(r, where) == pc' = [pc EXCEPT ![r] = where]

\* The request is answered: its transaction, if any, is over.
Answer(r, how) ==
    /\ Goto(r, how)
    /\ req' = [req EXCEPT ![r] = NoRequest]
    /\ seen' = [seen EXCEPT ![r] = 0]

Refuse(r) == Answer(r, "refused") /\ UNCHANGED <<tables, promised>>

-----------------------------------------------------------------------------

Init ==
    /\ slug \in [Orgs -> Slugs]
    /\ \A o, p \in Orgs : slug[o] = slug[p] => o = p
    /\ source = [k \in Skills |-> NoSource]
    /\ latest = [k \in Skills |-> 0]
    /\ off = {}
    /\ files = [k \in Skills |-> <<>>]
    /\ hidden = [k \in Skills |-> {}]
    /\ pc = [r \in Requests |-> "new"]
    /\ req = [r \in Requests |-> NoRequest]
    /\ seen = [r \in Requests |-> 0]
    /\ promised = {}

Start(r, q, where) ==
    /\ pc[r] = "new"
    /\ req' = [req EXCEPT ![r] = q]
    /\ Goto(r, where)
    /\ UNCHANGED <<tables, seen, promised>>

-----------------------------------------------------------------------------
(* publish.                                                                *)

\* Store.publish fetches the unit's manifest, whatever it is at the time,
\* before the transaction begins.
StartPublish(r) == \E q \in PublishRequest : Start(r, q, "publish")

LockOrg(r) ==
    LET o == Org(r) IN
    /\ pc[r] = "publish"
    /\ OrgFree(o)
    /\ IF slug[o] = DefaultSlug
         THEN Refuse(r)
         ELSE /\ Goto(r, "org")
              /\ UNCHANGED <<tables, req, seen, promised>>

\* The skill's row is locked, or inserted if the request names a license.
LockSkill(r) ==
    LET k == req[r].skill IN
    /\ pc[r] = "org"
    /\ SkillFree(k)
    /\ IF source[k] = req[r].source \/ (source[k] = NoSource /\ req[r].licensed)
         THEN /\ Goto(r, "skill")
              /\ UNCHANGED <<tables, req, seen, promised>>
         ELSE Refuse(r)

DuplicateShown(k, f) ==
    \E v \in DOMAIN files[k] \ hidden[k] : files[k][v] = f

\* Any version of the skill, hidden or not, has these files.
Duplicate(k, f) == \E v \in DOMAIN files[k] : files[k][v] = f

CheckDuplicate(r) ==
    /\ pc[r] = "skill"
    /\ IF Duplicate(req[r].skill, req[r].files)
         THEN Refuse(r)
         ELSE /\ Goto(r, "fresh")
              /\ UNCHANGED <<tables, req, seen, promised>>

ReadLast(r) ==
    /\ pc[r] = "fresh"
    /\ seen' = [seen EXCEPT ![r] = Len(files[req[r].skill])]
    /\ Goto(r, "numbered")
    /\ UNCHANGED <<tables, req, promised>>

\* Inserts the version and makes it the latest of a visible skill.  A number
\* that is taken breaks the primary key.
Commit(r) ==
    LET k == req[r].skill
        n == seen[r] + 1
    IN
    /\ pc[r] = "numbered"
    /\ IF n \in DOMAIN files[k]
         THEN Refuse(r)
         ELSE /\ source' = [source EXCEPT ![k] = req[r].source]
              /\ files' = [files EXCEPT ![k] = Append(@, req[r].files)]
              /\ latest' = [latest EXCEPT ![k] = n]
              /\ off' = off \ {k}
              /\ promised' = promised \cup
                   {[slug |-> slug[k[1]], name |-> k[2], version |-> n, files |-> req[r].files]}
              /\ Answer(r, "accepted")
              /\ UNCHANGED <<slug, hidden>>

-----------------------------------------------------------------------------
(* unpublish and restore; version 0 is the whole skill.                    *)

StartHide(r) ==
    \E k \in Skills, v \in 0..Cardinality(Files), b \in BOOLEAN :
        Start(r, [op |-> "hide", skill |-> k, version |-> v, hide |-> b], "hiding")

\* skillRow; a skill or a version there is none of is a 404.
LockHide(r) ==
    LET k == req[r].skill IN
    /\ pc[r] = "hiding"
    /\ SkillFree(k)
    /\ IF source[k] = NoSource
         THEN Refuse(r)
         ELSE /\ Goto(r, "hide")
              /\ UNCHANGED <<tables, req, seen, promised>>

HideSkill(r) ==
    /\ pc[r] = "hide"
    /\ req[r].version = 0
    /\ off' = IF req[r].hide THEN off \cup {req[r].skill} ELSE off \ {req[r].skill}
    /\ Answer(r, "accepted")
    /\ UNCHANGED <<slug, source, latest, files, hidden, promised>>

\* The update of the version's row, which nobody else sees yet.
MarkVersion(r) ==
    /\ pc[r] = "hide"
    /\ req[r].version # 0
    /\ IF req[r].version \in DOMAIN files[req[r].skill]
         THEN /\ Goto(r, "marked")
              /\ UNCHANGED <<tables, req, seen, promised>>
         ELSE Refuse(r)

\* What unpublished_at says of the versions once this request has marked its.
Marked(r) ==
    IF req[r].hide THEN hidden[req[r].skill] \cup {req[r].version}
    ELSE hidden[req[r].skill] \ {req[r].version}

Latest(r) == Newest(Len(files[req[r].skill]), Marked(r))

Recompute(r) ==
    /\ pc[r] = "marked"
    /\ seen' = [seen EXCEPT ![r] = Latest(r)]
    /\ Goto(r, "recomputed")
    /\ UNCHANGED <<tables, req, promised>>

CommitHide(r) ==
    LET k == req[r].skill IN
    /\ pc[r] = "recomputed"
    /\ hidden' = [hidden EXCEPT ![k] = Marked(r)]
    /\ latest' = [latest EXCEPT ![k] = seen[r]]
    /\ Answer(r, "accepted")
    /\ UNCHANGED <<slug, source, off, files, promised>>

-----------------------------------------------------------------------------
(* updateOrg.                                                              *)

StartSlug(r) == \E q \in SlugRequest : Start(r, q, "moving")

LockSlug(r) ==
    /\ pc[r] = "moving"
    /\ OrgFree(Org(r))
    /\ IF req[r].slug = slug[Org(r)]
         THEN Answer(r, "accepted") /\ UNCHANGED <<tables, promised>>
         ELSE Goto(r, "slug") /\ UNCHANGED <<tables, req, seen, promised>>

PublishedVisibly(o) == \E n \in Names : latest[<<o, n>>] > 0

\* publishedCount: hidden skills count too.
HasPublished(o) == \E n \in Names : source[<<o, n>>] # NoSource

CheckPublished(r) ==
    /\ pc[r] = "slug"
    /\ IF HasPublished(req[r].org)
         THEN Refuse(r)
         ELSE Goto(r, "unpublished") /\ UNCHANGED <<tables, req, seen, promised>>

Taken(o, s) == \E p \in Orgs \ {o} : slug[p] = s

CheckTaken(r) ==
    /\ pc[r] = "unpublished"
    /\ IF Taken(req[r].org, req[r].slug)
         THEN Refuse(r)
         ELSE Goto(r, "free") /\ UNCHANGED <<tables, req, seen, promised>>

\* A slug that another org took meanwhile breaks the unique index.
CommitSlug(r) ==
    /\ pc[r] = "free"
    /\ IF Taken(req[r].org, req[r].slug)
         THEN Refuse(r)
         ELSE /\ slug' = [slug EXCEPT ![req[r].org] = req[r].slug]
              /\ Answer(r, "accepted")
              /\ UNCHANGED <<source, latest, off, files, hidden, promised>>

\* ensureDefaultOrg: a server that starts with STIFT_ORG_SLUG moves its org
\* from the seeded slug, in one UPDATE ... WHERE slug = 'default'.
BootstrapSlug ==
    /\ OrgFree(DefaultOrg)
    /\ slug[DefaultOrg] = DefaultSlug
    /\ \E s \in Slugs :
          /\ ~Taken(DefaultOrg, s)
          /\ slug' = [slug EXCEPT ![DefaultOrg] = s]
    /\ UNCHANGED <<source, latest, off, files, hidden, pc, req, seen, promised>>

-----------------------------------------------------------------------------

\* A lost connection or a restart rolls the transaction back.
Abort(r) == pc[r] \notin {"new"} \cup Answered /\ Refuse(r)

Publish(r) ==
    StartPublish(r) \/ LockOrg(r) \/ LockSkill(r) \/ CheckDuplicate(r) \/ ReadLast(r) \/ Commit(r)

Hide(r) ==
    StartHide(r) \/ LockHide(r) \/ HideSkill(r) \/ MarkVersion(r) \/ Recompute(r) \/ CommitHide(r)

Move(r) == StartSlug(r) \/ LockSlug(r) \/ CheckPublished(r) \/ CheckTaken(r) \/ CommitSlug(r)

Next ==
    \/ \E r \in Requests : Publish(r) \/ Hide(r) \/ Move(r) \/ Abort(r)
    \/ BootstrapSlug

Spec == Init /\ [][Next]_vars

-----------------------------------------------------------------------------
(* Properties.                                                             *)

\* Types of the variables.
TypeOK ==
    /\ slug \in [Orgs -> Slugs]
    /\ source \in [Skills -> Sources \cup {NoSource}]
    /\ latest \in [Skills -> Nat]
    /\ off \subseteq Skills
    /\ files \in [Skills -> Seq(Files)]
    /\ hidden \in [Skills -> SUBSET Nat]
    /\ pc \in [Requests -> ControlPoint]
    /\ req \in [Requests -> Request \cup {NoRequest}]
    /\ seen \in [Requests -> Nat]
    /\ promised \subseteq [slug : Slugs, name : Names, version : Nat, files : Files]

\* @<slug>/<name>@<version>, once published, resolves to the same files for
\* ever: no move of an org to another slug, by whoever and whenever, takes it
\* away or gives it to another org.
RefsKept ==
    \A p \in promised :
        \E o \in Orgs :
            /\ slug[o] = p.slug
            /\ \A q \in Orgs \ {o} : slug[q] # p.slug
            /\ p.version \in DOMAIN files[<<o, p.name>>]
            /\ files[<<o, p.name>>][p.version] = p.files

\* `latest` is the newest version that is not hidden, whatever publishes,
\* unpublishes and restores of the skill ran at the same time.
LatestNewest ==
    \A k \in Skills : latest[k] = Newest(Len(files[k]), hidden[k])

\* The same files are never published twice as one skill, not even when the
\* first publication is hidden.
NoDuplicates ==
    \A k \in Skills : \A v, w \in DOMAIN files[k] :
        files[k][v] = files[k][w] => v = w

\* An org that still has the seeded slug has published nothing, which is what
\* lets a restart move it (ensureDefaultOrg).
DefaultUnpublished ==
    \A o \in Orgs : slug[o] = DefaultSlug => ~HasPublished(o)

-----------------------------------------------------------------------------
(* The inductive invariant behind them.                                    *)

\* A slug is one org's.
SlugsUnique == \A o, p \in Orgs : slug[o] = slug[p] => o = p

\* At most one request holds an org's row, and at most one a skill's.
LocksExclusive ==
    \A r, s \in Requests :
        /\ pc[r] \in OrgLocked /\ pc[s] \in OrgLocked /\ Org(r) = Org(s) => r = s
        /\ pc[r] \in SkillLocked /\ pc[s] \in SkillLocked /\ req[r].skill = req[s].skill
             => r = s

\* A skill has a row exactly when it has versions, and only they are hidden.
RowsSound ==
    \A k \in Skills :
        /\ source[k] = NoSource <=> files[k] = <<>>
        /\ hidden[k] \subseteq DOMAIN files[k]
        /\ files[k] = <<>> => k \notin off

\* A request asks for what its control point says.
RequestsSound ==
    \A r \in Requests :
        /\ pc[r] \in {"publish", "org", "skill", "fresh", "numbered"} => req[r] \in PublishRequest
        /\ pc[r] \in {"hiding", "hide", "marked", "recomputed"} => req[r] \in HideRequest
        /\ pc[r] \in {"moving", "slug", "unpublished", "free"} => req[r] \in SlugRequest

\* What a transaction has read under its locks is still so.
ChecksHold ==
    \A r \in Requests :
        /\ pc[r] \in {"org", "skill", "fresh", "numbered"} => slug[Org(r)] # DefaultSlug
        /\ pc[r] \in {"skill", "fresh", "numbered"} =>
              source[req[r].skill] \in {req[r].source, NoSource}
        /\ pc[r] \in {"fresh", "numbered"} => ~Duplicate(req[r].skill, req[r].files)
        /\ pc[r] = "numbered" => seen[r] = Len(files[req[r].skill])
        /\ pc[r] \in {"hide", "marked", "recomputed"} => source[req[r].skill] # NoSource
        /\ pc[r] \in {"marked", "recomputed"} => req[r].version \in DOMAIN files[req[r].skill]
        /\ pc[r] = "recomputed" => seen[r] = Latest(r)
        /\ pc[r] \in {"unpublished", "free"} => ~HasPublished(req[r].org)

\* Whatever requests interleave, their locks keep what each has read true
\* until it commits.
IInv ==
    /\ TypeOK
    /\ SlugsUnique
    /\ LocksExclusive
    /\ RequestsSound
    /\ RowsSound
    /\ ChecksHold
    /\ RefsKept
    /\ LatestNewest
    /\ NoDuplicates
    /\ DefaultUnpublished

-----------------------------------------------------------------------------

\* The skill a ref names, if an org has the slug.
Resolved(ref) == {k \in Skills : slug[k[1]] = ref[1] /\ k[2] = ref[2]}

OfRef(f, ref, none) ==
    IF Resolved(ref) = {} THEN none ELSE f[CHOOSE k \in Resolved(ref) : TRUE]

\* The tables as a reader of refs sees them.
Refs == Slugs \X Names
RefFiles == [ref \in Refs |-> OfRef(files, ref, <<>>)]
RefHidden == [ref \in Refs |-> OfRef(hidden, ref, {})]
RefLatest == [ref \in Refs |-> OfRef(latest, ref, 0)]
RefsOff == {ref \in Refs : Resolved(ref) \cap off # {}}

Abs == INSTANCE PublicRegistry WITH
    published <- RefFiles, withdrawn <- RefHidden, resolves <- RefLatest, off <- RefsOff

\* What publish, unpublish, restore and moves of orgs do is what the registry
\* promises of refs; everything between is invisible.
AbsSpec == Abs!ASpec
=============================================================================
