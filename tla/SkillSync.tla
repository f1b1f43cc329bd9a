------------------------------ MODULE SkillSync ------------------------------
(***************************************************************************)
(* One unit of agent configuration on several machines: the sync of the    *)
(* CLI and of the daemon (src/cli/internal/skillsync/skillsync.go,         *)
(* internal/bundle, internal/daemon/skills.go, cmd_skills.go) and the      *)
(* browser's editor (src/apps/web/src) against the unit's history on the   *)
(* server, which is VersionedUnits with the one unit.                      *)
(*                                                                         *)
(* A manifest gives each path its content, an absent one Absent.  A        *)
(* process is a machine's daemon or a command on it; it loads the state    *)
(* file when it starts and saves all it loaded when it records something.  *)
(***************************************************************************)
EXTENDS Integers, Sequences, FiniteSets

CONSTANTS
    Machines,
    Daemons,        \* processes that run passes
    Commands,       \* processes that run one push or pull
    Host(_),        \* the machine of a process
    Pages,          \* browser pages that show the unit
    Paths, Contents,
    Absent,         \* no file at a path
    Scopes,         \* the scopes the unit may have: "user", "org"
    Debounced,      \* whether STIFT_SKILLS_DEBOUNCE is above 0
    MaxVersion,     \* bound: versions of one life of the unit
    MaxLives,       \* bound: times the unit is deleted
    MaxActs,        \* bound: edits, saves and commands of the users
    Nothing         \* no page, no pending hash, no unit on the server

Processes == Daemons \cup Commands

ASSUME ProcessAssumption ==
    Daemons \cap Commands = {} /\ \A q \in Processes : Host(q) \in Machines

ASSUME ContentAssumption == Absent \notin Contents

ASSUME BoundAssumption == MaxVersion \in Nat /\ MaxLives \in Nat /\ MaxActs \in Nat

Manifest == [Paths -> Contents \cup {Absent}]
NoFiles == [p \in Paths |-> Absent]

PathsOf(m) == {p \in Paths : m[p] # Absent}

VARIABLES
    scope,          \* of the unit
    server,         \* the unit's versions
    life,           \* history: how many times it was deleted
    blobs,          \* contents the server has
    files,          \* what is on each machine's disk
    state,          \* the unit's entry in each machine's state file
    pending,        \* debouncer.seen of each machine's daemon
    pc,             \* where each process is
    job,            \* what it has read and is about to do
    page,           \* what each browser page was opened with
    edited,         \* history: paths the user changed since they were in sync
    upset,          \* history: machines where a sync was cut short, ran beside
                    \* another, or recorded what it had just removed
    ever,           \* history: the contents versions had, by path
    acts            \* how many acts of the users there were

vars == <<scope, server, life, blobs, files, state, pending, pc, job, page, edited, upset, ever, acts>>

Latest == Len(server)
LatestFiles == server[Latest].files

\* A missing entry is the zero one.
Entry == [version : 0..MaxVersion, manifest : Manifest, life : 0..MaxLives]
NoEntry == [version |-> 0, manifest |-> NoFiles, life |-> 0]

\* What a process holds: the entry it loaded, the files it built, their edits,
\* the server's version, and how far it got applying it.
Job == [op : {"pass", "push", "pull"}, force : BOOLEAN, mem : Entry,
        local : Manifest, dirty : SUBSET Paths,
        version : 0..MaxVersion, remote : Manifest, life : 0..MaxLives,
        todo : SUBSET Paths, conflicts : SUBSET Paths,
        at : Paths \cup {Nothing}, found : Contents \cup {Absent}]

NoJob == [op |-> "pass", force |-> FALSE, mem |-> NoEntry, local |-> NoFiles, dirty |-> {},
          version |-> 0, remote |-> NoFiles, life |-> 0, todo |-> {}, conflicts |-> {},
          at |-> Nothing, found |-> Absent]

ControlPoint == {"idle", "loaded", "listed", "applying", "writing",
                 "built", "uploading", "putting", "accepted"}

Goto(q, where) == pc' = [pc EXCEPT ![q] = where]

Do(q, j) == job' = [job EXCEPT ![q] = j]

End(q) == Goto(q, "idle") /\ Do(q, NoJob)

Unchanged(e, local) == e.version > 0 /\ e.manifest = local

-----------------------------------------------------------------------------
(* The server.                                                             *)

IgnoresParent(parent, force) == Latest < MaxVersion

\* PUT /v1/bundles: a parent that is not the head is a 409.
Accepts(parent, force) == Latest < MaxVersion /\ (force \/ parent = Latest)

Publish(parent, force, manifest) ==
    /\ server' = Append(server, [parent |-> parent, forced |-> force, files |-> manifest])
    /\ ever' = ever \cup {<<p, manifest[p]>> : p \in PathsOf(manifest)}

\* `stift skills delete`, or the browser's: the unit and its history.
Delete ==
    /\ Latest > 0
    /\ life < MaxLives
    /\ server' = <<>>
    /\ life' = life + 1
    /\ UNCHANGED <<scope, blobs, files, state, pending, pc, job, page, edited, upset, ever, acts>>

-----------------------------------------------------------------------------
(* A sync of the unit.                                                     *)

\* skillsync.New: the state file is loaded.  Commands are given --force or
\* not; the daemon never forces but for org units.
Start(q) ==
    /\ pc[q] = "idle"
    /\ \E op \in {"pass", "push", "pull"}, force \in BOOLEAN :
          /\ (q \in Daemons) <=> (op = "pass")
          /\ force /\ op = "pass" => scope = "org"
          /\ scope = "org" /\ op = "pass" => force
          /\ Do(q, [NoJob EXCEPT !.op = op, !.force = force, !.mem = state[Host(q)]])
    /\ Goto(q, "loaded")
    /\ q \in Commands => acts < MaxActs
    /\ acts' = IF q \in Commands THEN acts + 1 ELSE acts
    /\ upset' = upset \cup {Host(o) : o \in {o \in Processes \ {q} : pc[o] # "idle" /\ Host(o) = Host(q)}}
    /\ UNCHANGED <<scope, server, life, blobs, files, state, pending, page, edited, ever>>

\* What Apply has to look at: the version's files and those of the last sync.
ToApply(j, remote) == PathsOf(remote) \cup PathsOf(j.mem.manifest)

\* The job with the server's version, or without one when the unit is not
\* listed.
WithHead(j) ==
    IF Latest = 0 THEN j
    ELSE [j EXCEPT !.version = Latest, !.remote = LatestFiles, !.life = life]

\* ListBundles.  A pull applies the head, or an older version it asks for with
\* --version; a unit that was synced and is not listed is removed.
List(q) ==
    LET j == WithHead(job[q]) IN
    /\ pc[q] = "loaded"
    /\ \/ /\ j.op = "pass"
          /\ Do(q, j)
          /\ Goto(q, "listed")
       \/ /\ j.op = "pull"
          /\ j.version > 0 \/ j.mem.version > 0
          /\ Do(q, [j EXCEPT !.todo = ToApply(j, j.remote)])
          /\ Goto(q, "applying")
       \/ /\ j.op = "pull"
          /\ \E v \in 1..Latest - 1 :
                Do(q, [j EXCEPT !.version = v, !.remote = server[v].files,
                                !.todo = ToApply(j, server[v].files)])
          /\ Goto(q, "applying")
    /\ UNCHANGED <<scope, server, life, blobs, files, state, pending, page, edited, upset, ever, acts>>

\* decidePull.
DecidePull(entry, version, local) ==
    CASE version <= entry.version -> "skip"
      [] scope = "org" -> "apply"
      [] local # NoFiles /\ (entry.version = 0 \/ local # entry.manifest) -> "conflict"
      [] OTHER -> "apply"

\* What a pass goes on to its push with, which is never forced.
ForPush(j) == [NoJob EXCEPT !.mem = j.mem, !.local = j.local, !.dirty = j.dirty]

\* Build of the unit, which a pass does not do in org scope, and what comes of
\* it: a pass removes a unit that is gone from the server, applies a newer
\* version unless that is a conflict, and otherwise considers a push.
Build(q) ==
    LET m == Host(q)
        built == IF scope = "org" /\ job[q].op = "pass" THEN NoFiles ELSE files[m]
        j == [job[q] EXCEPT !.local = built, !.dirty = edited[m]]
        removes == j.version = 0 /\ j.mem.version > 0
        applies == j.version > 0 /\ DecidePull(j.mem, j.version, built) = "apply"
    IN
    /\ \/ /\ pc[q] = "listed"
          /\ removes \/ applies
          /\ Do(q, [j EXCEPT !.force = @ /\ applies, !.todo = ToApply(j, j.remote)])
          /\ Goto(q, "applying")
       \/ /\ pc[q] = "listed"
          /\ ~(removes \/ applies)
          /\ Do(q, ForPush(j))
          /\ Goto(q, "built")
       \/ /\ pc[q] = "loaded"
          /\ j.op = "push"
          /\ Do(q, j)
          /\ Goto(q, "built")
    /\ UNCHANGED <<scope, server, life, blobs, files, state, pending, page, edited, upset, ever, acts>>

\* Apply, one path: files the version has come before those it removed.
NextPath(j, p) == p \in j.todo /\ (j.remote[p] = Absent => j.todo \cap PathsOf(j.remote) = {})

OverwritesAny(j, cur, p) == FALSE

\* A file that is neither what the last sync left nor the version's is kept.
Conflicts(j, cur, p) == cur # Absent /\ ~j.force /\ cur # j.mem.manifest[p]

\* LocalSHA of the file, and what follows from it.
Check(q, p) ==
    LET j == [job[q] EXCEPT !.todo = @ \ {p}]
        cur == files[Host(q)][p]
    IN
    /\ pc[q] = "applying"
    /\ NextPath(job[q], p)
    /\ CASE cur = j.remote[p] -> Do(q, j) /\ UNCHANGED pc
         [] cur # j.remote[p] /\ Conflicts(j, cur, p) ->
               Do(q, [j EXCEPT !.conflicts = @ \cup {p}]) /\ UNCHANGED pc
         [] OTHER -> Do(q, [j EXCEPT !.at = p, !.found = cur]) /\ Goto(q, "writing")
    /\ UNCHANGED <<scope, server, life, blobs, files, state, pending, page, edited, upset, ever, acts>>

\* The blob is fetched to a temporary file and renamed over the path, or the
\* file is removed.
Write(q) ==
    LET j == job[q] IN
    /\ pc[q] = "writing"
    /\ files' = [files EXCEPT ![Host(q)][j.at] = j.remote[j.at]]
    /\ Do(q, [j EXCEPT !.at = Nothing, !.found = Absent])
    /\ Goto(q, "applying")
    /\ UNCHANGED <<scope, server, life, blobs, state, pending, page, edited, upset, ever, acts>>

\* State.Set or Forget: the whole file is saved as the process has it.  But for
\* conflicts, what is on disk as recorded is in sync.
Records(q, e) ==
    LET m == Host(q) IN
    /\ state' = [state EXCEPT ![m] = e]
    /\ edited' = [edited EXCEPT ![m] =
                     {p \in @ : p \in job[q].conflicts \/ files[m][p] # e.manifest[p]}]

\* What is on disk after Apply, as far as a sync put it there.
KeepsBase(q, j) == j.mem.manifest
WholeDisk(q, j) == files[Host(q)]
Left(q, j) == [p \in Paths |-> IF p \in j.conflicts THEN j.mem.manifest[p] ELSE j.remote[p]]

Applied(q, j) == [version |-> j.version, manifest |-> Left(q, j), life |-> j.life]

\* A pull records the version; a removal forgets the unit unless modified
\* files were kept, and a pass goes on to its push with the files it built
\* before.
Finish(q) ==
    LET j == job[q] IN
    /\ pc[q] = "applying"
    /\ j.todo = {}
    /\ \/ /\ j.version > 0
          /\ Records(q, Applied(q, j))
          /\ pending' = IF j.op = "pass" THEN [pending EXCEPT ![Host(q)] = Nothing] ELSE pending
          /\ End(q)
       \/ /\ j.version = 0
          /\ IF j.conflicts = {} THEN Records(q, NoEntry)
                                 ELSE UNCHANGED <<state, edited>>
          /\ UNCHANGED pending
          /\ IF j.op = "pass"
               THEN /\ Goto(q, "built")
                    /\ Do(q, [ForPush(j) EXCEPT !.mem = IF j.conflicts = {} THEN NoEntry ELSE @])
               ELSE End(q)
    /\ UNCHANGED <<scope, server, life, blobs, files, page, upset, ever, acts>>

\* A unit with no files, or as the last sync left it, is not pushed.
Skip(q) ==
    LET j == job[q] IN
    /\ pc[q] = "built"
    /\ j.local = NoFiles \/ Unchanged(j.mem, j.local)
    /\ pending' = IF j.op = "pass" /\ j.local # NoFiles
                    THEN [pending EXCEPT ![Host(q)] = Nothing] ELSE pending
    /\ End(q)
    /\ UNCHANGED <<scope, server, life, blobs, files, state, page, edited, upset, ever, acts>>

\* Observe: a unit is settled once the same hash was there for the window.
Settled(m, local) ==
    IF pending[m] # Nothing /\ pending[m].hash = local THEN pending[m].settled ELSE ~Debounced

\* The daemon pushes a changed unit that has settled, a command any changed one.
Consider(q) ==
    LET j == job[q]
        m == Host(q)
    IN
    /\ pc[q] = "built"
    /\ j.local # NoFiles /\ ~Unchanged(j.mem, j.local)
    /\ IF j.op = "push"
         THEN Goto(q, "uploading") /\ UNCHANGED <<pending, job>>
         ELSE /\ pending' = IF pending[m] # Nothing /\ pending[m].hash = j.local
                              THEN pending
                              ELSE [pending EXCEPT ![m] = [hash |-> j.local, settled |-> ~Debounced]]
              /\ IF Settled(m, j.local) THEN Goto(q, "uploading") /\ UNCHANGED job ELSE End(q)
    /\ UNCHANGED <<scope, server, life, blobs, files, state, page, edited, upset, ever, acts>>

\* UploadBlobs: what the server misses is read from the disk again, and
\* refused by its digest when it has changed.
Upload(q) ==
    LET j == job[q] IN
    /\ pc[q] = "uploading"
    /\ \A p \in PathsOf(j.local) : j.local[p] \in blobs \/ files[Host(q)][p] = j.local[p]
    /\ blobs' = blobs \cup {j.local[p] : p \in PathsOf(j.local)}
    /\ Goto(q, "putting")
    /\ UNCHANGED <<scope, server, life, files, state, pending, job, page, edited, upset, ever, acts>>

\* PutBundle with the last synced version as parent.
Put(q) ==
    LET j == job[q] IN
    /\ pc[q] = "putting"
    /\ Accepts(j.mem.version, j.force)
    /\ Publish(j.mem.version, j.force, j.local)
    /\ Do(q, [j EXCEPT !.version = Latest + 1, !.life = life])
    /\ Goto(q, "accepted")
    /\ UNCHANGED <<scope, life, blobs, files, state, pending, page, edited, upset, acts>>

\* The answer arrives and is recorded.
Record(q) ==
    LET j == job[q]
        m == Host(q)
    IN
    /\ pc[q] = "accepted"
    /\ Records(q, [version |-> j.version, manifest |-> j.local, life |-> j.life])
    /\ upset' = IF \A p \in Paths : j.local[p] = files[m][p] \/ p \in edited[m] THEN upset ELSE upset \cup {m}
    /\ pending' = IF j.op = "pass" THEN [pending EXCEPT ![m] = Nothing] ELSE pending
    /\ End(q)
    /\ UNCHANGED <<scope, server, life, blobs, files, page, ever, acts>>

\* A stale push, a failed call or file operation, or the end of the process,
\* which for a daemon is the end of what it had observed.  A pass whose Remove
\* or Pull failed goes on to its push.
Fail(q) ==
    LET m == Host(q) IN
    /\ pc[q] # "idle"
    /\ upset' = IF pc[q] \in {"applying", "writing", "accepted"} THEN upset \cup {m} ELSE upset
    /\ \/ End(q) /\ UNCHANGED pending
       \/ End(q) /\ q \in Daemons /\ pending' = [pending EXCEPT ![m] = Nothing]
       \/ /\ pc[q] \in {"applying", "writing"}
          /\ job[q].op = "pass"
          /\ Goto(q, "built")
          /\ Do(q, ForPush(job[q]))
          /\ UNCHANGED pending
    /\ UNCHANGED <<scope, server, life, blobs, files, state, page, edited, ever, acts>>

\* The pass or command records another unit, and with it this unit's entry as
\* it was when the file was loaded.
SaveOther(q) ==
    LET m == Host(q) IN
    /\ pc[q] # "idle"
    /\ state[m] # job[q].mem
    /\ state' = [state EXCEPT ![m] = job[q].mem]
    /\ UNCHANGED <<scope, server, life, blobs, files, pending, pc, job, page, edited, upset, ever, acts>>

-----------------------------------------------------------------------------
(* The users and the browser.                                              *)

Edit(m) ==
    /\ acts < MaxActs
    /\ \E p \in Paths, c \in Contents \cup {Absent} :
          /\ files[m][p] # c
          /\ files' = [files EXCEPT ![m][p] = c]
          /\ edited' = [edited EXCEPT ![m] = @ \cup {p}]
    /\ acts' = acts + 1
    /\ UNCHANGED <<scope, server, life, blobs, state, pending, pc, job, page, upset, ever>>

\* The debounce window passes.
Wait(m) ==
    /\ pending[m] # Nothing
    /\ pending' = [pending EXCEPT ![m].settled = TRUE]
    /\ UNCHANGED <<scope, server, life, blobs, files, state, pc, job, page, edited, upset, ever, acts>>

\* The page of the unit, or of a new one.
Open(w) ==
    /\ page[w] = Nothing
    /\ \/ /\ Latest = 0
          /\ page' = [page EXCEPT ![w] = [parent |-> 0, files |-> NoFiles]]
       \/ \E v \in 1..Latest :
             page' = [page EXCEPT ![w] = [parent |-> Latest, files |-> server[v].files]]
    /\ UNCHANGED <<scope, server, life, blobs, files, state, pending, pc, job, edited, upset, ever, acts>>

\* A page's PUT, with the head it was opened at.
Submit(w, manifest, force) ==
    /\ acts < MaxActs
    /\ Accepts(page[w].parent, force)
    /\ Publish(page[w].parent, force, manifest)
    /\ blobs' = blobs \cup {manifest[p] : p \in PathsOf(manifest)}
    /\ page' = [page EXCEPT ![w] = Nothing]
    /\ acts' = acts + 1
    /\ UNCHANGED <<scope, life, files, state, pending, pc, job, edited, upset>>

\* A file is saved or removed.  A 409 leaves the page, from which the user may
\* overwrite.
Save(w) ==
    /\ page[w] # Nothing
    /\ \E p \in Paths, c \in Contents \cup {Absent}, force \in BOOLEAN :
          /\ c # page[w].files[p]
          /\ force => page[w].parent # Latest
          /\ Submit(w, [page[w].files EXCEPT ![p] = c], force)

\* `stift skills rollback`, and the page's, which reads the same two versions:
\* the older one is published again.
RollBack(w) ==
    /\ page[w] # Nothing
    /\ page[w].parent > 0
    /\ Submit(w, page[w].files, FALSE)

Init ==
    /\ scope \in Scopes
    /\ server = <<>>
    /\ life = 0
    /\ blobs = {}
    /\ files = [m \in Machines |-> NoFiles]
    /\ state = [m \in Machines |-> NoEntry]
    /\ pending = [m \in Machines |-> Nothing]
    /\ pc = [q \in Processes |-> "idle"]
    /\ job = [q \in Processes |-> NoJob]
    /\ page = [w \in Pages |-> Nothing]
    /\ edited = [m \in Machines |-> {}]
    /\ upset = {}
    /\ ever = {}
    /\ acts = 0

Sync(q) ==
    \/ Start(q) \/ List(q) \/ Build(q)
    \/ (\E p \in Paths : Check(q, p)) \/ Write(q) \/ Finish(q)
    \/ Skip(q) \/ Consider(q) \/ Upload(q) \/ Put(q) \/ Record(q)

Next ==
    \/ \E q \in Processes : Sync(q) \/ Fail(q) \/ SaveOther(q)
    \/ \E m \in Machines : Edit(m) \/ Wait(m)
    \/ \E w \in Pages : Open(w) \/ Save(w) \/ RollBack(w)
    \/ Delete

Spec == Init /\ [][Next]_vars

-----------------------------------------------------------------------------
(* Properties.                                                             *)

Version == [parent : 0..MaxVersion, forced : BOOLEAN, files : Manifest]
Pending == [hash : Manifest, settled : BOOLEAN]
Page == [parent : 0..MaxVersion, files : Manifest]

\* The types of the variables.
TypeOK ==
    /\ scope \in Scopes
    /\ server \in Seq(Version) /\ Latest <= MaxVersion
    /\ life \in 0..MaxLives
    /\ blobs \subseteq Contents
    /\ files \in [Machines -> Manifest]
    /\ state \in [Machines -> Entry]
    /\ pending \in [Machines -> Pending \cup {Nothing}]
    /\ pc \in [Processes -> ControlPoint]
    /\ job \in [Processes -> Job]
    /\ page \in [Pages -> Page \cup {Nothing}]
    /\ edited \in [Machines -> SUBSET Paths]
    /\ upset \subseteq Machines
    /\ ever \subseteq Paths \X Contents
    /\ acts \in 0..MaxActs

\* A manifest all of whose contents some version had.
FromServer(m) == \A p \in PathsOf(m) : <<p, m[p]>> \in ever

\* What a machine has recorded or holds as the last synced manifest, and what
\* it is about to apply, was published.  Only on that ground may a file on disk
\* be overwritten or deleted.
EntriesPublished ==
    /\ \A m \in Machines : FromServer(state[m].manifest)
    /\ \A q \in Processes : FromServer(job[q].mem.manifest) /\ FromServer(job[q].remote)
    /\ \A v \in 1..Latest : FromServer(server[v].files)

\* What a process has found and checked at its control point.
JobsSound ==
    \A q \in Processes :
        /\ pc[q] \in {"loaded", "listed"} => job[q].conflicts = {}
        /\ pc[q] = "loaded" => job[q].version = 0 /\ job[q].remote = NoFiles
        /\ pc[q] = "writing" =>
              /\ job[q].at \in Paths \ job[q].todo
              /\ job[q].force \/ job[q].found = Absent \/ <<job[q].at, job[q].found>> \in ever
        /\ pc[q] \in {"uploading", "putting"} => job[q].local # NoFiles
        /\ pc[q] = "accepted" => FromServer(job[q].local) /\ job[q].version > 0

\* Where syncs neither overlap nor are cut short there is one at a time...
OneAtATime ==
    \A q, o \in Processes :
        Host(q) = Host(o) /\ pc[q] # "idle" /\ pc[o] # "idle" => q = o \/ Host(q) \in upset

\* What was synced as version v of a life of the unit, but for some paths, is
\* what the server has under that number, while that life lasts.
IsVersion(v, of, manifest, but) ==
    /\ of <= life
    /\ of = life => v <= Latest /\ \A p \in Paths \ but : manifest[p] = server[v].files[p]

Applying(q) == pc[q] \in {"applying", "writing"}

\* A file is as the sync e records left it, or was removed with the unit while
\* edited files stayed.
AsLeft(m, e, p) ==
    files[m][p] = e.manifest[p] \/ (files[m][p] = Absent /\ edited[m] # {} /\ e.life < life)

\* ... what is recorded is the version, and is on disk, but for the user's
\* edits...
RecordsTrue ==
    \A m \in Machines \ upset :
        /\ IF state[m].version = 0
              THEN state[m] = NoEntry
              ELSE IsVersion(state[m].version, state[m].life, state[m].manifest, edited[m])
        /\ \/ \E q \in Processes : Host(q) = m /\ Applying(q)
           \/ \A p \in Paths \ edited[m] : AsLeft(m, state[m], p)

\* ... and a sync holds what is recorded, knows a version of the server or that
\* the unit is gone, finds conflicts in edits only, and goes on to push what
\* differs from the last synced version by edits only.
JobsTrue ==
    \A q \in Processes :
        LET j == job[q]
            m == Host(q)
        IN
        pc[q] # "idle" /\ m \notin upset =>
            /\ j.mem = state[m]
            /\ pc[q] \in {"listed", "applying", "writing"} =>
                  IF j.version = 0
                    THEN j.remote = NoFiles /\ (j.mem.version = 0 \/ j.mem.life < life)
                    ELSE IsVersion(j.version, j.life, j.remote, {})
            /\ Applying(q) =>
                  /\ j.version > 0 \/ j.mem.version > 0
                  /\ j.conflicts \subseteq edited[m]
                  /\ \A p \in Paths \ edited[m] :
                        IF p \in j.todo \/ (pc[q] = "writing" /\ p = j.at)
                          THEN AsLeft(m, j.mem, p)
                          ELSE files[m][p] = j.remote[p]
            /\ pc[q] \in {"built", "uploading", "putting"} =>
                  j.local = NoFiles \/ j.mem.version = 0
                      \/ IsVersion(j.mem.version, j.mem.life, j.local, j.dirty)
            /\ pc[q] = "accepted" => IsVersion(j.version, j.life, j.local, {})

IInv ==
    /\ TypeOK
    /\ EntriesPublished
    /\ JobsSound
    /\ OneAtATime
    /\ RecordsTrue
    /\ JobsTrue

\* No sync without force destroys content the server never had, unless the
\* user wrote it after the sync had looked at the file.
EditsKept ==
    [][\A q \in Processes : pc[q] = "writing" /\ pc'[q] = "applying" /\ ~job[q].force =>
          LET p == job[q].at
              cur == files[Host(q)][p]
          IN cur = Absent \/ <<p, cur>> \in ever \/ job[q].found # cur]_vars

\* A push without force never takes back what someone else published: where
\* it differs from the head it replaces, its machine's user had made the
\* difference.  A head of a later life of the unit whose number happens to be
\* the one last synced, and a machine where a sync was cut short or ran beside
\* another, are the exceptions.
OthersKept ==
    [][\A q \in Processes : pc[q] = "putting" /\ pc'[q] = "accepted" =>
          LET j == job[q] IN
          \/ j.force \/ Latest = 0 \/ j.mem.life # life \/ Host(q) \in upset
          \/ \A p \in Paths : j.local[p] # LatestFiles[p] => p \in j.dirty]_vars

\* The daemon sees a conflict only where the user has edited or a sync went
\* wrong.
ConflictsEarned ==
    [][\A q \in Daemons : pc[q] = "listed" /\ pc'[q] = "built" =>
          LET m == Host(q) IN
          \/ job[q].version = 0
          \/ DecidePull(job[q].mem, job[q].version, files[m]) # "conflict"
          \/ edited[m] # {} \/ m \in upset]_vars

\* "Entry records the last synced version of one bundle and the manifest
\* (path -> sha256) that was on disk right after that sync": a recorded push
\* that differs from the disk was followed by an edit.
EntryWasOnDisk ==
    [][\A q \in Processes : pc[q] = "accepted" /\ state' # state =>
          LET m == Host(q) IN
          m \in upset \/ \A p \in Paths : state'[m].manifest[p] # files[m][p] => p \in edited[m]]_vars

\* The server is used through its interface.
Store == INSTANCE VersionedUnits WITH
    Units <- {"unit"}, Versions <- Version, SkillLimits <- {Nothing}, NoLimit <- Nothing,
    history <- [u \in {"unit"} |-> server], maxSkills <- Nothing

StoreSpec == Store!ASpec
=============================================================================
