-------------------------------- MODULE Installs --------------------------------
(***************************************************************************)
(* One unit of an organisation in one agent's directory: subscriptions,    *)
(* which mirror the unit and link the mirror                               *)
(* (src/cli/internal/skillsync/skillsync.go, Pull and Remove), and         *)
(* detached copies, from the org or from a public registry (install.go),   *)
(* with the state file both are recorded in.                               *)
(*                                                                         *)
(* A process is a command or the daemon: it loads the state file when it   *)
(* starts and saves all it loaded when it records something.  A manifest   *)
(* gives each path its content, an absent one Absent.                      *)
(***************************************************************************)
EXTENDS Integers, Sequences, FiniteSets

CONSTANTS
    Org,            \* the org's unit, as a source
    Refs,           \* published skills that install as the same directory
    Catalog,        \* the versions of each source, a sequence of manifests
    Processes,
    Paths, Contents,
    Mine,           \* contents only the user writes
    Absent,         \* no file at a path
    Nothing,        \* no path, no other source
    MaxActs         \* bound: what users do, commands included

Sources == {Org} \cup Refs

ASSUME SourceAssumption == Org \notin Refs /\ Nothing \notin Sources

ASSUME ActsAssumption == MaxActs \in Nat

ASSUME PathAssumption == Nothing \notin Paths /\ Absent \notin Contents

Manifest == [Paths -> Contents \cup {Absent}]
NoFiles == [p \in Paths |-> Absent]

ASSUME CatalogAssumption ==
    /\ Mine \subseteq Contents
    /\ Catalog \in [Sources -> Seq([Paths -> (Contents \ Mine) \cup {Absent}])]

PathsOf(m) == {p \in Paths : m[p] # Absent}

\* bundle.Entry and bundle.InstallEntry; a missing one is the zero one.
Entry == [version : Nat, manifest : Manifest]
NoEntry == [version |-> 0, manifest |-> NoFiles]

\* bundle.State, as far as it is about the unit.
State == [installs : [Sources -> Entry], subscription : Entry]
NoState == [installs |-> [s \in Sources |-> NoEntry], subscription |-> NoEntry]

VARIABLES
    head,           \* the version of the unit in the org, 0 for none
    place,          \* what is at the unit's path in the agent's directory
    files,          \* in that directory
    mirror,         \* in the unit's directory of ~/.stift/org
    saved,          \* the state file
    pc, job,        \* where each process is, and what it holds
    edited,         \* history: paths the user changed since they were recorded
    upset,          \* history: an install was cut short, or two processes ran
                    \* at the same time
    acts            \* how many acts of users there were

vars == <<head, place, files, mirror, saved, pc, job, edited, upset, acts>>

\* A link into the mirror, a link to somewhere else, or a directory.
Place == {"none", "link", "foreign", "dir"}

Options == [replace : BOOLEAN, upgrade : BOOLEAN, force : BOOLEAN]

Job == [op : {"install", "pull", "daemon"}, source : Sources, opt : Options,
        version : Nat, mem : State, base : Manifest,
        evict : Sources \cup {Nothing}, fresh : BOOLEAN,
        todo : SUBSET Paths, conflicts : SUBSET Paths, at : Paths \cup {Nothing},
        found : Contents \cup {Absent}]

NoJob == [op |-> "install", source |-> Org,
          opt |-> [replace |-> FALSE, upgrade |-> FALSE, force |-> FALSE],
          version |-> 0, mem |-> NoState, base |-> NoFiles, evict |-> Nothing, fresh |-> FALSE,
          todo |-> {}, conflicts |-> {}, at |-> Nothing, found |-> Absent]

ControlPoint == {"idle", "resolved", "looking", "applying", "writing",
                 "pulling", "subscribing", "linking", "unlinking", "forgetting"}

Goto(q, where) == pc' = [pc EXCEPT ![q] = where]
Do(q, j) == job' = [job EXCEPT ![q] = j]
End(q) == Goto(q, "idle") /\ Do(q, NoJob)

Remote(j) == IF j.version = 0 THEN NoFiles ELSE Catalog[j.source][j.version]

\* Paths under the unit's directory lead into the mirror while it is linked.
Disk == IF place = "link" THEN mirror ELSE files

Act == acts < MaxActs /\ acts' = acts + 1

Beside(q) == upset \/ \E o \in Processes \ {q} : pc[o] # "idle"

-----------------------------------------------------------------------------
(* Installing a copy.                                                      *)

\* The state file is loaded, and what to copy is resolved: versions do not
\* change, so it does not matter when their files are read.
StartInstall(q, s, v) ==
    /\ pc[q] = "idle"
    /\ Act
    /\ \E opt \in Options :
          Do(q, [NoJob EXCEPT !.source = s, !.opt = opt, !.version = v, !.mem = saved])
    /\ Goto(q, "resolved")
    /\ upset' = Beside(q)
    /\ UNCHANGED <<head, place, files, mirror, saved, edited>>

\* `stift skills install NAME`: the head of the org's unit.
InstallOrg(q) == head > 0 /\ StartInstall(q, Org, head)

\* `stift skills install @org/name[@N]`: any version, or the latest.
InstallRef(q) == \E s \in Refs : \E v \in 1..Len(Catalog[s]) : StartInstall(q, s, v)

\* A subscription is removed when the user asks for a copy instead of it; a
\* link to elsewhere, and one that is to stay, are errors.
Unsubscribe(q) ==
    /\ pc[q] = "resolved"
    /\ place # "foreign"
    /\ place = "link" => job[q].opt.replace
    /\ place' = IF place = "link" THEN "none" ELSE place
    /\ Goto(q, "looking")
    /\ Do(q, [job[q] EXCEPT !.opt.replace = FALSE])
    /\ UNCHANGED <<head, files, mirror, saved, edited, upset, acts>>

\* The entry of the source itself, and FindInstall of another one.
Previous(j) == j.mem.installs[j.source]
Others(j) == {s \in Sources \ {j.source} : j.mem.installs[s].version > 0}
Other(j) == IF Others(j) = {} THEN Nothing ELSE CHOOSE s \in Others(j) : TRUE

\* installModified: a recorded file is missing or differs.
Modified(manifest) == \E p \in PathsOf(manifest) : Disk[p] # manifest[p]

OwnBase(j) == Previous(j).manifest

\* What was recorded of the directory: of this source's copy, or of the one it
\* takes the place of.
Base(j) ==
    IF Previous(j).version > 0 \/ Others(j) = {} THEN Previous(j).manifest
    ELSE j.mem.installs[Other(j)].manifest

\* An existing copy is replaced when an upgrade is asked for and it has not
\* been modified, another source's by force alone.
Decide(q) ==
    LET j == job[q]
        base == Base(j)
    IN
    /\ pc[q] = "looking"
    /\ Previous(j).version > 0 /\ ~j.opt.force =>
          j.opt.upgrade /\ ~Modified(Previous(j).manifest)
    /\ Others(j) # {} => j.opt.force
    /\ Do(q, [j EXCEPT !.base = base, !.evict = Other(j), !.fresh = (place = "none"),
                       !.opt.upgrade = FALSE,
                       !.todo = PathsOf(Remote(j)) \cup PathsOf(base)])
    /\ Goto(q, "applying")
    /\ UNCHANGED <<head, place, files, mirror, saved, edited, upset, acts>>

\* An error before anything is written.
Refuse(q) ==
    /\ pc[q] \in {"resolved", "looking"}
    /\ End(q)
    /\ UNCHANGED <<head, place, files, mirror, saved, edited, upset, acts>>

\* Files the version has come before those only the base has.
NextPath(j, p) == p \in j.todo /\ (Remote(j)[p] = Absent => j.todo \cap PathsOf(Remote(j)) = {})

OverwritesAny(j, cur, p) == FALSE

\* A file that is neither the version's nor the base's is the user's.
Conflicts(j, cur, p) == cur # Absent /\ ~j.opt.force /\ cur # j.base[p]

\* LocalSHA of one path, and what follows from it.  writeBlob starts by making
\* the directory.
Check(q, p) ==
    LET j == [job[q] EXCEPT !.todo = @ \ {p}]
        cur == Disk[p]
    IN
    /\ pc[q] = "applying"
    /\ NextPath(job[q], p)
    /\ \/ /\ cur = Remote(j)[p]
          /\ Do(q, j)
          /\ UNCHANGED <<pc, place>>
       \/ /\ cur # Remote(j)[p]
          /\ Conflicts(j, cur, p)
          /\ Do(q, [j EXCEPT !.conflicts = @ \cup {p}])
          /\ UNCHANGED <<pc, place>>
       \/ /\ cur # Remote(j)[p]
          /\ ~Conflicts(j, cur, p)
          /\ Do(q, [j EXCEPT !.at = p, !.found = cur])
          /\ Goto(q, "writing")
          /\ place' = IF place = "none" THEN "dir" ELSE place
    /\ UNCHANGED <<head, files, mirror, saved, edited, upset, acts>>

\* What was fetched is verified in a temporary file, which is renamed; a path
\* the version has not is removed.
Write(q) ==
    LET j == job[q]
        to == Remote(j)[j.at]
    IN
    /\ pc[q] = "writing"
    /\ place # "none"
    /\ IF place = "link"
         THEN mirror' = [mirror EXCEPT ![j.at] = to] /\ UNCHANGED files
         ELSE files' = [files EXCEPT ![j.at] = to] /\ UNCHANGED mirror
    /\ Do(q, [j EXCEPT !.at = Nothing, !.found = Absent])
    /\ Goto(q, "applying")
    /\ UNCHANGED <<head, place, saved, edited, upset, acts>>

\* What the copy wrote or found as it should be; of the user's files what was
\* recorded before.
Left(j) == [p \in Paths |-> IF p \in j.conflicts THEN j.base[p] ELSE Remote(j)[p]]

KeepsEvicted(j, entries) == entries

\* The entry of the source whose copy this one replaced is dropped.
Evicted(j, entries) ==
    IF j.evict = Nothing THEN entries ELSE [entries EXCEPT ![j.evict] = NoEntry]

\* SetInstall: the whole state is saved.
Record(q) ==
    LET j == job[q]
        entry == [version |-> j.version, manifest |-> Left(j)]
    IN
    /\ pc[q] = "applying"
    /\ j.op = "install"
    /\ j.todo = {}
    /\ saved' = [j.mem EXCEPT !.installs = Evicted(j, [@ EXCEPT ![j.source] = entry])]
    /\ edited' = {p \in edited : files[p] # Left(j)[p]}
    /\ End(q)
    /\ UNCHANGED <<head, place, files, mirror, upset, acts>>

-----------------------------------------------------------------------------
(* Subscribing.                                                            *)

\* `stift pull --skills --scope org`, or a pass of the daemon, which forces what
\* it pulls and passes over a version it has.
StartPull(q) ==
    /\ pc[q] = "idle"
    /\ \E op \in {"pull", "daemon"}, force \in BOOLEAN :
          /\ Do(q, [NoJob EXCEPT !.op = op, !.opt.force = force, !.version = head, !.mem = saved])
          /\ op = "daemon" => (force <=> head > 0) /\ (force => head > saved.subscription.version)
          /\ head = 0 => saved.subscription.version > 0
          /\ IF op = "pull" THEN Act ELSE UNCHANGED acts
    /\ Goto(q, "pulling")
    /\ upset' = Beside(q)
    /\ UNCHANGED <<head, place, files, mirror, saved, edited>>

\* Apply to the mirror, which has the user's changes only where an install
\* went through the link.  SkillSync has Apply path by path.
Kept(j) ==
    {p \in Paths : /\ mirror[p] \notin {Absent, Remote(j)[p]}
                   /\ ~j.opt.force
                   /\ mirror[p] # j.mem.subscription.manifest[p]
                   /\ Remote(j)[p] # Absent \/ j.mem.subscription.manifest[p] # Absent}

Mirror(q) ==
    LET j == job[q]
        old == j.mem.subscription.manifest
    IN
    /\ pc[q] = "pulling"
    /\ mirror' = [p \in Paths |->
                     IF p \in Kept(j) \/ (Remote(j)[p] = Absent /\ old[p] = Absent)
                       THEN mirror[p] ELSE Remote(j)[p]]
    /\ Do(q, [j EXCEPT !.conflicts = Kept(j)])
    /\ Goto(q, IF j.version > 0 THEN "subscribing" ELSE "unlinking")
    /\ UNCHANGED <<head, place, files, saved, edited, upset, acts>>

\* Pull records what is in the mirror before it links it.
Subscribe(q) ==
    LET j == job[q]
        base == [j EXCEPT !.base = j.mem.subscription.manifest]
    IN
    /\ pc[q] = "subscribing"
    /\ saved' = [j.mem EXCEPT !.subscription = [version |-> j.version, manifest |-> Left(base)]]
    /\ Goto(q, "linking")
    /\ UNCHANGED <<head, place, files, mirror, job, edited, upset, acts>>

\* linkOrgUnit: what is at the path and no link of ours stays, with a warning.
LinkFree == place \in {"none", "link"}

LinkOrgUnit(q) ==
    /\ pc[q] = "linking"
    /\ place' = IF LinkFree THEN "link" ELSE place
    /\ End(q)
    /\ UNCHANGED <<head, files, mirror, saved, edited, upset, acts>>

StatsLink(q) ==
    /\ pc[q] = "unlinking"
    /\ place' = IF place = "link" /\ mirror # NoFiles THEN "none" ELSE place
    /\ Goto(q, "forgetting")
    /\ UNCHANGED <<head, files, mirror, saved, job, edited, upset, acts>>

\* unlinkOrgUnit: the link is removed wherever it leads.
Unlink(q) ==
    /\ pc[q] = "unlinking"
    /\ place' = IF place = "link" THEN "none" ELSE place
    /\ Goto(q, "forgetting")
    /\ UNCHANGED <<head, files, mirror, saved, job, edited, upset, acts>>

\* Remove forgets the unit once it is unlinked and nothing of it is left.
Forget(q) ==
    LET j == job[q] IN
    /\ pc[q] = "forgetting"
    /\ saved' = IF j.conflicts = {} THEN [j.mem EXCEPT !.subscription = NoEntry] ELSE saved
    /\ End(q)
    /\ UNCHANGED <<head, place, files, mirror, edited, upset, acts>>

\* A call fails, or the process ends.  An install that fails, and would have
\* been the first, takes away the directory if nothing is in it.
Fail(q) ==
    /\ pc[q] \notin {"idle", "resolved", "looking"}
    /\ upset' = (upset \/ pc[q] \in {"applying", "writing"})
    /\ \/ UNCHANGED place
       \/ /\ pc[q] \in {"applying", "writing"}
          /\ job[q].fresh
          /\ place = "link" \/ (place = "dir" /\ files = NoFiles)
          /\ place' = "none"
    /\ End(q)
    /\ UNCHANGED <<head, files, mirror, saved, edited, acts>>

-----------------------------------------------------------------------------
(* The org and the user.                                                   *)

\* An admin pushes the next version of the unit, or deletes it.
PushOrg ==
    /\ Act
    /\ head' \in {0, head + 1} \ {head}
    /\ head' <= Len(Catalog[Org])
    /\ UNCHANGED <<place, files, mirror, saved, pc, job, edited, upset>>

\* The user writes or removes a file of the copy.
Edit ==
    /\ Act
    /\ place \in {"none", "dir"}
    /\ \E p \in Paths, c \in Mine \cup {Absent} :
          /\ files[p] # c
          /\ files' = [files EXCEPT ![p] = c]
          /\ edited' = edited \cup {p}
    /\ place' = "dir"
    /\ UNCHANGED <<head, mirror, saved, pc, job, upset>>

\* The user removes the directory, or the link.
Clear ==
    /\ Act
    /\ place # "none"
    /\ place' = "none"
    /\ files' = NoFiles
    /\ edited' = IF place = "dir" THEN Paths ELSE edited
    /\ UNCHANGED <<head, mirror, saved, pc, job, upset>>

Init ==
    /\ head \in 0..1
    /\ head <= Len(Catalog[Org])
    /\ place \in {"none", "foreign"}
    /\ files = NoFiles
    /\ mirror = NoFiles
    /\ saved = NoState
    /\ pc = [q \in Processes |-> "idle"]
    /\ job = [q \in Processes |-> NoJob]
    /\ edited = {}
    /\ upset = FALSE
    /\ acts = 0

Install(q) ==
    \/ InstallOrg(q) \/ InstallRef(q) \/ Unsubscribe(q) \/ Decide(q) \/ Refuse(q)
    \/ (\E p \in Paths : Check(q, p)) \/ Write(q) \/ Record(q)

Pull(q) ==
    \/ StartPull(q) \/ Mirror(q) \/ Subscribe(q) \/ LinkOrgUnit(q)
    \/ Unlink(q) \/ Forget(q)

Next ==
    \/ \E q \in Processes : Install(q) \/ Pull(q) \/ Fail(q)
    \/ PushOrg \/ Edit \/ Clear

Spec == Init /\ [][Next]_vars

-----------------------------------------------------------------------------
(* Properties.                                                             *)

\* The types of the variables.
TypeOK ==
    /\ head \in 0..Len(Catalog[Org])
    /\ place \in Place
    /\ files \in [Paths -> Contents \cup {Absent}]
    /\ mirror \in [Paths -> Contents \cup {Absent}]
    /\ saved \in State
    /\ pc \in [Processes -> ControlPoint]
    /\ job \in [Processes -> Job]
    /\ edited \subseteq Paths
    /\ upset \in BOOLEAN
    /\ acts \in 0..MaxActs

OwnersIn(state) == {s \in Sources : state.installs[s].version > 0}

OneOwnerIn(state) == \A s, t \in OwnersIn(state) : s = t

\* "A registry install and an org install of the same unit cannot share the
\* directory": the state file has one owner of it at most, and so has every
\* process that is going to save what it loaded, also when installs race.
OneOwner ==
    /\ OneOwnerIn(saved)
    /\ \A q \in Processes : OneOwnerIn(job[q].mem)

\* A directory there is not has no files in it.
PlaceSound == place # "dir" => files = NoFiles

\* Versions hold none of what only users write.
Published(m) == \A p \in Paths : m[p] \notin Mine

StateSound(state) ==
    /\ \A s \in Sources : /\ Published(state.installs[s].manifest)
                          /\ state.installs[s].version = 0 => state.installs[s].manifest = NoFiles
    /\ Published(state.subscription.manifest)

\* Nothing of the user's is ever recorded as a copy's.
RecordsPublished ==
    /\ StateSound(saved)
    /\ \A q \in Processes : StateSound(job[q].mem) /\ Published(job[q].base)

\* What a process holds is what its control point says; an install knows the
\* owner it evicts, and what it found before it writes is not the user's.
JobsSound ==
    \A q \in Processes :
        /\ job[q].version <= Len(Catalog[job[q].source])
        /\ pc[q] \in {"resolved", "looking", "applying", "writing"} =>
              job[q].op = "install" /\ job[q].version > 0
        /\ pc[q] \in {"resolved", "looking"} => job[q].conflicts = {}
        /\ pc[q] = "subscribing" => job[q].version > 0
        /\ pc[q] \in {"applying", "writing"} =>
              Others(job[q]) \subseteq {job[q].evict} /\ job[q].evict # job[q].source
        /\ pc[q] \in {"looking", "applying", "writing"} => place # "foreign"
        /\ pc[q] = "writing" =>
              job[q].at \in Paths \ job[q].todo /\ (job[q].opt.force \/ job[q].found \notin Mine)

Recorded(p) ==
    IF OwnersIn(saved) = {} THEN Absent
    ELSE saved.installs[CHOOSE s \in OwnersIn(saved) : TRUE].manifest[p]

\* "the manifest written, so upgrades can tell local edits from the copy":
\* what the user has not touched is as recorded, and nothing else is in the
\* directory, however sources take each other's place.
CopyAsRecorded ==
    \/ upset
    \/ \E q \in Processes : pc[q] \in {"applying", "writing"}
    \/ \A p \in Paths \ edited : files[p] = Recorded(p)

\* A link of ours is of a recorded subscription, through crashes of pulls:
\* otherwise no pull would remove it any more.
LinksTracked == upset \/ (place = "link" => saved.subscription.version > 0)

Alone(q) == \A o \in Processes \ {q} : pc[o] = "idle"

Applying(q) == pc[q] \in {"applying", "writing"}

Untouched(q, p) == p \in job[q].todo \/ (pc[q] = "writing" /\ p = job[q].at)

\* A process that runs alone has loaded what is saved, and no link comes up
\* where it works; what it has not written yet is as recorded.
AloneSound ==
    \A q \in Processes :
        pc[q] # "idle" /\ ~upset =>
            /\ Alone(q)
            /\ pc[q] # "linking" => job[q].mem = saved
            /\ pc[q] = "linking" => saved.subscription.version > 0
            /\ pc[q] = "forgetting" => place # "link"
            /\ pc[q] \in {"looking", "applying", "writing"} => place \in {"none", "dir"}
            /\ Applying(q) =>
                  \A p \in Paths :
                     /\ job[q].base[p] = Recorded(p)
                     /\ p \notin edited =>
                           files[p] = IF Untouched(q, p) THEN Recorded(p) ELSE Remote(job[q])[p]
                     /\ p \in job[q].conflicts => p \in edited

\* The types, the rules that hold whatever is cut short or runs beside it, and
\* those of a process that runs alone.
IInv ==
    /\ TypeOK
    /\ OneOwner
    /\ PlaceSound
    /\ RecordsPublished
    /\ JobsSound
    /\ AloneSound

\* No install without force destroys what the user wrote, whatever else runs
\* on the machine, unless they wrote it after the install had looked.
UserFilesKept ==
    [][\A q \in Processes : pc[q] = "writing" /\ pc'[q] = "applying" /\ ~job[q].opt.force =>
          LET cur == Disk[job[q].at]
          IN cur \in Mine => job[q].found # cur]_vars
=============================================================================
