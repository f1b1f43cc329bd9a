---------------------------- MODULE InstallsProofs ----------------------------
(***************************************************************************)
(* Proofs about Installs for every catalog, any number of processes and    *)
(* acts of users: one owner of the directory, the user's files, and what a *)
(* machine on which installs do not race or stop half-way can rely on.     *)
(***************************************************************************)
EXTENDS Installs, TLAPS

\* What the invariant says of one process, whatever runs beside it.
ProcessOK(q) ==
    /\ OneOwnerIn(job[q].mem)
    /\ StateSound(job[q].mem) /\ Published(job[q].base)
    /\ job[q].version <= Len(Catalog[job[q].source])
    /\ pc[q] \in {"resolved", "looking", "applying", "writing"} =>
          job[q].op = "install" /\ job[q].version > 0
    /\ pc[q] \in {"resolved", "looking"} => job[q].conflicts = {}
    /\ pc[q] = "subscribing" => job[q].version > 0
    /\ pc[q] \in {"applying", "writing"} =>
          Others(job[q]) \subseteq {job[q].evict} /\ job[q].evict # job[q].source
    /\ pc[q] \in {"looking", "applying", "writing"} => place # "foreign"
    /\ pc[q] = "writing" =>
          job[q].at \in Paths \ job[q].todo /\ (job[q].opt.force \/ job[q].found \notin Mine)

\* What it says of one that runs alone.
AloneOK(q) ==
    pc[q] # "idle" /\ ~upset =>
        /\ Alone(q)
        /\ pc[q] # "linking" => job[q].mem = saved
        /\ pc[q] = "linking" => saved.subscription.version > 0
        /\ pc[q] = "forgetting" => place # "link"
        /\ pc[q] \in {"looking", "applying", "writing"} => place \in {"none", "dir"}
        /\ Applying(q) =>
              \A p \in Paths :
                 /\ job[q].base[p] = Recorded(p)
                 /\ p \notin edited =>
                       files[p] = IF Untouched(q, p) THEN Recorded(p) ELSE Remote(job[q])[p]
                 /\ p \in job[q].conflicts => p \in edited

\* What it says of the state file and the directory.
MachineOK ==
    /\ OneOwnerIn(saved) /\ StateSound(saved)
    /\ PlaceSound
    /\ CopyAsRecorded
    /\ LinksTracked

\* The inductive invariant.
Inv == IInv /\ CopyAsRecorded /\ LinksTracked

\* The invariant and the two properties, sorted by what they speak of: the machine, a process.
LEMMA InvParts ==
    Inv <=> /\ TypeOK /\ MachineOK
            /\ \A q \in Processes : ProcessOK(q) /\ AloneOK(q)
  BY DEF Inv, IInv, OneOwner, RecordsPublished, JobsSound, AloneSound, MachineOK, ProcessOK, AloneOK

\* The same for the next state, in the direction the steps need.
LEMMA InvPartsNext ==
    ASSUME TypeOK', MachineOK', \A q \in Processes : ProcessOK(q)' /\ AloneOK(q)'
    PROVE  Inv'
  BY DEF Inv, IInv, OneOwner, RecordsPublished, JobsSound, AloneSound, MachineOK, ProcessOK, AloneOK

\* The empty records.
LEMMA Empty ==
    /\ NoFiles \in Manifest /\ NoEntry \in Entry /\ NoState \in State
    /\ Published(NoFiles) /\ StateSound(NoState) /\ OneOwnerIn(NoState)
    /\ Org \in Sources
<1>1. NoFiles \in Manifest /\ Published(NoFiles) /\ Org \in Sources
  BY PathAssumption, CatalogAssumption DEF NoFiles, Manifest, Published, Sources
<1>2. NoEntry \in Entry
  BY <1>1 DEF NoEntry, Entry
<1>3. NoState \in State
  BY <1>2 DEF NoState, State
<1>4. StateSound(NoState) /\ OneOwnerIn(NoState)
  BY <1>1 DEF NoState, StateSound, OneOwnerIn, OwnersIn, NoEntry
<1>5. QED
  BY <1>1, <1>2, <1>3, <1>4

\* A process that does nothing has a job of the type.
LEMMA NoJobTyped == NoJob \in Job
  BY Empty, PathAssumption DEF NoJob, Job, Options

\* A version is a manifest of nothing the user wrote.
LEMMA CatalogTyped ==
    ASSUME NEW s \in Sources
    PROVE  /\ Len(Catalog[s]) \in Nat
           /\ \A v \in 1..Len(Catalog[s]) : Catalog[s][v] \in Manifest /\ Published(Catalog[s][v])
<1> DEFINE M == [Paths -> (Contents \ Mine) \cup {Absent}]
<1>1. Catalog[s] \in Seq(M)
  BY CatalogAssumption
<1>2. \A m \in M : m \in Manifest /\ Published(m)
  BY CatalogAssumption, PathAssumption DEF Manifest, Published
<1> HIDE DEF M
<1>3. QED
  BY <1>1, <1>2

\* What a job is about.
LEMMA RemoteTyped ==
    ASSUME NEW j \in Job, j.version <= Len(Catalog[j.source])
    PROVE  Remote(j) \in Manifest /\ Published(Remote(j))
<1>1. j.source \in Sources /\ j.version \in Nat
  BY DEF Job
<1>2. j.version # 0 => j.version \in 1..Len(Catalog[j.source])
  BY <1>1, CatalogTyped
<1>3. QED
  BY <1>1, <1>2, CatalogTyped, Empty DEF Remote

\* The recorded manifest is the owner's.
LEMMA RecordedOf ==
    ASSUME OneOwnerIn(saved), NEW s \in OwnersIn(saved)
    PROVE  \A p : Recorded(p) = saved.installs[s].manifest[p]
<1>1. (CHOOSE t \in OwnersIn(saved) : TRUE) \in OwnersIn(saved)
  OBVIOUS
<1>2. (CHOOSE t \in OwnersIn(saved) : TRUE) = s
  BY <1>1 DEF OneOwnerIn
<1>3. QED
  BY <1>2 DEF Recorded

\* The initial states satisfy the invariant.
LEMMA InitInv == Init => Inv
<1> SUFFICES ASSUME Init PROVE Inv
  OBVIOUS
<1>1. /\ pc = [q \in Processes |-> "idle"] /\ job = [q \in Processes |-> NoJob]
      /\ saved = NoState /\ files = NoFiles /\ mirror = NoFiles /\ place \in {"none", "foreign"}
      /\ edited = {} /\ upset = FALSE /\ acts = 0 /\ head \in 0..1 /\ head <= Len(Catalog[Org])
  BY DEF Init
<1>2. Len(Catalog[Org]) \in Nat
  BY CatalogTyped, Empty
<1>3. TypeOK
  <2>1. head \in 0..Len(Catalog[Org]) /\ acts \in 0..MaxActs
    BY <1>1, <1>2, ActsAssumption
  <2>2. /\ files \in Manifest /\ mirror \in Manifest /\ saved \in State
        /\ job \in [Processes -> Job]
    BY <1>1, Empty, NoJobTyped
  <2>3. /\ pc \in [Processes -> ControlPoint] /\ place \in Place
        /\ edited \subseteq Paths /\ upset \in BOOLEAN
    BY <1>1 DEF Place, ControlPoint
  <2>4. QED
    BY <2>1, <2>2, <2>3 DEF TypeOK, Manifest
<1>4. MachineOK
  <2>1. \A p \in Paths : Recorded(p) = Absent
    BY <1>1 DEF Recorded, OwnersIn, NoState, NoEntry
  <2>2. QED
    BY <1>1, <2>1, Empty DEF MachineOK, PlaceSound, CopyAsRecorded, LinksTracked, NoFiles
<1>5. \A q \in Processes : ProcessOK(q) /\ AloneOK(q)
  BY <1>1, <1>2, Empty DEF ProcessOK, AloneOK, NoJob
<1>6. QED
  BY <1>3, <1>4, <1>5, InvParts

\* A step of one process: the others were not doing anything, or run beside
\* another from now on.
LEMMA ProcessStep ==
    ASSUME Inv, NEW q \in Processes, TypeOK', MachineOK',
           \A o \in Processes \ {q} : pc'[o] = pc[o] /\ job'[o] = job[o],
           place' = "foreign" => place = "foreign",
           ProcessOK(q)', ~upset' => AloneOK(q)',
           \/ pc[q] # "idle" /\ (upset => upset')
           \/ upset' = Beside(q)
    PROVE  Inv'
<1>1. TypeOK /\ MachineOK /\ \A o \in Processes : ProcessOK(o) /\ AloneOK(o)
  BY InvParts
<1>2. ASSUME NEW o \in Processes \ {q} PROVE ProcessOK(o)'
  <2>1. ProcessOK(o) /\ pc'[o] = pc[o] /\ job'[o] = job[o]
    BY <1>1
  <2>2. QED
    BY <2>1 DEF ProcessOK, Others
<1>3. ASSUME NEW o \in Processes \ {q} PROVE AloneOK(o)'
  <2> SUFFICES ASSUME pc'[o] # "idle", ~upset' PROVE FALSE
    BY DEF AloneOK
  <2>1. pc[o] # "idle"
    OBVIOUS
  <2>2. CASE pc[q] # "idle" /\ (upset => upset')
    <3>1. AloneOK(o) /\ ~upset
      BY <1>1, <2>2
    <3>2. Alone(o)
      BY <2>1, <3>1 DEF AloneOK
    <3>3. QED
      BY <2>2, <3>2 DEF Alone
  <2>3. CASE upset' = Beside(q)
    BY <2>1, <2>3 DEF Beside
  <2>4. QED
    BY <2>2, <2>3
<1>4. AloneOK(q)'
  BY DEF AloneOK
<1>5. QED
  BY <1>2, <1>3, <1>4, InvPartsNext

\* What a process that runs beside others, or alone, holds.
LEMMA Parts ==
    ASSUME Inv, NEW q \in Processes
    PROVE  /\ TypeOK /\ MachineOK /\ ProcessOK(q) /\ AloneOK(q)
           /\ pc[q] \in ControlPoint /\ job[q] \in Job
           /\ job[q].source \in Sources /\ job[q].version \in Nat
           /\ job[q].mem \in State /\ job[q].base \in Manifest
           /\ job[q].opt \in Options /\ job[q].evict \in Sources \cup {Nothing}
           /\ job[q].todo \subseteq Paths /\ job[q].conflicts \subseteq Paths
           /\ Remote(job[q]) \in Manifest /\ Published(Remote(job[q]))
<1>1. TypeOK /\ MachineOK /\ ProcessOK(q) /\ AloneOK(q)
  BY InvParts
<1>2. pc[q] \in ControlPoint /\ job[q] \in Job
  BY <1>1 DEF TypeOK
<1>3. Remote(job[q]) \in Manifest /\ Published(Remote(job[q]))
  BY <1>1, <1>2, RemoteTyped DEF ProcessOK
<1>4. QED
  BY <1>1, <1>2, <1>3 DEF Job

\* Where a step of one process leaves pc and job.
LEMMA Moved ==
    ASSUME TypeOK, NEW q \in Processes, NEW where \in ControlPoint, Goto(q, where),
           NEW j \in Job, Do(q, j)
    PROVE  /\ pc' \in [Processes -> ControlPoint] /\ job' \in [Processes -> Job]
           /\ pc'[q] = where /\ job'[q] = j
           /\ \A o \in Processes \ {q} : pc'[o] = pc[o] /\ job'[o] = job[o]
  BY DEF TypeOK, Goto, Do

\* The end of a command.
LEMMA Ended ==
    ASSUME Inv, NEW q \in Processes, End(q), pc[q] # "idle",
           head' \in 0..Len(Catalog[Org]), place' \in Place, files' \in Manifest, mirror' \in Manifest,
           saved' \in State, edited' \subseteq Paths, upset' \in BOOLEAN, acts' \in 0..MaxActs,
           upset => upset', MachineOK', place' = "foreign" => place = "foreign"
    PROVE  Inv'
<1>1. TypeOK /\ NoJob \in Job /\ "idle" \in ControlPoint
  BY Parts, NoJobTyped DEF ControlPoint
<1>2. /\ pc' \in [Processes -> ControlPoint] /\ job' \in [Processes -> Job]
      /\ pc'[q] = "idle" /\ job'[q] = NoJob
      /\ \A o \in Processes \ {q} : pc'[o] = pc[o] /\ job'[o] = job[o]
  BY <1>1, Moved DEF End
<1>3. TypeOK'
  BY <1>2 DEF TypeOK, Manifest
<1>4. ProcessOK(q)'
  BY <1>2, Empty, CatalogTyped DEF ProcessOK, NoJob
<1>5. AloneOK(q)'
  BY <1>2 DEF AloneOK
<1>6. QED
  BY <1>2, <1>3, <1>4, <1>5, ProcessStep

\* Steps that change neither the directory nor what is recorded of it.
LEMMA MachineKept ==
    ASSUME MachineOK, UNCHANGED <<place, files, saved, edited>>, upset => upset',
           ~upset' /\ (\E o \in Processes : Applying(o)) => \E o \in Processes : Applying(o)'
    PROVE  MachineOK'
<1>1. \A p : Recorded(p)' = Recorded(p)
  BY DEF Recorded, OwnersIn
<1>2. CopyAsRecorded'
  BY <1>1 DEF MachineOK, CopyAsRecorded, Applying
<1>3. QED
  BY <1>2 DEF MachineOK, PlaceSound, LinksTracked

\* A job begins with what is saved.
LEMMA StartStep ==
    ASSUME Inv, NEW q \in Processes, pc[q] = "idle", NEW where \in ControlPoint, Goto(q, where),
           NEW j \in Job, Do(q, j),
           j.mem = saved, j.base = NoFiles, j.version <= Len(Catalog[j.source]),
           \/ where = "resolved" /\ j.op = "install" /\ j.version > 0 /\ j.conflicts = {}
           \/ where = "pulling",
           upset' = Beside(q), acts' \in 0..MaxActs,
           UNCHANGED <<head, place, files, mirror, saved, edited>>
    PROVE  Inv'
<1>1. TypeOK /\ MachineOK
  BY Parts
<1>2. /\ pc' \in [Processes -> ControlPoint] /\ job' \in [Processes -> Job]
      /\ pc'[q] = where /\ job'[q] = j
      /\ \A o \in Processes \ {q} : pc'[o] = pc[o] /\ job'[o] = job[o]
  BY <1>1, Moved
<1>3. upset' \in BOOLEAN /\ (upset => upset')
  BY DEF Beside
<1>4. TypeOK'
  BY <1>1, <1>2, <1>3 DEF TypeOK
<1>5. ~upset' => \A o \in Processes \ {q} : pc[o] = "idle"
  BY DEF Beside
<1>6. MachineOK'
  BY <1>1, <1>3, <1>5, MachineKept DEF Applying
<1>7. ProcessOK(q)'
  BY <1>1, <1>2, Empty DEF ProcessOK, MachineOK
<1>8. ~upset' => AloneOK(q)'
  BY <1>2, <1>5 DEF AloneOK, Alone, Applying
<1>9. QED
  BY <1>2, <1>4, <1>6, <1>7, <1>8, ProcessStep

\* A command loads the state file and a version to install or to pull.
LEMMA StartSteps ==
    ASSUME Inv, NEW q \in Processes, InstallOrg(q) \/ InstallRef(q) \/ StartPull(q)
    PROVE  Inv'
<1>1. TypeOK /\ saved \in State
  BY Parts DEF TypeOK
<1>2. head \in Nat /\ head <= Len(Catalog[Org]) /\ acts \in 0..MaxActs
  BY <1>1, CatalogTyped, Empty DEF TypeOK
<1>3. ASSUME NEW s \in Sources, NEW v \in 1..Len(Catalog[s]), StartInstall(q, s, v)
      PROVE  Inv'
  <2>1. PICK opt \in Options :
           Do(q, [NoJob EXCEPT !.source = s, !.opt = opt, !.version = v, !.mem = saved])
    BY <1>3 DEF StartInstall
  <2> DEFINE j == [NoJob EXCEPT !.source = s, !.opt = opt, !.version = v, !.mem = saved]
  <2>2. v \in Nat /\ v > 0 /\ v <= Len(Catalog[s])
    BY CatalogTyped
  <2>3. /\ j \in Job /\ j.mem = saved /\ j.base = NoFiles /\ j.version = v /\ j.source = s
        /\ j.op = "install" /\ j.conflicts = {}
    BY <1>1, <2>2, NoJobTyped DEF NoJob, Job
  <2>4. Do(q, j)
    BY <2>1
  <2> HIDE DEF j
  <2>5. /\ pc[q] = "idle" /\ Goto(q, "resolved") /\ "resolved" \in ControlPoint
        /\ upset' = Beside(q) /\ acts' \in 0..MaxActs
        /\ UNCHANGED <<head, place, files, mirror, saved, edited>>
    BY <1>2, <1>3, ActsAssumption DEF StartInstall, Act, ControlPoint
  <2>6. QED
    BY <2>2, <2>3, <2>4, <2>5, StartStep
<1>4. CASE InstallOrg(q)
  BY <1>2, <1>3, <1>4, Empty DEF InstallOrg
<1>5. CASE InstallRef(q)
  BY <1>3, <1>5 DEF InstallRef, Sources
<1>6. CASE StartPull(q)
  <2>1. PICK op \in {"pull", "daemon"}, force \in BOOLEAN :
           /\ Do(q, [NoJob EXCEPT !.op = op, !.opt.force = force, !.version = head, !.mem = saved])
           /\ IF op = "pull" THEN Act ELSE UNCHANGED acts
    BY <1>6 DEF StartPull
  <2> DEFINE j == [NoJob EXCEPT !.op = op, !.opt.force = force, !.version = head, !.mem = saved]
  <2>2. /\ j \in Job /\ j.mem = saved /\ j.base = NoFiles /\ j.version = head /\ j.source = Org
    BY <1>1, <1>2, NoJobTyped DEF NoJob, Job, Options
  <2>3. Do(q, j)
    BY <2>1
  <2> HIDE DEF j
  <2>4. /\ pc[q] = "idle" /\ Goto(q, "pulling") /\ "pulling" \in ControlPoint
        /\ upset' = Beside(q)
        /\ UNCHANGED <<head, place, files, mirror, saved, edited>>
    BY <1>6 DEF StartPull, ControlPoint
  <2>5. acts' \in 0..MaxActs
    BY <1>2, <2>1, ActsAssumption DEF Act
  <2>6. QED
    BY <1>2, <2>2, <2>3, <2>4, <2>5, StartStep
<1>7. QED
  BY <1>4, <1>5, <1>6

\* A subscription's link is removed before a copy takes its place.
LEMMA UnsubscribeStep ==
    ASSUME Inv, NEW q \in Processes, Unsubscribe(q)
    PROVE  Inv'
<1> DEFINE j == [job[q] EXCEPT !.opt.replace = FALSE]
<1>1. /\ TypeOK /\ MachineOK /\ ProcessOK(q) /\ AloneOK(q) /\ job[q] \in Job
      /\ pc[q] = "resolved" /\ place # "foreign"
      /\ place' = IF place = "link" THEN "none" ELSE place
      /\ Goto(q, "looking") /\ Do(q, j) /\ "looking" \in ControlPoint
      /\ UNCHANGED <<head, files, mirror, saved, edited, upset, acts>>
  BY Parts DEF Unsubscribe, ControlPoint
<1>2. /\ j \in Job /\ j.mem = job[q].mem /\ j.base = job[q].base /\ j.version = job[q].version
      /\ j.source = job[q].source /\ j.op = job[q].op /\ j.conflicts = job[q].conflicts
  BY <1>1 DEF Job, Options
<1> HIDE DEF j
<1>3. /\ pc' \in [Processes -> ControlPoint] /\ job' \in [Processes -> Job]
      /\ pc'[q] = "looking" /\ job'[q] = j
      /\ \A o \in Processes \ {q} : pc'[o] = pc[o] /\ job'[o] = job[o]
  BY <1>1, <1>2, Moved
<1>4. place' \in {"none", "dir"}
  BY <1>1 DEF TypeOK, Place
<1>5. TypeOK'
  BY <1>1, <1>3, <1>4 DEF TypeOK, Place
<1>6. MachineOK'
  <2>1. \A p : Recorded(p)' = Recorded(p)
    BY <1>1 DEF Recorded, OwnersIn
  <2>2. (\E o \in Processes : Applying(o)) => \E o \in Processes : Applying(o)'
    BY <1>1, <1>3 DEF Applying
  <2>3. CopyAsRecorded'
    BY <1>1, <2>1, <2>2 DEF MachineOK, CopyAsRecorded, Applying
  <2>4. PlaceSound'
    BY <1>1 DEF MachineOK, PlaceSound
  <2>5. LinksTracked'
    BY <1>4 DEF LinksTracked
  <2>6. QED
    BY <1>1, <2>3, <2>4, <2>5 DEF MachineOK
<1>7. ProcessOK(q)'
  BY <1>1, <1>2, <1>3 DEF ProcessOK
<1>8. AloneOK(q)'
  BY <1>1, <1>2, <1>3, <1>4 DEF AloneOK, Alone, Applying
<1>9. QED
  BY <1>1, <1>3, <1>5, <1>6, <1>7, <1>8, ProcessStep

\* What an install takes for recorded is recorded, when it runs alone.
LEMMA BaseRecorded ==
    ASSUME Inv, NEW q \in Processes, pc[q] = "looking"
    PROVE  /\ Base(job[q]) \in Manifest /\ Published(Base(job[q]))
           /\ Others(job[q]) \subseteq {Other(job[q])}
           /\ Other(job[q]) \in (Sources \ {job[q].source}) \cup {Nothing}
           /\ ~upset => \A p \in Paths : Base(job[q])[p] = Recorded(p)
<1> DEFINE j == job[q]
<1>1. /\ j \in Job /\ j.source \in Sources /\ j.mem \in State
      /\ OneOwnerIn(j.mem) /\ StateSound(j.mem) /\ AloneOK(q)
  BY Parts DEF ProcessOK
<1>2. \A s \in Sources : j.mem.installs[s].manifest \in Manifest /\ j.mem.installs[s].version \in Nat
  BY <1>1 DEF State, Entry
<1>3. ~upset => j.mem = saved /\ OneOwnerIn(saved)
  BY <1>1 DEF AloneOK
<1> HIDE DEF j
<1>4. Others(j) \subseteq Sources /\ Others(j) \subseteq OwnersIn(j.mem)
  BY DEF Others, OwnersIn
<1>5. Others(j) # {} => Other(j) \in Others(j)
  BY DEF Other
<1>6. Others(j) \subseteq {Other(j)}
  BY <1>1, <1>4, <1>5 DEF OneOwnerIn
<1>7. Other(j) \in (Sources \ {j.source}) \cup {Nothing}
  BY <1>4, <1>5 DEF Other, Others
<1>8. \A s \in Sources : /\ Published(j.mem.installs[s].manifest)
                         /\ j.mem.installs[s].version = 0 => j.mem.installs[s].manifest = NoFiles
  BY <1>1 DEF StateSound
<1>9. Base(j) \in Manifest /\ Published(Base(j))
  <2>1. \E s \in Sources : Base(j) = j.mem.installs[s].manifest
    BY <1>1, <1>4, <1>5 DEF Base, Previous
  <2>2. QED
    BY <1>2, <1>8, <2>1
<1>10. ASSUME ~upset, NEW p \in Paths PROVE Base(j)[p] = Recorded(p)
  <2>1. CASE j.mem.installs[j.source].version > 0
    <3>1. j.source \in OwnersIn(saved)
      BY <1>1, <1>3, <1>10, <2>1 DEF OwnersIn
    <3>2. QED
      BY <1>3, <1>10, <2>1, <3>1, RecordedOf DEF Base, Previous
  <2>2. CASE ~(j.mem.installs[j.source].version > 0) /\ Others(j) # {}
    <3>1. Other(j) \in OwnersIn(saved)
      BY <1>3, <1>4, <1>5, <1>10, <2>2
    <3>2. Base(j) = saved.installs[Other(j)].manifest
      BY <1>3, <1>10, <2>2 DEF Base, Previous
    <3>3. QED
      BY <1>3, <1>10, <3>1, <3>2, RecordedOf
  <2>3. CASE ~(j.mem.installs[j.source].version > 0) /\ Others(j) = {}
    <3>1. OwnersIn(saved) = {}
      BY <1>3, <1>10, <2>3 DEF OwnersIn, Others
    <3>2. Recorded(p) = Absent
      BY <3>1 DEF Recorded
    <3>3. j.mem.installs[j.source].version = 0
      BY <1>1, <1>2, <2>3
    <3>4. Base(j) = NoFiles
      BY <1>1, <1>8, <2>3, <3>3 DEF Base, Previous
    <3>5. QED
      BY <3>2, <3>4 DEF NoFiles
  <2>4. QED
    BY <2>1, <2>2, <2>3
<1>11. QED
  BY <1>6, <1>7, <1>9, <1>10 DEF j

\* An install that is not refused finds what it may replace and whom it would evict.
LEMMA DecideStep ==
    ASSUME Inv, NEW q \in Processes, Decide(q)
    PROVE  Inv'
<1> DEFINE i == job[q]
           base == Base(i)
           j == [i EXCEPT !.base = base, !.evict = Other(i), !.fresh = (place = "none"),
                          !.opt.upgrade = FALSE,
                          !.todo = PathsOf(Remote(i)) \cup PathsOf(base)]
<1>1. /\ TypeOK /\ MachineOK /\ ProcessOK(q) /\ AloneOK(q) /\ i \in Job /\ Remote(i) \in Manifest
      /\ pc[q] = "looking" /\ Do(q, j) /\ Goto(q, "applying") /\ "applying" \in ControlPoint
      /\ UNCHANGED <<head, place, files, mirror, saved, edited, upset, acts>>
  BY Parts DEF Decide, ControlPoint
<1>2. /\ base \in Manifest /\ Published(base)
      /\ Others(i) \subseteq {Other(i)} /\ Other(i) \in Sources \cup {Nothing}
      /\ Other(i) # i.source
      /\ ~upset => \A p \in Paths : base[p] = Recorded(p)
  <2>1. i.source # Nothing
    BY <1>1, SourceAssumption DEF Job
  <2>2. QED
    BY <1>1, <2>1, BaseRecorded
<1>3. PathsOf(Remote(i)) \cup PathsOf(base) \in SUBSET Paths
  BY DEF PathsOf
<1> HIDE DEF base
<1>4. /\ j \in Job /\ j.mem = i.mem /\ j.base = base /\ j.version = i.version
      /\ j.source = i.source /\ j.op = i.op /\ j.conflicts = i.conflicts /\ j.evict = Other(i)
      /\ j.todo = PathsOf(Remote(i)) \cup PathsOf(base)
  BY <1>1, <1>2, <1>3 DEF Job, Options
<1>5. Remote(j) = Remote(i) /\ Others(j) = Others(i)
  BY <1>4 DEF Remote, Others
<1> HIDE DEF j
<1>6. /\ pc' \in [Processes -> ControlPoint] /\ job' \in [Processes -> Job]
      /\ pc'[q] = "applying" /\ job'[q] = j
      /\ \A o \in Processes \ {q} : pc'[o] = pc[o] /\ job'[o] = job[o]
  BY <1>1, <1>4, Moved
<1>7. TypeOK'
  BY <1>1, <1>6 DEF TypeOK
<1>8. MachineOK'
  BY <1>1, <1>6, MachineKept DEF Applying
<1>9. ProcessOK(q)'
  BY <1>1, <1>2, <1>4, <1>5, <1>6 DEF ProcessOK, Others
<1>10. ASSUME ~upset PROVE AloneOK(q)'
  <2>1. /\ Alone(q) /\ i.mem = saved /\ place \in {"none", "dir"}
    BY <1>1, <1>10 DEF AloneOK
  <2>2. \A p : Recorded(p)' = Recorded(p)
    BY <1>1 DEF Recorded, OwnersIn
  <2>3. ASSUME NEW p \in Paths \ edited PROVE files[p] = Recorded(p)
    BY <1>1, <1>10, <2>1 DEF MachineOK, CopyAsRecorded, Alone
  <2>4. ASSUME NEW p \in Paths, p \notin j.todo PROVE Recorded(p) = Remote(j)[p]
    BY <1>2, <1>4, <1>5, <1>10, <2>4 DEF PathsOf
  <2>5. \A p \in j.conflicts : p \in edited
    BY <1>1, <1>4 DEF ProcessOK
  <2>6. QED
    BY <1>1, <1>2, <1>4, <1>6, <1>10, <2>1, <2>2, <2>3, <2>4, <2>5 DEF AloneOK, Alone, Applying, Untouched, Remote
<1>11. QED
  BY <1>1, <1>6, <1>7, <1>8, <1>9, <1>10, ProcessStep

\* One path is looked at.  When the install runs alone, what is in the way is
\* the user's only where the user changed it.
LEMMA CheckStep ==
    ASSUME Inv, NEW q \in Processes, NEW p \in Paths, Check(q, p)
    PROVE  Inv'
<1> DEFINE i == job[q]
           j == [i EXCEPT !.todo = @ \ {p}]
           cur == Disk[p]
           kept == [j EXCEPT !.conflicts = @ \cup {p}]
           held == [j EXCEPT !.at = p, !.found = cur]
           Same == cur = Remote(i)[p] /\ job'[q] = j /\ pc'[q] = "applying" /\ place' = place
           Keeps == cur # Remote(i)[p] /\ Conflicts(j, cur, p) /\ job'[q] = kept /\ pc'[q] = "applying"
                    /\ place' = place
           Holds == ~Conflicts(j, cur, p) /\ job'[q] = held /\ pc'[q] = "writing"
                    /\ place' = IF place = "none" THEN "dir" ELSE place
<1>1. /\ TypeOK /\ MachineOK /\ ProcessOK(q) /\ AloneOK(q) /\ i \in Job
      /\ pc[q] = "applying" /\ p \in i.todo
      /\ UNCHANGED <<head, files, mirror, saved, edited, upset, acts>>
      /\ "applying" \in ControlPoint /\ "writing" \in ControlPoint
  BY Parts DEF Check, NextPath, ControlPoint
<1>2. cur \in Contents \cup {Absent}
  BY <1>1 DEF TypeOK, Disk
<1>3. /\ j \in Job /\ j.todo = i.todo \ {p} /\ j.conflicts = i.conflicts
      /\ j.mem = i.mem /\ j.base = i.base /\ j.version = i.version /\ j.source = i.source
      /\ j.op = i.op /\ j.evict = i.evict /\ j.opt = i.opt
  BY <1>1 DEF Job
<1>4. /\ kept \in Job /\ kept.todo = i.todo \ {p} /\ kept.conflicts = i.conflicts \cup {p}
      /\ kept.mem = i.mem /\ kept.base = i.base /\ kept.version = i.version
      /\ kept.source = i.source /\ kept.op = i.op /\ kept.evict = i.evict
  BY <1>3 DEF Job
<1>5. /\ held \in Job /\ held.todo = i.todo \ {p} /\ held.conflicts = i.conflicts
      /\ held.mem = i.mem /\ held.base = i.base /\ held.version = i.version /\ held.opt = i.opt
      /\ held.source = i.source /\ held.op = i.op /\ held.evict = i.evict
      /\ held.at = p /\ held.found = cur
  BY <1>2, <1>3 DEF Job
<1>6. /\ \/ Do(q, j) /\ cur = Remote(i)[p] /\ UNCHANGED <<pc, place>>
         \/ /\ Do(q, kept) /\ cur # Remote(i)[p] /\ Conflicts(j, cur, p) /\ UNCHANGED <<pc, place>>
         \/ /\ Do(q, held) /\ ~Conflicts(j, cur, p) /\ Goto(q, "writing")
            /\ place' = IF place = "none" THEN "dir" ELSE place
  <2>1. Remote(j) = Remote(i)
    BY <1>3 DEF Remote
  <2>2. QED
    BY <2>1 DEF Check
<1> HIDE DEF j, kept, held, cur
<1>7. UNCHANGED pc => Goto(q, "applying")
  BY <1>1 DEF Goto, TypeOK
<1>8. /\ pc' \in [Processes -> ControlPoint] /\ job' \in [Processes -> Job]
      /\ \A o \in Processes \ {q} : pc'[o] = pc[o] /\ job'[o] = job[o]
      /\ Same \/ Keeps \/ Holds
  BY <1>1, <1>3, <1>4, <1>5, <1>6, <1>7, Moved
<1>9. /\ job'[q].mem = i.mem /\ job'[q].base = i.base /\ job'[q].version = i.version
      /\ job'[q].source = i.source /\ job'[q].op = i.op /\ job'[q].evict = i.evict
      /\ job'[q].todo = i.todo \ {p}
  BY <1>3, <1>4, <1>5, <1>8
<1>10. place' \in Place /\ (place' = place \/ (place = "none" /\ place' = "dir"))
  BY <1>1, <1>8 DEF TypeOK, Place
<1>11. TypeOK'
  BY <1>1, <1>8, <1>10 DEF TypeOK
<1>12. MachineOK'
  <2>1. CopyAsRecorded' /\ LinksTracked'
    BY <1>1, <1>8, <1>10 DEF MachineOK, CopyAsRecorded, LinksTracked
  <2>2. PlaceSound'
    BY <1>1, <1>10 DEF MachineOK, PlaceSound
  <2>3. QED
    BY <1>1, <2>1, <2>2 DEF MachineOK
<1>13. Remote(i)' = Remote(i) /\ Remote(job'[q]) = Remote(i) /\ Others(job'[q]) = Others(i)
  BY <1>9 DEF Remote, Others
<1>14. ProcessOK(q)'
  <2>1. Holds => i.opt.force \/ cur \notin Mine
    BY <1>1, <1>3, CatalogAssumption, PathAssumption DEF Conflicts, ProcessOK, Published
  <2>2. CASE Same \/ Keeps
    BY <1>1, <1>8, <1>9, <1>13, <2>2 DEF ProcessOK, Others
  <2>3. CASE Holds
    BY <1>1, <1>5, <1>9, <1>10, <2>1, <2>3 DEF ProcessOK, Others
  <2>4. QED
    BY <1>8, <2>2, <2>3
<1>15. ASSUME ~upset PROVE AloneOK(q)'
  <2>1. /\ Alone(q) /\ i.mem = saved /\ place \in {"none", "dir"}
        /\ \A o \in Paths : /\ i.base[o] = Recorded(o)
                            /\ o \notin edited =>
                                  files[o] = IF o \in i.todo THEN Recorded(o) ELSE Remote(i)[o]
                            /\ o \in i.conflicts => o \in edited
    BY <1>1, <1>15 DEF AloneOK, Applying, Untouched
  <2>2. \A o : Recorded(o)' = Recorded(o)
    BY <1>1 DEF Recorded, OwnersIn
  <2>3. cur = files[p]
    BY <2>1 DEF cur, Disk
  <2>4. /\ Alone(q)' /\ place' \in {"none", "dir"} /\ pc'[q] \in {"applying", "writing"}
    BY <1>8, <1>10, <2>1 DEF Alone
  <2>5. ASSUME NEW o \in Paths
        PROVE  /\ job'[q].base[o] = Recorded(o)
               /\ o \notin edited =>
                     files[o] = IF Untouched(q, o)' THEN Recorded(o) ELSE Remote(i)[o]
               /\ o \in job'[q].conflicts => o \in edited
    <3>1. CASE Same
      BY <1>1, <1>3, <1>9, <2>1, <2>3, <3>1 DEF Untouched
    <3>2. CASE Keeps
      <4>1. p \in edited
        BY <1>1, <1>3, <2>1, <2>3, <3>2 DEF Conflicts
      <4>2. QED
        BY <1>1, <1>4, <1>9, <2>1, <3>2, <4>1 DEF Untouched
    <3>3. CASE Holds
      BY <1>1, <1>5, <1>9, <2>1, <3>3 DEF Untouched
    <3>4. QED
      BY <1>8, <3>1, <3>2, <3>3
  <2>6. QED
    BY <1>1, <1>9, <1>13, <2>1, <2>2, <2>4, <2>5 DEF AloneOK
<1>16. QED
  BY <1>1, <1>8, <1>10, <1>11, <1>12, <1>14, <1>15, ProcessStep

\* One file is replaced or removed.
LEMMA WriteStep ==
    ASSUME Inv, NEW q \in Processes, Write(q)
    PROVE  Inv'
<1> DEFINE i == job[q]
           j == [i EXCEPT !.at = Nothing, !.found = Absent]
           to == Remote(i)[i.at]
<1>1. /\ TypeOK /\ MachineOK /\ ProcessOK(q) /\ AloneOK(q) /\ i \in Job
      /\ Remote(i) \in Manifest /\ pc[q] = "writing" /\ place # "none"
      /\ Do(q, j) /\ Goto(q, "applying") /\ "applying" \in ControlPoint
      /\ UNCHANGED <<head, place, saved, edited, upset, acts>>
  BY Parts DEF Write, ControlPoint
<1>2. i.at \in Paths \ i.todo /\ place # "foreign" /\ to \in Contents \cup {Absent}
  BY <1>1 DEF ProcessOK, Manifest
<1>3. \/ place = "link" /\ mirror' = [mirror EXCEPT ![i.at] = to] /\ UNCHANGED files
      \/ place = "dir" /\ files' = [files EXCEPT ![i.at] = to] /\ UNCHANGED mirror
  BY <1>1, <1>2 DEF Write, TypeOK, Place
<1>4. /\ j \in Job /\ j.todo = i.todo /\ j.conflicts = i.conflicts
      /\ j.mem = i.mem /\ j.base = i.base /\ j.version = i.version /\ j.source = i.source
      /\ j.op = i.op /\ j.evict = i.evict
  BY <1>1 DEF Job
<1>5. Remote(j) = Remote(i) /\ Others(j) = Others(i)
  BY <1>4 DEF Remote, Others
<1> HIDE DEF j, to
<1>6. /\ pc' \in [Processes -> ControlPoint] /\ job' \in [Processes -> Job]
      /\ pc'[q] = "applying" /\ job'[q] = j
      /\ \A o \in Processes \ {q} : pc'[o] = pc[o] /\ job'[o] = job[o]
  BY <1>1, <1>4, Moved
<1>7. TypeOK'
  BY <1>1, <1>2, <1>3, <1>6 DEF TypeOK
<1>8. MachineOK'
  BY <1>1, <1>3, <1>6 DEF MachineOK, PlaceSound, CopyAsRecorded, LinksTracked
<1>9. ProcessOK(q)'
  BY <1>1, <1>4, <1>5, <1>6 DEF ProcessOK, Others
<1>10. ASSUME ~upset PROVE AloneOK(q)'
  <2>1. /\ Alone(q) /\ i.mem = saved /\ place = "dir"
        /\ \A o \in Paths : /\ i.base[o] = Recorded(o)
                            /\ o \notin edited =>
                                  files[o] = IF o \in i.todo \/ o = i.at THEN Recorded(o) ELSE Remote(i)[o]
                            /\ o \in i.conflicts => o \in edited
    BY <1>1, <1>10 DEF AloneOK, Applying, Untouched
  <2>2. \A o : Recorded(o)' = Recorded(o)
    BY <1>1 DEF Recorded, OwnersIn
  <2>3. /\ files'[i.at] = Remote(i)[i.at]
        /\ \A o \in Paths \ {i.at} : files'[o] = files[o]
    BY <1>1, <1>2, <1>3, <2>1 DEF TypeOK, to
  <2>4. Alone(q)' /\ Remote(job[q])' = Remote(i)
    BY <1>5, <1>6, <2>1 DEF Alone
  <2>5. \A o \in Paths : Untouched(q, o)' <=> o \in i.todo
    BY <1>4, <1>6 DEF Untouched
  <2>6. QED
    BY <1>1, <1>2, <1>4, <1>6, <2>1, <2>2, <2>3, <2>4, <2>5 DEF AloneOK
<1>11. QED
  BY <1>1, <1>6, <1>7, <1>8, <1>9, <1>10, ProcessStep

\* The entry is saved: its source is the only owner, and what the user did not
\* change is as it says.
LEMMA RecordStep ==
    ASSUME Inv, NEW q \in Processes, Record(q)
    PROVE  Inv'
<1> DEFINE j == job[q]
           entry == [version |-> j.version, manifest |-> Left(j)]
           installs == [j.mem.installs EXCEPT ![j.source] = entry]
<1>1. /\ TypeOK /\ MachineOK /\ ProcessOK(q) /\ AloneOK(q)
      /\ j.source \in Sources /\ j.version \in Nat /\ j.mem \in State
      /\ j.base \in Manifest /\ Published(j.base)
      /\ j.evict \in Sources \cup {Nothing} /\ j.conflicts \subseteq Paths
      /\ Remote(j) \in Manifest /\ Published(Remote(j))
      /\ pc[q] = "applying" /\ j.todo = {}
      /\ edited' = {p \in edited : files[p] # Left(j)[p]}
      /\ End(q) /\ UNCHANGED <<head, place, files, mirror, upset, acts>>
  BY Parts DEF Record, ProcessOK
<1>2. saved' = [j.mem EXCEPT !.installs = Evicted(j, installs)]
  BY DEF Record
<1>3. Left(j) \in Manifest /\ Published(Left(j))
  BY <1>1 DEF Left, Manifest, Published
<1>4. /\ StateSound(j.mem) /\ Others(j) \subseteq {j.evict} /\ j.evict # j.source /\ j.version > 0
  BY <1>1 DEF ProcessOK
<1>5. j.mem.installs \in [Sources -> Entry] /\ j.mem.subscription \in Entry /\ entry \in Entry
  BY <1>1, <1>3 DEF State, Entry
<1>6. /\ installs \in [Sources -> Entry] /\ installs[j.source] = entry
      /\ \A s \in Sources \ {j.source} : installs[s] = j.mem.installs[s]
  BY <1>1, <1>5
<1> HIDE DEF installs
<1> DEFINE after == Evicted(j, installs)
<1>7. /\ after \in [Sources -> Entry] /\ after[j.source] = entry
      /\ \A s \in Sources \ {j.source} : after[s] = IF s = j.evict THEN NoEntry ELSE j.mem.installs[s]
  BY <1>1, <1>4, <1>6, Empty, SourceAssumption DEF Evicted
<1> HIDE DEF after
<1>8. /\ saved' \in State /\ saved'.installs = after /\ saved'.subscription = j.mem.subscription
  BY <1>1, <1>2, <1>5, <1>7 DEF State, after
<1>9. OwnersIn(saved') = {j.source}
  <2>1. after[j.source].version > 0
    BY <1>4, <1>7
  <2>2. ASSUME NEW s \in Sources \ {j.source} PROVE ~(after[s].version > 0)
    <3>1. CASE s = j.evict
      BY <1>7, <3>1 DEF NoEntry
    <3>2. CASE s # j.evict
      BY <1>4, <1>7, <3>2 DEF Others
    <3>3. QED
      BY <3>1, <3>2
  <2>3. QED
    BY <1>1, <1>8, <2>1, <2>2 DEF OwnersIn
<1>10. OneOwnerIn(saved')
  BY <1>9 DEF OneOwnerIn
<1>11. StateSound(saved')
  <2>1. \A s \in Sources : /\ Published(j.mem.installs[s].manifest)
                           /\ j.mem.installs[s].version = 0 => j.mem.installs[s].manifest = NoFiles
    BY <1>4 DEF StateSound
  <2>2. Published(j.mem.subscription.manifest)
    BY <1>4 DEF StateSound
  <2>3. ASSUME NEW s \in Sources
        PROVE  /\ Published(after[s].manifest)
               /\ after[s].version = 0 => after[s].manifest = NoFiles
    <3>1. CASE s = j.source
      BY <1>1, <1>3, <1>4, <1>7, <3>1
    <3>2. CASE s # j.source /\ s = j.evict
      BY <1>7, <3>2, Empty DEF NoEntry
    <3>3. CASE s # j.source /\ s # j.evict
      BY <1>7, <2>1, <3>3
    <3>4. QED
      BY <3>1, <3>2, <3>3
  <2>4. QED
    BY <1>8, <2>2, <2>3 DEF StateSound
<1>12. \A p : Recorded(p)' = Left(j)[p]
  <2>1. (CHOOSE s \in OwnersIn(saved') : TRUE) = j.source
    BY <1>9
  <2>2. saved'.installs[j.source].manifest = Left(j)
    BY <1>7, <1>8
  <2>3. OwnersIn(saved') # {}
    BY <1>9
  <2>4. QED
    BY <2>1, <2>2, <2>3 DEF Recorded
<1>13. CopyAsRecorded'
  <2> SUFFICES ASSUME ~upset, NEW p \in Paths \ edited' PROVE files[p] = Left(j)[p]
    BY <1>1, <1>12 DEF CopyAsRecorded
  <2>1. CASE p \in edited
    BY <1>1, <2>1
  <2>2. CASE p \notin edited
    <3>1. files[p] = Remote(j)[p] /\ p \notin j.conflicts
      BY <1>1, <2>2 DEF AloneOK, Applying, Untouched
    <3>2. QED
      BY <3>1 DEF Left
  <2>3. QED
    BY <2>1, <2>2
<1>14. LinksTracked'
  <2> SUFFICES ASSUME ~upset, place = "link" PROVE FALSE
    BY <1>1 DEF LinksTracked
  <2>1. QED
    BY <1>1 DEF AloneOK
<1>15. MachineOK'
  BY <1>1, <1>10, <1>11, <1>13, <1>14 DEF MachineOK, PlaceSound
<1>16. /\ head' \in 0..Len(Catalog[Org]) /\ place' \in Place /\ files' \in Manifest
       /\ mirror' \in Manifest /\ edited' \subseteq Paths /\ upset' \in BOOLEAN /\ acts' \in 0..MaxActs
  BY <1>1 DEF TypeOK, Manifest
<1>17. QED
  BY <1>1, <1>8, <1>15, <1>16, Ended

\* Giving up before anything is written, or anywhere.
LEMMA GiveUpSteps ==
    ASSUME Inv, NEW q \in Processes, Refuse(q) \/ Fail(q)
    PROVE  Inv'
<1>1. TypeOK /\ MachineOK /\ End(q) /\ pc[q] # "idle" /\ UNCHANGED <<head, files, mirror, saved, edited, acts>>
  BY Parts DEF Refuse, Fail
<1>2. /\ head' \in 0..Len(Catalog[Org]) /\ files' \in Manifest /\ mirror' \in Manifest
      /\ saved' \in State /\ edited' \subseteq Paths /\ acts' \in 0..MaxActs
  BY <1>1 DEF TypeOK, Manifest
<1>3. /\ pc'[q] = "idle" /\ \A o \in Processes \ {q} : pc'[o] = pc[o]
  BY <1>1 DEF End, Goto, TypeOK
<1>4. CASE Refuse(q)
  <2>1. UNCHANGED <<place, upset>> /\ pc[q] \in {"resolved", "looking"}
    BY <1>4 DEF Refuse
  <2>2. (\E o \in Processes : Applying(o)) => \E o \in Processes : Applying(o)'
    BY <1>3, <2>1 DEF Applying
  <2>3. MachineOK'
    BY <1>1, <2>1, <2>2, MachineKept
  <2>4. place' \in Place /\ upset' \in BOOLEAN
    BY <1>1, <2>1 DEF TypeOK
  <2>5. QED
    BY <1>1, <1>2, <2>1, <2>3, <2>4, Ended
<1>5. CASE Fail(q)
  <2>1. upset' = (upset \/ Applying(q))
    BY <1>5 DEF Fail, Applying
  <2>2. \/ UNCHANGED place
        \/ Applying(q) /\ place' = "none" /\ (place = "link" \/ files = NoFiles)
    BY <1>5 DEF Fail, Applying
  <2>3. place' \in Place /\ upset' \in BOOLEAN /\ (place' = "foreign" => place = "foreign")
    BY <1>1, <2>1, <2>2 DEF TypeOK, Place
  <2>4. CopyAsRecorded'
    <3>1. \A p : Recorded(p)' = Recorded(p)
      BY <1>1 DEF Recorded, OwnersIn
    <3>2. ~upset' /\ (\E o \in Processes : Applying(o)) => \E o \in Processes : Applying(o)'
      BY <1>3, <2>1 DEF Applying
    <3>3. QED
      BY <1>1, <2>1, <3>1, <3>2 DEF MachineOK, CopyAsRecorded, Applying
  <2>5. LinksTracked' /\ PlaceSound'
    BY <1>1, <2>1, <2>2 DEF MachineOK, LinksTracked, PlaceSound
  <2>6. MachineOK'
    BY <1>1, <2>4, <2>5 DEF MachineOK
  <2>7. QED
    BY <1>1, <1>2, <2>1, <2>3, <2>6, Ended
<1>6. QED
  BY <1>4, <1>5

\* The mirror is brought to the version, or emptied.
LEMMA MirrorStep ==
    ASSUME Inv, NEW q \in Processes, Mirror(q)
    PROVE  Inv'
<1> DEFINE i == job[q]
           j == [i EXCEPT !.conflicts = Kept(i)]
           where == IF i.version > 0 THEN "subscribing" ELSE "unlinking"
<1>1. /\ TypeOK /\ MachineOK /\ ProcessOK(q) /\ AloneOK(q) /\ i \in Job
      /\ Remote(i) \in Manifest /\ pc[q] = "pulling"
      /\ Do(q, j) /\ Goto(q, where) /\ where \in ControlPoint
      /\ UNCHANGED <<head, place, files, saved, edited, upset, acts>>
  BY Parts DEF Mirror, ControlPoint
<1>2. mirror' \in Manifest
  BY <1>1 DEF Mirror, TypeOK, Manifest
<1>3. /\ j \in Job /\ j.mem = i.mem /\ j.base = i.base /\ j.version = i.version /\ j.source = i.source
  BY <1>1 DEF Job, Kept
<1>4. where \in {"subscribing", "unlinking"} /\ (where = "subscribing" => j.version > 0)
  BY <1>3
<1> HIDE DEF j, where
<1>5. /\ pc' \in [Processes -> ControlPoint] /\ job' \in [Processes -> Job]
      /\ pc'[q] = where /\ job'[q] = j
      /\ \A o \in Processes \ {q} : pc'[o] = pc[o] /\ job'[o] = job[o]
  BY <1>1, <1>3, Moved
<1>6. TypeOK'
  BY <1>1, <1>2, <1>5 DEF TypeOK, Manifest
<1>7. (\E o \in Processes : Applying(o)) => \E o \in Processes : Applying(o)'
  BY <1>1, <1>5 DEF Applying
<1>8. MachineOK'
  BY <1>1, <1>7, MachineKept
<1>9. ProcessOK(q)'
  BY <1>1, <1>3, <1>4, <1>5 DEF ProcessOK
<1>10. AloneOK(q)'
  BY <1>1, <1>3, <1>4, <1>5 DEF AloneOK, Alone, Applying
<1>11. QED
  BY <1>1, <1>5, <1>6, <1>8, <1>9, <1>10, ProcessStep

\* What a process that has loaded the state saves of the copies.
LEMMA SubscriptionSaved ==
    ASSUME Inv, NEW q \in Processes, pc[q] \notin {"idle", "linking", "applying", "writing"},
           NEW e \in Entry, Published(e.manifest),
           saved' = [job[q].mem EXCEPT !.subscription = e],
           UNCHANGED <<place, files, edited, upset>>,
           ~upset /\ place = "link" => e.version > 0,
           \A o \in Processes \ {q} : pc'[o] = pc[o]
    PROVE  saved' \in State /\ saved'.subscription = e /\ MachineOK'
<1> DEFINE mem == job[q].mem
<1>1. /\ mem \in State /\ OneOwnerIn(mem) /\ StateSound(mem) /\ MachineOK
      /\ ~upset => mem = saved
  BY Parts DEF ProcessOK, AloneOK
<1> HIDE DEF mem
<1>2. saved' \in State /\ saved'.installs = mem.installs /\ saved'.subscription = e
  BY <1>1 DEF State, mem
<1>3. OneOwnerIn(saved') /\ StateSound(saved')
  BY <1>1, <1>2 DEF OneOwnerIn, OwnersIn, StateSound
<1>4. ASSUME ~upset PROVE \A p : Recorded(p)' = Recorded(p)
  <2>1. saved'.installs = saved.installs
    BY <1>1, <1>2, <1>4
  <2>2. OwnersIn(saved') = OwnersIn(saved)
    BY <2>1 DEF OwnersIn
  <2> DEFINE owner == CHOOSE s \in OwnersIn(saved) : TRUE
             later == CHOOSE s \in OwnersIn(saved') : TRUE
  <2>3. later = owner
    BY <2>2, Zenon
  <2>4. \A p : Recorded(p) = IF OwnersIn(saved) = {} THEN Absent ELSE saved.installs[owner].manifest[p]
    BY Zenon DEF Recorded
  <2>5. \A p : Recorded(p)' =
                 IF OwnersIn(saved') = {} THEN Absent ELSE saved'.installs[later].manifest[p]
    BY Zenon DEF Recorded
  <2> HIDE DEF owner, later
  <2>6. QED
    BY <2>1, <2>2, <2>3, <2>4, <2>5
<1>5. (\E o \in Processes : Applying(o)) => \E o \in Processes : Applying(o)'
  BY DEF Applying
<1>6. CopyAsRecorded'
  BY <1>1, <1>4, <1>5 DEF MachineOK, CopyAsRecorded, Applying
<1>7. QED
  BY <1>1, <1>2, <1>3, <1>6 DEF MachineOK, PlaceSound, LinksTracked

\* Pull records the version, then links it.
LEMMA SubscribeStep ==
    ASSUME Inv, NEW q \in Processes, Subscribe(q)
    PROVE  Inv'
<1> DEFINE j == job[q]
           base == [j EXCEPT !.base = j.mem.subscription.manifest]
           e == [version |-> j.version, manifest |-> Left(base)]
<1>1. /\ TypeOK /\ MachineOK /\ ProcessOK(q) /\ AloneOK(q) /\ j \in Job /\ j.mem \in State
      /\ j.version \in Nat /\ j.version > 0
      /\ Remote(j) \in Manifest /\ Published(Remote(j)) /\ pc[q] = "subscribing"
      /\ Goto(q, "linking") /\ "linking" \in ControlPoint
      /\ saved' = [j.mem EXCEPT !.subscription = e]
      /\ UNCHANGED <<head, place, files, mirror, job, edited, upset, acts>>
  BY Parts DEF Subscribe, ControlPoint, ProcessOK
<1>2. /\ j.mem.subscription.manifest \in Manifest /\ Published(j.mem.subscription.manifest)
  BY <1>1 DEF State, Entry, ProcessOK, StateSound
<1>3. base.base = j.mem.subscription.manifest /\ Remote(base) = Remote(j) /\ base.conflicts = j.conflicts
  BY <1>1 DEF Job, Remote
<1>4. Left(base) \in Manifest /\ Published(Left(base))
  BY <1>1, <1>2, <1>3 DEF Left, Manifest, Published
<1>5. e \in Entry /\ Published(e.manifest) /\ e.version > 0
  BY <1>1, <1>4 DEF Entry
<1> HIDE DEF e
<1>6. Do(q, j)
  BY <1>1 DEF Do, TypeOK
<1>7. /\ pc' \in [Processes -> ControlPoint] /\ job' \in [Processes -> Job]
      /\ pc'[q] = "linking" /\ job'[q] = j
      /\ \A o \in Processes \ {q} : pc'[o] = pc[o] /\ job'[o] = job[o]
  BY <1>1, <1>6, Moved
<1>8. saved' \in State /\ saved'.subscription = e /\ MachineOK'
  BY <1>1, <1>5, <1>7, SubscriptionSaved
<1>9. TypeOK'
  BY <1>1, <1>7, <1>8 DEF TypeOK
<1>10. ProcessOK(q)'
  BY <1>1, <1>7 DEF ProcessOK
<1>11. AloneOK(q)'
  BY <1>1, <1>5, <1>7, <1>8 DEF AloneOK, Alone, Applying
<1>12. QED
  BY <1>1, <1>7, <1>8, <1>9, <1>10, <1>11, ProcessStep

\* The mirror is linked where the place allows it; a link goes, and then its record.
LEMMA LinkSteps ==
    ASSUME Inv, NEW q \in Processes, LinkOrgUnit(q) \/ Unlink(q) \/ Forget(q)
    PROVE  Inv'
<1>1. /\ TypeOK /\ MachineOK /\ ProcessOK(q) /\ AloneOK(q) /\ job[q] \in Job
      /\ UNCHANGED <<head, files, mirror, edited, upset, acts>>
  BY Parts DEF LinkOrgUnit, Unlink, Forget
<1>2. /\ head' \in 0..Len(Catalog[Org]) /\ files' \in Manifest /\ mirror' \in Manifest
      /\ edited' \subseteq Paths /\ upset' \in BOOLEAN /\ acts' \in 0..MaxActs
  BY <1>1 DEF TypeOK, Manifest
<1>3. CASE LinkOrgUnit(q)
  <2>1. /\ pc[q] = "linking" /\ place' = (IF LinkFree THEN "link" ELSE place) /\ End(q)
        /\ UNCHANGED saved
    BY <1>3 DEF LinkOrgUnit
  <2>2. \A o \in Processes \ {q} : pc'[o] = pc[o]
    BY <1>1, <2>1 DEF End, Goto, TypeOK
  <2>3. /\ \A p : Recorded(p)' = Recorded(p)
        /\ (\E o \in Processes : Applying(o)) => \E o \in Processes : Applying(o)'
    BY <2>1, <2>2 DEF Recorded, OwnersIn, Applying
  <2>4. CopyAsRecorded'
    BY <1>1, <2>3 DEF MachineOK, CopyAsRecorded, Applying
  <2>5. LinksTracked'
    BY <1>1, <2>1 DEF AloneOK, LinksTracked
  <2>6. PlaceSound'
    BY <1>1, <2>1 DEF MachineOK, PlaceSound, LinkFree
  <2>7. MachineOK'
    BY <1>1, <2>1, <2>4, <2>5, <2>6 DEF MachineOK
  <2>8. place' \in Place /\ saved' \in State /\ (place' = "foreign" => place = "foreign")
    BY <1>1, <2>1 DEF TypeOK, Place
  <2>9. QED
    BY <1>1, <1>2, <2>1, <2>7, <2>8, Ended
<1>4. CASE Unlink(q)
  <2>1. /\ pc[q] = "unlinking" /\ place' = (IF place = "link" THEN "none" ELSE place)
        /\ Goto(q, "forgetting") /\ UNCHANGED <<saved, job>> /\ "forgetting" \in ControlPoint
    BY <1>4 DEF Unlink, ControlPoint
  <2>2. Do(q, job[q])
    BY <1>1, <2>1 DEF Do, TypeOK
  <2>3. /\ pc' \in [Processes -> ControlPoint] /\ job' \in [Processes -> Job]
        /\ pc'[q] = "forgetting" /\ job'[q] = job[q]
        /\ \A o \in Processes \ {q} : pc'[o] = pc[o] /\ job'[o] = job[o]
    BY <1>1, <2>1, <2>2, Moved
  <2>4. place' \in Place /\ place' # "link"
    BY <1>1, <2>1 DEF TypeOK, Place
  <2>5. /\ \A p : Recorded(p)' = Recorded(p)
        /\ (\E o \in Processes : Applying(o)) => \E o \in Processes : Applying(o)'
    BY <2>1, <2>3 DEF Recorded, OwnersIn, Applying
  <2>6. MachineOK'
    BY <1>1, <2>1, <2>4, <2>5 DEF MachineOK, CopyAsRecorded, Applying, PlaceSound, LinksTracked
  <2>7. TypeOK'
    BY <1>1, <2>1, <2>3, <2>4 DEF TypeOK
  <2>8. ProcessOK(q)' /\ AloneOK(q)'
    BY <1>1, <2>1, <2>3, <2>4 DEF ProcessOK, AloneOK, Alone, Applying
  <2>9. QED
    BY <1>1, <2>1, <2>3, <2>6, <2>7, <2>8, ProcessStep
<1>5. CASE Forget(q)
  <2>1. /\ pc[q] = "forgetting" /\ End(q) /\ UNCHANGED place
        /\ saved' = IF job[q].conflicts = {} THEN [job[q].mem EXCEPT !.subscription = NoEntry] ELSE saved
    BY <1>5 DEF Forget
  <2>2. \A o \in Processes \ {q} : pc'[o] = pc[o]
    BY <1>1, <2>1 DEF End, Goto, TypeOK
  <2>3. NoEntry \in Entry /\ Published(NoEntry.manifest)
    BY Empty DEF NoEntry
  <2>4. ~upset => place # "link"
    BY <1>1, <2>1 DEF AloneOK
  <2>5. saved' \in State /\ MachineOK'
    <3>1. CASE job[q].conflicts = {}
      BY <1>1, <2>1, <2>2, <2>3, <2>4, <3>1, SubscriptionSaved
    <3>2. CASE job[q].conflicts # {}
      <4>1. (\E o \in Processes : Applying(o)) => \E o \in Processes : Applying(o)'
        BY <2>1, <2>2 DEF Applying
      <4>2. QED
        BY <1>1, <2>1, <3>2, <4>1, MachineKept DEF TypeOK
    <3>3. QED
      BY <3>1, <3>2
  <2>6. place' \in Place
    BY <1>1, <2>1 DEF TypeOK
  <2>7. QED
    BY <1>1, <1>2, <2>1, <2>5, <2>6, Ended
<1>6. QED
  BY <1>3, <1>4, <1>5

\* What users do: a file of the directory changes only if it counts as edited.
LEMMA UserStep ==
    ASSUME Inv, TypeOK', UNCHANGED <<saved, pc, job, upset>>,
           place' = place \/ place' \in {"none", "dir"},
           PlaceSound', edited \subseteq edited',
           \A p \in Paths \ edited' : files'[p] = files[p]
    PROVE  Inv'
<1>1. TypeOK /\ MachineOK /\ \A q \in Processes : ProcessOK(q) /\ AloneOK(q)
  BY InvParts
<1>2. \A p : Recorded(p)' = Recorded(p)
  BY DEF Recorded, OwnersIn
<1>3. MachineOK'
  BY <1>1, <1>2 DEF MachineOK, CopyAsRecorded, LinksTracked
<1>4. ASSUME NEW q \in Processes PROVE ProcessOK(q)'
  BY <1>1 DEF ProcessOK, Others
<1>5. ASSUME NEW q \in Processes PROVE AloneOK(q)'
  <2> SUFFICES ASSUME pc[q] # "idle", ~upset PROVE AloneOK(q)'
    BY DEF AloneOK
  <2>1. /\ Alone(q)
        /\ pc[q] # "linking" => job[q].mem = saved
        /\ pc[q] = "linking" => saved.subscription.version > 0
        /\ pc[q] = "forgetting" => place' # "link"
        /\ pc[q] \in {"looking", "applying", "writing"} => place' \in {"none", "dir"}
    BY <1>1 DEF AloneOK
  <2>2. ASSUME Applying(q), NEW p \in Paths
        PROVE  /\ job[q].base[p] = Recorded(p)
               /\ p \notin edited' =>
                     files'[p] = IF Untouched(q, p) THEN Recorded(p) ELSE Remote(job[q])[p]
               /\ p \in job[q].conflicts => p \in edited'
    BY <1>1, <2>2 DEF AloneOK
  <2>3. /\ Alone(q)' = Alone(q) /\ Applying(q)' = Applying(q) /\ Remote(job[q])' = Remote(job[q])
        /\ \A p : Untouched(q, p)' = Untouched(q, p)
    BY DEF Alone, Applying, Remote, Untouched
  <2>4. QED
    BY <1>2, <2>1, <2>2, <2>3 DEF AloneOK
<1>6. QED
  BY <1>3, <1>4, <1>5, InvPartsNext

\* A version is pushed, a file of the directory is edited, or what is at the place is removed.
LEMMA UserSteps ==
    ASSUME Inv, PushOrg \/ Edit \/ Clear
    PROVE  Inv'
<1>1. TypeOK /\ MachineOK
  BY InvParts
<1>2. Act => acts' \in 0..MaxActs
  BY <1>1, ActsAssumption DEF Act, TypeOK
<1>3. CASE PushOrg
  <2>1. head' \in {0, head + 1} /\ head' <= Len(Catalog[Org]) /\ Len(Catalog[Org]) \in Nat /\ head \in Nat
    BY <1>1, <1>3, CatalogTyped, Empty DEF PushOrg, TypeOK
  <2>2. TypeOK' /\ UNCHANGED <<saved, pc, job, upset, place, edited, files>>
    BY <1>1, <1>2, <1>3, <2>1 DEF PushOrg, TypeOK
  <2>3. PlaceSound'
    BY <1>1, <2>2 DEF MachineOK, PlaceSound
  <2>4. QED
    BY <2>2, <2>3, UserStep
<1>4. CASE Edit
  <2>1. PICK p \in Paths, c \in Mine \cup {Absent} :
           files' = [files EXCEPT ![p] = c] /\ edited' = edited \cup {p}
    BY <1>4 DEF Edit
  <2>2. TypeOK' /\ UNCHANGED <<saved, pc, job, upset>> /\ place' = "dir"
    BY <1>1, <1>2, <1>4, <2>1, CatalogAssumption DEF Edit, TypeOK, Place
  <2>3. \A o \in Paths \ edited' : files'[o] = files[o]
    BY <1>1, <2>1 DEF TypeOK
  <2>4. QED
    BY <2>1, <2>2, <2>3, UserStep DEF PlaceSound
<1>5. CASE Clear
  <2>1. /\ place' = "none" /\ files' = NoFiles /\ place # "none"
        /\ edited' = IF place = "dir" THEN Paths ELSE edited
        /\ UNCHANGED <<head, mirror, saved, pc, job, upset>>
    BY <1>5 DEF Clear
  <2>2. acts' \in 0..MaxActs
    BY <1>2, <1>5 DEF Clear
  <2>3. TypeOK'
    BY <1>1, <2>1, <2>2, Empty DEF TypeOK, Place, Manifest
  <2>4. \A o \in Paths \ edited' : files'[o] = files[o]
    BY <1>1, <2>1 DEF MachineOK, PlaceSound
  <2>5. edited \subseteq edited'
    BY <1>1, <2>1 DEF TypeOK
  <2>6. QED
    BY <2>1, <2>3, <2>4, <2>5, UserStep DEF PlaceSound
<1>6. QED
  BY <1>3, <1>4, <1>5

\* Every step preserves the invariant.
LEMMA NextInv == Inv /\ [Next]_vars => Inv'
<1> SUFFICES ASSUME Inv, [Next]_vars PROVE Inv'
  OBVIOUS
<1>1. ASSUME NEW q \in Processes, Install(q) PROVE Inv'
  BY <1>1, StartSteps, UnsubscribeStep, DecideStep, GiveUpSteps, CheckStep, WriteStep, RecordStep
  DEF Install
<1>2. ASSUME NEW q \in Processes, Pull(q) PROVE Inv'
  BY <1>2, StartSteps, MirrorStep, SubscribeStep, LinkSteps DEF Pull
<1>3. ASSUME NEW q \in Processes, Fail(q) PROVE Inv'
  BY <1>3, GiveUpSteps
<1>4. CASE PushOrg \/ Edit \/ Clear
  BY <1>4, UserSteps
<1>5. CASE UNCHANGED vars
  <2>1. /\ TypeOK /\ UNCHANGED <<place, files, mirror, saved, pc, job, edited, upset>>
        /\ UNCHANGED <<head, acts>>
    BY <1>5, InvParts DEF vars
  <2>2. TypeOK'
    BY <2>1 DEF TypeOK
  <2>3. PlaceSound'
    BY <2>1, InvParts DEF MachineOK, PlaceSound
  <2>4. QED
    BY <2>1, <2>2, <2>3, UserStep
<1>6. QED
  BY <1>1, <1>2, <1>3, <1>4, <1>5 DEF Next

-----------------------------------------------------------------------------
(* The properties.                                                         *)

LEMMA AlwaysInv == Spec => []Inv
  BY InitInv, NextInv, PTL DEF Spec

\* For any catalog and any number of processes: the invariant holds, that the
\* directory has one owner included.
THEOREM Invariance == Spec => []IInv
<1>1. Inv => IInv
  BY DEF Inv
<1>2. QED
  BY AlwaysInv, <1>1, PTL

\* Where installs neither stop half-way nor race, what the user has not
\* changed is what the state file says of the copy.
THEOREM CopiesAsRecorded == Spec => []CopyAsRecorded
<1>1. Inv => CopyAsRecorded
  BY DEF Inv
<1>2. QED
  BY AlwaysInv, <1>1, PTL

\* There, too, a link into the mirror is a recorded subscription's.
THEOREM TrackedLinks == Spec => []LinksTracked
<1>1. Inv => LinksTracked
  BY DEF Inv
<1>2. QED
  BY AlwaysInv, <1>1, PTL

\* Whatever runs at the same time, an install without force writes over
\* nothing of the user's that was there when it looked.
THEOREM UsersFiles == Spec => UserFilesKept
<1> DEFINE A == \A q \in Processes :
                   pc[q] = "writing" /\ pc'[q] = "applying" /\ ~job[q].opt.force =>
                      LET cur == Disk[job[q].at]
                      IN cur \in Mine => job[q].found # cur
<1>1. Inv => A
  <2> SUFFICES ASSUME Inv, NEW q \in Processes, pc[q] = "writing", ~job[q].opt.force,
                      Disk[job[q].at] \in Mine
               PROVE  job[q].found # Disk[job[q].at]
    OBVIOUS
  <2>1. job[q].found \notin Mine
    BY Parts DEF ProcessOK
  <2>2. QED
    BY <2>1
<1>2. Inv /\ [Next]_vars => A
  BY <1>1
<1>3. QED
  BY AlwaysInv, <1>2, PTL DEF Spec, UserFilesKept
=============================================================================
