--------------------------- MODULE SkillSyncProofs ---------------------------
(***************************************************************************)
(* Proofs about SkillSync for any machines, processes, paths and bounds:   *)
(* what a sync may overwrite, what it may publish over, and that the       *)
(* server's history only changes through its interface.                    *)
(***************************************************************************)
EXTENDS SkillSync, TLAPS

\* What the invariant says of the server...
ServerOK == \A v \in 1..Latest : FromServer(server[v].files)

\* ... of one process...
ProcessOK(q) ==
    /\ FromServer(job[q].mem.manifest) /\ FromServer(job[q].remote)
    /\ pc[q] \in {"loaded", "listed"} => job[q].conflicts = {}
    /\ pc[q] = "loaded" => job[q].version = 0 /\ job[q].remote = NoFiles
    /\ pc[q] = "writing" =>
          /\ job[q].at \in Paths \ job[q].todo
          /\ job[q].force \/ job[q].found = Absent \/ <<job[q].at, job[q].found>> \in ever
    /\ pc[q] \in {"uploading", "putting"} => job[q].local # NoFiles
    /\ pc[q] = "accepted" => FromServer(job[q].local) /\ job[q].version > 0

\* ... of one that has its machine for itself...
AloneOK(q) ==
    pc[q] # "idle" /\ Host(q) \notin upset =>
        /\ job[q].mem = state[Host(q)]
        /\ pc[q] \in {"listed", "applying", "writing"} =>
              IF job[q].version = 0
                THEN job[q].remote = NoFiles /\ (job[q].mem.version = 0 \/ job[q].mem.life < life)
                ELSE IsVersion(job[q].version, job[q].life, job[q].remote, {})
        /\ Applying(q) =>
              /\ job[q].version > 0 \/ job[q].mem.version > 0
              /\ job[q].conflicts \subseteq edited[Host(q)]
              /\ \A p \in Paths \ edited[Host(q)] :
                    IF p \in job[q].todo \/ (pc[q] = "writing" /\ p = job[q].at)
                      THEN AsLeft(Host(q), job[q].mem, p)
                      ELSE files[Host(q)][p] = job[q].remote[p]
        /\ pc[q] \in {"built", "uploading", "putting"} =>
              job[q].local = NoFiles \/ job[q].mem.version = 0
                  \/ IsVersion(job[q].mem.version, job[q].mem.life, job[q].local, job[q].dirty)
        /\ pc[q] = "accepted" => IsVersion(job[q].version, job[q].life, job[q].local, {})

Recorded(m) ==
    IF state[m].version = 0
      THEN state[m] = NoEntry
      ELSE IsVersion(state[m].version, state[m].life, state[m].manifest, edited[m])

Busy(m) == \E q \in Processes : Host(q) = m /\ Applying(q)

InPlace(m) == \A p \in Paths \ edited[m] : AsLeft(m, state[m], p)

\* ... and of one machine.
MachineOK(m) ==
    /\ FromServer(state[m].manifest)
    /\ m \notin upset => Recorded(m) /\ (Busy(m) \/ InPlace(m))

\* The invariant, sorted by what it speaks of: the server, a process, a machine.
LEMMA InvParts ==
    IInv <=> /\ TypeOK /\ ServerOK /\ OneAtATime
             /\ \A q \in Processes : ProcessOK(q) /\ AloneOK(q)
             /\ \A m \in Machines : MachineOK(m)
<1>1. EntriesPublished /\ JobsSound <=>
         /\ ServerOK /\ \A q \in Processes : ProcessOK(q)
         /\ \A m \in Machines : FromServer(state[m].manifest)
  BY DEF EntriesPublished, JobsSound, ServerOK, ProcessOK
<1>2. JobsTrue <=> \A q \in Processes : AloneOK(q)
  BY DEF JobsTrue, AloneOK
<1>3. RecordsTrue <=> \A m \in Machines \ upset : Recorded(m) /\ (Busy(m) \/ InPlace(m))
  BY DEF RecordsTrue, Recorded, Busy, InPlace
<1>4. QED
  BY <1>1, <1>2, <1>3 DEF IInv, MachineOK

\* The same for the next state, in the direction the steps need.
LEMMA InvPartsNext ==
    ASSUME TypeOK', ServerOK', OneAtATime',
           \A q \in Processes : ProcessOK(q)' /\ AloneOK(q)', \A m \in Machines : MachineOK(m)'
    PROVE  IInv'
<1>1. (EntriesPublished /\ JobsSound)'
  BY DEF EntriesPublished, JobsSound, ServerOK, ProcessOK, MachineOK
<1>2. JobsTrue'
  BY DEF JobsTrue, AloneOK
<1>3. RecordsTrue'
  BY DEF RecordsTrue, Recorded, Busy, InPlace, MachineOK
<1>4. QED
  BY <1>1, <1>2, <1>3 DEF IInv

\* The empty records.
LEMMA Empty ==
    /\ NoFiles \in Manifest /\ NoEntry \in Entry /\ NoJob \in Job
    /\ FromServer(NoFiles)
    /\ \A p \in Paths : NoFiles[p] = Absent
<1>1. NoFiles \in Manifest /\ \A p \in Paths : NoFiles[p] = Absent
  BY DEF NoFiles, Manifest
<1>2. NoEntry \in Entry
  BY <1>1, BoundAssumption DEF NoEntry, Entry
<1>3. NoJob \in Job
  BY <1>1, <1>2, BoundAssumption DEF NoJob, Job
<1>4. FromServer(NoFiles)
  BY <1>1 DEF FromServer, PathsOf
<1>5. QED
  BY <1>1, <1>2, <1>3, <1>4

\* The parts of a job and its machine.
LEMMA Parts ==
    ASSUME IInv, NEW q \in Processes
    PROVE  /\ TypeOK /\ ServerOK /\ OneAtATime
           /\ ProcessOK(q) /\ AloneOK(q) /\ MachineOK(Host(q))
           /\ Host(q) \in Machines /\ pc[q] \in ControlPoint /\ job[q] \in Job
           /\ job[q].mem \in Entry /\ job[q].remote \in Manifest /\ job[q].local \in Manifest
           /\ job[q].version \in Nat /\ job[q].version <= MaxVersion
           /\ job[q].life \in 0..MaxLives
           /\ job[q].todo \subseteq Paths /\ job[q].conflicts \subseteq Paths
           /\ job[q].mem.version \in Nat /\ job[q].mem.life \in Nat /\ job[q].mem.manifest \in Manifest
           /\ state[Host(q)] \in Entry /\ files[Host(q)] \in Manifest /\ edited[Host(q)] \subseteq Paths
<1>1. /\ TypeOK /\ ServerOK /\ OneAtATime /\ ProcessOK(q) /\ AloneOK(q)
      /\ Host(q) \in Machines /\ MachineOK(Host(q))
  BY InvParts, ProcessAssumption
<1>2. pc[q] \in ControlPoint /\ job[q] \in Job
  BY <1>1 DEF TypeOK
<1>3. /\ job[q].mem \in Entry /\ job[q].remote \in Manifest /\ job[q].local \in Manifest
      /\ job[q].version \in Nat /\ job[q].version <= MaxVersion
      /\ job[q].life \in 0..MaxLives
      /\ job[q].todo \subseteq Paths /\ job[q].conflicts \subseteq Paths
  BY <1>2, BoundAssumption DEF Job
<1>4. job[q].mem.version \in Nat /\ job[q].mem.life \in Nat /\ job[q].mem.manifest \in Manifest
  BY <1>3, BoundAssumption DEF Entry
<1>5. state[Host(q)] \in Entry /\ files[Host(q)] \in Manifest /\ edited[Host(q)] \subseteq Paths
  BY <1>1 DEF TypeOK
<1>6. QED
  BY <1>1, <1>2, <1>3, <1>4, <1>5

-----------------------------------------------------------------------------
(* The server's history.                                                   *)

\* A life of the unit only gets more versions, and ends for good.
Later ==
    /\ life <= life'
    /\ life' = life => /\ Len(server) <= Len(server')
                       /\ \A v \in 1..Len(server) : server'[v] = server[v]
    /\ ever \subseteq ever'

\* What a version is after a step.
IsVersionNext(v, of, manifest, but) ==
    /\ of <= life'
    /\ of = life' => v <= Len(server') /\ \A p \in Paths \ but : manifest[p] = server'[v].files[p]

\* What is a version of the unit remains one when the server's history only grows or ends, and when
\* fewer paths are claimed.
LEMMA VersionKept ==
    ASSUME TypeOK, Later, life' \in Nat, NEW v \in Nat \ {0}, NEW of \in Nat, NEW manifest, NEW but,
           IsVersion(v, of, manifest, but), NEW more, but \subseteq more
    PROVE  IsVersionNext(v, of, manifest, more)
<1>1. life \in Nat /\ Len(server) \in Nat
  BY BoundAssumption DEF TypeOK
<1>2. of <= life'
  BY <1>1 DEF IsVersion, Later
<1>3. ASSUME of = life'
      PROVE  v <= Len(server') /\ \A p \in Paths \ more : manifest[p] = server'[v].files[p]
  <2>1. life' = life
    BY <1>1, <1>3 DEF IsVersion, Later
  <2>2. v \in 1..Len(server) /\ \A p \in Paths \ but : manifest[p] = server[v].files[p]
    BY <1>1, <1>3, <2>1 DEF IsVersion, Latest
  <2>3. v <= Len(server') /\ server'[v] = server[v]
    BY <1>1, <2>1, <2>2 DEF Later
  <2>4. QED
    BY <2>2, <2>3
<1>4. QED
  BY <1>2, <1>3 DEF IsVersionNext

-----------------------------------------------------------------------------
(* What a step leaves alone.                                               *)

\* A file that nothing touches is as the last sync left it.
AsLeftNext(m, e, p) ==
    files'[m][p] = e.manifest[p] \/ (files'[m][p] = Absent /\ edited'[m] # {} /\ e.life < life')

\* A path that is as an entry left it stays so when the file is the same.
LEMMA AsLeftKept ==
    ASSUME Later, life \in Nat, life' \in Nat, NEW m, NEW e, e.life \in Nat, NEW p, AsLeft(m, e, p),
           files'[m][p] = files[m][p], edited[m] \subseteq edited'[m]
    PROVE  AsLeftNext(m, e, p)
  BY DEF AsLeft, AsLeftNext, Later

\* What is said of a process that does not move survives every change of the server.
LEMMA ProcessKept ==
    ASSUME NEW o \in Processes, ProcessOK(o), pc'[o] = pc[o], job'[o] = job[o], Later
    PROVE  ProcessOK(o)'
  BY DEF ProcessOK, FromServer, Later

\* A process whose machine only the user touches, if anybody.
LEMMA AloneKept ==
    ASSUME IInv, TypeOK', Later, NEW o \in Processes, pc'[o] = pc[o], job'[o] = job[o],
           upset \subseteq upset',
           Host(o) \notin upset' /\ pc[o] # "idle" =>
              /\ state'[Host(o)] = state[Host(o)]
              /\ edited[Host(o)] \subseteq edited'[Host(o)]
              /\ \A p \in Paths \ edited'[Host(o)] : files'[Host(o)][p] = files[Host(o)][p]
    PROVE  AloneOK(o)'
<1> SUFFICES ASSUME pc[o] # "idle", Host(o) \notin upset'
             PROVE  AloneOK(o)'
  BY DEF AloneOK
<1> DEFINE j == job[o]
           m == Host(o)
<1>1. /\ TypeOK /\ ProcessOK(o) /\ AloneOK(o) /\ Host(o) \notin upset
      /\ j.version \in Nat /\ j.life \in Nat /\ j.mem.version \in Nat /\ j.mem.life \in Nat
  BY Parts, BoundAssumption
<1>2. life \in Nat /\ life' \in Nat
  BY <1>1, BoundAssumption DEF TypeOK
<1>3. /\ state'[m] = state[m] /\ edited[m] \subseteq edited'[m]
      /\ \A p \in Paths \ edited'[m] : files'[m][p] = files[m][p]
  OBVIOUS
<1>4. j.mem = state'[m]
  BY <1>1, <1>3 DEF AloneOK
<1>5. ASSUME pc[o] \in {"listed", "applying", "writing"}
      PROVE  IF j.version = 0
               THEN j.remote = NoFiles /\ (j.mem.version = 0 \/ j.mem.life < life')
               ELSE IsVersionNext(j.version, j.life, j.remote, {})
  <2>1. CASE j.version = 0
    BY <1>1, <1>2, <1>5, <2>1 DEF AloneOK, Later
  <2>2. CASE j.version # 0
    <3>1. IsVersion(j.version, j.life, j.remote, {})
      BY <1>1, <1>5, <2>2 DEF AloneOK
    <3>2. QED
      BY <1>1, <1>2, <2>2, <3>1, VersionKept
  <2>3. QED
    BY <2>1, <2>2
<1>6. ASSUME Applying(o)
      PROVE  /\ j.version > 0 \/ j.mem.version > 0
             /\ j.conflicts \subseteq edited'[m]
             /\ \A p \in Paths \ edited'[m] :
                   IF p \in j.todo \/ (pc[o] = "writing" /\ p = j.at)
                     THEN AsLeftNext(m, j.mem, p)
                     ELSE files'[m][p] = j.remote[p]
  <2>1. /\ j.version > 0 \/ j.mem.version > 0
        /\ j.conflicts \subseteq edited[m]
        /\ \A p \in Paths \ edited[m] :
              IF p \in j.todo \/ (pc[o] = "writing" /\ p = j.at)
                THEN AsLeft(m, j.mem, p)
                ELSE files[m][p] = j.remote[p]
    BY <1>1, <1>6 DEF AloneOK
  <2>2. ASSUME NEW p \in Paths \ edited'[m]
        PROVE  /\ AsLeft(m, j.mem, p) => AsLeftNext(m, j.mem, p)
               /\ files'[m][p] = files[m][p]
    BY <1>1, <1>2, <1>3, AsLeftKept
  <2>3. QED
    BY <1>3, <2>1, <2>2
<1>7. ASSUME pc[o] \in {"built", "uploading", "putting"}
      PROVE  j.local = NoFiles \/ j.mem.version = 0
                \/ IsVersionNext(j.mem.version, j.mem.life, j.local, j.dirty)
  BY <1>1, <1>2, <1>7, VersionKept DEF AloneOK
<1>8. ASSUME pc[o] = "accepted"
      PROVE  IsVersionNext(j.version, j.life, j.local, {})
  <2>1. IsVersion(j.version, j.life, j.local, {}) /\ j.version # 0
    BY <1>1, <1>8 DEF AloneOK, ProcessOK
  <2>2. QED
    BY <1>1, <1>2, <2>1, VersionKept
<1>9. Applying(o)' = Applying(o)
  BY DEF Applying
<1>10. QED
  BY <1>4, <1>5, <1>6, <1>7, <1>8, <1>9
  DEF AloneOK, IsVersion, IsVersionNext, AsLeft, AsLeftNext, Latest

\* A machine that only the user touches, if anybody.
LEMMA MachineKept ==
    ASSUME IInv, TypeOK', Later, NEW m \in Machines, upset \subseteq upset',
           state'[m] = state[m],
           m \notin upset' =>
              /\ edited[m] \subseteq edited'[m]
              /\ \A p \in Paths \ edited'[m] : files'[m][p] = files[m][p]
              /\ Busy(m) => Busy(m)'
    PROVE  MachineOK(m)'
<1>1. TypeOK /\ MachineOK(m) /\ state[m] \in Entry
  BY InvParts DEF TypeOK
<1>2. life \in Nat /\ life' \in Nat /\ state[m].version \in Nat /\ state[m].life \in Nat
  BY <1>1, BoundAssumption DEF TypeOK, Entry
<1>3. FromServer(state[m].manifest)'
  BY <1>1 DEF MachineOK, FromServer, Later
<1>4. ASSUME m \notin upset' PROVE Recorded(m)'
  <2>1. Recorded(m)
    BY <1>1, <1>4 DEF MachineOK
  <2>2. CASE state[m].version = 0
    BY <2>1, <2>2 DEF Recorded
  <2>3. CASE state[m].version # 0
    <3>1. IsVersionNext(state[m].version, state[m].life, state[m].manifest, edited'[m])
      BY <1>1, <1>2, <1>4, <2>1, <2>3, VersionKept DEF Recorded
    <3>2. QED
      BY <2>3, <3>1 DEF Recorded, IsVersion, IsVersionNext, Latest
  <2>4. QED
    BY <2>2, <2>3
<1>5. ASSUME m \notin upset', ~Busy(m)' PROVE InPlace(m)'
  <2>1. InPlace(m)
    BY <1>1, <1>5 DEF MachineOK
  <2>2. ASSUME NEW p \in Paths \ edited'[m] PROVE AsLeftNext(m, state[m], p)
    BY <1>2, <1>5, <2>1, AsLeftKept DEF InPlace
  <2>3. QED
    BY <2>2 DEF InPlace, AsLeft, AsLeftNext
<1>6. QED
  BY <1>3, <1>4, <1>5 DEF MachineOK

\* A step of one process.
LEMMA ProcessStep ==
    ASSUME IInv, NEW q \in Processes, Later, TypeOK', ServerOK',
           \A o \in Processes \ {q} : pc'[o] = pc[o] /\ job'[o] = job[o],
           \A m \in Machines \ {Host(q)} :
              state'[m] = state[m] /\ files'[m] = files[m] /\ edited'[m] = edited[m],
           upset \subseteq upset',
           \/ pc[q] # "idle"
           \/ \A o \in Processes \ {q} : Host(o) = Host(q) /\ pc[o] # "idle" => Host(q) \in upset',
           ProcessOK(q)', AloneOK(q)', MachineOK(Host(q))'
    PROVE  IInv'
<1>1. OneAtATime /\ \A o \in Processes : ProcessOK(o) /\ Host(o) \in Machines
  BY InvParts, ProcessAssumption
<1>2. ASSUME NEW o \in Processes \ {q}, Host(o) = Host(q), pc[o] # "idle"
      PROVE  Host(q) \in upset'
  BY <1>1, <1>2 DEF OneAtATime
<1>3. OneAtATime'
  <2> SUFFICES ASSUME NEW o \in Processes, NEW r \in Processes, Host(o) = Host(r),
                      pc'[o] # "idle", pc'[r] # "idle", o # r
               PROVE  Host(o) \in upset'
    BY DEF OneAtATime
  <2>1. CASE o = q \/ r = q
    BY <1>2, <2>1
  <2>2. CASE o # q /\ r # q
    BY <1>1, <2>2 DEF OneAtATime
  <2>3. QED
    BY <2>1, <2>2
<1>4. ASSUME NEW o \in Processes \ {q} PROVE ProcessOK(o)' /\ AloneOK(o)'
  <2>1. ProcessOK(o)'
    BY <1>1, ProcessKept
  <2>2. Host(o) \notin upset' /\ pc[o] # "idle" =>
           /\ state'[Host(o)] = state[Host(o)] /\ edited'[Host(o)] = edited[Host(o)]
           /\ files'[Host(o)] = files[Host(o)]
    BY <1>1, <1>2
  <2>3. AloneOK(o)'
    BY <2>2, AloneKept
  <2>4. QED
    BY <2>1, <2>3
<1>5. ASSUME NEW m \in Machines \ {Host(q)} PROVE MachineOK(m)'
  <2>1. Busy(m) => Busy(m)'
    BY DEF Busy, Applying
  <2>2. QED
    BY <2>1, MachineKept
<1>6. QED
  BY <1>3, <1>4, <1>5, InvPartsNext

\* Where a step of one process leaves pc and job.
LEMMA Moved ==
    ASSUME TypeOK, NEW q \in Processes, NEW where \in ControlPoint, Goto(q, where),
           NEW j \in Job, Do(q, j)
    PROVE  /\ pc' \in [Processes -> ControlPoint] /\ job' \in [Processes -> Job]
           /\ pc'[q] = where /\ job'[q] = j
           /\ \A o \in Processes \ {q} : pc'[o] = pc[o] /\ job'[o] = job[o]
  BY DEF TypeOK, Goto, Do

\* Steps that change neither the history, nor the machines' files and state.
LEMMA LocalStep ==
    ASSUME IInv, NEW q \in Processes, pc[q] # "idle", NEW where \in ControlPoint, Goto(q, where),
           NEW j \in Job, Do(q, j),
           Applying(q) /\ Host(q) \notin upset' => where \in {"applying", "writing"},
           UNCHANGED <<scope, server, life, files, state, page, edited, ever, acts>>,
           blobs' \subseteq Contents, pending' \in [Machines -> Pending \cup {Nothing}],
           upset \subseteq upset', upset' \subseteq Machines,
           ProcessOK(q)', AloneOK(q)'
    PROVE  IInv'
<1>1. TypeOK /\ ServerOK /\ Host(q) \in Machines
  BY Parts
<1>2. /\ pc' \in [Processes -> ControlPoint] /\ job' \in [Processes -> Job]
      /\ pc'[q] = where /\ job'[q] = j
      /\ \A o \in Processes \ {q} : pc'[o] = pc[o] /\ job'[o] = job[o]
  BY <1>1, Moved
<1>3. TypeOK'
  BY <1>1, <1>2 DEF TypeOK, Latest
<1>4. ServerOK' /\ Later
  BY <1>1, BoundAssumption DEF ServerOK, Later, Latest, FromServer, TypeOK
<1>5. Host(q) \notin upset' /\ Busy(Host(q)) => Busy(Host(q))'
  BY <1>2 DEF Busy, Applying
<1>6. MachineOK(Host(q))'
  BY <1>1, <1>3, <1>4, <1>5, MachineKept
<1>7. QED
  BY <1>2, <1>3, <1>4, <1>6, ProcessStep

\* A process that ends without having begun to write, or for good.
LEMMA Ended ==
    ASSUME IInv, NEW q \in Processes, pc[q] # "idle", End(q),
           Applying(q) => Host(q) \in upset',
           UNCHANGED <<scope, server, life, files, state, page, edited, ever, acts, blobs>>,
           pending' \in [Machines -> Pending \cup {Nothing}],
           upset \subseteq upset', upset' \subseteq Machines
    PROVE  IInv'
<1>1. "idle" \in ControlPoint /\ NoJob \in Job /\ Goto(q, "idle") /\ Do(q, NoJob)
  BY Empty DEF ControlPoint, End
<1>2. TypeOK
  BY Parts
<1>3. pc'[q] = "idle" /\ job'[q] = NoJob
  BY <1>1, <1>2, Moved
<1>4. FromServer(NoFiles)'
  BY Empty DEF FromServer
<1>5. ProcessOK(q)'
  BY <1>3, <1>4 DEF ProcessOK, NoJob, NoEntry
<1>6. AloneOK(q)'
  BY <1>3 DEF AloneOK
<1>7. blobs' \subseteq Contents
  BY <1>2 DEF TypeOK
<1>8. QED
  BY <1>1, <1>5, <1>6, <1>7, LocalStep

-----------------------------------------------------------------------------
(* The steps of a sync.                                                    *)

\* A process begins with what is saved.
LEMMA StartStep ==
    ASSUME IInv, NEW q \in Processes, Start(q)
    PROVE  IInv'
<1>1. PICK op \in {"pass", "push", "pull"}, force \in BOOLEAN :
         Do(q, [NoJob EXCEPT !.op = op, !.force = force, !.mem = state[Host(q)]])
  BY DEF Start
<1> DEFINE j == [NoJob EXCEPT !.op = op, !.force = force, !.mem = state[Host(q)]]
<1>2. /\ j \in Job /\ j.mem = state[Host(q)] /\ j.remote = NoFiles /\ j.version = 0
      /\ j.conflicts = {}
  BY Parts, Empty DEF NoJob, Job
<1>3. Do(q, j)
  BY <1>1
<1> HIDE DEF j
<1>4. /\ TypeOK /\ ServerOK /\ MachineOK(Host(q)) /\ Host(q) \in Machines /\ pc[q] = "idle"
      /\ Goto(q, "loaded") /\ "loaded" \in ControlPoint
      /\ upset' = upset \cup {Host(o) : o \in {o \in Processes \ {q} : pc[o] # "idle" /\ Host(o) = Host(q)}}
      /\ acts' \in 0..MaxActs
      /\ UNCHANGED <<scope, server, life, blobs, files, state, pending, page, edited, ever>>
  BY Parts, BoundAssumption DEF Start, ControlPoint, TypeOK
<1>5. /\ pc' \in [Processes -> ControlPoint] /\ job' \in [Processes -> Job]
      /\ pc'[q] = "loaded" /\ job'[q] = j
      /\ \A o \in Processes \ {q} : pc'[o] = pc[o] /\ job'[o] = job[o]
  BY <1>2, <1>3, <1>4, Moved
<1>6. /\ upset \subseteq upset' /\ upset' \subseteq Machines
      /\ \A o \in Processes \ {q} : Host(o) = Host(q) /\ pc[o] # "idle" => Host(q) \in upset'
  BY <1>4 DEF TypeOK
<1>7. TypeOK'
  BY <1>4, <1>5, <1>6 DEF TypeOK, Latest
<1>8. ServerOK' /\ Later
  BY <1>4, BoundAssumption DEF ServerOK, Later, Latest, FromServer, TypeOK
<1>9. MachineOK(Host(q))'
  <2>1. Busy(Host(q)) => Busy(Host(q))'
    BY <1>4, <1>5 DEF Busy, Applying
  <2>2. QED
    BY <1>4, <1>6, <1>7, <1>8, <2>1, MachineKept
<1>10. ProcessOK(q)'
  BY <1>2, <1>4, <1>5, Empty DEF ProcessOK, MachineOK, FromServer
<1>11. AloneOK(q)'
  BY <1>2, <1>4, <1>5 DEF AloneOK, Applying
<1>12. QED
  BY <1>4, <1>5, <1>6, <1>7, <1>8, <1>9, <1>10, <1>11, ProcessStep

\* The head a listing gives, or none, is the server's.
LEMMA HeadKnown ==
    ASSUME IInv, NEW q \in Processes, pc[q] = "loaded"
    PROVE  LET j == WithHead(job[q]) IN
           /\ j \in Job /\ j.mem = job[q].mem /\ j.conflicts = {} /\ FromServer(j.remote)
           /\ j.op = job[q].op
           /\ Latest > 0 => j.life = life
           /\ Host(q) \notin upset =>
                 IF j.version = 0
                   THEN j.remote = NoFiles /\ (j.mem.version = 0 \/ j.mem.life < life)
                   ELSE IsVersion(j.version, j.life, j.remote, {})
<1> DEFINE j == WithHead(job[q])
<1>1. /\ TypeOK /\ ServerOK /\ ProcessOK(q) /\ AloneOK(q) /\ MachineOK(Host(q))
      /\ job[q] \in Job /\ job[q].mem \in Entry /\ state[Host(q)] \in Entry /\ life \in 0..MaxLives
      /\ Latest \in Nat /\ Latest <= MaxVersion
  BY Parts, BoundAssumption DEF TypeOK, Latest
<1>2. job[q].version = 0 /\ job[q].remote = NoFiles /\ job[q].conflicts = {}
  BY <1>1 DEF ProcessOK
<1>3. CASE Latest = 0
  <2>1. j = job[q]
    BY <1>3 DEF WithHead
  <2>2. ASSUME Host(q) \notin upset PROVE j.mem.version = 0 \/ j.mem.life < life
    <3>1. j.mem = state[Host(q)] /\ Recorded(Host(q))
      BY <1>1, <2>1, <2>2 DEF AloneOK, MachineOK
    <3>2. j.mem.version \in Nat /\ j.mem.life \in Nat /\ life \in Nat
      BY <1>1, <3>1, BoundAssumption DEF Entry
    <3>3. QED
      BY <1>1, <1>3, <3>1, <3>2 DEF Recorded, IsVersion
  <2>3. QED
    BY <1>1, <1>2, <1>3, <2>1, <2>2 DEF ProcessOK
<1>4. CASE Latest # 0
  <2>1. j = [job[q] EXCEPT !.version = Latest, !.remote = LatestFiles, !.life = life]
    BY <1>4 DEF WithHead
  <2>2. Latest \in 1..Latest /\ server[Latest] \in Version
    BY <1>1, <1>4 DEF TypeOK, Latest
  <2>3. LatestFiles \in Manifest /\ FromServer(LatestFiles)
    BY <1>1, <2>2 DEF ServerOK, LatestFiles, Version
  <2>4. j \in Job
    <3>1. Latest \in 0..MaxVersion /\ job[q] \in Job /\ life \in 0..MaxLives
      BY <1>1, BoundAssumption
    <3> HIDE DEF j
    <3>2. QED
      BY <2>1, <2>3, <3>1 DEF Job
  <2>5. /\ j.version = Latest /\ j.remote = LatestFiles /\ j.life = life
        /\ j.mem = job[q].mem /\ j.conflicts = {} /\ j.op = job[q].op
    BY <1>1, <1>2, <2>1 DEF Job
  <2>6. IsVersion(j.version, j.life, j.remote, {})
    BY <1>1, <2>5, BoundAssumption DEF IsVersion, LatestFiles
  <2>7. QED
    BY <1>4, <2>3, <2>4, <2>5, <2>6
<1>5. QED
  BY <1>3, <1>4

\* A process that has its machine finds what is recorded on disk.
LEMMA NotBusy ==
    ASSUME IInv, NEW q \in Processes, pc[q] # "idle", ~Applying(q), Host(q) \notin upset
    PROVE  Recorded(Host(q)) /\ InPlace(Host(q)) /\ job[q].mem = state[Host(q)]
<1>1. OneAtATime /\ MachineOK(Host(q)) /\ AloneOK(q)
  BY Parts
<1>2. ~Busy(Host(q))
  BY <1>1 DEF Busy, OneAtATime, Applying
<1>3. QED
  BY <1>1, <1>2 DEF MachineOK, AloneOK

\* A process starts to apply what it knows of the server.
LEMMA ApplyStep ==
    ASSUME IInv, NEW q \in Processes, pc[q] \in {"loaded", "listed"},
           NEW j \in Job, Do(q, j), Goto(q, "applying"),
           j.mem = job[q].mem, j.conflicts = {}, j.todo = ToApply(j, j.remote),
           FromServer(j.remote), j.version > 0 \/ j.mem.version > 0,
           Host(q) \notin upset =>
              IF j.version = 0
                THEN j.remote = NoFiles /\ (j.mem.version = 0 \/ j.mem.life < life)
                ELSE IsVersion(j.version, j.life, j.remote, {}),
           UNCHANGED <<scope, server, life, blobs, files, state, pending, page, edited, upset, ever, acts>>
    PROVE  IInv'
<1>1. /\ TypeOK /\ ProcessOK(q) /\ "applying" \in ControlPoint /\ "applying" # "idle"
      /\ files[Host(q)] \in Manifest
  BY Parts DEF ControlPoint
<1>2. pc'[q] = "applying" /\ job'[q] = j
  BY <1>1, Moved
<1>3. ProcessOK(q)'
  BY <1>1, <1>2 DEF ProcessOK, FromServer
<1>4. ASSUME Host(q) \notin upset, NEW p \in Paths \ edited[Host(q)]
      PROVE  IF p \in j.todo THEN AsLeft(Host(q), j.mem, p) ELSE files[Host(q)][p] = j.remote[p]
  <2>1. InPlace(Host(q)) /\ j.mem = state[Host(q)]
    BY <1>4, NotBusy DEF Applying
  <2>2. AsLeft(Host(q), j.mem, p)
    BY <1>4, <2>1 DEF InPlace
  <2>3. p \notin j.todo => j.mem.manifest[p] = Absent /\ j.remote[p] = Absent
    BY DEF ToApply, PathsOf
  <2>4. QED
    BY <2>2, <2>3 DEF AsLeft
<1>5. AloneOK(q)'
  <2> SUFFICES ASSUME Host(q) \notin upset PROVE AloneOK(q)'
    BY DEF AloneOK
  <2>1. job[q].mem = state[Host(q)]
    BY NotBusy DEF Applying
  <2>2. \A p : AsLeft(Host(q), j.mem, p)' = AsLeft(Host(q), j.mem, p)
    BY DEF AsLeft
  <2>3. IsVersion(j.version, j.life, j.remote, {})' = IsVersion(j.version, j.life, j.remote, {})
    BY DEF IsVersion, Latest
  <2>4. QED
    BY <1>2, <1>4, <2>1, <2>2, <2>3 DEF AloneOK, Applying
<1>6. blobs' \subseteq Contents /\ pending' \in [Machines -> Pending \cup {Nothing}] /\ upset' \subseteq Machines
  BY <1>1 DEF TypeOK
<1>7. QED
  BY <1>1, <1>3, <1>5, <1>6, LocalStep DEF Applying

\* A pass has the listing.
LEMMA ListedStep ==
    ASSUME IInv, NEW q \in Processes, pc[q] = "loaded",
           NEW j \in Job, Do(q, j), Goto(q, "listed"),
           j.mem = job[q].mem, j.conflicts = {}, FromServer(j.remote),
           Host(q) \notin upset =>
              IF j.version = 0
                THEN j.remote = NoFiles /\ (j.mem.version = 0 \/ j.mem.life < life)
                ELSE IsVersion(j.version, j.life, j.remote, {}),
           UNCHANGED <<scope, server, life, blobs, files, state, pending, page, edited, upset, ever, acts>>
    PROVE  IInv'
<1>1. /\ TypeOK /\ ProcessOK(q) /\ AloneOK(q) /\ ~Applying(q)
      /\ "listed" \in ControlPoint /\ blobs' \subseteq Contents /\ upset' \subseteq Machines
      /\ pending' \in [Machines -> Pending \cup {Nothing}]
  BY Parts DEF ControlPoint, TypeOK, Applying
<1>2. pc'[q] = "listed" /\ job'[q] = j
  BY <1>1, Moved
<1>3. ProcessOK(q)'
  BY <1>1, <1>2 DEF ProcessOK, FromServer
<1>4. IsVersion(j.version, j.life, j.remote, {})' = IsVersion(j.version, j.life, j.remote, {})
  BY DEF IsVersion, Latest
<1>5. AloneOK(q)'
  BY <1>1, <1>2, <1>4 DEF AloneOK, Applying
<1>6. QED
  BY <1>1, <1>3, <1>5, LocalStep

\* The pass learns of the head (skillsPass, list): what it gets was published.
LEMMA ListStep ==
    ASSUME IInv, NEW q \in Processes, List(q)
    PROVE  IInv'
<1> DEFINE j == WithHead(job[q])
<1>1. /\ TypeOK /\ ServerOK /\ Host(q) \in Machines /\ pc[q] = "loaded" /\ ~Applying(q)
      /\ UNCHANGED <<scope, server, life, blobs, files, state, pending, page, edited, upset, ever, acts>>
  BY Parts DEF List, Applying
<1>2. /\ j \in Job /\ j.mem = job[q].mem /\ j.conflicts = {} /\ FromServer(j.remote)
      /\ Latest > 0 => j.life = life
      /\ Host(q) \notin upset =>
            IF j.version = 0
              THEN j.remote = NoFiles /\ (j.mem.version = 0 \/ j.mem.life < life)
              ELSE IsVersion(j.version, j.life, j.remote, {})
  BY <1>1, HeadKnown
<1>3. ASSUME NEW remote \in Manifest PROVE ToApply(j, remote) \subseteq Paths
  BY DEF ToApply, PathsOf
<1>4. CASE Do(q, j) /\ Goto(q, "listed")
  <2> HIDE DEF j
  <2>1. QED
    BY <1>1, <1>2, <1>4, ListedStep
<1>5. CASE /\ j.version > 0 \/ j.mem.version > 0
           /\ Do(q, [j EXCEPT !.todo = ToApply(j, j.remote)])
           /\ Goto(q, "applying")
  <2> DEFINE k == [j EXCEPT !.todo = ToApply(j, j.remote)]
  <2>1. j.remote \in Manifest
    BY <1>2 DEF Job
  <2>2. ToApply(j, j.remote) \subseteq Paths
    BY <1>3, <2>1
  <2>3. /\ k \in Job /\ k.mem = j.mem /\ k.conflicts = {} /\ k.remote = j.remote
        /\ k.version = j.version /\ k.life = j.life /\ k.todo = ToApply(j, j.remote)
    <3> HIDE DEF j
    <3> QED BY <1>2, <2>2 DEF Job
  <2>4. ToApply(k, k.remote) = ToApply(j, j.remote)
    BY <2>3 DEF ToApply
  <2>5. Do(q, k)
    BY <1>5
  <2> HIDE DEF j, k
  <2>6. QED
    BY <1>1, <1>2, <1>5, <2>3, <2>4, <2>5, ApplyStep
<1>6. ASSUME NEW v \in 1..Latest - 1, Goto(q, "applying"),
             Do(q, [j EXCEPT !.version = v, !.remote = server[v].files,
                             !.todo = ToApply(j, server[v].files)])
      PROVE  IInv'
  <2> DEFINE k == [j EXCEPT !.version = v, !.remote = server[v].files,
                            !.todo = ToApply(j, server[v].files)]
  <2>1. /\ Latest \in Nat /\ Latest <= MaxVersion /\ MaxVersion \in Nat /\ life \in Nat
        /\ v \in 1..Latest /\ v \in 0..MaxVersion /\ v \in Nat /\ v > 0
    BY <1>1, BoundAssumption DEF TypeOK, Latest
  <2>2. server[v] \in Version
    BY <1>1, <2>1 DEF TypeOK, Latest
  <2>3. server[v].files \in Manifest /\ FromServer(server[v].files)
    BY <1>1, <2>1, <2>2 DEF Version, ServerOK
  <2>4. ToApply(j, server[v].files) \subseteq Paths
    BY <1>3, <2>3
  <2>5. /\ k \in Job /\ k.mem = j.mem /\ k.conflicts = {} /\ k.remote = server[v].files
        /\ k.version = v /\ k.life = j.life /\ k.todo = ToApply(j, server[v].files)
    <3> HIDE DEF j
    <3> QED BY <1>2, <2>1, <2>3, <2>4 DEF Job
  <2>6. ToApply(k, k.remote) = k.todo
    BY <2>5 DEF ToApply
  <2>7. j.life = life
    BY <1>2, <2>1
  <2>8. Do(q, k)
    BY <1>6
  <2> HIDE DEF j, k
  <2>9. IsVersion(k.version, k.life, k.remote, {})
    BY <2>1, <2>5, <2>7 DEF IsVersion
  <2>10. QED
    BY <1>1, <1>2, <1>6, <2>1, <2>3, <2>5, <2>6, <2>8, <2>9, ApplyStep
<1>7. QED
  BY <1>4, <1>5, <1>6 DEF List

\* A process goes on to its push with what it built.
LEMMA BuiltStep ==
    ASSUME IInv, NEW q \in Processes, pc[q] \in {"loaded", "listed"},
           NEW j \in Job, Do(q, j), Goto(q, "built"),
           j.mem = job[q].mem, j.dirty = edited[Host(q)], j.local \in {NoFiles, files[Host(q)]},
           FromServer(j.remote),
           UNCHANGED <<scope, server, life, blobs, files, state, pending, page, edited, upset, ever, acts>>
    PROVE  IInv'
<1>1. TypeOK /\ ProcessOK(q) /\ "built" \in ControlPoint /\ ~Applying(q) /\ state[Host(q)] \in Entry
  BY Parts DEF ControlPoint, Applying
<1>2. pc'[q] = "built" /\ job'[q] = j
  BY <1>1, Moved
<1>3. ProcessOK(q)'
  BY <1>1, <1>2 DEF ProcessOK, FromServer
<1>4. ASSUME Host(q) \notin upset, j.local # NoFiles, j.mem.version # 0
      PROVE  IsVersion(j.mem.version, j.mem.life, j.local, j.dirty)
  <2>1. Recorded(Host(q)) /\ InPlace(Host(q)) /\ j.mem = state[Host(q)]
    BY <1>1, <1>4, NotBusy
  <2>2. IsVersion(j.mem.version, j.mem.life, j.mem.manifest, edited[Host(q)])
    BY <1>4, <2>1 DEF Recorded
  <2>3. j.mem.life \in Nat /\ life \in Nat
    BY <1>1, <2>1, BoundAssumption DEF Entry, TypeOK
  <2>4. j.mem.life = life => \A p \in Paths \ edited[Host(q)] : j.local[p] = j.mem.manifest[p]
    BY <1>4, <2>1, <2>3 DEF InPlace, AsLeft
  <2>5. QED
    BY <2>2, <2>4 DEF IsVersion
<1>5. AloneOK(q)'
  <2> SUFFICES ASSUME Host(q) \notin upset PROVE AloneOK(q)'
    BY DEF AloneOK
  <2>1. j.mem = state[Host(q)]
    BY <1>1, NotBusy
  <2>2. IsVersion(j.mem.version, j.mem.life, j.local, j.dirty)'
            = IsVersion(j.mem.version, j.mem.life, j.local, j.dirty)
    BY DEF IsVersion, Latest
  <2>3. QED
    BY <1>2, <1>4, <2>1, <2>2 DEF AloneOK, Applying
<1>6. blobs' \subseteq Contents /\ pending' \in [Machines -> Pending \cup {Nothing}] /\ upset' \subseteq Machines
  BY <1>1 DEF TypeOK
<1>7. QED
  BY <1>1, <1>3, <1>5, <1>6, LocalStep

\* What the pass builds is on disk: the recorded files, but for the user's edits.
LEMMA BuildStep ==
    ASSUME IInv, NEW q \in Processes, Build(q)
    PROVE  IInv'
<1> DEFINE built == IF scope = "org" /\ job[q].op = "pass" THEN NoFiles ELSE files[Host(q)]
           j == [job[q] EXCEPT !.local = built, !.dirty = edited[Host(q)]]
<1>1. /\ ProcessOK(q) /\ AloneOK(q) /\ job[q] \in Job /\ job[q].mem \in Entry /\ job[q].version \in Nat
      /\ job[q].mem.version \in Nat /\ files[Host(q)] \in Manifest /\ edited[Host(q)] \subseteq Paths
      /\ pc[q] \in {"loaded", "listed"}
      /\ UNCHANGED <<scope, server, life, blobs, files, state, pending, page, edited, upset, ever, acts>>
  BY Parts DEF Build
<1>2. built \in Manifest /\ built \in {NoFiles, files[Host(q)]}
  BY <1>1, Empty
<1> HIDE DEF built
<1>3. /\ j \in Job /\ j.mem = job[q].mem /\ j.local = built /\ j.dirty = edited[Host(q)]
      /\ j.remote = job[q].remote /\ j.version = job[q].version /\ j.life = job[q].life
      /\ j.conflicts = job[q].conflicts
  BY <1>1, <1>2 DEF Job
<1> DEFINE applies == j.version > 0 /\ DecidePull(j.mem, j.version, built) = "apply"
           k == [j EXCEPT !.force = @ /\ applies, !.todo = ToApply(j, j.remote)]
<1>4. CASE /\ pc[q] = "listed" /\ Do(q, k) /\ Goto(q, "applying")
           /\ (j.version = 0 /\ j.mem.version > 0) \/ applies
  <2>1. j.force \in BOOLEAN
    BY <1>3 DEF Job
  <2>2. (j.force /\ applies) \in BOOLEAN
    OBVIOUS
  <2>3. j.version > 0 \/ j.mem.version > 0
    BY <1>4
  <2>4. ToApply(j, j.remote) \subseteq Paths
    BY DEF ToApply, PathsOf
  <2> DEFINE f == j.force /\ applies
  <2>5. f \in BOOLEAN /\ k = [j EXCEPT !.force = f, !.todo = ToApply(j, j.remote)]
    BY <2>2
  <2>6. Do(q, k) /\ Goto(q, "applying")
    BY <1>4
  <2> HIDE DEF applies, j, f, k
  <2>7. /\ k \in Job /\ k.mem = j.mem /\ k.conflicts = j.conflicts /\ k.remote = j.remote
        /\ k.version = j.version /\ k.life = j.life /\ k.todo = ToApply(j, j.remote)
    BY <1>3, <2>4, <2>5 DEF Job
  <2>8. ToApply(k, k.remote) = k.todo
    BY <2>7 DEF ToApply
  <2>9. k.conflicts = {} /\ FromServer(k.remote)
    BY <1>1, <1>3, <2>7 DEF ProcessOK
  <2>10. Host(q) \notin upset =>
            IF k.version = 0
              THEN k.remote = NoFiles /\ (k.mem.version = 0 \/ k.mem.life < life)
              ELSE IsVersion(k.version, k.life, k.remote, {})
    BY <1>1, <1>3, <1>4, <2>7 DEF AloneOK
  <2>11. QED
    BY <1>1, <1>3, <2>3, <2>6, <2>7, <2>8, <2>9, <2>10, ApplyStep
<1>5. CASE Do(q, ForPush(j)) /\ Goto(q, "built")
  <2>1. /\ ForPush(j) \in Job /\ ForPush(j).mem = j.mem /\ ForPush(j).local = j.local
        /\ ForPush(j).dirty = j.dirty /\ ForPush(j).remote = NoFiles
    <3> HIDE DEF j
    <3> QED BY <1>1, <1>2, <1>3, Empty DEF ForPush, NoJob, Job
  <2> HIDE DEF j
  <2>2. QED
    BY <1>1, <1>2, <1>3, <1>5, <2>1, Empty, BuiltStep
<1>6. CASE Do(q, j) /\ Goto(q, "built")
  <2> HIDE DEF j
  <2>1. FromServer(j.remote)
    BY <1>1, <1>3 DEF ProcessOK
  <2>2. QED
    BY <1>1, <1>2, <1>3, <1>6, <2>1, BuiltStep
<1>7. QED
  <2>1. \/ /\ pc[q] = "listed" /\ Do(q, k) /\ Goto(q, "applying")
           /\ (j.version = 0 /\ j.mem.version > 0) \/ applies
        \/ Do(q, ForPush(j)) /\ Goto(q, "built")
        \/ Do(q, j) /\ Goto(q, "built")
    BY Zenon DEF Build, built
  <2>2. QED
    BY <1>4, <1>5, <1>6, <2>1

\* A process looks at a file of what it applies.
LEMMA LookStep ==
    ASSUME IInv, NEW q \in Processes, pc[q] = "applying", NEW where \in {"applying", "writing"},
           Goto(q, where), NEW j \in Job, Do(q, j),
           j.mem = job[q].mem, j.remote = job[q].remote, j.version = job[q].version,
           j.life = job[q].life,
           where = "writing" =>
              j.at \in Paths \ j.todo /\ (j.force \/ j.found = Absent \/ <<j.at, j.found>> \in ever),
           Host(q) \notin upset =>
              /\ j.conflicts \subseteq edited[Host(q)]
              /\ \A p \in Paths \ edited[Host(q)] :
                    IF p \in j.todo \/ (where = "writing" /\ p = j.at)
                      THEN AsLeft(Host(q), j.mem, p)
                      ELSE files[Host(q)][p] = j.remote[p],
           UNCHANGED <<scope, server, life, blobs, files, state, pending, page, edited, upset, ever, acts>>
    PROVE  IInv'
<1>1. /\ TypeOK /\ ProcessOK(q) /\ AloneOK(q) /\ where \in ControlPoint
      /\ blobs' \subseteq Contents /\ upset' \subseteq Machines
      /\ pending' \in [Machines -> Pending \cup {Nothing}]
  BY Parts DEF ControlPoint, TypeOK
<1>2. pc'[q] = where /\ job'[q] = j
  BY <1>1, Moved
<1>3. ProcessOK(q)'
  BY <1>1, <1>2 DEF ProcessOK, FromServer
<1>4. /\ IsVersion(j.version, j.life, j.remote, {})' = IsVersion(j.version, j.life, j.remote, {})
      /\ \A p : AsLeft(Host(q), j.mem, p)' = AsLeft(Host(q), j.mem, p)
  BY DEF IsVersion, Latest, AsLeft
<1>5. AloneOK(q)'
  BY <1>1, <1>2, <1>4 DEF AloneOK, Applying
<1>6. QED
  BY <1>1, <1>3, <1>5, LocalStep

\* A file is looked at before it is replaced or kept (bundle.Apply).
LEMMA CheckStep ==
    ASSUME IInv, NEW q \in Processes, NEW p \in Paths, Check(q, p)
    PROVE  IInv'
<1> DEFINE j == [job[q] EXCEPT !.todo = @ \ {p}]
           cur == files[Host(q)][p]
           m == Host(q)
<1>1. /\ TypeOK /\ ProcessOK(q) /\ AloneOK(q) /\ job[q] \in Job /\ cur \in Contents \cup {Absent}
      /\ pc[q] = "applying" /\ p \in job[q].todo
      /\ UNCHANGED <<scope, server, life, blobs, files, state, pending, page, edited, upset, ever, acts>>
  BY Parts DEF Check, NextPath, Manifest
<1>2. /\ j \in Job /\ j.mem = job[q].mem /\ j.remote = job[q].remote /\ j.version = job[q].version
      /\ j.life = job[q].life /\ j.conflicts = job[q].conflicts /\ j.force = job[q].force
      /\ j.todo = job[q].todo \ {p}
  BY <1>1 DEF Job
<1>3. UNCHANGED pc => Goto(q, "applying")
  BY <1>1 DEF Goto, TypeOK
<1>4. ASSUME m \notin upset
      PROVE  /\ j.conflicts \subseteq edited[m]
             /\ \A o \in Paths \ edited[m] :
                   IF o \in job[q].todo THEN AsLeft(m, j.mem, o) ELSE files[m][o] = j.remote[o]
  BY <1>1, <1>2, <1>4 DEF AloneOK, Applying
<1>5. ASSUME j.mem.manifest[p] = cur, cur # Absent PROVE <<p, cur>> \in ever
  BY <1>1, <1>2, <1>5 DEF ProcessOK, FromServer, PathsOf
<1> HIDE DEF j
<1>6. CASE cur = j.remote[p] /\ Do(q, j) /\ UNCHANGED pc
  <2>1. m \notin upset =>
           \A o \in Paths \ edited[m] :
              IF o \in j.todo THEN AsLeft(m, j.mem, o) ELSE files[m][o] = j.remote[o]
    BY <1>2, <1>4, <1>6
  <2>2. QED
    BY <1>1, <1>2, <1>3, <1>4, <1>6, <2>1, LookStep
<1>7. CASE cur # j.remote[p] /\ Conflicts(j, cur, p)
           /\ Do(q, [j EXCEPT !.conflicts = @ \cup {p}]) /\ UNCHANGED pc
  <2> DEFINE k == [j EXCEPT !.conflicts = @ \cup {p}]
  <2>1. /\ k \in Job /\ k.mem = j.mem /\ k.remote = j.remote /\ k.version = j.version
        /\ k.life = j.life /\ k.conflicts = j.conflicts \cup {p} /\ k.todo = j.todo
    BY <1>2 DEF Job
  <2>2. m \notin upset => p \in edited[m]
    BY <1>1, <1>4, <1>7 DEF Conflicts, AsLeft
  <2>3. Do(q, k)
    BY <1>7
  <2> HIDE DEF k
  <2>4. m \notin upset =>
           /\ k.conflicts \subseteq edited[m]
           /\ \A o \in Paths \ edited[m] :
                 IF o \in k.todo THEN AsLeft(m, k.mem, o) ELSE files[m][o] = k.remote[o]
    BY <1>2, <1>4, <2>1, <2>2
  <2>5. QED
    BY <1>1, <1>2, <1>3, <1>7, <2>1, <2>3, <2>4, LookStep
<1>8. CASE ~Conflicts(j, cur, p)
           /\ Do(q, [j EXCEPT !.at = p, !.found = cur]) /\ Goto(q, "writing")
  <2> DEFINE k == [j EXCEPT !.at = p, !.found = cur]
  <2>1. /\ k \in Job /\ k.mem = j.mem /\ k.remote = j.remote /\ k.version = j.version
        /\ k.life = j.life /\ k.conflicts = j.conflicts /\ k.todo = j.todo /\ k.force = j.force
        /\ k.at = p /\ k.found = cur
    BY <1>1, <1>2 DEF Job
  <2>2. Do(q, k)
    BY <1>8
  <2>3. cur = Absent \/ j.force \/ <<p, cur>> \in ever
    BY <1>5, <1>8 DEF Conflicts
  <2>4. k.at \in Paths \ k.todo /\ (k.force \/ k.found = Absent \/ <<k.at, k.found>> \in ever)
    BY <1>2, <2>1, <2>3
  <2> HIDE DEF k, cur
  <2>5. m \notin upset =>
           /\ k.conflicts \subseteq edited[m]
           /\ \A o \in Paths \ edited[m] :
                 IF o \in k.todo \/ o = k.at THEN AsLeft(m, k.mem, o) ELSE files[m][o] = k.remote[o]
    BY <1>1, <1>2, <1>4, <2>1
  <2>6. QED
    BY <1>1, <1>2, <1>8, <2>1, <2>2, <2>4, <2>5, LookStep
<1>9. QED
  <2>1. /\ cur = j.remote[p] => Do(q, j) /\ UNCHANGED pc
        /\ cur # j.remote[p] /\ Conflicts(j, cur, p) =>
              Do(q, [j EXCEPT !.conflicts = @ \cup {p}]) /\ UNCHANGED pc
        /\ cur # j.remote[p] /\ ~Conflicts(j, cur, p) =>
              Do(q, [j EXCEPT !.at = p, !.found = cur]) /\ Goto(q, "writing")
    BY DEF Check, j
  <2>2. QED
    BY <1>6, <1>7, <1>8, <2>1

\* Nothing is pushed: the process is done.
LEMMA SkipStep ==
    ASSUME IInv, NEW q \in Processes, Skip(q)
    PROVE  IInv'
<1>1. TypeOK /\ pc[q] # "idle" /\ ~Applying(q) /\ End(q)
      /\ UNCHANGED <<scope, server, life, blobs, files, state, page, edited, upset, ever, acts>>
  BY Parts DEF Skip, Applying
<1>2. pending' \in [Machines -> Pending \cup {Nothing}] /\ upset' \subseteq Machines
  BY <1>1 DEF Skip, TypeOK
<1>3. QED
  BY <1>1, <1>2, Ended

\* A push goes on with what the process has.
LEMMA PushStep ==
    ASSUME IInv, NEW q \in Processes, pc[q] \in {"built", "uploading"},
           NEW where \in {"uploading", "putting"}, Goto(q, where), UNCHANGED job,
           job[q].local # NoFiles,
           UNCHANGED <<scope, server, life, files, state, page, edited, upset, ever, acts>>,
           blobs' \subseteq Contents, pending' \in [Machines -> Pending \cup {Nothing}]
    PROVE  IInv'
<1>1. /\ TypeOK /\ ProcessOK(q) /\ AloneOK(q) /\ where \in ControlPoint /\ ~Applying(q)
      /\ job[q] \in Job /\ upset' \subseteq Machines
  BY Parts DEF ControlPoint, Applying, TypeOK
<1>2. Do(q, job[q])
  BY <1>1 DEF Do, TypeOK
<1>3. pc'[q] = where
  BY <1>1, <1>2, Moved
<1>4. ProcessOK(q)'
  BY <1>1, <1>3 DEF ProcessOK, FromServer
<1>5. AloneOK(q)'
  BY <1>1, <1>3 DEF AloneOK, Applying, IsVersion, Latest
<1>6. QED
  BY <1>1, <1>2, <1>4, <1>5, LocalStep

\* The debouncer is asked, and begins to wait or lets the push go.
LEMMA ConsiderStep ==
    ASSUME IInv, NEW q \in Processes, Consider(q)
    PROVE  IInv'
<1>1. /\ TypeOK /\ pc[q] = "built" /\ ~Applying(q) /\ job[q].local # NoFiles
      /\ job[q].local \in Manifest /\ Host(q) \in Machines
      /\ UNCHANGED <<scope, server, life, blobs, files, state, page, edited, upset, ever, acts>>
      /\ blobs' \subseteq Contents /\ upset' \subseteq Machines
  BY Parts DEF Consider, Applying, TypeOK
<1>2. pending' \in [Machines -> Pending \cup {Nothing}]
  <2>1. (~Debounced) \in BOOLEAN
    OBVIOUS
  <2>2. [hash |-> job[q].local, settled |-> ~Debounced] \in Pending
    BY <1>1, <2>1 DEF Pending
  <2>3. QED
    BY <1>1, <2>2 DEF Consider, TypeOK
<1>3. \/ Goto(q, "uploading") /\ UNCHANGED job
      \/ End(q)
  BY DEF Consider
<1>4. QED
  BY <1>1, <1>2, <1>3, PushStep, Ended

\* The files the server has not are uploaded; the unit is not changed.
LEMMA UploadStep ==
    ASSUME IInv, NEW q \in Processes, Upload(q)
    PROVE  IInv'
<1>1. /\ TypeOK /\ ProcessOK(q) /\ pc[q] = "uploading" /\ job[q].local \in Manifest
      /\ Goto(q, "putting") /\ UNCHANGED job
      /\ UNCHANGED <<scope, server, life, files, state, pending, page, edited, upset, ever, acts>>
      /\ blobs' = blobs \cup {job[q].local[p] : p \in PathsOf(job[q].local)}
  BY Parts DEF Upload
<1>2. blobs' \subseteq Contents /\ pending' \in [Machines -> Pending \cup {Nothing}]
  BY <1>1 DEF TypeOK, PathsOf, Manifest
<1>3. job[q].local # NoFiles
  BY <1>1 DEF ProcessOK
<1>4. QED
  BY <1>1, <1>2, <1>3, PushStep

\* A file is replaced by the version's.
LEMMA WriteStep ==
    ASSUME IInv, NEW q \in Processes, Write(q)
    PROVE  IInv'
<1> DEFINE m == Host(q)
           at == job[q].at
           j == [job[q] EXCEPT !.at = Nothing, !.found = Absent]
<1>1. /\ TypeOK /\ ServerOK /\ ProcessOK(q) /\ AloneOK(q) /\ MachineOK(m) /\ m \in Machines
      /\ job[q] \in Job /\ job[q].remote \in Manifest /\ files[m] \in Manifest
      /\ pc[q] = "writing" /\ Do(q, j) /\ Goto(q, "applying") /\ "applying" \in ControlPoint
      /\ files' = [files EXCEPT ![m][at] = job[q].remote[at]]
      /\ UNCHANGED <<scope, server, life, blobs, state, pending, page, edited, upset, ever, acts>>
  BY Parts DEF Write, ControlPoint
<1>2. /\ j \in Job /\ j.mem = job[q].mem /\ j.remote = job[q].remote /\ j.version = job[q].version
      /\ j.life = job[q].life /\ j.conflicts = job[q].conflicts /\ j.todo = job[q].todo
  BY <1>1 DEF Job
<1> HIDE DEF j
<1>3. /\ pc' \in [Processes -> ControlPoint] /\ job' \in [Processes -> Job]
      /\ pc'[q] = "applying" /\ job'[q] = j
      /\ \A o \in Processes \ {q} : pc'[o] = pc[o] /\ job'[o] = job[o]
  BY <1>1, <1>2, Moved
<1>4. at \in Paths \ job[q].todo
  BY <1>1 DEF ProcessOK
<1>5. /\ files' \in [Machines -> Manifest] /\ files'[m][at] = job[q].remote[at]
      /\ \A p \in Paths \ {at} : files'[m][p] = files[m][p]
      /\ \A o \in Machines \ {m} : files'[o] = files[o]
  <2>1. files \in [Machines -> Manifest]
    BY <1>1 DEF TypeOK
  <2>2. [files[m] EXCEPT ![at] = job[q].remote[at]] \in Manifest
    BY <1>1, <1>4 DEF Manifest
  <2>3. files' = [files EXCEPT ![m] = [files[m] EXCEPT ![at] = job[q].remote[at]]]
    BY <1>1
  <2>4. QED
    BY <1>1, <1>4, <2>1, <2>2, <2>3 DEF Manifest
<1>6. TypeOK' /\ ServerOK' /\ Later
  BY <1>1, <1>3, <1>5, BoundAssumption DEF TypeOK, ServerOK, Later, Latest, FromServer
<1>7. ProcessOK(q)'
  BY <1>1, <1>2, <1>3 DEF ProcessOK, FromServer
<1>8. MachineOK(m)'
  <2>1. Busy(m)'
    BY <1>3 DEF Busy, Applying
  <2>2. m \notin upset => Recorded(m)'
    BY <1>1 DEF MachineOK, Recorded, IsVersion, Latest
  <2>3. QED
    BY <1>1, <2>1, <2>2 DEF MachineOK, FromServer
<1>9. AloneOK(q)'
  <2> SUFFICES ASSUME m \notin upset PROVE AloneOK(q)'
    BY <1>1 DEF AloneOK
  <2>1. /\ j.mem = state[m]
        /\ IF j.version = 0
             THEN j.remote = NoFiles /\ (j.mem.version = 0 \/ j.mem.life < life)
             ELSE IsVersion(j.version, j.life, j.remote, {})
        /\ j.version > 0 \/ j.mem.version > 0
        /\ j.conflicts \subseteq edited[m]
        /\ \A p \in Paths \ edited[m] :
              IF p \in j.todo \/ p = at THEN AsLeft(m, j.mem, p) ELSE files[m][p] = j.remote[p]
    BY <1>1, <1>2 DEF AloneOK, Applying
  <2>2. ASSUME NEW p \in Paths \ edited[m]
        PROVE  IF p \in j.todo THEN AsLeftNext(m, j.mem, p) ELSE files'[m][p] = j.remote[p]
    <3>1. CASE p = at
      BY <1>2, <1>4, <1>5, <3>1
    <3>2. CASE p # at
      BY <1>1, <1>5, <2>1, <3>2 DEF AsLeft, AsLeftNext
    <3>3. QED
      BY <3>1, <3>2
  <2>3. QED
    BY <1>1, <1>3, <2>1, <2>2 DEF AloneOK, Applying, AsLeft, AsLeftNext, IsVersion, Latest
<1>10. QED
  BY <1>1, <1>3, <1>5, <1>6, <1>7, <1>8, <1>9, ProcessStep

\* A process that is done holds nothing.
LEMMA Idle ==
    ASSUME NEW q \in Processes, pc'[q] = "idle", job'[q] = NoJob
    PROVE  ProcessOK(q)' /\ AloneOK(q)'
  BY Empty DEF ProcessOK, AloneOK, FromServer, NoJob, NoEntry, PathsOf

\* A sync records what it has left on disk.
LEMMA SaveStep ==
    ASSUME IInv, NEW q \in Processes, pc[q] # "idle", NEW where \in ControlPoint, Goto(q, where),
           NEW j \in Job, Do(q, j), NEW e \in Entry, Records(q, e), FromServer(e.manifest),
           UNCHANGED <<scope, server, life, blobs, files, page, ever, acts>>,
           upset \subseteq upset', upset' \subseteq Machines,
           pending' \in [Machines -> Pending \cup {Nothing}],
           Host(q) \notin upset' =>
              /\ e.version = 0 => e = NoEntry
              /\ e.version # 0 => IsVersion(e.version, e.life, e.manifest, edited'[Host(q)])
              /\ \A p \in Paths \ edited'[Host(q)] : files[Host(q)][p] = e.manifest[p],
           ProcessOK(q)', AloneOK(q)'
    PROVE  IInv'
<1> DEFINE m == Host(q)
<1>1. TypeOK /\ ServerOK /\ m \in Machines
  BY Parts
<1>2. /\ pc' \in [Processes -> ControlPoint] /\ job' \in [Processes -> Job]
      /\ \A o \in Processes \ {q} : pc'[o] = pc[o] /\ job'[o] = job[o]
  BY <1>1, Moved
<1>3. /\ state' = [state EXCEPT ![m] = e]
      /\ edited' = [edited EXCEPT ![m] =
                       {p \in @ : p \in job[q].conflicts \/ files[m][p] # e.manifest[p]}]
  BY DEF Records
<1>4. /\ state' \in [Machines -> Entry] /\ edited' \in [Machines -> SUBSET Paths] /\ state'[m] = e
      /\ \A o \in Machines \ {m} : state'[o] = state[o] /\ edited'[o] = edited[o]
  BY <1>1, <1>3 DEF TypeOK
<1>5. TypeOK' /\ ServerOK' /\ Later
  BY <1>1, <1>2, <1>4, BoundAssumption DEF TypeOK, ServerOK, Later, Latest, FromServer
<1>6. MachineOK(m)'
  <2>1. m \notin upset' => Recorded(m)'
    BY <1>4 DEF Recorded, IsVersion, Latest
  <2>2. m \notin upset' => InPlace(m)'
    BY <1>4 DEF InPlace, AsLeft
  <2>3. QED
    BY <1>4, <2>1, <2>2 DEF MachineOK, FromServer
<1>7. QED
  BY <1>1, <1>2, <1>4, <1>5, <1>6, ProcessStep

\* What is left on disk after a manifest was applied.
LEMMA LeftApplied ==
    ASSUME IInv, NEW q \in Processes, pc[q] = "applying", job[q].todo = {}, Host(q) \notin upset
    PROVE  /\ job[q].conflicts \subseteq edited[Host(q)]
           /\ \A p \in Paths \ edited[Host(q)] : files[Host(q)][p] = job[q].remote[p]
           /\ job[q].mem = state[Host(q)]
           /\ job[q].version = 0 =>
                 /\ job[q].remote = NoFiles /\ job[q].mem.version > 0
                 /\ job[q].mem.life < life
           /\ job[q].version # 0 => IsVersion(job[q].version, job[q].life, job[q].remote, {})
  BY Parts DEF AloneOK, Applying

\* A pull has applied a version.
LEMMA AppliedStep ==
    ASSUME IInv, NEW q \in Processes, Finish(q), job[q].version > 0
    PROVE  IInv'
<1> DEFINE j == job[q]
           m == Host(q)
           left == Left(q, j)
           e == Applied(q, j)
<1>1. /\ TypeOK /\ ProcessOK(q) /\ m \in Machines /\ j \in Job /\ j.mem \in Entry /\ j.remote \in Manifest
      /\ j.mem.manifest \in Manifest /\ j.version \in 0..MaxVersion /\ j.life \in 0..MaxLives
      /\ pc[q] = "applying" /\ j.todo = {} /\ Records(q, e) /\ End(q)
      /\ pending' = IF j.op = "pass" THEN [pending EXCEPT ![Host(q)] = Nothing] ELSE pending
      /\ UNCHANGED <<scope, server, life, blobs, files, page, upset, ever, acts>>
  BY Parts DEF Finish, Job
<1>2. left \in Manifest /\ FromServer(left)
  <2>1. \A p \in Paths : left[p] \in {j.mem.manifest[p], j.remote[p]}
    BY DEF Left
  <2>2. left \in Manifest
    BY <1>1 DEF Left, Manifest
  <2>3. QED
    BY <1>1, <2>1, <2>2 DEF ProcessOK, FromServer, PathsOf
<1>3. e \in Entry /\ e.version = j.version /\ e.life = j.life /\ e.manifest = left
  BY <1>1, <1>2 DEF Applied, Entry
<1>4. /\ "idle" \in ControlPoint /\ NoJob \in Job /\ Goto(q, "idle") /\ Do(q, NoJob)
  BY <1>1, Empty DEF ControlPoint, End
<1>5. ProcessOK(q)' /\ AloneOK(q)'
  BY <1>1, <1>4, Moved, Idle
<1>6. edited'[m] = {p \in edited[m] : p \in j.conflicts \/ files[m][p] # left[p]}
  BY <1>1, <1>3 DEF Records, TypeOK
<1>7. ASSUME m \notin upset'
      PROVE  /\ IsVersion(e.version, e.life, e.manifest, edited'[m])
             /\ \A p \in Paths \ edited'[m] : files[m][p] = e.manifest[p]
  <2>1. /\ j.conflicts \subseteq edited[m]
        /\ \A p \in Paths \ edited[m] : files[m][p] = j.remote[p]
        /\ IsVersion(j.version, j.life, j.remote, {})
    BY <1>1, <1>7, LeftApplied
  <2>2. \A p \in Paths \ edited'[m] : left[p] = j.remote[p]
    BY <1>6, <2>1 DEF Left
  <2>3. \A p \in Paths \ edited'[m] : files[m][p] = left[p]
    BY <1>6, <2>1, <2>2
  <2>4. QED
    BY <1>3, <2>1, <2>2, <2>3 DEF IsVersion
<1> HIDE DEF e, left
<1>8. pending' \in [Machines -> Pending \cup {Nothing}] /\ upset' \subseteq Machines /\ e.version # 0
  BY <1>1, <1>3 DEF TypeOK
<1>9. PICK saved \in Entry : saved = e
  BY <1>3
<1>10. QED
  BY <1>1, <1>2, <1>3, <1>4, <1>5, <1>7, <1>8, <1>9, SaveStep

\* What a pass goes on with after a removal.
LEMMA ForPushTyped ==
    ASSUME NEW j \in Job
    PROVE  LET k == ForPush(j) IN
           /\ k \in Job /\ k.mem = j.mem /\ k.local = j.local /\ k.dirty = j.dirty
           /\ k.remote = NoFiles /\ k.conflicts = {}
  BY Empty DEF ForPush, NoJob, Job

\* A unit that is gone from the server is forgotten.
LEMMA ForgottenStep ==
    ASSUME IInv, NEW q \in Processes, Finish(q), job[q].version = 0, job[q].conflicts = {}
    PROVE  IInv'
<1> DEFINE m == Host(q)
<1>1. /\ TypeOK /\ ProcessOK(q) /\ m \in Machines /\ job[q] \in Job
      /\ pc[q] = "applying" /\ job[q].todo = {} /\ Records(q, NoEntry)
      /\ UNCHANGED <<scope, server, life, blobs, files, pending, page, upset, ever, acts>>
      /\ \/ Goto(q, "built") /\ Do(q, [ForPush(job[q]) EXCEPT !.mem = NoEntry])
         \/ End(q)
  BY Parts DEF Finish
<1>2. NoEntry \in Entry /\ NoEntry.version = 0 /\ NoEntry.manifest = NoFiles /\ FromServer(NoFiles)
  BY Empty DEF NoEntry
<1>3. edited'[m] = {p \in edited[m] : p \in job[q].conflicts \/ files[m][p] # NoFiles[p]}
  BY <1>1, <1>2 DEF Records, TypeOK
<1>4. ASSUME m \notin upset', NEW p \in Paths \ edited'[m] PROVE files[m][p] = NoFiles[p]
  BY <1>1, <1>3, <1>4, LeftApplied
<1>5. upset' \subseteq Machines /\ pending' \in [Machines -> Pending \cup {Nothing}]
  BY <1>1 DEF TypeOK
<1>6. CASE End(q)
  <2>1. "idle" \in ControlPoint /\ NoJob \in Job /\ Goto(q, "idle") /\ Do(q, NoJob)
    BY <1>6, Empty DEF ControlPoint, End
  <2>2. ProcessOK(q)' /\ AloneOK(q)'
    BY <1>1, <2>1, Moved, Idle
  <2>3. QED
    BY <1>1, <1>2, <1>4, <1>5, <2>1, <2>2, SaveStep
<1>7. CASE Goto(q, "built") /\ Do(q, [ForPush(job[q]) EXCEPT !.mem = NoEntry])
  <2>1. PICK j \in Job : j = [ForPush(job[q]) EXCEPT !.mem = NoEntry]
    BY <1>1, <1>2, ForPushTyped DEF Job
  <2>2. j.mem = NoEntry /\ j.remote = NoFiles /\ j.conflicts = {}
    BY <1>1, <2>1, ForPushTyped DEF Job
  <2>3. "built" \in ControlPoint
    BY DEF ControlPoint
  <2>4. pc'[q] = "built" /\ job'[q] = j
    BY <1>1, <1>7, <2>1, <2>3, Moved
  <2>5. ProcessOK(q)'
    BY <1>1, <1>2, <2>2, <2>4 DEF ProcessOK, FromServer
  <2>6. AloneOK(q)'
    <3>1. state'[m] = NoEntry
      BY <1>1 DEF Records, TypeOK
    <3>2. QED
      BY <1>2, <2>2, <2>4, <3>1 DEF AloneOK, Applying
  <2>7. QED
    BY <1>1, <1>2, <1>4, <1>5, <1>7, <2>1, <2>3, <2>5, <2>6, SaveStep
<1>8. QED
  BY <1>1, <1>6, <1>7

\* A unit that is gone stays recorded when edited files were kept.
LEMMA KeptStep ==
    ASSUME IInv, NEW q \in Processes, Finish(q), job[q].version = 0, job[q].conflicts # {}
    PROVE  IInv'
<1> DEFINE m == Host(q)
<1>1. /\ TypeOK /\ ServerOK /\ ProcessOK(q) /\ MachineOK(m) /\ m \in Machines /\ job[q] \in Job
      /\ pc[q] = "applying" /\ job[q].todo = {}
      /\ UNCHANGED <<scope, server, life, blobs, files, state, pending, edited, page, upset, ever, acts>>
      /\ \/ Goto(q, "built") /\ Do(q, [ForPush(job[q]) EXCEPT !.mem = @])
         \/ End(q)
  BY Parts DEF Finish
<1>2. PICK j \in Job, where \in {"built", "idle"} :
         /\ Goto(q, where) /\ Do(q, j)
         /\ where = "built" => j.mem = job[q].mem /\ j.remote = NoFiles /\ j.conflicts = {}
         /\ where = "idle" => j = NoJob
  <2>1. [ForPush(job[q]) EXCEPT !.mem = @] = ForPush(job[q])
    BY <1>1, ForPushTyped DEF Job
  <2>2. QED
    BY <1>1, <2>1, ForPushTyped, Empty DEF End
<1>3. where \in ControlPoint
  BY DEF ControlPoint
<1>4. /\ pc' \in [Processes -> ControlPoint] /\ job' \in [Processes -> Job]
      /\ pc'[q] = where /\ job'[q] = j
      /\ \A o \in Processes \ {q} : pc'[o] = pc[o] /\ job'[o] = job[o]
  BY <1>1, <1>2, <1>3, Moved
<1>5. TypeOK' /\ ServerOK' /\ Later
  BY <1>1, <1>4, BoundAssumption DEF TypeOK, ServerOK, Later, Latest, FromServer
<1>6. MachineOK(m)'
  <2>1. ASSUME m \notin upset PROVE Recorded(m)' /\ InPlace(m)'
    <3>1. /\ job[q].conflicts \subseteq edited[m] /\ state[m].life < life
          /\ \A p \in Paths \ edited[m] : files[m][p] = Absent
      BY <1>1, <2>1, LeftApplied, Empty
    <3>2. InPlace(m)'
      BY <1>1, <3>1 DEF InPlace, AsLeft
    <3>3. Recorded(m)'
      BY <1>1, <2>1 DEF MachineOK, Recorded, IsVersion, Latest
    <3>4. QED
      BY <3>2, <3>3
  <2>2. QED
    BY <1>1, <2>1 DEF MachineOK, FromServer
<1>7. ProcessOK(q)' /\ AloneOK(q)'
  <2>1. CASE where = "idle"
    BY <1>2, <1>4, <2>1, Idle
  <2>2. CASE where = "built"
    <3>1. ProcessOK(q)'
      BY <1>1, <1>2, <1>4, <2>2, Empty DEF ProcessOK, FromServer
    <3>2. Host(q) \notin upset =>
             /\ j.mem = state[m] /\ j.mem.life < life
      BY <1>1, <1>2, <2>2, LeftApplied
    <3>3. life \in Nat /\ j.mem.life \in Nat
      BY <1>1, BoundAssumption DEF TypeOK, Job, Entry
    <3>4. AloneOK(q)'
      BY <1>1, <1>4, <2>2, <3>2, <3>3 DEF AloneOK, Applying, IsVersion
    <3>5. QED
      BY <3>1, <3>4
  <2>3. QED
    BY <2>1, <2>2
<1>8. QED
  BY <1>1, <1>4, <1>5, <1>6, <1>7, ProcessStep

\* The manifest has been applied: what is recorded depends on whether it was a removal, and on
\* conflicts.
LEMMA FinishStep ==
    ASSUME IInv, NEW q \in Processes, Finish(q)
    PROVE  IInv'
<1>1. job[q].version \in Nat
  BY Parts
<1>2. QED
  BY <1>1, AppliedStep, ForgottenStep, KeptStep

\* A version is published.
LEMMA Published ==
    ASSUME IInv, NEW parent \in 0..MaxVersion, NEW force \in BOOLEAN, NEW manifest \in Manifest,
           NEW asked, Accepts(asked, force), Publish(parent, force, manifest), life' = life
    PROVE  /\ server' \in Seq(Version) /\ Latest' = Latest + 1 /\ Latest' <= MaxVersion
           /\ server'[Latest + 1].files = manifest
           /\ ever' \subseteq Paths \X Contents /\ FromServer(manifest)'
           /\ Later /\ ServerOK'
<1> DEFINE v == [parent |-> parent, forced |-> force, files |-> manifest]
<1>1. /\ TypeOK /\ ServerOK /\ server \in Seq(Version) /\ Latest < MaxVersion /\ Latest \in Nat
      /\ life \in Nat /\ MaxVersion \in Nat
  BY InvParts, BoundAssumption DEF TypeOK, Accepts, Latest
<1>2. v \in Version /\ v.files = manifest /\ server' = Append(server, v)
  BY DEF Version, Publish
<1> HIDE DEF v
<1>3. /\ server' \in Seq(Version) /\ Len(server') = Len(server) + 1 /\ server'[Len(server) + 1] = v
      /\ \A i \in 1..Len(server) : server'[i] = server[i]
  BY <1>1, <1>2
<1>4. ever' = ever \cup {<<p, manifest[p]>> : p \in PathsOf(manifest)}
  BY DEF Publish
<1>5. ever' \subseteq Paths \X Contents
  BY <1>1, <1>4 DEF TypeOK, PathsOf, Manifest
<1>6. FromServer(manifest)'
  BY <1>4 DEF FromServer, PathsOf
<1>7. Later
  BY <1>1, <1>3, <1>4 DEF Later, Latest
<1>8. ServerOK'
  <2> SUFFICES ASSUME NEW i \in 1..Len(server')
               PROVE  \A p \in PathsOf(server'[i].files) : <<p, server'[i].files[p]>> \in ever'
    BY DEF ServerOK, Latest, FromServer, PathsOf
  <2>1. CASE i \in 1..Len(server)
    <3>1. server'[i] = server[i] /\ ever \subseteq ever' /\ FromServer(server[i].files)
      BY <1>1, <1>3, <1>7, <2>1 DEF ServerOK, Latest, Later
    <3>2. QED
      BY <3>1 DEF FromServer
  <2>2. CASE i = Len(server) + 1
    BY <1>2, <1>3, <1>4, <2>2
  <2>3. QED
    BY <1>1, <1>3, <2>1, <2>2 DEF Latest
<1>9. QED
  BY <1>1, <1>2, <1>3, <1>5, <1>6, <1>7, <1>8 DEF Latest

\* The push is accepted: its parent is the head, or it is forced.
LEMMA PutStep ==
    ASSUME IInv, NEW q \in Processes, Put(q)
    PROVE  IInv'
<1> DEFINE m == Host(q)
           j == [job[q] EXCEPT !.version = Latest + 1, !.life = life]
<1>1. /\ TypeOK /\ ProcessOK(q) /\ AloneOK(q) /\ MachineOK(m) /\ m \in Machines /\ job[q] \in Job
      /\ job[q].mem \in Entry /\ job[q].mem.version \in 0..MaxVersion /\ job[q].force \in BOOLEAN
      /\ job[q].local \in Manifest /\ pc[q] = "putting"
      /\ Accepts(job[q].mem.version, job[q].force)
      /\ Publish(job[q].mem.version, job[q].force, job[q].local)
      /\ Do(q, j) /\ Goto(q, "accepted") /\ "accepted" \in ControlPoint
      /\ UNCHANGED <<scope, life, blobs, files, state, pending, page, edited, upset, acts>>
  BY Parts DEF Put, ControlPoint, Job, Entry
<1>2. /\ server' \in Seq(Version) /\ Latest' = Latest + 1 /\ Latest' <= MaxVersion
      /\ server'[Latest + 1].files = job[q].local
      /\ ever' \subseteq Paths \X Contents
      /\ \A p \in PathsOf(job[q].local) : <<p, job[q].local[p]>> \in ever'
      /\ Later /\ ServerOK'
  <2>1. PICK manifest \in Manifest, force \in BOOLEAN, parent \in 0..MaxVersion :
           manifest = job[q].local /\ force = job[q].force /\ parent = job[q].mem.version
    BY <1>1
  <2>2. Accepts(parent, force) /\ Publish(parent, force, manifest) /\ life' = life
    BY <1>1, <2>1
  <2>3. /\ server' \in Seq(Version) /\ Latest' = Latest + 1 /\ Latest' <= MaxVersion
        /\ server'[Latest + 1].files = manifest
        /\ ever' \subseteq Paths \X Contents /\ FromServer(manifest)'
        /\ Later /\ ServerOK'
    BY <2>2, Published
  <2>4. \A p \in PathsOf(manifest) : <<p, manifest[p]>> \in ever'
    BY <2>3 DEF FromServer, PathsOf
  <2>5. QED
    BY <2>1, <2>3, <2>4
<1>3. Latest \in Nat /\ Latest + 1 \in 0..MaxVersion /\ life \in 0..MaxLives
  BY <1>1, <1>2, BoundAssumption DEF TypeOK, Latest
<1>4. /\ j \in Job /\ j.mem = job[q].mem /\ j.remote = job[q].remote /\ j.local = job[q].local
      /\ j.version = Latest + 1 /\ j.life = life
  BY <1>1, <1>3 DEF Job
<1>5. PICK k \in Job : k = j
  BY <1>4
<1> HIDE DEF j
<1>6. /\ pc' \in [Processes -> ControlPoint] /\ job' \in [Processes -> Job]
      /\ pc'[q] = "accepted" /\ job'[q] = k
      /\ \A o \in Processes \ {q} : pc'[o] = pc[o] /\ job'[o] = job[o]
  BY <1>1, <1>5, Moved
<1>7. TypeOK'
  BY <1>1, <1>2, <1>6 DEF TypeOK
<1>8. ProcessOK(q)'
  <2>1. \A p \in PathsOf(k.local) : <<p, k.local[p]>> \in ever'
    BY <1>2, <1>4, <1>5
  <2>2. QED
    BY <1>1, <1>2, <1>3, <1>4, <1>5, <1>6, <2>1 DEF ProcessOK, FromServer, Later
<1>9. AloneOK(q)'
  <2>1. IsVersionNext(k.version, k.life, k.local, {})
    BY <1>1, <1>2, <1>3, <1>4, <1>5, BoundAssumption DEF IsVersionNext, Latest
  <2>2. QED
    BY <1>1, <1>4, <1>5, <1>6, <2>1 DEF AloneOK, Applying, IsVersion, IsVersionNext, Latest
<1>10. MachineOK(m)'
  <2>1. Busy(m) => Busy(m)'
    BY <1>1, <1>6 DEF Busy, Applying
  <2>2. QED
    BY <1>1, <1>2, <1>7, <2>1, MachineKept
<1>11. QED
  BY <1>1, <1>2, <1>6, <1>7, <1>8, <1>9, <1>10, ProcessStep

\* A push that was accepted is recorded.
LEMMA RecordStep ==
    ASSUME IInv, NEW q \in Processes, Record(q)
    PROVE  IInv'
<1> DEFINE j == job[q]
           m == Host(q)
           e == [version |-> j.version, manifest |-> j.local, life |-> j.life]
<1>1. /\ TypeOK /\ ProcessOK(q) /\ AloneOK(q) /\ m \in Machines /\ j \in Job
      /\ pc[q] = "accepted" /\ Records(q, e) /\ End(q)
      /\ upset' = IF \A p \in Paths : j.local[p] = files[m][p] \/ p \in edited[m]
                    THEN upset ELSE upset \cup {m}
      /\ pending' = IF j.op = "pass" THEN [pending EXCEPT ![m] = Nothing] ELSE pending
      /\ UNCHANGED <<scope, server, life, blobs, files, page, ever, acts>>
  BY Parts DEF Record
<1>2. /\ e \in Entry /\ e.version = j.version /\ e.manifest = j.local /\ e.life = j.life
      /\ FromServer(e.manifest) /\ e.version # 0
  BY <1>1 DEF Entry, Job, ProcessOK
<1>3. "idle" \in ControlPoint /\ NoJob \in Job /\ Goto(q, "idle") /\ Do(q, NoJob)
  BY <1>1, Empty DEF ControlPoint, End
<1>4. ProcessOK(q)' /\ AloneOK(q)'
  BY <1>1, <1>3, Moved, Idle
<1>5. /\ upset \subseteq upset' /\ upset' \subseteq Machines
      /\ pending' \in [Machines -> Pending \cup {Nothing}]
  BY <1>1 DEF TypeOK
<1>6. edited'[m] = {p \in edited[m] : p \in j.conflicts \/ files[m][p] # j.local[p]}
  BY <1>1 DEF Records, TypeOK
<1>7. ASSUME m \notin upset'
      PROVE  /\ IsVersion(e.version, e.life, e.manifest, edited'[m])
             /\ \A p \in Paths \ edited'[m] : files[m][p] = e.manifest[p]
  <2>1. IsVersion(j.version, j.life, j.local, {})
    BY <1>1, <1>5, <1>7 DEF AloneOK
  <2>2. \A p \in Paths : j.local[p] = files[m][p] \/ p \in edited[m]
    BY <1>1, <1>7
  <2>3. QED
    BY <1>2, <1>6, <2>1, <2>2 DEF IsVersion
<1> HIDE DEF e
<1>8. PICK saved \in Entry : saved = e
  BY <1>2
<1>9. QED
  BY <1>1, <1>2, <1>3, <1>4, <1>5, <1>7, <1>8, SaveStep

\* A process ends, or goes on to its push; if it was applying a manifest its machine is upset.
LEMMA FailStep ==
    ASSUME IInv, NEW q \in Processes, Fail(q)
    PROVE  IInv'
<1>1. /\ TypeOK /\ ProcessOK(q) /\ job[q] \in Job /\ pc[q] # "idle" /\ Host(q) \in Machines
      /\ upset' = IF pc[q] \in {"applying", "writing", "accepted"} THEN upset \cup {Host(q)} ELSE upset
      /\ UNCHANGED <<scope, server, life, blobs, files, state, page, edited, ever, acts>>
  BY Parts DEF Fail
<1>2. /\ upset \subseteq upset' /\ upset' \subseteq Machines /\ blobs' \subseteq Contents
      /\ Applying(q) => Host(q) \in upset'
  BY <1>1 DEF TypeOK, Applying
<1>3. pending' \in [Machines -> Pending \cup {Nothing}]
  BY <1>1 DEF Fail, TypeOK
<1>4. CASE End(q)
  BY <1>1, <1>2, <1>3, <1>4, Ended
<1>5. CASE Applying(q) /\ Goto(q, "built") /\ Do(q, ForPush(job[q]))
  <2>1. PICK j \in Job : /\ j = ForPush(job[q])
                         /\ j.mem = job[q].mem /\ j.remote = NoFiles /\ j.conflicts = {}
    BY <1>1, ForPushTyped
  <2>2. "built" \in ControlPoint
    BY DEF ControlPoint
  <2>3. pc'[q] = "built" /\ job'[q] = j
    BY <1>1, <1>5, <2>1, <2>2, Moved
  <2>4. ProcessOK(q)'
    BY <1>1, <2>1, <2>3, Empty DEF ProcessOK, FromServer
  <2>5. AloneOK(q)'
    BY <1>2, <1>5 DEF AloneOK
  <2>6. QED
    BY <1>1, <1>2, <1>3, <1>5, <2>1, <2>2, <2>4, <2>5, LocalStep
<1>6. QED
  BY <1>4, <1>5 DEF Fail, Applying

\* A save for another unit disturbs only a machine where syncs overlap.
LEMMA SaveOtherStep ==
    ASSUME IInv, NEW q \in Processes, SaveOther(q)
    PROVE  IInv'
<1> DEFINE m == Host(q)
<1>1. /\ TypeOK /\ ServerOK /\ ProcessOK(q) /\ AloneOK(q) /\ m \in Machines /\ job[q].mem \in Entry
      /\ pc[q] # "idle" /\ state[m] # job[q].mem /\ state' = [state EXCEPT ![m] = job[q].mem]
      /\ UNCHANGED <<scope, server, life, blobs, files, pending, pc, job, page, edited, upset, ever, acts>>
  BY Parts DEF SaveOther
<1>2. m \in upset
  BY <1>1 DEF AloneOK
<1>3. /\ state' \in [Machines -> Entry] /\ state'[m] = job[q].mem
      /\ \A o \in Machines \ {m} : state'[o] = state[o]
  BY <1>1 DEF TypeOK
<1>4. TypeOK' /\ ServerOK' /\ Later
  BY <1>1, <1>3, BoundAssumption DEF TypeOK, ServerOK, Later, Latest, FromServer
<1>5. ProcessOK(q)' /\ AloneOK(q)' /\ MachineOK(m)'
  BY <1>1, <1>2, <1>3 DEF ProcessOK, AloneOK, MachineOK, FromServer
<1>6. QED
  BY <1>1, <1>3, <1>4, <1>5, ProcessStep

-----------------------------------------------------------------------------
(* The users, the browser and the whole.                                   *)

\* A step of no process.
LEMMA UserStep ==
    ASSUME IInv, Later, TypeOK', ServerOK', UNCHANGED <<pc, job, state, upset>>,
           \A m \in Machines : /\ edited[m] \subseteq edited'[m]
                               /\ \A p \in Paths \ edited'[m] : files'[m][p] = files[m][p]
    PROVE  IInv'
<1>1. OneAtATime /\ \A q \in Processes : ProcessOK(q) /\ Host(q) \in Machines
  BY InvParts, ProcessAssumption
<1>2. OneAtATime'
  BY <1>1 DEF OneAtATime
<1>3. ASSUME NEW q \in Processes PROVE ProcessOK(q)' /\ AloneOK(q)'
  <2>1. ProcessOK(q)'
    BY <1>1, ProcessKept
  <2>2. AloneOK(q)'
    BY <1>1, AloneKept
  <2>3. QED
    BY <2>1, <2>2
<1>4. ASSUME NEW m \in Machines PROVE MachineOK(m)'
  <2>1. Busy(m) => Busy(m)'
    BY DEF Busy, Applying
  <2>2. QED
    BY <2>1, MachineKept
<1>5. QED
  BY <1>2, <1>3, <1>4, InvPartsNext

\* The user changes a file, which counts as edited from then on.
LEMMA EditStep ==
    ASSUME IInv, NEW m \in Machines, Edit(m)
    PROVE  IInv'
<1>1. TypeOK /\ ServerOK
  BY InvParts
<1>2. PICK p \in Paths, c \in Contents \cup {Absent} :
         /\ files' = [files EXCEPT ![m][p] = c]
         /\ edited' = [edited EXCEPT ![m] = @ \cup {p}]
  BY DEF Edit
<1>3. /\ acts < MaxActs /\ acts' = acts + 1
      /\ UNCHANGED <<scope, server, life, blobs, state, pending, pc, job, page, upset, ever>>
  BY DEF Edit
<1>4. files' \in [Machines -> Manifest] /\ edited' \in [Machines -> SUBSET Paths]
  BY <1>1, <1>2 DEF TypeOK, Manifest
<1>5. TypeOK' /\ ServerOK' /\ Later
  BY <1>1, <1>3, <1>4, BoundAssumption DEF TypeOK, ServerOK, Later, Latest, FromServer
<1>6. ASSUME NEW o \in Machines
      PROVE  /\ edited[o] \subseteq edited'[o]
             /\ \A r \in Paths \ edited'[o] : files'[o][r] = files[o][r]
  BY <1>1, <1>2 DEF TypeOK, Manifest
<1>7. QED
  BY <1>3, <1>5, <1>6, UserStep

\* The debouncer's delay passes.
LEMMA WaitStep ==
    ASSUME IInv, NEW m \in Machines, Wait(m)
    PROVE  IInv'
<1>1. TypeOK /\ ServerOK
  BY InvParts
<1>2. /\ pending[m] # Nothing /\ pending' = [pending EXCEPT ![m].settled = TRUE]
      /\ UNCHANGED <<scope, server, life, blobs, files, state, pc, job, page, edited, upset, ever, acts>>
  BY DEF Wait
<1>3. pending[m] \in Pending
  BY <1>1, <1>2 DEF TypeOK
<1>4. pending' \in [Machines -> Pending \cup {Nothing}]
  BY <1>1, <1>2, <1>3 DEF TypeOK, Pending
<1>5. TypeOK' /\ ServerOK' /\ Later
  BY <1>1, <1>2, <1>4, BoundAssumption DEF TypeOK, ServerOK, Later, Latest, FromServer
<1>6. QED
  BY <1>2, <1>5, UserStep

\* A page reads the files of a version, and the number of the head.
LEMMA OpenStep ==
    ASSUME IInv, NEW w \in Pages, Open(w)
    PROVE  IInv'
<1>1. TypeOK /\ ServerOK
  BY InvParts
<1>2. UNCHANGED <<scope, server, life, blobs, files, state, pending, pc, job, edited, upset, ever, acts>>
  BY DEF Open
<1>3. Latest \in 0..MaxVersion
  BY <1>1, BoundAssumption DEF TypeOK, Latest
<1>4. \E v \in Page : page' = [page EXCEPT ![w] = v]
  <2>1. CASE page' = [page EXCEPT ![w] = [parent |-> 0, files |-> NoFiles]]
    <3>1. [parent |-> 0, files |-> NoFiles] \in Page
      BY Empty, BoundAssumption DEF Page
    <3>2. QED
      BY <2>1, <3>1
  <2>2. ASSUME NEW v \in 1..Latest,
               page' = [page EXCEPT ![w] = [parent |-> Latest, files |-> server[v].files]]
        PROVE  \E x \in Page : page' = [page EXCEPT ![w] = x]
    <3>1. server[v] \in Version
      BY <1>1, <2>2 DEF TypeOK, Latest
    <3>2. [parent |-> Latest, files |-> server[v].files] \in Page
      BY <1>3, <3>1 DEF Page, Version
    <3>3. QED
      BY <2>2, <3>2
  <2>3. QED
    BY <2>1, <2>2 DEF Open
<1>5. page' \in [Pages -> Page \cup {Nothing}]
  BY <1>1, <1>4 DEF TypeOK
<1>6. TypeOK' /\ ServerOK' /\ Later
  BY <1>1, <1>2, <1>5, BoundAssumption DEF TypeOK, ServerOK, Later, Latest, FromServer
<1>7. QED
  BY <1>2, <1>6, UserStep

\* What a page submits is published on top of the head it has read, or forced.
LEMMA SubmitStep ==
    ASSUME IInv, NEW w \in Pages, page[w] # Nothing, NEW manifest \in Manifest, NEW force \in BOOLEAN,
           Submit(w, manifest, force)
    PROVE  IInv'
<1>1. TypeOK /\ ServerOK
  BY InvParts
<1>2. PICK parent \in 0..MaxVersion : parent = page[w].parent
  BY <1>1 DEF TypeOK, Page
<1>3. /\ acts < MaxActs /\ Accepts(parent, force) /\ Publish(parent, force, manifest)
      /\ blobs' = blobs \cup {manifest[p] : p \in PathsOf(manifest)}
      /\ page' = [page EXCEPT ![w] = Nothing]
      /\ acts' = acts + 1
      /\ UNCHANGED <<scope, life, files, state, pending, pc, job, edited, upset>>
  BY <1>2 DEF Submit
<1>4. /\ server' \in Seq(Version) /\ Latest' <= MaxVersion
      /\ ever' \subseteq Paths \X Contents /\ Later /\ ServerOK'
  BY <1>3, Published
<1>5. blobs' \subseteq Contents
  BY <1>1, <1>3 DEF TypeOK, PathsOf, Manifest
<1>6. page' \in [Pages -> Page \cup {Nothing}]
  BY <1>1, <1>3 DEF TypeOK
<1>7. TypeOK'
  BY <1>1, <1>3, <1>4, <1>5, <1>6, BoundAssumption DEF TypeOK
<1>8. QED
  BY <1>3, <1>4, <1>7, UserStep

\* A page saves one file, or an older version, on top of what it has read.
LEMMA SaveRollBackStep ==
    ASSUME IInv, NEW w \in Pages, Save(w) \/ RollBack(w)
    PROVE  IInv'
<1>1. page[w] # Nothing /\ page[w] \in Page /\ page[w].files \in Manifest
  BY InvParts DEF TypeOK, Page, Save, RollBack
<1>2. CASE Save(w)
  <2>1. PICK p \in Paths, c \in Contents \cup {Absent}, force \in BOOLEAN :
           Submit(w, [page[w].files EXCEPT ![p] = c], force)
    BY <1>2 DEF Save
  <2>2. [page[w].files EXCEPT ![p] = c] \in Manifest
    BY <1>1 DEF Manifest
  <2>3. QED
    BY <1>1, <2>1, <2>2, SubmitStep
<1>3. CASE RollBack(w)
  BY <1>1, <1>3, SubmitStep DEF RollBack
<1>4. QED
  BY <1>2, <1>3

\* The unit goes; what was recorded of it is of an earlier life.
LEMMA DeleteStep ==
    ASSUME IInv, Delete
    PROVE  IInv'
<1>1. TypeOK /\ ServerOK
  BY InvParts
<1>2. /\ life < MaxLives /\ server' = <<>> /\ life' = life + 1
      /\ UNCHANGED <<scope, blobs, files, state, pending, pc, job, page, edited, upset, ever, acts>>
  BY DEF Delete
<1>3. server' \in Seq(Version) /\ Len(server') = 0
  BY <1>2
<1>4. TypeOK' /\ ServerOK' /\ Later
  BY <1>1, <1>2, <1>3, BoundAssumption DEF TypeOK, ServerOK, Later, Latest
<1>5. QED
  BY <1>2, <1>4, UserStep

\* Nothing is synced at first.
LEMMA InitInv ==
    ASSUME Init
    PROVE  IInv
<1>1. TypeOK
  BY Empty, BoundAssumption DEF Init, TypeOK, Latest, ControlPoint
<1>2. EntriesPublished
  BY Empty, ProcessAssumption DEF Init, EntriesPublished, Latest, NoEntry, NoJob
<1>3. JobsSound /\ OneAtATime /\ JobsTrue
  BY DEF Init, JobsSound, OneAtATime, JobsTrue, Applying
<1>4. RecordsTrue
  BY Empty DEF Init, RecordsTrue, AsLeft, NoEntry
<1>5. QED
  BY <1>1, <1>2, <1>3, <1>4 DEF IInv

\* Every step keeps the invariant.
LEMMA NextInv ==
    ASSUME IInv, [Next]_vars
    PROVE  IInv'
<1>1. ASSUME NEW q \in Processes, Sync(q)
      PROVE  IInv'
  BY <1>1, StartStep, ListStep, BuildStep, CheckStep, WriteStep, FinishStep,
     SkipStep, ConsiderStep, UploadStep, PutStep, RecordStep DEF Sync
<1>2. ASSUME NEW q \in Processes, Fail(q) \/ SaveOther(q)
      PROVE  IInv'
  BY <1>2, FailStep, SaveOtherStep
<1>3. ASSUME NEW m \in Machines, Edit(m) \/ Wait(m)
      PROVE  IInv'
  BY <1>3, EditStep, WaitStep
<1>4. ASSUME NEW w \in Pages, Open(w) \/ Save(w) \/ RollBack(w)
      PROVE  IInv'
  BY <1>4, OpenStep, SaveRollBackStep
<1>5. CASE UNCHANGED vars
  BY <1>5 DEF vars, IInv, TypeOK, EntriesPublished, JobsSound, OneAtATime, RecordsTrue, JobsTrue,
              FromServer, IsVersion, AsLeft, Applying, Latest
<1>6. QED
  BY <1>1, <1>2, <1>3, <1>4, <1>5, DeleteStep DEF Next

\* The invariant the theorems below rest on holds of every behaviour.
THEOREM Invariance == Spec => []IInv
<1>1. Init => IInv
  BY InitInv
<1>2. IInv /\ [Next]_vars => IInv'
  BY NextInv
<1>3. QED
  BY <1>1, <1>2, PTL DEF Spec

-----------------------------------------------------------------------------
(* What the invariant gives.                                               *)

\* No sync without force destroys content the server never had, unless the
\* user wrote it after the sync had looked: what it found at the path it
\* replaces is a published content, by the invariant.
THEOREM EditsSafe == Spec => EditsKept
<1>1. ASSUME IInv, NEW q \in Processes, pc[q] = "writing", ~job[q].force
      PROVE  job[q].found = Absent \/ <<job[q].at, job[q].found>> \in ever
  BY <1>1, Parts DEF ProcessOK
<1>2. IInv /\ [Next]_vars =>
         [\A q \in Processes : pc[q] = "writing" /\ pc'[q] = "applying" /\ ~job[q].force =>
             LET p == job[q].at
                 cur == files[Host(q)][p]
             IN cur = Absent \/ <<p, cur>> \in ever \/ job[q].found # cur]_vars
  BY <1>1
<1>3. QED
  BY <1>2, Invariance, PTL DEF Spec, EditsKept

\* Only a process's own Put gets it from putting to accepted.
LEMMA PutsItself ==
    ASSUME IInv, NEW q \in Processes, [Next]_vars, pc[q] = "putting", pc'[q] = "accepted"
    PROVE  Put(q)
<1>1. TypeOK
  BY InvParts
<1>2. ASSUME NEW o \in Processes, NEW where, Goto(o, where), where # "accepted"
      PROVE  FALSE
  BY <1>1, <1>2 DEF Goto, TypeOK
<1>3. ASSUME NEW o \in Processes, o # q, NEW where, Goto(o, where)
      PROVE  FALSE
  BY <1>1, <1>3 DEF Goto, TypeOK
<1>4. pc' # pc
  OBVIOUS
<1>5. ASSUME NEW o \in Processes, Sync(o)
      PROVE  Put(q)
  <2>1. CASE Start(o)
    BY <1>2, <2>1 DEF Start
  <2>2. CASE List(o)
    BY <1>2, <2>2 DEF List
  <2>3. CASE Build(o)
    BY <1>2, <2>3 DEF Build
  <2>4. ASSUME NEW p \in Paths, Check(o, p)
        PROVE  FALSE
    BY <1>2, <1>4, <2>4 DEF Check
  <2>5. CASE Write(o)
    BY <1>2, <2>5 DEF Write
  <2>6. CASE Finish(o)
    BY <1>2, <2>6 DEF Finish, End
  <2>7. CASE Skip(o)
    BY <1>2, <2>7 DEF Skip, End
  <2>8. CASE Consider(o)
    BY <1>2, <2>8 DEF Consider, End
  <2>9. CASE Upload(o)
    BY <1>2, <2>9 DEF Upload
  <2>10. CASE Put(o)
    <3>1. o = q
      BY <1>3, <2>10 DEF Put
    <3>2. QED
      BY <2>10, <3>1
  <2>11. CASE Record(o)
    BY <1>2, <2>11 DEF Record, End
  <2>12. QED
    BY <1>5, <2>1, <2>2, <2>3, <2>4, <2>5, <2>6, <2>7, <2>8, <2>9, <2>10, <2>11 DEF Sync
<1>6. ASSUME NEW o \in Processes, Fail(o) \/ SaveOther(o)
      PROVE  FALSE
  BY <1>2, <1>4, <1>6 DEF Fail, SaveOther, End
<1>7. ASSUME NEW m \in Machines, Edit(m) \/ Wait(m)
      PROVE  FALSE
  BY <1>4, <1>7 DEF Edit, Wait
<1>8. ASSUME NEW w \in Pages, Open(w) \/ Save(w) \/ RollBack(w)
      PROVE  FALSE
  BY <1>4, <1>8 DEF Open, Save, RollBack, Submit
<1>9. ~Delete /\ ~UNCHANGED vars
  BY <1>4 DEF Delete, vars
<1>10. QED
  BY <1>5, <1>6, <1>7, <1>8, <1>9 DEF Next

\* A push without force never takes back what someone else published: the
\* server accepts it over the version it was last synced with only, and from
\* that version what it built differs by its user's edits only.
THEOREM OthersSafe == Spec => OthersKept
<1>1. ASSUME IInv, [Next]_vars, NEW q \in Processes, pc[q] = "putting", pc'[q] = "accepted",
             ~job[q].force, Latest # 0, job[q].mem.life = life, Host(q) \notin upset,
             NEW p \in Paths, job[q].local[p] # LatestFiles[p]
      PROVE  p \in job[q].dirty
  <2>1. /\ Accepts(job[q].mem.version, job[q].force) /\ ProcessOK(q) /\ AloneOK(q)
    BY <1>1, PutsItself, Parts DEF Put
  <2>2. job[q].mem.version = Latest /\ job[q].local # NoFiles
    BY <1>1, <2>1 DEF Accepts, ProcessOK
  <2>3. IsVersion(job[q].mem.version, job[q].mem.life, job[q].local, job[q].dirty)
    BY <1>1, <2>1, <2>2 DEF AloneOK
  <2>4. QED
    BY <1>1, <2>2, <2>3 DEF IsVersion, LatestFiles
<1>2. IInv /\ [Next]_vars =>
         [\A q \in Processes : pc[q] = "putting" /\ pc'[q] = "accepted" =>
             LET j == job[q] IN
             \/ j.force \/ Latest = 0 \/ j.mem.life # life \/ Host(q) \in upset
             \/ \A p \in Paths : j.local[p] # LatestFiles[p] => p \in j.dirty]_vars
  BY <1>1
<1>3. QED
  BY <1>2, Invariance, PTL DEF Spec, OthersKept

\* The daemon sees a conflict only where the user has edited or a sync went
\* wrong: without edits what is on disk is what the last sync recorded.
THEOREM ConflictsOfEdits == Spec => ConflictsEarned
<1>1. ASSUME IInv, NEW q \in Daemons, pc[q] = "listed", job[q].version # 0,
             edited[Host(q)] = {}, Host(q) \notin upset
      PROVE  DecidePull(job[q].mem, job[q].version, files[Host(q)]) # "conflict"
  <2> DEFINE m == Host(q)
  <2>1. q \in Processes /\ m \in Machines
    BY ProcessAssumption DEF Processes
  <2>2. AloneOK(q) /\ MachineOK(m) /\ OneAtATime
    BY <1>1, <2>1, Parts
  <2>3. ~Busy(m)
    BY <1>1, <2>1, <2>2 DEF Busy, OneAtATime, Applying
  <2>4. job[q].mem = state[m] /\ Recorded(m) /\ \A p \in Paths : files[m][p] = state[m].manifest[p]
    BY <1>1, <2>1, <2>2, <2>3 DEF AloneOK, MachineOK, InPlace, AsLeft
  <2>5. files[m] = state[m].manifest
    BY <1>1, <2>1, <2>4, Parts DEF Manifest
  <2>6. state[m].version = 0 => state[m].manifest = NoFiles
    BY <2>4 DEF Recorded, NoEntry
  <2>7. QED
    BY <2>4, <2>5, <2>6 DEF DecidePull
<1>2. IInv /\ [Next]_vars =>
         [\A q \in Daemons : pc[q] = "listed" /\ pc'[q] = "built" =>
             LET m == Host(q) IN
             \/ job[q].version = 0
             \/ DecidePull(job[q].mem, job[q].version, files[m]) # "conflict"
             \/ edited[m] # {} \/ m \in upset]_vars
  BY <1>1
<1>3. QED
  BY <1>2, Invariance, PTL DEF Spec, ConflictsEarned

\* What is published is a new version over the head, or the first of a unit.
LEMMA Publishes ==
    ASSUME IInv, NEW parent \in 0..MaxVersion, NEW force \in BOOLEAN, NEW manifest \in Manifest,
           Accepts(parent, force), Publish(parent, force, manifest)
    PROVE  Store!ANext
<1> DEFINE v == [parent |-> parent, forced |-> force, files |-> manifest]
<1>1. server \in Seq(Version) /\ (server = <<>> => Len(server) = 0)
  BY InvParts DEF TypeOK
<1>2. /\ v \in Version /\ (v.forced \/ v.parent = Len(server)) /\ server' = Append(server, v)
  BY DEF Version, Publish, Accepts, Latest
<1> HIDE DEF v
<1>3. [u \in {"unit"} |-> server'] =
         [[u \in {"unit"} |-> server] EXCEPT !["unit"] = Append(server, v)]
  BY <1>2
<1>4. CASE server = <<>>
  <2>1. Append(server, v) = <<v>> /\ (v.forced \/ v.parent = 0)
    BY <1>1, <1>2, <1>4
  <2>2. [u \in {"unit"} |-> server'] = [[u \in {"unit"} |-> server] EXCEPT !["unit"] = <<v>>]
    BY <1>3, <2>1
  <2>3. Store!HasRoom
    BY DEF Store!HasRoom
  <2>4. Store!Create("unit")
    BY <1>2, <1>4, <2>1, <2>2, <2>3 DEF Store!Create
  <2>5. QED
    BY <2>4 DEF Store!ANext
<1>5. CASE server # <<>>
  <2>1. Store!Extend("unit")
    BY <1>2, <1>3, <1>5 DEF Store!Extend
  <2>2. QED
    BY <2>1 DEF Store!ANext
<1>6. QED
  BY <1>4, <1>5

\* Only publishing and deleting change the server.
LEMMA ServerSteps ==
    ASSUME IInv, [Next]_vars
    PROVE  \/ UNCHANGED server
           \/ Delete
           \/ \E parent \in 0..MaxVersion, force \in BOOLEAN, manifest \in Manifest :
                 Accepts(parent, force) /\ Publish(parent, force, manifest)
<1>1. TypeOK
  BY InvParts
<1>2. ASSUME NEW q \in Processes, Sync(q), server' # server
      PROVE  \E parent \in 0..MaxVersion, force \in BOOLEAN, manifest \in Manifest :
                Accepts(parent, force) /\ Publish(parent, force, manifest)
  <2>1. Put(q)
    BY <1>2 DEF Sync, Start, List, Build, Check, Write, Finish, Skip, Consider, Upload, Record
  <2>2. /\ job[q].mem.version \in 0..MaxVersion /\ job[q].force \in BOOLEAN
        /\ job[q].local \in Manifest
    BY Parts DEF Job, Entry
  <2>3. QED
    BY <2>1, <2>2 DEF Put
<1>3. ASSUME NEW w \in Pages, Save(w) \/ RollBack(w)
      PROVE  \E parent \in 0..MaxVersion, force \in BOOLEAN, manifest \in Manifest :
                Accepts(parent, force) /\ Publish(parent, force, manifest)
  <2>1. page[w] \in Page /\ page[w].parent \in 0..MaxVersion /\ page[w].files \in Manifest
    BY <1>1, <1>3 DEF TypeOK, Page, Save, RollBack
  <2>2. CASE Save(w)
    <3>1. PICK p \in Paths, c \in Contents \cup {Absent}, force \in BOOLEAN :
             Submit(w, [page[w].files EXCEPT ![p] = c], force)
      BY <2>2 DEF Save
    <3>2. [page[w].files EXCEPT ![p] = c] \in Manifest
      BY <2>1 DEF Manifest
    <3>3. QED
      BY <2>1, <3>1, <3>2 DEF Submit
  <2>3. CASE RollBack(w)
    BY <2>1, <2>3 DEF RollBack, Submit
  <2>4. QED
    BY <1>3, <2>2, <2>3
<1>4. ASSUME NEW q \in Processes, Fail(q) \/ SaveOther(q) PROVE UNCHANGED server
  BY <1>4 DEF Fail, SaveOther
<1>5. ASSUME NEW m \in Machines, Edit(m) \/ Wait(m) PROVE UNCHANGED server
  BY <1>5 DEF Edit, Wait
<1>6. ASSUME NEW w \in Pages, Open(w) PROVE UNCHANGED server
  BY <1>6 DEF Open
<1>7. QED
  BY <1>2, <1>3, <1>4, <1>5, <1>6 DEF Next, vars

\* The server is used through its interface: whatever the machines and the
\* pages do, its history changes as VersionedUnits says.
THEOREM Refinement == Spec => StoreSpec
<1>1. Init => Store!AInit
  <2> SUFFICES ASSUME Init PROVE Store!AInit
    OBVIOUS
  <2>1. [u \in {"unit"} |-> server] \in [{"unit"} -> {<<>>} \cup {<<v>> : v \in Version}]
    BY DEF Init
  <2>2. QED
    BY <2>1 DEF Store!AInit
<1>2. ASSUME IInv, [Next]_vars PROVE [Store!ANext]_(Store!avars)
  <2>1. CASE UNCHANGED server
    BY <2>1 DEF Store!avars
  <2>2. CASE Delete
    <3>1. server # <<>> /\ server' = <<>>
      BY <2>2 DEF Delete, Latest
    <3>2. [u \in {"unit"} |-> server'] = [[u \in {"unit"} |-> server] EXCEPT !["unit"] = <<>>]
      BY <3>1
    <3>3. Store!Remove("unit")
      BY <3>1, <3>2 DEF Store!Remove
    <3>4. QED
      BY <3>3 DEF Store!ANext
  <2>3. CASE \E parent \in 0..MaxVersion, force \in BOOLEAN, manifest \in Manifest :
                Accepts(parent, force) /\ Publish(parent, force, manifest)
    BY <1>2, <2>3, Publishes
  <2>4. QED
    BY <1>2, <2>1, <2>2, <2>3, ServerSteps
<1>3. QED
  BY <1>1, <1>2, Invariance, PTL DEF Spec, StoreSpec, Store!ASpec
=============================================================================
