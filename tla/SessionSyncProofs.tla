-------------------------- MODULE SessionSyncProofs --------------------------
(***************************************************************************)
(* Proofs about SessionSync for any machines, commands, files and numbers  *)
(* of failures: no unpack writes over what the agent wrote, what a machine *)
(* takes for pushed is on the server, and what it has marked as restored   *)
(* is on its disk.                                                         *)
(***************************************************************************)
EXTENDS SessionSync, TLAPS

\* The invariant without its last three parts, which are kept on top of it.
Core ==
    /\ TypeOK
    /\ JobsSound
    /\ OwnSound
    /\ SeenThere
    /\ PackedSound
    /\ PushedIsServed

\* What it says of one machine.
HostOK(h) ==
    h \notin forgone =>
        /\ \A f \in Files : disk[h][f] = 0 => \A m \in Seen(h) : m[f] = 0
        /\ \A q \in Packing(h) : \A f \in Files \ job[q].todo :
              job[q].archive[f] # disk[h][f] =>
                  \A m \in Remembered(h) \cup {job[q].fp} : m[f] # disk[h][f]
        /\ disk[h] \in Remembered(h) => disk[h][Main] = 0 \/ server[h].archive = disk[h]

\* This part of the invariant, sorted by what it speaks of: the jobs, the agents' contents, a machine.
LEMMA InvParts ==
    Core <=> TypeOK /\ JobsSound /\ OwnSound /\ \A h \in Hosts : HostOK(h)
  BY DEF Core, HostOK, SeenThere, PackedSound, PushedIsServed

\* The same for the next state, in the direction the steps need.
LEMMA InvPartsNext ==
    ASSUME TypeOK', JobsSound', OwnSound', \A h \in Hosts : HostOK(h)'
    PROVE  Core'
  BY DEF Core, HostOK, SeenThere, PackedSound, PushedIsServed

\* What there is only grows.
LEMMA Grown ==
    ASSUME acts \in Nat, acts' \in Nat, acts <= acts'
    PROVE  /\ Content \subseteq Content' /\ Archive \subseteq Archive'
           /\ State \subseteq State' /\ Job \subseteq Job'
           /\ SUBSET (1..acts) \subseteq SUBSET (1..acts')
<1>1. Content \subseteq Content'
  <2>1. \A m, n \in Nat : m <= n => (-m)..m \subseteq (-n)..n
    OBVIOUS
  <2>2. QED
    BY <2>1 DEF Content
<1>2. Archive \subseteq Archive'
  BY <1>1 DEF Archive
<1>3. State \subseteq State'
  BY <1>2 DEF State
<1>4. 0..acts \subseteq 0..acts' /\ 1..acts \subseteq 1..acts'
  OBVIOUS
<1>5. Job \subseteq Job'
  BY <1>2, <1>4 DEF Job
<1>6. QED
  BY <1>1, <1>2, <1>3, <1>4, <1>5

\* The empty records.
LEMMA Empty ==
    ASSUME acts \in Nat
    PROVE  /\ NoFiles \in Archive /\ NoState \in State /\ NoJob \in Job
           /\ \A f \in Files : NoFiles[f] = 0
           /\ NoState.pushed = NoFiles /\ NoJob.archive = NoFiles /\ NoJob.fp = NoFiles
           /\ NoRow.archive = NoFiles
<1>1. NoFiles \in Archive /\ \A f \in Files : NoFiles[f] = 0
  BY DEF NoFiles, Archive, Content
<1>2. NoState \in State /\ NoState.pushed = NoFiles
  BY <1>1 DEF NoState, State
<1>3. NoJob \in Job /\ NoJob.archive = NoFiles /\ NoJob.fp = NoFiles
  BY <1>1, MainAssumption DEF NoJob, Job
<1>4. QED
  BY <1>1, <1>2, <1>3 DEF NoRow

\* The parts of a process and its machine.
LEMMA Parts ==
    ASSUME TypeOK, NEW q \in Processes
    PROVE  /\ HostOf(q) \in Hosts /\ q \in ProcessesOf(HostOf(q))
           /\ acts \in Nat /\ MaxActs \in Nat /\ acts <= MaxActs
           /\ pc[q] \in ControlPoint /\ mem[q] \in State /\ mem[q].pushed \in Archive
           /\ job[q] \in Job /\ job[q].fp \in Archive /\ job[q].archive \in Archive
           /\ job[q].todo \subseteq Files /\ job[q].list \subseteq Nat /\ job[q].at \in Files
           /\ job[q].since \in 0..acts /\ job[q].id \in Nat
           /\ disk[HostOf(q)] \in Archive /\ server[HostOf(q)].archive \in Archive
           /\ saved[HostOf(q)] \in State
<1>1. HostOf(q) \in Hosts /\ q \in ProcessesOf(HostOf(q))
  BY HostAssumption DEF Processes, ProcessesOf
<1>2. acts \in Nat /\ MaxActs \in Nat /\ acts <= MaxActs
  BY BoundAssumption DEF TypeOK
<1>3. pc[q] \in ControlPoint /\ mem[q] \in State /\ job[q] \in Job
  BY DEF TypeOK
<1>4. mem[q].pushed \in Archive
  BY <1>3 DEF State
<1>5. /\ job[q].fp \in Archive /\ job[q].archive \in Archive
      /\ job[q].todo \subseteq Files /\ job[q].list \subseteq Nat /\ job[q].at \in Files
      /\ job[q].since \in 0..acts /\ job[q].id \in Nat
  BY <1>3 DEF Job
<1>6. /\ disk[HostOf(q)] \in Archive /\ server[HostOf(q)].archive \in Archive
      /\ saved[HostOf(q)] \in State
  BY <1>1 DEF TypeOK
<1>7. QED
  BY <1>1, <1>2, <1>3, <1>4, <1>5, <1>6

\* What a machine has seen is of the right form.
LEMMA SeenTyped ==
    ASSUME TypeOK, NEW h \in Hosts
    PROVE  /\ Remembered(h) \subseteq Seen(h)
           /\ Seen(h) \subseteq Archive
<1>1. saved[h].pushed \in Archive
  BY DEF TypeOK, State
<1>2. ASSUME NEW q \in ProcessesOf(h)
      PROVE  mem[q].pushed \in Archive /\ job[q].fp \in Archive /\ job[q].archive \in Archive
  BY Parts DEF ProcessesOf
<1>3. QED
  BY <1>1, <1>2 DEF Seen, Remembered, Packing

-----------------------------------------------------------------------------
(* What a step leaves alone.                                               *)

\* A machine whose row stays: nothing new is taken for pushed, files only come
\* or get new content, and what is packed is what there is.
LEMMA HostKept ==
    ASSUME Core, TypeOK', NEW h \in Hosts, forgone \subseteq forgone',
           h \notin forgone' =>
              /\ server'[h].archive = server[h].archive
              /\ \A f \in Files : \/ disk'[h][f] = disk[h][f]
                                  \/ disk'[h][f] = acts + 1
                                  \/ disk[h][f] = 0 /\ disk'[h][f] # 0
              /\ saved'[h].pushed \in Remembered(h)
              /\ \A q \in ProcessesOf(h) :
                    /\ mem'[q].pushed \in Remembered(h) \cup {NoFiles}
                    /\ pc'[q] = "pushed" => pc[q] = "pushed" /\ job'[q].fp = job[q].fp
                    /\ job'[q].fp \in Seen(h) \cup {NoFiles, disk[h]}
                    /\ pc'[q] = "packing" => \A f \in Files :
                          \/ /\ pc[q] = "packing" /\ job'[q].archive[f] = job[q].archive[f]
                             /\ f \in job'[q].todo \/ (f \notin job[q].todo /\ job'[q].fp = job[q].fp)
                          \/ f \in job'[q].todo /\ job'[q].archive[f] = 0
                          \/ disk'[h] = disk[h] /\ job'[q].archive[f] = disk[h][f]
    PROVE  HostOK(h)'
<1> SUFFICES ASSUME h \notin forgone'
             PROVE  HostOK(h)'
  BY DEF HostOK
<1>1. /\ TypeOK /\ h \notin forgone /\ HostOK(h) /\ acts \in Nat
      /\ Remembered(h) \subseteq Seen(h) /\ Seen(h) \subseteq Archive
      /\ disk[h] \in Archive /\ \A f \in Files : NoFiles[f] = 0
  BY InvParts, SeenTyped, Empty DEF TypeOK
<1>2. /\ \A f \in Files : disk[h][f] = 0 => \A m \in Seen(h) : m[f] = 0
      /\ \A q \in Packing(h) : \A f \in Files \ job[q].todo :
            job[q].archive[f] # disk[h][f] =>
                \A m \in Remembered(h) \cup {job[q].fp} : m[f] # disk[h][f]
      /\ disk[h] \in Remembered(h) => disk[h][Main] = 0 \/ server[h].archive = disk[h]
  BY <1>1 DEF HostOK
<1>3. \A f \in Files : disk'[h][f] = 0 => disk[h][f] = 0
  BY <1>1
<1>4. ASSUME NEW m \in Remembered(h)'
      PROVE  m \in Remembered(h) \cup {NoFiles}
  BY <1>4 DEF Remembered, ProcessesOf
<1>5. ASSUME NEW f \in Files, disk'[h][f] = 0, NEW m \in Seen(h)'
      PROVE  m[f] = 0
  <2>1. disk[h][f] = 0 /\ NoFiles[f] = 0 /\ \A n \in Seen(h) : n[f] = 0
    BY <1>1, <1>2, <1>3, <1>5
  <2>2. CASE m \in Remembered(h)'
    BY <1>1, <1>4, <2>1, <2>2
  <2>3. ASSUME NEW q \in ProcessesOf(h), m = job'[q].fp
        PROVE  m[f] = 0
    BY <2>1, <2>3
  <2>4. ASSUME NEW q \in ProcessesOf(h), pc'[q] = "packing", m = job'[q].archive
        PROVE  m[f] = 0
    <3>1. pc[q] = "packing" => job[q].archive \in Seen(h)
      BY DEF Seen, Packing
    <3>2. QED
      BY <2>1, <2>4, <3>1
  <2>5. QED
    BY <2>2, <2>3, <2>4 DEF Seen, Packing, ProcessesOf
\* What a file was seen as it will not be again once it has changed.
<1>6. ASSUME NEW f \in Files, NEW m \in Seen(h) \cup {NoFiles}, disk'[h][f] # disk[h][f]
      PROVE  m[f] # disk'[h][f]
  <2>1. m[f] <= acts /\ disk[h][f] \in Int
    BY <1>1, Empty DEF Archive, Content
  <2>2. CASE disk'[h][f] = acts + 1
    BY <1>1, <2>1, <2>2
  <2>3. CASE disk[h][f] = 0 /\ disk'[h][f] # 0
    BY <1>1, <1>2, <2>3
  <2>4. QED
    BY <1>6, <2>2, <2>3
<1>7. ASSUME NEW q \in Packing(h)', NEW f \in Files \ job'[q].todo,
             job'[q].archive[f] # disk'[h][f], NEW m \in Remembered(h)' \cup {job'[q].fp}
      PROVE  m[f] # disk'[h][f]
  <2>1. q \in ProcessesOf(h) /\ pc'[q] = "packing"
    BY <1>7 DEF Packing, ProcessesOf
  <2>2. /\ pc[q] = "packing" /\ job'[q].archive[f] = job[q].archive[f]
        /\ f \notin job[q].todo /\ job'[q].fp = job[q].fp
    BY <1>7, <2>1
  <2>3. q \in Packing(h) /\ job[q].fp \in Seen(h) /\ job[q].archive \in Seen(h)
    BY <2>1, <2>2 DEF Packing, Seen
  <2>4. m \in Remembered(h) \cup {NoFiles, job[q].fp} /\ m \in Seen(h) \cup {NoFiles}
    BY <1>1, <1>4, <1>7, <2>2, <2>3
  <2>5. CASE disk'[h][f] # disk[h][f]
    BY <1>6, <2>4, <2>5
  <2>6. CASE disk'[h][f] = disk[h][f]
    <3>1. disk[h][f] # 0
      BY <1>2, <1>7, <2>2, <2>3, <2>6
    <3>2. QED
      BY <1>1, <1>2, <1>7, <2>2, <2>3, <2>4, <2>6, <3>1
  <2>7. QED
    BY <2>5, <2>6
<1>8. ASSUME disk'[h] \in Remembered(h)', disk'[h][Main] # 0
      PROVE  server'[h].archive = disk'[h]
  <2>1. disk'[h] \in Remembered(h) /\ disk'[h] \in Seen(h)
    BY <1>1, <1>4, <1>8, MainAssumption
  <2>2. \A f \in Files : disk'[h][f] = disk[h][f]
    BY <1>6, <2>1
  <2>3. disk'[h] = disk[h]
    BY <1>1, <2>1, <2>2 DEF Archive
  <2>4. QED
    BY <1>2, <1>8, <2>1, <2>3
<1>9. QED
  BY <1>5, <1>7, <1>8 DEF HostOK

\* What is anywhere, but for the step of process q, which brings nothing new.
LEMMA NothingNew ==
    ASSUME TypeOK, NEW q \in Processes,
           \A o \in Processes \ {q} : job'[o] = job[o],
           \A h \in Hosts \ {HostOf(q)} : disk'[h] = disk[h] /\ server'[h].archive = server[h].archive,
           \A f \in Files :
              /\ disk'[HostOf(q)][f] > 0 => Somewhere(f, disk'[HostOf(q)][f])
              /\ server'[HostOf(q)].archive[f] > 0 => Somewhere(f, server'[HostOf(q)].archive[f])
              /\ job'[q].archive[f] > 0 => Somewhere(f, job'[q].archive[f]),
           NEW f \in Files, NEW n \in Nat \ {0}, Somewhere(f, n)'
    PROVE  Somewhere(f, n)
<1>1. CASE \E h \in Hosts : disk'[h][f] = n \/ server'[h].archive[f] = n
  <2>1. PICK h \in Hosts : disk'[h][f] = n \/ server'[h].archive[f] = n
    BY <1>1
  <2>2. CASE h = HostOf(q)
    BY <2>1, <2>2
  <2>3. CASE h # HostOf(q)
    BY <2>1, <2>3 DEF Somewhere
  <2>4. QED
    BY <2>2, <2>3
<1>2. CASE \E o \in Processes : job'[o].archive[f] = n
  <2>1. PICK o \in Processes : job'[o].archive[f] = n
    BY <1>2
  <2>2. CASE o = q
    BY <2>1, <2>2
  <2>3. CASE o # q
    BY <2>1, <2>3 DEF Somewhere
  <2>4. QED
    BY <2>2, <2>3
<1>3. QED
  BY <1>1, <1>2 DEF Somewhere

\* What the agents have written stays known where it is.
LEMMA OwnKept ==
    ASSUME Core, TypeOK', NEW q \in Processes, own' = own,
           \A o \in Processes \ {q} : pc'[o] = pc[o] /\ job'[o] = job[o],
           \A f \in Files, n \in Nat \ {0} : Somewhere(f, n)' => Somewhere(f, n),
           \A h \in Hosts, f \in Files : disk'[h][f] = 0 => disk[h][f] = 0,
           pc'[q] = "writing" /\ ~job'[q].force => disk[HostOf(q)][job'[q].at] = 0
    PROVE  OwnSound'
<1>1. /\ TypeOK /\ OwnSound /\ acts \in Nat
      /\ \A h \in Hosts : own[h] \subseteq 1..acts /\ own[h] \subseteq Nat \ {0}
  BY InvParts DEF TypeOK
<1>2. ASSUME NEW h \in Hosts, NEW f \in Files, disk'[h][f] = 0, NEW n \in own[h]
      PROVE  ~Somewhere(f, n)'
  BY <1>1, <1>2 DEF OwnSound
<1>3. ASSUME NEW o \in Processes, pc'[o] = "writing", ~job'[o].force, NEW n \in own[HostOf(o)],
             NEW f \in Files, f = job'[o].at, Somewhere(f, n)'
      PROVE  n > job'[o].since
  <2>1. HostOf(o) \in Hosts /\ Somewhere(f, n)
    BY <1>1, <1>3, Parts
  <2>2. CASE o = q
    BY <1>1, <1>3, <2>1, <2>2 DEF OwnSound
  <2>3. CASE o # q
    BY <1>1, <1>3, <2>1, <2>3 DEF OwnSound
  <2>4. QED
    BY <2>2, <2>3
<1>4. \A o \in Processes : job'[o].at \in Files
  BY DEF TypeOK, Job
<1>5. ASSUME NEW o \in Processes, pc'[o] = "writing", ~job'[o].force, NEW n \in own[HostOf(o)],
             \/ \E h \in Hosts : disk'[h][job'[o].at] = n \/ server'[h].archive[job'[o].at] = n
             \/ \E r \in Processes : job'[r].archive[job'[o].at] = n
      PROVE  n > job'[o].since
  <2>1. PICK f \in Files : f = job'[o].at
    BY <1>4
  <2>2. Somewhere(f, n)'
    BY <1>5, <2>1 DEF Somewhere
  <2>3. QED
    BY <1>3, <1>5, <2>1, <2>2
<1>6. QED
  BY <1>2, <1>5 DEF OwnSound, Somewhere

\* A step of a process that does not push.
LEMMA ProcessStep ==
    ASSUME Core, NEW q \in Processes, TypeOK', own' = own, forgone \subseteq forgone',
           \A o \in Processes \ {q} : pc'[o] = pc[o] /\ job'[o] = job[o] /\ mem'[o] = mem[o],
           UNCHANGED server,
           \A h \in Hosts \ {HostOf(q)} : disk'[h] = disk[h] /\ saved'[h] = saved[h],
           \A f \in Files :
              /\ disk'[HostOf(q)][f] = 0 => disk[HostOf(q)][f] = 0
              /\ disk'[HostOf(q)][f] > 0 => Somewhere(f, disk'[HostOf(q)][f])
              /\ job'[q].archive[f] > 0 => Somewhere(f, job'[q].archive[f]),
           pc'[q] \in {"unpacking", "writing"} => job'[q].todo \subseteq PathsOf(job'[q].archive),
           pc'[q] = "writing" => /\ job'[q].archive[job'[q].at] # 0
                                 /\ job'[q].force \/ disk[HostOf(q)][job'[q].at] = 0,
           HostOf(q) \notin forgone' =>
              /\ \A f \in Files : \/ disk'[HostOf(q)][f] = disk[HostOf(q)][f]
                                  \/ disk[HostOf(q)][f] = 0 /\ disk'[HostOf(q)][f] # 0
              /\ saved'[HostOf(q)].pushed \in {saved[HostOf(q)].pushed, mem[q].pushed}
              /\ \/ mem'[q].pushed \in {mem[q].pushed, saved[HostOf(q)].pushed, NoFiles}
                 \/ pc[q] = "pushed" /\ mem'[q].pushed = job[q].fp
              /\ pc'[q] # "pushed"
              /\ job'[q].fp \in {job[q].fp, NoFiles, disk[HostOf(q)]}
              /\ pc'[q] = "packing" => \A f \in Files :
                    \/ /\ pc[q] = "packing" /\ job'[q].archive[f] = job[q].archive[f]
                       /\ f \in job'[q].todo \/ (f \notin job[q].todo /\ job'[q].fp = job[q].fp)
                    \/ f \in job'[q].todo /\ job'[q].archive[f] = 0
                    \/ disk'[HostOf(q)] = disk[HostOf(q)] /\ job'[q].archive[f] = disk[HostOf(q)][f]
    PROVE  Core'
<1>1. TypeOK /\ JobsSound /\ HostOf(q) \in Hosts
  BY InvParts, Parts
<1>2. JobsSound'
  BY <1>1 DEF JobsSound, PathsOf
<1>3. OwnSound'
  <2>1. \A f \in Files, n \in Nat \ {0} : Somewhere(f, n)' => Somewhere(f, n)
    <3>1. \A f \in Files : server'[HostOf(q)].archive[f] > 0 => Somewhere(f, server'[HostOf(q)].archive[f])
      BY <1>1 DEF Somewhere
    <3>2. QED
      BY <1>1, <3>1, NothingNew
  <2>2. \A h \in Hosts, f \in Files : disk'[h][f] = 0 => disk[h][f] = 0
    BY <1>1
  <2>3. QED
    BY <2>1, <2>2, OwnKept
<1>4. ASSUME NEW h \in Hosts PROVE HostOK(h)'
  <2>1. saved[h].pushed \in Remembered(h)
    BY DEF Remembered
  <2>2. ASSUME NEW o \in ProcessesOf(h)
        PROVE  /\ o \in Processes /\ mem[o].pushed \in Remembered(h) /\ job[o].fp \in Seen(h)
               /\ pc[o] = "pushed" => job[o].fp \in Remembered(h)
    BY DEF ProcessesOf, Remembered, Seen
  <2>3. CASE h # HostOf(q)
    <3>1. \A o \in ProcessesOf(h) : o \in Processes \ {q}
      BY <2>3 DEF ProcessesOf
    <3>2. \A o \in ProcessesOf(h) :
             /\ mem'[o].pushed \in Remembered(h) \cup {NoFiles}
             /\ pc'[o] = "pushed" => pc[o] = "pushed" /\ job'[o].fp = job[o].fp
             /\ job'[o].fp \in Seen(h) \cup {NoFiles, disk[h]}
             /\ pc'[o] = "packing" => \A f \in Files :
                   \/ /\ pc[o] = "packing" /\ job'[o].archive[f] = job[o].archive[f]
                      /\ f \in job'[o].todo \/ (f \notin job[o].todo /\ job'[o].fp = job[o].fp)
                   \/ f \in job'[o].todo /\ job'[o].archive[f] = 0
                   \/ disk'[h] = disk[h] /\ job'[o].archive[f] = disk[h][f]
      BY <2>2, <3>1
    <3>3. QED
      BY <2>1, <2>3, <3>2, HostKept
  <2>4. CASE h = HostOf(q)
    <3>1. ASSUME h \notin forgone'
          PROVE  \A o \in ProcessesOf(h) :
             /\ mem'[o].pushed \in Remembered(h) \cup {NoFiles}
             /\ pc'[o] = "pushed" => pc[o] = "pushed" /\ job'[o].fp = job[o].fp
             /\ job'[o].fp \in Seen(h) \cup {NoFiles, disk[h]}
             /\ pc'[o] = "packing" => \A f \in Files :
                   \/ /\ pc[o] = "packing" /\ job'[o].archive[f] = job[o].archive[f]
                      /\ f \in job'[o].todo \/ (f \notin job[o].todo /\ job'[o].fp = job[o].fp)
                   \/ f \in job'[o].todo /\ job'[o].archive[f] = 0
                   \/ disk'[h] = disk[h] /\ job'[o].archive[f] = disk[h][f]
      <4> SUFFICES ASSUME NEW o \in ProcessesOf(h)
                   PROVE  /\ mem'[o].pushed \in Remembered(h) \cup {NoFiles}
                          /\ pc'[o] = "pushed" => pc[o] = "pushed" /\ job'[o].fp = job[o].fp
                          /\ job'[o].fp \in Seen(h) \cup {NoFiles, disk[h]}
                          /\ pc'[o] = "packing" => \A f \in Files :
                                \/ /\ pc[o] = "packing" /\ job'[o].archive[f] = job[o].archive[f]
                                   /\ f \in job'[o].todo \/ (f \notin job[o].todo /\ job'[o].fp = job[o].fp)
                                \/ f \in job'[o].todo /\ job'[o].archive[f] = 0
                                \/ disk'[h] = disk[h] /\ job'[o].archive[f] = disk[h][f]
        OBVIOUS
      <4>1. CASE o = q
        BY <2>1, <2>2, <2>4, <3>1, <4>1
      <4>2. CASE o # q
        BY <2>2, <4>2
      <4>3. QED
        BY <4>1, <4>2
    <3>2. h \notin forgone' =>
             /\ saved'[h].pushed \in Remembered(h)
             /\ \A f \in Files : \/ disk'[h][f] = disk[h][f]
                                 \/ disk[h][f] = 0 /\ disk'[h][f] # 0
      BY <2>1, <2>2, <2>4, <1>1, Parts
    <3>3. QED
      BY <2>4, <3>1, <3>2, HostKept
  <2>5. QED
    BY <2>3, <2>4
<1>5. QED
  BY <1>2, <1>3, <1>4, InvPartsNext

-----------------------------------------------------------------------------
(* The steps of a process.                                                 *)

LEMMA Typed ==
    ASSUME TypeOK, acts' \in 0..MaxActs, acts <= acts', fails' \in 0..MaxFails,
           disk' \in [Hosts -> Archive'], server' \in [Hosts -> [id : Nat, archive : Archive]],
           newId' \in Nat \ {0}, linked' \subseteq Hosts, mem' \in [Processes -> State],
           saved' \in [Hosts -> State], pc' \in [Processes -> ControlPoint],
           job' \in [Processes -> Job], forgone' \subseteq Hosts,
           own' \in [Hosts -> SUBSET (1..acts')]
    PROVE  TypeOK'
<1>1. acts \in Nat /\ acts' \in Nat
  BY BoundAssumption DEF TypeOK
<1>2. /\ Archive \subseteq Archive' /\ State \subseteq State' /\ Job \subseteq Job'
  BY <1>1, Grown
<1>3. ControlPoint' = ControlPoint
  BY DEF ControlPoint
<1>4. server' \in [Hosts -> [id : Nat, archive : Archive']]
  BY <1>2
<1>5. mem' \in [Processes -> State'] /\ saved' \in [Hosts -> State'] /\ job' \in [Processes -> Job']
  BY <1>2
<1>6. QED
  BY <1>3, <1>4, <1>5 DEF TypeOK

\* A process that moves leaves the others where they are.
LEMMA Moved ==
    ASSUME TypeOK, NEW q \in Processes, NEW where \in ControlPoint, Goto(q, where),
           NEW j \in Job, Do(q, j)
    PROVE  /\ pc' \in [Processes -> ControlPoint] /\ job' \in [Processes -> Job]
           /\ pc'[q] = where /\ job'[q] = j
           /\ \A o \in Processes \ {q} : pc'[o] = pc[o] /\ job'[o] = job[o]
  BY DEF TypeOK, Goto, Do

\* A step that changes nothing but the process.
LEMMA LocalStep ==
    ASSUME Core, NEW q \in Processes, NEW where \in ControlPoint, Goto(q, where),
           NEW j \in Job, Do(q, j),
           UNCHANGED <<disk, server, newId, forgone, own>>,
           acts' \in 0..MaxActs, acts <= acts', fails' \in 0..MaxFails, linked' \subseteq Hosts,
           mem' \in [Processes -> State], \A o \in Processes \ {q} : mem'[o] = mem[o],
           saved' \in [Hosts -> State], \A h \in Hosts \ {HostOf(q)} : saved'[h] = saved[h],
           saved'[HostOf(q)].pushed \in {saved[HostOf(q)].pushed, mem[q].pushed},
           \/ mem'[q].pushed \in {mem[q].pushed, saved[HostOf(q)].pushed, NoFiles}
           \/ pc[q] = "pushed" /\ mem'[q].pushed = job[q].fp,
           \A f \in Files : j.archive[f] > 0 => Somewhere(f, j.archive[f]),
           where \in {"unpacking", "writing"} => j.todo \subseteq PathsOf(j.archive),
           where = "writing" => /\ j.archive[j.at] # 0
                                /\ j.force \/ disk[HostOf(q)][j.at] = 0,
           where # "pushed", j.fp \in {job[q].fp, NoFiles, disk[HostOf(q)]},
           where = "packing" => \A f \in Files :
              \/ /\ pc[q] = "packing" /\ j.archive[f] = job[q].archive[f]
                 /\ f \in j.todo \/ (f \notin job[q].todo /\ j.fp = job[q].fp)
              \/ f \in j.todo /\ j.archive[f] = 0
              \/ j.archive[f] = disk[HostOf(q)][f]
    PROVE  Core'
<1>1. /\ TypeOK /\ HostOf(q) \in Hosts /\ disk[HostOf(q)] \in Archive
  BY InvParts, Parts
<1>2. /\ pc' \in [Processes -> ControlPoint] /\ job' \in [Processes -> Job]
      /\ pc'[q] = where /\ job'[q] = j
      /\ \A o \in Processes \ {q} : pc'[o] = pc[o] /\ job'[o] = job[o]
  BY <1>1, Moved
<1>3. acts \in Nat /\ acts' \in Nat
  BY <1>1, BoundAssumption DEF TypeOK
<1>4. disk' \in [Hosts -> Archive'] /\ own' \in [Hosts -> SUBSET (1..acts')]
  BY <1>1, <1>3, Grown DEF TypeOK
<1>5. TypeOK'
  <2>1. /\ server' \in [Hosts -> [id : Nat, archive : Archive]] /\ newId' \in Nat \ {0}
        /\ forgone' \subseteq Hosts
    BY <1>1 DEF TypeOK
  <2>2. QED
    BY <1>1, <1>2, <1>4, <2>1, Typed
<1>6. \A f \in Files : disk'[HostOf(q)][f] > 0 => Somewhere(f, disk'[HostOf(q)][f])
  BY <1>1 DEF Somewhere
<1>7. QED
  BY <1>1, <1>2, <1>5, <1>6, ProcessStep

\* What a process that stays out of it all becomes.
LEMMA Out ==
    ASSUME TypeOK, NEW q \in Processes, NEW fp \in Archive
    PROVE  \E j \in Job : /\ j = [NoJob EXCEPT !.fp = fp]
                          /\ j.fp = fp /\ j.archive = NoFiles
                          /\ \A f \in Files : j.archive[f] = 0
<1> DEFINE j == [NoJob EXCEPT !.fp = fp]
<1>1. NoJob \in Job /\ NoJob.archive = NoFiles /\ \A f \in Files : NoFiles[f] = 0
  BY Empty, BoundAssumption DEF TypeOK
<1>2. j \in Job /\ j.fp = fp /\ j.archive = NoFiles
  BY <1>1 DEF Job
<1> HIDE DEF j
<1>3. QED
  BY <1>1, <1>2 DEF j

\* A step of the process itself: the machine's memory stays.
LEMMA QuietStep ==
    ASSUME Core, NEW q \in Processes, NEW where \in ControlPoint, Goto(q, where),
           NEW j \in Job, Do(q, j),
           UNCHANGED <<disk, server, newId, saved, mem, forgone, own>>,
           acts' \in 0..MaxActs, acts <= acts', fails' \in 0..MaxFails, linked' \subseteq Hosts,
           \A f \in Files : j.archive[f] > 0 => Somewhere(f, j.archive[f]),
           where \in {"unpacking", "writing"} => j.todo \subseteq PathsOf(j.archive),
           where = "writing" => /\ j.archive[j.at] # 0
                                /\ j.force \/ disk[HostOf(q)][j.at] = 0,
           where # "pushed", j.fp \in {job[q].fp, NoFiles, disk[HostOf(q)]},
           where = "packing" => \A f \in Files :
              \/ /\ pc[q] = "packing" /\ j.archive[f] = job[q].archive[f]
                 /\ f \in j.todo \/ (f \notin job[q].todo /\ j.fp = job[q].fp)
              \/ f \in j.todo /\ j.archive[f] = 0
              \/ j.archive[f] = disk[HostOf(q)][f]
    PROVE  Core'
<1>1. TypeOK
  BY InvParts
<1>2. /\ mem' \in [Processes -> State] /\ saved' \in [Hosts -> State]
      /\ \A o \in Processes \ {q} : mem'[o] = mem[o]
      /\ \A h \in Hosts \ {HostOf(q)} : saved'[h] = saved[h]
      /\ saved'[HostOf(q)].pushed = saved[HostOf(q)].pushed
      /\ mem'[q].pushed = mem[q].pushed
  BY <1>1 DEF TypeOK
<1>3. QED
  BY <1>2, LocalStep

\* What a process that starts to pack becomes.
LEMMA StartsPacking ==
    ASSUME Core, NEW q \in Processes, NEW found, found = disk[HostOf(q)],
           Goto(q, "packing"), Do(q, [NoJob EXCEPT !.fp = found, !.todo = PathsOf(found)]),
           UNCHANGED <<disk, server, newId, saved, mem, forgone, own>>,
           acts' \in 0..MaxActs, acts <= acts', fails' \in 0..MaxFails, linked' \subseteq Hosts
    PROVE  Core'
<1> DEFINE j == [NoJob EXCEPT !.fp = found, !.todo = PathsOf(found)]
<1>1. /\ TypeOK /\ found \in Archive /\ acts \in Nat
      /\ NoJob \in Job /\ NoJob.archive = NoFiles /\ \A f \in Files : NoFiles[f] = 0
  BY InvParts, Parts, Empty
<1>2. /\ j \in Job /\ j.fp = found /\ j.archive = NoFiles /\ j.todo = PathsOf(found)
  BY <1>1 DEF Job, PathsOf
<1>3. "packing" \in ControlPoint
  BY DEF ControlPoint
<1>4. Do(q, j)
  OBVIOUS
<1> HIDE DEF j
<1>5. \A f \in Files : \/ f \in j.todo /\ j.archive[f] = 0
                       \/ j.archive[f] = disk[HostOf(q)][f]
  BY <1>1, <1>2 DEF PathsOf
<1>6. \A f \in Files : ~(j.archive[f] > 0)
  BY <1>1, <1>2
<1>7. QED
  BY <1>1, <1>2, <1>3, <1>4, <1>5, <1>6, QuietStep

\* A step of a process to where it neither packs nor writes, which may have
\* written a file.
LEMMA EndsStep ==
    ASSUME Core, NEW q \in Processes,
           NEW where \in ControlPoint \ {"packing", "pushed", "writing"}, Goto(q, where),
           NEW j \in Job, Do(q, j), UNCHANGED <<server, own>>,
           acts' \in 0..MaxActs, acts <= acts', fails' \in 0..MaxFails, linked' \subseteq Hosts,
           newId' \in Nat \ {0},
           forgone \subseteq forgone', forgone' \subseteq Hosts,
           disk' \in [Hosts -> Archive], \A h \in Hosts \ {HostOf(q)} : disk'[h] = disk[h],
           \A f \in Files : \/ disk'[HostOf(q)][f] = disk[HostOf(q)][f]
                            \/ /\ disk'[HostOf(q)][f] # 0
                               /\ disk'[HostOf(q)][f] > 0 => Somewhere(f, disk'[HostOf(q)][f])
                               /\ disk[HostOf(q)][f] = 0 \/ HostOf(q) \in forgone',
           mem' \in [Processes -> State], \A o \in Processes \ {q} : mem'[o] = mem[o],
           saved' \in [Hosts -> State], \A h \in Hosts \ {HostOf(q)} : saved'[h] = saved[h],
           saved'[HostOf(q)].pushed \in {saved[HostOf(q)].pushed, mem[q].pushed},
           \/ mem'[q].pushed \in {mem[q].pushed, saved[HostOf(q)].pushed, NoFiles}
           \/ pc[q] = "pushed" /\ mem'[q].pushed = job[q].fp,
           \A f \in Files : j.archive[f] > 0 => Somewhere(f, j.archive[f]),
           where = "unpacking" => j.todo \subseteq PathsOf(j.archive),
           j.fp \in {job[q].fp, NoFiles, disk[HostOf(q)]}
    PROVE  Core'
<1>1. /\ TypeOK /\ HostOf(q) \in Hosts
  BY InvParts, Parts
<1>2. /\ pc' \in [Processes -> ControlPoint] /\ job' \in [Processes -> Job]
      /\ pc'[q] = where /\ job'[q] = j
      /\ \A o \in Processes \ {q} : pc'[o] = pc[o] /\ job'[o] = job[o]
  BY <1>1, Moved
<1>3. acts \in Nat /\ acts' \in Nat
  BY <1>1, BoundAssumption DEF TypeOK
<1>4. disk' \in [Hosts -> Archive'] /\ own' \in [Hosts -> SUBSET (1..acts')]
  BY <1>1, <1>3, Grown DEF TypeOK
<1>5. TypeOK'
  <2>1. server' \in [Hosts -> [id : Nat, archive : Archive]]
    BY <1>1 DEF TypeOK
  <2>2. QED
    BY <1>1, <1>2, <1>4, <2>1, Typed
<1>6. \A f \in Files : /\ disk'[HostOf(q)][f] = 0 => disk[HostOf(q)][f] = 0
                       /\ disk'[HostOf(q)][f] > 0 => Somewhere(f, disk'[HostOf(q)][f])
                       /\ j.archive[f] > 0 => Somewhere(f, j.archive[f])
  BY <1>1 DEF Somewhere
<1>7. HostOf(q) \notin forgone' =>
         \A f \in Files : \/ disk'[HostOf(q)][f] = disk[HostOf(q)][f]
                          \/ disk[HostOf(q)][f] = 0 /\ disk'[HostOf(q)][f] # 0
  OBVIOUS
<1>8. pc'[q] # "pushed" /\ pc'[q] # "packing" /\ pc'[q] # "writing"
  BY <1>2
<1>9. QED
  BY <1>1, <1>2, <1>5, <1>6, <1>7, <1>8, ProcessStep

\* ... one that has written nothing.
LEMMA LeavesStep ==
    ASSUME Core, NEW q \in Processes,
           NEW where \in {"idle", "listing", "restoring", "saving"}, Goto(q, where),
           NEW j \in Job, Do(q, j), j.archive \in {NoFiles, job[q].archive},
           j.fp \in {job[q].fp, NoFiles, disk[HostOf(q)]},
           UNCHANGED <<disk, server, newId, forgone, own>>,
           acts' \in 0..MaxActs, acts <= acts', fails' \in 0..MaxFails, linked' \subseteq Hosts,
           mem' \in [Processes -> State], \A o \in Processes \ {q} : mem'[o] = mem[o],
           saved' \in [Hosts -> State], \A h \in Hosts \ {HostOf(q)} : saved'[h] = saved[h],
           saved'[HostOf(q)].pushed \in {saved[HostOf(q)].pushed, mem[q].pushed},
           \/ mem'[q].pushed \in {mem[q].pushed, saved[HostOf(q)].pushed, NoFiles}
           \/ pc[q] = "pushed" /\ mem'[q].pushed = job[q].fp
    PROVE  Core'
<1>1. /\ TypeOK /\ \A f \in Files : NoFiles[f] = 0
      /\ disk' \in [Hosts -> Archive] /\ forgone' \subseteq Hosts /\ newId' \in Nat \ {0}
      /\ \A h \in Hosts \ {HostOf(q)} : disk'[h] = disk[h]
      /\ \A f \in Files : disk'[HostOf(q)][f] = disk[HostOf(q)][f]
  BY InvParts, Empty, BoundAssumption DEF TypeOK
<1>2. \A f \in Files : j.archive[f] > 0 => Somewhere(f, j.archive[f])
  BY <1>1 DEF Somewhere
<1>3. where \in ControlPoint \ {"packing", "pushed", "writing"} /\ where # "unpacking"
  BY DEF ControlPoint
<1>4. QED
  BY <1>1, <1>2, <1>3, EndsStep

\* What the guards and the rest of a step say of the variables it leaves.
LEMMA Stays ==
    ASSUME TypeOK, NEW q \in Processes
    PROVE  /\ acts \in 0..MaxActs /\ acts <= acts /\ fails \in 0..MaxFails /\ linked \subseteq Hosts
           /\ acts < MaxActs => acts + 1 \in 0..MaxActs /\ acts <= acts + 1
           /\ fails < MaxFails => fails + 1 \in 0..MaxFails
           /\ mem \in [Processes -> State] /\ saved \in [Hosts -> State]
           /\ UNCHANGED pc => Goto(q, pc[q])
           /\ UNCHANGED job => Do(q, job[q])
  BY BoundAssumption DEF TypeOK, Goto, Do

\* A pass begins with the fingerprint of what is on disk.
LEMMA DetectStep ==
    ASSUME Core, NEW q \in Processes, Detect(q)
    PROVE  Core'
<1>1. /\ TypeOK /\ HostOf(q) = q /\ disk[q] \in Archive
      /\ acts' \in 0..MaxActs /\ acts <= acts' /\ fails' \in 0..MaxFails /\ linked' \subseteq Hosts
      /\ UNCHANGED <<disk, server, newId, saved, mem, forgone, own>>
      /\ mem' \in [Processes -> State] /\ saved' \in [Hosts -> State]
  BY InvParts, Parts, Stays, HostAssumption DEF Detect
<1>2. PICK k \in Job : /\ k = [NoJob EXCEPT !.fp = disk[q]]
                       /\ k.fp = disk[q] /\ k.archive = NoFiles
                       /\ \A f \in Files : k.archive[f] = 0
  BY <1>1, Out
<1>3. CASE Goto(q, "listing") /\ Do(q, [NoJob EXCEPT !.fp = disk[q]])
  <2>1. Do(q, k)
    BY <1>2, <1>3
  <2>2. QED
    BY <1>1, <1>2, <1>3, <2>1, LeavesStep
<1>4. CASE /\ Goto(q, "packing")
           /\ Do(q, [NoJob EXCEPT !.fp = disk[q], !.todo = PathsOf(disk[q])])
  <2>1. QED
    BY <1>1, <1>2, <1>4, StartsPacking
<1>5. QED
  BY <1>3, <1>4 DEF Detect

\* A command begins as a pass does, with what is on disk.
LEMMA StartPushStep ==
    ASSUME Core, NEW q \in Processes, StartPush(q)
    PROVE  Core'
<1>1. /\ TypeOK /\ acts' \in 0..MaxActs /\ acts <= acts' /\ fails' \in 0..MaxFails
      /\ linked' \subseteq Hosts
      /\ UNCHANGED <<disk, server, newId, saved, mem, forgone, own>>
  BY InvParts, Stays DEF StartPush, Command
<1>2. QED
  BY <1>1, StartsPacking DEF StartPush

\* The archive is read after the fingerprint, and the agent may have written between the two.
LEMMA PackStep ==
    ASSUME Core, NEW q \in Processes, NEW f \in Files, Pack(q, f)
    PROVE  Core'
<1>1. /\ TypeOK /\ acts' \in 0..MaxActs /\ acts <= acts' /\ fails' \in 0..MaxFails
      /\ linked' \subseteq Hosts /\ pc[q] = "packing" /\ f \in job[q].todo
      /\ UNCHANGED <<disk, server, newId, saved, mem, forgone, own>>
      /\ mem' \in [Processes -> State] /\ saved' \in [Hosts -> State]
      /\ disk[HostOf(q)] \in Archive /\ HostOf(q) \in Hosts
      /\ job[q] \in Job /\ job[q].fp \in Archive /\ job[q].archive \in Archive
  BY InvParts, Parts, Stays DEF Pack
<1>2. CASE Goto(q, AfterPush(q)) /\ Do(q, [NoJob EXCEPT !.fp = job[q].fp])
  <2>1. PICK k \in Job : /\ k = [NoJob EXCEPT !.fp = job[q].fp]
                         /\ k.fp = job[q].fp /\ k.archive = NoFiles
    BY <1>1, Out
  <2>2. Do(q, k) /\ AfterPush(q) \in {"idle", "listing", "restoring", "saving"}
    BY <1>2, <2>1 DEF AfterPush
  <2>3. QED
    BY <1>1, <1>2, <2>1, <2>2, LeavesStep
<1>3. CASE /\ Do(q, [job[q] EXCEPT !.archive[f] = disk[HostOf(q)][f], !.todo = @ \ {f}])
           /\ UNCHANGED pc
  <2> DEFINE j == [job[q] EXCEPT !.archive[f] = disk[HostOf(q)][f], !.todo = @ \ {f}]
  <2>1. disk[HostOf(q)][f] \in Content
    BY <1>1 DEF Archive
  <2>2. /\ j \in Job /\ j.fp = job[q].fp /\ j.todo = job[q].todo \ {f}
        /\ j.archive = [job[q].archive EXCEPT ![f] = disk[HostOf(q)][f]]
    BY <1>1, <2>1 DEF Job, Archive
  <2>3. Do(q, j) /\ Goto(q, "packing") /\ "packing" \in ControlPoint
    BY <1>1, <1>3, Stays DEF ControlPoint
  <2> HIDE DEF j
  <2>4. /\ j.archive[f] = disk[HostOf(q)][f]
        /\ \A g \in Files \ {f} : j.archive[g] = job[q].archive[g]
    BY <1>1, <2>2 DEF Archive
  <2>5. \A g \in Files : j.archive[g] > 0 => Somewhere(g, j.archive[g])
    BY <1>1, <2>4 DEF Somewhere
  <2>6. \A g \in Files :
           \/ /\ pc[q] = "packing" /\ j.archive[g] = job[q].archive[g]
              /\ g \in j.todo \/ (g \notin job[q].todo /\ j.fp = job[q].fp)
           \/ g \in j.todo /\ j.archive[g] = 0
           \/ j.archive[g] = disk[HostOf(q)][g]
    BY <1>1, <2>2, <2>4
  <2>7. QED
    BY <1>1, <2>2, <2>3, <2>5, <2>6, QuietStep
<1>4. QED
  BY <1>2, <1>3 DEF Pack

\* What was pushed is remembered, under the first reading.
LEMMA RememberStep ==
    ASSUME Core, NEW q \in Processes, Remember(q)
    PROVE  Core'
<1>1. /\ TypeOK /\ acts' \in 0..MaxActs /\ acts <= acts' /\ fails' \in 0..MaxFails
      /\ linked' \subseteq Hosts /\ pc[q] = "pushed"
      /\ UNCHANGED <<disk, server, newId, saved, forgone, own>>
      /\ mem \in [Processes -> State] /\ saved' \in [Hosts -> State]
      /\ HostOf(q) \in Hosts /\ job[q] \in Job /\ job[q].fp \in Archive
      /\ Goto(q, "listing") /\ Do(q, job[q])
      /\ mem[q] \in State
  BY InvParts, Parts, Stays DEF Remember
<1>2. [mem[q] EXCEPT !.pushed = job[q].fp] \in State
  BY <1>1 DEF State
<1>3. /\ mem' \in [Processes -> State] /\ \A o \in Processes \ {q} : mem'[o] = mem[o]
      /\ mem'[q] = [mem[q] EXCEPT !.pushed = job[q].fp]
  BY <1>1, <1>2 DEF Remember, Pushed
<1>4. mem'[q].pushed = job[q].fp
  BY <1>1, <1>3 DEF State
<1>5. QED
  BY <1>1, <1>3, <1>4, LeavesStep

\* A command may link the machine, and goes on with the state file as it is saved.
LEMMA LinkStep ==
    ASSUME Core, NEW q \in Processes, Link(q)
    PROVE  Core'
<1>1. /\ TypeOK /\ acts' \in 0..MaxActs /\ acts <= acts' /\ fails' \in 0..MaxFails
      /\ linked' \subseteq Hosts
      /\ UNCHANGED <<disk, server, newId, saved, forgone, own>>
      /\ mem \in [Processes -> State] /\ saved' \in [Hosts -> State]
      /\ HostOf(q) \in Hosts /\ job[q] \in Job
      /\ saved[HostOf(q)] \in State
      /\ Goto(q, "listing") /\ Do(q, job[q])
  BY InvParts, Parts, Stays DEF Link, Command
<1>2. /\ mem' \in [Processes -> State] /\ \A o \in Processes \ {q} : mem'[o] = mem[o]
      /\ mem'[q] = saved[HostOf(q)]
  BY <1>1 DEF Link
<1>3. QED
  BY <1>1, <1>2, LeavesStep

\* A machine that sessions are restored to lists those of the others it has not restored.
LEMMA ListStep ==
    ASSUME Core, NEW q \in Processes, List(q)
    PROVE  Core'
<1>1. /\ TypeOK /\ acts' \in 0..MaxActs /\ acts <= acts' /\ fails' \in 0..MaxFails
      /\ linked' \subseteq Hosts
      /\ UNCHANGED <<disk, server, newId, saved, mem, forgone, own>>
      /\ mem' \in [Processes -> State] /\ saved' \in [Hosts -> State]
      /\ HostOf(q) \in Hosts
      /\ NoJob \in Job /\ NoJob.archive = NoFiles /\ NoJob.fp = NoFiles
  BY InvParts, Parts, Stays, Empty DEF List
<1>2. CASE Do(q, NoJob) /\ Goto(q, "saving")
  BY <1>1, <1>2, LeavesStep
<1>3. ASSUME NEW list \in SUBSET Nat, Do(q, [NoJob EXCEPT !.list = list]), Goto(q, "restoring")
      PROVE  Core'
  <2> DEFINE j == [NoJob EXCEPT !.list = list]
  <2>1. j \in Job /\ j.archive = NoFiles /\ j.fp = NoFiles
    BY <1>1 DEF Job
  <2> HIDE DEF j
  <2>2. Do(q, j)
    BY <1>3 DEF j
  <2>3. QED
    BY <1>1, <1>3, <2>1, <2>2, LeavesStep
<1>4. {server[h].id : h \in {o \in Hosts \ {HostOf(q)} : server[o] # NoRow}} \ mem[q].restored \in SUBSET Nat
  BY <1>1 DEF TypeOK
<1>5. QED
  BY <1>2, <1>3, <1>4 DEF List

\* What there is to unpack of an archive.
LEMMA UnpackStep ==
    ASSUME Core, NEW q \in Processes, NEW h \in Hosts,
           NEW j \in Job, j.archive = server[h].archive, j.todo = PathsOf(server[h].archive),
           j.fp \in {job[q].fp, NoFiles}, Goto(q, "unpacking"), Do(q, j),
           UNCHANGED <<disk, server, newId, saved, mem, forgone, own>>,
           acts' \in 0..MaxActs, acts <= acts', fails' \in 0..MaxFails, linked' \subseteq Hosts
    PROVE  Core'
<1>1. /\ TypeOK /\ mem' \in [Processes -> State] /\ saved' \in [Hosts -> State]
      /\ disk' \in [Hosts -> Archive] /\ forgone' \subseteq Hosts /\ newId' \in Nat \ {0}
      /\ "unpacking" \in ControlPoint \ {"packing", "pushed", "writing"}
  BY InvParts DEF TypeOK, ControlPoint
<1>2. \A f \in Files : j.archive[f] > 0 => Somewhere(f, j.archive[f])
  BY DEF Somewhere
<1>3. j.todo \subseteq PathsOf(j.archive)
  OBVIOUS
<1>4. QED
  BY <1>1, <1>2, <1>3, EndsStep

\* A command starts to restore a session that is on the server.
LEMMA PullStep ==
    ASSUME Core, NEW q \in Processes, Pull(q)
    PROVE  Core'
<1>1. /\ TypeOK /\ acts' \in 0..MaxActs /\ acts <= acts' /\ fails' \in 0..MaxFails
      /\ linked' \subseteq Hosts
      /\ UNCHANGED <<disk, server, newId, saved, mem, forgone, own>>
      /\ NoJob \in Job /\ NoJob.fp = NoFiles
  BY InvParts, Stays, Empty DEF Pull, Command
<1>2. PICK h \in Hosts, force \in BOOLEAN :
         Do(q, [NoJob EXCEPT !.force = force, !.archive = server[h].archive,
                             !.todo = PathsOf(server[h].archive)])
  BY DEF Pull
<1> DEFINE j == [NoJob EXCEPT !.force = force, !.archive = server[h].archive,
                              !.todo = PathsOf(server[h].archive)]
<1>3. server[h].archive \in Archive
  BY <1>1 DEF TypeOK
<1>4. j \in Job /\ j.archive = server[h].archive /\ j.todo = PathsOf(server[h].archive) /\ j.fp = NoFiles
  BY <1>1, <1>3 DEF Job, PathsOf
<1>5. Do(q, j) /\ Goto(q, "unpacking")
  BY <1>2 DEF Pull
<1> HIDE DEF j
<1>6. QED
  BY <1>1, <1>4, <1>5, UnpackStep

\* Without one of the sessions of the list.
LEMMA LessList ==
    ASSUME TypeOK, NEW q \in Processes, NEW id
    PROVE  \E j \in Job : /\ j = [job[q] EXCEPT !.list = @ \ {id}]
                          /\ j.archive = job[q].archive /\ j.fp = job[q].fp
<1> DEFINE j == [job[q] EXCEPT !.list = @ \ {id}]
<1>1. job[q] \in Job
  BY DEF TypeOK
<1>2. j \in Job /\ j.archive = job[q].archive /\ j.fp = job[q].fp
  BY <1>1 DEF Job
<1> HIDE DEF j
<1>3. QED
  BY <1>2 DEF j

\* The archive of one of the listed sessions arrives, or its row is gone.
LEMMA DownloadStep ==
    ASSUME Core, NEW q \in Processes, Download(q)
    PROVE  Core'
<1>1. /\ TypeOK /\ acts' \in 0..MaxActs /\ acts <= acts' /\ fails' \in 0..MaxFails
      /\ linked' \subseteq Hosts /\ pc[q] = "restoring"
      /\ UNCHANGED <<disk, server, newId, saved, mem, forgone, own>>
      /\ mem' \in [Processes -> State] /\ saved' \in [Hosts -> State]
      /\ HostOf(q) \in Hosts /\ job[q].list \subseteq Nat
  BY InvParts, Parts, Stays DEF Download
<1>2. PICK id \in job[q].list :
         \/ \E h \in Hosts :
               /\ server[h].id = id
               /\ Do(q, [[job[q] EXCEPT !.list = @ \ {id}] EXCEPT
                            !.id = id, !.archive = server[h].archive,
                            !.todo = PathsOf(server[h].archive)])
               /\ Goto(q, "unpacking")
         \/ Do(q, [job[q] EXCEPT !.list = @ \ {id}]) /\ UNCHANGED pc
  BY DEF Download
<1>3. PICK k \in Job : /\ k = [job[q] EXCEPT !.list = @ \ {id}]
                       /\ k.archive = job[q].archive /\ k.fp = job[q].fp
  BY <1>1, LessList
<1>4. CASE Do(q, k) /\ UNCHANGED pc
  <2>1. Goto(q, "restoring")
    BY <1>1, <1>4, Stays
  <2>2. QED
    BY <1>1, <1>3, <1>4, <2>1, LeavesStep
<1>5. ASSUME NEW h \in Hosts, Goto(q, "unpacking"),
             Do(q, [k EXCEPT !.id = id, !.archive = server[h].archive,
                             !.todo = PathsOf(server[h].archive)])
      PROVE  Core'
  <2> DEFINE j == [k EXCEPT !.id = id, !.archive = server[h].archive,
                            !.todo = PathsOf(server[h].archive)]
  <2>1. server[h].archive \in Archive /\ id \in Nat
    BY <1>1 DEF TypeOK
  <2>2. j \in Job /\ j.archive = server[h].archive /\ j.todo = PathsOf(server[h].archive) /\ j.fp = job[q].fp
    BY <1>3, <2>1 DEF Job, PathsOf
  <2>3. Do(q, j)
    BY <1>5
  <2> HIDE DEF j
  <2>4. QED
    BY <1>1, <1>5, <2>2, <2>3, UnpackStep
<1>6. QED
  BY <1>2, <1>3, <1>4, <1>5

\* A file is looked for before it is written.
LEMMA LookStep ==
    ASSUME Core, NEW q \in Processes, NEW f \in Files, Look(q, f)
    PROVE  Core'
<1>1. /\ TypeOK /\ acts' \in 0..MaxActs /\ acts <= acts' /\ fails' \in 0..MaxFails
      /\ linked' \subseteq Hosts /\ pc[q] = "unpacking" /\ f \in job[q].todo
      /\ UNCHANGED <<disk, server, newId, saved, mem, forgone, own>>
      /\ mem' \in [Processes -> State] /\ saved' \in [Hosts -> State]
      /\ job[q] \in Job /\ acts \in Nat
      /\ disk' \in [Hosts -> Archive] /\ forgone' \subseteq Hosts /\ newId' \in Nat \ {0}
  BY InvParts, Parts, Stays DEF Look, TypeOK
<1>2. job[q].todo \subseteq PathsOf(job[q].archive) /\ job[q].archive[f] # 0
  BY <1>1, InvParts DEF JobsSound, PathsOf
<1>3. \A g \in Files : job[q].archive[g] > 0 => Somewhere(g, job[q].archive[g])
  BY DEF Somewhere
<1> DEFINE k == [job[q] EXCEPT !.todo = @ \ {f}]
           j == [k EXCEPT !.at = f, !.since = acts]
<1>4. /\ k \in Job /\ k.archive = job[q].archive /\ k.fp = job[q].fp /\ k.todo = job[q].todo \ {f}
      /\ k.force = job[q].force
  BY <1>1 DEF Job
<1>5. CASE Do(q, k) /\ UNCHANGED pc
  <2>1. /\ Goto(q, "unpacking")
        /\ "unpacking" \in ControlPoint \ {"packing", "pushed", "writing"}
    BY <1>1, <1>5, Stays DEF ControlPoint
  <2>2. k.todo \subseteq PathsOf(k.archive) /\ Do(q, k)
    BY <1>2, <1>4, <1>5
  <2> HIDE DEF k
  <2>3. QED
    BY <1>1, <1>3, <1>4, <2>1, <2>2, EndsStep
<1>6. CASE ~Skips(q, f) /\ Do(q, j) /\ Goto(q, "writing")
  <2> HIDE DEF k
  <2>1. acts \in 0..acts
    BY <1>1
  <2>2. j \in Job
    BY <1>4, <2>1 DEF Job
  <2>3. j.at = f /\ j.archive = k.archive /\ j.fp = k.fp /\ j.todo = k.todo /\ j.force = k.force
    BY <1>4, <2>1 DEF Job
  <2>4. /\ j \in Job /\ j.archive = job[q].archive /\ j.fp = job[q].fp /\ j.todo = job[q].todo \ {f}
        /\ j.at = f /\ j.force = k.force
    BY <1>4, <2>2, <2>3
  <2>5. j.force \/ disk[HostOf(q)][j.at] = 0
    BY <1>1, <1>4, <1>6, <2>4 DEF Skips
  <2>6. "writing" \in ControlPoint /\ Do(q, j)
    BY <1>6 DEF ControlPoint
  <2> HIDE DEF j
  <2>7. j.todo \subseteq PathsOf(j.archive) /\ j.archive[j.at] # 0
    BY <1>2, <2>4
  <2>8. QED
    BY <1>1, <1>3, <1>6, <2>4, <2>5, <2>6, <2>7, QuietStep
<1>7. QED
  BY <1>5, <1>6 DEF Look

\* What a file is written with: content there is somewhere, or a short file.
LEMMA Put ==
    ASSUME TypeOK, NEW q \in Processes, NEW content \in Content \ {0}, PutFile(q, content),
           content > 0 => Somewhere(job[q].at, content)
    PROVE  /\ disk' \in [Hosts -> Archive] /\ forgone \subseteq forgone' /\ forgone' \subseteq Hosts
           /\ \A h \in Hosts \ {HostOf(q)} : disk'[h] = disk[h]
           /\ \A f \in Files : \/ disk'[HostOf(q)][f] = disk[HostOf(q)][f]
                               \/ /\ disk'[HostOf(q)][f] # 0
                                  /\ disk'[HostOf(q)][f] > 0 => Somewhere(f, disk'[HostOf(q)][f])
                                  /\ disk[HostOf(q)][f] = 0 \/ HostOf(q) \in forgone'
<1>1. /\ HostOf(q) \in Hosts /\ job[q].at \in Files /\ disk[HostOf(q)] \in Archive
      /\ disk \in [Hosts -> Archive] /\ forgone \subseteq Hosts
  BY Parts DEF TypeOK
<1>2. [disk[HostOf(q)] EXCEPT ![job[q].at] = content] \in Archive
  BY <1>1 DEF Archive
<1>3. /\ disk' \in [Hosts -> Archive] /\ \A h \in Hosts \ {HostOf(q)} : disk'[h] = disk[h]
      /\ disk'[HostOf(q)] = [disk[HostOf(q)] EXCEPT ![job[q].at] = content]
  BY <1>1, <1>2 DEF PutFile
<1>4. /\ disk'[HostOf(q)][job[q].at] = content
      /\ \A f \in Files \ {job[q].at} : disk'[HostOf(q)][f] = disk[HostOf(q)][f]
  BY <1>1, <1>3 DEF Archive
<1>5. /\ forgone \subseteq forgone' /\ forgone' \subseteq Hosts
      /\ disk[HostOf(q)][job[q].at] = 0 \/ HostOf(q) \in forgone'
  BY <1>1 DEF PutFile
<1>6. QED
  BY <1>1, <1>3, <1>4, <1>5

\* A file that was found missing is written.
LEMMA WriteStep ==
    ASSUME Core, NEW q \in Processes, Write(q)
    PROVE  Core'
<1>1. /\ TypeOK /\ acts' \in 0..MaxActs /\ acts <= acts' /\ fails' \in 0..MaxFails
      /\ linked' \subseteq Hosts /\ pc[q] = "writing" /\ newId' \in Nat \ {0}
      /\ UNCHANGED <<server, saved, mem, own>>
      /\ mem' \in [Processes -> State] /\ saved' \in [Hosts -> State]
      /\ job[q] \in Job /\ job[q].at \in Files /\ job[q].archive \in Archive
      /\ Goto(q, "unpacking") /\ Do(q, job[q])
      /\ "unpacking" \in ControlPoint \ {"packing", "pushed", "writing"}
  BY InvParts, Parts, Stays DEF Write, TypeOK, ControlPoint
<1>2. job[q].todo \subseteq PathsOf(job[q].archive) /\ job[q].archive[job[q].at] # 0
  BY <1>1, InvParts DEF JobsSound
<1>3. \A f \in Files : job[q].archive[f] > 0 => Somewhere(f, job[q].archive[f])
  BY DEF Somewhere
<1>4. /\ job[q].archive[job[q].at] \in Content \ {0}
      /\ PutFile(q, job[q].archive[job[q].at])
  BY <1>1, <1>2 DEF Archive, Write
<1>5. /\ disk' \in [Hosts -> Archive] /\ forgone \subseteq forgone' /\ forgone' \subseteq Hosts
      /\ \A h \in Hosts \ {HostOf(q)} : disk'[h] = disk[h]
      /\ \A f \in Files : \/ disk'[HostOf(q)][f] = disk[HostOf(q)][f]
                          \/ /\ disk'[HostOf(q)][f] # 0
                             /\ disk'[HostOf(q)][f] > 0 => Somewhere(f, disk'[HostOf(q)][f])
                             /\ disk[HostOf(q)][f] = 0 \/ HostOf(q) \in forgone'
  BY <1>1, <1>3, <1>4, Put
<1>6. QED
  BY <1>1, <1>2, <1>3, <1>5, EndsStep

\* The list without the rest.
LEMMA OnlyList ==
    ASSUME TypeOK, NEW q \in Processes
    PROVE  \E j \in Job : /\ j = [NoJob EXCEPT !.list = job[q].list]
                          /\ j.archive = NoFiles /\ j.fp = NoFiles
<1> DEFINE j == [NoJob EXCEPT !.list = job[q].list]
<1>1. job[q].list \subseteq Nat /\ NoJob \in Job /\ NoJob.archive = NoFiles /\ NoJob.fp = NoFiles
  BY Parts, Empty
<1>2. j \in Job /\ j.archive = NoFiles /\ j.fp = NoFiles
  BY <1>1 DEF Job
<1> HIDE DEF j
<1>3. QED
  BY <1>2 DEF j

\* A session whose files have all been looked at is remembered as restored.
LEMMA RestoredStep ==
    ASSUME Core, NEW q \in Processes, Restored(q)
    PROVE  Core'
<1>1. /\ TypeOK /\ acts' \in 0..MaxActs /\ acts <= acts' /\ fails' \in 0..MaxFails
      /\ linked' \subseteq Hosts
      /\ UNCHANGED <<disk, server, newId, saved, forgone, own>>
      /\ mem \in [Processes -> State] /\ saved' \in [Hosts -> State]
      /\ mem[q] \in State /\ job[q].id \in Nat
      /\ NoJob \in Job /\ NoJob.archive = NoFiles /\ NoJob.fp = NoFiles
      /\ HostOf(q) \in Hosts
  BY InvParts, Parts, Stays, Empty DEF Restored
<1>2. CASE Goto(q, "idle") /\ Do(q, NoJob) /\ UNCHANGED mem
  BY <1>1, <1>2, LeavesStep
<1>3. CASE /\ mem' = [mem EXCEPT ![q].restored = @ \cup {job[q].id}]
           /\ Goto(q, "restoring") /\ Do(q, [NoJob EXCEPT !.list = job[q].list])
  <2>1. [mem[q] EXCEPT !.restored = @ \cup {job[q].id}] \in State
    BY <1>1 DEF State
  <2>2. /\ mem' \in [Processes -> State] /\ \A o \in Processes \ {q} : mem'[o] = mem[o]
        /\ mem'[q] = [mem[q] EXCEPT !.restored = @ \cup {job[q].id}]
    BY <1>1, <1>3, <2>1
  <2>3. mem'[q].pushed = mem[q].pushed
    BY <1>1, <2>2 DEF State
  <2>4. PICK k \in Job : /\ k = [NoJob EXCEPT !.list = job[q].list]
                         /\ k.archive = NoFiles /\ k.fp = NoFiles
    BY <1>1, OnlyList
  <2>5. Do(q, k)
    BY <1>3, <2>4
  <2>6. QED
    BY <1>1, <1>3, <2>2, <2>3, <2>4, <2>5, LeavesStep
<1>4. QED
  BY <1>2, <1>3 DEF Restored

\* The pass saves what it remembers.
LEMMA SaveStep ==
    ASSUME Core, NEW q \in Processes, Save(q)
    PROVE  Core'
<1>1. /\ TypeOK /\ acts' \in 0..MaxActs /\ acts <= acts' /\ fails' \in 0..MaxFails
      /\ linked' \subseteq Hosts
      /\ UNCHANGED <<disk, server, newId, forgone, own>>
      /\ mem \in [Processes -> State] /\ saved \in [Hosts -> State]
      /\ mem[q] \in State
      /\ NoJob \in Job /\ NoJob.archive = NoFiles /\ NoJob.fp = NoFiles
      /\ NoState \in State /\ NoState.pushed = NoFiles
      /\ HostOf(q) \in Hosts /\ Goto(q, "idle") /\ Do(q, NoJob)
  BY InvParts, Parts, Stays, Empty DEF Save
<1>2. /\ saved' \in [Hosts -> State] /\ \A h \in Hosts \ {HostOf(q)} : saved'[h] = saved[h]
      /\ saved'[HostOf(q)] = mem[q]
  BY <1>1 DEF Save
<1>3. /\ mem' \in [Processes -> State] /\ \A o \in Processes \ {q} : mem'[o] = mem[o]
      /\ mem'[q] \in {mem[q], NoState}
  BY <1>1 DEF Save
<1>4. QED
  BY <1>1, <1>2, <1>3, LeavesStep

\* A file that was cut short is new to no one.
LEMMA Cut ==
    ASSUME Core, NEW q \in Processes, CutShort(q)
    PROVE  /\ disk' \in [Hosts -> Archive] /\ forgone \subseteq forgone' /\ forgone' \subseteq Hosts
           /\ \A h \in Hosts \ {HostOf(q)} : disk'[h] = disk[h]
           /\ \A f \in Files : \/ disk'[HostOf(q)][f] = disk[HostOf(q)][f]
                               \/ /\ disk'[HostOf(q)][f] # 0
                                  /\ disk'[HostOf(q)][f] > 0 => Somewhere(f, disk'[HostOf(q)][f])
                                  /\ disk[HostOf(q)][f] = 0 \/ HostOf(q) \in forgone'
<1>1. /\ TypeOK /\ acts \in Nat /\ job[q].at \in Files /\ job[q].archive \in Archive
  BY InvParts, Parts
<1>2. CASE pc[q] = "writing"
  <2>1. job[q].archive[job[q].at] \in Content \ {0}
    BY <1>1, <1>2, InvParts DEF JobsSound, Archive
  <2>2. \A m \in Nat, n \in Int : n \in ((-m)..m) \ {0} =>
           /\ (IF n > 0 THEN -n ELSE n) \in ((-m)..m) \ {0}
           /\ ~((IF n > 0 THEN -n ELSE n) > 0)
    OBVIOUS
  <2>3. PICK n \in Content \ {0} : n = Short(job[q].archive[job[q].at]) /\ ~(n > 0)
    BY <1>1, <2>1, <2>2 DEF Short, Content
  <2>4. PutFile(q, n)
    BY <1>2, <2>3 DEF CutShort
  <2>5. QED
    BY <1>1, <2>3, <2>4, Put
<1>3. CASE pc[q] # "writing"
  BY <1>1, <1>3 DEF CutShort, TypeOK
<1>4. QED
  BY <1>2, <1>3

\* A process gives up what it was doing.
LEMMA GivesUp ==
    ASSUME Core, NEW q \in Processes, CutShort(q),
           NEW where \in {"idle", "listing", "restoring", "saving"}, Goto(q, where),
           NEW j \in Job, Do(q, j), j.archive \in {NoFiles, job[q].archive},
           j.fp \in {job[q].fp, NoFiles}, UNCHANGED <<server, newId, linked, saved, own, acts>>,
           fails' \in 0..MaxFails,
           mem' \in [Processes -> State], \A o \in Processes \ {q} : mem'[o] = mem[o],
           mem'[q].pushed \in {mem[q].pushed, saved[HostOf(q)].pushed, NoFiles}
    PROVE  Core'
<1>1. /\ TypeOK /\ \A f \in Files : NoFiles[f] = 0
      /\ acts' \in 0..MaxActs /\ acts <= acts' /\ linked' \subseteq Hosts /\ newId' \in Nat \ {0}
      /\ saved' \in [Hosts -> State] /\ \A h \in Hosts \ {HostOf(q)} : saved'[h] = saved[h]
      /\ saved'[HostOf(q)].pushed = saved[HostOf(q)].pushed
  BY InvParts, Empty, BoundAssumption DEF TypeOK
<1>2. \A f \in Files : j.archive[f] > 0 => Somewhere(f, j.archive[f])
  BY <1>1 DEF Somewhere
<1>3. where \in ControlPoint \ {"packing", "pushed", "writing"} /\ where # "unpacking"
  BY DEF ControlPoint
<1>4. /\ disk' \in [Hosts -> Archive] /\ forgone \subseteq forgone' /\ forgone' \subseteq Hosts
      /\ \A h \in Hosts \ {HostOf(q)} : disk'[h] = disk[h]
      /\ \A f \in Files : \/ disk'[HostOf(q)][f] = disk[HostOf(q)][f]
                          \/ /\ disk'[HostOf(q)][f] # 0
                             /\ disk'[HostOf(q)][f] > 0 => Somewhere(f, disk'[HostOf(q)][f])
                             /\ disk[HostOf(q)][f] = 0 \/ HostOf(q) \in forgone'
  BY Cut
<1>5. QED
  BY <1>1, <1>2, <1>3, <1>4, EndsStep

\* A call or a file fails and the process goes on behind it; a file it was writing may be cut short.
LEMMA FailStep ==
    ASSUME Core, NEW q \in Processes, Fail(q)
    PROVE  Core'
<1>1. /\ TypeOK /\ fails' \in 0..MaxFails /\ CutShort(q)
      /\ UNCHANGED <<server, newId, linked, mem, saved, own, acts>>
      /\ mem' \in [Processes -> State] /\ \A o \in Processes \ {q} : mem'[o] = mem[o]
      /\ mem'[q].pushed = mem[q].pushed
      /\ NoJob \in Job /\ NoJob.archive = NoFiles /\ NoJob.fp = NoFiles
      /\ job[q].fp \in Archive
  BY InvParts, Parts, Stays, Empty DEF Fail
<1>2. PICK k \in Job : /\ k = [NoJob EXCEPT !.fp = job[q].fp]
                       /\ k.fp = job[q].fp /\ k.archive = NoFiles
  BY <1>1, Out
<1>3. PICK l \in Job : /\ l = [NoJob EXCEPT !.list = job[q].list]
                       /\ l.archive = NoFiles /\ l.fp = NoFiles
  BY <1>1, OnlyList
<1>4. CASE Goto(q, AfterPush(q)) /\ Do(q, [NoJob EXCEPT !.fp = job[q].fp])
  <2>1. Do(q, k) /\ AfterPush(q) \in {"idle", "listing", "restoring", "saving"}
    BY <1>2, <1>4 DEF AfterPush
  <2>2. QED
    BY <1>1, <1>2, <1>4, <2>1, GivesUp
<1>5. CASE Goto(q, "saving") /\ Do(q, NoJob)
  BY <1>1, <1>5, GivesUp
<1>6. CASE /\ pc[q] = "restoring" /\ UNCHANGED pc
           /\ \E id \in job[q].list : Do(q, [job[q] EXCEPT !.list = @ \ {id}])
  <2>1. PICK id \in job[q].list : Do(q, [job[q] EXCEPT !.list = @ \ {id}])
    BY <1>6
  <2>2. PICK j \in Job : /\ j = [job[q] EXCEPT !.list = @ \ {id}]
                         /\ j.archive = job[q].archive /\ j.fp = job[q].fp
    BY <1>1, LessList
  <2>3. Do(q, j) /\ Goto(q, "restoring")
    BY <1>1, <1>6, <2>1, <2>2, Stays
  <2>4. QED
    BY <1>1, <2>2, <2>3, GivesUp
<1>7. CASE /\ Goto(q, IF job[q].id = 0 THEN "idle" ELSE "restoring")
           /\ Do(q, [NoJob EXCEPT !.list = job[q].list])
  <2>1. PICK where \in {"idle", "listing", "restoring", "saving"} : Goto(q, where)
    BY <1>7
  <2>2. Do(q, l)
    BY <1>3, <1>7
  <2>3. QED
    BY <1>1, <1>3, <2>1, <2>2, GivesUp
<1>8. QED
  BY <1>4, <1>5, <1>6, <1>7 DEF Fail

\* A daemon restarts with what is saved.
LEMMA RestartStep ==
    ASSUME Core, NEW q \in Processes, Restart(q)
    PROVE  Core'
<1>1. /\ TypeOK /\ fails' \in 0..MaxFails /\ CutShort(q)
      /\ UNCHANGED <<server, newId, linked, saved, own, acts>>
      /\ mem \in [Processes -> State] /\ saved \in [Hosts -> State]
      /\ NoJob \in Job /\ NoJob.archive = NoFiles /\ NoJob.fp = NoFiles
      /\ NoState \in State /\ NoState.pushed = NoFiles
      /\ Goto(q, "idle") /\ Do(q, NoJob)
  BY InvParts, Parts, Stays, Empty DEF Restart
<1>2. q \in Hosts => saved[q] = saved[HostOf(q)] /\ saved[q] \in State
  BY <1>1, HostAssumption
<1>3. /\ mem' \in [Processes -> State] /\ \A o \in Processes \ {q} : mem'[o] = mem[o]
      /\ mem'[q] \in {saved[HostOf(q)], NoState}
  BY <1>1, <1>2 DEF Restart
<1>4. QED
  BY <1>1, <1>3, GivesUp

\* The machine that pushes: what was packed is what is on disk where that is
\* what is remembered.
LEMMA PusherOK ==
    ASSUME Core, NEW q \in Processes, NEW h \in Hosts, h = HostOf(q),
           pc[q] = "packing", job[q].todo = {}, UNCHANGED <<disk, mem, saved>>,
           server'[h].archive = job[q].archive,
           forgone \subseteq forgone',
           \A o \in Processes \ {q} :
              HostOf(o) = h /\ pc[o] \in {"packing", "pushed"} => h \in forgone',
           pc'[q] \in {"pushed", "idle"}, job'[q].fp = job[q].fp,
           \A o \in Processes \ {q} : pc'[o] = pc[o] /\ job'[o] = job[o]
    PROVE  HostOK(h)'
<1> SUFFICES ASSUME h \notin forgone'
             PROVE  HostOK(h)'
  BY DEF HostOK
<1>1. /\ TypeOK /\ h \notin forgone /\ HostOK(h)
      /\ Remembered(h) \subseteq Seen(h) /\ disk[h] \in Archive
      /\ q \in ProcessesOf(h) /\ q \in Packing(h) /\ job[q].archive \in Archive
      /\ job[q].fp \in Seen(h)
  BY InvParts, SeenTyped, Parts DEF Packing, Seen
<1>2. \A o \in ProcessesOf(h) \ {q} : o \in Processes \ {q} /\ pc[o] \notin {"packing", "pushed"}
  BY DEF ProcessesOf
<1>3. ~\E o \in ProcessesOf(h) : pc'[o] = "packing"
  BY <1>2
<1>4. ASSUME NEW m \in Remembered(h)'
      PROVE  m \in Remembered(h) \cup {job[q].fp}
  BY <1>2, <1>4 DEF Remembered, ProcessesOf
<1>5. ASSUME NEW m \in Seen(h)'
      PROVE  m \in Seen(h)
  <2>1. CASE m \in Remembered(h)'
    BY <1>1, <1>4, <2>1
  <2>2. ASSUME NEW o \in ProcessesOf(h), m = job'[o].fp
        PROVE  m \in Seen(h)
    BY <1>1, <1>2, <2>2 DEF Seen
  <2>3. QED
    BY <1>3, <2>1, <2>2 DEF Seen, Packing, ProcessesOf
<1>6. ASSUME disk'[h] \in Remembered(h)'
      PROVE  server'[h].archive = disk'[h]
  <2>1. disk[h] \in Remembered(h) \cup {job[q].fp}
    BY <1>4, <1>6
  <2>2. \A f \in Files : job[q].archive[f] = disk[h][f]
    BY <1>1, <2>1 DEF HostOK
  <2>3. QED
    BY <1>1, <2>2 DEF Archive
<1>7. \A f \in Files : disk'[h][f] = 0 => \A m \in Seen(h)' : m[f] = 0
  BY <1>1, <1>5 DEF HostOK
<1>8. Packing(h)' = {}
  BY <1>3 DEF Packing, ProcessesOf
<1>9. QED
  BY <1>6, <1>7, <1>8 DEF HostOK

\* A machine nothing happens to.
LEMMA HostSame ==
    ASSUME Core, TypeOK', NEW h \in Hosts, forgone \subseteq forgone',
           disk'[h] = disk[h], server'[h].archive = server[h].archive, saved'[h] = saved[h],
           \A o \in ProcessesOf(h) : pc'[o] = pc[o] /\ job'[o] = job[o] /\ mem'[o] = mem[o]
    PROVE  HostOK(h)'
<1>1. saved'[h].pushed \in Remembered(h)
  BY DEF Remembered
<1>2. ASSUME NEW o \in ProcessesOf(h)
      PROVE  /\ mem[o].pushed \in Remembered(h) /\ job[o].fp \in Seen(h)
  BY DEF Remembered, Seen
<1>3. \A o \in ProcessesOf(h) :
         /\ mem'[o].pushed \in Remembered(h) \cup {NoFiles}
         /\ pc'[o] = "pushed" => pc[o] = "pushed" /\ job'[o].fp = job[o].fp
         /\ job'[o].fp \in Seen(h) \cup {NoFiles, disk[h]}
         /\ pc'[o] = "packing" => \A f \in Files :
               \/ /\ pc[o] = "packing" /\ job'[o].archive[f] = job[o].archive[f]
                  /\ f \in job'[o].todo \/ (f \notin job[o].todo /\ job'[o].fp = job[o].fp)
               \/ f \in job'[o].todo /\ job'[o].archive[f] = 0
               \/ disk'[h] = disk[h] /\ job'[o].archive[f] = disk[h][f]
  BY <1>2
<1>4. QED
  BY <1>1, <1>3, HostKept

\* The server takes the archive for the machine's row.
LEMMA PushStep ==
    ASSUME Core, NEW q \in Processes, Push(q)
    PROVE  Core'
<1>1. /\ TypeOK /\ JobsSound /\ pc[q] = "packing" /\ job[q].todo = {}
      /\ UNCHANGED <<disk, linked, mem, saved, own, acts, fails>>
      /\ HostOf(q) \in Hosts /\ job[q].fp \in Archive /\ job[q].archive \in Archive
      /\ server \in [Hosts -> [id : Nat, archive : Archive]] /\ newId \in Nat \ {0}
      /\ forgone \subseteq Hosts
  BY InvParts, Parts DEF Push, TypeOK
<1>2. PICK k \in Job : /\ k = [NoJob EXCEPT !.fp = job[q].fp]
                       /\ k.fp = job[q].fp /\ k.archive = NoFiles
                       /\ \A f \in Files : k.archive[f] = 0
  BY <1>1, Out
<1>3. PICK where \in {"pushed", "idle"} : Goto(q, where)
  BY DEF Push
<1>4. Do(q, k) /\ where \in ControlPoint
  BY <1>2 DEF Push, ControlPoint
<1>5. /\ pc' \in [Processes -> ControlPoint] /\ job' \in [Processes -> Job]
      /\ pc'[q] = where /\ job'[q] = k
      /\ \A o \in Processes \ {q} : pc'[o] = pc[o] /\ job'[o] = job[o]
  BY <1>1, <1>3, <1>4, Moved
<1>6. /\ server' \in [Hosts -> [id : Nat, archive : Archive]] /\ newId' \in Nat \ {0}
      /\ server'[HostOf(q)].archive = job[q].archive
      /\ \A h \in Hosts \ {HostOf(q)} : server'[h] = server[h]
  <2>1. CASE /\ server' = [server EXCEPT ![HostOf(q)] = [id |-> newId, archive |-> job[q].archive]]
             /\ newId' = newId + 1
    BY <1>1, <2>1
  <2>2. CASE /\ server' = [server EXCEPT ![HostOf(q)].archive = job[q].archive]
             /\ UNCHANGED newId
    BY <1>1, <2>2
  <2>3. QED
    BY <2>1, <2>2 DEF Push
<1>7. /\ forgone \subseteq forgone' /\ forgone' \subseteq Hosts
      /\ \A o \in Processes \ {q} :
            HostOf(o) = HostOf(q) /\ pc[o] \in {"packing", "pushed"} => HostOf(q) \in forgone'
  BY <1>1 DEF Push
<1>8. TypeOK'
  <2>1. acts' \in 0..MaxActs /\ acts <= acts' /\ fails' \in 0..MaxFails
    BY <1>1, Stays
  <2>2. disk' \in [Hosts -> Archive'] /\ own' \in [Hosts -> SUBSET (1..acts')]
    BY <1>1, BoundAssumption, Grown DEF TypeOK
  <2>3. linked' \subseteq Hosts /\ mem' \in [Processes -> State] /\ saved' \in [Hosts -> State]
    BY <1>1 DEF TypeOK
  <2>4. QED
    BY <1>1, <1>5, <1>6, <1>7, <2>1, <2>2, <2>3, Typed
<1>9. JobsSound'
  BY <1>1, <1>3, <1>5 DEF JobsSound, PathsOf
<1>10. OwnSound'
  <2>1. \A f \in Files :
           /\ disk'[HostOf(q)][f] > 0 => Somewhere(f, disk'[HostOf(q)][f])
           /\ server'[HostOf(q)].archive[f] > 0 => Somewhere(f, server'[HostOf(q)].archive[f])
           /\ job'[q].archive[f] > 0 => Somewhere(f, job'[q].archive[f])
    BY <1>1, <1>2, <1>5, <1>6 DEF Somewhere
  <2>2. \A f \in Files, n \in Nat \ {0} : Somewhere(f, n)' => Somewhere(f, n)
    BY <1>1, <1>5, <1>6, <2>1, NothingNew
  <2>3. pc'[q] # "writing"
    BY <1>5
  <2>4. QED
    BY <1>1, <1>5, <1>8, <2>2, <2>3, OwnKept
<1>11. ASSUME NEW h \in Hosts PROVE HostOK(h)'
  <2>1. CASE h = HostOf(q)
    BY <1>1, <1>2, <1>5, <1>6, <1>7, <2>1, PusherOK
  <2>2. CASE h # HostOf(q)
    <3>1. \A o \in ProcessesOf(h) : o \in Processes \ {q}
      BY <2>2 DEF ProcessesOf
    <3>2. QED
      BY <1>1, <1>5, <1>6, <1>7, <1>8, <2>2, <3>1, HostSame
  <2>3. QED
    BY <2>1, <2>2
<1>12. QED
  BY <1>8, <1>9, <1>10, <1>11, InvPartsNext

-----------------------------------------------------------------------------
(* The steps of the users.                                                 *)

\* An act of a user that leaves the processes alone.
LEMMA ActTyped ==
    ASSUME TypeOK, acts < MaxActs, acts' = acts + 1,
           UNCHANGED <<newId, mem, saved, pc, job, fails>>,
           disk' \in [Hosts -> Archive'], server' \in [Hosts -> [id : Nat, archive : Archive]],
           linked' \subseteq Hosts, forgone' \subseteq Hosts,
           own' \in [Hosts -> SUBSET (1..acts')]
    PROVE  TypeOK'
<1>1. acts' \in 0..MaxActs /\ acts <= acts'
  BY BoundAssumption DEF TypeOK
<1>2. /\ fails' \in 0..MaxFails /\ newId' \in Nat \ {0} /\ mem' \in [Processes -> State]
      /\ saved' \in [Hosts -> State] /\ pc' \in [Processes -> ControlPoint]
      /\ job' \in [Processes -> Job]
  BY DEF TypeOK
<1>3. QED
  BY <1>1, <1>2, Typed

\* Content there is was written.
LEMMA Written ==
    ASSUME TypeOK, NEW f \in Files, NEW n \in Nat, Somewhere(f, n)
    PROVE  n <= acts
<1>1. acts \in Nat
  BY BoundAssumption DEF TypeOK
<1>2. \A h \in Hosts : disk[h][f] \in Content /\ server[h].archive[f] \in Content
  BY DEF TypeOK, Archive
<1>3. \A q \in Processes : job[q].archive[f] \in Content
  BY Parts DEF Archive
<1>4. n \in Content
  BY <1>2, <1>3 DEF Somewhere
<1>5. QED
  BY <1>1, <1>4 DEF Content

\* The agent writes a content that was never there before.
LEMMA EditStep ==
    ASSUME Core, NEW h \in Hosts, Edit(h)
    PROVE  Core'
<1>1. /\ TypeOK /\ JobsSound /\ OwnSound
      /\ UNCHANGED <<server, newId, linked, mem, saved, pc, job, forgone, fails>>
      /\ acts < MaxActs /\ acts' = acts + 1 /\ acts \in Nat /\ acts' \in Nat
      /\ disk \in [Hosts -> Archive] /\ own \in [Hosts -> SUBSET (1..acts)]
  BY InvParts, BoundAssumption DEF Edit, Act, TypeOK
<1>2. PICK f \in Files : disk' = [disk EXCEPT ![h][f] = acts + 1]
  BY DEF Edit
<1>3. own' = [own EXCEPT ![h] = @ \cup {acts + 1}]
  BY DEF Edit
<1>4. /\ Archive \subseteq Archive' /\ acts + 1 \in Content'
      /\ SUBSET (1..acts) \subseteq SUBSET (1..acts') /\ acts + 1 \in 1..acts'
  <2>1. \A m \in Nat : m + 1 \in (-(m + 1))..(m + 1)
    OBVIOUS
  <2>2. acts + 1 \in Content'
    BY <1>1, <2>1 DEF Content
  <2>3. QED
    BY <1>1, <2>2, Grown
<1>5. /\ \A o \in Hosts \ {h} : disk'[o] = disk[o]
      /\ disk'[h] = [disk[h] EXCEPT ![f] = acts + 1]
      /\ disk'[h][f] = acts + 1 /\ \A g \in Files \ {f} : disk'[h][g] = disk[h][g]
  BY <1>1, <1>2 DEF Archive
<1>6. disk' \in [Hosts -> Archive']
  <2>1. disk[h] \in Archive' /\ [disk[h] EXCEPT ![f] = acts + 1] \in Archive'
    BY <1>1, <1>4 DEF Archive
  <2>2. QED
    BY <1>1, <1>2, <1>4, <2>1
<1>7. own' \in [Hosts -> SUBSET (1..acts')]
  BY <1>1, <1>3, <1>4
<1>8. TypeOK'
  BY <1>1, <1>6, <1>7, ActTyped DEF TypeOK
<1>9. JobsSound'
  BY <1>1 DEF JobsSound, PathsOf
<1>10. ASSUME NEW g \in Files, NEW n \in Nat, Somewhere(g, n)'
       PROVE  Somewhere(g, n) \/ (g = f /\ n = acts + 1)
  BY <1>1, <1>5, <1>10 DEF Somewhere
<1>11. ASSUME NEW o \in Hosts, NEW n \in own'[o]
       PROVE  n \in Nat /\ (n \in own[o] \/ (o = h /\ n = acts + 1))
  BY <1>1, <1>3, <1>11
<1>12. ASSUME NEW o \in Hosts, NEW g \in Files, disk'[o][g] = 0
       PROVE  disk[o][g] = 0 /\ ~(o = h /\ g = f)
  <2>1. acts + 1 # 0
    BY <1>1
  <2>2. ~(o = h /\ g = f)
    BY <1>5, <1>12, <2>1
  <2>3. disk'[o][g] = disk[o][g]
    BY <1>5, <2>2
  <2>4. QED
    BY <1>12, <2>2, <2>3
<1>13. ASSUME NEW o \in Hosts, NEW g \in Files, disk'[o][g] = 0, NEW n \in own'[o], Somewhere(g, n)'
       PROVE  FALSE
  <2>1. disk[o][g] = 0
    BY <1>13, <1>12
  <2>2. CASE n \in own[o]
    <3>1. n <= acts
      BY <1>1, <2>2
    <3>2. Somewhere(g, n)
      BY <1>1, <1>10, <1>11, <1>13, <3>1
    <3>3. QED
      BY <1>1, <2>1, <2>2, <3>2 DEF OwnSound
  <2>3. CASE o = h /\ n = acts + 1
    <3>1. g # f
      BY <1>13, <1>12, <2>3
    <3>2. n <= acts
      BY <1>10, <1>11, <1>13, <3>1, <1>1, Written
    <3>3. QED
      BY <1>1, <2>3, <3>2
  <2>4. QED
    BY <1>11, <1>13, <2>2, <2>3
<1>14. ASSUME NEW q \in Processes, pc'[q] = "writing", ~job'[q].force, NEW n \in own'[HostOf(q)],
              NEW g \in Files, g = job'[q].at, Somewhere(g, n)'
       PROVE  n > job'[q].since
  <2>1. HostOf(q) \in Hosts /\ job'[q] = job[q] /\ job[q].since \in 0..acts /\ pc[q] = "writing"
    BY <1>1, <1>14, Parts
  <2>2. CASE n = acts + 1
    BY <1>1, <2>1, <2>2
  <2>3. CASE n # acts + 1
    <3>1. n \in own[HostOf(q)] /\ Somewhere(g, n)
      BY <1>10, <1>11, <1>14, <2>1, <2>3
    <3>2. QED
      BY <1>1, <1>14, <2>1, <3>1 DEF OwnSound
  <2>4. QED
    BY <2>2, <2>3
<1>15. OwnSound'
  <2>1. \A q \in Processes : job'[q].at \in Files
    BY <1>1, Parts
  <2>2. ASSUME NEW q \in Processes, pc'[q] = "writing", ~job'[q].force, NEW n \in own'[HostOf(q)],
               \/ \E o \in Hosts : disk'[o][job'[q].at] = n \/ server'[o].archive[job'[q].at] = n
               \/ \E r \in Processes : job'[r].archive[job'[q].at] = n
        PROVE  n > job'[q].since
    <3>1. PICK g \in Files : g = job'[q].at
      BY <2>1
    <3>2. Somewhere(g, n)'
      BY <2>2, <3>1 DEF Somewhere
    <3>3. QED
      BY <1>14, <2>2, <3>1, <3>2
  <2>3. QED
    BY <1>13, <2>2 DEF OwnSound, Somewhere
<1>16. ASSUME NEW o \in Hosts PROVE HostOK(o)'
  <2>1. CASE o # h
    BY <1>1, <1>5, <1>8, <2>1, HostSame
  <2>2. CASE o = h
    <3>1. saved'[o].pushed \in Remembered(o) /\ server'[o].archive = server[o].archive
      BY <1>1 DEF Remembered
    <3>2. ASSUME NEW q \in ProcessesOf(o)
          PROVE  /\ mem'[q].pushed \in Remembered(o) \cup {NoFiles}
                 /\ job'[q].fp \in Seen(o) \cup {NoFiles, disk[o]}
                 /\ pc'[q] = pc[q] /\ job'[q] = job[q]
      BY <1>1 DEF Remembered, Seen
    <3>3. \A g \in Files : disk'[o][g] = disk[o][g] \/ disk'[o][g] = acts + 1
      BY <1>5, <2>2
    <3>4. \A q \in ProcessesOf(o) :
             /\ mem'[q].pushed \in Remembered(o) \cup {NoFiles}
             /\ pc'[q] = "pushed" => pc[q] = "pushed" /\ job'[q].fp = job[q].fp
             /\ job'[q].fp \in Seen(o) \cup {NoFiles, disk[o]}
             /\ pc'[q] = "packing" => \A g \in Files :
                   \/ /\ pc[q] = "packing" /\ job'[q].archive[g] = job[q].archive[g]
                      /\ g \in job'[q].todo \/ (g \notin job[q].todo /\ job'[q].fp = job[q].fp)
                   \/ g \in job'[q].todo /\ job'[q].archive[g] = 0
                   \/ disk'[o] = disk[o] /\ job'[q].archive[g] = disk[o][g]
      BY <3>2
    <3>5. QED
      BY <1>1, <1>8, <3>1, <3>3, <3>4, HostKept
  <2>3. QED
    BY <2>1, <2>2
<1>17. QED
  BY <1>8, <1>9, <1>15, <1>16, InvPartsNext

\* An act that adds nothing on one machine and its row.
LEMMA LessThere ==
    ASSUME Core, NEW h \in Hosts, acts < MaxActs, acts' = acts + 1,
           UNCHANGED <<newId, mem, saved, pc, job, fails>>, linked' \subseteq Hosts,
           disk' \in [Hosts -> Archive], server' \in [Hosts -> [id : Nat, archive : Archive]],
           own' \in [Hosts -> SUBSET (1..acts)],
           forgone \subseteq forgone', forgone' \subseteq Hosts,
           \A o \in Hosts \ {h} : disk'[o] = disk[o] /\ server'[o].archive = server[o].archive,
           h \notin forgone' => disk'[h] = disk[h] /\ server'[h].archive = server[h].archive,
           \A f \in Files : disk'[h][f] > 0 => Somewhere(f, disk'[h][f]),
           \A f \in Files : server'[h].archive[f] > 0 => Somewhere(f, server'[h].archive[f]),
           own'[h] = {} \/ disk'[h] = disk[h],
           \A o \in Hosts : own'[o] \subseteq own[o]
    PROVE  Core'
<1>1. /\ TypeOK /\ JobsSound /\ OwnSound /\ acts \in Nat /\ acts' \in Nat /\ acts <= acts'
      /\ h \in Processes /\ HostOf(h) = h
  BY InvParts, BoundAssumption, HostAssumption DEF TypeOK, Processes
<1>2. disk' \in [Hosts -> Archive'] /\ own' \in [Hosts -> SUBSET (1..acts')]
  BY <1>1, Grown
<1>3. TypeOK'
  BY <1>1, <1>2, ActTyped
<1>4. JobsSound'
  BY <1>1 DEF JobsSound, PathsOf
<1>5. \A f \in Files : job'[h].archive[f] > 0 => Somewhere(f, job'[h].archive[f])
  BY <1>1 DEF Somewhere
<1>6. \A f \in Files, n \in Nat \ {0} : Somewhere(f, n)' => Somewhere(f, n)
  BY <1>1, <1>5, NothingNew
<1>7. \A o \in Hosts : \A n \in own'[o] : n \in Nat \ {0}
  BY <1>2, <1>1
<1>8. ASSUME NEW o \in Hosts, NEW f \in Files, disk'[o][f] = 0, NEW n \in own'[o], Somewhere(f, n)'
      PROVE  FALSE
  <2>1. disk[o][f] = 0 /\ n \in own[o] /\ Somewhere(f, n)
    BY <1>6, <1>7, <1>8
  <2>2. QED
    BY <1>1, <2>1 DEF OwnSound
<1>9. ASSUME NEW q \in Processes, pc'[q] = "writing", ~job'[q].force, NEW n \in own'[HostOf(q)],
             NEW g \in Files, g = job'[q].at, Somewhere(g, n)'
      PROVE  n > job'[q].since
  <2>1. HostOf(q) \in Hosts /\ n \in own[HostOf(q)] /\ Somewhere(g, n)
    BY <1>1, <1>6, <1>7, <1>9, Parts
  <2>2. QED
    BY <1>1, <1>9, <2>1 DEF OwnSound
<1>10. OwnSound'
  <2>1. \A q \in Processes : job'[q].at \in Files
    BY <1>1, Parts
  <2>2. ASSUME NEW q \in Processes, pc'[q] = "writing", ~job'[q].force, NEW n \in own'[HostOf(q)],
               \/ \E o \in Hosts : disk'[o][job'[q].at] = n \/ server'[o].archive[job'[q].at] = n
               \/ \E r \in Processes : job'[r].archive[job'[q].at] = n
        PROVE  n > job'[q].since
    <3>1. PICK g \in Files : g = job'[q].at
      BY <2>1
    <3>2. Somewhere(g, n)'
      BY <2>2, <3>1 DEF Somewhere
    <3>3. QED
      BY <1>9, <2>2, <3>1, <3>2
  <2>3. QED
    BY <1>8, <2>2 DEF OwnSound, Somewhere
<1>11. ASSUME NEW o \in Hosts PROVE HostOK(o)'
  <2>1. saved'[o] = saved[o] /\ \A q \in ProcessesOf(o) : pc'[q] = pc[q] /\ job'[q] = job[q] /\ mem'[q] = mem[q]
    OBVIOUS
  <2>2. CASE o \in forgone'
    BY <2>2 DEF HostOK
  <2>3. CASE o \notin forgone'
    <3>1. disk'[o] = disk[o] /\ server'[o].archive = server[o].archive
      BY <2>3
    <3>2. QED
      BY <1>3, <2>1, <3>1, HostSame
  <2>4. QED
    BY <2>2, <2>3
<1>12. QED
  BY <1>3, <1>4, <1>10, <1>11, InvPartsNext

\* The user removes the session's files from a machine, which is forgone.
LEMMA ClearStep ==
    ASSUME Core, NEW h \in Hosts, Clear(h)
    PROVE  Core'
<1>1. /\ TypeOK /\ acts < MaxActs /\ acts' = acts + 1
      /\ UNCHANGED <<server, newId, linked, mem, saved, pc, job, fails>>
      /\ disk \in [Hosts -> Archive] /\ own \in [Hosts -> SUBSET (1..acts)]
      /\ server' \in [Hosts -> [id : Nat, archive : Archive]] /\ linked' \subseteq Hosts
      /\ forgone \subseteq Hosts /\ NoFiles \in Archive /\ \A f \in Files : NoFiles[f] = 0
  BY InvParts, Empty, BoundAssumption DEF Clear, Act, TypeOK
<1>2. /\ disk' \in [Hosts -> Archive] /\ disk'[h] = NoFiles
      /\ \A o \in Hosts \ {h} : disk'[o] = disk[o]
  BY <1>1 DEF Clear
<1>3. /\ own' \in [Hosts -> SUBSET (1..acts)] /\ own'[h] = {}
      /\ \A o \in Hosts : own'[o] \subseteq own[o]
  BY <1>1 DEF Clear
<1>4. forgone \subseteq forgone' /\ forgone' \subseteq Hosts /\ h \in forgone'
  BY <1>1 DEF Clear
<1>5. \A f \in Files : /\ disk'[h][f] > 0 => Somewhere(f, disk'[h][f])
                       /\ server'[h].archive[f] > 0 => Somewhere(f, server'[h].archive[f])
  BY <1>1, <1>2 DEF Somewhere
<1>6. QED
  BY <1>1, <1>2, <1>3, <1>4, <1>5, LessThere

\* The machine is linked no more.
LEMMA UnlinkStep ==
    ASSUME Core, NEW h \in Hosts, Unlink(h)
    PROVE  Core'
<1>1. /\ TypeOK /\ acts < MaxActs /\ acts' = acts + 1
      /\ UNCHANGED <<disk, server, newId, mem, saved, pc, job, forgone, own, fails>>
      /\ disk' \in [Hosts -> Archive] /\ own' \in [Hosts -> SUBSET (1..acts)]
      /\ server' \in [Hosts -> [id : Nat, archive : Archive]] /\ linked' \subseteq Hosts
      /\ forgone' \subseteq Hosts
  BY InvParts DEF Unlink, Act, TypeOK
<1>2. \A f \in Files : /\ disk'[h][f] > 0 => Somewhere(f, disk'[h][f])
                       /\ server'[h].archive[f] > 0 => Somewhere(f, server'[h].archive[f])
  BY <1>1 DEF Somewhere
<1>3. QED
  BY <1>1, <1>2, LessThere

\* A machine's row goes from the server, and the machine is forgone.
LEMMA DeleteStep ==
    ASSUME Core, NEW h \in Hosts, Delete(h)
    PROVE  Core'
<1>1. /\ TypeOK /\ acts < MaxActs /\ acts' = acts + 1
      /\ UNCHANGED <<disk, newId, linked, mem, saved, pc, job, own, fails>>
      /\ disk' \in [Hosts -> Archive] /\ own' \in [Hosts -> SUBSET (1..acts)]
      /\ server \in [Hosts -> [id : Nat, archive : Archive]] /\ linked' \subseteq Hosts
      /\ forgone \subseteq Hosts /\ NoFiles \in Archive /\ \A f \in Files : NoFiles[f] = 0
      /\ NoRow.archive = NoFiles
  BY InvParts, Empty, BoundAssumption DEF Delete, Act, TypeOK
<1>2. NoRow \in [id : Nat, archive : Archive]
  BY <1>1 DEF NoRow
<1>3. /\ server' \in [Hosts -> [id : Nat, archive : Archive]] /\ server'[h].archive = NoFiles
      /\ \A o \in Hosts \ {h} : server'[o] = server[o]
  BY <1>1, <1>2 DEF Delete
<1>4. forgone \subseteq forgone' /\ forgone' \subseteq Hosts /\ h \in forgone'
  BY <1>1 DEF Delete
<1>5. \A f \in Files : /\ disk'[h][f] > 0 => Somewhere(f, disk'[h][f])
                       /\ server'[h].archive[f] > 0 => Somewhere(f, server'[h].archive[f])
  BY <1>1, <1>3 DEF Somewhere
<1>6. QED
  BY <1>1, <1>3, <1>4, <1>5, LessThere

-----------------------------------------------------------------------------
(* The first part of the invariant.                                        *)

LEMMA InitCore ==
    ASSUME Init
    PROVE  Core
<1>1. /\ acts = 0 /\ acts \in Nat /\ MaxActs \in Nat /\ MaxFails \in Nat
      /\ NoFiles \in Archive /\ NoState \in State /\ NoJob \in Job
      /\ NoRow \in [id : Nat, archive : Archive]
      /\ \A f \in Files : NoFiles[f] = 0
      /\ NoJob.fp = NoFiles /\ NoState.pushed = NoFiles /\ NoJob.archive = NoFiles
  BY Empty, BoundAssumption DEF Init, NoRow
<1>2. "idle" \in ControlPoint
  BY DEF ControlPoint
<1>3. TypeOK
  BY <1>1, <1>2 DEF Init, TypeOK
<1>4. \A q \in Processes : pc[q] = "idle" /\ job[q] = NoJob /\ mem[q] = NoState
  BY DEF Init
<1>5. JobsSound
  BY <1>4 DEF JobsSound
<1>6. \A h \in Hosts : own[h] = {} /\ disk[h] = NoFiles /\ saved[h] = NoState
  BY DEF Init
<1>7. OwnSound
  BY <1>4, <1>6 DEF OwnSound
<1>8. ASSUME NEW h \in Hosts PROVE HostOK(h)
  <2>1. \A q \in ProcessesOf(h) : pc[q] = "idle" /\ job[q] = NoJob /\ mem[q] = NoState
    BY <1>4 DEF ProcessesOf
  <2>2. \A m \in Seen(h) : m = NoFiles
    BY <1>1, <1>6, <2>1 DEF Seen, Remembered, Packing
  <2>3. Packing(h) = {}
    BY <2>1 DEF Packing
  <2>4. QED
    BY <1>1, <1>6, <2>2, <2>3, MainAssumption DEF HostOK
<1>9. QED
  BY <1>3, <1>5, <1>7, <1>8, InvParts

\* Every step keeps this part of the invariant.
LEMMA NextCore ==
    ASSUME Core, [Next]_vars
    PROVE  Core'
<1>1. CASE UNCHANGED vars
  BY <1>1 DEF vars, Core, TypeOK, JobsSound, OwnSound, SeenThere, PackedSound, PushedIsServed,
              Somewhere, Seen, Remembered, Packing, ProcessesOf, PathsOf, Archive, Content,
              State, Job, ControlPoint
<1>2. ASSUME NEW q \in Processes, Run(q)
      PROVE  Core'
  BY <1>2, DetectStep, PackStep, PushStep, RememberStep, ListStep, DownloadStep, LookStep,
     WriteStep, RestoredStep, SaveStep DEF Run
<1>3. ASSUME NEW q \in Processes, StartPush(q) \/ Link(q) \/ Pull(q) \/ Fail(q) \/ Restart(q)
      PROVE  Core'
  BY <1>3, StartPushStep, LinkStep, PullStep, FailStep, RestartStep
<1>4. ASSUME NEW h \in Hosts, Edit(h) \/ Clear(h) \/ Unlink(h) \/ Delete(h)
      PROVE  Core'
  BY <1>4, EditStep, ClearStep, UnlinkStep, DeleteStep
<1>5. QED
  BY <1>1, <1>2, <1>3, <1>4 DEF Next

-----------------------------------------------------------------------------
(* What has arrived: the last three parts of the invariant.                *)

\* What they say of a process at `where` with the job j.
Holds(q, where, j) ==
    /\ 0 \notin j.list
    /\ where = "packing" => Main \in j.todo \/ j.archive[Main] # 0
    /\ where \in {"unpacking", "writing"} => j.archive[Main] # 0
    /\ HostOf(q) \notin forgone =>
          /\ where = "unpacking" =>
                \A f \in Files \ j.todo : j.archive[f] # 0 => disk[HostOf(q)][f] # 0
          /\ where = "writing" =>
                \A f \in Files \ (j.todo \cup {j.at}) : j.archive[f] # 0 => disk[HostOf(q)][f] # 0

\* What they say of a row.
RowHolds(h) == server[h] # NoRow => server[h].id # 0 /\ server[h].archive[Main] # 0

\* What they say of a machine's marks.
MarksHold(h) == h \notin forgone => Marked(h) = {} \/ disk[h][Main] # 0

Arrived ==
    /\ \A h \in Hosts : RowHolds(h) /\ MarksHold(h)
    /\ \A q \in Processes : Holds(q, pc[q], job[q])

\* They are the parts of the invariant that Core leaves out.
LEMMA ArrivedParts == IInv <=> Core /\ Arrived
<1>1. MainThere <=> /\ \A h \in Hosts : RowHolds(h)
                    /\ \A q \in Processes :
                          /\ 0 \notin job[q].list
                          /\ pc[q] = "packing" => Main \in job[q].todo \/ job[q].archive[Main] # 0
                          /\ pc[q] \in {"unpacking", "writing"} => job[q].archive[Main] # 0
  BY DEF MainThere, RowHolds
<1>2. RestoredThere <=> \A h \in Hosts : MarksHold(h)
  BY DEF RestoredThere, MarksHold
<1>3. UnpackedThere <=> \A q \in Processes : HostOf(q) \notin forgone =>
          /\ pc[q] = "unpacking" =>
                \A f \in Files \ job[q].todo : job[q].archive[f] # 0 => disk[HostOf(q)][f] # 0
          /\ pc[q] = "writing" =>
                \A f \in Files \ (job[q].todo \cup {job[q].at}) :
                   job[q].archive[f] # 0 => disk[HostOf(q)][f] # 0
  BY HostAssumption DEF UnpackedThere, ProcessesOf, PathsOf, Processes
<1>4. QED
  BY <1>1, <1>2, <1>3 DEF IInv, Core, Arrived, Holds

\* The same for the next state, in the direction the steps need.
LEMMA ArrivedPartsNext ==
    ASSUME Core', Arrived'
    PROVE  IInv'
  BY ArrivedParts, PTL

\* A step of a process: files come and none go, but on a machine that is
\* forgone, and what the process marks is there.
LEMMA ArrivedStep ==
    ASSUME TypeOK, Arrived, NEW q \in Processes, NEW where \in ControlPoint, Goto(q, where),
           NEW j \in Job, Do(q, j), Holds(q, where, j)', forgone \subseteq forgone',
           \A h \in Hosts : server'[h] = server[h] \/ RowHolds(h)',
           \A h \in Hosts \ {HostOf(q)} : disk'[h] = disk[h] /\ saved'[h] = saved[h],
           \A f \in Files : disk[HostOf(q)][f] # 0 => disk'[HostOf(q)][f] # 0,
           \A o \in Processes \ {q} : mem'[o] = mem[o],
           saved'[HostOf(q)].restored \subseteq saved[HostOf(q)].restored \cup mem[q].restored,
           \/ mem'[q].restored \subseteq saved[HostOf(q)].restored \cup mem[q].restored
           \/ HostOf(q) \in forgone' \/ disk'[HostOf(q)][Main] # 0
    PROVE  Arrived'
<1>1. /\ HostOf(q) \in Hosts /\ q \in ProcessesOf(HostOf(q))
      /\ pc'[q] = where /\ job'[q] = j
      /\ \A o \in Processes \ {q} : pc'[o] = pc[o] /\ job'[o] = job[o]
  BY Parts, Moved
<1>2. \A h \in Hosts, f \in Files : disk[h][f] # 0 => disk'[h][f] # 0
  BY <1>1
<1>3. ASSUME NEW h \in Hosts PROVE RowHolds(h)'
  BY <1>3 DEF Arrived, RowHolds, NoRow, NoFiles
<1>4. ASSUME NEW h \in Hosts, h \notin forgone', disk'[h][Main] = 0
      PROVE  Marked(h)' = {}
  <2>1. Marked(h) = {}
    BY <1>2, <1>4, MainAssumption DEF Arrived, MarksHold
  <2>2. saved[h].restored = {} /\ \A o \in ProcessesOf(h) : mem[o].restored = {}
    BY <2>1 DEF Marked
  <2>3. CASE h # HostOf(q)
    <3>1. \A o \in ProcessesOf(h) : o \in Processes \ {q}
      BY <2>3 DEF ProcessesOf
    <3>2. saved'[h].restored = {} /\ \A o \in ProcessesOf(h) : mem'[o].restored = {}
      BY <2>2, <2>3, <3>1
    <3>3. QED
      BY <3>2 DEF Marked, ProcessesOf
  <2>4. CASE h = HostOf(q)
    <3>1. mem[q].restored = {} /\ saved'[h].restored = {} /\ mem'[q].restored = {}
      BY <1>1, <1>4, <2>2, <2>4
    <3>2. \A o \in ProcessesOf(h) : mem'[o].restored = {}
      BY <2>2, <3>1 DEF ProcessesOf
    <3>3. QED
      BY <3>1, <3>2 DEF Marked, ProcessesOf
  <2>5. QED
    BY <2>3, <2>4
<1>5. ASSUME NEW o \in Processes PROVE Holds(o, pc[o], job[o])'
  <2>1. CASE o = q
    BY <1>1, <2>1 DEF Holds
  <2>2. CASE o # q
    <3>1. pc'[o] = pc[o] /\ job'[o] = job[o] /\ HostOf(o) \in Hosts /\ Holds(o, pc[o], job[o])
      BY <1>1, <2>2, Parts DEF Arrived
    <3>2. QED
      BY <1>2, <3>1 DEF Holds
  <2>3. QED
    BY <2>1, <2>2
<1>6. QED
  BY <1>3, <1>4, <1>5 DEF Arrived, MarksHold

\* ... that writes no file, takes no answer and marks nothing.
LEMMA QuietArrived ==
    ASSUME TypeOK, Arrived, NEW q \in Processes, NEW where \in ControlPoint, Goto(q, where),
           NEW j \in Job, Do(q, j), Holds(q, where, j), UNCHANGED <<disk, server, saved, forgone>>,
           \A o \in Processes \ {q} : mem'[o] = mem[o],
           mem'[q].restored \subseteq saved[HostOf(q)].restored \cup mem[q].restored
    PROVE  Arrived'
<1>1. Holds(q, where, j)'
  BY DEF Holds
<1>2. QED
  BY <1>1, ArrivedStep

\* A process where it neither packs nor unpacks holds no more than a list.
LEMMA ListHolds ==
    ASSUME NEW q \in Processes, NEW where \in {"idle", "pushed", "listing", "restoring", "saving"},
           NEW j \in Job, 0 \notin j.list
    PROVE  Holds(q, where, j) /\ Holds(q, where, j)' /\ where \in ControlPoint
  BY DEF Holds, ControlPoint

\* The jobs the steps set.
LEMMA Jobs ==
    ASSUME TypeOK, NEW q \in Processes
    PROVE  /\ NoJob \in Job /\ NoJob.list = {} /\ NoJob.id = 0
           /\ [NoJob EXCEPT !.fp = job[q].fp] \in Job
           /\ [NoJob EXCEPT !.fp = job[q].fp].list = {}
           /\ [NoJob EXCEPT !.list = job[q].list] \in Job
           /\ [NoJob EXCEPT !.list = job[q].list].list = job[q].list
           /\ \A id : /\ [job[q] EXCEPT !.list = @ \ {id}] \in Job
                      /\ [job[q] EXCEPT !.list = @ \ {id}].list = job[q].list \ {id}
<1>1. /\ NoJob \in Job /\ NoJob.list = {} /\ NoJob.id = 0
      /\ job[q] \in Job /\ job[q].fp \in Archive /\ job[q].list \subseteq Nat
  BY Empty, Parts DEF NoJob
<1>2. /\ [NoJob EXCEPT !.fp = job[q].fp] \in Job
      /\ [NoJob EXCEPT !.fp = job[q].fp].list = {}
  BY <1>1 DEF Job
<1>3. /\ [NoJob EXCEPT !.list = job[q].list] \in Job
      /\ [NoJob EXCEPT !.list = job[q].list].list = job[q].list
  BY <1>1 DEF Job
<1>4. ASSUME NEW id
      PROVE  /\ [job[q] EXCEPT !.list = @ \ {id}] \in Job
             /\ [job[q] EXCEPT !.list = @ \ {id}].list = job[q].list \ {id}
  BY <1>1 DEF Job
<1>5. QED
  BY <1>1, <1>2, <1>3, <1>4

\* What is packed has the file the session was detected by.
LEMMA StartsPackingArrived ==
    ASSUME TypeOK, Arrived, NEW q \in Processes, NEW found, found = disk[HostOf(q)],
           found[Main] # 0,
           Goto(q, "packing"), Do(q, [NoJob EXCEPT !.fp = found, !.todo = PathsOf(found)]),
           UNCHANGED <<disk, server, saved, mem, forgone>>
    PROVE  Arrived'
<1> DEFINE j == [NoJob EXCEPT !.fp = found, !.todo = PathsOf(found)]
<1>1. NoJob \in Job /\ NoJob.list = {} /\ found \in Archive
  BY Jobs, Parts
<1>2. j \in Job /\ j.list = {} /\ j.todo = PathsOf(found) /\ Do(q, j)
  BY <1>1 DEF Job, PathsOf
<1> HIDE DEF j
<1>3. "packing" \in ControlPoint /\ Holds(q, "packing", j)
  BY <1>2, MainAssumption DEF ControlPoint, Holds, PathsOf
<1>4. QED
  BY <1>2, <1>3, QuietArrived

\* The steps of the push pass, but for the answer of the server.
LEMMA PackArrived ==
    ASSUME TypeOK, Arrived, NEW q \in Processes,
           Detect(q) \/ StartPush(q) \/ (\E f \in Files : Pack(q, f)) \/ Remember(q)
    PROVE  Arrived'
<1>1. /\ UNCHANGED <<disk, server, saved, forgone>>
      /\ HostOf(q) \in Hosts /\ job[q] \in Job /\ disk[HostOf(q)] \in Archive
      /\ 0 \notin job[q].list /\ Holds(q, pc[q], job[q])
  BY Parts DEF Detect, StartPush, Pack, Remember, Arrived, Holds
<1>2. CASE Detect(q)
  <2>1. HostOf(q) = q /\ UNCHANGED mem
    BY <1>2, HostAssumption DEF Detect
  <2>2. CASE Goto(q, "listing") /\ Do(q, [NoJob EXCEPT !.fp = disk[q]])
    <3>1. /\ [NoJob EXCEPT !.fp = disk[q]] \in Job /\ [NoJob EXCEPT !.fp = disk[q]].list = {}
      BY <1>1, <2>1, Jobs DEF Job
    <3>2. QED
      BY <1>1, <2>1, <2>2, <3>1, ListHolds, QuietArrived
  <2>3. CASE /\ disk[q][Main] # 0 /\ Goto(q, "packing")
             /\ Do(q, [NoJob EXCEPT !.fp = disk[q], !.todo = PathsOf(disk[q])])
    BY <1>1, <2>1, <2>3, StartsPackingArrived
  <2>4. QED
    BY <1>2, <2>2, <2>3 DEF Detect
<1>3. CASE StartPush(q)
  BY <1>1, <1>3, StartsPackingArrived DEF StartPush
<1>4. ASSUME NEW f \in Files, Pack(q, f)
      PROVE  Arrived'
  <2>1. pc[q] = "packing" /\ UNCHANGED mem
    BY <1>4 DEF Pack
  <2>2. CASE Goto(q, AfterPush(q)) /\ Do(q, [NoJob EXCEPT !.fp = job[q].fp])
    <3>1. PICK where \in {"idle", "pushed", "listing", "restoring", "saving"} : Goto(q, where)
      BY <2>2 DEF AfterPush
    <3>2. PICK j \in Job : Do(q, j) /\ j.list = {}
      BY <2>2, Jobs
    <3>3. QED
      BY <1>1, <2>1, <3>1, <3>2, ListHolds, QuietArrived
  <2>3. CASE /\ disk[HostOf(q)][f] # 0 /\ UNCHANGED pc
             /\ Do(q, [job[q] EXCEPT !.archive[f] = disk[HostOf(q)][f], !.todo = @ \ {f}])
    <3> DEFINE j == [job[q] EXCEPT !.archive[f] = disk[HostOf(q)][f], !.todo = @ \ {f}]
    <3>1. disk[HostOf(q)][f] \in Content /\ job[q].archive \in Archive
      BY <1>1, Parts DEF Archive
    <3>2. /\ j \in Job /\ j.list = job[q].list /\ j.todo = job[q].todo \ {f}
          /\ j.archive = [job[q].archive EXCEPT ![f] = disk[HostOf(q)][f]]
      BY <1>1, <3>1 DEF Job, Archive
    <3>3. Do(q, j) /\ Goto(q, "packing") /\ "packing" \in ControlPoint
      BY <2>1, <2>3, Stays DEF ControlPoint
    <3> HIDE DEF j
    <3>4. Main \in j.todo \/ j.archive[Main] # 0
      BY <1>1, <2>1, <2>3, <3>1, <3>2, MainAssumption DEF Archive, Holds
    <3>5. Holds(q, "packing", j)
      BY <1>1, <3>2, <3>4 DEF Holds
    <3>6. QED
      BY <1>1, <2>1, <3>2, <3>3, <3>5, QuietArrived
  <2>4. QED
    BY <1>4, <2>2, <2>3 DEF Pack
<1>5. CASE Remember(q)
  <2>1. Goto(q, "listing") /\ Do(q, job[q])
    BY <1>5, Stays DEF Remember
  <2>2. /\ \A o \in Processes \ {q} : mem'[o] = mem[o]
        /\ mem'[q].restored = mem[q].restored
    BY <1>5, Parts DEF Remember, TypeOK, State
  <2>3. QED
    BY <1>1, <2>1, <2>2, ListHolds, QuietArrived
<1>6. QED
  BY <1>2, <1>3, <1>4, <1>5

\* A row that is put has the file the session was detected by, and an id.
LEMMA PushArrived ==
    ASSUME TypeOK, Arrived, NEW q \in Processes, Push(q)
    PROVE  Arrived'
<1>1. /\ UNCHANGED <<disk, saved, mem>> /\ HostOf(q) \in Hosts
      /\ forgone \subseteq forgone'
      /\ server \in [Hosts -> [id : Nat, archive : Archive]] /\ newId \in Nat \ {0}
      /\ job[q].archive[Main] # 0
  BY Parts DEF Push, TypeOK, Arrived, Holds
<1>2. PICK where \in {"idle", "pushed", "listing", "restoring", "saving"} : Goto(q, where)
  BY DEF Push
<1>3. PICK j \in Job : Do(q, j) /\ j.list = {}
  BY Jobs DEF Push
<1>4. ASSUME NEW h \in Hosts PROVE server'[h] = server[h] \/ RowHolds(h)'
  <2>1. CASE server[HostOf(q)] = NoRow
    BY <1>1, <2>1 DEF Push, RowHolds
  <2>2. CASE server[HostOf(q)] # NoRow
    <3>1. server[HostOf(q)].id # 0
      BY <1>1, <2>2 DEF Arrived, RowHolds
    <3>2. QED
      BY <1>1, <2>2, <3>1 DEF Push, RowHolds
  <2>3. QED
    BY <2>1, <2>2
<1>5. Holds(q, where, j)' /\ where \in ControlPoint
  BY <1>3, ListHolds
<1>6. QED
  BY <1>1, <1>2, <1>3, <1>4, <1>5, ArrivedStep

\* What is unpacked comes from a row.
LEMMA UnpackArrived ==
    ASSUME TypeOK, Arrived, NEW q \in Processes, NEW h \in Hosts, server[h] # NoRow,
           NEW j \in Job, j.archive = server[h].archive, j.todo = PathsOf(server[h].archive),
           0 \notin j.list, Goto(q, "unpacking"), Do(q, j),
           UNCHANGED <<disk, server, saved, mem, forgone>>
    PROVE  Arrived'
<1>1. Holds(q, "unpacking", j) /\ "unpacking" \in ControlPoint
  BY DEF Arrived, RowHolds, Holds, PathsOf, ControlPoint
<1>2. QED
  BY <1>1, QuietArrived

\* The commands link and pull, and the list of what is to be restored.
LEMMA ListArrived ==
    ASSUME TypeOK, Arrived, NEW q \in Processes, Link(q) \/ Pull(q) \/ List(q)
    PROVE  Arrived'
<1>1. /\ UNCHANGED <<disk, server, saved, forgone>> /\ HostOf(q) \in Hosts
      /\ job[q] \in Job /\ 0 \notin job[q].list
  BY Parts DEF Link, Pull, List, Arrived, Holds
<1>2. CASE Link(q)
  <2>1. Goto(q, "listing") /\ Do(q, job[q])
    BY <1>2, Stays DEF Link
  <2>2. /\ \A o \in Processes \ {q} : mem'[o] = mem[o]
        /\ mem'[q] = saved[HostOf(q)]
    BY <1>2 DEF Link, TypeOK
  <2>3. QED
    BY <1>1, <2>1, <2>2, ListHolds, QuietArrived
<1>3. CASE Pull(q)
  <2>1. PICK h \in Hosts, force \in BOOLEAN :
           /\ server[h] # NoRow
           /\ Do(q, [NoJob EXCEPT !.force = force, !.archive = server[h].archive,
                                  !.todo = PathsOf(server[h].archive)])
    BY <1>3 DEF Pull
  <2> DEFINE j == [NoJob EXCEPT !.force = force, !.archive = server[h].archive,
                                !.todo = PathsOf(server[h].archive)]
  <2>2. /\ j \in Job /\ j.list = {} /\ j.archive = server[h].archive
        /\ j.todo = PathsOf(server[h].archive)
    BY Jobs DEF TypeOK, Job, PathsOf
  <2>3. Do(q, j) /\ Goto(q, "unpacking") /\ UNCHANGED mem
    BY <1>3, <2>1 DEF Pull
  <2> HIDE DEF j
  <2>4. QED
    BY <1>1, <2>1, <2>2, <2>3, UnpackArrived
<1>4. CASE List(q)
  <2>1. CASE Do(q, NoJob) /\ Goto(q, "saving")
    BY <1>1, <1>4, <2>1, Jobs, ListHolds, QuietArrived DEF List
  <2>2. ASSUME NEW list \in SUBSET (Nat \ {0}), Do(q, [NoJob EXCEPT !.list = list]),
               Goto(q, "restoring")
        PROVE  Arrived'
    <3>1. [NoJob EXCEPT !.list = list] \in Job /\ [NoJob EXCEPT !.list = list].list = list
      BY Jobs DEF Job
    <3>2. PICK j \in Job : Do(q, j) /\ 0 \notin j.list
      BY <2>2, <3>1
    <3>3. QED
      BY <1>1, <1>4, <2>2, <3>2, ListHolds, QuietArrived DEF List
  <2>3. \A o \in Hosts : server[o] # NoRow => server[o].id \in Nat \ {0}
    BY DEF TypeOK, Arrived, RowHolds
  <2>4. {server[h].id : h \in {o \in Hosts \ {HostOf(q)} : server[o] # NoRow}} \ mem[q].restored
           \in SUBSET (Nat \ {0})
    BY <2>3
  <2>5. QED
    BY <1>4, <2>1, <2>2, <2>4 DEF List
<1>5. QED
  BY <1>2, <1>3, <1>4

\* A session that is listed has a row, or has been deleted since.
LEMMA DownloadArrived ==
    ASSUME TypeOK, Arrived, NEW q \in Processes, Download(q)
    PROVE  Arrived'
<1>1. /\ UNCHANGED <<disk, server, saved, mem, forgone>> /\ pc[q] = "restoring"
      /\ job[q] \in Job /\ 0 \notin job[q].list /\ job[q].list \subseteq Nat
  BY Parts DEF Download, Arrived, Holds
<1>2. PICK id \in job[q].list :
         \/ \E h \in Hosts :
               /\ server[h].id = id
               /\ Do(q, [[job[q] EXCEPT !.list = @ \ {id}] EXCEPT
                            !.id = id, !.archive = server[h].archive,
                            !.todo = PathsOf(server[h].archive)])
               /\ Goto(q, "unpacking")
         \/ Do(q, [job[q] EXCEPT !.list = @ \ {id}]) /\ UNCHANGED pc
  BY DEF Download
<1>3. PICK k \in Job : k = [job[q] EXCEPT !.list = @ \ {id}] /\ 0 \notin k.list
  BY <1>1, Jobs
<1>4. CASE Do(q, k) /\ UNCHANGED pc
  <2>1. Goto(q, "restoring")
    BY <1>1, <1>4, Stays
  <2>2. QED
    BY <1>1, <1>3, <1>4, <2>1, ListHolds, QuietArrived
<1>5. ASSUME NEW h \in Hosts, server[h].id = id, Goto(q, "unpacking"),
             Do(q, [k EXCEPT !.id = id, !.archive = server[h].archive,
                             !.todo = PathsOf(server[h].archive)])
      PROVE  Arrived'
  <2> DEFINE j == [k EXCEPT !.id = id, !.archive = server[h].archive,
                            !.todo = PathsOf(server[h].archive)]
  <2>1. server[h].archive \in Archive /\ id \in Nat /\ server[h] # NoRow
    BY <1>1, <1>5 DEF TypeOK, NoRow
  <2>2. /\ j \in Job /\ j.archive = server[h].archive /\ j.todo = PathsOf(server[h].archive)
        /\ j.list = k.list
    BY <1>3, <2>1 DEF Job, PathsOf
  <2>3. Do(q, j)
    BY <1>5
  <2> HIDE DEF j
  <2>4. QED
    BY <1>1, <1>3, <1>5, <2>1, <2>2, <2>3, UnpackArrived
<1>6. QED
  BY <1>2, <1>3, <1>4, <1>5

\* A file is left out where there is one already.
LEMMA LookArrived ==
    ASSUME TypeOK, Arrived, NEW q \in Processes, NEW f \in Files, Look(q, f)
    PROVE  Arrived'
<1>1. /\ UNCHANGED <<disk, server, saved, mem, forgone>> /\ pc[q] = "unpacking"
      /\ job[q] \in Job /\ Holds(q, "unpacking", job[q]) /\ acts \in 0..acts
  BY Parts DEF Look, Arrived
<1> DEFINE k == [job[q] EXCEPT !.todo = @ \ {f}]
           j == [k EXCEPT !.at = f, !.since = acts]
<1>2. /\ k \in Job /\ k.archive = job[q].archive /\ k.list = job[q].list
      /\ k.todo = job[q].todo \ {f}
  BY <1>1 DEF Job
<1>3. CASE Skips(q, f) /\ Do(q, k) /\ UNCHANGED pc
  <2> HIDE DEF k
  <2>1. Goto(q, "unpacking") /\ "unpacking" \in ControlPoint
    BY <1>1, <1>3, Stays DEF ControlPoint
  <2>2. Holds(q, "unpacking", k)
    BY <1>1, <1>2, <1>3 DEF Holds, Skips
  <2>3. QED
    BY <1>1, <1>2, <1>3, <2>1, <2>2, QuietArrived
<1>4. CASE Do(q, j) /\ Goto(q, "writing")
  <2> HIDE DEF k
  <2>1. /\ j \in Job /\ j.archive = k.archive /\ j.list = k.list /\ j.todo = k.todo /\ j.at = f
    BY <1>1, <1>2 DEF Job
  <2>2. Do(q, j)
    BY <1>4
  <2> HIDE DEF j
  <2>3. Holds(q, "writing", j) /\ "writing" \in ControlPoint
    BY <1>1, <1>2, <2>1 DEF Holds, ControlPoint
  <2>4. QED
    BY <1>1, <1>4, <2>1, <2>2, <2>3, QuietArrived
<1>5. QED
  BY <1>3, <1>4 DEF Look

\* A file that is written is there afterwards.
LEMMA WriteArrived ==
    ASSUME Core, Arrived, NEW q \in Processes, Write(q)
    PROVE  Arrived'
<1>1. /\ TypeOK /\ UNCHANGED <<server, saved, mem>> /\ pc[q] = "writing"
      /\ job[q] \in Job /\ job[q].at \in Files /\ job[q].archive \in Archive
      /\ HostOf(q) \in Hosts /\ disk[HostOf(q)] \in Archive
      /\ Holds(q, "writing", job[q])
      /\ Goto(q, "unpacking") /\ Do(q, job[q]) /\ "unpacking" \in ControlPoint
  BY InvParts, Parts, Stays DEF Write, ControlPoint, Arrived
<1>2. job[q].archive[job[q].at] \in Content \ {0}
  BY <1>1, InvParts DEF JobsSound, Archive
<1>3. PutFile(q, job[q].archive[job[q].at])
  BY DEF Write
<1>4. /\ \A h \in Hosts \ {HostOf(q)} : disk'[h] = disk[h]
      /\ disk'[HostOf(q)] = [disk[HostOf(q)] EXCEPT ![job[q].at] = job[q].archive[job[q].at]]
      /\ forgone \subseteq forgone'
  BY <1>1, <1>3 DEF PutFile, TypeOK
<1>5. /\ disk'[HostOf(q)][job[q].at] # 0
      /\ \A f \in Files \ {job[q].at} : disk'[HostOf(q)][f] = disk[HostOf(q)][f]
  BY <1>1, <1>2, <1>4 DEF Archive
<1>6. PICK j \in Job : j = job[q]
  BY <1>1
<1>7. Holds(q, "unpacking", j)'
  <2>1. 0 \notin j.list /\ j.archive[Main] # 0
    BY <1>1, <1>6 DEF Holds
  <2>2. ASSUME HostOf(q) \notin forgone', NEW f \in Files \ j.todo, j.archive[f] # 0
        PROVE  disk'[HostOf(q)][f] # 0
    BY <1>1, <1>4, <1>5, <1>6, <2>2 DEF Holds
  <2>3. QED
    BY <2>1, <2>2 DEF Holds
<1>8. \A f \in Files : disk[HostOf(q)][f] # 0 => disk'[HostOf(q)][f] # 0
  BY <1>5
<1>9. QED
  BY <1>1, <1>4, <1>6, <1>7, <1>8, ArrivedStep

\* What is marked has been unpacked to its end.
LEMMA RestoredArrived ==
    ASSUME TypeOK, Arrived, NEW q \in Processes, Restored(q)
    PROVE  Arrived'
<1>1. /\ UNCHANGED <<disk, server, saved, forgone>> /\ pc[q] = "unpacking" /\ job[q].todo = {}
      /\ 0 \notin job[q].list /\ Holds(q, "unpacking", job[q]) /\ HostOf(q) \in Hosts
  BY Parts DEF Restored, Unpacked, Arrived, Holds
<1>2. HostOf(q) \in forgone' \/ disk'[HostOf(q)][Main] # 0
  BY <1>1, MainAssumption DEF Holds
<1>3. \A o \in Processes \ {q} : mem'[o] = mem[o]
  BY DEF Restored, TypeOK
<1>4. PICK where \in {"idle", "pushed", "listing", "restoring", "saving"} : Goto(q, where)
  BY DEF Restored
<1>5. PICK j \in Job : Do(q, j) /\ 0 \notin j.list
  BY <1>1, Jobs DEF Restored
<1>6. Holds(q, where, j)' /\ where \in ControlPoint
  BY <1>5, ListHolds
<1>7. saved'[HostOf(q)].restored \subseteq saved[HostOf(q)].restored \cup mem[q].restored
  BY <1>1
<1>8. QED
  BY <1>1, <1>2, <1>3, <1>4, <1>5, <1>6, <1>7, ArrivedStep

\* The end of a pass hands the marks on.
LEMMA SaveArrived ==
    ASSUME TypeOK, Arrived, NEW q \in Processes, Save(q)
    PROVE  Arrived'
<1>1. /\ UNCHANGED <<disk, server, forgone>> /\ HostOf(q) \in Hosts
      /\ saved \in [Hosts -> State] /\ mem \in [Processes -> State]
      /\ Goto(q, "idle") /\ Do(q, NoJob) /\ NoJob \in Job /\ NoJob.list = {}
  BY Parts, Jobs DEF Save, TypeOK
<1>2. /\ \A h \in Hosts \ {HostOf(q)} : saved'[h] = saved[h]
      /\ saved'[HostOf(q)] = mem[q]
  BY <1>1 DEF Save
<1>3. /\ \A o \in Processes \ {q} : mem'[o] = mem[o]
      /\ mem'[q] = mem[q] \/ mem'[q].restored = {}
  BY <1>1 DEF Save, NoState
<1>4. Holds(q, "idle", NoJob)' /\ "idle" \in ControlPoint
  BY <1>1, ListHolds
<1>5. /\ saved'[HostOf(q)].restored \subseteq saved[HostOf(q)].restored \cup mem[q].restored
      /\ mem'[q].restored \subseteq saved[HostOf(q)].restored \cup mem[q].restored
  BY <1>2, <1>3
<1>6. \A f \in Files : disk[HostOf(q)][f] # 0 => disk'[HostOf(q)][f] # 0
  BY <1>1
<1>7. QED
  BY <1>1, <1>2, <1>3, <1>4, <1>5, <1>6, ArrivedStep

\* A file that is cut short is there, and what fails marks nothing.
LEMMA FailArrived ==
    ASSUME Core, Arrived, NEW q \in Processes, Fail(q) \/ Restart(q)
    PROVE  Arrived'
<1>1. /\ TypeOK /\ UNCHANGED <<server, saved>> /\ CutShort(q) /\ HostOf(q) \in Hosts
      /\ 0 \notin job[q].list
  BY InvParts, Parts DEF Fail, Restart, Arrived, Holds
<1>2. /\ forgone \subseteq forgone' /\ \A h \in Hosts \ {HostOf(q)} : disk'[h] = disk[h]
      /\ \A f \in Files : disk[HostOf(q)][f] # 0 => disk'[HostOf(q)][f] # 0
  BY <1>1, Cut
<1>3. /\ \A o \in Processes \ {q} : mem'[o] = mem[o]
      /\ mem'[q].restored \subseteq saved[HostOf(q)].restored \cup mem[q].restored
  <2>1. CASE Fail(q)
    BY <2>1 DEF Fail
  <2>2. CASE Restart(q)
    <3>1. /\ \A o \in Processes \ {q} : mem'[o] = mem[o]
          /\ mem'[q] \in {saved[HostOf(q)], NoState}
      BY <1>1, <2>2, HostAssumption DEF Restart, TypeOK
    <3>2. QED
      BY <3>1 DEF NoState
  <2>3. QED
    BY <2>1, <2>2
<1>4. PICK where \in {"idle", "pushed", "listing", "restoring", "saving"} : Goto(q, where)
  <2>1. CASE Restart(q)
    BY <2>1 DEF Restart
  <2>2. CASE Fail(q) /\ pc[q] = "restoring" /\ UNCHANGED pc
    BY <1>1, <2>2, Stays
  <2>3. CASE Fail(q) /\ ~(pc[q] = "restoring" /\ UNCHANGED pc)
    BY <2>3 DEF Fail, AfterPush
  <2>4. QED
    BY <2>1, <2>2, <2>3
<1>5. PICK j \in Job : Do(q, j) /\ 0 \notin j.list
  <2>1. /\ NoJob \in Job /\ 0 \notin NoJob.list
        /\ [NoJob EXCEPT !.fp = job[q].fp] \in Job
        /\ 0 \notin [NoJob EXCEPT !.fp = job[q].fp].list
        /\ [NoJob EXCEPT !.list = job[q].list] \in Job
        /\ 0 \notin [NoJob EXCEPT !.list = job[q].list].list
        /\ \A id : /\ [job[q] EXCEPT !.list = @ \ {id}] \in Job
                   /\ 0 \notin [job[q] EXCEPT !.list = @ \ {id}].list
    BY <1>1, Jobs
  <2>2. \/ Do(q, NoJob) \/ Do(q, [NoJob EXCEPT !.fp = job[q].fp])
        \/ Do(q, [NoJob EXCEPT !.list = job[q].list])
        \/ \E id : Do(q, [job[q] EXCEPT !.list = @ \ {id}])
    BY DEF Fail, Restart
  <2>3. QED
    BY <2>1, <2>2
<1>6. Holds(q, where, j)' /\ where \in ControlPoint
  BY <1>5, ListHolds
<1>7. saved'[HostOf(q)].restored \subseteq saved[HostOf(q)].restored \cup mem[q].restored
  BY <1>1
<1>8. QED
  BY <1>1, <1>2, <1>3, <1>4, <1>5, <1>6, <1>7, ArrivedStep

\* What the users do: files go only from a machine that is then forgone.
LEMMA ActArrived ==
    ASSUME TypeOK, Arrived, NEW h \in Hosts, Edit(h) \/ Clear(h) \/ Unlink(h) \/ Delete(h)
    PROVE  Arrived'
<1>1. UNCHANGED <<mem, saved, pc, job>> /\ forgone \subseteq forgone' /\ acts + 1 # 0
  BY BoundAssumption DEF Edit, Clear, Unlink, Delete, TypeOK
<1>2. ASSUME NEW o \in Hosts, o \notin forgone', NEW f \in Files, disk[o][f] # 0
      PROVE  disk'[o][f] # 0
  <2>1. CASE Edit(h)
    <3>1. PICK g \in Files : disk' = [disk EXCEPT ![h][g] = acts + 1]
      BY <2>1 DEF Edit
    <3>2. disk[o] \in [Files -> Content] /\ disk \in [Hosts -> Archive]
      BY DEF TypeOK, Archive
    <3>3. QED
      BY <1>1, <1>2, <3>1, <3>2
  <2>2. CASE Clear(h)
    BY <1>2, <2>2 DEF Clear, TypeOK
  <2>3. CASE Unlink(h) \/ Delete(h)
    BY <1>2, <2>3 DEF Unlink, Delete
  <2>4. QED
    BY <2>1, <2>2, <2>3
<1>3. ASSUME NEW o \in Hosts PROVE RowHolds(o)'
  <2>1. server'[o] = server[o] \/ server'[o] = NoRow
    BY DEF Edit, Clear, Unlink, Delete, TypeOK
  <2>2. QED
    BY <2>1 DEF Arrived, RowHolds, NoRow, NoFiles
<1>4. ASSUME NEW o \in Hosts PROVE MarksHold(o)'
  <2>1. Marked(o)' = Marked(o)
    BY <1>1 DEF Marked, ProcessesOf
  <2>2. QED
    BY <1>1, <1>2, <2>1, MainAssumption DEF Arrived, MarksHold
<1>5. ASSUME NEW q \in Processes PROVE Holds(q, pc[q], job[q])'
  <2>1. Holds(q, pc[q], job[q]) /\ HostOf(q) \in Hosts
    BY Parts DEF Arrived
  <2>2. QED
    BY <1>1, <1>2, <2>1 DEF Holds
<1>6. QED
  BY <1>3, <1>4, <1>5 DEF Arrived

-----------------------------------------------------------------------------
(* The theorems.                                                           *)

\* The invariant holds before anything has happened.
LEMMA InitInv ==
    ASSUME Init
    PROVE  IInv
<1>1. Core
  BY InitCore
<1>2. \A q \in Processes : pc[q] = "idle" /\ job[q].list = {} /\ mem[q].restored = {}
  BY DEF Init, NoJob, NoState
<1>3. \A h \in Hosts : saved[h].restored = {} /\ server[h] = NoRow
  BY DEF Init, NoState
<1>4. \A h \in Hosts : RowHolds(h) /\ MarksHold(h)
  BY <1>2, <1>3 DEF RowHolds, MarksHold, Marked, ProcessesOf
<1>5. \A q \in Processes : Holds(q, pc[q], job[q])
  BY <1>2 DEF Holds
<1>6. QED
  BY <1>1, <1>4, <1>5, ArrivedParts DEF Arrived

\* Every step keeps the invariant.
LEMMA NextInv ==
    ASSUME IInv, [Next]_vars
    PROVE  IInv'
<1>1. Core /\ Arrived /\ TypeOK /\ Core'
  BY ArrivedParts, InvParts, NextCore
<1>2. CASE UNCHANGED vars
  <2>1. \A h \in Hosts : RowHolds(h)' /\ MarksHold(h)'
    BY <1>1, <1>2 DEF vars, Arrived, RowHolds, MarksHold, Marked, ProcessesOf
  <2>2. \A q \in Processes : Holds(q, pc[q], job[q])'
    BY <1>1, <1>2 DEF vars, Arrived, Holds
  <2>3. QED
    BY <1>1, <2>1, <2>2, ArrivedPartsNext DEF Arrived
<1>3. ASSUME NEW q \in Processes, Run(q)
      PROVE  Arrived'
  BY <1>1, <1>3, PackArrived, PushArrived, ListArrived, DownloadArrived, LookArrived,
     WriteArrived, RestoredArrived, SaveArrived DEF Run
<1>4. ASSUME NEW q \in Processes, StartPush(q) \/ Link(q) \/ Pull(q) \/ Fail(q) \/ Restart(q)
      PROVE  Arrived'
  BY <1>1, <1>4, PackArrived, ListArrived, FailArrived
<1>5. ASSUME NEW h \in Hosts, Edit(h) \/ Clear(h) \/ Unlink(h) \/ Delete(h)
      PROVE  Arrived'
  BY <1>1, <1>5, ActArrived
<1>6. QED
  BY <1>1, <1>2, <1>3, <1>4, <1>5, ArrivedPartsNext DEF Next

\* The invariant holds: jobs are typed and hold what they unpack, no file an
\* agent wrote is in the way of an unpack that does not see it, what a machine
\* takes for pushed is on the server, and what it has marked as restored has been
\* unpacked to its end.
THEOREM Invariance == Spec => []IInv
<1>1. Init => IInv
  BY InitInv
<1>2. IInv /\ [Next]_vars => IInv'
  BY NextInv
<1>3. QED
  BY <1>1, <1>2, PTL DEF Spec

\* "never overwriting a live local file": without --force an unpack writes over
\* nothing the agent of the machine had written when the unpack looked.
THEOREM LiveFilesKept == Spec => LocalKept
<1>1. ASSUME IInv, [Next]_vars, NEW q \in Processes,
             pc[q] = "writing", ~job[q].force,
             disk[HostOf(q)][job[q].at] \in own[HostOf(q)]
      PROVE  disk[HostOf(q)][job[q].at] > job[q].since
  <2>1. /\ OwnSound /\ HostOf(q) \in Hosts /\ job[q].at \in Files
    BY <1>1, Parts DEF IInv
  <2>2. Somewhere(job[q].at, disk[HostOf(q)][job[q].at])
    BY <2>1 DEF Somewhere
  <2>3. QED
    BY <1>1, <2>1, <2>2 DEF OwnSound
<1>2. IInv /\ [Next]_vars =>
         [\A q \in Processes : pc[q] = "writing" /\ pc'[q] = "unpacking" /\ ~job[q].force =>
             LET cur == disk[HostOf(q)][job[q].at]
             IN cur \in own[HostOf(q)] => cur > job[q].since]_vars
  BY <1>1
<1>3. QED
  BY <1>2, Invariance, PTL DEF Spec, LocalKept

\* What a machine takes for pushed as it is on disk is on the server.
THEOREM Served == Spec => []PushedIsServed
<1>1. IInv => PushedIsServed
  BY DEF IInv
<1>2. QED
  BY <1>1, Invariance, PTL

\* "a session it already wrote": where a session is marked as restored, in memory
\* or in the state file, the file sessions are detected by is on disk, but on
\* machines that are `forgone`.
THEOREM MarkedIsThere == Spec => []RestoredThere
<1>1. IInv => RestoredThere
  BY DEF IInv
<1>2. QED
  BY <1>1, Invariance, PTL
=============================================================================
