----------------------------- MODULE SessionSync -----------------------------
(***************************************************************************)
(* One agent session on several machines: the daemon's push and reconcile  *)
(* passes (src/cli/internal/daemon), the commands link, push, pull and rm    *)
(* beside them, the archives of src/cli/engine/archive, and the rows the   *)
(* server keeps.  A put of a session is one step here: SessionStore models *)
(* how it is made.                                                         *)
(*                                                                         *)
(* The key of a session has the host in it, so a machine that has restored *)
(* the session has a row of its own.  The agent only ever writes new       *)
(* content, which is numbered; a file of content n that was cut short is   *)
(* -n.                                                                     *)
(***************************************************************************)
EXTENDS Integers, FiniteSets

CONSTANTS
    Hosts,          \* machines, and their daemons
    Commands,       \* a command runs in one of them at a time
    HostOf(_),      \* the machine of a daemon or command
    Files,          \* of the session
    Main,           \* the one an agent's sessions are detected by
    MaxActs,        \* bound: acts of the users
    MaxFails        \* bound: failures and restarts

Processes == Hosts \cup Commands

ASSUME HostAssumption ==
    /\ \A h \in Hosts : HostOf(h) = h
    /\ \A q \in Commands : q \notin Hosts /\ HostOf(q) \in Hosts

ASSUME MainAssumption == Main \in Files

ASSUME BoundAssumption == MaxActs \in Nat /\ MaxFails \in Nat

VARIABLES
    disk,           \* content of each file on each machine, 0 for none
    server,         \* the row of each machine's session, if any
    newId,          \* the id the next row gets
    linked,         \* machines with a link for the project
    mem,            \* State of each daemon, `stift link` or `stift pull`
    saved,          \* each machine's sync-state.json
    pc, job,        \* where each process is, and what it holds
    forgone,        \* history: machines whose row or files were deleted, where
                    \* two processes were pushing at once, or where a file was
                    \* written over by an unpack
    own,            \* history: what the agent of each machine has written
                    \* since its files were last deleted
    acts, fails     \* how many there were

vars == <<disk, server, newId, linked, mem, saved, pc, job, forgone, own, acts, fails>>

\* What there is so far.
Content == (-acts)..acts
Archive == [Files -> Content]
NoFiles == [f \in Files |-> 0]

PathsOf(m) == {f \in Files : m[f] # 0}

\* fingerprint: newest modification time, count and total size, which tell one
\* content from every other.
NoState == [pushed |-> NoFiles, restored |-> {}]

NoRow == [id |-> 0, archive |-> NoFiles]

NoJob == [fp |-> NoFiles, archive |-> NoFiles, todo |-> {}, list |-> {}, id |-> 0,
          force |-> FALSE, at |-> Main, since |-> 0]

ControlPoint == {"idle", "packing", "pushed", "listing", "restoring",
                 "unpacking", "writing", "saving"}

Goto(q, where) == pc' = [pc EXCEPT ![q] = where]
Do(q, j) == job' = [job EXCEPT ![q] = j]

\* A command starts.
Command(q) ==
    /\ q \in Commands
    /\ pc[q] = "idle"
    /\ acts < MaxActs
    /\ acts' = acts + 1

\* How a process leaves the push pass: a command is done.
AfterPush(q) == IF q \in Hosts THEN "listing" ELSE "idle"

-----------------------------------------------------------------------------
(* The push pass.                                                          *)

\* Detect, and the fingerprint of what it found, before the files are read.
Detect(q) ==
    LET found == disk[q] IN
    /\ q \in Hosts
    /\ pc[q] = "idle"
    /\ IF found[Main] = 0 \/ mem[q].pushed = found
         THEN Goto(q, "listing") /\ Do(q, [NoJob EXCEPT !.fp = found])
         ELSE Goto(q, "packing") /\ Do(q, [NoJob EXCEPT !.fp = found, !.todo = PathsOf(found)])
    /\ UNCHANGED <<disk, server, newId, linked, mem, saved, forgone, own, acts, fails>>

\* `stift push` pushes what is there, whatever the daemon remembers.
StartPush(q) ==
    LET found == disk[HostOf(q)] IN
    /\ Command(q)
    /\ found[Main] # 0
    /\ Goto(q, "packing")
    /\ Do(q, [NoJob EXCEPT !.fp = found, !.todo = PathsOf(found)])
    /\ UNCHANGED <<disk, server, newId, linked, mem, saved, forgone, own, fails>>

\* Pack, one file; one that is gone fails the push.
Pack(q, f) ==
    LET now == disk[HostOf(q)][f] IN
    /\ pc[q] = "packing"
    /\ f \in job[q].todo
    /\ IF now = 0
         THEN Goto(q, AfterPush(q)) /\ Do(q, [NoJob EXCEPT !.fp = job[q].fp])
         ELSE /\ Do(q, [job[q] EXCEPT !.archive[f] = now, !.todo = @ \ {f}])
              /\ UNCHANGED pc
    /\ UNCHANGED <<disk, server, newId, linked, mem, saved, forgone, own, acts, fails>>

\* POST /v1/sessions updates the row of the key, or creates it with a new id.
Push(q) ==
    LET h == HostOf(q) IN
    /\ pc[q] = "packing"
    /\ job[q].todo = {}
    /\ IF server[h] = NoRow
         THEN /\ server' = [server EXCEPT ![h] = [id |-> newId, archive |-> job[q].archive]]
              /\ newId' = newId + 1
         ELSE server' = [server EXCEPT ![h].archive = job[q].archive] /\ UNCHANGED newId
    /\ forgone' = IF \E o \in Processes \ {q} : HostOf(o) = h /\ pc[o] \in {"packing", "pushed"}
                    THEN forgone \cup {h}
                    ELSE forgone
    /\ Goto(q, IF q \in Hosts THEN "pushed" ELSE "idle")
    /\ Do(q, [NoJob EXCEPT !.fp = job[q].fp])
    /\ UNCHANGED <<disk, linked, mem, saved, own, acts, fails>>

FingerprintNow(q) == disk[HostOf(q)]
Pushed(q) == job[q].fp

\* The answer: the fingerprint is remembered.
Remember(q) ==
    /\ pc[q] = "pushed"
    /\ mem' = [mem EXCEPT ![q].pushed = Pushed(q)]
    /\ Goto(q, "listing")
    /\ UNCHANGED <<disk, server, newId, linked, saved, job, forgone, own, acts, fails>>

-----------------------------------------------------------------------------
(* The reconcile pass.                                                     *)

\* ReconcileOnce of `stift link`, which saves the link first, and of `stift
\* pull --project-id`: the state file is loaded like by a new daemon.
Link(q) ==
    LET h == HostOf(q) IN
    /\ Command(q)
    /\ linked' \in {linked, linked \cup {h}}
    /\ mem' = [mem EXCEPT ![q] = saved[h]]
    /\ Goto(q, "listing")
    /\ UNCHANGED <<disk, server, newId, saved, job, forgone, own, fails>>

\* `stift pull` of one session, its own row's too, which nothing remembers.
Pull(q) ==
    /\ Command(q)
    /\ \E h \in Hosts, force \in BOOLEAN :
          /\ server[h] # NoRow
          /\ Do(q, [NoJob EXCEPT !.force = force, !.archive = server[h].archive,
                                !.todo = PathsOf(server[h].archive)])
    /\ Goto(q, "unpacking")
    /\ UNCHANGED <<disk, server, newId, linked, mem, saved, forgone, own, fails>>

OnlyActive(q) == q \in Commands \/ job[q].fp[Main] # 0

\* A pass reconciles a project where it has a session or a link.
IsTarget(q) == q \in Commands \/ job[q].fp[Main] # 0 \/ q \in linked

\* The sessions of other hosts that were not restored before.
List(q) ==
    LET others == {h \in Hosts \ {HostOf(q)} : server[h] # NoRow} IN
    /\ pc[q] = "listing"
    /\ IF IsTarget(q)
         THEN /\ Do(q, [NoJob EXCEPT !.list = {server[h].id : h \in others} \ mem[q].restored])
              /\ Goto(q, "restoring")
         ELSE Do(q, NoJob) /\ Goto(q, "saving")
    /\ UNCHANGED <<disk, server, newId, linked, mem, saved, forgone, own, acts, fails>>

\* The archive as it is now; a session deleted since is a 404.
Download(q) ==
    /\ pc[q] = "restoring"
    /\ \E id \in job[q].list :
          LET rest == [job[q] EXCEPT !.list = @ \ {id}] IN
          \/ \E h \in Hosts :
                /\ server[h].id = id
                /\ Do(q, [rest EXCEPT !.id = id, !.archive = server[h].archive,
                                      !.todo = PathsOf(server[h].archive)])
                /\ Goto(q, "unpacking")
          \/ /\ \A h \in Hosts : server[h].id # id
             /\ Do(q, rest)
             /\ UNCHANGED pc
    /\ UNCHANGED <<disk, server, newId, linked, mem, saved, forgone, own, acts, fails>>

SkipsSame(q, f) == disk[HostOf(q)][f] = job[q].archive[f]
Skips(q, f) == ~job[q].force /\ disk[HostOf(q)][f] # 0

\* UnpackRemap, one file: one that exists is skipped, except with --force.
Look(q, f) ==
    LET j == [job[q] EXCEPT !.todo = @ \ {f}] IN
    /\ pc[q] = "unpacking"
    /\ f \in job[q].todo
    /\ IF Skips(q, f)
         THEN Do(q, j) /\ UNCHANGED pc
         ELSE Do(q, [j EXCEPT !.at = f, !.since = acts]) /\ Goto(q, "writing")
    /\ UNCHANGED <<disk, server, newId, linked, mem, saved, forgone, own, acts, fails>>

\* A file is opened with O_TRUNC and copied to.
PutFile(q, content) ==
    LET h == HostOf(q) IN
    /\ disk' = [disk EXCEPT ![h][job[q].at] = content]
    /\ forgone' = IF disk[h][job[q].at] = 0 THEN forgone ELSE forgone \cup {h}

Write(q) ==
    /\ pc[q] = "writing"
    /\ PutFile(q, job[q].archive[job[q].at])
    /\ Goto(q, "unpacking")
    /\ UNCHANGED <<server, newId, linked, mem, saved, job, own, acts, fails>>

StartedUnpack(q) == TRUE

\* UnpackRemap has returned without an error: the archive has ended.
Unpacked(q) == job[q].todo = {}

\* The session is done with, whatever was skipped.
Restored(q) ==
    /\ pc[q] = "unpacking"
    /\ Unpacked(q)
    /\ IF job[q].id = 0
         THEN Goto(q, "idle") /\ Do(q, NoJob) /\ UNCHANGED mem
         ELSE /\ mem' = [mem EXCEPT ![q].restored = @ \cup {job[q].id}]
              /\ Goto(q, "restoring")
              /\ Do(q, [NoJob EXCEPT !.list = job[q].list])
    /\ UNCHANGED <<disk, server, newId, linked, saved, forgone, own, acts, fails>>

\* The end of a pass.  A daemon has the state it saved for the next one.
Save(q) ==
    /\ \/ pc[q] = "restoring" /\ job[q].list = {}
       \/ pc[q] = "saving"
    /\ saved' = [saved EXCEPT ![HostOf(q)] = mem[q]]
    /\ mem' = IF q \in Hosts THEN mem ELSE [mem EXCEPT ![q] = NoState]
    /\ Goto(q, "idle")
    /\ Do(q, NoJob)
    /\ UNCHANGED <<disk, server, newId, linked, forgone, own, acts, fails>>

-----------------------------------------------------------------------------
(* Failures.                                                               *)

Short(content) == IF content > 0 THEN -content ELSE content

\* A file being written is left as it is: created, and short.
CutShort(q) ==
    IF pc[q] = "writing" THEN PutFile(q, Short(job[q].archive[job[q].at]))
                         ELSE UNCHANGED <<disk, forgone>>

\* A call or a file operation fails, or an answer is lost: a push or a restore
\* is left for the next pass.
Fail(q) ==
    LET push == pc[q] \in {"packing", "pushed"} IN
    /\ pc[q] \in {"packing", "pushed", "listing", "restoring", "unpacking", "writing"}
    /\ fails < MaxFails
    /\ fails' = fails + 1
    /\ CutShort(q)
    /\ CASE push -> Goto(q, AfterPush(q)) /\ Do(q, [NoJob EXCEPT !.fp = job[q].fp])
         [] pc[q] = "listing" -> Goto(q, "saving") /\ Do(q, NoJob)
         [] pc[q] = "restoring" -> UNCHANGED pc /\ \E id \in job[q].list : Do(q, [job[q] EXCEPT !.list = @ \ {id}])
         [] OTHER -> /\ Goto(q, IF job[q].id = 0 THEN "idle" ELSE "restoring")
                     /\ Do(q, [NoJob EXCEPT !.list = job[q].list])
    /\ UNCHANGED <<server, newId, linked, mem, saved, own, acts>>

\* The process ends.  The service starts the daemon again, which loads the
\* state file.
Restart(q) ==
    /\ q \in Hosts \/ pc[q] # "idle"
    /\ fails < MaxFails
    /\ fails' = fails + 1
    /\ CutShort(q)
    /\ mem' = [mem EXCEPT ![q] = IF q \in Hosts THEN saved[q] ELSE NoState]
    /\ Goto(q, "idle")
    /\ Do(q, NoJob)
    /\ UNCHANGED <<server, newId, linked, saved, own, acts>>

-----------------------------------------------------------------------------
(* The users.                                                              *)

Act == acts < MaxActs /\ acts' = acts + 1

\* The agent writes one of the session's files.
Edit(h) ==
    /\ Act
    /\ \E f \in Files :
          /\ f # Main => disk[h][Main] # 0
          /\ disk' = [disk EXCEPT ![h][f] = acts + 1]
    /\ own' = [own EXCEPT ![h] = @ \cup {acts + 1}]
    /\ UNCHANGED <<server, newId, linked, mem, saved, pc, job, forgone, fails>>

\* The session's files are deleted.
Clear(h) ==
    /\ Act
    /\ disk[h] # NoFiles
    /\ disk' = [disk EXCEPT ![h] = NoFiles]
    /\ forgone' = forgone \cup {h}
    /\ own' = [own EXCEPT ![h] = {}]
    /\ UNCHANGED <<server, newId, linked, mem, saved, pc, job, fails>>

Unlink(h) ==
    /\ Act
    /\ h \in linked
    /\ linked' = linked \ {h}
    /\ UNCHANGED <<disk, server, newId, mem, saved, pc, job, forgone, own, fails>>

\* The session is deleted on the server.
Delete(h) ==
    /\ Act
    /\ server[h] # NoRow
    /\ server' = [server EXCEPT ![h] = NoRow]
    /\ forgone' = forgone \cup {h}
    /\ UNCHANGED <<disk, newId, linked, mem, saved, pc, job, own, fails>>

Init ==
    /\ disk = [h \in Hosts |-> NoFiles]
    /\ server = [h \in Hosts |-> NoRow]
    /\ newId = 1
    /\ linked = {}
    /\ mem = [q \in Processes |-> NoState]
    /\ saved = [h \in Hosts |-> NoState]
    /\ pc = [q \in Processes |-> "idle"]
    /\ job = [q \in Processes |-> NoJob]
    /\ forgone = {}
    /\ own = [h \in Hosts |-> {}]
    /\ acts = 0
    /\ fails = 0

\* What a process does of itself.
Run(q) ==
    \/ Detect(q) \/ (\E f \in Files : Pack(q, f)) \/ Push(q) \/ Remember(q)
    \/ List(q) \/ Download(q) \/ (\E f \in Files : Look(q, f)) \/ Write(q)
    \/ Restored(q) \/ Save(q)

Next ==
    \/ \E q \in Processes : Run(q) \/ StartPush(q) \/ Link(q) \/ Pull(q) \/ Fail(q) \/ Restart(q)
    \/ \E h \in Hosts : Edit(h) \/ Clear(h) \/ Unlink(h) \/ Delete(h)

Spec == Init /\ [][Next]_vars

\* The ticker starts a pass every interval, and a pass goes on to its end.
FairSpec == Spec /\ \A h \in Hosts : WF_vars(Run(h))

-----------------------------------------------------------------------------
(* Properties.                                                             *)

State == [pushed : Archive, restored : SUBSET Nat]

Job == [fp : Archive, archive : Archive, todo : SUBSET Files, list : SUBSET Nat, id : Nat,
        force : BOOLEAN, at : Files, since : 0..acts]

\* The types of the variables.
TypeOK ==
    /\ acts \in 0..MaxActs
    /\ fails \in 0..MaxFails
    /\ disk \in [Hosts -> Archive]
    /\ server \in [Hosts -> [id : Nat, archive : Archive]]
    /\ newId \in Nat \ {0}
    /\ linked \subseteq Hosts
    /\ mem \in [Processes -> State]
    /\ saved \in [Hosts -> State]
    /\ pc \in [Processes -> ControlPoint]
    /\ job \in [Processes -> Job]
    /\ forgone \subseteq Hosts
    /\ own \in [Hosts -> SUBSET (1..acts)]

\* What is unpacked is there.
JobsSound ==
    \A q \in Processes :
        /\ pc[q] \in {"unpacking", "writing"} => job[q].todo \subseteq PathsOf(job[q].archive)
        /\ pc[q] = "writing" => job[q].archive[job[q].at] # 0

\* The file a session is detected by is in every row, and in every archive that
\* is packed or unpacked; what is listed are rows.
MainThere ==
    /\ \A h \in Hosts : server[h] # NoRow => server[h].id # 0 /\ server[h].archive[Main] # 0
    /\ \A q \in Processes :
          /\ 0 \notin job[q].list
          /\ pc[q] = "packing" => Main \in job[q].todo \/ job[q].archive[Main] # 0
          /\ pc[q] \in {"unpacking", "writing"} => job[q].archive[Main] # 0

\* Content of a file, wherever it is.
Somewhere(f, content) ==
    \/ \E h \in Hosts : disk[h][f] = content \/ server[h].archive[f] = content
    \/ \E q \in Processes : job[q].archive[f] = content

\* Nothing the agent of a machine has written is lost: where a file is missing
\* it never wrote one, and where one is being written without --force it wrote
\* none before the look at it.
OwnSound ==
    /\ \A h \in Hosts, f \in Files :
          disk[h][f] = 0 => \A n \in own[h] : ~Somewhere(f, n)
    /\ \A q \in Processes :
          pc[q] = "writing" /\ ~job[q].force =>
              \A n \in own[HostOf(q)] : Somewhere(job[q].at, n) => n > job[q].since

ProcessesOf(h) == {q \in Processes : HostOf(q) = h}

\* What a machine takes for pushed, or is about to.
Remembered(h) ==
    {saved[h].pushed} \cup {mem[q].pushed : q \in ProcessesOf(h)}
        \cup {job[q].fp : q \in {o \in ProcessesOf(h) : pc[o] = "pushed"}}

Packing(h) == {q \in ProcessesOf(h) : pc[q] = "packing"}

\* What was seen on a machine's disk.
Seen(h) ==
    Remembered(h) \cup {job[q].fp : q \in ProcessesOf(h)} \cup {job[q].archive : q \in Packing(h)}

\* Files that were seen are still there.
SeenThere ==
    \A h \in Hosts \ forgone, f \in Files : disk[h][f] = 0 => \A m \in Seen(h) : m[f] = 0

\* A file that changed after it was packed is neither as the fingerprint of
\* its push has it nor as what is taken for pushed has it.
PackedSound ==
    \A h \in Hosts \ forgone : \A q \in Packing(h) : \A f \in Files \ job[q].todo :
        job[q].archive[f] # disk[h][f] =>
            \A m \in Remembered(h) \cup {job[q].fp} : m[f] # disk[h][f]

\* A session that is taken for pushed as it is on disk has been: the server
\* has that archive, unless the user deleted the session on either side,
\* `stift push` ran at the same time, or a file was written over by an unpack.
PushedIsServed ==
    \A h \in Hosts \ forgone :
       disk[h] \in Remembered(h) => disk[h][Main] = 0 \/ server[h].archive = disk[h]

\* What an unpack is through with is there.
UnpackedThere ==
    \A h \in Hosts \ forgone : \A q \in ProcessesOf(h) :
        /\ pc[q] = "unpacking" => PathsOf(job[q].archive) \ job[q].todo \subseteq PathsOf(disk[h])
        /\ pc[q] = "writing" =>
              PathsOf(job[q].archive) \ (job[q].todo \cup {job[q].at}) \subseteq PathsOf(disk[h])

\* The ids a machine has marked as restored, in memory or in its state file.
Marked(h) == saved[h].restored \cup UNION {mem[q].restored : q \in ProcessesOf(h)}

\* "a session it already wrote": where an id is marked, so that no later pass
\* restores it, the session is on the machine - through restores that fail
\* halfway, restarts, and state files saved over each other.  Machines whose files
\* were deleted afterwards are excepted, and with them the others that are
\* `forgone`.  A file that was there before, or was cut short, counts as there, to
\* the code as well.
RestoredThere == \A h \in Hosts \ forgone : Marked(h) # {} => disk[h][Main] # 0

IInv ==
    /\ TypeOK
    /\ JobsSound
    /\ OwnSound
    /\ SeenThere
    /\ PackedSound
    /\ PushedIsServed
    /\ MainThere
    /\ UnpackedThere
    /\ RestoredThere

\* "never overwriting a live local file": what unpacks without --force writes
\* over nothing the agent of the machine wrote, but what it wrote after the
\* unpack had looked.
LocalKept ==
    [][\A q \in Processes : pc[q] = "writing" /\ pc'[q] = "unpacking" /\ ~job[q].force =>
          LET cur == disk[HostOf(q)][job[q].at]
          IN cur \in own[HostOf(q)] => cur > job[q].since]_vars

\* A session a user has is on the server in the end as it is on disk.
EditsReachServer ==
    \A h \in Hosts : []<>(disk[h][Main] = 0 \/ h \in forgone \/ server[h].archive = disk[h])

\* On a machine with a link the sessions that the other machines have on the
\* server arrive in the end: their rows are marked and, but on machines that are
\* `forgone`, the file a session is detected by is there.  What counts as there is
\* what RestoredThere says, and a version that is pushed under a row that is marked
\* is not restored.
SessionsArrive ==
    \A h, o \in Hosts :
       h # o => []<>(\/ h \notin linked \/ server[o] = NoRow
                     \/ /\ server[o].id \in mem[h].restored
                        /\ h \in forgone \/ disk[h][Main] # 0)
=============================================================================
