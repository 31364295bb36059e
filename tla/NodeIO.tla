------------------------------- MODULE NodeIO -------------------------------
(***************************************************************************)
(* A node's shard directory and the threads that work on it.               *)
(*                                                                         *)
(* Each connection of a node program (dllm/np_node.py, dllm/node.py) has   *)
(* an asyncio.Lock of its own; the task that holds it runs load_range or   *)
(* fetch_range in a thread (asyncio.to_thread).  A connection that drops   *)
(* cancels its tasks, but a thread cannot be cancelled: it works on beside *)
(* whatever the next connection starts on the same directory.              *)
(*                                                                         *)
(* A download writes <file>.part and renames it.  A file is an inode: its  *)
(* last opener (who truncated it) and whether all its bytes are there.  A  *)
(* second opener truncates the same inode, a rename carries a writer's     *)
(* descriptor along, and a rename or removal leaves descriptors behind.    *)
(* Loading a file that is not whole raises (its archive has checksums).    *)
(* Abstracted: config.json (one more file of every range, never removed),  *)
(* the bench and the shard's own memory.                                   *)
(***************************************************************************)
EXTENDS Naturals, FiniteSets, Sequences

CONSTANTS
  Layer,     \* layer numbers
  Asked,     \* the sets of layers the hub may ask for
  Programs,  \* which programs: TRUE node.py (keeps files), FALSE np_node.py
  MaxConn,   \* bound: connections the node opens
  MaxTasks,  \* bound: assigns and prefetches the hub sends
  MaxFaults  \* bound: dropped connections, crashes, failed downloads

ASSUME LayerAssumption == Layer \subseteq Nat /\ IsFiniteSet(Layer)
ASSUME AskedAssumption == Asked \subseteq SUBSET Layer \ {{}}
ASSUME ProgramsAssumption == Programs \subseteq BOOLEAN /\ Programs # {}
ASSUME IOBoundsAssumption ==
  MaxConn \in Nat /\ MaxTasks \in Nat /\ MaxFaults \in Nat

VARIABLES
  keeps,   \* the program: keeps foreign shards and downloads in parallel
  conn,    \* connections opened so far, the last one current
  up,      \* the current connection is open
  tasks,   \* on_assign and on_prefetch of the connection, in lock order
  newest,  \* the connection's newest assign
  shard,   \* layers of the shard in memory, {} for none
  pc,      \* pc[c]: where the thread of connection c is
  job,     \* job[c]: the task it works for
  bad,     \* bad[c]: one of its downloads failed
  todo,    \* todo[c]: layers it still has to fetch, remove or read
  fd,      \* fd[c][l]: what its open download of layer l writes to
  part,    \* part[l]: the inode of the .part file
  file,    \* file[l]: the inode of the file itself
  sent,    \* tasks sent so far
  told,    \* the answer to newest so far
  past,    \* history: an "overlap" of two threads, a "shared" .part file
  hurt,    \* history: hurt[c], a transfer of the running thread broke
  faults

linkVars   == <<conn, up, newest>>
threadVars == <<pc, job, bad, todo, fd>>
diskVars   == <<part, file>>
pastVars   == <<past, hurt>>
vars == <<keeps, linkVars, tasks, shard, threadVars, diskVars, sent, told,
          pastVars, faults>>

Conns   == 1 .. MaxConn
TaskIds == 1 .. MaxTasks
Task    == [t : {"assign", "prefetch"}, range : Asked, id : TaskIds]
NoTask  == [t |-> "none", range |-> {}, id |-> 0]
Steps   == {"idle", "fetch", "drop", "read", "check", "done", "failed"}
Inode   == [by : Conns, whole : BOOLEAN]
NoFile  == [by |-> 0, whole |-> FALSE]
Targets == {"none", "part", "file", "gone"}
Answer  == {"none", "ready", "error"}

Running(c) == pc[c] # "idle"

\* Every variable has its type: a thread has a task as long as it runs.
IOTypeOK ==
  /\ keeps \in BOOLEAN
  /\ conn \in 0 .. MaxConn /\ up \in BOOLEAN
  /\ tasks \in Seq(Task)
  /\ newest \in Task \cup {NoTask}
  /\ shard \in SUBSET Layer
  /\ pc \in [Conns -> Steps]
  /\ job \in [Conns -> Task \cup {NoTask}]
  /\ \A c \in Conns : Running(c) => job[c] # NoTask
  /\ bad \in [Conns -> BOOLEAN]
  /\ todo \in [Conns -> SUBSET Layer]
  /\ fd \in [Conns -> [Layer -> Targets]]
  /\ part \in [Layer -> Inode \cup {NoFile}]
  /\ file \in [Layer -> Inode \cup {NoFile}]
  /\ sent \in 0 .. MaxTasks
  /\ told \in Answer
  /\ past \in SUBSET {"overlap", "shared"}
  /\ hurt \in [Conns -> BOOLEAN]
  /\ faults \in 0 .. MaxFaults

Closed == [l \in Layer |-> "none"]

IOInit ==
  /\ keeps \in Programs
  /\ conn = 0 /\ up = FALSE
  /\ tasks = <<>> /\ newest = NoTask /\ shard = {}
  /\ pc = [c \in Conns |-> "idle"]
  /\ job = [c \in Conns |-> NoTask]
  /\ bad = [c \in Conns |-> FALSE]
  /\ todo = [c \in Conns |-> {}]
  /\ fd = [c \in Conns |-> Closed]
  /\ part = [l \in Layer |-> NoFile]
  /\ file = [l \in Layer |-> NoFile]
  /\ sent = 0
  /\ told = "none"
  /\ past = {} /\ hurt = [c \in Conns |-> FALSE]
  /\ faults = 0

Fault == /\ faults < MaxFaults
         /\ faults' = faults + 1

Exists(l)  == file[l] # NoFile
OnDisk     == {l \in Layer : Exists(l)}
Writing(c) == {l \in Layer : fd[c][l] # "none"}
First(S)   == CHOOSE l \in S : \A k \in S : l <= k

-----------------------------------------------------------------------------
(***************************************************************************)
(* The connection and its tasks.                                           *)
(***************************************************************************)

\* forever -> run: a new connection, with a new lock and no shard.
Connect ==
  /\ ~up /\ conn < MaxConn
  /\ up' = TRUE /\ conn' = conn + 1
  /\ newest' = NoTask /\ told' = "none"
  /\ UNCHANGED <<keeps, tasks, shard, threadVars, diskVars, sent, pastVars, faults>>

Closes == up' = FALSE /\ tasks' = <<>> /\ shard' = {}

\* run ends: its tasks are cancelled, its shard is gone, its thread is not.
Drop ==
  /\ up /\ Fault
  /\ Closes
  /\ UNCHANGED <<keeps, conn, newest, threadVars, diskVars, sent, told, pastVars>>

\* The process dies, and every thread with it; files stay as they are.
Crash ==
  /\ conn > 0 /\ Fault
  /\ Closes
  /\ pc' = [c \in Conns |-> "idle"]
  /\ job' = [c \in Conns |-> NoTask]
  /\ bad' = [c \in Conns |-> FALSE]
  /\ todo' = [c \in Conns |-> {}]
  /\ fd' = [c \in Conns |-> Closed]
  /\ hurt' = [c \in Conns |-> FALSE]
  /\ UNCHANGED <<keeps, conn, newest, diskVars, sent, told, past>>

\* Mutant of Spawn: a prefetch counts as the newest task too.
SpawnAnyNewest(t, r) ==
  LET new == [t |-> t, range |-> r, id |-> sent + 1] IN
    /\ up /\ sent < MaxTasks
    /\ sent' = sent + 1
    /\ tasks' = Append(tasks, new)
    /\ newest' = new
    /\ told' = "none"
    /\ UNCHANGED <<keeps, conn, up, shard, threadVars, diskVars, pastVars, faults>>

\* A frame of the hub spawns on_assign or on_prefetch, which waits for the lock.
Spawn(t, r) ==
  LET new == [t |-> t, range |-> r, id |-> sent + 1] IN
    /\ up /\ sent < MaxTasks
    /\ sent' = sent + 1
    /\ tasks' = Append(tasks, new)
    /\ newest' = IF t = "assign" THEN new ELSE newest
    /\ told' = IF t = "assign" THEN "none" ELSE told
    /\ UNCHANGED <<keeps, conn, up, shard, threadVars, diskVars, pastVars, faults>>

\* The first task of kind t has the lock, its thread not started.
Holds(t) == /\ tasks # <<>> /\ Head(tasks).t = t
            /\ pc[conn] = "idle"

\* mine # newest[0]: a newer assign has come on this connection.
Superseded == Head(tasks) # newest

Answers(a) == /\ told' = IF Head(tasks) = newest THEN a ELSE told
              /\ tasks' = Tail(tasks)

SkipAssign ==
  /\ Holds("assign") /\ Superseded
  /\ tasks' = Tail(tasks)
  /\ UNCHANGED <<keeps, linkVars, shard, threadVars, diskVars, sent, told,
                 pastVars, faults>>

\* The same range is loaded already.
KeepShard ==
  /\ Holds("assign") /\ ~Superseded
  /\ shard = Head(tasks).range
  /\ Answers("ready")
  /\ UNCHANGED <<keeps, linkVars, shard, threadVars, diskVars, sent, pastVars,
                 faults>>

\* The thread starts: node.py notes at once what is missing (fetch_shards),
\* np_node.py looks file by file (fetch).
Start(t) ==
  /\ pc' = [pc EXCEPT ![conn] = "fetch"]
  /\ job' = [job EXCEPT ![conn] = t]
  /\ todo' = [todo EXCEPT ![conn] = IF keeps THEN t.range \ OnDisk ELSE t.range]
  /\ past' = IF \E c \in Conns : Running(c) THEN past \cup {"overlap"} ELSE past
  /\ UNCHANGED <<keeps, linkVars, tasks, bad, fd, diskVars, sent, told, hurt,
                 faults>>

\* Mutant of StartLoad: the old shard serves on while the new one loads.
StartLoadServing ==
  /\ Holds("assign") /\ ~Superseded /\ shard # Head(tasks).range
  /\ UNCHANGED shard
  /\ Start(Head(tasks))

\* Give the old shard up and run load_range in a thread.
StartLoad ==
  /\ Holds("assign") /\ ~Superseded /\ shard # Head(tasks).range
  /\ shard' = {}
  /\ Start(Head(tasks))

StartPrefetch ==
  /\ Holds("prefetch")
  /\ UNCHANGED shard
  /\ Start(Head(tasks))

-----------------------------------------------------------------------------
(***************************************************************************)
(* fetch and fetch_shards in the thread of connection c.                   *)
(***************************************************************************)

\* np_node.py goes on to the next file when this one exists.
FetchSkips(c) ==
  /\ pc[c] = "fetch" /\ ~keeps /\ ~bad[c] /\ todo[c] # {} /\ Writing(c) = {}
  /\ Exists(First(todo[c]))
  /\ todo' = [todo EXCEPT ![c] = @ \ {First(@)}]
  /\ UNCHANGED <<keeps, linkVars, tasks, shard, pc, job, bad, fd, diskVars, sent,
                 told, pastVars, faults>>

\* Mutant of OpenPart: the download goes straight to the file.
OpenFile(c, l) ==
  /\ file' = [file EXCEPT ![l] = [by |-> c, whole |-> FALSE]]
  /\ fd' = [fd EXCEPT ![c][l] = "file"]
  /\ UNCHANGED <<part, past>>

\* urlretrieve opens the .part file, truncating what is there.
OpenPart(c, l) ==
  /\ part' = [part EXCEPT ![l] = [by |-> c, whole |-> FALSE]]
  /\ fd' = [fd EXCEPT ![c][l] = "part"]
  /\ past' = IF \E d \in Conns : fd[d][l] = "part" THEN past \cup {"shared"}
             ELSE past
  /\ UNCHANGED file

\* node.py downloads what was missing in parallel, np_node.py in turn.
Open(c, l) ==
  /\ pc[c] = "fetch" /\ l \in todo[c]
  /\ \/ keeps
     \/ l = First(todo[c]) /\ Writing(c) = {} /\ ~Exists(l) /\ ~bad[c]
  /\ todo' = [todo EXCEPT ![c] = @ \ {l}]
  /\ OpenPart(c, l)
  /\ UNCHANGED <<keeps, linkVars, tasks, shard, pc, job, bad, sent, told, hurt,
                 faults>>

\* All bytes of c's download are written to inode n.  If another download has
\* truncated it since c opened it, its own bytes may still be missing.
Filled(n, c) ==
  {[n EXCEPT !.whole = w] : w \in IF n.by = c \/ n.whole THEN {TRUE}
                                  ELSE BOOLEAN}

\* Descriptors after inode .part of l was renamed over the file.
Renamed(l) ==
  [d \in Conns |-> [fd[d] EXCEPT ![l] =
     IF @ = "part" THEN "file" ELSE IF @ = "file" THEN "gone" ELSE @]]

Failure(c) == bad' = [bad EXCEPT ![c] = TRUE]

\* The download ends and os.replace moves whatever .part file there is.
Finish(c, l) ==
  /\ fd[c][l] # "none"
  /\ \E p \in IF fd[c][l] = "part" THEN Filled(part[l], c) ELSE {part[l]},
        f \in IF fd[c][l] = "file" THEN Filled(file[l], c) ELSE {file[l]} :
       IF p # NoFile
       THEN /\ file' = [file EXCEPT ![l] = p]
            /\ part' = [part EXCEPT ![l] = NoFile]
            /\ fd' = [Renamed(l) EXCEPT ![c][l] = "none"]
            /\ UNCHANGED bad
       ELSE /\ file' = [file EXCEPT ![l] = f]
            /\ fd' = [fd EXCEPT ![c][l] = "none"]
            /\ Failure(c)
            /\ UNCHANGED part
  /\ UNCHANGED <<keeps, linkVars, tasks, shard, pc, job, todo, sent, told,
                 pastVars, faults>>

\* The transfer breaks: urlretrieve raises and leaves the .part file.
DownloadFails(c, l) ==
  /\ fd[c][l] # "none" /\ Fault
  /\ fd' = [fd EXCEPT ![c][l] = "none"]
  /\ Failure(c)
  /\ hurt' = [hurt EXCEPT ![c] = TRUE]
  /\ UNCHANGED <<keeps, linkVars, tasks, shard, pc, job, todo, diskVars, sent,
                 told, past>>

Goes(c, to, what) == /\ pc' = [pc EXCEPT ![c] = to]
                     /\ todo' = [todo EXCEPT ![c] = what]

\* Mutant of Kept: the last layer of the range counts as foreign.
KeptButLast(r) == r \ {CHOOSE l \in r : \A k \in r : k <= l}

\* Files that drop_foreign_shards leaves alone.
Kept(r) == r

\* fetch returns or raises; np_node.py raises at the first failure, node.py's
\* pool when the other downloads have ended.
Fetched(c) ==
  /\ pc[c] = "fetch" /\ Writing(c) = {}
  /\ todo[c] = {} \/ (bad[c] /\ ~keeps)
  /\ \/ bad[c] /\ Goes(c, "failed", {})
     \/ ~bad[c] /\ job[c].t = "prefetch" /\ Goes(c, "done", {})
     \/ ~bad[c] /\ job[c].t = "assign" /\ keeps /\ Goes(c, "read", job[c].range)
     \/ /\ ~bad[c] /\ job[c].t = "assign" /\ ~keeps
        /\ Goes(c, "drop", OnDisk \ Kept(job[c].range))
  /\ UNCHANGED <<keeps, linkVars, tasks, shard, job, bad, fd, diskVars, sent,
                 told, pastVars, faults>>

-----------------------------------------------------------------------------
(***************************************************************************)
(* The rest of load_range.                                                 *)
(***************************************************************************)

\* drop_foreign_shards removes the files it listed; one that is gone raises.
DropForeign(c) ==
  /\ pc[c] = "drop" /\ todo[c] # {}
  /\ LET l == First(todo[c]) IN
       IF Exists(l)
       THEN /\ file' = [file EXCEPT ![l] = NoFile]
            /\ fd' = [d \in Conns |-> [fd[d] EXCEPT ![l] =
                        IF @ = "file" THEN "gone" ELSE @]]
            /\ Goes(c, "drop", todo[c] \ {l})
       ELSE /\ Goes(c, "failed", {})
            /\ UNCHANGED <<file, fd>>
  /\ UNCHANGED <<keeps, linkVars, tasks, shard, job, bad, part, sent, told,
                 pastVars, faults>>

Dropped(c) ==
  /\ pc[c] = "drop" /\ todo[c] = {}
  /\ Goes(c, "read", job[c].range)
  /\ UNCHANGED <<keeps, linkVars, tasks, shard, job, bad, fd, diskVars, sent,
                 told, pastVars, faults>>

\* The shard reads its layers one after the other; a file that is missing or
\* not whole raises.
Read(c) ==
  /\ pc[c] = "read" /\ todo[c] # {}
  /\ LET l == First(todo[c]) IN
       IF file[l].whole THEN Goes(c, "read", todo[c] \ {l})
       ELSE Goes(c, "failed", {})
  /\ UNCHANGED <<keeps, linkVars, tasks, shard, job, bad, fd, diskVars, sent,
                 told, pastVars, faults>>

\* The ready fields: fingerprints read every file of the range again.
Fingerprint(c) ==
  /\ pc[c] = "read" /\ todo[c] = {}
  /\ Goes(c, IF \A l \in job[c].range : file[l].whole THEN "done" ELSE "failed",
          {})
  /\ UNCHANGED <<keeps, linkVars, tasks, shard, job, bad, fd, diskVars, sent,
                 told, pastVars, faults>>

\* Mutant of Rests: the slot of the thread is not cleared.
RestsStale(c) == /\ job' = [job EXCEPT ![c] = NoTask]
                 /\ bad' = [bad EXCEPT ![c] = FALSE]
                 /\ hurt' = [hurt EXCEPT ![c] = FALSE]
                 /\ UNCHANGED <<keeps, linkVars, pc, todo, fd, diskVars, sent,
                                past, faults>>

Rests(c) == /\ pc' = [pc EXCEPT ![c] = "idle"]
            /\ job' = [job EXCEPT ![c] = NoTask]
            /\ bad' = [bad EXCEPT ![c] = FALSE]
            /\ hurt' = [hurt EXCEPT ![c] = FALSE]
            /\ UNCHANGED <<keeps, linkVars, todo, fd, diskVars, sent, past, faults>>

\* Mutant of Report: a load that raises ends its task without letting go.
ReportSuccess(c) ==
  /\ pc[c] = "done" /\ up /\ c = conn
  /\ IF job[c].t = "assign"
     THEN Answers("ready") /\ shard' = job[c].range
     ELSE tasks' = Tail(tasks) /\ UNCHANGED <<shard, told>>
  /\ Rests(c)

\* The task gets what its thread returned, answers and lets go of the lock.
Report(c) ==
  /\ pc[c] \in {"done", "failed"} /\ up /\ c = conn
  /\ IF job[c].t = "assign"
     THEN \/ /\ pc[c] = "done" /\ Answers("ready")
             /\ shard' = job[c].range
          \/ /\ pc[c] = "failed" /\ Answers("error")
             /\ UNCHANGED shard
     ELSE /\ tasks' = Tail(tasks)
          /\ UNCHANGED <<shard, told>>
  /\ Rests(c)

\* Nobody waits for the thread any more.
Discard(c) ==
  /\ pc[c] \in {"done", "failed"} /\ ~(up /\ c = conn)
  /\ Rests(c)
  /\ UNCHANGED <<tasks, shard, told>>

-----------------------------------------------------------------------------
TaskStep == SkipAssign \/ KeepShard \/ StartLoad \/ StartPrefetch

ThreadStep(c) ==
  \/ FetchSkips(c) \/ Fetched(c) \/ DropForeign(c) \/ Dropped(c)
  \/ Read(c) \/ Fingerprint(c) \/ Report(c) \/ Discard(c)
  \/ \E l \in Layer : Open(c, l) \/ Finish(c, l)

IONext ==
  \/ Connect \/ Drop \/ Crash \/ TaskStep
  \/ \E t \in {"assign", "prefetch"}, r \in Asked : Spawn(t, r)
  \/ \E c \in Conns : \/ ThreadStep(c)
                      \/ \E l \in Layer : DownloadFails(c, l)

IOSpec == IOInit /\ [][IONext]_vars

\* Coroutines and threads run on, and the hub's HTTP server ends each transfer
\* (urlretrieve has no timeout of its own).
FairIOSpec ==
  /\ IOSpec
  /\ WF_vars(TaskStep)
  /\ \A c \in Conns : WF_vars(ThreadStep(c))

-----------------------------------------------------------------------------
(***************************************************************************)
(* Properties.                                                             *)
(***************************************************************************)

\* fetch: "Downloads land in a .part file first so a socket drop mid-transfer
\* never leaves a truncated shard that looks complete".  Holds, crashes and broken
\* transfers included, as long as no two threads ever opened one .part file.
FilesWhole == "shared" \in past \/ \A l \in OnDisk : file[l].whole

\* A load or prefetch fails (and is answered with an error) only if a transfer of
\* its own broke, or two threads were once on the directory together: what earlier
\* tasks, drops and crashes leave behind never makes the next load fail.
FailuresHaveCause ==
  \A c \in Conns : pc[c] = "failed" => hurt[c] \/ "overlap" \in past

\* on_assign: "only the newest one is worth loading".  When nothing is left to do
\* on a connection, its newest assign, whatever was skipped or failed before it,
\* has its answer, and what is loaded is what that answer says.
NewestWins ==
  up /\ tasks = <<>> /\ newest # NoTask =>
    \/ told = "ready" /\ shard = newest.range
    \/ told = "error" /\ shard = {}

\* The hub replaces its list of a node's files by the one in ready: the layers a
\* node serves stay on its disk, prefetches for other plans notwithstanding,
\* unless a thread of an earlier connection was at work.
ServedStaysOnDisk == "overlap" \in past \/ shard \subseteq OnDisk

InQueue(i) == \E k \in DOMAIN tasks : tasks[k].id = i

\* No task waits for the lock for ever, whatever fails before it.
TasksEnd == \A i \in TaskIds : InQueue(i) ~> ~InQueue(i)
=============================================================================
