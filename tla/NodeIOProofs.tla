---------------------------- MODULE NodeIOProofs -----------------------------
(***************************************************************************)
(* What holds of NodeIO for every set of layers and ranges, both node      *)
(* programs and every number of connections, tasks and faults: its types,  *)
(* that no truncated file is ever taken for a complete one, that the       *)
(* newest assign has the last word, that a load fails only for a cause of  *)
(* its own and that what is served stays on disk.                          *)
(*                                                                         *)
(* None of these is inductive.  That a rename moves a whole file rests on  *)
(* who opened the inode last (WritersOwn); that no older assign has the    *)
(* last word on the order of the lock (NewestInv); the other two on what a *)
(* thread that is alone finds on disk at each of its steps (AloneInv).     *)
(***************************************************************************)
EXTENDS NodeIO, SequenceTheorems, FiniteSetTheorems, TLAPS

\* Tasks belong to the open connection.
TasksOfConn == /\ up => conn \in Conns
               /\ tasks # <<>> => up

\* Every open download writes to the .part file it truncated.
WritersOwn ==
  \A c \in Conns, l \in Layer :
    fd[c][l] # "none" => fd[c][l] = "part" /\ part[l].by = c

\* What a descriptor writes to exists, unless it was removed.
OpenHasInode ==
  \A c \in Conns, l \in Layer :
    /\ fd[c][l] = "part" => part[l] # NoFile
    /\ fd[c][l] = "file" => file[l] # NoFile

TypeInv == IOTypeOK /\ TasksOfConn /\ OpenHasInode

\* A thread of the open connection works for the task that holds its lock.
ThreadHasTask ==
  /\ \A c \in Conns : c > conn => ~Running(c)
  /\ up /\ Running(conn) => tasks # <<>> /\ Head(tasks) = job[conn]

DiskInv == "shared" \in past \/ (WritersOwn /\ \A l \in OnDisk : file[l].whole)

-----------------------------------------------------------------------------
\* A task asks for layers of the model.
LEMMA TaskRange ==
  ASSUME NEW t \in Task \cup {NoTask}
  PROVE  t.range \in SUBSET Layer
BY AskedAssumption DEF Task, NoTask

\* A task is not the absence of one.
LEMMA TaskNamed == \A t \in Task : t # NoTask
BY DEF Task, NoTask

\* A connection with tasks is current, and its first task is a task.
LEMMA HeadTask ==
  ASSUME TypeInv, tasks # <<>>
  PROVE  /\ Head(tasks) \in Task /\ Tail(tasks) \in Seq(Task)
         /\ up /\ conn \in Conns
BY HeadTailProperties DEF TypeInv, IOTypeOK, TasksOfConn

\* What is not a whole inode with its owner is none at all.
LEMMA InodeTyped ==
  ASSUME NEW c \in Conns, NEW n \in Inode \cup {NoFile}, NEW m \in Filled(n, c)
  PROVE  m \in Inode \cup {NoFile} \/ n = NoFile
BY DEF Inode, NoFile, Filled

\* Answering takes the first task off.
LEMMA AnswersTyped ==
  ASSUME TypeInv, tasks # <<>>, NEW a \in Answer, Answers(a)
  PROVE  told' \in Answer /\ tasks' \in Seq(Task)
BY HeadTask DEF Answers, TypeInv, IOTypeOK

\* The steps of a connection.
LEMMA LinkTyped ==
  ASSUME TypeInv, Connect \/ Drop \/ Crash
  PROVE  TypeInv'
<1> USE DEF TypeInv, IOTypeOK, TasksOfConn, OpenHasInode, linkVars, threadVars,
            diskVars, pastVars
<1>1. CASE Connect
  <2>1. conn' \in Conns /\ conn' \in 0 .. MaxConn /\ up' \in BOOLEAN
    BY <1>1, IOBoundsAssumption DEF Connect, Conns
  <2>2. newest' \in Task \cup {NoTask} /\ told' \in Answer
    BY <1>1 DEF Connect, Answer
  <2>3. tasks' = tasks /\ tasks = <<>>
    BY <1>1 DEF Connect
  <2>4. UNCHANGED <<keeps, shard, pc, job, bad, todo, fd, part, file, sent, past,
                    hurt, faults>>
    BY <1>1 DEF Connect
  <2> QED
    BY <2>1, <2>2, <2>3, <2>4 DEF Running
<1>2. CASE Drop \/ Crash
  <2>1. up' = FALSE /\ tasks' = <<>> /\ shard' = {}
    BY <1>2 DEF Drop, Crash, Closes
  <2> up' \in BOOLEAN /\ ~up'
    BY <2>1
  <2> tasks' \in Seq(Task)
    BY <2>1
  <2> faults' \in 0 .. MaxFaults
    BY <1>2, IOBoundsAssumption DEF Drop, Crash, Fault
  <2>2. /\ pc' \in [Conns -> Steps] /\ bad' \in [Conns -> BOOLEAN]
        /\ job' \in [Conns -> Task \cup {NoTask}]
        /\ todo' \in [Conns -> SUBSET Layer]
        /\ fd' \in [Conns -> [Layer -> Targets]]
        /\ hurt' \in [Conns -> BOOLEAN]
    <3>1. CASE Drop
      BY <3>1 DEF Drop
    <3>2. CASE Crash
      BY <3>2 DEF Crash, Steps, Closed, Targets
    <3> QED
      BY <1>2, <3>1, <3>2
  <2>3. \A c \in Conns : Running(c)' => job'[c] # NoTask
    BY <1>2 DEF Drop, Crash, Running
  <2>4. OpenHasInode'
    BY <1>2 DEF Drop, Crash, Closed, OpenHasInode
  <2>5. UNCHANGED <<keeps, conn, newest, part, file, sent, told, past>>
    BY <1>2 DEF Drop, Crash
  <2> QED
    BY <2>1, <2>2, <2>3, <2>4, <2>5
<1> QED
  BY <1>1, <1>2

\* A task is spawned.
LEMMA SpawnTyped ==
  ASSUME TypeInv, NEW t \in {"assign", "prefetch"}, NEW r \in Asked, Spawn(t, r)
  PROVE  TypeInv'
<1> DEFINE new == [t |-> t, range |-> r, id |-> sent + 1]
<1>1. new \in Task /\ sent' \in 0 .. MaxTasks
  BY IOBoundsAssumption DEF Spawn, TypeInv, IOTypeOK, Task, TaskIds
<1>2. /\ tasks' = Append(tasks, new)
      /\ newest' \in {new, newest} /\ told' \in {"none", told}
  BY DEF Spawn
<1>3. tasks' \in Seq(Task)
  BY <1>1, <1>2, AppendProperties DEF TypeInv, IOTypeOK
<1>4. newest' \in Task \cup {NoTask} /\ told' \in Answer
  BY <1>1, <1>2 DEF TypeInv, IOTypeOK, Answer
<1> QED
  BY <1>1, <1>3, <1>4
     DEF Spawn, TypeInv, IOTypeOK, TasksOfConn, OpenHasInode, Running, threadVars, diskVars,
         pastVars

\* Starting the thread for the first task.
LEMMA StartTyped ==
  ASSUME TypeInv, tasks # <<>>, shard' \in SUBSET Layer, Start(Head(tasks))
  PROVE  TypeInv'
<1> USE DEF TypeInv, IOTypeOK, Start, linkVars, threadVars, diskVars
<1>1. Head(tasks) \in Task /\ conn \in Conns /\ Head(tasks) # NoTask
  BY HeadTask, TaskNamed
<1>2. Head(tasks).range \in SUBSET Layer
  BY <1>1, TaskRange
<1>3. pc' \in [Conns -> Steps] /\ job' \in [Conns -> Task \cup {NoTask}]
  BY <1>1 DEF Steps
<1>4. \A c \in Conns : Running(c)' => job'[c] # NoTask
  BY <1>1 DEF Running
<1>5. todo' \in [Conns -> SUBSET Layer]
  BY <1>2
<1>6. past' \in SUBSET {"overlap", "shared"}
  OBVIOUS
<1>7. UNCHANGED <<keeps, conn, up, newest, tasks, bad, fd, part, file, sent,
                  told, hurt, faults>>
  OBVIOUS
<1> QED
  BY <1>3, <1>4, <1>5, <1>6, <1>7 DEF TasksOfConn, OpenHasInode

\* What the task that holds the lock may do.
LEMMA TaskStepTyped ==
  ASSUME TypeInv, TaskStep
  PROVE  TypeInv'
<1>1. tasks # <<>>
  BY DEF TaskStep, SkipAssign, KeepShard, StartLoad, StartPrefetch, Holds
<1>2. CASE SkipAssign
  BY <1>1, <1>2, HeadTask
     DEF SkipAssign, TypeInv, IOTypeOK, TasksOfConn, OpenHasInode, Running, linkVars,
         threadVars, diskVars, pastVars
<1>3. CASE KeepShard
  <2>1. told' \in Answer /\ tasks' \in Seq(Task)
    BY <1>1, <1>3, AnswersTyped DEF KeepShard, Answer
  <2> QED
    BY <1>1, <1>3, <2>1, HeadTask
       DEF KeepShard, TypeInv, IOTypeOK, TasksOfConn, OpenHasInode, Running, linkVars,
           threadVars, diskVars, pastVars
<1>4. CASE StartLoad
  BY <1>1, <1>4, StartTyped DEF StartLoad
<1>5. CASE StartPrefetch
  BY <1>1, <1>5, StartTyped DEF StartPrefetch, TypeInv, IOTypeOK
<1> QED
  BY <1>2, <1>3, <1>4, <1>5 DEF TaskStep

\* A thread goes on to step p with layers S left.
LEMMA GoesTyped ==
  ASSUME TypeInv, NEW c \in Conns, Running(c), NEW p \in Steps,
         NEW S \in SUBSET Layer, Goes(c, p, S), UNCHANGED job
  PROVE  /\ pc' \in [Conns -> Steps] /\ todo' \in [Conns -> SUBSET Layer]
         /\ \A d \in Conns : Running(d)' => job'[d] # NoTask
BY DEF TypeInv, IOTypeOK, Goes, Running

\* Steps of a thread that only move it on.
LEMMA MovesTyped ==
  ASSUME TypeInv, NEW c \in Conns,
         \/ FetchSkips(c) \/ Fetched(c) \/ Dropped(c) \/ Read(c)
         \/ Fingerprint(c)
  PROVE  TypeInv'
<1> USE DEF TypeInv, IOTypeOK, linkVars, diskVars, pastVars
<1>1. job[c].range \in SUBSET Layer /\ todo[c] \in SUBSET Layer
  BY TaskRange
<1>2. /\ pc' \in [Conns -> Steps] /\ todo' \in [Conns -> SUBSET Layer]
      /\ \A d \in Conns : Running(d)' => job'[d] # NoTask
  <2>1. CASE FetchSkips(c)
    BY <1>1, <2>1 DEF FetchSkips, Running
  <2>2. CASE Fetched(c)
    <3>1. PICK p \in Steps, S \in SUBSET Layer : Goes(c, p, S)
      BY <1>1, <2>2 DEF Fetched, Steps, OnDisk
    <3> QED
      BY <2>2, <3>1, GoesTyped DEF Fetched, Running
  <2>3. CASE Dropped(c)
    BY <1>1, <2>3, GoesTyped DEF Dropped, Running, Steps
  <2>4. CASE Read(c)
    <3>1. PICK p \in Steps, S \in SUBSET Layer : Goes(c, p, S)
      BY <1>1, <2>4 DEF Read, Steps
    <3> QED
      BY <2>4, <3>1, GoesTyped DEF Read, Running
  <2>5. CASE Fingerprint(c)
    <3>1. PICK p \in Steps, S \in SUBSET Layer : Goes(c, p, S)
      BY <1>1, <2>5 DEF Fingerprint, Steps
    <3> QED
      BY <2>5, <3>1, GoesTyped DEF Fingerprint, Running
  <2> QED
    BY <2>1, <2>2, <2>3, <2>4, <2>5
<1>3. UNCHANGED <<keeps, linkVars, tasks, shard, job, bad, fd, diskVars, sent,
                  told, pastVars, faults>>
  BY DEF FetchSkips, Fetched, Dropped, Read, Fingerprint
<1> QED
  BY <1>2, <1>3 DEF TasksOfConn, OpenHasInode

\* A download begins.
LEMMA OpenTyped ==
  ASSUME TypeInv, NEW c \in Conns, NEW l \in Layer, Open(c, l)
  PROVE  TypeInv'
<1> USE DEF TypeInv, IOTypeOK, Open, OpenPart, linkVars
<1>1. todo' \in [Conns -> SUBSET Layer]
  OBVIOUS
<1>2. part' \in [Layer -> Inode \cup {NoFile}]
  BY DEF Inode
<1>3. fd' \in [Conns -> [Layer -> Targets]]
  BY DEF Targets
<1>4. past' \in SUBSET {"overlap", "shared"}
  OBVIOUS
<1>5. OpenHasInode'
  <2>1. part'[l] # NoFile
    BY DEF NoFile, Conns
  <2> QED
    BY <2>1 DEF OpenHasInode
<1> QED
  BY <1>1, <1>2, <1>3, <1>4, <1>5 DEF TasksOfConn, Running

\* Descriptors after a rename.
LEMMA RenamedTyped ==
  ASSUME TypeInv, NEW l \in Layer
  PROVE  /\ Renamed(l) \in [Conns -> [Layer -> Targets]]
         /\ \A d \in Conns, k \in Layer :
              Renamed(l)[d][k] = IF k # l THEN fd[d][k]
                                 ELSE IF fd[d][l] = "part" THEN "file"
                                 ELSE IF fd[d][l] = "file" THEN "gone"
                                 ELSE fd[d][l]
BY DEF TypeInv, IOTypeOK, Renamed, Targets

\* The last opener of an inode completes it.
LEMMA FilledTyped ==
  ASSUME NEW c \in Conns, NEW n \in Inode, NEW m \in Filled(n, c)
  PROVE  m \in Inode /\ m # NoFile /\ (n.by = c => m.whole)
<1>1. PICK w \in (IF n.by = c \/ n.whole THEN {TRUE} ELSE BOOLEAN) :
        m = [n EXCEPT !.whole = w]
  BY DEF Filled
<1>2. w \in BOOLEAN /\ n = [by |-> n.by, whole |-> n.whole] /\ n.by \in Conns
  BY <1>1 DEF Inode
<1>3. m = [by |-> n.by, whole |-> w]
  BY <1>1, <1>2
<1>4. m.by # 0 /\ m \in Inode
  BY <1>2, <1>3 DEF Inode, Conns
<1>5. n.by = c => m.whole
  BY <1>1, <1>3
<1> QED
  BY <1>4, <1>5 DEF NoFile

\* A download ends.
LEMMA FinishTyped ==
  ASSUME TypeInv, NEW c \in Conns, NEW l \in Layer, Finish(c, l)
  PROVE  TypeInv'
<1> USE DEF TypeInv, IOTypeOK, OpenHasInode
<1>1. PICK p \in IF fd[c][l] = "part" THEN Filled(part[l], c) ELSE {part[l]},
           f \in IF fd[c][l] = "file" THEN Filled(file[l], c) ELSE {file[l]} :
        IF p # NoFile
        THEN /\ file' = [file EXCEPT ![l] = p]
             /\ part' = [part EXCEPT ![l] = NoFile]
             /\ fd' = [Renamed(l) EXCEPT ![c][l] = "none"]
             /\ UNCHANGED bad
        ELSE /\ file' = [file EXCEPT ![l] = f]
             /\ fd' = [fd EXCEPT ![c][l] = "none"]
             /\ Failure(c)
             /\ UNCHANGED part
  BY DEF Finish
<1>2. p \in Inode \cup {NoFile} /\ f \in Inode \cup {NoFile}
  BY <1>1, FilledTyped
<1>3. fd[c][l] = "file" => f # NoFile
  BY <1>1, FilledTyped
<1>4. CASE p # NoFile
  <2>1. /\ file' = [file EXCEPT ![l] = p]
        /\ part' = [part EXCEPT ![l] = NoFile]
        /\ fd' = [Renamed(l) EXCEPT ![c][l] = "none"]
        /\ UNCHANGED bad
    BY <1>1, <1>4
  <2>2. /\ file' \in [Layer -> Inode \cup {NoFile}]
        /\ part' \in [Layer -> Inode \cup {NoFile}]
        /\ fd' \in [Conns -> [Layer -> Targets]]
    BY <1>2, <2>1, RenamedTyped DEF Targets
  <2>3. OpenHasInode'
    BY <1>4, <2>1, RenamedTyped
  <2> QED
    BY <2>1, <2>2, <2>3 DEF Finish, TasksOfConn, Running, linkVars, pastVars
<1>5. CASE p = NoFile
  <2>1. /\ file' = [file EXCEPT ![l] = f]
        /\ fd' = [fd EXCEPT ![c][l] = "none"]
        /\ bad' = [bad EXCEPT ![c] = TRUE]
        /\ UNCHANGED part
    BY <1>1, <1>5 DEF Failure
  <2>2. /\ file' \in [Layer -> Inode \cup {NoFile}]
        /\ fd' \in [Conns -> [Layer -> Targets]]
        /\ bad' \in [Conns -> BOOLEAN]
    BY <1>2, <2>1 DEF Targets
  <2>3. fd[c][l] # "file" => f = file[l]
    BY <1>1
  <2>4. OpenHasInode'
    <3> SUFFICES ASSUME NEW d \in Conns, NEW k \in Layer
                 PROVE  /\ fd'[d][k] = "part" => part'[k] # NoFile
                        /\ fd'[d][k] = "file" => file'[k] # NoFile
      BY DEF OpenHasInode
    <3>1. CASE k = l /\ d = c
      BY <2>1, <3>1
    <3>2. CASE k # l
      BY <2>1, <3>2
    <3>3. CASE k = l /\ d # c
      BY <1>3, <2>1, <2>3, <3>3
    <3> QED
      BY <3>1, <3>2, <3>3
  <2> QED
    BY <2>1, <2>2, <2>4 DEF Finish, TasksOfConn, Running, linkVars, pastVars
<1> QED
  BY <1>4, <1>5

\* A download breaks.
LEMMA DownloadFailsTyped ==
  ASSUME TypeInv, NEW c \in Conns, NEW l \in Layer, DownloadFails(c, l)
  PROVE  TypeInv'
<1> USE DEF TypeInv, IOTypeOK, DownloadFails
<1>1. fd' \in [Conns -> [Layer -> Targets]] /\ OpenHasInode'
  BY DEF Targets, OpenHasInode, diskVars
<1>2. bad' \in [Conns -> BOOLEAN]
  BY DEF Failure
<1>3. hurt' \in [Conns -> BOOLEAN]
  OBVIOUS
<1>4. faults' \in 0 .. MaxFaults
  BY IOBoundsAssumption DEF Fault
<1> QED
  BY <1>1, <1>2, <1>3, <1>4 DEF TasksOfConn, Running, linkVars, diskVars

\* A foreign file is removed.
LEMMA DropForeignTyped ==
  ASSUME TypeInv, NEW c \in Conns, DropForeign(c)
  PROVE  TypeInv'
<1> USE DEF TypeInv, IOTypeOK
<1> DEFINE l == First(todo[c])
<1>1. /\ pc' \in [Conns -> Steps] /\ todo' \in [Conns -> SUBSET Layer]
      /\ \A d \in Conns : Running(d)' => job'[d] # NoTask
  <2>1. PICK p \in Steps, S \in SUBSET Layer : Goes(c, p, S)
    BY DEF DropForeign, Steps
  <2> QED
    BY <2>1, GoesTyped DEF DropForeign, Running
<1>2. CASE Exists(l)
  <2>1. /\ file' = [file EXCEPT ![l] = NoFile] /\ UNCHANGED part
        /\ fd' = [d \in Conns |-> [fd[d] EXCEPT ![l] =
                     IF @ = "file" THEN "gone" ELSE @]]
    BY <1>2 DEF DropForeign
  <2>2. file' \in [Layer -> Inode \cup {NoFile}]
    BY <2>1
  <2>3. fd' \in [Conns -> [Layer -> Targets]]
    BY <2>1 DEF Targets
  <2>4. OpenHasInode'
    BY <2>1 DEF OpenHasInode
  <2> QED
    BY <1>1, <2>1, <2>2, <2>3, <2>4
       DEF DropForeign, TasksOfConn, linkVars, pastVars
<1>3. CASE ~Exists(l)
  BY <1>1, <1>3 DEF DropForeign, TasksOfConn, OpenHasInode, linkVars, pastVars
<1> QED
  BY <1>2, <1>3

\* A thread's slot is free again.
LEMMA RestsTyped ==
  ASSUME TypeInv, NEW c \in Conns, Rests(c)
  PROVE  /\ pc' \in [Conns -> Steps] /\ job' \in [Conns -> Task \cup {NoTask}]
         /\ bad' \in [Conns -> BOOLEAN] /\ hurt' \in [Conns -> BOOLEAN]
         /\ \A d \in Conns : Running(d)' => job'[d] # NoTask
         /\ UNCHANGED <<keeps, linkVars, todo, fd, diskVars, sent, past, faults>>
BY DEF TypeInv, IOTypeOK, Rests, Running, Steps

\* The thread's work is answered, or discarded.
LEMMA ReportTyped ==
  ASSUME TypeInv, ThreadHasTask, NEW c \in Conns, Report(c) \/ Discard(c)
  PROVE  TypeInv'
<1> USE DEF TypeInv, IOTypeOK
<1>1. Rests(c)
  BY DEF Report, Discard
<1>2. /\ shard' \in SUBSET Layer /\ told' \in Answer /\ tasks' \in Seq(Task)
      /\ tasks' # <<>> => tasks # <<>>
  <2>1. CASE Discard(c)
    BY <2>1 DEF Discard
  <2>2. CASE Report(c)
    <3>1. tasks # <<>>
      BY <2>2 DEF Report, ThreadHasTask, Running
    <3>2. shard' \in SUBSET Layer
      BY <2>2, TaskRange DEF Report
    <3>3. told' \in Answer
      BY <2>2, <3>1, AnswersTyped DEF Report, Answer
    <3>4. tasks' \in Seq(Task)
      BY <2>2, <3>1, HeadTask DEF Report, Answers
    <3> QED
      BY <3>1, <3>2, <3>3, <3>4
  <2> QED
    BY <2>1, <2>2
<1>3. TasksOfConn'
  BY <1>1, <1>2 DEF TasksOfConn, Rests, linkVars
<1>4. OpenHasInode'
  BY <1>1 DEF OpenHasInode, Rests, diskVars
<1> QED
  BY <1>1, <1>2, <1>3, <1>4, RestsTyped DEF linkVars, diskVars

-----------------------------------------------------------------------------
\* Steps of threads that leave connection, tasks and jobs alone.
LEMMA ThreadMoves ==
  ASSUME ThreadHasTask, UNCHANGED <<conn, up, tasks, job>>,
         \A c \in Conns : Running(c)' => Running(c),
         conn \notin Conns => ~up
  PROVE  ThreadHasTask'
BY DEF ThreadHasTask

\* Every step keeps the thread of the connection with its task.
LEMMA ThreadKept ==
  ASSUME TypeInv, ThreadHasTask, [IONext]_vars
  PROVE  ThreadHasTask'
<1> USE DEF TypeInv, IOTypeOK
<1>1. CASE UNCHANGED vars
  BY <1>1 DEF vars, linkVars, threadVars, ThreadHasTask, Running
<1>2. CASE Connect
  <2>1. conn' = conn + 1 /\ conn' \in Conns /\ pc' = pc
    BY <1>2, IOBoundsAssumption DEF Connect, threadVars, Conns
  <2>2. \A c \in Conns : c > conn => ~Running(c)
    BY DEF ThreadHasTask
  <2>3. pc'[conn'] = "idle"
    BY <2>1, <2>2 DEF Running, Conns
  <2> QED
    BY <2>1, <2>2, <2>3 DEF ThreadHasTask, Running, Conns
<1>3. CASE Drop
  BY <1>3 DEF Drop, Closes, threadVars, ThreadHasTask, Running
<1>4. CASE Crash
  BY <1>4 DEF Crash, Closes, ThreadHasTask, Running
<1>5. ASSUME NEW t \in {"assign", "prefetch"}, NEW r \in Asked, Spawn(t, r)
      PROVE  ThreadHasTask'
  <2> DEFINE new == [t |-> t, range |-> r, id |-> sent + 1]
  <2>1. tasks' = Append(tasks, new) /\ new \in Task
    BY <1>5, IOBoundsAssumption DEF Spawn, Task, TaskIds
  <2>2. tasks # <<>> => tasks' # <<>> /\ Head(tasks') = Head(tasks)
    BY <2>1, AppendProperties
  <2>3. UNCHANGED <<conn, up, pc, job>>
    BY <1>5 DEF Spawn, threadVars
  <2> QED
    BY <2>2, <2>3 DEF ThreadHasTask, Running
<1>6. CASE TaskStep
  <2>1. /\ tasks # <<>> /\ pc[conn] = "idle"
        /\ UNCHANGED <<conn, up>>
    BY <1>6 DEF TaskStep, SkipAssign, KeepShard, StartLoad, StartPrefetch, Holds,
                Start, linkVars
  <2>2. conn \in Conns
    BY <2>1, HeadTask
  <2>3. CASE SkipAssign \/ KeepShard
    <3>1. UNCHANGED <<pc, job>>
      BY <2>3 DEF SkipAssign, KeepShard, threadVars
    <3> QED
      BY <2>1, <3>1 DEF ThreadHasTask, Running
  <2>4. CASE Start(Head(tasks))
    BY <2>1, <2>2, <2>4 DEF Start, ThreadHasTask, Running, Conns
  <2> QED
    BY <1>6, <2>3, <2>4 DEF TaskStep, StartLoad, StartPrefetch
<1>7. ASSUME NEW c \in Conns,
             \/ FetchSkips(c) \/ Fetched(c) \/ DropForeign(c) \/ Dropped(c)
             \/ Read(c) \/ Fingerprint(c)
             \/ \E l \in Layer : Open(c, l) \/ Finish(c, l) \/ DownloadFails(c, l)
      PROVE  ThreadHasTask'
  <2>1. UNCHANGED <<conn, up, tasks, job>>
    BY <1>7 DEF FetchSkips, Fetched, DropForeign, Dropped, Read, Fingerprint,
                Open, Finish, DownloadFails, linkVars
  <2>2. pc' = pc \/ (Running(c) /\ \E p : pc' = [pc EXCEPT ![c] = p])
    BY <1>7 DEF FetchSkips, Fetched, DropForeign, Dropped, Read, Fingerprint,
                Open, Finish, DownloadFails, Goes, Running
  <2>3. \A d \in Conns : Running(d)' => Running(d)
    BY <2>2 DEF Running
  <2> QED
    BY <2>1, <2>3, ThreadMoves DEF TasksOfConn
<1>8. ASSUME NEW c \in Conns, Report(c) \/ Discard(c)
      PROVE  ThreadHasTask'
  <2>1. /\ UNCHANGED <<conn, up>> /\ ~Running(c)'
        /\ \A d \in Conns : d # c => pc'[d] = pc[d] /\ job'[d] = job[d]
    BY <1>8 DEF Report, Discard, Rests, linkVars, Running
  <2>2. CASE Report(c)
    BY <2>1, <2>2 DEF Report, ThreadHasTask, Running
  <2>3. CASE Discard(c)
    <3>1. tasks' = tasks /\ ~(up /\ c = conn)
      BY <2>3 DEF Discard
    <3> QED
      BY <2>1, <3>1 DEF ThreadHasTask, Running, TasksOfConn
  <2> QED
    BY <1>8, <2>2, <2>3
<1> QED
  BY <1>1, <1>2, <1>3, <1>4, <1>5, <1>6, <1>7, <1>8 DEF IONext, ThreadStep

\* Every step keeps the types.
LEMMA StepTyped ==
  ASSUME TypeInv, ThreadHasTask, [IONext]_vars
  PROVE  TypeInv'
<1>1. CASE UNCHANGED vars
  BY <1>1 DEF vars, linkVars, threadVars, diskVars, pastVars, TypeInv, IOTypeOK,
              TasksOfConn, OpenHasInode, Running
<1>2. CASE Connect \/ Drop \/ Crash
  BY <1>2, LinkTyped
<1>3. CASE TaskStep
  BY <1>3, TaskStepTyped
<1>4. CASE \E t \in {"assign", "prefetch"}, r \in Asked : Spawn(t, r)
  BY <1>4, SpawnTyped
<1>5. CASE \E c \in Conns : ThreadStep(c)
  BY <1>5, MovesTyped, DropForeignTyped, ReportTyped, OpenTyped, FinishTyped
     DEF ThreadStep
<1>6. CASE \E c \in Conns, l \in Layer : DownloadFails(c, l)
  BY <1>6, DownloadFailsTyped
<1> QED
  BY <1>1, <1>2, <1>3, <1>4, <1>5, <1>6 DEF IONext

\* A node that was just started.
LEMMA InitIO == IOInit => TypeInv /\ ThreadHasTask /\ DiskInv
<1> SUFFICES ASSUME IOInit PROVE TypeInv /\ ThreadHasTask /\ DiskInv
  OBVIOUS
<1> USE DEF IOInit
<1>1. keeps \in BOOLEAN /\ up \in BOOLEAN /\ ~up
  BY ProgramsAssumption
<1>2. /\ conn \in 0 .. MaxConn /\ sent \in 0 .. MaxTasks
      /\ faults \in 0 .. MaxFaults
  BY IOBoundsAssumption
<1>3. tasks \in Seq(Task)
  OBVIOUS
<1>4. /\ pc \in [Conns -> Steps] /\ job \in [Conns -> Task \cup {NoTask}]
      /\ bad \in [Conns -> BOOLEAN] /\ todo \in [Conns -> SUBSET Layer]
      /\ fd \in [Conns -> [Layer -> Targets]] /\ hurt \in [Conns -> BOOLEAN]
  BY DEF Steps, Closed, Targets
<1>5. \A c \in Conns : ~Running(c)
  BY DEF Running
<1>6. \A c \in Conns, l \in Layer : fd[c][l] = "none"
  BY DEF Closed
<1>7. OnDisk = {}
  BY DEF OnDisk, Exists
<1>8. TypeInv
  BY <1>1, <1>2, <1>3, <1>4, <1>5, <1>6
     DEF TypeInv, IOTypeOK, TasksOfConn, OpenHasInode, Answer
<1> QED
  BY <1>1, <1>5, <1>6, <1>7, <1>8 DEF ThreadHasTask, DiskInv, WritersOwn

\* The types, and what they need of the threads, hold throughout.
LEMMA TypeInvariant == IOSpec => [](TypeInv /\ ThreadHasTask)
<1>1. TypeInv /\ ThreadHasTask /\ [IONext]_vars => (TypeInv /\ ThreadHasTask)'
  BY StepTyped, ThreadKept
<1> QED
  BY <1>1, InitIO, PTL DEF IOSpec

\* For every model, both node programs and any number of connections, tasks and
\* faults: the answers a node gives belong to tasks it holds, threads that
\* outlive their connection never act on a newer one's tasks, and descriptors
\* write to inodes that exist.
THEOREM IOTypeCorrect == IOSpec => []IOTypeOK
<1>1. TypeInv => IOTypeOK
  BY DEF TypeInv
<1> QED
  BY <1>1, TypeInvariant, PTL

-----------------------------------------------------------------------------
(***************************************************************************)
(* No truncated file is taken for a complete one.                          *)
(***************************************************************************)

\* Steps that close descriptors at most.
LEMMA DiskUndisturbed ==
  ASSUME DiskInv, UNCHANGED <<part, file>>, past \subseteq past',
         \A c \in Conns, l \in Layer : fd'[c][l] \in {"none", fd[c][l]}
  PROVE  DiskInv'
BY DEF DiskInv, WritersOwn, OnDisk, Exists

\* A new writer truncates what nobody writes to, or the file is shared.
LEMMA OpenKeepsDisk ==
  ASSUME TypeInv, DiskInv, NEW c \in Conns, NEW l \in Layer, Open(c, l)
  PROVE  DiskInv'
<1> USE DEF TypeInv, IOTypeOK
<1>1. /\ part' = [part EXCEPT ![l] = [by |-> c, whole |-> FALSE]]
      /\ fd' = [fd EXCEPT ![c][l] = "part"] /\ UNCHANGED file
      /\ past' = IF \E d \in Conns : fd[d][l] = "part" THEN past \cup {"shared"}
                 ELSE past
  BY DEF Open, OpenPart
<1>2. CASE "shared" \in past'
  BY <1>2 DEF DiskInv
<1>3. CASE "shared" \notin past'
  <2>1. WritersOwn /\ \A k \in OnDisk : file[k].whole
    BY <1>1, <1>3 DEF DiskInv
  <2>2. \A d \in Conns : fd[d][l] = "none"
    BY <1>1, <1>3, <2>1 DEF WritersOwn
  <2>3. WritersOwn'
    BY <1>1, <2>1, <2>2 DEF WritersOwn
  <2> QED
    BY <1>1, <2>1, <2>3 DEF DiskInv, OnDisk, Exists
<1> QED
  BY <1>2, <1>3

\* The only writer of an inode has it whole when it renames it.
LEMMA FinishKeepsDisk ==
  ASSUME TypeInv, DiskInv, NEW c \in Conns, NEW l \in Layer, Finish(c, l)
  PROVE  DiskInv'
<1> USE DEF TypeInv, IOTypeOK
<1>1. past' = past /\ fd[c][l] # "none"
  BY DEF Finish, pastVars
<1>2. CASE "shared" \in past
  BY <1>1, <1>2 DEF DiskInv
<1>3. CASE "shared" \notin past
  <2>1. WritersOwn /\ \A k \in OnDisk : file[k].whole
    BY <1>3 DEF DiskInv
  <2>2. fd[c][l] = "part" /\ part[l].by = c /\ part[l] # NoFile
    BY <1>1, <2>1 DEF WritersOwn, OpenHasInode
  <2>3. \A d \in Conns : d # c => fd[d][l] = "none"
    BY <2>1, <2>2 DEF WritersOwn
  <2>4. \A p \in Filled(part[l], c) : p # NoFile /\ p.whole
    BY <2>2, FilledTyped
  <2>5. PICK p \in Filled(part[l], c) :
          /\ file' = [file EXCEPT ![l] = p]
          /\ part' = [part EXCEPT ![l] = NoFile]
          /\ fd' = [Renamed(l) EXCEPT ![c][l] = "none"]
    BY <2>2, <2>4 DEF Finish
  <2>6. \A k \in OnDisk' : file'[k].whole
    BY <2>1, <2>4, <2>5 DEF OnDisk, Exists
  <2>7. WritersOwn'
    <3>1. \A d \in Conns : fd'[d][l] = "none"
      <4>1. fd'[c][l] = "none"
        BY <2>5, RenamedTyped
      <4>2. ASSUME NEW d \in Conns, d # c PROVE fd'[d][l] = "none"
        <5>1. fd[d][l] = "none"
          BY <2>3, <4>2
        <5>2. Renamed(l)[d][l] = "none"
          BY <5>1 DEF Renamed
        <5> QED
          BY <2>5, <4>2, <5>2, RenamedTyped
      <4> QED
        BY <4>1, <4>2
    <3>2. \A d \in Conns, k \in Layer :
            k # l => fd'[d][k] = fd[d][k] /\ part'[k] = part[k]
      BY <2>5, RenamedTyped
    <3> QED
      BY <2>1, <3>1, <3>2 DEF WritersOwn
  <2> QED
    BY <2>6, <2>7 DEF DiskInv
<1> QED
  BY <1>2, <1>3

\* A removal takes nothing away that a download writes to.
LEMMA DropForeignKeepsDisk ==
  ASSUME TypeInv, DiskInv, NEW c \in Conns, DropForeign(c)
  PROVE  DiskInv'
<1> USE DEF TypeInv, IOTypeOK
<1> DEFINE l == First(todo[c])
<1>1. past' = past /\ part' = part
  BY DEF DropForeign, pastVars
<1>2. CASE ~Exists(l)
  BY <1>1, <1>2, DiskUndisturbed DEF DropForeign
<1>3. CASE Exists(l)
  <2>1. /\ file' = [file EXCEPT ![l] = NoFile]
        /\ fd' = [d \in Conns |-> [fd[d] EXCEPT ![l] =
                     IF @ = "file" THEN "gone" ELSE @]]
    BY <1>3 DEF DropForeign
  <2>2. CASE "shared" \in past
    BY <1>1, <2>2 DEF DiskInv
  <2>3. CASE "shared" \notin past
    <3>1. WritersOwn /\ \A k \in OnDisk : file[k].whole
      BY <2>3 DEF DiskInv
    <3>2. \A d \in Conns, k \in Layer : fd'[d][k] = fd[d][k]
      BY <2>1, <3>1 DEF WritersOwn
    <3>3. WritersOwn'
      BY <1>1, <3>1, <3>2 DEF WritersOwn
    <3>4. \A k \in OnDisk' : file'[k].whole
      BY <2>1, <3>1 DEF OnDisk, Exists
    <3> QED
      BY <3>3, <3>4 DEF DiskInv
  <2> QED
    BY <2>2, <2>3
<1> QED
  BY <1>2, <1>3

\* Every step keeps the disk in order.
LEMMA StepKeepsDisk ==
  ASSUME TypeInv, DiskInv, [IONext]_vars
  PROVE  DiskInv'
<1> USE DEF TypeInv, IOTypeOK
<1>1. CASE UNCHANGED vars
  BY <1>1, DiskUndisturbed DEF vars, threadVars, diskVars, pastVars
<1>2. CASE Connect \/ Drop \/ Crash
  BY <1>2, DiskUndisturbed
     DEF Connect, Drop, Crash, Closed, threadVars, diskVars, pastVars
<1>3. CASE TaskStep
  BY <1>3, DiskUndisturbed
     DEF TaskStep, SkipAssign, KeepShard, StartLoad, StartPrefetch, Start,
         threadVars, diskVars, pastVars
<1>4. CASE \E t \in {"assign", "prefetch"}, r \in Asked : Spawn(t, r)
  BY <1>4, DiskUndisturbed DEF Spawn, threadVars, diskVars, pastVars
<1>5. ASSUME NEW c \in Conns, ThreadStep(c)
      PROVE  DiskInv'
  <2>1. CASE \/ FetchSkips(c) \/ Fetched(c) \/ Dropped(c) \/ Read(c)
             \/ Fingerprint(c) \/ Report(c) \/ Discard(c)
    BY <2>1, DiskUndisturbed
       DEF FetchSkips, Fetched, Dropped, Read, Fingerprint, Report, Discard,
           Rests, diskVars, pastVars
  <2> QED
    BY <1>5, <2>1, DropForeignKeepsDisk, OpenKeepsDisk, FinishKeepsDisk
       DEF ThreadStep
<1>6. CASE \E c \in Conns, l \in Layer : DownloadFails(c, l)
  BY <1>6, DiskUndisturbed DEF DownloadFails, diskVars
<1> QED
  BY <1>1, <1>2, <1>3, <1>4, <1>5, <1>6 DEF IONext

\* For every model and whatever drops, crashes and breaks: unless two threads
\* once had one .part file open, every shard file on disk is complete.
THEOREM NoTruncatedShard == IOSpec => []FilesWhole
<1>1. DiskInv => FilesWhole
  BY DEF DiskInv, FilesWhole
<1>2. TypeInv /\ DiskInv /\ [IONext]_vars => DiskInv'
  BY StepKeepsDisk
<1> QED
  BY <1>1, <1>2, InitIO, TypeInvariant, PTL DEF IOSpec

-----------------------------------------------------------------------------
(***************************************************************************)
(* The newest assign of a connection has the last word.                    *)
(***************************************************************************)

\* The newest assign still waits, or has its lock.
NewestWaits == \E k \in DOMAIN tasks : tasks[k] = newest

\* It was answered, and what is loaded is what the answer says.
NewestAnswered ==
  \/ told = "ready" /\ shard = newest.range
  \/ told = "error" /\ shard = {}

\* NewestWins is not inductive: that an older assign never has the last word
\* rests on the order of the lock.  An assign that waits is the newest, or the
\* newest waits behind it; and what is loaded was given up before a load began.
NewestInv ==
  /\ newest # NoTask => newest.t = "assign"
  /\ up /\ newest # NoTask => NewestWaits \/ NewestAnswered
  /\ \A k \in DOMAIN tasks : tasks[k].t = "assign" =>
       newest # NoTask /\ \E j \in DOMAIN tasks : j >= k /\ tasks[j] = newest
  /\ up /\ Running(conn) /\ job[conn].t = "assign" => shard = {}

\* A queue without its head, position by position.
LEMMA TailOfTasks ==
  ASSUME TypeInv, tasks # <<>>, tasks' = Tail(tasks)
  PROVE  /\ DOMAIN tasks' = 1 .. (Len(tasks) - 1) /\ DOMAIN tasks = 1 .. Len(tasks)
         /\ Len(tasks) \in Nat /\ Head(tasks) = tasks[1]
         /\ \A k \in DOMAIN tasks' : k + 1 \in DOMAIN tasks /\ tasks'[k] = tasks[k + 1]
         /\ \A k \in DOMAIN tasks : k # 1 => k - 1 \in DOMAIN tasks' /\ tasks'[k - 1] = tasks[k]
<1>1. tasks \in Seq(Task)
  BY DEF TypeInv, IOTypeOK
<1>2. Len(tasks) \in Nat /\ Len(tasks) > 0 /\ DOMAIN tasks = 1 .. Len(tasks)
  BY <1>1, EmptySeq
<1>3. /\ Len(Tail(tasks)) = Len(tasks) - 1 /\ Head(tasks) = tasks[1]
      /\ DOMAIN Tail(tasks) = 1 .. (Len(tasks) - 1)
      /\ \A k \in 1 .. (Len(tasks) - 1) : Tail(tasks)[k] = tasks[k + 1]
  BY <1>1, <1>2
<1> QED
  BY <1>2, <1>3

\* The order of the lock survives when its first task ends.
LEMMA OrderKept ==
  ASSUME TypeInv, NewestInv, tasks # <<>>, tasks' = Tail(tasks), newest' = newest
  PROVE  /\ \A k \in DOMAIN tasks' : tasks'[k].t = "assign" =>
              newest # NoTask /\ \E j \in DOMAIN tasks' : j >= k /\ tasks'[j] = newest
         /\ NewestWaits /\ Head(tasks) # newest => NewestWaits'
         /\ Head(tasks).t = "assign" /\ Head(tasks) # newest => NewestWaits'
<1> USE TailOfTasks
<1>1. ASSUME NEW k \in DOMAIN tasks', tasks'[k].t = "assign"
      PROVE  newest # NoTask /\ \E j \in DOMAIN tasks' : j >= k /\ tasks'[j] = newest
  <2>1. k + 1 \in DOMAIN tasks /\ tasks[k + 1].t = "assign"
    BY <1>1
  <2>2. newest # NoTask
    BY <2>1 DEF NewestInv
  <2>3. PICK j \in DOMAIN tasks : j >= k + 1 /\ tasks[j] = newest
    BY <2>1 DEF NewestInv
  <2>4. j # 1 /\ j - 1 \in DOMAIN tasks' /\ tasks'[j - 1] = newest /\ j - 1 >= k
    BY <2>3
  <2> QED
    BY <2>2, <2>4
<1>2. NewestWaits /\ Head(tasks) # newest => NewestWaits'
  <2> SUFFICES ASSUME NewestWaits, tasks[1] # newest PROVE NewestWaits'
    OBVIOUS
  <2>1. PICK k \in DOMAIN tasks : tasks[k] = newest
    BY DEF NewestWaits
  <2>2. k - 1 \in DOMAIN tasks' /\ tasks'[k - 1] = newest'
    BY <2>1
  <2> QED
    BY <2>2 DEF NewestWaits
<1>3. Head(tasks).t = "assign" /\ Head(tasks) # newest => NewestWaits'
  <2> SUFFICES ASSUME tasks[1].t = "assign", tasks[1] # newest PROVE NewestWaits'
    OBVIOUS
  <2>1. 1 \in DOMAIN tasks
    BY EmptySeq DEF TypeInv, IOTypeOK
  <2>2. NewestWaits
    BY <2>1 DEF NewestInv, NewestWaits
  <2> QED
    BY <1>2, <2>2
<1> QED
  BY <1>1, <1>2, <1>3

\* Steps that leave the connection, its tasks and what is loaded alone.
LEMMA NewestUndisturbed ==
  ASSUME NewestInv, UNCHANGED <<up, tasks, newest, told, shard>>,
         up /\ Running(conn)' /\ job'[conn].t = "assign" => shard = {},
         conn' = conn
  PROVE  NewestInv'
BY DEF NewestInv, NewestWaits, NewestAnswered, Running

\* A task that is spawned waits behind all others.
LEMMA SpawnKeepsNewest ==
  ASSUME TypeInv, NewestInv, NEW t \in {"assign", "prefetch"}, NEW r \in Asked,
         Spawn(t, r)
  PROVE  NewestInv'
<1> DEFINE new == [t |-> t, range |-> r, id |-> sent + 1]
           n == Len(tasks)
<1>1. new \in Task /\ new # NoTask /\ new.t = t
  <2>1. new \in Task
    BY IOBoundsAssumption DEF Spawn, TypeInv, IOTypeOK, Task, TaskIds
  <2> QED
    BY <2>1, TaskNamed
<1>2. /\ tasks' = Append(tasks, new)
      /\ newest' = IF t = "assign" THEN new ELSE newest
      /\ told' = IF t = "assign" THEN "none" ELSE told
      /\ UNCHANGED <<conn, up, shard, pc, job>>
  BY DEF Spawn, threadVars
<1>3. /\ n \in Nat /\ DOMAIN tasks = 1 .. n /\ DOMAIN tasks' = 1 .. (n + 1)
      /\ tasks'[n + 1] = new /\ \A k \in DOMAIN tasks : tasks'[k] = tasks[k]
  BY <1>1, <1>2, AppendProperties DEF TypeInv, IOTypeOK
<1>4. newest' # NoTask => newest'.t = "assign"
  BY <1>1, <1>2 DEF NewestInv
<1>5. up' /\ newest' # NoTask => NewestWaits' \/ NewestAnswered'
  <2>1. CASE t = "assign"
    BY <1>2, <1>3, <2>1 DEF NewestWaits
  <2>2. CASE t # "assign"
    BY <1>2, <1>3, <2>2 DEF NewestInv, NewestWaits, NewestAnswered
  <2> QED
    BY <2>1, <2>2
<1>6. ASSUME NEW k \in DOMAIN tasks', tasks'[k].t = "assign"
      PROVE  newest' # NoTask /\ \E j \in DOMAIN tasks' : j >= k /\ tasks'[j] = newest'
  <2>1. CASE t = "assign"
    BY <1>1, <1>2, <1>3, <2>1
  <2>2. CASE t # "assign"
    <3>1. newest' = newest /\ k \in DOMAIN tasks /\ tasks[k].t = "assign"
      BY <1>1, <1>2, <1>3, <1>6, <2>2
    <3>2. newest # NoTask /\ \E j \in DOMAIN tasks : j >= k /\ tasks[j] = newest
      BY <3>1 DEF NewestInv
    <3> QED
      BY <1>3, <3>1, <3>2
  <2> QED
    BY <2>1, <2>2
<1>7. up' /\ Running(conn)' /\ job'[conn'].t = "assign" => shard' = {}
  BY <1>2 DEF NewestInv, Running
<1> QED
  BY <1>4, <1>5, <1>6, <1>7 DEF NewestInv

\* Whatever the first task does when it has the lock.
LEMMA TaskKeepsNewest ==
  ASSUME TypeInv, NewestInv, TaskStep
  PROVE  NewestInv'
<1>1. tasks # <<>> /\ pc[conn] = "idle" /\ UNCHANGED <<conn, up, newest>>
  BY DEF TaskStep, SkipAssign, KeepShard, StartLoad, StartPrefetch, Holds, Start, linkVars
<1>2. Head(tasks) \in Task /\ conn \in Conns /\ Head(tasks) # NoTask /\ up
  BY <1>1, HeadTask, TaskNamed
<1>3. CASE SkipAssign
  <2>1. /\ tasks' = Tail(tasks) /\ Head(tasks).t = "assign" /\ Head(tasks) # newest
        /\ UNCHANGED <<shard, told, pc, job>>
    BY <1>3 DEF SkipAssign, Holds, Superseded, threadVars
  <2> QED
    BY <1>1, <2>1, OrderKept DEF NewestInv, NewestWaits, Running
<1>4. CASE KeepShard
  <2>1. /\ tasks' = Tail(tasks) /\ Head(tasks) = newest /\ shard = newest.range
        /\ told' = "ready" /\ UNCHANGED <<shard, pc, job>>
    BY <1>4 DEF KeepShard, Holds, Superseded, Answers, threadVars
  <2>2. NewestAnswered'
    BY <1>1, <2>1 DEF NewestAnswered
  <2> QED
    BY <1>1, <2>1, <2>2, OrderKept DEF NewestInv, Running
<1>5. CASE StartLoad
  <2>1. /\ Head(tasks) = newest /\ shard' = {} /\ UNCHANGED <<tasks, told>>
    BY <1>5 DEF StartLoad, Superseded, Start
  <2>2. 1 \in DOMAIN tasks /\ tasks[1] = newest
    BY <1>1, <2>1, EmptySeq DEF TypeInv, IOTypeOK
  <2>3. NewestWaits'
    BY <1>1, <2>1, <2>2 DEF NewestWaits
  <2> QED
    BY <1>1, <2>1, <2>3 DEF NewestInv
<1>6. CASE StartPrefetch
  <2>1. /\ Head(tasks).t = "prefetch" /\ UNCHANGED <<tasks, told, shard>>
        /\ job' = [job EXCEPT ![conn] = Head(tasks)]
    BY <1>6 DEF StartPrefetch, Start, Holds
  <2>2. job'[conn].t = "prefetch"
    BY <1>2, <2>1 DEF TypeInv, IOTypeOK
  <2> QED
    BY <1>1, <2>1, <2>2, NewestUndisturbed
<1> QED
  BY <1>3, <1>4, <1>5, <1>6 DEF TaskStep

\* The answer of the thread that works for the first task.
LEMMA ReportKeepsNewest ==
  ASSUME TypeInv, ThreadHasTask, NewestInv, NEW c \in Conns, Report(c)
  PROVE  NewestInv'
<1>1. /\ c = conn /\ up /\ pc[c] \in {"done", "failed"} /\ Rests(c)
      /\ tasks # <<>> /\ Head(tasks) = job[c] /\ Running(conn)
  BY DEF Report, ThreadHasTask, Running
<1>2. /\ UNCHANGED <<conn, up, newest>> /\ ~Running(conn)'
  BY <1>1 DEF Rests, linkVars, Running, TypeInv, IOTypeOK
<1>3. tasks' = Tail(tasks)
  BY DEF Report, Answers
<1>4. newest # NoTask => NewestWaits' \/ NewestAnswered'
  <2> SUFFICES ASSUME newest # NoTask PROVE NewestWaits' \/ NewestAnswered'
    OBVIOUS
  <2>1. CASE job[c].t = "assign" /\ Head(tasks) = newest
    <3>1. shard = {}
      BY <1>1, <2>1 DEF NewestInv
    <3> QED
      BY <1>1, <1>2, <2>1, <3>1 DEF Report, Answers, NewestAnswered
  <2>2. CASE job[c].t = "assign" /\ Head(tasks) # newest
    BY <1>1, <1>2, <1>3, <2>2, OrderKept
  <2>3. CASE job[c].t # "assign"
    <3>1. UNCHANGED <<shard, told>>
      BY <2>3 DEF Report
    <3>2. Head(tasks) # newest
      BY <1>1, <2>3 DEF NewestInv
    <3>3. NewestWaits \/ NewestAnswered
      BY <1>1 DEF NewestInv
    <3> QED
      BY <1>1, <1>2, <1>3, <3>1, <3>2, <3>3, OrderKept DEF NewestAnswered
  <2> QED
    BY <2>1, <2>2, <2>3
<1> QED
  BY <1>1, <1>2, <1>3, <1>4, OrderKept DEF NewestInv

\* Every step keeps the order of the assigns and the last answer.
LEMMA StepKeepsNewest ==
  ASSUME TypeInv, ThreadHasTask, NewestInv, [IONext]_vars
  PROVE  NewestInv'
<1>1. CASE UNCHANGED vars
  BY <1>1 DEF vars, linkVars, threadVars, NewestInv, NewestWaits, NewestAnswered, Running
<1>2. CASE Connect
  BY <1>2, ThreadKept DEF Connect, NewestInv, TypeInv, TasksOfConn, Running, ThreadHasTask,
                          NoTask
<1>3. CASE Drop \/ Crash
  BY <1>3 DEF Drop, Crash, Closes, NewestInv
<1>4. CASE \E t \in {"assign", "prefetch"}, r \in Asked : Spawn(t, r)
  BY <1>4, SpawnKeepsNewest
<1>5. CASE TaskStep
  BY <1>5, TaskKeepsNewest
<1>6. ASSUME NEW c \in Conns,
             \/ FetchSkips(c) \/ Fetched(c) \/ DropForeign(c) \/ Dropped(c)
             \/ Read(c) \/ Fingerprint(c)
             \/ \E l \in Layer : Open(c, l) \/ Finish(c, l) \/ DownloadFails(c, l)
      PROVE  NewestInv'
  <2>1. UNCHANGED <<conn, up, newest, told, shard, tasks, job>>
    BY <1>6 DEF FetchSkips, Fetched, DropForeign, Dropped, Read, Fingerprint,
                Open, Finish, DownloadFails, linkVars
  <2>2. pc' = pc \/ (Running(c) /\ \E p : pc' = [pc EXCEPT ![c] = p])
    BY <1>6 DEF FetchSkips, Fetched, DropForeign, Dropped, Read, Fingerprint,
                Open, Finish, DownloadFails, Goes, Running
  <2>3. up => conn \in Conns
    BY DEF TypeInv, TasksOfConn
  <2>4. up /\ Running(conn)' => Running(conn)
    BY <2>1, <2>2, <2>3 DEF Running, TypeInv, IOTypeOK
  <2> QED
    BY <2>1, <2>4, NewestUndisturbed DEF NewestInv, Running
<1>7. ASSUME NEW c \in Conns, Discard(c)
      PROVE  NewestInv'
  <2>1. /\ UNCHANGED <<conn, up, newest, told, shard, tasks>> /\ ~(up /\ c = conn)
        /\ pc' = [pc EXCEPT ![c] = "idle"] /\ job' = [job EXCEPT ![c] = NoTask]
    BY <1>7 DEF Discard, Rests, linkVars
  <2>2. up => conn \in Conns
    BY DEF TypeInv, TasksOfConn
  <2>3. up => pc'[conn] = pc[conn] /\ job'[conn] = job[conn]
    BY <2>1, <2>2 DEF TypeInv, IOTypeOK
  <2> QED
    BY <2>1, <2>3, NewestUndisturbed DEF NewestInv, Running
<1> QED
  BY <1>1, <1>2, <1>3, <1>4, <1>5, <1>6, <1>7, ReportKeepsNewest DEF IONext, ThreadStep

\* For any ranges, tasks, failures and lost connections: once a connection has
\* nothing left to do, its newest assign has its answer and is what the answer
\* says, and no older load has the last word.
THEOREM NewestAssignWins == IOSpec => []NewestWins
<1>1. TypeInv /\ NewestInv => NewestWins
  BY DEF NewestInv, NewestWaits, NewestAnswered, NewestWins
<1>2. IOInit => NewestInv
  BY DEF IOInit, NewestInv
<1>3. TypeInv /\ ThreadHasTask /\ NewestInv /\ [IONext]_vars => NewestInv'
  BY StepKeepsNewest
<1> QED
  BY <1>1, <1>2, <1>3, TypeInvariant, PTL DEF IOSpec

-----------------------------------------------------------------------------
(***************************************************************************)
(* As long as no two threads meet, a load fails for a cause of its own and *)
(* what is served stays on disk.                                           *)
(***************************************************************************)

\* The layers that were there when a range was read: those of the range are on
\* disk, waiting to be fetched or on their way; foreign files that wait to be
\* removed are there and are not of the range.
RangeAtHand(c) ==
  /\ pc[c] = "fetch" /\ ~bad[c] => job[c].range \subseteq OnDisk \cup todo[c] \cup Writing(c)
  /\ pc[c] \in {"drop", "read", "done"} => job[c].range \subseteq OnDisk
  /\ pc[c] = "drop" => job[c].t = "assign" /\ todo[c] \subseteq OnDisk \ job[c].range
  /\ pc[c] = "read" => todo[c] \subseteq job[c].range

\* What went wrong in a thread is a transfer of its own.
OwnFault(c) ==
  /\ bad[c] => hurt[c]
  /\ pc[c] = "failed" => hurt[c]
  /\ ~Running(c) => ~bad[c]

\* Downloads are of the fetch that is under way, each layer once.
OwnDownloads(c) ==
  /\ Writing(c) # {} => pc[c] = "fetch"
  /\ Writing(c) \cap todo[c] = {}

\* One thread is at work on the directory, and what is served is on it.
AloneInv ==
  /\ "shared" \notin past
  /\ \A c, d \in Conns : Running(c) /\ Running(d) => c = d
  /\ \A c \in Conns : RangeAtHand(c) /\ OwnFault(c) /\ OwnDownloads(c)
  /\ \A c \in Conns : Running(c) /\ job[c].t = "assign" => shard = {}
  /\ shard \subseteq OnDisk
CauseInv == "overlap" \in past \/ AloneInv

\* Every set of layers has a first one: by the finite sets of layers below each.
LEMMA FirstIn ==
  ASSUME NEW S \in SUBSET Layer, S # {}
  PROVE  First(S) \in S
<1> DEFINE Below(l) == {k \in S : k < l}
           T == {Below(l) : l \in S}
<1>1. S \subseteq Nat /\ IsFiniteSet(S)
  BY LayerAssumption, FS_Subset
<1>2. T # {} /\ T \subseteq FiniteSubsetsOf(S)
  <2>1. T # {} /\ \A A \in T : A \in SUBSET S
    OBVIOUS
  <2>2. FiniteSubsetsOf(S) = SUBSET S
    BY <1>1, FS_FiniteSubsetsOfFinite
  <2> QED
    BY <2>1, <2>2
<1>3. \E A \in T : \A B \in T : <<B, A>> \notin StrictSubsetOrdering(S)
  BY <1>2, FS_StrictSubsetOrderingWellFounded, WFMin
<1>4. PICK l \in S : \A k \in S : <<Below(k), Below(l)>> \notin StrictSubsetOrdering(S)
  BY <1>3
<1>5. ASSUME NEW k \in S, k < l
      PROVE  FALSE
  <2>1. Below(k) \subseteq Below(l)
    <3>1. \A x, y, z \in Nat : x < y /\ y < z => x < z
      OBVIOUS
    <3>2. \A x \in S : x < k => x < l
      BY <1>1, <1>5, <3>1
    <3> QED
      BY <3>2
  <2>2. k \in Below(l) /\ k \notin Below(k)
    BY <1>1, <1>5
  <2>3. Below(k) \in SUBSET S /\ Below(l) \in SUBSET S
    OBVIOUS
  <2> HIDE DEF Below
  <2> QED
    BY <1>4, <2>1, <2>2, <2>3 DEF StrictSubsetOrdering
<1>6. \A k \in S : l <= k
  BY <1>1, <1>5
<1> QED
  BY <1>6 DEF First

\* Steps of no thread: they take nothing off the disk and load nothing.
LEMMA CauseUndisturbed ==
  ASSUME CauseInv, UNCHANGED <<pc, job, bad, todo, fd, part, file, past, hurt>>,
         shard' \in {{}, shard}
  PROVE  CauseInv'
<1> SUFFICES ASSUME AloneInv PROVE AloneInv'
  BY DEF CauseInv
<1>1. OnDisk' = OnDisk
  BY DEF OnDisk, Exists
<1>2. ASSUME NEW c \in Conns
      PROVE  (RangeAtHand(c) /\ OwnFault(c) /\ OwnDownloads(c))'
  <2>1. RangeAtHand(c) /\ OwnFault(c) /\ OwnDownloads(c)
    BY DEF AloneInv
  <2>2. Writing(c)' = Writing(c)
    BY DEF Writing
  <2> QED
    BY <1>1, <2>1, <2>2 DEF RangeAtHand, OwnFault, OwnDownloads, Running
<1>3. \A c \in Conns : Running(c)' = Running(c)
  BY DEF Running
<1> QED
  BY <1>1, <1>2, <1>3 DEF AloneInv

\* A crash ends every thread.
LEMMA CrashKeepsCause ==
  ASSUME CauseInv, Crash
  PROVE  CauseInv'
<1> SUFFICES ASSUME AloneInv PROVE AloneInv'
  BY DEF CauseInv, Crash
<1>1. \A c \in Conns : /\ pc'[c] = "idle" /\ ~bad'[c] /\ ~Running(c)'
                       /\ Writing(c)' = {}
  BY DEF Crash, Closed, Running, Writing
<1>2. shard' = {} /\ past' = past
  BY DEF Crash, Closes
<1> QED
  BY <1>1, <1>2 DEF AloneInv, RangeAtHand, OwnFault, OwnDownloads

\* A thread that starts is alone, or overlaps.
LEMMA StartKeepsCause ==
  ASSUME TypeInv, CauseInv, tasks # <<>>, pc[conn] = "idle", Start(Head(tasks)),
         \/ shard' = {}
         \/ shard' = shard /\ Head(tasks).t # "assign"
  PROVE  CauseInv'
<1> DEFINE t == Head(tasks)
<1>1. t \in Task /\ conn \in Conns /\ t.range \in SUBSET Layer
  BY HeadTask, TaskRange
<1>2. /\ pc' = [pc EXCEPT ![conn] = "fetch"]
      /\ job' = [job EXCEPT ![conn] = t]
      /\ todo' = [todo EXCEPT ![conn] = IF keeps THEN t.range \ OnDisk ELSE t.range]
      /\ past' = IF \E c \in Conns : Running(c) THEN past \cup {"overlap"} ELSE past
      /\ UNCHANGED <<bad, fd, file, hurt>>
  BY DEF Start, diskVars
<1> SUFFICES ASSUME "overlap" \notin past' PROVE AloneInv'
  BY DEF CauseInv
<1>3. past' = past /\ \A c \in Conns : ~Running(c)
  BY <1>2
<1>4. AloneInv
  BY <1>3 DEF CauseInv
<1>5. OnDisk' = OnDisk
  BY <1>2 DEF OnDisk, Exists
<1>6. \A c \in Conns : Writing(c)' = {} /\ ~bad'[c]
  BY <1>2, <1>3, <1>4 DEF AloneInv, OwnDownloads, OwnFault, Writing, Running
<1>7. \A c \in Conns : c # conn => pc'[c] = "idle"
  BY <1>2, <1>3 DEF Running, TypeInv, IOTypeOK
<1>8. /\ pc'[conn] = "fetch" /\ job'[conn] = t
      /\ t.range \subseteq OnDisk \cup todo'[conn]
  BY <1>1, <1>2 DEF TypeInv, IOTypeOK
<1>9. ASSUME NEW c \in Conns
      PROVE  (RangeAtHand(c) /\ OwnFault(c) /\ OwnDownloads(c))'
  <2>1. CASE c = conn
    BY <1>5, <1>6, <1>8, <2>1 DEF RangeAtHand, OwnFault, OwnDownloads
  <2>2. CASE c # conn
    BY <1>6, <1>7, <2>2 DEF RangeAtHand, OwnFault, OwnDownloads
  <2> QED
    BY <2>1, <2>2
<1>10. \A c \in Conns : Running(c)' => c = conn
  BY <1>7 DEF Running
<1>11. t.t = "assign" => shard' = {}
  OBVIOUS
<1>12. shard' \subseteq OnDisk'
  BY <1>4, <1>5 DEF AloneInv
<1> QED
  BY <1>3, <1>4, <1>8, <1>9, <1>10, <1>11, <1>12 DEF AloneInv

\* A step of the only thread: what it leaves behind is enough for the invariant.
LEMMA AloneStep ==
  ASSUME TypeInv, AloneInv, NEW c \in Conns, Running(c),
         past' = past, job' = job, OnDisk \subseteq OnDisk' \/ shard = {},
         shard' = shard,
         \A d \in Conns : d # c => /\ pc'[d] = pc[d] /\ bad'[d] = bad[d]
                                   /\ todo'[d] = todo[d] /\ hurt'[d] = hurt[d]
                                   /\ \A l \in Layer : fd[d][l] = "none" => fd'[d][l] = "none",
         RangeAtHand(c)', OwnFault(c)', OwnDownloads(c)'
  PROVE  AloneInv'
<1>1. ASSUME NEW d \in Conns, d # c
      PROVE  /\ pc'[d] = "idle" /\ ~bad'[d] /\ Writing(d)' = {}
  <2>1. ~Running(d)
    BY <1>1 DEF AloneInv
  <2>2. OwnFault(d) /\ OwnDownloads(d)
    BY DEF AloneInv
  <2>3. pc[d] = "idle" /\ ~bad[d] /\ Writing(d) = {}
    BY <2>1, <2>2 DEF OwnFault, OwnDownloads, Running
  <2> QED
    BY <1>1, <2>3 DEF Writing
<1>2. ASSUME NEW d \in Conns
      PROVE  (RangeAtHand(d) /\ OwnFault(d) /\ OwnDownloads(d))'
  <2>1. CASE d = c
    BY <2>1
  <2>2. CASE d # c
    BY <1>1, <2>2 DEF RangeAtHand, OwnFault, OwnDownloads, Running
  <2> QED
    BY <2>1, <2>2
<1>3. \A d \in Conns : Running(d)' => d = c
  BY <1>1 DEF Running
<1>4. job[c].t = "assign" => shard = {}
  BY DEF AloneInv
<1>5. shard' \subseteq OnDisk'
  BY DEF AloneInv
<1> QED
  BY <1>2, <1>3, <1>4, <1>5 DEF AloneInv

\* A thread that works through its range leaves the disk as it is.
LEMMA MovesKeepAlone ==
  ASSUME TypeInv, DiskInv, AloneInv, NEW c \in Conns,
         \/ FetchSkips(c) \/ Fetched(c) \/ Dropped(c) \/ Read(c)
         \/ Fingerprint(c)
  PROVE  AloneInv'
<1> USE DEF TypeInv, IOTypeOK
<1>1. /\ UNCHANGED <<job, bad, fd, part, file, past, hurt, shard>> /\ Running(c)
      /\ \E p \in Steps : \E S : pc' = [pc EXCEPT ![c] = p] /\ todo' = [todo EXCEPT ![c] = S]
  <2>1. CASE FetchSkips(c)
    <3>1. pc' = [pc EXCEPT ![c] = "fetch"]
      BY <2>1 DEF FetchSkips
    <3> QED
      BY <2>1, <3>1 DEF FetchSkips, diskVars, pastVars, Steps, Running
  <2>2. CASE Fetched(c)
    BY <2>2 DEF Fetched, Goes, diskVars, pastVars, Steps, Running
  <2>3. CASE Dropped(c) \/ Read(c) \/ Fingerprint(c)
    BY <2>3 DEF Dropped, Read, Fingerprint, Goes, diskVars, pastVars, Steps, Running
  <2> QED
    BY <2>1, <2>2, <2>3
<1>2. RangeAtHand(c) /\ OwnFault(c) /\ OwnDownloads(c) /\ "shared" \notin past
  BY DEF AloneInv
<1>3. OnDisk' = OnDisk /\ Writing(c)' = Writing(c)
  BY <1>1 DEF OnDisk, Exists, Writing
<1>4. \A l \in OnDisk : file[l].whole
  BY <1>2 DEF DiskInv
<1>5. job[c].range \in SUBSET Layer /\ todo[c] \in SUBSET Layer
  BY TaskRange
<1>6. (RangeAtHand(c) /\ OwnFault(c) /\ OwnDownloads(c))'
  <2>1. CASE FetchSkips(c)
    <3> DEFINE l == First(todo[c])
    <3>1. /\ todo' = [todo EXCEPT ![c] = todo[c] \ {l}] /\ pc' = pc /\ pc[c] = "fetch"
          /\ Exists(l) /\ todo[c] # {}
      BY <2>1 DEF FetchSkips
    <3>2. l \in OnDisk
      BY <1>5, <3>1, FirstIn DEF OnDisk
    <3>3. todo'[c] = todo[c] \ {l}
      BY <3>1
    <3> HIDE DEF l
    <3> QED
      BY <1>1, <1>2, <1>3, <3>1, <3>2, <3>3 DEF RangeAtHand, OwnFault, OwnDownloads, Running
  <2>2. CASE Fetched(c)
    <3>1. pc[c] = "fetch" /\ Writing(c) = {}
      BY <2>2 DEF Fetched
    <3>2. ASSUME bad[c] PROVE (RangeAtHand(c) /\ OwnFault(c) /\ OwnDownloads(c))'
      <4>1. pc'[c] = "failed" /\ todo'[c] = {}
        BY <2>2, <3>2 DEF Fetched, Goes
      <4> QED
        BY <1>1, <1>2, <1>3, <3>1, <3>2, <4>1 DEF RangeAtHand, OwnFault, OwnDownloads, Running
    <3>3. ASSUME ~bad[c] PROVE (RangeAtHand(c) /\ OwnFault(c) /\ OwnDownloads(c))'
      <4>1. job[c].range \subseteq OnDisk
        BY <1>2, <2>2, <3>1, <3>3 DEF Fetched, RangeAtHand
      <4>2. \/ pc'[c] = "done"
            \/ pc'[c] = "read" /\ todo'[c] = job[c].range
            \/ pc'[c] = "drop" /\ job[c].t = "assign" /\ todo'[c] = OnDisk \ job[c].range
        BY <2>2, <3>3 DEF Fetched, Goes, Kept
      <4> QED
        BY <1>1, <1>2, <1>3, <3>1, <3>3, <4>1, <4>2
           DEF RangeAtHand, OwnFault, OwnDownloads, Running
    <3> QED
      BY <3>2, <3>3
  <2>3. CASE Dropped(c)
    <3>1. pc[c] = "drop" /\ pc'[c] = "read" /\ todo'[c] = job[c].range
      BY <2>3 DEF Dropped, Goes
    <3>2. Writing(c) = {} /\ job[c].range \subseteq OnDisk
      BY <1>2, <3>1 DEF OwnDownloads, RangeAtHand
    <3> QED
      BY <1>1, <1>2, <1>3, <3>1, <3>2 DEF RangeAtHand, OwnFault, OwnDownloads, Running
  <2>4. CASE Read(c)
    <3> DEFINE l == First(todo[c])
    <3>1. pc[c] = "read" /\ todo[c] # {}
      BY <2>4 DEF Read
    <3>2. l \in todo[c] /\ todo[c] \subseteq job[c].range /\ job[c].range \subseteq OnDisk
      BY <1>2, <1>5, <3>1, FirstIn DEF RangeAtHand
    <3>3. file[l].whole
      BY <1>4, <3>2
    <3>4. pc'[c] = "read" /\ todo'[c] = todo[c] \ {l}
      BY <2>4, <3>1, <3>3 DEF Read, Goes
    <3>5. Writing(c) = {}
      BY <1>2, <3>1 DEF OwnDownloads
    <3> HIDE DEF l
    <3> QED
      BY <1>1, <1>2, <1>3, <3>1, <3>2, <3>4, <3>5
         DEF RangeAtHand, OwnFault, OwnDownloads, Running
  <2>5. CASE Fingerprint(c)
    <3>1. pc[c] = "read" /\ job[c].range \subseteq OnDisk /\ Writing(c) = {}
      BY <1>2, <2>5 DEF Fingerprint, RangeAtHand, OwnDownloads
    <3>2. \A l \in job[c].range : file[l].whole
      BY <1>4, <3>1
    <3>3. pc'[c] = "done" /\ todo'[c] = {}
      BY <2>5, <3>2 DEF Fingerprint, Goes
    <3> QED
      BY <1>1, <1>2, <1>3, <3>1, <3>3 DEF RangeAtHand, OwnFault, OwnDownloads, Running
  <2> QED
    BY <2>1, <2>2, <2>3, <2>4, <2>5
<1> QED
  BY <1>1, <1>3, <1>6, AloneStep

\* A download begins: the only thread opens each layer once.
LEMMA OpenKeepsCause ==
  ASSUME TypeInv, AloneInv, NEW c \in Conns, NEW l \in Layer, Open(c, l)
  PROVE  AloneInv'
<1> USE DEF TypeInv, IOTypeOK
<1>1. /\ pc[c] = "fetch" /\ l \in todo[c] /\ UNCHANGED <<pc, job, bad, file, hurt, shard>>
      /\ todo' = [todo EXCEPT ![c] = @ \ {l}]
      /\ fd' = [fd EXCEPT ![c][l] = "part"]
      /\ past' = IF \E d \in Conns : fd[d][l] = "part" THEN past \cup {"shared"} ELSE past
  BY DEF Open, OpenPart
<1>2. RangeAtHand(c) /\ OwnFault(c) /\ OwnDownloads(c) /\ Running(c)
  BY <1>1 DEF AloneInv, Running
<1>3. \A d \in Conns : fd[d][l] # "part"
  <2> SUFFICES ASSUME NEW d \in Conns, fd[d][l] = "part" PROVE FALSE
    OBVIOUS
  <2>1. l \in Writing(d)
    BY DEF Writing
  <2>2. Running(d)
    BY <2>1 DEF AloneInv, OwnDownloads, Running
  <2>3. d = c
    BY <1>2, <2>2 DEF AloneInv
  <2> QED
    BY <1>1, <1>2, <2>1, <2>3 DEF OwnDownloads
<1>4. past' = past
  BY <1>1, <1>3
<1>5. OnDisk' = OnDisk /\ todo'[c] = todo[c] \ {l}
  BY <1>1 DEF OnDisk, Exists
<1>6. Writing(c)' = Writing(c) \cup {l}
  BY <1>1 DEF Writing
<1>7. (RangeAtHand(c) /\ OwnFault(c) /\ OwnDownloads(c))'
  BY <1>1, <1>2, <1>5, <1>6 DEF RangeAtHand, OwnFault, OwnDownloads, Running
<1>8. \A d \in Conns : d # c => /\ todo'[d] = todo[d]
                                /\ \A k \in Layer : fd'[d][k] = fd[d][k]
  BY <1>1
<1> QED
  BY <1>1, <1>2, <1>4, <1>5, <1>7, <1>8, AloneStep

\* A download ends: a layer that was on its way is on disk.
LEMMA FinishKeepsCause ==
  ASSUME TypeInv, DiskInv, AloneInv, NEW c \in Conns, NEW l \in Layer, Finish(c, l)
  PROVE  AloneInv'
<1> USE DEF TypeInv, IOTypeOK
<1>1. /\ UNCHANGED <<pc, job, todo, past, hurt, shard>> /\ fd[c][l] # "none"
  BY DEF Finish, pastVars
<1>2. /\ RangeAtHand(c) /\ OwnFault(c) /\ OwnDownloads(c) /\ l \in Writing(c)
      /\ WritersOwn
  BY <1>1 DEF AloneInv, Writing, DiskInv
<1>3. Running(c) /\ pc[c] = "fetch"
  BY <1>2 DEF OwnDownloads, Running
<1>4. fd[c][l] = "part" /\ part[l].by = c /\ part[l] \in Inode
  BY <1>1, <1>2 DEF WritersOwn, OpenHasInode
<1>5. \A p \in Filled(part[l], c) : p # NoFile
  BY <1>4, FilledTyped
<1>6. PICK p \in Filled(part[l], c) :
        /\ p # NoFile /\ file' = [file EXCEPT ![l] = p]
        /\ fd' = [Renamed(l) EXCEPT ![c][l] = "none"] /\ UNCHANGED bad
  BY <1>4, <1>5 DEF Finish
<1>7. OnDisk' = OnDisk \cup {l}
  BY <1>6 DEF OnDisk, Exists
<1>8. /\ \A d \in Conns, k \in Layer : fd[d][k] = "none" => fd'[d][k] = "none"
      /\ \A k \in Layer : k # l => fd'[c][k] = fd[c][k]
      /\ fd'[c][l] = "none"
  <2>1. \A d \in Conns, k \in Layer :
          fd'[d][k] = IF d = c /\ k = l THEN "none" ELSE Renamed(l)[d][k]
    BY <1>6, RenamedTyped
  <2>2. \A d \in Conns : fd[d][l] = "none" => Renamed(l)[d][l] = "none"
    BY DEF Renamed
  <2>3. \A d \in Conns, k \in Layer : k # l => Renamed(l)[d][k] = fd[d][k]
    BY RenamedTyped
  <2> HIDE DEF TypeInv, IOTypeOK
  <2>4. ASSUME NEW d \in Conns, NEW k \in Layer, fd[d][k] = "none"
        PROVE  fd'[d][k] = "none"
    BY <2>1, <2>2, <2>3, <2>4
  <2>5. \A k \in Layer : k # l => fd'[c][k] = fd[c][k]
    BY <2>1, <2>3
  <2>6. fd'[c][l] = "none"
    BY <2>1
  <2> QED
    BY <2>4, <2>5, <2>6
<1>9. Writing(c)' = Writing(c) \ {l}
  BY <1>8 DEF Writing
<1>10. (RangeAtHand(c) /\ OwnFault(c) /\ OwnDownloads(c))'
  BY <1>1, <1>2, <1>3, <1>6, <1>7, <1>9 DEF RangeAtHand, OwnFault, OwnDownloads, Running
<1> QED
  BY <1>1, <1>3, <1>6, <1>7, <1>8, <1>10, AloneStep

\* A transfer breaks: the thread fails for a cause of its own.
LEMMA DownloadFailsKeepsCause ==
  ASSUME TypeInv, AloneInv, NEW c \in Conns, NEW l \in Layer, DownloadFails(c, l)
  PROVE  AloneInv'
<1> USE DEF TypeInv, IOTypeOK
<1>1. /\ UNCHANGED <<pc, job, todo, file, past, shard>> /\ fd[c][l] # "none"
      /\ fd' = [fd EXCEPT ![c][l] = "none"]
      /\ bad' = [bad EXCEPT ![c] = TRUE] /\ hurt' = [hurt EXCEPT ![c] = TRUE]
  BY DEF DownloadFails, Failure, diskVars
<1>2. RangeAtHand(c) /\ OwnFault(c) /\ OwnDownloads(c) /\ l \in Writing(c)
  BY <1>1 DEF AloneInv, Writing
<1>3. Running(c) /\ pc[c] = "fetch"
  BY <1>2 DEF OwnDownloads, Running
<1>4. OnDisk' = OnDisk
  BY <1>1 DEF OnDisk, Exists
<1>5. /\ \A d \in Conns : d # c => fd'[d] = fd[d] /\ bad'[d] = bad[d] /\ hurt'[d] = hurt[d]
      /\ bad'[c] /\ hurt'[c] /\ Writing(c)' \subseteq Writing(c)
  BY <1>1 DEF Writing
<1>6. (RangeAtHand(c) /\ OwnFault(c) /\ OwnDownloads(c))'
  BY <1>1, <1>2, <1>3, <1>4, <1>5 DEF RangeAtHand, OwnFault, OwnDownloads, Running
<1> QED
  BY <1>1, <1>3, <1>4, <1>5, <1>6, AloneStep

\* A foreign file is removed: while a load goes on nothing is served.
LEMMA DropForeignKeepsCause ==
  ASSUME TypeInv, DiskInv, AloneInv, NEW c \in Conns, DropForeign(c)
  PROVE  AloneInv'
<1> USE DEF TypeInv, IOTypeOK
<1> DEFINE l == First(todo[c])
<1>1. /\ pc[c] = "drop" /\ todo[c] # {} /\ UNCHANGED <<job, bad, past, hurt, shard>>
  BY DEF DropForeign, pastVars
<1>2. /\ RangeAtHand(c) /\ OwnFault(c) /\ OwnDownloads(c) /\ Running(c)
      /\ job[c].t = "assign" /\ shard = {} /\ Writing(c) = {}
  BY <1>1 DEF AloneInv, Running, RangeAtHand, OwnDownloads
<1>3. l \in todo[c] /\ todo[c] \subseteq OnDisk \ job[c].range /\ job[c].range \subseteq OnDisk
  BY <1>1, <1>2, FirstIn DEF RangeAtHand
<1>4. Exists(l) /\ l \in Layer
  BY <1>3 DEF OnDisk
<1>5. /\ file' = [file EXCEPT ![l] = NoFile]
      /\ fd' = [d \in Conns |-> [fd[d] EXCEPT ![l] = IF @ = "file" THEN "gone" ELSE @]]
      /\ pc' = [pc EXCEPT ![c] = "drop"] /\ todo' = [todo EXCEPT ![c] = todo[c] \ {l}]
  BY <1>4 DEF DropForeign, Goes
<1> HIDE DEF l
<1>6. OnDisk' = OnDisk \ {l}
  BY <1>4, <1>5 DEF OnDisk, Exists
<1>7. \A d \in Conns, k \in Layer : fd[d][k] = "none" => fd'[d][k] = "none"
  BY <1>4, <1>5
<1>8. Writing(c)' = {}
  BY <1>2, <1>7 DEF Writing
<1>9. /\ pc'[c] = "drop" /\ todo'[c] = todo[c] \ {l}
      /\ \A d \in Conns : d # c => pc'[d] = pc[d] /\ todo'[d] = todo[d]
  BY <1>5
<1>10. (RangeAtHand(c) /\ OwnFault(c) /\ OwnDownloads(c))'
  BY <1>1, <1>2, <1>3, <1>6, <1>8, <1>9 DEF RangeAtHand, OwnFault, OwnDownloads, Running
<1> QED
  BY <1>1, <1>2, <1>7, <1>9, <1>10, AloneStep

\* A thread's work is answered or discarded: what is served was read from disk.
LEMMA ReportKeepsCause ==
  ASSUME TypeInv, AloneInv, NEW c \in Conns, Report(c) \/ Discard(c)
  PROVE  AloneInv'
<1> USE DEF TypeInv, IOTypeOK
<1>1. /\ pc[c] \in {"done", "failed"} /\ UNCHANGED <<todo, fd, part, file, past>>
      /\ pc' = [pc EXCEPT ![c] = "idle"]
      /\ job' = [job EXCEPT ![c] = NoTask]
      /\ bad' = [bad EXCEPT ![c] = FALSE] /\ hurt' = [hurt EXCEPT ![c] = FALSE]
  BY DEF Report, Discard, Rests, diskVars
<1>2. shard' = shard \/ (pc[c] = "done" /\ shard' = job[c].range)
  BY DEF Report, Discard
<1>3. RangeAtHand(c) /\ OwnDownloads(c) /\ Running(c) /\ shard \subseteq OnDisk
  BY <1>1 DEF AloneInv, Running
<1>4. OnDisk' = OnDisk /\ \A d \in Conns : Writing(d)' = Writing(d)
  BY <1>1 DEF OnDisk, Exists, Writing
<1>5. shard' \subseteq OnDisk'
  BY <1>2, <1>3, <1>4 DEF RangeAtHand
<1>6. \A d \in Conns : pc'[d] = "idle" /\ ~bad'[d] /\ ~Running(d)'
  <2> SUFFICES ASSUME NEW d \in Conns PROVE pc'[d] = "idle" /\ ~bad'[d]
    BY DEF Running
  <2>1. CASE d = c
    BY <1>1, <2>1
  <2>2. CASE d # c
    <3>1. ~Running(d)
      BY <1>3, <2>2 DEF AloneInv
    <3>2. ~bad[d]
      BY <3>1 DEF AloneInv, OwnFault
    <3> QED
      BY <1>1, <2>2, <3>1, <3>2 DEF Running
  <2> QED
    BY <2>1, <2>2
<1>7. \A d \in Conns : Writing(d) = {}
  <2> SUFFICES ASSUME NEW d \in Conns PROVE Writing(d) = {}
    OBVIOUS
  <2>1. OwnDownloads(d) /\ (Running(d) => d = c)
    BY <1>3 DEF AloneInv
  <2> QED
    BY <1>1, <2>1 DEF OwnDownloads, Running
<1>8. \A d \in Conns : (RangeAtHand(d) /\ OwnFault(d) /\ OwnDownloads(d))'
  BY <1>4, <1>6, <1>7 DEF RangeAtHand, OwnFault, OwnDownloads
<1> QED
  BY <1>1, <1>5, <1>6, <1>8 DEF AloneInv

\* Every step keeps to it, or two threads meet.
LEMMA StepKeepsCause ==
  ASSUME TypeInv, DiskInv, CauseInv, [IONext]_vars
  PROVE  CauseInv'
<1>1. CASE UNCHANGED vars
  BY <1>1, CauseUndisturbed DEF vars, threadVars, diskVars, pastVars
<1>2. CASE Connect \/ Drop
  BY <1>2, CauseUndisturbed DEF Connect, Drop, Closes, threadVars, diskVars, pastVars
<1>3. CASE Crash
  BY <1>3, CrashKeepsCause
<1>4. CASE \E t \in {"assign", "prefetch"}, r \in Asked : Spawn(t, r)
  BY <1>4, CauseUndisturbed DEF Spawn, threadVars, diskVars, pastVars
<1>5. CASE SkipAssign \/ KeepShard
  BY <1>5, CauseUndisturbed DEF SkipAssign, KeepShard, threadVars, diskVars, pastVars
<1>6. CASE StartLoad \/ StartPrefetch
  BY <1>6, StartKeepsCause DEF StartLoad, StartPrefetch, Holds
<1>7. ASSUME NEW c \in Conns,
             ThreadStep(c) \/ \E l \in Layer : DownloadFails(c, l)
      PROVE  CauseInv'
  <2>1. past \subseteq past'
    BY <1>7 DEF ThreadStep, FetchSkips, Fetched, DropForeign, Dropped, Read,
                Fingerprint, Report, Discard, Rests, Open, OpenPart, Finish,
                DownloadFails, pastVars
  <2>2. CASE "overlap" \in past
    BY <2>1, <2>2 DEF CauseInv
  <2>3. CASE "overlap" \notin past
    <3>1. AloneInv
      BY <2>3 DEF CauseInv
    <3>2. AloneInv'
      BY <1>7, <3>1, MovesKeepAlone, OpenKeepsCause, FinishKeepsCause, ReportKeepsCause,
         DropForeignKeepsCause, DownloadFailsKeepsCause DEF ThreadStep
    <3> QED
      BY <3>2 DEF CauseInv
  <2> QED
    BY <2>2, <2>3
<1> QED
  BY <1>1, <1>2, <1>3, <1>4, <1>5, <1>6, <1>7 DEF IONext, TaskStep

\* The invariant holds throughout.
LEMMA CauseInvariant == IOSpec => []CauseInv
<1>1. IOInit => CauseInv
  <2> SUFFICES ASSUME IOInit PROVE AloneInv
    BY DEF CauseInv
  <2>1. \A c \in Conns : /\ pc[c] = "idle" /\ ~bad[c] /\ ~Running(c) /\ Writing(c) = {}
    BY DEF IOInit, Closed, Running, Writing
  <2>2. shard = {} /\ past = {}
    BY DEF IOInit
  <2> QED
    BY <2>1, <2>2 DEF AloneInv, RangeAtHand, OwnFault, OwnDownloads
<1>2. TypeInv /\ DiskInv /\ CauseInv /\ [IONext]_vars => CauseInv'
  BY StepKeepsCause
<1>3. TypeInv /\ DiskInv /\ [IONext]_vars => DiskInv'
  BY StepKeepsDisk
<1> QED
  BY <1>1, <1>2, <1>3, InitIO, TypeInvariant, PTL DEF IOSpec

\* For any ranges, both programs and whatever earlier tasks, drops and crashes left
\* on disk: unless two threads met, a load or a fetch fails only because one of
\* its own transfers broke.
THEOREM FailsForCause == IOSpec => []FailuresHaveCause
<1>1. CauseInv => FailuresHaveCause
  BY DEF CauseInv, AloneInv, OwnFault, FailuresHaveCause
<1> QED
  BY <1>1, CauseInvariant, PTL

\* For any ranges and tasks: unless two threads met, no prefetch or load takes a
\* layer off the disk that the node serves.
THEOREM ServedIsOnDisk == IOSpec => []ServedStaysOnDisk
<1>1. CauseInv => ServedStaysOnDisk
  BY DEF CauseInv, AloneInv, ServedStaysOnDisk
<1> QED
  BY <1>1, CauseInvariant, PTL
=============================================================================
