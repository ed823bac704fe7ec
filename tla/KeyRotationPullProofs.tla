----------------------- MODULE KeyRotationPullProofs -----------------------
(***************************************************************************)
(* What a pull of key rotation leaves in the files of its checkout, for    *)
(* any number of workspaces, directories, checkouts and changes.           *)
(***************************************************************************)
EXTENDS KeyRotationSyncProofs

(***************************************************************************)
(* The strengthening of PulledReadsBack and OnlyCurrentFileWritten, per    *)
(* process.  IInv knows what a running pull read (GotIsCurrent); what is   *)
(* missing is that the files of the workspaces in the queue are as they    *)
(* were, and that a pull about to write has read both uses and found one.  *)
(***************************************************************************)
WrittenFile(c, d, w) ==
    /\ cmd[c] = "pull" /\ d = 1 /\ w \in scope[c]
    /\ \A v \in queue[c] : w <= v
FilesKept(c) ==
    ~edited[c] =>
        \A d \in Dirs, w \in Wids :
            tree[c][d][w] # base[c][d][w] =>
                WrittenFile(c, d, w) /\ (pc[c] \in Running => w \notin queue[c])

ReadsBack(c, w) ==
    LET remote == Settings(server[w])
        local == Read(tree[c], w)
    IN IF remote = NoConfig
       THEN \A d \in Dirs : tree[c][d][w] = base[c][d][w]
       ELSE /\ local # ReadError
            /\ Uses(Changed(local, remote)) = {}
            /\ TreeDiff(local, remote) = {}
Untouched(c, w) == \A u \in UseSet : <<w, u>> \notin touched[c]
PastReadsBack(c) ==
    cmd[c] = "pull" /\ ~edited[c] =>
        \A w \in scope[c] \ queue[c] : Untouched(c, w) => ReadsBack(c, w)

AboutToWrite(c) ==
    pc[c] \in Running /\ cmd[c] # "push" =>
        /\ cmd[c] = "pull" /\ queue[c] \subseteq scope[c]
        /\ pc[c] = "write" => left[c] = {} /\ Uses(got[c]) # {}

PullRun(c) == FilesKept(c) /\ PastReadsBack(c) /\ AboutToWrite(c)
PullInv == \A c \in Checkouts : PullRun(c)

-----------------------------------------------------------------------------
\* DirStore.Write: what is written is read back.
LEMMA ReadWritten ==
    ASSUME NEW files \in Tree, NEW w \in Wids, NEW cfg \in Config, Uses(cfg) # {}
    PROVE  Read(Write(files, w, cfg), w) = cfg
<1> DEFINE after == Write(files, w, cfg)
<1>1. 1 \in Dirs /\ after[1][w] = cfg
  BY DirsAssumption DEF Write, Tree, Dirs
<1>2. cfg # NoFile /\ cfg # BadFile
  BY NilAssumption
<1>3. FirstHolder(after, w, 1)
  BY <1>1, <1>2 DEF FirstHolder
<1> HIDE DEF after
<1> QED BY <1>1, <1>2, <1>3, ReadFirst DEF after

\* DirStore.Write touches no other file.
LEMMA WrittenOnly ==
    ASSUME NEW files \in Tree, NEW w \in Wids, NEW f \in File
    PROVE  \A d \in Dirs, v \in Wids : d # 1 \/ v # w => Write(files, w, f)[d][v] = files[d][v]
BY DirsAssumption DEF Write, Tree, Dirs

\* What the API store read back is skipped by changedRotation and shown by no diff.
LEMMA PulledIsInSync ==
    ASSUME NEW payloads \in [UseSet -> Payload], NEW cfg, cfg = Settings(payloads), cfg # NoConfig
    PROVE  /\ cfg # ReadError
           /\ Uses(Changed(cfg, cfg)) = {}
           /\ TreeDiff(cfg, cfg) = {}
<1>1. cfg = [u \in UseSet |-> FromModel(payloads[u])]
  BY DEF Settings
<1>2. \A u \in UseSet : FromModel(payloads[u]) \in Rotation \cup {NoRotation}
  BY FromModelType
<1>3. cfg \in Config
  BY <1>1, <1>2 DEF Config
<1>4. \A u \in UseSet : cfg[u] # NoRotation => cfg[u].starting_from = NoTime
  BY <1>1 DEF FromModel
<1>5. \A u \in UseSet : Changed(cfg, cfg)[u] = NoRotation
  BY <1>4 DEF Changed, ChangedRotation, OrEmpty
<1>6. Uses(Changed(cfg, cfg)) = {}
  BY <1>5 DEF Uses
<1>7. OrEmpty(cfg) = cfg
  BY DEF OrEmpty
<1>8. TreeDiff(cfg, cfg) = {}
  BY <1>7 DEF TreeDiff, DiffSource, DiffTarget, ClearStart
<1> QED BY <1>3, <1>6, <1>8, NilAssumption

-----------------------------------------------------------------------------
\* Nobody changes the files of a checkout.
SameFiles(c) == tree'[c] = tree[c] /\ edited'[c] = edited[c]

\* A process that does not move, and whose files stay, keeps its part of the invariant.
LEMMA PullFrame ==
    ASSUME TypeOK, NEW c \in Checkouts, PullRun(c), SameRun(c), SameFiles(c), Recorded(c)
    PROVE  PullRun(c)'
<1>1. FilesKept(c)' /\ AboutToWrite(c)'
  BY DEF PullRun, FilesKept, WrittenFile, AboutToWrite, SameRun, SameFiles
<1>2. PastReadsBack(c)'
  <2> SUFFICES ASSUME cmd[c] = "pull", ~edited[c], NEW w \in scope[c] \ queue[c], Untouched(c, w)'
               PROVE  ReadsBack(c, w)'
    BY DEF PastReadsBack, SameRun, SameFiles
  <2>1. w \in Wids
    BY DEF TypeOK
  <2>2. \A u \in UseSet : server'[w][u] = server[w][u]
    BY <2>1 DEF Untouched, Recorded
  <2>3. Settings(server'[w]) = Settings(server[w])
    BY <2>2, SameSettings
  <2>4. ReadsBack(c, w)
    BY DEF Untouched, Recorded, PullRun, PastReadsBack
  <2> QED BY <2>3, <2>4 DEF ReadsBack, SameRun, SameFiles
<1> QED BY <1>1, <1>2 DEF PullRun

\* The other processes keep theirs.
LEMMA OthersPull ==
    ASSUME TypeOK, PullInv, NEW c \in Checkouts, PullRun(c)',
           \A d \in Checkouts \ {c} : SameRun(d) /\ SameFiles(d) /\ Recorded(d)
    PROVE  PullInv'
BY PullFrame DEF PullInv

\* The queue of a run only gets shorter, and while its files stay nothing is written.
LEMMA ShorterQueue ==
    ASSUME TypeOK, NEW c \in Checkouts, PullRun(c), SameFiles(c), queue'[c] \subseteq queue[c],
           cmd'[c] = cmd[c], scope'[c] = scope[c], base'[c] = base[c], pc[c] \in Running
    PROVE  FilesKept(c)'
BY DEF PullRun, FilesKept, WrittenFile, SameFiles

\* A command that starts has written nothing.
LEMMA BeginPull ==
    ASSUME IInv, PullInv, NEW c \in Checkouts, Start(c)
    PROVE  PullInv'
<1>1. TypeOK
  BY DEF IInv
<1>2. PICK S \in SUBSET Wids : StartPush(c, S) \/ RefusePush(c, S) \/ StartPull(c, S)
  BY DEF Start
<1>3. /\ tree'[c] = tree[c] /\ base'[c] = tree[c]
      /\ cmd'[c] = "push" \/ (cmd'[c] = "pull" /\ queue'[c] = scope'[c] /\ pc'[c] # "write")
  BY <1>1, <1>2 DEF StartPush, RefusePush, StartPull, Begin, TypeOK
<1>4. PullRun(c)'
  BY <1>3 DEF PullRun, FilesKept, PastReadsBack, AboutToWrite
<1>5. \A d \in Checkouts \ {c} : SameRun(d) /\ SameFiles(d) /\ Recorded(d)
  BY <1>1, <1>2 DEF StartPush, RefusePush, StartPull, Begin, SameRun, SameFiles, Recorded, TypeOK, serverVars
<1> QED BY <1>1, <1>4, <1>5, OthersPull

\* A process that stops has its files as they are.
LEMMA StopPull ==
    ASSUME IInv, PullInv, NEW c \in Checkouts, pc[c] \in Running, Stop(c), Interrupted
    PROVE  PullInv'
<1>1. TypeOK /\ PullRun(c) /\ UNCHANGED <<server, tree, cmd, scope, items, queue, left, got, base, touched, edited>>
  BY DEF IInv, PullInv, Interrupted, serverVars, ghostVars
<1>2. pc'[c] = "failed"
  BY <1>1 DEF Stop, TypeOK
<1>3. FilesKept(c)'
  BY <1>1, ShorterQueue DEF SameFiles
<1>4. PastReadsBack(c)' /\ AboutToWrite(c)'
  BY <1>1, <1>2 DEF PullRun, PastReadsBack, Untouched, ReadsBack, AboutToWrite, Running
<1>5. \A d \in Checkouts \ {c} : SameRun(d) /\ SameFiles(d) /\ Recorded(d)
  BY <1>1 DEF Stop, SameRun, SameFiles, Recorded, TypeOK
<1> QED BY <1>1, <1>3, <1>4, <1>5, OthersPull DEF PullRun

\* A PUT, answered or not, is of a push and changes no file.
LEMMA PutPull ==
    ASSUME IInv, PullInv, NEW c \in Checkouts, NEW w \in Wids, NEW u \in UseSet,
           Put(c, w, u) \/ PutAnswerLost(c, w, u)
    PROVE  PullInv'
<1>1. /\ TypeOK /\ PushInv /\ RunInv(c) /\ PullRun(c) /\ pc[c] = "put" /\ pc[c] \in Running
      /\ w \in queue[c] /\ Least(w, queue[c]) /\ FirstUse(u, left[c]) /\ u \in left[c]
      /\ SetUse(w, u, Sent(c, w, u)) /\ Touch({<<w, u>>}, {c})
      /\ UNCHANGED <<tree, cmd, scope, items, base, edited>>
  BY DEF IInv, PushInv, PullInv, Put, PutAnswerLost, Least, FirstUse, Running
<1>2. cmd[c] = "push"
  BY <1>1 DEF RunInv, SentOrSkipped
<1>3. queue'[c] \subseteq queue[c] /\ \A d \in Checkouts \ {c} : SameRun(d) /\ SameFiles(d)
  BY <1>1 DEF Put, PutAnswerLost, Advance, Stop, SameRun, SameFiles, TypeOK
<1>4. \A d \in Checkouts \ {c} : Recorded(d)
  BY <1>1, PutEffect
<1>5. FilesKept(c)'
  BY <1>1, <1>3, ShorterQueue DEF SameFiles
<1>6. PastReadsBack(c)' /\ AboutToWrite(c)'
  BY <1>1, <1>2 DEF PastReadsBack, AboutToWrite
<1> QED BY <1>1, <1>3, <1>4, <1>5, <1>6, OthersPull DEF PullRun

-----------------------------------------------------------------------------
\* When both uses were read, the settings of the workspace are what was read.
LEMMA SettingsRead ==
    ASSUME NEW payloads, NEW cfg \in Config, \A u \in UseSet : cfg[u] = FromModel(payloads[u])
    PROVE  Settings(payloads) = IF Uses(cfg) = {} THEN NoConfig ELSE cfg
<1>1. cfg = [u \in UseSet |-> FromModel(payloads[u])]
  BY DEF Config
<1> QED BY <1>1 DEF Settings

\* The workspaces a pull is past read back as before while neither they nor their files change.
LEMMA StillReadsBack ==
    ASSUME NEW c \in Checkouts, NEW w \in Wids, Untouched(c, w)' => Untouched(c, w),
           Untouched(c, w) => ReadsBack(c, w), server'[w] = server[w], base'[c] = base[c],
           \A d \in Dirs : tree'[c][d][w] = tree[c][d][w]
    PROVE  Untouched(c, w)' => ReadsBack(c, w)'
<1>1. Read(tree'[c], w) = Read(tree[c], w)
  BY SameRead
<1> QED BY <1>1 DEF ReadsBack

\* A GET of a pull: a workspace without settings is passed with its files as they were.
LEMMA GetPull ==
    ASSUME IInv, PullInv, NEW c \in Checkouts, NEW w \in Wids, NEW u \in UseSet, Get(c, w, u)
    PROVE  PullInv'
<1> DEFINE cfg == ReadUse(c, w, u)
<1>1. /\ TypeOK /\ RunInv(c) /\ PullRun(c) /\ pc[c] = "get" /\ pc[c] \in Running
      /\ w \in queue[c] /\ u \in left[c]
      /\ UNCHANGED <<server, tree, cmd, scope, base, touched, edited>>
  BY DEF IInv, PushInv, PullInv, Get, Least, FirstUse, Running, serverVars, ghostVars
<1>2. \A d \in Checkouts \ {c} : SameRun(d) /\ SameFiles(d) /\ Recorded(d)
  BY <1>1 DEF Get, AfterRead, Advance, SameRun, SameFiles, Recorded, TypeOK, ghostVars
<1>3. queue'[c] \subseteq queue[c]
  BY <1>1 DEF Get, AfterRead, Advance, TypeOK
<1>4. FilesKept(c)'
  BY <1>1, <1>3, ShorterQueue DEF SameFiles
<1>5. CASE cmd[c] = "push"
  <2>1. PastReadsBack(c)' /\ AboutToWrite(c)'
    BY <1>1, <1>5 DEF PastReadsBack, AboutToWrite
  <2> QED BY <2>1, <1>1, <1>2, <1>4, OthersPull DEF PullRun
<1>6. CASE cmd[c] # "push" /\ queue'[c] = queue[c]
  <2>1. PastReadsBack(c)'
    BY <1>1, <1>6 DEF PullRun, PastReadsBack, Untouched, ReadsBack
  <2>2. pc'[c] = "write" => left'[c] = {} /\ Uses(got'[c]) # {}
    <3> HIDE DEF cfg
    <3>1. CASE left[c] # {u}
      BY <3>1, <1>1 DEF Get
    <3>2. CASE left[c] = {u}
      <4>1. AfterRead(c, w, cfg)
        BY <3>2 DEF Get, cfg
      <4>2. ~Advance(c, w)
        BY <1>1, <1>6 DEF Advance, TypeOK
      <4>3. /\ Uses(cfg) # {}
            /\ left' = [left EXCEPT ![c] = {}] /\ got' = [got EXCEPT ![c] = cfg]
        BY <4>1, <4>2, <1>6 DEF AfterRead
      <4> QED BY <4>3, <1>1 DEF TypeOK
    <3> QED BY <3>1, <3>2
  <2>3. AboutToWrite(c)'
    BY <2>2, <1>1, <1>6 DEF PullRun, AboutToWrite
  <2> QED BY <2>1, <2>3, <1>1, <1>2, <1>4, OthersPull DEF PullRun
<1>7. CASE cmd[c] # "push" /\ queue'[c] # queue[c]
  <2>1. left[c] = {u} /\ AfterRead(c, w, cfg)
    BY <1>7 DEF Get
  <2>2. Uses(cfg) = {} /\ Advance(c, w)
    <3> HIDE DEF cfg
    <3> QED BY <2>1, <1>7 DEF AfterRead
  <2>3. queue'[c] = queue[c] \ {w} /\ pc'[c] # "write"
    BY <2>2, <1>1 DEF Advance, TypeOK
  <2>4. AboutToWrite(c)'
    BY <2>3, <1>1, <1>7 DEF PullRun, AboutToWrite
  <2>5. cfg \in Config /\ \A v \in UseSet : <<w, v>> \in touched[c] \/ cfg[v] = FromModel(server[w][v])
    BY <2>1, GotAfterGet
  <2>6. ASSUME Untouched(c, w), ~edited[c] PROVE ReadsBack(c, w)
    <3>1. Settings(server[w]) = NoConfig
      <4> HIDE DEF cfg
      <4> QED BY <2>2, <2>5, <2>6, SettingsRead DEF Untouched
    <3>2. \A d \in Dirs : tree[c][d][w] = base[c][d][w]
      BY <2>6, <1>1 DEF PullRun, FilesKept
    <3> QED BY <3>1, <3>2 DEF ReadsBack
  <2>7. PastReadsBack(c)'
    BY <2>3, <2>6, <1>1 DEF PullRun, PastReadsBack, Untouched, ReadsBack
  <2> QED BY <2>4, <2>7, <1>1, <1>2, <1>4, OthersPull DEF PullRun
<1> QED BY <1>5, <1>6, <1>7

\* What a process about to write knows: it is a pull at a workspace of its scope and has what the server
\* has of it.
LEMMA WritesWhatItRead ==
    ASSUME IInv, PullInv, NEW c \in Checkouts, NEW w \in Wids, pc[c] = "write", Least(w, queue[c])
    PROVE  /\ cmd[c] = "pull" /\ w \in queue[c] /\ w \in scope[c] /\ queue[c] \subseteq scope[c]
           /\ got[c] \in Config /\ Uses(got[c]) # {}
           /\ Untouched(c, w) => Settings(server[w]) = got[c]
<1>1. TypeOK /\ RunInv(c) /\ PullRun(c) /\ pc[c] \in Running /\ w \in queue[c]
  BY DEF IInv, PushInv, PullInv, Running, Least
<1>2. cmd[c] # "push" /\ got[c] \in Config
  BY <1>1 DEF RunInv, GotIsCurrent, TypeOK
<1>3. /\ cmd[c] = "pull" /\ queue[c] \subseteq scope[c]
      /\ left[c] = {} /\ Uses(got[c]) # {}
  BY <1>1, <1>2 DEF PullRun, AboutToWrite
<1>4. \A u \in UseSet : <<w, u>> \in touched[c] \/ got[c][u] = FromModel(server[w][u])
  BY <1>1, <1>3 DEF RunInv, GotIsCurrent, ReadNotSent
<1>5. ASSUME Untouched(c, w) PROVE Settings(server[w]) = got[c]
  <2>1. \A u \in UseSet : got[c][u] = FromModel(server[w][u])
    BY <1>4, <1>5 DEF Untouched
  <2> QED BY <2>1, <1>2, <1>3, SettingsRead
<1>6. w \in scope[c]
  BY <1>1, <1>3
<1> QED BY <1>1, <1>2, <1>3, <1>5, <1>6

\* A file written, whole or torn, is of the workspace the pull is at, so no other workspace is disturbed.
LEMMA WriteKeepsFiles ==
    ASSUME IInv, PullInv, NEW c \in Checkouts, NEW w \in Wids, pc[c] = "write", Least(w, queue[c]),
           NEW f \in File, tree' = [tree EXCEPT ![c] = Write(@, w, f)],
           queue'[c] \subseteq queue[c], pc'[c] \in Running => w \notin queue'[c],
           UNCHANGED <<server, cmd, scope, base, touched, edited>>
    PROVE  /\ FilesKept(c)'
           /\ ~edited[c] => \A v \in scope[c] \ (queue[c] \cup {w}) : Untouched(c, v)' => ReadsBack(c, v)'
<1>1. TypeOK /\ PullRun(c) /\ pc[c] \in Running /\ tree[c] \in Tree
  BY DEF IInv, PullInv, Running, TypeOK
<1>2. cmd[c] = "pull" /\ w \in queue[c] /\ w \in scope[c] /\ queue[c] \subseteq scope[c]
  BY WritesWhatItRead
<1>3. tree'[c] = Write(tree[c], w, f)
  BY <1>1 DEF TypeOK
<1>4. \A d \in Dirs, v \in Wids : d # 1 \/ v # w => tree'[c][d][v] = tree[c][d][v]
  BY <1>1, <1>3, WrittenOnly
<1>5. FilesKept(c)'
  <2> SUFFICES ASSUME ~edited[c], NEW d \in Dirs, NEW v \in Wids, tree'[c][d][v] # base[c][d][v]
               PROVE  WrittenFile(c, d, v)' /\ (pc'[c] \in Running => v \notin queue'[c])
    BY DEF FilesKept
  <2>1. CASE d = 1 /\ v = w
    BY <2>1, <1>2 DEF WrittenFile, Least
  <2>2. CASE d # 1 \/ v # w
    <3>1. WrittenFile(c, d, v) /\ v \notin queue[c]
      BY <2>2, <1>1, <1>4 DEF PullRun, FilesKept
    <3> QED BY <3>1 DEF WrittenFile
  <2> QED BY <2>1, <2>2
<1>6. ASSUME ~edited[c], NEW v \in scope[c] \ (queue[c] \cup {w})
      PROVE  Untouched(c, v)' => ReadsBack(c, v)'
  <2>1. v \in Wids /\ v # w
    BY <1>1 DEF TypeOK
  <2>2. Untouched(c, v) => ReadsBack(c, v)
    BY <1>1, <1>2, <1>6 DEF PullRun, PastReadsBack
  <2>3. Untouched(c, v)' => Untouched(c, v)
    BY DEF Untouched
  <2> QED BY <2>1, <2>2, <2>3, <1>4, StillReadsBack
<1> QED BY <1>5, <1>6

\* The file a pull writes reads back as the settings of the server.
LEMMA WriteFilePull ==
    ASSUME IInv, PullInv, NEW c \in Checkouts, NEW w \in Wids, WriteFile(c, w)
    PROVE  PullInv'
<1>1. /\ TypeOK /\ PullRun(c) /\ pc[c] = "write" /\ Least(w, queue[c]) /\ Advance(c, w)
      /\ tree' = [tree EXCEPT ![c] = Write(@, w, got[c])]
      /\ UNCHANGED <<server, cmd, scope, items, base, touched, edited>>
  BY DEF IInv, PullInv, WriteFile, serverVars, ghostVars
<1>2. /\ cmd[c] = "pull" /\ queue[c] \subseteq scope[c]
      /\ got[c] \in Config /\ Uses(got[c]) # {}
      /\ Untouched(c, w) => Settings(server[w]) = got[c]
  BY <1>1, WritesWhatItRead
<1>3. queue'[c] = queue[c] \ {w} /\ pc'[c] # "write" /\ tree[c] \in Tree
  BY <1>1 DEF Advance, TypeOK
<1>4. got[c] \in File
  BY <1>2 DEF File
<1>5. /\ FilesKept(c)'
      /\ ~edited[c] => \A v \in scope[c] \ (queue[c] \cup {w}) : Untouched(c, v)' => ReadsBack(c, v)'
  BY <1>1, <1>3, <1>4, WriteKeepsFiles
<1>6. ASSUME Untouched(c, w)' PROVE ReadsBack(c, w)'
  <2>1. Settings(server[w]) = got[c] /\ server[w] \in [UseSet -> Payload] /\ got[c] # NoConfig
    BY <1>1, <1>2, <1>6, NilAssumption DEF Untouched, TypeOK
  <2>2. /\ got[c] # ReadError
        /\ Uses(Changed(got[c], got[c])) = {}
        /\ TreeDiff(got[c], got[c]) = {}
    BY <2>1, PulledIsInSync
  <2>3. tree'[c] = Write(tree[c], w, got[c])
    BY <1>1 DEF TypeOK
  <2>4. Read(tree'[c], w) = got[c]
    BY <2>3, <1>2, <1>3, ReadWritten
  <2> QED BY <2>1, <2>2, <2>4, <1>1 DEF ReadsBack
<1>7. PastReadsBack(c)'
  BY <1>1, <1>3, <1>5, <1>6 DEF PastReadsBack
<1>8. AboutToWrite(c)'
  BY <1>1, <1>2, <1>3 DEF AboutToWrite
<1>9. \A d \in Checkouts \ {c} : SameRun(d) /\ SameFiles(d) /\ Recorded(d)
  BY <1>1 DEF Advance, SameRun, SameFiles, Recorded, TypeOK
<1> QED BY <1>1, <1>5, <1>7, <1>8, <1>9, OthersPull DEF PullRun

\* A pull that dies in a write leaves the workspaces it is past as they are.
LEMMA WriteFileTornPull ==
    ASSUME IInv, PullInv, NEW c \in Checkouts, NEW w \in Wids, WriteFileTorn(c, w)
    PROVE  PullInv'
<1>1. /\ TypeOK /\ PullRun(c) /\ pc[c] = "write" /\ Least(w, queue[c]) /\ Stop(c)
      /\ UNCHANGED <<server, cmd, scope, items, queue, left, got, base, touched, edited>>
  BY DEF IInv, PullInv, WriteFileTorn, serverVars, ghostVars
<1>2. PICK torn \in TornFiles(got[c]) : tree' = [tree EXCEPT ![c] = Write(@, w, torn)]
  BY DEF WriteFileTorn
<1>3. torn \in File
  <2>1. got[c] \in Config
    BY <1>1 DEF TypeOK
  <2> QED BY <1>2, <2>1, TornType
<1>4. pc'[c] = "failed" /\ pc'[c] \notin Running /\ w \in queue[c]
  BY <1>1 DEF Stop, TypeOK, Running, Least
<1>5. /\ FilesKept(c)'
      /\ ~edited[c] => \A v \in scope[c] \ (queue[c] \cup {w}) : Untouched(c, v)' => ReadsBack(c, v)'
  BY <1>1, <1>2, <1>3, <1>4, WriteKeepsFiles
<1>6. PastReadsBack(c)' /\ AboutToWrite(c)'
  BY <1>1, <1>4, <1>5 DEF PastReadsBack, AboutToWrite
<1>7. \A d \in Checkouts \ {c} : SameRun(d) /\ SameFiles(d) /\ Recorded(d)
  BY <1>1, <1>2 DEF Stop, SameRun, SameFiles, Recorded, TypeOK
<1> QED BY <1>1, <1>5, <1>6, <1>7, OthersPull DEF PullRun

\* A user's edit is recorded by the checkout it is in.
LEMMA EditPull ==
    ASSUME IInv, PullInv, NEW c \in Checkouts, User(c)
    PROVE  PullInv'
<1>1. PICK e \in Dirs, w \in Wids, f \in EditFiles : Edit(c, e, w, f)
  BY DEF User
<1>2. TypeOK /\ PullRun(c) /\ UNCHANGED <<server, runVars, base, touched>>
  BY <1>1 DEF IInv, PullInv, Edit, serverVars
<1>3. edited'[c]
  BY <1>1, <1>2 DEF Edit, TypeOK
<1>4. PullRun(c)'
  BY <1>2, <1>3 DEF PullRun, FilesKept, PastReadsBack, AboutToWrite, runVars
<1>5. \A d \in Checkouts \ {c} : SameRun(d) /\ SameFiles(d) /\ Recorded(d)
  BY <1>1, <1>2 DEF Edit, SameRun, SameFiles, Recorded, TypeOK, runVars
<1> QED BY <1>2, <1>4, <1>5, OthersPull

\* A change by another administrator is recorded by every process.
LEMMA OutsidePull ==
    ASSUME IInv, PullInv, Outside
    PROVE  PullInv'
<1>1. TypeOK /\ UNCHANGED <<tree, runVars, base, edited>>
  BY DEF IInv, Outside, OutsideDelete, OutsideCreate, OutsideSet, CountOutside
<1>2. \A c \in Checkouts : SameRun(c) /\ SameFiles(c)
  BY <1>1 DEF SameRun, SameFiles, runVars
<1>3. ASSUME NEW w \in Wids, NEW u \in UseSet, NEW p \in OutsidePayloads, OutsideSet(w, u, p),
             NEW c \in Checkouts
      PROVE  Recorded(c)
  BY <1>1, <1>3 DEF OutsideSet, SetUse, Touch, Recorded, TypeOK
<1>4. ASSUME NEW w \in Wids, OutsideDelete(w) \/ OutsideCreate(w), NEW c \in Checkouts
      PROVE  Recorded(c)
  BY <1>1, <1>4 DEF OutsideDelete, OutsideCreate, Unconfigure, Touch, Recorded, TypeOK
<1>5. \A c \in Checkouts : Recorded(c)
  BY <1>3, <1>4 DEF Outside
<1> QED BY <1>1, <1>2, <1>5, PullFrame DEF PullInv

-----------------------------------------------------------------------------
\* No pull has written anything initially.
THEOREM InitPull == Init => PullInv
<1> SUFFICES ASSUME Init, NEW c \in Checkouts PROVE PullRun(c)
  BY DEF PullInv
<1> QED BY DEF Init, PullRun, FilesKept, PastReadsBack, AboutToWrite, Running

\* Every step of the pull, the push, a fault, a user or another administrator keeps what is known of the
\* files.
THEOREM NextPull == IInv /\ PullInv /\ [Next]_vars => PullInv'
<1> SUFFICES ASSUME IInv, PullInv, [Next]_vars PROVE PullInv'
  OBVIOUS
<1>1. ASSUME NEW c \in Checkouts, Step(c) PROVE PullInv'
  <2>1. ASSUME NEW w \in Wids, NotFound(c, w) PROVE PullInv'
    BY <2>1, StopPull DEF NotFound, Running
  <2> QED BY <1>1, <2>1, WriteFilePull, GetPull, PutPull DEF Step
<1>2. ASSUME NEW c \in Checkouts, Fault(c) PROVE PullInv'
  BY <1>2, StopPull, WriteFileTornPull, PutPull DEF Fault, Fail
<1>3. CASE UNCHANGED vars
  <2>1. \A c \in Checkouts : SameRun(c) /\ SameFiles(c) /\ Recorded(c)
    BY <1>3 DEF SameRun, SameFiles, Recorded, vars, serverVars, runVars, ghostVars
  <2> QED BY <2>1, PullFrame DEF IInv, PullInv
<1> QED BY <1>1, <1>2, <1>3, BeginPull, EditPull, OutsidePull DEF Next

\* The files are as the pulls left them in every behaviour.
THEOREM PullInvariance == Spec => []PullInv
BY InitPull, NextPull, Invariance, PTL DEF Spec

\* A workspace a pull is past reads back as the server's settings, or keeps its file when it has none,
\* unless others changed the server or the files meanwhile.
THEOREM PullsReadBack == Spec => []PulledReadsBack
<1>1. PullInv => PulledReadsBack
  <2> SUFFICES ASSUME NEW c \in Checkouts, PullRun(c), cmd[c] = "pull", ~edited[c],
                      NEW w \in scope[c], w \notin queue[c], touched[c] \cap ({w} \X UseSet) = {}
               PROVE  ReadsBack(c, w)
    BY DEF PullInv, PulledReadsBack, ReadsBack
  <2>1. Untouched(c, w)
    BY DEF Untouched
  <2> QED BY <2>1 DEF PullRun, PastReadsBack
<1> QED BY PullInvariance, <1>1, PTL

\* A command changes only the first directory's file of a workspace it is at or past, and a push none.
THEOREM WritesOnlyItsFiles == Spec => []OnlyCurrentFileWritten
<1>1. PullInv => OnlyCurrentFileWritten
  BY DEF PullInv, PullRun, FilesKept, WrittenFile, OnlyCurrentFileWritten
<1> QED BY PullInvariance, <1>1, PTL

-----------------------------------------------------------------------------
\* A push does not change a use that is in sync: it skips it, or sends the value that is there.
LEMMA PushKeepsSynced ==
    ASSUME IInv, PullInv, Next, NEW c \in Checkouts, NEW w \in Wids, NEW u \in UseSet,
           StepOf(c), ~edited[c], <<w, u>> \notin touched[c], SyncedUse(c, w, u)
    PROVE  server'[w][u] = server[w][u]
<1> SUFFICES ASSUME server'[w][u] # server[w][u] PROVE FALSE
  OBVIOUS
<1>1. /\ pc[c] = "put" /\ Least(w, queue[c]) /\ FirstUse(u, left[c])
      /\ w \in queue[c] /\ u \in left[c] /\ server'[w][u] = Sent(c, w, u)
  BY ServerChangedByPut DEF Least, FirstUse
<1>2. cmd[c] = "push" /\ u \in Uses(items[c][w]) /\ Sent(c, w, u) = ToModel(items[c][w][u])
  BY <1>1, SentIsFile
<1>3. TypeOK /\ RunInv(c) /\ FilesKept(c)
  BY DEF IInv, PushInv, PullInv, PullRun
<1>4. /\ items[c][w] = Read(base[c], w) /\ items[c][w] \in Config
      /\ FileUses(base[c], w) = Uses(items[c][w])
  BY <1>1, <1>2, <1>3, CurrentItem DEF RunInv, Running
<1>5. Read(tree[c], w) = Read(base[c], w)
  <2>1. \A d \in Dirs : tree[c][d][w] = base[c][d][w]
    BY <1>2, <1>3 DEF FilesKept, WrittenFile
  <2> QED BY <2>1, SameRead
<1>6. InSync(items[c][w][u], server[w][u])
  BY <1>2, <1>4, <1>5 DEF SyncedUse, FileUses
<1>7. items[c][w][u].starting_from # NoTime
  BY <1>1, <1>4, <1>6, SentIsNews
<1>8. server[w][u] \in Payload
  BY <1>3 DEF TypeOK
<1>9. server[w][u] = ToModel(items[c][w][u])
  BY <1>6, <1>7, <1>8 DEF InSync, ToModel, Payload
<1> QED BY <1>1, <1>2, <1>9

\* A file a pull writes says of a use what the server has, or nothing.
LEMMA WrittenInSync ==
    ASSUME IInv, PullInv, NEW c \in Checkouts, NEW w \in Wids, pc[c] = "write", Least(w, queue[c]),
           NEW u \in UseSet, <<w, u>> \notin touched[c], u \in FileUses(Write(tree[c], w, got[c]), w)
    PROVE  InSync(Read(Write(tree[c], w, got[c]), w)[u], server[w][u])
<1>1. /\ TypeOK /\ RunInv(c) /\ PullRun(c) /\ pc[c] \in Running /\ w \in queue[c] /\ got[c] \in Config
      /\ tree[c] \in Tree /\ server[w][u] \in Payload
  BY DEF IInv, PushInv, PullInv, Running, Least, TypeOK
<1>2. got[c][u] = FromModel(server[w][u])
  BY <1>1 DEF RunInv, GotIsCurrent, ReadNotSent, PullRun, AboutToWrite
<1> DEFINE after == Write(tree[c], w, got[c])
<1>3. Read(after, w) = IF got[c] = BadFile THEN ReadError ELSE IF Uses(got[c]) = {} THEN NoConfig ELSE got[c]
  <2>1. 1 \in Dirs /\ after[1][w] = got[c]
    BY <1>1, DirsAssumption DEF Write, Tree, Dirs
  <2>2. FirstHolder(after, w, 1)
    BY <1>1, <2>1, NilAssumption DEF FirstHolder
  <2> HIDE DEF after
  <2> QED BY <2>1, <2>2, ReadFirst
<1> HIDE DEF after
<1>4. Read(after, w) = got[c] /\ got[c][u] # NoRotation
  <2>1. Read(after, w) # ReadError /\ u \in Uses(Read(after, w))
    BY DEF FileUses, after
  <2>2. Read(after, w) # NoConfig
    BY <2>1 DEF Uses
  <2> QED BY <1>1, <1>3, <2>1, <2>2, NilAssumption DEF Uses
<1>5. InSync(FromModel(server[w][u]), server[w][u])
  BY <1>2, <1>4 DEF FromModel, InSync
<1> QED BY <1>2, <1>4, <1>5 DEF after

\* Nor does a pull make the file say something else than the server: it writes what it read, if it ends the write.
LEMMA PullKeepsSynced ==
    ASSUME IInv, PullInv, Next, NEW c \in Checkouts, NEW w \in Wids, NEW u \in UseSet,
           StepOf(c), <<w, u>> \notin touched[c], SyncedUse(c, w, u), server'[w][u] = server[w][u]
    PROVE  SyncedUse(c, w, u)' \/ WriteFileTorn(c, w)
<1>1. TypeOK
  BY DEF IInv
<1>2. CASE \A d \in Dirs : tree'[c][d][w] = tree[c][d][w]
  <2>1. Read(tree'[c], w) = Read(tree[c], w)
    BY <1>2, SameRead
  <2> QED BY <2>1 DEF SyncedUse, FileUses
<1>3. ASSUME NEW d \in Dirs, tree'[c][d][w] # tree[c][d][w] PROVE SyncedUse(c, w, u)' \/ WriteFileTorn(c, w)
  <2>1. ~UNCHANGED runVars /\ ~UNCHANGED tree
    BY <1>3 DEF StepOf, Local, runVars
  <2>2. PICK e \in Checkouts : Step(e) \/ Fault(e)
    BY <2>1 DEF Next, Outside, OutsideSet, OutsideDelete, OutsideCreate, CountOutside, User, Edit,
                Start, StartPush, RefusePush, StartPull, Begin
  <2>3. PICK v \in Wids : WriteFile(e, v) \/ WriteFileTorn(e, v)
    BY <2>1, <2>2 DEF Step, Fault, NotFound, Interrupted, Get, Put, Fail, PutAnswerLost
  <2>4. PICK file : tree' = [tree EXCEPT ![e] = Write(@, v, file)]
    BY <2>3 DEF WriteFile, WriteFileTorn
  <2>5. e = c
    BY <1>1, <1>3, <2>4 DEF TypeOK
  <2>6. tree'[c] = Write(tree[c], v, file) /\ tree[c] \in Tree
    BY <1>1, <2>4, <2>5 DEF TypeOK
  <2>7. v = w
    BY <1>3, <2>6, DirsAssumption DEF Write, Tree, Dirs
  <2>8. CASE WriteFile(c, w)
    <3>1. pc[c] = "write" /\ Least(w, queue[c]) /\ tree'[c] = Write(tree[c], w, got[c])
      BY <1>1, <2>8 DEF WriteFile, TypeOK
    <3> QED BY <3>1, WrittenInSync DEF SyncedUse
  <2> QED BY <2>3, <2>5, <2>7, <2>8
<1> QED BY <1>2, <1>3

\* A use that is in sync stays so on the server, whatever that checkout pushes or pulls and wherever it fails,
\* and in its file unless a pull dies while it writes it: pushes and pulls are idempotent.
THEOREM RunsAreIdempotent == Spec => SyncedStays
<1> DEFINE A == \A c \in Checkouts, w \in Wids, u \in UseSet :
                    StepOf(c) /\ ~edited[c] /\ <<w, u>> \notin touched[c] /\ SyncedUse(c, w, u) =>
                        /\ server'[w][u] = server[w][u]
                        /\ SyncedUse(c, w, u)' \/ WriteFileTorn(c, w)
<1>1. IInv /\ PullInv /\ [Next]_vars => [A]_vars
  BY PushKeepsSynced, PullKeepsSynced
<1>2. SyncedStays <=> [][A]_vars
  BY DEF SyncedStays
<1> QED BY Invariance, PullInvariance, <1>1, <1>2, PTL DEF Spec
=============================================================================
