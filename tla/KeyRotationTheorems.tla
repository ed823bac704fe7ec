------------------------ MODULE KeyRotationTheorems ------------------------
(***************************************************************************)
(* Facts about the functions of KeyRotation, for any number of workspaces  *)
(* and directories and any crons and payloads.                             *)
(***************************************************************************)
EXTENDS KeyRotation, TLAPS

\* DirStore.Read is decided by the first directory that holds a file.
LEMMA ReadFirst ==
    ASSUME NEW files, NEW w \in Wids, NEW d \in Dirs, FirstHolder(files, w, d)
    PROVE  Read(files, w) = IF files[d][w] = BadFile THEN ReadError
                            ELSE IF Uses(files[d][w]) = {} THEN NoConfig ELSE files[d][w]
<1> DEFINE first == CHOOSE e \in Dirs : FirstHolder(files, w, e)
<1>1. first \in Dirs /\ FirstHolder(files, w, first)
  OBVIOUS
<1>2. first = d
  <2> HIDE DEF first
  <2>1. first \in Nat /\ d \in Nat /\ first > 0 /\ d > 0
    BY <1>1, DirsAssumption DEF Dirs
  <2>2. ~(first < d) /\ ~(d < first)
    BY <1>1, <2>1 DEF FirstHolder
  <2> QED BY <2>1, <2>2
<1>3. Read(files, w) = IF files[first][w] = BadFile THEN ReadError
                       ELSE IF Uses(files[first][w]) = {} THEN NoConfig ELSE files[first][w]
  BY DEF Read
<1> QED BY <1>2, <1>3

\* DirStore.Read returns the error, nothing, or a configuration that sets a use.
LEMMA ReadType ==
    ASSUME NEW files \in Tree, NEW w \in Wids
    PROVE  /\ Read(files, w) \in Config \cup {NoConfig, ReadError}
           /\ Read(files, w) \in Config => Uses(Read(files, w)) # {}
<1>1. CASE \A d \in Dirs : ~FirstHolder(files, w, d)
  BY <1>1, NilAssumption DEF Read
<1>2. CASE \E d \in Dirs : FirstHolder(files, w, d)
  <2> DEFINE first == CHOOSE d \in Dirs : FirstHolder(files, w, d)
             file == files[first][w]
  <2>1. first \in Dirs /\ FirstHolder(files, w, first)
    BY <1>2
  <2>2. file \in Config \cup {BadFile}
    BY <2>1 DEF Tree, File, FirstHolder
  <2>3. Read(files, w) = IF file = BadFile THEN ReadError
                         ELSE IF Uses(file) = {} THEN NoConfig ELSE file
    BY <1>2 DEF Read
  <2> HIDE DEF file
  <2> QED BY <2>2, <2>3, NilAssumption
<1> QED BY <1>1, <1>2

\* ... and depends on the files of the workspace only.
LEMMA SameRead ==
    ASSUME NEW files, NEW others, NEW w \in Wids, \A d \in Dirs : files[d][w] = others[d][w]
    PROVE  Read(files, w) = Read(others, w)
<1>1. \A d \in Dirs : FirstHolder(files, w, d) <=> FirstHolder(others, w, d)
  <2> SUFFICES ASSUME NEW d \in Dirs
               PROVE  FirstHolder(files, w, d) <=> FirstHolder(others, w, d)
    OBVIOUS
  <2>1. \A e \in 1..(d - 1) : e \in Dirs
    BY DirsAssumption DEF Dirs
  <2> QED BY <2>1 DEF FirstHolder
<1>2. CASE \A d \in Dirs : ~FirstHolder(files, w, d)
  BY <1>1, <1>2 DEF Read
<1>3. CASE \E d \in Dirs : FirstHolder(files, w, d)
  <2>1. PICK d \in Dirs : FirstHolder(files, w, d)
    BY <1>3
  <2>2. FirstHolder(others, w, d)
    BY <1>1, <2>1
  <2> QED BY <2>1, <2>2, ReadFirst
<1> QED BY <1>2, <1>3

\* The API store reads back well-formed rotations, without starting_from.
LEMMA FromModelType ==
    ASSUME NEW p \in Payload
    PROVE  /\ FromModel(p) \in Rotation \cup {NoRotation}
           /\ FromModel(p) # NoRotation =>
                /\ FromModel(p) \in Rotation
                /\ FromModel(p).enabled = p.enabled /\ FromModel(p).cron = p.cron
BY DEF FromModel, Payload, Rotation

\* The configuration without uses is one.
LEMMA EmptyConfigType == EmptyConfig \in Config /\ Uses(EmptyConfig) = {}
BY NilAssumption DEF EmptyConfig, Config, Uses

\* What the server holds, read back, is a configuration or nothing.
LEMMA SettingsType ==
    ASSUME NEW payloads \in [UseSet -> Payload]
    PROVE  Settings(payloads) \in Config \cup {NoConfig}
<1>1. [u \in UseSet |-> FromModel(payloads[u])] \in Config
  BY FromModelType DEF Config
<1> QED BY <1>1 DEF Settings

\* The settings of a workspace are those of its uses.
LEMMA SameSettings ==
    ASSUME NEW payloads, NEW others, \A u \in UseSet : payloads[u] = others[u]
    PROVE  Settings(payloads) = Settings(others)
BY DEF Settings
=============================================================================
