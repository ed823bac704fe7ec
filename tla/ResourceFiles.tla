--------------------------- MODULE ResourceFiles ---------------------------
(***************************************************************************)
(* The files of the resources of one kind (the clients of a workspace, its *)
(* pools, ...): how a pull names and writes one file per resource          *)
(* (writeFiles, storage/writer.go), how they are read back (readFiles,     *)
(* storage/reader.go) and merged across the storage directories            *)
(* (MultiStorage, storage/multi.go), pull after pull, while the resources  *)
(* are created, changed, renamed and deleted on the server.                *)
(*                                                                         *)
(* A resource is a function of its fields; its name is one of them.        *)
(* Strings are the names and what writeFiles and normalize make of them;   *)
(* the file of s is s ".yaml", and Before(s, t) says that it is listed     *)
(* before that of t.  What writes from a map goes over it in any order.    *)
(***************************************************************************)
EXTENDS Naturals

CONSTANTS
    Ids,         \* resource ids
    Strings,     \* names, numbered names and what normalize makes of them
    Names,       \* the names resources are given
    MaxCount,    \* bound on the number that is appended to a name
    Numbered,    \* what a number makes of a name: the name, "-" and the number
    Normal,      \* what normalize makes of a string, each character on its own
    Dotted,      \* strings whose file name starts with a dot
    Order,       \* the order of file names, of a string and ".yaml", byte by byte
    Fields,      \* the fields of a resource other than its name
    Vals,        \* their values
    Unset,       \* the field is not in the file
    NoItem,      \* no such resource
    NoId,        \* the id of a file that was truncated and not written
    ReadError,   \* a directory with such a file
    NDirs,       \* number of storage directories
    InitIds,     \* the resources the server starts with
    InitNames,   \* their names then
    InitVals,    \* and the values of their fields
    MaxChanges   \* bound on changes by other administrators and users

Dirs == 1..NDirs
Counts == 2..MaxCount
Item == [Fields \cup {"name"} -> Vals \cup {Unset} \cup Names]

ASSUME StringsAssumption ==
    /\ Names \subseteq Strings /\ Dotted \subseteq Strings
    /\ Numbered \in [Names -> [Counts -> Strings]] /\ Normal \in [Strings -> Strings]
\* os.ReadDir compares whole file names, and "-" < ".": "client-2.yaml", "client-app.yaml", "client.yaml".
Before(s, t) == <<s, t>> \in Order
ASSUME OrderAssumption ==
    /\ \A s, t \in Strings : ~(Before(s, t) /\ Before(t, s)) /\ (s = t \/ Before(s, t) \/ Before(t, s))
    /\ \A s, t, u \in Strings : Before(s, t) /\ Before(t, u) => Before(s, u)
    /\ \A n \in Names, k \in Counts : Before(Normal[Numbered[n][k]], Normal[n])
\* A number is what follows the last "-".
ASSUME NumberAssumption ==
    \A m, n \in Names, j, k \in Counts :
        Normal[Numbered[m][j]] = Normal[Numbered[n][k]] <=> j = k /\ Normal[m] = Normal[n]
ASSUME NilAssumption ==
    Unset \notin Vals /\ NoItem \notin Item /\ NoId \notin Ids /\ ReadError \notin [Ids -> Item \cup {NoItem}]
ASSUME BoundsAssumption ==
    /\ NDirs \in Nat \ {0} /\ MaxChanges \in Nat /\ MaxCount \in Nat \ {0, 1}
    /\ InitIds \subseteq Ids /\ InitNames \subseteq Names /\ InitVals \subseteq Vals \cup {Unset}

VARIABLES
    remote,   \* the resources on the server
    files,    \* the files of each directory: a set of records, one per file name
    pc,       \* "idle", "pull", "done" or "failed"
    data,     \* the resources the pull read
    todo,     \* those it has not written yet
    counts,   \* names of writeFiles: the file names used so far, with their count
    base,     \* history: the files when the pull started
    named,    \* history: the names under which each resource was pulled
    changes   \* number of changes by others so far

vars == <<remote, files, pc, data, todo, counts, base, named, changes>>

Present(all) == {id \in Ids : all[id] # NoItem}
NameOf(item) == item["name"]

\* Mutant of FileName: the name is not normalized.
FileName_Raw(name) == name
\* RawWriter: the file of a name.
FileName(name) == Normal[name]

\* writeFiles: the name a resource gets, and the count recorded for it (not for the name it shares).
Chosen(name, used) ==
    IF name \notin DOMAIN used THEN [name |-> name, count |-> 1]
    ELSE [name |-> Numbered[name][used[name] + 1], count |-> used[name] + 1]
Record(used, chosen) ==
    [n \in DOMAIN used \cup {chosen.name} |-> IF n = chosen.name THEN chosen.count ELSE used[n]]

\* Mutant of Replace: a file of the same name and another resource stays.
Replace_SameId(dir, file) == {f \in dir : f.name # file.name \/ f.id # file.id} \cup {file}
\* os.Create and Write: the file is replaced.
Replace(dir, file) == {f \in dir : f.name # file.name} \cup {file}

\* Mutant of Wins: the first file of an id is kept.
Wins_First(f, dir) == \A g \in dir : g.id = f.id /\ g # f => Before(f.name, g.name)
\* readFiles: os.ReadDir returns the files sorted by name, and the last one of an id wins.
Wins(f, dir) == \A g \in dir : g.id = f.id /\ g # f => Before(g.name, f.name)
ReadDir(dir) ==
    IF \E f \in dir : f.id = NoId THEN ReadError
    ELSE [id \in Ids |-> IF \E f \in dir : f.id = id
                         THEN (CHOOSE f \in dir : f.id = id /\ Wins(f, dir)).item
                         ELSE NoItem]

\* mergo.Merge with override: fields of src over those of dst.
MergeItem(dst, src) ==
    IF dst = NoItem THEN src ELSE IF src = NoItem THEN dst
    ELSE [k \in DOMAIN src |-> IF src[k] = Unset THEN dst[k] ELSE src[k]]
Merge(dst, src) ==
    IF ReadError \in {dst, src} THEN ReadError
    ELSE [id \in Ids |-> MergeItem(dst[id], src[id])]

\* Mutant of MergedFrom: the directories are merged in the order they are listed.
MergedFrom_Listed(all) ==
    LET merged[d \in 0..NDirs] ==
            IF d = 0 THEN [id \in Ids |-> NoItem] ELSE Merge(merged[d - 1], ReadDir(all[d]))
    IN merged[NDirs]
\* MultiStorage.Read: from the last directory to the first, each over the ones before.
MergedFrom(all) ==
    LET merged[d \in 1..(NDirs + 1)] ==
            IF d > NDirs THEN [id \in Ids |-> NoItem] ELSE Merge(merged[d + 1], ReadDir(all[d]))
    IN merged[1]

-----------------------------------------------------------------------------
\* Client.Read, then the start of writeFiles.
StartPull ==
    /\ pc # "pull"
    /\ data' = remote /\ todo' = Present(remote) /\ counts' = <<>>
    /\ base' = files
    /\ named' = [id \in Ids |-> IF remote[id] = NoItem THEN named[id]
                                ELSE named[id] \cup {NameOf(remote[id])}]
    /\ pc' = IF Present(remote) = {} THEN "done" ELSE "pull"
    /\ UNCHANGED <<remote, files, changes>>

\* One iteration of writeFiles, into the first directory.
Countable(name) == name \in DOMAIN counts => counts[name] < MaxCount
Write(id, file) == files' = [files EXCEPT ![1] = Replace(@, file)]
WriteNext(id) ==
    /\ pc = "pull" /\ id \in todo /\ Countable(NameOf(data[id]))
    /\ LET chosen == Chosen(NameOf(data[id]), counts)
       IN IF chosen.name \in Dotted
          THEN pc' = "failed" /\ UNCHANGED <<files, todo, counts>>
          ELSE /\ Write(id, [name |-> FileName(chosen.name), id |-> id, item |-> data[id]])
               /\ counts' = Record(counts, chosen)
               /\ todo' = todo \ {id}
               /\ pc' = IF todo = {id} THEN "done" ELSE "pull"
    /\ UNCHANGED <<remote, data, base, named, changes>>

\* The process dies, between two files or having truncated one, of which it wrote nothing or a part.
Die == pc = "pull" /\ pc' = "failed" /\ UNCHANGED <<remote, data, todo, counts, base, named, changes>>
DieBetween == Die /\ UNCHANGED files
DieWriting(id) ==
    /\ id \in todo /\ Countable(NameOf(data[id]))
    /\ LET chosen == Chosen(NameOf(data[id]), counts).name
           name == FileName(chosen)
       IN /\ chosen \notin Dotted
          /\ \/ Write(id, [name |-> name, id |-> NoId, item |-> NoItem])
             \/ \E k \in Fields :
                    Write(id, [name |-> name, id |-> id, item |-> [data[id] EXCEPT ![k] = Unset]])
    /\ Die

\* Other administrators.
CountChange == changes < MaxChanges /\ changes' = changes + 1
OnServer == CountChange /\ UNCHANGED <<files, pc, data, todo, counts, base, named>>
Items == {item \in [Fields \cup {"name"} -> Vals \cup {Unset} \cup Names] :
              item["name"] \in Names /\ \A k \in Fields : item[k] \in Vals \cup {Unset}}
Set(id, item) == remote' = [remote EXCEPT ![id] = item] /\ item # remote[id] /\ OnServer
Delete(id) == remote[id] # NoItem /\ remote' = [remote EXCEPT ![id] = NoItem] /\ OnServer

\* A user moves a file from one directory to another (storage/multi.go:66).
Move(d, e, f) ==
    /\ d # e /\ f \in files[d] /\ pc # "pull"
    /\ files' = [files EXCEPT ![d] = @ \ {f}, ![e] = Replace(@, f)]
    /\ CountChange /\ UNCHANGED <<remote, data, todo, counts, base, named>> /\ pc' = "idle"

-----------------------------------------------------------------------------
Init ==
    /\ remote \in [Ids -> Items \cup {NoItem}] /\ Present(remote) = InitIds
    /\ \A id \in InitIds : NameOf(remote[id]) \in InitNames /\ \A k \in Fields : remote[id][k] \in InitVals
    /\ files = [d \in Dirs |-> {}]
    /\ pc = "idle"
    /\ data = [id \in Ids |-> NoItem] /\ todo = {} /\ counts = <<>>
    /\ base = files /\ named = [id \in Ids |-> {}] /\ changes = 0

Step == StartPull \/ \E id \in Ids : WriteNext(id)
Fault == DieBetween \/ \E id \in Ids : DieWriting(id)
Others ==
    \/ \E id \in Ids : Delete(id) \/ \E item \in Items : Set(id, item)
    \/ \E d, e \in Dirs : \E f \in files[d] : Move(d, e, f)

Next == Step \/ Fault \/ Others
Spec == Init /\ [][Next]_vars

\* A pull into an empty directory, nothing else.
FreshSpec == Init /\ [][Step]_vars

-----------------------------------------------------------------------------
(***************************************************************************)
(* Properties.                                                             *)
(***************************************************************************)
IsFile(f) == /\ f.name \in Strings /\ f.id \in Ids \cup {NoId}
             /\ f.item = NoItem \/ \A k \in Fields : f.item[k] \in Vals \cup {Unset}
TypeOK ==
    /\ Present(remote) \subseteq Ids
    /\ \A d \in Dirs : \A f \in files[d] :
           IsFile(f) /\ \A g \in files[d] : f.name = g.name => f = g
    /\ pc \in {"idle", "pull", "done", "failed"}
    /\ todo \subseteq Present(data)
    /\ \A n \in DOMAIN counts : counts[n] \in 1..MaxCount
    /\ changes \in 0..MaxChanges

\* The files a name may get, numbered or not.
Family(name) == {Normal[name]} \cup {Normal[Numbered[name][k]] : k \in Counts}

\* Different names have different files, whatever number is appended, and no three resources share one.
NoClash(all) ==
    /\ \A i, j \in Present(all) :
           NameOf(all[i]) # NameOf(all[j]) => Family(NameOf(all[i])) \cap Family(NameOf(all[j])) = {}
    /\ \A i, j, k \in Present(all) :
           NameOf(all[i]) = NameOf(all[j]) /\ NameOf(all[j]) = NameOf(all[k]) =>
               i = j \/ j = k \/ i = k

\* No name ever pulled has files of this one under other numbers: "a-2" is what the second "a" gets.
OneNumber(name) ==
    \A i \in Ids : \A m \in named[i] : Normal[m] = Normal[name] \/ Family(m) \cap Family(name) = {}

\* The first, in the order of os.ReadDir, of the files the pull may have given the resource.
FirstFile(id) ==
    LET name == NameOf(data[id])
    IN IF \E j \in Present(data) \ {id} : NameOf(data[j]) = name THEN Normal[Numbered[name][2]] ELSE Normal[name]

\* writeFiles and readFiles: after pulls that succeed or fail, in whatever order resources were created,
\* changed, renamed and deleted and whichever of two resources of one name came first, a pull that
\* succeeds is read back: each resource pulled reads as it was, unless it was once pulled under a name
\* whose file is read after the one it has now or may have got, its name was that of a numbered file, a
\* truncated file is left or a user moved files.  So a file left by a deleted, renumbered or earlier named
\* resource never hides the one just written.
UnshadowedReadsBack ==
    pc = "done" /\ NoClash(data) /\ (\A d \in Dirs \ {1} : files[d] = {}) =>
        LET read == MergedFrom(files)
        IN read = ReadError \/ \A id \in Present(data) :
               /\ \A n \in named[id] :
                      Normal[n] = Normal[NameOf(data[id])] \/ Before(Normal[n], FirstFile(id))
               /\ OneNumber(NameOf(data[id]))
               => read[id] = data[id]

\* What a pull writes is in the first directory and has the name of a resource it pulled, or that name
\* numbered; the files of other names and directories are kept.
OnlyPulledNamesWritten ==
    pc \in {"pull", "done", "failed"} =>
        \A d \in Dirs : \A f \in (files[d] \ base[d]) \cup (base[d] \ files[d]) :
            d = 1 /\ \E id \in Present(data) : f.name \in Family(NameOf(data[id]))

\* README "Push configuration from multiple directories": "the first path has the highest priority":
\* a field read has the value of the first directory whose file of the resource sets it.
FirstDirectoryWins ==
    LET dirs == [d \in Dirs |-> ReadDir(files[d])]
        read == MergedFrom(files)
        sets(d, id, k) == dirs[d][id] # NoItem /\ dirs[d][id][k] # Unset
    IN read # ReadError =>
        \A id \in Present(read), k \in Fields \cup {"name"}, d \in Dirs :
            sets(d, id, k) /\ (\A e \in 1..(d - 1) : ~sets(e, id, k)) => read[id][k] = dirs[d][id][k]

\* server_storage_test.go:673, "verifying if the data read from fs is the same as the provided test
\* data": what a pull stored in empty directories reads back.
RoundTrip ==
    pc = "done" /\ (\A d \in Dirs : base[d] = {}) => MergedFrom(files) = data
=============================================================================
