--------------------------- MODULE BodyFilesProofs ---------------------------
(***************************************************************************)
(* What pulls of resources with a body guarantee for any resources, names  *)
(* and bodies and any number of pulls, deaths and changes on the server.   *)
(***************************************************************************)
EXTENDS BodyFiles, WellFoundedInduction, TLAPS

\* Every set of naturals has a least element: < is well-founded.
LEMMA LeastNatural ==
    ASSUME NEW T \in SUBSET Nat, T # {}
    PROVE  \E x \in T : \A y \in T : x <= y
<1> DEFINE R == OpToRel(<, Nat)
<1>1. IsWellFoundedOn(R, Nat)
  BY NatLessThanWellFounded
<1>2. \A x, y \in Nat : x < y => <<x, y>> \in R
  BY DEF OpToRel
<1> HIDE DEF R
<1>3. \E x \in T : \A y \in T : ~ (<<y, x>> \in R)
  BY <1>1, WFMin
<1>4. PICK x \in T : \A y \in T : ~ (<<y, x>> \in R)
  BY <1>3
<1>5. ASSUME NEW y \in T PROVE x <= y
  <2>1. x \in Nat /\ y \in Nat /\ ~ (<<y, x>> \in R)
    BY <1>4
  <2>2. ~ (y < x)
    BY <2>1, <1>2
  <2> QED BY <2>1, <2>2
<1> QED BY <1>4, <1>5

\* Files of which none is after some number have a last one.
LEMMA LastFile ==
    ASSUME NEW T \in SUBSET Nat, T # {}, NEW last \in Nat, \A f \in T : f <= last
    PROVE  \E f \in T : \A g \in T : g <= f
<1> DEFINE before == {last - f : f \in T}
<1>1. before \in SUBSET Nat /\ before # {}
  <2>1. \A f \in T : last - f \in Nat
    OBVIOUS
  <2> QED BY <2>1
<1> HIDE DEF before
<1>2. PICK x \in before : \A y \in before : x <= y
  BY <1>1, LeastNatural
<1>3. PICK f \in T : x = last - f
  BY DEF before
<1>4. ASSUME NEW g \in T PROVE g <= f
  <2>1. x <= last - g
    BY <1>2 DEF before
  <2> QED BY <1>3, <2>1
<1> QED BY <1>4

-----------------------------------------------------------------------------
(***************************************************************************)
(* The inductive invariant.                                                *)
(***************************************************************************)
\* A directory has finitely many files, so that there is a number none of them is after.
Bounded == \E last \in Nat : \A f \in Stored : f <= last

Typed ==
    /\ TypeOK /\ Bounded
    /\ yamls \in [FileNames -> YamlFile \cup {NoYaml}]
    /\ pulled \subseteq Ids \X Item
    /\ \A id \in Present(data) : <<id, data[id]>> \in pulled

\* Resources are written one after the other.
OneByOne ==
    /\ \A i, j \in open : i = j
    /\ pc # "pull" /\ ~died => open = {}
    /\ pc = "done" => todo = {} /\ open = {}

\* What the body file of a resource holds until its YAML file follows.
BodyStored == pc = "pull" => \A id \in open : data[id].inline \/ bodies[FileOf(data[id])] = data[id].body

\* A YAML file with an id is of a resource that was pulled under its name.
Traced == \A f \in Stored : yamls[f].id # NoId => \E p \in pulled : p[1] = yamls[f].id /\ FileOf(p[2]) = f

\* Unless a pull died, it is as that pull wrote it, with the body it wrote unless that is being replaced.
OwnFile(f) ==
    \E p \in pulled :
        /\ FileOf(p[2]) = f /\ yamls[f] = Yaml(p[1], p[2])
        /\ p[2].inline \/ bodies[f] = p[2].body \/ \E id \in open : FileOf(data[id]) = f
Own == ~died => \A f \in Stored : OwnFile(f)

\* What the pull has written.
Alone(id) == \A other \in Present(data) \ {id} : FileOf(data[other]) # FileOf(data[id])
WrittenFile(id) ==
    LET f == FileOf(data[id])
    IN /\ f \in Stored /\ yamls[f].id # NoId
       /\ Alone(id) => yamls[f] = Yaml(id, data[id]) /\ (data[id].inline \/ bodies[f] = data[id].body)
Written == pc \in {"pull", "done"} => \A id \in Present(data) \ (todo \cup open) : WrittenFile(id)

IInv == Typed /\ OneByOne /\ BodyStored /\ IncludesExist /\ Traced /\ Own /\ Written

\* A directory with one more file: there still is such a number.
LEMMA BoundedGrows ==
    ASSUME Bounded, NEW file \in FileNames, Stored' \subseteq Stored \cup {file}
    PROVE  Bounded'
<1>1. PICK last \in Nat : \A f \in Stored : f <= last
  BY DEF Bounded
<1>2. file \in Nat /\ Stored \subseteq Nat
  BY NamesAssumption DEF Stored
<1>3. \A f \in Stored' : f <= last + file
  BY <1>1, <1>2
<1>4. last + file \in Nat
  BY <1>2
<1> QED BY <1>3, <1>4 DEF Bounded

\* Of the files of an id one is the last.
LEMMA LastOf ==
    ASSUME Typed, NEW id, \E f \in Stored : yamls[f].id = id
    PROVE  \E f \in Stored : yamls[f].id = id /\ \A g \in Stored : yamls[g].id = id => g <= f
<1> DEFINE T == {f \in Stored : yamls[f].id = id}
<1>1. PICK last \in Nat : \A f \in Stored : f <= last
  BY DEF Typed, Bounded
<1>2. T \in SUBSET Nat /\ T # {} /\ \A f \in T : f <= last
  BY <1>1, NamesAssumption DEF Stored
<1>3. PICK f \in T : \A g \in T : g <= f
  <2> HIDE DEF T
  <2> QED BY <1>2, LastFile
<1> QED BY <1>3

\* A resource has its file.
LEMMA FileType ==
    ASSUME NEW item \in Item, NEW id \in Ids
    PROVE  /\ FileOf(item) \in FileNames /\ Yaml(id, item) \in YamlFile
           /\ Yaml(id, item).file = FileOf(item) /\ Yaml(id, item).id = id
           /\ Yaml(id, item).body = IF item.inline THEN item.body ELSE Include
           /\ Yaml(id, item).name = item.name /\ Yaml(id, item).inline = item.inline
BY NamesAssumption DEF FileOf, Yaml, Included, Item, YamlFile

\* The initial states satisfy it.
THEOREM InitInv == Init => IInv
<1> SUFFICES ASSUME Init PROVE IInv
  OBVIOUS
<1>1. Typed
  <2>1. remote \in [Ids -> Item \cup {NoItem}]
    BY BoundsAssumption DEF Init
  <2>2. Present(data) = {} /\ Stored = {} /\ 0 \in 0..MaxChanges
    BY BoundsAssumption DEF Init, Present, Stored
  <2>3. Bounded
    BY <2>2 DEF Bounded
  <2> QED BY <2>1, <2>2, <2>3 DEF Init, Typed, TypeOK
<1>2. Stored = {} /\ Present(data) = {}
  BY DEF Init, Stored, Present
<1> QED BY <1>1, <1>2 DEF Init, IInv, OneByOne, BodyStored, IncludesExist, Traced, Own, Written

-----------------------------------------------------------------------------
\* A step that writes no file, takes nothing and forgets nothing pulled.
LEMMA FilesKept ==
    ASSUME IInv, UNCHANGED <<bodies, yamls, data, todo, open>>, pulled' = pulled, died => died',
           pc' = pc \/ pc' = "failed", pc' = "failed" /\ pc = "pull" => died' \/ open = {}, Typed'
    PROVE  IInv'
<1>1. Stored' = Stored /\ Present(data)' = Present(data)
  BY DEF Stored, Present
<1>2. OneByOne' /\ BodyStored' /\ IncludesExist' /\ Traced'
  BY <1>1 DEF IInv, OneByOne, BodyStored, IncludesExist, Traced, FileOf
<1>3. Own'
  BY <1>1 DEF IInv, Own, OwnFile, FileOf, Yaml, Included
<1>4. Written'
  BY <1>1 DEF IInv, Written, WrittenFile, Alone, FileOf, Yaml, Included
<1> QED BY <1>2, <1>3, <1>4 DEF IInv

\* The server changes.
LEMMA ServerInv ==
    ASSUME IInv, NEW id \in Ids, Delete(id) \/ \E item \in Items : Set(id, item)
    PROVE  IInv'
<1>1. /\ UNCHANGED <<bodies, yamls, pc, data, todo, open, pulled, died>>
      /\ changes < MaxChanges /\ changes' = changes + 1
  BY DEF Delete, Set, OnServer
<1>2. remote' \in [Ids -> Item \cup {NoItem}]
  BY BoundsAssumption DEF IInv, Typed, TypeOK, Delete, Set
<1>3. changes' \in 0..MaxChanges
  BY <1>1, BoundsAssumption DEF IInv, Typed, TypeOK
<1>4. Typed'
  BY <1>1, <1>2, <1>3 DEF IInv, Typed, TypeOK, Stored, Present, Bounded
<1> QED BY <1>1, <1>4, FilesKept

\* A pull starts.
LEMMA StartInv ==
    ASSUME IInv, StartPull
    PROVE  IInv'
<1>1. /\ pc # "pull" /\ data' = remote /\ todo' = Present(remote) /\ open' = {}
      /\ pulled' = pulled \cup {<<id, remote[id]>> : id \in Present(remote)}
      /\ pc' = (IF Present(remote) = {} THEN "done" ELSE "pull")
      /\ UNCHANGED <<remote, bodies, yamls, died, changes>>
  BY DEF StartPull
<1>2. Present(data)' = Present(remote) /\ Stored' = Stored
  BY <1>1 DEF Present, Stored
<1>3. Typed'
  <2>1. \A id \in Present(remote) : remote[id] \in Item /\ id \in Ids
    BY DEF IInv, Typed, TypeOK, Present
  <2>2. pulled' \subseteq Ids \X Item
    BY <1>1, <2>1 DEF IInv, Typed
  <2>3. TypeOK'
    BY <1>1, <1>2 DEF IInv, Typed, TypeOK
  <2> QED BY <1>1, <1>2, <2>2, <2>3 DEF IInv, Typed, Bounded
<1>4. OneByOne' /\ BodyStored' /\ IncludesExist' /\ Traced' /\ Written'
  BY <1>1, <1>2 DEF IInv, OneByOne, BodyStored, IncludesExist, Traced, Written
<1>5. Own'
  <2> SUFFICES ASSUME ~died, NEW f \in Stored PROVE OwnFile(f)'
    BY <1>1, <1>2 DEF Own
  <2>1. OwnFile(f) /\ open = {}
    BY <1>1 DEF IInv, Own, OneByOne
  <2> QED BY <1>1, <2>1 DEF OwnFile, FileOf, Yaml, Included
<1> QED BY <1>3, <1>4, <1>5 DEF IInv

\* The body of a resource is written.
LEMMA BodyInv ==
    ASSUME IInv, NEW id \in Ids, WriteBody(id)
    PROVE  IInv'
<1> DEFINE file == FileOf(data[id])
<1>1. /\ pc = "pull" /\ id \in todo /\ open = {} /\ todo' = todo \ {id} /\ open' = {id}
      /\ bodies' = IF data[id].inline THEN bodies ELSE [bodies EXCEPT ![file] = data[id].body]
      /\ UNCHANGED <<remote, yamls, data, pulled, changes, pc, died>>
  BY DEF WriteBody, Take, Idle
<1>2. Typed /\ data[id] \in Item /\ file \in FileNames /\ data[id].body \in Body /\ id \in Present(data)
  <2>1. data[id] \in Item
    BY <1>1 DEF IInv, Typed, TypeOK, Present
  <2> QED BY <1>1, <2>1, FileType DEF IInv, Typed, TypeOK, Item
<1> HIDE DEF file
<1>3. Stored' = Stored /\ Present(data)' = Present(data)
  BY <1>1 DEF Stored, Present
<1>4. /\ bodies' \in [FileNames -> Body \cup {NoBody}]
      /\ \A f \in FileNames : f # file => bodies'[f] = bodies[f]
      /\ data[id].inline \/ bodies'[file] = data[id].body
      /\ \A f \in FileNames : bodies[f] # NoBody => bodies'[f] # NoBody
  BY <1>1, <1>2, NilAssumption DEF Typed, TypeOK
<1>5. Typed'
  BY <1>1, <1>2, <1>3, <1>4 DEF Typed, TypeOK, Bounded
<1>6. OneByOne' /\ BodyStored' /\ IncludesExist' /\ Traced'
  BY <1>1, <1>3, <1>4 DEF IInv, OneByOne, BodyStored, IncludesExist, Traced, FileOf, file
<1>7. Own'
  <2> SUFFICES ASSUME ~died, NEW f \in Stored PROVE OwnFile(f)'
    BY <1>1, <1>3 DEF Own
  <2>1. PICK p \in pulled : /\ FileOf(p[2]) = f /\ yamls[f] = Yaml(p[1], p[2])
                            /\ p[2].inline \/ bodies[f] = p[2].body
    BY <1>1 DEF IInv, Own, OwnFile
  <2>2. f = file \/ bodies'[f] = bodies[f]
    BY <1>4 DEF Stored
  <2>3. p[2].inline \/ bodies'[f] = p[2].body \/ f = file
    BY <2>1, <2>2
  <2>4. \E i \in open' : FileOf(data'[i]) = file
    BY <1>1 DEF file
  <2> QED BY <1>1, <2>1, <2>3, <2>4 DEF OwnFile, FileOf, Yaml, Included
<1>8. Written'
  <2> SUFFICES ASSUME NEW i \in Present(data) \ (todo' \cup open') PROVE WrittenFile(i)'
    BY <1>1, <1>3 DEF Written
  <2>1. WrittenFile(i) /\ i # id
    BY <1>1 DEF IInv, Written
  <2>2. Alone(i) => FileOf(data[i]) # file
    BY <1>2, <2>1 DEF Alone, file
  <2> QED BY <1>1, <1>3, <1>4, <2>1, <2>2 DEF WrittenFile, Alone, FileOf, Yaml, Included, Stored
<1> QED BY <1>5, <1>6, <1>7, <1>8 DEF IInv

\* A resource whose name no file can have: nothing is open.
LEMMA RefuseInv ==
    ASSUME IInv, NEW id \in Ids, RefuseName(id)
    PROVE  IInv'
<1>1. /\ pc = "pull" /\ pc' = "failed" /\ open = {}
      /\ UNCHANGED <<remote, bodies, yamls, data, todo, open, pulled, died, changes>>
  BY DEF RefuseName, Take, Idle
<1>2. Typed'
  BY <1>1 DEF IInv, Typed, TypeOK, Stored, Present, Bounded
<1> QED BY <1>1, <1>2, FilesKept

\* The YAML file of the resource follows its body.
LEMMA YamlInv ==
    ASSUME IInv, NEW id \in Ids, WriteYaml(id)
    PROVE  IInv'
<1> DEFINE file == FileOf(data[id])
           yaml == Yaml(id, data[id])
<1>1. /\ pc = "pull" /\ id \in open /\ open' = {} /\ todo' = todo
      /\ yamls' = [yamls EXCEPT ![file] = yaml]
      /\ pc' = (IF todo = {} THEN "done" ELSE "pull")
      /\ UNCHANGED <<remote, bodies, data, pulled, died, changes>>
  BY DEF IInv, OneByOne, WriteYaml
<1>2. /\ Typed /\ id \in Present(data) /\ data[id] \in Item /\ <<id, data[id]>> \in pulled /\ id \notin todo
      /\ data[id].inline \/ bodies[file] = data[id].body
  BY <1>1 DEF IInv, Typed, TypeOK, Present, BodyStored
<1>3. /\ file \in FileNames /\ yaml \in YamlFile /\ yaml.file = file /\ yaml.id = id /\ id # NoId
      /\ yaml.body = IF data[id].inline THEN data[id].body ELSE Include
      /\ data[id].body \in Body
  BY <1>2, FileType, NilAssumption DEF Item
<1>4. /\ yamls' \in [FileNames -> YamlFile \cup {NoYaml}] /\ yamls'[file] = yaml
      /\ \A f \in FileNames : f # file => yamls'[f] = yamls[f]
  BY <1>1, <1>2, <1>3 DEF Typed
<1>5. /\ Stored' = Stored \cup {file} /\ Present(data)' = Present(data)
  BY <1>1, <1>3, <1>4, NilAssumption DEF Stored, Present
<1> HIDE DEF file, yaml
<1>6. Typed'
  <2>1. Bounded'
    BY <1>2, <1>3, <1>5, BoundedGrows DEF Typed
  <2> QED BY <1>1, <1>2, <1>3, <1>4, <1>5, <2>1 DEF Typed, TypeOK
<1>7. OneByOne' /\ BodyStored'
  BY <1>1 DEF OneByOne, BodyStored
<1>8. IncludesExist'
  <2> SUFFICES ASSUME NEW f \in Stored', yamls'[f].id # NoId, yamls'[f].body = Include
               PROVE  yamls'[f].file \in FileNames /\ bodies[yamls'[f].file] # NoBody
    BY <1>1 DEF IncludesExist
  <2>1. CASE f = file
    BY <2>1, <1>2, <1>3, <1>4, NilAssumption
  <2>2. CASE f # file
    <3>1. f \in Stored /\ yamls'[f] = yamls[f]
      BY <2>2, <1>4, <1>5 DEF Stored
    <3> QED BY <3>1 DEF IInv, IncludesExist
  <2> QED BY <2>1, <2>2
<1>9. Traced'
  <2> SUFFICES ASSUME NEW f \in Stored', yamls'[f].id # NoId
               PROVE  \E p \in pulled : p[1] = yamls'[f].id /\ FileOf(p[2]) = f
    BY <1>1 DEF Traced, FileOf
  <2>1. CASE f = file
    BY <2>1, <1>2, <1>3, <1>4 DEF file
  <2>2. CASE f # file
    <3>1. f \in Stored /\ yamls'[f] = yamls[f]
      BY <2>2, <1>4, <1>5 DEF Stored
    <3> QED BY <3>1 DEF IInv, Traced
  <2> QED BY <2>1, <2>2
<1>10. Own'
  <2> SUFFICES ASSUME ~died, NEW f \in Stored' PROVE OwnFile(f)'
    BY <1>1 DEF Own
  <2>1. CASE f = file
    BY <2>1, <1>1, <1>2, <1>4 DEF OwnFile, FileOf, Yaml, Included, file, yaml
  <2>2. CASE f # file
    <3>1. f \in Stored /\ yamls'[f] = yamls[f]
      BY <2>2, <1>4, <1>5 DEF Stored
    <3>2. OwnFile(f) /\ \A i \in open : FileOf(data[i]) # f
      BY <3>1, <1>1, <2>2 DEF IInv, Own, OneByOne, file
    <3> QED BY <1>1, <3>1, <3>2 DEF OwnFile, FileOf, Yaml, Included
  <2> QED BY <2>1, <2>2
<1>11. Written'
  <2> SUFFICES ASSUME NEW i \in Present(data) \ (todo \cup open') PROVE WrittenFile(i)'
    BY <1>1, <1>5 DEF Written
  <2>1. CASE i = id
    BY <2>1, <1>1, <1>2, <1>3, <1>4, <1>5 DEF WrittenFile, FileOf, Yaml, Included, file, yaml
  <2>2. CASE i # id
    <3>1. i \in Present(data) \ (todo \cup open)
      BY <2>2, <1>1 DEF IInv, OneByOne
    <3>2. WrittenFile(i)
      BY <3>1, <1>1 DEF IInv, Written
    <3>3. FileOf(data[i]) = file => yamls'[FileOf(data[i])].id # NoId /\ ~Alone(i)
      BY <2>2, <1>2, <1>3, <1>4 DEF Alone, file
    <3>4. FileOf(data[i]) # file => yamls'[FileOf(data[i])] = yamls[FileOf(data[i])]
      BY <3>2, <1>4 DEF WrittenFile, Stored
    <3> QED BY <1>1, <1>5, <3>2, <3>3, <3>4 DEF WrittenFile, Alone, FileOf, Yaml, Included
  <2> QED BY <2>1, <2>2
<1> QED BY <1>6, <1>7, <1>8, <1>9, <1>10, <1>11 DEF IInv

\* The process dies between two files, in a body or in a YAML file.
LEMMA DieInv ==
    ASSUME IInv, DieBetween \/ \E id \in Ids : DieInBody(id) \/ DieInYaml(id)
    PROVE  IInv'
<1>1. /\ pc = "pull" /\ pc' = "failed" /\ died' = TRUE
      /\ UNCHANGED <<remote, data, todo, open, pulled, changes>>
  BY DEF DieBetween, DieInBody, DieInYaml, Die
<1>2. OneByOne' /\ BodyStored' /\ Own' /\ Written'
  BY <1>1 DEF IInv, OneByOne, BodyStored, Own, Written
<1>3. Present(data)' = Present(data) /\ Typed
  BY <1>1 DEF IInv, Present
<1>4. CASE DieBetween
  <2>1. UNCHANGED <<bodies, yamls>>
    BY <1>4 DEF DieBetween
  <2>2. Stored' = Stored
    BY <2>1 DEF Stored
  <2>3. Typed' /\ IncludesExist' /\ Traced'
    BY <1>1, <1>3, <2>1, <2>2 DEF IInv, Typed, TypeOK, Bounded, IncludesExist, Traced, FileOf
  <2> QED BY <1>2, <2>3 DEF IInv
<1>5. ASSUME NEW id \in Ids, DieInBody(id) PROVE IInv'
  <2>1. /\ yamls' = yamls
        /\ bodies' = [bodies EXCEPT ![FileOf(data[id])] = [text |-> NoText, newline |-> FALSE]]
    BY <1>5 DEF DieInBody
  <2>2. [text |-> NoText, newline |-> FALSE] \in Body /\ Stored' = Stored
    BY <2>1 DEF Body, Stored
  <2>3. /\ bodies' \in [FileNames -> Body \cup {NoBody}]
        /\ \A f \in FileNames : bodies[f] # NoBody => bodies'[f] # NoBody
    BY <1>3, <2>1, <2>2, NilAssumption DEF Typed, TypeOK
  <2>4. Typed' /\ IncludesExist' /\ Traced'
    BY <1>1, <1>3, <2>1, <2>2, <2>3 DEF IInv, Typed, TypeOK, Bounded, IncludesExist, Traced, FileOf
  <2> QED BY <1>2, <2>4 DEF IInv
<1>6. ASSUME NEW id \in Ids, DieInYaml(id) PROVE IInv'
  <2> DEFINE file == FileOf(data[id])
  <2>1. PICK torn \in {[Yaml(id, data[id]) EXCEPT !.id = NoId], [Yaml(id, data[id]) EXCEPT !.body = NoBody]} :
            yamls' = [yamls EXCEPT ![file] = torn]
    BY <1>6 DEF DieInYaml
  <2>2. /\ id \in Present(data) /\ data[id] \in Item /\ <<id, data[id]>> \in pulled /\ bodies' = bodies
    BY <1>3, <1>6 DEF DieInYaml, Typed, TypeOK, Present
  <2>3. /\ file \in FileNames /\ torn \in YamlFile
        /\ torn.id = NoId \/ (torn.id = id /\ torn.body = NoBody)
    BY <2>1, <2>2, FileType DEF YamlFile
  <2> HIDE DEF file
  <2>4. /\ yamls' \in [FileNames -> YamlFile \cup {NoYaml}] /\ yamls'[file] = torn
        /\ \A f \in FileNames : f # file => yamls'[f] = yamls[f]
    BY <1>3, <2>1, <2>3 DEF Typed
  <2>5. Stored' = Stored \cup {file}
    BY <2>3, <2>4, NilAssumption DEF Stored
  <2>6. Typed'
    <3>1. \A f \in Stored' : yamls'[f].id \in Ids \cup {NoId} /\ yamls'[f].body \in Body \cup {NoBody, Include}
      BY <2>4 DEF Stored, YamlFile
    <3>2. Bounded'
      BY <1>3, <2>3, <2>5, BoundedGrows DEF Typed
    <3> QED BY <1>1, <1>3, <2>2, <2>4, <3>1, <3>2 DEF Typed, TypeOK
  <2>7. ASSUME NEW f \in Stored' PROVE f = file \/ (f \in Stored /\ yamls'[f] = yamls[f])
    BY <2>4, <2>5 DEF Stored
  <2>8. IncludesExist'
    BY <2>2, <2>3, <2>4, <2>7, NilAssumption DEF IInv, IncludesExist
  <2>9. Traced'
    BY <1>1, <2>2, <2>3, <2>4, <2>7 DEF IInv, Traced, FileOf, file
  <2> QED BY <1>2, <2>6, <2>8, <2>9 DEF IInv
<1> QED BY <1>4, <1>5, <1>6

\* Every step keeps the inductive invariant.
THEOREM NextInv == IInv /\ [Next]_vars => IInv'
<1> SUFFICES ASSUME IInv, [Next]_vars PROVE IInv'
  OBVIOUS
<1>1. CASE Pull
  BY <1>1, StartInv, BodyInv, RefuseInv, YamlInv DEF Pull
<1>2. CASE UNCHANGED vars
  <2>1. Typed'
    BY <1>2 DEF IInv, Typed, TypeOK, Stored, Present, Bounded, vars
  <2>2. pc' = pc
    BY <1>2 DEF vars
  <2> QED BY <1>2, <2>1, <2>2, FilesKept DEF vars, IInv, OneByOne
<1> QED BY <1>1, <1>2, DieInv, ServerInv DEF Next, Fault, Others

\* The inductive invariant holds of every behaviour.
THEOREM Invariance == Spec => []IInv
BY InitInv, NextInv, PTL DEF Spec

-----------------------------------------------------------------------------
(***************************************************************************)
(* What a read makes of the files.                                         *)
(***************************************************************************)
FileItem(f) == [name |-> yamls[f].name, body |-> Rendered(yamls[f]), inline |-> yamls[f].inline]

\* A resource is read from the last of its files.
LEMMA ReadsLast ==
    ASSUME Typed, \A f \in Stored : Readable(yamls[f]),
           NEW f \in Stored, NEW id \in Ids, yamls[f].id = id, \A g \in Stored : yamls[g].id = id => g <= f
    PROVE  ReadDir[id] = FileItem(f)
<1>1. Wins(f, id)
  <2>1. ASSUME NEW g \in FileNames, f < g PROVE yamls[g] = NoYaml \/ yamls[g].id # id
    BY <2>1, NamesAssumption DEF Stored
  <2> QED BY <2>1 DEF Wins
<1>2. ASSUME NEW g \in Stored, Wins(g, id) PROVE g = f
  <2>1. g <= f /\ f \in FileNames /\ g \in FileNames /\ yamls[f] # NoYaml
    BY <1>2 DEF Wins, Stored
  <2>2. ~(g < f)
    BY <1>2, <2>1 DEF Wins
  <2> QED BY <2>1, <2>2, NamesAssumption
<1>3. (CHOOSE g \in Stored : Wins(g, id)) = f
  BY <1>1, <1>2
<1> QED BY <1>3 DEF ReadDir, FileItem

\* A directory in which every YAML file has an id and what it includes is read without error.
LEMMA ReadsWithoutError ==
    ASSUME Typed, \A f \in Stored : Readable(yamls[f])
    PROVE  ReadDir # ReadError
<1>1. ASSUME NEW f \in Stored PROVE FileItem(f) \in ReadItem
  <2>1. yamls[f] \in YamlFile
    BY DEF Typed, Stored
  <2>2. Rendered(yamls[f]) \in Body \cup {NoBody}
    <3>1. CASE yamls[f].body = Include
      <4>1. bodies[yamls[f].file] \in Body
        BY <3>1 DEF Readable, Typed, TypeOK
      <4> QED BY <3>1, <4>1 DEF Rendered, Body
    <3>2. CASE yamls[f].body # Include
      BY <2>1, <3>2 DEF Rendered, YamlFile
    <3> QED BY <3>1, <3>2
  <2> QED BY <2>1, <2>2 DEF FileItem, ReadItem, YamlFile
<1>2. ASSUME NEW id \in Ids PROVE ReadDir[id] \in ReadItem \cup {NoItem}
  <2>1. CASE \A f \in Stored : yamls[f].id # id
    BY <2>1 DEF ReadDir
  <2>2. CASE \E f \in Stored : yamls[f].id = id
    <3>1. PICK f \in Stored : yamls[f].id = id /\ \A g \in Stored : yamls[g].id = id => g <= f
      BY <2>2, LastOf
    <3>2. ReadDir[id] = FileItem(f)
      BY <3>1, ReadsLast
    <3> QED BY <1>1, <3>1, <3>2
  <2> QED BY <2>1, <2>2
<1>3. ReadDir \in [Ids -> ReadItem \cup {NoItem}]
  BY <1>2 DEF ReadDir
<1> QED BY <1>3, NilAssumption

\* A resource whose file is as a pull wrote it reads as it was, without the newline its body ends in.
LEMMA ReadsChomped ==
    ASSUME NEW f \in FileNames, NEW id \in Ids, NEW item \in Item, yamls[f] = Yaml(id, item),
           FileOf(item) = f, item.inline \/ bodies[f] = item.body
    PROVE  FileItem(f) = Chomped(item) /\ (yamls[f].body = Include => ~item.inline)
<1>1. /\ yamls[f].name = item.name /\ yamls[f].inline = item.inline /\ yamls[f].file = f
      /\ yamls[f].body = IF item.inline THEN item.body ELSE Include
  BY FileType
<1>2. item = [name |-> item.name, body |-> item.body, inline |-> item.inline] /\ item.body \in Body
  BY DEF Item
<1>3. CASE item.inline
  BY <1>1, <1>2, <1>3, NilAssumption DEF FileItem, Rendered, Chomped
<1>4. CASE ~item.inline
  <2>1. Rendered(yamls[f]) = [item.body EXCEPT !.newline = FALSE]
    BY <1>1, <1>4 DEF Rendered
  <2>2. ASSUME NEW body PROVE [item EXCEPT !.body = body] = [name |-> item.name, body |-> body, inline |-> item.inline]
    BY DEF Item
  <2> QED BY <1>1, <1>4, <2>1, <2>2 DEF FileItem, Chomped
<1> QED BY <1>3, <1>4

-----------------------------------------------------------------------------
\* The state stays well typed: only a pull that died leaves a file without an id.
THEOREM TypeCorrect == Spec => []TypeOK
<1>1. IInv => TypeOK
  BY DEF IInv, Typed
<1> QED BY Invariance, <1>1, PTL

\* The file a YAML file includes is there, whenever a pull is or died.
THEOREM BodiesAreThere == Spec => []IncludesExist
<1>1. IInv => IncludesExist
  BY DEF IInv
<1> QED BY Invariance, <1>1, PTL

\* Unless a pull died, each resource read has name and body of one and the same pull of it.
LEMMA OwnBodyRead == IInv => BodyIsItsOwn
<1> SUFFICES ASSUME IInv, pc # "pull", ~died
             PROVE  /\ ReadDir # ReadError
                    /\ \A id \in Present(ReadDir) : \E p \in pulled : p[1] = id /\ ReadDir[id] = Chomped(p[2])
  BY DEF BodyIsItsOwn
<1>1. Typed /\ IncludesExist /\ open = {}
  BY DEF IInv, OneByOne
<1>2. ASSUME NEW f \in Stored
      PROVE  \E p \in pulled : /\ p[1] \in Ids /\ p[2] \in Item /\ yamls[f] = Yaml(p[1], p[2])
                               /\ FileOf(p[2]) = f /\ (p[2].inline \/ bodies[f] = p[2].body)
  <2>1. PICK p \in pulled : /\ FileOf(p[2]) = f /\ yamls[f] = Yaml(p[1], p[2])
                            /\ p[2].inline \/ bodies[f] = p[2].body
    BY <1>1 DEF IInv, Own, OwnFile
  <2>2. p[1] \in Ids /\ p[2] \in Item
    BY <1>1 DEF Typed
  <2> QED BY <2>1, <2>2
<1>3. ASSUME NEW f \in Stored PROVE yamls[f].id \in Ids
  <2>1. PICK p \in pulled : p[1] \in Ids /\ p[2] \in Item /\ yamls[f] = Yaml(p[1], p[2])
    BY <1>2
  <2> QED BY <2>1, FileType
<1>4. \A f \in Stored : Readable(yamls[f])
  BY <1>1, <1>3, NilAssumption DEF Readable, IncludesExist
<1>5. ReadDir # ReadError
  BY <1>1, <1>4, ReadsWithoutError
<1>6. ASSUME NEW id \in Present(ReadDir) PROVE \E p \in pulled : p[1] = id /\ ReadDir[id] = Chomped(p[2])
  <2>1. id \in Ids /\ ReadDir[id] # NoItem
    BY DEF Present
  <2>2. \E f \in Stored : yamls[f].id = id
    BY <1>4, <2>1 DEF ReadDir
  <2>3. PICK f \in Stored : yamls[f].id = id /\ \A g \in Stored : yamls[g].id = id => g <= f
    BY <1>1, <2>2, LastOf
  <2>4. ReadDir[id] = FileItem(f)
    BY <1>1, <1>4, <2>1, <2>3, ReadsLast
  <2>5. PICK p \in pulled : /\ p[1] \in Ids /\ p[2] \in Item /\ yamls[f] = Yaml(p[1], p[2])
                            /\ FileOf(p[2]) = f /\ (p[2].inline \/ bodies[f] = p[2].body)
    BY <1>2, <2>3
  <2>6. p[1] = id
    BY <2>3, <2>5, FileType
  <2>7. FileItem(f) = Chomped(p[2])
    BY <2>3, <2>5, ReadsChomped DEF Stored
  <2> QED BY <2>4, <2>6, <2>7
<1> QED BY <1>5, <1>6

\* ... in every behaviour.
THEOREM BodiesAreOwn == Spec => []BodyIsItsOwn
BY Invariance, OwnBodyRead, PTL

\* A pull that succeeds repairs what one that died left.
LEMMA RerunRead == IInv => RerunReadsBack
<1> SUFFICES ASSUME IInv, pc = "done", ReadDir # ReadError, NEW id \in Present(data),
                    \A other \in Present(data) \ {id} : FileOf(data[other]) # FileOf(data[id]),
                    \A p \in pulled : p[1] = id => ~(FileOf(p[2]) > FileOf(data[id]))
             PROVE  ReadDir[id] = Chomped(data[id])
  BY DEF RerunReadsBack
<1> DEFINE file == FileOf(data[id])
<1>1. Typed /\ id \in Ids /\ data[id] \in Item
  BY DEF IInv, Typed, TypeOK, Present
<1>2. file \in Stored /\ yamls[file] = Yaml(id, data[id]) /\ (data[id].inline \/ bodies[file] = data[id].body)
  BY DEF IInv, OneByOne, Written, WrittenFile, Alone
<1>3. \A f \in Stored : Readable(yamls[f])
  BY DEF ReadDir
<1>4. ASSUME NEW g \in Stored, yamls[g].id = id PROVE g <= file
  <2>1. PICK p \in pulled : p[1] = id /\ FileOf(p[2]) = g
    BY <1>1, <1>4, NilAssumption DEF IInv, Traced
  <2>2. ~(g > file)
    BY <2>1
  <2>3. g \in Nat /\ file \in Nat
    BY <1>1, <1>2, <1>4, NamesAssumption DEF Stored
  <2> HIDE DEF file
  <2> QED BY <2>2, <2>3
<1>5. yamls[file].id = id
  BY <1>1, <1>2, FileType
<1> HIDE DEF file
<1>6. ReadDir[id] = FileItem(file)
  BY <1>1, <1>2, <1>3, <1>4, <1>5, ReadsLast
<1>7. FileItem(file) = Chomped(data[id])
  BY <1>1, <1>2, ReadsChomped DEF Stored, file
<1> QED BY <1>6, <1>7

\* ... in every behaviour.
THEOREM RerunsRepair == Spec => []RerunReadsBack
BY Invariance, RerunRead, PTL

\* A directory that cannot be read after a pull has a truncated file of a name the pull did not write.
THEOREM OnlyTruncatedUnreadable == Spec => []StaysUnreadable
<1>1. IInv => StaysUnreadable
  <2> SUFFICES ASSUME IInv, pc = "done", ReadDir = ReadError
               PROVE  \E f \in Stored : yamls[f].id = NoId /\ \A id \in Present(data) : FileOf(data[id]) # f
    BY DEF StaysUnreadable
  <2>1. PICK f \in Stored : ~Readable(yamls[f])
    BY ReadsWithoutError DEF IInv
  <2>2. yamls[f].id = NoId
    BY <2>1 DEF IInv, IncludesExist, Readable
  <2>3. \A id \in Present(data) : yamls[FileOf(data[id])].id # NoId
    BY DEF IInv, OneByOne, Written, WrittenFile
  <2> QED BY <2>2, <2>3
<1> QED BY Invariance, <1>1, PTL
=============================================================================
