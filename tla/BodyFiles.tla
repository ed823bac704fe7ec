----------------------------- MODULE BodyFiles -----------------------------
(***************************************************************************)
(* The files of resources that have a body: scripts, policies and          *)
(* templates (storage/scripts.go, policies.go, storeTemplates in           *)
(* tenant_storage.go).  A resource is two files of one name: its body, and *)
(* a YAML file that includes it when it is rendered.  A policy that is not *)
(* in rego keeps its body in the YAML.  Pulls follow each other, and may   *)
(* die between any two writes, while resources are created, changed,       *)
(* renamed and deleted on the server.                                      *)
(*                                                                         *)
(* Names are naturals, ordered as the file names are.  A template is named *)
(* by its id: it is a resource that is never renamed.                      *)
(***************************************************************************)
EXTENDS Naturals

CONSTANTS
    Ids,         \* resource ids
    Names,       \* names of resources
    FileNames,   \* file names without their extension
    Normal,      \* the file name of a name: [Names -> FileNames]
    Dotted,      \* the names a file cannot have
    Texts,       \* bodies, without the newline they may end in
    NoText,      \* a body that is empty
    NoBody,      \* no such body file, or no body in the YAML
    NoYaml,      \* no such YAML file
    Include,     \* the body of a YAML that includes a file
    NoId,        \* the id in a YAML file that was truncated
    NoItem,      \* no such resource
    ReadError,   \* the directory cannot be read
    Items,       \* what resources may be on the server
    InitIds,     \* the resources it starts with
    MaxChanges   \* bound on changes on the server

Body == [text : Texts \cup {NoText}, newline : BOOLEAN]
Item == [name : Names, body : Body, inline : BOOLEAN]
\* A YAML file, and what a read makes of one.
YamlFile == [id : Ids \cup {NoId}, name : Names, inline : BOOLEAN, file : FileNames,
             body : Body \cup {NoBody, Include}]
ReadItem == [name : Names, body : Body \cup {NoBody}, inline : BOOLEAN]

ASSUME NamesAssumption == FileNames \subseteq Nat /\ Normal \in [Names -> FileNames] /\ Dotted \subseteq Names
ASSUME NilAssumption ==
    /\ {NoBody, Include} \cap Body = {} /\ NoBody # Include /\ NoItem \notin Item /\ NoId \notin Ids
    /\ NoYaml \notin YamlFile /\ ReadError \notin [Ids -> ReadItem \cup {NoItem}]
ASSUME BoundsAssumption == Items \subseteq Item /\ InitIds \subseteq Ids /\ MaxChanges \in Nat

VARIABLES
    remote,   \* the resources on the server
    bodies,   \* the body files
    yamls,    \* the YAML files: id, name, inline and body, which is Include or in the file
    pc,       \* "idle", "pull", "done" or "failed"
    data,     \* the resources the pull read
    todo,     \* those of which nothing is written yet
    open,     \* those of which the YAML file is not written yet
    pulled,   \* history: what was ever pulled, with its id
    died,     \* history: a pull died
    changes   \* number of changes on the server

vars == <<remote, bodies, yamls, pc, data, todo, open, pulled, died, changes>>

Present(all) == {id \in Ids : all[id] # NoItem}
FileOf(item) == Normal[item.name]

\* Mutant of Included: the name is not normalized.
Included_Raw(item) == item.name
\* createMultilineIncludeTemplate: the file a YAML file includes.
Included(item) == Normal[item.name]

\* Mutant of Idle: resources are written side by side.
Idle_Always == TRUE
\* One resource is written after the other.
Idle == open = {}

-----------------------------------------------------------------------------
\* Client.Read, then the start of storeScripts, StorePolicies or storeTemplates.
StartPull ==
    /\ pc # "pull"
    /\ data' = remote /\ todo' = Present(remote) /\ open' = {}
    /\ pulled' = pulled \cup {<<id, remote[id]>> : id \in Present(remote)}
    /\ pc' = IF Present(remote) = {} THEN "done" ELSE "pull"
    /\ UNCHANGED <<remote, bodies, yamls, died, changes>>

\* An iteration of the loop begins: the body file is written, of whatever language and before the YAML.
Take(id) ==
    /\ pc = "pull" /\ id \in todo /\ Idle
    /\ UNCHANGED <<remote, yamls, data, pulled, changes>>
WriteBody(id) ==
    /\ Take(id) /\ data[id].name \notin Dotted
    /\ bodies' = IF data[id].inline THEN bodies ELSE [bodies EXCEPT ![FileOf(data[id])] = data[id].body]
    /\ todo' = todo \ {id} /\ open' = open \cup {id}
    /\ UNCHANGED <<pc, died>>

\* RawWriter refuses the name: the pull ends there.
RefuseName(id) ==
    /\ Take(id) /\ data[id].name \in Dotted
    /\ pc' = "failed" /\ UNCHANGED <<bodies, todo, open, died>>

\* Mutant of Yaml: the resource is written without its id.
Yaml_WithoutId(id, item) ==
    [id |-> NoId, name |-> item.name, inline |-> item.inline,
     file |-> Included(item), body |-> IF item.inline THEN item.body ELSE Include]
\* The iteration ends: the YAML file is written.
Yaml(id, item) ==
    [id |-> id, name |-> item.name, inline |-> item.inline,
     file |-> Included(item), body |-> IF item.inline THEN item.body ELSE Include]
WriteYaml(id) ==
    /\ pc = "pull" /\ id \in open
    /\ yamls' = [yamls EXCEPT ![FileOf(data[id])] = Yaml(id, data[id])]
    /\ open' = open \ {id}
    /\ pc' = IF todo = {} /\ open = {id} THEN "done" ELSE "pull"
    /\ UNCHANGED <<remote, bodies, data, todo, pulled, died, changes>>

\* The process dies: between two files, or having truncated one, of which it wrote nothing or a part.
Die == pc = "pull" /\ pc' = "failed" /\ died' = TRUE /\ UNCHANGED <<remote, data, todo, open, pulled, changes>>
DieBetween == Die /\ UNCHANGED <<bodies, yamls>>
DieInBody(id) ==
    /\ id \in todo /\ Idle /\ ~data[id].inline /\ data[id].name \notin Dotted
    /\ bodies' = [bodies EXCEPT ![FileOf(data[id])] = [text |-> NoText, newline |-> FALSE]]
    /\ Die /\ UNCHANGED yamls
DieInYaml(id) ==
    /\ id \in open
    /\ \E torn \in {[Yaml(id, data[id]) EXCEPT !.id = NoId], [Yaml(id, data[id]) EXCEPT !.body = NoBody]} :
           yamls' = [yamls EXCEPT ![FileOf(data[id])] = torn]
    /\ Die /\ UNCHANGED bodies

-----------------------------------------------------------------------------
\* nindent: an included body is a block scalar without its final newlines; one in the YAML is as it is.
Rendered(y) ==
    IF y.body = Include THEN [bodies[y.file] EXCEPT !.newline = FALSE] ELSE y.body

\* Every YAML file has an id and what it includes.
Readable(y) == y.id # NoId /\ (y.body = Include => y.file \in FileNames /\ bodies[y.file] # NoBody)

\* Mutant of Wins: the first file of an id is kept.
Wins_First(f, id) == yamls[f].id = id /\ \A g \in FileNames : g < f => yamls[g] = NoYaml \/ yamls[g].id # id
\* readFiles: of the files of an id the last in the order of their names is kept.
Wins(f, id) == yamls[f].id = id /\ \A g \in FileNames : f < g => yamls[g] = NoYaml \/ yamls[g].id # id

Stored == {f \in FileNames : yamls[f] # NoYaml}
ReadDir ==
    IF \E f \in Stored : ~Readable(yamls[f]) THEN ReadError
    ELSE [id \in Ids |->
            IF \A f \in Stored : yamls[f].id # id THEN NoItem
            ELSE LET y == yamls[CHOOSE f \in Stored : Wins(f, id)]
                 IN [name |-> y.name, body |-> Rendered(y), inline |-> y.inline]]

-----------------------------------------------------------------------------
\* Other administrators.
OnServer ==
    /\ changes < MaxChanges /\ changes' = changes + 1
    /\ UNCHANGED <<bodies, yamls, pc, data, todo, open, pulled, died>>
Set(id, item) == remote[id] # item /\ remote' = [remote EXCEPT ![id] = item] /\ OnServer
Delete(id) == remote[id] # NoItem /\ remote' = [remote EXCEPT ![id] = NoItem] /\ OnServer

Init ==
    /\ remote \in [Ids -> Items \cup {NoItem}] /\ Present(remote) = InitIds
    /\ bodies = [f \in FileNames |-> NoBody] /\ yamls = [f \in FileNames |-> NoYaml]
    /\ pc = "idle" /\ data = [id \in Ids |-> NoItem] /\ todo = {} /\ open = {}
    /\ pulled = {} /\ died = FALSE /\ changes = 0

Pull == StartPull \/ \E id \in Ids : WriteBody(id) \/ RefuseName(id) \/ WriteYaml(id)
Fault == DieBetween \/ \E id \in Ids : DieInBody(id) \/ DieInYaml(id)
Others == \E id \in Ids : Delete(id) \/ \E item \in Items : Set(id, item)

Next == Pull \/ Fault \/ Others
Spec == Init /\ [][Next]_vars

-----------------------------------------------------------------------------
(***************************************************************************)
(* Properties.                                                             *)
(***************************************************************************)
\* The types; only a pull that died leaves a file without an id.
TypeOK ==
    /\ remote \in [Ids -> Item \cup {NoItem}] /\ data \in [Ids -> Item \cup {NoItem}]
    /\ bodies \in [FileNames -> Body \cup {NoBody}]
    /\ \A f \in Stored : /\ yamls[f].id \in Ids \/ (yamls[f].id = NoId /\ died)
                         /\ yamls[f].body \in Body \cup {NoBody, Include}
    /\ pc \in {"idle", "pull", "done", "failed"}
    /\ todo \subseteq Present(data) /\ open \subseteq Present(data) \ todo
    /\ changes \in 0..MaxChanges

\* What a read gives of a resource pulled: nindent drops the newline its body ends in.
Chomped(item) == IF item.inline THEN item ELSE [item EXCEPT !.body = [item.body EXCEPT !.newline = FALSE]]

\* storeScripts writes the body before the YAML that includes it: whenever a pull is or died, and under
\* whatever name a body is stored, the file a YAML includes is there, so a body is never missing.
IncludesExist ==
    \A f \in Stored : yamls[f].id # NoId /\ yamls[f].body = Include =>
        yamls[f].file \in FileNames /\ bodies[yamls[f].file] # NoBody

\* storeScripts over the files of earlier pulls: unless a pull died, the directory can be read and
\* each resource in it has name and body of one and the same pull of that very resource, also when
\* resources share a name, take over a name given up or move their body into the YAML and back.
BodyIsItsOwn ==
    pc # "pull" /\ ~died =>
        /\ ReadDir # ReadError
        /\ \A id \in Present(ReadDir) : \E p \in pulled : p[1] = id /\ ReadDir[id] = Chomped(p[2])

\* A pull that succeeds repairs what one that died left: each resource pulled reads back, but for the
\* newline its body ends in, unless it shares its file name, or was once pulled under one read later.
RerunReadsBack ==
    pc = "done" /\ ReadDir # ReadError =>
        \A id \in Present(data) :
            \/ \E other \in Present(data) \ {id} : FileOf(data[other]) = FileOf(data[id])
            \/ \E p \in pulled : p[1] = id /\ FileOf(p[2]) > FileOf(data[id])
            \/ ReadDir[id] = Chomped(data[id])

\* ... and a directory that cannot be read after it has a truncated file of a name the pull did not
\* write.
StaysUnreadable ==
    pc = "done" /\ ReadDir = ReadError =>
        \E f \in Stored : yamls[f].id = NoId /\ \A id \in Present(data) : FileOf(data[id]) # f
=============================================================================
