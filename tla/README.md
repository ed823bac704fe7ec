# A formal model of cac

`cac` keeps the configuration of a SecureAuth tenant or workspace as files: `pull` writes the
server's configuration to a checkout, `push` sends a checkout to the server, `diff` compares two
of them. This directory holds TLA+ modules that model what these commands do, TLC configurations
that check them on small instances, and proofs of the properties that matter most. Paths below
are relative to the repository, `cmd/` and `internal/cac/`.

## The system

Every command is one process that runs to its end: there are no threads in it and nothing is kept
in memory between runs. What is hard about it is elsewhere:

- **Others.** The server is shared by other runs (CI, colleagues) and by administrators using the
  console; files are edited while a command runs. Everything a command has read may be stale.
- **Partial effects.** A run is a long sequence of API calls and file writes without a transaction.
  Any of them may fail, the process may be killed between two, a request may be applied and its
  answer lost; `os.WriteFile` and `os.Create` truncate before they write. The cure is to run the
  command again.
- **Order.** Key rotation is validated before anything is sent, sent after the configuration, and
  one workspace and one use at a time. Ranging over Go maps visits in any order.
- **What a run is about.** Flags, filters, features and profiles decide which parts of which
  workspaces are read, stored, sent or left alone.
- **Files that stay.** A pull never deletes a file; files of removed or renamed resources, of stale
  workspace directories and of lower-priority directories are read again by the next push.

### Components

| component | state | operations | module |
|---|---|---|---|
| Key rotation settings: `keyrotation/{keyrotation,dir_store,diff}.go` | `key_rotation.yaml` of each workspace in each storage directory | validate, read, write, list workspaces, what a push sends (`changedRotation`), what a diff shows (`TreeDiff`) | `KeyRotation` |
| Key rotation pull and push: `keyrotation/sync.go`, `client/key_rotation_api.go` | server settings per workspace and use; progress of the run | `ReadAll`, `Push`, `Pull`; GET and PUT of one use | `KeyRotationSync` |
| Push and pull pipeline: `cmd/{push,pull,key_rotation,key_rotation_feature}.go`, `keyrotation/dry_run.go` | the run's flags and progress; the `--out` of a dry run | `scopeOf`, `runPush`, `runPull`, dry run, subcommands | `CommandRun` |
| Configuration as a whole: `storage/{server,tenant}_storage.go`, `storage/dry.go`, `client/{client,tenant_client}.go`, `data/` | files and server configuration of workspaces | `Read`, `Write`, import, patch, validate | `CommandRun` (partly) |
| Resource files: `storage/{writer,reader,utils,model}.go` | one file per resource | `writeFiles`, `readFiles`, `normalize` | `ResourceFiles` |
| Several storage directories: `storage/multi.go` | the directories of a profile | `MultiStorage.Read` and `Write` | `ResourceFiles` |
| Profiles and sources: `config/config.go`, `app.go`, `api/source.go` | the configuration file, one section per profile | inherit sections, `ForProfile`, `Validate`, `ResolveSource`, `PickSource` | `Profiles`, `DiffRun` |
| Diff run: `cmd/diff.go`, `diff/`, the gate and sides of `cmd/key_rotation_feature.go`, `keyrotation/diff.go` | none | `runDiff`, `gate`, `side`, `Side.Read`, `OnlyPresentKeys` | `DiffRun` (`TreeDiff` is in `KeyRotation`) |
| Scripts, policies, templates: `storage/{scripts,policies}.go`, `storeTemplates` in `tenant_storage.go` | a YAML file that includes a body file | store, read | `BodyFiles` |
| Patch operations: `utils/model.go`, `data/` | none | `FilterPatch`, `CleanPatch`, conversions | partly (`FilterPatch` and the verdict of validation in `CommandRun`) |
| YAML, decoding, templates: `utils/{yaml,decoder}.go`, `templates/` | none | rendering and parsing of values | not modelled: a file that does not parse is one value |
| Client configuration, logging, command line | none | parsing of flags and URLs, HTTP client | not modelled: no state |

### How they interact

`cmd` builds an `Application` (`app.go`): an API client and, per profile, a `MultiStorage` over
the storage directories. `runPush` reads key rotation from the directories (`ReadAll`), then the
configuration through the storage (`Read`, merging directories, over the resource files), sends
it, then pushes key rotation. `runPull` reads the configuration from the client, writes it to the
first directory, and pulls key rotation of the workspaces it read or, when a filter left them out,
of those the server lists. The components share nothing but the files and the server, and that
is the interface between the modules: `CommandRun` treats a file of key rotation as a value and
a push of it as one write per workspace; `KeyRotationSync` opens both; `ResourceFiles` opens one
directory of clients, pools, etc. that `CommandRun` treats as the part `clients`, `BodyFiles` one of scripts
or policies. `runDiff` reads two sources that two profiles describe, each from directories, a server or both,
and changes nothing: `DiffRun` composes `Profiles` and `KeyRotation`.

### What makes each component correct

- *Settings.* The file that is read is the one of the first directory that has one, and the one a pull
  writes is that file. While a push is at a workspace, a diff
  of it shows what the push is about to send; what a diff shows of a file that is invalid or of a workspace the server
  lacks, no push sends.
- *Pull and push.* What a push is past is on the server unless others changed it; only what was
  validated at the start is sent, in order, and nothing redundantly; reruns converge; what a pull
  is past reads back; what is in sync stays so, unless a pull dies in the very file.
- *Pipeline.* A run touches only its scope, however it ends. An invalid key rotation file stops
  everything. Key rotation follows the configuration. An `--out` file, like stdout, holds the output of one run; an `--out`
  directory all that the run read, among what earlier runs left.
- *Files.* Stale files hide what was pulled only in the ways named below. Nothing outside the pulled names is written.
  The first directory has priority. The body of a script is its own, however many files a pull that died
  has written.
- *Profiles and diff.* A diff shows what the two sides it names differ in, all of it and nothing else; a part that
  is left out is marked; key rotation is requested only where the profile allows it.

The hazards, line by line, with the properties that cover them, are in `PROJECT.json`.

## The modules

### KeyRotation (`internal/cac/keyrotation`, pure part)

Operators only. A rotation is a record `enabled, cron, starting_from`; nil pointers are distinct
constants. Crons are split into those the parser accepts and those it rejects; workspace ids are
naturals because the code only compares and sorts them. `Read` is `DirStore.Read` (the first
directory with a file, whole; an empty file counts as none and still hides later ones), `Write`,
`Workspaces`, `Validate`, `FromModel`, `ToModel`, `ChangedRotation`, `TreeDiff` are the functions of
those names.

### KeyRotationSync (`keyrotation/sync.go`, `client/key_rotation_api.go`)

One process per checkout. `StartPush` is `readKeyRotations`: it reads and validates everything;
`RefusePush` is the error. `Get` and `Put` are one API call; `AfterRead` is what the loop of `Push` or
`Pull` does when both GETs are answered, skipping or planning writes; `WriteFile` is the write
of `Pull`. `NotFound` is a 404. `Fail`, `PutAnswerLost` and `WriteFileTorn` are the faults; the last leaves
a prefix of the file (`TornFiles`): one that does not parse, or one whose last use is missing, has no cron or any other cron, valid or
not, and no `starting_from`, or is only disabled.
`OutsideSet`, `OutsideDelete`, `OutsideCreate` other administrators; `Edit` a user. `base`, `touched`
and `edited` are history variables that no guard reads.

### CommandRun (`cmd/push.go`, `cmd/pull.go`, `cmd/key_rotation_feature.go`)

One run after another from one checkout. `Start` takes any flags of `RunFlags` and decides the scope;
`pc` is the place in `runPush` or `runPull`. The configuration of a workspace has two parts, the root
fields of `server.yaml` and its clients (for any kind of nested resource). Their contents are values, some of
which validation rejects; a file may be unreadable. `Zeros` is a `server.yaml` written with zero
values. The `--out` of a dry run is a sequence of chunks tagged with the run that wrote them, or a
directory. A store into the checkout or the directory that stops early (`StoreTorn`, `WriteDryTorn`) leaves some workspaces
stored and one begun, its last file with any contents.

### ResourceFiles (`storage/writer.go`, `reader.go`, `multi.go`)

A pull reads the resources of one kind (`StartPull`) and writes one file each, in any order
(`WriteNext`), with the numbering of repeated names (`Chosen`, `Record`), the rejection of a leading
dot and `normalize` (`FileName`). Names, numbered names and what they are normalized to are strings given by constants, and so is
the order in which `os.ReadDir` lists their files (`Order`), which is that of whole file names: `client-2.yaml` and `client-app.yaml` are listed
before `client.yaml`. It may be any order that lists a numbered file before the plain one of its name. `ReadDir` reads the
files in that order, the last of an id winning; `MergedFrom` merges the directories. The server's
resources are created, changed, renamed and deleted between and during pulls, a user moves files
between directories, the process dies between two writes or in one.

### BodyFiles (`storage/scripts.go`, `policies.go`, `storeTemplates` in `tenant_storage.go`)

A resource is two files of one normalized name. An iteration of the loop is `WriteBody` and `WriteYaml`; a
policy that is not in rego writes no body file and leaves one that is there. `ReadDir` renders every YAML
file, which includes the body by its name, and keeps the last file of an id. `DieBetween`, `DieInBody` and
`DieInYaml` are where the process may die, and `RefuseName` the error of a name that starts with a dot.
`nindent` makes a block scalar that drops the newline the body ends in (`Rendered`): what is pulled reads
back without it.

### Profiles (`config/config.go`, `app.go`)

Operators only. A configuration file is a function from profiles to sections that may be left out
(`SetImplicitValues` takes them from the default profile) and may set a `name`. `ResolveSource` is where the name
matters: a source without a profile is of the profile that has the *name* of the selected one as its key.

### DiffRun (`cmd/diff.go`, `cmd/key_rotation_feature.go`, `keyrotation/diff.go`, `diff/diff.go`)

One run of `diff` or of its subcommand over a configuration file, a command line and a world of servers and
files, all from given sets; a server has no settings of a workspace it lacks. `Start` is the validation in `InitApp` and `scopeOf`; `ReadConfig` reads one side of the
configuration and compares after the second; `GateSides` is `gate` of both sides; `ListWorkspaces`, `ReadLocal`,
`Get` and `GetNotFound` are `Side.Workspaces` and `Side.Read`, one call each, the source of a workspace before
its target. A configuration is the items below each top-level key, an item a function of
its fields, and `mergo.Merge` goes field by field (`MergeItem`). Others change key rotation, workspaces
and files at any time; `asked` and `touched` are history variables.

### PushPromise and PushRefinement

`PushPromise` is what a push is to its caller: of the uses it was started with (`want`) it sets, in order,
or settles each one (`todo`), and ends. It has no files, reads or calls. `Settle` may drop any uses that
the server has or that somebody else has touched. `PushRefinement` maps `KeyRotationSync` to it: the uses left
are those of the workspaces still queued, less, for the one being written, what is sent or skipped already;
a checkout that pulls is idle; reads map to stuttering, except the one that shows what is in sync.

`MC*` modules give the constants their small sets.

## The runs

| run | instance | question | result |
|---|---|---|---|
| `SyncTenant` | 2 workspaces, 1 directory, 1 checkout with a file of both uses or none for each, 1 cron, 1 outside change, all faults | what a push is past is delivered, in order; what a pull is past reads back; only its file is written; the push implements `PushPromise` | holds |
| `SyncRace` | 2 checkouts with files of their own, 1 workspace, 1 cron | the inductive invariant; no redundant PUT; what is in sync stays so; both pushes implement `PushPromise` | holds |
| `SyncDirs` | 2 directories, every kind of file, 1 edit | only validated settings are sent; a pull writes the first directory only and is effective; what is in sync stays so; diff previews push | holds |
| `SyncRerun` | 2 workspaces, 1 outside change, 1 edit, any faults | reruns converge (liveness) | holds |
| `SyncStale` | 2 workspaces, no faults | every workspace directory is pushed | violated, see below |
| `RunEffects` | one run, any flags, 2 workspaces | scope in files, server and `--out`, validation first, order, pulled rotation | holds |
| `RunDry` | two dry runs, 1 edit | a file has the output of one run, a directory all of it; a refused run leaves them alone | holds |
| `RunFilter` | one pull, any filter, no faults | a filtered pull keeps the other parts | violated, see below |
| `DiffRuns` | one diff, 13 configuration files, 3 profiles, 2 servers and stores, 2 workspaces, 1 outside change | what is shown is the difference of the sides named; nothing silently left out; key rotation read only with the feature | holds |
| `FilesPull` | 2 resources, 5 names, 2 directories, 2 changes or moves, any number of pulls, deaths | what is pulled reads back unless a file read later shadows it; only pulled names written; first directory wins | holds |
| `FilesRoundTrip` | 3 resources of one name, one empty directory | what was pulled is read back | violated, see below |
| `FilesBody` | 2 scripts or policies, 4 names, 2 changes, any number of pulls, deaths | no body is missing; body and metadata are of one resource; a rerun repairs | holds |

**Bounds.** `MaxOutside`, `MaxEdits`, `MaxChanges` bound changes by others, `MaxRuns` the runs of
`CommandRun`; the number of commands in `KeyRotationSync` and of pulls in `ResourceFiles` is not
bounded. One change by others per run is enough to fall between any two calls, and two workspaces
give a first and a later one: a push handles them one after the other and remembers nothing of an
earlier one, so a third repeats the second. The two uses and two directories suffice to see an
order. A run of `CommandRun` keeps nothing but files, server and output, and those start with any
value in `RunEffects`; only the output file links runs, and it is what `RunDry` runs twice for. A pull that dies in a file may leave any of the crons
of the instance in it. `SyncDirs` has three, one of them invalid; `SyncTenant` and `SyncRace` have one, and tell settings apart by
`enabled`. The resources of `FilesPull` start with one name, `a_b`, so that
one of them has a numbered file from the first pull on; those that are created or renamed get it, `a_b-c`, whose file is
listed between the two that `a_b` may get, a name that is normalized to `a_b`, the one that a numbered file of `a_b` has, or
one that starts with a dot. Two changes rename a resource away and back, rename one and delete the other, or rename one and
move a file. The premise `OneNumber` of `UnshadowedReadsBack` takes three resources and three changes to matter (one of
them has had `a_b-2-3`, read after the `a_b-2-2` it gets now): the run would pass without it, the theorem would not. The field of a resource is set at first and may
be removed, two contents being enough to tell an earlier pull from a later one and a directory that sets the field
from one that does not. The third resource of one
name is `FilesRoundTrip`'s. `FilesBody` starts with one script and has two bodies, one ending in a newline, and
one name also used by a policy with its body in the YAML: two changes create a second of the same name and rename or
change either.

`DiffRuns` enumerates its inputs: configuration files with the feature on, off or without the scope at the top level
and in each of two profiles, and five that set names (another profile's, the default's, none's); items that are whole or have one field only, here or there; every
pair of `[profile@]source`; the filters that include, exclude or are only key rotation; and three worlds that differ
in which workspaces, files and ids each side has. A run keeps nothing for the next, so one run
suffices, and one change by others falls between any two of its reads.

**Deadlock** is checked in the runs of `KeyRotationSync` and `ResourceFiles`: a command can always
be started. The runs of `CommandRun` and `DiffRuns` set `CHECK_DEADLOCK FALSE`: the model stops after `MaxRuns` runs, or one.
**Symmetry** is used in `FilesPull`: resource ids are never ordered or named in the
module and only the resources the server starts with are permuted; and in `SyncRace`, where the two checkouts differ by their
files only and no property is a liveness property.

**Fairness** appears in `RerunSpec` only: a process that has been started is scheduled and each of
its calls returns, with an answer or an error; and an operator keeps starting the push. The code
calls without a deadline of its own (`cmd` passes the command's context), so that a call returns is an
assumption on the network and the HTTP client; an operator who kills a hanging run is the fault `Fail`. Nothing is assumed of faults, users or other administrators; `RerunsConverge` has as its
premise that faults stop eventually and that the files are valid and their workspaces exist.

### What the violations show

- **A stale workspace directory blocks the workspaces after it** (`SyncStale`, `keyrotation/sync.go:83`). `Push`
  returns at the first workspace whose read fails. The README (342-345) says that a tenant push pushes
  the file of every workspace directory including stale ones, whose request fails with a 404, and that
  rerunning is idempotent: a stale directory that sorts first keeps the others from being pushed, on
  every run. `RerunsConverge` therefore has `Pushable` as a premise.
- **A filtered pull resets `server.yaml`** (`RunFilter`, `storage/server_storage.go:62`). `pull --filter clients`
  says it restricts the pull, but `server.yaml` is stored from data without root fields.
- **The third resource of one name is lost** (`FilesRoundTrip`, `storage/writer.go:48`). The count
  is recorded under the suffixed name, so the third is again `a-2`.

Met while modelling, and not runs of their own:

- **A profile that sets a `name`** (`app.go:79-80`). A source without a profile is looked up by the name of the selected one, so with a
  section that sets `name: prod`, `--profile dev --source local` reads `prod`'s files (or, when no profile has that key,
  fails). `ConfigurationShown` has as a premise that the look-up finds the selected profile (`SelectedFound`), and `KeyRotationShown` also that no
  other side has its name (`SidesFound`): sections may set names as long as that holds. `KeysReadWithFeature` holds without either:
  whatever the names are, the client that is used belongs to a profile that allows it.
- **A skip of the first side hides a misconfigured second one** (`cmd/key_rotation_feature.go:203`). README.md:387-388 says that a
  side of another profile with the feature and without the scope always fails the diff; when the source's
  profile does not enable the feature, the diff skips key rotation before it looks at the target's.
- **A pull that dies may change a cron** (`keyrotation/dir_store.go:99`). `os.WriteFile` truncates the file and may leave any prefix of it. One
  that ends within a use parses when `cron` is shortened, and the rest may be a valid cron: the next push sends it, unless the pull is run again.
  `SyncedStays` says that this is the only way in which a run disturbs what is in sync, and only in the file.
- **An `--out` directory keeps the files of earlier dry runs** (`cmd/push.go:108`): `resetDryRunOut` empties a file only. `OutIsThisRuns` says what
  is in the directory of a run that succeeds.
- **A diff may show uses that no push sends**: it does not validate what it reads, and takes a workspace the server lacks for one without
  settings. `DiffPreviewsPush` is about a push that has reached the workspace.
- **A dry run shows uses that a push would skip** (`cmd/key_rotation_feature.go:120`): it prints the validated files and does not
  read the server.
- **A pulled body loses its final newline** (`storage/scripts.go`, `nindent`), so that a push after a pull
  sends another text. `BodyIsItsOwn` is up to that newline.
- **A renamed resource may read as it was** (`storage/writer.go:33`, `reader.go:95`). Its old file stays, and is the one kept when
  os.ReadDir lists it after the new one: `client-app`, renamed to `client` as the second of that name, gets `client-2.yaml` and reads as
  `client-app.yaml` said.
- **A resource whose own name is `a-2`** (`storage/writer.go:42`) gets the file that the second of two resources named `a` got in an earlier
  pull. When the other one of the two had `a` then and is now `a-2`, its old file is read after the new one and hides it. `UnshadowedReadsBack` has
  `OneNumber` as a premise for such names. Its other premises are that no earlier name of the resource has a file listed after the one it
  has or may have got (`FirstFile`), that no three resources share a name and that names do not meet when normalized (`NoClash`), and that no other
  directory has files: under these what was pulled is not hidden.

### Mutants

Each property is shown to depend on the code: `PROJECT.json` names for each one a changed definition
(a dropped comparison, a swapped order, a missing reset) with which TLC finds it violated. These definitions
stand before the ones they change and are not used by any specification.

## Proofs

Eight modules of theorems (`KeyRotationTheorems` holds what the others share about the functions of `KeyRotation`), each for every value of the constants: any number of workspaces, directories, checkouts, resources,
runs and changes, and any set of contents.

| module | theorem | property |
|---|---|---|
| `KeyRotationSyncProofs` | `TypeCorrect` | `TypeOK`: in particular no push sets a cron the server's parser would reject |
| | `Handled` | `HandledIsDelivered` |
| | `SendsValidated` | `PushSendsWhatWasValidated` |
| | `SendsInOrder` | `PushInOrder` |
| | `SendsOnlyChanges` | `NoRedundantPut` |
| | `KnowsWhatItRead` | `PushInv` |
| | `DiffPreviews` | `DiffPreviewsPush` |
| | `Invariance` | `IInv`, on which they rest |
| `PushRefinementProofs` | `PushRefines` | `PushKeepsItsPromise`: the push implements `PushPromise` |
| `KeyRotationPullProofs` | `PullsReadBack` | `PulledReadsBack` |
| | `WritesOnlyItsFiles` | `OnlyCurrentFileWritten` |
| | `RunsAreIdempotent` | `SyncedStays`: no push or pull, ended anywhere, disturbs what is in sync, on the server never and in the files only by dying in that file |
| `CommandRunProofs` | `TypeCorrect` | `TypeOK` |
| | `StaysInScope` | `ChangesOnlyScope` |
| | `InvalidKeysBlock` | `InvalidKeysBlockRun` |
| | `RotationFollows` | `RotationAfterConfiguration` |
| | `PullsRotation` | `PulledRotation` |
| | `DryRunOutput` | `OutIsThisRuns` |
| `DiffRunProofs` | `TypeCorrect` | `TypeOK` |
| | `ReadsWithFeature` | `KeysReadWithFeature` |
| | `SkipIsMarked` | `NotSilentlyLeftOut` |
| | `ShowsConfiguration` | `ConfigurationShown` |
| | `ShowsRotation` | `KeyRotationShown` |
| `BodyFilesProofs` | `TypeCorrect` | `TypeOK` |
| | `BodiesAreThere` | `IncludesExist` |
| | `BodiesAreOwn` | `BodyIsItsOwn` |
| | `RerunsRepair` | `RerunReadsBack` |
| | `OnlyTruncatedUnreadable` | `StaysUnreadable` |
| `ResourceFilesProofs` | `TypeCorrect` | `TypeOK` |
| | `KeepsOtherFiles` | `OnlyPulledNamesWritten` |
| | `FirstDirectoryAlwaysWins` | `FirstDirectoryWins` |
| | `PulledReadsBack` | `UnshadowedReadsBack` |
| | `Invariance`, `FiledAlways`, `ReadInvariance` | `IInv`, `Filed` and `ReadInv`, on which they rest |

The assumptions are the named `ASSUME`s on the constants: ids and the file names of bodies are naturals, the files of resources are listed in a strict total
order with a numbered one before the plain one, a number can be told from the name it is appended to, there is at least one directory,
the crons are disjoint, the nil values are not values, an error is not what a read returns, the payloads and edited files of others, the
flags and the configurations to start with are of their types, and a server has no settings of a workspace it does not have. TLC evaluates them on every run.

**Push of key rotation.** The inductive invariant is `IInv == TypeOK /\ PushInv`. `HandledIsDelivered` alone is not
inductive: that a workspace is delivered when the loop leaves it follows from what the run knows about its current
workspace. `PushInv` says so, per process: what it works on is what it read and validated at its start
(`ItemsAreValidated`); what it read of the current workspace still holds, but for the uses that others
touched or that it sent itself (`GotIsCurrent`); the uses it does not have left to send are in sync or
touched (`SentOrSkipped`). `TypeOK` is not inductive alone either: that a PUT keeps the server well typed
needs the cron it sends to be valid, which is `ItemsAreValidated`. A lemma `Frame` shows once that a step which does not
move a process, and records in `touched` what it changes, keeps the invariant of that process; the remaining
lemmas are one per action, `NextInv` puts them together. The action properties follow from the invariant in the
state before the step. `SyncRace` checks `PushInv` with TLC, and every theorem's property is
checked by a run.

**Refinement.** `PushRefines` is a step simulation under that invariant: `PromiseInit` maps the
initial states, and `PromiseNext` has one lemma per action that says which step of the promise, or stutter, it is.
The invariant is needed twice. That a use which is dropped after the read may be settled
is `GotIsCurrent` and `SentOrSkipped`: what was read is on the server or touched. That the use being sent is the first one left
and its value the one wanted is `ItemsAreValidated` with the order of the queue. Processes that do not move
are handled once: `HiddenRun` shows that nothing the promise sees of them changes.

**Pull of key rotation.** `PullInv` adds to `IInv` what a pull did to the files of its checkout: a file that is not as the pull
found it is in the first directory, of a workspace of its scope it is past (`FilesKept`); of such a workspace nobody touched
meanwhile the files read back what the server has (`PastReadsBack`); a pull about to write has read both uses and found
one (`AboutToWrite`). That what was written is the effective file is `ReadWritten`: the first directory wins. That what is read back is neither
sent nor shown is `PulledIsInSync`.

**Runs of push and pull.** `ChangesOnlyScope` becomes inductive with `Placed` (a run is at key rotation or at the configuration only if
its flags select them), `Selects` (the data it read has only workspaces and parts of its flags' scope, and so have the workspaces it has left) and `Blocked` (a
push with an invalid key rotation file gets no further than reading them). What a store rewrites is in scope because
the data is (`StoreInScope`), also when it stops early (`TornInScope`). `ConfigurationInScope` and `PartInScope` read the scope off the
flags, without the model's `Regular` and `Filter`. The other properties compare what a run did with
what it started from: `RunInv` says which part of its output is written (`Printed`), that nothing but its own steps changed what
it read (`Fresh`), that the server's configuration is final before key rotation (`Sequenced`), and which
workspaces a pull has written (`Pulled`).

**Diff.** What was checked before is what may be done later: the selected profile is valid and has the feature that was asked for
explicitly (`Validated`), both sides passed their gates before a workspace is listed or requested (`Gated`), and nothing is compared when key rotation is
marked as skipped (`Marked`). For `ConfigurationShown`, `Configured` says that the patches a run holds are those of the sides it names;
when the selected profile is found under its name, each side is of the profile named (`NamedResolve`), and `MergedItems` gives
the fields of what merges. `KeyRotationShown` speaks only of workspaces that others did
not change, and so does what makes it inductive, `Rotated`: the workspaces queued or compared are those selected
(`Listed`), what was read so far of the current one is what the side has (`Reading`), what is shown is right
(`ShownRight`), and a server has no settings of a workspace it lacks (`Tidy`), which is why a 404 of the target reads like no
settings. `SameSides` shows that what the sides have of a workspace depends on its own files and settings only, so that a
change to another one disturbs nothing.

**Files of bodies.** One resource is written at a time (`OneByOne`); the body a resource in progress includes is stored (`BodyStored`);
every file with an id was pulled under that name (`Traced`), and as long as no pull died all of it is of one pull, except for the body that is
being replaced (`Own`); what the current pull is past is as it wrote it, unless resources share the file (`Written`). What a read
makes of the files is decided by the last file of an id: `LastOf` finds it, from the well-foundedness of `<` (`LastFile`) and
from there being finitely many files, however many names they could have (`Bounded`: a step adds at most one), and `ReadsLast` shows that it is the one chosen.

**Resource files.** The name a resource gets is its own or a numbered one of it (`ChosenName`), so that whatever a pull replaces is one of the
files (`Family`) of a name it pulled; `ReplaceKeeps` is that a directory has one file
of each name. The invariant adds to the two properties that what is on the server, or was pulled, is well named, and then
(`Filed`) that a directory has finitely many files.

What a directory reads as depends on the order of file names. `BeforeOrders` is what `OrderAssumption` says of it: it is a strict total order. A
finite directory therefore has a last file of each id in it (`LastFile`, by the number of files after one), which is the one read
(`ReadsLast`). `MultiStorage.Read` is a recursive function over the directories: `MergeRuns` shows, by a least directory that would
have no value, that there is such a function, so that it may be unfolded (`MergedStep`); the same kind of argument gives
`MergedAlone` (with the other directories empty the first is what is read) and `FirstWins`, of which `FirstDirectoryWins` is an instance.

`UnshadowedReadsBack` is about files of any number of earlier pulls. `ReadInv` says what is known of them: a file
is one of those of a name its resource was once pulled under and, where no other name has any of them, numbered 2 or not at all
(`Traced`); in the current pull the names counted are those written, once each (`CountsRight`); and what was written is stored, the
second resource of a name under the number 2 while the first has the name itself (`AllStored`). The last is what makes the order of the map
harmless: if the resource that is second now had the plain file before, that file belongs to the other one now, and if it is
first now, its old numbered file comes before the plain one (`StoredWins`). The premise `OneNumber` only weakens as pulls go on
(`OneNumberBefore`), which is why the invariant may be stated under it.

**What is in sync stays.** `RunsAreIdempotent` combines the two invariants of `KeyRotationSync`. A push in sync sends nothing without a
`starting_from` (`SentIsNews`), and what it sends with one is what the server has already; that its files are still those it
read is `FilesKept`. What a pull writes whole says of each use what it read or nothing (`WrittenInSync`);
what it leaves when it dies in the file is the exception `SyncedStays` names. With
`Handled` this is the part of `RerunsConverge` that safety can say: a push that ends is delivered, and stays so through the next.

Only model-checked: `RerunsConverge`, since liveness is out of the prover's reach.

## Not modelled

- Contents of resources beyond what properties distinguish; `--mode` (the server's business); secrets, volatile
  fields and the rendering of a diff.
- Go templates, YAML and JSON encoding: pure conversions without state. Of a body only its final newline is
  modelled; the indentation of a body whose first line is indented, and bodies that look like template
  actions, are left out.
- `CleanPatch`, the conversions of `utils/model.go` and which unknown keys they reject: `CommandRun` has their verdict
  on a whole configuration.
- Tenant-level resources other than workspaces. A theme is a directory of templates: the templates are `BodyFiles`,
  the directory is not. Its id is not stored and themes are read keyed by name (`tenant_storage.go:170`), and the old
  directory of a renamed theme stays.
- Which environment variables viper merges into a profile: a section is taken as loaded.
- Concurrent runs in one checkout (`KeyRotationSync` has one per checkout); the HTTP layer below one request
  and its answer; client configuration, logging and the parsing of flags.

## Plan

What remains, in this order:

1. **Tenant-level resources and themes** in `CommandRun` and `BodyFiles`, from `TenantStorage` and `TenantClient`: a theme's
   directory that a pull which died left without its `theme.yaml` is read as a theme without a name (`tenant_storage.go:170`).
2. **`PatchOperations`**: `CleanPatch` and the conversions with the keys they reject.
3. **Refinement**: a promise of the pull of key rotation to its caller, as `PushPromise` is for the push.

## Running

```
tlc -config SyncTenant.cfg MCKeyRotationSync.tla
tlapm KeyRotationTheorems.tla
tlapm KeyRotationSyncProofs.tla
```

and likewise for the other `*Proofs` modules.

`Sync*.cfg` go with `MCKeyRotationSync`, `Run*.cfg` with `MCCommandRun`, `FilesPull.cfg` and
`FilesRoundTrip.cfg` with `MCResourceFiles`, `FilesBody.cfg` with `MCBodyFiles`, `DiffRuns.cfg` with `MCDiffRun`.
