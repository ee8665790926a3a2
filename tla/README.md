# Formal model of the Verda CLI

TLA+ specifications of `verda`, the command-line client of the Verda cloud,
with the TLC configurations that check them and TLAPS proofs of the properties
that matter most. Paths below are relative to `src/`; `CMD/` stands for
`internal/verda-cli/cmd/` and `OS/` for `CMD/objectstorage/`.

## 1. Inventory

The program is a Cobra command tree over HTTP APIs.

| Part | State | Operations | What is hard | What makes it correct |
|---|---|---|---|---|
| Resumable upload (`OS/mpupload.go`, `checkpoint.go`, `lock.go`, `resume_uploads.go`) | checkpoint and lock files in `~/.verda/s3-uploads`, the multipart upload on the server | `resumableUpload`, `resolveUpload`, `startFresh`, `completeUpload`, `gcCheckpoints`, `resumeServerUpload` | crashes at any point, lost answers, late requests, other processes, an edited file, another `--part-size`, files collected by age | the object is one version of the file; a checkpoint never claims what the server lacks; success means published; a re-run gets through |
| Transfer pools (`uploadMissingParts`, `downloadMissingChunks`) | channels, context, checkpoint in memory and on disk | feeder, workers, closer, collector | delivery racing cancellation, a save that fails while parts are in flight | nil only with every part on disk; no error lost; nothing runs after the return |
| Part arithmetic (`computePartSize`, `numParts`, `partRange`, `numChunks`) | none | pure | exact multiples, the 10,000-part ceiling | ranges tile the file |
| Resumable download (`OS/mpdownload.go`) | `<dest>.part`, checkpoint in `~/.verda/s3-downloads`, the shared lock | `resumableDownload`, `loadOrResetDownloadCheckpoint` | object replaced during or between runs, `.part` shared by two objects | the file is one version of one object |
| cp, mv, sync of trees (`OS/cp.go`, `mv.go`, `sync.go`) | listings held in memory | list, plan, transfer, delete | partial failure and repetition, prefixes with and without a slash, filters | a source goes only after its copy; a sync settles; excluded names stay |
| Registry push and copy (`CMD/registry/push.go`, `copy.go`, `push_view.go`, `retry_transport.go`) | results per tag, rows of the view, attempts of a request | checks, questions, worker pool, drainer, view, retries | Ctrl+C against goroutines and channels, retries of bodies | no overwriting unasked; a true report; nothing left under way |
| Wizard engine and its flows (`pkg/tui/wizard`, `CMD/vm/wizard.go`, ...) | state of each step, collected answers, the bound options, caches of loaders | answer, back, skip, rewind | answers taken back, flags, empty lists | the command gets what was last answered; rewinds end |
| Commands that read, create or remove (`CMD/vm`, `volume`, `serverless`, `objectstorage`, `registry`, `sshkey`, `startupscript`, `cost`, ..., and the tools of `CMD/mcp`) | the targets, the deadline of the next call | list, pick, ask, act, wait | consent on each of many paths, deadlines that run while a user thinks, partial failure, changes by others | nothing removed or billed without consent; output is true; runs end |
| Self-update (`CMD/update`) | the binary | download, verify, replace, migrate | death between two steps, Windows | the binary is always a whole release |
| Agent skills (`CMD/skills`) | skill files, the user's document, `skills.json` | install, uninstall | non-atomic writes, the user's own text | files match the record; the user's text stays |
| Configuration (`options/`, `template/`, Docker's config) | credentials, settings, templates | read-modify-write, temporary file and rename | processes at once, death in between | a key changes only when its command changes it |
| Framework, widgets, clients, logging, version | none of their own | render, parse, construct | – | – |

How they interact. The commands share files: `cp` uploads and downloads and
`ls-uploads` meet in the upload directory and its locks, all `configure` and
`login` commands in the credentials, an update and the skills in the binary,
whose new version runs `skills install`. The services see requests of all of
them in any order. The wizards fill the options that the commands act upon;
MCP tools and agents run the same handlers without a user. All commands run on
Cobra's background context, which nothing cancels: outside a terminal program
(the registry's view, a spinner, a prompt) Ctrl+C kills the process, so in the
models it is a crash.

`PROJECT.json` lists every part with its sources, and every hazard with its line.

## 2. Modules

| Module | Models |
|---|---|
| `TransferParts`, `PartPlan` | part arithmetic as operators; the loop of `computePartSize`, one iteration per step |
| `ResumableUpload` | all processes of one host that upload one (file, bucket, key), their files, the network and the S3 service |
| `ResumableDownload` | all processes of one host that download to one path, their files and the service they read |
| `PoolContract`, `TransferPool` | what the callers of the two pools count on; the goroutines, shown to implement it (`Contract == INSTANCE PoolContract WITH ...`) |
| `RetryTransport` → `RegistryCopy` | the retrying transport; push, copy and copy `--all-tags` with pool, view and Ctrl+C, whose requests go through it |
| `WizardEngine` → `CliWizards` | the step engine; run on the flows of `VmCreateFlow`, `ConfigureFlows` and `ServerlessFlows` |
| `PlanSteps` → `ReadPlans`, `CreatePlans` → `CommandPlans` → `PlanRules` → `GuardedCommand` | what each command does, in which order, as a function of its flags; the rules all of them keep to; one run of a command against user, service and others |
| `ObjectTrees` | cp, mv and sync of one name or a tree in the three directions |
| `AgentSkills`, `SelfUpdate`, `ConfigFiles` → `HostFiles` | what is kept on the user's machine, and the commands that change several of these together |
| `MC...` | values of the constants for TLC |
| `TransferPartsProofs`, `ResumableUploadProofs`, `ResumableDownloadProofs`, `TransferPoolProofs` (with `PartPlan`), `RegistryCopyProofs`, `GuardedCommandProofs`, `HostFilesProofs`, `ObjectTreesProofs` | theorems |

`A → B` reads "B extends A". An operator that resembles the definition right
after it (`...AnyCut`, `ForgetStale`, `BoundNested`, ...) is that
definition with a plausible mistake in it. No action uses it; substituting it
for its neighbour makes TLC report the property that guards against the mistake.

### ResumableUpload

| State | Code |
|---|---|
| `file` | what the source path holds; a version stands for size, mtime and bytes |
| `lockFile`, `stale`, `ckpt` | `<identity>.lock` (its inode), which files are older than `checkpointMaxAge`, `<identity>.json` |
| `status`, `stored`, `object`, `net` | the service: uploads, their parts, the published object, requests under way |
| `pc`, `job`, `mem`, `flight`, `held`, `outcome` | per process: the line it is at, the arguments, the checkpoint in memory, the workers' requests, the flock, how the run ends |
| `excused`, `overtaken` | history: whether a failed call or an outside abort hit this run; the uploads whose checkpoint `ls-uploads` replaced while a process held the lock |

| Step | Code |
|---|---|
| `runUpload`, `gcCheckpoints` | `OS/cp.go` 251-297: stat, routing, collection of old files |
| `resumeServerUpload`, `SaveAdopted` | `OS/resume_uploads.go` 149-227, which saves a checkpoint before any lock is taken |
| `acquireTransferLock`, `release`, `LocalFileFails` | `OS/lock.go`, `mpupload.go` 119-128 |
| `resolveUpload`, `AbortStale`, `listAllParts`, `ListFails`, `DropGone`, `SaveReconciled`, `CreateUpload`, `SaveFirst`, `AbortUnsaved` | `resolveUpload` and `startFresh`, one step for each call that leaves the process |
| `uploadOnePart`, `Answer`, `CallFails`, `appendPart`, `CollectError`, `GiveUp`, `uploadMissingParts` | the pool, at the grain of requests |
| `completeUpload`, `deleteCheckpoint` | `mpupload.go` 148-151 |
| `ServerPut`, `Crash`, `EditFile`, `OutsideAbort`, `Age` | the environment |

A part is the byte range of the file version it was read from, and an ETag is
the part it names: two parts have the same ETag exactly if they have the same
bytes. That lets `ObjectIntact` speak of bytes with no byte in the model.

Abstractions and assumptions:

* The file is edited only while no upload of it runs. `uploadOnePart` reopens the
  file for each part and nobody compares size and mtime again, so an edit during
  a run does mix versions; that limit of the code is assumed away, and named here.
* A checkpoint is written in one step (temporary file and rename). All writers
  share the temporary's name; two writers at once, which needs a lost lock or an
  adoption, can tear it. The code reads a torn checkpoint as none.
* A failed call may have taken effect or not, and a part may arrive later, even
  after its process died. CompleteMultipartUpload takes effect before its caller
  goes on, or never. ListParts' pages are one step.
* Files no larger than one part go through the AWS transfer manager.
* `ls-uploads` compares sizes only and says so; `UploadTwoProcs` therefore has
  one version of the file and one part size.
* The lock file ages from its creation on and is unlinked by whoever collects next,
  held or not: `UploadHistory` and `UploadUnlocked.cfg` have that, and so what
  Windows does, which has no lock at all (`lock_windows.go`). `NoPartSentTwice` is
  what the lock is for. It holds while no lock file ages (`UploadTwoProcs`; findings
  1 and 3), and not of an upload whose record an adoption replaced under a cp at
  work (`overtaken`): without that exception it is `NeverSentTwice`, which fails
  (finding 3) and is proved for cp alone.

### ResumableDownload

| State | Code |
|---|---|
| `part`, `dest` | `<dest>.part` and `<dest>`: at each offset, the version whose byte is there |
| `ckpt`, `stale` | per object `<identity>.json` in `~/.verda/s3-downloads`, and which of them are older than `checkpointMaxAge` |
| `lockFile`, `oldLocks`, `held` | per object the inode of `<identity>.lock` in `~/.verda/s3-uploads`, which of these files are older than that, and the inode each process holds an flock on |
| `fd` | the name that the file a process has open goes by now; an unlinked file is `gone`, a renamed one is `dest` |
| `remote` | the version of each object the service holds; a version stands for ETag, size and bytes |
| `pc`, `job`, `mem`, `flight`, `outcome`, `excused` | as in `ResumableUpload`; `job` also keeps the version that HeadObject told |
| `partOf`, `mixed`, `destMixed` | history: the object of the run that last took `.part`, and whether another download had a hand in that file, or in the one since renamed to `dest` |

| Step | Code |
|---|---|
| `runResumableDownload`, `gcDownloadCheckpoints`, `gcCheckpoints` | `OS/cp.go` 527-573: old checkpoints of downloads go, then old checkpoints of uploads and all old lock files |
| `runLsBrowser`, `browseDownload`, `resolveLocalDest` | `OS/browse.go` 58-62, which collects the same two, 265-282, 356-387; when the browser gives the object another name, that is another path |
| `HeadObject`, `acquireTransferLock`, `loadOrResetDownloadCheckpoint`, `SaveFresh`, `OpenPart` | `OS/mpdownload.go` 205-259 |
| `downloadOneChunk`, `GetObject`, `WriteSome`, `WriteChunk`, `CallFails`, `RecordChunk`, `CollectError`, `GiveUp`, `downloadMissingChunks` | the chunk pool, at the grain of requests |
| `RenamePart`, `deleteDownloadCheckpoint`, `release` | 265-272 |
| `Crash`, `ReplaceObject`, `Age` | the environment |

Two downloads can meet on one `.part` file without the lock noticing: of two
objects, whose locks differ, and of one object, once its lock file was collected
under its holder. What the two then make of the file is not predictable and the
properties do not speak of it: `mixed` marks a file in which a run took part that
the lock of another one at work did not keep out. A file that one run left and a
run of another object finds is not excepted, as long as that run removes it, which
the code does unless the run has a checkpoint of its own to continue.

Abstractions and assumptions: the removal of an old `.part` succeeds (its error is
ignored in the code; it needs the permission that the final rename needs too); a
crash is that of a process, not of the machine (nothing is synced). Checkpoints and
lock files pass `checkpointMaxAge` at any time, held or not.

### TransferPool

One call of either function. A send on an unbuffered channel and its receive are
one step; a `select` with several ready cases takes any of them. The two
functions differ in what a worker does after it delivered an error (`kind`).
`Record` is memory first and then the whole of it on disk; a failed save leaves
the disk as it was. The initial states are all sets of parts already done.

The context handed in is never cancelled. This matters: were it cancelled from
outside, all workers could leave through `ctx.Done`, and the loop would end with
`firstErr == nil` and parts missing, which for a download means that the partial
file is renamed into place. Today no caller can do that (`cmd/verda/main.go` runs
the commands on the background context); `cp.go` 218-220 speaks of Ctrl+C
arriving through the context, so whoever adds a signal handler has to add a test
of `ctx.Err()` after the loop.

### RegistryCopy and RetryTransport

| State | Code |
|---|---|
| `cmd`, `dst` | flags and surroundings of the command; per tag what the destination repository holds |
| `main`, `unchecked`, `skip`, `confirmed`, `lapsed` | the main goroutine; the overwrite checks, their answers, and whether the control-plane context is past `--timeout` |
| `queue`, `jobs`, `worker`, `resultsCh`, `results`, `drainer` | `runCopyAllTagsPool`: tags not handed out, channels, goroutines, the slice of results |
| `view`, `rows`, `cancelled` | the bubbletea program, its rows, the transfer context |
| `call` | per goroutine, the request in the retrying transport |
| `report`, `exit` | what is printed per tag, the exit code |

| Step | Code (`CMD/registry/`) |
|---|---|
| `Start`, `DryRun`, `ListFails`, `Absent`, `CheckFails`, `Exists`, `AnswerPrompt`, `Checked` | `copy.go` 237-321, 799-865, 973-994, 1074-1141, 1484-1531; `push.go` 160-256 |
| `StartPool`, `SkipAll`, `HandOut`, `CloseJobs`, `WorkerGoes`, `Deliver`, `Queue`, `Drain`, `Drained` | `runCopyAllTagsPool`, 1249-1343 |
| `Serve`, `Retry`, `Interrupt`, `TakeAnswer`, `Publish`, `LoadLocal`, `Conclude` | `performCopy`, `copyOneTag`, `pushOneImage` over `RoundTrip`, `waitWithCtx` |
| `RunView`, `CtrlC`, `SendRow`, `EndView`, `ViewIsOver`, `TransferIsOver`, `Return` | `push_view.go` 117-216, `push.go` 481-546, `copy.go` 367-471, 1409-1471 |

An image stands for all of its blobs: one request reads it, one publishes it.
`program.Send` waits until the program runs and does nothing once it has ended.
Left out: lengths of waits, jitter, progress numbers. Noted while reading:
`Retry-After` has no upper bound and the jitter is added after the cap
(`retry_transport.go:242`); Head and Write are two requests, so that a tag made
by someone else in between is overwritten without a question.

### WizardEngine, CliWizards and the flows

| State | Code |
|---|---|
| `flow`, `app` | the flow and the options its closures are bound to, with what loaders cache |
| `current`, `state`, `collected`, `choices`, ... | `Engine.current`, `stepRuntime`, the store |
| `pc` | where `stepLoop` is between two points at which a loader's calls or the user may act |

| Step | Code (`pkg/tui/wizard/engine.go`) |
|---|---|
| `Skip`, `Fix`, `LoadChoices` | 304-309, 637-655, 845-862 |
| `AutoSkip`, `AutoRewind`, `DeadEnd` | `handleEmptyChoices` 658-688, `rewindToDependency` 754-814 |
| `Answer`, `Reject`, `GoBack`, `Leave`, `Finish` | `handlePromptResult` 464-542, `awaitPromptResult` 430-447, `rewindOne` 739-750, 380-388 |

The closures of a flow's steps (skip, loader, default, validator, setter,
resetter) are operators given to the engine as constants: `VmCreateFlow`
(`CMD/vm/wizard.go`, the template wizard included), `ConfigureFlows` (registry,
object-storage, auth, theme and move wizards), `ServerlessFlows` (container
create and scale, batch job create). Each lists the combinations of flags and
stock the wizard is started with. Values are a few representatives per step.

Left out: the sub-flows that create a key, a script or a volume inside a step
(the step offers their outcome), and the drawing of a prompt. Noted while
reading: those loaders' no-op resetters make a choice made inside one look like
a flag when the step is passed again; what a sub-flow created stays on the
account if the wizard is left; and a step whose list was once empty keeps the empty
list in its cache. The endpoint of `registry configure` is judged by the
answers and the steps skipped, as the code sets it; that a flag loses it is
finding 9 (`EndpointFlagKept`).

### GuardedCommand and the plans

A handler is a sequence of steps that depends on its flags:
`Plan(inv)` (`CommandPlans`, `CreatePlans`, `ReadPlans`) is that sequence, with the
names of steps in `PlanSteps`; `GuardedCommand` says what a step does.

| State | Code |
|---|---|
| `inv`, `rest` | the command line, and the steps that are left |
| `targets`, `todo`, `said` | what the command acts upon, what is left of it, what it prints of each |
| `deadline` | the context the next call is made with: `none` (the command's own), `live`, or `lapsed` |
| `confirmed`, `doomed`, `world`, `taken`, `removed`, `volumes`, `made` | the user's answers; what the service holds and what became of it |
| `wedged`, `settled`, `unread` | the service stopped answering; what a polled resource came to; a read was passed over |

| Step | Code |
|---|---|
| `Bound` | `context.WithTimeout(ctx, f.Options().Timeout)` |
| `List`, `Fetch`, `Read`, `Peek`, `Try`, `Check` | one call: one whose failure ends the command, is told, or is passed over in silence (`Try`, and `Peek` at the step `tryFor`); a test of the input |
| `Pick`, `Ask`, `AskVolumes`, `FlagVolumes`, `Menu`, `Stage`, `Esc` | prompts, during which a running deadline may pass |
| `Act`, `Batch`, `Each`, `InOrder`, `Container`, `Create`, `Wait` | `vm/action.go`, `vm/batch.go`, `volume/delete.go`, `objectstorage/rm.go`, `rb.go`, `registry/delete.go`, `harbor.go`, the creations, `util/wait.go` |
| `Others`, `Wedge`, `Settle` | other clients, a service that stops answering, a resource that reaches its state |

A call that fails may have done its work. A browser or menu makes one round; a
chunk of `DeleteObjects` is one object; getting a client is left out.

What the plans make visible and the properties therefore name as exceptions:

* `MayHang` lists the commands that call on a context without an end (the pickers
  of instances and volumes, the details in `vm list`, the questions of
  `volume create`, the read after `vm create --wait`, the registry's and the
  browsers' listings); `EndsInTime` does not speak of them once the service has
  fallen silent (finding 11).
* `FillsGaps` lists the ten commands that leave out what they could not read and do
  not say so. `vm delete` passes over a failed read of an instance's volumes and
  deletes without the question about them; `cost running` prints a total without a
  volume, even after its deadline, with exit code 0, where the MCP tool fails
  (finding 10).
* `AccountsForEach` lists the commands that say of each target what became of it. It
  leaves out rm at a terminal, which does not print failures of single keys
  (`rm.go:267`). Images of a registry picked in a menu are accounted for by a
  count of those deleted and the names of those that were not (`registry/delete.go:625`).

Further: single actions of `vm` ask at a terminal even with `--yes`; batches ignore
`--wait`; a failed read of the status ends the poll (`wait.go:86`); an agent may
create a deployment without `--yes`; MCP's `create_vm` says `poll_timed_out` for an
instance in state error as well; `CMD/registry/README.md:399` announces a
refusal without a terminal that exists only for commands without a target; and
the skill's `verda-reference.md:131` recommends `--agent vm create --from`, which
`vm/create.go:219` refuses because it tests for missing flags first.

### ObjectTrees

| State | Code |
|---|---|
| `cmd`, `local`, `bucket` | the command line; names with contents, size and time |
| `root` | the local directory is there |
| `todo`, `dels`, `hold`, `step` | transfers and deletions planned, the transfer at hand, the position |
| `round`, `before`, `first`, `edited` | runs of the command, and the stores before this run and the first |

| Step | Code (`OS/`) |
|---|---|
| `ListCopies`, `PlanSync`, `ListFails` | `cp.go` 416-435, 642-661, 770-786, 879-908; `sync.go` 160-445, with the directory that a download makes first (`MakesRoot`, 232), dry run or not |
| `Preview`, `Begin`, `Store` | `cp.go` 438-496, 664-739, 789-833 |
| `RemoveFile`, `RemoveObject` | `mv.go` 207-243, 303-337, 390-425 |
| `DeleteFile`, `DeleteObject`, `Finish` | `sync.go` 229-353, 562-586 |

A name is a sequence of tokens, the slash being one, and `RelKey`, `JoinKey`,
`LocalPath`, `NeedsCopy`, `resolveDownloadPath` are the code's. Contents are values;
large files go through the resumable modules. Host and S3 have one clock: a skew
between them, or times rounded to seconds, can make `sync` copy once more, and once
less, and is not modelled. Where the code does not do what one may expect, a
precondition of the property says so:

* two sources that go to one name (run `MoveCollision`, finding 12), or a move within the
  bucket to a name that the command, typed again or still at work, takes for a
  source: `mv s3://b/d/ s3://b/d/x` moves `d/y` to `d/x/y` and then to `d/x/x/y`, and may
  overwrite a file that is still to be moved (finding 13; `Separate`, `Taken`);
* a move of one object to a file typed twice, which empties the file before it
  finds the object gone (`MovedTwice`);
* the marker `x/` of a directory, which a download stores in a file `x`, even if
  `--exclude` names that file (`NoMarkers`);
* a prefix without its slash (`OnBoundary`), and two prefixes one of which is
  within the other (`Disjoint`); both speak of what this run found;
* a dry run transfers and deletes nothing, which is the shape of `Preview` and no
  property; that it does change something is finding 14;
* `--exact-timestamps`, which copies again at each run; edits during a transfer.

### AgentSkills, SelfUpdate, ConfigFiles, HostFiles

| State | Code |
|---|---|
| `state`, `dir`, `doc`, `job` | `skills.json`; a copy agent's files; an append agent's document; the running command |
| `bin`, `upd`, `host` | binaries at the places an update deals with, the running update, the system |
| `disk`, `temp`, `proc` | the configuration files, their temporaries, the processes at work |
| `FileMap`, `DestName`, `Stale` | the `file_map` of a release; the file it takes a skill's name for, also a name another release put on record; the files its clean-up seeks |
| `placed`, `recorded`, `typed`, `hurt`, `trusting`, `wanted`, `disturbed` | history, for the properties |

| Step | Code |
|---|---|
| `StartInstall`, `CleanUp`, `Truncate`, `Fill`, `Copied`, `ReadDocument`, `WriteDocument`, `UninstallCopy`, ... | `CMD/skills/install.go` 96-392, `uninstall.go` 75-281 |
| `SaveState`, `SaveRecord`, `SaveFails` | `state.go` 81-90: truncated, then written |
| `StartUpdate`, `DownloadRelease`, `DownloadRefused`, `WriteTemp`, `RemoveDestination`, `Rename`, `Migrate` | `CMD/update/update.go` 152-507, `verify.go` |
| `UpdateInstalledSkills`, `ChildEnds` | `update.go` 534-557: the new binary runs `skills install` |
| `Look`, `Answer`, `Load`, `TruncateFile`, `FillFile` | read-modify-write of the credentials and settings, `options/*.go` |
| `OpenTemp`, `FillTemp`, `RenameTemp`, `RemoveTemplate` | `template/template.go` 98-119, `CMD/registry/login.go` 238-263 |
| `Crash`, `Die`, `UserWrites`, `UserDropsMarker` | the environment |

The two groups of files share none, so a behaviour of `HostFiles` is about one.

`cleanupStaleFiles` and `uninstallCopy` remove what they can: a file that refuses to
go is passed over (`stuck` in `job`). They look for the names in `skills.json` under
the `file_map` of the release that runs, not of the one that wrote them. That every
file of the release is there after an install, `SkillsInStep` says without
condition; that nothing else is, only if the release on record is the only other one
that wrote there, the release that runs finds that one's files (`FindsRecord`,
`SameNames`), and nothing was stuck. Findings 15 and 16 are what the first two
conditions leave out, and finding 17 is an agent whose files are older than
`skills.json` says.

Exceptions of the other properties: `BinaryWhole` leaves out that on Windows there
is no binary between the removal and the rename (`update.go:502`), which no order of
these two steps avoids; `hurt` marks a document whose markers were not one block when
it was rewritten, or whose writer died in a write in place, and `disturbed` a
configuration file that two commands worked on at once, whose updates the code does
not keep apart.

Left out: agents that a new manifest no longer knows, the layout of files inside an
agent's directory, edits of the document while a command runs; in an update, the
temporary file's own fate and an error of its `Close` (`update.go:495`, ignored by the
code), so that a disk that fills in the last buffer is not seen. Noted while
reading: an unreadable `skills.json` ends `skills install` in a nil dereference
(`install.go:184`); a user who deletes one marker gets a second block; a file written
in place is empty if the process dies.

## 3. Runs

| Run | Instance | Shows |
|---|---|---|
| `PartPlan` | sizes 0..40, requests 0..6, floor 2, ceiling 4 | plans tile the file from its first byte to its last; the loop computes the least doubling |
| `UploadHistory` | 1 process, 3 runs, 2 versions (3 and 2 units), part sizes 1 and 2, 2 mishaps, one passing of `checkpointMaxAge`; 10.7 M states | integrity and progress across interruption, edit, re-cut and expiry |
| `UploadTwoProcs` | 2 processes, cp and ls-uploads, one request each, 3 runs, 1 mishap, no lock file ages; 0.65 M states | truth of success, the lock keeps a part from being sent twice, every run ends |
| `TransferPool` | 3 workers, 4 parts, both functions, 5 failures of each sort | no error lost, quiet after the return, no goroutine left, the contract |
| `Download` | 2 processes, 2 objects on one path, 3 versions (2 and 1 units), part sizes 1 (cp) and 2 (browser), 3 runs, 1 mishap, one passing of `checkpointMaxAge`, held locks included; processes at work at once download one object (`OneObjectAtOnce`) and one chunk each (`OneChunkEach`), a process alone two chunks; 9.6 M states | the file is one whole version and success is true, a record is never wrong nor fetched again, an undisturbed run gets through; all of a file that no other download at work had a hand in |
| `Wizards` | all flows, all combinations of flags listed in the flow modules, 3 automatic rewinds per step (the code's own limit); 125 k states | results match answers, flags outlive going back, rewinds end |
| `RegistryTransfer` | push, copy, copy `--all-tags`; 2 tags, 2 workers, 2 attempts, 2 faults; 0.66 M states | consent, order of checks, truth of the report, a drained pool, the end |
| `Commands` | all 70-odd commands and tools, 2 items, 1 fault, 1 change by others, 1 way back; 82 k states | consent, truth of the output, deadlines, the end |
| `Trees` | cp, mv, sync in three directions, with and without slashes, filters, dry runs, a local directory that is missing; mv to a prefix within its source; 2 runs, 1 fault, 1 edit; 8.4 M states | moves lose nothing, a sync settles, excluded names stay |
| `HostFiles` | 2 releases (the second renames a skill and brings a `file_map`), one copy and one append agent, 3 commands, 1 crash; 2 processes and 3 writes on the configuration; 7.7 M states | the binary is whole, skills match their record, the user's text and keys stay |

| `CancelledCopy` (violation) | copy `--all-tags`, 2 tags, 2 workers | finding 7 |
| `MoveCollision` (violation) | mv of a prefix without its slash, 1 run | finding 12 |

Four more configurations are kept to be run by hand: `UploadUnlocked.cfg` (two
processes, two versions, a lock file that ages; passes: no corrupt object and no
untrue success even when the lock is lost) and the instances `AdoptedTail.cfg`,
`InwardMove.cfg` and `RenamedSkill.cfg` of findings 5, 13 and 15.

Bounds. For the transfers: `MaxRuns` bounds runs of the program, `MaxMishaps`
crashes, failed calls and outside aborts together, `MaxAges` the times that a week
goes by (checkpoints and lock files that exist then count as old). Three runs are an interrupted one, one that finds what it left, and one
that finds what that one left. Two mishaps (`UploadHistory`) allow a failure in the clean-up after
a failure. `OneObjectAtOnce` costs nothing the properties speak of: of two objects at
work at once in one `.part` file, that file is `mixed`; one after the other, they
meet on it in `Download` as well. The proofs do without these bounds. A file of three units gives a whole last part at part size 1 and a short
one at 2; three parts with two requests at a time complete out of order. For the
registry, two workers and two tags are the least with which a tag is handed out
while another is under way and a third party (producer, drainer, view) waits; two
faults exhaust the attempts of a request. For the commands, two items let
one succeed and the other fail, vanish or appear. For the trees, two runs are a
failed command and its repetition; the keys hold a name with the prefix `d`
without its slash, the markers of `d/` and of a directory in it, and one key
elsewhere. For the host, two releases,
the second of which renames a skill and gives another a file of its own, and three commands are an install, an update
or an interrupted install, and what finds their remains.

Deadlock is checked in the transfer modules, where the steps `Finished`,
`Returned` and `Over` mark the states with nothing left to do. In the others
(`CHECK_DEADLOCK FALSE`) a behaviour is that of one command, or of a bounded
number of them, and stops when it has ended; that it does end is a property there
(`CommandEnds`, `EndsInTime`, `RewindsEnd`), or no subject (`Trees`, `HostFiles`).

Fairness. In `ResumableUpload` and `ResumableDownload` a process that has
started goes on and the server takes in what was sent: Go runs goroutines that
can run, and the SDK's calls return. In `TransferPool` and `RegistryCopy` each
goroutine is weakly fair, in `RegistryCopy` also the registry and the user's answer
to a question; Ctrl+C is not. In `GuardedCommand` the command's own steps and
answers are fair; what others do, the service's falling silent and a polled
resource's settling are not, so a wait ends by its deadline. In
`WizardEngine` the engine is weakly fair, and a user who is asked again and again
answers (strongly fair, since an asking may be interrupted by a going back);
`RewindsEnd` excepts a user who goes back for ever. No crash, edit, failure or passing of time
is fair anywhere.

### Findings

Where the code does not do what its own documentation or comments say. Findings 7
and 12 are runs that end in the violation. Each of the others names a property that
states the promise, and the configuration in which TLC finds it violated: put it in
place of the properties there.

Uploads and downloads:

1. `TransferExclusive` (`UploadUnlocked.cfg`): **the lock expires under its holder.** Collection of old files
   includes `.lock` files and nothing renews their mtime. After seven days, or at
   once if the lock file was left by an older transfer, another process unlinks
   the held file and locks a new one, against `lock.go:27-28`. For uploads the damage
   stays at duplicated work: `UploadUnlocked.cfg` and the proofs show that no corrupt
   object follows.
2. `PartNotRaced` (`Download`): **for downloads it does not stay there.** Two downloads of one object
   then write to one `.part` file, against `mpdownload.go:231`, and one renames what
   the other has half filled.
3. `NeverSentTwice` (`UploadTwoProcs`): **ls-uploads writes the checkpoint before it has the lock**
   (`resume_uploads.go:202`), under a cp at work, which then sends what is recorded
   already. The bytes are the same, so work is lost and nothing else.
4. `PriorAborted` (`UploadHistory`): **an upload can be stranded.** `fresh` ignores the error of
   AbortMultipartUpload and then overwrites the only record of the upload, against
   the comment at `mpupload.go:166`. (`UndisturbedAborts` speaks of runs in which that
   call does not fail.)
5. `ObjectIntact` (`AdoptedTail.cfg`): **adopting an upload that holds only its tail.** The part size
   is inferred from the largest part present; if that is the short last one, the
   rest is cut at other boundaries and the object published is wrong, against
   `resume_uploads.go:32-33` and `143-144`.
6. `AdjacentPartBelongs` (`Download`): **two objects share one `.part` file.** The file is named after the
   destination, checkpoint and lock after destination and object. Interrupt a
   download of `a` to a path, then one of `b` to the same path: what `a`'s checkpoint
   claims is not in the file any more, and a third run, of `a`, resumes onto `b`'s bytes
   and reports success. The comment at `mpdownload.go:130-132` says the file
   belongs to this download.

Registry and wizards:

7. Run `CancelledCopy` (`AlwaysFullResultSet`): **an interrupted copy counts tags it never started as copied.**
   After Ctrl+C the producer stops; the tags no worker was given keep the zero
   result, which `summarizeCopyResults` counts as a success.
   `CMD/registry/copy.go:1239-1242` promises "the full result set".
8. `FailuresFlagged` (`RegistryTransfer`): **a push whose view cannot start claims success.** The command
   returns results that the push goroutine has not made yet, prints every image as
   pushed and exits with 0, against `CMD/registry/push.go:539-541`.
9. `EndpointFlagKept` (`Wizards`): **`registry configure` loses `--endpoint`** when name and secret are
   typed: the paste step is skipped, and its resetter empties the option
   (`CMD/registry/wizard.go:291`, against `configure.go:369`).

Commands:

10. `CostsComplete` (`Commands`): **`cost running` understates its total** when a volume cannot be read
    (`CMD/cost/running.go:138`, against 34-35).
11. `BoundedCallsEnd` (`Commands`): **`vm list` can hang for ever**: what it reads after the pick has no
    deadline (`CMD/vm/list.go:138`, against `util/factory.go:89-92`).

Trees:

12. Run `MoveCollision` (`EveryFileMoved`): **a recursive move can lose a file.** With a prefix `d` without
    its slash, the keys `d/x` and `dx` are both moved to `x`; the second overwrites the
    first and both sources are deleted, against `OS/mv.go:44-47` and `97`.
13. `EveryFileMoved` (`InwardMove.cfg`): **so can a move into the source.** `mv` from `d/` to `d/x` stores `d/x`
    at `d/x/x` before the file there has been moved.
14. `DryRunTouchesNothing` (`Trees`): **`sync --dryrun` from a bucket makes the local directory**
    (`OS/sync.go:232`, against 88-89).

Skills:

15. `RenamesHandled` (`RenamedSkill.cfg`): **a renamed skill's file stays**, if the release before kept it
    under a name from a `file_map` that the release that runs does not have
    (`CMD/skills/install.go:324`, against 313-314).
16. `PreviousFilesGone` (`HostFiles`): **so do the files of an install that was cut short**, because
    `skills.json` is written after them (`install.go:130`).
17. `VersionOfEach` (`HostFiles`): **one version is on record for all agents.** An install for one of
    them makes the others, with older files, look up to date (`install.go:215`,
    against `state.go:32`).

## 4. Proofs

TLAPS proves, for all values of the constants:

* `TransferPartsProofs`: `RangesTileFile`, from lemmas about `\div` and `%`
  (`DivMod`, `NumPartsReach`, ...), and `PartSizeFits`, from lemmas about the doublings
  of a part size (`DoublingsDef`, `DoublingsGrow`, `FirstThatFits`); the other proofs
  cite both.
* `ResumableUploadProofs`: `TypeCorrect` for every set of commands; and, with cp
  alone (`Entries = {"cp"}`; finding 5 is why), `PublishedWhole`,
  `SuccessIsTrue`, `CheckpointsTrail`, `PartsNeverReplaced`. None of these uses
  the lock: they hold for lock files of any age. With cp alone, and if no lock
  expires or there is only one process (`OneAtATime`; finding 1 is why),
  `UndisturbedUploadSucceeds`, `NoneStranded`, and `NoneSentTwice`, which covers
  `NeverSentTwice` as well.
* `ResumableDownloadProofs`, for all constants, hence any number of processes and
  objects and lock files that age at any time: `DownloadTypeCorrect`; and, unless
  two downloads that no lock kept apart had a hand in the file (`mixed`,
  `destMixed`; findings 2 and 6 are why), `DestIsWhole`, `SuccessIsDest`,
  `PartIsItsOwn`, `UndisturbedSucceeds`, `NoneFetchedTwice`.
* `TransferPoolProofs`: `PoolTypeCorrect`, `NilIsComplete`, `ErrorsSurface`,
  `NoLateWorker`, `ProgressTrue` and `PoolMeetsContract`, the safety part of the
  refinement; and of `PartPlan`, `PlanTypeCorrect`, `PlanTiles` (the
  first range starts at 0, each other one where its predecessor ends, the last ends at
  the file's size), `PlanIsLeast`, `PlanIsClosedForm`.
* `RegistryCopyProofs`: `ChecksComeFirst`, `NothingReplacedUnasked`,
  `ReportsAreTrue`, `PoolIsDrained`.
* `GuardedCommandProofs`: `ConsentFirst`, `SaysWhatIsSo`, `ThinkingIsFree`.
* `HostFilesProofs`: `BinaryStaysWhole`, `SkillsStayInStep`, `UserTextStays`,
  `ConfigurationKept`.
* `ObjectTreesProofs`: `NoFileLost`, `SyncsSettle`, `OnlyTheAsked`.

Assumptions: those named in the modules. `PartLimits`, `PlanInputs`, `UploadInputs`,
`DownloadInputs`, `PoolInputs`, `CopyInputs`, `CommandInputs`, `AttemptsAssumption`,
`SelfUpdateAssumption` and `AgentSkillsAssumption` are shapes of the constants;
`TreesAssumption` is that too, and leaves out keys with an empty part (`a//b`);
`HostFilesAssumption` says that each release carries a skills manifest;
`NoneIsNothing` separates the null value. `PlansAreOrderly` says that the
plan of every invocation keeps to `PlanRules`. A plan is a function of the flags
alone, so TLC's evaluation of it, for all commands there are and all combinations
of their flags, leaves nothing out.

The part sizes. `computePartSize` stands in the transfer modules for what the loop
of the code computes. That the loop ends, fits the file and computes just this is an
induction over its doublings. It is stated with sets (`AllNumbers`: a set that holds 0
and the next of each of its members holds every number), as a well-founded set has a
least member, and so is the existence of the sequence of doublings, which is
recursive. `Doubles` is the invariant of the loop: what it has tried did not fit.

The argument for `ResumableUpload`. `ObjectIntact` is not inductive: one has to
know how the parts of an *open* upload relate to each other. `OnePlan` says that
each upload has one version and one part size to which everything that mentions it
conforms: its stored parts, the checkpoint on disk, every checkpoint in memory,
every request in the network, including those of dead processes. `RunInv` relates
a process's checkpoint to its job from the step where `resolveUpload` has compared
them. With `CheckpointBehindServer`, a complete set of parts of one plan tiles the
file by `RangesTileFile`, and only such a set reaches Publish. The invariant
`IntegrityInv` is the conjunction; each action preserves it.

For a single run, `CalmInv` adds what it can rely on while it holds the lock alone:
as long as nothing has hit it, its upload is open, a request the server has seen was
taken in, and the upload whose record it is about to replace is not open any more
(`Spared`); and the checkpoint on disk is never ahead of the one in memory
(`DiskBehind`). That CompleteMultipartUpload then accepts the parts needs that all
but the last have the minimal size (`CutPartSize`). With cp alone no upload is
`overtaken`, so `NoneSentTwice` needs no exception.

The argument for `ResumableDownload`. Two runs at work on one `.part` file destroy
it, and the lock does not exclude that. So the proof goes in two layers,
`IntegrityInv == BaseInv /\ DataInv`. `BaseInv` is about who works on what and holds
whatever the lock does: no two runs of one object hold the same lock *file*, and a
file that is old or unlinked has a lower number than any new one (`LockInv`); hence a
`.part` that is not `mixed` has at most one run at work on it, of the object it was
last taken for (`ApartInv`). `DataInv` is what such a run can then rely on. `OnDisk` is
what a crash may leave: a checkpoint of that object, if there is one, is of one
version and part size, and the `.part` beside it has every chunk that it
records, of that version. `AtWorkInv` says how the job, the version HeadObject told,
the checkpoint in memory and the two files belong together while the run is at work
(`InMemory`), and that what its workers have in hand are bytes of the version asked
for, because every GetObject carries If-Match (`InFlight`). A run which nothing has hit
still sees the service's version (`Current`), from which `UndisturbedSucceeds`
follows.

The argument for `GuardedCommand`. What a command may do depends on the steps it
has left, so `ConsentInv` speaks of those: a step that does work is cleared by a
question still to come, or by what the user has said (`Cleared`), and a yes to what
was in hand counts only while no step lies between that puts something else there
(`AgreedToTargets`). A wizard that goes back takes up its plan at an earlier stage,
and a pick replaces the plan, hence the rules for both in `PlanRules`. Once work
was done no question is left (`DoneInv`), so no later answer can take the consent
away again. What is printed follows from `TruthInv`: what is in hand is or was there
(`InHandIsReal`), and while the command runs, the step that names its targets, or
waits for them, is ahead; or it is behind, and then nothing else comes into hand
(`SaysAhead`, `WaitsAhead`).

That thinking is free is two facts about a run that nothing disturbs, and `EaseInv`
carries both through the plan. No call fails: each call ahead has a deadline that
did not run while the user was thinking, because the plan sets one after the last
question before it, or sets none at all (`CallsInTime`); and what is in hand is
there, or was taken by this command (`HandsFull`), so nothing is answered with "not
found". And the command cannot end short of its work: what the user said yes to is
made or gone, or the act, the batch or the loop that takes it is ahead with nothing
between that changes what is in hand (`Fulfils`). A bucket that is to be emptied is
empty, or its objects are in the hands of the step that empties it (`Empties`). The
rules the plans have to keep to for this are `StartsSteady` in `PlanRules`; Esc and
a pick lead to plans that keep to them too (`RewindGoes`, `PlanGoesOn`).

The argument for `TransferPool`. `InOnePlace` (each part is in at most one place:
to do, with a worker, with the collector, recorded), `NoneDropped` (until the pool
is cancelled, in at least one), `InStep` (what one goroutine's position says of the
others) and `Errors` (what is known of failures) make up `PoolInv`. A nil return
means that nothing was cancelled, hence that nothing was dropped.

The argument for `RegistryCopy`. That a published tag was agreed to depends on
what the goroutines have in hand, so `CopyInv` follows a tag from its check to its
request: `Asked` (a tag that was there and has been looked at was skipped or agreed
to), `Looked` (after the preparation nothing is left to be looked at), `Assigned`
(queue and workers hold only tags that may be copied, and nothing before the
preparation is over), `Busy` (a request is under way only of a worker that reads
or writes). The report is read from the slice of results, so `ReportInv` follows a
result there: a tag that was handed out is with a worker, in the channel, or has its
result (`Accounted`); what a worker, the channel and the slice say of a tag is so
(`Told`), and a skipped tag is as it was (`Spared`); the drainer ends after the
workers and with an empty channel (`Closing`), and a view that nobody interrupted
ends with all rows shown (`Shown`). So every tag has a result when an undisturbed
transfer is over (`AllHaveResults`).

The arguments for `HostFiles`. The binary: `UpdateInv` says that what an update
has in hand is a release and sound, or waived, and that a destination is removed
only on Windows. The skills: `SkillsInStep` speaks of the end of a command, so
`SkillsInv` follows it file by file: a file in a directory belongs to a version
written there (`Written`); the names on record are those of the version on record,
and a command has them (`NamesKnown`), so that a file of that version which is not
written anew is among those the clean-up seeks, if the release that runs finds them
(`StaleFound`); after that, outside the files still to be written, the directory at
hand is already exact (`Clear`, `AtWork`); the directories done with are as they should be
(`Done`). The document:
`TextInv` speaks of the page, on the disk or in the hands of the command that
rewrites it. The user's texts are on it in their order (`Holds`), and, which makes
this inductive, none of them is between two markers that occur once each
(`OneBlock`): replacing or removing the block (`BlockInPlace`, `TakenOut`), writing
one behind a document that has none (`BlockAppended`), an edit in front or behind
(`TextAdded`) and the loss of a marker all keep both, by lemmas about sequences of
any length (`Replaced`). `Holds` is stated with an order-preserving map and not with
a filter, which is recursive. The configuration:
`ConfigInv` says of each file that no two commands have worked on at once
(`Clean`) that it is as wanted unless its one writer has it truncated, and that
what this writer is about to write is what is wanted with its own key changed
(`Own`).

The arguments for `ObjectTrees`. All three rest on what `RelKey` and `JoinKey` do
to names: on the boundary of a directory they are inverse to each other, and two
names that begin with two prefixes have comparable prefixes (`JoinedName`,
`JoinOfRel`, `PrefixesCompare`). A move: `MoveInv` says that every file that was to be
moved is still where it was, or has arrived (`NothingLost`), and that its source is
removed only after that (`UnderWay`). For a repeated command, what it finds under
the source is as at first (`SourcesAsAtFirst`), so it plans only transfers that the first
run planned (`MovesLeft`). This needs both halves of `Separate`; with only the first, a
repeated move within overlapping prefixes may lose a file. What is left
alone (of `--exclude`; a dry run is no part of this theorem): `AskedInv` says that nothing planned or under way names an excluded source
(`AskedFor`), or stores to an excluded name (`Stores`). A sync: `SyncInv` holds as long
as the run is not disturbed. The source is as the run found it (`SourceAsFound`); each
of its files is still to be transferred or is there with its contents, or was there
before with its size and no older (`BroughtOver`); only what the plan names is
transferred and deleted (`OnlyTransfers`, `OnlyExtras`), and what is extra at the
destination is still to be deleted (`AllExtras`). When nothing is left to do, this
is the property.

Only model-checked: liveness (`RunEnds`, `NoLeak`, the fairness half of
`MeetsContract`, `CommandEnds`, `EndsInTime`, `RewindsEnd`), which is out of the
prover's reach; and the properties of `CliWizards`, which are about the tables of
the flows there are: TLC goes through all of them, and no constant is left open.

## 5. What could come next

The sub-flows of the VM wizard that create keys and scripts; the cache of
container statuses; navigation in the browsers.

Not modelled, and why. Widgets, rendering, logging and version texts: no state
that a property could be about. The command framework and the construction of
clients, paths and credentials from flags, environment and files: string handling
and precedence rules, deterministic and unit-tested; what depends on it here (the
background context, the timeouts) is an assumption. The MCP protocol and its lazily
built client: a library and one mutex. Presign and show: one call each. Retry
waits, jitter and progress numbers: no property of the models depends on
times. Edits of a file while its parts are read (`mpupload.go:373`): the code has
no defence that could be stated. `PROJECT.json` says so part by part.
