# TLA+ for the Data ONTAP ExtStorage provider of Ganeti

`ganeti-extstorage-dataontap` lets a Ganeti cluster keep the disks of its
instances as LUNs of a NetApp filer. Ganeti runs one short script per operation
on a disk. A script is given its parameters in environment variables, sends a few
requests to the filer, runs a few commands on the node, and exits. Nothing is
kept between two scripts, and the scripts take no lock: all they share is what
the filer, the nodes' kernels, udev and a directory of small files hold. What can
go wrong lies between the steps. A script fails half way, an answer is lost,
another script or hook is at work at the same time, a device or a file is older
than the LUN it stands for.

This directory holds the models of that, the TLC runs that check them and the
proofs about them. Paths and line numbers are relative to the repository
(`src/`), in `src/extstorage_dataontap/` unless another directory is given.

## 1. Inventory

| Component | State it keeps | Operations | Module |
|---|---|---|---|
| Volume scripts: `provider_base.py`, `provider_cmode.py` | none between calls; within a call, the LUN and the device found | `create` `remove` `grow` `setinfo` `snapshot` `attach` `detach` (`verify` `open` `close` change nothing) | `Provider`, `VolumeService` |
| Hooks `pre_move`, `post_remove` in `provider_base.py` | the cleanup files, `<DEVICE_CLEANUP_DIR>/<uuid>`, that `remove` writes | rescan on the target of a move; drop the devices of a removed disk on every node | `Provider` (`PreMove`), `PostRemove` |
| Entry point: `common.py` | none | load the options, import the provider, set up the log, run the method, turn exceptions into exit code 2 | `Startup`; `Provider` (`Call`, `Return`, `Fail`) |
| Configuration: `configuration/` | the options of one run | defaults, file, environment, checks; `run_cmds`, `get_scsi_id`, `get_dev_cleanup_cmd` | `Startup`, `Provider` |
| LUN requests: `client/client_base.py`, `client_cmode.py` | none; the filer keeps the LUN table | create, map, destroy, resize, comment, clone, list | `Ontap`, `Provider`, `CloneRanges` |
| 7-mode provider: `provider_7mode.py`, `client_7mode.py` | a clone operation in the filer | start a clone, poll it, clear it, retry | `CloneJob`, `CloneService` |
| Iterators and lists: `client_cmode.py`, `client_7mode.py` | a tag, or an open iterator in the filer | next page, end | `Paging` |
| QoS policy groups: `client_cmode.py` | groups in the filer | create, use, mark by a rename, delete the marked | `QosGroups` |
| Connection: `client/api.py`, and the clients' use of it | opener, transport, port, login, version, tunnel, timeout | the setters, copies, `send_request`, `invoke_api` | `Connection` |
| EMS messages: `client_base.py` | time of the last attempt | `provide_ems` | `Connection` |
| API check: `client_cmode.py` | none | `check_apis_on_cluster` | `ApiCheck` |
| XML elements: `client/api.py` | a tree | `translate_struct`, children, attributes | left out |
| Utilities: `client/utils.py` | none | `save_and_reraise_exception`, `resolve_hostname`, dates | left out |
| `exception.py`, `i18n.py`, `version.py`, `setup.py` | none | texts and installation | left out |
| Outside: Ganeti, the filer, `iscsiadm`, `multipath`, `udev`, `gnt-cluster` | instances and locks; LUNs; devices and links | | `Cluster`, `Ontap` |

How the parts interact. Ganeti starts a script; `main` (`common.py:33-60`) builds
the provider, which connects to the filer through the client, and calls one
method. `create`, `remove`, `grow`, `setinfo` and `snapshot` first ask the filer
for the LUN of that name in *any* pool (`_get_lun_by_name`, `/vol/*/<name>`) and
then name the LUN by its path. `attach`, `grow` and `pre_move` run commands that
make the kernel look at all LUNs of the igroup again; udev then makes a file named
after node, pool and volume, which `attach` and `remove` find with a glob that
leaves everything but the name open. `remove` puts the SCSI ID of the device into
a file on the primary node before it destroys the LUN; much later, and on another
node, `post_remove` fetches and deletes that file, and has all nodes drop the
device, by way of `gnt-cluster command`.

What is hard about it, and what makes each part correct:

- **Volume scripts.** Two requests where one would have to be atomic
  (look up, then act); failure after an effect; retries of operations that are not
  idempotent. Correct when a call changes only the volume it names, at most once,
  and says so truthfully (`ImplementsService`); when a volume that was acknowledged
  stays (`AckedIsServed`) and one that was removed is gone (`NoLeak`).
- **Devices.** The device on a node is a copy of what the filer said at the last
  rescan; its file belongs to a name, not to a LUN. Correct when the primary node
  sees the right LUN at the right size (`PrimaryCurrent`, `AttachReturnsOwn`),
  also after a move (`MovedIsVisible`).
- **Removal.** A hand-over between two processes on two nodes, through a file.
  Correct when an acknowledged removal leaves the right record and only the hook that
  has read it takes it (`RemovedIsRecorded`), when the hook leaves
  nothing stale behind (`NoStaleDevice`), and when it drops nothing that is in use
  (`FlushesOnlyDestroyed`).
- **Waiting.** `attach` waits for udev by trying `MAX_RETRIES` times. Correct when
  every call ends (`EveryCallReturns`), because every step leaves it fewer to take
  (`EachStepCounts`), and a negative answer is true (`NotFoundMeansNone`).
- **Cutting a clone into ranges.** Two nested loops with limits, and a request after
  each turn of the outer one. Correct when the ranges are within the limits
  (`WithinLimits`), tile what is wanted (`CopiedInOrder`) and are complete
  (`AllCopied`).
- **Clone jobs.** An operation in the filer that outlives the script that polls it.
  Correct when success is answered for a finished copy and the error of an operation
  only when nothing more is to come (`ImplementsCloneService`), when polling ends
  (`FileEnds`, `LunEnds`), with no turn of a loop that changes something and does not
  count (`EachStepCounts`), and when a failed operation is cleared (`FailedIsCleared`).
- **Lists.** Pages that come in while others change what is listed. Correct when
  nothing is found twice (`EachOnce`), when what stays is found (`SteadyFound`), and
  when no iterator is left open (`IteratorReleased`).
- **QoS groups.** A group is renamed first and deleted later, by whoever comes by.
  Correct when only what was meant to be deleted and is not in use goes
  (`DeletedWasMeant`), when what was meant is marked (`MarkedAtReturn`), and when
  marked groups do not stay without a reason (`MarkedIsWanted`).
- **Connection.** One object with many settings, used by its owner, by a generator
  that is read in between, and by EMS messages. Correct when a request goes where
  and as its sender wanted (`GoesAsAsked`), with current credentials
  (`AuthIsCurrent`), through a tunnel only to a filer that has said it knows tunnels
  (`TunnelIsSupported`), and when messages keep their distance (`EmsApart`).
- **Start of a script.** Options from three sources, checks that depend on one
  another, failures before the one `try`. Correct when an action runs with valid
  options only (`StartedIsValid`), booleans mean what was written (`BooleanMeans`),
  and Ganeti gets a true answer (`AnswerIsTrue`).
- **API check.** Two ways to the same answer, one of them in pages
  (`ReportIsRight`).

## 2. The modules

`Ontap` — external. The LUN table and the block devices as sets of records, and an
operator for each request and command the scripts use. One path has at most one
LUN; every LUN has a serial, which is what `scsi_id` reads from its devices. A
rescan refreshes the size of devices whose LUN is mapped, adds missing devices and
removes none. A path in `/dev/disk` is one link: when udev gives it to a new device
the older one loses it. Nothing in this module is code of the repository; it says
no more than the scripts depend on.

`VolumeService` — abstract. What the scripts promise: a store of volumes and one
call per client. Each call is `pending`, takes effect in one step (create in two:
`Allocate`, then `Publish`), and is answered `ok` only after its full effect.
Failure hides whether there was an effect.

`Provider` — the scripts. `job[p]` is the script that process `p` runs; its `pc` is
the next request, command or file access. An action is everything between two
such points:

| Action | Code |
|---|---|
| `Lookup` | `_get_lun_by_name` with its assertion, and what `create` / the others do with the result |
| `CreateLun`, `MapLun` | the two requests of `create` (`provider_base.py:230-257`) |
| `DestroyLun`, `DoDirectResize`, `SetLunComment`, `CloneLun` | the request of `remove`, `grow`, `setinfo`, `snapshot` |
| `SearchToAttach`, `Poll` | `_get_lun_device`: the first search, and the loop after the attach commands |
| `Rescan` | `run_cmds` of the attach commands, in `attach`, `grow` and `pre_move` |
| `SearchToSave`, `OpenFile`, `WriteFile` | `remove` down to the cleanup file; opening it truncates it |
| `PreMove`, `Detach` | the hook's two conditions; a script with no commands to run |
| `Fail` | an exception with no effect before it, or a kill |
| `Call`, `Finish`, `Settle` | Ganeti and udev |

An action with an effect on the filer ends in `Then` or `Finally`, which allow the
answer to be lost: the effect happened, the script exits with code 2. `main` maps
every exception to 2, `attach` returns 1 when it finds nothing. `SearchToSave` takes the
glob and the `scsi_id` of what it found in one step: the file has one path, so what udev does to
it in between might as well be done before the glob, and where it is gone `scsi_id` fails.

`PostRemove` — the hook, one disk after the other: `CatFile`, `RemoveFile`,
`CleanDevices`. `gnt-cluster command` exits with 0 even when the command failed on
some nodes; `QuietFailures` says whether that happens. The hook reads the remote
return code of `cat` only.

`Cluster` — the scripts, the hook and their caller. It says of Ganeti what the
scripts take for granted: disks have names of their own that are never used again,
the lock of an instance is held during a call, a disk grows and does not shrink, a
failed call counts as not done and may be tried again, an instance moves only after
`pre_move` returned 0 on the target. `disk[n]` is what Ganeti believes of a volume,
to be compared with what the filer and the nodes have.

`CloneRanges` — `clone_lun` with a block count (`client_cmode.py:249-298`; the loops
of `client_7mode.py:181-224` are the same). `NextCall` is the head of the outer
loop, `NextRange` a turn of the inner one, `Request` and `RequestFails` the request
at its end. The counters are those of the code, including what it does *not* do:
the last turn of each loop leaves `zbc` and `bc` as they are. The scripts clone
whole LUNs only (a count of 0); the other counts are for other callers of the client.

`CloneService` — abstract. What a 7-mode clone promises: it is made in parts, one
part at a time is under way, and the answer is `ok`, `failed` (nothing is to come)
or `unsure`.

`CloneJob` — `clone_lun` and `clone_file` of the 7-mode client, each script `p` with
one operation in the filer.

| Action | Code |
|---|---|
| `CloneStart`, `CloneAtOnce`, `StartFails` | `clone_lun` or `clone_file` down to the first poll (`client_7mode.py:199-234`, `311-335`); the answer may have no id |
| `CheckCloneStatus` | a turn of `_check_clone_status` that leaves the loop (`236-271`) |
| `WaitForCloneFinish` | the same of `_wait_for_clone_finish` (`337-365`), where no operation is an error |
| `PollFails`, `Break` | a failed request, which `clone_file` catches; any other exception, or a kill |
| `ClearClone`, `ClearFails` | an attempt of `_clear_clone` (`367-385`) |
| `JobCompletes`, `JobFails`, `JobForgotten` | the filer |

`Paging` — all functions that read a list. Records are numbered in the filer's
order, a tag is a place in it (`cursor`), and `Added` and `Removed` are other clients
of the filer. A page may hold less than it might, even nothing, with a tag. `NextPage`
is a turn of a loop that follows the tag, `OnlyPage` is `get_lun_by_args`, `InvokeApi`
a page of `invoke_api`; `IterStart`, `IterNext`, `IterEnd` and what fails of them are
the getter of 7-mode with its `finally`; `VolLuns` the list by volume, which passes over a
volume on a `NaApiError` (`VolLunsFail`) and ends on anything else (`PageFails`);
`AllIgroups` the one that comes at once. `steady` remembers which records were there
from the beginning.

`QosGroups` — groups with a name, plain or marked, and the LUNs that use them.
`Mark` is the call of `mark_qos_policy_group_for_deletion`, whose two requests are
`QosPolicyGroupRename` (or `RenameRefused`, `RenameFails`) and `RemoveUnused` (or
`RemoveUnusedFails`); others act in between. The code catches `NaApiError` around either
request. `RenameBreaks` and `RemoveUnusedBreaks` are the calls that something else ends
there, an exception while the answer is read or parsed, or a kill: the request may have
had its effect (`RenamedPerhaps`), and nothing comes after it. `left` keeps which marked
groups a call has left.

`Connection` — `NaServer` as operators on records (`SetPort`, `SetTransportType`,
`Opened` for `_build_opener`, `Refused` for the `ValueError` of tunnels), and the steps
of those who use it: the constructor of a client (`ConnInit`, `GetVersion`), its
owner's requests and changes, copies for one request (`InvokeTunnelApi`), `invoke_api`
page by page, `provide_ems` in up to three steps with a clock. `wire` is the
request that was sent last, and carries what its sender had asked for; `asked` records
that as the setters are called, and no action of the code reads it.

`ApiCheck` — `check_apis_on_cluster`: every API tried, or the pages of capabilities, or, for
a version that is unknown or has neither, an exception (`VersionRaises`).

`Startup` — the import of `configuration` and `main`. Options are records with
the type of the value and what it means; a value from the environment is a
string, or `None` when it is empty. `ReadFile`, `ReadEnvironment`, one `CheckVal` per
check in the order of `configuration/__init__.py:173-203`, `ImportProvider`, `SetUpLog`; each
may end the script before its `try`. Then the action is done (`Runs`), returns a status of its
own (`Refuses`: `attach` without a device, and the hook), or raises (`Raises`).

`MCProvider`, `MCCluster`, `MCCloneJob`, `MCClient` — the instances for TLC.
`MCClient` holds `CloneRanges`, `Paging`, `QosGroups`, `Connection`, `ApiCheck` and
`Startup`. These share no state. The variable `topic` says which of them a
behaviour is about; its steps are that module's, and the others stay in one
initial state. So the run visits the sum, not the product, of their states, and a
property of one module is checked on all of that module's behaviours.

`ProviderProofs`, `ClusterProofs`, `CloneRangesProofs`, `CloneJobProofs`,
`PagingProofs`, `ConnectionProofs`, `QosProofs`, `StartProofs` (for `Startup` and
`ApiCheck`) — the proofs.

Some definitions are marked as mutants in their comment. They are a plausible slip in
the definition that follows; no specification uses them, and every property is known to
fail with one of them in its place.

What is abstracted: sizes are small numbers, comments and names are model values,
the contents of a LUN are left out (no property here is about them), the igroup is
the configured one, and so `mapped` is a Boolean. `verify`, `open` and `close` return at once and have no
action. The detach commands are empty in the defaults and have no effect.

## 3. Runs

| Run | Question | Bounds |
|---|---|---|
| `provider_service` | Do the scripts implement the volume service, whoever calls them? | 2 processes, 3 calls, 2 names, 2 pools, any interleaving |
| `provider_reuse` | Does every call end, and each step count? | 9 calls one at a time, 1 name in 3 pools, so that 0 to 3 files match |
| `provider_names` (violated) | Is the assertion of `_get_lun_by_name` right? | 3 calls, 2 pools |
| `provider_files` (violated) | Is "not found" true when `attach` says so? | 5 calls, 1 name, 2 pools |
| `cluster_life` | Is what was acknowledged served, and does the primary see it, through growth, snapshot, moves and failures? | 6 calls on 2 nodes, a volume and its snapshot, sizes 1 to 3 |
| `cluster_pair` | Do two instances leave each other alone, one perhaps being removed? | 2 processes, 4 calls, 2 nodes, 1 pool |
| `cluster_gone` | Is the removal recorded for the hook, and is nothing left behind when all commands work? Is "not found" true where names are used once? | 6 calls one at a time, 2 disks, 2 nodes, 2 pools, a move among them |
| `cluster_ignore` (violated) | Is the cleanup run for destroyed LUNs only, with `--ignore-failures`? | 4 calls, 2 instances |
| `clone_job` | Is a 7-mode clone answered truthfully, does polling end, is a failed operation cleared? | a `clone_lun` of two requests, one of one, a `clone_file`; 4 failed requests; the filer forgets two of the operations |
| `clone_job_purged` (violated) | Does `clone_lun` end whatever the filer forgets? | a `clone_lun` and a `clone_file` |
| `client_requests` | One topic at a time: ranges, lists, QoS groups, connection, API check, start | below |
| `start_logfile` (violated) | Does a script start without a log file? | the topic `start` |

The bounds. `MaxCalls` is the only bound on length; everything else that grows
(files, devices, serials) grows with calls. Three calls are enough for every pair
of scripts to interleave over a volume that a third one made. Five calls reuse a
name in a second pool (create, attach, remove, create, attach), nine in a third.
Six calls on one volume hold create, attach, grow and
move with two retries. Four calls with two instances hold create for both, and attach or removal of either.
In `cluster_gone` the six calls hold create, attach and removal of both
disks, in one pool or two, or fewer of these with a move or a removal that is tried again. There a name that was used again after its removal would
have a file in each pool: the mutant `AskCreateAgain` of Ganeti's rule makes `attach` miss
both. The pools are interchangeable. In `cluster_pair` one pool is enough, as its
properties are about two instances.
`MaxRetries` is 2 instead of 5: with 2 the loop has a turn that goes on and one that
gives up, and more turns are like the first. Sizes 1 to 3 let one `grow` fail after its effect and a
smaller one follow. Processes are interchangeable, and `SYMMETRY` is used for them
where no liveness is checked.

The topics of `client_requests`, about 700,000 states together:

- `ranges`: ranges of 3 blocks, 2 in a request, all counts from 0 to 19 and two
  offsets, so that every residue of the count for both limits occurs, with one
  request, two, three and four.
- `paging`: all lists within five records, pages of two, eight functions, three
  changes by others at any point: a list of three pages, with a page that becomes empty
  and a record that appears behind the place or ahead of it. `Limit` is 0, which is what
  a caller that wants everything passes.
- `qos`: two clients, two names, one LUN, three groups: a name that is
  marked, made anew and marked again while the first is in use. One group per
  request to delete, so that there are more marked groups than a request takes.
- `connection`: a client of each family with and without a port (0 among the ports),
  four versions around the limits of tunnels and features, two tunnels, two logins, a
  clock of three values with `EmsLimit` 1: too early, at the limit, and after it.
- `apis`: three APIs, all lists and permissions, up to three pages.
- `start`: every option that `configuration/__init__.py:173-203` checks, good and bad, set in
  the file or in the environment, for an action with output, one with a status of its
  own, and a plain one.

`clone_job` needs four failed requests: three for the attempts of `_clear_clone`
and one before. More parts than two repeat the second.

`CHECK_DEADLOCK FALSE` is in every configuration: after `MaxCalls` calls all
scripts have ended and nothing is left to do, a clone ends as `ok`, `raised` or
`failed`, a list as `done` or `raised`. That no script stops on its way is
`EveryCallReturns`, `FileEnds` and `LunEnds`.

### What the runs found

1. `snapshot` does not look the new name up (`provider_base.py:353-367`), `create`
   does. A snapshot into a name that another pool holds succeeds; from then on two
   LUNs have the name, and the assertion in line 162 stops every later call for it.
   Ganeti alone, which does not use a name twice, does not come across it
   (`SingleMatchHolds`).
2. `_search_lun_device` has an error for *more than two* files (line 189). Exactly
   two count as none (lines 194-195), and `attach` says "not found". Where a name is
   used once, two files do not occur (`cluster_gone`, with two pools; `NotFoundMeansNoneHolds`).
3. `remove` leaves the file with the SCSI ID before it looks up and destroys the
   LUN, and does not take it back when that fails. The hook takes the file as proof of
   removal and drops the devices of a LUN that exists. `default.py:134-136` says
   the command is for after the LUN was destroyed. This takes
   `gnt-instance remove --ignore-failures`; without it `cluster_pair` shows that
   no device of an existing LUN is dropped.
4. `_check_clone_status` (`client_7mode.py:246-263`) leaves its loop only for an
   operation that is reported and not running. When the filer reports none, because
   it has purged a finished operation or was rebooted, `snapshot` asks again without a
   pause and never ends. `_wait_for_clone_finish` treats the same answer as an
   error, and ends (`FileEnds`).
5. `main` decides on the log file with `configuration.LOG` (`common.py:37`), a logger
   that is always true, and not with `LOGFILE`. `default.py:22` says that `None` means
   no log file; `FileHandler(None)` raises before the `try`, and every script ends with
   status 1.

### What holds under an assumption only

`NoStaleDevice` is checked with `QuietFailures = FALSE`: with commands that fail on
a node unseen, the hook does return 0 and leave devices behind, as the comment in
the code about `gnt-cluster command` has it. `AttachReturnsOwn` and
`PrimaryCurrent` rest on names that are never used again: `attach` does not ask the
filer, and would take a device left by an older volume of that name. `AckedIsServed`
compares sizes with >=: a `grow` that failed after its effect leaves a LUN that is
larger than Ganeti believes, and a later, smaller `grow` shrinks it again (the
resize is forced), though never below what was acknowledged.

`RemovedIsRecorded` says nothing of a removal that failed: that one may leave an empty
file, or the number of a LUN that still exists (finding 3). `NoLeak` passes over names of which
only a failed call is known, and `ImplementsService` allows one name in two pools, which is
`SingleMatch`.

`SteadyFound` excepts `get_lun_by_args`, which reads one page of 100 and ignores the
tag: what lies beyond is not found. `MarkedAtReturn` excepts a group whose rename
failed or was refused, since an earlier group still has the marked name: the error is logged,
and nothing tries again. `MarkedIsWanted` excepts marked groups that a call has left, broken off
after the rename or with a deletion that failed; they wait for the next call that succeeds. `ReportIsRight` excepts APIs whose trial failed for another
reason. `LunEnds` is about operations that the filer keeps until they were polled.

### Seen while reading, with no run of its own

These are in the models as they are, or noted as hazards, and no text in the
repository says otherwise. `invoke_api` counts a limit in pages, not records.
Version 2.0 of ONTAPI is refused for tunnels, since its minor number is compared by
itself (`api.py:277`). `EXTP_PORT` is a string and never accepted, the check wants an
integer. A `POOL` that is empty raises a `TypeError` out of the check. An API that the capabilities
name with a blank before it is looked for without it, and `list.remove` raises. No request of
the scripts has a timeout.

## 4. Fairness

`FairSpec` has weak fairness of `Step(p) \/ Fail(p)` and of `Finish(p)` for each
process. No script waits for another, for udev or for a lock; a process that can
take a step is run by the operating system. The one thing assumed beyond that: a
request to the filer and a command are answered or fail. The code sets no time
limit of its own on either. Nothing is assumed of udev, so `attach` may search in
vain, and nothing of the caller.

`FairSpec` of `CloneJob` has weak fairness of `Step(p)`, the next request of a
script, and of `JobCompletes(p) \/ JobFails(p)`: the filer ends an operation that it
has started and not forgotten. Failing requests, kills and forgetting get none. A poll that finds the
operation running, or finds none in `_check_clone_status`, is no step: it changes
nothing. That is why fairness of `Step` says nothing there and `JobCheckEnds` fails, as
the code does.

The other modules state no fairness: their loops are over finite lists, and their
properties are about safety.

## 5. Proofs

`ProviderProofs`: **`TypeCorrect == Spec => []TypeOK`**, for all values of the
constants that meet the assumptions in `Provider` (requests are well-formed, sizes
are numbers, at least one retry). `TypeOK` alone would not be inductive without its
conjunct `InStep`, that a process is at a step of the operation it was called for:
the fields of the request that a step uses are there only for that operation.
`RequestFields` gives them, `JobMoves` says what each move does to a job, and
`RescannedType` that a rescan makes devices of the right shape. The proof has one
step per action.

**`ServiceRefinement == Spec => ImplementsService`**, in the same module. The
refinement mapping forgets devices, files, serials and everything of a job but its
request and whether it is before, half way through, after its effect or answered.
Given `TypeOK`, `Effects` shows that each request that changes LUNs is the action
of the service with that effect (`RequestsInPlace` and `VolumesAt` carry sets of
LUNs over to sets of volumes; `RequestsInPlace` needs that a volume determines
whether its LUN is at the path); `ErrorAnswers` that a failure is an answer of the
service; `SilentMoves` and `OtherMoves` that the rest is not seen.
`EveryStep` puts them together. The result does not depend on who calls what, nor
on the number of processes: the races of section 1 are all within what the service
allows, and the service allows no more than one effect per call, in the volume the
call names.

**`EachStepCountsHolds == Spec => EachStepCounts`**, in the same module too, is the half
of `EveryCallReturns` that does not need fairness. Each step of a script, and each
failure, takes it down by at least one of at most `MaxRetries + 6`, and nothing that
others do brings it up. What is left of the liveness property is that a script can go on and
does. The invariant, `Searching`, is that searches are counted in the loop of `attach`
only, and that the loop goes on below `MaxRetries` only.

`ClusterProofs`: **`ClusterTypeCorrect`**, **`AckedIsServedHolds`**, **`NoLeakHolds`**,
**`PrimaryCurrentHolds`**, **`AttachReturnsOwnHolds`**, **`MovedIsVisibleHolds`**,
**`RemovedIsRecordedHolds`**, **`ClusterImplementsService`**, **`SingleMatchHolds`**,
**`NotFoundMeansNoneHolds`**, **`FlushesOnlyDestroyedHolds`** and **`NoStaleDeviceHolds`**, for
any number of instances, disks, snapshots, nodes, processes and calls. All but the last two
have no premise; `FlushesOnlyDestroyedHolds` has `~IgnoreFailures`, and `NoStaleDeviceHolds`
besides that `~QuietFailures` and `CleanupCmd`. What is assumed of Ganeti is in
`ClusterAssumption` (no name belongs to two instances) and in the guards of `Cluster`.
None of the properties is inductive. They become so together, in `ClusterInv`:

- `Locked` and `Asked`: one call at a time holds an instance, and while it does, what is
  believed of its disks stays as it was when the call began.
- `Identity`: a name has one number for ever, and a number one name. LUNs, devices, cleanup
  files, answers of searches and what the hook has read all are *labels* that tie a name to
  a number. This is what `attach`, `remove` and the hook take for granted, since none of
  them asks the filer. A label comes up only by a LUN that is made (`OldLabels`), whose
  name is in doubt and has none yet; the devices of a LUN that is gone are labels
  too, which is why a name that Ganeti used a second time would break it.
- `Effect`: a call that has succeeded, and is not answered yet, has had its effect. That the
  effect lasts until the answer is `EffectLasts`: others hold other instances. When the
  answer arrives, `ServedKept` and `CurrentKept` turn the effect into what is believed.
- `Recorded`: the cleanup file of a removal, while the call runs. The hook, which removes
  files, is for another instance (`FileStays`).
- `Hooked`, `Gone`, `Cleaned`: the hook is for one instance, whose disks are gone; so no
  device of theirs appears again (`NoNewDevice`), and what the loop has gone past is clean.

`RemovedIsRecordedHolds` needs a second invariant, `HandOver`, on top of that and of `OneDevice`
below. `ClusterInv` has the file of a removal until its answer, but not that there is no
other, nor who takes it. `HandOver` adds that a node has one file for a disk (`OneFile`); that
a file comes up only where the node has a device of the disk (`FilesVisible`), so that a
removal that found none leaves none, also when it is a retry (`Searched`); and that the
hook removes a file of its instance, on its node, whose number it has read (`HookHasRead`).

The lemmas `LunMoves`, `DevMoves`, `SavedMoves`, `HookMoves`, `JobsMove` and `WorldMoves` say
which steps change which variable, so that each part of the invariant is proved against a
few kinds of steps and not against all actions. `ClusterStep` puts the parts together.

Three of these theorems say where the scripts end and their caller begins.
`ClusterImplementsService` carries the refinement over: a step of the cluster is one of the
scripts, or it changes no LUN and no call (`ScriptSteps`). `SingleMatchHolds` and
`NotFoundMeansNoneHolds` are the two properties that the scripts alone violate (findings 1
and 2), and that hold for a caller that uses a name once. The first is `OneEach` of
`ClusterInv`, across the pools. The second needs besides `Identity` that a node has one
device for a number, whatever is rescanned, linked and dropped (`OneDevice`); then at most
one file has the name of a volume, and the case of two files is not met.

`CloneRangesProofs`: **`RequestsWithinLimits`**, **`CopiesInOrder`**,
**`CopiesAll`**, for all limits, counts and offsets, so also for 32 and 2^24. The
invariant `CutInv` has two halves. `Counted`: what is in no range yet is what
`zbc` and `bc` hold, and the turns left of each loop are just enough for it
(`Iteration`: a turn takes one unit, or what is left in the last one). `Tiled`:
the ranges made so far tile the blocks up to `dest_block`. Neither half would do
alone: that the last range ends where it should is in the first, that there is no gap
before it in the second. The division of `math.ceil` is exact here; the code divides
floating-point numbers, which are exact for counts below 2^53.

`CloneJobProofs`: **`CloneServiceRefinement`**, **`FailureIsCleared`**, **`JobTypeCorrect`** and
**`EachStepCountsHolds`**, for any number of parts, scripts and attempts. `JobInv` adds to the types `Progress`, how many parts are copied
at each step and where an operation can be running (a script that reports the error of
the operation has none that runs, and one that polls a finished operation has all parts
up to the current one), and `Attempts`: each attempt that is gone met a failed request. The mapping
to `CloneService` takes the operations that run for the parts under way; a purge
maps to a stutter or, of a running operation, to `Lose`. `EachStepCountsHolds` bounds the
steps that change a script by `Retry + 2` for each part (`OwnOnward`, `OthersStay`): the
only way not to end is a poll that finds the operation running or, in `_check_clone_status`,
not reported, which is finding 4.

`PagingProofs`: **`PagingTypeCorrect`**, **`EachOnceHolds`**, **`SteadyFoundHolds`**,
**`IteratorReleasedHolds`**, for any list, page sizes and number of changes. `PagingInv`: what lies ahead of the place is not taken, what lies
behind it and was there all the time was taken once (`Counted`); a function at its end
has nothing steady ahead (`Exhausted`); an iterator is held between its start and its end
only (`Holding`). Records that come and go are why `Counted` speaks of steady ones on one side only.

`ConnectionProofs`: **`ConnTypeCorrect`**, **`GoesAsAskedHolds`**, **`AuthIsCurrentHolds`**,
**`TunnelIsSupportedHolds`**, **`EmsApartHolds`**, for all configurations, versions, tunnels
and orders of calls.
`ConnInv` says that the connection and each copy agree with what their user asked for
(`Agrees`; one lemma per setter says what it keeps of that), that the last request
was right (`Right`), and that no message was sent after the time that is noted
(`Noted`). `Agrees` holds for the credentials too, since `refresh` is never
reset and so the opener is built of the current fields for each request. For
`TunnelIsSupportedHolds`, `Versioned` adds that the connection and its copies know no
version but the one the filer has reported (`CopyKeepsVersion`); the test of `Refused` is
then enough (`SentIsSupported`), although it compares the minor number by itself.

`QosProofs`: **`QosTypeCorrect`** (names are unique, a used group is there),
**`MarkedAtReturnHolds`**, **`MarkedIsWantedHolds`**, **`DeletedWasMeantHolds`**, for any
number of clients, names and groups. `QosInv` adds `Meant`, that a marked group, and
the group that a rename is about to hit, was meant, and `Left`, which is
`MarkedAtReturn` from the rename on. A call that breaks off joins what it may have marked to
`left`, and no action but a deletion takes a group away from there, so `MarkedIsWanted` stays. `Meant` needs that nobody makes a group of a name while
it is being marked, which is what callers that work on one volume at a time see to.

`StartProofs`: **`StartTypeCorrect`**, **`BooleanMeansHolds`**, **`StartedIsValidHolds`**,
**`AnswerIsTrueHolds`** for `Startup`, whatever the file and the environment set, and
**`ReportIsRightHolds`** for `ApiCheck`, for all APIs, permissions and pages. `StartInv` says
what each stage leaves to the next: what a script has done and put out so far (`Course`),
that each option holds what was set last, a boolean once checked its meaning (`MergedInOrder`), that
the checks gone through so far were passed (`Passed`), one by one and so all of them before an
action runs, and that the option of the chosen
family is not among those deleted (`OfFamily`). A check may use what an earlier one has
established: the commands are looked at for the protocol that was checked before.
For `ApiCheck`, `Sorted` says that an API is still to be looked at, or is among the failed
ones exactly when it should be, or went unanswered; for a version with neither way there is no list.

The prover is TLAPS 1.4.5 with Z3, Zenon and LS4; no step is left without a proof.

## 6. Model-checked only, and not modelled

Liveness (`EveryCallReturns`, `FileEnds`, `LunEnds`) is left to TLC: these need fairness
and `ENABLED`, which the prover does not handle. The two theorems `EachStepCountsHolds` are
the part of them that is safety. Every other property of a passing run is a theorem. (The
types of `CloneJob` are proved, `JobTypeCorrect`, and have no run: what of them could fail,
that an attempt is left to a script that clears, is in `EachStepCounts`.) The violated ones are not, of course; `SingleMatch`, `NotFoundMeansNone` and
`FlushesOnlyDestroyed` are theorems of `Cluster` under the assumptions named in section 5.

Not modelled, with the reason:

- `NaElement` and `translate_struct` (`api.py:330-628`): they build and read a tree
  within one call, keep nothing and meet no one else.
- `save_and_reraise_exception`: it logs when another exception is raised in between, and
  otherwise raises the one it holds. Its only effect here is in `RemoveUnusedFails`-like
  places, where the models say which error goes on.
- `resolve_hostname`, the dates of `utils.py`, the formatting of `exception.py`, translation,
  versions and `setup.py`: conversions without state.
- Requests of the client that no script makes and that are one request each: moving
  and unmapping a LUN, the details of iSCSI and FC targets, `file_assign_qos`,
  `qos_policy_group_delete`.
- `dfm` as filer type and certificates as the style of login: reached by nothing.
- Crashes of the filer other than what `JobForgotten` says; a second cluster on the same
  filer; more than one igroup.

## 7. Plan

Done, in this order: `Ontap`, `VolumeService`, `Provider`; `PostRemove`, `Cluster`;
`CloneRanges`; `CloneJob` with `CloneService`; `Paging`; `QosGroups`; `Connection` with EMS;
`Startup`; `ApiCheck`; the proofs of section 5.

Of the plan nothing is left, and every safety property has its theorem. What could be added is a second cluster on the same filer,
which the scripts would meet with names they do not expect, and the targets' details of
the client, once a script uses them.
