# Verification of OpenE2B

TLA+ models of the control plane of OpenE2B, checked with TLC on small
instances, and TLAPS proofs about them for all values of the constants. Paths
below are relative to the repository (`src/` here).

## 1. The system

| Part | State it keeps | Operations | Talks to |
|---|---|---|---|
| API handlers, `internal/api/sandbox.go`, `store.go` | none of their own; a row per sandbox in the database | create, delete, pause, resume, connect, timeout, refresh | database (one operation at a time), scheduler |
| Databases, `internal/db` | rows of sandboxes, templates, builds; in memory, PostgreSQL or Supabase | create, get, list, update, delete; one statement or transaction, on Supabase up to two requests | nothing |
| Scheduler, `internal/scheduler/scheduler.go` | nodes with their counters, sandboxes, under one RWMutex | Schedule, Stop, Pause, Resume, ExtendTimeout, (Un)RegisterNode, checkExpirations | orchestrator client, with the lock held |
| Orchestrator client, `orchestrator_client.go` | a client per node; the location of each sandbox, under its own mutex | the four commands | node agents, over HTTP with a limit of 120 s |
| Node agent, `internal/orchestrator/service.go` | none; passes on to the runtime and reports its answer | the four commands, status | one runtime |
| Docker runtime, `runtime_docker.go` | table of sandboxes, pool of host ports, under one RWMutex; the containers outlive it | create, stop, pause, resume, status, list, exec | the docker command line |
| Docker SDK runtime, `runtime_docker_sdk.go` | table of sandboxes, under one RWMutex | the same; pause and resume do nothing | the docker API |
| Firecracker runtime, `runtime_firecracker.go` | table of VMs under a lock; disks, base image, `/etc/hosts` and VMs outside it | the same | the Firecracker SDK, the files of the node |
| Edge controller, `edge_controller.go` | none | proxies a request to where the runtime says the sandbox is | runtime |
| Sandbox proxy, `cmd/api/main.go` | none | forwards a request to the sandbox's address | scheduler |
| Template builds, `internal/api/template.go`, `internal/templatebuild` | rows of builds; a queue of 100, a map of builds | start, status, stop; two workers | database, docker, artifact store |
| envd, `pkg/envd` | processes by pid and tag; token | start, connect, input, signal, files | the sandbox's operating system |

Where they meet: a request handler changes the database row and the scheduler
one after the other, with no lock over both. The scheduler holds its write lock
from the first check of an operation to the last assignment, **remote call
included**. The remote call can be refused, can take effect and be answered, or
can end in an error for the scheduler while the node has executed it or will.
The expiration checker, a ticker, collects identifiers under the read lock,
gives it back and retires them one by one. It knows nothing of the rows.

What makes this hard, and which properties stand against it:

- *Atomicity*: capacity is checked before the remote creation and reserved
  after it. `CapacityRespected`, `Accounting`, `ImplementsPlacement`.
- *Partial failure, lost answers, time-outs*: a command may fail for one side
  only. `Agreement`, `OrphansComeFromLostCreates`, `ExpiredIsRetired`.
- *Stale state*: the checker's snapshot, the client's own table, the row against
  the scheduler's map. `CheckerSparesTheLiving`, `RoutesMatchRecords`,
  `PausedCanBeResumed`.
- *Interleaved requests* on one sandbox. `PausedIsFrozen`, `RecordsLiveOnce`.
- *Restart* with a database that outlives the scheduler's map. `Traceable`.
- *Liveness*: one lock for everything, a checker that ignores errors, two workers
  and build steps without a time limit. `LockIsReleased`, `ExpiredIsRetired`,
  `BuildsEnd`.
- *A build's row, its place in the queue, its container and its image* change hands
  between a handler, a goroutine, a queue that may be full and a worker, and one build
  may be queued twice. `NoneForgotten`, `ContainersAreOwned`, `ReadyHasImage`,
  `OutcomeStays`, `ServerComesBack`.
- *A process in a sandbox* has a handler, two goroutines, followers of other callers
  and a caller who may leave at any point. `EventsInOrder`, `EndMeansEnd`,
  `OutputArrives`, `ListedIsServed`, `FollowersAreTold`, `AbandonedIsCleared`.

- *A node's ports, disks and names* are shared by its sandboxes and outlive the agent,
  whose table does not; commands fail half-way, guests die, callers leave.
  `NeverMisrouted`, `PortsComeFree`, `StatusIsTrue`, `NothingRunsUnseen`, `NamesMatch`,
  `BootsFromItsDisk`, `CallsReturn`, `EdgeRoutesCorrectly`.
- *A request is several operations on a database*, which may fail before or after they
  take effect, and three databases that differ in what they tie together.
  `SpawnsCounted`, `AnswersHold`, `RowsLiveOnce`, `DataStore`'s `TypeOK`.

`PROJECT.json` lists every hazard with its line, and every component, the ones
that are not modelled included.

## 2. The modules

| Module | What it is |
|---|---|
| `Load` | the resources a set of sandboxes takes |
| `Lifecycle` | abstract specification: the one life of a sandbox |
| `Placement` | abstract specification: what the scheduler promises |
| `Scheduler` | scheduler, orchestrator client and the node's answers |
| `SandboxApi` | API handlers and rows, over `Placement` |
| `BuildService` | template builds: handler, service, queue, workers, start of the server |
| `EnvdProcess` | envd's process service: handlers of Start and Connect, their goroutines, the processes |
| `AgentCalls` | what the runtimes share: calls in progress, table, guests |
| `DockerRuntime`, `DockerSdkRuntime`, `FirecrackerRuntime` | the three runtimes |
| `NodeAgent` | the agent over one of them, what happens around it, the edge controller |
| `Tables` | the rows of a database |
| `MemoryStore`, `PostgresStore`, `SupabaseStore` | the operations of the three databases |
| `DataStore` | the requests of the API over one of them |
| `MCScheduler`, `MCSandboxApi`, `MCBuildService`, `MCEnvdProcess`, `MCNodeAgent`, `MCDataStore` | values of the constants for TLC |
| `LoadProofs` | lemmas about sums of demands |
| `PlacementProofs` | what `Placement` guarantees, and that it implements `Lifecycle`, proved |
| `SchedulerProofs` | the scheduler's invariants, and that it implements `Placement` and its nodes `Lifecycle`, proved |
| `BuildProofs` | the build service's invariants, proved |
| `EnvdProofs` | the process service's safety properties, proved |
| `SandboxApiProofs` | the handlers' safety properties, proved |
| `NodeAgentProofs` | the agent's types, ports, disks, names, guests and lock, proved |
| `DataStoreProofs` | references, answers, counts and the life of a row over each database, proved |

Definitions whose first line has a comment `mutant` are faulty forms of the definition
that follows them. No specification uses them; each is what the neighbouring
definition would be with a plausible mistake in the code, and is there to show
that a property notices it.

### 2.1 Scheduler

*State.* `nodeState`, `allocatedCPU`, `allocatedMemory` and `sandboxCount` are
`Scheduler.nodes` (an unregistered node is `"absent"`). `state`, `nodeOf` and
`expiresAt` are `Scheduler.sandboxes` (no entry is `"none"`). `sandboxPorts` is
the client's table. `expired` is the slice of `checkExpirations`. `remote` is what
the nodes run. `call` is at once the write lock and the operation that holds it:
`idle` is the free lock; a call is `sent`, then `done` (executed) or `refused` at
the node, then `ok` or `failed` at the scheduler. `lost` is a history variable:
the commands that failed for the scheduler and that the node may have executed.

*Actions.* Each operation is two actions, because the program's other actors
move while its remote call runs. `Schedule`, `Stop`, `Pause` and `Resume` do
everything up to the call, with the early returns (no node fits, no record, wrong
state, node no longer registered, no client). `FinishSchedule`, `FinishStop`,
`FinishPauseOrResume` and `FinishFailed` do the bookkeeping and unlock. In between
`NodeDoes`, `NodeRefuses` and `NodeFailsMidway` are the node (external but for
the agent's service), `ClientReturns` and `GiveUp` the client, and `LateCommand` a
command that reaches the node after its caller gave up. The nodes of `SdkNodes` run
the Docker SDK runtime, which is the default one of a local server: they answer success
to a pause and a resume and do nothing (`Idle`). `GuestDies` is a container that exits
or is killed, or a Firecracker VM, which ends with the request that created it: nobody is
told, and a later stop may answer success (`docker rm -f`; Firecracker's StopSandbox
ignores the error of StopVMM). `Scan` and `Retire` are the
checker. `ExtendTimeout`, `RegisterNode` and `UnregisterNode` are exported and
tested, and the deployed program calls none of them once it serves requests: they
are in `OpenSpec` and not in `Spec`.

*Abstractions.* Each identifier is used for one sandbox: identifiers are random
(32 bits), and their collisions are listed as a hazard. The score, a float in the
code, is compared as an exact fraction, and any of the best nodes may win, as Go's
random map order lets it. Memory is in units. The checker's look whether the
sandbox is still there and the operation that follows take the lock twice in the
code; only another operation on that sandbox could matter in between, and
the operation repeats the test under the lock. At most one copy of each command
is late at a time.

*Demands* are integers: `store.go` takes the CPUs and the memory of a template as they
come, so that a template can ask for less than nothing. A sandbox of that kind makes
room that is not there (a counter below zero), and the room is gone when it ends: with
other sandboxes already in it the node is then overbooked.
`Load` therefore counts what a set of sandboxes takes and what its negative demands give
(`Taken`, `Given`), and `CapacityRespected`, `NeverOvercounts` and the placement's
`RoomKept` bound a node by its capacity and what has been given; without negative
demands this is the capacity. `Accounting` and the refinement hold as they stand. Sums
beyond the range of an int are not modelled.

*What a record means.* `Agreement` says of each sandbox without a lost outcome that what
its node holds is explained by the record (`Explains`): the same state; a running guest
under a paused record where the runtime does not pause; or the remains of a guest that
died. Nothing that is not recorded runs, nothing recorded is missing without a death, and on a
node that can pause nothing runs under a paused record or is frozen under a running one.

### 2.2 Placement and Lifecycle

Every sandbox is `unborn`, `running`, `paused` or `gone`; it has a place while it
lives. Room on a node is computed from what is placed there. There are no counters,
no calls, no clock, no failures. `Scheduler` implements it under the mapping
`Life`: a recorded sandbox has its recorded state; an identifier that was not
scheduled, or whose creation is in progress, is `unborn`; all others are `gone`.

`Lifecycle` is that life alone: it begins once, freezes and thaws, and ends for good.
Four layers keep a copy of it, none of which sees the others', and each implements
`Lifecycle` under a mapping of its own:

| Layer | Mapping | Property |
|---|---|---|
| the scheduler's map | `Life`, by way of `Placement` | `ImplementsPlacement`, `PlacementHolds` |
| what runs on the nodes | `Scheduler!MachineLife`: not begun as long as its creation is on its way, late commands included | `MachinesLiveOnce` |
| the row as the handlers see it | `SandboxApi!RecordLife` | `RecordsLiveOnce` |
| the row in each of the databases | `DataStore!RowLife` | `RowsLiveOnce` |

`SandboxApi` takes for granted that a database does not bring a row back by itself;
`RowsLiveOnce` is that, of the three stores with their failures and restarts.

### 2.3 SandboxApi

*State.* `life`, `place` are the abstract scheduler (`S == INSTANCE Placement`),
`container` what the nodes run, `late` the commands on their way to a node that the
scheduler has given up on, `record` the row's state. `request[r]` says where a handler is:
the name of the statement it executes next. The rest is history: sandboxes whose stop was
answered with an error (`failedStops`), whose requests overlapped or were cut short by a
restart (`disturbed`), whose pause was answered and did nothing (`unfrozen`), that a restart
made the scheduler forget (`forgotten`); and `unheard`, the commands that failed for
the scheduler although the node carries them out.

*Actions.* A handler is one action per statement that changes state:
`CreateSandbox` (row), `ScheduleCall`, `Forget` (clean-up); `DeleteSandbox`,
`StopCall`, `Forget`; `PauseSandbox` (check of the row), `FreezeCall`, `Mark`;
`ResumeSandbox`, `ThawCall`, `Mark`; `ConnectSandbox`, `Mark`. `Expire` is the
checker, `Restart` a stop and a start of the server at any point, `GuestDies` a container
that ends by itself.

A call of the scheduler is one step, and ends in one of three ways: the node answers
success (`Succeeds`), and has done what was asked, unless its runtime ignores it; nothing
happened and the handler sees an error; or the handler sees an error of a command that the
scheduler has sent and the node has carried out, or carries out later (`GoesUnheard`,
`LateCommand`). In the last two the scheduler's map is as before, but for a creation,
which is over for the scheduler: this is what `Scheduler` is proved to do.

*What the properties allow for.* `Traceable`: a container that is in neither the
scheduler's map nor the database is one whose creation went unheard, so that the handler
removed its row (sandbox.go:101-105), or one that a restart made the scheduler forget and
whose stop failed, so that the handler of a deletion removed its row. A failed stop alone
is not enough, as the map still has the sandbox, nor is a restart alone, as the row is
there. `PausedIsFrozen`: a row that says paused over a running container belongs to a
sandbox whose requests overlapped or were cut short, whose resume went unheard
(sandbox.go:198-204), or whose runtime answers pauses without pausing.

*Abstractions.* The row's end time is not modelled (no code reads it to decide
anything). The database persists, which the default in-memory store does not
(README.md:424). A nil row after an update makes a handler panic; that ends the
request and changes nothing.

### 2.4 BuildService

*State.* `row` and `templateRow` are the statuses of a build and of a template in
the database, `builtBy` the build that a template is started from (its `BuildID`);
`container` and `image` what docker has, an image by the template and the build in its name;
`workQueue` the service's channel. `start[r]` says which statement a handler, or the
goroutine it leaves behind, executes next, and `work[w]` the same of a worker, with `own`
once its `docker run` succeeded and the removal is deferred; each has the build (`id`) and
the template (`of`) that the request named. `disrupted`, `raced` and `filed` are history
variables: builds hit by a restart or by an error of the database; builds that two
requests found waiting at the same time; under which templates each build was started.

*Two identifiers.* A template is made with one build, and the model names both by the
latter; nothing that is called makes a second one. A request to start a build names a
template and a build, and neither the handler (template.go:119-144) nor the service
(service.go:146-164) compares the one with the other. So `StartBuildV2(r, b, t)` is asked
for any pair. The image is then named after `t` and `b`, and `Publish` makes `t` ready, with
`b` as the build it is started from. `ReadyHasImage` says what that leaves: a template that
is ready has an image of the build it is started from, under its own name; a build that
is ready has an image under a template it was started under, which need not be its own.
When the template of the path is deleted between `Claim` and `Admit`, the service refuses the
build, whose row stays building for good: `NoneForgotten` and `BuildsEnd` exempt the builds
one of whose templates was deleted (`TemplateGone`), and no others.

*Actions.* `StartBuildV2` (the checks of the rows), `Claim` (the update and the 202),
then in the goroutine `Admit`, `MarkBuilding`, `Enqueue` or `Reject`. A worker:
`Take`, `RunContainer`, `ExecuteSteps`, `Commit`, `MarkReady`, `Publish`, or
`MarkError`, `Blame` (`failBuild`), and the deferred `Cleanup`. `Boot` is the start of
the server up to the base template's build, `Restart` its end at any point: main waits
for HTTP requests and not for workers, so that a crash and an orderly end are the same.
`CreateTemplate` and `DeleteTemplate` are the user's, of the base template too.

*Abstractions.* Every statement of the database and every docker command may fail, for
the builds of `Fallible`; what a failed statement leaves behind is recorded in `disrupted`
where a property depends on it. The deletion of a template takes its build along, as in
PostgreSQL, or leaves it, as in memory (whose rows a restart would also lose: the
model's survive). A server that finds the base template deleted seeds another, with new
identifiers, which is not followed. Logs, exported artifacts and the in-memory map of
builds, which nothing reads, are left out. Docker is external: a name can be used
by one container, a failed run may leave its container behind, containers
and images outlive the server.

### 2.5 EnvdProcess

*State.* `processes` is the daemon's table and `done` the processes whose `Done`
channel is closed. `handler[p]` is how far the Start handler of `p` is, `reader[p][s]`
the goroutine that forwards one of its streams, `follower[c]` a Connect handler and
`followed[c]` the process it found. `process`, `wrote` and `pipe` are the operating
system's side, `here`, `saw` and `got` the callers'. `cut` is a history variable:
processes whose pipes `cmd.Wait` closed while a goroutine had yet to read from them.

*Actions.* `Spawn`, `Register`, `SendStart` or `StartNotSent`, `Reap` (`cmd.Wait`, which
closes the pipes), `CloseDone` (`wg.Wait` and `close`), `Unlist`, `SendEnd` are the Start
handler from top to bottom. `ReadChunk`, `ReadEnd`, `SendChunk`, `ChunkNotSent` are a
goroutine, `Connect`, `Greet`, `Tell` the Connect handler, `SendSignal` and `Kill` (the
end of the request's context) the two ways in which the daemon ends a process.

*Abstractions.* A process is named by the request that made it, because the daemon's
numbers are fresh; a selector by number or tag means any listed process. Output is
counted in reads. A stream reaches a caller who is there; to one who has left, a send
fails or is swallowed. The mutex of the stream is not a variable: a send is one
action. Only `rpc/process.go` is modelled; `cmd/envd` serves no other process service.

### 2.6 NodeAgent and the runtimes

*State.* `call[c]` is a handler of the agent: its operation, the place it has got to,
whether its request still has a caller (`live`: the context has not ended), and what it
read of `/etc/hosts` (`seen`). `entry` and `envdPort` are the runtime's table, which
ends with the process; `guest` and `holds` are the containers or machines with their
host ports, which do not. `pool` and `nextPort` are `availablePorts` and `nextPort` of the
Docker runtime. `lock` is the SDK runtime's RWMutex as each call stands to it. `rootfs`,
`base` and `hosts` are the Firecracker runtime's files, `watched` the machines whose
process dies with a context. `told` is what the caller heard. `disturbed`, `lost`, `torn`,
`stuck` and `untidy` are history variables: sandboxes whose calls overlapped or failed
half-way; guests the agent lost sight of; a copy to the base image that was cut off; disks
that could not be unmounted though their request went on; `/etc/hosts` written by two calls
at once or not at all.

*Actions.* Where the code holds its lock over a whole operation, the operation is one
action: `CreateSandbox` and `StopSandbox` of the Docker runtime. Where it does not, it is
one action per command or file: `PauseSandbox` and `Mark`; for Firecracker
`PrepareRootfs`, `SaveBase`, `InjectEnvd`, `StartVm`, `Boot`, then `StopSandbox`, `Shutdown`,
`WriteHosts`, `RewriteHosts`, and `PauseVm`, `CreateSnapshot`, `ResumeSandbox`, `ResumeVm`.
The SDK runtime's lock is modelled step by step (`Announce`, `RLock`, `Unlock`, `RUnlock`),
because `GetSandboxStatus` takes the read lock twice: `"stuck"` is a reader who waits for a
writer who waits for him. `Confirm` is the status that the agent asks for after a
creation. Around them: `RequestEnds` (the caller leaves or gives up), `GuestDies`,
`VmKilled` (`exec.CommandContext` with the request's context), `ExecPanics` (the channel
closed under its senders), `AgentStops` (the process ends, and starts with an empty table).
`RoutedTo` is where the edge controller sends a request.

*Disks.* Whatever is written to a disk is written through a mount, and nobody looks whether
the umount that follows has worked before the mount point is removed with all that is in it
(runtime_firecracker.go:797-805). It fails when the request has ended, as it is started
with its context, and then no machine is booted from the disk; and for reasons of its own,
in `PrepareRootfs` and in `InjectEnvd` (`UnmountFails`), and then one is booted from an empty
disk. `BootsFromItsDisk` allows for the latter (`stuck`), for unfinished images of a
template and for a torn base image, and for nothing else.

*What runs unseen.* `NothingRunsUnseen` says that what runs has an entry, that its creator was not
told that the creation failed, and that nobody was told that it is stopped. It does not say
that its creator was told of it: he may have left before any answer (`"unheard"`), and for
the scheduler that is a lost creation (sections 2.1 and 2.3).

*Abstractions.* A command that is cut off with its request may have taken effect or not.
Callers are the control plane: it changes one sandbox at a time, as the scheduler's lock
has it, unless an earlier caller gave up. A node starts with an empty directory of
artifacts. Snapshots are not read by anything and are left out, as is the network. A
template's image is whatever the build service has made of it (`TemplateImages`). The
runtimes are started with one of the three modes and keep it.

### 2.7 DataStore and the databases

*State.* `db` holds the tables, functions from keys to rows; of a row, what another row,
a request or a count depends on. `backend` is the database of this server. `call[c]` is a
handler with the operation it does next; `told` what the client heard of a creation.
`dropped`, `born`, `missed` and `hit` are history variables: deletions that were asked
for; sandboxes whose row was ever inserted; templates of which a count was cut off or
crossed; identifiers that a failed request to the database or a restart hit.

*Actions.* `GetTemplate` (and `GetTemplateByAlias`, Supabase's second request),
`InsertSandbox`, `CountSpawn` or `ReadSpawnCount` and `WriteSpawnCount`, `Schedule`,
`UndoSandbox` are the creation of a sandbox; `FindSandbox`, `UpdateSandboxState`,
`UpdateSandboxTimeout` pause, resume, timeout and refresh; `CreateTemplate` and
`CreateFirstBuild`, `DeleteTemplate`, `UpdateTemplate` the templates; `FinishBuild`,
`FinishTemplate` the outcome of a build. `Outcomes` is what becomes of a request over the
network: heard, unheard, or heard with its answer lost. `Restart` is the end of the server at any
point, and its next start, on the same database or, when that does not answer, in memory.

The three databases differ, and the model with them. PostgreSQL and Supabase have the
schema's references, memory has none: the deletion of a template leaves its builds and
sandboxes behind there. PostgreSQL makes a template and its build in one transaction,
Supabase in two requests. Supabase reads a spawn count and writes the next one, the
others count in one step. Supabase answers success when there was no row to change or
delete. A name that is one template's identifier and another's alias means either on
PostgreSQL (one query with OR), the identifier on the others: the run has such a name.

*Abstractions.* A template has one build, which goes by its name; a build's status is
waiting or done. Scheduler and containers are one choice (`Schedule`): `SandboxApi` has
them. A server that fell back to memory stays there.

## 3. What is checked

| Run | Instance | Shows |
|---|---|---|
| `scheduler` | 2 nodes, one with the SDK runtime, 3 sandboxes, one with negative demands and a mortal guest, 1 lost outcome, clock to 1; 1.3 million states | the seven safety properties and the refinement |
| `scheduler_live` | 1 node, 2 sandboxes, 1 lost outcome | the lock is always released; an expired sandbox is retired, unless an outcome of its own was lost or its guest is dead |
| `scheduler_open` | 2 nodes, one of them without a client, 2 sandboxes, `OpenSpec` | nodes that come and go: counters never exceed what is recorded and negative demands have given |
| `scheduler_resume` | as `scheduler_live` | *violation*: a resumed sandbox has its old deadline |
| `sandbox_api` | 2 requests, 2 sandboxes, 2 nodes with room for one each, one of them with the SDK runtime, 1 lost command, 1 mortal guest, 1 restart; 3.0 million states | the two ways to lose sight of a container, one life in the listings, pause of sandboxes left undisturbed |
| `sandbox_api_resume` | 2 requests in progress together, no restart | *violation*: a sandbox paused by the checker cannot be resumed |
| `build_service` | 2 templates with their builds, any pair of which can be started, 1 deletion, 2 starters, 2 workers, queue of 1, 1 restart; errors for one of the builds; 1.3 million states | nobody is forgotten, containers are owned, ready means an image, outcomes stay, builds end |
| `build_service_boot` | the same | *violation*: the server does not start on a database with an ended base build |
| `envd_process` | 1 process, 2 streams of up to 2 chunks, 2 followers; 0.2 million states | order and completeness of output, true end events, followers told, no process left in the table |
| `node_agent` | each runtime with 2 sandboxes, 2 calls together, 2 host ports; 2 faults (Docker) or 1; 0.63 million states | ports lead to their sandbox or nowhere and come free, the table is true, nothing runs without an entry or after it was said not to, names and disks are right, calls return |
| `agent_misrouted` | the same without faults | *violation*: requests for a stopped sandbox reach the one that got its port |
| `data_store` | each database with 2 sandboxes, 2 templates (one named like the other), 2 requests together, 6 in all, 1 fault; 3.1 million states | references, spawn counts, that what clients were told is so, and that no row comes back |

*Why the bounds are enough.* With three sandboxes and two nodes of two sizes there are
creations that fit on both nodes, on one, and on none; a node can be filled exactly, and
one sandbox fits on the smaller only in the room that a negative demand makes; one sandbox
pauses and two stop when they expire; of the deadlines the tick passes two
and not the third. The sandbox that pauses is the one whose guest may die, and
one of the nodes cannot pause.
One lost outcome is enough for every disagreement the properties speak of, since
each is about one sandbox, and a second loss on another sandbox is independent;
the proofs are for any number. The clock's bound only limits which deadlines pass.
In `sandbox_api` two requests let any two overlap at any two of their statements, and a
restart meets each pair of steps; with one more request the run would not end in minutes,
and the proofs are for any number. `MaxClock`, `MaxLost`, `Mortal` and `MaxRestarts` are the
bounds.
For builds, two starters are what it takes to queue one build twice and to fill the
queue; two templates are what it takes to start a build under another's path and to delete
that one or its own (`MaxDeleted`); the base build meets no error of database or docker
(`Fallible`), and may hang, the other may meet any. With two workers and one build whose steps may hang, one worker is left, as
`BuildsEnd` needs; the code's queue of 100 differs from one of 1 only in how often it
is full, and the proofs are for any capacity.
In `EnvdProcess` two processes meet only in the table, where each has its own entry; two
chunks are what it takes to have one held by a goroutine and one left in the pipe when
the process exits; the proofs are for any number of either. `MaxChunks` is the only bound.

In `NodeAgent` two calls are what it takes for two of them to meet, on one sandbox or on
what sandboxes share: a port given back and drawn again, a base image copied while it is
written, a writer between two read locks. Two faults let a failure meet a restart of
the agent on the runtime that has the port pool. In `DataStore` six requests are two
templates, two sandboxes and two more on any of them; the request that matters to an
answer is one operation away from another's. `MaxPorts`, `MaxFaults` and `MaxRequests`
are the bounds. Sandboxes and calls of `data_store` are symmetric (no liveness there).

The runs of `Scheduler` and `SandboxApi` check for deadlock: an idle checker can always
scan, and a deletion can always be asked for. Those of `BuildService`,
`EnvdProcess`, `NodeAgent` and `DataStore` do not: a server that has failed to start, one
whose builds are all over, or a daemon whose callers have all been answered, has nothing
to do; two calls of the SDK runtime can block each other for good, which `CallsReturn`
exempts by name; and every identifier may have been used.

*Fairness* (`Fairness` in `Scheduler`). `WF(Tick)`: time passes. `SF(Scan)` and
`SF(Retire(id))`: the ticker fires every few seconds, and Go's RWMutex admits a
waiter before later arrivals, so the checker gets the lock if it is free again and
again; weak fairness would let requests keep it out. `WF(CallProgress)`: an
operation's own goroutine goes on, and the HTTP limit ends a call that nobody
answers. `SF(SuccessOf(id))`: a node that is asked again and again to do what it
can, does it in the end; this is an assumption on the node, and without it no
scheduler could promise that sandboxes end.

In `BuildService`, `WF` of each goroutine's and of each worker's steps: goroutines
run, statements and docker commands end or fail. A step that hangs (`"hung"`) has no
action, and only the builds of `Endless` may hang: nothing in the code ends such a step,
so that as many of them as there are workers would stop every build.

In `EnvdProcess`, `WF` of each handler that has begun and of each goroutine, which
assumes that a caller who is there takes what is sent to him (one who does not
read and does not leave holds the stream, and with it the handler); and `WF(Kill)`:
`exec.CommandContext` kills the process of a request that ended. No process has to exit
by itself and no caller has to come or leave.

In `NodeAgent`, `SF` of each handler's steps: the commands it runs end, or are ended with
the request, and Go's RWMutex starves nobody who waits for it. Strong, because a call
that needs the lock is enabled only while the others are out of it. The exec of the SDK
runtime (`"hung"`) and the nested read lock (`"stuck"`) have no action that ends them.

## 4. What is proved

`SchedulerProofs` holds for any finite set of sandboxes,
any set of nodes, all demands, capacities, deadlines and bounds that satisfy
the named assumptions of `Scheduler`; `BuildProofs` for any sets of builds, goroutines
and workers and any capacity of the queue; `EnvdProofs` for any sets of processes,
followers and streams and any amount of output; `SandboxApiProofs` for any sets of
requests, sandboxes and nodes and any number of restarts; `NodeAgentProofs` for any sets of
sandboxes and calls and any bounds on ports and faults; `DataStoreProofs` for any sets of
sandboxes, templates, aliases and requests in progress and any number of requests and faults
(a sandbox's identifier is never a template's, and there is a template).

| Theorem | Statement |
|---|---|
| `TypeCorrect` | `Spec => []TypeOK` |
| `AccountingHolds` | `Spec => []Accounting` |
| `CapacityHolds` | `Spec => []CapacityRespected` |
| `AgreementHolds` | `Spec => []Agreement` |
| `OrphansHold` | `Spec => []OrphansComeFromLostCreates` |
| `RoutesHold` | `Spec => []RoutesMatchRecords` |
| `CheckerHolds` | `Spec => CheckerSparesTheLiving` |
| `OpenCountsHold` | `OpenSpec => []NeverOvercounts` |
| `OpenRoutesHold`, `OpenOrphansHold` | `OpenSpec => []RoutesMatchRecords`, `OpenSpec => []OrphansComeFromLostCreates` |
| `CallsGoOn` | `OpenSpec => [][CallGoesOn]_vars` |
| `DeadlinesStand` | `Spec => [][DeadlineStands]_vars` |
| `Refinement` | `Spec => ImplementsPlacement` |
| `PlacementHolds` | `Spec =>` what `PlacementProofs` proves of the scheduler's map |
| `MachinesHold` | `OpenSpec => MachinesLiveOnce` |
| `RoomIsKept` | of `Placement`, for any demands: `Spec => []RoomKept` |
| `BuildProofs!TypeCorrect` | `Spec => []TypeOK` |
| `NoneForgottenHolds` | `Spec => []NoneForgotten` |
| `ContainersOwned` | `Spec => []ContainersAreOwned` |
| `ReadyImageHolds` | `Spec => []ReadyHasImage` |
| `OutcomesHold` | `Spec => OutcomeStays` |
| `PoolHolds`, `BuildsGoForward` | `Spec => []PoolKeepsAWorker`, `Spec => [][EveryoneGoesForward]_vars` |
| `EnvdProofs!TypeCorrect` | `Spec => []TypeOK` |
| `ListedHolds` | `Spec => []ListedIsServed` |
| `EndHolds` | `Spec => []EndMeansEnd` |
| `OutputHolds` | `Spec => []OutputArrives` |
| `OrderHolds` | `Spec => EventsInOrder` |
| `WaitsEnd`, `ExitWindsDown` | `Spec => []NobodyWaitsInVain`, `Spec => [][WindsDown]_vars` |
| `SandboxApiProofs!TypeCorrect` | `Spec => []TypeOK` |
| `RecordsHold` | `Spec => RecordsLiveOnce` |
| `TraceHolds` | `Spec => []Traceable` |
| `FrozenHolds` | `Spec => []PausedIsFrozen` |
| `NodeAgentProofs!TypeCorrect` | `Spec => []TypeOK` |
| `RoutingHolds`, `PortsHold` | `Spec => []NeverMisrouted`, `Spec => []PortsComeFree` |
| `DisksHold` | `Spec => []BootsFromItsDisk` |
| `NamesHold` | `Spec => []NamesMatch` |
| `StatusHolds`, `NothingUnseenHolds` | `Spec => []StatusIsTrue`, `Spec => []NothingRunsUnseen` |
| `LockIsNoTrap`, `StuckForGood` | `Spec => []SomeoneGoesOn`, `Spec => [][StuckStays]_vars` |
| `TablesHold` | `Spec => []TypeOK` (`DataStore`) |
| `AnswersAreKept` | `Spec => []AnswersHold` |
| `SpawnsHold` | `Spec => []SpawnsCounted` |
| `RowsHold` | `Spec => RowsLiveOnce` |

None of the properties is inductive alone. `Accounting` needs `Booked`: what the
call in progress will book or give back fits the records (its node is the recorded
one, its identifier has no record yet if it is a creation, the node still has the
room that `selectNode` found). It stays true because every action that could
change the records needs the lock. `CapacityRespected` needs `RoomBooked` besides: a start
adds to what is taken on a node what `selectNode` found to fit into what the counters leave, and what the
sandboxes on a node give is part of what all that were scheduled give. `Agreement` needs
`Synced`: a call past `sent` has the effect its phase says unless an outcome was lost, and
every late command is one of the lost ones. `CheckerHolds` needs `SnapshotStaysTrue`: whatever happens
after the scan, an identifier in the snapshot keeps a deadline that has passed,
because no operation of `Spec` moves a deadline of an existing sandbox and no
identifier is used twice. (It is false of `OpenSpec`, where `ExtendTimeout` does
move it.) Sums of demands are differences of cardinalities of disjoint unions (`Load`), the
units taken less the units given, so that the lemmas on adding and removing a sandbox
follow from the library's theorems on finite sets. `OpenCountsHold` keeps of `Booked` what survives a
node that leaves and comes back (`OpenInv`): counters that were reset stay below what is
recorded, and may become negative. `OpenRoutesHold` and `OpenOrphansHold` show what else
survives it: the table of locations, and that only a lost creation leaves a machine without
a record (`KnownOrLost`); capacity and agreement do not. `Refinement` maps each action to
an abstract step or a stutter, with `Accounting` to turn the counters' guard into the
abstract `HasRoom`.

`PlacementProofs` proves of the abstract placement that its nodes are never fuller than
their capacity and what negative demands have given, and that a sandbox keeps its place to
its end. Through the refinement (`PlacementHolds`) these
are facts about the scheduler's map that do not pass through its counters. `MachinesHold`
needs that a creation is given once, and is in the call that has the lock, or late, or
over, and that until it is over no node runs the sandbox (`OneCreate`): so a late
creation can start a machine after its caller gave up, and never start a second. A guest that
died is at the end of its life.

In `BuildProofs`, `ContainersAreOwned` and `ReadyHasImage` are inductive together with
`OwnersAreInside` (who is past `docker run` owns a container) and
`ReadyPlacesHaveImage` (who is about to write `ready` has committed). Since a build may be
under any template, all of it rests on `FiledInv`: whoever has a build, in a goroutine, the queue or
a worker, has it under a template it was started under. `NoneForgotten`
is too weak by itself: a goroutine at its first statement, or a worker that has
written its outcome, is "starting" or "working" and will not write the row again.
`BuildingIsCarried` names the places at which somebody still will, and `DownIsEmpty`
(a server that is down has an empty queue) covers the start of the next server.
`OutcomesHold` rests on `Lone`, `Fresh` and `Settled`: a build that two requests never
started together is at one place at most, a build that waits is at most about to be
claimed, and once an outcome is written only the worker that wrote it is still there.
`PoolHolds` is a pigeonhole argument: who hangs is in a container, containers are owned by
one worker each, so that a build that is queued again while it hangs does not take a
second worker, and at most as many workers hang as there are builds that may.

In `EnvdProofs` the invariant `IInv` ties each place of the handler to the process, the
goroutines and the caller (`HandlerInv`, `CallerInv`), and counts chunks (`ChunkInv`):
what the caller got, what a goroutine holds and what is in the pipe is never more than
what was written, and is all of it for a caller who stays while the pipes are not
closed under their readers. Not even `TypeOK` is inductive without that count.
`WaitsEnd` adds that a handler past `CloseDone` has closed the channel (`DoneIsClosed`);
`ExitWindsDown` orders the places of handler and goroutines and the chunks left to forward.

In `SandboxApiProofs`, `RecordsLiveOnce` needs that a sandbox which
never started, and whose identifier was used, belongs to a creation about to start it
(`UnbornIsCreated`). `Traceable` needs to know what each handler is about to do
(`TraceInv`): a sandbox that lives, or whose start is the next statement, has a row or is
noted as a failed stop (`LivingIsNamed`, `StartIsNamed`); a container belongs to a sandbox
that lives, or whose creation went unheard, or that a restart made the scheduler forget and
that still has a row or a failed stop (`RunningIsKnown`); and a row about to be deleted has
nothing behind it, but for a failed stop or an unheard creation (`ForgottenIsGone`). For
`PausedIsFrozen` (`FrozenInv`), a sandbox that is not disturbed has one request at a time,
each of its places says what the row and the container can be, and a creation that is
still on its way to a node finds no row, or one that its handler is about to remove
(`LateStartsAreOver`).

In `NodeAgentProofs` the invariants belong to one runtime each, on calls that keep their
places whatever the runtime is (`CallInv`). Docker's ports (`PortInv`): every number was
drawn once and is in the table or the pool, at one place; what holds the port of an entry
is its sandbox, and, as long as nothing was lost, is in the table with it. Firecracker's
disks (`DiskInv`): what is up, or is about to boot, has a sound disk or one that its own
failed umount emptied (`stuck`), and a base image that
is partly written has its writer. `/etc/hosts` (`HostsInv`): a stop has taken its entry
before it rewrites the file, and holds the other names while the file is empty.

What the agent knows of its guests needs one invariant for all three runtimes, `GuestInv`, of each sandbox
by itself: what is up has an entry and a creator who was told or has left, or a call that is about to
bring the one or the other, or to shut it down (`Seen`, `Listed`, `Unlisted`); a sandbox
that was not disturbed is changed by one call (`ChangedAlone`), and when its entry and its
guest disagree that call is between the two and knows where they stand (`Agrees`). The
lemma `GuestStep` says what of a runtime's step matters for it (`Bystander`, `Listing`,
`Seeing`, `Agreeing`), so that each runtime is a few lemmas that establish those. That no
machine is up while its disk is removed comes from `DiskInv`.

The SDK runtime's lock (`LockInv`): a call has a part in it only at the places that take
it, one writer at most is announced, and nobody waits behind a writer who is not there.
So somebody can go on (`LockIsNoTrap`) unless a reader waits for a writer while he is a
reader himself, and once one does, nothing but the end of the agent undoes it
(`StuckForGood`).

In `DataStoreProofs` what the operations of the three databases do to the tables is stated
once each (`SandboxCreated` to `SpawnWritten`), as one of a few edits of one or two tables, and
`Taking` says what a request over the network leaves of it. `Held(id)` is the invariant of one
identifier: what the client was told of it, where the requests on it are, which rows it has
(a creation is one request's alone and unanswered while it lasts; whatever has a row was
answered or is being made). A step touches one identifier, and `OthersHeld` carries the
others over. `SpawnsCounted` is not inductive, as a sandbox is born before it is counted:
`CountInv` counts the sandboxes that are past the counting (`Settled`), says what a request on
Supabase has read is that number, and that nobody makes sandboxes of a template without a
history (`Seen`), so that a new one starts from none. `RowsHold` takes from `StoreInv` that
a creation is one request's alone, adds that whatever has a row was born
(`RowsAreBorn`), and that no update of the three stores inserts (`RowMoves`).

Only model-checked: the properties of the runs that expect a violation, and the six
liveness properties, since fairness and ENABLED are out of the prover's reach. What
each of these rests on besides fairness is proved, for all constants: that nobody is
trapped, and that every step on the way leads on.

| Liveness, TLC | Its safety core, TLAPS |
|---|---|
| `LockIsReleased` | `CallsGoOn`: the call that has the lock passes three steps and frees it |
| `ExpiredIsRetired` | `CheckerHolds`, `DeadlinesStand`: what the checker takes is due and stays due; that it is taken in the end needs the ticker and the node |
| `BuildsEnd` | `PoolHolds`: a worker is left; `BuildsGoForward`: nobody turns back |
| `FollowersAreTold`, `AbandonedIsCleared` | `WaitsEnd`: who waits, waits for a handler that can go on; `ExitWindsDown`: every step after the exit leads towards the end |
| `CallsReturn` | `LockIsNoTrap`: somebody can go on; `StuckForGood`: the one exception lasts |

## 5. Where the code and the documents disagree

1. `ResumedHasTimeLeft`: a resume after the first deadline does not move it, and
   the timeout the caller gives goes to the row only.
2. `PausedCanBeResumed`: the checker's pause does not reach the row by which the
   resume handler decides.
3. `ServerComesBack`: main builds the base template at every start and exits when the
   service refuses, as it does of every build that has ended: a server with a
   persistent database cannot be started again.

4. `EdgeRoutesCorrectly`: the SDK runtime terminates a sandbox's container and keeps its
   entry, so that its old host port, once Docker has given it to another container,
   leads requests for the one to the other.

Other behaviour met while modelling, which a property exempts or which contradicts no
document:

- A lost answer of a creation leaves a container that neither the scheduler nor the
  database knows, since the handler removes the row; a lost answer of a resume leaves a
  paused row over a running container (`Traceable`, `PausedIsFrozen` exempt them).
- The SDK runtime, the default of a local server, answers pauses and resumes without
  doing anything: sandboxes run on under a record and a row that say paused.
- A template's CPUs and memory are not validated: negative ones overbook a node
  (`CapacityRespected` bounds by how much).
- A build may be started under another template's path: its image then bears that
  template's name, that template is started from it, and the build's own template has none.
  If that other template is deleted meanwhile, the build stays building for good.
- A Firecracker disk whose umount fails is emptied and booted.
- Firecracker's StopSandbox answers success when StopVMM has failed
  (runtime_firecracker.go:353-355): the VM has ended with its creation's request by then.
- A lost answer of a stop or pause leaves an expired sandbox in the scheduler's map for
  good: neither command can be repeated once it took effect, and the checker ignores
  errors (`ExpiredIsRetired` exempts it).
- Two resumes and a pause that overlap leave a running sandbox listed as paused
  (`PausedIsFrozen` exempts requests that overlapped).
- After a restart of the agent the Docker runtime draws ports from the first one while
  old containers hold them, and puts a taken port back to be drawn next: creations
  fail until those containers are gone (`PortsComeFree` exempts it).
- The edge controller writes the port after an address that already has one for the
  Docker command and for Firecracker (edge_controller.go:86): it reaches neither.
- Every Firecracker VM is killed when the request that created it ends: its command is
  built with the request's context (runtime_firecracker.go:182; the comment three lines
  below says the opposite). Its entry goes on saying that it runs.
- The status of the SDK runtime can block the whole runtime (nested read lock), its exec
  waits on a nil channel, and the Docker command's exec may panic and end the agent.
- A failed snapshot leaves a paused VM under a running entry; two calls that write
  `/etc/hosts` lose lines; a template whose files could not be extracted leaves an
  unfinished image, from which its sandboxes are then made.
- On Supabase two creations at once count one spawn, a template without a build stays
  when the second request fails, and a server whose database does not answer
  when it starts goes on in memory, empty.

## 6. Not modelled

- Reads that change nothing (listings of logs and metrics, the host-name proxy).
- Nodes, teams and API keys in the databases: no code of the server writes them;
  `CreateBuild` and `CreateNewBuild`: no code calls them.
- `PullArtifact`, the heartbeat and the network of the node agent; exec over Firecracker,
  which talks to envd and keeps nothing.
- Generated protocol code, authentication (the wired middleware admits everything),
  migrations, the legacy agent (a backup file).
- envd's file service and HTTP handlers: one system call per request and no state between
  requests; input to processes, which the service passes on.
- Uploads and exported artifacts of builds, but for the image that sandboxes start from.

## 7. Plan

Done: `Scheduler`, `Placement`, their proofs and refinement; `SandboxApi`; `BuildService`
and `EnvdProcess` with proofs; `NodeAgent` with the three runtimes and the edge
controller, its safety properties proved; `DataStore` with the three databases, its
invariants proved; the proofs of `SandboxApi`; `Lifecycle` and the proofs that all four
layers implement it; the safety cores of the liveness properties. Next, in this order:

1. That the three databases answer the handlers alike: the same tables and answers from
   each operation, but for the cases that section 2.7 names.
2. The composition of `SandboxApi` with `DataStore`, so that rows and containers are seen
   in one model over a database whose requests fail; `RecordsLiveOnce` and `RowsLiveOnce`
   are its interface.
3. Pure algorithms of envd's file system (resolution of paths, bounded listing),
   against a reference definition.
