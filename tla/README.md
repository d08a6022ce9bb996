# docktree, specified

TLA+ models of docktree (a Go command line tool that runs one Docker Compose
stack per git worktree), TLC runs over small instances of them, and TLAPS
proofs of what matters most for every instance. Paths below are relative to
the repository.

## The system

Every docktree command is a short-lived process. Nothing but files, flocks and
Docker connects two of them, so the hard behaviour is what several commands
do to each other's files and containers, what a killed command leaves behind,
and what a command reads before somebody else changes it.

| Part | Source | State it keeps | Operations | What makes it correct |
| --- | --- | --- | --- | --- |
| registry | `internal/registry` | `~/.config/docktree/registry.json`, one flock file per app | `EnsureApp`, `EnsureSharedPorts` | one number for one service, for ever; bands do not overlap; nobody waits for ever |
| ports | `internal/ports`, `cmd/resolve.go` | none (probes the host) | `Resolve`, `ResolveAfterBindFailure` | the nearest free port of the band; fixed ports stay; exhaustion is real; one retry |
| stateful data | `cmd/fork.go`, `cmd/unfork.go`, `internal/stateful`, `internal/dbmode` | Docker volumes with labels, Postgres databases | `fork`, `unfork`, automatic forks of `up` | a copy is lost only by `unfork`; a stack runs on the copies that exist |
| orchestration | `cmd/orchestrate.go`, `cmd/up.go`, `cmd/down.go`, `cmd/shared.go`, `cmd/init.go`, `cmd/readiness.go` | `.env.worktree`, `.docktree/*.yml`, the app's `up` flock | `up`, `down`, `shared up/down/status/nuke`, `init` | artifacts agree with Docker when compose reads them; the lock is given back |
| prune | `cmd/prune.go`, `internal/dockerstate` | none (snapshots of git and Docker) | `prune` | never takes what a live worktree uses |
| proxy | `cmd/proxy.go` | the proxy's compose file and networks, a global flock | `proxy up/down`, `up` | the proxy is attached to every app's network |
| compose projections | `internal/compose` | none (pure) | `RenderInfra`, `RenderWorktree`, `Validate` | a name resolves to one container; local and infra services do not mix |
| identity, config, env files, runner | `internal/identity`, `internal/config`, `internal/envfile`, `internal/runner`, `internal/paths`, `internal/gitignore` | none / one file | formatting, parsing, I/O | slugs are distinct; files replaced atomically |
| reports | `cmd/doctor.go`, `cmd/explain.go`, `cmd/inspect.go`, ... | none | read-only | say what is so |

How they interact: `up`, `fork`, `unfork` and `shared up` take the app's `up`
flock (`withAppCriticalSection`), resolve ports (which takes the registry's
flock for the same app, inside), ask Docker which copies exist, write the
artifacts and run docker compose on them. `down`, `init`, `shared status`,
`shared down` and `prune` take no lock. The proxy converges under a global flock inside `up`.

The hazards this code is exposed to are listed, each at its line, in
`PROJECT.json`; the properties below are aimed at them.

## The models

### Registry (`Reservations.tla`, `Registry.tla`)

`Reservations` is the promise: a book of reservations that grows by one app's
entries at a time, indivisibly, and stays unique; answers are entries of the
book. `Registry` is the program: a call takes the flock `LockPath` names for
its app, loads the whole file, walks the sorted seed, saves by rename if
anything changed, and answers. One action per step that another process can
see or come between:

| Action | Code |
| --- | --- |
| `Begin`, `Flock` | a caller in `cmd/resolve.go`; `withAppLock` |
| `Load` | `load`, `normalizeApp`, the new app entry |
| `ReserveBand`, `ReserveSharedPort`, `KeepReservation` | one turn of the loop over the seed |
| `Computed`, `Save`, `Return` | `if changed`, `save`, the deferred unlock |
| `NoSharedPort`, `IOError` | the early returns, which unlock as well |
| `Crash` | the process is killed; the kernel drops the flock |

The JSON maps are a set of `[app, kind, name, port]` records. `LockOf` is the
lock file per app, so one module covers the code (a file per app) and the case
where the critical section is what the file needs (all apps one file; in the
code, two app names `LockPath` maps to the same characters). A probe may find any set of
ports bindable, each time. `granted` is a history of all answers.

### Port scan (`PortScan.tla`)

One service of one linked worktree in one `up`: `Resolve` walks the band from
the slug's offset, or a persisted port is taken over unprobed; compose binds;
a failed bind leads to one `ResolveAfterBindFailure`. The message of the
failed bind names the service's port, or no port at all; a message that names only another service's
port is `UpPorts`' matter. `HostChanges` takes and
releases any port of `Host` between any two probes and between probe and bind:
it is the environment, not code. The slug's hash is any offset.

### Stateful data (`Forks.tla`)

The commands of one linked worktree, several at once: `up`, `fork`, `unfork`,
`shared up` (locked); `down`, `init`, `shared status`, `shared down`
(unlocked). Docker is `copy` (each service's own database or volume: none,
partial, complete, or overlaid by a later snapshot), `infra`, `running` and `attached` (the services whose own copy
containers use). The artifacts are `env` and `yml`, the modes
`.env.worktree` and `compose.worktree.yml` were written with, two separate
writes. A command carries its modes in `job`; its program counter names the
point it has reached. Each action is one Docker call or one file write, with
its error path: `Probe` refuses an existing destination,
`ProbeUnanswered` is the `docker volume inspect` that fails for another reason, which
`forkGenericVolume` takes for a volume that is not there: `Create` is then content with
the volume, `Overlay` and `Load` write the snapshot over it, and `Undo` removes it if docker lets it
(`Removable`). `AskModes` is `up`'s lenient query, which may fail for any of the databases. `missed` is a
history: the existing copies that docker did not answer for. `CloneFast` is
`CREATE DATABASE ... TEMPLATE`, `DropFirst`, `Create`, `Load` the slow clone
(or the volume and its snapshot), `Undo` and `UndoFails` the cleanup, `Confirm`
`CheckDestroy`, `Down` compose down, `Drop` the removal, `ComposeUp` the start
on what the files say then, `BindFails` the one retry of `up` after a port could not be bound, which
writes the artifacts again. A compose down or up that fails may have
done part of its work (`DownFails`, `ComposeUpFails`). What is under `Pg` exists only while infra runs;
what is under `Vol` is known by its labels.

Abstractions: the port resolution inside these commands is the other two
modules; the network and the proxy steps change nothing here; the main
worktree, which is never forked, is not modelled; `shared nuke` is not
modelled; a wrong `--confirm` is the early return of `Confirm`'s failure; the sorted order of the
automatic forks is any order; a Docker call that a killed command started ends with the command.

### Prune (`Prune.tla`)

One `prune` of a main or linked worktree, which takes no lock, beside the
other commands of the app. The host is `live` (git's worktrees), `stack` (each
worktree's containers: none, stopped, running), `forks` and `uses` (fork
volumes, those in use) and `infra`. `ReadLive`, `ReadStacks` and
`ReadContainers` are `git worktree list`, `docker compose ls` and `docker ps`,
at three moments; `Present`, `Running` and `Managed` merge the last two as
`dockerstate.Merge` and `filterRuntimeStacks` do. `foreign` are the projects whose name begins with the app's
although they are not docktree's: `compose ls` lists them, `docker ps`, filtered by the app's label,
does not, so they are never candidates and always remain. `Other` starts one. `Candidate`, `Eligible` and `Remains` are
`isPruneCandidate`, `isPruneEligibleVolumeSlug` and
`remainingWorktreeStackPresent`; they read only the listings, so `ReadContainers` makes the
plan. `RemoveStack` is compose down on whatever the stack is by
then, `RemoveVolume` the removal that docker refuses while the volume is in use,
`StopInfra` the infra's compose down; `Unconfirmed` and `Fail` end prune half-way.
Beside it worktrees are added and removed, stacks stop and are taken down, and one locked command
at a time starts the infra (`UpInfra`) or makes a fork volume (`ForkVolume`) and
much later its stack (`ComposeUp`). `steady` and `steadyUp` are histories; `moves` counts
what has happened beside prune and is bounded by `MaxMoves`.

Abstractions: everything is known by its slug, and one worktree's fork volumes are
one; stacks and volumes are removed in any order; a stack
that is paused or restarting is stopped; the artifacts that prune rewrites before
it stops the infra are those of `sharedDown` in `Forks`; an app without shared
services is one whose infra is never there. A worktree is not removed under a locked command
that runs in it. The world moves only while prune runs: what came before is in `Init`.

### Ports of a stack (`UpPorts.tla`)

What `PortScan` does for one service, for a whole stack and over several ups
of several worktrees. `ResolveInput` is one turn of `resolvePortInputs`: a
default of the main worktree, the port of the last up, or one of the band.
`WriteEnv` writes `.env.worktree`, `Converge` binds one container after the
other to what the *file* says, `BindFails` leaves an error `Message` that names the
port, another number, or nothing, and `Retry` is
`retryWorktreeComposeAfterBindFailure`: `Moved` are the services it takes for
the failed ones, `Immovable` those that make it give up. `Down` and
`HostChanges` may come at any moment, `Fail` is every other error and a kill.
A scan is one step here, since `PortScan` has its probes; ups of one app are
serial (the up lock). `settled`, `stuck` and `quiet` are histories.

### Who reaches whom (`Topology.tla`)

`render.go` splits an app into the shared infra and one stack per worktree.
A shared service that the worktree has not forked is *uplinked*: an ambassador
in the worktree's stack carries its name and forwards its ports. Uplinked
services share one ambassador until two of them listen on one port:
`JoinPrimary` and `Dedicate` are the two branches of `renderUplinkServices`,
service by service in sorted order. `Projection` is what the compose file then
says, with the `depends_on` edges rewritten (`DependsOn`). `up`, `fork` and
`unfork` render and converge (`StartCompose`, `Converge`, as
`docker compose up --remove-orphans` does it); `up` renders a second time if it has
forked something of itself. Compose starts a container when all it depends on
have been converged in this up and what it requires is healthy (`Ready`); that an
older container still has the name of a dependency is not enough. `Down`, `InfraStops`, `Fail` come at any moment.

Abstractions: a container is its name, its aliases, its forwards and its
dependencies; volumes, labels, environment and profiles are left out; a
logical Postgres fork stays uplinked (it is another database of the same
server) and is a shared service here; the app's ambassador image and its
healthcheck are one predicate, `Healthy`.

### Proxy (`Proxy.tla`)

All apps of a machine share one Caddy, and nothing but the flock
`LockPath("proxy")` orders their commands. `Up` is the part of `runUp` from
port resolution (registry flock) to compose; `Section` is
`withProxyCriticalSection`: `EnsureProxyNetwork`, one network after the
other, `WriteProxyCompose` (discovery by label, which may fail and then leaves
the known networks), `Converge` or `ConvergeFails` when the HTTP port is taken.
`Cli` is `docktree proxy up`. Beside these: `ProxyDown` (no lock),
`PruneNetwork` (the user's `docker network prune`), `Stop`, `Recreate` (the commands that start
containers without a look at the proxy), `TakePort`, `Fail`. `Routes`, `External` and
`AppProxyNetworks` are the two classifiers of HTTP services, one over the
compose model and one over `docktree.toml`; `ProxyHost` builds host names as
sequences of the words between dashes. An app is its name and a worktree its app and
slug (`LabelAssumption`): `DNSLabel` is one to one on slugs, so that distinct ones have distinct labels;
nothing is assumed of the names of services.

Abstractions: all apps considered have the proxy enabled; the app's up lock
is the guard `Unlocked`; the Caddyfile is the set of routed services; `gone`,
`routed` and `full` are histories.

## The runs

All bounds are constants of the cfgs.

| Run | Question | Instance and why it is enough |
| --- | --- | --- |
| `registry_perapp` | does `registry.json` stay unique and its bands disjoint although updates are lost? | two apps, two lock files, two processes with two calls each, two services; two read-modify-writes can overlap in every way, each name may already be there or new. Processes are symmetric. |
| `registry_onelock` | is the file-level lock all that is missing? | as above with one lock; refinement of `Reservations`, stability and uniqueness of all answers, and liveness |
| `registry_collide` | expected violation | as `registry_perapp` |
| `portscan` | scan, bind and retry | a band of five ports between two foreign ones: the wrap occurs at either end, on the first scan and on the retry, and persisted ports lie inside and outside the band |
| `forks_any` | can a finished copy be lost, or removed under its stack? | one Postgres and one volume service, all eight commands, two processes, three commands each, kills, failing cleanups and unanswered inspections: a crash, a recovery and a third command fit |
| `forks_volumes` | do stacks start on the copies that exist, whole ones; do waiters end? | two volume services, one isolated by default, `up`, `fork`, `unfork`, `down`, clean failures, inspections and queries that docker does not answer |
| `forks_default` | the same with Postgres and crashes, where the configuration isolates | one of each, `up`, `down`, `shared up` |
| `forks_second` | expected violation | two commands |
| `prune` | can three listings of three moments make prune take what has been there all along, and does a prune by itself remove exactly what is orphaned? | the main worktree, the one prune runs in and a third, there or gone, from every state of their stacks, docktree's or somebody else's, volumes and infra, with all flags; up to three events beside prune, one per listing |
| `topology` | does every name resolve once, to the right container, after any history? | four apps of a web service and three shared ones (one ambassador for all; a chain of port collisions; one isolated by default; one that cannot be forwarded), two worktrees, three commands, any of which may fail or be killed: fork, failure and recovery fit. Every shared service may be forked, so what others require moves into the stack and out of it |
| `proxy` | does the one proxy reach every app's stacks, and does nobody wait for ever? | two apps, one of them called `proxy` (so that two locks are one file), three worktrees and `proxy up`, three commands and two events |
| `upports` | do ports stay, and does a retry move what it should? | three apps, two worktrees, bands of two ports and one port outside them, three ups and two events: an up, a disturbed up, and one more |

In the registry runs `BandStart`, `BandWidth` and `MaxPort` are 20, 2 and 9
in place of 20000, 1000 and 65535, `BandLimit = 5` is more bands than four seeds can use, and the
canonical ports 5 and 7 collide after one shift, so that the search shifts, collides and runs
out. `MaxCalls` and `MaxCommands` bound what one process does (in `Topology` and `Proxy`, all
commands together), `MaxUps` the ups, `MaxMoves` and `MaxEvents` what happens beside them.
Deadlock is not checked: a system whose processes have
made all their calls has stopped rightly; that nobody waits for ever is
`CallsEnd`, `UpEnds` and `CommandsEnd`. A prune that has ended stops too.

### Properties

Registry: `FileUnique`, `BandRangesDisjoint`, `GrantsKept`, `GrantsUnique`,
`RefinesReservations`, `CallsEnd`. PortScan: `NearestFirst`,
`ExhaustionIsReal`, `FixedNeverMoves`, `UpEnds`. Forks: `CopiesSurvive`,
`StoppedBeforeDrop`, `StartsOnCopies`, `AttachedWhole`, `IsolationKept`,
`CommandsEnd`. Prune: `StandingKept`, `InfraServes`, `Cleaned`,
`OnlyOrphansRemoved`, `InfraUnused`. UpPorts: `EnvTells`, `Stable`, `PinnedStay`,
`FailureProgress`. Topology: `ResolvesOnce`, `ReachesOwn`, `NamesApart`,
`DependenciesServed`. Proxy: `Attached`, `NetworksReady`, `RoutesApart`, `CommandsEnd`. Each module has one `TypeOK`. Definitions named `Fault...` are
plausible bugs, used to show that each property can fail; the specifications do not use them.

### Fairness

Weak fairness of each process's steps (of `Up` as a whole in PortScan):
the kernel schedules a runnable process, Docker calls return, and the wait for
the shared services gives up after two minutes. Weak fairness of a process
waiting for a flock is enough because the bounds let each process make only
finitely many calls, as a command does. In `Proxy` the fairness is of each
command's steps, refusals by compose included. Nothing is assumed of `Begin`,
`Crash`, `IOError`, `Fail` or the host's port changes.

### What the expected violations show

* `registry_collide`: two apps load the same file under different flocks and
  both are answered the same band. The lost update also makes the file forget what
  another app's call has answered (`GrantsKept`, which therefore is only claimed of one lock).
* `forks_second`: `fork` asks only for the forked volumes; forking a second
  service writes the Postgres service back as shared and recreates the stack on the shared database.

### What the properties except

The properties of the passing runs are stated with the conditions under which
the code keeps them. What lies outside those conditions, met while modelling:

* `fork` of a volume asks whether the destination is there and takes any failure of
  `docker volume inspect` for a no (`cmd/fork.go:130`). When the volume is there and docker failed for another
  reason, the snapshot is written over a finished copy, and the copy is removed when the snapshot
  fails and no container uses it, although the next line refuses "to overwrite it".
  `CopiesSurvive` excepts such a fork (`Overwrites`) and nothing else: `up`'s automatic forks are of volumes
  that a listing which must succeed has found missing, and never do it. A copy once finished counts as
  whole in `AttachedWhole`, overlaid or not.
* `up` goes on without the databases docker does not answer for
  (`cmd/orchestrate.go:202`): `StartsOnCopies` says that these are all that is missing.
* Somebody else's project of the app's prefix, stopped or not, is never removed and keeps the infra:
  `Cleaned` promises no more.
* `shared status` rewrites the artifacts, all shared, without the lock, and may do so between
  another command's write and its compose up: `IsolationKept` is for that reason
  no property of `forks_any`.
* An `up` that starts the infra after prune has listed the stacks may have it stopped under
  its own stack, although it holds the app's lock. Nor is a worktree protected that is added
  after git was asked, under a slug whose stack or volume is still there:
  `OnlyOrphansRemoved` is claimed of a prune that nothing happens beside, `StandingKept` of every prune.
  `InfraServes` is about stacks that have been running since prune began, `InfraUnused` about a prune by itself.
* `RoutesApart` excepts services whose labels are equal or continue one another at a dash:
  `web-admin` of the main worktree and `web` of a worktree `admin` have one host
  (`internal/compose/render.go:741`), while
  `docs/plans/2026-06-09-hostname-proxy-design.md:126` counts on "each worktree's unique host".
* `Stable`, `EnvTells` and the other properties of `UpPorts` are about services that publish one port
  (`Single`). A service with two port tokens keeps the port of the last one under
  the variable of the first, so in a linked worktree it moves at every up. Two services that publish
  one variable have one port, which only one of them can bind.
* `FailureProgress` excepts apps in which the default of one service lies in another's band
  or is another's default (`DefaultsApart`): the scan and the retry ask only the host for a
  free port (`cmd/up.go:134`), and may take one that a service of the same stack is about to bind.
* `Attached` excepts a proxy whose discovery failed, and stacks that `shared up`,
  `fork` or `unfork` started: these commands leave the proxy alone.
* `ResolvesOnce` and `ReachesOwn` are about stacks brought up whole: `up web`
  after a half-done fork may leave an old ambassador beside the copy.

## The proofs

One module of proofs per model. They hold for every value of the constants
that the named assumptions (`...Assumption`, ranges and what the code says of its
inputs) allow.

* Registry: `TypeCorrect`; `FileStaysUnique` and `BandsStayDisjoint` for any locks. `FileUnique` is not
  inductive: a save replaces the file by a process's copy, so `UniqueInv` says
  every copy is unique too, and `AlignedInv` says the same of whole bands, the
  bases in the seeds included. Under `OneLock` (`OneLockKeepsGrants`,
  `OneLockGrantsUnique`, `OneLockRefines`) `SerialInv` adds that who is in the critical section holds
  the lock and that its copy extends the file by entries of its own app: then
  a save is a `Reserve` and a return an `Answer` of the book.
* PortScan: `ScanInv` says that the refused ports are exactly those the loop
  counter has passed; arithmetic on the wrap gives `TypeCorrect`, `NearestFirstAlways`,
  `ExhaustionAlwaysReal` and `FixedAlwaysStays`.
* Forks: `LockInv` (a locked command past the flock holds it, so nobody else forks, drops or
  changes a copy) and `CopyInv` (what a command believes
  isolated exists, a copy being made is not in use, a stack uses only copies
  that exist) give `CopiesAlwaysSurvive` and `AlwaysStoppedBeforeDrop`, for any
  services, faults and number of processes. `CopyInv` needs the environment file to name only
  existing copies once a locked command has written it (`Written`): this holds
  although unlocked commands overwrite it, because they write no isolated mode. A fork that was not
  answered (`Mistaken`) works on a copy that is there; `CopyInv` says that only `fork` can be such a one, since every
  volume that exists is among the modes `Derive` has read or is the one copy just being made (`Pending`).
  Two properties need hypotheses. `AttachedAlwaysWhole`: no command is killed and no
  cleanup fails (`Faults = {}`), and with a database among the services no `shared down` runs, which would
  stop the infra under the cleanup; `InMaking` says that a partial copy then always
  has a command at work on it, one that does not take it for absent, and that mistaken forks work on finished copies. `AlwaysStartsOnCopies`: the writers of the artifacts
  all hold the flock (`Locked`, beside `down`), for what `shared status` writes between another's
  write and its start is not what exists; and no volume is forked or unforked beside a database, which
  is how `forks_second` fails. `Knows` carries it from docker's answer (and what it did not answer) to the modes, from
  there to the files, and to the start that reads them. Both sets of hypotheses are those of the runs
  that check the properties, kills included in the second.
* Prune: `SteadyInv` says that what git listed covers every worktree that has
  been there since prune began, that each listing saw a stack running that has been
  running since, and hence that no plan names either: `StandingAlwaysKept` and
  `InfraAlwaysServes`, for any worktrees and any events. `AloneInv` is about a prune with nothing
  beside it (`moves = 0`): the listings (`Told`) are then what is there less what
  prune itself has removed, so each orphan of docktree's is in a plan or gone (`Owes`), and the infra
  is stopped only when nothing of the app's prefix is left (`Unneeded`). From it `AlwaysCleaned`,
  `OnlyOrphansAlwaysRemoved` and `InfraAlwaysUnused`.
* UpPorts: `TypeCorrect`, `EnvAlwaysTells`, `PinnedAlwaysStay`, `AlwaysStable` and
  `FailureAlwaysProgress`. `PortInv` says, point by point of an up, that the ports
  chosen so far are of their inputs (`Chosen`), that what is kept is what the file named (`Seen`,
  `EnvMine`), that the file has them from its writing on (`Written`) and the
  containers bind them (`Started`, `BoundMine`), through the one retry (`OneRetry`) and
  after it (`Settled`). Progress is a statement on two moments: `Progress` compares the ports held
  by others before the first bind (`stuck`) with those of the retry: with nothing beside the up
  the services that cannot bind stay the same, one of them is blamed (`Moved`), and the retry
  gives it a free port of its band (`BlamedMoves`) that no other service of the stack is to have (`MineApart`). That last step is where `DefaultsApart` is needed.
* Topology: `TypeCorrect`, `AlwaysResolvesOnce`, `AlwaysReachesOwn`,
  `AlwaysNamesApart` and `DependenciesAlwaysServed`, for any app, any worktrees and any
  history of commands. `Splits` is the loop invariant of `renderUplinkServices`: what the
  shared ambassador claims is disjoint, and every service seen is with it or
  has its own. Hence a finished projection gives each name one carrier and the
  right forwards (`Renders`). A fork writes first and renders later, a failure leaves any
  mixture of old and new containers; so `OnDisk` speaks of the file alone, `Owned` of the names of
  any container whoever left it, `Converging` of a compose up in progress, what it has to start and what it
  has started, and only `WholeStack` equates containers and file.
* Proxy: `TypeCorrect`, `AlwaysAttached` and `NetworksAlwaysReady`, for any apps, files, lock files and
  events. `Attached` is not inductive: between a discovery and the start of the stack
  other ups make networks, docker prunes some, and the proxy may come down and up again.
  `IInv` adds that the section has one command in it (`Holding`) and an app
  one up (`OneUp`); that discovery misses the base network alone (`Labels`), which
  every file names (`BaseKnown`), so that a file written after a working discovery
  has all networks there are (`Complete`); that networks in use stay (`InUse`); that
  an up's own networks are made before it leaves the section (`ToEnsure`, `Made`) and
  are the proxy's until the stack starts (`Promised`). An app named docktree needs no
  exception: its main project's network is then the base network, which has no label but is always named.
  `RoutesAlwaysApart` is a theorem about names: a host fixes its app; two stacks of it that
  route one service have different slugs, or none, and then are the infra and the main worktree, which
  share no service (`SuffixApart`); of two services with one host, one's label begins the other's.

TLC checked each inductive invariant before it was proved. Every invariant and
every action property of the runs that pass is stated by a theorem. Only
model-checked: liveness (`CallsEnd`, `UpEnds` and both `CommandsEnd`; fairness
and ENABLED are beyond the prover), and the two expected violations, which
are counterexamples.

Two of the proofs changed their models. `DependenciesServed` could not be proved
of a `Ready` that took an old container of a dependency's name for
the dependency; TLC found the same once every shared service could be forked. And
`FailureProgress` was too strong until services with a common variable and defaults
inside a foreign band were excepted.

## Not modelled, and the plan

1. `DockerState`: how `ls` and `doctor` match containers with the services of
   the model. Read-only, hence last.
2. The ports that `shared status` and `init` write without the lock beside a bind
   retry: `UpPorts` with `Forks`' unlocked writers.

Not modelled inside the parts that are: a docker command that outlives the
docktree that was killed; `shared nuke`; two clones of a repository under one app name;
slugs that fold to the same characters, or to `infra`; a network of the proxy's that exists
without its label before docktree comes (the model's host starts without networks); the readiness poll (its end and its failure
are steps); a dump that psql loads in part; ports that a shared service takes
inside another's band; the unlocked writers of `.env.worktree` beside a bind retry (the modes
are in `Forks`, the ports are not); a volume whose mount is named otherwise than
`snapshot_source`. Where the code is exposed to one of these, `PROJECT.json` lists the hazard.

Left aside: parsing, formatting, hashing, secrets, usage text and read-only
reports, which have no state a model checker could reach.
