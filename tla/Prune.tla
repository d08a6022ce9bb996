---------------------------------- MODULE Prune ----------------------------------
(***************************************************************************)
(* src/cmd/prune.go: one `docktree prune` beside the other commands of the *)
(* app.  Prune takes no lock.  It asks git for the worktrees, docker       *)
(* compose for the stacks, docker for the containers, one after the other, *)
(* decides on what it was told, and removes: the stopped stacks of         *)
(* worktrees that are gone, their fork volumes, and the shared infra when  *)
(* no stack remains.  Meanwhile worktrees come and go, stacks start and    *)
(* stop and forks are made.                                                *)
(*                                                                         *)
(* A stack, a fork volume and a worktree are known by their slug; the fork *)
(* volumes of one worktree are one.  A compose project whose name begins   *)
(* with the app's need not be docktree's: somebody may have named one so,  *)
(* or it is of another app whose name begins with this one's.              *)
(***************************************************************************)
EXTENDS Naturals, FiniteSets

CONSTANTS
  Slugs,   \* the slugs of worktrees that are there, were or may be
  Main,    \* the main worktree's
  Self,    \* the one of the worktree prune is run in
  NoSlug,
  Events,  \* what may happen beside prune
  MaxMoves \* bound: how often something does

AllEvents == {"add", "remove", "up", "fork", "stop", "down", "other"}

ASSUME SlugAssumption == Main \in Slugs /\ Self \in Slugs /\ NoSlug \notin Slugs
ASSUME EventAssumption == Events \subseteq AllEvents
ASSUME MovesAssumption == MaxMoves \in Nat

VARIABLES
  live,      \* the worktrees git lists
  stack,     \* the containers of each project <app>-<slug>: none, stopped or running
  foreign,   \* the projects whose containers are not docktree's
  forks,     \* the worktrees that have a fork volume
  uses,      \* those whose containers use it
  infra,     \* whether the shared infra has containers
  cmd,       \* the locked command that runs beside prune: its worktree, its step
  phase,     \* where prune is
  opts,      \* its flags
  seen,      \* the worktrees git listed
  ls,        \* the stacks docker compose ls listed
  running,   \* the stacks that were found running
  todo,      \* the stacks, then the volumes, still to remove
  stopInfra, \* whether the infra is to be stopped
  steady,    \* history: the worktrees that have been there since prune began
  steadyUp,  \* history: the stacks that have been running since then
  moves      \* history: how often something has happened beside prune

host == <<live, stack, foreign, forks, uses, infra>>
prune == <<phase, opts, seen, ls, running, todo, stopInfra>>
history == <<steady, steadyUp>>
vars == <<host, cmd, prune, history, moves>>

Kept == {Main, Self}
States == {"none", "stopped", "running"}
Options == [execute : BOOLEAN, includeForks : BOOLEAN, confirmed : BOOLEAN]
Phases ==
  {"idle", "git", "ls", "ps", "stacks", "volumes", "rm", "infra", "done", "failed"}
Listing == [stacks : [Slugs -> States], infra : BOOLEAN]
NoListing == [stacks |-> [s \in Slugs |-> "none"], infra |-> FALSE]
NoCmd == [slug |-> NoSlug, step |-> "none"]

(* Docktree's containers only use a fork volume that exists, and           *)
(* prune's plans stay within the known slugs.                              *)
TypeOK ==
  /\ live \in SUBSET Slugs
  /\ stack \in [Slugs -> States]
  /\ foreign \in SUBSET {s \in Slugs : stack[s] # "none"}
  /\ forks \in SUBSET Slugs
  /\ uses \in SUBSET {s \in forks \ foreign : stack[s] # "none"}
  /\ infra \in BOOLEAN
  /\ cmd \in [slug : Slugs, step : {"up", "fork"}] \cup {NoCmd}
  /\ phase \in Phases
  /\ opts \in Options
  /\ seen \in SUBSET Slugs
  /\ ls \in Listing
  /\ running \in SUBSET Slugs
  /\ todo \in SUBSET Slugs
  /\ stopInfra \in BOOLEAN
  /\ steady \in SUBSET Slugs
  /\ steadyUp \in SUBSET Slugs
  /\ moves \in Nat

Init ==
  /\ live \in {s \cup Kept : s \in SUBSET Slugs}
  /\ stack \in [Slugs -> States]
  /\ foreign \in SUBSET {s \in Slugs : stack[s] # "none"}
  /\ forks \in SUBSET (Slugs \ {Main})
  /\ uses = {s \in forks \ foreign : stack[s] # "none"}
  /\ infra \in BOOLEAN
  /\ cmd = NoCmd
  /\ phase = "idle"
  /\ opts \in Options
  /\ seen = {}
  /\ ls = NoListing
  /\ running = {}
  /\ todo = {}
  /\ stopInfra = FALSE
  /\ steady = {}
  /\ steadyUp = {}
  /\ moves = 0

-----------------------------------------------------------------------------
(* What happens beside prune.  git worktree add and remove; a worktree is  *)
(* not removed under a command that runs in it.                            *)
Add(s) ==
  /\ "add" \in Events
  /\ s \notin live
  /\ live' = live \cup {s}
  /\ UNCHANGED <<stack, foreign, forks, uses, infra, cmd, prune, history>>

Remove(s) ==
  /\ "remove" \in Events
  /\ s \in live \ Kept
  /\ s # cmd.slug
  /\ live' = live \ {s}
  /\ steady' = steady \ {s}
  /\ UNCHANGED <<stack, foreign, forks, uses, infra, cmd, prune, steadyUp>>

(* up, under the app's lock: the infra, much later the worktree's stack.   *)
UpInfra(s) ==
  /\ "up" \in Events
  /\ cmd = NoCmd
  /\ s \in live
  /\ infra' = TRUE
  /\ cmd' = [slug |-> s, step |-> "up"]
  /\ UNCHANGED <<live, stack, foreign, forks, uses, prune, history>>

(* fork, under the same lock: the volume, much later the stack.            *)
ForkVolume(s) ==
  /\ "fork" \in Events
  /\ cmd = NoCmd
  /\ s \in live \ {Main}
  /\ s \notin forks
  /\ forks' = forks \cup {s}
  /\ cmd' = [slug |-> s, step |-> "fork"]
  /\ UNCHANGED <<live, stack, foreign, uses, infra, prune, history>>

(* compose up; the volume of a fork is external and must exist, and what   *)
(* else was in the project is an orphan there.                             *)
ComposeUp ==
  /\ cmd # NoCmd
  /\ cmd.step = "fork" => cmd.slug \in forks
  /\ stack' = [stack EXCEPT ![cmd.slug] = "running"]
  /\ foreign' = foreign \ {cmd.slug}
  /\ uses' = uses \cup ({cmd.slug} \cap forks)
  /\ cmd' = NoCmd
  /\ UNCHANGED <<live, forks, infra, prune, history>>

ComposeUpFails ==
  /\ cmd # NoCmd
  /\ cmd' = NoCmd
  /\ UNCHANGED <<host, prune, history>>

(* The containers stop (docker compose stop, a reboot) or are removed.     *)
Stop(s) ==
  /\ "stop" \in Events
  /\ stack[s] = "running"
  /\ stack' = [stack EXCEPT ![s] = "stopped"]
  /\ steadyUp' = steadyUp \ {s}
  /\ UNCHANGED <<live, foreign, forks, uses, infra, cmd, prune, steady>>

(* docktree down, or whoever owns the project takes it down.               *)
Down(s) ==
  /\ "down" \in Events
  /\ s \in live \cup foreign
  /\ stack' = [stack EXCEPT ![s] = "none"]
  /\ foreign' = foreign \ {s}
  /\ uses' = uses \ {s}
  /\ steadyUp' = steadyUp \ {s}
  /\ UNCHANGED <<live, forks, infra, cmd, prune, steady>>

(* Somebody else's project of the app's prefix comes up.                   *)
Other(s) ==
  /\ "other" \in Events
  /\ stack[s] = "none"
  /\ stack' = [stack EXCEPT ![s] = "running"]
  /\ foreign' = foreign \cup {s}
  /\ UNCHANGED <<live, forks, uses, infra, cmd, prune, history>>

(* Bound: the world moves while prune runs; what happened before is in     *)
(* Init, and what happens after concerns nobody here.                      *)
Beside ==
  /\ phase \notin {"idle", "done", "failed"}
  /\ moves < MaxMoves
  /\ moves' = moves + 1
  /\ \/ \E s \in Slugs :
          \/ Add(s) \/ Remove(s) \/ UpInfra(s) \/ ForkVolume(s)
          \/ Stop(s) \/ Down(s) \/ Other(s)
     \/ ComposeUp \/ ComposeUpFails

-----------------------------------------------------------------------------
(* What prune was told and planned is gone with it.                        *)
End(to) ==
  /\ phase' = to
  /\ seen' = {}
  /\ ls' = NoListing
  /\ running' = {}
  /\ todo' = {}
  /\ stopInfra' = FALSE
  /\ steady' = {}
  /\ steadyUp' = {}
  /\ UNCHANGED <<cmd, opts>>

Begin ==
  /\ phase = "idle"
  /\ phase' = "git"
  /\ steady' = live
  /\ steadyUp' = {s \in Slugs : stack[s] = "running"}
  /\ UNCHANGED <<host, cmd, opts, seen, ls, running, todo, stopInfra>>

(* liveWorktreeSlugs: git worktree list.                                   *)
ReadLive ==
  /\ phase = "git"
  /\ phase' = "ls"
  /\ seen' = live
  /\ UNCHANGED <<host, cmd, opts, ls, running, todo, stopInfra, history>>

(* loadRuntimeStacks: docker compose ls, then docker ps.                   *)
ReadStacks ==
  /\ phase = "ls"
  /\ phase' = "ps"
  /\ ls' = [stacks |-> stack, infra |-> infra]
  /\ UNCHANGED <<host, cmd, opts, seen, running, todo, stopInfra, history>>

(* Merge and filterRuntimeStacks: docker compose ls names every project,   *)
(* docker ps only containers with the app's label.  A stack is there if    *)
(* either lists it and its name begins with the app's, runs if either says *)
(* so, and is docktree's if docker ps shows one of its containers.         *)
Managed(s) == stack[s] # "none" /\ s \notin foreign

Present(s) == ls.stacks[s] # "none" \/ Managed(s)

(* Fault: every stack that was listed counts as running.                   *)
FaultRunning(s) == Present(s)

Running(s) == ls.stacks[s] = "running" \/ (Managed(s) /\ stack[s] = "running")

(* Fault: the worktrees git listed are not asked.                          *)
FaultCandidate(s) == Managed(s) /\ s \notin Kept

(* isPruneCandidate                                                        *)
Candidate(s) == Managed(s) /\ s \notin Kept /\ s \notin seen

(* Fault: a running orphan does not count as a stack that remains.         *)
FaultRemains == \E s \in Slugs : Present(s) /\ ~Candidate(s)

(* Fault: only docktree's own projects count.                              *)
FaultRemainsManaged == \E s \in Slugs : Managed(s) /\ ~(Candidate(s) /\ ~Running(s))

(* remainingWorktreeStackPresent: what is not docktree's remains, too.     *)
Remains == \E s \in Slugs : Present(s) /\ ~(Candidate(s) /\ ~Running(s))

(* Everything prune decides from the listings is decided here, where their *)
(* last one is read; a dry run removes nothing.                            *)
ReadContainers ==
  /\ phase = "ps"
  /\ phase' = "stacks"
  /\ running' = {s \in Slugs : Running(s)}
  /\ todo' = {s \in Slugs : opts.execute /\ Candidate(s) /\ ~Running(s)}
  /\ stopInfra' = (opts.execute /\ (ls.infra \/ infra) /\ ~Remains)
  /\ ls' = NoListing
  /\ UNCHANGED <<host, cmd, opts, seen, history>>

(* pruneStacks: docker compose -p ... down, whatever the stack is by now.  *)
RemoveStack(s) ==
  /\ phase = "stacks"
  /\ s \in todo
  /\ stack' = [stack EXCEPT ![s] = "none"]
  /\ foreign' = foreign \ {s}
  /\ uses' = uses \ {s}
  /\ todo' = todo \ {s}
  /\ steadyUp' = steadyUp \ {s}
  /\ UNCHANGED <<live, forks, infra, cmd, phase, opts, seen, ls, running, stopInfra,
                 steady>>

StacksRemoved ==
  /\ phase = "stacks"
  /\ todo = {}
  /\ phase' = IF opts.includeForks THEN "volumes" ELSE "infra"
  /\ UNCHANGED <<host, cmd, opts, seen, ls, running, todo, stopInfra, history>>

(* Fault: a volume is eligible without a look at git's worktrees.          *)
FaultEligible(s) == s \notin Kept /\ s \notin running

(* isPruneEligibleVolumeSlug                                               *)
Eligible(s) == s \notin Kept /\ s \notin seen /\ s \notin running

(* pruneForkVolumes asks for the confirmation, which only --execute needs, *)
(* when the stacks are gone already, and lists the volumes then.           *)
ListVolumes ==
  /\ phase = "volumes"
  /\ opts.execute => opts.confirmed
  /\ phase' = "rm"
  /\ todo' = {s \in forks : opts.execute /\ Eligible(s)}
  /\ seen' = {}
  /\ running' = {}
  /\ UNCHANGED <<host, cmd, opts, ls, stopInfra, history>>

Unconfirmed ==
  /\ phase = "volumes"
  /\ opts.execute /\ ~opts.confirmed
  /\ End("failed")
  /\ UNCHANGED host

(* Fault: docker volume rm of a volume that containers use.                *)
FaultRemoveUsed(s) ==
  /\ phase = "rm"
  /\ s \in todo \cap forks
  /\ forks' = forks \ {s}
  /\ todo' = todo \ {s}
  /\ UNCHANGED <<live, stack, foreign, uses, infra, cmd, phase, opts, seen, ls, running, stopInfra,
                 history>>

(* docker volume rm fails on a volume in use, or one that is gone.         *)
RemoveVolume(s) ==
  /\ phase = "rm"
  /\ s \in todo \cap forks
  /\ s \notin uses
  /\ forks' = forks \ {s}
  /\ todo' = todo \ {s}
  /\ UNCHANGED <<live, stack, foreign, uses, infra, cmd, phase, opts, seen, ls, running, stopInfra,
                 history>>

VolumesRemoved ==
  /\ phase = "rm"
  /\ todo = {}
  /\ phase' = "infra"
  /\ UNCHANGED <<host, cmd, opts, seen, ls, running, todo, stopInfra, history>>

(* pruneSharedInfraIfUnused                                                *)
StopInfra ==
  /\ phase = "infra"
  /\ stopInfra
  /\ infra' = FALSE
  /\ End("done")
  /\ UNCHANGED <<live, stack, foreign, forks, uses>>

KeepInfra ==
  /\ phase = "infra"
  /\ ~stopInfra
  /\ End("done")
  /\ UNCHANGED host

(* git or docker fails, or prune is killed: nothing further is done.       *)
Fail ==
  /\ phase \notin {"idle", "done", "failed"}
  /\ End("failed")
  /\ UNCHANGED host

PruneStep ==
  \/ Begin \/ ReadLive \/ ReadStacks \/ ReadContainers
  \/ \E s \in Slugs : RemoveStack(s) \/ RemoveVolume(s)
  \/ StacksRemoved \/ ListVolumes \/ Unconfirmed \/ VolumesRemoved
  \/ StopInfra \/ KeepInfra \/ Fail

Next == Beside \/ (PruneStep /\ UNCHANGED moves)

Spec == Init /\ [][Next]_vars

-----------------------------------------------------------------------------
Takes(s) == RemoveStack(s) \/ RemoveVolume(s)

(* Prune takes nothing of a worktree that has been there since prune       *)
(* began, and nothing of a stack that has been running since then, though  *)
(* its three listings were made at three times and everything else may     *)
(* have changed since (runPrune).                                          *)
TakesNothingSteady ==
  \A s \in Slugs : Takes(s) => s \notin steady /\ s \notin steadyUp

StandingKept == [][TakesNothingSteady]_vars

(* Prune does not stop the infra under a stack that has been running since *)
(* prune began, an orphan's included (pruneSharedInfraIfUnused).           *)
StopsNothingSteady == StopInfra => steadyUp = {}

InfraServes == [][StopsNothingSteady]_vars

(* A prune that nothing happens beside removes only what belongs to        *)
(* worktrees that "no longer exist" (README.md), and no stack that is not  *)
(* docktree's.                                                             *)
OnlyOrphansRemoved ==
  [][\A s \in Slugs :
       moves = 0 => /\ Takes(s) => s \notin live
                    /\ RemoveStack(s) => s \notin foreign]_vars

(* It stops the infra "when no worktree stacks remain" (prune_test.go),    *)
(* nor any other project of the app's prefix.                              *)
InfraUnused == [][StopInfra /\ moves = 0 => \A s \in Slugs : stack[s] = "none"]_vars

(* Carried out to its end it leaves no stopped stack of a worktree that is *)
(* gone, no fork volume of one unless its project runs, and no infra if no *)
(* project of the app's prefix is there, docktree's or not: whatever an    *)
(* earlier prune that failed half-way had left.  Somebody else's stopped   *)
(* project of that prefix stays, and keeps the infra.                      *)
Cleaned ==
  phase = "done" /\ opts.execute /\ moves = 0 =>
    /\ \A s \in Slugs \ live :
         /\ stack[s] = "stopped" => s \in foreign
         /\ opts.includeForks /\ s \in forks => stack[s] = "running"
    /\ infra => \E s \in Slugs : stack[s] # "none"

(* The inductive invariant: what prune was told covers what has been       *)
(* steady, and its plans avoid it.                                         *)
SteadySeen ==
  /\ steady \subseteq live
  /\ phase \in {"ls", "ps", "stacks", "volumes"} => steady \subseteq seen
  /\ phase \in {"git", "ls", "ps"} => \A s \in steadyUp : stack[s] = "running"
  /\ phase = "ps" => \A s \in steadyUp : ls.stacks[s] = "running"
  /\ phase \in {"stacks", "volumes"} => steadyUp \subseteq running

PlansAvoid ==
  /\ phase \in {"stacks", "rm"} => todo \cap (steady \cup steadyUp) = {}
  /\ stopInfra => steadyUp = {} /\ phase \in {"stacks", "volumes", "rm", "infra"}

SteadyInv == SteadySeen /\ PlansAvoid
=============================================================================
