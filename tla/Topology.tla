-------------------------------- MODULE Topology --------------------------------
(***************************************************************************)
(* Who reaches whom: src/internal/compose/render.go splits an app into the *)
(* shared infra and one stack per worktree, and the commands that render   *)
(* bring both to the host.  A shared service that a worktree has not       *)
(* forked is uplinked: an ambassador of the worktree carries its name on   *)
(* the worktree's default network and forwards its ports to the infra over *)
(* the app's shared network.                                               *)
(*                                                                         *)
(* The commands up, fork and unfork hold the app's lock (step # "idle");   *)
(* down takes none.  Forks are the volume copies of the shared services;   *)
(* a logical Postgres fork stays uplinked and is a shared service here.    *)
(***************************************************************************)
EXTENDS Naturals

CONSTANTS
  Services,   \* the names of compose services
  Rank,       \* their sorted order
  Ports,      \* the TCP ports they may listen on
  Worktrees,
  Main,       \* the main worktree, which is never forked
  Apps,       \* the apps that are considered, see App
  Selections, \* what up is asked to start; {} is everything
  MaxCommands,\* bound: the commands that are run
  NoService,
  NoWorktree

(* A compose model and its docktree.toml: the shared services, those that  *)
(* fork may copy and those that up copies of itself, the ports a service   *)
(* declares, the services it requires and those it depends on optionally.  *)
App ==
  [shared : SUBSET Services, forkable : SUBSET Services, isolated : SUBSET Services,
   ports : [Services -> SUBSET Ports],
   requires : [Services -> SUBSET Services], wants : [Services -> SUBSET Services]]

ASSUME RankAssumption ==
  /\ Rank \in [Services -> Nat]
  /\ \A m, n \in Services : Rank[m] = Rank[n] => m = n
ASSUME WorktreeAssumption == Main \in Worktrees /\ NoWorktree \notin Worktrees
ASSUME ServiceAssumption == NoService \notin Services
ASSUME AppAssumption ==
  /\ Apps \subseteq App
  /\ \A a \in Apps : a.isolated \subseteq a.forkable /\ a.forkable \subseteq a.shared
ASSUME SelectionAssumption == Selections \subseteq SUBSET Services
ASSUME BoundAssumption == MaxCommands \in Nat

VARIABLES
  app,       \* the app; it does not change
  copies,    \* the fork volumes of each worktree, by service
  infra,     \* the shared services that run
  yml,       \* each worktree's projection on disk: its containers
  run,       \* the containers of each worktree's stack
  settled,   \* history: how the last command left the stack
  count,     \* the commands so far
  cmd,       \* the locked command: its worktree, its kind, its service, its selection
  step,      \* where it is
  after,     \* what follows the projections it is rendering
  forked,    \* the services it takes for forked
  left,      \* the uplinked services that have no ambassador yet
  primary,   \* those that share one
  dedicated, \* those that have one each
  todo       \* the containers compose up has still to converge

host == <<copies, infra, yml, run>>
split == <<left, primary, dedicated>>
vars == <<app, host, settled, count, cmd, step, after, forked, split, todo>>

Kinds == {"up", "fork", "unfork"}
Steps ==
  {"idle", "render", "split", "infra", "forks", "volume",
   "down", "rm", "compose", "converge"}
NoCmd == [w |-> NoWorktree, kind |-> "up", svc |-> NoService, sel |-> {}]

-----------------------------------------------------------------------------
(* Containers.  One is known by its worktree and its compose service, the  *)
(* user's or the ambassador's; compose makes a service's own name its      *)
(* alias on every network it joins.                                        *)
Name == [kind : {"service", "uplink"}, w : Worktrees, svc : Services \cup {NoService}]
Alias == [of : {"canonical", "upstream"}, svc : Services]
Container ==
  [name : Name, aliases : SUBSET Services, forked : BOOLEAN,
   forwards : SUBSET [port : Ports, dials : Alias],
   dependsOn : SUBSET [on : Name, required : BOOLEAN]]

UpstreamAlias(s) == [of |-> "upstream", svc |-> s]

ServiceName(w, s) == [kind |-> "service", w |-> w, svc |-> s]

(* Fault: a dedicated ambassador is named after its service alone.         *)
FaultUplinkServiceName(w, s) ==
  [kind |-> "uplink", w |-> IF s = NoService THEN w ELSE Main, svc |-> s]

UplinkServiceName(w, s) == [kind |-> "uplink", w |-> w, svc |-> s]

(* subtractForked                                                          *)
Uplinked == app.shared \ forked

(* What a service's own name, or the name of one it depends on, stands for *)
(* in the projection.                                                      *)
UplinkFor(w, s) == UplinkServiceName(w, IF s \in dedicated THEN s ELSE NoService)
Stands(w, s) == IF s \in Uplinked THEN UplinkFor(w, s) ELSE ServiceName(w, s)

(* Fault: one optional dependency makes the edge optional that it shares.  *)
FaultRequired(w, s, name) ==
  \A d \in app.requires[s] \cup app.wants[s] :
     Stands(w, d) = name => d \in app.requires[s]

Required(w, s, name) == \E d \in app.requires[s] : Stands(w, d) = name

(* rewriteSharedDependsOn: the edges onto one ambassador become one, which *)
(* is optional only if all of them are.                                    *)
DependsOn(w, s) ==
  {[on |-> Stands(w, d), required |-> Required(w, s, Stands(w, d))] :
     d \in app.requires[s] \cup app.wants[s]}

(* A service of the worktree's own, or its copy of a shared one.           *)
Local(w, s) ==
  [name |-> ServiceName(w, s), aliases |-> {s}, forked |-> s \in app.shared,
   forwards |-> {}, dependsOn |-> DependsOn(w, s)]

(* buildUplinkService: one forward for each port of each service.          *)
Uplink(name, names) ==
  [name |-> name, aliases |-> names, forked |-> FALSE,
   forwards |-> UNION {{[port |-> p, dials |-> UpstreamAlias(s)] : p \in app.ports[s]} :
                         s \in names},
   dependsOn |-> {}]

(* renderProjection for the worktree: what is not uplinked is its own.     *)
Projection(w) ==
  {Local(w, s) : s \in Services \ Uplinked}
    \cup {Uplink(UplinkServiceName(w, NoService), names) : names \in {primary} \ {{}}}
    \cup {Uplink(UplinkServiceName(w, s), {s}) : s \in dedicated}

(* Validate refuses an app whose shared services depend on others.         *)
Valid == \A s \in app.shared : app.requires[s] \cup app.wants[s] \subseteq app.shared

TypeOK ==
  /\ app \in Apps
  /\ copies \in [Worktrees -> SUBSET app.forkable]
  /\ infra \in SUBSET app.shared
  /\ yml \in [Worktrees -> SUBSET Container]
  /\ run \in [Worktrees -> SUBSET Container]
  /\ settled \in [Worktrees -> {"no", "busy", "part", "whole"}]
  /\ count \in 0..MaxCommands
  /\ cmd \in [w : Worktrees, kind : Kinds, svc : Services \cup {NoService},
              sel : SUBSET Services] \cup {NoCmd}
  /\ step \in Steps /\ after \in Steps
  /\ forked \in SUBSET app.forkable
  /\ left \in SUBSET app.shared
  /\ primary \in SUBSET app.shared
  /\ dedicated \in SUBSET app.shared
  /\ todo \in SUBSET Container

Init ==
  /\ app \in Apps
  /\ copies = [w \in Worktrees |-> {}]
  /\ infra = {}
  /\ yml = [w \in Worktrees |-> {}]
  /\ run = [w \in Worktrees |-> {}]
  /\ settled = [w \in Worktrees |-> "no"]
  /\ count = 0
  /\ cmd = NoCmd
  /\ step = "idle" /\ after = "idle"
  /\ forked = {}
  /\ left = {} /\ primary = {} /\ dedicated = {}
  /\ todo = {}

-----------------------------------------------------------------------------
(* A command takes the app's lock and asks docker for the fork volumes of  *)
(* its worktree (prepareStack); then it renders.                           *)
Begin(w, kind, s, sel) ==
  /\ step = "idle"
  /\ count < MaxCommands
  /\ Valid
  /\ kind = "up" => s = NoService /\ sel \in Selections
  /\ kind # "up" => s \in app.forkable /\ sel = {} /\ w # Main
  /\ count' = count + 1
  /\ cmd' = [w |-> w, kind |-> kind, svc |-> s, sel |-> sel]
  /\ forked' = copies[w]
  /\ step' = "render"
  /\ after' = CASE kind = "up" -> "infra" [] kind = "fork" -> "volume" [] OTHER -> "down"
  /\ settled' = [settled EXCEPT ![w] = "busy"]
  /\ UNCHANGED <<app, host, split, todo>>

(* uplinkPorts: a service without a TCP port cannot be forwarded.          *)
Forwardable(s) == app.ports[s] # {}

(* renderUplinkServices                                                    *)
BeginSplit ==
  /\ step = "render"
  /\ \A s \in Uplinked : Forwardable(s)
  /\ step' = "split"
  /\ left' = Uplinked
  /\ primary' = {}
  /\ dedicated' = {}
  /\ UNCHANGED <<app, host, settled, count, cmd, after, forked, todo>>

Least(s) == s \in left /\ \A m \in left : Rank[s] <= Rank[m]

(* Fault: only the ports of the service before are taken for claimed.      *)
FaultClaimed ==
  UNION {app.ports[m] : m \in {x \in primary : \A y \in primary : Rank[y] <= Rank[x]}}

Claimed == UNION {app.ports[m] : m \in primary}

JoinPrimary(s) ==
  /\ step = "split"
  /\ Least(s)
  /\ app.ports[s] \cap Claimed = {}
  /\ primary' = primary \cup {s}
  /\ left' = left \ {s}
  /\ UNCHANGED <<app, host, settled, count, cmd, step, after, forked, dedicated, todo>>

Dedicate(s) ==
  /\ step = "split"
  /\ Least(s)
  /\ app.ports[s] \cap Claimed # {}
  /\ dedicated' = dedicated \cup {s}
  /\ left' = left \ {s}
  /\ UNCHANGED <<app, host, settled, count, cmd, step, after, forked, primary, todo>>

(* writeStackArtifacts                                                     *)
WriteProjection ==
  /\ step = "split"
  /\ left = {}
  /\ yml' = [yml EXCEPT ![cmd.w] = Projection(cmd.w)]
  /\ step' = after
  /\ UNCHANGED <<app, copies, infra, run, settled, count, cmd, after, forked, split, todo>>

(* Fault: the infra is the whole compose model.                            *)
FaultEnsureInfra ==
  /\ step = "infra"
  /\ infra' = Services
  /\ step' = "forks"
  /\ UNCHANGED <<app, copies, yml, run, settled, count, cmd, after, forked, split, todo>>

(* ensureInfraForUp always converges the infra.                            *)
EnsureInfra ==
  /\ step = "infra"
  /\ infra' = app.shared
  /\ step' = "forks"
  /\ UNCHANGED <<app, copies, yml, run, settled, count, cmd, after, forked, split, todo>>

(* ensureConfiguredIsolatedStateful; the projections are rendered again if *)
(* it has forked anything.                                                 *)
AutoFork(s) ==
  /\ step = "forks"
  /\ s \in app.isolated \ forked
  /\ cmd.w # Main
  /\ copies' = [copies EXCEPT ![cmd.w] = @ \cup {s}]
  /\ forked' = forked \cup {s}
  /\ UNCHANGED <<app, infra, yml, run, settled, count, cmd, step, after, split, todo>>

Rendered == \A s \in forked : \E c \in yml[cmd.w] : c.name = ServiceName(cmd.w, s)

Forked ==
  /\ step = "forks"
  /\ app.isolated \subseteq forked
  /\ step' = IF Rendered THEN "compose" ELSE "render"
  /\ after' = "compose"
  /\ UNCHANGED <<app, host, settled, count, cmd, forked, split, todo>>

(* forkGenericVolume refuses a volume that exists.                         *)
MakeVolume ==
  /\ step = "volume"
  /\ cmd.svc \notin copies[cmd.w]
  /\ copies' = [copies EXCEPT ![cmd.w] = @ \cup {cmd.svc}]
  /\ forked' = forked \cup {cmd.svc}
  /\ step' = "render"
  /\ after' = "compose"
  /\ UNCHANGED <<app, infra, yml, run, settled, count, cmd, split, todo>>

(* docker compose down takes what its compose file names.                  *)
Named(w) == {c \in run[w] : \E d \in yml[w] : d.name = c.name}

TakeDown ==
  /\ step = "down"
  /\ run' = [run EXCEPT ![cmd.w] = @ \ Named(cmd.w)]
  /\ step' = "rm"
  /\ UNCHANGED <<app, copies, infra, yml, settled, count, cmd, after, forked, split, todo>>

(* docker refuses to remove a volume that a container mounts.              *)
RemoveVolume ==
  /\ step = "rm"
  /\ cmd.svc \in copies[cmd.w]
  /\ \A c \in run[cmd.w] : c.forked => c.aliases # {cmd.svc}
  /\ copies' = [copies EXCEPT ![cmd.w] = @ \ {cmd.svc}]
  /\ forked' = forked \ {cmd.svc}
  /\ step' = "render"
  /\ after' = "compose"
  /\ UNCHANGED <<app, infra, yml, run, settled, count, cmd, split, todo>>

-----------------------------------------------------------------------------
(* docker compose up -d --remove-orphans [service...], as compose does it: *)
(* the orphans go, then the selected services and all they depend on are   *)
(* created, or recreated if they have changed, dependencies first.         *)
Closed(S, doc) ==
  \A c \in S : \A e \in c.dependsOn : \A d \in doc : d.name = e.on => d \in S

Wanted(doc) ==
  {c \in doc : cmd.sel = {} \/
     \A S \in SUBSET doc :
        Closed(S, doc) /\ (\A d \in doc : d.name.kind = "service" /\ d.name.svc \in cmd.sel
                                             => d \in S)
           => c \in S}

(* Fault: without --remove-orphans.                                        *)
FaultOrphans(w) == {}

Orphans(w) == run[w] \ Named(w)

StartCompose ==
  /\ step = "compose"
  /\ run' = [run EXCEPT ![cmd.w] = @ \ Orphans(cmd.w)]
  /\ todo' = Wanted(yml[cmd.w])
  /\ step' = "converge"
  /\ UNCHANGED <<app, copies, infra, yml, settled, count, cmd, after, forked, split>>

(* ensureInfraNetworks: what a name stands for on the app's network.       *)
Answers(alias) == alias.of = "upstream" /\ alias.svc \in infra

(* The healthcheck of an ambassador dials all that it forwards to.         *)
Healthy(c) == \A f \in c.forwards : Answers(f.dials)

(* A container waits for all that it depends on, and what it requires must *)
(* be healthy then.                                                        *)
Ready(c, w) ==
  \A e \in c.dependsOn :
     /\ \A d \in todo : d.name # e.on
     /\ e.required => \E d \in run[w] : d.name = e.on /\ Healthy(d)

Converge(c) ==
  /\ step = "converge"
  /\ c \in todo
  /\ Ready(c, cmd.w)
  /\ run' = [run EXCEPT ![cmd.w] = {d \in @ : d.name # c.name} \cup {c}]
  /\ todo' = todo \ {c}
  /\ UNCHANGED <<app, copies, infra, yml, settled, count, cmd, step, after, forked, split>>

End(how) ==
  /\ settled' = [settled EXCEPT ![cmd.w] = how]
  /\ cmd' = NoCmd
  /\ step' = "idle"
  /\ after' = "idle"
  /\ forked' = {}
  /\ left' = {} /\ primary' = {} /\ dedicated' = {}
  /\ todo' = {}
  /\ UNCHANGED <<app, host, count>>

Finish ==
  /\ step = "converge"
  /\ todo = {}
  /\ End(IF settled[cmd.w] = "no" THEN "no" ELSE IF cmd.sel = {} THEN "whole" ELSE "part")

(* Anything on the way may fail, or the command is killed.                 *)
Fail == step # "idle" /\ End("no")

-----------------------------------------------------------------------------
(* docktree down, at any time; and the infra's containers stop.            *)
Down(w) ==
  /\ Named(w) # {}
  /\ run' = [run EXCEPT ![w] = @ \ Named(w)]
  /\ settled' = [settled EXCEPT ![w] = "no"]
  /\ UNCHANGED <<app, copies, infra, yml, count, cmd, step, after, forked, split, todo>>

InfraStops(s) ==
  /\ s \in infra
  /\ infra' = infra \ {s}
  /\ UNCHANGED <<app, copies, yml, run, settled, count, cmd, step, after, forked, split,
                 todo>>

Next ==
  \/ \E w \in Worktrees, kind \in Kinds, s \in Services \cup {NoService},
        sel \in Selections \cup {{}} : Begin(w, kind, s, sel)
  \/ BeginSplit
  \/ \E s \in Services : JoinPrimary(s) \/ Dedicate(s) \/ AutoFork(s)
  \/ WriteProjection \/ EnsureInfra \/ Forked
  \/ MakeVolume \/ TakeDown \/ RemoveVolume
  \/ StartCompose
  \/ \E c \in todo : Converge(c)
  \/ Finish \/ Fail
  \/ \E w \in Worktrees : Down(w)
  \/ \E s \in Services : InfraStops(s)

Spec == Init /\ [][Next]_vars

-----------------------------------------------------------------------------
Carriers(w, n) == {c \in run[w] : n \in c.aliases}

(* "Every canonical name resolves there exactly once" (the design of the   *)
(* ambassadors): when a command has brought a worktree's stack up whole,   *)
(* whatever forks, unforks, failures and kills came before.                *)
ResolvesOnce ==
  \A w \in Worktrees : settled[w] = "whole" =>
     \A n \in Services : \E c \in run[w] : Carriers(w, n) = {c}

(* And it is the right one: a service of the worktree's own or its copy is *)
(* reached in the worktree, a shared one through an ambassador that hands  *)
(* each of its ports to the infra's container of that name and no other.   *)
ReachesOwn ==
  \A w \in Worktrees : settled[w] = "whole" =>
     \A n \in Services : \A c \in Carriers(w, n) :
        IF n \in app.shared \ copies[w]
        THEN \A p \in app.ports[n] :
                {f.dials : f \in {g \in c.forwards : g.port = p}}
                   = {[of |-> "upstream", svc |-> n]}
        ELSE c.name = ServiceName(w, n) /\ (c.forked <=> n \in app.shared)

(* No two worktrees' ambassadors have one name on the app's network, on    *)
(* which each one's name is its alias; nor two containers of a stack.      *)
NamesApart ==
  \A v, w \in Worktrees : \A c \in run[v], d \in run[w] :
     c.name = d.name => v = w /\ c = d

(* A service is only started when all that its author says it requires can *)
(* be reached from it: rewriting its dependencies loses none.              *)
Served(w, n) ==
  \E c \in Carriers(w, n) :
     \A f \in c.forwards : f.dials.svc = n => Answers(f.dials)

DependenciesServed ==
  [][\A c \in todo : Converge(c) /\ c.name.kind = "service" =>
        \A n \in app.requires[c.name.svc] : Served(cmd.w, n)]_vars
=============================================================================
