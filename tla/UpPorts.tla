-------------------------------- MODULE UpPorts --------------------------------
(***************************************************************************)
(* The host ports of a whole stack over several `docktree up`s: the inputs *)
(* of resolvePortInputs (src/cmd/resolve.go), the ports that .env.worktree *)
(* keeps, compose's bind of one service after the other, and the retry of  *)
(* src/cmd/up.go, which moves what it thinks failed and then rewrites the  *)
(* file.  PortScan has the probes of one service one by one; here a scan   *)
(* is one step.  Ups of an app are serial, its up lock sees to that.       *)
(***************************************************************************)
EXTENDS Integers, Sequences, FiniteSets

CONSTANTS
  Services, Worktrees, Main,
  Envs,           \* names of port variables
  Base, BandWidth,\* each service's band in the registry
  Offset,         \* of a worktree's slug into every band
  Host,           \* host ports
  Unrelated,      \* a number in an error message that is no port of the stack
  Apps,           \* the apps considered, see App
  MaxUps,         \* bound: the commands
  MaxEvents,      \* bound: what happens beside them
  NoWorktree

NoPort == 0
Band(s) == Base[s]..(Base[s] + BandWidth - 1)

(* What discoveredPortInputs finds: services in their order, each with its *)
(* tokens ${env:-default}; and the services that docktree.toml gives, with *)
(* their variable, as fixed.                                               *)
Token == [env : Envs, default : Host \cup {NoPort}]
App == [inputs : Seq([service : Services, token : Token]), fixed : SUBSET Services]

ASSUME PortsAssumption ==
  /\ Base \in [Services -> Nat \ {0}] /\ BandWidth \in Nat \ {0}
  /\ \A s \in Services : Band(s) \subseteq Host
  /\ \A s, t \in Services : s # t => Band(s) \cap Band(t) = {}
  /\ Offset \in [Worktrees -> 0..(BandWidth - 1)]
  /\ Host \subseteq Nat \ {0} /\ Unrelated \notin Host
  /\ Main \in Worktrees /\ NoWorktree \notin Worktrees
  /\ \A a \in Apps : a \in App
  /\ MaxUps \in Nat /\ MaxEvents \in Nat

VARIABLES
  app,      \* the app; it does not change
  taken,    \* the host ports that other programs hold
  env,      \* each worktree's .env.worktree, NoPort for a variable it lacks
  bound,    \* the host ports of each worktree's containers
  settled,  \* history: the worktree's last up ended well, with no down since it began
  w,        \* the worktree of the up that runs
  step,
  todo,     \* the inputs that are still to be resolved
  ports,    \* r.servicePorts
  defaults, \* r.primaryDefaultPorts
  left,     \* the services that compose has still to start
  blamed,   \* the ports that the error message names
  retried,
  stuck,    \* history: the services that could not have bound their first ports
  quiet,    \* history: nothing has happened beside this up
  ups, events

local == <<step, todo, ports, defaults, left, blamed, retried>>
history == <<settled, stuck, quiet, ups, events>>
vars == <<app, taken, env, bound, w, local, history>>

Steps == {"idle", "resolve", "write", "compose", "retry"}
NoPorts == [s \in Services |-> NoPort]

(* Every port docktree resolves, writes or has bound is one of the host's  *)
(* (the bands and the defaults); that no two containers share one is       *)
(* docker's doing.                                                         *)
TypeOK ==
  /\ app \in Apps
  /\ taken \subseteq Host
  /\ env \in [Worktrees -> [Envs -> Host \cup {NoPort}]]
  /\ bound \in [Worktrees -> [Services -> SUBSET (Host \ taken)]]
  /\ \A v, x \in Worktrees, s, t \in Services :
        <<v, s>> # <<x, t>> => bound[v][s] \cap bound[x][t] = {}
  /\ settled \in [Worktrees -> BOOLEAN]
  /\ w \in Worktrees \cup {NoWorktree}
  /\ step \in Steps /\ (step = "idle" <=> w = NoWorktree)
  /\ todo \in Seq([service : Services, token : Token])
  /\ ports \in [Services -> Host \cup {NoPort}]
  /\ defaults \subseteq Services /\ left \subseteq Services /\ stuck \subseteq Services
  /\ blamed \subseteq Host \cup {Unrelated}
  /\ retried \in BOOLEAN /\ quiet \in BOOLEAN
  /\ ups \in 0..MaxUps /\ events \in 0..MaxEvents

Init ==
  /\ app \in Apps
  /\ taken \in {{}} \cup {{p} : p \in Host}
  /\ env = [v \in Worktrees |-> [e \in Envs |-> NoPort]]
  /\ bound = [v \in Worktrees |-> [s \in Services |-> {}]]
  /\ settled = [v \in Worktrees |-> FALSE]
  /\ w = NoWorktree
  /\ step = "idle" /\ todo = <<>> /\ ports = NoPorts /\ defaults = {} /\ left = {}
  /\ blamed = {} /\ retried = FALSE
  /\ stuck = {} /\ quiet = TRUE
  /\ ups = 0 /\ events = 0

-----------------------------------------------------------------------------
Free(p) ==
  p \notin taken /\ \A v \in Worktrees, s \in Services : p \notin bound[v][s]

(* Fault: the scan runs off the end of the band.                            *)
FaultScan(s, start, skip) ==
  LET port(k) == start + k
      ok(k) == Free(port(k)) /\ port(k) # skip
  IN {port(k) : k \in {i \in 0..(BandWidth - 1) : ok(i) /\ \A j \in 0..(i - 1) : ~ok(j)}}

(* The first free port of the band from start on and round its end.        *)
Scan(s, start, skip) ==
  LET port(k) == Base[s] + ((start - Base[s] + k) % BandWidth)
      ok(k) == Free(port(k)) /\ port(k) # skip
  IN {port(k) : k \in {i \in 0..(BandWidth - 1) : ok(i) /\ \A j \in 0..(i - 1) : ~ok(j)}}

(* Resolve gives the one port of the result, or an error if there is none. *)
Resolve(s) ==
  LET candidate == Base[s] + Offset[w]
  IN IF s \in app.fixed THEN {p \in {candidate} : Free(p)} ELSE Scan(s, candidate, NoPort)

(* ResolveAfterBindFailure                                                 *)
ResolveAfter(s, failed) ==
  IF failed \notin Band(s) THEN {}
  ELSE Scan(s, IF failed + 1 = Base[s] + BandWidth THEN Base[s] ELSE failed + 1, failed)

(* The tokens of a service, and the one that is its host_port_env: the     *)
(* first (resolveWithModel).                                               *)
Inputs(s) == {i \in DOMAIN app.inputs : app.inputs[i].service = s}
HasPort == {s \in Services : Inputs(s) # {}}
First(s) == CHOOSE i \in Inputs(s) : \A j \in Inputs(s) : i <= j
HostPortEnv(s) == app.inputs[First(s)].token.env

(* resolveWithFree comes first and looks at the bands only, also for a     *)
(* service that will be given its default.                                 *)
Configured(v) ==
  \A s \in HasPort : env[v][HostPortEnv(s)] # NoPort \/ s \notin app.fixed
                       \/ Free(Base[s] + Offset[v])

Begin(v) ==
  /\ step = "idle" /\ ups < MaxUps
  /\ Configured(v)
  /\ w' = v
  /\ step' = "resolve"
  /\ todo' = app.inputs
  /\ ups' = ups + 1 /\ quiet' = TRUE
  /\ UNCHANGED <<app, taken, env, bound, ports, defaults, left, blamed, retried, settled,
                 stuck, events>>

(* resolvePortInputs, one input after the other: the main worktree's       *)
(* default, the port of the last up, or one of the band.                   *)
Primary(input) == w = Main /\ input.token.default # NoPort

(* Fault: the port of the last up is probed like any other.                *)
FaultPortsFor(input) ==
  IF Primary(input)
  THEN {p \in {input.token.default} : env[w][input.token.env] = p \/ Free(p)}
  ELSE Resolve(input.service)

PortsFor(input) ==
  IF Primary(input)
  THEN {p \in {input.token.default} : env[w][input.token.env] = p \/ Free(p)}
  ELSE IF env[w][input.token.env] # NoPort THEN {env[w][input.token.env]}
  ELSE Resolve(input.service)

ResolveInput ==
  /\ step = "resolve" /\ todo # <<>>
  /\ \E p \in PortsFor(Head(todo)) :
       /\ ports' = [ports EXCEPT ![Head(todo).service] = p]
       /\ defaults' = IF Primary(Head(todo)) THEN defaults \cup {Head(todo).service}
                      ELSE defaults
  /\ todo' = Tail(todo)
  /\ UNCHANGED <<app, taken, env, bound, w, step, left, blamed, retried, history>>

Resolved ==
  /\ step = "resolve" /\ todo = <<>>
  /\ step' = "write"
  /\ UNCHANGED <<app, taken, env, bound, w, todo, ports, defaults, left, blamed, retried,
                 settled, stuck, quiet, ups, events>>

(* Whose port someone else holds.                                          *)
Blocked(of) ==
  {s \in Services : of[s] \in taken \/
     \E v \in Worktrees, t \in Services : <<v, t>> # <<w, s>> /\ of[s] \in bound[v][t]}

(* envArtifact: the variable of each service's host_port_env.              *)
WriteEnv ==
  /\ step = "write"
  /\ env' = [env EXCEPT ![w] = [e \in Envs |->
       IF \E s \in HasPort : HostPortEnv(s) = e
       THEN ports[CHOOSE s \in HasPort : HostPortEnv(s) = e] ELSE NoPort]]
  /\ step' = "compose"
  /\ left' = Services
  /\ stuck' = IF retried THEN stuck ELSE Blocked(ports)
  /\ UNCHANGED <<app, taken, bound, w, todo, ports, defaults, blamed, retried, settled,
                 quiet, ups, events>>

-----------------------------------------------------------------------------
(* docker compose up -d: a container whose ports have not changed stays,   *)
(* another is replaced.                                                    *)
PortOf(token) == IF env[w][token.env] # NoPort THEN env[w][token.env] ELSE token.default
Published(s) == {PortOf(app.inputs[i].token) : i \in Inputs(s)} \ {NoPort}

Bindable(s) ==
  /\ \A p \in Published(s) : Free(p) \/ p \in bound[w][s]
  /\ \A i, j \in Inputs(s) :
        PortOf(app.inputs[i].token) = PortOf(app.inputs[j].token) => i = j

Converge(s) ==
  /\ step = "compose" /\ s \in left
  /\ Bindable(s)
  /\ bound' = [bound EXCEPT ![w][s] = Published(s)]
  /\ left' = left \ {s}
  /\ UNCHANGED <<app, taken, env, w, step, todo, ports, defaults, blamed, retried, history>>

End(ok) ==
  /\ settled' = [settled EXCEPT ![w] = ok]
  /\ w' = NoWorktree
  /\ step' = "idle" /\ todo' = <<>> /\ ports' = NoPorts /\ defaults' = {} /\ left' = {}
  /\ blamed' = {} /\ retried' = FALSE
  /\ stuck' = {}
  /\ UNCHANGED <<app, taken, env, quiet, ups, events>>

Finish ==
  /\ step = "compose" /\ left = {}
  /\ End(\A s \in HasPort : bound[w][s] # {})
  /\ UNCHANGED bound

(* parseBindFailurePorts: the message names the port, another number that  *)
(* looks like one, or none.                                                *)
Messages(s) ==
  {{p} : p \in {q \in Published(s) : ~Free(q)}} \cup {{Unrelated}, {}}

BindFails(s) ==
  /\ step = "compose" /\ s \in left
  /\ ~Bindable(s)
  /\ ~retried
  /\ bound' = [bound EXCEPT ![w][s] = {}]
  /\ blamed' \in Messages(s)
  /\ step' = "retry"
  /\ UNCHANGED <<app, taken, env, w, todo, ports, defaults, left, retried, history>>

SecondBindFails(s) ==
  /\ step = "compose" /\ s \in left
  /\ ~Bindable(s)
  /\ retried
  /\ bound' = [bound EXCEPT ![w][s] = {}]
  /\ End(FALSE)

(* retryWorktreeComposeAfterBindFailure: if the message names a port of    *)
(* the stack it is moved, otherwise all are.                               *)
Matched == \E s \in HasPort : ports[s] \in blamed
Unmatched == blamed # {} /\ ~Matched

Moved ==
  IF Matched THEN {s \in HasPort : ports[s] \in blamed}
  ELSE IF Unmatched THEN HasPort \ (app.fixed \ defaults)
  ELSE HasPort

(* Fault: a default of the main worktree is moved like any other port.     *)
FaultImmovable == Moved \cap (app.fixed \ IF Unmatched THEN app.fixed ELSE {})

Immovable == Moved \cap (defaults \cup (app.fixed \ IF Unmatched THEN app.fixed ELSE {}))

(* Fault: the first service that is moved is the last one looked at.       *)
FaultRetry ==
  /\ step = "retry"
  /\ Immovable = {}
  /\ \E s \in Moved, p \in Host :
       /\ p \in ResolveAfter(s, ports[s])
       /\ ports' = [ports EXCEPT ![s] = p]
  /\ step' = "write" /\ retried' = TRUE
  /\ UNCHANGED <<app, taken, env, bound, w, todo, defaults, left, blamed, history>>

Retry ==
  /\ step = "retry"
  /\ Immovable = {}
  /\ \E next \in [Moved -> Host] :
       /\ \A s \in Moved : next[s] \in ResolveAfter(s, ports[s])
       /\ ports' = [s \in Services |-> IF s \in Moved THEN next[s] ELSE ports[s]]
  /\ step' = "write" /\ retried' = TRUE
  /\ UNCHANGED <<app, taken, env, bound, w, todo, defaults, left, blamed, history>>

(* No port to be had, one that may not move, or the command is killed.     *)
Fail == step # "idle" /\ End(FALSE) /\ UNCHANGED bound

-----------------------------------------------------------------------------
Event ==
  /\ events < MaxEvents
  /\ events' = events + 1
  /\ quiet' = FALSE

(* docktree down, which takes no lock.                                     *)
Down(v) ==
  /\ Event
  /\ \E s \in Services : bound[v][s] # {}
  /\ bound' = [bound EXCEPT ![v] = [s \in Services |-> {}]]
  /\ settled' = [settled EXCEPT ![v] = FALSE]
  /\ UNCHANGED <<app, taken, env, w, local, stuck, ups>>

(* Another program takes or releases a port.                               *)
HostChanges(p) ==
  /\ Event
  /\ \/ p \in taken /\ taken' = taken \ {p}
     \/ Free(p) /\ taken' = taken \cup {p}
  /\ UNCHANGED <<app, env, bound, w, local, settled, stuck, ups>>

Next ==
  \/ \E v \in Worktrees : Begin(v) \/ Down(v)
  \/ ResolveInput \/ Resolved \/ WriteEnv \/ Finish \/ Retry \/ Fail
  \/ \E s \in Services : Converge(s) \/ BindFails(s) \/ SecondBindFails(s)
  \/ \E p \in Host : HostChanges(p)

Spec == Init /\ [][Next]_vars

-----------------------------------------------------------------------------
(* A service that publishes two ports has one name in the registry and in  *)
(* r.servicePorts, and two services that publish one variable have one     *)
(* port, which only one of them can bind: what follows holds of the others *)
(* only.                                                                   *)
Single ==
  \A i, j \in DOMAIN app.inputs :
     app.inputs[i].service = app.inputs[j].service
       \/ app.inputs[i].token.env = app.inputs[j].token.env => i = j
Pinned(v, s) ==
  s \in app.fixed \/ (v = Main /\ \E i \in Inputs(s) : app.inputs[i].token.default # NoPort)

(* After an up that ended well, the ports that .env.worktree names are     *)
(* those that the containers have, whatever was moved on the way.          *)
EnvTells ==
  Single => \A v \in Worktrees, s \in HasPort :
     settled[v] => bound[v][s] = {env[v][HostPortEnv(s)]}

(* "Stable ports": an up of a stack that is up leaves every container its  *)
(* port and needs no retry, whatever other programs do meanwhile.          *)
Stable ==
  [][Single /\ w # NoWorktree /\ settled[w] /\ settled'[w] => bound'[w] = bound[w]]_vars

(* A fixed service, and a service of the main worktree that has a default, *)
(* never moves, whatever the message of a failed bind says.                *)
PinnedStay ==
  [][\A v \in Worktrees, s \in HasPort :
       Single /\ Pinned(v, s) /\ env[v][HostPortEnv(s)] # NoPort
         => env'[v][HostPortEnv(s)] = env[v][HostPortEnv(s)]]_vars

(* A default is no other service's, and in no other service's band: the    *)
(* retry asks the host for a free port, and would take one that another    *)
(* service of the stack is about to bind.                                  *)
DefaultsApart ==
  \A i, j \in DOMAIN app.inputs :
     LET default == app.inputs[i].token.default
     IN app.inputs[i].service # app.inputs[j].service =>
          /\ default \notin Band(app.inputs[j].service)
          /\ default = NoPort \/ default # app.inputs[j].token.default

(* An up that fails to bind twice has still come nearer: with nothing      *)
(* beside it, fewer ports are held by others than when it began, unless a  *)
(* port that may not move is among them.                                   *)
FailureProgress ==
  Single /\ DefaultsApart /\ quiet /\ retried /\ step = "compose" /\ (\E s \in left : ~Bindable(s))
    => \/ Blocked(ports) \subseteq stuck /\ Blocked(ports) # stuck
       \/ \E s \in stuck : Pinned(w, s)
=============================================================================
