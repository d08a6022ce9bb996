--------------------------------- MODULE Proxy ---------------------------------
(***************************************************************************)
(* src/cmd/proxy.go with the proxy's side of src/internal/compose: one     *)
(* Caddy container routes the HTTP services of every app and worktree of   *)
(* the machine by their host names.  Each compose project has a network of *)
(* its own for this, made beside compose; whoever brings a stack up        *)
(* connects the proxy to all such networks, under a machine-global lock.   *)
(* `proxy down` takes no lock.  All apps considered have the proxy enabled.*)
(***************************************************************************)
EXTENDS Naturals, Sequences

CONSTANTS
  Apps, Worktrees,
  AppOf,        \* the app a worktree belongs to
  Services,     \* the names of compose services
  Configs,      \* names of what the apps' files may say
  Says,         \* what they say: each app's compose model and docktree.toml
  Label, Slug, AppLabel, \* DNS labels, as sequences of words between dashes
  Locks, RegistryLock,   \* lock files; each app's registry lock
  ProxyLock,
  HTTPPorts,    \* host ports a docktree.toml may give the proxy
  MaxCommands,  \* bound: the commands that are begun
  MaxEvents,    \* bound: the faults and other commands beside them
  Cli,          \* the command `docktree proxy up`
  Nobody

Stacks == Worktrees \cup Apps   \* an app stands for its infra
Commands == Worktrees \cup {Cli}
ProxyNetworkKey == <<"docktree", "proxy">>
ProxyNetworkName == [s \in Stacks |-> <<s, "proxy">>]
Networks == {ProxyNetworkKey} \cup {ProxyNetworkName[s] : s \in Stacks}

(* What ServiceProxied looks at.                                           *)
Config ==
  [shared : SUBSET Services, stateful : SUBSET Services,
   expose : [Services -> {"", "http", "none"}],
   publishes : SUBSET Services, \* those that publish a port of the HTTP allowlist
   port : HTTPPorts]

ASSUME ProxyAssumption ==
  /\ AppOf \in [Worktrees -> Apps]
  /\ Apps \cap Worktrees = {}
  /\ Says \in [Configs -> [Apps -> Config]]
  /\ RegistryLock \in [Apps -> Locks] /\ ProxyLock \in Locks
  /\ Cli \notin Stacks /\ Nobody \notin Commands
  /\ MaxCommands \in Nat /\ MaxEvents \in Nat

(* An app is its name, a worktree its app and its slug: both are slugs of  *)
(* ComputeSlug, on which DNSLabel is one to one.  The labels of services,  *)
(* whose names are compose's, need not differ.                             *)
ASSUME LabelAssumption ==
  /\ Label \in [Services -> Seq(STRING)]
  /\ Slug \in [Worktrees -> Seq(STRING) \ {<<>>}]
  /\ AppLabel \in [Apps -> Seq(STRING)]
  /\ \A a, b \in Apps : AppLabel[a] = AppLabel[b] => a = b
  /\ \A v, w \in Worktrees : AppOf[v] = AppOf[w] /\ Slug[v] = Slug[w] => v = w

VARIABLES
  config,    \* what the files say; it does not change
  networks,  \* the proxy networks that exist
  labelled,  \* those with the label that discovery asks for
  compose,   \* the proxy's compose file
  proxy,     \* the running proxy
  busy,      \* the host ports that other programs hold
  running,   \* the stacks that run
  routed,    \* history: those whose containers up has started
  gone,      \* history: networks that docker has pruned
  lock,      \* the holder of each lock file
  step,      \* where each command is; an up holds its app's up lock meanwhile
  todo,      \* the networks that the holder of the proxy lock has still to ensure
  count, events

made == <<networks, labelled, gone>>
stacks == <<running, routed>>
docker == <<made, stacks, proxy, busy>>
bounds == <<count, events>>
vars == <<config, docker, compose, lock, step, todo, bounds>>

None == [networks |-> {}, port |-> 0, full |-> FALSE]
Documents ==   \* full: history, the discovery worked
  [networks : SUBSET Networks, port : HTTPPorts, full : BOOLEAN] \cup {None}

Steps ==
  {"idle", "resolve", "reserve", "wait", "ensure", "discover", "converge",
   "infra", "stack"}

-----------------------------------------------------------------------------
ServiceProxied(cfg, s) ==
  /\ s \notin cfg.stateful
  /\ \/ cfg.expose[s] = "http"
     \/ s \notin cfg.shared /\ cfg.expose[s] = "" /\ s \in cfg.publishes

(* renderProjection: the proxied services of the infra and of a worktree.  *)
RenderedRoutes ==
  [k \in Configs |-> [s \in Stacks |->
     LET cfg == Says[k][IF s \in Apps THEN s ELSE AppOf[s]]
     IN {x \in IF s \in Apps THEN cfg.shared ELSE Services \ cfg.shared :
           ServiceProxied(cfg, x)}]]

Routes(s) == RenderedRoutes[config][s]

(* renderNetworks: the external network a projection refers to.            *)
External(s) == IF Routes(s) = {} THEN {} ELSE {ProxyNetworkName[s]}

(* Fault: the infra's network is left out.                                 *)
FaultAppProxyNetworks(w) == <<ProxyNetworkName[w]>>

AppProxyNetworks(w) ==
  LET cfg == Says[config][AppOf[w]]
  IN IF \E s \in cfg.shared : cfg.expose[s] = "http"
     THEN <<ProxyNetworkName[w], ProxyNetworkName[AppOf[w]]>>
     ELSE <<ProxyNetworkName[w]>>

(* Fault: the slug is left out.                                            *)
FaultProxyHost(s, x) == <<Label[x], IF s \in Apps THEN AppLabel[s] ELSE AppLabel[AppOf[s]]>>

(* A shared service has one host for the app; so have the services of a    *)
(* worktree named like the app.                                            *)
ProxyHost(s, x) ==
  IF s \in Apps THEN <<Label[x], AppLabel[s]>>
  ELSE IF Slug[s] = AppLabel[AppOf[s]] THEN <<Label[x], AppLabel[AppOf[s]]>>
  ELSE <<Label[x] \o Slug[s], AppLabel[AppOf[s]]>>

TypeOK ==
  /\ config \in Configs
  /\ networks \in SUBSET Networks
  /\ labelled \in SUBSET (networks \ {ProxyNetworkKey})
  /\ compose \in Documents /\ proxy \in Documents
  /\ busy \in SUBSET HTTPPorts
  /\ running \in SUBSET Stacks /\ routed \in SUBSET running
  /\ gone \in SUBSET Networks
  /\ lock \in [Locks -> Commands \cup {Nobody}]
  /\ step \in [Commands -> Steps]
  /\ todo \in Seq(Networks)
  /\ count \in 0..MaxCommands /\ events \in 0..MaxEvents

Init ==
  /\ config \in Configs
  /\ networks = {} /\ labelled = {}
  /\ compose = None /\ proxy = None
  /\ busy = {}
  /\ running = {} /\ routed = {} /\ gone = {}
  /\ lock = [l \in Locks |-> Nobody]
  /\ step = [c \in Commands |-> "idle"]
  /\ todo = <<>>
  /\ count = 0 /\ events = 0

-----------------------------------------------------------------------------
Goto(c, s) == step' = [step EXCEPT ![c] = s]
Acquire(c, l) == lock[l] = Nobody /\ lock' = [lock EXCEPT ![l] = c]
Release(l) == lock' = [lock EXCEPT ![l] = Nobody]

(* The app's up lock.                                                      *)
Unlocked(a) == \A w \in Worktrees : AppOf[w] = a => step[w] = "idle"

Begin(c) ==
  /\ count < MaxCommands
  /\ step[c] = "idle"
  /\ c # Cli => Unlocked(AppOf[c])
  /\ Goto(c, IF c = Cli THEN "wait" ELSE "resolve")
  /\ count' = count + 1
  /\ UNCHANGED <<config, docker, compose, lock, todo, events>>

(* resolveWithModel reserves ports under the registry's lock of the app,   *)
(* the very file of the proxy's lock if the app is called proxy.           *)
LockRegistry(w) ==
  /\ step[w] = "resolve"
  /\ Acquire(w, RegistryLock[AppOf[w]])
  /\ Goto(w, "reserve")
  /\ UNCHANGED <<config, docker, compose, todo, bounds>>

UnlockRegistry(w) ==
  /\ step[w] = "reserve"
  /\ Release(RegistryLock[AppOf[w]])
  /\ Goto(w, "wait")
  /\ UNCHANGED <<config, docker, compose, todo, bounds>>

(* withProxyCriticalSection                                                *)
LockProxy(c) ==
  /\ step[c] = "wait"
  /\ Acquire(c, ProxyLock)
  /\ todo' = <<ProxyNetworkKey>> \o IF c = Cli THEN <<>> ELSE AppProxyNetworks(c)
  /\ Goto(c, "ensure")
  /\ UNCHANGED <<config, docker, compose, bounds>>

(* Fault: a network that was made once is not made again.                  *)
FaultEnsureProxyNetwork(c) ==
  /\ step[c] = "ensure" /\ todo # <<>>
  /\ networks' = networks \cup ({Head(todo)} \ gone)
  /\ labelled' = labelled \cup ({Head(todo)} \ {ProxyNetworkKey})
  /\ todo' = Tail(todo)
  /\ UNCHANGED <<config, compose, proxy, busy, stacks, gone, lock, step, bounds>>

(* A network that exists is taken as it is, whatever its labels.           *)
EnsureProxyNetwork(c) ==
  /\ step[c] = "ensure" /\ todo # <<>>
  /\ networks' = networks \cup {Head(todo)}
  /\ labelled' = labelled \cup ({Head(todo)} \ (networks \cup {ProxyNetworkKey}))
  /\ todo' = Tail(todo)
  /\ UNCHANGED <<config, compose, proxy, busy, stacks, gone, lock, step, bounds>>

Ensured(c) ==
  /\ step[c] = "ensure" /\ todo = <<>>
  /\ Goto(c, "discover")
  /\ UNCHANGED <<config, docker, compose, lock, todo, bounds>>

Known(c) ==
  {ProxyNetworkKey} \cup {n \in Networks : c # Cli /\ \E i \in DOMAIN AppProxyNetworks(c) :
                                                     AppProxyNetworks(c)[i] = n}

(* Fault: every proxy network but the caller's own is left out.            *)
FaultDiscovered(c, works) == Known(c)

(* If docker does not list the networks, the known ones are all.           *)
Discovered(c, works) == Known(c) \cup IF works THEN labelled ELSE {}

(* Fault: the port is one of the registry's, read under its lock.          *)
FaultWriteProxyCompose(c) ==
  /\ step[c] = "discover"
  /\ \E works \in BOOLEAN, a \in Apps :
       /\ c # Cli => a = AppOf[c]
       /\ lock[RegistryLock[a]] = Nobody
       /\ compose' = [networks |-> Discovered(c, works), port |-> Says[config][a].port,
                      full |-> works]
  /\ Goto(c, "converge")
  /\ UNCHANGED <<config, docker, lock, todo, bounds>>

(* discoverProxyNetworks and writeProxyCompose, with the caller's port.    *)
WriteProxyCompose(c) ==
  /\ step[c] = "discover"
  /\ \E works \in BOOLEAN, a \in Apps :
       /\ c # Cli => a = AppOf[c]
       /\ compose' = [networks |-> Discovered(c, works), port |-> Says[config][a].port,
                      full |-> works]
  /\ Goto(c, "converge")
  /\ UNCHANGED <<config, docker, lock, todo, bounds>>

(* docker compose up -d on the proxy's compose file.                       *)
Converge(c) ==
  /\ step[c] = "converge"
  /\ compose.networks \subseteq networks
  /\ compose = proxy \/ compose.port \notin busy
  /\ proxy' = compose
  /\ Release(ProxyLock)
  /\ Goto(c, IF c = Cli THEN "idle" ELSE "infra")
  /\ UNCHANGED <<config, made, stacks, busy, compose, todo, bounds>>

(* The port is taken: the container that was replaced is gone.             *)
ConvergeFails(c) ==
  /\ step[c] = "converge"
  /\ compose.networks \subseteq networks
  /\ compose # proxy /\ compose.port \in busy
  /\ proxy' = None
  /\ Release(ProxyLock)
  /\ Goto(c, "idle")
  /\ todo' = <<>>
  /\ UNCHANGED <<config, made, stacks, busy, compose, bounds>>

(* runUp goes on: compose starts the infra and the stack, on networks that *)
(* it does not make itself.                                                *)
Start(w, s, next) ==
  /\ External(s) \subseteq networks
  /\ running' = running \cup {s}
  /\ routed' = routed \cup {s}
  /\ Goto(w, next)
  /\ UNCHANGED <<config, made, proxy, busy, compose, lock, todo, bounds>>

StartInfra(w) == step[w] = "infra" /\ Start(w, AppOf[w], "stack")
StartStack(w) == step[w] = "stack" /\ Start(w, w, "idle")

Abort(c) ==
  /\ Goto(c, "idle")
  /\ lock' = [l \in Locks |-> IF lock[l] = c THEN Nobody ELSE lock[l]]
  /\ todo' = IF lock[ProxyLock] = c THEN <<>> ELSE todo
  /\ UNCHANGED <<config, docker, compose, count>>

(* compose refuses a file that refers to a network that does not exist.    *)
Refused(c) ==
  /\ \/ step[c] = "converge" /\ ~(compose.networks \subseteq networks)
     \/ step[c] = "infra" /\ ~(External(AppOf[c]) \subseteq networks)
     \/ step[c] = "stack" /\ ~(External(c) \subseteq networks)
  /\ Abort(c)
  /\ UNCHANGED events

(* Any docker command may fail, and a command may be killed; the kernel    *)
(* releases its locks.                                                     *)
Fail(c) ==
  /\ step[c] # "idle"
  /\ Abort(c)

-----------------------------------------------------------------------------
(* shared up, fork and unfork start containers without a look at the proxy.*)
Recreate(s) ==
  /\ Unlocked(IF s \in Apps THEN s ELSE AppOf[s])
  /\ External(s) \subseteq networks
  /\ running' = running \cup {s}
  /\ UNCHANGED <<config, made, routed, proxy, busy, compose, lock, step, todo, count>>

(* down, shared down                                                       *)
Stop(s) ==
  /\ s \in running
  /\ running' = running \ {s}
  /\ routed' = routed \ {s}
  /\ UNCHANGED <<config, made, proxy, busy, compose, lock, step, todo, count>>

ProxyDown ==
  /\ proxy # None
  /\ proxy' = None
  /\ UNCHANGED <<config, made, stacks, busy, compose, lock, step, todo, count>>

(* docker network prune                                                    *)
PruneNetwork(n) ==
  /\ n \in networks
  /\ n \notin proxy.networks
  /\ \A s \in running : n \notin External(s)
  /\ networks' = networks \ {n}
  /\ labelled' = labelled \ {n}
  /\ gone' = gone \cup {n}
  /\ UNCHANGED <<config, stacks, proxy, busy, compose, lock, step, todo, count>>

(* Another program takes or releases a port.                               *)
TakePort(p) ==
  /\ proxy.port # p
  /\ busy' = IF p \in busy THEN busy \ {p} ELSE busy \cup {p}
  /\ UNCHANGED <<config, made, stacks, proxy, compose, lock, step, todo, count>>

Section(c) ==
  \/ LockProxy(c) \/ EnsureProxyNetwork(c) \/ Ensured(c)
  \/ WriteProxyCompose(c) \/ Converge(c) \/ ConvergeFails(c)

(* runUp                                                                   *)
Up(w) == LockRegistry(w) \/ UnlockRegistry(w) \/ StartInfra(w) \/ StartStack(w)

Command(c) == Section(c) \/ (c \in Worktrees /\ Up(c)) \/ Refused(c)

Beside ==
  /\ events < MaxEvents
  /\ events' = events + 1
  /\ \/ \E c \in Commands : Fail(c)
     \/ \E s \in Stacks : Recreate(s) \/ Stop(s)
     \/ ProxyDown
     \/ \E n \in Networks : PruneNetwork(n)
     \/ \E p \in HTTPPorts : TakePort(p)

Next == Beside \/ \E c \in Commands : Begin(c) \/ Command(c)

Spec == Init /\ [][Next]_vars

(* docker answers, well or not; a wait for a lock ends when it is free.    *)
FairSpec == Spec /\ \A c \in Commands : WF_vars(Command(c))

-----------------------------------------------------------------------------
(* "The single Caddy proxy attaches to every one of these": it reaches     *)
(* every stack that an up has started, of whatever app, though the last    *)
(* command to start it knew of none of them; unless docker did not list    *)
(* the networks then.                                                      *)
Attached ==
  proxy.full => \A s \in routed : External(s) \subseteq proxy.networks

(* When up starts containers, every network that their projection takes    *)
(* for external has been made: the two classifiers of HTTP services agree. *)
NetworksReady ==
  \A w \in Worktrees :
     /\ step[w] = "infra" => External(AppOf[w]) \subseteq networks \cup gone
     /\ step[w] \in {"infra", "stack"} => External(w) \subseteq networks \cup gone

(* "each worktree's unique host yields its own non-colliding route": no    *)
(* two containers that run have one host, provided that no service of the  *)
(* app is called like another, or like another followed by a dash, once    *)
(* both are DNS labels.                                                    *)
IsPrefix(s, t) == Len(s) <= Len(t) /\ SubSeq(t, 1, Len(s)) = s

RoutesApart ==
  \A s, t \in running : \A x \in Routes(s), y \in Routes(t) :
     ProxyHost(s, x) = ProxyHost(t, y) =>
        \/ s = t /\ x = y
        \/ x # y /\ (IsPrefix(Label[x], Label[y]) \/ IsPrefix(Label[y], Label[x]))

(* The commands all end, also when an app's registry lock is the proxy's.  *)
CommandsEnd == <>[](\A c \in Commands : step[c] = "idle")
=============================================================================
