------------------------------- MODULE ProxyProofs -------------------------------
(***************************************************************************)
(* What the proxy reaches, for any apps, worktrees and files, any number   *)
(* of commands and whatever happens beside them.                           *)
(***************************************************************************)
EXTENDS Proxy, SequenceTheorems, TLAPS

InSection(c) == step[c] \in {"ensure", "discover", "converge"}
Own(c) == IF c \in Worktrees THEN {ProxyNetworkName[c], ProxyNetworkName[AppOf[c]]} ELSE {}
Refers(w) == External(w) \cup External(AppOf[w])

(* The proxy's section has one command in it, and an up in the registry    *)
(* has the registry's lock, whichever file that is.                        *)
Holding ==
  /\ \A c \in Commands : InSection(c) => lock[ProxyLock] = c
  /\ \A w \in Worktrees : step[w] = "reserve" => lock[RegistryLock[AppOf[w]]] = w

(* An app has one up at a time.                                            *)
OneUp ==
  \A v, w \in Worktrees :
     AppOf[v] = AppOf[w] /\ step[v] # "idle" /\ step[w] # "idle" => v = w

(* Discovery misses the base network alone, which is always added.         *)
Labels == networks \subseteq labelled \cup {ProxyNetworkKey}
BaseKnown ==
  /\ compose.full => ProxyNetworkKey \in compose.networks
  /\ proxy.full => ProxyNetworkKey \in proxy.networks

(* docker keeps a network that a container is on.                          *)
InUse == \A s \in running : External(s) \subseteq networks

(* Who is in the section makes its own networks and the base.              *)
ToEnsure ==
  \A c \in Commands : step[c] = "ensure" => Range(todo) \subseteq {ProxyNetworkKey} \cup Own(c)

(* A file written after a discovery that worked has all networks.          *)
Complete ==
  \A c \in Commands : step[c] = "converge" /\ compose.full => networks \subseteq compose.networks

(* What an up is about to start is on networks the proxy is on, if they    *)
(* exist.                                                                  *)
Promised ==
  \A w \in Worktrees : step[w] \in {"infra", "stack"} /\ proxy.full =>
     Refers(w) \cap networks \subseteq proxy.networks

(* An up's own networks have been made, or have still to be.               *)
Made ==
  \A w \in Worktrees :
     /\ step[w] = "ensure" => Refers(w) \subseteq networks \cup gone \cup Range(todo)
     /\ step[w] \in {"discover", "converge", "infra", "stack"}
          => Refers(w) \subseteq networks \cup gone

IInv ==
  /\ Holding /\ OneUp /\ Labels /\ BaseKnown /\ InUse
  /\ ToEnsure /\ Complete /\ Promised /\ Made /\ Attached

-----------------------------------------------------------------------------
LEMMA RangeHeadTail ==
  ASSUME NEW S, NEW q \in Seq(S), q # <<>>
  PROVE  Head(q) \in S /\ Tail(q) \in Seq(S) /\ Range(q) = {Head(q)} \cup Range(Tail(q))
<1>1. Head(q) \in S /\ Tail(q) \in Seq(S) /\ Head(q) = q[1]
  OBVIOUS
<1>2. DOMAIN q = 1..Len(q) /\ Len(q) \in Nat /\ Len(q) > 0
  OBVIOUS
<1>3. /\ DOMAIN Tail(q) = 1..(Len(q) - 1)
      /\ \A i \in 1..(Len(q) - 1) : Tail(q)[i] = q[i + 1]
  OBVIOUS
<1>4. ASSUME NEW i \in DOMAIN q PROVE q[i] \in {q[1]} \cup Range(Tail(q))
  <2>1. i = 1 \/ (i - 1 \in 1..(Len(q) - 1) /\ (i - 1) + 1 = i)
    BY <1>2
  <2> QED BY <1>3, <2>1 DEF Range
<1>5. ASSUME NEW i \in DOMAIN Tail(q) PROVE Tail(q)[i] \in Range(q)
  BY <1>2, <1>3 DEF Range
<1> QED BY <1>1, <1>2, <1>4, <1>5 DEF Range

(* The networks that ensureProxy is given, as a set.                       *)
LEMMA OwnNetworks ==
  ASSUME TypeOK, NEW w \in Worktrees
  PROVE  /\ AppProxyNetworks(w) \in Seq(Networks)
         /\ Range(AppProxyNetworks(w)) \subseteq Own(w)
         /\ Refers(w) \subseteq Range(AppProxyNetworks(w))
         /\ External(w) \subseteq {ProxyNetworkName[w]}
         /\ External(AppOf[w]) \subseteq {ProxyNetworkName[AppOf[w]]}
<1> DEFINE cfg == Says[config][AppOf[w]]
           exposed == \E s \in cfg.shared : cfg.expose[s] = "http"
           a == ProxyNetworkName[w]
           b == ProxyNetworkName[AppOf[w]]
<1>1. w \in Stacks /\ AppOf[w] \in Apps /\ AppOf[w] \in Stacks /\ AppOf[w] \notin Worktrees
  BY ProxyAssumption DEF Stacks
<1>2. a \in Networks /\ b \in Networks
  BY <1>1 DEF Networks
<1>3. AppProxyNetworks(w) = IF exposed THEN <<a, b>> ELSE <<a>>
  BY Zenon DEF AppProxyNetworks
<1>4. Range(<<a>>) = {a} /\ Range(<<a, b>>) = {a, b}
  BY DEF Range
<1>5. External(w) \subseteq {a}
  BY DEF External
<1>6. External(AppOf[w]) \subseteq {b} /\ (External(AppOf[w]) # {} => exposed)
  <2>1. config \in Configs
    BY DEF TypeOK
  <2>2. Routes(AppOf[w]) = {x \in cfg.shared : ServiceProxied(cfg, x)}
    BY <1>1, <2>1 DEF Routes, RenderedRoutes
  <2> QED BY <2>2 DEF External, ServiceProxied
<1> QED BY <1>2, <1>3, <1>4, <1>5, <1>6 DEF Own, Refers

(* Every list of networks, lock and document keeps its range; no label is  *)
(* on a network that does not exist, nor on the base.                      *)
THEOREM TypeCorrect == Spec => []TypeOK
<1> USE DEF TypeOK
<1>1. ASSUME Init PROVE TypeOK
  BY <1>1, ProxyAssumption DEF Init, Documents, Steps, Commands
<1>2. TypeOK /\ [Next]_vars => TypeOK'
  <2> SUFFICES ASSUME TypeOK, [Next]_vars PROVE TypeOK'
    OBVIOUS
  <2> USE DEF docker, made, stacks, bounds, Steps, Goto, Commands
  <2>1. ASSUME NEW c \in Commands, Begin(c) PROVE TypeOK'
    BY <2>1, ProxyAssumption DEF Begin
  <2>2. ASSUME NEW c \in Commands, Section(c) PROVE TypeOK'
    <3>1. CASE LockProxy(c)
      <4>1. c # Cli => AppProxyNetworks(c) \in Seq(Networks)
        BY OwnNetworks
      <4>2. todo' \in Seq(Networks)
        <5>1. <<ProxyNetworkKey>> \in Seq(Networks) /\ <<>> \in Seq(Networks)
          BY DEF Networks
        <5> QED BY <3>1, <4>1, <5>1 DEF LockProxy
      <4> QED BY <3>1, <4>2 DEF LockProxy, Acquire
    <3>2. CASE EnsureProxyNetwork(c)
      <4>1. Head(todo) \in Networks /\ Tail(todo) \in Seq(Networks)
        BY <3>2, RangeHeadTail DEF EnsureProxyNetwork
      <4> QED BY <3>2, <4>1 DEF EnsureProxyNetwork
    <3>3. CASE Ensured(c)
      BY <3>3 DEF Ensured
    <3>4. CASE WriteProxyCompose(c)
      <4>1. PICK works \in BOOLEAN, a \in Apps :
               compose' = [networks |-> Discovered(c, works), port |-> Says[config][a].port,
                           full |-> works]
        BY <3>4 DEF WriteProxyCompose
      <4>2. Says[config][a].port \in HTTPPorts
        <5>1. Says[config][a] \in Config
          BY ProxyAssumption
        <5> QED BY <5>1 DEF Config
      <4>3. Discovered(c, works) \subseteq Networks
        BY DEF Discovered, Known, Networks
      <4>4. compose' \in Documents
        BY <4>1, <4>2, <4>3 DEF Documents
      <4> QED BY <3>4, <4>4 DEF WriteProxyCompose
    <3>5. CASE Converge(c)
      BY <3>5 DEF Converge, Release
    <3>6. CASE ConvergeFails(c)
      <4>1. <<>> \in Seq(Networks)
        OBVIOUS
      <4> QED BY <3>6, <4>1 DEF ConvergeFails, Release, Documents
    <3> QED BY <2>2, <3>1, <3>2, <3>3, <3>4, <3>5, <3>6 DEF Section
  <2>3. ASSUME NEW w \in Worktrees, Up(w) PROVE TypeOK'
    <3>1. w \in Stacks /\ AppOf[w] \in Stacks
      BY ProxyAssumption DEF Stacks
    <3>2. CASE LockRegistry(w)
      BY <3>2 DEF LockRegistry, Acquire
    <3>3. CASE UnlockRegistry(w)
      BY <3>3 DEF UnlockRegistry, Release
    <3>4. CASE StartInfra(w)
      BY <3>1, <3>4 DEF StartInfra, Start
    <3>5. CASE StartStack(w)
      BY <3>1, <3>5 DEF StartStack, Start
    <3> QED BY <2>3, <3>2, <3>3, <3>4, <3>5 DEF Up
  <2>4. ASSUME NEW c \in Commands, Refused(c) PROVE TypeOK'
    BY <2>4 DEF Refused, Abort
  <2>5. CASE Beside
    <3>1. ASSUME NEW c \in Commands, Fail(c) PROVE TypeOK'
      BY <2>5, <3>1, ProxyAssumption DEF Beside, Fail, Abort
    <3>2. ASSUME NEW s \in Stacks, Recreate(s) PROVE TypeOK'
      BY <2>5, <3>2, ProxyAssumption DEF Beside, Recreate
    <3>3. ASSUME NEW s \in Stacks, Stop(s) PROVE TypeOK'
      BY <2>5, <3>3, ProxyAssumption DEF Beside, Stop
    <3>4. CASE ProxyDown
      BY <2>5, <3>4, ProxyAssumption DEF Beside, ProxyDown, Documents
    <3>5. ASSUME NEW n \in Networks, PruneNetwork(n) PROVE TypeOK'
      BY <2>5, <3>5, ProxyAssumption DEF Beside, PruneNetwork
    <3>6. ASSUME NEW p \in HTTPPorts, TakePort(p) PROVE TypeOK'
      BY <2>5, <3>6, ProxyAssumption DEF Beside, TakePort
    <3> QED BY <2>5, <3>1, <3>2, <3>3, <3>4, <3>5, <3>6 DEF Beside
  <2>6. CASE UNCHANGED vars
    BY <2>6 DEF vars
  <2> QED BY <2>1, <2>2, <2>3, <2>4, <2>5, <2>6 DEF Next, Command
<1> QED BY <1>1, <1>2, PTL DEF Spec

-----------------------------------------------------------------------------
LEMMA IInvInit == Init => IInv
<1> SUFFICES ASSUME Init PROVE IInv
  OBVIOUS
<1>1. proxy.full = FALSE /\ compose.full = FALSE
  BY DEF Init, None
<1> QED BY <1>1 DEF Init, IInv, Holding, InSection, OneUp, Labels, BaseKnown, InUse, ToEnsure,
             Complete, Promised, Made, Attached, Commands

(* What a stack refers to is fixed by the files.                           *)
LEMMA Fixed ==
  ASSUME [Next]_vars
  PROVE  /\ \A s : External(s)' = External(s)
         /\ \A w : Refers(w)' = Refers(w)
<1>1. config' = config
  BY DEF Next, Beside, Begin, Command, Section, Up, Refused, Fail, Abort, LockProxy,
         EnsureProxyNetwork, Ensured, WriteProxyCompose, Converge, ConvergeFails,
         LockRegistry, UnlockRegistry, StartInfra, StartStack, Start, Recreate, Stop,
         ProxyDown, PruneNetwork, TakePort, vars
<1>2. \A s : External(s)' = External(s)
  BY <1>1 DEF External, Routes
<1> QED BY <1>2 DEF Refers

(* Locks: the section has one command, and so has an app's registry.       *)
LEMMA HoldingStep ==
  ASSUME TypeOK, Holding, [Next]_vars
  PROVE  Holding'
<1> USE ProxyAssumption DEF Holding, InSection, TypeOK, Goto, Acquire, Release, Commands
<1>1. ASSUME NEW c \in Commands, Begin(c) PROVE Holding'
  BY <1>1 DEF Begin
<1>2. ASSUME NEW c \in Commands, Section(c) PROVE Holding'
  BY <1>2 DEF Section, LockProxy, EnsureProxyNetwork, Ensured, WriteProxyCompose, Converge,
              ConvergeFails
<1>3. ASSUME NEW w \in Worktrees, Up(w) PROVE Holding'
  BY <1>3 DEF Up, LockRegistry, UnlockRegistry, StartInfra, StartStack, Start
<1>4. ASSUME NEW c \in Commands, Refused(c) \/ Fail(c) PROVE Holding'
  BY <1>4 DEF Refused, Fail, Abort
<1>5. ASSUME UNCHANGED <<lock, step>> PROVE Holding'
  BY <1>5
<1>6. CASE Beside
  BY <1>4, <1>5, <1>6 DEF Beside, Recreate, Stop, ProxyDown, PruneNetwork, TakePort
<1> QED BY <1>1, <1>2, <1>3, <1>4, <1>5, <1>6 DEF Next, Command, vars

LEMMA OneUpStep ==
  ASSUME TypeOK, OneUp, [Next]_vars
  PROVE  OneUp'
<1> USE ProxyAssumption DEF OneUp, TypeOK, Goto, Commands
<1>1. ASSUME NEW c \in Commands, Begin(c) PROVE OneUp'
  <2>1. \A v \in Commands : v # c => step'[v] = step[v]
    BY <1>1 DEF Begin
  <2>2. ASSUME NEW v \in Worktrees, NEW w \in Worktrees, AppOf[v] = AppOf[w],
               step'[v] # "idle", step'[w] # "idle"
        PROVE  v = w
    <3>1. c \in Worktrees => \A x \in Worktrees : AppOf[x] = AppOf[c] => step[x] = "idle"
      BY <1>1 DEF Begin, Unlocked, Stacks
    <3>2. v # c => step[v] # "idle"
      BY <2>1, <2>2
    <3>3. w # c => step[w] # "idle"
      BY <2>1, <2>2
    <3> QED BY <2>2, <3>1, <3>2, <3>3
  <2> QED BY <2>2
<1>2. ASSUME NEW c \in Commands, Section(c) PROVE OneUp'
  BY <1>2 DEF Section, LockProxy, EnsureProxyNetwork, Ensured, WriteProxyCompose, Converge,
              ConvergeFails
<1>3. ASSUME NEW w \in Worktrees, Up(w) PROVE OneUp'
  BY <1>3 DEF Up, LockRegistry, UnlockRegistry, StartInfra, StartStack, Start
<1>4. ASSUME NEW c \in Commands, Refused(c) \/ Fail(c) PROVE OneUp'
  BY <1>4 DEF Refused, Fail, Abort
<1>5. ASSUME UNCHANGED step PROVE OneUp'
  BY <1>5
<1>6. CASE Beside
  BY <1>4, <1>5, <1>6 DEF Beside, Recreate, Stop, ProxyDown, PruneNetwork, TakePort
<1> QED BY <1>1, <1>2, <1>3, <1>4, <1>5, <1>6 DEF Next, Command, vars

-----------------------------------------------------------------------------
(* What LockProxy has to ensure.                                           *)
LEMMA ToDo ==
  ASSUME TypeOK, NEW c \in Commands, LockProxy(c)
  PROVE  /\ Range(todo') \subseteq {ProxyNetworkKey} \cup Own(c)
         /\ c \in Worktrees => Refers(c) \subseteq Range(todo')
<1> DEFINE rest == IF c = Cli THEN <<>> ELSE AppProxyNetworks(c)
<1>1. c = Cli \/ (c \in Worktrees /\ c # Cli)
  BY ProxyAssumption DEF Commands, Stacks
<1>2. /\ rest \in Seq(Networks)
      /\ Range(rest) \subseteq Own(c)
      /\ c \in Worktrees => Refers(c) \subseteq Range(rest)
  <2>1. CASE c \in Worktrees /\ c # Cli
    BY <2>1, OwnNetworks
  <2>2. CASE c = Cli
    BY <2>2, ProxyAssumption DEF Range, Stacks
  <2> QED BY <1>1, <2>1, <2>2
<1>3. <<ProxyNetworkKey>> \in Seq(Networks) /\ Range(<<ProxyNetworkKey>>) = {ProxyNetworkKey}
  BY DEF Networks, Range
<1>4. todo' = <<ProxyNetworkKey>> \o rest
  BY DEF LockProxy
<1>5. Range(todo') = {ProxyNetworkKey} \cup Range(rest)
  <2> HIDE DEF rest
  <2>1. \A S : \A p, q \in Seq(S) : Range(p \o q) = Range(p) \cup Range(q)
    BY RangeConcatenation, Zenon
  <2>2. \A p, q \in Seq(Networks) : Range(p \o q) = Range(p) \cup Range(q)
    BY <2>1
  <2>3. rest \in Seq(Networks) /\ <<ProxyNetworkKey>> \in Seq(Networks)
    BY <1>2, <1>3
  <2>4. Range(<<ProxyNetworkKey>> \o rest) = Range(<<ProxyNetworkKey>>) \cup Range(rest)
    BY <2>2, <2>3
  <2> QED BY <1>3, <1>4, <2>4
<1> QED BY <1>2, <1>5

(* Two ups that are under way share no network.                            *)
LEMMA Apart ==
  ASSUME TypeOK, OneUp, NEW v \in Worktrees, NEW w \in Worktrees, v # w,
         step[v] # "idle", step[w] # "idle"
  PROVE  Own(v) \cap Refers(w) = {}
<1>1. AppOf[v] # AppOf[w]
  BY DEF OneUp
<1>2. /\ \A s, t \in Stacks : ProxyNetworkName[s] = ProxyNetworkName[t] => s = t
      /\ {v, w, AppOf[v], AppOf[w]} \subseteq Stacks
      /\ v # AppOf[w] /\ w # AppOf[v]
  BY ProxyAssumption DEF ProxyNetworkName, Stacks
<1>3. Refers(w) \subseteq {ProxyNetworkName[w], ProxyNetworkName[AppOf[w]]}
  BY OwnNetworks DEF Refers
<1> QED BY <1>1, <1>2, <1>3 DEF Own

-----------------------------------------------------------------------------
(* The rest of the invariant, under the steps of each command.             *)
Rest ==
  /\ Labels /\ BaseKnown /\ InUse
  /\ ToEnsure /\ Complete /\ Promised /\ Made /\ Attached

LEMMA BeginStep ==
  ASSUME TypeOK, IInv, [Next]_vars, NEW c \in Commands, Begin(c)
  PROVE  Rest'
<1>1. /\ \A x \in Commands : step'[x] \notin {"idle", "resolve", "wait"} => step[x] = step'[x]
      /\ UNCHANGED <<docker, compose, todo>>
  BY DEF Begin, Goto, TypeOK
<1>2. Worktrees \subseteq Commands
  BY DEF Commands
<1> QED BY <1>1, <1>2, Fixed DEF docker, made, stacks, Rest, IInv, Labels, BaseKnown, InUse,
      ToEnsure, Complete, Promised, Made, Attached, Own

LEMMA EnsureStep ==
  ASSUME TypeOK, IInv, [Next]_vars, NEW c \in Commands, EnsureProxyNetwork(c)
  PROVE  Rest'
<1> USE DEF EnsureProxyNetwork, stacks
<1>1. Range(todo) = {Head(todo)} \cup Range(todo')
  BY RangeHeadTail DEF TypeOK
<1>2. Labels' /\ BaseKnown' /\ InUse' /\ Attached'
  BY Fixed DEF IInv, Labels, BaseKnown, InUse, Attached
<1>3. ToEnsure' /\ Complete'
  BY <1>1, Fixed DEF IInv, ToEnsure, Complete, Holding, InSection, Own
<1>4. Made'
  BY <1>1, Fixed DEF IInv, Made, Commands
<1>5. Promised'
  <2> SUFFICES ASSUME NEW w \in Worktrees, step[w] \in {"infra", "stack"}, proxy.full
               PROVE  Refers(w) \cap networks' \subseteq proxy.networks
    BY Fixed DEF Promised
  <2>1. Refers(w) \cap networks \subseteq proxy.networks
    BY DEF IInv, Promised
  <2>2. Head(todo) \in {ProxyNetworkKey} \cup Own(c)
    BY <1>1 DEF IInv, ToEnsure
  <2>3. ProxyNetworkKey \in proxy.networks
    BY DEF IInv, BaseKnown
  <2>4. c # w /\ (c \in Worktrees => Own(c) \cap Refers(w) = {})
    BY Apart DEF IInv
  <2>5. Head(todo) \notin Refers(w) \/ Head(todo) = ProxyNetworkKey
    BY <2>2, <2>4 DEF Own
  <2> QED BY <2>1, <2>3, <2>5
<1> QED BY <1>2, <1>3, <1>4, <1>5 DEF Rest

LEMMA SectionStep ==
  ASSUME TypeOK, IInv, [Next]_vars, NEW c \in Commands, Section(c)
  PROVE  Rest'
<1> USE DEF made, stacks, docker, Goto, Release, Acquire, TypeOK
<1>0. Worktrees \subseteq Commands
  BY DEF Commands
<1>1. CASE LockProxy(c)
  <2>1. \A x \in Commands : x # c => step'[x] = step[x] /\ step[x] # "ensure"
    BY <1>1, ProxyAssumption DEF LockProxy, IInv, Holding, InSection, Commands
  <2>2. ToEnsure'
    BY <1>1, <2>1, ToDo DEF LockProxy, ToEnsure, Own
  <2>3. c \in Worktrees => Refers(c) \subseteq Range(todo')
    BY <1>1, ToDo
  <2>4. step'[c] = "ensure" /\ UNCHANGED <<networks, gone>>
    BY <1>1 DEF LockProxy
  <2>5. Made'
    BY <1>0, <2>1, <2>3, <2>4, Fixed DEF IInv, Made
  <2> QED BY <1>0, <1>1, <2>1, <2>2, <2>5, Fixed
          DEF LockProxy, Rest, IInv, Labels, BaseKnown, InUse, Complete, Promised, Attached
<1>2. CASE EnsureProxyNetwork(c)
  BY <1>2, EnsureStep
<1>3. CASE Ensured(c)
  BY <1>0, <1>3, Fixed DEF Ensured, Range, Rest, IInv, Labels, BaseKnown, InUse, ToEnsure,
         Complete, Promised, Made, Attached, Own
<1>4. CASE WriteProxyCompose(c)
  <2>1. PICK works \in BOOLEAN, a \in Apps :
           compose' = [networks |-> Discovered(c, works), port |-> Says[config][a].port,
                       full |-> works]
    BY <1>4 DEF WriteProxyCompose
  <2>2. BaseKnown'
    BY <1>4, <2>1 DEF WriteProxyCompose, IInv, BaseKnown, Discovered, Known
  <2>3. \A x \in Commands : x # c => step'[x] = step[x] /\ step[x] # "converge"
    BY <1>4, ProxyAssumption DEF WriteProxyCompose, IInv, Holding, InSection
  <2>4. Complete'
    BY <1>4, <2>1, <2>3 DEF WriteProxyCompose, IInv, Complete, Labels, Discovered, Known
  <2> QED BY <1>0, <1>4, <2>2, <2>4, Fixed
          DEF WriteProxyCompose, Rest, IInv, Labels, InUse, ToEnsure, Promised, Made,
              Attached, Own
<1>5. CASE Converge(c)
  <2>1. proxy'.full => networks' \subseteq proxy'.networks
    BY <1>5 DEF Converge, IInv, Complete
  <2>2. Promised' /\ Attached'
    BY <1>5, <2>1, Fixed DEF Converge, IInv, Promised, Attached, InUse
  <2> QED BY <1>0, <1>5, <2>2, Fixed
          DEF Converge, Rest, IInv, Labels, BaseKnown, InUse, ToEnsure, Complete, Made, Own
<1>6. CASE ConvergeFails(c)
  <2>1. proxy'.full = FALSE
    BY <1>6 DEF ConvergeFails, None
  <2>2. \A x \in Commands : x # c => step[x] # "ensure"
    BY <1>6, ProxyAssumption DEF ConvergeFails, IInv, Holding, InSection
  <2> QED BY <1>0, <1>6, <2>1, <2>2, Fixed
          DEF ConvergeFails, Rest, IInv, Labels, BaseKnown, InUse, ToEnsure, Complete,
              Promised, Made, Attached, Own
<1> QED BY <1>1, <1>2, <1>3, <1>4, <1>5, <1>6 DEF Section

LEMMA UpStep ==
  ASSUME TypeOK, IInv, [Next]_vars, NEW w \in Worktrees, Up(w)
  PROVE  Rest'
<1> USE DEF made, stacks, docker, Goto, Release, Acquire, TypeOK
<1>0. Worktrees \subseteq Commands
  BY DEF Commands
<1>1. CASE LockRegistry(w) \/ UnlockRegistry(w)
  BY <1>0, <1>1, Fixed
     DEF LockRegistry, UnlockRegistry, Rest, IInv, Labels, BaseKnown, InUse, ToEnsure,
         Complete, Promised, Made, Attached, Own
<1>2. ASSUME NEW s \in {w, AppOf[w]}, NEW next \in {"stack", "idle"}, Start(w, s, next),
             step[w] \in {"infra", "stack"}
      PROVE  Rest'
  <2>1. proxy.full => External(s) \subseteq proxy.networks
    BY <1>2 DEF Start, IInv, Promised, Refers
  <2>2. InUse' /\ Attached'
    BY <1>2, <2>1, Fixed DEF Start, IInv, InUse, Attached
  <2> QED BY <1>0, <1>2, <2>2, Fixed
          DEF Start, Rest, IInv, Labels, BaseKnown, ToEnsure, Complete, Promised, Made, Own
<1> QED BY <1>1, <1>2 DEF Up, StartInfra, StartStack

LEMMA AbortStep ==
  ASSUME TypeOK, IInv, [Next]_vars, NEW c \in Commands, Refused(c) \/ Fail(c)
  PROVE  Rest'
<1> USE DEF made, stacks, docker, Goto, TypeOK
<1>0. Worktrees \subseteq Commands
  BY DEF Commands
<1>1. Abort(c)
  BY DEF Refused, Fail
<1>2. \A x \in Commands : step'[x] # "idle" => x # c /\ step'[x] = step[x]
  BY <1>1 DEF Abort
<1>3. (\E x \in Commands : step'[x] = "ensure") => todo' = todo
  BY <1>1, <1>2 DEF Abort, IInv, Holding, InSection
<1> QED BY <1>0, <1>1, <1>2, <1>3, Fixed
        DEF Abort, Rest, IInv, Labels, BaseKnown, InUse, ToEnsure, Complete, Promised, Made,
            Attached, Own

LEMMA BesideStep ==
  ASSUME TypeOK, IInv, [Next]_vars, Beside
  PROVE  Rest'
<1> USE DEF made, stacks, TypeOK
<1>0. Worktrees \subseteq Commands
  BY DEF Commands
<1>1. ASSUME NEW s \in Stacks, Recreate(s) \/ Stop(s) PROVE Rest'
  BY <1>0, <1>1, Fixed
     DEF Recreate, Stop, Rest, IInv, Labels, BaseKnown, InUse, ToEnsure, Complete, Promised,
         Made, Attached, Own
<1>2. CASE ProxyDown
  <2>1. proxy'.full = FALSE
    BY <1>2 DEF ProxyDown, None
  <2> QED BY <1>0, <1>2, <2>1, Fixed
          DEF ProxyDown, Rest, IInv, Labels, BaseKnown, InUse, ToEnsure, Complete, Promised,
              Made, Attached, Own
<1>3. ASSUME NEW n \in Networks, PruneNetwork(n) PROVE Rest'
  BY <1>0, <1>3, Fixed
     DEF PruneNetwork, Rest, IInv, Labels, BaseKnown, InUse, ToEnsure, Complete, Promised,
         Made, Attached, Own
<1>4. ASSUME NEW p \in HTTPPorts, TakePort(p) PROVE Rest'
  BY <1>0, <1>4, Fixed
     DEF TakePort, Rest, IInv, Labels, BaseKnown, InUse, ToEnsure, Complete, Promised, Made,
         Attached, Own
<1> QED BY <1>1, <1>2, <1>3, <1>4, AbortStep DEF Beside

(* What every command of the machine keeps of networks, file and proxy.    *)
THEOREM InductiveInvariant == Spec => [](TypeOK /\ IInv)
<1>1. TypeOK /\ IInv /\ [Next]_vars => IInv'
  <2> SUFFICES ASSUME TypeOK, IInv, [Next]_vars PROVE IInv'
    OBVIOUS
  <2>1. Holding' /\ OneUp'
    BY HoldingStep, OneUpStep DEF IInv
  <2>2. ASSUME Next PROVE Rest'
    BY <2>2, BeginStep, SectionStep, UpStep, AbortStep, BesideStep DEF Next, Command
  <2>3. ASSUME UNCHANGED vars PROVE Rest'
    <3>1. Worktrees \subseteq Commands
      BY DEF Commands
    <3> QED BY <2>3, <3>1, Fixed
            DEF vars, docker, made, stacks, Rest, IInv, Labels, BaseKnown, InUse, ToEnsure,
                Complete, Promised, Made, Attached, Own
  <2> QED BY <2>1, <2>2, <2>3 DEF IInv, Rest
<1> QED BY <1>1, IInvInit, TypeCorrect, PTL DEF Spec

(* The proxy is on the network of every stack that an up has started, of   *)
(* whatever app, though `proxy down` takes no lock and the last command to *)
(* start the proxy knew of none of them.                                   *)
THEOREM AlwaysAttached == Spec => []Attached
BY InductiveInvariant, PTL DEF IInv

(* The networks that a projection refers to have all been made when        *)
(* compose starts it: ServiceProxied is never wider than appProxyNetworks. *)
THEOREM NetworksAlwaysReady == Spec => []NetworksReady
<1>1. IInv => NetworksReady
  BY DEF IInv, Made, NetworksReady, Refers
<1> QED BY <1>1, InductiveInvariant, PTL

(* Of two words that begin one sequence the shorter begins the longer.     *)
LEMMA PrefixesOfOne ==
  ASSUME NEW S, NEW p \in Seq(S), NEW q \in Seq(S), NEW u \in Seq(S), NEW v \in Seq(S),
         p \o u = q \o v, Len(p) <= Len(q)
  PROVE  IsPrefix(p, q)
<1>1. \A i \in 1..Len(p) : p[i] = q[i]
  <2> SUFFICES ASSUME NEW i \in 1..Len(p) PROVE p[i] = q[i]
    OBVIOUS
  <2>1. i <= Len(p) + Len(u) /\ i <= Len(q) + Len(v) /\ i <= Len(q) /\ 1 <= i /\ i \in Nat
    BY LenProperties
  <2>2. (p \o u)[i] = p[i]
    BY <2>1, ConcatProperties
  <2>3. (q \o v)[i] = q[i]
    BY <2>1, ConcatProperties
  <2> QED BY <2>2, <2>3
<1>2. SubSeq(q, 1, Len(p)) = p
  BY <1>1, LenProperties, SubSeqProperties, SeqEqual
<1> QED BY <1>2 DEF IsPrefix

LEMMA OneBeginsOther ==
  ASSUME NEW S, NEW p \in Seq(S), NEW q \in Seq(S), NEW u \in Seq(S), NEW v \in Seq(S),
         p \o u = q \o v
  PROVE  IsPrefix(p, q) \/ IsPrefix(q, p)
<1>1. Len(p) <= Len(q) \/ Len(q) <= Len(p)
  BY LenProperties
<1> QED BY <1>1, PrefixesOfOne

(* A host names its app, and begins with its service's label.              *)
HostApp(s) == IF s \in Apps THEN s ELSE AppOf[s]
Bare(s) == s \in Apps \/ Slug[s] = AppLabel[AppOf[s]]
Suffix(s) == IF Bare(s) THEN <<>> ELSE Slug[s]

LEMMA HostShape ==
  ASSUME NEW s \in Stacks, NEW x \in Services
  PROVE  /\ Label[x] \in Seq(STRING) /\ Suffix(s) \in Seq(STRING) /\ HostApp(s) \in Apps
         /\ ProxyHost(s, x) = <<Label[x] \o Suffix(s), AppLabel[HostApp(s)]>>
<1>1. HostApp(s) \in Apps
  BY ProxyAssumption DEF HostApp, Stacks
<1>2. Label[x] \in Seq(STRING) /\ Suffix(s) \in Seq(STRING)
  <2>1. Label[x] \in Seq(STRING) /\ <<>> \in Seq(STRING)
    BY LabelAssumption, EmptySeq
  <2>2. s \notin Apps => Slug[s] \in Seq(STRING)
    BY LabelAssumption DEF Stacks
  <2> QED BY <2>1, <2>2 DEF Suffix, Bare
<1>3. Label[x] \o <<>> = Label[x]
  BY <1>2, ConcatEmptySeq
<1> QED BY <1>1, <1>2, <1>3 DEF ProxyHost, HostApp, Bare, Suffix

(* Two stacks of one app that route one service differ in their suffix:    *)
(* the infra routes shared services only, a worktree none of these.        *)
LEMMA SuffixApart ==
  ASSUME NEW s \in Stacks, NEW t \in Stacks, NEW x, config \in Configs,
         x \in Routes(s), x \in Routes(t), HostApp(s) = HostApp(t), Suffix(s) = Suffix(t)
  PROVE  s = t
<1>1. ASSUME NEW r \in Stacks, x \in Routes(r)
      PROVE  r \in Apps <=> x \in Says[config][HostApp(r)].shared
  BY <1>1 DEF Routes, RenderedRoutes, HostApp
<1>2. s \in Apps <=> t \in Apps
  BY <1>1
<1>3. CASE s \in Apps
  BY <1>2, <1>3 DEF HostApp
<1>4. CASE s \notin Apps
  <2>1. s \in Worktrees /\ t \in Worktrees /\ AppOf[s] = AppOf[t]
    BY <1>2, <1>4 DEF Stacks, HostApp
  <2>2. Slug[s] = Slug[t]
    <3>1. Slug[s] # <<>> /\ Slug[t] # <<>>
      BY <2>1, LabelAssumption
    <3> QED BY <1>2, <1>4, <2>1, <3>1 DEF Suffix, Bare
  <2> QED BY <2>1, <2>2, LabelAssumption
<1> QED BY <1>3, <1>4

(* A host is routed to one container, in whatever stacks run: the infra's  *)
(* hosts and those of a worktree named like the app have no slug, yet      *)
(* never route a service of one name.                                      *)
THEOREM RoutesAlwaysApart == Spec => []RoutesApart
<1>1. TypeOK => RoutesApart
  <2> SUFFICES ASSUME TypeOK, NEW s \in running, NEW t \in running,
                      NEW x \in Routes(s), NEW y \in Routes(t),
                      ProxyHost(s, x) = ProxyHost(t, y)
               PROVE  \/ s = t /\ x = y
                      \/ x # y /\ (IsPrefix(Label[x], Label[y]) \/ IsPrefix(Label[y], Label[x]))
    BY DEF RoutesApart
  <2>1. s \in Stacks /\ t \in Stacks /\ config \in Configs
    BY DEF TypeOK
  <2>2. x \in Services /\ y \in Services
    <3>1. ASSUME NEW r \in Stacks, NEW z \in Routes(r) PROVE z \in Services
      <4>1. HostApp(r) \in Apps
        BY ProxyAssumption DEF HostApp, Stacks
      <4>2. Says[config][HostApp(r)].shared \subseteq Services
        BY <2>1, <4>1, ProxyAssumption DEF Config
      <4> QED BY <2>1, <3>1, <4>2 DEF Routes, RenderedRoutes, HostApp
    <3> QED BY <2>1, <3>1
  <2>3. /\ Label[x] \in Seq(STRING) /\ Label[y] \in Seq(STRING)
        /\ Suffix(s) \in Seq(STRING) /\ Suffix(t) \in Seq(STRING)
        /\ HostApp(s) \in Apps /\ HostApp(t) \in Apps
        /\ Label[x] \o Suffix(s) = Label[y] \o Suffix(t)
        /\ AppLabel[HostApp(s)] = AppLabel[HostApp(t)]
    <3>1. /\ ProxyHost(s, x) = <<Label[x] \o Suffix(s), AppLabel[HostApp(s)]>>
          /\ ProxyHost(t, y) = <<Label[y] \o Suffix(t), AppLabel[HostApp(t)]>>
      BY <2>1, <2>2, HostShape
    <3>2. /\ Label[x] \o Suffix(s) = Label[y] \o Suffix(t)
          /\ AppLabel[HostApp(s)] = AppLabel[HostApp(t)]
      <4>1. ASSUME NEW a, NEW b, NEW c, NEW d, <<a, b>> = <<c, d>>
            PROVE  a = c /\ b = d
        BY <4>1
      <4>2. <<Label[x] \o Suffix(s), AppLabel[HostApp(s)]>>
              = <<Label[y] \o Suffix(t), AppLabel[HostApp(t)]>>
        BY <3>1, Zenon
      <4>3. Label[x] \o Suffix(s) = Label[y] \o Suffix(t)
        BY <4>1, <4>2
      <4>4. AppLabel[HostApp(s)] = AppLabel[HostApp(t)]
        BY <4>1, <4>2
      <4> QED BY <4>3, <4>4
    <3> QED BY <2>1, <2>2, <3>2, HostShape
  <2>4. CASE x = y
    <3>1. Suffix(s) = Suffix(t)
      BY <2>3, <2>4, ConcatSimplifications
    <3>2. HostApp(s) = HostApp(t)
      BY <2>3, LabelAssumption
    <3> QED BY <2>1, <2>4, <3>1, <3>2, SuffixApart
  <2>5. CASE x # y
    BY <2>3, <2>5, OneBeginsOther
  <2> QED BY <2>4, <2>5
<1> QED BY <1>1, TypeCorrect, PTL
=============================================================================
