----------------------------- MODULE UpPortsProofs -----------------------------
(***************************************************************************)
(* What an up does to the ports of its stack, for any apps, worktrees and  *)
(* bands, any number of ups and anything that happens beside them.         *)
(***************************************************************************)
EXTENDS UpPorts, TLAPS

Input == [service : Services, token : Token]

LEMMA HostFacts ==
  /\ NoPort \notin Host /\ Unrelated \notin Host /\ Host \subseteq Nat
  /\ \A s \in Services : Base[s] \in Nat /\ Band(s) \subseteq Host
  /\ BandWidth \in Nat \ {0}
  /\ \A v \in Worktrees : Offset[v] \in 0..(BandWidth - 1)
  /\ Main \in Worktrees /\ NoWorktree \notin Worktrees
BY PortsAssumption DEF NoPort

LEMMA AppFacts ==
  ASSUME app \in Apps
  PROVE  /\ app.inputs \in Seq(Input) /\ app.fixed \subseteq Services
         /\ \A i \in DOMAIN app.inputs :
               /\ app.inputs[i] \in Input
               /\ app.inputs[i].service \in Services
               /\ app.inputs[i].token.env \in Envs
               /\ app.inputs[i].token.default \in Host \cup {NoPort}
<1>1. app \in App
  BY PortsAssumption
<1>2. app.inputs \in Seq(Input) /\ app.fixed \subseteq Services
  BY <1>1 DEF App, Input
<1>3. \A i \in DOMAIN app.inputs : app.inputs[i] \in Input
  BY <1>2
<1> QED BY <1>2, <1>3 DEF Input, Token

(* The walk round a band stays in it.                                      *)
LEMMA ScanInBand ==
  ASSUME NEW s \in Services, NEW start \in Band(s), NEW skip
  PROVE  \A p \in Scan(s, start, skip) : p \in Band(s) /\ p # skip /\ Free(p)
<1> DEFINE port(k) == Base[s] + ((start - Base[s] + k) % BandWidth)
<1>1. Base[s] \in Nat /\ BandWidth \in Nat \ {0} /\ start - Base[s] \in Nat
  BY HostFacts DEF Band
<1>2. ASSUME NEW k \in 0..(BandWidth - 1) PROVE port(k) \in Band(s)
  <2>1. start - Base[s] + k \in Nat
    BY <1>1
  <2>2. (start - Base[s] + k) % BandWidth \in 0..(BandWidth - 1)
    BY <1>1, <2>1
  <2> QED BY <1>1, <2>2 DEF Band
<1> QED BY <1>2 DEF Scan

LEMMA ResolveInBand ==
  ASSUME NEW s \in Services, w \in Worktrees
  PROVE  \A p \in Resolve(s) : p \in Band(s) /\ Free(p)
<1>1. Base[s] + Offset[w] \in Band(s)
  BY HostFacts DEF Band
<1> QED BY <1>1, ScanInBand DEF Resolve

LEMMA ResolveAfterInBand ==
  ASSUME NEW s \in Services, NEW failed
  PROVE  \A p \in ResolveAfter(s, failed) : p \in Band(s) /\ p # failed /\ Free(p)
<1> SUFFICES ASSUME failed \in Band(s)
             PROVE  \A p \in ResolveAfter(s, failed) : p \in Band(s) /\ p # failed /\ Free(p)
  BY DEF ResolveAfter
<1>1. (IF failed + 1 = Base[s] + BandWidth THEN Base[s] ELSE failed + 1) \in Band(s)
  BY HostFacts DEF Band
<1> QED BY <1>1, ScanInBand DEF ResolveAfter

(* What an input is given is a port of the host.                           *)
LEMMA PortsForType ==
  ASSUME TypeOK, w \in Worktrees, NEW input \in Input
  PROVE  \A p \in PortsFor(input) :
            /\ p \in Host
            /\ Primary(input) => p = input.token.default
            /\ ~Primary(input) /\ env[w][input.token.env] # NoPort
                 => p = env[w][input.token.env]
            /\ ~Primary(input) /\ env[w][input.token.env] = NoPort
                 => p \in Band(input.service)
<1>1. input.service \in Services /\ input.token \in Token
  BY DEF Input
<1>2. input.token.default \in Host \cup {NoPort} /\ input.token.env \in Envs
  BY <1>1 DEF Token
<1>3. env[w][input.token.env] \in Host \cup {NoPort}
  BY <1>2 DEF TypeOK
<1>4. Band(input.service) \subseteq Host
  BY <1>1, HostFacts
<1> QED BY <1>1, <1>2, <1>3, <1>4, ResolveInBand DEF PortsFor, Primary

LEMMA PublishedType ==
  ASSUME TypeOK, w \in Worktrees, NEW s \in Services
  PROVE  Published(s) \subseteq Host
<1>1. \A i \in Inputs(s) : PortOf(app.inputs[i].token) \in Host \cup {NoPort}
  BY AppFacts DEF Inputs, PortOf, TypeOK
<1> QED BY <1>1 DEF Published

(* No two containers share a host port, and none has one that another      *)
(* program holds: docker refuses the bind.                                 *)
LEMMA BoundType ==
  ASSUME TypeOK, w \in Worktrees, NEW s \in Services, NEW P \in SUBSET (Host \ taken),
         \A p \in P : Free(p) \/ p \in bound[w][s],
         bound' = [bound EXCEPT ![w][s] = P]
  PROVE  /\ bound' \in [Worktrees -> [Services -> SUBSET (Host \ taken)]]
         /\ \A v, x \in Worktrees, t, r \in Services :
               <<v, t>> # <<x, r>> => bound'[v][t] \cap bound'[x][r] = {}
<1>1. bound \in [Worktrees -> [Services -> SUBSET (Host \ taken)]]
  BY DEF TypeOK
<1>2. \A v \in Worktrees, t \in Services :
        bound'[v][t] = IF v = w /\ t = s THEN P ELSE bound[v][t]
  BY <1>1
<1>3. \A v \in Worktrees, t \in Services : <<v, t>> # <<w, s>> => P \cap bound[v][t] = {}
  BY DEF Free, TypeOK
<1>4. \A v, x \in Worktrees, t, r \in Services :
        <<v, t>> # <<x, r>> => bound[v][t] \cap bound[x][r] = {}
  BY DEF TypeOK
<1>5. ASSUME NEW v \in Worktrees, NEW x \in Worktrees, NEW t \in Services, NEW r \in Services,
             <<v, t>> # <<x, r>>
      PROVE  bound'[v][t] \cap bound'[x][r] = {}
  BY <1>2, <1>3, <1>4, <1>5
<1> QED BY <1>1, <1>5

LEMMA EndType ==
  ASSUME TypeOK, w \in Worktrees, NEW ok \in BOOLEAN, End(ok),
         bound' \in [Worktrees -> [Services -> SUBSET (Host \ taken)]],
         \A v, x \in Worktrees, t, r \in Services :
            <<v, t>> # <<x, r>> => bound'[v][t] \cap bound'[x][r] = {}
  PROVE  TypeOK'
<1>1. NoPorts \in [Services -> Host \cup {NoPort}]
  BY DEF NoPorts
<1>2. settled' \in [Worktrees -> BOOLEAN]
  BY DEF End, TypeOK
<1>3. /\ app' = app /\ taken' = taken /\ env' = env /\ quiet' = quiet /\ ups' = ups
      /\ events' = events /\ w' = NoWorktree /\ step' = "idle" /\ todo' = <<>>
      /\ ports' = NoPorts /\ defaults' = {} /\ left' = {} /\ blamed' = {}
      /\ retried' = FALSE /\ stuck' = {}
  BY DEF End
<1>4. todo' \in Seq([service : Services, token : Token])
  BY <1>3
<1>5. step' \in Steps /\ (step' = "idle" <=> w' = NoWorktree) /\ w' \in Worktrees \cup {NoWorktree}
  BY <1>3 DEF Steps
<1>6. /\ taken' \subseteq Host /\ app' \in Apps
      /\ env' \in [Worktrees -> [Envs -> Host \cup {NoPort}]]
      /\ bound' \in [Worktrees -> [Services -> SUBSET (Host \ taken')]]
  BY <1>3 DEF TypeOK
<1>7. /\ blamed' \subseteq Host \cup {Unrelated} /\ retried' \in BOOLEAN /\ quiet' \in BOOLEAN
      /\ ups' \in 0..MaxUps /\ events' \in 0..MaxEvents
      /\ defaults' \subseteq Services /\ left' \subseteq Services /\ stuck' \subseteq Services
  BY <1>3 DEF TypeOK
<1> QED BY <1>1, <1>2, <1>3, <1>4, <1>5, <1>6, <1>7 DEF TypeOK

-----------------------------------------------------------------------------
(* Every variable keeps its range, and no two containers have one port.    *)
THEOREM TypeCorrect == Spec => []TypeOK
<1> USE DEF TypeOK
<1>1. ASSUME Init PROVE TypeOK
  <2>1. NoPorts \in [Services -> Host \cup {NoPort}]
    BY DEF NoPorts
  <2>2. taken \subseteq Host /\ ups \in 0..MaxUps /\ events \in 0..MaxEvents
    BY <1>1, PortsAssumption DEF Init
  <2>3. todo \in Seq([service : Services, token : Token])
    BY <1>1 DEF Init
  <2>4. step \in Steps /\ (step = "idle" <=> w = NoWorktree)
    BY <1>1 DEF Init, Steps
  <2>5. /\ bound \in [Worktrees -> [Services -> SUBSET (Host \ taken)]]
        /\ \A v, x \in Worktrees, s, t \in Services :
              <<v, s>> # <<x, t>> => bound[v][s] \cap bound[x][t] = {}
    BY <1>1 DEF Init
  <2>6. /\ env \in [Worktrees -> [Envs -> Host \cup {NoPort}]]
        /\ settled \in [Worktrees -> BOOLEAN]
    BY <1>1 DEF Init
  <2> QED BY <1>1, <2>1, <2>2, <2>3, <2>4, <2>5, <2>6 DEF Init
<1>2. ASSUME TypeOK, [Next]_vars PROVE TypeOK'
  <2> USE DEF local, history, Steps
  <2>0. step # "idle" => w \in Worktrees
    BY <1>2
  <2>1. ASSUME NEW v \in Worktrees, Begin(v) PROVE TypeOK'
    <3>1. todo' \in Seq([service : Services, token : Token])
      BY <1>2, <2>1, AppFacts DEF Begin, Input
    <3>2. ups' \in 0..MaxUps
      BY <1>2, <2>1, PortsAssumption DEF Begin
    <3>3. step' \in Steps /\ (step' = "idle" <=> w' = NoWorktree) /\ w' \in Worktrees
      BY <2>1, HostFacts DEF Begin
    <3> QED BY <1>2, <2>1, <3>1, <3>2, <3>3 DEF Begin
  <2>2. ASSUME NEW v \in Worktrees, Down(v) PROVE TypeOK'
    <3>1. \A x \in Worktrees, s \in Services : bound'[x][s] \subseteq bound[x][s]
      BY <1>2, <2>2 DEF Down
    <3>2. bound' \in [Worktrees -> [Services -> SUBSET (Host \ taken)]]
      BY <1>2, <2>2 DEF Down
    <3>3. \A x, y \in Worktrees, s, t \in Services :
            <<x, s>> # <<y, t>> => bound'[x][s] \cap bound'[y][t] = {}
      BY <1>2, <3>1
    <3>4. events' \in 0..MaxEvents
      BY <1>2, <2>2, PortsAssumption DEF Down, Event
    <3>5. settled' \in [Worktrees -> BOOLEAN] /\ quiet' \in BOOLEAN
      BY <1>2, <2>2 DEF Down, Event
    <3> QED BY <1>2, <2>2, <3>2, <3>3, <3>4, <3>5 DEF Down
  <2>3. CASE ResolveInput
    <3>1. w \in Worktrees /\ Head(todo) \in Input /\ Tail(todo) \in Seq(Input)
      <4>1. todo \in Seq(Input) /\ todo # <<>>
        BY <1>2, <2>3 DEF ResolveInput, Input
      <4>2. w \in Worktrees
        BY <2>0, <2>3 DEF ResolveInput
      <4> QED BY <4>1, <4>2
    <3>2. PICK p \in PortsFor(Head(todo)) :
             /\ ports' = [ports EXCEPT ![Head(todo).service] = p]
             /\ defaults' = IF Primary(Head(todo)) THEN defaults \cup {Head(todo).service}
                            ELSE defaults
      BY <2>3 DEF ResolveInput
    <3>3. p \in Host
      BY <1>2, <3>1, PortsForType
    <3>4. Head(todo).service \in Services
      BY <3>1 DEF Input
    <3> QED BY <1>2, <2>3, <3>1, <3>2, <3>3, <3>4 DEF ResolveInput, Input
  <2>4. CASE Resolved
    BY <1>2, <2>4 DEF Resolved
  <2>5. CASE WriteEnv
    <3>1. ASSUME NEW e \in Envs, \E s \in HasPort : HostPortEnv(s) = e
          PROVE  ports[CHOOSE s \in HasPort : HostPortEnv(s) = e] \in Host \cup {NoPort}
      <4>1. (CHOOSE s \in HasPort : HostPortEnv(s) = e) \in HasPort
        BY <3>1
      <4> QED BY <1>2, <4>1 DEF HasPort
    <3>2. env' \in [Worktrees -> [Envs -> Host \cup {NoPort}]]
      BY <1>2, <2>0, <2>5, <3>1 DEF WriteEnv
    <3>3. stuck' \subseteq Services
      BY <1>2, <2>5 DEF WriteEnv, Blocked
    <3> QED BY <1>2, <2>5, <3>2, <3>3 DEF WriteEnv
  <2>6. ASSUME NEW s \in Services, Converge(s) PROVE TypeOK'
    <3>1. w \in Worktrees /\ \A p \in Published(s) : Free(p) \/ p \in bound[w][s]
      BY <1>2, <2>0, <2>6 DEF Converge, Bindable
    <3>2. Published(s) \in SUBSET (Host \ taken)
      BY <1>2, <3>1, PublishedType DEF Free
    <3>3. /\ bound' \in [Worktrees -> [Services -> SUBSET (Host \ taken)]]
          /\ \A v, x \in Worktrees, t, r \in Services :
                <<v, t>> # <<x, r>> => bound'[v][t] \cap bound'[x][r] = {}
      <4>1. bound' = [bound EXCEPT ![w][s] = Published(s)]
        BY <2>6 DEF Converge
      <4> HIDE DEF TypeOK
      <4> QED BY <1>2, <3>1, <3>2, <4>1, BoundType
    <3> QED BY <1>2, <2>6, <3>3 DEF Converge
  <2>7. CASE Finish
    BY <1>2, <2>0, <2>7, EndType DEF Finish
  <2>8. ASSUME NEW s \in Services, BindFails(s) \/ SecondBindFails(s) PROVE TypeOK'
    <3>1. w \in Worktrees /\ bound' = [bound EXCEPT ![w][s] = {}]
      BY <1>2, <2>0, <2>8 DEF BindFails, SecondBindFails
    <3>2. /\ bound' \in [Worktrees -> [Services -> SUBSET (Host \ taken)]]
          /\ \A v, x \in Worktrees, t, r \in Services :
                <<v, t>> # <<x, r>> => bound'[v][t] \cap bound'[x][r] = {}
      BY <1>2, <3>1, BoundType
    <3>3. CASE SecondBindFails(s)
      BY <1>2, <3>1, <3>2, <3>3, EndType DEF SecondBindFails
    <3>4. CASE BindFails(s)
      <4>1. blamed' \subseteq Host \cup {Unrelated}
        BY <1>2, <3>1, <3>4, PublishedType DEF BindFails, Messages
      <4> QED BY <1>2, <3>2, <3>4, <4>1 DEF BindFails
    <3> QED BY <2>8, <3>3, <3>4
  <2>9. CASE Retry
    <3>1. PICK next \in [Moved -> Host] :
             ports' = [s \in Services |-> IF s \in Moved THEN next[s] ELSE ports[s]]
      BY <2>9 DEF Retry
    <3>2. ports' \in [Services -> Host \cup {NoPort}]
      BY <1>2, <3>1
    <3> QED BY <1>2, <2>9, <3>2 DEF Retry
  <2>10. CASE Fail
    BY <1>2, <2>0, <2>10, EndType DEF Fail
  <2>11. ASSUME NEW p \in Host, HostChanges(p) PROVE TypeOK'
    <3>1. taken' \subseteq Host /\ \A v \in Worktrees, s \in Services : bound[v][s] \cap taken' = {}
      BY <1>2, <2>11 DEF HostChanges, Free
    <3>2. Event
      BY <2>11 DEF HostChanges
    <3>4. events' \in 0..MaxEvents
      BY <1>2, <3>2, PortsAssumption DEF Event
    <3>5. quiet' \in BOOLEAN
      BY <3>2 DEF Event
    <3>3. bound' = bound /\ bound' \in [Worktrees -> [Services -> SUBSET (Host \ taken')]]
      BY <1>2, <2>11, <3>1 DEF HostChanges
    <3> QED BY <1>2, <2>11, <3>1, <3>3, <3>4, <3>5 DEF HostChanges
  <2>12. CASE UNCHANGED vars
    BY <1>2, <2>12 DEF vars
  <2> QED BY <1>2, <2>1, <2>2, <2>3, <2>4, <2>5, <2>6, <2>7, <2>8, <2>9, <2>10, <2>11, <2>12
          DEF Next
<1> QED BY <1>1, <1>2, PTL DEF Spec

-----------------------------------------------------------------------------
(* The inductive invariant, of apps whose services publish one port each.  *)
(* What a service publishes, whether the up gives it its default, and the  *)
(* ports it may have.                                                      *)
TokenOf(s) == app.inputs[First(s)].token
Prim(v, s) == v = Main /\ TokenOf(s).default # NoPort
Mine(s) == Band(s) \cup ({TokenOf(s).default} \ {NoPort})

(* The inputs are resolved in order.                                       *)
Seen(s) == step # "resolve" \/ First(s) <= Len(app.inputs) - Len(todo)
Walk ==
  step = "resolve" =>
     /\ Len(todo) <= Len(app.inputs)
     /\ \A k \in 1..Len(todo) : todo[k] = app.inputs[Len(app.inputs) - Len(todo) + k]

Fresh == step = "idle" => ports = NoPorts /\ defaults = {}

(* A port is one of the service's own; a default is taken and known for    *)
(* one; a port that may not move, and any before the retry, is the one of  *)
(* the last up.                                                            *)
Chosen ==
  step # "idle" =>
     /\ \A s \in HasPort : Seen(s) =>
          /\ ports[s] \in Mine(s)
          /\ Prim(w, s) => ports[s] = TokenOf(s).default /\ s \in defaults
          /\ Pinned(w, s) \/ ~retried => env[w][HostPortEnv(s)] \in {NoPort, ports[s]}
     /\ \A s \in HasPort : s \in defaults => Prim(w, s)
     /\ \A s \in Services \ HasPort : ports[s] = NoPort

(* .env.worktree names own ports, and the defaults where they hold.        *)
EnvMine ==
  \A v \in Worktrees, s \in HasPort :
     /\ env[v][HostPortEnv(s)] \in Mine(s) \cup {NoPort}
     /\ Prim(v, s) => env[v][HostPortEnv(s)] \in {NoPort, TokenOf(s).default}

(* compose reads what was resolved, and starts containers on that.         *)
Written ==
  step \in {"compose", "retry"} => \A s \in HasPort : env[w][HostPortEnv(s)] = ports[s]
Started ==
  step = "compose" => \A s \in HasPort \ left : bound[w][s] \subseteq {ports[s]}
BoundMine ==
  \A v \in Worktrees :
     /\ \A s \in HasPort : bound[v][s] \subseteq Mine(s)
     /\ \A s \in Services \ HasPort : bound[v][s] = {}

(* There is one retry, and none for a stack that is up.                    *)
OneRetry ==
  /\ retried => step \in {"write", "compose"}
  /\ w \in Worktrees /\ settled[w] => ~retried /\ step # "retry"
Settled ==
  \A v \in Worktrees, s \in HasPort :
     settled[v] => env[v][HostPortEnv(s)] # NoPort /\ bound[v][s] = {env[v][HostPortEnv(s)]}

PortInv ==
  Single => Walk /\ Fresh /\ Chosen /\ EnvMine /\ Written /\ Started /\ BoundMine /\ OneRetry /\ Settled

(* With nothing beside the up, the services that cannot bind are those     *)
(* that could not at first; one of them was blamed; moving it frees it.    *)
Fewer(of) == Blocked(of) \subseteq stuck /\ Blocked(of) # stuck
Progress ==
  Single /\ DefaultsApart /\ quiet =>
     /\ step \in {"compose", "retry"} /\ ~retried => stuck = Blocked(ports)
     /\ step = "retry" => \E s \in stuck : s \in Moved \/ Pinned(w, s)
     /\ retried => Fewer(ports) \/ \E s \in stuck : Pinned(w, s)

LEMMA OneInput ==
  ASSUME app \in Apps, Single, NEW s \in HasPort
  PROVE  /\ First(s) \in DOMAIN app.inputs /\ Inputs(s) = {First(s)}
         /\ app.inputs[First(s)].service = s
         /\ HostPortEnv(s) = TokenOf(s).env /\ HostPortEnv(s) \in Envs
         /\ TokenOf(s).default \in Host \cup {NoPort}
         /\ s \in Services
<1>1. PICK i \in Inputs(s) : TRUE
  BY DEF HasPort
<1>2. i \in DOMAIN app.inputs /\ app.inputs[i].service = s
  BY <1>1 DEF Inputs
<1>3. Inputs(s) = {i}
  BY <1>2 DEF Inputs, Single
<1>4. i \in Nat
  BY <1>2, AppFacts
<1>5. First(s) = i
  BY <1>3, <1>4 DEF First
<1> QED BY <1>2, <1>3, <1>5, AppFacts DEF HostPortEnv, TokenOf, HasPort

LEMMA OwnEnv ==
  ASSUME app \in Apps, Single, NEW s \in HasPort, NEW t \in HasPort,
         HostPortEnv(s) = HostPortEnv(t)
  PROVE  s = t
BY OneInput DEF Single, HostPortEnv

LEMMA InputOf ==
  ASSUME app \in Apps, Single, NEW i \in DOMAIN app.inputs
  PROVE  /\ app.inputs[i].service \in HasPort
         /\ First(app.inputs[i].service) = i
         /\ TokenOf(app.inputs[i].service) = app.inputs[i].token
<1>1. app.inputs[i].service \in HasPort
  BY AppFacts DEF HasPort, Inputs
<1> QED BY <1>1, OneInput DEF Inputs, TokenOf

LEMMA AppFixed ==
  ASSUME app' = app
  PROVE  /\ Single' = Single /\ HasPort' = HasPort /\ DefaultsApart' = DefaultsApart
         /\ \A s : /\ First(s)' = First(s)
                   /\ TokenOf(s)' = TokenOf(s)
                   /\ HostPortEnv(s)' = HostPortEnv(s)
                   /\ Mine(s)' = Mine(s)
                   /\ \A v : Prim(v, s)' = Prim(v, s) /\ Pinned(v, s)' = Pinned(v, s)
<1>1. \A s : Inputs(s)' = Inputs(s)
  BY DEF Inputs
<1>2. \A s : First(s)' = First(s)
  BY <1>1 DEF First
<1>3. Single' = Single /\ HasPort' = HasPort /\ DefaultsApart' = DefaultsApart
  BY <1>1 DEF Single, HasPort, DefaultsApart
<1>4. \A s : TokenOf(s)' = TokenOf(s) /\ HostPortEnv(s)' = HostPortEnv(s)
  BY <1>2 DEF TokenOf, HostPortEnv
<1>5. \A s : Mine(s)' = Mine(s)
  BY <1>4 DEF Mine
<1>6. \A s, v : Prim(v, s)' = Prim(v, s) /\ Pinned(v, s)' = Pinned(v, s)
  BY <1>1, <1>4 DEF Prim, Pinned
<1> QED BY <1>2, <1>3, <1>4, <1>5, <1>6

LEMMA MineInHost ==
  ASSUME app \in Apps, Single, NEW s \in HasPort
  PROVE  Mine(s) \subseteq Host /\ NoPort \notin Mine(s)
BY OneInput, HostFacts DEF Mine

(* With the ports in the file, a service binds what was resolved for it.   *)
LEMMA Publishes ==
  ASSUME TypeOK, Single, PortInv, step = "compose", NEW s \in Services
  PROVE  /\ s \in HasPort => Published(s) = {ports[s]}
         /\ s \notin HasPort => Published(s) = {}
<1>1. app \in Apps
  BY DEF TypeOK
<1>2. ASSUME s \in HasPort PROVE Published(s) = {ports[s]}
  <2>1. ports[s] \in Mine(s) /\ env[w][HostPortEnv(s)] = ports[s]
    BY <1>2 DEF PortInv, Chosen, Seen, Written
  <2>2. ports[s] # NoPort
    BY <1>1, <1>2, <2>1, MineInHost
  <2>3. Inputs(s) = {First(s)} /\ HostPortEnv(s) = app.inputs[First(s)].token.env
    BY <1>1, <1>2, OneInput DEF TokenOf
  <2> QED BY <2>1, <2>2, <2>3 DEF Published, PortOf
<1>3. s \notin HasPort => Published(s) = {}
  BY DEF HasPort, Published
<1> QED BY <1>2, <1>3

(* What is up stays bindable for itself.                                   *)
LEMMA SettledBindable ==
  ASSUME TypeOK, Single, PortInv, step = "compose", NEW s \in Services, settled[w]
  PROVE  Bindable(s)
<1>1. w \in Worktrees /\ app \in Apps
  BY DEF TypeOK
<1>2. \A p \in Published(s) : p \in bound[w][s]
  BY <1>1, Publishes DEF PortInv, Settled, Written
<1>3. \A i, j \in Inputs(s) : i = j
  BY DEF Single, Inputs
<1> QED BY <1>2, <1>3 DEF Bindable

-----------------------------------------------------------------------------
LEMMA PortInit == Init => PortInv
<1> SUFFICES ASSUME Init, Single PROVE PortInv
  BY DEF PortInv
<1>1. app \in Apps
  BY DEF Init
<1>2. \A v \in Worktrees, s \in HasPort : env[v][HostPortEnv(s)] = NoPort
  BY <1>1, OneInput DEF Init
<1>3. \A s \in HasPort : s \in Services
  BY DEF HasPort
<1> QED BY <1>2, <1>3 DEF Init, PortInv, Walk, Fresh, Chosen, EnvMine, Written, Started,
                    BoundMine, OneRetry, Settled

LEMMA ShiftIndex ==
  ASSUME NEW n \in Nat, NEW L \in Nat, NEW k \in 1..(n - 1)
  PROVE  k + 1 \in 1..n /\ L - n + (k + 1) = L - (n - 1) + k
OBVIOUS

(* One turn of the loop over the inputs.                                   *)
LEMMA PortResolves ==
  ASSUME TypeOK, Single, PortInv, ResolveInput
  PROVE  PortInv'
<1> DEFINE n == Len(todo)
           i == Len(app.inputs) - n + 1
           s0 == app.inputs[i].service
<1>1. /\ app' = app /\ env' = env /\ bound' = bound /\ w' = w /\ step' = step
      /\ retried' = retried /\ settled' = settled
      /\ step = "resolve" /\ todo # <<>> /\ todo' = Tail(todo)
  BY DEF ResolveInput, history
<1>2. app \in Apps /\ w \in Worktrees /\ todo \in Seq(Input) /\ app.inputs \in Seq(Input)
  BY <1>1, AppFacts DEF TypeOK, Input
<1>3. /\ n \in Nat \ {0} /\ Len(app.inputs) \in Nat /\ n <= Len(app.inputs)
      /\ i \in DOMAIN app.inputs /\ Head(todo) = app.inputs[i]
  <2>1. n \in Nat \ {0} /\ Len(app.inputs) \in Nat /\ Head(todo) = todo[1]
    BY <1>1, <1>2
  <2>2. n <= Len(app.inputs) /\ \A k \in 1..n : todo[k] = app.inputs[Len(app.inputs) - n + k]
    BY <1>1 DEF PortInv, Walk
  <2>3. 1 \in 1..n /\ i \in 1..Len(app.inputs)
    BY <2>1, <2>2
  <2> QED BY <1>2, <2>1, <2>2, <2>3
<1>4. Walk'
  <2>1. Len(todo') = n - 1 /\ \A k \in 1..(n - 1) : todo'[k] = todo[k + 1]
    BY <1>1, <1>2
  <2>2. \A k \in 1..n : todo[k] = app.inputs[Len(app.inputs) - n + k]
    BY <1>1 DEF PortInv, Walk
  <2>3. ASSUME NEW k \in 1..(n - 1)
        PROVE  todo'[k] = app.inputs[Len(app.inputs) - (n - 1) + k]
    <3>1. k + 1 \in 1..n /\ Len(app.inputs) - n + (k + 1) = Len(app.inputs) - (n - 1) + k
      BY <1>3, ShiftIndex
    <3> QED BY <2>1, <2>2, <3>1
  <2> QED BY <1>1, <1>3, <2>1, <2>3 DEF Walk
<1>5. /\ s0 \in HasPort /\ First(s0) = i /\ TokenOf(s0) = app.inputs[i].token /\ s0 \in Services
      /\ app.inputs[i] \in Input /\ HostPortEnv(s0) = app.inputs[i].token.env
  BY <1>2, <1>3, InputOf, AppFacts, OneInput
<1>6. PICK p \in PortsFor(app.inputs[i]) :
         /\ ports' = [ports EXCEPT ![s0] = p]
         /\ defaults' = IF Primary(app.inputs[i]) THEN defaults \cup {s0} ELSE defaults
  BY <1>3 DEF ResolveInput
<1>7. Primary(app.inputs[i]) <=> Prim(w, s0)
  BY <1>5 DEF Primary, Prim
<1>8. /\ p \in Mine(s0)
      /\ Prim(w, s0) => p = TokenOf(s0).default
      /\ env[w][HostPortEnv(s0)] \in {NoPort, p}
  <2>1. /\ p \in Host
        /\ Primary(app.inputs[i]) => p = app.inputs[i].token.default
        /\ ~Primary(app.inputs[i]) /\ env[w][app.inputs[i].token.env] # NoPort
             => p = env[w][app.inputs[i].token.env]
        /\ ~Primary(app.inputs[i]) /\ env[w][app.inputs[i].token.env] = NoPort
             => p \in Band(s0)
    BY <1>2, <1>5, PortsForType
  <2>2. /\ env[w][HostPortEnv(s0)] \in Mine(s0) \cup {NoPort}
        /\ Prim(w, s0) => env[w][HostPortEnv(s0)] \in {NoPort, TokenOf(s0).default}
    BY <1>2, <1>5 DEF PortInv, EnvMine
  <2> QED BY <1>5, <1>7, <2>1, <2>2 DEF Mine, Prim
<1>9. ASSUME NEW s \in HasPort, s # s0 PROVE Seen(s)' => Seen(s)
  <2>1. First(s) # i /\ First(s) \in DOMAIN app.inputs
    BY <1>2, <1>9, OneInput
  <2>2. First(s) \in Nat
    BY <1>2, <2>1
  <2>3. First(s)' = First(s)
    BY <1>1, AppFixed
  <2>4. Len(todo') = n - 1
    BY <1>1, <1>2
  <2> QED BY <1>1, <1>3, <2>1, <2>2, <2>3, <2>4 DEF Seen
<1>10. ports' = [t \in Services |-> IF t = s0 THEN p ELSE ports[t]]
  BY <1>6 DEF TypeOK
<1>11. Chosen'
  <2>1. /\ \A s \in HasPort : Seen(s) =>
             /\ ports[s] \in Mine(s)
             /\ Prim(w, s) => ports[s] = TokenOf(s).default /\ s \in defaults
             /\ Pinned(w, s) \/ ~retried => env[w][HostPortEnv(s)] \in {NoPort, ports[s]}
        /\ \A s \in HasPort : s \in defaults => Prim(w, s)
        /\ \A s \in Services \ HasPort : ports[s] = NoPort
    BY <1>1 DEF PortInv, Chosen
  <2>2. \A s \in HasPort : s \in Services
    BY DEF HasPort
  <2>3. ASSUME NEW s \in HasPort, Seen(s)'
        PROVE  /\ ports'[s] \in Mine(s)
               /\ Prim(w, s) => ports'[s] = TokenOf(s).default /\ s \in defaults'
               /\ Pinned(w, s) \/ ~retried => env[w][HostPortEnv(s)] \in {NoPort, ports'[s]}
    BY <1>6, <1>7, <1>8, <1>9, <1>10, <2>1, <2>2, <2>3
  <2>4. \A s \in HasPort : s \in defaults' => Prim(w, s)
    BY <1>6, <1>7, <2>1
  <2>5. \A s \in Services \ HasPort : ports'[s] = NoPort
    BY <1>5, <1>10, <2>1
  <2>6. HasPort' = HasPort /\ \A s : /\ TokenOf(s)' = TokenOf(s) /\ Mine(s)' = Mine(s)
                                     /\ HostPortEnv(s)' = HostPortEnv(s)
                                     /\ \A v : Prim(v, s)' = Prim(v, s) /\ Pinned(v, s)' = Pinned(v, s)
    BY <1>1, AppFixed
  <2>7. \A s : Prim(w, s)' = Prim(w, s) /\ Pinned(w, s)' = Pinned(w, s)
    BY <1>1, AppFixed DEF Prim, Pinned, Inputs, TokenOf
  <2> QED BY <1>1, <2>3, <2>4, <2>5, <2>6, <2>7 DEF Chosen
<1>12. /\ EnvMine' /\ BoundMine' /\ OneRetry' /\ Settled' /\ Written' /\ Started'
       /\ Fresh'
  BY <1>1, AppFixed DEF PortInv, EnvMine, BoundMine, OneRetry, Settled, Written, Started, Fresh
<1> QED BY <1>4, <1>11, <1>12 DEF PortInv

(* A command that ends well leaves the ports of the file on its containers.*)
LEMMA PortEnd ==
  ASSUME TypeOK, Single, PortInv, w \in Worktrees, NEW ok \in BOOLEAN, End(ok),
         \A v \in Worktrees, s \in Services :
            bound'[v][s] \subseteq bound[v][s] /\ (v # w \/ ok => bound'[v][s] = bound[v][s]),
         ok => \A s \in HasPort : env[w][HostPortEnv(s)] # NoPort
                                    /\ bound[w][s] = {env[w][HostPortEnv(s)]}
  PROVE  PortInv'
<1>1. /\ app' = app /\ env' = env /\ step' = "idle" /\ retried' = FALSE /\ w' = NoWorktree
      /\ settled' = [settled EXCEPT ![w] = ok] /\ ports' = NoPorts /\ defaults' = {}
  BY DEF End
<1>2. /\ HasPort' = HasPort /\ \A s \in HasPort : s \in Services
      /\ \A s : /\ Mine(s)' = Mine(s) /\ HostPortEnv(s)' = HostPortEnv(s)
                /\ TokenOf(s)' = TokenOf(s) /\ \A v : Prim(v, s)' = Prim(v, s)
  BY <1>1, AppFixed DEF HasPort
<1>3. settled \in [Worktrees -> BOOLEAN] /\ NoWorktree \notin Worktrees
  BY HostFacts DEF TypeOK
<1>4. Settled'
  <2> SUFFICES ASSUME NEW v \in Worktrees, NEW s \in HasPort, settled'[v]
               PROVE  env[v][HostPortEnv(s)] # NoPort /\ bound'[v][s] = {env[v][HostPortEnv(s)]}
    BY <1>1, <1>2 DEF Settled
  <2>1. CASE v = w
    BY <1>1, <1>2, <1>3, <2>1
  <2>2. CASE v # w
    BY <1>1, <1>2, <1>3, <2>2 DEF PortInv, Settled
  <2> QED BY <2>1, <2>2
<1>5. EnvMine'
  BY <1>1, <1>2 DEF PortInv, EnvMine
<1>6. BoundMine'
  <2> SUFFICES ASSUME NEW v \in Worktrees
               PROVE  /\ \A s \in HasPort : bound'[v][s] \subseteq Mine(s)
                      /\ \A s \in Services \ HasPort : bound'[v][s] = {}
    BY <1>2 DEF BoundMine
  <2>1. /\ \A s \in HasPort : bound[v][s] \subseteq Mine(s)
        /\ \A s \in Services \ HasPort : bound[v][s] = {}
    BY DEF PortInv, BoundMine
  <2> QED BY <1>2, <2>1
<1> QED BY <1>1, <1>3, <1>4, <1>5, <1>6
        DEF PortInv, Walk, Fresh, Chosen, Written, Started, OneRetry, NoPorts

(* The variable of each service gets what was resolved for it.             *)
LEMMA WriteEnvValue ==
  ASSUME TypeOK, Single, WriteEnv
  PROVE  /\ \A s \in HasPort : env'[w][HostPortEnv(s)] = ports[s]
         /\ \A v \in Worktrees \ {w} : env'[v] = env[v]
<1>1. w \in Worktrees /\ app \in Apps /\ env \in [Worktrees -> [Envs -> Host \cup {NoPort}]]
  BY DEF TypeOK, WriteEnv
<1>2. \A v \in Worktrees \ {w} : env'[v] = env[v]
  BY <1>1 DEF WriteEnv
<1>3. ASSUME NEW s \in HasPort PROVE env'[w][HostPortEnv(s)] = ports[s]
  <2>1. HostPortEnv(s) \in Envs
    BY <1>1, OneInput
  <2>2. (CHOOSE t \in HasPort : HostPortEnv(t) = HostPortEnv(s)) = s
    BY <1>1, OwnEnv
  <2> QED BY <1>1, <2>1, <2>2 DEF WriteEnv
<1> QED BY <1>2, <1>3

LEMMA PortWrites ==
  ASSUME TypeOK, Single, PortInv, WriteEnv
  PROVE  PortInv'
<1>1. /\ app' = app /\ bound' = bound /\ w' = w /\ step = "write" /\ step' = "compose"
      /\ ports' = ports /\ defaults' = defaults /\ retried' = retried /\ settled' = settled
      /\ left' = Services /\ w \in Worktrees /\ app \in Apps
  BY DEF WriteEnv, TypeOK
<1>2. /\ HasPort' = HasPort /\ \A s \in HasPort : s \in Services
      /\ \A s : /\ Mine(s)' = Mine(s) /\ HostPortEnv(s)' = HostPortEnv(s)
                /\ TokenOf(s)' = TokenOf(s)
                /\ \A v : Prim(v, s)' = Prim(v, s) /\ Pinned(v, s)' = Pinned(v, s)
  BY <1>1, AppFixed DEF HasPort
<1>3. /\ \A s \in HasPort : env'[w][HostPortEnv(s)] = ports[s]
      /\ \A v \in Worktrees \ {w} : env'[v] = env[v]
  BY WriteEnvValue
<1>4. /\ \A s \in HasPort :
           /\ ports[s] \in Mine(s)
           /\ Prim(w, s) => ports[s] = TokenOf(s).default /\ s \in defaults
           /\ Pinned(w, s) \/ ~retried => env[w][HostPortEnv(s)] \in {NoPort, ports[s]}
      /\ \A s \in HasPort : s \in defaults => Prim(w, s)
      /\ \A s \in Services \ HasPort : ports[s] = NoPort
  BY <1>1 DEF PortInv, Chosen, Seen
<1>5. \A s : Prim(w, s)' = Prim(w, s)
  BY <1>1, AppFixed DEF Prim, TokenOf
<1>6. Chosen'
  BY <1>1, <1>2, <1>3, <1>4, <1>5 DEF Chosen
<1>7. EnvMine'
  <2> SUFFICES ASSUME NEW v \in Worktrees, NEW s \in HasPort
               PROVE  /\ env'[v][HostPortEnv(s)] \in Mine(s) \cup {NoPort}
                      /\ Prim(v, s) => env'[v][HostPortEnv(s)] \in {NoPort, TokenOf(s).default}
    BY <1>2 DEF EnvMine
  <2>1. CASE v = w
    BY <1>3, <1>4, <2>1
  <2>2. CASE v # w
    BY <1>3, <2>2 DEF PortInv, EnvMine
  <2> QED BY <2>1, <2>2
<1>8. Settled'
  <2> SUFFICES ASSUME NEW v \in Worktrees, NEW s \in HasPort, settled[v]
               PROVE  env'[v][HostPortEnv(s)] # NoPort /\ bound[v][s] = {env'[v][HostPortEnv(s)]}
    BY <1>1, <1>2 DEF Settled
  <2>1. env[v][HostPortEnv(s)] # NoPort /\ bound[v][s] = {env[v][HostPortEnv(s)]}
    BY DEF PortInv, Settled
  <2>2. CASE v = w
    BY <1>1, <1>3, <1>4, <2>1, <2>2 DEF PortInv, OneRetry
  <2>3. CASE v # w
    BY <1>3, <2>1, <2>3
  <2> QED BY <2>2, <2>3
<1>9. Walk' /\ Fresh' /\ Written' /\ Started'
  BY <1>1, <1>2, <1>3 DEF Walk, Fresh, Written, Started
<1>10. BoundMine' /\ OneRetry'
  BY <1>1, <1>2 DEF PortInv, BoundMine, OneRetry
<1> QED BY <1>6, <1>7, <1>8, <1>9, <1>10 DEF PortInv

LEMMA PortConverges ==
  ASSUME TypeOK, Single, PortInv, NEW r \in Services, Converge(r)
  PROVE  PortInv'
<1>1. /\ app' = app /\ env' = env /\ w' = w /\ step = "compose" /\ step' = "compose"
      /\ ports' = ports /\ defaults' = defaults /\ retried' = retried /\ settled' = settled
      /\ left' = left \ {r} /\ w \in Worktrees /\ app \in Apps
      /\ bound' = [bound EXCEPT ![w][r] = Published(r)]
  BY DEF Converge, TypeOK, history
<1>2. /\ HasPort' = HasPort /\ \A s \in HasPort : s \in Services
      /\ \A s : /\ Mine(s)' = Mine(s) /\ HostPortEnv(s)' = HostPortEnv(s)
                /\ TokenOf(s)' = TokenOf(s) /\ Prim(w, s)' = Prim(w, s)
                /\ Pinned(w, s)' = Pinned(w, s)
                /\ \A v : Prim(v, s)' = Prim(v, s)
  BY <1>1, AppFixed DEF HasPort, Prim, Pinned, TokenOf, Inputs
<1>3. /\ r \in HasPort => Published(r) = {ports[r]} /\ ports[r] \in Mine(r)
                            /\ env[w][HostPortEnv(r)] = ports[r]
      /\ r \notin HasPort => Published(r) = {}
  BY <1>1, Publishes DEF PortInv, Chosen, Seen, Written
<1>4. \A v \in Worktrees, s \in Services :
        bound'[v][s] = IF v = w /\ s = r THEN Published(r) ELSE bound[v][s]
  BY <1>1 DEF TypeOK
<1>5. Chosen' /\ Walk' /\ Fresh' /\ EnvMine' /\ Written' /\ OneRetry'
  BY <1>1, <1>2 DEF PortInv, Chosen, Seen, Walk, Fresh, EnvMine, Written, OneRetry
<1>6. Started'
  <2>1. \A s \in HasPort \ left : bound[w][s] \subseteq {ports[s]}
    BY <1>1 DEF PortInv, Started
  <2> QED BY <1>1, <1>2, <1>3, <1>4, <2>1 DEF Started
<1>7. BoundMine'
  <2>1. \A v \in Worktrees :
           /\ \A s \in HasPort : bound[v][s] \subseteq Mine(s)
           /\ \A s \in Services \ HasPort : bound[v][s] = {}
    BY DEF PortInv, BoundMine
  <2> QED BY <1>2, <1>3, <1>4, <2>1 DEF BoundMine
<1>8. Settled'
  <2>1. \A v \in Worktrees, s \in HasPort :
           settled[v] => env[v][HostPortEnv(s)] # NoPort /\ bound[v][s] = {env[v][HostPortEnv(s)]}
    BY DEF PortInv, Settled
  <2> QED BY <1>1, <1>2, <1>3, <1>4, <2>1 DEF Settled
<1> QED BY <1>5, <1>6, <1>7, <1>8 DEF PortInv

(* A failed bind leaves the container without ports; it is never one of a  *)
(* stack that was up.                                                      *)
LEMMA PortFails ==
  ASSUME TypeOK, Single, PortInv, NEW r \in Services, BindFails(r)
  PROVE  PortInv'
<1>1. /\ app' = app /\ env' = env /\ w' = w /\ step = "compose" /\ step' = "retry"
      /\ ports' = ports /\ defaults' = defaults /\ retried' = retried /\ settled' = settled
      /\ ~retried /\ w \in Worktrees /\ app \in Apps /\ ~Bindable(r)
      /\ bound' = [bound EXCEPT ![w][r] = {}]
  BY DEF BindFails, TypeOK, history
<1>2. /\ HasPort' = HasPort /\ \A s \in HasPort : s \in Services
      /\ \A s : /\ Mine(s)' = Mine(s) /\ HostPortEnv(s)' = HostPortEnv(s)
                /\ TokenOf(s)' = TokenOf(s) /\ Prim(w, s)' = Prim(w, s)
                /\ Pinned(w, s)' = Pinned(w, s)
                /\ \A v : Prim(v, s)' = Prim(v, s)
  BY <1>1, AppFixed DEF HasPort, Prim, Pinned, TokenOf, Inputs
<1>3. ~settled[w]
  BY <1>1, SettledBindable
<1>4. \A v \in Worktrees, s \in Services :
        bound'[v][s] = IF v = w /\ s = r THEN {} ELSE bound[v][s]
  BY <1>1 DEF TypeOK
<1>5. Chosen' /\ Walk' /\ Fresh' /\ EnvMine' /\ Written' /\ OneRetry' /\ Started'
  BY <1>1, <1>2, <1>3 DEF PortInv, Chosen, Seen, Walk, Fresh, EnvMine, Written, OneRetry, Started
<1>6. BoundMine'
  <2>1. \A v \in Worktrees :
           /\ \A s \in HasPort : bound[v][s] \subseteq Mine(s)
           /\ \A s \in Services \ HasPort : bound[v][s] = {}
    BY DEF PortInv, BoundMine
  <2> QED BY <1>2, <1>4, <2>1 DEF BoundMine
<1>7. Settled'
  <2>1. \A v \in Worktrees, s \in HasPort :
           settled[v] => env[v][HostPortEnv(s)] # NoPort /\ bound[v][s] = {env[v][HostPortEnv(s)]}
    BY DEF PortInv, Settled
  <2> QED BY <1>1, <1>2, <1>3, <1>4, <2>1 DEF Settled
<1> QED BY <1>5, <1>6, <1>7 DEF PortInv

(* The retry moves no service that may not move, and gives the others      *)
(* ports of their bands.                                                   *)
LEMMA Moves ==
  ASSUME TypeOK, Single, PortInv, Retry
  PROVE  /\ \A s \in HasPort : s \in Moved => ~Pinned(w, s) /\ s \notin defaults
         /\ \A s \in HasPort : s \in Moved => /\ ports'[s] \in Band(s) /\ ports'[s] # ports[s]
                                              /\ Free(ports'[s])
         /\ \A s \in Services : s \notin Moved => ports'[s] = ports[s]
         /\ Moved \subseteq HasPort
<1>1. app \in Apps /\ step = "retry" /\ w \in Worktrees
  BY DEF Retry, TypeOK
<1>2. Moved \subseteq HasPort /\ \A s \in HasPort : s \in Services
  BY DEF Moved, HasPort
<1>3. ASSUME NEW s \in HasPort, s \in Moved PROVE ~Pinned(w, s) /\ s \notin defaults
  <2>1. s \notin defaults /\ s \notin app.fixed
    BY <1>3 DEF Retry, Immovable, Moved, Unmatched
  <2>2. Prim(w, s) => s \in defaults
    BY <1>1 DEF PortInv, Chosen, Seen
  <2>3. Pinned(w, s) => s \in app.fixed \/ Prim(w, s)
    BY <1>1, OneInput DEF Pinned, Prim, TokenOf
  <2> QED BY <2>1, <2>2, <2>3
<1>4. PICK next \in [Moved -> Host] :
         /\ \A s \in Moved : next[s] \in ResolveAfter(s, ports[s])
         /\ ports' = [s \in Services |-> IF s \in Moved THEN next[s] ELSE ports[s]]
  BY DEF Retry
<1>5. ASSUME NEW s \in Moved
      PROVE  ports'[s] \in Band(s) /\ ports'[s] # ports[s] /\ Free(ports'[s])
  BY <1>2, <1>4, ResolveAfterInBand
<1> QED BY <1>2, <1>3, <1>4, <1>5

LEMMA PortRetries ==
  ASSUME TypeOK, Single, PortInv, Retry
  PROVE  PortInv'
<1>1. /\ app' = app /\ env' = env /\ w' = w /\ step = "retry" /\ step' = "write"
      /\ defaults' = defaults /\ retried' = TRUE /\ settled' = settled /\ bound' = bound
      /\ w \in Worktrees /\ app \in Apps
  BY DEF Retry, TypeOK, history
<1>2. /\ HasPort' = HasPort /\ \A s \in HasPort : s \in Services
      /\ \A s : /\ Mine(s)' = Mine(s) /\ HostPortEnv(s)' = HostPortEnv(s)
                /\ TokenOf(s)' = TokenOf(s) /\ Prim(w, s)' = Prim(w, s)
                /\ Pinned(w, s)' = Pinned(w, s)
                /\ \A v : Prim(v, s)' = Prim(v, s)
  BY <1>1, AppFixed DEF HasPort, Prim, Pinned, TokenOf, Inputs
<1>3. /\ \A s \in HasPort :
           /\ ports[s] \in Mine(s)
           /\ Prim(w, s) => ports[s] = TokenOf(s).default /\ s \in defaults
           /\ env[w][HostPortEnv(s)] = ports[s]
      /\ \A s \in HasPort : s \in defaults => Prim(w, s)
      /\ \A s \in Services \ HasPort : ports[s] = NoPort
  BY <1>1 DEF PortInv, Chosen, Seen, Written
<1>4. ASSUME NEW s \in HasPort
      PROVE  /\ ports'[s] \in Mine(s)
             /\ Prim(w, s) => ports'[s] = TokenOf(s).default /\ s \in defaults
             /\ Pinned(w, s) => env[w][HostPortEnv(s)] = ports'[s]
  <2>1. CASE s \in Moved
    BY <1>3, <2>1, Moves DEF Mine
  <2>2. CASE s \notin Moved
    BY <1>2, <1>3, <2>2, Moves
  <2> QED BY <2>1, <2>2
<1>5. \A s \in Services \ HasPort : ports'[s] = NoPort
  BY <1>3, Moves
<1>6. Chosen'
  BY <1>1, <1>2, <1>3, <1>4, <1>5 DEF Chosen
<1>7. Walk' /\ Fresh' /\ EnvMine' /\ Written' /\ BoundMine' /\ Started' /\ Settled'
  BY <1>1, <1>2 DEF PortInv, Walk, Fresh, EnvMine, Written, BoundMine, Started, Settled
<1>8. OneRetry'
  BY <1>1 DEF PortInv, OneRetry
<1> QED BY <1>6, <1>7, <1>8 DEF PortInv

LEMMA PortStep == TypeOK /\ PortInv /\ [Next]_vars => PortInv'
<1> SUFFICES ASSUME TypeOK, PortInv, [Next]_vars, Single PROVE PortInv'
  <2>1. [Next]_vars => app' = app
    BY DEF Next, Begin, Down, ResolveInput, Resolved, WriteEnv, Finish, Retry, Fail, Converge,
           BindFails, SecondBindFails, HostChanges, End, vars
  <2> QED BY <2>1, AppFixed DEF PortInv
<1>1. app \in Apps /\ (step # "idle" => w \in Worktrees)
  BY DEF TypeOK
<1> DEFINE Same == /\ HasPort' = HasPort
                  /\ \A s : /\ Mine(s)' = Mine(s) /\ HostPortEnv(s)' = HostPortEnv(s)
                            /\ TokenOf(s)' = TokenOf(s) /\ First(s)' = First(s)
                            /\ Prim(w, s)' = Prim(w', s) /\ Pinned(w, s)' = Pinned(w', s)
                            /\ \A x : Prim(x, s)' = Prim(x, s)
<1>2. ASSUME app' = app PROVE Same
  BY <1>2, AppFixed DEF Prim, Pinned, TokenOf, Inputs
<1>3. ASSUME NEW v \in Worktrees, Begin(v) PROVE PortInv'
  <2>1. /\ app' = app /\ env' = env /\ bound' = bound /\ settled' = settled
        /\ step = "idle" /\ step' = "resolve" /\ todo' = app.inputs /\ w' = v
        /\ ports' = ports /\ defaults' = defaults /\ retried' = retried
    BY <1>3 DEF Begin
  <2>2. Same /\ ~retried /\ ports = NoPorts /\ defaults = {}
    BY <1>2, <2>1 DEF PortInv, OneRetry, Fresh
  <2>3. Walk'
    BY <1>1, <2>1, AppFacts DEF Walk
  <2>4. \A s \in HasPort : ~Seen(s)'
    BY <1>1, <2>1, <2>2, OneInput, AppFacts DEF Seen
  <2>5. Chosen'
    BY <2>1, <2>2, <2>4 DEF Chosen, NoPorts
  <2>6. Fresh' /\ EnvMine' /\ Written' /\ Started' /\ BoundMine' /\ OneRetry' /\ Settled'
    BY <2>1, <2>2 DEF PortInv, Fresh, EnvMine, Written, Started, BoundMine, OneRetry, Settled
  <2> QED BY <2>3, <2>5, <2>6 DEF PortInv
<1>4. CASE Resolved
  <2>1. /\ app' = app /\ env' = env /\ bound' = bound /\ settled' = settled /\ w' = w
        /\ step = "resolve" /\ todo = <<>> /\ step' = "write"
        /\ ports' = ports /\ defaults' = defaults /\ retried' = retried
    BY <1>4 DEF Resolved
  <2>2. Same
    BY <1>2, <2>1
  <2>3. \A s \in HasPort : Seen(s)
    BY <1>1, <2>1, OneInput, AppFacts DEF Seen
  <2>4. Chosen'
    BY <2>1, <2>2, <2>3 DEF PortInv, Chosen
  <2> QED BY <2>1, <2>2, <2>4
          DEF PortInv, Walk, Fresh, EnvMine, Written, Started, BoundMine, OneRetry, Settled
<1>5. CASE Finish
  <2>1. /\ w \in Worktrees /\ step = "compose" /\ left = {} /\ bound' = bound
        /\ End(\A s \in HasPort : bound[w][s] # {})
    BY <1>1, <1>5 DEF Finish
  <2>2. ASSUME \A s \in HasPort : bound[w][s] # {}, NEW s \in HasPort
        PROVE  env[w][HostPortEnv(s)] # NoPort /\ bound[w][s] = {env[w][HostPortEnv(s)]}
    <3>1. bound[w][s] \subseteq {ports[s]} /\ env[w][HostPortEnv(s)] = ports[s]
      BY <2>1 DEF PortInv, Started, Written
    <3>2. ports[s] # NoPort
      BY <1>1, <2>1, MineInHost DEF PortInv, Chosen, Seen
    <3> QED BY <2>2, <3>1, <3>2
  <2>3. (\A s \in HasPort : bound[w][s] # {}) \in BOOLEAN
    OBVIOUS
  <2> QED BY <2>1, <2>2, <2>3, PortEnd
<1>6. ASSUME NEW s \in Services, SecondBindFails(s) PROVE PortInv'
  <2>1. End(FALSE) /\ w \in Worktrees /\ bound' = [bound EXCEPT ![w][s] = {}]
    BY <1>1, <1>6 DEF SecondBindFails
  <2>2. \A v \in Worktrees, t \in Services :
          bound'[v][t] \subseteq bound[v][t] /\ (v # w => bound'[v][t] = bound[v][t])
    BY <2>1 DEF TypeOK
  <2> QED BY <2>1, <2>2, PortEnd
<1>7. CASE Fail
  BY <1>1, <1>7, PortEnd DEF Fail
<1>8. ASSUME NEW v \in Worktrees, Down(v) PROVE PortInv'
  <2>1. /\ app' = app /\ env' = env /\ w' = w /\ step' = step /\ todo' = todo
        /\ ports' = ports /\ defaults' = defaults /\ retried' = retried /\ left' = left
        /\ bound' = [bound EXCEPT ![v] = [s \in Services |-> {}]]
        /\ settled' = [settled EXCEPT ![v] = FALSE]
    BY <1>8 DEF Down, local
  <2>2. Same /\ \A s \in HasPort : s \in Services
    BY <1>2, <2>1 DEF HasPort
  <2>3. /\ \A x \in Worktrees, s \in Services : bound'[x][s] = IF x = v THEN {} ELSE bound[x][s]
        /\ \A x \in Worktrees : settled'[x] = (x # v /\ settled[x])
    BY <2>1 DEF TypeOK
  <2>4. Walk' /\ Fresh' /\ Chosen' /\ EnvMine' /\ Written'
    BY <2>1, <2>2 DEF PortInv, Walk, Fresh, Chosen, Seen, EnvMine, Written
  <2>5. BoundMine'
    BY <2>2, <2>3 DEF PortInv, BoundMine
  <2>6. Started'
    BY <1>1, <2>1, <2>2, <2>3 DEF PortInv, Started
  <2>7. OneRetry'
    BY <2>1, <2>3 DEF PortInv, OneRetry
  <2>8. Settled'
    <3> SUFFICES ASSUME NEW x \in Worktrees, NEW s \in HasPort, settled'[x]
                 PROVE  env[x][HostPortEnv(s)] # NoPort /\ bound'[x][s] = {env[x][HostPortEnv(s)]}
      BY <2>1, <2>2 DEF Settled
    <3>1. x # v /\ settled[x] /\ bound'[x][s] = bound[x][s]
      BY <2>2, <2>3
    <3> QED BY <3>1 DEF PortInv, Settled
  <2> QED BY <2>4, <2>5, <2>6, <2>7, <2>8 DEF PortInv
<1>9. CASE UNCHANGED vars \/ \E p \in Host : HostChanges(p)
  <2>1. /\ app' = app /\ env' = env /\ w' = w /\ step' = step /\ todo' = todo
        /\ ports' = ports /\ defaults' = defaults /\ retried' = retried /\ left' = left
        /\ bound' = bound /\ settled' = settled
    BY <1>9 DEF HostChanges, local, vars, history
  <2>2. Same
    BY <1>2, <2>1
  <2> QED BY <2>1, <2>2
          DEF PortInv, Walk, Fresh, Chosen, Seen, EnvMine, Written, Started, BoundMine, OneRetry,
              Settled
<1> QED BY <1>3, <1>4, <1>5, <1>6, <1>7, <1>8, <1>9, PortResolves, PortWrites, PortConverges,
           PortFails, PortRetries DEF Next

(* What the ports of every up keep: the inductive invariant.               *)
THEOREM PortInvariant == Spec => [](TypeOK /\ PortInv)
BY PortInit, PortStep, TypeCorrect, PTL DEF Spec

-----------------------------------------------------------------------------
(* After an up that ended well, .env.worktree names the ports that the     *)
(* containers have.                                                        *)
THEOREM EnvAlwaysTells == Spec => []EnvTells
<1>1. PortInv => EnvTells
  BY DEF PortInv, Settled, EnvTells
<1> QED BY <1>1, PortInvariant, PTL

(* A service with a fixed port, and one of the main worktree with a        *)
(* default, keeps the port that the file once named for it.                *)
THEOREM PinnedAlwaysStay == Spec => PinnedStay
<1> DEFINE Stays ==
      \A v \in Worktrees, s \in HasPort :
         Single /\ Pinned(v, s) /\ env[v][HostPortEnv(s)] # NoPort
           => env'[v][HostPortEnv(s)] = env[v][HostPortEnv(s)]
<1>1. ASSUME TypeOK, PortInv, [Next]_vars PROVE Stays
  <2>1. CASE WriteEnv
    <3> SUFFICES ASSUME NEW v \in Worktrees, NEW s \in HasPort, Single, Pinned(v, s),
                        env[v][HostPortEnv(s)] # NoPort
                 PROVE  env'[v][HostPortEnv(s)] = env[v][HostPortEnv(s)]
      OBVIOUS
    <3>1. /\ env'[w][HostPortEnv(s)] = ports[s]
          /\ \A x \in Worktrees \ {w} : env'[x] = env[x]
      BY <1>1, <2>1, WriteEnvValue
    <3>2. Pinned(w, s) => env[w][HostPortEnv(s)] \in {NoPort, ports[s]}
      BY <1>1, <2>1 DEF PortInv, Chosen, Seen, WriteEnv
    <3> QED BY <3>1, <3>2
  <2>2. CASE ~WriteEnv
    <3>1. env' = env
      BY <1>1, <2>2 DEF Next, Begin, Down, ResolveInput, Resolved, Finish, Retry, Fail, Converge,
             BindFails, SecondBindFails, HostChanges, End, vars
    <3> QED BY <3>1
  <2> QED BY <2>1, <2>2
<1>2. Spec => [][Stays]_vars
  BY <1>1, PortInvariant, PTL DEF Spec
<1> QED BY <1>2 DEF PinnedStay

(* An up of a stack that is up leaves every container the ports it has.    *)
THEOREM AlwaysStable == Spec => Stable
<1> DEFINE Kept == Single /\ w # NoWorktree /\ settled[w] /\ settled'[w] => bound'[w] = bound[w]
<1>1. ASSUME TypeOK, PortInv, [Next]_vars PROVE Kept
  <2> SUFFICES ASSUME Single, w # NoWorktree, settled[w], settled'[w] PROVE bound'[w] = bound[w]
    OBVIOUS
  <2>1. /\ w \in Worktrees /\ app \in Apps /\ settled \in [Worktrees -> BOOLEAN]
        /\ bound \in [Worktrees -> [Services -> SUBSET (Host \ taken)]]
    BY <1>1 DEF TypeOK
  <2>2. ASSUME NEW s \in Services, Converge(s) PROVE bound'[w] = bound[w]
    <3>1. step = "compose" /\ bound' = [bound EXCEPT ![w][s] = Published(s)]
      BY <2>2 DEF Converge
    <3>2. Published(s) = bound[w][s]
      <4>1. CASE s \in HasPort
        <5>1. Published(s) = {ports[s]}
          BY <1>1, <3>1, <4>1, Publishes
        <5>2. bound[w][s] = {env[w][HostPortEnv(s)]} /\ env[w][HostPortEnv(s)] = ports[s]
          BY <1>1, <2>1, <3>1, <4>1 DEF PortInv, Settled, Written
        <5> QED BY <5>1, <5>2
      <4>2. CASE s \notin HasPort
        BY <1>1, <2>1, <3>1, <4>2, Publishes DEF PortInv, BoundMine
      <4> QED BY <4>1, <4>2
    <3> QED BY <2>1, <3>1, <3>2
  <2>3. ASSUME NEW s \in Services PROVE ~BindFails(s) /\ ~SecondBindFails(s)
    BY <1>1, <2>3, SettledBindable DEF BindFails, SecondBindFails
  <2>4. ASSUME NEW v \in Worktrees, Down(v) PROVE bound'[w] = bound[w]
    <3>1. v # w
      BY <2>1, <2>4 DEF Down
    <3> QED BY <2>1, <2>4, <3>1 DEF Down
  <2>5. bound' = bound \/ (\E s \in Services : Converge(s) \/ BindFails(s) \/ SecondBindFails(s))
          \/ \E v \in Worktrees : Down(v)
    BY <1>1 DEF Next, Begin, ResolveInput, Resolved, WriteEnv, Finish, Retry, Fail, HostChanges,
                vars
  <2> QED BY <2>2, <2>3, <2>4, <2>5
<1>2. Spec => [][Kept]_vars
  BY <1>1, PortInvariant, PTL DEF Spec
<1> QED BY <1>2 DEF Stable

-----------------------------------------------------------------------------
LEMMA MineApart ==
  ASSUME app \in Apps, Single, DefaultsApart, NEW s \in HasPort, NEW t \in HasPort, s # t
  PROVE  Mine(s) \cap Mine(t) = {}
<1>1. /\ First(s) \in DOMAIN app.inputs /\ app.inputs[First(s)].service = s
      /\ First(t) \in DOMAIN app.inputs /\ app.inputs[First(t)].service = t
      /\ s \in Services /\ t \in Services
  BY OneInput
<1>2. /\ TokenOf(s).default \notin Band(t) /\ TokenOf(t).default \notin Band(s)
      /\ TokenOf(s).default = NoPort \/ TokenOf(s).default # TokenOf(t).default
  BY <1>1 DEF DefaultsApart, TokenOf
<1>3. Band(s) \cap Band(t) = {}
  BY <1>1, PortsAssumption
<1> QED BY <1>2, <1>3 DEF Mine

(* The containers of the stack itself never hold a port of another of its  *)
(* services: what is blocked is blocked by someone else.                   *)
Held(of, T, B, x) ==
  {s \in Services : of[s] \in T \/
     \E v \in Worktrees, t \in Services : <<v, t>> # <<x, s>> /\ of[s] \in B[v][t]}
HeldBeside(of, T, B, x) ==
  {s \in HasPort : of[s] \in T \/ \E v \in Worktrees \ {x}, t \in Services : of[s] \in B[v][t]}

LEMMA BlockedBeside ==
  ASSUME app \in Apps, Single, DefaultsApart, NEW x \in Worktrees, NEW of, NEW T, NEW B,
         T \subseteq Host,
         \A v \in Worktrees, t \in Services : B[v][t] \subseteq Host,
         \A s \in HasPort : of[s] \in Mine(s) /\ B[x][s] \subseteq Mine(s),
         \A s \in Services \ HasPort : of[s] = NoPort /\ B[x][s] = {}
  PROVE  Held(of, T, B, x) = HeldBeside(of, T, B, x)
<1>1. NoPort \notin Host /\ \A s \in HasPort : s \in Services
  BY HostFacts DEF HasPort
<1>2. ASSUME NEW s \in HasPort, NEW t \in Services, t # s PROVE of[s] \notin B[x][t]
  <2>1. CASE t \in HasPort
    BY <1>2, <2>1, MineApart
  <2>2. CASE t \notin HasPort
    BY <2>2
  <2> QED BY <2>1, <2>2
<1>3. ASSUME NEW s \in Services \ HasPort
      PROVE  of[s] \notin T /\ \A v \in Worktrees, t \in Services : of[s] \notin B[v][t]
  BY <1>1
<1>4. ASSUME NEW s \in HasPort
      PROVE  (\E v \in Worktrees, t \in Services : <<v, t>> # <<x, s>> /\ of[s] \in B[v][t])
             <=> \E v \in Worktrees \ {x}, t \in Services : of[s] \in B[v][t]
  BY <1>2
<1> QED BY <1>1, <1>3, <1>4 DEF Held, HeldBeside

(* What compose does to the own containers leaves blocked what was.        *)
LEMMA BlockedStays ==
  ASSUME TypeOK, Single, DefaultsApart, PortInv, PortInv', step = "compose",
         app' = app, taken' = taken, w' = w, ports' = ports, step' # "idle", step' # "resolve",
         \A v \in Worktrees \ {w}, t \in Services : bound'[v][t] = bound[v][t],
         \A t \in Services : bound'[w][t] \subseteq Host
  PROVE  Blocked(ports)' = Blocked(ports)
<1>1. /\ app \in Apps /\ w \in Worktrees /\ taken \subseteq Host
      /\ \A v \in Worktrees, t \in Services : bound[v][t] \subseteq Host
  BY DEF TypeOK
<1>2. HasPort' = HasPort /\ Single' /\ \A s : Mine(s)' = Mine(s)
  BY AppFixed
<1>3. /\ \A s \in HasPort : ports[s] \in Mine(s) /\ bound[w][s] \subseteq Mine(s)
      /\ \A s \in Services \ HasPort : ports[s] = NoPort /\ bound[w][s] = {}
  BY <1>1 DEF PortInv, Chosen, Seen, BoundMine
<1>4. \A s \in HasPort : bound'[w][s] \subseteq Mine(s)
  BY <1>1, <1>2 DEF PortInv, BoundMine
<1>5. \A s \in Services \ HasPort : bound'[w][s] = {}
  BY <1>1, <1>2 DEF PortInv, BoundMine
<1>6. \A v \in Worktrees, t \in Services : bound'[v][t] \subseteq Host
  BY <1>1
<1>7. Held(ports, taken, bound, w) = HeldBeside(ports, taken, bound, w)
  BY <1>1, <1>3, BlockedBeside
<1>8. Held(ports, taken, bound', w) = HeldBeside(ports, taken, bound', w)
  BY <1>1, <1>3, <1>4, <1>5, <1>6, BlockedBeside
<1>9. HeldBeside(ports, taken, bound', w) = HeldBeside(ports, taken, bound, w)
  BY DEF HeldBeside
<1>10. Blocked(ports) = Held(ports, taken, bound, w) /\ Blocked(ports)' = Held(ports, taken, bound', w)
  BY DEF Blocked, Held
<1> QED BY <1>7, <1>8, <1>9, <1>10

(* The service that could not bind is blocked, and is moved unless it may  *)
(* not be, whatever the message says.                                      *)
LEMMA BlamedMoves ==
  ASSUME TypeOK, Single, PortInv, NEW r \in Services, BindFails(r)
  PROVE  r \in Blocked(ports) /\ (r \in Moved' \/ Pinned(w, r))
<1>1. /\ step = "compose" /\ ~Bindable(r) /\ blamed' \in Messages(r) /\ w \in Worktrees
      /\ app' = app /\ ports' = ports /\ defaults' = defaults /\ app \in Apps
  BY DEF BindFails, TypeOK
<1>2. HasPort' = HasPort
  BY <1>1, AppFixed
<1>3. r \in HasPort
  <2>1. r \notin HasPort => Published(r) = {} /\ Inputs(r) = {}
    BY <1>1, Publishes DEF HasPort
  <2> QED BY <1>1, <2>1 DEF Bindable
<1>4. Published(r) = {ports[r]}
  BY <1>1, <1>3, Publishes
<1>5. ~Free(ports[r]) /\ ports[r] \notin bound[w][r]
  <2>1. \A i, j \in Inputs(r) : i = j
    BY DEF Single, Inputs
  <2> QED BY <1>1, <1>4, <2>1 DEF Bindable
<1>6. r \in Blocked(ports)
  BY <1>5 DEF Blocked, Free
<1>7. \A s \in HasPort : ports[s] \in Host
  BY <1>1, MineInHost DEF PortInv, Chosen, Seen
<1>8. CASE blamed' = {ports[r]}
  <2>1. Matched' /\ r \in {s \in HasPort : ports[s] \in blamed}'
    BY <1>1, <1>2, <1>3, <1>8 DEF Matched
  <2> QED BY <1>6, <2>1 DEF Moved
<1>9. CASE blamed' = {Unrelated}
  <2>1. ~Matched' /\ Unmatched'
    BY <1>1, <1>2, <1>7, <1>9, HostFacts DEF Matched, Unmatched
  <2>2. Moved' = HasPort \ (app.fixed \ defaults)
    BY <1>1, <1>2, <2>1 DEF Moved
  <2> QED BY <1>3, <1>6, <2>2 DEF Pinned
<1>10. CASE blamed' = {}
  <2>1. ~Matched' /\ ~Unmatched'
    BY <1>10 DEF Matched, Unmatched
  <2> QED BY <1>2, <1>3, <1>6, <2>1 DEF Moved
<1> QED BY <1>1, <1>4, <1>8, <1>9, <1>10 DEF Messages

LEMMA ProgressRetries ==
  ASSUME TypeOK, Single, DefaultsApart, quiet, PortInv, Progress, Retry
  PROVE  Fewer(ports)' \/ \E s \in stuck' : Pinned(w, s)'
<1>1. /\ step = "retry" /\ app' = app /\ w' = w /\ taken' = taken /\ bound' = bound
      /\ stuck' = stuck /\ w \in Worktrees
  BY DEF Retry, TypeOK, history
<1>2. /\ stuck = Blocked(ports)
      /\ \E s \in stuck : s \in Moved \/ Pinned(w, s)
  BY <1>1 DEF PortInv, OneRetry, Progress
<1>3. ASSUME NEW s \in stuck, s \in Moved PROVE Fewer(ports)'
  <2>1. /\ \A t \in Moved : t \in HasPort /\ Free(ports'[t])
        /\ \A t \in Services : t \notin Moved => ports'[t] = ports[t]
    BY Moves
  <2>2. ASSUME NEW t \in Moved PROVE t \notin Blocked(ports)'
    BY <1>1, <2>1 DEF Blocked, Free
  <2>3. ASSUME NEW t \in Blocked(ports)', t \notin Moved PROVE t \in Blocked(ports)
    BY <1>1, <2>1, <2>3 DEF Blocked
  <2>4. Blocked(ports)' \subseteq stuck /\ s \notin Blocked(ports)'
    BY <1>2, <1>3, <2>2, <2>3
  <2> QED BY <1>1, <2>4 DEF Fewer
<1>4. ASSUME NEW s \in stuck, Pinned(w, s) PROVE \E t \in stuck' : Pinned(w, t)'
  BY <1>1, <1>4 DEF Pinned, Inputs
<1> QED BY <1>2, <1>3, <1>4

LEMMA ProgressStep ==
  TypeOK /\ TypeOK' /\ PortInv /\ PortInv' /\ Progress /\ [Next]_vars => Progress'
<1> SUFFICES ASSUME TypeOK, TypeOK', PortInv, PortInv', Progress, [Next]_vars,
                    Single, DefaultsApart, quiet'
             PROVE  Progress'
  <2>1. [Next]_vars => app' = app
    BY DEF Next, Begin, Down, ResolveInput, Resolved, WriteEnv, Finish, Retry, Fail, Converge,
           BindFails, SecondBindFails, HostChanges, End, vars
  <2> QED BY <2>1, AppFixed DEF Progress
<1>1. /\ retried => step \in {"write", "compose"}
      /\ w \in Worktrees \/ step = "idle"
      /\ app \in Apps
  BY DEF PortInv, OneRetry, TypeOK
<1>2. CASE step' \in {"idle", "resolve", "write"} /\ ~retried'
  BY <1>2 DEF Progress
<1>3. ASSUME app' = app, taken' = taken, bound' = bound, w' = w, ports' = ports
      PROVE  Blocked(ports)' = Blocked(ports) /\ \A s : Pinned(w, s)' = Pinned(w, s)
  BY <1>3 DEF Blocked, Pinned, Inputs
<1>4. CASE WriteEnv
  <2>1. /\ app' = app /\ taken' = taken /\ bound' = bound /\ w' = w /\ ports' = ports
        /\ step' = "compose" /\ retried' = retried /\ quiet' = quiet
        /\ stuck' = IF retried THEN stuck ELSE Blocked(ports)
    BY <1>4 DEF WriteEnv
  <2>2. retried => Fewer(ports) \/ \E s \in stuck : Pinned(w, s)
    BY <2>1 DEF Progress
  <2> QED BY <1>3, <2>1, <2>2 DEF Progress, Fewer
<1>5. ASSUME NEW r \in Services, Converge(r) PROVE Progress'
  <2>1. /\ app' = app /\ taken' = taken /\ w' = w /\ ports' = ports /\ stuck' = stuck
        /\ step = "compose" /\ step' = "compose" /\ retried' = retried /\ quiet' = quiet
        /\ bound' = [bound EXCEPT ![w][r] = Published(r)] /\ w \in Worktrees
    BY <1>1, <1>5 DEF Converge, history
  <2>2. /\ \A v \in Worktrees \ {w}, t \in Services : bound'[v][t] = bound[v][t]
        /\ \A t \in Services : bound'[w][t] \subseteq Host
    <3>1. \A t \in Services : bound'[w][t] \subseteq Host
      BY <2>1 DEF TypeOK
    <3> QED BY <2>1, <3>1 DEF TypeOK
  <2>3. Blocked(ports)' = Blocked(ports)
    BY <2>1, <2>2, BlockedStays
  <2>4. \A s : Pinned(w, s)' = Pinned(w, s)
    BY <2>1 DEF Pinned, Inputs
  <2>5. /\ ~retried => stuck = Blocked(ports)
        /\ retried => Fewer(ports) \/ \E s \in stuck : Pinned(w, s)
    BY <2>1 DEF Progress
  <2> QED BY <2>1, <2>3, <2>4, <2>5 DEF Progress, Fewer
<1>6. ASSUME NEW r \in Services, BindFails(r) PROVE Progress'
  <2>1. /\ app' = app /\ taken' = taken /\ w' = w /\ ports' = ports /\ stuck' = stuck
        /\ step = "compose" /\ step' = "retry" /\ retried' = retried /\ quiet' = quiet
        /\ bound' = [bound EXCEPT ![w][r] = {}] /\ w \in Worktrees /\ ~retried
    BY <1>1, <1>6 DEF BindFails, history
  <2>2. /\ \A v \in Worktrees \ {w}, t \in Services : bound'[v][t] = bound[v][t]
        /\ \A t \in Services : bound'[w][t] \subseteq Host
    <3>1. \A t \in Services : bound'[w][t] \subseteq Host
      BY <2>1 DEF TypeOK
    <3> QED BY <2>1, <3>1 DEF TypeOK
  <2>3. Blocked(ports)' = Blocked(ports)
    BY <2>1, <2>2, BlockedStays
  <2>4. \A s : Pinned(w, s)' = Pinned(w, s)
    BY <2>1 DEF Pinned, Inputs
  <2>5. stuck = Blocked(ports)
    BY <2>1 DEF Progress
  <2>6. r \in Blocked(ports) /\ (r \in Moved' \/ Pinned(w, r))
    BY <1>6, BlamedMoves
  <2> QED BY <2>1, <2>3, <2>4, <2>5, <2>6 DEF Progress
<1>7. CASE Retry
  <2>1. quiet /\ step' = "write"
    BY <1>7 DEF Retry, history
  <2>2. Fewer(ports)' \/ \E s \in stuck' : Pinned(w, s)'
    BY <1>7, <2>1, ProgressRetries
  <2> QED BY <2>1, <2>2 DEF Progress
<1>8. CASE UNCHANGED vars
  <2>1. /\ app' = app /\ taken' = taken /\ bound' = bound /\ w' = w /\ ports' = ports
        /\ step' = step /\ retried' = retried /\ quiet' = quiet /\ stuck' = stuck
        /\ blamed' = blamed /\ defaults' = defaults
    BY <1>8 DEF vars, local, history
  <2>2. Moved' = Moved
    BY <2>1, AppFixed DEF Moved, Matched, Unmatched
  <2> QED BY <1>3, <2>1, <2>2 DEF Progress, Fewer
<1>9. CASE \/ \E v \in Worktrees : Begin(v)
           \/ ResolveInput \/ Resolved \/ Finish \/ Fail \/ \E s \in Services : SecondBindFails(s)
  <2>1. step' \in {"idle", "resolve", "write"} /\ ~retried'
    <3>1. CASE (\E v \in Worktrees : Begin(v)) \/ ResolveInput \/ Resolved
      <4>1. step \in {"idle", "resolve"} /\ retried' = retried /\ step' \in {"resolve", "write"}
        BY <3>1 DEF Begin, ResolveInput, Resolved
      <4> QED BY <1>1, <4>1
    <3>2. CASE Finish \/ Fail \/ \E s \in Services : SecondBindFails(s)
      BY <3>2 DEF Finish, Fail, SecondBindFails, End
    <3> QED BY <1>9, <3>1, <3>2
  <2> QED BY <1>2, <2>1
<1>10. ~(\E v \in Worktrees : Down(v)) /\ ~\E p \in Host : HostChanges(p)
  BY DEF Down, HostChanges, Event
<1> QED BY <1>4, <1>5, <1>6, <1>7, <1>8, <1>9, <1>10 DEF Next

(* An up that fails to bind twice has come nearer: with nothing beside it, *)
(* fewer ports are held by others than when it began.                      *)
THEOREM FailureAlwaysProgress == Spec => []FailureProgress
<1>1. Init => Progress
  BY DEF Init, Progress
<1>2. Progress => FailureProgress
  BY DEF Progress, FailureProgress, Fewer
<1> QED BY <1>1, <1>2, ProgressStep, PortInvariant, PTL DEF Spec
=============================================================================
