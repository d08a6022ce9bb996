---------------------------- MODULE TopologyProofs ----------------------------
(***************************************************************************)
(* Who reaches whom, for any apps, worktrees, services and ports, and any  *)
(* number of commands that fail, are killed, or are crossed by downs.      *)
(***************************************************************************)
EXTENDS Topology, TLAPS

LEMMA AppFacts ==
  ASSUME app \in Apps
  PROVE  /\ app.shared \subseteq Services /\ app.forkable \subseteq app.shared
         /\ app.isolated \subseteq app.forkable
         /\ app.ports \in [Services -> SUBSET Ports]
         /\ app.requires \in [Services -> SUBSET Services]
         /\ app.wants \in [Services -> SUBSET Services]
BY AppAssumption DEF App

(* A command is one of a worktree; what follows its projections is a step  *)
(* of its own; fork and unfork are given a service that can be forked.     *)
After == {"infra", "volume", "down", "compose"}
Running ==
  /\ step # "idle" =>
       /\ cmd.w \in Worktrees
       /\ forked = copies[cmd.w]
       /\ settled[cmd.w] \in {"busy", "no"}
  /\ step \in {"render", "split"} => after \in After
  /\ step \in {"volume", "down", "rm"} \/ (step \in {"render", "split"} /\ after \in {"volume", "down"})
       => cmd.svc \in app.forkable

LEMMA NameTypes ==
  ASSUME NEW w \in Worktrees, NEW s \in Services
  PROVE  /\ ServiceName(w, s) \in Name /\ UplinkServiceName(w, s) \in Name
         /\ UplinkServiceName(w, NoService) \in Name /\ Stands(w, s) \in Name
BY DEF ServiceName, UplinkServiceName, Stands, UplinkFor, Name

LEMMA ProjectionType ==
  ASSUME TypeOK, NEW w \in Worktrees
  PROVE  Projection(w) \subseteq Container
<1>1. app \in Apps /\ primary \subseteq app.shared /\ dedicated \subseteq app.shared
  BY DEF TypeOK
<1>2. ASSUME NEW s \in Services PROVE Local(w, s) \in Container
  <2>1. DependsOn(w, s) \subseteq [on : Name, required : BOOLEAN]
    <3>1. \A d : Required(w, s, Stands(w, d)) \in BOOLEAN
      BY DEF Required
    <3>2. \A d \in app.requires[s] \cup app.wants[s] : d \in Services
      BY <1>1, AppFacts
    <3> QED BY <3>1, <3>2, NameTypes DEF DependsOn
  <2> QED BY <2>1, NameTypes DEF Local, Container
<1>3. ASSUME NEW name \in Name, NEW names \in SUBSET Services PROVE Uplink(name, names) \in Container
  <2>1. ASSUME NEW s \in names, NEW p \in app.ports[s]
        PROVE  [port |-> p, dials |-> UpstreamAlias(s)] \in [port : Ports, dials : Alias]
    BY <1>1, AppFacts DEF UpstreamAlias, Alias
  <2>2. UNION {{[port |-> p, dials |-> UpstreamAlias(s)] : p \in app.ports[s]} : s \in names}
          \subseteq [port : Ports, dials : Alias]
    BY <2>1
  <2> QED BY <2>2 DEF Uplink, Container
<1>4. primary \subseteq Services /\ dedicated \subseteq Services
  BY <1>1, AppFacts
<1> QED BY <1>2, <1>3, <1>4, NameTypes DEF Projection

LEMMA TypeStep == TypeOK /\ Running /\ [Next]_vars => TypeOK' /\ Running'
<1> SUFFICES ASSUME TypeOK, Running, [Next]_vars PROVE TypeOK' /\ Running'
  OBVIOUS
<1> USE DEF Steps, After, host, split
<1>0. /\ NoWorktree \notin Worktrees /\ Main \in Worktrees /\ NoService \notin Services
      /\ app \in Apps /\ MaxCommands \in Nat
  BY WorktreeAssumption, ServiceAssumption, BoundAssumption DEF TypeOK
<1>1. ASSUME NEW w \in Worktrees, NEW kind \in Kinds, NEW s \in Services \cup {NoService},
             NEW sel \in Selections \cup {{}}, Begin(w, kind, s, sel)
      PROVE  TypeOK' /\ Running'
  <2>0. sel \in SUBSET Services
    BY SelectionAssumption
  <2>1. cmd' \in [w : Worktrees, kind : Kinds, svc : Services \cup {NoService}, sel : SUBSET Services]
    BY <1>1, <2>0 DEF Begin
  <2>2. count' \in 0..MaxCommands
    BY <1>0, <1>1 DEF Begin, TypeOK
  <2>3. /\ forked' = copies[w] /\ step' = "render" /\ settled' = [settled EXCEPT ![w] = "busy"]
        /\ cmd'.w = w /\ app' = app /\ copies' = copies /\ cmd'.svc = s
        /\ after' \in After /\ (after' # "infra" => s \in app.forkable)
    BY <1>1 DEF Begin, Kinds
  <2>4. TypeOK'
    BY <1>0, <1>1, <2>1, <2>2, <2>3 DEF Begin, TypeOK
  <2> QED BY <2>3, <2>4 DEF Running, TypeOK
<1>2. CASE BeginSplit
  <2>1. left' = Uplinked /\ left' \subseteq app.shared
    BY <1>2 DEF BeginSplit, Uplinked
  <2> QED BY <1>2, <2>1 DEF BeginSplit, TypeOK, Running
<1>3. ASSUME NEW s \in Services, JoinPrimary(s) \/ Dedicate(s) PROVE TypeOK' /\ Running'
  <2>1. s \in app.shared
    BY <1>3 DEF JoinPrimary, Dedicate, Least, TypeOK
  <2> QED BY <1>3, <2>1 DEF JoinPrimary, Dedicate, TypeOK, Running
<1>4. ASSUME NEW s \in Services, AutoFork(s) PROVE TypeOK' /\ Running'
  <2>1. s \in app.forkable /\ cmd.w \in Worktrees
    BY <1>0, <1>4, AppFacts DEF AutoFork, Running
  <2> QED BY <1>4, <2>1 DEF AutoFork, TypeOK, Running
<1>5. CASE WriteProjection
  <2>1. cmd.w \in Worktrees /\ Projection(cmd.w) \subseteq Container /\ after \in After
    BY <1>5, ProjectionType DEF WriteProjection, Running
  <2>2. yml' \in [Worktrees -> SUBSET Container]
    BY <1>5, <2>1 DEF WriteProjection, TypeOK
  <2> QED BY <1>5, <2>1, <2>2 DEF WriteProjection, TypeOK, Running
<1>6. CASE EnsureInfra
  BY <1>6 DEF EnsureInfra, TypeOK, Running
<1>7. CASE Forked
  <2>1. step' \in {"compose", "render"} /\ after' = "compose" /\ step = "forks"
    BY <1>7 DEF Forked
  <2> QED BY <1>7, <2>1 DEF Forked, TypeOK, Running
<1>8. CASE MakeVolume
  <2>1. cmd.svc \in app.forkable /\ cmd.w \in Worktrees
    BY <1>8 DEF MakeVolume, Running
  <2> QED BY <1>8, <2>1 DEF MakeVolume, TypeOK, Running
<1>9. CASE TakeDown
  BY <1>9 DEF TakeDown, TypeOK, Running
<1>10. CASE RemoveVolume
  <2>1. cmd.svc \in app.forkable /\ cmd.w \in Worktrees
    BY <1>10 DEF RemoveVolume, Running
  <2> QED BY <1>10, <2>1 DEF RemoveVolume, TypeOK, Running
<1>11. CASE StartCompose
  <2>1. cmd.w \in Worktrees /\ Wanted(yml[cmd.w]) \subseteq yml[cmd.w]
    BY <1>11 DEF StartCompose, Running, Wanted
  <2>2. todo' \in SUBSET Container
    BY <1>11, <2>1 DEF StartCompose, TypeOK
  <2> QED BY <1>11, <2>2 DEF StartCompose, TypeOK, Running
<1>12. ASSUME NEW c \in todo, Converge(c) PROVE TypeOK' /\ Running'
  <2>1. c \in Container /\ cmd.w \in Worktrees
    BY <1>12 DEF Converge, TypeOK, Running
  <2> QED BY <1>12, <2>1 DEF Converge, TypeOK, Running
<1>13. ASSUME NEW how \in {"no", "part", "whole"}, End(how) PROVE TypeOK' /\ Running'
  BY <1>0, <1>13 DEF End, TypeOK, Running
<1>14. Finish \/ Fail => \E how \in {"no", "part", "whole"} : End(how)
  BY DEF Finish, Fail
<1>15. ASSUME NEW w \in Worktrees, Down(w) PROVE TypeOK' /\ Running'
  BY <1>15 DEF Down, TypeOK, Running
<1>16. ASSUME NEW s \in Services, InfraStops(s) PROVE TypeOK' /\ Running'
  BY <1>16 DEF InfraStops, TypeOK, Running
<1>17. CASE UNCHANGED vars
  BY <1>17 DEF vars, TypeOK, Running
<1> QED BY <1>1, <1>2, <1>3, <1>4, <1>5, <1>6, <1>7, <1>8, <1>9, <1>10, <1>11, <1>12, <1>13,
           <1>14, <1>15, <1>16, <1>17 DEF Next

(* Every variable keeps its range: the projections are compose files of    *)
(* the worktree, a fork copies only what may be forked.                    *)
THEOREM TypeCorrect == Spec => []TypeOK
<1>1. Init => TypeOK /\ Running
  BY AppAssumption, BoundAssumption DEF Init, TypeOK, Running, Steps, NoCmd
<1> QED BY <1>1, TypeStep, PTL DEF Spec

-----------------------------------------------------------------------------
(* The services that are uplinked are each in one of the three sets, and   *)
(* those that share an ambassador have no port in common.                  *)
Splits ==
  step = "split" =>
     /\ left \cup primary \cup dedicated = Uplinked
     /\ left \cap (primary \cup dedicated) = {} /\ primary \cap dedicated = {}
     /\ \A s, t \in primary : s # t => app.ports[s] \cap app.ports[t] = {}

(* A compose file that is a worktree's projection when F are forked: names *)
(* and aliases are unique, each service is reached under its own, by its   *)
(* own container or through a forward to the infra, and a required         *)
(* dependency leads to a container with the name that was required.        *)
Forwards(c, n) ==
  \A p \in app.ports[n] : {f.dials : f \in {g \in c.forwards : g.port = p}} = {UpstreamAlias(n)}
Renders(w, F, doc) ==
  /\ \A c \in doc : c.name.w = w
  /\ \A c, d \in doc : c.name = d.name \/ c.aliases \cap d.aliases # {} => c = d
  /\ \A n \in Services : \E c \in doc : n \in c.aliases
  /\ \A c \in doc, n \in Services : n \in c.aliases =>
        IF n \in app.shared \ F THEN Forwards(c, n)
        ELSE c.name = ServiceName(w, n) /\ (c.forked <=> n \in app.shared)
  /\ \A c \in doc : c.name.kind = "service" =>
        /\ c.name.svc \in Services \ (app.shared \ F)
        /\ \A n \in app.requires[c.name.svc] : \E e \in c.dependsOn, d \in doc :
              e.required /\ d.name = e.on /\ n \in d.aliases

(* The file on disk is the projection of what was forked when it was       *)
(* rendered, and of what is forked now once compose reads it.              *)
OnDisk ==
  /\ step \in {"infra", "forks"} => \E F \in SUBSET forked : Renders(cmd.w, F, yml[cmd.w])
  /\ step \in {"compose", "converge"} => Renders(cmd.w, forked, yml[cmd.w])

(* Names are a worktree's own, and unique among what it runs.              *)
Owned ==
  \A w \in Worktrees :
     /\ \A c \in yml[w] \cup run[w] : c.name.w = w
     /\ \A c, d \in run[w] : c.name = d.name => c = d

(* What compose is done with runs as the file has it, unless a down took   *)
(* it, and nothing runs that the file does not name.                       *)
Converging ==
  step = "converge" =>
     LET doc == yml[cmd.w]
         done == Wanted(doc) \ todo
     IN /\ todo \subseteq Wanted(doc)
        /\ \A d \in done, r \in run[cmd.w] : r.name = d.name => r = d
        /\ settled[cmd.w] = "busy" => done \subseteq run[cmd.w]
        /\ \A r \in run[cmd.w] : \E d \in doc : d.name = r.name

(* A stack that is up whole is the projection of what is forked now.       *)
WholeStack ==
  \A w \in Worktrees : settled[w] = "whole" =>
     run[w] = yml[w] /\ Renders(w, copies[w], yml[w])

StackInv == Splits /\ OnDisk /\ Owned /\ Converging /\ WholeStack

-----------------------------------------------------------------------------
(* A forward per port of a service, none of which another service has.     *)
LEMMA UplinkForwards ==
  ASSUME app \in Apps, NEW name, NEW names \in SUBSET Services, NEW n \in names,
         \A s \in names : s # n => app.ports[s] \cap app.ports[n] = {}
  PROVE  Forwards(Uplink(name, names), n)
<1> DEFINE F == UNION {{[port |-> p, dials |-> UpstreamAlias(s)] : p \in app.ports[s]} : s \in names}
<1>1. Uplink(name, names).forwards = F
  BY DEF Uplink
<1>2. ASSUME NEW p \in app.ports[n], NEW f \in F, f.port = p PROVE f.dials = UpstreamAlias(n)
  <2>1. PICK s \in names :
           \E q \in app.ports[s] : f = [port |-> q, dials |-> UpstreamAlias(s)]
    BY <1>2
  <2>2. s = n
    BY <1>2, <2>1
  <2> QED BY <2>1, <2>2
<1>3. ASSUME NEW p \in app.ports[n]
      PROVE  \E f \in F : f.port = p /\ f.dials = UpstreamAlias(n)
  <2>1. [port |-> p, dials |-> UpstreamAlias(n)] \in F
    OBVIOUS
  <2> QED BY <2>1
<1>4. ASSUME NEW p \in app.ports[n]
      PROVE  {f.dials : f \in {g \in F : g.port = p}} = {UpstreamAlias(n)}
  BY <1>2, <1>3
<1> HIDE DEF F
<1> QED BY <1>1, <1>4 DEF Forwards

(* What the split gives compose: renderUplinkServices and what rewrites    *)
(* the dependencies.                                                       *)
LEMMA ProjectionRenders ==
  ASSUME TypeOK, Splits, step = "split", left = {}, NEW w \in Worktrees
  PROVE  Renders(w, forked, Projection(w))
<1> DEFINE doc == Projection(w)
           shared == Uplink(UplinkServiceName(w, NoService), primary)
           own(s) == Uplink(UplinkServiceName(w, s), {s})
<1>1. /\ app \in Apps /\ primary \subseteq Services /\ dedicated \subseteq Services
      /\ NoService \notin Services /\ Uplinked \subseteq Services
  BY AppFacts, ServiceAssumption DEF TypeOK, Uplinked
<1>2. /\ primary \cup dedicated = Uplinked /\ primary \cap dedicated = {}
      /\ \A s, t \in primary : s # t => app.ports[s] \cap app.ports[t] = {}
  BY DEF Splits
<1>3. \A c : c \in doc <=> \/ \E s \in Services \ Uplinked : c = Local(w, s)
                           \/ primary # {} /\ c = shared
                           \/ \E s \in dedicated : c = own(s)
  BY DEF Projection
<1>4. /\ \A s : Local(w, s).name = ServiceName(w, s) /\ Local(w, s).aliases = {s}
      /\ shared.name = UplinkServiceName(w, NoService) /\ shared.aliases = primary
      /\ \A s : own(s).name = UplinkServiceName(w, s) /\ own(s).aliases = {s}
  BY DEF Local, Uplink
<1>5. \A s : /\ ServiceName(w, s).w = w /\ ServiceName(w, s).svc = s
             /\ ServiceName(w, s).kind = "service"
             /\ UplinkServiceName(w, s).w = w /\ UplinkServiceName(w, s).svc = s
             /\ UplinkServiceName(w, s).kind = "uplink"
  BY DEF ServiceName, UplinkServiceName
<1> HIDE DEF doc, shared, own
<1>6. \A c \in doc : c.name.w = w
  BY <1>3, <1>4, <1>5
<1>7. ASSUME NEW c \in doc, NEW d \in doc, c.name = d.name \/ c.aliases \cap d.aliases # {}
      PROVE  c = d
  <2>1. CASE \E s \in Services \ Uplinked : c = Local(w, s)
    BY <1>1, <1>2, <1>3, <1>4, <1>5, <1>7, <2>1
  <2>2. CASE primary # {} /\ c = shared
    BY <1>1, <1>2, <1>3, <1>4, <1>5, <1>7, <2>2
  <2>3. CASE \E s \in dedicated : c = own(s)
    BY <1>1, <1>2, <1>3, <1>4, <1>5, <1>7, <2>3
  <2> QED BY <1>3, <2>1, <2>2, <2>3
<1>8. ASSUME NEW n \in Services PROVE \E c \in doc : n \in c.aliases /\ c.name = Stands(w, n)
  <2>1. CASE n \in dedicated
    BY <1>2, <1>3, <1>4, <2>1 DEF Stands, UplinkFor
  <2>2. CASE n \in primary
    BY <1>2, <1>3, <1>4, <2>2 DEF Stands, UplinkFor
  <2>3. CASE n \notin Uplinked
    BY <1>3, <1>4, <2>3 DEF Stands
  <2> QED BY <1>2, <2>1, <2>2, <2>3
<1>9. ASSUME NEW c \in doc, NEW n \in Services, n \in c.aliases
      PROVE  IF n \in app.shared \ forked THEN Forwards(c, n)
             ELSE c.name = ServiceName(w, n) /\ (c.forked <=> n \in app.shared)
  <2>1. CASE \E s \in Services \ Uplinked : c = Local(w, s)
    <3>1. c = Local(w, n) /\ n \notin Uplinked
      BY <1>4, <1>9, <2>1
    <3>2. Local(w, n).name = ServiceName(w, n) /\ (Local(w, n).forked <=> n \in app.shared)
      BY DEF Local
    <3> QED BY <3>1, <3>2 DEF Uplinked
  <2>2. CASE c = shared
    <3>1. n \in primary
      BY <1>4, <1>9, <2>2
    <3> QED BY <1>1, <1>2, <2>2, <3>1, UplinkForwards DEF shared, Uplinked
  <2>3. CASE \E s \in dedicated : c = own(s)
    <3>1. n \in dedicated /\ c = own(n)
      BY <1>4, <1>9, <2>3
    <3>2. Forwards(own(n), n)
      BY <1>1, UplinkForwards DEF own
    <3> QED BY <1>2, <3>1, <3>2 DEF Uplinked
  <2> QED BY <1>3, <2>1, <2>2, <2>3
<1>10. ASSUME NEW c \in doc, c.name.kind = "service"
       PROVE  /\ c.name.svc \in Services \ (app.shared \ forked)
              /\ \A n \in app.requires[c.name.svc] : \E e \in c.dependsOn, d \in doc :
                    e.required /\ d.name = e.on /\ n \in d.aliases
  <2>1. PICK s \in Services \ Uplinked : c = Local(w, s)
    BY <1>3, <1>4, <1>5, <1>10
  <2>2. c.name.svc = s /\ c.dependsOn = DependsOn(w, s)
    <3>1. Local(w, s).dependsOn = DependsOn(w, s)
      BY DEF Local
    <3> QED BY <1>4, <1>5, <2>1, <3>1
  <2>3. ASSUME NEW n \in app.requires[s]
        PROVE  \E e \in DependsOn(w, s) : e.required /\ e.on = Stands(w, n)
    <3>1. [on |-> Stands(w, n), required |-> Required(w, s, Stands(w, n))] \in DependsOn(w, s)
      BY DEF DependsOn
    <3>2. Required(w, s, Stands(w, n))
      BY DEF Required
    <3> QED BY <3>1, <3>2
  <2>4. \A n \in app.requires[s] : n \in Services
    BY <1>1, AppFacts
  <2> QED BY <1>8, <2>2, <2>3, <2>4 DEF Uplinked
<1> QED BY <1>6, <1>7, <1>8, <1>9, <1>10 DEF Renders, doc

-----------------------------------------------------------------------------
LEMMA StackInit == Init => StackInv
BY DEF Init, StackInv, Splits, OnDisk, Owned, Converging, WholeStack

LEMMA RendersFixed ==
  ASSUME app' = app
  PROVE  \A w, F, doc : Renders(w, F, doc)' <=> Renders(w, F, doc)
BY DEF Renders, Forwards

(* The file on disk renders what it rendered when nobody writes it.        *)
LEMMA FileFixed ==
  ASSUME NEW CONSTANT F, app' = app, yml' = yml, cmd' = cmd
  PROVE  Renders(cmd.w, F, yml[cmd.w])' <=> Renders(cmd.w, F, yml[cmd.w])
BY DEF Renders, Forwards

LEMMA OnDiskKept ==
  ASSUME StackInv, app' = app, yml' = yml, cmd' = cmd, forked' = forked, step' = step
  PROVE  OnDisk'
<1>2. \A F : Renders(cmd.w, F, yml[cmd.w])' <=> Renders(cmd.w, F, yml[cmd.w])
  BY DEF Renders, Forwards
<1>3. step \in {"infra", "forks"} => \E F \in SUBSET forked : Renders(cmd.w, F, yml[cmd.w])'
  BY <1>2 DEF StackInv, OnDisk
<1>4. step \in {"compose", "converge"} => Renders(cmd.w, forked, yml[cmd.w])'
  <2> SUFFICES ASSUME step \in {"compose", "converge"} PROVE Renders(cmd.w, forked, yml[cmd.w])'
    OBVIOUS
  <2>1. Renders(cmd.w, forked, yml[cmd.w])
    BY DEF StackInv, OnDisk
  <2>2. Renders(cmd.w, forked, yml[cmd.w])' <=> Renders(cmd.w, forked, yml[cmd.w])
    BY DEF Renders, Forwards
  <2> QED BY <2>1, <2>2
<1> QED BY <1>3, <1>4 DEF OnDisk

(* A step that touches neither the projections nor the containers, and not *)
(* the copies of a stack that is up whole.                                 *)
LEMMA StackBeside ==
  ASSUME TypeOK, TypeOK', Running, Running', StackInv, app' = app, yml' = yml, run' = run,
         \A w \in Worktrees : settled'[w] = "whole" => settled[w] = "whole" /\ copies'[w] = copies[w]
  PROVE  Owned' /\ WholeStack'
<1>1. Owned'
  BY DEF StackInv, Owned
<1>2. ASSUME NEW w \in Worktrees, settled'[w] = "whole"
      PROVE  run[w] = yml[w] /\ Renders(w, copies'[w], yml[w])
  BY <1>2 DEF StackInv, WholeStack
<1>3. WholeStack'
  <2> SUFFICES ASSUME NEW w \in Worktrees, settled'[w] = "whole"
               PROVE  run'[w] = yml'[w] /\ Renders(w, copies[w], yml[w])'
    BY DEF WholeStack
  <2>1. run[w] = yml[w] /\ Renders(w, copies'[w], yml[w])
    BY <1>2
  <2>2. Renders(w, copies[w], yml[w])' <=> Renders(w, copies'[w], yml'[w])
    BY DEF Renders, Forwards
  <2> QED BY <2>1, <2>2
<1> QED BY <1>1, <1>3

LEMMA WantedFixed ==
  ASSUME cmd' = cmd PROVE \A doc : Wanted(doc)' = Wanted(doc)
BY DEF Wanted, Closed

LEMMA WantedClosed ==
  ASSUME NEW doc, NEW c \in Wanted(doc), NEW e \in c.dependsOn, NEW d \in doc, d.name = e.on
  PROVE  d \in Wanted(doc)
<1>1. CASE cmd.sel = {}
  BY <1>1 DEF Wanted
<1>2. CASE cmd.sel # {}
  <2> SUFFICES ASSUME NEW S \in SUBSET doc, Closed(S, doc),
                      \A x \in doc : x.name.kind = "service" /\ x.name.svc \in cmd.sel => x \in S
               PROVE  d \in S
    BY DEF Wanted
  <2>1. c \in S
    BY <1>2 DEF Wanted
  <2> QED BY <2>1 DEF Closed
<1> QED BY <1>1, <1>2

LEMMA StackWrites ==
  ASSUME TypeOK, TypeOK', Running, Running', StackInv, WriteProjection PROVE StackInv'
<1>1. /\ app' = app /\ copies' = copies /\ run' = run /\ settled' = settled /\ cmd' = cmd
      /\ forked' = forked /\ step = "split" /\ left = {} /\ step' \in After
      /\ yml' = [yml EXCEPT ![cmd.w] = Projection(cmd.w)]
      /\ cmd.w \in Worktrees /\ settled[cmd.w] # "whole"
  BY DEF WriteProjection, Running, host
<1>2. Renders(cmd.w, forked, Projection(cmd.w))
  BY <1>1, ProjectionRenders DEF StackInv
<1>3. \A w \in Worktrees : yml'[w] = IF w = cmd.w THEN Projection(cmd.w) ELSE yml[w]
  BY <1>1 DEF TypeOK
<1>4. \A w, F, doc : Renders(w, F, doc)' <=> Renders(w, F, doc)
  BY <1>1, RendersFixed
<1>5. Owned'
  BY <1>1, <1>2, <1>3 DEF StackInv, Owned, Renders
<1>6. OnDisk'
  <2>1. Renders(cmd.w, forked, yml'[cmd.w])
    BY <1>1, <1>2, <1>3
  <2>2. \A F, doc : Renders(cmd.w, F, doc)' <=> Renders(cmd.w, F, doc)
    BY <1>1 DEF Renders, Forwards
  <2> QED BY <1>1, <2>1, <2>2 DEF OnDisk
<1>7. WholeStack'
  <2> SUFFICES ASSUME NEW w \in Worktrees, settled[w] = "whole"
               PROVE  run[w] = yml'[w] /\ Renders(w, copies[w], yml'[w])
    BY <1>1, <1>4 DEF WholeStack
  <2> QED BY <1>1, <1>3 DEF StackInv, WholeStack
<1>8. Splits' /\ Converging'
  BY <1>1 DEF Splits, Converging, After
<1> QED BY <1>5, <1>6, <1>7, <1>8 DEF StackInv

(* docker compose up: the orphans go, the others are brought to the file.  *)
LEMMA StackStarts ==
  ASSUME TypeOK, TypeOK', Running, Running', StackInv, StartCompose PROVE StackInv'
<1>1. /\ app' = app /\ copies' = copies /\ yml' = yml /\ settled' = settled /\ cmd' = cmd
      /\ forked' = forked /\ step = "compose" /\ step' = "converge"
      /\ run' = [run EXCEPT ![cmd.w] = @ \ Orphans(cmd.w)] /\ todo' = Wanted(yml[cmd.w])
      /\ cmd.w \in Worktrees /\ settled[cmd.w] # "whole"
  BY DEF StartCompose, Running
<1>2. \A w \in Worktrees : run'[w] = IF w = cmd.w THEN Named(w) ELSE run[w]
  BY <1>1 DEF TypeOK, Orphans, Named
<1>3. \A w : Named(w) \subseteq run[w] /\ \A c \in Named(w) : \E d \in yml[w] : d.name = c.name
  BY DEF Named
<1>4. Owned'
  BY <1>1, <1>2, <1>3 DEF StackInv, Owned
<1>5. OnDisk'
  <2>1. Renders(cmd.w, forked, yml[cmd.w])
    BY <1>1 DEF StackInv, OnDisk
  <2>2. Renders(cmd.w, forked, yml[cmd.w])' <=> Renders(cmd.w, forked, yml[cmd.w])
    BY <1>1 DEF Renders, Forwards
  <2> QED BY <1>1, <2>1, <2>2 DEF OnDisk
<1>6. Converging'
  <2>1. Wanted(yml[cmd.w])' = Wanted(yml[cmd.w])
    BY <1>1 DEF Wanted, Closed
  <2>2. (Wanted(yml[cmd.w]) \ todo)' = {}
    BY <1>1, <2>1
  <2> QED BY <1>1, <1>2, <1>3, <2>1, <2>2 DEF Converging
<1>7. WholeStack'
  <2> SUFFICES ASSUME NEW w \in Worktrees, settled[w] = "whole"
               PROVE  run'[w] = yml[w] /\ Renders(w, copies[w], yml[w])
    BY <1>1, RendersFixed DEF WholeStack
  <2> QED BY <1>1, <1>2 DEF StackInv, WholeStack
<1> QED BY <1>1, <1>4, <1>5, <1>6, <1>7 DEF StackInv, Splits

LEMMA StackConverges ==
  ASSUME TypeOK, TypeOK', Running, Running', StackInv, NEW c \in todo, Converge(c) PROVE StackInv'
<1>1. /\ app' = app /\ copies' = copies /\ yml' = yml /\ settled' = settled /\ cmd' = cmd
      /\ forked' = forked /\ step = "converge" /\ step' = "converge" /\ todo' = todo \ {c}
      /\ run' = [run EXCEPT ![cmd.w] = {d \in @ : d.name # c.name} \cup {c}]
      /\ cmd.w \in Worktrees /\ settled[cmd.w] # "whole"
  BY DEF Converge, Running
<1>2. \A w \in Worktrees : run'[w] = IF w = cmd.w THEN {d \in run[w] : d.name # c.name} \cup {c}
                                     ELSE run[w]
  BY <1>1 DEF TypeOK
<1>3. Renders(cmd.w, forked, yml[cmd.w])
  BY <1>1 DEF StackInv, OnDisk
<1>4. /\ todo \subseteq Wanted(yml[cmd.w])
      /\ \A d \in Wanted(yml[cmd.w]) \ todo, r \in run[cmd.w] : r.name = d.name => r = d
      /\ settled[cmd.w] = "busy" => Wanted(yml[cmd.w]) \ todo \subseteq run[cmd.w]
      /\ \A r \in run[cmd.w] : \E d \in yml[cmd.w] : d.name = r.name
  BY <1>1 DEF StackInv, Converging
<1>5. /\ Wanted(yml[cmd.w]) \subseteq yml[cmd.w] /\ c \in yml[cmd.w] /\ c.name.w = cmd.w
      /\ \A d \in yml[cmd.w] : d.name = c.name => d = c
  <2>1. Wanted(yml[cmd.w]) \subseteq yml[cmd.w]
    BY DEF Wanted
  <2> QED BY <1>3, <1>4, <2>1 DEF Renders
<1>6. Owned'
  BY <1>1, <1>2, <1>5 DEF StackInv, Owned
<1>7. OnDisk'
  <2>1. Renders(cmd.w, forked, yml[cmd.w])' <=> Renders(cmd.w, forked, yml[cmd.w])
    BY <1>1 DEF Renders, Forwards
  <2> QED BY <1>1, <1>3, <2>1 DEF OnDisk
<1>8. Converging'
  <2>1. Wanted(yml[cmd.w])' = Wanted(yml[cmd.w])
    BY <1>1 DEF Wanted, Closed
  <2>2. Wanted(yml[cmd.w]) \ todo' = (Wanted(yml[cmd.w]) \ todo) \cup {c}
    BY <1>1, <1>4
  <2>3. run'[cmd.w] = {d \in run[cmd.w] : d.name # c.name} \cup {c}
    BY <1>1, <1>2
  <2>4. \A d \in Wanted(yml[cmd.w]) \ todo', r \in run'[cmd.w] : r.name = d.name => r = d
    BY <1>4, <1>5, <2>2, <2>3
  <2>5. settled[cmd.w] = "busy" => Wanted(yml[cmd.w]) \ todo' \subseteq run'[cmd.w]
    BY <1>4, <1>5, <2>2, <2>3
  <2>6. \A r \in run'[cmd.w] : \E d \in yml[cmd.w] : d.name = r.name
    BY <1>4, <1>5, <2>3
  <2> QED BY <1>1, <1>4, <2>1, <2>4, <2>5, <2>6 DEF Converging
<1>9. WholeStack'
  <2> SUFFICES ASSUME NEW w \in Worktrees, settled[w] = "whole"
               PROVE  run'[w] = yml[w] /\ Renders(w, copies[w], yml[w])
    BY <1>1, RendersFixed DEF WholeStack
  <2> QED BY <1>1, <1>2 DEF StackInv, WholeStack
<1> QED BY <1>1, <1>6, <1>7, <1>8, <1>9 DEF StackInv, Splits

(* A command that ends well ends with what the file has, and nothing else. *)
LEMMA StackEnds ==
  ASSUME TypeOK, TypeOK', Running, Running', StackInv, Finish \/ Fail PROVE StackInv'
<1>1. PICK how : /\ End(how)
                 /\ how = "whole" => /\ step = "converge" /\ todo = {} /\ cmd.sel = {}
                                     /\ settled[cmd.w] # "no"
                 /\ step # "idle"
  <2>1. CASE Finish
    BY <2>1 DEF Finish
  <2>2. CASE Fail
    BY <2>2 DEF Fail
  <2> QED BY <2>1, <2>2
<1>2. /\ app' = app /\ copies' = copies /\ yml' = yml /\ run' = run /\ step' = "idle"
      /\ settled' = [settled EXCEPT ![cmd.w] = how]
      /\ cmd.w \in Worktrees /\ forked = copies[cmd.w] /\ settled[cmd.w] \in {"busy", "no"}
  BY <1>1 DEF End, host, Running
<1>3. Owned'
  BY <1>2 DEF StackInv, Owned
<1>4. ASSUME how = "whole"
      PROVE  run[cmd.w] = yml[cmd.w] /\ Renders(cmd.w, copies[cmd.w], yml[cmd.w])
  <2>1. Wanted(yml[cmd.w]) = yml[cmd.w]
    BY <1>1, <1>4 DEF Wanted
  <2>2. yml[cmd.w] \subseteq run[cmd.w]
    BY <1>1, <1>2, <1>4, <2>1 DEF StackInv, Converging
  <2>3. \A r \in run[cmd.w] : r \in yml[cmd.w]
    BY <1>1, <1>4, <2>1 DEF StackInv, Converging
  <2>4. Renders(cmd.w, copies[cmd.w], yml[cmd.w])
    BY <1>1, <1>2, <1>4 DEF StackInv, OnDisk
  <2> QED BY <2>2, <2>3, <2>4
<1>5. WholeStack'
  <2> SUFFICES ASSUME NEW w \in Worktrees, settled'[w] = "whole"
               PROVE  run[w] = yml[w] /\ Renders(w, copies[w], yml[w])
    BY <1>2, RendersFixed DEF WholeStack
  <2>1. CASE w = cmd.w
    BY <1>2, <1>4, <2>1 DEF TypeOK
  <2>2. CASE w # cmd.w
    BY <1>2, <2>2 DEF StackInv, WholeStack
  <2> QED BY <2>1, <2>2
<1> QED BY <1>2, <1>3, <1>5 DEF StackInv, Splits, OnDisk, Converging

LEMMA StackStep ==
  TypeOK /\ TypeOK' /\ Running /\ Running' /\ StackInv /\ [Next]_vars => StackInv'
<1> SUFFICES ASSUME TypeOK, TypeOK', Running, Running', StackInv, [Next]_vars PROVE StackInv'
  OBVIOUS
<1> USE DEF host, split
<1>1. ASSUME NEW w \in Worktrees, NEW kind \in Kinds, NEW s \in Services \cup {NoService},
             NEW sel \in Selections \cup {{}}, Begin(w, kind, s, sel)
      PROVE  StackInv'
  <2>1. /\ app' = app /\ yml' = yml /\ run' = run /\ copies' = copies /\ step' = "render"
        /\ settled' = [settled EXCEPT ![w] = "busy"]
    BY <1>1 DEF Begin
  <2>2. \A v \in Worktrees : settled'[v] = "whole" => settled[v] = "whole" /\ copies'[v] = copies[v]
    BY <2>1 DEF TypeOK
  <2>3. Owned' /\ WholeStack'
    BY <2>1, <2>2, StackBeside
  <2> QED BY <2>1, <2>3 DEF StackInv, Splits, OnDisk, Converging
<1>2. CASE BeginSplit
  <2>1. /\ app' = app /\ yml' = yml /\ run' = run /\ copies' = copies /\ step' = "split"
        /\ settled' = settled /\ left' = Uplinked /\ primary' = {} /\ dedicated' = {}
        /\ forked' = forked
    BY <1>2 DEF BeginSplit
  <2>2. Splits'
    BY <2>1 DEF Splits, Uplinked
  <2>3. Owned' /\ WholeStack'
    BY <2>1, StackBeside
  <2> QED BY <2>1, <2>2, <2>3 DEF StackInv, OnDisk, Converging
<1>3. ASSUME NEW s \in Services, JoinPrimary(s) \/ Dedicate(s) PROVE StackInv'
  <2>1. /\ app' = app /\ yml' = yml /\ run' = run /\ copies' = copies /\ step' = "split"
        /\ settled' = settled /\ step = "split" /\ s \in left /\ left' = left \ {s}
        /\ forked' = forked
    BY <1>3 DEF JoinPrimary, Dedicate, Least
  <2>2. /\ left \cup primary \cup dedicated = Uplinked /\ Uplinked' = Uplinked
        /\ left \cap (primary \cup dedicated) = {} /\ primary \cap dedicated = {}
        /\ \A m, n \in primary : m # n => app.ports[m] \cap app.ports[n] = {}
    BY <2>1 DEF StackInv, Splits, Uplinked
  <2>3. ASSUME JoinPrimary(s) PROVE Splits'
    <3>1. primary' = primary \cup {s} /\ dedicated' = dedicated
      BY <2>3 DEF JoinPrimary
    <3>2. \A m \in primary : app.ports[m] \cap app.ports[s] = {}
      BY <2>3 DEF JoinPrimary, Claimed
    <3>3. \A m, n \in primary' : m # n => app.ports[m] \cap app.ports[n] = {}
      BY <2>2, <3>1, <3>2
    <3>4. left' \cup primary' \cup dedicated' = Uplinked'
      BY <2>1, <2>2, <3>1
    <3>5. left' \cap (primary' \cup dedicated') = {} /\ primary' \cap dedicated' = {}
      BY <2>1, <2>2, <3>1
    <3> QED BY <2>1, <3>3, <3>4, <3>5 DEF Splits
  <2>4. ASSUME Dedicate(s) PROVE Splits'
    <3>1. primary' = primary /\ dedicated' = dedicated \cup {s}
      BY <2>4 DEF Dedicate
    <3>2. left' \cup primary' \cup dedicated' = Uplinked'
      BY <2>1, <2>2, <3>1
    <3>3. left' \cap (primary' \cup dedicated') = {} /\ primary' \cap dedicated' = {}
      BY <2>1, <2>2, <3>1
    <3> QED BY <2>1, <2>2, <3>1, <3>2, <3>3 DEF Splits
  <2>5. Splits'
    BY <1>3, <2>3, <2>4
  <2>6. Owned' /\ WholeStack'
    BY <2>1, StackBeside
  <2> QED BY <2>1, <2>5, <2>6 DEF StackInv, OnDisk, Converging
<1>4. CASE EnsureInfra \/ \E s \in Services : AutoFork(s)
  <2>1. /\ app' = app /\ yml' = yml /\ run' = run /\ step \in {"infra", "forks"} /\ step' = "forks"
        /\ settled' = settled /\ cmd' = cmd /\ forked \subseteq forked'
        /\ \A w \in Worktrees : w # cmd.w => copies'[w] = copies[w]
    BY <1>4 DEF EnsureInfra, AutoFork, TypeOK
  <2>2. settled[cmd.w] # "whole"
    BY <2>1 DEF Running
  <2>3. Owned' /\ WholeStack'
    BY <2>1, <2>2, StackBeside
  <2>4. OnDisk'
    <3>1. PICK F \in SUBSET forked : Renders(cmd.w, F, yml[cmd.w])
      BY <2>1 DEF StackInv, OnDisk
    <3>2. Renders(cmd.w, F, yml[cmd.w])'
      BY <2>1, <3>1, FileFixed
    <3> QED BY <2>1, <3>2 DEF OnDisk
  <2> QED BY <2>1, <2>3, <2>4 DEF StackInv, Splits, Converging
<1>5. CASE Forked
  <2>1. /\ app' = app /\ yml' = yml /\ run' = run /\ copies' = copies /\ step = "forks"
        /\ settled' = settled /\ cmd' = cmd /\ forked' = forked
        /\ step' = IF Rendered THEN "compose" ELSE "render"
    BY <1>5 DEF Forked
  <2>2. Owned' /\ WholeStack'
    BY <2>1, StackBeside
  <2>3. ASSUME Rendered PROVE Renders(cmd.w, forked, yml[cmd.w])
    <3>1. PICK F \in SUBSET forked : Renders(cmd.w, F, yml[cmd.w])
      BY <2>1 DEF StackInv, OnDisk
    <3>2. ASSUME NEW s \in forked PROVE s \in F
      <4>1. PICK c \in yml[cmd.w] : c.name = ServiceName(cmd.w, s)
        BY <2>3 DEF Rendered
      <4>2. s \in app.shared
        BY AppFacts DEF TypeOK
      <4>3. c.name.kind = "service" /\ c.name.svc = s
        BY <4>1 DEF ServiceName
      <4> QED BY <3>1, <4>1, <4>2, <4>3 DEF Renders
    <3>3. F = forked
      BY <3>2
    <3> QED BY <3>1, <3>3
  <2>4. OnDisk'
    <3>1. Renders(cmd.w, forked, yml[cmd.w])' <=> Renders(cmd.w, forked, yml[cmd.w])
      BY <2>1 DEF Renders, Forwards
    <3> QED BY <2>1, <2>3, <3>1 DEF OnDisk
  <2> QED BY <2>1, <2>2, <2>4 DEF StackInv, Splits, Converging
<1>6. CASE MakeVolume \/ RemoveVolume
  <2>1. /\ app' = app /\ yml' = yml /\ run' = run /\ step' = "render" /\ settled' = settled
        /\ step # "idle" /\ \A w \in Worktrees : w # cmd.w => copies'[w] = copies[w]
    BY <1>6 DEF MakeVolume, RemoveVolume, TypeOK
  <2>2. settled[cmd.w] # "whole"
    BY <2>1 DEF Running
  <2>3. Owned' /\ WholeStack'
    BY <2>1, <2>2, StackBeside
  <2> QED BY <2>1, <2>3 DEF StackInv, Splits, OnDisk, Converging
<1>7. CASE TakeDown
  <2>1. /\ app' = app /\ yml' = yml /\ copies' = copies /\ step' = "rm" /\ settled' = settled
        /\ step # "idle" /\ run' = [run EXCEPT ![cmd.w] = @ \ Named(cmd.w)]
    BY <1>7 DEF TakeDown
  <2>2. \A w \in Worktrees : run'[w] \subseteq run[w] /\ (w # cmd.w => run'[w] = run[w])
    BY <2>1 DEF TypeOK
  <2>3. settled[cmd.w] # "whole"
    BY <2>1 DEF Running
  <2>4. Owned'
    BY <2>1, <2>2 DEF StackInv, Owned
  <2>5. WholeStack'
    <3> SUFFICES ASSUME NEW w \in Worktrees, settled[w] = "whole"
                 PROVE  run'[w] = yml[w] /\ Renders(w, copies[w], yml[w])
      BY <2>1, RendersFixed DEF WholeStack
    <3> QED BY <2>2, <2>3 DEF StackInv, WholeStack
  <2> QED BY <2>1, <2>4, <2>5 DEF StackInv, Splits, OnDisk, Converging
<1>8. ASSUME NEW v \in Worktrees, Down(v) PROVE StackInv'
  <2>1. /\ app' = app /\ yml' = yml /\ copies' = copies /\ step' = step /\ cmd' = cmd
        /\ forked' = forked /\ left' = left /\ primary' = primary /\ dedicated' = dedicated
        /\ todo' = todo /\ run' = [run EXCEPT ![v] = @ \ Named(v)]
        /\ settled' = [settled EXCEPT ![v] = "no"]
    BY <1>8 DEF Down
  <2>2. \A w \in Worktrees : /\ run'[w] \subseteq run[w] /\ (w # v => run'[w] = run[w])
                             /\ settled'[w] = IF w = v THEN "no" ELSE settled[w]
    BY <2>1 DEF TypeOK
  <2>3. Splits' /\ Owned'
    BY <2>1, <2>2 DEF StackInv, Splits, Owned, Uplinked
  <2>4. OnDisk'
    BY <2>1, OnDiskKept
  <2>5. Converging'
    <3> SUFFICES ASSUME step = "converge" PROVE Converging'
      BY <2>1 DEF Converging
    <3>1. Wanted(yml[cmd.w])' = Wanted(yml[cmd.w])
      BY <2>1 DEF Wanted, Closed
    <3>2. cmd.w \in Worktrees
      BY DEF Running
    <3>3. settled'[cmd.w] = "busy" => settled[cmd.w] = "busy" /\ run'[cmd.w] = run[cmd.w]
      BY <2>2, <3>2
    <3>4. run'[cmd.w] \subseteq run[cmd.w]
      BY <2>2, <3>2
    <3> QED BY <2>1, <3>1, <3>3, <3>4 DEF StackInv, Converging
  <2>6. WholeStack'
    <3> SUFFICES ASSUME NEW w \in Worktrees, settled'[w] = "whole"
                 PROVE  run'[w] = yml[w] /\ Renders(w, copies[w], yml[w])
      BY <2>1, RendersFixed DEF WholeStack
    <3> QED BY <2>2 DEF StackInv, WholeStack
  <2> QED BY <2>3, <2>4, <2>5, <2>6 DEF StackInv
<1>9. CASE UNCHANGED vars \/ \E s \in Services : InfraStops(s)
  <2>1. /\ app' = app /\ yml' = yml /\ copies' = copies /\ step' = step /\ cmd' = cmd
        /\ forked' = forked /\ left' = left /\ primary' = primary /\ dedicated' = dedicated
        /\ todo' = todo /\ run' = run /\ settled' = settled
    BY <1>9 DEF InfraStops, vars
  <2>2. Owned' /\ WholeStack'
    BY <2>1, StackBeside
  <2>3. Splits'
    BY <2>1 DEF StackInv, Splits, Uplinked
  <2>4. OnDisk'
    BY <2>1, OnDiskKept
  <2>5. Converging'
    BY <2>1 DEF StackInv, Converging, Wanted, Closed
  <2> QED BY <2>2, <2>3, <2>4, <2>5 DEF StackInv
<1> QED BY <1>1, <1>2, <1>3, <1>4, <1>5, <1>6, <1>7, <1>8, <1>9, StackWrites, StackStarts,
           StackConverges, StackEnds DEF Next

(* The inductive invariant of a run of commands.                           *)
THEOREM StackInvariant == Spec => [](TypeOK /\ Running /\ StackInv)
<1>1. Init => TypeOK /\ Running
  BY AppAssumption, BoundAssumption DEF Init, TypeOK, Running, Steps, NoCmd
<1> QED BY <1>1, TypeStep, StackInit, StackStep, PTL DEF Spec

-----------------------------------------------------------------------------
(* In a stack that is up whole every service name is one container's.      *)
THEOREM AlwaysResolvesOnce == Spec => []ResolvesOnce
<1>1. ASSUME StackInv PROVE ResolvesOnce
  <2> SUFFICES ASSUME NEW w \in Worktrees, settled[w] = "whole", NEW n \in Services
               PROVE  \E c \in run[w] : Carriers(w, n) = {c}
    BY DEF ResolvesOnce
  <2>1. run[w] = yml[w] /\ Renders(w, copies[w], yml[w])
    BY <1>1 DEF StackInv, WholeStack
  <2>2. PICK c \in run[w] : n \in c.aliases
    BY <2>1 DEF Renders
  <2>3. \A d \in run[w] : n \in d.aliases => d = c
    BY <2>1, <2>2 DEF Renders
  <2> QED BY <2>2, <2>3 DEF Carriers
<1> QED BY <1>1, StackInvariant, PTL

(* And it is the worktree's own container, or one that forwards each port  *)
(* to the infra's service of that name.                                    *)
THEOREM AlwaysReachesOwn == Spec => []ReachesOwn
<1>1. ASSUME StackInv PROVE ReachesOwn
  <2> SUFFICES ASSUME NEW w \in Worktrees, settled[w] = "whole", NEW n \in Services,
                      NEW c \in Carriers(w, n)
               PROVE  IF n \in app.shared \ copies[w]
                      THEN \A p \in app.ports[n] :
                              {f.dials : f \in {g \in c.forwards : g.port = p}}
                                 = {[of |-> "upstream", svc |-> n]}
                      ELSE c.name = ServiceName(w, n) /\ (c.forked <=> n \in app.shared)
    BY DEF ReachesOwn
  <2>1. Renders(w, copies[w], yml[w]) /\ c \in yml[w] /\ n \in c.aliases
    BY <1>1 DEF StackInv, WholeStack, Carriers
  <2> QED BY <2>1 DEF Renders, Forwards, UpstreamAlias
<1> QED BY <1>1, StackInvariant, PTL

(* No two containers have one name, be they of one worktree or of two.     *)
THEOREM AlwaysNamesApart == Spec => []NamesApart
<1>1. StackInv => NamesApart
  BY DEF StackInv, Owned, NamesApart
<1> QED BY <1>1, StackInvariant, PTL

(* When compose starts a container, whatever it requires is reached under  *)
(* its name, and what stands for it answers.                               *)
THEOREM DependenciesAlwaysServed == Spec => DependenciesServed
<1> DEFINE ServedNow ==
      \A c \in todo : Converge(c) /\ c.name.kind = "service" =>
         \A n \in app.requires[c.name.svc] : Served(cmd.w, n)
<1>1. ASSUME TypeOK, Running, StackInv PROVE ServedNow
  <2> SUFFICES ASSUME NEW c \in todo, Converge(c), c.name.kind = "service",
                      NEW n \in app.requires[c.name.svc]
               PROVE  Served(cmd.w, n)
    OBVIOUS
  <2>1. step = "converge" /\ Ready(c, cmd.w)
    BY DEF Converge
  <2>2. Renders(cmd.w, forked, yml[cmd.w])
    BY <1>1, <2>1 DEF StackInv, OnDisk
  <2>3. c \in Wanted(yml[cmd.w]) /\ c \in yml[cmd.w]
    BY <1>1, <2>1 DEF StackInv, Converging, Wanted
  <2>4. PICK e \in c.dependsOn, d \in yml[cmd.w] : e.required /\ d.name = e.on /\ n \in d.aliases
    BY <2>2, <2>3 DEF Renders
  <2>5. d \in Wanted(yml[cmd.w]) \ todo
    BY <2>1, <2>3, <2>4, WantedClosed DEF Ready
  <2>6. PICK r \in run[cmd.w] : r.name = e.on /\ Healthy(r)
    BY <2>1, <2>4 DEF Ready
  <2>7. r = d
    BY <1>1, <2>1, <2>4, <2>5, <2>6 DEF StackInv, Converging
  <2> QED BY <2>4, <2>6, <2>7 DEF Served, Carriers, Healthy
<1>2. Spec => [][ServedNow]_vars
  BY <1>1, StackInvariant, PTL
<1> QED BY <1>2 DEF DependenciesServed
=============================================================================
