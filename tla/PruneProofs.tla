------------------------------- MODULE PruneProofs -------------------------------
(***************************************************************************)
(* What prune never takes, for any worktrees and whatever runs beside it.  *)
(***************************************************************************)
EXTENDS Prune, TLAPS

(* Docker's state, the plans of prune and the history keep their ranges;   *)
(* containers only use fork volumes that exist, as docker refuses to       *)
(* remove a volume in use.                                                 *)
THEOREM TypeCorrect == Spec => []TypeOK
<1> USE SlugAssumption DEF TypeOK, Phases
<1>1. ASSUME Init PROVE TypeOK
  <2>1. NoListing \in Listing
    BY DEF NoListing, Listing, States
  <2>2. live \in SUBSET Slugs
    BY <1>1 DEF Init, Kept
  <2> QED BY <1>1, <2>1, <2>2 DEF Init
<1>2. TypeOK /\ [Next]_vars => TypeOK'
  <2> SUFFICES ASSUME TypeOK, [Next]_vars PROVE TypeOK'
    OBVIOUS
  <2>0. moves' \in Nat
    BY DEF Next, Beside, vars
  <2>1. ASSUME Beside PROVE TypeOK'
    <3> USE DEF host, prune, history
    <3>1. ASSUME NEW s \in Slugs, Add(s) PROVE TypeOK'
      BY <2>0, <3>1 DEF Add
    <3>2. ASSUME NEW s \in Slugs, Remove(s) PROVE TypeOK'
      BY <2>0, <3>2 DEF Remove
    <3>3. ASSUME NEW s \in Slugs, UpInfra(s) PROVE TypeOK'
      BY <2>0, <3>3 DEF UpInfra
    <3>4. ASSUME NEW s \in Slugs, ForkVolume(s) PROVE TypeOK'
      BY <2>0, <3>4 DEF ForkVolume
    <3>5. ASSUME NEW s \in Slugs, Stop(s) PROVE TypeOK'
      BY <2>0, <3>5 DEF Stop, States
    <3>6. ASSUME NEW s \in Slugs, Down(s) PROVE TypeOK'
      BY <2>0, <3>6 DEF Down, States
    <3>7. CASE ComposeUp
      BY <2>0, <3>7 DEF ComposeUp, States, NoCmd
    <3>8. CASE ComposeUpFails
      BY <2>0, <3>8 DEF ComposeUpFails
    <3>9. ASSUME NEW s \in Slugs, Other(s) PROVE TypeOK'
      BY <2>0, <3>9 DEF Other, States
    <3> QED BY <2>1, <3>1, <3>2, <3>3, <3>4, <3>5, <3>6, <3>7, <3>8, <3>9 DEF Beside
  <2>2. CASE Begin
    BY <2>0, <2>2 DEF Begin, host
  <2>3. CASE ReadLive
    BY <2>0, <2>3 DEF ReadLive, host, history
  <2>4. CASE ReadStacks
    BY <2>0, <2>4 DEF ReadStacks, host, history, Listing
  <2>5. CASE ReadContainers
    <3>1. stopInfra' \in BOOLEAN
      BY <2>5 DEF ReadContainers
    <3>2. NoListing \in Listing
      BY DEF NoListing, Listing, States
    <3> QED BY <2>0, <2>5, <3>1, <3>2 DEF ReadContainers, host, history
  <2>6. ASSUME NEW s \in Slugs, RemoveStack(s) PROVE TypeOK'
    BY <2>0, <2>6 DEF RemoveStack, States
  <2>7. ASSUME NEW s \in Slugs, RemoveVolume(s) PROVE TypeOK'
    BY <2>0, <2>7 DEF RemoveVolume, history
  <2>8. CASE StacksRemoved
    BY <2>0, <2>8 DEF StacksRemoved, host, history
  <2>9. CASE ListVolumes
    BY <2>0, <2>9 DEF ListVolumes, host, history
  <2>10. CASE VolumesRemoved
    BY <2>0, <2>10 DEF VolumesRemoved, host, history
  <2>11. CASE Unconfirmed \/ StopInfra \/ KeepInfra \/ Fail
    <3>1. NoListing \in Listing
      BY DEF NoListing, Listing, States
    <3>2. CASE Unconfirmed
      BY <2>0, <3>1, <3>2 DEF Unconfirmed, End, host
    <3>3. CASE StopInfra
      BY <2>0, <3>1, <3>3 DEF StopInfra, End
    <3>4. CASE KeepInfra
      BY <2>0, <3>1, <3>4 DEF KeepInfra, End, host
    <3>5. CASE Fail
      BY <2>0, <3>1, <3>5 DEF Fail, End, host
    <3> QED BY <2>11, <3>2, <3>3, <3>4, <3>5
  <2>12. CASE UNCHANGED vars
    BY <2>0, <2>12 DEF vars, host, prune, history
  <2> QED BY <2>1, <2>2, <2>3, <2>4, <2>5, <2>6, <2>7, <2>8, <2>9, <2>10, <2>11, <2>12
          DEF Next, PruneStep
<1> QED BY <1>1, <1>2, PTL DEF Spec

-----------------------------------------------------------------------------
LEMMA SteadyInit == Init => SteadyInv
BY DEF Init, SteadyInv, SteadySeen, PlansAvoid

(* Beside prune, worktrees and stacks only stop being steady.              *)
LEMMA SteadyBeside == TypeOK /\ SteadyInv /\ Beside => SteadyInv'
<1> SUFFICES ASSUME TypeOK, SteadyInv, Beside PROVE SteadyInv'
  OBVIOUS
<1> USE DEF SteadyInv, SteadySeen, PlansAvoid, host, prune, history
<1>1. ASSUME NEW s \in Slugs, Add(s) PROVE SteadyInv'
  BY <1>1 DEF Add
<1>2. ASSUME NEW s \in Slugs, Remove(s) PROVE SteadyInv'
  BY <1>2 DEF Remove
<1>3. ASSUME NEW s \in Slugs, UpInfra(s) PROVE SteadyInv'
  BY <1>3 DEF UpInfra
<1>4. ASSUME NEW s \in Slugs, ForkVolume(s) PROVE SteadyInv'
  BY <1>4 DEF ForkVolume
<1>5. ASSUME NEW s \in Slugs, Stop(s) PROVE SteadyInv'
  BY <1>5 DEF Stop, TypeOK
<1>6. ASSUME NEW s \in Slugs, Down(s) PROVE SteadyInv'
  BY <1>6 DEF Down, TypeOK
<1>7. CASE ComposeUp
  BY <1>7 DEF ComposeUp, TypeOK
<1>8. CASE ComposeUpFails
  BY <1>8 DEF ComposeUpFails
<1>9. ASSUME NEW s \in Slugs, Other(s) PROVE SteadyInv'
  BY <1>9 DEF Other, TypeOK
<1> QED BY <1>1, <1>2, <1>3, <1>4, <1>5, <1>6, <1>7, <1>8, <1>9 DEF Beside

(* The plans are made of what was listed, which covers what is steady.     *)
LEMMA SteadyPlans == TypeOK /\ SteadyInv /\ ReadContainers => SteadyInv'
<1> SUFFICES ASSUME TypeOK, SteadyInv, ReadContainers PROVE SteadyInv'
  OBVIOUS
<1> USE DEF SteadyInv, SteadySeen, PlansAvoid, ReadContainers, host, history
<1>1. steadyUp \subseteq Slugs
  BY DEF TypeOK
<1>2. ASSUME NEW s \in steadyUp PROVE Running(s) /\ Present(s)
  BY <1>2 DEF Running, Present
<1>3. SteadySeen'
  BY <1>1, <1>2
<1>4. todo' \cap (steady \cup steadyUp)' = {}
  BY <1>2 DEF Candidate
<1>5. stopInfra' => steadyUp' = {}
  BY <1>1, <1>2 DEF Remains
<1> QED BY <1>3, <1>4, <1>5

LEMMA SteadyStep == TypeOK /\ SteadyInv /\ [Next]_vars => SteadyInv'
<1> SUFFICES ASSUME TypeOK, SteadyInv, [Next]_vars PROVE SteadyInv'
  OBVIOUS
<1> USE DEF SteadyInv, SteadySeen, PlansAvoid
<1>1. CASE Beside
  BY <1>1, SteadyBeside
<1>2. CASE Begin
  BY <1>2 DEF Begin, host
<1>3. CASE ReadLive
  BY <1>3 DEF ReadLive, host, history
<1>4. CASE ReadStacks
  BY <1>4 DEF ReadStacks, host, history
<1>5. CASE ReadContainers
  BY <1>5, SteadyPlans
<1>6. ASSUME NEW s \in Slugs, RemoveStack(s) PROVE SteadyInv'
  BY <1>6 DEF RemoveStack
<1>7. ASSUME NEW s \in Slugs, RemoveVolume(s) PROVE SteadyInv'
  BY <1>7 DEF RemoveVolume, history
<1>8. CASE StacksRemoved
  BY <1>8 DEF StacksRemoved, host, history
<1>9. CASE ListVolumes
  BY <1>9 DEF ListVolumes, Eligible, host, history
<1>10. CASE VolumesRemoved
  BY <1>10 DEF VolumesRemoved, host, history
<1>11. CASE Unconfirmed \/ StopInfra \/ KeepInfra \/ Fail
  BY <1>11 DEF Unconfirmed, StopInfra, KeepInfra, Fail, End, host
<1>12. CASE UNCHANGED vars
  BY <1>12 DEF vars, host, prune, history
<1> QED BY <1>1, <1>2, <1>3, <1>4, <1>5, <1>6, <1>7, <1>8, <1>9, <1>10, <1>11, <1>12
        DEF Next, PruneStep

(* What a prune knows of what stands, whatever happens beside it.          *)
THEOREM SteadyInvariant == Spec => [](TypeOK /\ SteadyInv)
<1>1. Init /\ TypeOK => SteadyInv
  BY SteadyInit
<1>2. TypeOK /\ SteadyInv /\ [Next]_vars => SteadyInv'
  BY SteadyStep
<1> QED BY <1>1, <1>2, TypeCorrect, PTL DEF Spec

(* Prune removes no stack and no fork volume of a worktree that has been   *)
(* there since it began, nor of a stack that has been running since then.  *)
THEOREM StandingAlwaysKept == Spec => StandingKept
<1>1. SteadyInv /\ [Next]_vars => [TakesNothingSteady]_vars
  BY DEF SteadyInv, PlansAvoid, TakesNothingSteady, Takes, RemoveStack, RemoveVolume
<1> QED BY <1>1, SteadyInvariant, PTL DEF Spec, StandingKept

(* Prune never stops the infra under a stack that has been running since   *)
(* it began.                                                               *)
THEOREM InfraAlwaysServes == Spec => InfraServes
<1>1. SteadyInv /\ [Next]_vars => [StopsNothingSteady]_vars
  BY DEF SteadyInv, PlansAvoid, StopsNothingSteady, StopInfra
<1> QED BY <1>1, SteadyInvariant, PTL DEF Spec, InfraServes

-----------------------------------------------------------------------------
(* The inductive invariant of a prune that nothing happens beside.  What   *)
(* it was told is what is there.                                           *)
Told ==
  /\ phase \in {"ls", "ps", "stacks", "volumes"} => seen = live
  /\ phase = "ps" => ls = [stacks |-> stack, infra |-> infra]
  /\ phase \in {"stacks", "volumes"} => running = {s \in Slugs : stack[s] = "running"}

(* It has still to remove exactly docktree's stopped stacks, then the      *)
(* volumes of stacks that do not run, of the worktrees that are gone.      *)
Owes ==
  /\ phase = "stacks" =>
       todo = {s \in Slugs \ (live \cup foreign) : opts.execute /\ stack[s] = "stopped"}
  /\ phase \in {"volumes", "rm", "infra", "done"} /\ opts.execute =>
       \A s \in Slugs \ (live \cup foreign) : stack[s] # "stopped"
  /\ phase = "rm" => todo = {s \in forks \ live : opts.execute /\ stack[s] # "running"}
  /\ phase \in {"infra", "done"} /\ opts.execute /\ opts.includeForks =>
       \A s \in forks \ live : stack[s] = "running"

(* The infra is to be stopped if no project will be left.                  *)
Left(s) == stack[s] # "none" /\ (phase = "stacks" => s \notin todo)
Unneeded ==
  /\ phase \in {"stacks", "volumes", "rm", "infra"} =>
       /\ stopInfra => \A s \in Slugs : ~Left(s)
       /\ opts.execute /\ infra /\ ~stopInfra => \E s \in Slugs : Left(s)
  /\ phase = "done" /\ opts.execute /\ infra => \E s \in Slugs : Left(s)

AloneInv == Kept \subseteq live /\ (moves = 0 => Told /\ Owes /\ Unneeded)

LEMMA AloneInit == Init => AloneInv
BY DEF Init, AloneInv, Told, Owes, Unneeded, Kept

(* Beside prune, only git worktree remove takes a worktree away.           *)
LEMMA AloneBeside == TypeOK /\ AloneInv /\ Beside => AloneInv'
<1> SUFFICES ASSUME TypeOK, AloneInv, Beside PROVE AloneInv'
  OBVIOUS
<1>1. moves' # 0
  BY DEF Beside, TypeOK
<1>2. \/ live' = live
      \/ \E s \in Slugs : live' = live \cup {s}
      \/ \E s \in Slugs \ Kept : live' = live \ {s}
  BY DEF Beside, Add, Remove, UpInfra, ForkVolume, Stop, Down, Other, ComposeUp, ComposeUpFails, host
<1>3. Kept \subseteq live'
  BY <1>2 DEF AloneInv
<1> QED BY <1>1, <1>3 DEF AloneInv

(* The listings are one if nothing happens between them; what is decided   *)
(* from them is what there is.                                             *)
LEMMA AlonePlans == TypeOK /\ AloneInv /\ ReadContainers /\ moves' = moves => AloneInv'
<1> SUFFICES ASSUME TypeOK, AloneInv, ReadContainers, moves' = moves, moves = 0
             PROVE  AloneInv'
  BY DEF AloneInv, ReadContainers, host
<1>1. /\ live' = live /\ stack' = stack /\ foreign' = foreign /\ infra' = infra
      /\ opts' = opts
      /\ seen = live /\ seen' = seen /\ Kept \subseteq live
      /\ phase = "ps" /\ phase' = "stacks"
      /\ stack \in [Slugs -> States]
  BY DEF ReadContainers, host, AloneInv, Told, TypeOK
<1>2. ls.infra = infra /\ ls.stacks = stack
  BY <1>1 DEF AloneInv, Told
<1>3. ASSUME NEW s \in Slugs
      PROVE  /\ Running(s) <=> stack[s] = "running"
             /\ Present(s) <=> stack[s] # "none"
             /\ Candidate(s) <=> stack[s] # "none" /\ s \notin live \cup foreign
  BY <1>1, <1>2 DEF Running, Present, Candidate, Managed
<1>4. todo' = {s \in Slugs \ (live \cup foreign) : opts.execute /\ stack[s] = "stopped"}
  <2>1. \A s \in Slugs : stack[s] \in {"none", "stopped", "running"}
    BY <1>1 DEF States
  <2> QED BY <1>3, <2>1 DEF ReadContainers
<1>5. running' = {s \in Slugs : stack[s] = "running"}
  BY <1>3 DEF ReadContainers
<1>6. opts.execute => (Remains <=> \E s \in Slugs : stack[s] # "none" /\ s \notin todo')
  <2>1. \A s \in Slugs : stack[s] \in {"none", "stopped", "running"}
    BY <1>1 DEF States
  <2> QED BY <1>3, <1>4, <2>1 DEF Remains
<1>7. stopInfra' <=> opts.execute /\ infra /\ ~Remains
  BY <1>2 DEF ReadContainers
<1>8. Unneeded'
  BY <1>1, <1>6, <1>7 DEF Unneeded, Left
<1> QED BY <1>1, <1>4, <1>5, <1>8 DEF AloneInv, Told, Owes

LEMMA AloneStep == TypeOK /\ AloneInv /\ [Next]_vars => AloneInv'
<1> SUFFICES ASSUME TypeOK, AloneInv, [Next]_vars PROVE AloneInv'
  OBVIOUS
<1>1. CASE Beside
  BY <1>1, AloneBeside
<1>2. CASE UNCHANGED vars
  BY <1>2 DEF AloneInv, Told, Owes, Unneeded, Left, vars, host, prune, history
<1>3. CASE PruneStep /\ moves' = moves
  <2>1. live' = live
    BY <1>3 DEF PruneStep, Begin, ReadLive, ReadStacks, ReadContainers, RemoveStack,
                StacksRemoved, ListVolumes, Unconfirmed, RemoveVolume, VolumesRemoved,
                StopInfra, KeepInfra, Fail, host
  <2> SUFFICES ASSUME moves = 0, Told, Owes, Unneeded PROVE Told' /\ Owes' /\ Unneeded'
    BY <1>3, <2>1 DEF AloneInv
  <2> USE DEF Told, Owes, Unneeded, Left, host
  <2>2. CASE Begin
    BY <2>1, <2>2 DEF Begin
  <2>3. CASE ReadLive
    BY <2>1, <2>3 DEF ReadLive
  <2>4. CASE ReadStacks
    BY <2>1, <2>4 DEF ReadStacks
  <2>5. CASE ReadContainers
    BY <1>3, <2>5, AlonePlans DEF AloneInv
  <2>6. ASSUME NEW s \in Slugs, RemoveStack(s) PROVE Told' /\ Owes' /\ Unneeded'
    <3>1. stack' = [stack EXCEPT ![s] = "none"] /\ todo' = todo \ {s} /\ phase = "stacks"
      BY <2>6 DEF RemoveStack
    <3>2. stack \in [Slugs -> States] /\ stack[s] = "stopped"
          /\ s \in Slugs \ (live \cup foreign)
      BY <2>6 DEF RemoveStack, TypeOK
    <3>3. \A r \in Slugs : stack'[r] = IF r = s THEN "none" ELSE stack[r]
      BY <3>1, <3>2
    <3>4. Told'
      BY <2>6, <3>2, <3>3 DEF RemoveStack
    <3>5. Owes'
      BY <2>6, <3>2, <3>3 DEF RemoveStack
    <3>6. \A r \in Slugs : Left(r)' <=> Left(r)
      BY <2>6, <3>2, <3>3 DEF RemoveStack
    <3>7. Unneeded'
      BY <2>6, <3>6 DEF RemoveStack
    <3> QED BY <3>4, <3>5, <3>7
  <2>7. ASSUME NEW s \in Slugs, RemoveVolume(s) PROVE Told' /\ Owes' /\ Unneeded'
    BY <2>1, <2>7 DEF RemoveVolume
  <2>8. CASE StacksRemoved
    BY <2>1, <2>8 DEF StacksRemoved
  <2>9. CASE ListVolumes
    <3>1. \A s \in Slugs : Eligible(s) <=> s \notin live /\ stack[s] # "running"
      BY <2>9 DEF ListVolumes, Eligible, AloneInv
    <3> QED BY <2>1, <2>9, <3>1 DEF ListVolumes, TypeOK
  <2>10. CASE VolumesRemoved
    BY <2>1, <2>10 DEF VolumesRemoved
  <2>11. CASE Unconfirmed \/ Fail
    BY <2>1, <2>11 DEF Unconfirmed, Fail, End
  <2>12. CASE StopInfra
    BY <2>1, <2>12 DEF StopInfra, End
  <2>13. CASE KeepInfra
    BY <2>1, <2>13 DEF KeepInfra, End
  <2> QED BY <1>3, <2>2, <2>3, <2>4, <2>5, <2>6, <2>7, <2>8, <2>9, <2>10, <2>11, <2>12, <2>13
          DEF PruneStep
<1> QED BY <1>1, <1>2, <1>3 DEF Next

(* What a prune that is alone has done and has still to do.                *)
THEOREM AloneInvariant == Spec => [](TypeOK /\ AloneInv)
BY AloneInit, AloneStep, TypeCorrect, PTL DEF Spec

(* A prune that nothing happens beside, carried out to its end, leaves no  *)
(* stopped stack and no idle fork volume of a worktree that is gone, and   *)
(* no infra if no project of the app's prefix is there; of those, what is  *)
(* not docktree's stays.                                                   *)
THEOREM AlwaysCleaned == Spec => []Cleaned
<1>1. AloneInv => Cleaned
  <2> SUFFICES ASSUME AloneInv, phase = "done", opts.execute, moves = 0
               PROVE  /\ \A s \in Slugs \ live :
                           /\ stack[s] = "stopped" => s \in foreign
                           /\ opts.includeForks /\ s \in forks => stack[s] = "running"
                      /\ infra => \E s \in Slugs : stack[s] # "none"
    BY DEF Cleaned
  <2>1. Owes /\ Unneeded
    BY DEF AloneInv
  <2> QED BY <2>1 DEF Owes, Unneeded, Left
<1> QED BY <1>1, AloneInvariant, PTL

(* It takes no stack and no volume of a worktree that is there, and no     *)
(* stack that is not docktree's.                                           *)
THEOREM OnlyOrphansAlwaysRemoved == Spec => OnlyOrphansRemoved
<1> DEFINE OnlyOrphans == \A s \in Slugs :
             moves = 0 => /\ Takes(s) => s \notin live
                          /\ RemoveStack(s) => s \notin foreign
<1>1. TypeOK /\ AloneInv /\ [Next]_vars => [OnlyOrphans]_vars
  BY DEF AloneInv, Owes, Takes, RemoveStack, RemoveVolume
<1> QED BY <1>1, AloneInvariant, PTL DEF Spec, OnlyOrphansRemoved

(* It stops the infra when no project of the app's prefix is left, and     *)
(* only then.                                                              *)
THEOREM InfraAlwaysUnused == Spec => InfraUnused
<1>1. AloneInv /\ [Next]_vars
        => [StopInfra /\ moves = 0 => \A s \in Slugs : stack[s] = "none"]_vars
  BY DEF AloneInv, Unneeded, Left, StopInfra
<1> QED BY <1>1, AloneInvariant, PTL DEF Spec, InfraUnused
=============================================================================
