------------------------------- MODULE ForksProofs -------------------------------
(***************************************************************************)
(* Proofs about Forks.tla for any stateful services, any number of         *)
(* commands at once, any choice of commands and any of the faults.         *)
(***************************************************************************)
EXTENDS Forks, TLAPS

LEMMA AnyServiceType == AnyService \in Services /\ NoJob \in Job
<1>1. AnyService \in Services
  BY ServiceAssumption DEF AnyService
<1> QED
  BY <1>1 DEF NoJob, Job, Locked, PCs, AnyLock

(* Changing the modes or the target of a command keeps it well typed.      *)
LEMMA JobUpdateType ==
  ASSUME NEW j \in Job, NEW modes \in SUBSET Services, NEW missed \in SUBSET Services,
         NEW s \in Services, NEW then \in PCs
  PROVE  /\ [j EXCEPT !.modes = modes] \in Job
         /\ [j EXCEPT !.modes = modes, !.then = then] \in Job
         /\ [j EXCEPT !.modes = modes, !.missed = missed, !.then = then] \in Job
         /\ [j EXCEPT !.missed = missed] \in Job
         /\ [j EXCEPT !.target = s] \in Job
  BY DEF Job

LEMMA JobFields ==
  ASSUME TypeOK, NEW p \in Procs
  PROVE  /\ job[p] \in Job /\ job[p].target \in Services
         /\ job[p].modes \in SUBSET Services /\ job[p].missed \in SUBSET Services
  BY DEF TypeOK, Job

LEMMA AskedType ==
  ASSUME NEW modes \in SUBSET Services, NEW answered \in SUBSET Pg
  PROVE  Asked(modes, answered) \in SUBSET Services
  BY DEF Asked, Existing, Services

(* What the lenient query does to the modes: a volume's mode stays, and    *)
(* the databases that exist are among the modes or the missed.             *)
LEMMA AskModesEffect ==
  ASSUME TypeOK, NEW p \in Procs, AskModes(p)
  PROVE  /\ pc[p] = "pgmodes"
         /\ UNCHANGED <<copy, env, yml, infra, running, attached, lock, ran>>
         /\ \E modes \in SUBSET Services, missed \in SUBSET Pg :
              /\ job' = [job EXCEPT ![p].modes = modes, ![p].missed = missed, ![p].then = "auto"]
              /\ pc' = [pc EXCEPT ![p] = IF modes # job[p].modes THEN "env" ELSE "auto"]
              /\ modes \subseteq job[p].modes \cup Existing
              /\ job[p].modes \cap Vol \subseteq modes
              /\ Existing \cap Pg \subseteq modes \cup missed
<1>1. PICK answered \in SUBSET Pg :
        /\ job' = [job EXCEPT ![p].modes = Asked(@, answered),
                     ![p].missed = Existing \cap (Pg \ answered), ![p].then = "auto"]
        /\ Goto(p, IF Asked(job[p].modes, answered) # job[p].modes THEN "env" ELSE "auto")
  BY DEF AskModes
<1> DEFINE modes == Asked(job[p].modes, answered)
           missed == Existing \cap (Pg \ answered)
<1>2. modes \in SUBSET Services /\ missed \in SUBSET Pg
  BY JobFields, AskedType
<1>3. modes \subseteq job[p].modes \cup Existing
  BY DEF Asked
<1>4. job[p].modes \cap Vol \subseteq modes
  BY ServiceAssumption DEF Asked
<1>5. Existing \cap Pg \subseteq modes \cup missed
  BY DEF Asked
<1>6. pc' = [pc EXCEPT ![p] = IF modes # job[p].modes THEN "env" ELSE "auto"]
  BY <1>1 DEF Goto
<1>7. pc[p] = "pgmodes" /\ UNCHANGED <<copy, env, yml, infra, running, attached, lock, ran>>
  BY DEF AskModes, At, docker, artifacts
<1> HIDE DEF modes, missed
<1>8. job' = [job EXCEPT ![p].modes = modes, ![p].missed = missed, ![p].then = "auto"]
  BY <1>1 DEF modes, missed
<1> QED
  BY <1>2, <1>3, <1>4, <1>5, <1>6, <1>7, <1>8

(* Type correctness: in particular compose.worktree.yml only ever forks    *)
(* volume services.                                                        *)
THEOREM TypeCorrect == Spec => []TypeOK
<1>1. Init => TypeOK
  <2> SUFFICES ASSUME Init PROVE TypeOK
    OBVIOUS
  <2>1. job \in [Procs -> Job]
    BY AnyServiceType DEF Init
  <2>2. pc \in [Procs -> PCs]
    BY DEF Init, PCs
  <2> QED
    BY <2>1, <2>2 DEF Init, TypeOK
<1>2. TypeOK /\ [Next]_vars => TypeOK'
  <2> SUFFICES ASSUME TypeOK, [Next]_vars PROVE TypeOK'
    OBVIOUS
  <2> USE AnyServiceType DEF TypeOK, PCs, InLock, AnyLock, Services,
      docker, artifacts, At, Goto, Cmd, Target, Finished
  <2>1. ASSUME NEW p \in Procs, Lock(p) PROVE TypeOK'
    BY <2>1 DEF Lock
  <2>2. ASSUME NEW p \in Procs, Derive(p) PROVE TypeOK'
    BY <2>2 DEF Derive, Job, Existing
  <2>3. ASSUME NEW p \in Procs, WriteEnv(p) PROVE TypeOK'
    BY <2>3 DEF WriteEnv, Job
  <2>4. ASSUME NEW p \in Procs, WriteYml(p) PROVE TypeOK'
    BY <2>4 DEF WriteYml, Job
  <2>5. ASSUME NEW p \in Procs, StartInfra(p) PROVE TypeOK'
    BY <2>5 DEF StartInfra
  <2>6. ASSUME NEW p \in Procs, StopInfra(p) PROVE TypeOK'
    BY <2>6 DEF StopInfra
  <2>7. ASSUME NEW p \in Procs, AskModes(p) PROVE TypeOK'
    <3>0. PICK modes \in SUBSET Services, missed \in SUBSET Pg :
             /\ job' = [job EXCEPT ![p].modes = modes, ![p].missed = missed, ![p].then = "auto"]
             /\ pc' = [pc EXCEPT ![p] = IF modes # job[p].modes THEN "env" ELSE "auto"]
             /\ modes \subseteq job[p].modes \cup Existing
             /\ job[p].modes \cap Vol \subseteq modes
             /\ Existing \cap Pg \subseteq modes \cup missed
      BY <2>7, AskModesEffect
    <3>1. pc[p] = "pgmodes" /\ UNCHANGED <<copy, env, yml, infra, running, attached, lock, ran>>
      BY <2>7, AskModesEffect
    <3>2. job' \in [Procs -> Job]
      <4>1. [job[p] EXCEPT !.modes = modes, !.missed = missed, !.then = "auto"] \in Job
        BY JobFields, JobUpdateType DEF PCs, InLock
      <4> QED
        BY <3>0, <4>1 DEF TypeOK
    <3>3. pc' \in [Procs -> PCs]
      BY <3>0 DEF TypeOK, PCs, InLock, AnyLock
    <3> QED
      BY <3>1, <3>2, <3>3 DEF TypeOK
  <2>8. ASSUME NEW p \in Procs, AutoFork(p) PROVE TypeOK'
    <3>0. PICK s \in Isolated \ job[p].modes : job' = [job EXCEPT ![p].target = s]
      BY <2>8 DEF AutoFork
    <3>1. job' \in [Procs -> Job]
      <4>1. [job[p] EXCEPT !.target = s] \in Job
        BY <3>0, JobFields, JobUpdateType, ServiceAssumption DEF PCs
      <4> QED
        BY <3>0, <4>1 DEF TypeOK
    <3>2. pc' \in [Procs -> PCs]
      BY <2>8 DEF TypeOK, AutoFork, Goto, PCs, InLock, AnyLock
    <3> QED
      BY <2>8, <3>1, <3>2 DEF TypeOK, AutoFork, docker, artifacts
  <2>9. ASSUME NEW p \in Procs, AutoForked(p) PROVE TypeOK'
    BY <2>9 DEF AutoForked
  <2>10. ASSUME NEW p \in Procs, Probe(p) PROVE TypeOK'
    <3>1. job' \in [Procs -> Job]
      <4>1. [job[p] EXCEPT !.missed = job[p].missed \ {job[p].target}] \in Job
        BY JobFields, JobUpdateType, AnyServiceType DEF PCs, AnyLock
      <4> QED
        BY <2>10, <4>1 DEF TypeOK, Probe, Target
    <3>2. pc' \in [Procs -> PCs]
      BY <2>10 DEF TypeOK, Probe, Goto, PCs, InLock, AnyLock
    <3> QED
      BY <2>10, <3>1, <3>2 DEF TypeOK, Probe, docker, artifacts
  <2>11. ASSUME NEW p \in Procs, CloneFast(p) PROVE TypeOK'
    BY <2>11 DEF CloneFast, SetCopy
  <2>12. ASSUME NEW p \in Procs, CloneFastFails(p) PROVE TypeOK'
    BY <2>12 DEF CloneFastFails
  <2>13. ASSUME NEW p \in Procs, DropFirst(p) PROVE TypeOK'
    BY <2>13 DEF DropFirst, SetCopy
  <2>14. ASSUME NEW p \in Procs, Create(p) PROVE TypeOK'
    BY <2>14 DEF Create, SetCopy
  <2>15. ASSUME NEW p \in Procs, Load(p) PROVE TypeOK'
    BY <2>15 DEF Load, SetCopy
  <2>16. ASSUME NEW p \in Procs, LoadFails(p) PROVE TypeOK'
    BY <2>16 DEF LoadFails
  <2>17. ASSUME NEW p \in Procs, Undo(p) PROVE TypeOK'
    BY <2>17 DEF Undo, SetCopy, Removable
  <2>18. ASSUME NEW p \in Procs, UndoFails(p) PROVE TypeOK'
    BY <2>18 DEF UndoFails, Removable
  <2>19. ASSUME NEW p \in Procs, Isolate(p) PROVE TypeOK'
    <3>1. job' \in [Procs -> Job]
      <4>1. [job[p] EXCEPT !.modes = job[p].modes \cup {job[p].target}, !.then = "compose"] \in Job
        <5>1. job[p].modes \cup {job[p].target} \in SUBSET Services
          BY JobFields
        <5> QED
          BY <5>1, JobFields, JobUpdateType DEF PCs, InLock
      <4> QED
        BY <2>19, <4>1 DEF TypeOK, Isolate, Target
    <3>2. pc' \in [Procs -> PCs]
      BY <2>19 DEF TypeOK, Isolate, Goto, PCs, InLock, AnyLock
    <3> QED
      BY <2>19, <3>1, <3>2 DEF TypeOK, Isolate, docker, artifacts
  <2>20. ASSUME NEW p \in Procs, Confirm(p) PROVE TypeOK'
    <3>1. ConfirmedModes(p) \in SUBSET Services
      BY JobFields, AskedType DEF ConfirmedModes
    <3>2. [job[p] EXCEPT !.modes = ConfirmedModes(p)] \in Job
      BY <3>1, JobFields, JobUpdateType, AnyServiceType DEF PCs, AnyLock
    <3> HIDE DEF Job
    <3> QED
      BY <2>20, <3>2 DEF Confirm
  <2>21. ASSUME NEW p \in Procs, Down(p) PROVE TypeOK'
    BY <2>21 DEF Down
  <2>22. ASSUME NEW p \in Procs, Drop(p) PROVE TypeOK'
    <3>1. job' \in [Procs -> Job]
      <4>1. [job[p] EXCEPT !.modes = job[p].modes \ {job[p].target}, !.then = "compose"] \in Job
        BY JobFields, JobUpdateType DEF PCs, InLock
      <4> QED
        BY <2>22, <4>1 DEF TypeOK, Drop, Target
    <3>2. pc' \in [Procs -> PCs]
      BY <2>22 DEF TypeOK, Drop, Goto, PCs, InLock, AnyLock
    <3> QED
      BY <2>22, <3>1, <3>2 DEF TypeOK, Drop, docker, artifacts, SetCopy
  <2>23. ASSUME NEW p \in Procs, ComposeUp(p) PROVE TypeOK'
    BY <2>23 DEF ComposeUp
  <2>24. ASSUME NEW p \in Procs, Fail(p) PROVE TypeOK'
    BY <2>24 DEF Fail, FailingSteps
  <2>25. ASSUME NEW p \in Procs, DownFails(p) PROVE TypeOK'
    BY <2>25 DEF DownFails
  <2>26. ASSUME NEW p \in Procs, ComposeUpFails(p) PROVE TypeOK'
    BY <2>26 DEF ComposeUpFails, StartsPartly
  <2>27. ASSUME NEW p \in Procs, BindFails(p) PROVE TypeOK'
    <3>1. job' \in [Procs -> Job]
      BY <2>27 DEF BindFails, Job
    <3> QED
      BY <2>27, <3>1 DEF BindFails, StartsPartly
  <2>28. ASSUME NEW p \in Procs, Return(p) PROVE TypeOK'
    BY <2>28 DEF Return, Leave
  <2>29. ASSUME NEW p \in Procs, Crash(p) PROVE TypeOK'
    BY <2>29 DEF Crash, Leave
  <2>30. ASSUME NEW p \in Procs, Begin(p) PROVE TypeOK'
    <3>0. PICK cmd \in Commands,
               s \in Services :
            job' = [job EXCEPT ![p] =
              [cmd |-> cmd, target |-> s, modes |-> {}, missed |-> {},
               then |-> AfterArtifacts(cmd)]]
      BY <2>30, AnyServiceType DEF Begin
    <3>1. job' \in [Procs -> Job]
      BY <3>0, CommandAssumption DEF TypeOK, Job, AfterArtifacts, PCs, InLock, AnyLock
    <3>2. pc' \in [Procs -> PCs]
      BY <2>30 DEF TypeOK, Begin, Goto, Entry, PCs, AnyLock
    <3>3. ran' \in [Procs -> Nat]
      BY <2>30 DEF TypeOK, Begin
    <3> QED
      BY <2>30, <3>1, <3>2, <3>3 DEF TypeOK, Begin, docker, artifacts
  <2>31. ASSUME NEW p \in Procs, ProbeUnanswered(p) PROVE TypeOK'
    <3>1. job' \in [Procs -> Job]
      <4>1. [job[p] EXCEPT !.missed = job[p].missed \cup {job[p].target}] \in Job
        BY JobFields, JobUpdateType, AnyServiceType DEF PCs, AnyLock
      <4> QED
        BY <2>31, <4>1 DEF TypeOK, ProbeUnanswered, Target
    <3>2. pc' \in [Procs -> PCs]
      BY <2>31 DEF TypeOK, ProbeUnanswered, Goto, PCs, InLock, AnyLock
    <3> QED
      BY <2>31, <3>1, <3>2 DEF TypeOK, ProbeUnanswered, docker, artifacts
  <2>32. ASSUME NEW p \in Procs, Overlay(p) PROVE TypeOK'
    BY <2>32 DEF Overlay, SetCopy
  <2>33. CASE UNCHANGED vars
    BY <2>33 DEF vars
  <2> QED
    BY <2>1, <2>2, <2>3, <2>4, <2>5, <2>6, <2>7, <2>8, <2>9, <2>10, <2>11,
       <2>12, <2>13, <2>14, <2>15, <2>16, <2>17, <2>18, <2>19, <2>20,
       <2>21, <2>22, <2>23, <2>24, <2>25, <2>26, <2>27, <2>28, <2>29, <2>30,
       <2>31, <2>32, <2>33
       DEF Next, Step
<1> QED
  BY <1>1, <1>2, PTL DEF Spec

(* Whoever is past the flock holds it, so at most one locked command is.   *)
LEMMA LockInvariant == Spec => []LockInv
<1>1. Init => LockInv
  BY DEF Init, LockInv, UnderLock, NoJob, Cmd, Locked, InLock
<1>2. TypeOK /\ LockInv /\ [Next]_vars => LockInv'
  <2> SUFFICES ASSUME TypeOK, LockInv, [Next]_vars PROVE LockInv'
    OBVIOUS
  <2> USE CommandAssumption DEF TypeOK, Job, PCs, InLock, AnyLock, Locked,
      Unlocked, LockInv, UnderLock, docker, artifacts, At, Goto, Cmd, Target
  <2>1. ASSUME NEW p \in Procs, Lock(p) PROVE LockInv'
    BY <2>1 DEF Lock
  <2>2. ASSUME NEW p \in Procs, Derive(p) PROVE LockInv'
    BY <2>2 DEF Derive, Existing
  <2>3. ASSUME NEW p \in Procs, WriteEnv(p) PROVE LockInv'
    BY <2>3 DEF WriteEnv
  <2>4. ASSUME NEW p \in Procs, WriteYml(p) PROVE LockInv'
    BY <2>4 DEF WriteYml
  <2>5. ASSUME NEW p \in Procs, StartInfra(p) PROVE LockInv'
    BY <2>5 DEF StartInfra
  <2>6. ASSUME NEW p \in Procs, StopInfra(p) PROVE LockInv'
    BY <2>6 DEF StopInfra
  <2>7. ASSUME NEW p \in Procs, AskModes(p) PROVE LockInv'
    <3>0. PICK modes \in SUBSET Services, missed \in SUBSET Pg :
             /\ job' = [job EXCEPT ![p].modes = modes, ![p].missed = missed, ![p].then = "auto"]
             /\ pc' = [pc EXCEPT ![p] = IF modes # job[p].modes THEN "env" ELSE "auto"]
             /\ modes \subseteq job[p].modes \cup Existing
             /\ job[p].modes \cap Vol \subseteq modes
             /\ Existing \cap Pg \subseteq modes \cup missed
      BY <2>7, AskModesEffect
    <3>1. pc[p] = "pgmodes" /\ UNCHANGED <<copy, env, yml, infra, running, attached, lock, ran>>
      BY <2>7, AskModesEffect
    <3> QED
      BY <3>0, <3>1
  <2>8. ASSUME NEW p \in Procs, AutoFork(p) PROVE LockInv'
    BY <2>8 DEF AutoFork
  <2>9. ASSUME NEW p \in Procs, AutoForked(p) PROVE LockInv'
    BY <2>9 DEF AutoForked
  <2>10. ASSUME NEW p \in Procs, Probe(p) PROVE LockInv'
    BY <2>10 DEF Probe, Reachable
  <2>11. ASSUME NEW p \in Procs, CloneFast(p) PROVE LockInv'
    BY <2>11 DEF CloneFast, SetCopy
  <2>12. ASSUME NEW p \in Procs, CloneFastFails(p) PROVE LockInv'
    BY <2>12 DEF CloneFastFails
  <2>13. ASSUME NEW p \in Procs, DropFirst(p) PROVE LockInv'
    BY <2>13 DEF DropFirst, SetCopy
  <2>14. ASSUME NEW p \in Procs, Create(p) PROVE LockInv'
    BY <2>14 DEF Create, SetCopy
  <2>15. ASSUME NEW p \in Procs, Load(p) PROVE LockInv'
    BY <2>15 DEF Load, SetCopy
  <2>16. ASSUME NEW p \in Procs, LoadFails(p) PROVE LockInv'
    BY <2>16 DEF LoadFails
  <2>17. ASSUME NEW p \in Procs, Undo(p) PROVE LockInv'
    BY <2>17 DEF Undo, SetCopy, Removable
  <2>18. ASSUME NEW p \in Procs, UndoFails(p) PROVE LockInv'
    BY <2>18 DEF UndoFails, Removable
  <2>19. ASSUME NEW p \in Procs, Isolate(p) PROVE LockInv'
    BY <2>19 DEF Isolate
  <2>20. ASSUME NEW p \in Procs, Confirm(p) PROVE LockInv'
    BY <2>20 DEF Confirm, ConfirmedModes, Asked, Existing
  <2>21. ASSUME NEW p \in Procs, Down(p) PROVE LockInv'
    BY <2>21 DEF Down
  <2>22. ASSUME NEW p \in Procs, Drop(p) PROVE LockInv'
    BY <2>22 DEF Drop, SetCopy
  <2>23. ASSUME NEW p \in Procs, ComposeUp(p) PROVE LockInv'
    BY <2>23 DEF ComposeUp
  <2>24. ASSUME NEW p \in Procs, Fail(p) PROVE LockInv'
    BY <2>24 DEF Fail, FailingSteps
  <2>25. ASSUME NEW p \in Procs, DownFails(p) PROVE LockInv'
    BY <2>25 DEF DownFails
  <2>26. ASSUME NEW p \in Procs, ComposeUpFails(p) PROVE LockInv'
    BY <2>26 DEF ComposeUpFails, StartsPartly
  <2>27. ASSUME NEW p \in Procs, BindFails(p) PROVE LockInv'
    BY <2>27 DEF BindFails, StartsPartly
  <2>28. ASSUME NEW p \in Procs, Return(p) PROVE LockInv'
    BY <2>28 DEF Return, Leave, NoJob, AnyService
  <2>29. ASSUME NEW p \in Procs, Crash(p) PROVE LockInv'
    BY <2>29 DEF Crash, Leave, NoJob, AnyService
  <2>30. ASSUME NEW p \in Procs, Begin(p) PROVE LockInv'
    BY <2>30 DEF Begin, AfterArtifacts, Entry, AnyService
  <2>31. ASSUME NEW p \in Procs, ProbeUnanswered(p) PROVE LockInv'
    BY <2>31 DEF ProbeUnanswered
  <2>32. ASSUME NEW p \in Procs, Overlay(p) PROVE LockInv'
    BY <2>32 DEF Overlay, SetCopy
  <2>33. CASE UNCHANGED vars
    BY <2>33 DEF vars
  <2> QED
    BY <2>1, <2>2, <2>3, <2>4, <2>5, <2>6, <2>7, <2>8, <2>9, <2>10, <2>11,
       <2>12, <2>13, <2>14, <2>15, <2>16, <2>17, <2>18, <2>19, <2>20,
       <2>21, <2>22, <2>23, <2>24, <2>25, <2>26, <2>27, <2>28, <2>29, <2>30,
       <2>31, <2>32, <2>33
       DEF Next, Step
<1> QED
  BY <1>1, <1>2, TypeCorrect, PTL DEF Spec

(* The forced drop of a fork that starts over finds nothing to drop.       *)
LEMMA DropFirstIdle ==
  ASSUME TypeOK, CopyInv, NEW p \in Procs, DropFirst(p)
  PROVE  copy' = copy
<1>1. copy[Target(p)] = "none"
  BY DEF CopyInv, DropFirst, At
<1> QED
  BY <1>1 DEF DropFirst, SetCopy, TypeOK

(* What a command writes, and what a stack uses, are copies that exist; a  *)
(* copy in the making is in nobody's use.                                  *)
LEMMA CopyInvariant == Spec => []CopyInv
<1>1. Init => CopyInv
  BY DEF Init, CopyInv, UnderLock, NoJob, Existing, Written
<1>2. TypeOK /\ LockInv /\ LockInv' /\ CopyInv /\ [Next]_vars => CopyInv'
  <2> SUFFICES ASSUME TypeOK, LockInv, LockInv', CopyInv, [Next]_vars PROVE CopyInv'
    OBVIOUS
  <2> USE CommandAssumption, ServiceAssumption DEF TypeOK, Job, PCs,
      InLock, AnyLock, Locked, Unlocked, LockInv, UnderLock, Written, CopyInv,
      Existing, Pending, Mistaken, Finished, docker, artifacts, At, Goto, Cmd, Target
  <2>1. ASSUME NEW p \in Procs, Lock(p) PROVE CopyInv'
    BY <2>1 DEF Lock
  <2>2. ASSUME NEW p \in Procs, Derive(p) PROVE CopyInv'
    BY <2>2 DEF Derive
  <2>3. ASSUME NEW p \in Procs, WriteEnv(p) PROVE CopyInv'
    BY <2>3 DEF WriteEnv
  <2>4. ASSUME NEW p \in Procs, WriteYml(p) PROVE CopyInv'
    BY <2>4 DEF WriteYml
  <2>5. ASSUME NEW p \in Procs, StartInfra(p) PROVE CopyInv'
    BY <2>5 DEF StartInfra
  <2>6. ASSUME NEW p \in Procs, StopInfra(p) PROVE CopyInv'
    BY <2>6 DEF StopInfra
  <2>7. ASSUME NEW p \in Procs, AskModes(p) PROVE CopyInv'
    <3>0. PICK modes \in SUBSET Services, missed \in SUBSET Pg :
             /\ job' = [job EXCEPT ![p].modes = modes, ![p].missed = missed, ![p].then = "auto"]
             /\ pc' = [pc EXCEPT ![p] = IF modes # job[p].modes THEN "env" ELSE "auto"]
             /\ modes \subseteq job[p].modes \cup Existing
             /\ job[p].modes \cap Vol \subseteq modes
             /\ Existing \cap Pg \subseteq modes \cup missed
      BY <2>7, AskModesEffect
    <3>1. pc[p] = "pgmodes" /\ UNCHANGED <<copy, env, yml, infra, running, attached, lock, ran>>
      BY <2>7, AskModesEffect
    <3> QED
      BY <3>0, <3>1
  <2>8. ASSUME NEW p \in Procs, AutoFork(p) PROVE CopyInv'
    BY <2>8 DEF AutoFork
  <2>9. ASSUME NEW p \in Procs, AutoForked(p) PROVE CopyInv'
    BY <2>9 DEF AutoForked
  <2>10. ASSUME NEW p \in Procs, Probe(p) PROVE CopyInv'
    BY <2>10 DEF Probe, Reachable
  <2>11. ASSUME NEW p \in Procs, CloneFast(p) PROVE CopyInv'
    BY <2>11 DEF CloneFast, SetCopy
  <2>12. ASSUME NEW p \in Procs, CloneFastFails(p) PROVE CopyInv'
    BY <2>12 DEF CloneFastFails
  <2>13. ASSUME NEW p \in Procs, DropFirst(p) PROVE CopyInv'
    <3>1. copy' = copy
      BY <2>13, DropFirstIdle
    <3>2. /\ pc[p] = "dropfirst" /\ pc' = [pc EXCEPT ![p] = "create"]
          /\ UNCHANGED <<infra, running, attached, env, yml, lock, job, ran>>
      BY <2>13 DEF DropFirst
    <3> QED
      BY <3>1, <3>2
  <2>14. ASSUME NEW p \in Procs, Create(p) PROVE CopyInv'
    BY <2>14 DEF Create, SetCopy
  <2>15. ASSUME NEW p \in Procs, Load(p) PROVE CopyInv'
    BY <2>15 DEF Load, SetCopy
  <2>16. ASSUME NEW p \in Procs, LoadFails(p) PROVE CopyInv'
    BY <2>16 DEF LoadFails
  <2>17. ASSUME NEW p \in Procs, Undo(p) PROVE CopyInv'
    BY <2>17 DEF Undo, SetCopy, Removable
  <2>18. ASSUME NEW p \in Procs, UndoFails(p) PROVE CopyInv'
    BY <2>18 DEF UndoFails, Removable
  <2>19. ASSUME NEW p \in Procs, Isolate(p) PROVE CopyInv'
    BY <2>19 DEF Isolate
  <2>20. ASSUME NEW p \in Procs, Confirm(p) PROVE CopyInv'
    BY <2>20 DEF Confirm, ConfirmedModes, Asked
  <2>21. ASSUME NEW p \in Procs, Down(p) PROVE CopyInv'
    BY <2>21 DEF Down
  <2>22. ASSUME NEW p \in Procs, Drop(p) PROVE CopyInv'
    <3>0. UnderLock(p) /\ Target(p) \in Services /\ Target(p) \notin attached
      BY <2>22 DEF Drop, Removable, LockInv, TypeOK, Job, At, InLock, UnderLock, Target, CopyInv, Services
    <3>1. \A q \in Procs : UnderLock(q) => q = p
      BY <3>0 DEF LockInv
    <3>2. \A s \in Services : copy'[s] = IF s = Target(p) THEN "none" ELSE copy[s]
      BY <2>22, <3>0 DEF Drop, SetCopy, TypeOK
    <3>3. Existing' = Existing \ {Target(p)}
      BY <3>0, <3>2 DEF Existing
    <3>4. \A q \in Procs \ {p} : job'[q] = job[q] /\ pc'[q] = pc[q]
      BY <2>22 DEF Drop, Goto, TypeOK
    <3>5. pc'[p] = "env" /\ job'[p].modes = job[p].modes \ {Target(p)} /\ Cmd(p)' = Cmd(p)
      BY <2>22 DEF Drop, Goto, TypeOK, Cmd, Job
    <3>6. attached' = attached /\ attached' \subseteq Existing'
      BY <2>22, <3>0, <3>3 DEF Drop, CopyInv
    <3>7. UnderLock(p)' /\ job'[p].modes \subseteq Existing'
      BY <2>22, <3>0, <3>3, <3>5 DEF UnderLock, CopyInv, Drop, At
    <3>8. \A q \in Procs \ {p} : ~UnderLock(q) /\ ~UnderLock(q)' /\ pc[q] \notin InLock
      BY <3>1, <3>4 DEF UnderLock, LockInv, Cmd, InLock
    <3>9. pc[p] = "drop" /\ job'[p].missed = job[p].missed /\ job'[p].then = "compose"
      BY <2>22 DEF Drop, At, TypeOK, Job
    <3>10. Existing' \cap Vol \subseteq job'[p].modes
      BY <3>0, <3>3, <3>5, <3>9 DEF CopyInv, Pending
    <3>11. \A q \in Procs : job'[q].missed = job[q].missed /\ Cmd(q)' = Cmd(q)
      BY <3>4, <3>5, <3>9 DEF Cmd
    <3>12. \A q \in Procs : job'[q].then = "probe" => Cmd(q)' = "fork"
      BY <3>4, <3>9, <3>11 DEF CopyInv
    <3>13. \A q \in Procs : job'[q].missed \cap Vol # {} => Cmd(q)' = "fork"
      BY <3>11 DEF CopyInv
    <3>14. \A q \in Procs : pc'[q] \notin InLock
      BY <3>4, <3>5, <3>8 DEF InLock
    <3>15. \A q \in Procs \ {p} : job'[q].modes = {} /\ job'[q].missed = {}
      BY <3>4, <3>8 DEF CopyInv
    <3> QED
      BY <3>5, <3>6, <3>7, <3>8, <3>10, <3>12, <3>13, <3>14, <3>15 DEF CopyInv, Written, InLock
  <2>23. ASSUME NEW p \in Procs, ComposeUp(p) PROVE CopyInv'
    BY <2>23 DEF ComposeUp
  <2>24. ASSUME NEW p \in Procs, Fail(p) PROVE CopyInv'
    BY <2>24 DEF Fail, FailingSteps
  <2>25. ASSUME NEW p \in Procs, DownFails(p) PROVE CopyInv'
    BY <2>25 DEF DownFails
  <2>26. ASSUME NEW p \in Procs, ComposeUpFails(p) PROVE CopyInv'
    BY <2>26 DEF ComposeUpFails, StartsPartly
  <2>27. ASSUME NEW p \in Procs, BindFails(p) PROVE CopyInv'
    BY <2>27 DEF BindFails, StartsPartly
  <2>28. ASSUME NEW p \in Procs, Return(p) PROVE CopyInv'
    BY <2>28 DEF Return, Leave, NoJob
  <2>29. ASSUME NEW p \in Procs, Crash(p) PROVE CopyInv'
    BY <2>29 DEF Crash, Leave, NoJob
  <2>30. ASSUME NEW p \in Procs, Begin(p) PROVE CopyInv'
    BY <2>30 DEF Begin, AfterArtifacts, Entry
  <2>31. ASSUME NEW p \in Procs, ProbeUnanswered(p) PROVE CopyInv'
    BY <2>31 DEF ProbeUnanswered
  <2>32. ASSUME NEW p \in Procs, Overlay(p) PROVE CopyInv'
    BY <2>32 DEF Overlay, SetCopy
  <2>33. CASE UNCHANGED vars
    BY <2>33 DEF vars
  <2> QED
    BY <2>1, <2>2, <2>3, <2>4, <2>5, <2>6, <2>7, <2>8, <2>9, <2>10, <2>11,
       <2>12, <2>13, <2>14, <2>15, <2>16, <2>17, <2>18, <2>19, <2>20,
       <2>21, <2>22, <2>23, <2>24, <2>25, <2>26, <2>27, <2>28, <2>29, <2>30,
       <2>31, <2>32, <2>33
       DEF Next, Step
<1> QED
  BY <1>1, <1>2, TypeCorrect, LockInvariant, PTL DEF Spec

(* The actions that change copies, and what they do to them.               *)
LEMMA CopyChanges ==
  ASSUME TypeOK, CopyInv, NEW s \in Services, copy'[s] # copy[s], Next
  PROVE  \E p \in Procs :
           /\ Target(p) = s
           /\ \/ copy[s] = "none"
              \/ At(p, "load") /\ copy'[s] # "none"
              \/ Undo(p)
              \/ Drop(p)
<1> DEFINE Changes(p) ==
      CloneFast(p) \/ DropFirst(p) \/ Create(p) \/ Overlay(p) \/ Load(p) \/ Undo(p) \/ Drop(p)
<1>1. PICK p \in Procs : Begin(p) \/ Step(p) \/ Crash(p)
  BY DEF Next
<1>2. Changes(p)
  BY <1>1 DEF Step, Begin, Crash, Leave, Lock, Derive, WriteEnv, WriteYml, StartInfra,
     StopInfra, AskModes, AutoFork, AutoForked, Probe, ProbeUnanswered, CloneFastFails,
     LoadFails, UndoFails, Isolate, Confirm, Down, DownFails, ComposeUp, ComposeUpFails,
     BindFails, StartsPartly, Fail, Return, docker
<1>3. Target(p) = s
  BY <1>2 DEF TypeOK, CloneFast, DropFirst, Create, Overlay, Load, Undo, Drop, SetCopy
<1> QED
  BY <1>2, <1>3
     DEF TypeOK, CopyInv, CloneFast, DropFirst, Create, Overlay, Load, SetCopy, At

(* A fork that writes over a finished copy is one that was not answered    *)
(* when it asked for the volume.                                           *)
LEMMA OverwritesByMistake ==
  ASSUME TypeOK, CopyInv, NEW p \in Procs, At(p, "load") \/ At(p, "undo"),
         copy[Target(p)] \in Finished
  PROVE  Overwrites(p, Target(p))
<1>1. Mistaken(p)
  BY DEF CopyInv, At, Finished
<1> QED
  BY <1>1 DEF CopyInv, Overwrites, Mistaken

(* A finished copy is destroyed or written over by nothing but an unfork   *)
(* of its service and a fork that docker did not answer about it,          *)
(* whichever commands run at once and wherever one is killed.              *)
THEOREM CopiesAlwaysSurvive == Spec => CopiesSurvive
<1>1. TypeOK /\ CopyInv /\ [Next]_vars => [OnlyUnforkDestroys]_vars
  <2> SUFFICES ASSUME TypeOK, CopyInv, Next, NEW s \in Services,
                      copy[s] \in Finished, copy'[s] # copy[s]
               PROVE  \E p \in Procs : Unforks(p, s) \/ Overwrites(p, s)
    BY DEF OnlyUnforkDestroys
  <2>1. PICK p \in Procs :
          /\ Target(p) = s
          /\ \/ copy[s] = "none"
             \/ At(p, "load") /\ copy'[s] # "none"
             \/ Undo(p)
             \/ Drop(p)
    BY CopyChanges
  <2>2. CASE At(p, "load") \/ Undo(p)
    <3>1. At(p, "load") \/ At(p, "undo")
      BY <2>2 DEF Undo
    <3> QED
      BY <2>1, <3>1, OverwritesByMistake
  <2>3. CASE Drop(p)
    BY <2>1, <2>3 DEF Drop, CopyInv, Unforks, At
  <2>4. copy[s] # "none"
    BY DEF Finished
  <2> QED
    BY <2>1, <2>2, <2>3, <2>4
<1> QED
  BY <1>1, TypeCorrect, CopyInvariant, PTL DEF Spec, CopiesSurvive

(* No copy, finished or not, is removed while a container of the stack     *)
(* uses it.                                                                *)
THEOREM AlwaysStoppedBeforeDrop == Spec => StoppedBeforeDrop
<1>1. TypeOK /\ CopyInv /\ [Next]_vars => [RemovedUnattached]_vars
  <2> SUFFICES ASSUME TypeOK, CopyInv, Next, NEW s \in Services,
                      copy[s] # "none", copy'[s] = "none"
               PROVE  s \notin attached
    BY DEF RemovedUnattached
  <2>1. PICK p \in Procs : Target(p) = s /\ (Undo(p) \/ Drop(p))
    BY CopyChanges
  <2>2. CASE Undo(p)
    <3>1. CASE s \in Vol
      BY <2>1, <2>2, <3>1 DEF Undo, Removable
    <3>2. CASE s \notin Vol
      BY <2>1, <2>2, <3>2 DEF Undo, CopyInv, At, Mistaken
    <3> QED
      BY <3>1, <3>2
  <2>3. CASE Drop(p)
    BY <2>1, <2>3 DEF Drop, Removable, CopyInv, At, Services
  <2> QED
    BY <2>1, <2>2, <2>3
<1> QED
  BY <1>1, TypeCorrect, CopyInvariant, PTL DEF Spec, StoppedBeforeDrop

-----------------------------------------------------------------------------
(* What a command was started as, and where that takes it.                 *)
Given ==
  \A p \in Procs :
    /\ pc[p] # "idle" => Cmd(p) \in Commands
    /\ pc[p] = "infradown" \/ job[p].then = "infradown" => Cmd(p) = "sharedDown"
    /\ Cmd(p) = "down" => pc[p] \in {"idle", "down", "done"}

(* A half-made copy is one that a command is making or removing, and what  *)
(* a mistaken fork writes over was finished.                               *)
InMaking ==
  /\ \A s \in Services : copy[s] = "partial" =>
       /\ \E p \in Procs : pc[p] \in {"load", "undo"} /\ Target(p) = s
       /\ s \in Pg => infra
  /\ \A p \in Procs :
       pc[p] \in {"create", "load", "undo"} /\ Mistaken(p) => copy[Target(p)] \in Finished

(* A command under the flock knows all volumes that exist, and all the     *)
(* databases docker answered for once it has asked for them, but for the   *)
(* one it is making; and compose reads what it knows.                      *)
Asking == {"auto", "compose", "retry"}
Reads(p) == env = job[p].modes /\ yml = job[p].modes \cap Vol
Knows ==
  \A p \in Procs :
    /\ pc[p] \in {"lock", "derive"} => job[p].then \notin Asking
    /\ pc[p] \in {"auto", "compose"} => job[p].then \in {"auto", "compose"}
    /\ pc[p] = "retry" => job[p].then = "retry"
    /\ UnderLock(p) /\ pc[p] \notin {"derive", "done"} /\ job[p].then \in Asking =>
         Existing \cap Pg \subseteq job[p].modes \cup job[p].missed \cup Pending(p)
    /\ pc[p] = "yml" => env = job[p].modes
    /\ pc[p] \in {"infra", "pgmodes", "compose", "retry"}
         \/ (pc[p] = "auto" /\ job[p].then = "auto") => Reads(p)

LEMMA GivenInvariant == Spec => []Given
<1>1. Init => Given
  BY DEF Init, Given, NoJob, Cmd
<1>2. TypeOK /\ Given /\ [Next]_vars => Given'
  <2> SUFFICES ASSUME TypeOK, Given, [Next]_vars PROVE Given'
    OBVIOUS
  <2> USE CommandAssumption DEF TypeOK, Job, PCs, InLock, AnyLock, Locked,
      Unlocked, Given, docker, artifacts, At, Goto, Cmd, Target
  <2>1. ASSUME NEW p \in Procs, Lock(p) PROVE Given'
    BY <2>1 DEF Lock
  <2>2. ASSUME NEW p \in Procs, Derive(p) PROVE Given'
    BY <2>2 DEF Derive, Existing
  <2>3. ASSUME NEW p \in Procs, WriteEnv(p) PROVE Given'
    BY <2>3 DEF WriteEnv
  <2>4. ASSUME NEW p \in Procs, WriteYml(p) PROVE Given'
    BY <2>4 DEF WriteYml
  <2>5. ASSUME NEW p \in Procs, StartInfra(p) PROVE Given'
    BY <2>5 DEF StartInfra
  <2>6. ASSUME NEW p \in Procs, StopInfra(p) PROVE Given'
    BY <2>6 DEF StopInfra
  <2>7. ASSUME NEW p \in Procs, AskModes(p) PROVE Given'
    <3>0. PICK modes \in SUBSET Services, missed \in SUBSET Pg :
             /\ job' = [job EXCEPT ![p].modes = modes, ![p].missed = missed, ![p].then = "auto"]
             /\ pc' = [pc EXCEPT ![p] = IF modes # job[p].modes THEN "env" ELSE "auto"]
             /\ modes \subseteq job[p].modes \cup Existing
             /\ job[p].modes \cap Vol \subseteq modes
             /\ Existing \cap Pg \subseteq modes \cup missed
      BY <2>7, AskModesEffect
    <3>1. pc[p] = "pgmodes" /\ UNCHANGED <<copy, env, yml, infra, running, attached, lock, ran>>
      BY <2>7, AskModesEffect
    <3> QED
      BY <3>0, <3>1
  <2>8. ASSUME NEW p \in Procs, AutoFork(p) PROVE Given'
    BY <2>8 DEF AutoFork
  <2>9. ASSUME NEW p \in Procs, AutoForked(p) PROVE Given'
    BY <2>9 DEF AutoForked
  <2>10. ASSUME NEW p \in Procs, Probe(p) PROVE Given'
    BY <2>10 DEF Probe, Reachable
  <2>11. ASSUME NEW p \in Procs, CloneFast(p) PROVE Given'
    BY <2>11 DEF CloneFast, SetCopy
  <2>12. ASSUME NEW p \in Procs, CloneFastFails(p) PROVE Given'
    BY <2>12 DEF CloneFastFails
  <2>13. ASSUME NEW p \in Procs, DropFirst(p) PROVE Given'
    BY <2>13 DEF DropFirst, SetCopy
  <2>14. ASSUME NEW p \in Procs, Create(p) PROVE Given'
    BY <2>14 DEF Create, SetCopy, Reachable
  <2>15. ASSUME NEW p \in Procs, Load(p) PROVE Given'
    BY <2>15 DEF Load, SetCopy
  <2>16. ASSUME NEW p \in Procs, LoadFails(p) PROVE Given'
    BY <2>16 DEF LoadFails
  <2>17. ASSUME NEW p \in Procs, Undo(p) PROVE Given'
    BY <2>17 DEF Undo, SetCopy, Removable
  <2>18. ASSUME NEW p \in Procs, UndoFails(p) PROVE Given'
    BY <2>18 DEF UndoFails, Reachable, Removable
  <2>19. ASSUME NEW p \in Procs, Isolate(p) PROVE Given'
    BY <2>19 DEF Isolate
  <2>20. ASSUME NEW p \in Procs, Confirm(p) PROVE Given'
    BY <2>20 DEF Confirm, ConfirmedModes, Asked, Existing
  <2>21. ASSUME NEW p \in Procs, Down(p) PROVE Given'
    BY <2>21 DEF Down
  <2>22. ASSUME NEW p \in Procs, Drop(p) PROVE Given'
    BY <2>22 DEF Drop, SetCopy
  <2>23. ASSUME NEW p \in Procs, ComposeUp(p) PROVE Given'
    BY <2>23 DEF ComposeUp
  <2>24. ASSUME NEW p \in Procs, Fail(p) PROVE Given'
    BY <2>24 DEF Fail, FailingSteps
  <2>25. ASSUME NEW p \in Procs, DownFails(p) PROVE Given'
    BY <2>25 DEF DownFails
  <2>26. ASSUME NEW p \in Procs, ComposeUpFails(p) PROVE Given'
    BY <2>26 DEF ComposeUpFails, StartsPartly
  <2>27. ASSUME NEW p \in Procs, BindFails(p) PROVE Given'
    BY <2>27 DEF BindFails, StartsPartly
  <2>28. ASSUME NEW p \in Procs, Return(p) PROVE Given'
    BY <2>28 DEF Return, Leave, NoJob, AnyService
  <2>29. ASSUME NEW p \in Procs, Crash(p) PROVE Given'
    BY <2>29 DEF Crash, Leave, NoJob, AnyService
  <2>30. ASSUME NEW p \in Procs, Begin(p) PROVE Given'
    BY <2>30 DEF Begin, AfterArtifacts, Entry, AnyService
  <2>31. ASSUME NEW p \in Procs, ProbeUnanswered(p) PROVE Given'
    BY <2>31 DEF ProbeUnanswered
  <2>32. ASSUME NEW p \in Procs, Overlay(p) PROVE Given'
    BY <2>32 DEF Overlay, SetCopy
  <2>33. CASE UNCHANGED vars
    BY <2>33 DEF vars
  <2> QED
    BY <2>1, <2>2, <2>3, <2>4, <2>5, <2>6, <2>7, <2>8, <2>9, <2>10, <2>11,
       <2>12, <2>13, <2>14, <2>15, <2>16, <2>17, <2>18, <2>19, <2>20, <2>21, <2>22,
       <2>23, <2>24, <2>25, <2>26, <2>27, <2>28, <2>29, <2>30, <2>31,
       <2>32, <2>33
       DEF Next, Step
<1> QED
  BY <1>1, <1>2, TypeCorrect, PTL DEF Spec

(* Where nothing fails but what docktree cleans up after, a half-made copy *)
(* does not outlive its command.                                           *)
LEMMA InMakingInvariant ==
  ASSUME Faults = {}, Pg = {} \/ "sharedDown" \notin Commands
  PROVE  Spec => []InMaking
<1>1. Init => InMaking
  BY DEF Init, InMaking
<1>2. TypeOK /\ Given /\ LockInv /\ CopyInv /\ InMaking /\ [Next]_vars => InMaking'
  <2> SUFFICES ASSUME TypeOK, Given, LockInv, CopyInv, InMaking, [Next]_vars PROVE InMaking'
    OBVIOUS
  <2> USE CommandAssumption, ServiceAssumption DEF TypeOK, Job, PCs, InLock, AnyLock, Locked,
      Unlocked, Given, LockInv, UnderLock, CopyInv, InMaking, Services,
      Pending, Existing, Mistaken, Finished,
      docker, artifacts, At, Goto, Cmd, Target
  <2>1. ASSUME NEW p \in Procs, Lock(p) PROVE InMaking'
    BY <2>1 DEF Lock
  <2>2. ASSUME NEW p \in Procs, Derive(p) PROVE InMaking'
    BY <2>2 DEF Derive, Existing
  <2>3. ASSUME NEW p \in Procs, WriteEnv(p) PROVE InMaking'
    BY <2>3 DEF WriteEnv
  <2>4. ASSUME NEW p \in Procs, WriteYml(p) PROVE InMaking'
    BY <2>4 DEF WriteYml
  <2>5. ASSUME NEW p \in Procs, StartInfra(p) PROVE InMaking'
    BY <2>5 DEF StartInfra
  <2>6. ASSUME NEW p \in Procs, StopInfra(p) PROVE InMaking'
    BY <2>6 DEF StopInfra
  <2>7. ASSUME NEW p \in Procs, AskModes(p) PROVE InMaking'
    <3>0. PICK modes \in SUBSET Services, missed \in SUBSET Pg :
             /\ job' = [job EXCEPT ![p].modes = modes, ![p].missed = missed, ![p].then = "auto"]
             /\ pc' = [pc EXCEPT ![p] = IF modes # job[p].modes THEN "env" ELSE "auto"]
             /\ modes \subseteq job[p].modes \cup Existing
             /\ job[p].modes \cap Vol \subseteq modes
             /\ Existing \cap Pg \subseteq modes \cup missed
      BY <2>7, AskModesEffect
    <3>1. pc[p] = "pgmodes" /\ UNCHANGED <<copy, env, yml, infra, running, attached, lock, ran>>
      BY <2>7, AskModesEffect
    <3> QED
      BY <3>0, <3>1
  <2>8. ASSUME NEW p \in Procs, AutoFork(p) PROVE InMaking'
    BY <2>8 DEF AutoFork
  <2>9. ASSUME NEW p \in Procs, AutoForked(p) PROVE InMaking'
    BY <2>9 DEF AutoForked
  <2>10. ASSUME NEW p \in Procs, Probe(p) PROVE InMaking'
    BY <2>10 DEF Probe, Reachable
  <2>11. ASSUME NEW p \in Procs, CloneFast(p) PROVE InMaking'
    BY <2>11 DEF CloneFast, SetCopy
  <2>12. ASSUME NEW p \in Procs, CloneFastFails(p) PROVE InMaking'
    BY <2>12 DEF CloneFastFails
  <2>13. ASSUME NEW p \in Procs, DropFirst(p) PROVE InMaking'
    <3>1. copy' = copy
      BY <2>13, DropFirstIdle
    <3>2. /\ pc[p] = "dropfirst" /\ pc' = [pc EXCEPT ![p] = "create"]
          /\ UNCHANGED <<infra, running, attached, env, yml, lock, job, ran>>
      BY <2>13 DEF DropFirst
    <3> QED
      BY <3>1, <3>2
  <2>14. ASSUME NEW p \in Procs, Create(p) PROVE InMaking'
    BY <2>14 DEF Create, SetCopy, Reachable
  <2>15. ASSUME NEW p \in Procs, Load(p) PROVE InMaking'
    BY <2>15 DEF Load, SetCopy
  <2>16. ASSUME NEW p \in Procs, LoadFails(p) PROVE InMaking'
    BY <2>16 DEF LoadFails
  <2>17. ASSUME NEW p \in Procs, Undo(p) PROVE InMaking'
    BY <2>17 DEF Undo, SetCopy, Removable
  <2>18. ASSUME NEW p \in Procs, UndoFails(p) PROVE InMaking'
    BY <2>18 DEF UndoFails, Reachable, Removable
  <2>19. ASSUME NEW p \in Procs, Isolate(p) PROVE InMaking'
    BY <2>19 DEF Isolate
  <2>20. ASSUME NEW p \in Procs, Confirm(p) PROVE InMaking'
    BY <2>20 DEF Confirm, ConfirmedModes, Asked, Existing
  <2>21. ASSUME NEW p \in Procs, Down(p) PROVE InMaking'
    BY <2>21 DEF Down
  <2>22. ASSUME NEW p \in Procs, Drop(p) PROVE InMaking'
    <3>1. pc[p] = "drop" /\ pc' = [pc EXCEPT ![p] = "env"] /\ infra' = infra
      BY <2>22 DEF Drop
    <3>2. \A q \in Procs \ {p} : job'[q] = job[q] /\ pc'[q] = pc[q]
      BY <2>22 DEF Drop
    <3>3. \A s \in Services : copy'[s] = copy[s] \/ copy'[s] = "none"
      BY <2>22 DEF Drop, SetCopy
    <3>4. \A q \in Procs : pc'[q] \notin {"create", "load", "undo"}
      <4>1. \A q \in Procs \ {p} : pc[q] \notin {"create", "load", "undo"}
        BY <3>1
      <4> QED BY <3>1, <3>2, <4>1
    <3>5. \A q \in Procs : pc[q] \in {"load", "undo"} => q # p /\ pc'[q] = pc[q] /\ job'[q] = job[q]
      BY <3>1, <3>2
    <3> QED
      BY <3>1, <3>3, <3>4, <3>5
  <2>23. ASSUME NEW p \in Procs, ComposeUp(p) PROVE InMaking'
    BY <2>23 DEF ComposeUp
  <2>24. ASSUME NEW p \in Procs, Fail(p) PROVE InMaking'
    BY <2>24 DEF Fail, FailingSteps
  <2>25. ASSUME NEW p \in Procs, DownFails(p) PROVE InMaking'
    BY <2>25 DEF DownFails
  <2>26. ASSUME NEW p \in Procs, ComposeUpFails(p) PROVE InMaking'
    BY <2>26 DEF ComposeUpFails, StartsPartly
  <2>27. ASSUME NEW p \in Procs, BindFails(p) PROVE InMaking'
    BY <2>27 DEF BindFails, StartsPartly
  <2>28. ASSUME NEW p \in Procs, Return(p) PROVE InMaking'
    BY <2>28 DEF Return, Leave, NoJob, AnyService
  <2>29. ASSUME NEW p \in Procs, Crash(p) PROVE InMaking'
    BY <2>29 DEF Crash, Leave, NoJob, AnyService
  <2>30. ASSUME NEW p \in Procs, Begin(p) PROVE InMaking'
    BY <2>30 DEF Begin, AfterArtifacts, Entry, AnyService
  <2>31. ASSUME NEW p \in Procs, ProbeUnanswered(p) PROVE InMaking'
    BY <2>31 DEF ProbeUnanswered
  <2>32. ASSUME NEW p \in Procs, Overlay(p) PROVE InMaking'
    BY <2>32 DEF Overlay, SetCopy
  <2>33. CASE UNCHANGED vars
    BY <2>33 DEF vars
  <2> QED
    BY <2>1, <2>2, <2>3, <2>4, <2>5, <2>6, <2>7, <2>8, <2>9, <2>10, <2>11,
       <2>12, <2>13, <2>14, <2>15, <2>16, <2>17, <2>18, <2>19, <2>20, <2>21, <2>22,
       <2>23, <2>24, <2>25, <2>26, <2>27, <2>28, <2>29, <2>30, <2>31,
       <2>32, <2>33
       DEF Next, Step
<1> QED
  BY <1>1, <1>2, TypeCorrect, GivenInvariant, LockInvariant, CopyInvariant, PTL DEF Spec

(* And so no stack is ever on one: what containers use was finished once.  *)
THEOREM AttachedAlwaysWhole ==
  ASSUME Faults = {}, Pg = {} \/ "sharedDown" \notin Commands
  PROVE  Spec => []AttachedWhole
<1>1. TypeOK /\ CopyInv /\ InMaking => AttachedWhole
  <2> SUFFICES ASSUME TypeOK, CopyInv, InMaking, NEW s \in attached PROVE copy[s] \in Finished
    BY DEF AttachedWhole
  <2>1. s \in Services /\ copy[s] # "none"
    BY DEF TypeOK, CopyInv, Existing
  <2>2. ASSUME copy[s] = "partial" PROVE FALSE
    <3>1. PICK p \in Procs : pc[p] \in {"load", "undo"} /\ Target(p) = s
      BY <2>1, <2>2 DEF InMaking
    <3>2. ~Mistaken(p)
      BY <2>2, <3>1 DEF InMaking, Finished
    <3> QED
      BY <3>1, <3>2 DEF CopyInv
  <2> QED BY <2>1, <2>2 DEF TypeOK, Finished
<1> QED BY <1>1, TypeCorrect, CopyInvariant, InMakingInvariant, PTL

LEMMA KnowsInvariant ==
  ASSUME Commands \subseteq Locked \cup {"down"},
         Pg = {} \/ Commands \cap {"fork", "unfork"} = {}
  PROVE  Spec => []Knows
<1>1. Init => Knows
  BY DEF Init, Knows, NoJob, UnderLock
<1>2. TypeOK /\ Given /\ LockInv /\ LockInv' /\ CopyInv /\ Knows /\ [Next]_vars => Knows'
  <2> SUFFICES ASSUME TypeOK, Given, LockInv, LockInv', CopyInv, Knows, [Next]_vars PROVE Knows'
    OBVIOUS
  <2> USE CommandAssumption, ServiceAssumption DEF TypeOK, Job, PCs, InLock, AnyLock, Locked,
      Unlocked, Given, LockInv, UnderLock, CopyInv, Written, Knows, Pending, Asking, Reads,
      Existing, Services, Mistaken, Finished, docker, artifacts, At, Goto, Cmd, Target
  <2>1. ASSUME NEW p \in Procs, Lock(p) PROVE Knows'
    BY <2>1 DEF Lock
  <2>2. ASSUME NEW p \in Procs, Derive(p) PROVE Knows'
    BY <2>2 DEF Derive
  <2>3. ASSUME NEW p \in Procs, WriteEnv(p) PROVE Knows'
    <3>0. /\ pc' = [pc EXCEPT ![p] = IF job[p].cmd = "init" THEN "done" ELSE "yml"]
          /\ env' = job[p].modes /\ yml' = yml /\ job' = job /\ copy' = copy /\ infra' = infra
          /\ pc[p] = "env"
      BY <2>3 DEF WriteEnv
    <3>1. job[p].cmd \in Locked /\ lock = p
      BY <3>0
    <3>2. \A q \in Procs \ {p} : pc'[q] = pc[q]
      BY <3>0
    <3>3. \A q \in Procs \ {p} : ~(job[q].cmd \in Locked /\ pc[q] \notin {"idle", "lock"})
      BY <3>1
    <3>4. \A q \in Procs \ {p} : pc[q] \in {"idle", "lock", "down", "done"}
      <4> SUFFICES ASSUME NEW q \in Procs \ {p}, pc[q] \notin {"idle", "lock", "down", "done"}
                   PROVE  FALSE
        OBVIOUS
      <4>1. job[q].cmd \in Commands /\ job[q].cmd # "down"
        BY DEF Given
      <4>2. job[q].cmd \in Locked
        BY <4>1
      <4> HIDE DEF Knows, CopyInv, LockInv, Given, TypeOK
      <4> QED BY <3>3, <4>2
    <3>5. pc'[p] = "yml"
      BY <3>0, <3>1
    <3> QED BY <3>0, <3>1, <3>2, <3>3, <3>4, <3>5
  <2>4. ASSUME NEW p \in Procs, WriteYml(p) PROVE Knows'
    BY <2>4 DEF WriteYml
  <2>5. ASSUME NEW p \in Procs, StartInfra(p) PROVE Knows'
    BY <2>5 DEF StartInfra
  <2>6. ASSUME NEW p \in Procs, StopInfra(p) PROVE Knows'
    BY <2>6 DEF StopInfra
  <2>7. ASSUME NEW p \in Procs, AskModes(p) PROVE Knows'
    <3>0. PICK modes \in SUBSET Services, missed \in SUBSET Pg :
             /\ job' = [job EXCEPT ![p].modes = modes, ![p].missed = missed, ![p].then = "auto"]
             /\ pc' = [pc EXCEPT ![p] = IF modes # job[p].modes THEN "env" ELSE "auto"]
             /\ modes \subseteq job[p].modes \cup Existing
             /\ job[p].modes \cap Vol \subseteq modes
             /\ Existing \cap Pg \subseteq modes \cup missed
      BY <2>7, AskModesEffect
    <3>1. pc[p] = "pgmodes" /\ UNCHANGED <<copy, env, yml, infra, running, attached, lock, ran>>
      BY <2>7, AskModesEffect
    <3> QED
      BY <3>0, <3>1
  <2>8. ASSUME NEW p \in Procs, AutoFork(p) PROVE Knows'
    BY <2>8 DEF AutoFork
  <2>9. ASSUME NEW p \in Procs, AutoForked(p) PROVE Knows'
    BY <2>9 DEF AutoForked
  <2>10. ASSUME NEW p \in Procs, Probe(p) PROVE Knows'
    BY <2>10 DEF Probe, Reachable
  <2>11. ASSUME NEW p \in Procs, CloneFast(p) PROVE Knows'
    BY <2>11 DEF CloneFast, SetCopy
  <2>12. ASSUME NEW p \in Procs, CloneFastFails(p) PROVE Knows'
    BY <2>12 DEF CloneFastFails
  <2>13. ASSUME NEW p \in Procs, DropFirst(p) PROVE Knows'
    BY <2>13 DEF DropFirst, SetCopy
  <2>14. ASSUME NEW p \in Procs, Create(p) PROVE Knows'
    BY <2>14 DEF Create, SetCopy, Reachable
  <2>15. ASSUME NEW p \in Procs, Load(p) PROVE Knows'
    BY <2>15 DEF Load, SetCopy
  <2>16. ASSUME NEW p \in Procs, LoadFails(p) PROVE Knows'
    BY <2>16 DEF LoadFails
  <2>17. ASSUME NEW p \in Procs, Undo(p) PROVE Knows'
    BY <2>17 DEF Undo, SetCopy, Removable
  <2>18. ASSUME NEW p \in Procs, UndoFails(p) PROVE Knows'
    BY <2>18 DEF UndoFails, Reachable, Removable
  <2>19. ASSUME NEW p \in Procs, Isolate(p) PROVE Knows'
    BY <2>19 DEF Isolate
  <2>20. ASSUME NEW p \in Procs, Confirm(p) PROVE Knows'
    BY <2>20 DEF Confirm, ConfirmedModes, Asked
  <2>21. ASSUME NEW p \in Procs, Down(p) PROVE Knows'
    BY <2>21 DEF Down
  <2>22. ASSUME NEW p \in Procs, Drop(p) PROVE Knows'
    BY <2>22 DEF Drop, SetCopy
  <2>23. ASSUME NEW p \in Procs, ComposeUp(p) PROVE Knows'
    BY <2>23 DEF ComposeUp
  <2>24. ASSUME NEW p \in Procs, Fail(p) PROVE Knows'
    BY <2>24 DEF Fail, FailingSteps
  <2>25. ASSUME NEW p \in Procs, DownFails(p) PROVE Knows'
    BY <2>25 DEF DownFails
  <2>26. ASSUME NEW p \in Procs, ComposeUpFails(p) PROVE Knows'
    BY <2>26 DEF ComposeUpFails, StartsPartly
  <2>27. ASSUME NEW p \in Procs, BindFails(p) PROVE Knows'
    BY <2>27 DEF BindFails, StartsPartly
  <2>28. ASSUME NEW p \in Procs, Return(p) PROVE Knows'
    BY <2>28 DEF Return, Leave, NoJob, AnyService
  <2>29. ASSUME NEW p \in Procs, Crash(p) PROVE Knows'
    BY <2>29 DEF Crash, Leave, NoJob, AnyService
  <2>30. ASSUME NEW p \in Procs, Begin(p) PROVE Knows'
    BY <2>30 DEF Begin, AfterArtifacts, Entry, AnyService
  <2>31. ASSUME NEW p \in Procs, ProbeUnanswered(p) PROVE Knows'
    BY <2>31 DEF ProbeUnanswered
  <2>32. ASSUME NEW p \in Procs, Overlay(p) PROVE Knows'
    BY <2>32 DEF Overlay, SetCopy
  <2>33. CASE UNCHANGED vars
    BY <2>33 DEF vars
  <2> QED
    BY <2>1, <2>2, <2>3, <2>4, <2>5, <2>6, <2>7, <2>8, <2>9, <2>10, <2>11,
       <2>12, <2>13, <2>14, <2>15, <2>16, <2>17, <2>18, <2>19, <2>20, <2>21, <2>22,
       <2>23, <2>24, <2>25, <2>26, <2>27, <2>28, <2>29, <2>30, <2>31,
       <2>32, <2>33
       DEF Next, Step
<1> QED
  BY <1>1, <1>2, TypeCorrect, GivenInvariant, LockInvariant, CopyInvariant, PTL DEF Spec

(* A stack is put on exactly the copies that exist, but for databases that *)
(* docker did not answer for, by commands that all write the artifacts     *)
(* under the flock, unless a volume is forked or unforked beside a forked  *)
(* database.                                                               *)
THEOREM AlwaysStartsOnCopies ==
  ASSUME Commands \subseteq Locked \cup {"down"},
         Pg = {} \/ Commands \cap {"fork", "unfork"} = {}
  PROVE  Spec => StartsOnCopies
<1> DEFINE OnCopies == \A p \in Procs : ComposeUp(p) => StartsOn(p)
<1>1. ASSUME TypeOK, LockInv, CopyInv, Knows PROVE OnCopies
  <2> SUFFICES ASSUME NEW p \in Procs, ComposeUp(p) PROVE StartsOn(p)
    OBVIOUS
  <2>1. pc[p] \in {"compose", "retry"} /\ attached' = (env \cap Pg) \cup yml
    BY DEF ComposeUp, At
  <2>2. UnderLock(p) /\ job[p].then \in Asking /\ Pending(p) = {}
    BY <1>1, <2>1 DEF LockInv, UnderLock, InLock, Knows, Asking, Pending
  <2>3. Reads(p)
    BY <1>1, <2>1 DEF Knows
  <2>4. /\ job[p].modes \subseteq Existing
        /\ Existing \cap Vol \subseteq job[p].modes
        /\ Existing \cap Pg \subseteq job[p].modes \cup job[p].missed
    BY <1>1, <2>1, <2>2 DEF CopyInv, Knows
  <2>5. Existing \subseteq Pg \cup Vol
    BY DEF Existing, Services
  <2> QED BY <2>1, <2>3, <2>4, <2>5 DEF Reads, StartsOn
<1>2. Spec => [][OnCopies]_vars
  BY <1>1, TypeCorrect, LockInvariant, CopyInvariant, KnowsInvariant, PTL
<1> QED BY <1>2 DEF StartsOnCopies
=============================================================================
