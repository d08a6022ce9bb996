---------------------------------- MODULE Forks ----------------------------------
(***************************************************************************)
(* src/cmd: how the commands of one linked worktree share the worktree's   *)
(* stateful data.  A stateful service starts on the app's shared store;    *)
(* `fork` gives the worktree a copy of its own, `unfork` deletes it, `up`  *)
(* finds out which copies exist and starts the stack on them.  Nothing     *)
(* records the mode of a service: every command derives it from Docker     *)
(* (the labels of the volumes, the list of the databases), writes it to    *)
(* .env.worktree and compose.worktree.yml, and lets docker compose read    *)
(* those files later.                                                      *)
(*                                                                         *)
(* A process is one docktree command.  up, fork, unfork and shared up run  *)
(* under the app's "up" flock; down, init, shared status and shared down   *)
(* do not.  Modes are the set of the services in mode "isolated".          *)
(***************************************************************************)
EXTENDS FiniteSets, Integers

CONSTANTS
  Pg,           \* stateful services forked as a logical database
  Vol,          \* stateful services forked as a volume
  Isolated,     \* those with default_strategy = "isolated"
  Procs, NoProc,
  Commands,     \* the commands that are run
  Faults,       \* "crash": a command is killed; "cleanup": a cleanup fails
  MaxCommands   \* bound: commands one process runs

Services == Pg \cup Vol

Locked == {"up", "sharedUp", "fork", "unfork"}
Unlocked == {"down", "init", "sharedStatus", "sharedDown"}

ASSUME ServiceAssumption ==
  /\ Services # {}
  /\ Pg \cap Vol = {}
  /\ Isolated \subseteq Services
ASSUME CommandAssumption ==
  /\ NoProc \notin Procs
  /\ Commands \subseteq Locked \cup Unlocked
  /\ Faults \subseteq {"crash", "cleanup"}
  /\ MaxCommands \in Nat

VARIABLES
  copy,      \* the worktree's own database or volume of each service
  env,       \* the modes .env.worktree was written with
  yml,       \* the forked services of compose.worktree.yml
  infra,     \* whether the shared infra stack is running
  running,   \* whether the worktree's stack is up as a whole
  attached,  \* the services whose own copy containers of the stack use
  lock,      \* the holder of the app's "up" flock
  pc, job,   \* where each command is, and its local variables; "missed" is a
             \* history of them, the copies docker did not answer for
  ran        \* commands each process began (bounds the model)

docker == <<copy, infra, running, attached>>
artifacts == <<env, yml>>
vars == <<copy, env, yml, infra, running, attached, lock, pc, job, ran>>

InLock ==
  {"derive", "infra", "pgmodes", "auto", "probe", "fast", "dropfirst", "create",
   "load", "undo", "isolate", "confirm", "drop", "compose", "retry"}
AnyLock == {"env", "yml", "down", "infradown", "done"}
PCs == {"idle", "lock"} \cup InLock \cup AnyLock

AnyService == CHOOSE s \in Services : TRUE
NoJob ==
  [cmd |-> "up", target |-> AnyService, modes |-> {}, missed |-> {}, then |-> "done"]
Job ==
  [cmd : Locked \cup Unlocked, target : Services, modes : SUBSET Services,
   missed : SUBSET Services, then : PCs]

(* A finished copy over which a fork has laid another snapshot, or a part  *)
(* of one, is "overlaid".                                                  *)
Finished == {"complete", "overlaid"}

(* Docker, the two artifacts and the commands only ever hold these values. *)
TypeOK ==
  /\ copy \in [Services -> {"none", "partial"} \cup Finished]
  /\ env \in SUBSET Services
  /\ yml \in SUBSET Vol
  /\ infra \in BOOLEAN
  /\ running \in BOOLEAN
  /\ attached \in SUBSET Services
  /\ lock \in Procs \cup {NoProc}
  /\ pc \in [Procs -> PCs]
  /\ job \in [Procs -> Job]
  /\ ran \in [Procs -> Nat]

Init ==
  /\ copy = [s \in Services |-> "none"]
  /\ env = {}
  /\ yml = {}
  /\ infra = FALSE
  /\ running = FALSE
  /\ attached = {}
  /\ lock = NoProc
  /\ pc = [p \in Procs |-> "idle"]
  /\ job = [p \in Procs |-> NoJob]
  /\ ran = [p \in Procs |-> 0]

-----------------------------------------------------------------------------
At(p, label) == pc[p] = label
Goto(p, label) == pc' = [pc EXCEPT ![p] = label]
Cmd(p) == job[p].cmd
Target(p) == job[p].target
Existing == {s \in Services : copy[s] # "none"}

(* A docker compose exec in the infra project needs it to run.             *)
Reachable(s) == s \in Pg => infra

(* Where a command goes on once it has written the artifacts.              *)
AfterArtifacts(cmd) ==
  CASE cmd \in {"up", "sharedUp"} -> "infra"
    [] cmd = "fork" -> "probe"
    [] cmd = "unfork" -> "confirm"
    [] cmd = "sharedDown" -> "infradown"
    [] OTHER -> "done"

Entry(cmd) ==
  CASE cmd \in Locked -> "lock"
    [] cmd = "down" -> "down"
    [] OTHER -> "env"

(* A command is started: every mode is "shared" until it is derived.       *)
Begin(p) ==
  /\ At(p, "idle")
  /\ ran[p] < MaxCommands
  /\ \E cmd \in Commands :
       \E s \in (IF cmd \in {"fork", "unfork"} THEN Services ELSE {AnyService}) :
         /\ job' = [job EXCEPT ![p] =
              [cmd |-> cmd, target |-> s, modes |-> {}, missed |-> {},
               then |-> AfterArtifacts(cmd)]]
         /\ Goto(p, Entry(cmd))
  /\ ran' = [ran EXCEPT ![p] = @ + 1]
  /\ UNCHANGED <<docker, artifacts, lock>>

(* withAppCriticalSection obtains the flock.                               *)
Lock(p) ==
  /\ At(p, "lock")
  /\ lock = NoProc
  /\ lock' = p
  /\ Goto(p, "derive")
  /\ UNCHANGED <<docker, artifacts, job, ran>>

(* Fault: labelled volumes are not looked for.                              *)
FaultDeriveNothing(p) ==
  /\ At(p, "derive")
  /\ Goto(p, "env")
  /\ UNCHANGED <<docker, artifacts, lock, job, ran>>

(* prepareStack: the modes of the volume services come from the labelled   *)
(* volumes.  Those of the databases are not asked for here.                *)
Derive(p) ==
  /\ At(p, "derive")
  /\ job' = [job EXCEPT ![p].modes = Existing \cap Vol]
  /\ Goto(p, "env")
  /\ UNCHANGED <<docker, artifacts, lock, ran>>

(* writeStackArtifacts, one file after the other; init writes only the     *)
(* first.  A Postgres fork changes the environment alone (composeOptions). *)
WriteEnv(p) ==
  /\ At(p, "env")
  /\ env' = job[p].modes
  /\ Goto(p, IF Cmd(p) = "init" THEN "done" ELSE "yml")
  /\ UNCHANGED <<docker, yml, lock, job, ran>>

(* Fault: a Postgres fork is rendered as a local service.                   *)
FaultYmlForksAll(p) ==
  /\ At(p, "yml")
  /\ yml' = job[p].modes
  /\ Goto(p, job[p].then)
  /\ UNCHANGED <<docker, env, lock, job, ran>>

WriteYml(p) ==
  /\ At(p, "yml")
  /\ yml' = job[p].modes \cap Vol
  /\ Goto(p, job[p].then)
  /\ UNCHANGED <<docker, env, lock, job, ran>>

-----------------------------------------------------------------------------
(* ensureInfra and, in up, the wait for the shared services.               *)
StartInfra(p) ==
  /\ At(p, "infra")
  /\ infra' = TRUE
  /\ Goto(p, IF Cmd(p) = "up" THEN "pgmodes" ELSE "done")
  /\ UNCHANGED <<copy, running, attached, artifacts, lock, job, ran>>

StopInfra(p) ==
  /\ At(p, "infradown")
  /\ infra' = FALSE
  /\ Goto(p, "done")
  /\ UNCHANGED <<copy, running, attached, artifacts, lock, job, ran>>

(* applyPostgresLogicalForkModes: the services whose database was asked    *)
(* for get the mode the answer tells, the others keep theirs.              *)
Asked(modes, answered) == (modes \ answered) \cup (Existing \cap answered)

(* Fault: the modes change without the artifacts being rewritten.           *)
FaultModesNotWritten(p) ==
  /\ At(p, "pgmodes")
  /\ job' = [job EXCEPT ![p].modes = Asked(@, IF infra THEN Pg ELSE {}), ![p].then = "auto"]
  /\ Goto(p, "auto")
  /\ UNCHANGED <<docker, artifacts, lock, ran>>

(* up asks leniently: any of the queries may fail, and all do without the  *)
(* infra.  It rewrites the artifacts if a mode changed.                    *)
AskModes(p) ==
  /\ At(p, "pgmodes")
  /\ \E answered \in SUBSET Pg :
       /\ answered # {} => infra
       /\ job' = [job EXCEPT ![p].modes = Asked(@, answered),
                             ![p].missed = Existing \cap (Pg \ answered), ![p].then = "auto"]
       /\ Goto(p, IF Asked(job[p].modes, answered) # job[p].modes THEN "env" ELSE "auto")
  /\ UNCHANGED <<docker, artifacts, lock, ran>>

(* ensureConfiguredIsolatedStateful: fork what is to be isolated and is    *)
(* not, then rewrite the artifacts if anything was forked.                 *)
AutoFork(p) ==
  /\ At(p, "auto")
  /\ \E s \in Isolated \ job[p].modes : job' = [job EXCEPT ![p].target = s]
  /\ Goto(p, "probe")
  /\ UNCHANGED <<docker, artifacts, lock, ran>>

AutoForked(p) ==
  /\ At(p, "auto")
  /\ Isolated \subseteq job[p].modes
  /\ Goto(p, IF job[p].then = "compose" THEN "env" ELSE "compose")
  /\ UNCHANGED <<docker, artifacts, lock, job, ran>>

-----------------------------------------------------------------------------
(* Fault: an existing destination is not refused.                           *)
FaultProbeAccepts(p) ==
  /\ At(p, "probe")
  /\ Reachable(Target(p))
  /\ job' = [job EXCEPT ![p].missed = @ \ {Target(p)}]
  /\ Goto(p, IF Target(p) \in Pg THEN "fast" ELSE "create")
  /\ UNCHANGED <<docker, artifacts, lock, ran>>

(* forkPostgres and forkGenericVolume refuse an existing destination.      *)
Probe(p) ==
  /\ At(p, "probe")
  /\ Reachable(Target(p))
  /\ job' = [job EXCEPT ![p].missed = @ \ {Target(p)}]
  /\ Goto(p, IF copy[Target(p)] # "none" THEN "done"
             ELSE IF Target(p) \in Pg THEN "fast" ELSE "create")
  /\ UNCHANGED <<docker, artifacts, lock, ran>>

(* forkGenericVolume takes any failure of `docker volume inspect` for the  *)
(* answer that the volume is not there, so when docker fails otherwise an  *)
(* existing volume goes unnoticed.                                         *)
ProbeUnanswered(p) ==
  /\ At(p, "probe")
  /\ Target(p) \in Vol \cap Existing
  /\ job' = [job EXCEPT ![p].missed = @ \cup {Target(p)}]
  /\ Goto(p, "create")
  /\ UNCHANGED <<docker, artifacts, lock, ran>>

(* A fork of a volume that has a copy of which it does not know.           *)
Mistaken(p) == Target(p) \in Vol \cap job[p].missed

SetCopy(p, value) == copy' = [copy EXCEPT ![Target(p)] = value]

(* CREATE DATABASE ... TEMPLATE copies the source or fails as a whole, as  *)
(* when somebody is connected to the source; then the slow path begins by  *)
(* dropping the destination.                                               *)
CloneFast(p) ==
  /\ At(p, "fast")
  /\ infra
  /\ copy[Target(p)] = "none"
  /\ SetCopy(p, "complete")
  /\ Goto(p, "isolate")
  /\ UNCHANGED <<infra, running, attached, artifacts, lock, job, ran>>

CloneFastFails(p) ==
  /\ At(p, "fast")
  /\ Goto(p, "dropfirst")
  /\ UNCHANGED <<docker, artifacts, lock, job, ran>>

DropFirst(p) ==
  /\ At(p, "dropfirst")
  /\ infra
  /\ SetCopy(p, "none")
  /\ Goto(p, "create")
  /\ UNCHANGED <<infra, running, attached, artifacts, lock, job, ran>>

(* createdb, then the dump; or docker volume create, which is content with *)
(* a volume that exists, then the snapshot.                                *)
Create(p) ==
  /\ At(p, "create")
  /\ Reachable(Target(p))
  /\ Target(p) \in Pg => copy[Target(p)] = "none"
  /\ SetCopy(p, IF copy[Target(p)] = "none" THEN "partial" ELSE copy[Target(p)])
  /\ Goto(p, "load")
  /\ UNCHANGED <<infra, running, attached, artifacts, lock, job, ran>>

(* The snapshot begins to write over a finished copy.                      *)
Overlay(p) ==
  /\ At(p, "load")
  /\ copy[Target(p)] = "complete"
  /\ SetCopy(p, "overlaid")
  /\ UNCHANGED <<infra, running, attached, artifacts, lock, pc, job, ran>>

Load(p) ==
  /\ At(p, "load")
  /\ Reachable(Target(p))
  /\ SetCopy(p, IF Mistaken(p) THEN "overlaid" ELSE "complete")
  /\ Goto(p, "isolate")
  /\ UNCHANGED <<infra, running, attached, artifacts, lock, job, ran>>

(* docker volume rm refuses a volume that a container uses.                *)
Removable(p) == Target(p) \in Vol => Target(p) \notin attached

(* Fault: a failed copy is left behind.                                     *)
FaultNoUndo(p) ==
  /\ \/ At(p, "load")
     \/ At(p, "create") /\ Target(p) \in Pg
  /\ Goto(p, "done")
  /\ UNCHANGED <<docker, artifacts, lock, job, ran>>

(* createdb, pg_dump and psql are one script; the snapshot is a command of *)
(* its own.  When one fails the destination is removed, if that succeeds.  *)
LoadFails(p) ==
  /\ \/ At(p, "load")
     \/ At(p, "create") /\ Target(p) \in Pg
  /\ Goto(p, "undo")
  /\ UNCHANGED <<docker, artifacts, lock, job, ran>>

Undo(p) ==
  /\ At(p, "undo")
  /\ Reachable(Target(p))
  /\ Removable(p)
  /\ SetCopy(p, "none")
  /\ Goto(p, "done")
  /\ UNCHANGED <<infra, running, attached, artifacts, lock, job, ran>>

UndoFails(p) ==
  /\ At(p, "undo")
  /\ "cleanup" \in Faults \/ ~Reachable(Target(p)) \/ ~Removable(p)
  /\ Goto(p, "done")
  /\ UNCHANGED <<docker, artifacts, lock, job, ran>>

(* fork writes the new mode at once, up after the last of its forks.       *)
Isolate(p) ==
  /\ At(p, "isolate")
  /\ job' = [job EXCEPT ![p].modes = @ \cup {Target(p)}, ![p].then = "compose"]
  /\ Goto(p, IF Cmd(p) = "up" THEN "auto" ELSE "env")
  /\ UNCHANGED <<docker, artifacts, lock, ran>>

-----------------------------------------------------------------------------
ConfirmedModes(p) ==
  IF Target(p) \in Pg THEN Asked(job[p].modes, Pg) ELSE job[p].modes

(* Fault: the database is dropped under the running stack.                  *)
FaultConfirmSkipsDown(p) ==
  /\ At(p, "confirm")
  /\ Reachable(Target(p))
  /\ job' = [job EXCEPT ![p].modes = ConfirmedModes(p)]
  /\ Goto(p, IF Target(p) \in ConfirmedModes(p) THEN "drop" ELSE "done")
  /\ UNCHANGED <<docker, artifacts, lock, ran>>

(* unfork asks strictly, and only destroys a service in mode isolated      *)
(* (CheckDestroy).                                                         *)
Confirm(p) ==
  /\ At(p, "confirm")
  /\ Reachable(Target(p))
  /\ job' = [job EXCEPT ![p].modes = ConfirmedModes(p)]
  /\ Goto(p, IF Target(p) \in ConfirmedModes(p) THEN "down" ELSE "done")
  /\ UNCHANGED <<docker, artifacts, lock, ran>>

(* compose down removes the containers the file on disk names: a local     *)
(* service it does not name stays, and keeps its volume in use.            *)
Down(p) ==
  /\ At(p, "down")
  /\ running' = FALSE
  /\ attached' = (attached \cap Vol) \ yml
  /\ Goto(p, IF Cmd(p) = "unfork" THEN "drop" ELSE "done")
  /\ UNCHANGED <<copy, infra, artifacts, lock, job, ran>>

(* DROP DATABASE or docker volume rm.                                      *)
Drop(p) ==
  /\ At(p, "drop")
  /\ Reachable(Target(p))
  /\ Removable(p)
  /\ SetCopy(p, "none")
  /\ job' = [job EXCEPT ![p].modes = @ \ {Target(p)}, ![p].then = "compose"]
  /\ Goto(p, "env")
  /\ UNCHANGED <<infra, running, attached, artifacts, lock, ran>>

(* A compose down that fails has removed some of what it would remove.     *)
DownFails(p) ==
  /\ At(p, "down")
  /\ running' = FALSE
  /\ \E left \in SUBSET attached :
       /\ (attached \cap Vol) \ yml \subseteq left
       /\ attached' = left
  /\ Goto(p, "done")
  /\ UNCHANGED <<copy, infra, artifacts, lock, job, ran>>

(* compose up --remove-orphans reads both files as they are now; the       *)
(* volumes of the forked services are external and must exist.             *)
ComposeUp(p) ==
  /\ At(p, "compose") \/ At(p, "retry")
  /\ yml \subseteq Existing
  /\ running' = TRUE
  /\ attached' = (env \cap Pg) \cup yml
  /\ Goto(p, "done")
  /\ UNCHANGED <<copy, infra, artifacts, lock, job, ran>>

(* A compose up that fails has replaced some of the containers.            *)
StartsPartly ==
  /\ yml \subseteq Existing
  /\ running' = FALSE
  /\ attached' \in SUBSET (attached \cup (env \cap Pg) \cup yml)

ComposeUpFails(p) ==
  /\ At(p, "compose") \/ At(p, "retry")
  /\ StartsPartly
  /\ Goto(p, "done")
  /\ UNCHANGED <<copy, infra, artifacts, lock, job, ran>>

(* up takes a port that could not be bound for a reason to choose another, *)
(* to write the artifacts again and to run compose up once more.           *)
BindFails(p) ==
  /\ At(p, "compose")
  /\ Cmd(p) = "up"
  /\ StartsPartly
  /\ job' = [job EXCEPT ![p].then = "retry"]
  /\ Goto(p, "env")
  /\ UNCHANGED <<copy, infra, artifacts, lock, ran>>

-----------------------------------------------------------------------------
FailingSteps ==
  {"derive", "env", "yml", "infra", "pgmodes", "infradown", "probe", "dropfirst",
   "confirm", "drop", "compose", "retry"}

(* A file cannot be written, the shared services are not ready in time, or *)
(* a docker command fails before it has changed anything.                  *)
Fail(p) ==
  /\ \/ pc[p] \in FailingSteps
     \/ At(p, "create") /\ Target(p) \in Vol
  /\ Goto(p, "done")
  /\ UNCHANGED <<docker, artifacts, lock, job, ran>>

(* Fault: the flock outlives the command.                                   *)
FaultLeaveKeepsLock(p) ==
  /\ job' = [job EXCEPT ![p] = NoJob]
  /\ Goto(p, "idle")
  /\ UNCHANGED <<docker, artifacts, lock, ran>>

(* The command returns; the deferred unlock, if it holds the flock.        *)
Leave(p) ==
  /\ lock' = IF lock = p THEN NoProc ELSE lock
  /\ job' = [job EXCEPT ![p] = NoJob]
  /\ Goto(p, "idle")
  /\ UNCHANGED <<docker, artifacts, ran>>

Return(p) == At(p, "done") /\ Leave(p)

(* The command is killed; the kernel drops its flock.                      *)
Crash(p) == "crash" \in Faults /\ ~At(p, "idle") /\ Leave(p)

Step(p) ==
  \/ Lock(p) \/ Derive(p) \/ WriteEnv(p) \/ WriteYml(p)
  \/ StartInfra(p) \/ StopInfra(p) \/ AskModes(p) \/ AutoFork(p) \/ AutoForked(p)
  \/ Probe(p) \/ ProbeUnanswered(p)
  \/ CloneFast(p) \/ CloneFastFails(p) \/ DropFirst(p) \/ Create(p)
  \/ Overlay(p) \/ Load(p) \/ LoadFails(p) \/ Undo(p) \/ UndoFails(p) \/ Isolate(p)
  \/ Confirm(p) \/ Down(p) \/ DownFails(p) \/ Drop(p)
  \/ ComposeUp(p) \/ ComposeUpFails(p) \/ BindFails(p) \/ Fail(p) \/ Return(p)

Next == \E p \in Procs : Begin(p) \/ Step(p) \/ Crash(p)

Spec == Init /\ [][Next]_vars

(* Docker commands return, the wait for the shared services gives up after *)
(* two minutes (defaultCommandDeps), and the kernel grants a free flock to *)
(* one that waits for it; finitely many commands are begun.                *)
FairSpec == Spec /\ \A p \in Procs : WF_vars(Step(p))

-----------------------------------------------------------------------------
(* A finished copy is only ever destroyed or written over by an unfork     *)
(* that names its service, or by a fork docker did not answer when it      *)
(* asked for the volume: no other fork, forced drop, cleanup or automatic  *)
(* fork of up touches one, whatever runs beside it and wherever a command  *)
(* is killed (forkPostgres, forkGenericVolume, runUnfork).                 *)
Unforks(p, s) == At(p, "drop") /\ Cmd(p) = "unfork" /\ Target(p) = s
Overwrites(p, s) == Mistaken(p) /\ Cmd(p) = "fork" /\ Target(p) = s

OnlyUnforkDestroys ==
  \A s \in Services :
    copy[s] \in Finished /\ copy'[s] # copy[s] =>
      \E p \in Procs : Unforks(p, s) \/ Overwrites(p, s)

CopiesSurvive == [][OnlyUnforkDestroys]_vars

(* No copy goes away under a stack that uses it: "worktree stack must stop *)
(* before logical DB drop" (unfork_test.go), also when another command     *)
(* starts or stops the stack meanwhile.                                    *)
RemovedUnattached ==
  \A s \in Services : copy[s] # "none" /\ copy'[s] = "none" => s \notin attached

StoppedBeforeDrop == [][RemovedUnattached]_vars

(* Whenever docktree starts the stack, the services that use a copy of     *)
(* their own are those that have one; all of them, but for the databases   *)
(* that docker did not answer for when up asked.                           *)
StartsOn(p) ==
  /\ attached' \subseteq Existing
  /\ Existing \ attached' \subseteq Pg \cap job[p].missed

StartsOnCopies == [][\A p \in Procs : ComposeUp(p) => StartsOn(p)]_vars

(* A stack is never on a half-made copy, one that was never finished: a    *)
(* fork that fails leaves none behind.  What it is on may have been        *)
(* overlaid, by a fork that did not know of it (OnlyUnforkDestroys).       *)
AttachedWhole == \A s \in attached : copy[s] \in Finished

(* A running stack leaves a copy only by unfork deleting it ("Return to    *)
(* shared data by deleting the isolated copy", README.md), or when docker  *)
(* does not answer for it.                                                 *)
IsolationKept ==
  [][\A s \in attached :
       running /\ running' /\ copy'[s] # "none" =>
         s \in attached' \/ \E p \in Procs : s \in job[p].missed]_vars

(* The inductive invariant of the two: who is past the flock holds it ...  *)
UnderLock(p) == Cmd(p) \in Locked /\ pc[p] \notin {"idle", "lock"}

LockInv ==
  \A p \in Procs :
    /\ UnderLock(p) => lock = p
    /\ pc[p] \in InLock \cup {"lock"} => Cmd(p) \in Locked
    /\ job[p].then \in {"infra", "probe", "confirm", "auto", "compose", "retry", "infradown",
                          "done"}
    /\ job[p].then \notin {"infradown", "done"} => Cmd(p) \in Locked

(* ... the modes of a command and, once it has written them, those of the  *)
(* environment are of copies that exist, and so is what a stack uses; a    *)
(* copy that is being made is not in use, unless it is a mistaken one.     *)
(* Only fork makes such a mistake: up forks what it has found not to exist *)
(* (Pending is the one copy that is not among the modes yet).              *)
Written ==
  {"yml", "infra", "pgmodes", "auto", "probe", "fast", "dropfirst", "create",
   "load", "isolate", "confirm", "down", "drop", "compose", "retry"}

Pending(p) == IF pc[p] \in {"load", "undo", "isolate"} THEN {Target(p)} ELSE {}

CopyInv ==
  /\ attached \subseteq Existing
  /\ \A p \in Procs :
       /\ ~UnderLock(p) => job[p].modes = {} /\ job[p].missed = {}
       /\ UnderLock(p) /\ pc[p] # "done" => job[p].modes \subseteq Existing
       /\ UnderLock(p) /\ pc[p] \in Written => env \subseteq Existing
       /\ UnderLock(p) /\ pc[p] \notin {"derive", "done"} =>
            Existing \cap Vol \subseteq job[p].modes \cup Pending(p)
       /\ job[p].then = "probe" => Cmd(p) = "fork"
       /\ pc[p] = "probe" /\ Cmd(p) # "fork" => Target(p) \notin job[p].modes
       /\ job[p].missed \cap Vol # {} => Cmd(p) = "fork"
       /\ pc[p] \in {"fast", "dropfirst"} => Target(p) \in Pg /\ copy[Target(p)] = "none"
       /\ pc[p] \in {"create", "load"} /\ Mistaken(p) => copy[Target(p)] # "none"
       /\ pc[p] = "create" /\ ~Mistaken(p) => copy[Target(p)] = "none"
       /\ pc[p] = "load" /\ ~Mistaken(p) => copy[Target(p)] = "partial"
       /\ pc[p] = "undo" /\ ~Mistaken(p) => copy[Target(p)] \notin Finished
       /\ pc[p] = "isolate" => copy[Target(p)] \in Finished
       /\ pc[p] \in {"load", "undo"} /\ ~Mistaken(p) =>
            Target(p) \notin attached \cup job[p].modes
       /\ pc[p] = "drop" =>
            /\ Cmd(p) = "unfork"
            /\ Target(p) \in Pg => Target(p) \notin attached

(* A command that waits for the flock ends, whatever the one before it     *)
(* does: the automatic forks of up come to an end and every path, the      *)
(* failing ones included, gives the flock back.                            *)
CommandsEnd == \A p \in Procs : At(p, "lock") ~> At(p, "idle")
=============================================================================
