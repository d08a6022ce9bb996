-------------------------------- MODULE Registry --------------------------------
(***************************************************************************)
(* src/internal/registry: the machine-global registry.json in which every  *)
(* docktree command reserves port bands (EnsureApp) and shared service     *)
(* ports (EnsureSharedPorts).  A call is a read-modify-write of the whole  *)
(* file under a flock that is chosen by the app, not by the file.  A       *)
(* process is one docktree command; several run at once, and any of them   *)
(* may be killed between two steps.                                        *)
(*                                                                         *)
(* A map of the JSON file is a set of reservations [app, kind, name, port].*)
(* A seed, walked by the code in the order of its sorted keys, is the      *)
(* sequence of its [name, want] pairs in that order.                       *)
(***************************************************************************)
EXTENDS Integers, Sequences

CONSTANTS
  Apps, Services, Procs,
  NoProc,          \* the holder of a lock nobody holds
  Locks, LockOf,   \* lock files, and the one LockPath names for an app
  BandStart, BandWidth, MaxPort,
  BandRequests,    \* seeds EnsureApp is called with
  SharedRequests,  \* canonical ports EnsureSharedPorts is called with
  BandLimit,       \* bound: bands the search of reserveBand looks at
  MaxCalls         \* bound: calls one process makes

(* The k-th band base, counted from BandStart.                             *)
BandBase(k) == BandStart + k * BandWidth

IsBandBase(port) == \E k \in 0..port : port = BandBase(k)

Request == [name : Services, want : Nat \ {0}]

ASSUME LockAssumption ==
  /\ Apps # {}
  /\ LockOf \in [Apps -> Locks]
  /\ NoProc \notin Procs
ASSUME BandAssumption ==
  /\ BandStart \in Nat \ {0}
  /\ BandWidth \in Nat \ {0}
  /\ MaxPort \in Nat
  /\ BandLimit \in Nat
  /\ MaxCalls \in Nat
ASSUME RequestAssumption ==
  /\ BandRequests \subseteq Seq(Request)
  /\ SharedRequests \subseteq Seq(Request)
  /\ \A seed \in BandRequests : \A i \in DOMAIN seed : IsBandBase(seed[i].want)

VARIABLES
  file,     \* registry.json: the apps it lists, the reservations it holds
  holder,   \* who holds each lock file's flock
  pc,       \* where each process is in its call
  call,     \* its call: the app, the kind asked for, the names left to do
  img,      \* its in-memory copy of the file
  changed,  \* whether that copy differs from what it read
  calls,    \* calls begun by each process (bounds the model)
  granted   \* history: every reservation a call has returned

vars == <<file, holder, pc, call, img, changed, calls, granted>>

Kinds == {"band", "shared"}
Entry ==
  [app : Apps, kind : {"band"}, name : Services, port : Nat \ {0}] \cup
  [app : Apps, kind : {"shared"}, name : Services, port : 1..MaxPort]
Image == [apps : SUBSET Apps, resv : SUBSET Entry]
Call == [app : Apps, kind : Kinds, todo : Seq(Request)]
EmptyImage == [apps |-> {}, resv |-> {}]
NoCall == [app |-> CHOOSE app \in Apps : TRUE, kind |-> "band", todo |-> <<>>]

InLock == {"load", "reserve", "save", "return"}

(* A band base is a positive number, a shared port a valid TCP port, in    *)
(* registry.json, in every copy of it and in every answer.                 *)
TypeOK ==
  /\ file \in Image
  /\ holder \in [Locks -> Procs \cup {NoProc}]
  /\ pc \in [Procs -> {"idle", "flock"} \cup InLock]
  /\ call \in [Procs -> Call]
  /\ img \in [Procs -> Image]
  /\ changed \in [Procs -> BOOLEAN]
  /\ calls \in [Procs -> Nat]
  /\ granted \in SUBSET Entry

Init ==
  /\ file = EmptyImage
  /\ holder = [l \in Locks |-> NoProc]
  /\ pc = [p \in Procs |-> "idle"]
  /\ call = [p \in Procs |-> NoCall]
  /\ img = [p \in Procs |-> EmptyImage]
  /\ changed = [p \in Procs |-> FALSE]
  /\ calls = [p \in Procs |-> 0]
  /\ granted = {}

-----------------------------------------------------------------------------
(* Fault: only the caller's own band is looked at, so nothing is used.      *)
FaultUsedForgotten(resv, kind) == {}

(* Numbers of one kind that a copy of the file already reserves.           *)
Used(resv, kind) == {e.port : e \in {f \in resv : f.kind = kind}}

Holds(resv, app, kind, name) ==
  \E e \in resv : e.app = app /\ e.kind = kind /\ e.name = name

(* Fault: the search steps from port to port instead of band to band.      *)
FaultBandStep(used, preferred, port) ==
  IF preferred >= BandStart /\ preferred \notin used
  THEN port = preferred
  ELSE \E k \in 0..BandLimit :
         /\ port = BandStart + k
         /\ port \notin used
         /\ \A j \in 0..(k - 1) : BandStart + j \in used

(* reserveBand: the preferred base if it is a band base nobody uses, else  *)
(* the first unused one counted from BandStart.                            *)
IsReservedBand(used, preferred, port) ==
  LET takesPreferred == preferred >= BandStart /\ preferred \notin used
  IN  \/ takesPreferred /\ port = preferred
      \/ /\ ~takesPreferred
         /\ \E k \in 0..BandLimit :
              /\ port = BandBase(k)
              /\ port \notin used
              /\ \A j \in 0..(k - 1) : BandBase(j) \in used

(* Fault: the loop over the shifts has no end at the last TCP port.         *)
FaultShiftsUnbounded(canonical) ==
  {port \in canonical..(MaxPort + BandWidth) : (port - canonical) % BandWidth = 0}

(* reserveSharedPort: the ports it tries, and the ones it could take when  *)
(* the probe finds the ports of `free` bindable.                           *)
Shifts(canonical) ==
  {port \in canonical..MaxPort : (port - canonical) % BandWidth = 0}

FreeShifts(used, canonical, free) == (Shifts(canonical) \cap free) \ used

IsReservedShared(used, canonical, free, port) ==
  /\ port \in FreeShifts(used, canonical, free)
  /\ \A other \in FreeShifts(used, canonical, free) : port <= other

-----------------------------------------------------------------------------
Requested ==
  [app : Apps, kind : {"band"}, todo : BandRequests] \cup
  [app : Apps, kind : {"shared"}, todo : SharedRequests]

(* EnsureApp or EnsureSharedPorts is called.                               *)
Begin(p) ==
  /\ pc[p] = "idle"
  /\ calls[p] < MaxCalls
  /\ \E request \in Requested : call' = [call EXCEPT ![p] = request]
  /\ pc' = [pc EXCEPT ![p] = "flock"]
  /\ calls' = [calls EXCEPT ![p] = @ + 1]
  /\ UNCHANGED <<file, holder, img, changed, granted>>

LockFile(p) == LockOf[call[p].app]

(* Fault: a shared flock (LOCK_SH), which any number of processes hold.     *)
FaultFlockShared(p) ==
  /\ pc[p] = "flock"
  /\ holder' = [holder EXCEPT ![LockFile(p)] = p]
  /\ pc' = [pc EXCEPT ![p] = "load"]
  /\ UNCHANGED <<file, call, img, changed, calls, granted>>

(* withAppLock obtains the exclusive flock.                                *)
Flock(p) ==
  /\ pc[p] = "flock"
  /\ holder[LockFile(p)] = NoProc
  /\ holder' = [holder EXCEPT ![LockFile(p)] = p]
  /\ pc' = [pc EXCEPT ![p] = "load"]
  /\ UNCHANGED <<file, call, img, changed, calls, granted>>

(* load: the whole file is read; the app gets an entry if it has none.     *)
Load(p) ==
  /\ pc[p] = "load"
  /\ img' = [img EXCEPT ![p] = [file EXCEPT !.apps = @ \cup {call[p].app}]]
  /\ changed' = [changed EXCEPT ![p] = call[p].app \notin file.apps]
  /\ pc' = [pc EXCEPT ![p] = "reserve"]
  /\ UNCHANGED <<file, holder, call, calls, granted>>

(* The next name of the seed, and its reservation in the process's copy.   *)
Wanted(p) == Head(call[p].todo)

Added(p, port) ==
  [app |-> call[p].app, kind |-> call[p].kind, name |-> Wanted(p).name, port |-> port]

(* Fault: a new reservation does not mark the copy as changed.              *)
FaultRecordUnmarked(p, port) ==
  /\ img' = [img EXCEPT ![p].resv = @ \cup {Added(p, port)}]
  /\ call' = [call EXCEPT ![p].todo = Tail(@)]
  /\ UNCHANGED <<file, holder, pc, changed, calls, granted>>

Record(p, port) ==
  /\ img' = [img EXCEPT ![p].resv = @ \cup {Added(p, port)}]
  /\ changed' = [changed EXCEPT ![p] = TRUE]
  /\ call' = [call EXCEPT ![p].todo = Tail(@)]
  /\ UNCHANGED <<file, holder, pc, calls, granted>>

AtNewName(p, kind) ==
  /\ pc[p] = "reserve"
  /\ call[p].kind = kind
  /\ call[p].todo # <<>>
  /\ ~Holds(img[p].resv, call[p].app, kind, Wanted(p).name)

ReserveBand(p) ==
  /\ AtNewName(p, "band")
  /\ LET used == Used(img[p].resv, "band")
     IN  \E port \in {Wanted(p).want} \cup (BandStart..BandBase(BandLimit)) :
           /\ IsReservedBand(used, Wanted(p).want, port)
           /\ Record(p, port)

(* Which ports are bindable is for the host to say, at each probe.         *)
ReserveSharedPort(p) ==
  /\ AtNewName(p, "shared")
  /\ LET used == Used(img[p].resv, "shared")
         canonical == Wanted(p).want
     IN  \E free \in SUBSET Shifts(canonical) : \E port \in free :
           /\ IsReservedShared(used, canonical, free, port)
           /\ Record(p, port)

(* A name that is already reserved keeps its number.                       *)
KeepReservation(p) ==
  /\ pc[p] = "reserve"
  /\ call[p].todo # <<>>
  /\ Holds(img[p].resv, call[p].app, call[p].kind, Wanted(p).name)
  /\ call' = [call EXCEPT ![p].todo = Tail(@)]
  /\ UNCHANGED <<file, holder, pc, img, changed, calls, granted>>

(* Every name has a number: the file is saved only if something changed.   *)
Computed(p) ==
  /\ pc[p] = "reserve"
  /\ call[p].todo = <<>>
  /\ pc' = [pc EXCEPT ![p] = IF changed[p] THEN "save" ELSE "return"]
  /\ UNCHANGED <<file, holder, call, img, changed, calls, granted>>

(* Fault: the file is saved with the entry of the calling app alone.        *)
FaultSaveOwnApp(p) ==
  /\ pc[p] = "save"
  /\ file' = [img[p] EXCEPT !.resv = {e \in @ : e.app = call[p].app}]
  /\ pc' = [pc EXCEPT ![p] = "return"]
  /\ UNCHANGED <<holder, call, img, changed, calls, granted>>

(* save: the temporary file replaces registry.json by a rename.            *)
Save(p) ==
  /\ pc[p] = "save"
  /\ file' = img[p]
  /\ pc' = [pc EXCEPT ![p] = "return"]
  /\ UNCHANGED <<holder, call, img, changed, calls, granted>>

(* The end of a call, however it ends: its local variables are gone.       *)
Forget(p) ==
  /\ pc' = [pc EXCEPT ![p] = "idle"]
  /\ call' = [call EXCEPT ![p] = NoCall]
  /\ img' = [img EXCEPT ![p] = EmptyImage]
  /\ changed' = [changed EXCEPT ![p] = FALSE]
  /\ UNCHANGED <<file, calls>>

(* The deferred unlock.                                                    *)
Leave(p) ==
  /\ holder' = [holder EXCEPT ![LockFile(p)] = NoProc]
  /\ Forget(p)

(* The call answers with what its copy of the file reserves for the app.   *)
Answer(p) ==
  {e \in img[p].resv : e.app = call[p].app /\ e.kind = call[p].kind}

Return(p) ==
  /\ pc[p] = "return"
  /\ granted' = granted \cup Answer(p)
  /\ Leave(p)

(* No shifted port is unused and bindable: the call fails before the save, *)
(* and drops what it had reserved for the earlier names.                   *)
NoSharedPort(p) ==
  /\ AtNewName(p, "shared")
  /\ \E free \in SUBSET Shifts(Wanted(p).want) :
       FreeShifts(Used(img[p].resv, "shared"), Wanted(p).want, free) = {}
  /\ Leave(p)
  /\ UNCHANGED granted

(* load or save fails (unreadable or malformed file, disk full, rename).   *)
IOError(p) ==
  /\ pc[p] \in {"load", "save"}
  /\ Leave(p)
  /\ UNCHANGED granted

(* Fault: a lock that is a file's existence survives the process.           *)
FaultCrashKeepsLock(p) ==
  /\ pc[p] # "idle"
  /\ Forget(p)
  /\ UNCHANGED <<holder, granted>>

(* The process is killed: the kernel drops its flock, the next process     *)
(* starts with nothing in memory.                                          *)
Crash(p) ==
  /\ pc[p] # "idle"
  /\ holder' = [l \in Locks |-> IF holder[l] = p THEN NoProc ELSE holder[l]]
  /\ Forget(p)
  /\ UNCHANGED granted

Step(p) ==
  \/ Flock(p) \/ Load(p)
  \/ ReserveBand(p) \/ ReserveSharedPort(p) \/ KeepReservation(p) \/ Computed(p)
  \/ Save(p) \/ Return(p) \/ NoSharedPort(p)

Next == \E p \in Procs : Begin(p) \/ Step(p) \/ IOError(p) \/ Crash(p)

Spec == Init /\ [][Next]_vars

(* The kernel runs every process that can run and grants a free flock to   *)
(* one that waits for it; a command makes finitely many calls, so nobody   *)
(* can overtake a waiter for ever.                                         *)
FairSpec == Spec /\ \A p \in Procs : WF_vars(Step(p))

-----------------------------------------------------------------------------
Book == INSTANCE Reservations WITH book <- file.resv

(* registry.json never gives one band base or one shared port to two       *)
(* services, of one app or of two, whatever the interleaving of the        *)
(* read-modify-writes of processes under different locks, and whichever    *)
(* process is killed at whichever step (EnsureApp, EnsureSharedPorts).     *)
FileUnique == Book!Unique(file.resv)

(* The inductive form of it: every copy of the file is as unique.          *)
UniqueInv == FileUnique /\ \A p \in Procs : Book!Unique(img[p].resv)

(* The bands of registry.json do not overlap: every base is BandStart plus *)
(* a multiple of BandWidth (the seeds, reserveBand), so that two services  *)
(* resolving ports inside their bands cannot meet.                         *)
BandRangesDisjoint ==
  \A e, f \in {g \in file.resv : g.kind = "band"} :
    e # f => (e.port + BandWidth <= f.port \/ f.port + BandWidth <= e.port)

(* The inductive form of it: the bases in the file, in every copy of it    *)
(* and in every seed are whole bands.                                      *)
AllBases(resv) == \A e \in resv : e.kind = "band" => IsBandBase(e.port)

AlignedInv ==
  /\ AllBases(file.resv)
  /\ \A p \in Procs :
       /\ AllBases(img[p].resv)
       /\ call[p].kind = "band" =>
            \A i \in DOMAIN call[p].todo : IsBandBase(call[p].todo[i].want)

(* What a call has answered with stays in registry.json: the next call of  *)
(* the app answers the same (the reservations are "stable").               *)
GrantsKept == granted \subseteq file.resv

(* No two answers, of any two calls at any two times, give one number to   *)
(* two services or two numbers to one service.                             *)
GrantsUnique == Book!Unique(granted)

(* When all apps lock one file, the critical sections exclude each other   *)
(* and the copy a process holds extends the file.                          *)
OneLock == \A a, b \in Apps : LockOf[a] = LockOf[b]

SerialInv ==
  /\ \A p \in Procs : pc[p] \in InLock => holder[LockFile(p)] = p
  /\ \A p \in Procs : pc[p] \in {"reserve", "save"} =>
       /\ file.resv \subseteq img[p].resv
       /\ \A e \in img[p].resv \ file.resv : e.app = call[p].app
       /\ ~changed[p] => img[p].resv = file.resv
  /\ \A p \in Procs : pc[p] = "return" => img[p].resv = file.resv
  /\ GrantsKept

(* A call that waits for the flock ends: every path out of withAppLock,    *)
(* the errors and the kill included, gives the flock back.                 *)
CallsEnd == \A p \in Procs : pc[p] = "flock" ~> pc[p] = "idle"

(* The program implements the atomic book of Reservations.tla.             *)
RefinesReservations == Book!Spec
=============================================================================
