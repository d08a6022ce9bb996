----------------------------- MODULE RegistryProofs -----------------------------
(***************************************************************************)
(* Proofs about Registry.tla for every number of apps, services, processes *)
(* and lock files.                                                         *)
(***************************************************************************)
EXTENDS Registry, TLAPS

(* The bases reserveBand hands out are positive numbers.                   *)
LEMMA BandBaseType == \A k \in Nat : BandBase(k) \in Nat \ {0}
<1> TAKE k \in Nat
<1>1. k * BandWidth \in Nat
  BY BandAssumption
<1> QED
  BY <1>1, BandAssumption DEF BandBase

(* The next name of a seed comes with a positive preferred number.         *)
LEMMA WantedType ==
  ASSUME TypeOK, NEW p \in Procs, call[p].todo # <<>>
  PROVE  /\ Wanted(p) \in Request
         /\ Wanted(p).want \in Nat \ {0}
         /\ Tail(call[p].todo) \in Seq(Request)
<1>1. Wanted(p) \in Request /\ Tail(call[p].todo) \in Seq(Request)
  BY DEF TypeOK, Call, Wanted
<1> QED
  BY <1>1 DEF Request

(* A copy of the file extended by a well-typed reservation is well typed.  *)
LEMMA RecordType ==
  ASSUME TypeOK, NEW p \in Procs, NEW port \in Nat \ {0},
         call[p].todo # <<>>, call[p].kind = "shared" => port \in 1..MaxPort,
         Record(p, port)
  PROVE  TypeOK'
<1>1. Wanted(p) \in Request /\ Tail(call[p].todo) \in Seq(Request)
  BY WantedType
<1>2. Added(p, port) \in Entry
  BY <1>1 DEF TypeOK, Call, Kinds, Added, Entry, Request
<1>3. img' \in [Procs -> Image]
  BY <1>2 DEF TypeOK, Image, Record
<1>4. call' \in [Procs -> Call]
  BY <1>1 DEF TypeOK, Call, Record
<1> QED
  BY <1>3, <1>4 DEF TypeOK, Record

(* Whatever ends a call leaves a well-typed state.                         *)
LEMMA ForgetType ==
  ASSUME TypeOK, NEW p \in Procs, Forget(p),
         holder' \in [Locks -> Procs \cup {NoProc}], granted' \in SUBSET Entry
  PROVE  TypeOK'
<1>1. NoCall \in Call
  BY LockAssumption DEF NoCall, Call, Kinds
<1>2. EmptyImage \in Image
  BY DEF EmptyImage, Image
<1> QED
  BY <1>1, <1>2 DEF TypeOK, Forget, InLock

LEMMA LeaveType ==
  ASSUME TypeOK, NEW p \in Procs, Leave(p), granted' \in SUBSET Entry
  PROVE  TypeOK'
<1>1. LockFile(p) \in Locks
  BY LockAssumption DEF TypeOK, Call, LockFile
<1>2. holder' \in [Locks -> Procs \cup {NoProc}]
  BY <1>1 DEF TypeOK, Leave
<1> QED
  BY <1>2, ForgetType DEF Leave

(* Type correctness: in particular every shared port registry.json ever    *)
(* holds, and every one a call answers with, is a TCP port (the bound of   *)
(* the loop of reserveSharedPort).                                         *)
THEOREM TypeCorrect == Spec => []TypeOK
<1>1. Init => TypeOK
  <2>1. NoCall \in Call
    BY LockAssumption DEF NoCall, Call, Kinds
  <2> QED
    BY <2>1 DEF Init, TypeOK, EmptyImage, Image
<1>2. TypeOK /\ [Next]_vars => TypeOK'
  <2> SUFFICES ASSUME TypeOK, [Next]_vars PROVE TypeOK'
    OBVIOUS
  <2>1. ASSUME NEW p \in Procs, Begin(p) PROVE TypeOK'
    <3>1. PICK request \in Requested : call' = [call EXCEPT ![p] = request]
      BY <2>1 DEF Begin
    <3>2. request \in Call
      BY RequestAssumption DEF Requested, Call, Kinds
    <3>3. call' \in [Procs -> Call]
      BY <3>1, <3>2 DEF TypeOK
    <3> QED
      BY <2>1, <3>3 DEF TypeOK, Begin
  <2>2. ASSUME NEW p \in Procs, Flock(p) PROVE TypeOK'
    <3>1. LockFile(p) \in Locks
      BY LockAssumption DEF TypeOK, Call, LockFile
    <3> QED
      BY <2>2, <3>1 DEF TypeOK, Flock, InLock
  <2>3. ASSUME NEW p \in Procs, Load(p) PROVE TypeOK'
    <3>1. [file EXCEPT !.apps = @ \cup {call[p].app}] \in Image
      BY DEF TypeOK, Image, Call
    <3> QED
      BY <2>3, <3>1 DEF TypeOK, Load, InLock
  <2>4. ASSUME NEW p \in Procs, ReserveBand(p) PROVE TypeOK'
    <3>1. PICK port \in {Wanted(p).want} \cup (BandStart..BandBase(BandLimit)) :
            Record(p, port)
      BY <2>4 DEF ReserveBand
    <3>2. call[p].todo # <<>> /\ call[p].kind = "band"
      BY <2>4 DEF ReserveBand, AtNewName
    <3>3. Wanted(p).want \in Nat \ {0}
      BY <3>2, WantedType
    <3>4. port \in Nat \ {0}
      BY <3>1, <3>3, BandBaseType, BandAssumption
    <3> QED
      BY <3>1, <3>2, <3>4, RecordType
  <2>5. ASSUME NEW p \in Procs, ReserveSharedPort(p) PROVE TypeOK'
    <3>1. call[p].todo # <<>> /\ call[p].kind = "shared"
      BY <2>5 DEF ReserveSharedPort, AtNewName
    <3>2. Wanted(p).want \in Nat \ {0}
      BY <3>1, WantedType
    <3>3. PICK port \in Shifts(Wanted(p).want) : Record(p, port)
      BY <2>5 DEF ReserveSharedPort
    <3>4. port \in Wanted(p).want..MaxPort
      BY <3>3 DEF Shifts
    <3>5. port \in 1..MaxPort /\ port \in Nat \ {0}
      BY <3>2, <3>4, BandAssumption
    <3> QED
      BY <3>1, <3>3, <3>5, RecordType
  <2>6. ASSUME NEW p \in Procs, KeepReservation(p) PROVE TypeOK'
    <3>1. Tail(call[p].todo) \in Seq(Request)
      BY <2>6, WantedType DEF KeepReservation
    <3>2. call' \in [Procs -> Call]
      BY <2>6, <3>1 DEF TypeOK, Call, KeepReservation
    <3> QED
      BY <2>6, <3>2 DEF TypeOK, KeepReservation
  <2>7. ASSUME NEW p \in Procs, Computed(p) PROVE TypeOK'
    BY <2>7 DEF TypeOK, Computed, InLock
  <2>8. ASSUME NEW p \in Procs, Save(p) PROVE TypeOK'
    BY <2>8 DEF TypeOK, Save, InLock
  <2>9. ASSUME NEW p \in Procs, Return(p) PROVE TypeOK'
    <3>1. granted' \in SUBSET Entry
      BY <2>9 DEF Return, Answer, TypeOK, Image
    <3> QED
      BY <2>9, <3>1, LeaveType DEF Return
  <2>10. ASSUME NEW p \in Procs, NoSharedPort(p) \/ IOError(p) PROVE TypeOK'
    <3>1. Leave(p) /\ granted' = granted
      BY <2>10 DEF NoSharedPort, IOError
    <3>2. granted' \in SUBSET Entry
      BY <3>1 DEF TypeOK
    <3> QED
      BY <3>1, <3>2, LeaveType
  <2>11. ASSUME NEW p \in Procs, Crash(p) PROVE TypeOK'
    <3>1. holder' \in [Locks -> Procs \cup {NoProc}] /\ granted' \in SUBSET Entry
      BY <2>11 DEF TypeOK, Crash
    <3> QED
      BY <2>11, <3>1, ForgetType DEF Crash
  <2>12. CASE UNCHANGED vars
    BY <2>12 DEF TypeOK, vars
  <2> QED
    BY <2>1, <2>2, <2>3, <2>4, <2>5, <2>6, <2>7, <2>8, <2>9, <2>10, <2>11, <2>12
       DEF Next, Step
<1> QED
  BY <1>1, <1>2, PTL DEF Spec

-----------------------------------------------------------------------------
(* A number that is not used yet goes to a name that has none: the copy of *)
(* the file stays free of duplicates.                                      *)
LEMMA AddKeepsUnique ==
  ASSUME NEW resv, Book!Unique(resv), NEW e,
         e.port \notin Used(resv, e.kind), ~Holds(resv, e.app, e.kind, e.name)
  PROVE  Book!Unique(resv \cup {e})
<1>1. \A f \in resv : f.kind = e.kind => f.port # e.port
  BY DEF Used
<1>2. \A f \in resv : ~(f.app = e.app /\ f.kind = e.kind /\ f.name = e.name)
  BY DEF Holds
<1> QED
  BY <1>1, <1>2 DEF Book!Unique

(* What a step of reserveBand or reserveSharedPort does to the copies.     *)
LEMMA RecordUnique ==
  ASSUME TypeOK, UniqueInv, NEW p \in Procs, NEW port, NEW kind \in Kinds,
         AtNewName(p, kind), port \notin Used(img[p].resv, kind), Record(p, port)
  PROVE  UniqueInv'
<1> DEFINE e == Added(p, port)
<1>1. e.port = port /\ e.kind = kind /\ e.app = call[p].app /\ e.name = Wanted(p).name
  BY DEF Added, AtNewName
<1>2. Book!Unique(img[p].resv)
  BY DEF UniqueInv
<1>3. Book!Unique(img[p].resv \cup {e})
  BY <1>1, <1>2, AddKeepsUnique DEF AtNewName
<1>4. file' = file /\ img' = [img EXCEPT ![p].resv = @ \cup {e}]
  BY DEF Record
<1>5. ASSUME NEW q \in Procs PROVE Book!Unique(img'[q].resv)
  <2>1. CASE q = p
    <3>1. img'[p].resv = img[p].resv \cup {e}
      BY <1>4 DEF TypeOK, Image
    <3> QED
      BY <2>1, <3>1, <1>3
  <2>2. CASE q # p
    <3>1. img'[q] = img[q]
      BY <1>4, <2>2 DEF TypeOK
    <3> QED
      BY <3>1 DEF UniqueInv
  <2> QED
    BY <2>1, <2>2
<1> QED
  BY <1>4, <1>5 DEF UniqueInv, FileUnique

(* The invariant behind FileStaysUnique.                                   *)
LEMMA UniqueInvariant == Spec => []UniqueInv
<1>1. Init => UniqueInv
  BY DEF Init, UniqueInv, FileUnique, EmptyImage, Book!Unique
<1>2. TypeOK /\ UniqueInv /\ [Next]_vars => UniqueInv'
  <2> SUFFICES ASSUME TypeOK, UniqueInv, [Next]_vars PROVE UniqueInv'
    OBVIOUS
  <2>1. ASSUME NEW p \in Procs, ReserveBand(p) PROVE UniqueInv'
    <3>1. PICK port : /\ IsReservedBand(Used(img[p].resv, "band"), Wanted(p).want, port)
                      /\ Record(p, port)
      BY <2>1 DEF ReserveBand
    <3>2. port \notin Used(img[p].resv, "band")
      BY <3>1 DEF IsReservedBand
    <3> QED
      BY <2>1, <3>1, <3>2, RecordUnique DEF ReserveBand, Kinds
  <2>2. ASSUME NEW p \in Procs, ReserveSharedPort(p) PROVE UniqueInv'
    <3>1. PICK free, port :
            /\ IsReservedShared(Used(img[p].resv, "shared"), Wanted(p).want, free, port)
            /\ Record(p, port)
      BY <2>2 DEF ReserveSharedPort
    <3>2. port \notin Used(img[p].resv, "shared")
      BY <3>1 DEF IsReservedShared, FreeShifts
    <3> QED
      BY <2>2, <3>1, <3>2, RecordUnique DEF ReserveSharedPort, Kinds
  <2>3. ASSUME NEW p \in Procs, Load(p) PROVE UniqueInv'
    <3>1. [file EXCEPT !.apps = @ \cup {call[p].app}].resv = file.resv
      BY DEF TypeOK, Image
    <3> QED
      BY <2>3, <3>1 DEF Load, UniqueInv, FileUnique, TypeOK
  <2>4. ASSUME NEW p \in Procs, Save(p) PROVE UniqueInv'
    BY <2>4 DEF Save, UniqueInv, FileUnique
  <2>5. ASSUME NEW p \in Procs, Forget(p) PROVE UniqueInv'
    <3>1. Book!Unique(EmptyImage.resv)
      BY DEF EmptyImage, Book!Unique
    <3> QED
      BY <2>5, <3>1 DEF Forget, UniqueInv, FileUnique, TypeOK
  <2>6. ASSUME UNCHANGED <<file, img>> PROVE UniqueInv'
    BY <2>6 DEF UniqueInv, FileUnique
  <2> QED
    BY <2>1, <2>2, <2>3, <2>4, <2>5, <2>6
       DEF Next, Step, Begin, Flock, KeepReservation, Computed, Return,
           NoSharedPort, IOError, Leave, Crash, vars
<1> QED
  BY <1>1, <1>2, TypeCorrect, PTL DEF Spec

(* No save, by any process under any lock, and no kill, can make two       *)
(* services share a number in registry.json: a process extends the copy it *)
(* read by numbers that copy does not use, and saves that copy as a whole. *)
THEOREM FileStaysUnique == Spec => []FileUnique
<1>1. UniqueInv => FileUnique
  BY DEF UniqueInv
<1> QED
  BY <1>1, UniqueInvariant, PTL

-----------------------------------------------------------------------------
(* A whole number of bands above BandStart is a band base.                 *)
LEMMA BandBaseIsBase == \A k \in Nat : IsBandBase(BandBase(k))
<1> TAKE k \in Nat
<1>1. k <= k * BandWidth
  BY BandAssumption
<1>2. k \in 0..BandBase(k)
  BY <1>1, BandBaseType, BandAssumption DEF BandBase
<1> QED
  BY <1>2 DEF IsBandBase

(* Two different bases are a band apart.                                   *)
LEMMA BasesApart ==
  ASSUME NEW a \in Nat, NEW b \in Nat, IsBandBase(a), IsBandBase(b), a < b
  PROVE  a + BandWidth <= b
<1>1. PICK j \in 0..a : a = BandStart + j * BandWidth
  BY DEF IsBandBase, BandBase
<1>2. PICK k \in 0..b : b = BandStart + k * BandWidth
  BY DEF IsBandBase, BandBase
<1>3. j \in Nat /\ k \in Nat /\ BandWidth \in Nat /\ BandStart \in Nat
  BY BandAssumption
<1>4. j < k
  <2> SUFFICES ASSUME k <= j PROVE FALSE
    BY <1>3
  <2>1. k * BandWidth <= j * BandWidth
    BY <1>3
  <2> QED
    BY <1>1, <1>2, <1>3, <2>1
<1>5. (j + 1) * BandWidth <= k * BandWidth
  BY <1>3, <1>4
<1>6. (j + 1) * BandWidth = j * BandWidth + BandWidth
  BY <1>3
<1> QED
  BY <1>1, <1>2, <1>3, <1>5, <1>6

(* The invariant behind BandsStayDisjoint.                                 *)
LEMMA AlignedInvariant == Spec => []AlignedInv
<1>1. Init => AlignedInv
  <2>1. AllBases(EmptyImage.resv) /\ NoCall.todo = <<>>
    BY DEF EmptyImage, AllBases, NoCall
  <2> QED
    BY <2>1 DEF Init, AlignedInv
<1>2. TypeOK /\ AlignedInv /\ [Next]_vars => AlignedInv'
  <2> SUFFICES ASSUME TypeOK, AlignedInv, [Next]_vars PROVE AlignedInv'
    OBVIOUS
  <2>1. ASSUME NEW p \in Procs, Begin(p) PROVE AlignedInv'
    <3>1. PICK request \in Requested : call' = [call EXCEPT ![p] = request]
      BY <2>1 DEF Begin
    <3>2. request.kind = "band" =>
            \A i \in DOMAIN request.todo : IsBandBase(request.todo[i].want)
      BY RequestAssumption DEF Requested
    <3>3. \A q \in Procs : call'[q].kind = "band" =>
            \A i \in DOMAIN call'[q].todo : IsBandBase(call'[q].todo[i].want)
      BY <3>1, <3>2 DEF AlignedInv, TypeOK
    <3> QED
      BY <2>1, <3>3 DEF Begin, AlignedInv
  <2>2. ASSUME NEW p \in Procs, NEW port, Record(p, port), call[p].todo # <<>>,
               call[p].kind = "band" => IsBandBase(port)
        PROVE  AlignedInv'
    <3>1. AllBases(img[p].resv \cup {Added(p, port)})
      BY <2>2 DEF AlignedInv, AllBases, Added
    <3>2. \A q \in Procs : AllBases(img'[q].resv)
      BY <2>2, <3>1 DEF Record, AlignedInv, TypeOK, Image
    <3>3. \A i \in DOMAIN Tail(call[p].todo) :
            i + 1 \in DOMAIN call[p].todo /\ Tail(call[p].todo)[i] = call[p].todo[i + 1]
      BY <2>2 DEF TypeOK, Call
    <3>4. \A q \in Procs : call'[q].kind = "band" =>
            \A i \in DOMAIN call'[q].todo : IsBandBase(call'[q].todo[i].want)
      BY <2>2, <3>3 DEF Record, AlignedInv, TypeOK, Call
    <3> QED
      BY <2>2, <3>2, <3>4 DEF Record, AlignedInv
  <2>3. ASSUME NEW p \in Procs, ReserveBand(p) PROVE AlignedInv'
    <3>1. PICK port : /\ IsReservedBand(Used(img[p].resv, "band"), Wanted(p).want, port)
                      /\ Record(p, port)
      BY <2>3 DEF ReserveBand
    <3>2. call[p].kind = "band" /\ call[p].todo # <<>>
      BY <2>3 DEF ReserveBand, AtNewName
    <3>3. Wanted(p) = call[p].todo[1] /\ 1 \in DOMAIN call[p].todo
      BY <3>2 DEF TypeOK, Call, Wanted
    <3>4. IsBandBase(Wanted(p).want)
      BY <3>2, <3>3 DEF AlignedInv
    <3>5. IsBandBase(port)
      BY <3>1, <3>4, BandBaseIsBase, BandAssumption DEF IsReservedBand
    <3> QED
      BY <3>1, <3>2, <3>5, <2>2
  <2>4. ASSUME NEW p \in Procs, ReserveSharedPort(p) PROVE AlignedInv'
    <3>1. PICK port : Record(p, port)
      BY <2>4 DEF ReserveSharedPort
    <3> QED
      BY <2>2, <2>4, <3>1 DEF ReserveSharedPort, AtNewName
  <2>5. ASSUME NEW p \in Procs, KeepReservation(p) PROVE AlignedInv'
    <3>1. \A i \in DOMAIN Tail(call[p].todo) :
            i + 1 \in DOMAIN call[p].todo /\ Tail(call[p].todo)[i] = call[p].todo[i + 1]
      BY <2>5 DEF KeepReservation, TypeOK, Call
    <3>2. \A q \in Procs : call'[q].kind = "band" =>
            \A i \in DOMAIN call'[q].todo : IsBandBase(call'[q].todo[i].want)
      BY <2>5, <3>1 DEF KeepReservation, AlignedInv, TypeOK, Call
    <3> QED
      BY <2>5, <3>2 DEF KeepReservation, AlignedInv
  <2>6. ASSUME NEW p \in Procs, Load(p) PROVE AlignedInv'
    <3>1. [file EXCEPT !.apps = @ \cup {call[p].app}].resv = file.resv
      BY DEF TypeOK, Image
    <3> QED
      BY <2>6, <3>1 DEF Load, AlignedInv, TypeOK
  <2>7. ASSUME NEW p \in Procs, Save(p) PROVE AlignedInv'
    BY <2>7 DEF Save, AlignedInv
  <2>8. ASSUME NEW p \in Procs, Forget(p) PROVE AlignedInv'
    <3>1. AllBases(EmptyImage.resv) /\ NoCall.todo = <<>>
      BY DEF EmptyImage, AllBases, NoCall
    <3> QED
      BY <2>8, <3>1 DEF Forget, AlignedInv, TypeOK
  <2>9. ASSUME UNCHANGED <<file, img, call>> PROVE AlignedInv'
    BY <2>9 DEF AlignedInv
  <2> QED
    BY <2>1, <2>3, <2>4, <2>5, <2>6, <2>7, <2>8, <2>9
       DEF Next, Step, Flock, Computed, Return, NoSharedPort, IOError, Leave, Crash, vars
<1> QED
  BY <1>1, <1>2, TypeCorrect, PTL DEF Spec

(* The port ranges of two services never overlap in registry.json: bands   *)
(* are unique and whole bands apart.                                       *)
THEOREM BandsStayDisjoint == Spec => []BandRangesDisjoint
<1>1. TypeOK /\ UniqueInv /\ AlignedInv => BandRangesDisjoint
  <2> SUFFICES ASSUME TypeOK, UniqueInv, AlignedInv,
                      NEW e \in file.resv, NEW f \in file.resv,
                      e.kind = "band", f.kind = "band", e # f
               PROVE  e.port + BandWidth <= f.port \/ f.port + BandWidth <= e.port
    BY DEF BandRangesDisjoint
  <2>1. e.port # f.port
    BY DEF UniqueInv, FileUnique, Book!Unique
  <2>2. e.port \in Nat /\ f.port \in Nat
    BY BandAssumption DEF TypeOK, Image, Entry
  <2>3. IsBandBase(e.port) /\ IsBandBase(f.port)
    BY DEF AlignedInv, AllBases
  <2>4. CASE e.port < f.port
    BY <2>2, <2>3, <2>4, BasesApart
  <2>5. CASE f.port < e.port
    BY <2>2, <2>3, <2>5, BasesApart
  <2> QED
    BY <2>1, <2>2, <2>4, <2>5
<1> QED
  BY <1>1, TypeCorrect, UniqueInvariant, AlignedInvariant, PTL

-----------------------------------------------------------------------------
(* With one lock at most one process is between flock and unlock.          *)
LEMMA Exclusion ==
  ASSUME OneLock, TypeOK, SerialInv,
         NEW p \in Procs, NEW q \in Procs, pc[p] \in InLock, pc[q] \in InLock
  PROVE  p = q
<1>1. LockFile(p) = LockFile(q)
  BY DEF OneLock, LockFile, TypeOK, Call
<1> QED
  BY <1>1 DEF SerialInv

(* What the processes other than p know stays as it was, when p changes    *)
(* neither the file nor anything of theirs and takes nobody's lock.        *)
LEMMA OthersSerial ==
  ASSUME OneLock, TypeOK, SerialInv, NEW p \in Procs, NEW q \in Procs, q # p,
         pc'[q] = pc[q], call'[q] = call[q], img'[q] = img[q],
         changed'[q] = changed[q], file' = file,
         pc[q] \in InLock => holder'[LockFile(q)] = q
  PROVE  /\ pc'[q] \in InLock => holder'[LockFile(q)'] = q
         /\ pc'[q] \in {"reserve", "save"} =>
              /\ file'.resv \subseteq img'[q].resv
              /\ \A e \in img'[q].resv \ file'.resv : e.app = call'[q].app
              /\ ~changed'[q] => img'[q].resv = file'.resv
         /\ pc'[q] = "return" => img'[q].resv = file'.resv
BY DEF SerialInv, LockFile

(* A step of p that starts or ends no critical section and leaves the file *)
(* alone keeps SerialInv when it keeps p's own part of it.                 *)
LEMMA LocalSerial ==
  ASSUME OneLock, TypeOK, SerialInv, NEW p \in Procs,
         \A q \in Procs \ {p} : /\ pc'[q] = pc[q]
                                /\ call'[q] = call[q]
                                /\ img'[q] = img[q]
                                /\ changed'[q] = changed[q],
         UNCHANGED <<file, holder, granted>>,
         pc'[p] \in InLock => pc[p] \in InLock,
         call'[p].app = call[p].app,
         pc'[p] \in {"reserve", "save"} =>
           /\ file.resv \subseteq img'[p].resv
           /\ \A e \in img'[p].resv \ file.resv : e.app = call[p].app
           /\ ~changed'[p] => img'[p].resv = file.resv,
         pc'[p] = "return" => img'[p].resv = file.resv
  PROVE  SerialInv'
<1>1. \A q \in Procs \ {p} : pc[q] \in InLock => holder'[LockFile(q)] = q
  BY DEF SerialInv
<1>2. GrantsKept'
  BY DEF SerialInv, GrantsKept
<1>3. pc'[p] \in InLock => holder'[LockFile(p)'] = p
  BY DEF SerialInv, LockFile
<1> QED
  BY <1>1, <1>2, <1>3, OthersSerial DEF SerialInv

(* A process that ends its call leaves the others as they were.            *)
LEMMA ForgetSerial ==
  ASSUME OneLock, TypeOK, SerialInv, NEW p \in Procs, Forget(p),
         granted' \subseteq file.resv,
         \A q \in Procs \ {p} : pc[q] \in InLock => holder'[LockFile(q)] = q
  PROVE  SerialInv'
<1>1. file' = file /\ pc'[p] = "idle"
  BY DEF Forget, TypeOK
<1>2. \A q \in Procs \ {p} : /\ pc'[q] = pc[q]
                             /\ call'[q] = call[q]
                             /\ img'[q] = img[q]
                             /\ changed'[q] = changed[q]
  BY DEF Forget, TypeOK
<1>3. GrantsKept'
  BY <1>1 DEF GrantsKept
<1> QED
  BY <1>1, <1>2, <1>3, OthersSerial DEF SerialInv, InLock

LEMMA LeaveSerial ==
  ASSUME OneLock, TypeOK, SerialInv, NEW p \in Procs, Leave(p),
         pc[p] \in InLock, granted' \subseteq file.resv
  PROVE  SerialInv'
<1>1. \A q \in Procs \ {p} : pc[q] \notin InLock
  BY Exclusion
<1> QED
  BY <1>1, ForgetSerial DEF Leave

(* The invariant behind the promises that hold under one lock.             *)
LEMMA SerialInvariant ==
  ASSUME OneLock
  PROVE  Spec => []SerialInv
<1>1. Init => SerialInv
  BY DEF Init, SerialInv, GrantsKept, EmptyImage, InLock
<1>2. TypeOK /\ SerialInv /\ [Next]_vars => SerialInv'
  <2> SUFFICES ASSUME TypeOK, SerialInv, [Next]_vars PROVE SerialInv'
    OBVIOUS
  <2>1. ASSUME NEW p \in Procs, Begin(p) PROVE SerialInv'
    <3>1. \A q \in Procs \ {p} : call'[q] = call[q] /\ pc'[q] = pc[q]
      BY <2>1 DEF Begin, TypeOK
    <3>2. pc'[p] = "flock"
      BY <2>1 DEF Begin, TypeOK
    <3> QED
      BY <2>1, <3>1, <3>2 DEF Begin, SerialInv, GrantsKept, LockFile, InLock
  <2>2. ASSUME NEW p \in Procs, Flock(p) PROVE SerialInv'
    <3>1. pc'[p] = "load" /\ holder'[LockFile(p)] = p
      BY <2>2, LockAssumption DEF Flock, TypeOK, LockFile, Call
    <3>2. \A q \in Procs \ {p} : pc'[q] = pc[q]
      BY <2>2 DEF Flock, TypeOK
    <3>3. \A q \in Procs : pc[q] \notin InLock
      <4> SUFFICES ASSUME NEW q \in Procs, pc[q] \in InLock PROVE FALSE
        OBVIOUS
      <4>1. LockFile(q) = LockFile(p)
        BY DEF OneLock, LockFile, TypeOK, Call
      <4> QED
        BY <2>2, <4>1, LockAssumption DEF Flock, SerialInv
    <3> QED
      BY <2>2, <3>1, <3>2, <3>3 DEF Flock, SerialInv, GrantsKept, LockFile, InLock
  <2>3. ASSUME NEW p \in Procs, Load(p) PROVE SerialInv'
    <3>1. img'[p].resv = file.resv /\ pc'[p] = "reserve"
      BY <2>3 DEF Load, TypeOK, Image
    <3>2. \A q \in Procs \ {p} : pc'[q] = pc[q] /\ img'[q] = img[q] /\ changed'[q] = changed[q]
      BY <2>3 DEF Load, TypeOK
    <3> QED
      BY <2>3, <3>1, <3>2, LocalSerial DEF Load, InLock
  <2>4. ASSUME NEW p \in Procs, NEW port, Record(p, port), pc[p] = "reserve"
        PROVE  SerialInv'
    <3>1. img'[p].resv = img[p].resv \cup {Added(p, port)} /\ changed'[p]
      BY <2>4 DEF Record, TypeOK, Image
    <3>2. call'[p].app = call[p].app /\ Added(p, port).app = call[p].app
      BY <2>4 DEF Record, TypeOK, Call, Added
    <3>3. \A q \in Procs \ {p} : /\ pc'[q] = pc[q] /\ call'[q] = call[q]
                                 /\ img'[q] = img[q] /\ changed'[q] = changed[q]
      BY <2>4 DEF Record, TypeOK
    <3>4. /\ file.resv \subseteq img'[p].resv
          /\ \A e \in img'[p].resv \ file.resv : e.app = call[p].app
      BY <2>4, <3>1, <3>2 DEF SerialInv
    <3> QED
      BY <2>4, <3>1, <3>2, <3>3, <3>4, LocalSerial DEF Record, InLock
  <2>5. ASSUME NEW p \in Procs, ReserveBand(p) \/ ReserveSharedPort(p) PROVE SerialInv'
    <3>1. pc[p] = "reserve" /\ \E port : Record(p, port)
      BY <2>5 DEF ReserveBand, ReserveSharedPort, AtNewName
    <3> QED
      BY <3>1, <2>4
  <2>6. ASSUME NEW p \in Procs, KeepReservation(p) PROVE SerialInv'
    <3>1. call'[p].app = call[p].app
      BY <2>6 DEF KeepReservation, TypeOK, Call
    <3>2. \A q \in Procs \ {p} : call'[q] = call[q]
      BY <2>6 DEF KeepReservation, TypeOK
    <3>3. pc[p] = "reserve" /\ UNCHANGED <<file, holder, pc, img, changed, granted>>
      BY <2>6 DEF KeepReservation
    <3> QED
      BY <3>1, <3>2, <3>3, LocalSerial DEF SerialInv
  <2>7. ASSUME NEW p \in Procs, Computed(p) PROVE SerialInv'
    <3>1. pc[p] = "reserve" /\ pc'[p] = IF changed[p] THEN "save" ELSE "return"
      BY <2>7 DEF Computed, TypeOK
    <3>2. \A q \in Procs \ {p} : pc'[q] = pc[q]
      BY <2>7 DEF Computed, TypeOK
    <3>3. UNCHANGED <<file, holder, call, img, changed, granted>>
      BY <2>7 DEF Computed
    <3> QED
      BY <3>1, <3>2, <3>3, LocalSerial DEF SerialInv, InLock
  <2>8. ASSUME NEW p \in Procs, Save(p) PROVE SerialInv'
    <3>1. \A q \in Procs \ {p} : pc'[q] = pc[q] /\ pc'[q] \notin InLock
      BY <2>8, Exclusion DEF Save, TypeOK, InLock
    <3>2. pc'[p] = "return" /\ file'.resv = img[p].resv /\ img' = img
      BY <2>8 DEF Save, TypeOK
    <3>3. file.resv \subseteq img[p].resv
      BY <2>8 DEF Save, SerialInv
    <3>4. holder'[LockFile(p)'] = p
      BY <2>8 DEF Save, SerialInv, InLock, LockFile
    <3>5. GrantsKept'
      BY <2>8, <3>2, <3>3 DEF Save, SerialInv, GrantsKept
    <3> QED
      BY <3>1, <3>2, <3>4, <3>5 DEF SerialInv, InLock
  <2>9. ASSUME NEW p \in Procs, Return(p) PROVE SerialInv'
    <3>1. Answer(p) \subseteq file.resv
      BY <2>9 DEF Return, Answer, SerialInv
    <3>2. granted' \subseteq file.resv
      BY <2>9, <3>1 DEF Return, SerialInv, GrantsKept
    <3> QED
      BY <2>9, <3>2, LeaveSerial DEF Return, InLock
  <2>10. ASSUME NEW p \in Procs, NoSharedPort(p) \/ IOError(p) PROVE SerialInv'
    <3>1. Leave(p) /\ granted' = granted /\ pc[p] \in InLock
      BY <2>10 DEF NoSharedPort, IOError, AtNewName, InLock
    <3> QED
      BY <3>1, LeaveSerial DEF SerialInv, GrantsKept
  <2>11. ASSUME NEW p \in Procs, Crash(p) PROVE SerialInv'
    <3>1. \A q \in Procs \ {p} : pc[q] \in InLock => holder'[LockFile(q)] = q
      BY <2>11, LockAssumption DEF Crash, SerialInv, LockFile, TypeOK, Call
    <3> QED
      BY <2>11, <3>1, ForgetSerial DEF Crash, SerialInv, GrantsKept
  <2>12. CASE UNCHANGED vars
    BY <2>12 DEF vars, SerialInv, GrantsKept, LockFile
  <2> QED
    BY <2>1, <2>2, <2>3, <2>5, <2>6, <2>7, <2>8, <2>9, <2>10, <2>11, <2>12
       DEF Next, Step
<1> QED
  BY <1>1, <1>2, TypeCorrect, PTL DEF Spec

(* If all apps lock one file (one app on the machine, or a lock beside the *)
(* registry instead of beside the app), an answer is never forgotten.      *)
THEOREM OneLockKeepsGrants ==
  ASSUME OneLock
  PROVE  Spec => []GrantsKept
<1>1. SerialInv => GrantsKept
  BY DEF SerialInv
<1> QED
  BY <1>1, SerialInvariant, PTL

(* Under one lock no two answers ever share a number, at any distance in   *)
(* time, and a service is always answered the same number.                 *)
THEOREM OneLockGrantsUnique ==
  ASSUME OneLock
  PROVE  Spec => []GrantsUnique
<1>1. GrantsKept /\ FileUnique => GrantsUnique
  BY DEF GrantsKept, FileUnique, GrantsUnique, Book!Unique
<1> QED
  BY <1>1, OneLockKeepsGrants, FileStaysUnique, PTL

(* Under one lock EnsureApp and EnsureSharedPorts implement the atomic     *)
(* book: the rename of save is the one step that extends it, by entries of *)
(* the caller's app only, and an answer is read from it.                   *)
THEOREM OneLockRefines ==
  ASSUME OneLock
  PROVE  Spec => RefinesReservations
<1>1. Init => Book!Init
  BY DEF Init, EmptyImage, Book!Init
<1>2. TypeOK /\ SerialInv /\ UniqueInv /\ UniqueInv' /\ [Next]_vars
        => [Book!Next]_Book!vars
  <2> SUFFICES ASSUME TypeOK, SerialInv, UniqueInv, UniqueInv', [Next]_vars
               PROVE  Book!Next \/ UNCHANGED <<file.resv, granted>>
    BY DEF Book!vars
  <2>1. ASSUME NEW p \in Procs, Save(p) PROVE Book!Next
    <3>1. file.resv \subseteq file'.resv /\ granted' = granted
      BY <2>1 DEF Save, SerialInv
    <3>2. \A e \in file'.resv \ file.resv : e.app = call[p].app
      BY <2>1 DEF Save, SerialInv
    <3>3. Book!Unique(file'.resv)
      BY DEF UniqueInv, FileUnique
    <3>4. call[p].app \in Apps
      BY DEF TypeOK, Call
    <3> QED
      BY <3>1, <3>2, <3>3, <3>4 DEF Book!Next, Book!Reserve
  <2>2. ASSUME NEW p \in Procs, Return(p) PROVE Book!Next
    <3>1. file' = file /\ granted' = granted \cup Answer(p)
      BY <2>2 DEF Return, Leave, Forget
    <3>2. Answer(p) \subseteq {e \in file.resv : e.app = call[p].app}
      BY <2>2 DEF Return, Answer, SerialInv
    <3>3. call[p].app \in Apps
      BY DEF TypeOK, Call
    <3> QED
      BY <3>1, <3>2, <3>3 DEF Book!Next, Book!Answer
  <2>3. CASE UNCHANGED <<file, granted>>
    BY <2>3
  <2> QED
    BY <2>1, <2>2, <2>3
       DEF Next, Step, Begin, Flock, Load, ReserveBand, ReserveSharedPort, Record,
           KeepReservation, Computed, NoSharedPort, IOError, Leave, Crash, Forget, vars
<1> QED
  BY <1>1, <1>2, TypeCorrect, SerialInvariant, UniqueInvariant, PTL
     DEF Spec, RefinesReservations, Book!Spec
=============================================================================
