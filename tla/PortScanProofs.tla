---------------------------- MODULE PortScanProofs ----------------------------
(***************************************************************************)
(* Proofs about PortScan.tla for a band of any width and any behaviour of  *)
(* the other programs on the host.                                         *)
(***************************************************************************)
EXTENDS PortScan, TLAPS

(* The wrap of resolveFrom in terms of the walk: the k-th port lies k      *)
(* ports behind the start, counted round the band.                         *)
LEMMA ScanPortWalk ==
  ASSUME start \in Band, NEW k \in 0..(BandWidth - 1)
  PROVE  /\ ScanPort(k) \in Band
         /\ Distance(start, ScanPort(k)) = k
         /\ ScanPort(k) = IF start + k < Base + BandWidth
                          THEN start + k ELSE start + k - BandWidth
<1> DEFINE a == start - Base + k
<1>1. start \in Int /\ Base \in Nat /\ BandWidth \in Nat \ {0} /\ a \in 0..(2 * BandWidth - 2)
  BY PortAssumption DEF Band
<1>2. a < BandWidth => a % BandWidth = a
  BY <1>1
<1>3. a >= BandWidth => a % BandWidth = a - BandWidth
  BY <1>1
<1>4. ScanPort(k) = Base + (a % BandWidth)
  BY DEF ScanPort
<1>5. ScanPort(k) = IF start + k < Base + BandWidth
                    THEN start + k ELSE start + k - BandWidth
  BY <1>1, <1>2, <1>3, <1>4
<1> QED
  BY <1>1, <1>5 DEF Band, Distance

(* Every port of the band is met on the walk, at its distance.             *)
LEMMA WalkMeetsAll ==
  ASSUME start \in Band, NEW port \in Band
  PROVE  /\ Distance(start, port) \in 0..(BandWidth - 1)
         /\ ScanPort(Distance(start, port)) = port
<1>1. Distance(start, port) \in 0..(BandWidth - 1)
  BY PortAssumption DEF Distance, Band
<1>2. ScanPort(Distance(start, port)) =
        IF start + Distance(start, port) < Base + BandWidth
        THEN start + Distance(start, port)
        ELSE start + Distance(start, port) - BandWidth
  BY <1>1, ScanPortWalk
<1> QED
  BY <1>1, <1>2, PortAssumption DEF Distance, Band

(* The ports refused so far are those nearer to the start than the next.   *)
LEMMA RefusedAreNearer ==
  ASSUME start \in Band, NEW n \in 0..BandWidth
  PROVE  {ScanPort(k) : k \in 0..(n - 1)} = {port \in Band : Distance(start, port) < n}
<1>1. BandWidth \in Nat
  BY PortAssumption
<1>2. ASSUME NEW k \in 0..(n - 1)
      PROVE  ScanPort(k) \in Band /\ Distance(start, ScanPort(k)) < n
  <2>1. k \in 0..(BandWidth - 1) /\ k < n
    BY <1>1
  <2> QED
    BY <2>1, ScanPortWalk
<1>3. ASSUME NEW port \in Band, Distance(start, port) < n
      PROVE  \E k \in 0..(n - 1) : port = ScanPort(k)
  <2>1. Distance(start, port) \in 0..(n - 1) /\ port = ScanPort(Distance(start, port))
    BY <1>3, <1>1, WalkMeetsAll
  <2> QED
    BY <2>1
<1> QED
  BY <1>2, <1>3

-----------------------------------------------------------------------------
(* A scan that begins has a start in the band and has refused nothing.     *)
LEMMA BeginScanInv ==
  ASSUME TypeOK, NEW first \in Band, BeginScan(first), failed' \in Host \cup {NoPort},
         fixed => failed' = NoPort
  PROVE  TypeOK' /\ ScanInv'
<1>1. NoPort \notin Band
  BY PortAssumption DEF Band, NoPort
<1>2. TypeOK'
  BY PortAssumption DEF TypeOK, BeginScan, NoPort
<1>3. start' = first /\ i' = 0 /\ refused' = {} /\ phase' = "scan" /\ fixed' = fixed
  BY DEF BeginScan
<1>4. {ScanPort(k)' : k \in 0..(0 - 1)} = {}
  OBVIOUS
<1> QED
  BY <1>1, <1>2, <1>3, <1>4 DEF ScanInv, Scanned

(* Type correctness together with the loop invariant of resolveFrom.       *)
LEMMA ScanInvariant == Spec => [](TypeOK /\ ScanInv)
<1> USE DEF NoPort
<1>1. Init => TypeOK /\ ScanInv
  BY PortAssumption DEF Init, TypeOK, ScanInv, Scanned, Band
<1>2. TypeOK /\ ScanInv /\ [Next]_vars => TypeOK' /\ ScanInv'
  <2> SUFFICES ASSUME TypeOK, ScanInv, [Next]_vars PROVE TypeOK' /\ ScanInv'
    OBVIOUS
  <2>1. ASSUME NEW offset \in 0..(BandWidth - 1), Resolve(offset) PROVE TypeOK' /\ ScanInv'
    <3>1. Base + offset \in Band
      BY PortAssumption DEF Band
    <3> QED
      BY <2>1, <3>1, BeginScanInv DEF Resolve, TypeOK, ScanInv
  <2>2. ASSUME NEW port \in Persisted, Reuse(port) PROVE TypeOK' /\ ScanInv'
    <3>1. start = NoPort /\ NoPort \notin Band /\ port \in Host
      BY <2>2, PortAssumption DEF Reuse, ScanInv, Band
    <3> QED
      BY <2>2, <3>1 DEF Reuse, TypeOK, ScanInv, Scanned
  <2>3. CASE ProbeRefused
    <3>1. start \in Band /\ i \in 0..(BandWidth - 1)
      BY <2>3, PortAssumption DEF ProbeRefused, ScanInv, TypeOK
    <3>2. ScanPort(i) \in Band
      BY <3>1, ScanPortWalk
    <3>3. TypeOK'
      <4>1. i' \in 0..BandWidth
        BY <2>3, <3>1, PortAssumption DEF ProbeRefused
      <4>2. refused' \subseteq Band
        BY <2>3, <3>2 DEF ProbeRefused, TypeOK
      <4> QED
        BY <2>3, <4>1, <4>2 DEF ProbeRefused, TypeOK
    <3>4. 0..(i' - 1) = 0..(i - 1) \cup {i}
      BY <2>3, <3>1, PortAssumption DEF ProbeRefused
    <3>5. refused' = {ScanPort(k) : k \in 0..(i' - 1)}
      BY <2>3, <3>1, <3>4 DEF ProbeRefused, ScanInv
    <3> QED
      BY <2>3, <3>1, <3>3, <3>5, PortAssumption
         DEF ProbeRefused, ScanInv, Scanned, ScanPort, Band
  <2>4. CASE ProbeTaken
    <3>1. start \in Band /\ i \in 0..(BandWidth - 1)
      BY <2>4, PortAssumption DEF ProbeTaken, ScanInv, TypeOK
    <3>2. ScanPort(i) \in Host
      BY <3>1, ScanPortWalk, PortAssumption
    <3> QED
      BY <2>4, <3>1, <3>2, PortAssumption
         DEF ProbeTaken, Takes, TypeOK, ScanInv, Scanned, ScanPort
  <2>5. CASE ProbeFixedTaken
    BY <2>5 DEF ProbeFixedTaken, TypeOK, ScanInv, Scanned, ScanPort, Errors
  <2>6. CASE Exhausted
    BY <2>6 DEF Exhausted, TypeOK, ScanInv, Scanned, ScanPort, Errors
  <2>7. CASE Bind
    BY <2>7 DEF Bind, TypeOK, ScanInv, Scanned, ScanPort
  <2>8. CASE Retry
    <3>1. RetryStart \in Band
      BY <2>8, PortAssumption DEF Retry, RetryStart, Band
    <3>2. outcome \in Host
      BY <2>8, PortAssumption DEF Retry
    <3> QED
      BY <2>8, <3>1, <3>2, BeginScanInv DEF Retry
  <2>9. CASE RetryRefused
    BY <2>9 DEF RetryRefused, TypeOK, ScanInv, Scanned, ScanPort, Errors
  <2>10. CASE SecondBindFails
    BY <2>10 DEF SecondBindFails, BindFails, TypeOK, ScanInv, Scanned, ScanPort, Errors
  <2>11. ASSUME NEW port \in Host, HostChanges(port) PROVE TypeOK' /\ ScanInv'
    BY <2>11 DEF HostChanges, TypeOK, ScanInv, Scanned, ScanPort
  <2>12. CASE UNCHANGED vars
    BY <2>12 DEF vars, TypeOK, ScanInv, Scanned, ScanPort
  <2> QED
    BY <2>1, <2>2, <2>3, <2>4, <2>5, <2>6, <2>7, <2>8, <2>9, <2>10, <2>11, <2>12
       DEF Next, Up
<1> QED
  BY <1>1, <1>2, PTL DEF Spec

(* However wide the band and however the host changes under the scan, the  *)
(* port given is the nearest one round the band that no probe refused, and *)
(* a retry never gives the failed port again.                              *)
THEOREM NearestFirstAlways == Spec => []NearestFirst
<1>1. TypeOK /\ ScanInv => NearestFirst
  <2> SUFFICES ASSUME TypeOK, ScanInv, Scanned
               PROVE  /\ outcome \in Band \ {failed}
                      /\ refused = {port \in Band : Distance(start, port) < Distance(start, outcome)}
    BY DEF NearestFirst
  <2>1. start \in Band /\ i \in 0..(BandWidth - 1) /\ i \in 0..BandWidth
    BY PortAssumption DEF Scanned, TypeOK, ScanInv
  <2>2. outcome \in Band /\ Distance(start, outcome) = i
    BY <2>1, ScanPortWalk DEF ScanInv
  <2>3. refused = {port \in Band : Distance(start, port) < i}
    BY <2>1, RefusedAreNearer DEF ScanInv
  <2> QED
    BY <2>2, <2>3 DEF ScanInv
<1> QED
  BY <1>1, ScanInvariant, PTL

(* The wrap reaches every port: the error of an exhausted band is only     *)
(* returned when each of its ports has been refused.                       *)
THEOREM ExhaustionAlwaysReal == Spec => []ExhaustionIsReal
<1>1. TypeOK /\ ScanInv => ExhaustionIsReal
  <2> SUFFICES ASSUME TypeOK, ScanInv, phase = "exhausted" PROVE refused = Band
    BY DEF ExhaustionIsReal
  <2>1. start \in Band /\ i = BandWidth /\ i \in 0..BandWidth
    BY DEF TypeOK, ScanInv
  <2>2. refused = {port \in Band : Distance(start, port) < BandWidth}
    BY <2>1, RefusedAreNearer DEF ScanInv
  <2>3. \A port \in Band : Distance(start, port) < BandWidth
    BY <2>1, WalkMeetsAll, PortAssumption
  <2> QED
    BY <2>2, <2>3
<1> QED
  BY <1>1, ScanInvariant, PTL

(* A fixed service is never bumped, on the first attempt or after a failed *)
(* bind: it gets its one candidate, or an error.                           *)
THEOREM FixedAlwaysStays == Spec => []FixedNeverMoves
<1>1. TypeOK /\ ScanInv => FixedNeverMoves
  <2> SUFFICES ASSUME TypeOK, ScanInv, fixed
               PROVE  refused = {} /\ failed = NoPort /\ (Scanned => outcome = start)
    BY DEF FixedNeverMoves
  <2>1. i = 0 /\ failed = NoPort
    BY DEF ScanInv
  <2>2. {ScanPort(k) : k \in 0..(0 - 1)} = {}
    OBVIOUS
  <2>3. refused = {}
    BY <2>1, <2>2 DEF TypeOK, ScanInv
  <2>4. ASSUME Scanned PROVE outcome = start
    <3>1. start \in Band /\ 0 \in 0..(BandWidth - 1)
      BY <2>4, PortAssumption DEF Scanned, TypeOK
    <3>2. ScanPort(0) = start
      BY <3>1, ScanPortWalk, PortAssumption DEF Band
    <3> QED
      BY <2>1, <2>4, <3>2 DEF ScanInv
  <2> QED
    BY <2>1, <2>3, <2>4
<1> QED
  BY <1>1, ScanInvariant, PTL

(* Ports stay in the band or on the host, the loop counter within the      *)
(* band's width, and what was refused was a port of the band.              *)
THEOREM TypeCorrect == Spec => []TypeOK
BY ScanInvariant, PTL
=============================================================================
