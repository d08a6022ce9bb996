------------------------------- MODULE PortScan -------------------------------
(***************************************************************************)
(* src/internal/ports with its callers in src/cmd: how `docktree up` finds *)
(* the host port of one service of a linked worktree.  Resolve and         *)
(* ResolveAfterBindFailure walk the service's band probe by probe; between *)
(* any two probes, and between the last probe and compose's bind, other    *)
(* programs take and release ports.  A port persisted in .env.worktree is  *)
(* taken over without a probe; a failed bind is retried once.              *)
(***************************************************************************)
EXTENDS Integers

CONSTANTS
  Base, BandWidth,  \* the service's band: BandWidth ports from Base
  Host,             \* the host ports other programs also use
  Persisted         \* ports an earlier .env.worktree may hold

NoPort == 0

Band == Base..(Base + BandWidth - 1)

ASSUME PortAssumption ==
  /\ Base \in Nat \ {0}
  /\ BandWidth \in Nat \ {0}
  /\ Band \subseteq Host
  /\ Host \subseteq Nat \ {0}
  /\ Persisted \subseteq Host

VARIABLES
  free,      \* the ports that can be bound now
  phase,     \* start, scan, resolved, bound, or an error
  fixed,     \* the service is declared fixed in docktree.toml
  start,     \* first port of the scan
  failed,    \* the port compose could not bind, NoPort before the retry
  i,         \* loop counter of resolveFrom
  outcome,   \* the port the service is given
  refused    \* history: ports the current scan passed over

vars == <<free, phase, fixed, start, failed, i, outcome, refused>>

Errors == {"fixedTaken", "exhausted", "outsideBand", "bindError"}

TypeOK ==
  /\ free \subseteq Host
  /\ phase \in {"start", "scan", "resolved", "bound"} \cup Errors
  /\ fixed \in BOOLEAN
  /\ start \in Band \cup {NoPort}
  /\ failed \in Host \cup {NoPort}
  /\ i \in 0..BandWidth
  /\ outcome \in Host \cup {NoPort}
  /\ refused \subseteq Band

Init ==
  /\ free \in SUBSET Host
  /\ phase = "start"
  /\ fixed \in BOOLEAN
  /\ start = NoPort
  /\ failed = NoPort
  /\ i = 0
  /\ outcome = NoPort
  /\ refused = {}

-----------------------------------------------------------------------------
BeginScan(first) ==
  /\ phase' = "scan"
  /\ start' = first
  /\ i' = 0
  /\ outcome' = NoPort
  /\ refused' = {}
  /\ UNCHANGED <<free, fixed>>

(* Resolve: the candidate is the slug's offset into the band.              *)
Resolve(offset) ==
  /\ phase = "start"
  /\ BeginScan(Base + offset)
  /\ UNCHANGED failed

(* resolvePortInputs takes a persisted port over as it is.                 *)
Reuse(port) ==
  /\ phase = "start"
  /\ phase' = "resolved"
  /\ outcome' = port
  /\ UNCHANGED <<free, fixed, start, failed, i, refused>>

(* The k-th port resolveFrom looks at.                                     *)
ScanPort(k) == Base + ((start - Base + k) % BandWidth)

(* Fault: the retry may hand out the port that just failed.                *)
FaultTakesFailed(port) == port \in free

(* The probe, which on a retry skips the port that failed to bind.         *)
Takes(port) == port # failed /\ port \in free

(* Fault: the loop of a fixed service bumps like that of any other.        *)
FaultFixedBumps ==
  /\ phase = "scan" /\ i < BandWidth
  /\ ~Takes(ScanPort(i))
  /\ i' = i + 1
  /\ refused' = refused \cup {ScanPort(i)}
  /\ UNCHANGED <<free, phase, fixed, start, failed, outcome>>

(* Fault: a refused port makes the scan skip the next one.                 *)
FaultSkips ==
  /\ phase = "scan" /\ i < BandWidth
  /\ ~fixed
  /\ ~Takes(ScanPort(i))
  /\ i' = IF i + 2 > BandWidth THEN BandWidth ELSE i + 2
  /\ refused' = refused \cup {ScanPort(i)}
  /\ UNCHANGED <<free, phase, fixed, start, failed, outcome>>

ProbeRefused ==
  /\ phase = "scan" /\ i < BandWidth
  /\ ~fixed
  /\ ~Takes(ScanPort(i))
  /\ i' = i + 1
  /\ refused' = refused \cup {ScanPort(i)}
  /\ UNCHANGED <<free, phase, fixed, start, failed, outcome>>

ProbeTaken ==
  /\ phase = "scan" /\ i < BandWidth
  /\ Takes(ScanPort(i))
  /\ phase' = "resolved"
  /\ outcome' = ScanPort(i)
  /\ UNCHANGED <<free, fixed, start, failed, i, refused>>

(* A fixed service has the one candidate.                                  *)
ProbeFixedTaken ==
  /\ phase = "scan" /\ fixed
  /\ ~Takes(ScanPort(i))
  /\ phase' = "fixedTaken"
  /\ UNCHANGED <<free, fixed, start, failed, i, outcome, refused>>

Exhausted ==
  /\ phase = "scan" /\ i = BandWidth
  /\ phase' = "exhausted"
  /\ UNCHANGED <<free, fixed, start, failed, i, outcome, refused>>

-----------------------------------------------------------------------------
(* compose up binds the port.                                              *)
Bind ==
  /\ phase = "resolved"
  /\ outcome \in free
  /\ free' = free \ {outcome}
  /\ phase' = "bound"
  /\ UNCHANGED <<fixed, start, failed, i, outcome, refused>>

(* compose up could not bind the port and up tries again, once:            *)
(* ResolveAfterBindFailure starts behind the failed port.                  *)
BindFails == phase = "resolved" /\ outcome \notin free

(* Fault: the retry starts behind the failed port without the wrap.        *)
FaultRetryStart == outcome + 1

RetryStart == IF outcome + 1 >= Base + BandWidth THEN Base ELSE outcome + 1

(* Fault: the retry is itself retried.                                      *)
FaultRetryForever ==
  /\ BindFails
  /\ ~fixed
  /\ outcome \in Band
  /\ failed' = outcome
  /\ BeginScan(RetryStart)

Retry ==
  /\ BindFails
  /\ failed = NoPort
  /\ ~fixed
  /\ outcome \in Band
  /\ failed' = outcome
  /\ BeginScan(RetryStart)

(* The retry gives up: the port is fixed, or outside the service's band.   *)
RetryRefused ==
  /\ BindFails
  /\ failed = NoPort
  /\ \/ fixed /\ phase' = "fixedTaken"
     \/ ~fixed /\ outcome \notin Band /\ phase' = "outsideBand"
  /\ UNCHANGED <<free, fixed, start, failed, i, outcome, refused>>

(* The retry's own compose up fails to bind: its error is the command's.   *)
SecondBindFails ==
  /\ BindFails
  /\ failed # NoPort
  /\ phase' = "bindError"
  /\ UNCHANGED <<free, fixed, start, failed, i, outcome, refused>>

(* Other programs take and release ports, not the one the stack has bound. *)
HostChanges(port) ==
  /\ ~(phase = "bound" /\ port = outcome)
  /\ free' = IF port \in free THEN free \ {port} ELSE free \cup {port}
  /\ UNCHANGED <<phase, fixed, start, failed, i, outcome, refused>>

Up ==
  \/ \E offset \in 0..(BandWidth - 1) : Resolve(offset)
  \/ \E port \in Persisted : Reuse(port)
  \/ ProbeRefused \/ ProbeTaken \/ ProbeFixedTaken \/ Exhausted
  \/ Bind \/ Retry \/ RetryRefused \/ SecondBindFails

Next == Up \/ \E port \in Host : HostChanges(port)

Spec == Init /\ [][Next]_vars

(* The command runs on whatever other programs do.                         *)
FairSpec == Spec /\ WF_vars(Up)

-----------------------------------------------------------------------------
Scanned == start # NoPort /\ phase \in {"resolved", "bound", "bindError"}

(* How many ports a walk round the band needs from a to b.                 *)
Distance(a, b) == IF b >= a THEN b - a ELSE b - a + BandWidth

(* A resolved port is the first port of the band, walking up from the      *)
(* candidate and round its end, that the scan did not refuse; on a retry   *)
(* it is not the port that failed (resolveFrom, ResolveAfterBindFailure).  *)
NearestFirst ==
  Scanned =>
    /\ outcome \in Band \ {failed}
    /\ refused = {port \in Band : Distance(start, port) < Distance(start, outcome)}

(* "no free port in band" is only said when every port of the band was     *)
(* refused by a probe of this scan, none of them skipped by the wrap.      *)
ExhaustionIsReal == phase = "exhausted" => refused = Band

(* A fixed service is given its canonical port or the one it had, and is   *)
(* never moved by the scan or by the retry.                                *)
FixedNeverMoves == fixed => refused = {} /\ failed = NoPort /\ (Scanned => outcome = start)

(* One `up` ends: bound or with an error, after at most one retry, though  *)
(* other programs take and release ports for ever.                         *)
UpEnds == <>(phase \in {"bound"} \cup Errors)

(* The inductive form of NearestFirst and ExhaustionIsReal.                *)
ScanInv ==
  /\ phase = "start" => start = NoPort /\ failed = NoPort
  /\ phase \in {"scan", "exhausted"} => start \in Band
  /\ phase = "exhausted" => i = BandWidth
  /\ start \in Band => refused = {ScanPort(k) : k \in 0..(i - 1)}
  /\ start = NoPort => refused = {}
  /\ Scanned => i < BandWidth /\ outcome = ScanPort(i) /\ outcome # failed
  /\ fixed => i = 0 /\ failed = NoPort
=============================================================================
