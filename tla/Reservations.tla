------------------------------ MODULE Reservations ------------------------------
(***************************************************************************)
(* What the registry of docktree promises to its callers, with no lock, no *)
(* file and no process in sight: a machine-global book of reservations     *)
(* that is only ever extended, one app at a time, in one indivisible step, *)
(* and calls that answer with entries of that book.  Registry.tla is the   *)
(* program; its theorem RefinesReservations says when the program keeps    *)
(* this promise.                                                           *)
(***************************************************************************)

CONSTANTS
  Apps,       \* the app names of docktree.toml
  Entry       \* all reservations [app, kind, name, port]

VARIABLES
  book,       \* the reservations made so far
  granted     \* the reservations some call has answered with

vars == <<book, granted>>

(* Two different reservations of one kind never hold the same number, and  *)
(* a service of an app holds one number of each kind.                      *)
Unique(resv) ==
  \A e, f \in resv :
    e.kind = f.kind =>
      /\ e.port = f.port => e = f
      /\ (e.app = f.app /\ e.name = f.name) => e = f

Init ==
  /\ book = {}
  /\ granted = {}

(* The missing reservations of one app are made, nothing else changes.     *)
Reserve(app) ==
  /\ book \subseteq book'
  /\ \A e \in book' \ book : e.app = app
  /\ Unique(book')
  /\ UNCHANGED granted

(* A call answers with reservations of its app that are in the book.       *)
Answer(app) ==
  /\ granted \subseteq granted'
  /\ granted' \ granted \subseteq {e \in book : e.app = app}
  /\ UNCHANGED book

Next == \E app \in Apps : Reserve(app) \/ Answer(app)

Spec == Init /\ [][Next]_vars
=============================================================================
