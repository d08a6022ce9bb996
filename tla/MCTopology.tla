-------------------------------- MODULE MCTopology --------------------------------
(***************************************************************************)
(* A web service and three shared ones.                                    *)
(***************************************************************************)
EXTENDS Topology, TLC

CONSTANTS main, feature

Names == {"web", "cache", "db", "search"}
Order == "cache" :> 1 @@ "db" :> 2 @@ "search" :> 3 @@ "web" :> 4
Shared == {"cache", "db", "search"}

(* What the shared services listen on, and what web depends on; search     *)
(* requires the cache.                                                     *)
With(cache, db, search, requires, wants, isolated) ==
  [shared |-> Shared, forkable |-> Shared, isolated |-> isolated,
   ports |-> "cache" :> cache @@ "db" :> db @@ "search" :> search @@ "web" :> {},
   requires |-> "web" :> requires @@ "search" :> {"cache"} @@ "cache" :> {} @@ "db" :> {},
   wants |-> [s \in Names |-> IF s = "web" THEN wants ELSE {}]]

(* Three that share one ambassador; three that collide in a chain, so that *)
(* the last one joins the first; one that is isolated by default; one that *)
(* cannot be forwarded.                                                    *)
SmallApps ==
  {With({1}, {2}, {3}, {"cache"}, {"db"}, {}),
   With({1}, {1, 2}, {2}, {"db", "search"}, {"cache"}, {}),
   With({1, 3}, {2}, {3}, {"search"}, {"cache"}, {"search"}),
   With({1}, {}, {2}, {}, {"db"}, {})}
=============================================================================
