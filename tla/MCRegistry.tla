------------------------------- MODULE MCRegistry -------------------------------
(***************************************************************************)
(* Small instances of Registry.tla for TLC.                                *)
(***************************************************************************)
EXTENDS Registry, FiniteSets, TLC

CONSTANTS shop, crm, sharedLock, shopLock, crmLock, p1, p2

(* defaultWorktreeServiceBands and resolvePortInputs: the names of a seed  *)
(* prefer consecutive bands from BandStart.                                *)
Seed(names) ==
  [i \in DOMAIN names |-> [name |-> names[i], want |-> BandBase(i - 1)]]

(* A two-service config, the same with the first service removed, and one  *)
(* that publishes nothing.                                                 *)
Seeds == {Seed(<<"api", "web">>), Seed(<<"web">>), <<>>}
Canonicals == {<<[name |-> "api", want |-> 5], [name |-> "web", want |-> 7]>>}

(* One lock file per app, and two app names LockPath sanitises alike.      *)
PerAppLocks == shop :> shopLock @@ crm :> crmLock
SameLock == shop :> sharedLock @@ crm :> sharedLock

ProcSymmetry == Permutations({p1, p2})
=============================================================================
