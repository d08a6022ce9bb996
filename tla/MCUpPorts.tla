------------------------------- MODULE MCUpPorts -------------------------------
(***************************************************************************)
(* Two services with bands of two ports, and a default outside the bands.  *)
(***************************************************************************)
EXTENDS UpPorts, TLC

CONSTANTS main, feature

Names == {"api", "web"}
Bands == "api" :> 20 @@ "web" :> 22
Offsets == main :> 0 @@ feature :> 1
Input(s, e, default) == [service |-> s, token |-> [env |-> e, default |-> default]]

(* A default outside the bands; a fixed service and a default in its band; *)
(* a service that publishes two ports.                                     *)
SmallApps ==
  {[inputs |-> <<Input("api", "API", 0), Input("web", "WEB", 30)>>, fixed |-> {}],
   [inputs |-> <<Input("api", "API", 0), Input("web", "WEB", 23)>>, fixed |-> {"api"}],
   [inputs |-> <<Input("web", "WEB", 30), Input("web", "DEBUG", 0)>>, fixed |-> {}]}
=============================================================================
