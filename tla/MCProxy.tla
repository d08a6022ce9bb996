-------------------------------- MODULE MCProxy --------------------------------
(***************************************************************************)
(* A shop with two worktrees, and an app that is called proxy.             *)
(***************************************************************************)
EXTENDS Proxy, TLC

CONSTANTS both, one, shop, proxyApp, shopMain, shopAdmin, proxyMain

Owner == shopMain :> shop @@ shopAdmin :> shop @@ proxyMain :> proxyApp
Names == {"web", "web-admin", "minio"}
Words == "web" :> <<"web">> @@ "web-admin" :> <<"web", "admin">> @@ "minio" :> <<"minio">>
Slugs == shopMain :> <<"shop">> @@ shopAdmin :> <<"admin">> @@ proxyMain :> <<"proxy">>
AppNames == shop :> <<"shop">> @@ proxyApp :> <<"proxy">>
LockFiles == shop :> "shop" @@ proxyApp :> "proxy"

With(stateful, web, minio, port) ==
  [shared |-> {"minio"}, stateful |-> stateful,
   expose |-> "web" :> web @@ "web-admin" :> "" @@ "minio" :> minio,
   publishes |-> {"web", "web-admin", "minio"}, port |-> port]

(* A shared service that is exposed, or a stateful one that is declared    *)
(* exposed all the same; the proxies of two apps on different ports.       *)
Exposed == With({}, "", "http", 80)
Stateful == With({"minio"}, "http", "http", 80)
Hidden == With({}, "none", "", 81)
SmallSays ==
  both :> (shop :> Exposed @@ proxyApp :> Exposed)
    @@ one :> (shop :> Stateful @@ proxyApp :> Hidden)
=============================================================================
