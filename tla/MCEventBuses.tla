---------------------------- MODULE MCEventBuses -----------------------------
(* A small instance of EventBuses for TLC.                                  *)
EXTENDS EventBuses, TLC

CONSTANTS user, app, endpoint, iam, tenant, apis, tenantLog, o1, a1, m1, m2, m3

(* UserRegistered names neither organization nor application, AppCreated    *)
(* both, EndpointCreated the application only.                              *)
Topics   == (user :> iam) @@ (app :> tenant) @@ (endpoint :> apis)
Orgs     == (user :> None) @@ (app :> o1) @@ (endpoint :> None)
Apps     == (user :> None) @@ (app :> a1) @@ (endpoint :> a1)
AppsTable   == a1 :> o1
Channels    == (iam :> iam) @@ (tenant :> tenant) @@ (apis :> apis)

(* A bridge handler on each topic; one topic has its logger too.            *)
Handlers    == Channels @@ (tenantLog :> tenant)
=============================================================================
