---------------------------- MODULE MCSystemConfig ----------------------------
(* A project's layer under the user's; a service with one key, which commands *)
(* associate and set, and which is received with another template.           *)
EXTENDS SystemConfig, TLC

CONSTANTS svc, k1, t1, t2

MCLayers == <<"project", "user">>
SetByUser == {<<<<AssocKey, svc>>, t1>>, <<<<svc, k1>>, t1>>}
ReceivedItems == {<<<<svc, k1>>, t2>>}
=============================================================================
