------------------------ MODULE MCCachedCodeRegistry ------------------------
(* A record type "rec" whose factory uses the service "field" and the         *)
(* primitive "str"; "attr" is an attribute that is the same object as "str". *)
EXTENDS CachedCodeRegistry

MCPiece  == {"rec", "field", "str", "attr"}
MCUses   == [x \in MCPiece |-> CASE x = "rec"   -> <<"field", "str">>
                                 [] x = "field" -> <<"str">>
                                 [] OTHER       -> <<>>]
MCObject == {"record type", "made service", "string type"}
MCResult == [x \in MCPiece |-> CASE x = "rec"   -> "record type"
                                 [] x = "field" -> "made service"
                                 [] OTHER       -> "string type"]
=============================================================================
