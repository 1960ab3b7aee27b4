----------------------------- MODULE NodeClients -----------------------------
(***************************************************************************)
(* A node that accepts chunks and manifests, and a client of its storage   *)
(* service: an export command or the gateway.  Clients do not write to the *)
(* node and share nothing else, so one of them at a time is enough.        *)
(***************************************************************************)
EXTENDS Export, Gateway

VARIABLE client

vars == <<stored, exportVars, gatewayVars, client>>

Init == StoreInit /\ ExportInit /\ GatewayInit /\ client \in {"export", "gateway"}

Next ==
    \/ Sync /\ UNCHANGED <<exportVars, gatewayVars, client>>
    \/ client = "export" /\ ExportNext /\ UNCHANGED <<gatewayVars, client>>
    \/ client = "gateway" /\ GatewayNext /\ UNCHANGED <<exportVars, client>>

Spec == Init /\ [][Next]_vars
=============================================================================
