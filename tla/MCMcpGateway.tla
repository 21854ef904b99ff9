--------------------------- MODULE MCMcpGateway ---------------------------
(* The MCP gateway: its registry of tools, its sessions and calls, the     *)
(* subscriptions of its filters, code mode and the catalog. These parts    *)
(* are modelled without state in common, so a behaviour moves one of them, *)
(* `part`, and leaves the others in their initial states.                  *)
EXTENDS McpRegistry, McpGateway, TLC

VARIABLE part

McpInit ==
    /\ part \in {"registry", "gateway", "subscriptions", "code_mode", "catalog"}
    /\ RegistryInit /\ GatewayInit /\ SubscriptionsInit /\ CodeModeInit /\ CatalogInit

McpNext ==
    /\ \/ /\ part = "registry" /\ RegistryNext
          /\ UNCHANGED <<gatewayVars, subscriptionVars, codeModeVars, cat>>
       \/ /\ part = "gateway" /\ GatewayNext
          /\ UNCHANGED <<registryVars, subscriptionVars, codeModeVars, cat>>
       \/ /\ part = "subscriptions" /\ SubscriptionsNext
          /\ UNCHANGED <<registryVars, gatewayVars, codeModeVars, cat>>
       \/ /\ part = "code_mode" /\ CodeModeNext
          /\ UNCHANGED <<registryVars, gatewayVars, subscriptionVars, cat>>
       \/ /\ part = "catalog" /\ CatalogNext
          /\ UNCHANGED <<registryVars, gatewayVars, subscriptionVars, codeModeVars>>
    /\ UNCHANGED part

mcpVars == <<part, registryVars, gatewayVars, subscriptionVars, codeModeVars, cat>>

McpSpec == McpInit /\ [][McpNext]_mcpVars

\* Requests, filters and executions are interchangeable, and so are servers,
\* sessions and runtimes; the parts use the same values.
Symmetry == Permutations(GwRequests) \cup Permutations(SessionIds)

(* What tasks of the gateway share is kept: a dynamic server is refreshed  *)
(* by one request at a time and never left locked, a server name has one   *)
(* filter in a runtime, a call is served by the version of the tool that   *)
(* was checked, sessions stay bounded, and the records of an execution are *)
(* complete when its result is built.                                      *)
McpStateKept ==
    RefreshIsExclusive /\ OneFilterPerName /\ CallsAndSessionsKept /\ RecordsComplete

(* What is cut of an answer is what must be: pages cover a listing once    *)
(* and in order, searches show the best, nothing that is denied is shown,  *)
(* and an execution's answer is no shorter than the output limit makes it. *)
McpAnswersWhole == CatalogIsHonest /\ TruncationIsLargest
=============================================================================
