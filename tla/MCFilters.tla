---------------------------- MODULE MCFilters -----------------------------
(* The filters of the HTTP connection manager that keep state of their     *)
(* own, and what observes them: the WebAssembly filters, the filters that  *)
(* admit requests, the access log and the metrics. They have no state in   *)
(* common, so a behaviour moves one of them, `part`, and leaves the others *)
(* in their initial states.                                                *)
EXTENDS WasmFilter, WasmHostCalls, RateLimits, HttpAuthFilters,
        AccessLog, MetricsShards

VARIABLE part

\* Plugins that export all hooks, only those of bodies, only the start, and
\* those of headers with the completion.
MCPlugins == {HookFlags, {"reqBody", "rspBody"}, {"start"}, {"reqHeaders", "rspHeaders", "complete"}}

\* Bucket bounds of histograms: out of order, and with one repeated.
MCBounds == {<<2, 1>>, <<1, 3, 3>>}

pluginVars == <<wasmVars, sdk, sharedVars>>
admissionVars == <<limitVars, authVars, oauthVars>>
observerVars == <<accessLogVars, metricsVars>>

PluginNext ==
    \/ part = "wasm" /\ WasmNext /\ UNCHANGED <<sdk, sharedVars>>
    \/ part = "host_calls" /\ HostCallsNext /\ UNCHANGED <<wasmVars, sharedVars>>
    \/ part = "shared" /\ SharedNext /\ UNCHANGED <<wasmVars, sdk>>

AdmissionNext ==
    \/ part = "limits" /\ LimitsNext /\ UNCHANGED <<authVars, oauthVars>>
    \/ part = "auth" /\ AuthNext /\ UNCHANGED <<limitVars, oauthVars>>
    \/ part = "oauth2" /\ OAuthNext /\ UNCHANGED <<limitVars, authVars>>

ObserverNext ==
    \/ part = "access_log" /\ AccessLogNext /\ UNCHANGED metricsVars
    \/ part = "metrics" /\ MetricsNext /\ UNCHANGED accessLogVars

FiltersInit ==
    /\ part \in {"wasm", "host_calls", "shared", "limits", "auth", "oauth2", "access_log", "metrics"}
    /\ WasmInit /\ HostCallsInit /\ SharedInit
    /\ LimitsInit /\ AuthInit /\ OAuthInit
    /\ AccessLogInit /\ MetricsInit
    /\ part # "metrics" => histogram = NewHistogram(<<1, 2>>)

FiltersNext ==
    /\ \/ PluginNext /\ UNCHANGED <<admissionVars, observerVars>>
       \/ AdmissionNext /\ UNCHANGED <<pluginVars, observerVars>>
       \/ ObserverNext /\ UNCHANGED <<pluginVars, admissionVars>>
    /\ UNCHANGED part

filtersVars == <<part, pluginVars, admissionVars, observerVars>>

FiltersSpec == FiltersInit /\ [][FiltersNext]_filtersVars

\* Transactions are interchangeable, and so are instances, workers and tasks,
\* which are the same values.
Symmetry == Permutations(Txs) \cup Permutations(Instances)

(* WebAssembly plugins: nothing that an instance keeps of a transaction    *)
(* reaches another, and without on_transaction_complete no hook writes the *)
(* message of another; lengths agree with bodies, the SDK reads values     *)
(* whole and batches mutations as it would make them one by one, and no    *)
(* increment of a shared variable is lost.                                 *)
PluginsKept ==
    /\ part = "wasm" => NothingLeaks /\ LengthAgrees
    /\ part = "host_calls" => SdkReadsWhole /\ BatchIsSequence
    /\ part = "shared" => CountsKept

(* What is observed is what happened: complete lines, in order in every    *)
(* sink, gauges that are the active transactions, and cumulative counts    *)
(* that are ranks.                                                         *)
ObservationsKept ==
    /\ part = "access_log" => LinesKept
    /\ part = "metrics" => MetricsAccounted
=============================================================================
