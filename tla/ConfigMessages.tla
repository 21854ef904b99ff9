--------------------------- MODULE ConfigMessages ---------------------------
(***************************************************************************)
(* The vocabulary in which the conversions of arion-configuration are      *)
(* written down.  `TryFrom<EnvoyX> for X` destructures a message of the    *)
(* control plane exhaustively and looks at its fields in a fixed order;    *)
(* the first field it cannot represent ends the conversion with an error.  *)
(* Each conversion is the sequence of the checks its code makes.  A check  *)
(* is the kind of test, the field (or fields) it is about and the messages *)
(* it descends into.                                                       *)
(***************************************************************************)
EXTENDS Sequences

\* One check: its kind, the field, the messages it converts.
Check(kind, field, messages) == [kind |-> kind, field |-> field, into |-> messages]

\* unsupported_field!(f, ...): each of the fields must be unused (IsUsed).
Unsupported(field) == Check("unsupported", field, {})

\* required!(f): the field must be used.
Required(field) == Check("required", field, {})

\* A scalar whose conversion may fail: a range, an enum, a parse.
Value(field) == Check("value", field, {})

\* An optional message: absent, or converted.
Optional(field, m) == Check("optional", field, {m})

\* convert_opt!(f): the message must be there and is converted.
Convert(field, m) == Check("convert", field, {m})

\* convert_vec!(f): every element is converted.
ConvertVec(field, m) == Check("vec", field, {m})

\* convert_non_empty_vec!(f): at least one element, every one converted.
ConvertNonEmptyVec(field, m) == Check("nonempty", field, {m})

\* A required oneof or Any: the known variants `ms` are converted (the leaf
\* variants are in "leaf"), every other variant is refused.
OneOf(field, ms) == Check("oneof", field, ms)

\* The same when the field may be left out.
OptionalOneOf(field, ms) == Check("optional_oneof", field, ms)

\* The child is converted, but an error in it is turned into an absent value.
Lenient(field, m) == Check("lenient", field, {m})

\* A variant the code has no conversion for: `todo!()`.
Todo(field) == Check("todo", field, {})

\* A rule that relates several fields.
Rule(name) == Check("rule", name, {})

\* A field, or an element of a list, the code accepts and drops without an
\* error: matched by `..`, filtered out, or only logged.
Dropped(field) == Check("dropped", field, {})

-----------------------------------------------------------------------------
(***************************************************************************)
(* What arion-configuration accepts of a cluster: the conversions of       *)
(* config/cluster.rs, config/cluster/, config/transport.rs, secret.rs and  *)
(* core.rs.  `FromX` is the conversion of the message X.                   *)
(***************************************************************************)

FromDuration == << Value("seconds"), Value("nanos") >>

FromHttpUri ==
    << Optional("timeout", "Duration"), Required("timeout"), OneOf("http_upstream_type", {"leaf"}) >>

FromStatusCode == << Value("code") >>

FromCidrRange == << Value("address_prefix"), Value("prefix_len"), Rule("prefix fits the family") >>

FromAddress == << OneOf("address", {"SocketAddress", "Pipe", "InternalAddress"}) >>

FromPipe == << >>

FromSocketAddress ==
    << Unsupported("protocol, resolver_name, ipv4_compat, network_namespace_filepath"),
       Required("address"), OneOf("port_specifier", {"leaf"}), Value("port_specifier") >>

FromInternalAddress == << OneOf("address_name_specifier", {"leaf"}) >>

\* Address::into_socket_addr: what can be bound or dialled directly.
IntoSocketAddr == << OneOf("address", {"leaf"}), Value("ip address") >>

FromDataSource == << Unsupported("watched_directory"), OneOf("specifier", {"leaf"}) >>

FromStringMatcher == << Convert("match_pattern", "StringMatcherPattern") >>

\* Custom is refused.
FromStringMatcherPattern == << OneOf("match_pattern", {"leaf", "RegexMatcher"}) >>

FromRegexMatcher == << Unsupported("engine_type"), Value("regex") >>

-----------------------------------------------------------------------------
(* config/transport.rs *)

FromBindDevice == << Value("interface name"), Rule("at most 15 bytes") >>

FromSocketOption ==
    << Unsupported("state, type, ip_version"), Dropped("description"),
       Rule("level and name are those of SO_BINDTODEVICE"), OneOf("value", {"BindDevice"}) >>

FromTlsParameters ==
    << Unsupported("cipher_suites, ecdh_curves, signature_algorithms, compliance_policies"),
       Value("tls_minimum_protocol_version"), Value("tls_maximum_protocol_version"),
       Rule("the minimum is not above the maximum") >>

FromCommonTlsContext ==
    << Unsupported("alpn_protocols, custom_handshaker, key_log, certificate providers"),
       Optional("tls_params", "TlsParameters"), ConvertVec("tls_certificates", "TlsCertificate"),
       ConvertVec("tls_certificate_sds_secret_configs", "SdsConfig"),
       Rule("certificates or sds secrets, not both"),
       Optional("validation_context_type", "ValidationContextType") >>

FromSdsConfig == << Required("name"), Unsupported("sds_config") >>

\* CombinedValidationContext and the provider variants are refused.
FromValidationContextType == << OneOf("validation_context_type", {"ValidationContext", "SdsConfig"}) >>

\* The Any of a transport socket: an unknown type url, or bytes that do not
\* decode, are errors.
FromTransportSocketAny ==
    << OneOf("typed_config", {"leaf"}) >>

FromProxyProtocolUpstream ==
    << Unsupported("allow_unspecified_address, tlv_as_pool_key"), Required("config"), Value("version"),
       Optional("pass_through_tlvs", "PassTlvs"), ConvertVec("added_tlvs", "TlvEntry"),
       OptionalOneOf("transport_socket", {"UpstreamTlsContext", "leaf"}) >>

FromPassTlvs == << Value("match_type"), Value("tlv_type") >>

FromTlvEntry == << Unsupported("format_string"), Value("type") >>

-----------------------------------------------------------------------------
(* config/secret.rs *)

FromSecret == << Required("name"), Convert("type", "SecretType") >>

\* GenericSecret and SessionTicketKeys are refused.
FromSecretType == << OneOf("type", {"TlsCertificate", "ValidationContext"}) >>

FromTlsCertificate ==
    << Unsupported("pkcs12, watched_directory, private_key_provider, password, ocsp_staple, signed_certificate_timestamp"),
       Convert("certificate_chain", "DataSource"), Convert("private_key", "DataSource") >>

FromValidationContext ==
    << Unsupported("watched_directory, verify_certificate_spki, match_subject_alt_names, crl and seven more"),
       Convert("trusted_ca", "DataSource"), Value("trust_chain_verification") >>

-----------------------------------------------------------------------------
(* config/cluster.rs *)

\* The second half of the conversion: the soft rules on the health checker,
\* then the timers and the thresholds.
FromClusterSettings ==
    << Rule("at most one set of http protocol options"), Rule("at most one health check"),
       Optional("health_checks", "HealthCheck"), Rule("the cluster's name is a host name if http_health_check has none"),
       Rule("health check and cluster use the same http version"), Rule("a gRPC check needs HTTP/2"),
       Optional("connect_timeout", "Duration"), Optional("cleanup_interval", "Duration"),
       Optional("circuit_breakers", "CircuitBreakers") >>

\* Where the endpoints come from and how they are reached and balanced.
\* `lb_policy` is not looked at when `load_balancing_policy` is there.
FromClusterEndpoints ==
    << Convert("cluster_discovery_type", "DiscoveryType"), Rule("ORIGINAL_DST uses CLUSTER_PROVIDED"),
       Optional("load_assignment", "ClusterLoadAssignment"), Rule("discovery type and load assignment agree"),
       Optional("upstream_bind_config", "UpstreamBindConfig"), Optional("transport_socket", "TransportSocket"),
       OneOf("load_balancing_policy", {"LoadBalancingPolicy", "LbPolicy"}),
       ConvertVec("typed_extension_protocol_options", "HttpProtocolOptionsAny") >>

\* The other balancer configurations are unsupported fields.
FromCluster ==
    << Required("name"), Unsupported("transport_socket_matches, alt_stat_name, eds_cluster_config and the rest"),
       OptionalOneOf("lb_config", {"OriginalDstLbConfig"}) >> \o FromClusterEndpoints \o FromClusterSettings

FromOriginalDstLbConfig ==
    << Rule("use_http_header or metadata_key, not both"), Value("http_header_name"),
       Dropped("metadata_key.path segments without a key"), Value("upstream_port_override") >>

FromClusterLoadAssignment ==
    << Unsupported("named_endpoints, policy"), ConvertNonEmptyVec("endpoints", "LocalityLbEndpoints"),
       Rule("priorities are contiguous from 0") >>

FromLocalityLbEndpoints ==
    << Unsupported("locality, load_balancing_weight, proximity, metadata, lb_config"),
       ConvertNonEmptyVec("lb_endpoints", "LbEndpoint"), Rule("the weights add up to a u32") >>

FromHealthStatus == << Value("health_status") >>

FromLbEndpoint ==
    << Unsupported("metadata"), OneOf("host_identifier", {"Endpoint"}), Value("load_balancing_weight"),
       Convert("health_status", "HealthStatus") >>

FromEndpoint ==
    << Unsupported("health_check_config, hostname, additional_addresses"), Convert("address", "Address") >>

\* A custom cluster type and an unknown number are refused.
FromDiscoveryType == << OneOf("cluster_discovery_type", {"leaf"}), Value("type") >>

FromUpstreamBindConfig ==
    << Unsupported("source_address, freebind, extra_source_addresses, additional_source_addresses, local_address_selector"),
       ConvertVec("socket_options", "SocketOption"), Rule("at most one bind device") >>

FromTransportSocket == << Required("name"), OneOf("config_type", {"UpstreamTransportSocketAny"}) >>

\* A downstream TLS context is refused on a cluster.
FromUpstreamTransportSocketAny ==
    << Convert("typed_config", "TransportSocketAny"), OneOf("socket", {"UpstreamTlsContext", "ProxyProtocolUpstream", "leaf"}) >>

FromUpstreamTlsContext ==
    << Unsupported("allow_renegotiation, max_session_keys, enforce_rsa_key_usage, auto_host_sni, auto_sni_san_validation"),
       Convert("common_tls_context", "CommonTlsContext"), Rule("at most one certificate"), Required("sni") >>

FromOverrideHostSource ==
    << Rule("header or metadata, not both"), Unsupported("metadata"), Required("header"), Value("header") >>

\* Of the fallback policy only the kind is kept: its own settings, refused
\* where the policy stands alone, are dropped.
FromOverrideHost ==
    << ConvertVec("override_host_sources", "OverrideHostSource"), Rule("exactly one source"),
       Required("fallback_policy"), Dropped("fallback_policy's settings"), Rule("the fallback is a standard policy") >>

FromStandardLbPolicy == << Rule("not LOAD_BALANCING_POLICY_CONFIG") >>

FromLbPolicy == << Value("lb_policy") >> \o FromStandardLbPolicy

FromLbPolicyAny == << OneOf("typed_config", {"StandardPolicySettings", "OverrideHost"}) >>

\* The settings of the five standard policies: those destructured are
\* unsupported, the others are matched by `..`.
FromStandardPolicySettings ==
    << Unsupported("slow_start_config, locality_lb_config, ring sizes, table_size and the like"),
       Dropped("the fields matched by ..") >>

FromLoadBalancingPolicy ==
    << Rule("exactly one policy"), Required("typed_extension_config.typed_config"), Convert("typed_config", "LbPolicyAny") >>

FromCircuitBreakers == << Unsupported("per_host_thresholds"), ConvertVec("thresholds", "Thresholds") >>

FromThresholds ==
    << Unsupported("max_pending_requests, retry_budget, max_connection_pools"), Convert("priority", "RoutingPriority") >>

FromRoutingPriority == << Value("priority") >>

-----------------------------------------------------------------------------
(* config/cluster/health_check.rs, http_protocol_options.rs and             *)
(* cluster_specifier.rs                                                     *)

FromHealthCheck ==
    << Unsupported("alt_port, reuse_connection, no_traffic intervals, event loggers, tls_options and the like"),
       Convert("timeout", "Duration"), Convert("interval", "Duration"), Optional("initial_jitter", "Duration"),
       Optional("interval_jitter", "Duration"), Value("interval_jitter_percent"), Required("unhealthy_threshold"),
       Value("unhealthy_threshold"), Required("healthy_threshold"), Value("healthy_threshold"),
       Optional("unhealthy_interval", "Duration"), Optional("unhealthy_edge_interval", "Duration"),
       Optional("healthy_edge_interval", "Duration"), Convert("health_checker", "HealthChecker") >>

\* CustomHealthCheck is refused.
FromHealthChecker == << OneOf("health_checker", {"HttpHealthCheck", "TcpHealthCheck", "GrpcHealthCheck"}) >>

FromGrpcHealthCheck == << Unsupported("authority, initial_metadata") >>

FromStatusRange == << Rule("start is below end"), Rule("within 100 to 599") >>

FromHttpHealthCheck ==
    << Unsupported("send, receive, response_buffer_size, request header mutations, service_name_matcher"),
       Value("method"), Value("codec_client_type"), Value("host"), ConvertVec("expected_statuses", "StatusRange"),
       ConvertVec("retriable_statuses", "StatusRange"), Value("path") >>

FromPayload == << Rule("text has an even number of bytes"), Value("text, as pairs of hex digits") >>

\* A payload without a value is left out of the list.
FromTcpHealthCheck ==
    << Unsupported("proxy_protocol_config"), Optional("send", "Payload"), ConvertVec("receive", "Payload"),
       Dropped("payloads without a value") >>

FromHttpProtocolOptionsAny == << OneOf("typed_config", {"UpstreamHttpOptions"}) >>

FromCommonHttpOptions ==
    << Unsupported("max_connection_duration, max_headers_count, max_stream_duration and three more"),
       Optional("idle_timeout", "Duration") >>

FromUpstreamHttpOptions ==
    << Unsupported("upstream_http_protocol_options, http_filters, outlier_detection, retry_policy and three more"),
       Optional("upstream_protocol_options", "UpstreamProtocolOptions"),
       Optional("common_http_protocol_options", "CommonHttpOptions") >>

\* Only an explicit configuration: AutoConfig and UseDownstream are refused.
FromUpstreamProtocolOptions == << OneOf("upstream_protocol_options", {"ExplicitHttpConfig"}) >>

FromExplicitHttpConfig == << OneOf("protocol_config", {"Http1ProtocolOptions", "Http2ProtocolOptions"}) >>

FromHttp1ProtocolOptions ==
    << Unsupported("allow_absolute_url, accept_http_10, header_key_format and seven more") >>

FromHttp2ProtocolOptions ==
    << Unsupported("hpack_table_size, allow_connect, frame limits, custom_settings_parameters and others"),
       Value("initial_stream_window_size"), Value("initial_connection_window_size"),
       Optional("connection_keepalive", "KeepaliveSettings") >>

FromKeepaliveSettings ==
    << Unsupported("interval_jitter, connection_idle_interval"), Convert("interval", "Duration"), Optional("timeout", "Duration") >>

FromWeightedCluster ==
    << Unsupported("total_weight, runtime_key_prefix, random_value_specifier"), ConvertNonEmptyVec("clusters", "ClusterWeight"),
       Rule("the weights add up to a u32 above 0") >>

\* A cluster's name, weighted clusters or the name of a header; the two
\* plugin variants are refused.
FromClusterSpecifier ==
    << OneOf("cluster_specifier", {"WeightedCluster", "leaf"}), Required("cluster or header name"), Value("header name") >>

FromClusterWeight ==
    << Unsupported("cluster_header, metadata_match, header mutations, typed_per_filter_config, host_rewrite"),
       Required("name"), Required("weight"), Value("weight") >>

FromTcpClusterSpecifier == << OneOf("cluster_specifier", {"leaf", "TcpWeightedCluster"}) >>

FromTcpWeightedCluster == << ConvertNonEmptyVec("clusters", "TcpClusterWeight"), Rule("the weights add up to a u32") >>

FromTcpClusterWeight == << Unsupported("metadata_match"), Required("name"), Value("weight") >>

-----------------------------------------------------------------------------
\* The conversions by the name of their message.
ClusterMessages ==
    [ Duration |-> FromDuration, HttpUri |-> FromHttpUri, StatusCode |-> FromStatusCode, CidrRange |-> FromCidrRange,
      Address |-> FromAddress, Pipe |-> FromPipe, SocketAddress |-> FromSocketAddress,
      InternalAddress |-> FromInternalAddress, DataSource |-> FromDataSource, StringMatcher |-> FromStringMatcher,
      StringMatcherPattern |-> FromStringMatcherPattern, RegexMatcher |-> FromRegexMatcher,
      BindDevice |-> FromBindDevice, SocketOption |-> FromSocketOption, TlsParameters |-> FromTlsParameters,
      CommonTlsContext |-> FromCommonTlsContext, SdsConfig |-> FromSdsConfig,
      ValidationContextType |-> FromValidationContextType, TransportSocketAny |-> FromTransportSocketAny,
      ProxyProtocolUpstream |-> FromProxyProtocolUpstream, PassTlvs |-> FromPassTlvs, TlvEntry |-> FromTlvEntry,
      Secret |-> FromSecret, SecretType |-> FromSecretType, TlsCertificate |-> FromTlsCertificate,
      ValidationContext |-> FromValidationContext,
      Cluster |-> FromCluster,
      OriginalDstLbConfig |-> FromOriginalDstLbConfig, ClusterLoadAssignment |-> FromClusterLoadAssignment,
      LocalityLbEndpoints |-> FromLocalityLbEndpoints, HealthStatus |-> FromHealthStatus,
      LbEndpoint |-> FromLbEndpoint, Endpoint |-> FromEndpoint, DiscoveryType |-> FromDiscoveryType,
      UpstreamBindConfig |-> FromUpstreamBindConfig, TransportSocket |-> FromTransportSocket,
      UpstreamTransportSocketAny |-> FromUpstreamTransportSocketAny, UpstreamTlsContext |-> FromUpstreamTlsContext,
      OverrideHostSource |-> FromOverrideHostSource, OverrideHost |-> FromOverrideHost,
      LbPolicy |-> FromLbPolicy, LbPolicyAny |-> FromLbPolicyAny,
      StandardPolicySettings |-> FromStandardPolicySettings, LoadBalancingPolicy |-> FromLoadBalancingPolicy,
      CircuitBreakers |-> FromCircuitBreakers, Thresholds |-> FromThresholds,
      RoutingPriority |-> FromRoutingPriority, HealthCheck |-> FromHealthCheck, HealthChecker |-> FromHealthChecker,
      GrpcHealthCheck |-> FromGrpcHealthCheck, StatusRange |-> FromStatusRange,
      HttpHealthCheck |-> FromHttpHealthCheck, Payload |-> FromPayload, TcpHealthCheck |-> FromTcpHealthCheck,
      HttpProtocolOptionsAny |-> FromHttpProtocolOptionsAny, CommonHttpOptions |-> FromCommonHttpOptions,
      UpstreamHttpOptions |-> FromUpstreamHttpOptions, UpstreamProtocolOptions |-> FromUpstreamProtocolOptions,
      ExplicitHttpConfig |-> FromExplicitHttpConfig, Http1ProtocolOptions |-> FromHttp1ProtocolOptions,
      Http2ProtocolOptions |-> FromHttp2ProtocolOptions, KeepaliveSettings |-> FromKeepaliveSettings,
      WeightedCluster |-> FromWeightedCluster, ClusterSpecifier |-> FromClusterSpecifier,
      ClusterWeight |-> FromClusterWeight, TcpClusterSpecifier |-> FromTcpClusterSpecifier,
      TcpWeightedCluster |-> FromTcpWeightedCluster, TcpClusterWeight |-> FromTcpClusterWeight,
      SocketAddr |-> IntoSocketAddr ]

-----------------------------------------------------------------------------
(***************************************************************************)
(* What arion-configuration accepts of a listener and of the bootstrap:    *)
(* config/listener.rs, listener_filters.rs, access_log.rs, bootstrap.rs,   *)
(* grpc.rs, metrics.rs and the network filters other than the HTTP         *)
(* connection manager.                                                     *)
(***************************************************************************)

\* An internal listener has no address: `address` and `socket_options` are
\* then not looked at.  Of two listener filters of a kind the last one stays.
FromListener ==
    << Unsupported("additional_addresses, stat_prefix, use_original_dst, default_filter_chain and the rest"),
       Required("name"), OneOf("listener_specifier", {"ListenerSocket", "leaf"}), ConvertVec("access_log", "AccessLog"),
       ConvertNonEmptyVec("filter_chains", "FilterChain"), Rule("no two filter_chain_match are equal"),
       ConvertVec("listener_filters", "ListenerFilter"), Dropped("all but the last listener filter of a kind"),
       Rule("a global rate limit without a domain needs the TLS inspector") >>

FromListenerSocket ==
    << Convert("address", "Address"), Convert("address", "SocketAddr"), ConvertVec("socket_options", "SocketOption"),
       Rule("at most one bind device") >>

\* The loop over the filters: the terminal filter is the last one and the
\* limits come once.
FilterOrder ==
    << Rule("no rbac or limit after the http connection manager or tcp proxy"),
       Rule("at most one global rate limit and one connection limit"), Rule("exactly one terminal filter") >>

FromFilterChain ==
    << Unsupported("use_proxy_proto, metadata, transport_socket_connect_timeout"), Required("name"),
       Optional("filter_chain_match", "FilterChainMatch"), ConvertNonEmptyVec("filters", "NetworkFilter") >>
    \o FilterOrder \o << Optional("transport_socket", "DownstreamTransportSocket") >>

FromFilterChainMatch ==
    << Unsupported("address_suffix, suffix_len, direct_source_prefix_ranges, source_type, transport_protocol, application_protocols"),
       Value("server_names"), Rule("no server name is a lone *"), Value("destination_port"), Value("source_ports"),
       ConvertVec("prefix_ranges", "CidrRange"), ConvertVec("source_prefix_ranges", "CidrRange") >>

\* ConfigDiscovery is refused.
FromNetworkFilter == << OneOf("config_type", {"NetworkFilterAny"}) >>

FromNetworkFilterAny ==
    << OneOf("typed_config",
             {"HttpConnectionManager", "NetworkRbac", "NetworkGlobalRateLimit", "NetworkConnectionLimit", "TcpProxy"}) >>

\* Only a downstream TLS context or a raw buffer.
FromDownstreamTransportSocket ==
    << Required("name"), Convert("config_type", "TransportSocketAny"), OneOf("socket", {"DownstreamTlsContext", "leaf"}) >>

FromDownstreamTlsContext ==
    << Unsupported("require_sni, session_timeout, ocsp_staple_policy, session_ticket_keys_type and three more"),
       Convert("common_tls_context", "CommonTlsContext") >>

-----------------------------------------------------------------------------
(* config/listener_filters.rs *)

FromListenerFilterAny == << OneOf("typed_config", {"TlsInspector", "ProxyProtocol", "ListenerLocalRateLimit"}) >>

FromListenerFilter ==
    << Unsupported("filter_disabled"), Required("name"), OneOf("config_type", {"ListenerFilterAny"}) >>

FromTlsInspector ==
    << Unsupported("initial_read_buffer_size, enable_ja4_fingerprinting and two more"),
       Rule("enable_ja3_fingerprinting is not true") >>

FromProxyProtocol ==
    << Unsupported("rules, tlv_location"), Value("disallowed_versions"), Optional("pass_through_tlvs", "PassTlvs") >>

\* The fill interval may be zero.
FromListenerLocalRateLimit ==
    << Unsupported("runtime_enabled"), Required("stat_prefix"), Required("token_bucket"), Required("max_tokens"),
       Rule("tokens_per_fill is not zero"), Convert("fill_interval", "Duration") >>

-----------------------------------------------------------------------------
(* config/access_log.rs, grpc.rs and metrics.rs *)

FromAccessLogAny == << OneOf("typed_config", {"SubstitutionFormatString", "leaf"}) >>

FromAccessLogType == << Value("name") >>

FromAccessLog ==
    << Unsupported("filter"), Convert("name", "AccessLogType"), Optional("config_type", "AccessLogAny"),
       Rule("the name and the configuration are of one kind"), Rule("a file logger has a path"),
       Value("format, as a log formatter") >>

FromSubstitutionFormatString ==
    << Unsupported("content_type, formatters, json_format_options"), OptionalOneOf("format", {"DataSource", "leaf"}),
       Rule("a data source can be read and is text") >>

FromGoogleGrpc == << Unsupported("channel_credentials, call_credentials, config, channel_args and four more") >>

\* A service given by the name of a cluster is dropped.
FromGrpcService ==
    << Unsupported("initial_metadata, retry_policy"), OptionalOneOf("target_specifier", {"GoogleGrpc"}),
       Dropped("target_specifier.envoy_grpc"), Optional("timeout", "Duration") >>

FromStatsSinkAny == << OneOf("typed_config", {"SinkConfig"}) >>

FromSinkConfig ==
    << Unsupported("report_counters_as_deltas, emit_tags_as_attributes, resource_detectors and three more"),
       Convert("protocol_specifier", "GrpcService") >>

-----------------------------------------------------------------------------
(* config/network_filters *)

\* Of a RemoveOnMatch matcher only the pattern is kept.
FromEarlyHeaderMutation ==
    << OneOf("action", {"HeaderValueOption", "StringMatcher", "leaf"}), Value("remove"), Dropped("key_matcher.ignore_case") >>

FromEarlyHeaderMutationExtension ==
    << OneOf("typed_config", {"leaf"}), ConvertVec("mutations", "EarlyHeaderMutation") >>

FromNetworkConnectionLimit ==
    << Unsupported("runtime_enabled"), Required("max_connections"), Optional("delay", "Duration") >>

FromNetworkGlobalRateLimit ==
    << Unsupported("timeout"), Required("descriptors"), Required("stat_prefix"),
       Convert("rate_limit_service", "RateLimitServiceConfig") >>

\* The other fields of the two gRPC targets are not looked at.
FromRateLimitServiceConfig ==
    << Required("grpc_service"), Optional("timeout", "Duration"), OneOf("target_specifier", {"leaf"}),
       Dropped("the target's other settings") >>

FromTcpProxy ==
    << Unsupported("on_demand, idle_timeout, max_connect_attempts, hash_policy, tunneling_config and thirteen more"),
       Dropped("stat_prefix"), Convert("cluster_specifier", "TcpClusterSpecifier"), ConvertVec("access_log", "AccessLog") >>

\* The percentages are cast to u16 first: a fraction is cut off and a
\* negative value is zero.
FromTracing ==
    << Value("client_sampling, random_sampling, overall_sampling"), Dropped("the fields matched by .."),
       OptionalOneOf("provider", {"TracingProvider"}) >>

FromTracingProvider ==
    << OneOf("typed_config", {"leaf"}), Unsupported("http_service, resource_detectors, sampler, max_cache_size"),
       Optional("grpc_service", "GrpcService") >>

FromNetworkRbac ==
    << Unsupported("matcher, shadow_rules, shadow_matcher, enforcement_type, delay_deny"), Dropped("stat_prefix"),
       Convert("rules", "Rbac") >>

FromRbac ==
    << Unsupported("audit_logging_options"), Convert("action", "RbacAction"), ConvertNonEmptyVec("policies", "Policy") >>

\* LOG is refused.
FromRbacAction == << Value("action") >>

FromPolicy ==
    << Unsupported("condition, checked_condition, cel_config"), ConvertNonEmptyVec("permissions", "Permission"),
       ConvertNonEmptyVec("principals", "Principal") >>

\* Any, a destination address, port or port range, a server name.
FromPermission ==
    << OneOf("rule", {"CidrRange", "StringMatcher", "leaf"}), Rule("any is true"), Value("port, start below end") >>

FromPrincipal == << OneOf("identifier", {"CidrRange", "leaf"}), Rule("any is true") >>

-----------------------------------------------------------------------------
(* config/bootstrap.rs and config.rs *)

\* A stats sink without a configuration is left out.
FromBootstrap ==
    << Unsupported("cluster_manager, watchdog, tracing, layered_runtime, overload_manager and the rest"),
       Dropped("the fields matched by .."), Convert("static_resources", "StaticResources"),
       Optional("dynamic_resources", "DynamicResources"), Optional("node", "Node"), Optional("admin", "Admin"),
       Optional("stats_flush_interval", "Duration"), Dropped("sinks without a config_type"),
       ConvertVec("stats_sinks", "StatsSinkAny") >>

FromNode ==
    << Unsupported("metadata, locality, user_agent_name, extensions and four more"), Required("id"), Required("cluster") >>

FromDynamicResources ==
    << Unsupported("lds_config, cds_config and their locators"), Required("ads_config"),
       Unsupported("api_type, refresh_delay, request_timeout, rate_limit_settings and four more"),
       ConvertNonEmptyVec("grpc_services", "AdsGrpcService") >>

\* GoogleGrpc is refused.
FromAdsGrpcService ==
    << Unsupported("timeout, initial_metadata, retry_policy"), OneOf("target_specifier", {"leaf"}),
       Unsupported("authority, retry_policy, max_receive_message_length, skip_envoy_headers"), Required("cluster_name") >>

FromStaticResources ==
    << ConvertVec("listeners", "Listener"), ConvertVec("secrets", "Secret"), ConvertVec("clusters", "Cluster") >>

FromAdmin ==
    << Unsupported("access_log, profile_path, socket_options, allow_paths and two more"), Required("address"),
       OneOf("address.address", {"SocketAddress"}) >>

\* Config::new: the file of the options, its bootstrap or its envoy
\* bootstrap, and the override that replaces both once they converted.
NewConfig ==
    << Required("config or bootstrap_override"), Value("the file, as yaml"), Rule("bootstrap or envoy_bootstrap, not both"),
       Optional("envoy_bootstrap", "Bootstrap"), Optional("bootstrap_override", "Bootstrap") >>

-----------------------------------------------------------------------------
\* The conversions by the name of their message.
ListenerMessages ==
    [ Listener |-> FromListener, ListenerSocket |-> FromListenerSocket, FilterChain |-> FromFilterChain,
      FilterChainMatch |-> FromFilterChainMatch, NetworkFilter |-> FromNetworkFilter,
      NetworkFilterAny |-> FromNetworkFilterAny, DownstreamTransportSocket |-> FromDownstreamTransportSocket,
      DownstreamTlsContext |-> FromDownstreamTlsContext, ListenerFilterAny |-> FromListenerFilterAny,
      ListenerFilter |-> FromListenerFilter, TlsInspector |-> FromTlsInspector, ProxyProtocol |-> FromProxyProtocol,
      ListenerLocalRateLimit |-> FromListenerLocalRateLimit, AccessLogAny |-> FromAccessLogAny,
      AccessLogType |-> FromAccessLogType, AccessLog |-> FromAccessLog,
      SubstitutionFormatString |-> FromSubstitutionFormatString, GoogleGrpc |-> FromGoogleGrpc,
      GrpcService |-> FromGrpcService, StatsSinkAny |-> FromStatsSinkAny, SinkConfig |-> FromSinkConfig,
      EarlyHeaderMutation |-> FromEarlyHeaderMutation,
      EarlyHeaderMutationExtension |-> FromEarlyHeaderMutationExtension,
      NetworkConnectionLimit |-> FromNetworkConnectionLimit, NetworkGlobalRateLimit |-> FromNetworkGlobalRateLimit,
      RateLimitServiceConfig |-> FromRateLimitServiceConfig, TcpProxy |-> FromTcpProxy, Tracing |-> FromTracing,
      TracingProvider |-> FromTracingProvider, NetworkRbac |-> FromNetworkRbac, Rbac |-> FromRbac,
      RbacAction |-> FromRbacAction, Policy |-> FromPolicy, Permission |-> FromPermission,
      Principal |-> FromPrincipal, Bootstrap |-> FromBootstrap, Node |-> FromNode,
      DynamicResources |-> FromDynamicResources, AdsGrpcService |-> FromAdsGrpcService,
      StaticResources |-> FromStaticResources, Admin |-> FromAdmin, Config |-> NewConfig ]
=============================================================================
