----------------------------- MODULE ConfigHttp -----------------------------
(***************************************************************************)
(* What arion-configuration accepts of an HTTP connection manager and of a *)
(* route configuration: network_filters/http_connection_manager.rs and its *)
(* route.rs, header_matcher.rs and header_modifier.rs.                     *)
(***************************************************************************)
EXTENDS ConfigMessages

\* ensure_corresponding_filter_exists, for every override of every route; a
\* route configuration that comes over RDS is not looked at.
OverridesNameAFilter == << Rule("an override names a filter of its own kind") >>

HcmFields ==
    << Unsupported("http_protocol_options, server_name, drain_timeout, local_reply_config and fifty more"),
       Dropped("stat_prefix") >>

\* The upgrades switched off are skipped without being converted.
FromHttpConnectionManager ==
    HcmFields \o
    << Convert("codec_type", "CodecType"), OneOf("route_specifier", {"RouteSpecifier"}),
       Optional("request_timeout", "Duration"), Dropped("upgrade_configs that are not enabled"),
       ConvertVec("upgrade_configs", "UpgradeType"), ConvertNonEmptyVec("http_filters", "SupportedHttpFilter"),
       Rule("the last filter is a router"), Rule("the router is not disabled"), Convert("router", "Router"),
       ConvertVec("http_filters before the router", "HttpFilter"), Rule("no other router") >>
    \o OverridesNameAFilter \o
    << ConvertVec("access_log", "AccessLog"), Optional("tracing", "Tracing"),
       ConvertVec("early_header_mutation_extensions", "EarlyHeaderMutationExtension") >>

\* HTTP3 is refused.
FromCodecType == << Value("codec_type") >>

\* Only websocket.
FromUpgradeType == << Value("upgrade_type") >>

\* ScopedRoutes is refused.
FromRouteSpecifier == << OneOf("route_specifier", {"Rds", "RouteConfiguration"}) >>

FromRouteConfiguration ==
    << Unsupported("vhds, internal_only_headers, validate_clusters, request_mirror_policies and eight more"),
       Required("name"), ConvertVec("response_headers_to_add", "HeaderValueOption"), Value("response_headers_to_remove"),
       ConvertVec("request_headers_to_add", "HeaderValueOption"), Value("request_headers_to_remove"),
       ConvertNonEmptyVec("virtual_hosts", "VirtualHost"), Rule("no domain is in two virtual hosts") >>

FromVirtualHost ==
    << Unsupported("matcher, require_tls, rate_limits, cors, typed_per_filter_config, hedge_policy and others"),
       Dropped("the fields matched by .."), Required("name"), ConvertVec("response_headers_to_add", "HeaderValueOption"),
       Value("response_headers_to_remove"), ConvertVec("request_headers_to_add", "HeaderValueOption"),
       Value("request_headers_to_remove"), Required("domains"), Value("domains"), Rule("no domain is there twice"),
       ConvertVec("routes", "Route"), Optional("retry_policy", "RetryPolicy") >>

FromRetryPolicy ==
    << Unsupported("retry_priority, retry_host_predicate, per_try_idle_timeout, rate_limited_retry_back_off and two more"),
       Value("retry_on"), Optional("per_try_timeout", "Duration"), ConvertVec("retriable_status_codes", "StatusCode"),
       Optional("retry_back_off", "RetryBackoff"), ConvertVec("retriable_headers", "HeaderMatcher"),
       ConvertVec("retriable_request_headers", "HeaderMatcher") >>

FromRetryBackoff ==
    << Convert("base_interval", "Duration"), Optional("max_interval", "Duration"), Rule("max_interval is not below base_interval") >>

FromRoute ==
    << Unsupported("metadata, decorator, tracing, per_request_buffer_limit_bytes, stat_prefix and one more"),
       Dropped("the fields matched by .."), ConvertVec("response_headers_to_add", "HeaderValueOption"),
       Value("response_headers_to_remove"), ConvertVec("request_headers_to_add", "HeaderValueOption"),
       Value("request_headers_to_remove"), Convert("action", "RouteActionSpecifier"), Convert("match", "RouteMatch"),
       ConvertVec("typed_per_filter_config", "FilterOverride") >>

FromRds == << Required("route_config_name"), Convert("config_source", "ConfigSource") >>

FromConfigSource ==
    << Unsupported("authorities, initial_fetch_timeout, resource_api_version"),
       Convert("config_source_specifier", "ConfigSourceSpecifier") >>

\* Only ADS.
FromConfigSourceSpecifier == << OneOf("config_source_specifier", {"leaf"}) >>

-----------------------------------------------------------------------------
(* header_matcher.rs and header_modifier.rs *)

\* treat_missing_header_as_empty is lost on a present match.
FromHeaderMatcher ==
    << Value("name"), Convert("header_match_specifier", "HeaderMatchSpecifier"), Dropped("treat_missing_header_as_empty") >>

\* RangeMatch is refused, and PresentMatch(false) means PresentMatch(true).
FromHeaderMatchSpecifier ==
    << OneOf("header_match_specifier", {"StringMatcher", "RegexMatcher", "leaf"}), Dropped("present_match: false") >>

FromHeaderKeyValue == << Value("key"), Value("value, as a log format") >>

FromHeaderValueOption ==
    << Unsupported("append"), Convert("header", "EnvoyHeaderValue"), Convert("append_action", "HeaderAppendAction") >>

FromHeaderAppendAction == << Value("append_action") >>

FromEnvoyHeaderValue ==
    << Rule("value or raw_value, not both"), Required("value or raw_value"), Convert("key and value", "HeaderKeyValue") >>

-----------------------------------------------------------------------------
(* route.rs *)

FromHashPolicy == << Convert("policy_specifier", "PolicySpecifier") >>

\* FilterAction and NonForwardingAction are refused.
FromRouteActionSpecifier == << OneOf("action", {"RouteAction", "DirectResponseAction", "RedirectAction"}) >>

FromRegexMatchAndSubstitute == << Convert("pattern", "RegexMatcher") >>

FromRedirectResponseCode == << Value("response_code") >>

\* https_redirect: false is the same as nothing.
FromRedirectAction ==
    << Convert("response_code", "RedirectResponseCode"), Value("port_redirect"), Value("host_redirect"),
       Value("scheme_redirect"), Dropped("https_redirect: false"),
       OptionalOneOf("path_rewrite_specifier", {"RegexMatchAndSubstitute", "leaf"}), Value("path") >>

FromDirectResponseAction ==
    << Unsupported("body_format"), Value("status"), Optional("body", "DataSource"), Rule("the body can be read") >>

FromClusterNotFoundResponseCode == << Value("cluster_not_found_response_code") >>

\* `upgrade_configs.try_into().ok()`: an upgrade the route cannot honour is
\* the same as none.
FromRouteAction ==
    << Unsupported("host_rewrite, cors, rate_limits, request_mirror_policies, max_stream_duration and twenty more"),
       Convert("cluster_not_found_response_code", "ClusterNotFoundResponseCode"), Optional("timeout", "Duration"),
       Convert("cluster_specifier", "ClusterSpecifier"), Rule("prefix_rewrite or regex_rewrite, not both"),
       Optional("regex_rewrite", "RegexMatchAndSubstitute"), Optional("retry_policy", "RetryPolicy"),
       Lenient("upgrade_configs", "UpgradeConfig"), ConvertVec("hash_policy", "HashPolicy"),
       Convert("priority", "RoutingPriority") >>

FromUpgradeConfig == << Value("upgrade_type"), Unsupported("connect, when enabled") >>

\* Cookie and FilterState are refused.
FromPolicySpecifier ==
    << OneOf("policy_specifier", {"leaf"}), Unsupported("header.regex_rewrite"), Value("header_name") >>

FromQueryParameterMatcher ==
    << Required("name"), OptionalOneOf("query_parameter_match_specifier", {"StringMatcher", "leaf"}) >>

FromRouteMatch ==
    << Unsupported("runtime_fraction, grpc, tls_context, dynamic_metadata, filter_state, cookies"),
       Optional("path_specifier", "PathSpecifier"), ConvertVec("headers", "HeaderMatcher"),
       ConvertVec("query_parameters", "QueryParameterMatcher") >>

\* ConnectMatcher and PathMatchPolicy are refused.
FromPathSpecifier == << OneOf("path_specifier", {"RegexMatcher", "leaf"}), Rule("a separated prefix does not end in /") >>

\* Suffix, Contains and Custom are refused.
FromPathMatcher == << Required("rule"), OneOf("rule.path.match_pattern", {"RegexMatcher", "leaf"}) >>

-----------------------------------------------------------------------------
\* The conversions by the name of their message.
HttpMessages ==
    [ HttpConnectionManager |-> FromHttpConnectionManager, CodecType |-> FromCodecType,
      UpgradeType |-> FromUpgradeType, RouteSpecifier |-> FromRouteSpecifier,
      RouteConfiguration |-> FromRouteConfiguration, VirtualHost |-> FromVirtualHost,
      RetryPolicy |-> FromRetryPolicy, RetryBackoff |-> FromRetryBackoff, Route |-> FromRoute, Rds |-> FromRds,
      ConfigSource |-> FromConfigSource, ConfigSourceSpecifier |-> FromConfigSourceSpecifier,
      HeaderMatcher |-> FromHeaderMatcher, HeaderMatchSpecifier |-> FromHeaderMatchSpecifier,
      HeaderKeyValue |-> FromHeaderKeyValue, HeaderValueOption |-> FromHeaderValueOption,
      HeaderAppendAction |-> FromHeaderAppendAction, EnvoyHeaderValue |-> FromEnvoyHeaderValue,
      HashPolicy |-> FromHashPolicy, RouteActionSpecifier |-> FromRouteActionSpecifier,
      RegexMatchAndSubstitute |-> FromRegexMatchAndSubstitute, RedirectResponseCode |-> FromRedirectResponseCode,
      RedirectAction |-> FromRedirectAction, DirectResponseAction |-> FromDirectResponseAction,
      ClusterNotFoundResponseCode |-> FromClusterNotFoundResponseCode, RouteAction |-> FromRouteAction,
      UpgradeConfig |-> FromUpgradeConfig, PolicySpecifier |-> FromPolicySpecifier,
      QueryParameterMatcher |-> FromQueryParameterMatcher, RouteMatch |-> FromRouteMatch,
      PathSpecifier |-> FromPathSpecifier, PathMatcher |-> FromPathMatcher ]

-----------------------------------------------------------------------------
(***************************************************************************)
(* What arion-configuration accepts of the HTTP filters and of their       *)
(* overrides on a route: http_connection_manager/http_filters.rs and the   *)
(* files of http_filters/.                                                 *)
(***************************************************************************)

\* ConfigDiscovery is refused.
FromSupportedHttpFilter ==
    << Unsupported("is_optional"), Required("name"), OneOf("config_type", {"HttpFilterAny"}) >>

FromHttpFilterAny == << OneOf("typed_config", {"leaf"}) >>

\* A router among the filters is refused, the last one was taken out.
FromHttpFilter ==
    << OneOf("filter",
             {"HttpRbac", "LocalRateLimit", "UserRateLimit", "JwtAuthentication", "Cors", "OAuth2", "ExternalProcessor",
              "CedarPolicy", "Wasm", "McpGateway", "leaf"}) >>

\* Four filters have overrides; the wrapper FilterConfig may carry one.
FromFilterOverride == << OneOf("typed_config", {"FilterConfig", "FilterConfigOverride"}) >>

FromFilterConfig == << Unsupported("is_optional"), OptionalOneOf("config", {"FilterConfigOverride"}) >>

FromFilterConfigOverride == << OneOf("config", {"LocalRateLimit", "HttpRbacPerRoute", "ExtProcPerRoute", "Cors"}) >>

FromCedarPolicy ==
    << Required("policies"), Required("schema"), Value("enforcement_mode"), Value("failure_mode") >>

FromCors ==
    << Unsupported("filter_enabled, shadow_enabled, forward_not_matching_preflights"),
       ConvertVec("allow_origin_string_match", "StringMatcher"), Value("allow_methods"), Value("max_age") >>

FromRouter ==
    << Unsupported("dynamic_stats, start_child_span, upstream_log, strict_check_headers and seven more") >>

FromUserRateLimit == << ConvertVec("user_rate_limits", "UserLimit"), Value("status") >>

FromUserLimit == << OneOf("limit", {"LocalRateLimit", "leaf"}) >>

\* The code comes from a local source and the plugin's settings are a string.
FromWasm ==
    << Required("config"), Unsupported("fail_open, capability_restriction_config, allow_on_headers_stop_iteration and two more"),
       Required("vm"), Unsupported("environment_variables"), Required("code"), OneOf("code.specifier", {"DataSource"}),
       Rule("the configuration is a string") >>

\* The fill interval may be zero.
FromLocalRateLimit ==
    << Unsupported("filter_enabled, filter_enforced, descriptors, stage, vh_rate_limits and nine more"),
       Value("status"), Optional("token_bucket", "TokenBucket") >>

FromTokenBucket ==
    << Required("max_tokens"), Rule("tokens_per_fill is not zero"), Convert("fill_interval", "Duration") >>

FromHttpRbac ==
    << Unsupported("shadow_rules, shadow_rules_stat_prefix, matcher, track_per_rule_stats and three more"), Convert("rules", "HttpRbacRules") >>

FromHttpRbacPerRoute == << Optional("rbac", "HttpRbac") >>

FromHttpRbacRules ==
    << Unsupported("audit_logging_options"), Convert("action", "RbacAction"), ConvertNonEmptyVec("policies", "HttpRbacPolicy") >>

\* Unlike those of a network RBAC, the two lists may be empty.
FromHttpRbacPolicy ==
    << Unsupported("condition, checked_condition, cel_config"), ConvertVec("permissions", "HttpRbacRule"),
       ConvertVec("principals", "HttpRbacRule") >>

\* Any, which must be true, or a header.
FromHttpRbacRule == << OneOf("rule", {"HeaderMatcher", "leaf"}), Rule("any is true") >>

-----------------------------------------------------------------------------
(* http_filters/jwt.rs *)

FromJwtAuthentication ==
    << Unsupported("filter_state_rules, bypass_cors_preflight, requirement_map, strip_failure_response and one more"),
       ConvertVec("providers", "JwtProvider"), ConvertVec("rules", "RequirementRule") >>

FromJwtProvider ==
    << Unsupported("require_expiration, max_lifetime, normalize_payload_in_metadata, jwt_cache_config"),
       Optional("subjects", "StringMatcher"), ConvertVec("from_headers", "JwtHeader"), Value("forward_payload_header"),
       ConvertVec("claim_to_headers", "JwtClaimToHeader"), Convert("jwks_source_specifier", "JwksSource") >>

FromJwksSource == << OneOf("jwks_source_specifier", {"RemoteJwks", "DataSource"}) >>

FromRemoteJwks ==
    << Unsupported("async_fetch"), Optional("cache_duration", "Duration"), Convert("http_uri", "HttpUri"),
       Optional("retry_policy", "CoreRetryPolicy") >>

FromCoreRetryPolicy ==
    << Unsupported("retry_priority, retry_host_predicate, host_selection_retry_max_attempts"), Value("retry_on"),
       Optional("retry_back_off", "CoreRetryBackoff") >>

FromCoreRetryBackoff ==
    << Convert("base_interval", "Duration"), Optional("max_interval", "Duration"), Rule("max_interval is not below base_interval") >>

FromJwtHeader == << Value("name") >>

FromJwtClaimToHeader == << Value("header_name") >>

FromRequirementRule == << Optional("match", "RouteMatch"), OptionalOneOf("requirement_type", {"RequirementType"}) >>

\* RequirementName is refused.
FromRequirementType == << OneOf("requirement_type", {"JwtRequirement"}) >>

FromJwtRequirement == << Optional("requires_type", "RequiresType") >>

\* Only ProviderName.
FromRequiresType == << OneOf("requires_type", {"leaf"}) >>

-----------------------------------------------------------------------------
(* http_filters/oauth2.rs *)

FromOAuth2 == << Convert("config", "OAuth2Config") >>

FromOAuth2Config ==
    << Rule("forward_bearer_token or preserve_authorization_header, not both"), Convert("token_endpoint", "HttpUri"),
       Optional("retry_policy", "CoreRetryPolicy"), Required("authorization_endpoint"),
       Convert("credentials", "OAuth2Credentials"), Required("redirect_uri"), Convert("redirect_path_matcher", "PathMatcher"),
       Convert("signout_path", "PathMatcher"), ConvertVec("pass_through_matcher", "HeaderMatcher"),
       ConvertVec("deny_redirect_matcher", "HeaderMatcher"), Value("auth_type"), Optional("default_expires_in", "Duration"),
       Optional("default_refresh_token_expires_in", "Duration"), Optional("csrf_token_expires_in", "Duration"),
       Optional("code_verifier_token_expires_in", "Duration"), Optional("cookie_configs", "CookieConfigs") >>

FromOAuth2Credentials ==
    << Required("client_id"), Required("token_secret"), Required("token_secret.name"), Required("token_formation"),
       Required("hmac_secret.name") >>

\* Seven optional cookies; an empty name is its default.
FromCookieConfigs == << Optional("a cookie", "CookieConfig") >>

FromCookieConfig == << Value("same_site") >>

-----------------------------------------------------------------------------
(* http_filters/ext_proc.rs *)

FromExternalProcessor ==
    << Unsupported("http_service, stat_prefix, filter_metadata, request_attributes, status_on_error and four more"),
       Convert("grpc_service", "ExtProcGrpcService"), Optional("message_timeout", "Duration"),
       Optional("max_message_timeout", "Duration"), Optional("processing_mode", "ProcessingMode"),
       Optional("mutation_rules", "HeaderMutationRules"), Optional("forward_rules", "HeaderForwardingRules"),
       Optional("deferred_close_timeout", "Duration"), ConvertVec("allowed_override_modes", "ProcessingMode"),
       Optional("metadata_options", "MetadataOptions"), Convert("route_cache_action", "RouteCacheAction") >>

\* Empty lists of namespaces count as absent.
FromMetadataOptions ==
    << Unsupported("receiving_namespaces, cluster_metadata_forwarding_namespaces"),
       Optional("forwarding_namespaces", "MetadataNamespaces") >>

FromMetadataNamespaces == << Unsupported("typed") >>

FromExtProcGrpcService ==
    << Unsupported("initial_metadata, retry_policy"), OneOf("target_specifier", {"ExtProcGoogleGrpc", "leaf"}),
       Optional("timeout", "Duration") >>

FromExtProcGoogleGrpc == << Unsupported("channel_credentials, call_credentials, config, channel_args and five more") >>

FromProcessingMode ==
    << Convert("request_header_mode", "HeaderProcessingMode"), Convert("response_header_mode", "HeaderProcessingMode"),
       Convert("request_body_mode", "BodyProcessingMode"), Convert("response_body_mode", "BodyProcessingMode"),
       Convert("request_trailer_mode", "TrailerProcessingMode"), Convert("response_trailer_mode", "TrailerProcessingMode") >>

FromHeaderProcessingMode == << Value("header send mode") >>

\* Grpc is refused.
FromBodyProcessingMode == << Value("body send mode") >>

FromTrailerProcessingMode == << Value("trailer send mode") >>

FromHeaderMutationRules == << Optional("allow_expression", "RegexMatcher"), Optional("disallow_expression", "RegexMatcher") >>

FromRouteCacheAction == << Value("route_cache_action") >>

FromHeaderForwardingRules ==
    << ConvertVec("allowed_headers", "StringMatcher"), ConvertVec("disallowed_headers", "StringMatcher") >>

FromExtProcPerRoute == << OptionalOneOf("override", {"ExtProcOverrides", "leaf"}) >>

FromExtProcOverrides ==
    << Unsupported("grpc_initial_metadata, metadata_options, async_mode, request_attributes and two more"),
       Optional("processing_mode", "ProcessingMode"), Optional("grpc_service", "ExtProcGrpcService") >>

-----------------------------------------------------------------------------
(* http_filters/mcp_gateway.rs and mcp_gateway/openapi.rs *)

\* intern_identifier: the interner may be full.
FromIdentifier == << Value("identifier") >>

FromMcpGateway ==
    << Required("server_info"), OneOf("mode", {"CodeMode", "leaf"}), Optional("search", "ToolSearch"),
       ConvertVec("tools", "Tool"), ConvertVec("open_api_tool_sources", "OpenApiToolSource"),
       Convert("upstream limits", "UpstreamLimits"), ConvertVec("dynamic_mcp_servers", "DynamicMcpServer"),
       Optional("tds", "TdsSpecifier"), Convert("server_info", "ServerInfo") >>

FromCodeMode ==
    << ConvertVec("toolkits", "Toolkit"), Optional("execution_timeout", "PositiveDuration"), Value("max_output_bytes"),
       Value("memory_limit_bytes") >>

FromToolkit == << Convert("name", "Identifier"), ConvertVec("tools", "ToolkitToolRef") >>

FromToolkitToolRef == << Convert("namespace", "Identifier"), Convert("name", "Identifier") >>

FromUpstreamLimits == << Optional("upstream_timeout", "PositiveDuration"), Value("max_upstream_response_bytes above 0") >>

FromPositiveDuration == << Convert("duration", "Duration"), Rule("above zero") >>

FromMcpUrl == << Required("url"), Value("url"), Rule("an absolute HTTP(S) url") >>

\* A path with a placeholder is not parsed here.
FromRestPath == << Required("path"), Value("a path without placeholders") >>

FromHttpUpstreamPolicy ==
    << Value("authority"), Optional("timeout", "PositiveDuration"), Optional("retry_policy", "RetryPolicy") >>

FromDynamicMcpServer ==
    << Convert("url", "McpUrl"), Optional("cache_duration", "PositiveDuration"), Convert("namespace", "Identifier"),
       Optional("rbac", "ToolRbac") >>

FromOpenApiToolSource ==
    << Required("namespace"), Required("cluster"), Convert("spec", "DataSource"), Rule("the document can be read"),
       Convert("namespace", "Identifier"), Convert("cluster", "Identifier"),
       Optional("upstream_policy", "HttpUpstreamPolicy"), Optional("rbac", "ToolRbac"), Convert("spec", "OpenApiDocument") >>

FromTdsSpecifier == << Required("config_name"), Rule("no / in the name"), Convert("config_name", "Identifier") >>

\* The schemas of a tool on an MCP server are ignored with a warning.
FromTool ==
    << Required("description"), Convert("upstream_backend", "UpstreamBackend"), Dropped("the schemas of an MCP tool"),
       Optional("input_schema", "JsonSchema"), Optional("output_schema", "JsonSchema"), Optional("rbac", "ToolRbac"),
       Convert("namespace", "Identifier") >>

FromJsonSchema == << Convert("schema", "DataSource"), Value("the text, as json"), Rule("a json schema") >>

\* The conversion of a FunctionGraph backend is `todo!()`.
FromUpstreamBackend == << Todo("function_graph_backend"), OneOf("upstream_backend", {"RestBackend", "McpUrl"}) >>

FromRestBackend ==
    << Required("cluster"), Convert("path", "RestPath"), OptionalOneOf("body", {"DataSource", "leaf"}),
       Required("body_json"), Value("method"), ConvertVec("query_params", "QueryParam"), Convert("cluster", "Identifier"),
       Optional("upstream_policy", "HttpUpstreamPolicy") >>

FromQueryParam == << Required("name"), Required("source") >>

FromServerInfo == << Required("name"), Rule("no / in the name"), Convert("name", "Identifier") >>

FromToolRbac == << ConvertNonEmptyVec("permissions", "ToolPermission") >>

FromToolPermission == << OneOf("permission_type", {"leaf"}), Required("field and value") >>

FromToolSearch == << Value("max_allowable_results above 0"), Optional("embeddings", "RemoteEmbeddings") >>

FromRemoteEmbeddings ==
    << Optional("timeout", "Duration"), Convert("cluster", "Identifier"), Required("cluster, model_id, dimensions"),
       Rule("max_batch_size is not zero") >>

\* openapi_to_tools.  Operations that are not selected are left out; one that
\* cannot be built is an error, or skipped if the source asks for that.
FromOpenApiDocument ==
    << Value("the document, as yaml"), Unsupported("swagger"), Rule("version 3, or paths"),
       Dropped("operations the patterns leave out"), ConvertVec("paths", "OpenApiOperation") >>

\* build_tool
FromOpenApiOperation ==
    << Unsupported("deprecated, path item $ref"), Rule("the qualified name has at most 128 bytes"), Rule("the name is new"),
       Convert("path", "PathTemplate"), ConvertVec("parameters", "OpenApiParameter"),
       Rule("the arguments' names are distinct"), Optional("request_body", "OpenApiBody"),
       Convert("input schema", "GeneratedSchema"), Convert("output schema", "GeneratedSchema") >>

FromPathTemplate == << Rule("the braces are balanced"), Required("every parameter's name") >>

\* Optional header and cookie parameters are left out.
FromOpenApiParameter ==
    << Rule("its $ref resolves"), Dropped("optional header and cookie parameters"), OneOf("location", {"leaf"}),
       Rule("its serialization is supported"), Rule("the schema's $refs are components") >>

FromOpenApiBody == << Rule("its $ref resolves"), Required("application/json content"), Rule("the schema's $refs are components") >>

\* Output schemas that are not objects are left out.
FromGeneratedSchema ==
    << Dropped("an output schema that is no object"), Rule("every component it reaches exists"), Rule("a json schema") >>

-----------------------------------------------------------------------------
\* The conversions by the name of their message.
FilterMessages ==
    [ SupportedHttpFilter |-> FromSupportedHttpFilter, HttpFilterAny |-> FromHttpFilterAny,
      HttpFilter |-> FromHttpFilter, FilterOverride |-> FromFilterOverride, FilterConfig |-> FromFilterConfig,
      FilterConfigOverride |-> FromFilterConfigOverride, CedarPolicy |-> FromCedarPolicy, Cors |-> FromCors,
      Router |-> FromRouter, UserRateLimit |-> FromUserRateLimit, UserLimit |-> FromUserLimit, Wasm |-> FromWasm,
      LocalRateLimit |-> FromLocalRateLimit, TokenBucket |-> FromTokenBucket, HttpRbac |-> FromHttpRbac,
      HttpRbacPerRoute |-> FromHttpRbacPerRoute, HttpRbacRules |-> FromHttpRbacRules,
      HttpRbacPolicy |-> FromHttpRbacPolicy, HttpRbacRule |-> FromHttpRbacRule,
      JwtAuthentication |-> FromJwtAuthentication, JwtProvider |-> FromJwtProvider, JwksSource |-> FromJwksSource,
      RemoteJwks |-> FromRemoteJwks, CoreRetryPolicy |-> FromCoreRetryPolicy,
      CoreRetryBackoff |-> FromCoreRetryBackoff, JwtHeader |-> FromJwtHeader,
      JwtClaimToHeader |-> FromJwtClaimToHeader, RequirementRule |-> FromRequirementRule,
      RequirementType |-> FromRequirementType, JwtRequirement |-> FromJwtRequirement,
      RequiresType |-> FromRequiresType, OAuth2 |-> FromOAuth2, OAuth2Config |-> FromOAuth2Config,
      OAuth2Credentials |-> FromOAuth2Credentials, CookieConfigs |-> FromCookieConfigs,
      CookieConfig |-> FromCookieConfig, ExternalProcessor |-> FromExternalProcessor,
      MetadataOptions |-> FromMetadataOptions, MetadataNamespaces |-> FromMetadataNamespaces,
      ExtProcGrpcService |-> FromExtProcGrpcService, ExtProcGoogleGrpc |-> FromExtProcGoogleGrpc,
      ProcessingMode |-> FromProcessingMode, HeaderProcessingMode |-> FromHeaderProcessingMode,
      BodyProcessingMode |-> FromBodyProcessingMode, TrailerProcessingMode |-> FromTrailerProcessingMode,
      HeaderMutationRules |-> FromHeaderMutationRules, RouteCacheAction |-> FromRouteCacheAction,
      HeaderForwardingRules |-> FromHeaderForwardingRules, ExtProcPerRoute |-> FromExtProcPerRoute,
      ExtProcOverrides |-> FromExtProcOverrides, Identifier |-> FromIdentifier, McpGateway |-> FromMcpGateway,
      CodeMode |-> FromCodeMode, Toolkit |-> FromToolkit, ToolkitToolRef |-> FromToolkitToolRef,
      UpstreamLimits |-> FromUpstreamLimits, PositiveDuration |-> FromPositiveDuration, McpUrl |-> FromMcpUrl,
      RestPath |-> FromRestPath, HttpUpstreamPolicy |-> FromHttpUpstreamPolicy,
      DynamicMcpServer |-> FromDynamicMcpServer, OpenApiToolSource |-> FromOpenApiToolSource,
      TdsSpecifier |-> FromTdsSpecifier, Tool |-> FromTool, JsonSchema |-> FromJsonSchema,
      UpstreamBackend |-> FromUpstreamBackend, RestBackend |-> FromRestBackend, QueryParam |-> FromQueryParam,
      ServerInfo |-> FromServerInfo, ToolRbac |-> FromToolRbac, ToolPermission |-> FromToolPermission,
      ToolSearch |-> FromToolSearch, RemoteEmbeddings |-> FromRemoteEmbeddings,
      OpenApiDocument |-> FromOpenApiDocument, OpenApiOperation |-> FromOpenApiOperation,
      PathTemplate |-> FromPathTemplate, OpenApiParameter |-> FromOpenApiParameter, OpenApiBody |-> FromOpenApiBody,
      GeneratedSchema |-> FromGeneratedSchema ]
=============================================================================
