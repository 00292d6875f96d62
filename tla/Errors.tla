------------------------------- MODULE Errors -------------------------------
(***************************************************************************)
(* common/errors.py: what a client is told of an error.  An error is its   *)
(* code; the codes MODEL_PROVIDER_... are written without that prefix, as  *)
(* in ModelRouter.  Any other string is an exception that is no            *)
(* GatewayError.                                                           *)
(***************************************************************************)
EXTENDS Integers

_err(type, http, rpc) == [type |-> type, http |-> http, rpc |-> rpc]

ErrorTable ==
    [INVALID_REQUEST        |-> _err("invalid_request", 400, -32600),
     PARSE_ERROR            |-> _err("invalid_request", 400, -32700),
     INVALID_PARAMS         |-> _err("invalid_request", 422, -32602),
     METHOD_NOT_FOUND       |-> _err("invalid_request", 404, -32601),
     PAYLOAD_TOO_LARGE      |-> _err("invalid_request", 413, -32600),
     UNAUTHENTICATED        |-> _err("unauthenticated", 401, -32001),
     UNAUTHORIZED_TOOL_CALL |-> _err("unauthorized", 403, -32001),
     FORBIDDEN              |-> _err("forbidden", 403, -32002),
     RATE_LIMIT_EXCEEDED    |-> _err("rate_limited", 429, -32003),
     TIMEOUT                |-> _err("upstream_timeout", 504, -32004),
     UNAVAILABLE            |-> _err("upstream_unavailable", 502, -32005),
     RATE_LIMITED           |-> _err("upstream_rate_limited", 429, -32003),
     PROTOCOL_ERROR         |-> _err("upstream_unavailable", 502, -32005),
     RESOURCE_NOT_FOUND     |-> _err("not_found", 404, -32602),
     RETRIEVAL_FAILED       |-> _err("retrieval_failed", 502, -32005),
     INTERNAL_ERROR         |-> _err("internal_error", 500, -32603)]

coerce(exc) == IF exc \in DOMAIN ErrorTable THEN exc ELSE "INTERNAL_ERROR"

\* to_gateway_error with the status of the response, and to_jsonrpc_error.
ErrorType(exc) == ErrorTable[coerce(exc)].type
HttpStatusOf(exc) == ErrorTable[coerce(exc)].http
JsonRpcCode(exc) == ErrorTable[coerce(exc)].rpc
=============================================================================
