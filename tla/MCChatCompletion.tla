--------------------------- MODULE MCChatCompletion ---------------------------
EXTENDS ChatCompletion, TLC

CONSTANTS primary, secondary

MCCodes == {"RATE_LIMITED"}

\* Everything, but what is accepted by its bearer token comes with an unknown
\* X-API-Key only.
Acceptable(r) == ~r.large /\ r.body = "valid" /\ r.rag # "unserved"
MCRequests ==
    {r \in AllRequests : Acceptable(r) /\ r.bearer = "known" => r.x_api_key = "unknown"}
=============================================================================
