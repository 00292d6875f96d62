---------------------------- MODULE MCModelRouter ----------------------------
EXTENDS ModelRouter, TLC

CONSTANTS primary, secondary

\* One failure another provider may not have, and one it would have as well.
MCCodes == {"RATE_LIMITED", "INVALID_PARAMS"}
=============================================================================
