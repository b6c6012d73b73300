--------------------------- MODULE MCAuthManager ----------------------------
(* Two callers that log in to two clients, one by SRP and one by password,  *)
(* with tokens that do not say when they expire, that expire at once, and   *)
(* that live for two ticks; a login may take two ticks.                     *)
EXTENDS AuthManager
CONSTANTS g1, g2, web, mobile
MCCallers == {g1, g2}
MCConfigs == {[client |-> web, flow |-> "srp"],
              [client |-> mobile, flow |-> "password"]}
MCLifetimes == {0, 1, 2}
=============================================================================
