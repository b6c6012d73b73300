----------------------------- MODULE MCConsole ------------------------------
(* Browser requests of every kind against a server with a development and a *)
(* production environment, one Cognito client and a history of one place.   *)
(* The default environment is the production one, the harder case.          *)
EXTENDS Console, TLC
CONSTANTS q1, q2, q3, dev, prod, web
MCEnvs == {dev, prod}
MCProduction == {prod}
Ask(env, mode, jwt, header, confirm) ==
  [env |-> env, mode |-> mode, jwt |-> jwt, custom |-> mode = "custom",
   header |-> header, confirm |-> confirm, complete |-> TRUE,
   wellformed |-> TRUE]
MCInputs ==
  {Ask(dev, "jwt", FALSE, FALSE, FALSE),
   Ask(dev, "none", TRUE, TRUE, FALSE),
   Ask(prod, "jwt", TRUE, FALSE, TRUE),
   Ask(Unset, "custom", FALSE, FALSE, FALSE),
   Ask("unknown", "jwt", FALSE, FALSE, TRUE),
   [Ask(prod, "jwt", FALSE, FALSE, TRUE) EXCEPT !.complete = FALSE],
   [Ask(dev, "jwt", FALSE, TRUE, FALSE) EXCEPT !.wellformed = FALSE]}
MCConfigs == {[client |-> web, flow |-> "srp"]}
MCStatuses == {200, 500}
MCLifetimes == {1}
Three == {q1, q2, q3}
Two == {q1, q2}
RequestsAlike == Permutations(Requests)
=============================================================================
