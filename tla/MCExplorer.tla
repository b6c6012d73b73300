----------------------------- MODULE MCExplorer -----------------------------
(* Two operations, a development and a production environment, two sends    *)
(* and up to two selections: sends overlap, and a restored item changes    *)
(* operation and environment under an open dialog.                          *)
EXTENDS Explorer
CONSTANTS dev, prod, getUser, putUser
MCEnvs == {dev, prod}
MCProduction == {prod}
MCEndpoints == {getUser, putUser}
=============================================================================
