---------------------------- MODULE MCKitSession ----------------------------
(* TLC instance of KitSession: which calls are made together. *)
EXTENDS KitSession

CONSTANTS t1, t2, s1

MCSessions == {{t1, t2}, {t1, s1}}
=============================================================================
