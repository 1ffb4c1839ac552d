---------------------------- MODULE MCWebSession ----------------------------
(* Small instances of WebSession for TLC.                                  *)
EXTENDS WebSession, TLC

CONSTANTS t1, t2, ana, oto

MCRole    == [u \in User |-> IF u = ana THEN "admin" ELSE "operator"]
MCPage    == {"dashboard", "settings"}
MCRolesOf == [p \in MCPage |-> IF p = "settings" THEN {"admin"}
                               ELSE {"admin", "operator", "viewer"}]
=============================================================================
