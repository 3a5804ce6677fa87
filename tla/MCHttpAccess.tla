---------------------------- MODULE MCHttpAccess ----------------------------
(***************************************************************************)
(* Instances of the HTTP middleware for TLC. 99 is no status, 103 is       *)
(* informational, and 204 allows no body.                                  *)
(***************************************************************************)
EXTENDS HttpAccess

(* A logger is enabled from some level on, or not at all.                  *)
MCEnabled == {{}, {"error"}, {"warn", "error"}, AccessLevels}

MCSetups == [flush : BOOLEAN, hijack : BOOLEAN, enabled : MCEnabled]
MCFlushing == [flush : {TRUE}, hijack : {FALSE}, enabled : {AccessLevels}]
MCStatuses == {99, 101, 103, 204, 404, 500}
=============================================================================
