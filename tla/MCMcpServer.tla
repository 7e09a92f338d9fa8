---------------------------- MODULE MCMcpServer ----------------------------
(* Two permits and four calls: of two collectors, and of workflows of one   *)
(* and of two reports.                                                      *)
EXTENDS McpServer

CONSTANTS c1, c2, w1, w2

MCReports == [r \in Requests |-> CASE r \in {c1, c2} -> 0
                                   [] r = w1         -> 1
                                   [] r = w2         -> 2]
=============================================================================
