---- MODULE MCMcpBridge ----
(* McpBridge with fewer bindings than runs, so that bindings are evicted and  *)
(* rebuilt, and one wrong reply.                                              *)
EXTENDS McpBridge
====
