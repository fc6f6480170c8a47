------------------------- MODULE MC_ErsatzSocketpair -------------------------
(* Four ports: the listener's, the connector's and two for foreign         *)
(* connections, so that a foreign connection can come first and can fill *)
(* the accept queue.  listen(listener, 1) on Linux queues backlog + 1 = 2  *)
(* connections.                                                            *)
EXTENDS ErsatzSocketpair

MCPorts == 1..4
MCFamilies == {"AF_INET", "AF_UNIX", "AF_INET6"}
MCProtocols == {0, 6}
=============================================================================
