----------------------------- MODULE MCTcpScan -----------------------------
(* The upper half of an address space of two bits, its last address         *)
(* included; the router is one of the hosts scanned.                        *)
EXTENDS TcpScan

MCSegs  == << Hosts(3, 1, 2) >>
MCPorts == << 80 >>
=============================================================================
