---------------------------- MODULE MCTcpSlowPath ----------------------------
EXTENDS TcpSlowPath
=============================================================================
