------------------------------- MODULE MCTcpCc -------------------------------
EXTENDS TcpCc
=============================================================================
