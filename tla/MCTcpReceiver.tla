--------------------------- MODULE MCTcpReceiver ----------------------------
EXTENDS TcpReceiver
=============================================================================
