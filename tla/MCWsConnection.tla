--------------------------- MODULE MCWsConnection ---------------------------
EXTENDS WsConnection
=============================================================================
