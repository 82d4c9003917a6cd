--------------------------- MODULE MCSysbusClient ---------------------------
\* A client with a buffer of 8 bytes and packets of up to 7.
EXTENDS SysbusClient
=============================================================================
