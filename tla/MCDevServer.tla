----------------------------- MODULE MCDevServer -----------------------------
EXTENDS DevServer
=============================================================================
