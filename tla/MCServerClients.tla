-------------------------- MODULE MCServerClients --------------------------
EXTENDS ServerClients

\* The control port adds nothing to these: its threads do what those of "http"
\* do, except that their requests never fail.
MCProtocols == {"http", "ws"}
=============================================================================
