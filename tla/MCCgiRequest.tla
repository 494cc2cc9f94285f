---------------------------- MODULE MCCgiRequest ----------------------------
EXTENDS CgiRequest

=============================================================================
