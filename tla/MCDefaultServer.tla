-------------------------- MODULE MCDefaultServer --------------------------
EXTENDS DefaultServer
=============================================================================
