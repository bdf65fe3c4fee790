--------------------------- MODULE MCSplitServer ---------------------------
EXTENDS SplitServer
=============================================================================
