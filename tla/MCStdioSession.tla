--------------------------- MODULE MCStdioSession ---------------------------
EXTENDS StdioSession
=============================================================================
