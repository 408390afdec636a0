----------------------------- MODULE MCUpstream -----------------------------
EXTENDS Upstream
=============================================================================
