----------------------------- MODULE MCDebugger -----------------------------
EXTENDS Debugger
=============================================================================
