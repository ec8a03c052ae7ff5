------------------------------- MODULE MCSession -------------------------------
EXTENDS Session
CONSTANTS panel, tank, loop, refresh
=============================================================================
