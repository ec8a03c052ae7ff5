------------------------------ MODULE MCTransport ------------------------------
EXTENDS Transport
CONSTANTS write1, write2, probe
=============================================================================
