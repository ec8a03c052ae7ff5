------------------------------ MODULE MCOperations -----------------------------
EXTENDS Operations
CONSTANTS temperature, energy_source, sync
=============================================================================
