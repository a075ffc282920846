----------------------------- MODULE MCEventFlow -----------------------------
EXTENDS EventFlow
=============================================================================
