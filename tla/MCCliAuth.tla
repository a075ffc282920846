------------------------------ MODULE MCCliAuth ------------------------------
EXTENDS CliAuth, TLC

CliSymmetry == Permutations(Process)

\* Every property speaks of the time before the first crash: what a crash leads
\* to is only followed when it is the first fault.
FirstFaultCrashes ==
  faults["crash"] = 0 \/ faults["crash"] + faults["lost"] + faults["store"] = 1
=============================================================================
