-------------------------------- MODULE MCAuth --------------------------------
EXTENDS Auth, TLC

\* Calls of one kind are interchangeable, and so are the device codes, user
\* codes and keys; the ids a call gives to rows move with it.
AuthSymmetry ==
  Permutations(Account) \cup Permutations(Device) \cup Permutations(UserCode) \cup Permutations(Poll)
    \cup Permutations(Decision) \cup Permutations(Refresh)
    \cup Permutations(Bearer) \cup Permutations(PatCreation)
    \cup Permutations(IdempotencyKey)
=============================================================================
