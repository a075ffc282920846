------------------------------- MODULE MCStash -------------------------------
EXTENDS Stash, TLC

\* Requests, owners' requests and secrets are interchangeable: no initial
\* state, action or property tells two of them apart.
StashSymmetry == Permutations(Request) \cup Permutations(Owner) \cup Permutations(Secret)
=============================================================================
