---------------------- MODULE MC_TransactionGenerator ----------------------
EXTENDS TransactionGenerator, TLC

\* Freshly generated keys are interchangeable.
FreshSymmetry == Permutations(FreshAccounts)

=============================================================================
