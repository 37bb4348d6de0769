----------------------------- MODULE MCDebounce -----------------------------
\* Debounce for TLC: all keys are in one row, and any two are alike.
EXTENDS Debounce, TLC

CONSTANT row

OneRow == [k \in Keys |-> row]
Alike  == Permutations(Keys)
=============================================================================
