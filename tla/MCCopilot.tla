------------------------------ MODULE MCCopilot ------------------------------
EXTENDS Copilot, TLC
Sym == Permutations(Calls)
==============================================================================
