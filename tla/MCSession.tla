------------------------------ MODULE MCSession ------------------------------
EXTENDS Session, TLC
MCSymmetry == Permutations(Tabs) \cup Permutations(Slots) \cup Permutations(Users)
================================================================================
