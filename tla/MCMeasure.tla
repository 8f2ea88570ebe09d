----------------------------- MODULE MCMeasure -----------------------------
EXTENDS Measure, TLC
CONSTANTS sent1, sent2, received1, task1, task2, none

MCKey == {sent1, sent2, received1}
MCWriter == {task1, task2}
MCSymmetry == Permutations(MCKey) \cup Permutations(MCWriter)
=============================================================================
