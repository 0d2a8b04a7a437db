--------------------------- MODULE MCGuideHandOff ---------------------------
EXTENDS GuideHandOff, TLC

\* Handles, monitors and loops are interchangeable.
Symmetric == Permutations(Handle) \cup Permutations(Monitor) \cup Permutations(Loop)

=============================================================================
