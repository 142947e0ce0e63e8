------------------------------ MODULE MCSeason ------------------------------
EXTENDS Season, TLC
MCSplit == << [rankStart |-> 1, rankEnd |-> 1, amount |-> 2],
              [rankStart |-> 2, rankEnd |-> 2, amount |-> 1] >>
Symmetric == Permutations(Player) \cup Permutations(Run)
=============================================================================
