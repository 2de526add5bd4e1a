---------------------------- MODULE MCTimeclock ----------------------------
EXTENDS Timeclock, TLC
CONSTANTS r1, r2, p1, p2, ann, bob, k1, k2
MCSymmetry ==
    Permutations(Request) \cup Permutations(Pin) \cup Permutations(User) \cup Permutations(Key)
=============================================================================
