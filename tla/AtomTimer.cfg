SPECIFICATION FairSpec
CONSTANT Users = {u1, u2}
INVARIANTS TypeOK HeldDark
PROPERTY Blinks
