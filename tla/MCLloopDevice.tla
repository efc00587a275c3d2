---------------------------- MODULE MCLloopDevice ----------------------------
(* Small instances of LloopDevice for TLC.                                   *)
EXTENDS LloopDevice, TLC

CONSTANTS w1, w2, r  \* two bios that write and one that reads

\* Three bios of one page through two opens, two writes and a read: batches
\* merge and are split by direction.  No action tells the two writes apart.
MCBios == {w1, w2, r}
MCHandles == {"h1", "h2"}
MCRw == [b \in MCBios |-> IF b = r THEN "READ" ELSE "WRITE"]
MCVcnt == [b \in MCBios |-> 1]
MCVia == [b \in MCBios |-> IF b = r THEN "h2" ELSE "h1"]
MCSymmetry == Permutations({w1, w2})
MCFailures == {"kthread", "env"}

\* For the liveness run: two writes that fit one request, nothing fails.
MCBios2 == {w1, w2}
MCRw2 == [b \in MCBios2 |-> "WRITE"]
MCVcnt2 == [b \in MCBios2 |-> 1]
MCVia2 == [b \in MCBios2 |-> IF b = w1 THEN "h1" ELSE "h2"]
MCNoFailures == {}
==============================================================================
