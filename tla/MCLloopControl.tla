--------------------------- MODULE MCLloopControl ----------------------------
(* Three devices; two opens of one inode, one of another, and a file that is   *)
(* not a regular Lustre file.                                                *)
EXTENDS LloopControl

MCFiles == {"f1", "f2", "g", "pipe"}
MCInode == [f1 |-> "i", f2 |-> "i", g |-> "j", pipe |-> "k"]
MCAttachable == MCFiles \ {"pipe"}
==============================================================================
