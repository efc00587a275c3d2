----------------------------- MODULE LloopTable ------------------------------
(***************************************************************************)
(* What the loop driver promises about attachments: a table of devices, in *)
(* which a Lustre inode is behind one device at most, and that a device    *)
(* changes its file only by a detach and a new attach.                     *)
(***************************************************************************)
CONSTANTS Devices, Files, Inode, None

VARIABLE table  \* the file behind each device, or None

Init == table = [d \in Devices |-> None]

Behind(i) == {d \in Devices : table[d] # None /\ Inode[table[d]] = i}

Attach(d, f) == /\ table[d] = None /\ Behind(Inode[f]) = {}
                /\ table' = [table EXCEPT ![d] = f]

Detach(d) == table[d] # None /\ table' = [table EXCEPT ![d] = None]

Next == \E d \in Devices : Detach(d) \/ \E f \in Files : Attach(d, f)

Spec == Init /\ [][Next]_table
==============================================================================
