----------------------------- MODULE LloopService ----------------------------
(***************************************************************************)
(* What a Lustre loop device promises about the bios it lets in: a queue   *)
(* served in order of arrival, by groups of one direction that go to the   *)
(* file together, each bio ended at most once.  It does not promise that   *)
(* every bio is served: bios that arrive while the device is detached and  *)
(* attached again are dropped (loop_set_fd empties the list).              *)
(***************************************************************************)
EXTENDS Integers, Sequences, Functions

CONSTANTS Bios, Rw

VARIABLES queue,  \* bios waiting, oldest first
          busy,   \* the group being transferred
          ends    \* how often each bio was ended

serviceVars == <<queue, busy, ends>>

Init == queue = <<>> /\ busy = <<>> /\ ends = [b \in Bios |-> 0]

Fresh(b) == /\ b \notin Range(queue) /\ b \notin Range(busy)
            /\ ends[b] = 0

\* A bio is refused: it is ended without ever waiting.
Refused(b) ==
  /\ Fresh(b)
  /\ ends' = [ends EXCEPT ![b] = 1]
  /\ UNCHANGED <<queue, busy>>

\* A bio joins the end of the queue; the queue it joins may just have been
\* emptied (Dropped and Arrives at once).
Arrives(b) ==
  /\ Fresh(b)
  /\ queue' \in {Append(queue, b), <<b>>}
  /\ UNCHANGED <<busy, ends>>

Dropped == queue' = <<>> /\ busy = <<>> /\ UNCHANGED <<busy, ends>>

\* A non-empty prefix of one direction goes to the file.
Starts ==
  /\ busy = <<>>
  /\ \E n \in 1 .. Len(queue) :
       /\ \A i \in 1 .. n : Rw[queue[i]] = Rw[queue[1]]
       /\ busy' = SubSeq(queue, 1, n)
       /\ queue' = SubSeq(queue, n + 1, Len(queue))
  /\ UNCHANGED ends

Completes ==
  /\ busy # <<>>
  /\ ends' = [b \in Bios |-> IF b \in Range(busy) THEN 1 ELSE ends[b]]
  /\ busy' = <<>>
  /\ UNCHANGED queue

Next == \/ \E b \in Bios : Refused(b) \/ Arrives(b)
        \/ Dropped \/ Starts \/ Completes

Spec == Init /\ [][Next]_serviceVars
==============================================================================
