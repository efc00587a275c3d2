----------------------------- MODULE DevicesProofs -----------------------------
(***************************************************************************)
(* Proofs about the small drivers, which DriverStartProofs starts: the     *)
(* lcm_info device, for any size, callers, files and values; tz_mem, for   *)
(* any size of the pool and of a piece, and any requests; the register     *)
(* fields of the ncp1854, for any threads, bits, fields and setters; and   *)
(* the limits that the boot loader gives the bq24296, for any placement of *)
(* its fields.  Then about the small drivers together.                     *)
(***************************************************************************)
EXTENDS MCDevices, DriverStartProofs, FiniteSetTheorems

LcmCalls ==
  [pc : {"idle", "down", "copy"}, op : {"read", "write"},
   file : Files \cup {LcmIdle.file}, seek : BOOLEAN, p : Nat, count : Nat,
   got : Seq(Values), snap : [Cells -> Values] \cup {<<>>}, clean : BOOLEAN]

DataInv == /\ lcm_data \in [Cells -> Values] /\ lcm_call \in [Callers -> LcmCalls]
           /\ lcm_sem \in {0, 1}

\* The semaphore, its holder, and a return past the end.
HolderInv ==
  /\ \A c, d \in Callers : lcm_call[c].pc = "copy" /\ lcm_call[d].pc = "copy" =>
                             c = d
  /\ \A c \in Callers : lcm_call[c].pc = "copy" => lcm_sem = 0 /\ ~lcm_past
  /\ lcm_past => lcm_sem = 0
  /\ lcm_sem = 0 /\ ~lcm_past => \E c \in Callers : lcm_call[c].pc = "copy"

\* A reader that was not overtaken by CLEAN still sees the data of the moment
\* it got the semaphore, which is why what it has copied is of that moment.
CallInv(r, data) ==
  /\ r.pc = "down" => r.got = <<>>
  /\ r.pc = "copy" =>
       /\ r.p + r.count <= Size /\ Len(r.got) <= r.count
       /\ r.op = "read" /\ ~r.clean =>
            /\ r.snap = data
            /\ \A i \in 1 .. Len(r.got) : r.got[i] = data[r.p + i - 1]
CopyInv == \A c \in Callers : CallInv(lcm_call[c], lcm_data)

LcmInv == DataInv /\ HolderInv /\ CopyInv

USE LcmAssumption DEF LcmAssumption
-----------------------------------------------------------------------------
LEMMA IdleCall == LcmIdle \in LcmCalls /\ LcmIdle.pc = "idle"
<1>1. <<>> \in Seq(Values) /\ LcmIdle.file \in Files \cup {LcmIdle.file}
  BY SMT
<1>2. QED
  BY <1>1, SMT DEF LcmIdle, LcmCalls

\* What an update of a call gives, field by field.
LEMMA CallWithGot ==
  ASSUME NEW q \in LcmCalls, NEW a, a \in Seq(Values)
  PROVE  LET r == [q EXCEPT !.got = a] IN
           /\ r \in LcmCalls /\ r.pc = q.pc /\ r.op = q.op /\ r.p = q.p
           /\ r.count = q.count /\ r.got = a /\ r.snap = q.snap
           /\ r.clean = q.clean
  BY SMT DEF LcmCalls

LEMMA LcmInitially == LcmInit => LcmInv
<1> SUFFICES ASSUME LcmInit PROVE LcmInv
  OBVIOUS
<1> USE DEF LcmInit
<1>1. \A c \in Callers : lcm_call[c] = LcmIdle
  OBVIOUS
<1>2. DataInv
  <2>1. lcm_call \in [Callers -> LcmCalls]
    BY IdleCall, Zenon
  <2>2. lcm_data \in [Cells -> Values]
    BY Zenon
  <2>3. QED
    BY <2>1, <2>2 DEF DataInv
<1>3. HolderInv
  BY <1>1, IdleCall, SMT DEF HolderInv
<1>4. CopyInv
  BY <1>1, IdleCall, SMT DEF CopyInv, CallInv
<1>5. QED
  BY <1>2, <1>3, <1>4 DEF LcmInv

\* A step that leaves the data, the semaphore and every other call alone, and
\* gives its caller a call that does not copy.
LEMMA OutsideStep ==
  ASSUME LcmInv, NEW c \in Callers, lcm_call[c].pc # "copy",
         NEW r \in LcmCalls, r.pc # "copy", r.got = <<>> \/ r.pc = "idle",
         lcm_call' = [lcm_call EXCEPT ![c] = r],
         UNCHANGED <<lcm_data, lcm_sem, lcm_past>>
  PROVE  LcmInv'
<1> USE DEF LcmInv
<1>1. /\ lcm_call' \in [Callers -> LcmCalls] /\ lcm_call'[c] = r
      /\ \A d \in Callers : d # c => lcm_call'[d] = lcm_call[d]
  BY Zenon DEF DataInv
<1>2. \A d \in Callers : lcm_call'[d].pc = "copy" <=> lcm_call[d].pc = "copy"
  BY <1>1, Zenon
<1>3. DataInv' /\ HolderInv'
  BY <1>1, <1>2, Zenon DEF DataInv, HolderInv
<1>4. CallInv(r, lcm_data)
  BY SMT DEF CallInv
<1>5. CopyInv'
  BY <1>1, <1>4, Zenon DEF CopyInv
<1>6. QED
  BY <1>3, <1>5

LEMMA EnterStep ==
  ASSUME LcmInv, NEW c \in Callers, NEW f \in Files,
         NEW op \in {"read", "write"}, NEW seek \in BOOLEAN, NEW p \in Nat,
         NEW n \in Nat, Enter(c, f, op, seek, p, n)
  PROVE  LcmInv'
<1> DEFINE r == [pc |-> "down", op |-> op, file |-> f, seek |-> seek, p |-> p,
                 count |-> n, got |-> <<>>, snap |-> <<>>, clean |-> FALSE]
<1>1. <<>> \in Seq(Values)
  BY SMT
<1>2. r \in LcmCalls /\ r.pc = "down" /\ r.got = <<>>
  <2>1. r \in LcmCalls
    BY <1>1, Zenon DEF LcmCalls
  <2>2. QED
    BY <2>1, SMT
<1>3. /\ lcm_call[c].pc # "copy" /\ lcm_call' = [lcm_call EXCEPT ![c] = r]
      /\ UNCHANGED <<lcm_data, lcm_sem, lcm_past>>
  BY SMT DEF Enter
<1> HIDE DEF r
<1>4. QED
  BY <1>2, <1>3, OutsideStep

LEMMA InterruptedStep ==
  ASSUME LcmInv, NEW c \in Callers, Interrupted(c) PROVE LcmInv'
<1>1. /\ lcm_call[c].pc # "copy" /\ lcm_call' = [lcm_call EXCEPT ![c] = LcmIdle]
      /\ UNCHANGED <<lcm_data, lcm_sem, lcm_past>>
  BY SMT DEF Interrupted
<1>2. QED
  BY <1>1, IdleCall, OutsideStep

\* CLEAN marks every call that copies.
LEMMA CleanStep ==
  ASSUME LcmInv, NEW f \in Files, Clean(f) PROVE LcmInv'
<1> USE DEF LcmInv
<1>1. lcm_data' \in [Cells -> Values]
      /\ UNCHANGED <<lcm_sem, lcm_past>>
  BY Zenon DEF Clean
<1>2. ASSUME NEW c \in Callers
      PROVE  /\ lcm_call'[c] \in LcmCalls /\ lcm_call'[c].pc = lcm_call[c].pc
             /\ CallInv(lcm_call'[c], lcm_data')
  <2> DEFINE r == lcm_call[c]
             s == lcm_call'[c]
             b == (r.pc = "copy")
  <2>1. r \in LcmCalls /\ b \in BOOLEAN /\ CallInv(r, lcm_data)
    BY Zenon DEF DataInv, CopyInv
  <2>2. s = [r EXCEPT !.clean = b]
    BY Zenon DEF Clean
  <2> HIDE DEF r, s, b
  <2>3. /\ s \in LcmCalls /\ s.pc = r.pc /\ s.got = r.got /\ s.p = r.p
        /\ s.count = r.count /\ s.clean = b
    BY <2>1, <2>2, SMT DEF LcmCalls
  <2>4. CallInv(s, lcm_data')
    BY <2>1, <2>3, Zenon DEF CallInv, b
  <2>5. QED
    BY <2>3, <2>4 DEF r, s
<1>3. lcm_call' \in [Callers -> LcmCalls]
  <2>1. lcm_call' = [c \in Callers |-> lcm_call'[c]]
    BY Zenon DEF Clean
  <2>2. QED
    BY <1>2, <2>1, Zenon
<1>4. HolderInv'
  BY <1>1, <1>2, Zenon DEF HolderInv
<1>5. QED
  BY <1>1, <1>2, <1>3, <1>4 DEF DataInv, CopyInv

-----------------------------------------------------------------------------
\* The semaphore is free, so nobody copies: the caller becomes the holder, or
\* returns past the end and leaves the semaphore without one.
LEMMA DownStep ==
  ASSUME LcmInv, NEW c \in Callers, Down(c) PROVE LcmInv'
<1> USE DEF LcmInv
<1>1. /\ lcm_call[c].pc = "down" /\ lcm_sem = 1 /\ lcm_sem' = 0
      /\ lcm_data' = lcm_data
  BY DEF Down
<1>2. ~lcm_past /\ \A d \in Callers : lcm_call[d].pc # "copy"
  BY <1>1, SMT DEF HolderInv
<1>3. CASE PastEnd(c)
  <2>1. lcm_call' = [lcm_call EXCEPT ![c] = LcmIdle] /\ lcm_past' = TRUE
    BY <1>3 DEF Down
  <2>2. /\ lcm_call' \in [Callers -> LcmCalls] /\ lcm_call'[c] = LcmIdle
        /\ \A d \in Callers : d # c => lcm_call'[d] = lcm_call[d]
    BY <2>1, IdleCall, Zenon DEF DataInv
  <2>3. \A d \in Callers : lcm_call'[d].pc # "copy"
    BY <1>2, <2>2, IdleCall, SMT
  <2>4. HolderInv'
    BY <1>1, <2>1, <2>3, SMT DEF HolderInv
  <2>5. CallInv(LcmIdle, lcm_data)
    BY IdleCall, SMT DEF CallInv
  <2>6. QED
    BY <1>1, <2>2, <2>4, <2>5 DEF DataInv, CopyInv
<1>4. CASE ~PastEnd(c)
  <2> DEFINE q == lcm_call[c]
             r == [q EXCEPT !.pc = "copy", !.count = Clip(c), !.snap = lcm_data]
  <2>1. lcm_call' = [lcm_call EXCEPT ![c] = r] /\ UNCHANGED lcm_past
    BY <1>4, Zenon DEF Down
  <2>2. q \in LcmCalls /\ q.got = <<>>
    BY <1>1, Zenon DEF DataInv, CopyInv, CallInv
  <2>3. Clip(c) \in Nat /\ q.p + Clip(c) <= Size
    <3>1. q.p \in Nat /\ q.count \in Nat /\ q.p <= Size
      BY <1>4, <2>2, SMT DEF PastEnd, LcmCalls
    <3>2. QED
      BY <3>1, SMT DEF Clip, Left
  <2>4. /\ r \in LcmCalls /\ r.pc = "copy" /\ r.p = q.p /\ r.count = Clip(c)
        /\ r.got = <<>> /\ r.snap = lcm_data
    <3>1. lcm_data \in [Cells -> Values] /\ q \in LcmCalls
      BY <2>2 DEF DataInv
    <3> DEFINE n == Clip(c)
               r1 == [q EXCEPT !.pc = "copy"]
               r2 == [r1 EXCEPT !.count = n]
    <3>2. n \in Nat /\ r = [r2 EXCEPT !.snap = lcm_data]
      BY <2>3, Zenon
    <3> HIDE DEF q, r, n
    <3>3. /\ r1 \in LcmCalls /\ r1.pc = "copy" /\ r1.p = q.p /\ r1.got = q.got
      BY <3>1, SMT DEF LcmCalls
    <3> HIDE DEF r1
    <3>4. /\ r2 \in LcmCalls /\ r2.pc = "copy" /\ r2.p = q.p /\ r2.got = q.got
          /\ r2.count = n
      BY <3>2, <3>3, SMT DEF LcmCalls
    <3> HIDE DEF r2
    <3>5. /\ r \in LcmCalls /\ r.pc = "copy" /\ r.p = q.p /\ r.got = q.got
          /\ r.count = n /\ r.snap = lcm_data
      BY <3>1, <3>2, <3>4, SMT DEF LcmCalls
    <3>6. QED
      BY <2>2, <3>5 DEF n
  <2> HIDE DEF q, r
  <2>5. /\ lcm_call' \in [Callers -> LcmCalls] /\ lcm_call'[c] = r
        /\ \A d \in Callers : d # c => lcm_call'[d] = lcm_call[d]
    BY <2>1, <2>4, Zenon DEF DataInv
  <2>6. HolderInv'
    BY <1>1, <1>2, <2>1, <2>4, <2>5, SMT DEF HolderInv
  <2>7. CallInv(r, lcm_data)
    BY <2>3, <2>4, SMT DEF CallInv
  <2>8. QED
    BY <1>1, <2>5, <2>6, <2>7 DEF DataInv, CopyInv
<1>5. QED
  BY <1>3, <1>4

LEMMA LeaveStep ==
  ASSUME LcmInv, NEW c \in Callers, Leave(c) PROVE LcmInv'
<1> USE DEF LcmInv
<1>1. /\ lcm_call[c].pc = "copy" /\ lcm_sem' = 1
      /\ lcm_call' = [lcm_call EXCEPT ![c] = LcmIdle]
      /\ UNCHANGED <<lcm_data, lcm_past>>
  BY DEF Leave
<1>2. /\ lcm_call' \in [Callers -> LcmCalls] /\ lcm_call'[c] = LcmIdle
      /\ \A d \in Callers : d # c => lcm_call'[d] = lcm_call[d]
  BY <1>1, IdleCall, Zenon DEF DataInv
<1>3. ~lcm_past /\ \A d \in Callers : lcm_call'[d].pc # "copy"
  BY <1>1, <1>2, IdleCall, SMT DEF HolderInv
<1>4. HolderInv'
  BY <1>1, <1>3, SMT DEF HolderInv
<1>5. CallInv(LcmIdle, lcm_data)
  BY IdleCall, SMT DEF CallInv
<1>6. QED
  BY <1>1, <1>2, <1>4, <1>5 DEF DataInv, CopyInv

\* The holder copies one cell: a reader takes it from the data it saw, and a
\* writer has no reader beside it.
LEMMA CopyStep ==
  ASSUME LcmInv, NEW c \in Callers, NEW v \in Values, Copy(c, v) PROVE LcmInv'
<1> USE DEF LcmInv
<1> DEFINE q == lcm_call[c]
           r == [q EXCEPT !.got = Append(q.got, v)]
<1>1. /\ q.pc = "copy" /\ Len(q.got) < q.count
      /\ lcm_call' = [lcm_call EXCEPT ![c] = r]
      /\ UNCHANGED <<lcm_sem, lcm_past>>
  BY DEF Copy
<1>2. q \in LcmCalls /\ CallInv(q, lcm_data)
  BY Zenon DEF DataInv, CopyInv
<1>3. q.op = "read" => v = lcm_data[q.p + Len(q.got)] /\ lcm_data' = lcm_data
  BY SMT DEF Copy, Cell
<1>4. lcm_data' \in [Cells -> Values]
  <2>1. CASE q.op = "read"
    BY <1>3, <2>1 DEF DataInv
  <2>2. CASE q.op # "read"
    <3>1. lcm_data' = [lcm_data EXCEPT ![Cell(c)] = v]
      BY <2>2 DEF Copy
    <3>2. QED
      BY <3>1, Zenon DEF DataInv
  <2>3. QED
    BY <2>1, <2>2
<1> HIDE DEF q
<1>5. q.got \in Seq(Values) /\ Append(q.got, v) \in Seq(Values)
      /\ Len(q.got) \in Nat /\ q.p \in Nat /\ q.count \in Nat
  BY <1>2, SMT DEF LcmCalls
<1>6. /\ r \in LcmCalls /\ r.pc = q.pc /\ r.p = q.p /\ r.count = q.count
      /\ r.op = q.op /\ r.clean = q.clean /\ r.snap = q.snap
      /\ r.got = Append(q.got, v)
  BY <1>2, <1>5, CallWithGot
<1> HIDE DEF r
<1>7. CallInv(r, lcm_data')
  <2>1. Len(r.got) = Len(q.got) + 1 /\ r.p + r.count <= Size
    BY <1>1, <1>2, <1>5, <1>6, SMT DEF CallInv
  <2>2. ASSUME r.op = "read", ~r.clean
        PROVE  /\ r.snap = lcm_data'
               /\ \A i \in 1 .. Len(r.got) : r.got[i] = lcm_data'[r.p + i - 1]
    <3>1. /\ q.snap = lcm_data /\ v = lcm_data[q.p + Len(q.got)]
          /\ lcm_data' = lcm_data
          /\ \A i \in 1 .. Len(q.got) : q.got[i] = lcm_data[q.p + i - 1]
      BY <1>1, <1>2, <1>3, <1>6, <2>2, Zenon DEF CallInv
    <3>2. ASSUME NEW i \in 1 .. Len(r.got)
          PROVE  r.got[i] = lcm_data[r.p + i - 1]
      <4>1. CASE i = Len(q.got) + 1
        <5>1. r.got[i] = v
          BY <1>5, <1>6, <4>1, SMT
        <5>2. r.p + i - 1 = q.p + Len(q.got)
          BY <1>5, <1>6, <4>1, SMT
        <5>3. QED
          BY <3>1, <5>1, <5>2
      <4>2. CASE i # Len(q.got) + 1
        <5>1. i \in 1 .. Len(q.got)
          BY <1>5, <2>1, <4>2, SMT
        <5>2. r.got[i] = q.got[i]
          BY <1>5, <1>6, <5>1, SMT
        <5>3. QED
          BY <1>6, <3>1, <5>1, <5>2
      <4>3. QED
        BY <4>1, <4>2
    <3>3. QED
      BY <1>6, <3>1, <3>2
  <2>3. Len(r.got) <= r.count /\ r.pc = "copy"
    BY <1>1, <1>5, <1>6, <2>1, SMT
  <2>4. QED
    BY <2>1, <2>2, <2>3, SMT DEF CallInv
<1>8. /\ lcm_call' \in [Callers -> LcmCalls] /\ lcm_call'[c] = r
      /\ \A d \in Callers : d # c => lcm_call'[d] = lcm_call[d]
  BY <1>1, <1>6, Zenon DEF DataInv
<1>9. \A d \in Callers : d # c => lcm_call[d].pc # "copy"
  BY <1>1, Zenon DEF HolderInv, q
<1>10. \A d \in Callers : lcm_call'[d].pc = "copy" <=> lcm_call[d].pc = "copy"
  BY <1>6, <1>8, Zenon DEF q
<1>11. HolderInv'
  BY <1>1, <1>10, Zenon DEF HolderInv
<1>12. ASSUME NEW d \in Callers, d # c PROVE CallInv(lcm_call'[d], lcm_data')
  BY <1>8, <1>9, <1>12, Zenon DEF CopyInv, CallInv
<1>13. QED
  BY <1>1, <1>4, <1>7, <1>8, <1>11, <1>12 DEF DataInv, CopyInv

LEMMA LcmStep == LcmInv /\ [LcmNext]_lcmVars => LcmInv'
<1> SUFFICES ASSUME LcmInv, [LcmNext]_lcmVars PROVE LcmInv'
  OBVIOUS
<1>1. CASE UNCHANGED <<lcm_data, lcm_sem, lcm_call, lcm_past>>
  BY <1>1, Zenon DEF LcmInv, DataInv, HolderInv, CopyInv
<1>2. 0 .. Size + 1 \subseteq Nat
  BY SMT
<1>3. QED
  BY <1>1, <1>2, EnterStep, InterruptedStep, CleanStep, DownStep, LeaveStep,
     CopyStep
     DEF LcmNext, lcmVars, lcminfo_open, lcminfo_release, lcminfo_llseek

-----------------------------------------------------------------------------
\* For any callers and any size, reads and writes exclude each other, stay
\* inside the data and read it whole, whatever llseek and CLEAN do meanwhile,
\* and only a return past the end (154, 183) loses the semaphore.
THEOREM SemaphoreTheorem == LcmSpec => []LcmSemaphore
<1>1. LcmInv => LcmSemaphore
  <2> SUFFICES ASSUME LcmInv PROVE LcmSemaphore
    OBVIOUS
  <2>1. /\ \A c, d \in Inside : c = d
        /\ lcm_sem = 0 <=> Inside # {} \/ lcm_past
        /\ lcm_past => Inside = {}
    BY Zenon DEF LcmInv, HolderInv, Inside
  <2>2. ASSUME NEW c \in Inside
        PROVE  /\ lcm_call[c].p + lcm_call[c].count <= Size
               /\ lcm_call[c].op = "read" /\ ~lcm_call[c].clean =>
                    \A i \in 1 .. Len(lcm_call[c].got) :
                      lcm_call[c].got[i] = lcm_call[c].snap[lcm_call[c].p + i - 1]
    BY Zenon DEF LcmInv, CopyInv, CallInv, Inside
  <2>3. QED
    BY <2>1, <2>2 DEF LcmSemaphore
<1>2. QED
  BY <1>1, LcmInitially, LcmStep, PTL DEF LcmSpec

HIDE LcmAssumption DEF LcmAssumption
-----------------------------------------------------------------------------
(* The tz_mem device.                                                      *)

\* What the first n sectors of a segment at s put in tz_moved.
Sectors(s, n) == [k \in 1 .. n |-> <<s + k - 1, k - 1>>]

\* A segment is tested against a size that is zero until the disk is ready, and
\* from then on the whole pool; what was asked for is a beginning of it.
TzInv ==
  /\ TzTypeOK
  /\ tz_disk # "ready" => tz_info.size = 0
  /\ tz_pc # "fetch" => tz_disk \in {"added", "ready"} /\ tz_req.segs # <<>>
  /\ tz_pc \in {"fetch", "test"} => tz_moved = <<>> /\ tz_i = 0
  /\ tz_pc = "pieces" =>
       /\ ~tz_err /\ tz_req.start + SegLen <= tz_info.size
       /\ tz_i <= SegLen \div Piece
       /\ tz_moved = Sectors(tz_req.start, tz_i * Piece)
  /\ tz_pc = "end" =>
       IF tz_err THEN tz_moved = <<>>
       ELSE /\ tz_req.start + SegLen <= tz_info.size
            /\ tz_moved = Sectors(tz_req.start, SegLen)

LEMMA SectorsType ==
  ASSUME NEW s \in Nat, NEW n \in Nat
  PROVE  /\ Sectors(s, n) \in Seq(Nat \X Nat)
         /\ Len(Sectors(s, n)) = n
         /\ \A k \in 1 .. n : Sectors(s, n)[k] = <<s + k - 1, k - 1>>
BY DEF Sectors

LEMMA NoSectors == ASSUME NEW s \in Nat PROVE Sectors(s, 0) = <<>>
<1>1. Sectors(s, 0) \in Seq(Nat \X Nat) /\ Len(Sectors(s, 0)) = 0
  BY SectorsType
<1>2. QED
  BY <1>1

\* n sectors more, placed where the first a end.
LEMMA MoreSectors ==
  ASSUME NEW s \in Nat, NEW a \in Nat, NEW n \in Nat
  PROVE  Sectors(s, a) \o [k \in 1 .. n |-> <<s + a + k - 1, a + k - 1>>] =
           Sectors(s, a + n)
<1> DEFINE more == [k \in 1 .. n |-> <<s + a + k - 1, a + k - 1>>]
           p == Sectors(s, a)
           q == Sectors(s, a + n)
<1> DEFINE T == Nat \X Nat
<1>1. a + n \in Nat
  OBVIOUS
<1>2. p \in Seq(T) /\ Len(p) = a /\ \A k \in 1 .. a : p[k] = <<s + k - 1, k - 1>>
  BY SectorsType
<1>3. /\ q \in Seq(T) /\ Len(q) = a + n
      /\ \A k \in 1 .. a + n : q[k] = <<s + k - 1, k - 1>>
  BY <1>1, SectorsType
<1>4. /\ more \in Seq(T) /\ Len(more) = n
      /\ \A k \in 1 .. n : more[k] = <<s + a + k - 1, a + k - 1>>
  OBVIOUS
<1> HIDE DEF more, p, q, T
<1>5. /\ p \o more \in Seq(T) /\ Len(p \o more) = a + n
      /\ \A k \in 1 .. a + n :
           (p \o more)[k] = IF k <= a THEN p[k] ELSE more[k - a]
  BY <1>2, <1>4, ConcatProperties
<1>6. ASSUME NEW k \in 1 .. a + n PROVE (p \o more)[k] = q[k]
  <2>1. CASE k <= a
    <3>1. k \in 1 .. a
      BY <2>1
    <3>2. (p \o more)[k] = p[k]
      BY <1>5, <2>1
    <3>3. QED
      BY <1>2, <1>3, <3>1, <3>2
  <2>2. CASE ~(k <= a)
    <3>1. k - a \in 1 .. n /\ s + a + (k - a) - 1 = s + k - 1
          /\ a + (k - a) - 1 = k - 1
      BY <2>2
    <3>2. more[k - a] = <<s + k - 1, k - 1>>
      BY <1>4, <3>1
    <3>3. (p \o more)[k] = more[k - a]
      BY <1>5, <2>2
    <3>4. QED
      BY <1>3, <3>2, <3>3
  <2>3. QED
    BY <2>1, <2>2
<1>7. p \o more = q
  BY <1>1, <1>3, <1>5, <1>6, SeqEqual
<1>8. QED
  BY <1>7 DEF more, p, q

\* Whole pieces and a rest.
LEMMA Multiples ==
  ASSUME NEW d \in Nat, NEW p \in Nat, NEW r \in Nat, NEW i \in Nat, i <= d
  PROVE  /\ i * p \in Nat /\ i * p <= d * p + r
         /\ i * p + p = (i + 1) * p
<1>1. d - i \in Nat /\ i * p \in Nat /\ (d - i) * p \in Nat
  <2>1. d - i \in Nat
    OBVIOUS
  <2>2. QED
    BY <2>1
<1>2. d * p = i * p + (d - i) * p
  OBVIOUS
<1>3. (i + 1) * p = i * p + p
  OBVIOUS
<1>4. QED
  BY <1>1, <1>2, <1>3

LEMMA Commutes == \A p, d \in Nat : p * d = d * p
OBVIOUS

LEMMA PiecesAndRest ==
  ASSUME NEW n \in Nat, NEW p \in Nat \ {0}, NEW i \in Nat, i <= n \div p
  PROVE  /\ i * p \in Nat /\ i * p <= n /\ n % p \in Nat
         /\ i * p + p = (i + 1) * p
         /\ i = n \div p => i * p + (n % p) = n
<1>1. /\ n \div p \in Nat /\ n % p \in Nat /\ p \in Nat
      /\ n = (n \div p) * p + (n % p)
  <2>1. n \div p \in Nat /\ n % p \in Nat /\ n = p * (n \div p) + (n % p)
    OBVIOUS
  <2>2. p * (n \div p) = (n \div p) * p
    BY <2>1, Commutes, Zenon
  <2>3. QED
    BY <2>1, <2>2, Zenon
<1>2. i * p \in Nat /\ i * p <= (n \div p) * p + (n % p) /\ i * p + p = (i + 1) * p
  BY <1>1, Multiples
<1>3. i * p <= n
  BY <1>1, <1>2, Zenon
<1>4. i = n \div p => i * p + (n % p) = n
  BY <1>1, Zenon
<1>5. QED
  BY <1>1, <1>2, <1>3, <1>4, Zenon

-----------------------------------------------------------------------------
LEMMA TzInitially == TzInit => TzInv
<1> SUFFICES ASSUME TzInit PROVE TzInv
  OBVIOUS
<1> USE DEF TzInit
<1>1. TzTypeOK
  <2>1. tz_session \in BOOLEAN /\ tz_err \in BOOLEAN
    BY Zenon
  <2>2. tz_req \in [start : Nat, segs : Seq(Nat)] /\ tz_moved \in Seq(Nat \X Nat)
    OBVIOUS
  <2>3. tz_info \in [session : BOOLEAN, size : {0, PoolSize}]
    OBVIOUS
  <2>4. QED
    BY <2>1, <2>2, <2>3, TzAssumption DEF TzAssumption, TzTypeOK
<1>2. QED
  BY <1>1 DEF TzInv

DiskInfo == [session : BOOLEAN, size : {0, PoolSize}]

LEMMA SessionSet ==
  ASSUME NEW i \in DiskInfo, NEW v \in BOOLEAN
  PROVE  /\ [i EXCEPT !.session = v] \in DiskInfo
         /\ [i EXCEPT !.session = v].size = i.size
BY SMT DEF DiskInfo

LEMMA SizeSet ==
  ASSUME NEW i \in DiskInfo
  PROVE  /\ [i EXCEPT !.size = PoolSize] \in DiskInfo
         /\ [i EXCEPT !.size = PoolSize].size = PoolSize
BY SMT DEF DiskInfo

\* The probe: while a request is served the disk is added or ready, and what
\* the probe sets then only grows the size.
LEMMA ProbeStep ==
  ASSUME TzInv,
         \/ ProbeQueue \/ ProbeFails \/ ProbeAdd \/ ProbeSession \/ ProbeReady
  PROVE  TzInv'
<1> USE TzAssumption DEF TzAssumption
<1>1. /\ UNCHANGED reqVars /\ TzTypeOK
      /\ tz_disk # "ready" => tz_info.size = 0
      /\ tz_pc # "fetch" => tz_disk \in {"added", "ready"}
  BY DEF ProbeQueue, ProbeFails, ProbeAdd, ProbeSession, ProbeReady, TzInv
<1>2. /\ tz_info' \in [session : BOOLEAN, size : {0, PoolSize}]
      /\ tz_info.size <= tz_info'.size
      /\ tz_disk' # "ready" => tz_info'.size = 0
      /\ tz_pc # "fetch" => tz_disk' \in {"added", "ready"}
  <2>1. CASE ProbeReady
    <3>1. tz_disk = "added" /\ tz_info.size = 0 /\ tz_pc' = tz_pc
          /\ tz_disk' \in {"added", "ready"}
      BY <1>1, <2>1 DEF ProbeReady, reqVars
    <3>2. CASE tz_info' = [tz_info EXCEPT !.session = TRUE] /\ tz_disk' = tz_disk
      <4>1. tz_info' \in DiskInfo /\ tz_info'.size = tz_info.size
        BY <1>1, <3>2, SessionSet, Zenon DEF TzTypeOK, DiskInfo
      <4>2. QED
        BY <1>1, <3>1, <3>2, <4>1 DEF DiskInfo
    <3>3. CASE tz_info' = [tz_info EXCEPT !.size = PoolSize]
               /\ tz_disk' = "ready"
      <4>1. tz_info' \in DiskInfo /\ tz_info'.size = PoolSize
        BY <1>1, <3>3, SizeSet, Zenon DEF TzTypeOK, DiskInfo
      <4>2. QED
        BY <1>1, <3>1, <3>3, <4>1 DEF DiskInfo
    <3>4. QED
      BY <2>1, <3>2, <3>3 DEF ProbeReady
  <2>2. CASE ~ProbeReady
    BY <1>1, <2>2
    DEF ProbeQueue, ProbeFails, ProbeAdd, ProbeSession, TzTypeOK
  <2>3. QED
    BY <2>1, <2>2
<1>3. TzTypeOK'
  BY <1>1, <1>2
  DEF TzTypeOK, reqVars, ProbeQueue, ProbeFails, ProbeAdd, ProbeSession,
      ProbeReady
<1>4. tz_req.start \in Nat /\ tz_info.size \in Nat /\ tz_info'.size \in Nat
      /\ (tz_pc # "fetch" => SegLen \in Nat)
  BY <1>1, <1>2 DEF TzTypeOK, TzInv, SegLen
<1>5. SegLen' = SegLen
  BY <1>1 DEF reqVars, SegLen
<1>6. QED
  BY <1>1, <1>2, <1>3, <1>4, <1>5 DEF TzInv, reqVars, Sectors

LEMMA FetchStep == ASSUME TzInv, NEW r \in Requests, Fetch(r) PROVE TzInv'
<1> USE TzAssumption DEF TzAssumption, Fetch
<1>1. r.start \in Nat /\ r.segs \in Seq(Nat) /\ r.segs # <<>>
  <2>1. r.start \in Nat
    BY DEF Requests
  <2>2. PICK n \in 1 .. MaxSegs : r.segs \in [1 .. n -> 0 .. MaxSeg]
    BY DEF Requests
  <2>3. QED
    BY <2>1, <2>2
<1>2. r \in [start : Nat, segs : Seq(Nat)]
  BY <1>1 DEF Requests
<1>3. TzTypeOK'
  BY <1>2 DEF TzInv, TzTypeOK
<1>4. QED
  BY <1>1, <1>3 DEF TzInv

LEMMA TzTestStep == ASSUME TzInv, Test PROVE TzInv'
<1>1. /\ TzTypeOK /\ tz_pc = "test" /\ tz_moved = <<>> /\ tz_i = 0
      /\ tz_req.segs # <<>> /\ tz_req.start \in Nat /\ tz_info.size \in Nat
      /\ UNCHANGED <<tz_disk, tz_info, tz_tries, tz_req, tz_session, tz_i,
                     tz_moved>>
  BY TzAssumption DEF TzAssumption, TzInv, TzTypeOK, Test
<1>2. SegLen \in Nat /\ SegLen' = SegLen
  BY <1>1 DEF TzTypeOK, SegLen
<1>3. Outside \in BOOLEAN /\ tz_err' = Outside
      /\ tz_pc' = IF Outside THEN "end" ELSE "pieces"
  BY Zenon DEF Outside, Test
<1>4. ~Outside => tz_req.start + SegLen <= tz_info.size
  BY <1>1, <1>2 DEF Outside
<1>5. TzTypeOK'
  <2>1. tz_blind' \in Nat
    BY <1>1 DEF Test, TzTypeOK
  <2>2. QED
    BY <1>1, <1>3, <2>1 DEF TzTypeOK
<1>6. tz_i * Piece = 0 /\ tz_i <= SegLen \div Piece
  BY <1>1, <1>2, TzAssumption DEF TzAssumption
<1>7. tz_moved = Sectors(tz_req.start, tz_i * Piece)
  BY <1>1, <1>6, NoSectors
<1>8. QED
  BY <1>1, <1>2, <1>3, <1>4, <1>5, <1>6, <1>7 DEF TzInv, Sectors

\* One call of the trusted world.
LEMMA PiecesStep == ASSUME TzInv, Pieces PROVE TzInv'
<1> DEFINE s == tz_req.start
           n == SegLen
           a == tz_i * Piece
<1>1. /\ TzTypeOK /\ tz_pc = "pieces" /\ ~tz_err /\ s + n <= tz_info.size
      /\ tz_i <= n \div Piece /\ tz_moved = Sectors(s, a)
      /\ tz_req.segs # <<>>
      /\ UNCHANGED <<tz_disk, tz_info, tz_tries, tz_req, tz_session, tz_err,
                     tz_blind>>
  BY DEF TzInv, Pieces
<1>2. s \in Nat /\ n \in Nat /\ tz_i \in Nat /\ Piece \in Nat \ {0}
      /\ SegLen' = n
  BY <1>1, TzAssumption DEF TzAssumption, TzTypeOK, SegLen
<1>3. /\ a \in Nat /\ a <= n /\ Rest \in Nat
      /\ a + Piece = (tz_i + 1) * Piece
      /\ tz_i = n \div Piece => a + Rest = n
  BY <1>1, <1>2, PiecesAndRest DEF Rest
<1>4. ASSUME NEW m \in Nat PROVE tz_moved \o Moved(m) = Sectors(s, a + m)
  BY <1>1, <1>2, <1>3, MoreSectors DEF Moved
<1> HIDE DEF a
<1>5. CASE tz_i < n \div Piece
  <2>1. /\ tz_moved' = tz_moved \o Moved(Piece) /\ tz_i' = tz_i + 1
        /\ tz_pc' = tz_pc
    BY <1>5 DEF Pieces
  <2>2. tz_moved' = Sectors(s, (tz_i + 1) * Piece) /\ (tz_i + 1) * Piece \in Nat
    <3>1. tz_moved' = Sectors(s, a + Piece)
      BY <1>2, <1>4, <2>1, Zenon
    <3> HIDE DEF s, n
    <3>2. a + Piece \in Nat
      BY <1>2, <1>3
    <3>3. QED
      BY <1>3, <3>1, <3>2, Zenon
  <2>3. tz_moved' \in Seq(Nat \X Nat)
    BY <1>2, <2>2, SectorsType
  <2>4. TzTypeOK'
    BY <1>1, <1>2, <2>1, <2>3 DEF TzTypeOK
  <2>5. tz_moved' = Sectors(s, tz_i * Piece)'
    BY <1>1, <2>1, <2>2, Zenon DEF Sectors
  <2>6. QED
    BY <1>1, <1>2, <1>3, <1>5, <2>1, <2>4, <2>5 DEF TzInv
<1>6. CASE ~(tz_i < n \div Piece)
  <2>1. /\ tz_moved' = tz_moved \o Moved(Rest) /\ tz_i' = tz_i
        /\ tz_pc' = "end"
    BY <1>6 DEF Pieces
  <2>2. tz_i = n \div Piece
    BY <1>1, <1>2, <1>6
  <2>3. tz_moved' = Sectors(s, n)
    BY <1>3, <1>4, <2>1, <2>2
  <2>4. tz_moved' \in Seq(Nat \X Nat)
    BY <1>2, <2>3, SectorsType
  <2>5. TzTypeOK'
    BY <1>1, <2>1, <2>4 DEF TzTypeOK
  <2>6. tz_moved' = Sectors(s, n)'
    BY <1>1, <1>2, <2>3 DEF Sectors
  <2>7. QED
    BY <1>1, <1>2, <2>1, <2>5, <2>6 DEF TzInv
<1>7. QED
  BY <1>5, <1>6

LEMMA EndStep == ASSUME TzInv, End PROVE TzInv'
<1>1. TzTypeOK /\ tz_req.segs # <<>> /\ tz_disk \in {"added", "ready"}
      /\ tz_req.segs \in Seq(Nat) /\ tz_req.start \in Nat
  BY DEF TzInv, TzTypeOK, End
<1> DEFINE segs == Tail(tz_req.segs)
           start == tz_req.start + SegLen
<1>2. /\ segs \in Seq(Nat) /\ Len(segs) = Len(tz_req.segs) - 1
      /\ Head(tz_req.segs) \in Nat
  <2> DEFINE q == tz_req.segs
  <2>1. q \in Seq(Nat) /\ q # <<>>
    BY <1>1
  <2> HIDE DEF q
  <2>2. Tail(q) \in Seq(Nat) /\ Len(Tail(q)) = Len(q) - 1 /\ Head(q) \in Nat
    BY <2>1, HeadTailProperties
  <2>3. QED
    BY <2>2 DEF q
<1>3. start \in Nat /\ (Len(tz_req.segs) > 1 => segs # <<>>)
  <2>1. start \in Nat
    BY <1>1, <1>2 DEF SegLen
  <2>2. Len(tz_req.segs) > 1 => Len(segs) # 0
    <3>1. Len(tz_req.segs) \in Nat /\ Len(segs) \in Nat
      BY <1>1, <1>2, LenProperties
    <3> DEFINE l == Len(tz_req.segs)
               m == Len(segs)
    <3>2. l \in Nat /\ m \in Nat /\ m = l - 1
      BY <1>2, <3>1
    <3> HIDE DEF l, m
    <3>3. l > 1 => m # 0
      BY <3>2
    <3>4. QED
      BY <3>3 DEF l, m
  <2>3. Len(<<>>) = 0
    OBVIOUS
  <2>4. QED
    BY <2>1, <2>2, <2>3, Zenon
<1> HIDE DEF segs, start
<1>4. tz_req' = [start |-> start, segs |-> segs]
  BY DEF End, segs, start
<1>5. tz_req' \in [start : Nat, segs : Seq(Nat)] /\ tz_req'.segs = segs
  BY <1>2, <1>3, <1>4
<1>6. tz_session' \in BOOLEAN /\ tz_err' \in BOOLEAN
  <2>1. tz_info \in DiskInfo /\ tz_session' = tz_info.session /\ tz_err' = FALSE
    BY <1>1 DEF TzTypeOK, DiskInfo, End
  <2>2. tz_info.session \in BOOLEAN
    BY <2>1, SMT DEF DiskInfo
  <2>3. QED
    BY <2>1, <2>2, Zenon
<1>7. TzTypeOK'
  BY <1>1, <1>5, <1>6 DEF TzTypeOK, End
<1>8. QED
  BY <1>1, <1>3, <1>5, <1>7 DEF TzInv, End

\* A segment gets through without a session only if the probe ended between
\* the reading of the session and the test of the size; all later ones read it.
BlindInv ==
  /\ tz_info.size # 0 => tz_info.session
  /\ tz_blind <= 1
  /\ tz_blind = 1 => tz_info.session /\ (tz_pc = "test" => tz_session)

LEMMA BlindInitially == TzInit => BlindInv
BY DEF TzInit, BlindInv

LEMMA SessionKept ==
  ASSUME NEW i \in DiskInfo
  PROVE  /\ [i EXCEPT !.session = TRUE].session
         /\ [i EXCEPT !.size = PoolSize].session = i.session
BY SMT DEF DiskInfo

LEMMA BlindStep == TzInv /\ BlindInv /\ [TzNext]_tzVars => BlindInv'
<1> SUFFICES ASSUME TzInv, BlindInv, [TzNext]_tzVars PROVE BlindInv'
  OBVIOUS
<1>1. tz_info \in DiskInfo /\ tz_blind \in Nat
  BY DEF TzInv, TzTypeOK, DiskInfo
<1>2. CASE ProbeReady
  <2>1. UNCHANGED <<tz_blind, tz_pc, tz_session>>
    BY <1>2 DEF ProbeReady, reqVars
  <2>2. tz_info'.session
    <3>1. CASE ~tz_info.session /\ tz_info' = [tz_info EXCEPT !.session = TRUE]
      BY <1>1, <3>1, SessionKept, Zenon
    <3>2. CASE tz_info.session /\ tz_info' = [tz_info EXCEPT !.size = PoolSize]
      BY <1>1, <3>2, SessionKept, Zenon
    <3>3. QED
      BY <1>2, <3>1, <3>2, Zenon DEF ProbeReady
  <2>3. QED
    BY <2>1, <2>2, Zenon DEF BlindInv
<1>3. CASE ProbeQueue \/ ProbeFails \/ ProbeAdd \/ ProbeSession
  BY <1>3 DEF ProbeQueue, ProbeFails, ProbeAdd, ProbeSession, reqVars, BlindInv
<1>4. ASSUME NEW r \in Requests, Fetch(r) PROVE BlindInv'
  BY <1>4 DEF Fetch, BlindInv
<1>5. CASE Test
  <2>1. /\ tz_pc = "test" /\ UNCHANGED <<tz_info, tz_session>>
        /\ tz_pc' # "test"
        /\ tz_blind' = IF Blind THEN tz_blind + 1 ELSE tz_blind
    BY <1>5, Zenon DEF Test
  <2>2. Blind => ~tz_session /\ tz_info.size # 0
    <3>1. SegLen \in Nat /\ tz_req.start \in Nat /\ tz_info.size \in Nat
      BY <2>1, TzAssumption DEF TzAssumption, TzInv, TzTypeOK, SegLen
    <3>2. QED
      BY <3>1 DEF Blind, Outside
  <2>3. QED
    BY <1>1, <2>1, <2>2 DEF BlindInv
<1>6. CASE Pieces \/ End
  BY <1>6 DEF Pieces, End, BlindInv
<1>7. CASE UNCHANGED tzVars
  BY <1>7 DEF tzVars, reqVars, BlindInv
<1>8. QED
  BY <1>2, <1>3, <1>4, <1>5, <1>6, <1>7 DEF TzNext

LEMMA TzStep == TzInv /\ [TzNext]_tzVars => TzInv'
<1> SUFFICES ASSUME TzInv, [TzNext]_tzVars PROVE TzInv'
  OBVIOUS
<1>1. CASE UNCHANGED tzVars
  BY <1>1 DEF tzVars, reqVars, TzInv, TzTypeOK, SegLen, Sectors
<1>2. QED
  BY <1>1, ProbeStep, FetchStep, TzTestStep, PiecesStep, EndStep DEF TzNext

\* For any pool and piece, every segment is asked for once, in order and inside
\* the pool, or fails as a whole, whenever the probe sets the size (262-274),
\* and one at most is asked for without a session.
THEOREM TransfersTheorem == TzSpec => []TzTransfersOnce
<1>1. TzInv /\ BlindInv => TzTransfersOnce
  <2> SUFFICES ASSUME TzInv, BlindInv PROVE TzTransfersOnce
    OBVIOUS
  <2>1. tz_pc = "end" =>
          tz_moved = IF tz_err THEN <<>>
                     ELSE [k \in 1 .. SegLen |-> <<tz_req.start + k - 1, k - 1>>]
    BY DEF TzInv, Sectors
  <2>2. /\ tz_req.start \in Nat /\ tz_info.size \in Nat
        /\ tz_info.size <= PoolSize /\ PoolSize \in Nat
        /\ tz_pc # "fetch" => SegLen \in Nat
    BY TzAssumption DEF TzAssumption, TzInv, TzTypeOK, SegLen
  <2>3. \A k \in 1 .. Len(tz_moved) : tz_moved[k][1] < PoolSize
    <3>1. ASSUME NEW m \in Nat, tz_moved = Sectors(tz_req.start, m),
                 tz_req.start + m <= PoolSize
          PROVE  \A k \in 1 .. Len(tz_moved) : tz_moved[k][1] < PoolSize
      <4>1. \A k \in 1 .. m : tz_moved[k] = <<tz_req.start + k - 1, k - 1>>
        BY <2>2, <3>1, SectorsType
      <4>2. Len(tz_moved) = m
        BY <2>2, <3>1, SectorsType
      <4>3. QED
        BY <2>2, <3>1, <4>1, <4>2
    <3>2. CASE tz_moved = <<>>
      BY <3>2
    <3>3. CASE tz_pc = "pieces"
      <4>1. tz_i * Piece \in Nat /\ tz_i * Piece <= SegLen
        BY <2>2, <3>3, PiecesAndRest, TzAssumption
        DEF TzAssumption, TzInv, TzTypeOK
      <4>2. tz_req.start + tz_i * Piece <= PoolSize
        BY <2>2, <3>3, <4>1 DEF TzInv
      <4>3. QED
        BY <3>1, <3>3, <4>1, <4>2 DEF TzInv
    <3>4. CASE tz_pc = "end" /\ ~tz_err
      BY <2>2, <3>1, <3>4 DEF TzInv
    <3>5. QED
      BY <3>2, <3>3, <3>4 DEF TzInv, TzTypeOK
  <2>4. tz_disk = "added" /\ tz_pc = "end" => tz_err \/ SegLen + tz_req.start = 0
    BY <2>2 DEF TzInv
  <2>5. QED
    BY <2>1, <2>3, <2>4 DEF TzTransfersOnce, BlindInv
<1>2. QED
  BY <1>1, TzInitially, TzStep, BlindInitially, BlindStep, PTL DEF TzSpec

-----------------------------------------------------------------------------
\* What LcmInv leaves open of the types: the count is that of the open files,
\* and every position is inside the data.
LcmPlaces ==
  /\ lcm_open \subseteq Files /\ IsFiniteSet(lcm_open)
  /\ lcm_count = Cardinality(lcm_open)
  /\ lcm_pos \in [Files -> 0 .. Size] /\ lcm_past \in BOOLEAN

LEMMA PlacesStep ==
  LcmInv /\ LcmPlaces /\ [LcmNext]_lcmVars => LcmPlaces'
<1> USE LcmAssumption DEF LcmAssumption
<1> SUFFICES ASSUME LcmInv, LcmPlaces, [LcmNext]_lcmVars PROVE LcmPlaces'
  OBVIOUS
<1> USE DEF LcmPlaces
<1>1. ASSUME NEW f \in Files, lcminfo_open(f) PROVE LcmPlaces'
  <2>1. Cardinality(lcm_open') = lcm_count' /\ IsFiniteSet(lcm_open')
    BY <1>1, FS_AddElement DEF lcminfo_open
  <2>2. lcm_pos' \in [Files -> 0 .. Size]
    BY <1>1 DEF lcminfo_open
  <2>3. lcm_open' \subseteq Files /\ lcm_past' = lcm_past
    BY <1>1 DEF lcminfo_open
  <2>4. QED
    BY <2>1, <2>2, <2>3
<1>2. ASSUME NEW f \in Files, lcminfo_release(f) PROVE LcmPlaces'
  <2>1. Cardinality(lcm_open') = lcm_count' /\ IsFiniteSet(lcm_open')
    BY <1>2, FS_RemoveElement DEF lcminfo_release
  <2>2. QED
    BY <1>2, <2>1 DEF lcminfo_release
<1>3. ASSUME NEW f \in Files, NEW p \in 0 .. Size + 1, lcminfo_llseek(f, p)
      PROVE  LcmPlaces'
  BY <1>3 DEF lcminfo_llseek
<1>4. ASSUME NEW c \in Callers, Leave(c) PROVE LcmPlaces'
  <2>1. lcm_call[c] \in LcmCalls /\ CallInv(lcm_call[c], lcm_data)
    BY Zenon DEF LcmInv, DataInv, CopyInv
  <2>2. lcm_call[c].p + lcm_call[c].count \in 0 .. Size
    BY <1>4, <2>1 DEF LcmCalls, CallInv, Leave
  <2>3. lcm_pos' \in [Files -> 0 .. Size]
    BY <1>4, <2>2 DEF Leave
  <2>4. QED
    BY <1>4, <2>3 DEF Leave
<1>5. ASSUME NEW c \in Callers, Down(c) PROVE LcmPlaces'
  <2>1. lcm_past' \in BOOLEAN
    BY <1>5, Zenon DEF Down
  <2>2. QED
    BY <1>5, <2>1 DEF Down
<1>6. CASE UNCHANGED <<lcm_open, lcm_count, lcm_pos, lcm_past>>
  BY <1>6
<1>7. QED
  BY <1>1, <1>2, <1>3, <1>4, <1>5, <1>6
     DEF LcmNext, lcmVars, Clean, Enter, Interrupted, Copy

LEMMA PlacesInitially == LcmInit => LcmPlaces
<1> USE LcmAssumption DEF LcmAssumption
<1> SUFFICES ASSUME LcmInit PROVE LcmPlaces
  OBVIOUS
<1>1. /\ IsFiniteSet(lcm_open) /\ lcm_count = Cardinality(lcm_open)
      /\ lcm_open \subseteq Files
  BY FS_EmptySet DEF LcmInit
<1>2. lcm_pos \in [Files -> 0 .. Size]
  BY DEF LcmInit
<1>3. lcm_past \in BOOLEAN
  BY Zenon DEF LcmInit
<1>4. QED
  BY <1>1, <1>2, <1>3 DEF LcmPlaces

LEMMA LcmTypes == LcmInv /\ LcmPlaces => LcmTypeOK
<1> USE LcmAssumption DEF LcmAssumption
<1> SUFFICES ASSUME LcmInv, LcmPlaces PROVE LcmTypeOK
  OBVIOUS
<1>1. LcmIdle.file \in Files
  BY DEF LcmIdle
<1>2. lcm_count \in Nat
  BY FS_CardinalityType DEF LcmPlaces
<1>3. ASSUME NEW c \in Callers
      PROVE  /\ lcm_call[c].pc \in {"idle", "down", "copy"}
             /\ lcm_call[c].op \in {"read", "write"}
             /\ lcm_call[c].file \in Files
             /\ lcm_call[c].p \in Nat /\ lcm_call[c].count \in Nat
  <2>1. lcm_call[c] \in LcmCalls
    BY Zenon DEF LcmInv, DataInv
  <2>2. QED
    BY <1>1, <2>1 DEF LcmCalls
<1>4. QED
  BY <1>2, <1>3 DEF LcmTypeOK, LcmInv, DataInv, LcmPlaces

\* A copy that is not stale is the register it is about to replace.
CopyIsRegister ==
  \A t \in Threads : ncp_pc[t] = "write" /\ ~ncp_stale[t] =>
                       ncp_seen[t] = ncp_chip[ncp_call[t].reg]

NcpInv == NcpTypeOK /\ CopyIsRegister /\ NcpCoherent

-----------------------------------------------------------------------------
LEMMA NcpInitially == NcpInit => NcpInv
<1> SUFFICES ASSUME NcpInit PROVE NcpInv
  OBVIOUS
<1> USE DEF NcpInit
<1>1. /\ ncp_call \in [Threads -> NcpCalls] /\ ncp_tainted \subseteq Regs
      /\ ncp_seen \in [Threads -> SUBSET Bits]
  BY SMT DEF NcpCalls
<1>2. ncp_stale \in [Threads -> BOOLEAN]
  BY Zenon
<1>3. ncp_pc \in [Threads -> {"idle", "read", "write"}]
  BY Zenon
<1>4. CopyIsRegister
  BY SMT DEF CopyIsRegister
<1>5. NcpCoherent
  BY DEF NcpCoherent
<1>6. QED
  BY <1>1, <1>2, <1>3, <1>4, <1>5 DEF NcpInv, NcpTypeOK

\* A setter begins its call: the registers and the other copies stay.
LEMMA BeginStep ==
  ASSUME NcpInv, NEW t \in Threads, NEW r \in Regs, NEW m \in SUBSET Bits,
         NEW v \in SUBSET Bits, Begin(t, r, m, v)
  PROVE  NcpInv'
<1> USE DEF NcpInv, Begin
<1>1. /\ ncp_pc' \in [Threads -> {"idle", "read", "write"}]
      /\ ncp_call' \in [Threads -> NcpCalls]
  BY SMT DEF NcpTypeOK, NcpCalls
<1>2. NcpTypeOK'
  BY <1>1 DEF NcpTypeOK
<1>3. ASSUME NEW u \in Threads, ncp_pc'[u] = "write"
      PROVE  u # t /\ ncp_pc[u] = "write" /\ ncp_call'[u] = ncp_call[u]
  BY <1>3, SMT DEF NcpTypeOK
<1>4. CopyIsRegister'
  BY <1>3 DEF CopyIsRegister
<1>5. NcpCoherent'
  BY DEF NcpCoherent
<1>6. QED
  BY <1>2, <1>4, <1>5

LEMMA ReadStep ==
  ASSUME NcpInv, NEW t \in Threads, ReadByte(t) PROVE NcpInv'
<1> USE DEF NcpInv
<1>1. PICK ok \in BOOLEAN :
        /\ ncp_seen' = [ncp_seen EXCEPT
                          ![t] = IF ok THEN ncp_chip[ncp_call[t].reg] ELSE {}]
        /\ ncp_stale' = [ncp_stale EXCEPT ![t] = ~ok]
  BY DEF ReadByte
<1>2. ncp_pc' = [ncp_pc EXCEPT ![t] = "write"]
      /\ UNCHANGED <<ncp_chip, ncp_call, ncp_want, ncp_tainted>>
  BY DEF ReadByte
<1>3. ncp_call[t].reg \in Regs
  BY SMT DEF NcpTypeOK, NcpCalls
<1>4. ncp_seen' \in [Threads -> SUBSET Bits]
  BY <1>1, <1>3, SMT DEF NcpTypeOK
<1>5. ncp_stale' \in [Threads -> BOOLEAN]
  BY <1>1, Zenon DEF NcpTypeOK
<1>6. ncp_pc' \in [Threads -> {"idle", "read", "write"}]
  BY <1>2, Zenon DEF NcpTypeOK
<1>7. NcpTypeOK'
  BY <1>2, <1>4, <1>5, <1>6 DEF NcpTypeOK
<1>8. CopyIsRegister'
  <2> SUFFICES ASSUME NEW u \in Threads, ncp_pc'[u] = "write", ~ncp_stale'[u]
               PROVE  ncp_seen'[u] = ncp_chip[ncp_call[u].reg]
    BY <1>2 DEF CopyIsRegister
  <2>1. CASE u = t
    BY <1>1, <2>1, Zenon DEF NcpTypeOK
  <2>2. CASE u # t
    <3>1. /\ ncp_pc'[u] = ncp_pc[u] /\ ncp_seen'[u] = ncp_seen[u]
          /\ ncp_stale'[u] = ncp_stale[u]
      BY <1>1, <1>2, <2>2, Zenon DEF NcpTypeOK
    <3>2. QED
      BY <3>1 DEF CopyIsRegister
  <2>3. QED
    BY <2>1, <2>2
<1>9. NcpCoherent'
  BY <1>2 DEF NcpCoherent
<1>10. QED
  BY <1>7, <1>8, <1>9

LEMMA WriteStep ==
  ASSUME NcpInv, NEW t \in Threads, WriteByte(t) PROVE NcpInv'
<1> DEFINE c == ncp_call[t]
           exact == ~ncp_stale[t] /\ c.val \subseteq c.mask
<1> USE DEF NcpInv
<1>1. /\ ncp_pc[t] = "write" /\ ncp_pc' = [ncp_pc EXCEPT ![t] = "idle"]
      /\ UNCHANGED <<ncp_call, ncp_seen>>
  BY DEF WriteByte
<1>2. /\ c.reg \in Regs /\ c.mask \subseteq Bits /\ c.val \subseteq Bits
      /\ ncp_seen[t] \subseteq Bits
  BY SMT DEF NcpTypeOK, NcpCalls
<1>3. /\ ncp_pc' \in [Threads -> {"idle", "read", "write"}]
      /\ \A u \in Threads : ncp_pc'[u] = "write" => u # t /\ ncp_pc[u] = "write"
  BY <1>1, SMT DEF NcpTypeOK
<1>4. CASE UNCHANGED <<ncp_chip, ncp_want, ncp_stale, ncp_tainted>>
  BY <1>1, <1>3, <1>4 DEF NcpTypeOK, CopyIsRegister, NcpCoherent
<1>5. CASE
        /\ ncp_chip' = [ncp_chip EXCEPT
                          ![c.reg] = Configured(ncp_seen[t], c.mask, c.val)]
        /\ ncp_want' = [ncp_want EXCEPT
                          ![c.reg] = (@ \ c.mask) \cup (c.val \cap c.mask)]
        /\ ncp_stale' = [u \in Threads |->
                          ncp_stale[u] \/ (u # t /\ ncp_call[u].reg = c.reg)]
        /\ ncp_tainted' = IF c.mask = Bits THEN ncp_tainted \ {c.reg}
                          ELSE IF exact THEN ncp_tainted
                          ELSE ncp_tainted \cup {c.reg}
  <2> HIDE DEF c
  <2>1. /\ ncp_chip' \in [Regs -> SUBSET Bits]
        /\ ncp_want' \in [Regs -> SUBSET Bits] /\ ncp_tainted' \subseteq Regs
    BY <1>2, <1>5, SMT DEF NcpTypeOK, Configured
  <2>2. ncp_stale' \in [Threads -> BOOLEAN]
    BY <1>5, Zenon DEF NcpTypeOK
  <2>3. NcpTypeOK'
    BY <1>1, <1>3, <2>1, <2>2 DEF NcpTypeOK
  <2>4. ASSUME NEW u \in Threads, ncp_pc'[u] = "write", ~ncp_stale'[u]
        PROVE  ncp_seen[u] = ncp_chip'[ncp_call[u].reg]
    <3>1. u # t /\ ncp_pc[u] = "write"
      BY <1>3, <2>4
    <3>2. ~ncp_stale[u] /\ ncp_call[u].reg # c.reg
      BY <1>5, <2>4, <3>1, Zenon
    <3>3. ncp_call[u].reg \in Regs
      BY SMT DEF NcpTypeOK, NcpCalls
    <3>4. ncp_chip'[ncp_call[u].reg] = ncp_chip[ncp_call[u].reg]
      BY <1>5, <3>2, <3>3, SMT DEF NcpTypeOK
    <3>5. QED
      BY <3>1, <3>2, <3>4 DEF CopyIsRegister
  <2>5. CopyIsRegister'
    BY <1>1, <2>4 DEF CopyIsRegister
  <2>6. ASSUME NEW r \in Regs, r \notin ncp_tainted'
        PROVE  ncp_chip'[r] = ncp_want'[r]
    <3>1. CASE r # c.reg
      <4>1. r \notin ncp_tainted
        BY <1>5, <2>6, <3>1, SMT
      <4>2. ncp_chip'[r] = ncp_chip[r] /\ ncp_want'[r] = ncp_want[r]
        BY <1>5, <3>1, SMT DEF NcpTypeOK
      <4>3. QED
        BY <4>1, <4>2 DEF NcpCoherent
    <3>2. CASE r = c.reg
      <4>1. /\ ncp_chip'[r] = (ncp_seen[t] \ c.mask) \cup c.val
            /\ ncp_want'[r] = (ncp_want[r] \ c.mask) \cup (c.val \cap c.mask)
        BY <1>5, <3>2, SMT DEF NcpTypeOK, Configured
      <4>2. CASE c.mask = Bits
        <5>1. ncp_want[r] \subseteq Bits
          BY SMT DEF NcpTypeOK
        <5>2. QED
          BY <1>2, <4>1, <4>2, <5>1, SMT
      <4>3. CASE c.mask # Bits
        <5>1. exact /\ r \notin ncp_tainted
          BY <1>5, <2>6, <3>2, <4>3, SMT
        <5>2. ncp_seen[t] = ncp_want[r]
          BY <1>1, <3>2, <5>1 DEF CopyIsRegister, NcpCoherent, c
        <5>3. QED
          BY <4>1, <5>1, <5>2, SMT
      <4>4. QED
        BY <4>2, <4>3
    <3>3. QED
      BY <3>1, <3>2
  <2>7. NcpCoherent'
    <3>1. Regs' = Regs
      BY DEF Regs
    <3>2. QED
      BY <2>6, <3>1 DEF NcpCoherent
  <2>8. QED
    BY <2>3, <2>5, <2>7
<1>6. QED
  BY <1>4, <1>5 DEF WriteByte

LEMMA NcpStep == NcpInv /\ [NcpNext]_ncpVars => NcpInv'
<1> SUFFICES ASSUME NcpInv, [NcpNext]_ncpVars PROVE NcpInv'
  OBVIOUS
<1> USE NcpAssumption DEF NcpAssumption
<1>1. ASSUME NEW t \in Threads, NEW f \in Setters, NEW v \in SUBSET Bits,
             SetField(t, f, v)
      PROVE  NcpInv'
  <2>1. RegOf(f) \in Regs /\ Mask[f] \in SUBSET Bits
    BY DEF Regs
  <2>2. QED
    BY <1>1, <2>1, BeginStep DEF SetField
<1>2. ASSUME NEW t \in Threads, NEW r \in Regs, NEW v \in SUBSET Bits,
             StoreAccess(t, r, v)
      PROVE  NcpInv'
  BY <1>2, BeginStep DEF StoreAccess
<1>3. ASSUME NEW t \in Threads, CustomerSetting(t) PROVE NcpInv'
  BY <1>1, <1>3 DEF CustomerSetting
<1>4. CASE UNCHANGED ncpVars
  BY <1>4 DEF ncpVars, NcpInv, NcpTypeOK, CopyIsRegister, NcpCoherent
<1>5. QED
  BY <1>1, <1>2, <1>3, <1>4, ReadStep, WriteStep DEF NcpNext

-----------------------------------------------------------------------------
\* Whatever setters and sysfs writers interleave (155-177, 647-685), a register
\* that no stale copy and no value too wide has spoilt since it was last
\* written whole holds what its setters asked for.
THEOREM CoherentTheorem == NcpSpec => []NcpCoherent
<1>1. NcpInv => NcpCoherent
  BY DEF NcpInv
<1>2. QED
  BY <1>1, NcpInitially, NcpStep, PTL DEF NcpSpec

-----------------------------------------------------------------------------
(* The bq24296 charger.                                                    *)

\* With the bias alone a test closes exactly its own switches, so the comparator
\* tells the plug.
Bias == [Bc11Off EXCEPT !["BIAS_EN"] = 1]

IsStandard == g_chr_type_num = "STANDARD_CHARGER" <=> bq_plug = "standard"

DetectInv ==
  /\ bq_pc \in Tests => bq_bc11 = Bias
  /\ bq_pc \in Tests \cup {"done"} =>
       g_chr_type_num = "CHARGER_UNKNOWN" /\ bq_enables > 0
  /\ g_chr_type_num # "CHARGER_UNKNOWN" => bq_enables > 0
  /\ ~bq_moved =>
       /\ bq_pc = "A1" => bq_plug # "standard"
       /\ bq_pc = "done" => (bq_found = "STANDARD_CHARGER" <=>
                               bq_plug = "standard")
       /\ bq_pc \in {"limits", "ready", "set"} /\ bq_enables > 0 => IsStandard

\* The fields that charging_enable has set and nothing has disturbed.
Current == FieldIs("iinlim", IF g_chr_type_num = "STANDARD_CHARGER" THEN 6
                             ELSE 2)
Powered == Current /\ FieldIs("en_hiz", 0)
AllSet == Powered /\ FieldIs("chg_config", bq_on)

\* What is left of the accesses of charging_enable, and what they have done.
LimitsInv ==
  \/ \E low \in BOOLEAN : bq_todo = Limits(g_chr_type_num, low, bq_on)
  \/ \E low \in BOOLEAN :
        /\ bq_todo = Tail(Limits(g_chr_type_num, low, bq_on)) /\ Current
  \/ /\ bq_todo = <<SetTo("en_hiz", 0), SetTo("chg_config", bq_on),
                    SetTo("wdt_rst", 1)>>
     /\ Current
  \/ bq_todo = <<SetTo("chg_config", bq_on), SetTo("wdt_rst", 1)>> /\ Powered
  \/ bq_todo = <<SetTo("wdt_rst", 1)>> /\ AllSet
  \/ bq_todo = <<>> /\ AllSet

SettingInv ==
  \/ bq_todo = <<>>
  \/ \E f \in BqOthers, n \in 0 .. 1 : bq_todo = <<SetTo(f, n)>>

AccessInv ==
  /\ bq_pc \in Tests \cup {"done", "ready"} => bq_todo = <<>>
  /\ bq_pc = "set" => SettingInv
  /\ bq_pc = "boot" => bq_enables = 0
  /\ bq_faults = 0 =>
       /\ bq_pc = "limits" => LimitsInv
       /\ bq_pc \in {"ready", "set"} /\ bq_enables > 0 => AllSet

BqInv == BqTypeOK /\ Bc11IsOff /\ DetectInv /\ AccessInv

-----------------------------------------------------------------------------
(* Fields and accesses.                                                    *)

Accesses == [reg : 0 .. 10, mask : SUBSET Byte, val : SUBSET Byte]

LEMMA RegRange == \A f \in BqFields : BqRegOf(f) \in 0 .. 7
BY DEF BqFields, BqRegOf, FieldsCon0, FieldsCon1, FieldsCon2, FieldsCon3,
       FieldsCon4, FieldsCon5, FieldsCon6, FieldsCon7

LEMMA OwnFields == Own \cup BqOthers \subseteq BqFields
BY BqAssumption
DEF BqAssumption, Own, BqFields, FieldsCon0, FieldsCon1, FieldsCon2

LEMMA PutType == ASSUME NEW r \in 0 .. 10, NEW n PROVE Put(r, n) \in Accesses
BY DEF Put, Accesses, BitsOf

LEMMA SetToType == ASSUME NEW f \in BqFields, NEW n PROVE SetTo(f, n) \in Accesses
BY RegRange, BqAssumption DEF BqAssumption, SetTo, Accesses

LEMMA LimitsType ==
  ASSUME NEW type, NEW low, NEW on
  PROVE  Limits(type, low, on) \in Seq(Accesses)
<1>1. {"iinlim", "ichg", "en_hiz", "chg_config", "wdt_rst"} \subseteq BqFields
  BY OwnFields DEF Own
<1>2. QED
  BY <1>1, SetToType DEF Limits

LEMMA BootType == bq24296_hw_init \in Seq(Accesses)
BY PutType DEF bq24296_hw_init

\* A field that is set has its value, and another field keeps its own.
LEMMA FieldAccess ==
  ASSUME BqTypeOK, NEW f \in BqFields, NEW n, Fits(f, n),
         bq_reg' = [bq_reg EXCEPT ![SetTo(f, n).reg] =
                      BqConfigured(@, SetTo(f, n).mask, SetTo(f, n).val)]
  PROVE  /\ FieldIs(f, n)'
         /\ \A g \in BqFields \ {f} : \A m : FieldIs(g, m) => FieldIs(g, m)'
<1>1. /\ SetTo(f, n).reg = BqRegOf(f) /\ SetTo(f, n).mask = BqMask[f]
      /\ SetTo(f, n).val \subseteq BqMask[f] /\ BqRegOf(f) \in 0 .. 10
  BY RegRange DEF SetTo, Fits
<1>2. bq_reg' = [bq_reg EXCEPT ![BqRegOf(f)] =
                   (bq_reg[BqRegOf(f)] \ BqMask[f]) \cup SetTo(f, n).val]
  BY <1>1 DEF BqConfigured
<1>3. FieldIs(f, n)'
  <2>1. bq_reg'[BqRegOf(f)] = (bq_reg[BqRegOf(f)] \ BqMask[f])
                                 \cup SetTo(f, n).val
    BY <1>1, <1>2 DEF BqTypeOK
  <2>2. bq_reg'[BqRegOf(f)] \cap BqMask[f] = SetTo(f, n).val
    BY <1>1, <2>1
  <2>3. QED
    BY <2>2 DEF FieldIs
<1>4. ASSUME NEW g \in BqFields \ {f}, NEW m, FieldIs(g, m)
      PROVE  FieldIs(g, m)'
  <2>1. bq_reg'[BqRegOf(g)] \cap BqMask[g] = bq_reg[BqRegOf(g)] \cap BqMask[g]
    <3>1. CASE BqRegOf(g) = BqRegOf(f)
      <4>1. BqMask[f] \cap BqMask[g] = {}
        BY <3>1, BqAssumption DEF BqAssumption
      <4>2. bq_reg'[BqRegOf(g)] = (bq_reg[BqRegOf(g)] \ BqMask[f])
                                     \cup SetTo(f, n).val
        BY <1>1, <1>2, <3>1 DEF BqTypeOK
      <4>3. QED
        BY <1>1, <4>1, <4>2
    <3>2. CASE BqRegOf(g) # BqRegOf(f)
      <4>1. bq_reg'[BqRegOf(g)] = bq_reg[BqRegOf(g)]
        BY <1>1, <1>2, <3>2, RegRange DEF BqTypeOK
      <4>2. QED
        BY <4>1
    <3>3. QED
      BY <3>1, <3>2
  <2>2. QED
    BY <1>4, <2>1 DEF FieldIs
<1>5. QED
  BY <1>3, <1>4

\* The fields that charging_enable sets stay when another is set.
LEMMA OthersKeepAll ==
  ASSUME BqTypeOK, NEW f \in BqOthers \cup {"wdt_rst"}, NEW n \in 0 .. 1,
         bq_reg' = [bq_reg EXCEPT ![SetTo(f, n).reg] =
                      BqConfigured(@, SetTo(f, n).mask, SetTo(f, n).val)],
         UNCHANGED <<g_chr_type_num, bq_on>>, AllSet
  PROVE  AllSet'
<1>1. f \in BqFields /\ Fits(f, n)
  BY OwnFields, BqAssumption DEF BqAssumption, Own
<1>2. {"iinlim", "en_hiz", "chg_config"} \subseteq BqFields \ {f}
  BY OwnFields, BqAssumption DEF BqAssumption, Own
<1>3. \A g \in BqFields \ {f} : \A m : FieldIs(g, m) => FieldIs(g, m)'
  BY <1>1, FieldAccess
<1>4. Current'
  <2>1. FieldIs("iinlim", IF g_chr_type_num = "STANDARD_CHARGER" THEN 6 ELSE 2)'
    BY <1>2, <1>3 DEF AllSet, Powered, Current
  <2>2. QED
    BY <2>1 DEF Current
<1>5. FieldIs("en_hiz", 0)' /\ FieldIs("chg_config", bq_on)'
  BY <1>2, <1>3 DEF AllSet, Powered
<1>6. QED
  BY <1>4, <1>5 DEF AllSet, Powered

-----------------------------------------------------------------------------
LEMMA BqInitially == BqInit => BqInv
<1> SUFFICES ASSUME BqInit PROVE BqInv
  OBVIOUS
<1> USE DEF BqInit
<1>1. BqTypeOK
  <2>1. bq_todo \in Seq(Accesses)
    BY BootType
  <2>2. bq_reg \in [0 .. 10 -> SUBSET Byte] /\ bq_bc11 \in [Bc11Switches -> 0 .. 2]
    BY DEF Bc11Off
  <2>3. bq_moved \in BOOLEAN
    BY Zenon
  <2>4. QED
    BY <2>1, <2>2, <2>3, BqAssumption
    DEF BqTypeOK, Accesses, Types, BqAssumption
<1>2. Bc11IsOff /\ DetectInv /\ AccessInv
  BY DEF Bc11IsOff, DetectInv, AccessInv, Tests
<1>3. QED
  BY <1>1, <1>2 DEF BqInv

LEMMA PlugStep ==
  ASSUME BqInv, NEW p \in Plugs, Plug(p) PROVE BqInv'
<1> USE DEF Plug
<1>1. BqTypeOK'
  BY BqAssumption DEF BqInv, BqTypeOK, BqAssumption
<1>2. Bc11IsOff' /\ DetectInv'
  BY DEF BqInv, Bc11IsOff, DetectInv
<1>3. AccessInv'
  BY DEF BqInv, AccessInv, SettingInv, LimitsInv, AllSet, Powered, Current,
         FieldIs
<1>4. QED
  BY <1>1, <1>2, <1>3 DEF BqInv

\* A register access changes one register and shortens the list.
LEMMA AccessType == ASSUME BqInv, BqAccess PROVE BqTypeOK'
<1> DEFINE a == Head(bq_todo)
<1>1. bq_todo \in Seq(Accesses) /\ bq_todo # <<>>
  BY DEF BqInv, BqTypeOK, Accesses, BqAccess
<1>2. bq_todo' \in Seq(Accesses) /\ a \in Accesses
  BY <1>1 DEF BqAccess
<1>3. \A seen \in SUBSET Byte :
          BqConfigured(seen, a.mask, a.val) \in SUBSET Byte
  BY <1>2 DEF Accesses, BqConfigured
<1>4. BitsOf(a.reg) \in SUBSET Byte /\ bq_reg[a.reg] \in SUBSET Byte
      /\ a.reg \in 0 .. 10
  BY <1>2 DEF BitsOf, Accesses, BqInv, BqTypeOK
<1>5. bq_reg' \in [0 .. 10 -> SUBSET Byte]
  BY <1>3, <1>4 DEF BqAccess, BqInv, BqTypeOK
<1>6. bq_faults' \in 0 .. MaxFaults
  BY BqAssumption DEF BqAccess, BqInv, BqTypeOK, BqAssumption
<1>7. QED
  BY <1>2, <1>5, <1>6 DEF BqAccess, BqInv, BqTypeOK, Accesses

\* One access of the five of charging_enable, when the bus works.
LEMMA LimitsAccess ==
  ASSUME BqInv, bq_faults = 0, bq_todo # <<>>, LimitsInv,
         bq_todo' = Tail(bq_todo),
         bq_reg' = [bq_reg EXCEPT ![Head(bq_todo).reg] =
                      BqConfigured(@, Head(bq_todo).mask, Head(bq_todo).val)],
         UNCHANGED <<g_chr_type_num, bq_on>>
  PROVE  LimitsInv'
<1> DEFINE In == IF g_chr_type_num = "STANDARD_CHARGER" THEN 6 ELSE 2
           Ch(low) == IF g_chr_type_num = "STANDARD_CHARGER" /\ ~low
                      THEN 23 ELSE 0
           c == SetTo("chg_config", bq_on)
           h == SetTo("en_hiz", 0)
           w == SetTo("wdt_rst", 1)
<1>1. BqTypeOK /\ bq_on \in 0 .. 1
  BY DEF BqInv, BqTypeOK
<1>2. {"iinlim", "ichg", "en_hiz", "chg_config", "wdt_rst"} \subseteq BqFields
  BY OwnFields DEF Own
<1>3. Fits("iinlim", In) /\ Fits("en_hiz", 0) /\ Fits("chg_config", bq_on)
  BY <1>1, BqAssumption DEF BqAssumption
<1>4. ASSUME NEW low \in BOOLEAN,
             bq_todo = Limits(g_chr_type_num, low, bq_on)
      PROVE  LimitsInv'
  <2>1. Head(bq_todo) = SetTo("iinlim", In)
        /\ bq_todo' = Tail(Limits(g_chr_type_num, low, bq_on))
    BY <1>4 DEF Limits
  <2>2. FieldIs("iinlim", In)'
    BY <1>1, <1>2, <1>3, <2>1, FieldAccess
  <2>3. QED
    BY <2>1, <2>2 DEF LimitsInv, Current
<1>5. ASSUME NEW low \in BOOLEAN, Current,
             bq_todo = Tail(Limits(g_chr_type_num, low, bq_on))
      PROVE  LimitsInv'
  <2>1. Head(bq_todo) = SetTo("ichg", Ch(low)) /\ bq_todo' = <<h, c, w>>
    BY <1>5 DEF Limits
  <2>2. bq_reg'[BqRegOf("iinlim")] = bq_reg[BqRegOf("iinlim")]
    <3>1. BqRegOf("iinlim") = 0 /\ BqRegOf("ichg") = 2
      BY DEF BqRegOf, FieldsCon0, FieldsCon1, FieldsCon2, FieldsCon3,
             FieldsCon4, FieldsCon5, FieldsCon6, FieldsCon7
    <3>2. QED
      BY <1>1, <2>1, <3>1 DEF SetTo, BqTypeOK
  <2>3. QED
    BY <1>5, <2>1, <2>2 DEF LimitsInv, Current, FieldIs
<1>6. CASE bq_todo = <<h, c, w>> /\ Current
  <2>1. Head(bq_todo) = h /\ bq_todo' = <<c, w>>
    BY <1>6
  <2>2. FieldIs("en_hiz", 0)' /\ (FieldIs("iinlim", In) => FieldIs("iinlim", In)')
    BY <1>1, <1>2, <1>3, <2>1, FieldAccess
  <2>3. QED
    BY <1>6, <2>1, <2>2 DEF LimitsInv, Powered, Current
<1>7. CASE bq_todo = <<c, w>> /\ Powered
  <2>1. Head(bq_todo) = c /\ bq_todo' = <<w>>
    BY <1>7
  <2>2. /\ FieldIs("chg_config", bq_on)'
        /\ FieldIs("iinlim", In) => FieldIs("iinlim", In)'
        /\ FieldIs("en_hiz", 0) => FieldIs("en_hiz", 0)'
    BY <1>1, <1>2, <1>3, <2>1, FieldAccess
  <2>3. QED
    BY <1>7, <2>1, <2>2 DEF LimitsInv, AllSet, Powered, Current
<1>8. CASE bq_todo = <<w>> /\ AllSet
  <2>1. Head(bq_todo) = w /\ bq_todo' = <<>>
    BY <1>8
  <2>2. bq_reg' = [bq_reg EXCEPT ![SetTo("wdt_rst", 1).reg] =
                     BqConfigured(@, SetTo("wdt_rst", 1).mask,
                                  SetTo("wdt_rst", 1).val)]
    BY <2>1
  <2>3. "wdt_rst" \in BqOthers \cup {"wdt_rst"} /\ 1 \in 0 .. 1 /\ AllSet
        /\ UNCHANGED <<g_chr_type_num, bq_on>>
    BY <1>8
  <2> HIDE DEF w, In, c, h, Ch
  <2>4. AllSet'
    BY <1>1, <2>2, <2>3, OthersKeepAll
  <2>5. QED
    BY <2>1, <2>4 DEF LimitsInv
<1>9. QED
  BY <1>4, <1>5, <1>6, <1>7, <1>8 DEF LimitsInv

LEMMA AccessStep == ASSUME BqInv, BqAccess PROVE BqInv'
<1>1. BqTypeOK'
  BY AccessType
<1>2. Bc11IsOff' /\ DetectInv'
  BY DEF BqInv, BqAccess, Bc11IsOff, DetectInv, IsStandard
<1>3. bq_todo # <<>> /\ bq_todo' = Tail(bq_todo) /\ bq_pc' = bq_pc
      /\ bq_enables' = bq_enables /\ UNCHANGED <<g_chr_type_num, bq_on>>
  BY DEF BqAccess
<1>4. bq_pc \in {"boot", "set", "limits"}
  BY <1>3 DEF BqInv, AccessInv, BqTypeOK
<1>5. bq_pc = "set" => SettingInv'
  BY <1>3 DEF BqInv, AccessInv, SettingInv
<1>6. ASSUME bq_faults' = 0
      PROVE  /\ bq_faults = 0
             /\ bq_reg' = [bq_reg EXCEPT ![Head(bq_todo).reg] =
                     BqConfigured(@, Head(bq_todo).mask, Head(bq_todo).val)]
  BY <1>6 DEF BqAccess, BqInv, BqTypeOK
<1>7. bq_faults' = 0 /\ bq_pc = "limits" => LimitsInv'
  BY <1>3, <1>6, LimitsAccess DEF BqInv, AccessInv
<1>8. ASSUME bq_faults' = 0, bq_pc = "set", bq_enables > 0 PROVE AllSet'
  <2>1. AllSet /\ SettingInv
    BY <1>6, <1>8 DEF BqInv, AccessInv
  <2>2. PICK f \in BqOthers, n \in 0 .. 1 : bq_todo = <<SetTo(f, n)>>
    BY <1>3, <2>1 DEF SettingInv
  <2>3. Head(bq_todo) = SetTo(f, n)
    BY <2>2
  <2>4. QED
    BY <1>3, <1>6, <1>8, <2>1, <2>3, OthersKeepAll DEF BqInv
<1>9. AccessInv'
  BY <1>3, <1>4, <1>5, <1>7, <1>8 DEF BqInv, AccessInv, Tests
<1>10. QED
  BY <1>1, <1>2, <1>9 DEF BqInv

LEMMA ReturnStep == ASSUME BqInv, BqReturn PROVE BqInv'
<1> USE DEF BqReturn
<1>1. BqTypeOK'
  BY DEF BqInv, BqTypeOK
<1>2. Bc11IsOff' /\ DetectInv'
  BY DEF BqInv, Bc11IsOff, DetectInv, IsStandard, AccessInv, Tests
<1>3. AllSet' <=> AllSet
  BY DEF AllSet, Powered, Current, FieldIs
<1>4. bq_faults = 0 /\ bq_enables > 0 => AllSet
  <2>1. LimitsInv => AllSet
    BY DEF LimitsInv, Limits
  <2>2. QED
    BY <2>1 DEF BqInv, AccessInv
<1>5. AccessInv'
  BY <1>3, <1>4 DEF BqInv, AccessInv, Tests
<1>6. QED
  BY <1>1, <1>2, <1>5 DEF BqInv

LEMMA SetStep ==
  ASSUME BqInv, NEW f \in BqOthers, NEW n \in 0 .. 1, BqSet(f, n) PROVE BqInv'
<1> USE DEF BqSet
<1>1. BqTypeOK'
  <2>1. bq_todo' \in Seq(Accesses)
    BY SetToType, OwnFields
  <2>2. QED
    BY <2>1 DEF BqInv, BqTypeOK, Accesses
<1>2. Bc11IsOff' /\ DetectInv'
  BY DEF BqInv, Bc11IsOff, DetectInv, IsStandard, Tests
<1>3. AllSet' <=> AllSet
  BY DEF AllSet, Powered, Current, FieldIs
<1>4. AccessInv'
  BY <1>3 DEF BqInv, AccessInv, SettingInv, Tests
<1>5. QED
  BY <1>1, <1>2, <1>4 DEF BqInv

LEMMA SettingOfTest ==
  ASSUME bq_bc11 = Bias, NEW test \in Tests PROVE Closed(test) = Setting(test)
<1> USE DEF Closed, Setting, Bias, Bc11Off, Bc11Switches
<1>1. CASE test = "DCD"
  BY <1>1
<1>2. CASE test = "A1"
  BY <1>2
<1>3. CASE test = "A2"
  BY <1>3
<1>4. CASE test = "B2"
  BY <1>4
<1>5. QED
  BY <1>1, <1>2, <1>3, <1>4 DEF Tests

LEMMA ResponseType ==
  ASSUME NEW plug, NEW test \in Tests PROVE Response(plug, test) \in BOOLEAN
<1>1. Response(plug, "DCD") \in BOOLEAN
  BY DEF Response
<1>2. Response(plug, "A1") \in BOOLEAN
  BY DEF Response
<1>3. Response(plug, "A2") \in BOOLEAN
  BY DEF Response
<1>4. Response(plug, "B2") \in BOOLEAN
  BY DEF Response
<1>5. QED
  BY <1>1, <1>2, <1>3, <1>4 DEF Tests

\* A test decides as the plug is, and leaves the bias alone on for the next.
LEMMA Bc11TestStep == ASSUME BqInv, BqTest PROVE BqInv'
<1>1. PICK out \in CmpOut(Closed(bq_pc), bq_pc) :
        /\ bq_bc11' = [Opened(bq_pc, Closed(bq_pc)) EXCEPT
                         !["VSRC_EN"] = KeptOn(bq_pc, out)]
        /\ bq_found' = Verdict(bq_pc, out)
        /\ bq_pc' = NextTest(bq_pc, out)
  BY DEF BqTest
<1>2. bq_pc \in Tests /\ bq_bc11 = Bias /\ bq_todo = <<>>
      /\ UNCHANGED <<bq_reg, bq_todo, g_chr_type_num, bq_on, bq_plug, bq_moved,
                     bq_enables, bq_faults, bq_plugs>>
  BY DEF BqTest, BqInv, DetectInv, AccessInv
<1>3. Closed(bq_pc) = Setting(bq_pc)
  BY <1>2, SettingOfTest
<1>4. out \in BOOLEAN /\ out = Response(bq_plug, bq_pc)
  <2>1. out = Response(bq_plug, bq_pc)
    <3>1. CmpOut(Closed(bq_pc), bq_pc) = {Response(bq_plug, bq_pc)}
      BY <1>3, Zenon DEF CmpOut
    <3>2. QED
      BY <3>1, Zenon
  <2>2. Response(bq_plug, bq_pc) \in BOOLEAN
    BY <1>2, ResponseType
  <2>3. QED
    BY <2>1, <2>2, Zenon
<1>5. bq_bc11' \in [Bc11Switches -> 0 .. 2]
      /\ (bq_pc' \in Tests => bq_bc11' = Bias)
  <2> USE DEF Opened, Closed, Setting, KeptOn, NextTest, Bias, Bc11Off,
              Bc11Switches, Tests
  <2>1. CASE bq_pc = "DCD"
    <3>1. KeptOn(bq_pc, out) = 0
      BY <1>2, <2>1
    <3>2. Opened(bq_pc, Closed(bq_pc)) = [Bias EXCEPT !["VSRC_EN"] = 0]
      BY <1>2, <2>1
    <3>3. bq_bc11' = Bias
      BY <1>1, <3>1, <3>2
    <3>4. QED
      BY <3>3
  <2>2. CASE bq_pc = "A1"
    BY <1>1, <1>2, <1>4, <2>2
  <2>3. CASE bq_pc = "A2"
    <3>1. KeptOn(bq_pc, out) = 0
      BY <1>2, <2>3
    <3>2. Opened(bq_pc, Closed(bq_pc)) = [Bias EXCEPT !["VSRC_EN"] = 0]
      BY <1>2, <2>3
    <3>3. bq_bc11' = Bias
      BY <1>1, <3>1, <3>2
    <3>4. QED
      BY <3>3
  <2>4. CASE bq_pc = "B2"
    BY <1>1, <1>2, <1>4, <2>4
  <2>5. QED
    BY <1>2, <2>1, <2>2, <2>3, <2>4
<1>6. bq_found' \in Types /\ bq_pc' \in Tests \cup {"done"}
  BY <1>1, <1>2, <1>4 DEF Verdict, NextTest, Tests, Types, BqInv, BqTypeOK
<1>7. /\ bq_pc' = "A1" => bq_plug # "standard"
      /\ bq_pc' = "done" => \/ bq_pc = "A1"
                            \/ (bq_found' = "STANDARD_CHARGER" <=>
                                  bq_plug = "standard")
      /\ bq_pc = "A1" => bq_found' # "STANDARD_CHARGER"
  BY <1>1, <1>2, <1>4 DEF Response, Verdict, NextTest, Tests
<1>8. BqTypeOK'
  BY <1>2, <1>5, <1>6 DEF BqInv, BqTypeOK
<1>9. DetectInv'
  BY <1>2, <1>5, <1>6, <1>7 DEF BqInv, DetectInv, Tests
<1>10. Bc11IsOff' /\ AccessInv'
  BY <1>2, <1>6 DEF Bc11IsOff, BqInv, AccessInv, Tests
<1>11. QED
  BY <1>8, <1>9, <1>10 DEF BqInv

LEMMA DoneStep == ASSUME BqInv, hw_bc11_done PROVE BqInv'
<1> USE DEF hw_bc11_done, ChooseLimits
<1>1. PICK low \in BOOLEAN : bq_todo' = Limits(g_chr_type_num', low, bq_on')
  OBVIOUS
<1>2. BqTypeOK'
  <2>1. bq_todo' \in Seq(Accesses)
    BY <1>1, LimitsType
  <2>2. bq_bc11' \in [Bc11Switches -> 0 .. 2]
    BY DEF Bc11Off
  <2>3. QED
    BY <2>1, <2>2 DEF BqInv, BqTypeOK, Accesses
<1>3. Bc11IsOff' /\ DetectInv'
  BY DEF BqInv, Bc11IsOff, DetectInv, IsStandard, Tests, BqTypeOK
<1>4. AccessInv'
  BY <1>1 DEF AccessInv, LimitsInv, Tests
<1>5. QED
  BY <1>2, <1>3, <1>4 DEF BqInv

LEMMA EnableStep ==
  ASSUME BqInv, NEW on \in {0, 1}, bq24296_charging_enable(on) PROVE BqInv'
<1> USE DEF bq24296_charging_enable
<1>1. bq_enables' \in 0 .. MaxEnables /\ bq_enables' > 0
  BY BqAssumption DEF BqAssumption, BqInv, BqTypeOK
<1>2. CASE g_chr_type_num = "CHARGER_UNKNOWN" /\ bq_plug # "none"
  <2>1. bq_pc' = "DCD" /\ bq_bc11' = Bias /\ ~bq_moved' /\ bq_todo' = bq_todo
        /\ bq_todo = <<>> /\ bq_on' = on
    BY <1>2 DEF Bias, BqInv, AccessInv
  <2>2. Bias \in [Bc11Switches -> 0 .. 2]
    BY DEF Bias, Bc11Off, Bc11Switches
  <2>3. BqTypeOK'
    BY <1>1, <2>1, <2>2 DEF BqInv, BqTypeOK, Tests
  <2>4. Bc11IsOff' /\ DetectInv' /\ AccessInv'
    BY <1>1, <1>2, <2>1 DEF Bc11IsOff, DetectInv, AccessInv, Tests
  <2>5. QED
    BY <2>3, <2>4 DEF BqInv
<1>3. CASE ~(g_chr_type_num = "CHARGER_UNKNOWN" /\ bq_plug # "none")
  <2>1. PICK low \in BOOLEAN : bq_todo' = Limits(g_chr_type_num, low, on)
    BY <1>3 DEF ChooseLimits
  <2>2. bq_pc' = "limits" /\ bq_bc11' = bq_bc11 /\ bq_on' = on
        /\ bq_moved' = (bq_moved /\ g_chr_type_num # "CHARGER_UNKNOWN")
        /\ UNCHANGED g_chr_type_num
    BY <1>3 DEF ChooseLimits
  <2>3. BqTypeOK'
    <3>1. bq_todo' \in Seq(Accesses)
      BY <2>1, LimitsType
    <3>2. bq_moved' \in BOOLEAN
      BY <2>2, Zenon
    <3>3. QED
      BY <1>1, <2>2, <3>1, <3>2 DEF BqInv, BqTypeOK, Accesses
  <2>4. Bc11IsOff'
    BY <2>2 DEF BqInv, Bc11IsOff
  <2>5. DetectInv'
    <3>1. ~bq_moved' => IsStandard
      BY <1>3, <2>2 DEF BqInv, DetectInv, IsStandard
    <3>2. QED
      BY <1>1, <2>2, <3>1 DEF DetectInv, IsStandard, Tests
  <2>6. AccessInv'
    BY <2>1, <2>2 DEF AccessInv, LimitsInv, Tests
  <2>7. QED
    BY <2>3, <2>4, <2>5, <2>6 DEF BqInv
<1>4. QED
  BY <1>2, <1>3

LEMMA BqStep == BqInv /\ [BqNext]_bqVars => BqInv'
<1> SUFFICES ASSUME BqInv, [BqNext]_bqVars PROVE BqInv'
  OBVIOUS
<1>1. CASE UNCHANGED bqVars
  BY <1>1 DEF bqVars, BqInv, BqTypeOK, Bc11IsOff, DetectInv, IsStandard,
              AccessInv, SettingInv, LimitsInv, AllSet, Powered, Current,
              FieldIs
<1>2. QED
  BY <1>1, PlugStep, AccessStep, ReturnStep, SetStep, Bc11TestStep, DoneStep,
     EnableStep
  DEF BqNext

LEMMA BqInvariant == BqSpec => []BqInv
BY BqInitially, BqStep, PTL DEF BqSpec

\* Once charging_enable has returned, the charger has the limits of what is
\* plugged in, whatever else was set, for every layout of the fields in which
\* the fields of a register share no bit.
THEOREM LimitTheorem == BqSpec => []LimitFitsCharger
<1>1. BqInv => LimitFitsCharger
  BY DEF BqInv, BqTypeOK, DetectInv, IsStandard, AccessInv, AllSet, Powered,
         Current, LimitFitsCharger
<1>2. QED
  BY <1>1, BqInvariant, PTL

\* However a detection ends, it leaves no switch of the BC1.1 block closed.
THEOREM Bc11Theorem == BqSpec => []Bc11IsOff
<1>1. BqInv => Bc11IsOff
  BY DEF BqInv
<1>2. QED
  BY <1>1, BqInvariant, PTL

-----------------------------------------------------------------------------
(* The small drivers together.                                             *)

DevicesInv == /\ LcmInv /\ LcmPlaces /\ TzInv /\ StartInv /\ NcpInv
              /\ BqInv

LEMMA DevicesInitially == Init => DevicesInv
BY LcmInitially, PlacesInitially, TzInitially, StartInitially, NcpInitially,
   BqInitially DEF Init, DevicesInv

LEMMA DevicesStep == DevicesInv /\ [Next]_vars => DevicesInv'
<1> SUFFICES ASSUME DevicesInv, [Next]_vars PROVE DevicesInv'
  OBVIOUS
<1>1. /\ [LcmNext]_lcmVars /\ [TzNext]_tzVars /\ [StartNext]_startVars
      /\ [NcpNext]_ncpVars /\ [BqNext]_bqVars
  BY DEF Next, vars
<1>2. LcmInv' /\ LcmPlaces' /\ TzInv'
  BY <1>1, LcmStep, PlacesStep, TzStep DEF DevicesInv
<1>3. StartInv' /\ NcpInv' /\ BqInv'
  BY <1>1, StartStep, AllTables, NcpStep, BqStep DEF DevicesInv
<1>4. QED
  BY <1>2, <1>3 DEF DevicesInv

\* The state of the small drivers has its type, whichever of them runs: the
\* count of lcm_info is a number of files (lcm_info.c:112-135), a position is
\* inside its data, and a list of labels is never longer than the longest.
THEOREM DevicesTypeTheorem == Spec => []TypeOK
<1>1. DevicesInv => TypeOK
  BY LcmTypes, StartTypes DEF DevicesInv, TzInv, NcpInv, BqInv, TypeOK
<1>2. QED
  BY <1>1, DevicesInitially, DevicesStep, PTL DEF Spec

LEMMA DevicesParts ==
  Spec => LcmSpec /\ TzSpec /\ StartSpec /\ NcpSpec /\ BqSpec
<1>1. Init => LcmInit /\ TzInit /\ StartInit /\ NcpInit /\ BqInit
  BY DEF Init
<1>2. [Next]_vars =>
        /\ [LcmNext]_lcmVars /\ [TzNext]_tzVars /\ [StartNext]_startVars
        /\ [NcpNext]_ncpVars /\ [BqNext]_bqVars
  BY DEF Next, vars
<1>3. QED
  BY <1>1, <1>2, PTL DEF Spec, LcmSpec, TzSpec, StartSpec, NcpSpec, BqSpec

\* What is said of each small driver alone holds of them together, as the run
\* has them.
THEOREM DevicesTheorem ==
  Spec => []/\ LcmSemaphore /\ TzTransfersOnce
            /\ StartLeavesNothing /\ CallsFindReady
            /\ NcpCoherent /\ LimitFitsCharger /\ Bc11IsOff
BY DevicesParts, SemaphoreTheorem, TransfersTheorem, LeavesTheorem,
   ReadyTheorem, CoherentTheorem, LimitTheorem, Bc11Theorem, PTL

==============================================================================
