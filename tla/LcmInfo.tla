------------------------------- MODULE LcmInfo -------------------------------
(***************************************************************************)
(* The lcm_info character device (lcm_info/lcm_info.c): reads and writes   *)
(* of one block of data under the device's semaphore, positions moved by   *)
(* llseek without it, and an ioctl that clears the data without it.  The   *)
(* kernel gives a call a copy of the file's position, and stores it back   *)
(* when the call returns; pread and pwrite take any position.              *)
(***************************************************************************)
EXTENDS Naturals, Sequences

CONSTANTS
  Size,     \* LCMINFO_SIZE, in cells
  Callers,  \* threads that read and write
  Files,    \* opens of the device
  Values    \* what a cell holds; 0 when cleared

ASSUME LcmAssumption == Size \in Nat \ {0} /\ 0 \in Values /\ Files # {}

VARIABLES
  lcm_data,   \* the data
  lcm_sem,    \* the semaphore's count
  lcm_open,   \* the files that are open
  lcm_count,  \* lcminfo_u_count
  lcm_pos,    \* the position of each file
  lcm_call,   \* the call of each thread
  lcm_past    \* history: a call returned past the end of the data

lcmVars == <<lcm_data, lcm_sem, lcm_open, lcm_count, lcm_pos, lcm_call,
             lcm_past>>

Cells == 0 .. Size - 1

\* "down": before the semaphore; "copy": inside.  count is the length left to
\* copy, seek whether the position is the file's; snap and clean, history: the
\* data when the call got the semaphore, and whether it was cleared since.
LcmIdle == [pc |-> "idle", op |-> "read", file |-> CHOOSE f \in Files : TRUE,
            seek |-> FALSE, p |-> 0, count |-> 0, got |-> <<>>, snap |-> <<>>,
            clean |-> FALSE]

LcmTypeOK ==
  /\ lcm_data \in [Cells -> Values]
  /\ lcm_sem \in {0, 1}
  /\ lcm_open \subseteq Files /\ lcm_count \in Nat
  /\ lcm_pos \in [Files -> 0 .. Size]
  /\ \A c \in Callers : /\ lcm_call[c].pc \in {"idle", "down", "copy"}
                        /\ lcm_call[c].op \in {"read", "write"}
                        /\ lcm_call[c].file \in Files
                        /\ lcm_call[c].p \in Nat /\ lcm_call[c].count \in Nat
  /\ lcm_past \in BOOLEAN

LcmInit ==
  /\ lcm_data = [i \in Cells |-> 0] /\ lcm_sem = 1
  /\ lcm_open = {} /\ lcm_count = 0
  /\ lcm_pos = [f \in Files |-> 0]
  /\ lcm_call = [c \in Callers |-> LcmIdle]
  /\ lcm_past = FALSE

lcminfo_open(f) ==
  /\ f \notin lcm_open
  /\ lcm_open' = lcm_open \cup {f} /\ lcm_count' = lcm_count + 1
  /\ lcm_pos' = [lcm_pos EXCEPT ![f] = 0]
  /\ UNCHANGED <<lcm_data, lcm_sem, lcm_call, lcm_past>>

\* The last reference to the file goes: no call is under way on it.
lcminfo_release(f) ==
  /\ f \in lcm_open
  /\ \A c \in Callers : lcm_call[c].pc = "idle" \/ lcm_call[c].file # f
  /\ lcm_open' = lcm_open \ {f} /\ lcm_count' = lcm_count - 1
  /\ UNCHANGED <<lcm_data, lcm_sem, lcm_pos, lcm_call, lcm_past>>

\* Mutant: the new position is not limited.
lcminfo_llseek_Far(f, newpos) ==
  /\ f \in lcm_open
  /\ lcm_pos' = [lcm_pos EXCEPT ![f] = newpos]
  /\ UNCHANGED <<lcm_data, lcm_sem, lcm_open, lcm_count, lcm_call, lcm_past>>

\* The three bases give every new position; beyond the data is -EINVAL.
lcminfo_llseek(f, newpos) ==
  /\ f \in lcm_open /\ newpos <= Size
  /\ lcm_pos' = [lcm_pos EXCEPT ![f] = newpos]
  /\ UNCHANGED <<lcm_data, lcm_sem, lcm_open, lcm_count, lcm_call, lcm_past>>

\* LCMINFO_IOC_CLEAN, in the middle of whatever copies.
Clean(f) ==
  /\ f \in lcm_open
  /\ lcm_data' = [i \in Cells |-> 0]
  /\ lcm_call' = [c \in Callers |->
                    [lcm_call[c] EXCEPT !.clean = lcm_call[c].pc = "copy"]]
  /\ UNCHANGED <<lcm_sem, lcm_open, lcm_count, lcm_pos, lcm_past>>

\* lcminfo_read and lcminfo_write begin: the position is read here (144, 173).
Enter(c, f, op, seek, p, n) ==
  /\ lcm_call[c].pc = "idle" /\ f \in lcm_open
  /\ seek => p = lcm_pos[f]
  /\ lcm_call' = [lcm_call EXCEPT ![c] =
       [pc |-> "down", op |-> op, file |-> f, seek |-> seek, p |-> p,
        count |-> n, got |-> <<>>, snap |-> <<>>, clean |-> FALSE]]
  /\ UNCHANGED <<lcm_data, lcm_sem, lcm_open, lcm_count, lcm_pos, lcm_past>>

Interrupted(c) ==
  /\ lcm_call[c].pc = "down"
  /\ lcm_call' = [lcm_call EXCEPT ![c] = LcmIdle]
  /\ UNCHANGED <<lcm_data, lcm_sem, lcm_open, lcm_count, lcm_pos, lcm_past>>

PastEnd(c) == IF lcm_call[c].op = "read" THEN lcm_call[c].p > Size
              ELSE lcm_call[c].p >= Size

Left(c) == Size - lcm_call[c].p

Clip(c) == IF lcm_call[c].count > Left(c) THEN Left(c) ELSE lcm_call[c].count

\* down_interruptible, the test of the position, which returns without up, and
\* the length that is copied.
Down(c) ==
  /\ lcm_call[c].pc = "down" /\ lcm_sem = 1
  /\ lcm_sem' = 0
  /\ IF PastEnd(c)
     THEN /\ lcm_call' = [lcm_call EXCEPT ![c] = LcmIdle]
          /\ lcm_past' = TRUE
     ELSE /\ lcm_call' = [lcm_call EXCEPT ![c] =
               [@ EXCEPT !.pc = "copy", !.count = Clip(c), !.snap = lcm_data]]
          /\ UNCHANGED lcm_past
  /\ UNCHANGED <<lcm_data, lcm_open, lcm_count, lcm_pos>>

\* The next cell of copy_to_user or copy_from_user.
Cell(c) == lcm_call[c].p + Len(lcm_call[c].got)

Copy(c, v) ==
  /\ lcm_call[c].pc = "copy" /\ Len(lcm_call[c].got) < lcm_call[c].count
  /\ IF lcm_call[c].op = "read"
     THEN v = lcm_data[Cell(c)] /\ UNCHANGED lcm_data
     ELSE lcm_data' = [lcm_data EXCEPT ![Cell(c)] = v]
  /\ lcm_call' = [lcm_call EXCEPT ![c] =
                    [@ EXCEPT !.got = Append(lcm_call[c].got, v)]]
  /\ UNCHANGED <<lcm_sem, lcm_open, lcm_count, lcm_pos, lcm_past>>

\* Mutant: a fault of the copy keeps the semaphore.
Leave_Fault(c) ==
  /\ lcm_call[c].pc = "copy"
  /\ \/ /\ Len(lcm_call[c].got) = lcm_call[c].count /\ lcm_sem' = 1
        /\ lcm_pos' = IF lcm_call[c].seek
                      THEN [lcm_pos EXCEPT ![lcm_call[c].file] =
                              lcm_call[c].p + lcm_call[c].count]
                      ELSE lcm_pos
     \/ /\ Len(lcm_call[c].got) < lcm_call[c].count
        /\ UNCHANGED <<lcm_pos, lcm_sem>>
  /\ lcm_call' = [lcm_call EXCEPT ![c] = LcmIdle]
  /\ UNCHANGED <<lcm_data, lcm_open, lcm_count, lcm_past>>

\* The copy is complete, or stopped at a page fault, and up().
Leave(c) ==
  /\ lcm_call[c].pc = "copy"
  /\ \/ /\ Len(lcm_call[c].got) = lcm_call[c].count
        /\ lcm_pos' = IF lcm_call[c].seek
                      THEN [lcm_pos EXCEPT ![lcm_call[c].file] =
                              lcm_call[c].p + lcm_call[c].count]
                      ELSE lcm_pos
     \/ Len(lcm_call[c].got) < lcm_call[c].count /\ UNCHANGED lcm_pos
  /\ lcm_sem' = 1
  /\ lcm_call' = [lcm_call EXCEPT ![c] = LcmIdle]
  /\ UNCHANGED <<lcm_data, lcm_open, lcm_count, lcm_past>>

LcmNext ==
  \/ \E f \in Files : \/ lcminfo_open(f) \/ lcminfo_release(f) \/ Clean(f)
                      \/ \E p \in 0 .. Size + 1 : lcminfo_llseek(f, p)
  \/ \E c \in Callers :
       \/ \E f \in Files, op \in {"read", "write"}, seek \in BOOLEAN,
             p \in 0 .. Size + 1, n \in 0 .. Size + 1 :
            Enter(c, f, op, seek, p, n)
       \/ Interrupted(c) \/ Down(c) \/ Leave(c)
       \/ \E v \in Values : Copy(c, v)

LcmSpec == LcmInit /\ [][LcmNext]_lcmVars

-----------------------------------------------------------------------------
Inside == {c \in Callers : lcm_call[c].pc = "copy"}

\* One call at a time copies, it stays inside the data, and what a read
\* returns is the data of one moment unless CLEAN ran during it, whatever
\* llseek did to the position between 144 and the copy; and the semaphore is
\* taken only while a call copies or after one returned past the end of the
\* data (154, 183), which keeps it for ever.
LcmSemaphore ==
  /\ \A c, d \in Inside : c = d
  /\ lcm_sem = 0 <=> Inside # {} \/ lcm_past
  /\ lcm_past => Inside = {}
  /\ \A c \in Inside :
       /\ lcm_call[c].p + lcm_call[c].count <= Size
       /\ lcm_call[c].op = "read" /\ ~lcm_call[c].clean =>
            \A i \in 1 .. Len(lcm_call[c].got) :
              lcm_call[c].got[i] = lcm_call[c].snap[lcm_call[c].p + i - 1]
==============================================================================
