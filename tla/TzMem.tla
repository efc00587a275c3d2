-------------------------------- MODULE TzMem --------------------------------
(***************************************************************************)
(* The tz_mem block device (atom_Block/tz_mem.c), which moves sectors to   *)
(* and from the trusted world: the probe that makes the disk when its node *)
(* is first opened, and the request function, which takes requests off the *)
(* queue, tests each segment against the size and asks for it in pieces of *)
(* KREE_RELEASECM_MAX_SIZE.  Positions and lengths are in sectors.         *)
(***************************************************************************)
EXTENDS Naturals, Sequences

CONSTANTS
  PoolSize,  \* what the trusted world reports, in sectors
  Piece,     \* KREE_RELEASECM_MAX_SIZE, in sectors
  MaxSegs,   \* bound: segments of a request
  MaxSeg,    \* bound: sectors of a segment
  MaxTries   \* bound: failed probes

ASSUME TzAssumption ==
  /\ PoolSize \in Nat /\ Piece \in Nat \ {0} /\ MaxTries \in Nat
  /\ MaxSegs \in Nat /\ MaxSeg \in Nat

VARIABLES
  tz_disk,     \* "none", "queue", "added", "ready" or "dead"
  tz_info,     \* diskInfo: [session |-> BOOLEAN, size |-> sectors]
  tz_pc,       \* the request function: "fetch", "test", "pieces" or "end"
  tz_req,      \* the request: position, lengths of the segments left
  tz_session,  \* its copy of the session: whether it is one
  tz_i,        \* the loop counter
  tz_err,      \* -EIO was set
  tz_moved,    \* history: the segment's <<sector, place in the buffer>> so far
  tz_blind,    \* history: segments let through without a session
  tz_tries     \* failed probes so far

reqVars == <<tz_pc, tz_req, tz_session, tz_i, tz_err, tz_moved, tz_blind>>
tzVars == <<tz_disk, tz_info, tz_tries, reqVars>>

Requests == [start : 0 .. PoolSize + 1,
             segs : UNION {[1 .. n -> 0 .. MaxSeg] : n \in 1 .. MaxSegs}]

TzInit ==
  /\ tz_disk = "none" /\ tz_info = [session |-> FALSE, size |-> 0]
  /\ tz_pc = "fetch" /\ tz_req = [start |-> 0, segs |-> <<>>]
  /\ tz_session = FALSE /\ tz_i = 0 /\ tz_err = FALSE
  /\ tz_moved = <<>> /\ tz_blind = 0 /\ tz_tries = 0

TzTypeOK ==
  /\ tz_disk \in {"none", "queue", "added", "ready", "dead"}
  /\ tz_info \in [session : BOOLEAN, size : {0, PoolSize}]
  /\ tz_pc \in {"fetch", "test", "pieces", "end"}
  /\ tz_req \in [start : Nat, segs : Seq(Nat)]
  /\ tz_session \in BOOLEAN /\ tz_i \in Nat /\ tz_err \in BOOLEAN
  /\ tz_moved \in Seq(Nat \X Nat) /\ tz_blind \in Nat
  /\ tz_tries \in 0 .. MaxTries

(***************************************************************************)
(* tzmem_blk_probe, under tzmem_probe_mutex.                               *)
(***************************************************************************)
ProbeQueue == /\ tz_disk = "none" /\ tz_disk' = "queue"
              /\ UNCHANGED <<tz_info, tz_tries, reqVars>>

\* No disk, no queue, or no answer about the size: both are given back.
ProbeFails ==
  /\ tz_disk \in {"none", "queue"} /\ tz_tries < MaxTries
  /\ tz_disk' = "none" /\ tz_tries' = tz_tries + 1
  /\ UNCHANGED <<tz_info, reqVars>>

\* add_disk comes before the session and the size.
ProbeAdd == /\ tz_disk = "queue" /\ tz_disk' = "added"
            /\ UNCHANGED <<tz_info, tz_tries, reqVars>>

\* KREE_CreateSession fails: out_init destroys the queue of the added disk,
\* which keeps the node, so that no probe runs again.
ProbeSession ==
  /\ tz_disk = "added" /\ ~tz_info.session
  /\ tz_pc = "fetch" /\ tz_tries < MaxTries
  /\ tz_disk' = "dead" /\ tz_tries' = tz_tries + 1
  /\ UNCHANGED <<tz_info, reqVars>>

ProbeReady ==
  /\ tz_disk = "added"
  /\ \/ /\ ~tz_info.session
        /\ tz_info' = [tz_info EXCEPT !.session = TRUE]
        /\ UNCHANGED tz_disk
     \/ /\ tz_info.session
        /\ tz_info' = [tz_info EXCEPT !.size = PoolSize]
        /\ tz_disk' = "ready"
  /\ UNCHANGED <<tz_tries, reqVars>>

(***************************************************************************)
(* do_tzmem_blk_request, under the queue's lock.  It reads the session     *)
(* before it tests the size, and does not look at what the trusted world   *)
(* answers.                                                                *)
(***************************************************************************)
Fetch(r) ==
  /\ tz_pc = "fetch" /\ tz_disk \in {"added", "ready"}
  /\ tz_req' = r /\ tz_pc' = "test" /\ tz_session' = tz_info.session
  /\ tz_i' = 0 /\ tz_err' = FALSE /\ tz_moved' = <<>>
  /\ UNCHANGED <<tz_disk, tz_info, tz_tries, tz_blind>>

SegLen == Head(tz_req.segs)

Outside == \/ tz_req.start + SegLen > tz_info.size
           \/ tz_req.start > tz_info.size \/ SegLen > tz_info.size

Blind == ~Outside /\ ~tz_session /\ SegLen > 0

Test ==
  /\ tz_pc = "test"
  /\ tz_err' = Outside
  /\ tz_pc' = IF Outside THEN "end" ELSE "pieces"
  /\ tz_blind' = IF Blind THEN tz_blind + 1 ELSE tz_blind
  /\ UNCHANGED <<tz_disk, tz_info, tz_tries, tz_req, tz_session, tz_i,
                 tz_moved>>

\* One call of KREE_ReadSecurechunkmem or KREE_WriteSecurechunkmem.
Moved(n) == [k \in 1 .. n |-> <<tz_req.start + tz_i * Piece + k - 1,
                                tz_i * Piece + k - 1>>]

\* Mutant: the rest of the segment is forgotten.
Rest_None == 0

Rest == SegLen % Piece

Pieces ==
  /\ tz_pc = "pieces"
  /\ IF tz_i < SegLen \div Piece
     THEN /\ tz_moved' = tz_moved \o Moved(Piece)
          /\ tz_i' = tz_i + 1 /\ UNCHANGED tz_pc
     ELSE /\ tz_moved' = tz_moved \o Moved(Rest)
          /\ tz_pc' = "end" /\ UNCHANGED tz_i
  /\ UNCHANGED <<tz_disk, tz_info, tz_tries, tz_req, tz_session, tz_err,
                 tz_blind>>

\* __blk_end_request_cur: the next segment, or the next request.
End ==
  /\ tz_pc = "end"
  /\ tz_req' = [start |-> tz_req.start + SegLen, segs |-> Tail(tz_req.segs)]
  /\ tz_pc' = IF Len(tz_req.segs) > 1 THEN "test" ELSE "fetch"
  /\ tz_session' = tz_info.session
  /\ tz_i' = 0 /\ tz_err' = FALSE /\ tz_moved' = <<>>
  /\ UNCHANGED <<tz_disk, tz_info, tz_tries, tz_blind>>

TzNext == \/ ProbeQueue \/ ProbeFails \/ ProbeAdd \/ ProbeSession \/ ProbeReady
          \/ \E r \in Requests : Fetch(r)
          \/ Test \/ Pieces \/ End

TzSpec == TzInit /\ [][TzNext]_tzVars

-----------------------------------------------------------------------------
\* When a segment is ended, each of its sectors has been asked for once, in
\* order and at its place in the buffer, by whole pieces and a rest (165-197),
\* or none has and the segment carries -EIO (153), as every segment does that
\* is tested before the probe has set the size (262-274); no sector beyond the
\* pool is ever asked for.  The session is read before the size is tested
\* (147-153), so that a segment may be asked for without one; that is the one
\* that the end of the probe meets there, and no other.
TzTransfersOnce ==
  /\ tz_pc = "end" =>
       tz_moved = IF tz_err THEN <<>>
                  ELSE [k \in 1 .. SegLen |-> <<tz_req.start + k - 1, k - 1>>]
  /\ \A k \in 1 .. Len(tz_moved) : tz_moved[k][1] < PoolSize
  /\ tz_disk = "added" /\ tz_pc = "end" => tz_err \/ SegLen + tz_req.start = 0
  /\ tz_blind <= 1
==============================================================================
