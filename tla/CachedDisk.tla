---------------------------- MODULE CachedDisk ----------------------------
(* What the block cache promises to the file systems above it: a disk whose *)
(* blocks are read and written at once (cur), while the device catches up   *)
(* in any order (disk).  Contents change only as a write in progress asks,  *)
(* and a write ends when all of it is done.  A power failure loses what has *)
(* not been written back; so does a write-back that the device refuses when *)
(* the cache needs the room.  Nothing else is ever lost.                    *)
EXTENDS Naturals

CONSTANTS DiskBlocks, Values

VARIABLES cur,      \* what a read of the block returns
          disk,     \* what the device holds
          writing,  \* what the write in progress has still to do
          failed    \* the device has refused a write

Locations == 0 .. DiskBlocks - 1

Init == /\ disk \in [Locations -> Values] /\ cur = disk
        /\ writing = {} /\ failed = FALSE

Begin(blocks) == /\ writing = {} /\ writing' = blocks
                 /\ UNCHANGED <<cur, disk, failed>>

Write(l, v) == /\ <<l, v>> \in writing
               /\ writing' = writing \ {<<l, v>>}
               /\ cur' = [cur EXCEPT ![l] = v]
               /\ UNCHANGED <<disk, failed>>

WriteBack(l) == /\ disk' = [disk EXCEPT ![l] = cur[l]]
                /\ UNCHANGED <<cur, writing, failed>>

Refuse == failed' = TRUE /\ UNCHANGED <<cur, disk, writing>>

Lose(l) == /\ failed' = TRUE
           /\ cur' = [cur EXCEPT ![l] = disk[l]]
           /\ UNCHANGED <<disk, writing>>

PowerLoss == cur' = disk /\ writing' = {} /\ UNCHANGED <<disk, failed>>

Next == \/ \E blocks \in SUBSET (Locations \X Values) : Begin(blocks)
        \/ \E l \in Locations : \/ WriteBack(l) \/ Lose(l)
                                \/ \E v \in Values : Write(l, v)
        \/ Refuse \/ PowerLoss

Spec == Init /\ [][Next]_<<cur, disk, writing, failed>>
=============================================================================
