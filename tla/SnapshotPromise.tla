--------------------------- MODULE SnapshotPromise ---------------------------
(***************************************************************************)
(* What an InstanceSnapshot promises to the person who created it: its     *)
(* phase may be revised while the work goes on; Completed is reported only *)
(* when an image has been pushed under that name, and is final for as long *)
(* as the record of the work (the completed job) is there.                 *)
(***************************************************************************)
VARIABLES phase, image, record

Open == {"none", "Pending", "Processing", "Failed"}

Init == phase = "none" /\ image = FALSE /\ record = FALSE

Push == image' = TRUE /\ record' = TRUE /\ UNCHANGED phase

(* The record is removed, by hand or by garbage collection. *)
Forget == record /\ record' = FALSE /\ UNCHANGED <<phase, image>>

Report == /\ phase = "Completed" => ~record
          /\ phase' \in Open \cup (IF image THEN {"Completed"} ELSE {})
          /\ UNCHANGED <<image, record>>

(* The snapshot is deleted; one created later starts again. *)
Delete == phase' = "none" /\ UNCHANGED <<image, record>>

Next == Push \/ Forget \/ Report \/ Delete

Spec == Init /\ [][Next]_<<phase, image, record>>
=============================================================================
