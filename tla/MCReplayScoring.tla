------------------------------ MODULE MCReplayScoring ------------------------------
(* One brightness, one camera and one object edit, in the frozen order. *)
EXTENDS ReplayScoring

MCTransforms == <<[name |-> "brightness", family |-> "photometric"],
                  [name |-> "camera_yaw", family |-> "camera_render"],
                  [name |-> "object_yaw", family |-> "object_pose"]>>
=============================================================================
