--------------------------- MODULE MCRoomAdmission ---------------------------
(* Instances of RoomAdmission for TLC. *)
EXTENDS RoomAdmission

\* Every request, one at a time.
SerialOps == AllOps

\* Requests that race with a ban.
BanOps == {"join", "ban", "refresh"}
=============================================================================
