------------------------------ MODULE MCSession -----------------------------
(* A session with an auth hook whose adapter may log in as well: two          *)
(* identities, room for one frame and one task at a time.                     *)
EXTENDS Session

=============================================================================
