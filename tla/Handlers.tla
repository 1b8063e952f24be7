------------------------------ MODULE Handlers ------------------------------
(***************************************************************************)
(* What the models of HTTP handlers share: the requests that are in        *)
(* progress, each with a database session of its own (get_db), and the     *)
(* value of a column that is NULL or of a row that is not there.           *)
(***************************************************************************)
CONSTANTS Requests, None
=============================================================================
