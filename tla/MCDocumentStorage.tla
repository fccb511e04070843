--------------------------- MODULE MCDocumentStorage ---------------------------
(* DocumentStorage on a small instance: two writers in a server, one in a job. *)
EXTENDS DocumentStorage, TLC

CONSTANTS w1, w2, w3

MCProcessOf == (w1 :> "server") @@ (w2 :> "server") @@ (w3 :> "job")
================================================================================
