------------------------------ MODULE MCOutbox ------------------------------
(* Small instances of the payment requests and their push outbox. *)
EXTENDS Outbox

CONSTANTS d1, w1, w2
OneDevice == {d1}
OneWorker == {w1}
TwoWorkers == {w1, w2}
=============================================================================
