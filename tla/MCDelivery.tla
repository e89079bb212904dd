----------------------------- MODULE MCDelivery -----------------------------
(* Small instances of Delivery. *)
EXTENDS Delivery, TLC

CONSTANTS m1, m2, k1, p1, w1, w2

MCKeyOf == [m \in Messages |-> k1]

=============================================================================
