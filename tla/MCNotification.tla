--------------------------- MODULE MCNotification ---------------------------
(***************************************************************************)
(* TLC's instance of NotificationDelivery: two requests at a time over two *)
(* keys and two endpoints, which nothing tells apart.                      *)
(***************************************************************************)
EXTENDS NotificationDelivery, TLC

Symmetry == Permutations(Workers) \cup Permutations(Keys) \cup Permutations(Endpoints)
=============================================================================
