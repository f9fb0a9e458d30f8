--------------------------- MODULE CicloDoPedido ---------------------------
(***************************************************************************)
(* What the life of an order promises to the shop: it moves one step at a  *)
(* time from pendente (1) to entregue (5), may be cancelled (0) at any     *)
(* step before the last, never leaves either end, and its payments become  *)
(* paid only once it is delivered.                                         *)
(***************************************************************************)
EXTENDS Naturals

VARIABLES
  passo,     \* 1..5, or 0 when cancelled
  quitado    \* its payments are marked as paid

vars == <<passo, quitado>>

Cancelado == 0
Entregue  == 5

Init ==
  /\ passo \in {1, 2}
  /\ quitado = FALSE

Avancar ==
  /\ passo \in 1..4
  /\ passo' = passo + 1
  /\ UNCHANGED quitado

Cancelar ==
  /\ passo \in 1..4
  /\ passo' = Cancelado
  /\ UNCHANGED quitado

Quitar ==
  /\ passo = Entregue
  /\ quitado' = TRUE
  /\ UNCHANGED passo

Next == Avancar \/ Cancelar \/ Quitar

Spec == Init /\ [][Next]_vars
=============================================================================
