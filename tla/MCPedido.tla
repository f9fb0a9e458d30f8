------------------------------ MODULE MCPedido ------------------------------
(***************************************************************************)
(* Requests for TLC: operators are interchangeable.                        *)
(***************************************************************************)
EXTENDS Pedido, TLC

CONSTANTS ana, bia, caio

UmOperador == {ana}
DoisOperadores == {ana, bia}
TresOperadores == {ana, bia, caio}
Simetria == Permutations(Operadores)

TodasAsFalhas == TiposDeFalha
NenhumaFalha == {}
=============================================================================
