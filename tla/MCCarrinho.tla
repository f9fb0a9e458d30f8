------------------------------ MODULE MCCarrinho ------------------------------
(***************************************************************************)
(* A small shop for TLC: one product, one payment method that takes change *)
(* and one that does not.  The price exceeds the tolerance, and the        *)
(* amounts a client types fall below, on and above the totals, inside the  *)
(* tolerance and outside of it.                                            *)
(***************************************************************************)
EXTENDS Carrinho

CONSTANTS x, din, pix

MCProdutos == {x}
MCPreco == [p \in MCProdutos |-> 3]
MCFormas == {din, pix}
MCDinheiro == {din}
MCValores == {2, 3}

TodasAsFalhas == TiposDeFalha
SemPerderPagamentos == TiposDeFalha \ {"gravarPagamentos"}
=============================================================================
