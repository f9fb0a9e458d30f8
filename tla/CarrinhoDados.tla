---------------------------- MODULE CarrinhoDados ----------------------------
(***************************************************************************)
(* The cart record that internal/dto/carrinho.go stores in Redis as one    *)
(* JSON value, and the functions of internal/service/carrinho_service.go   *)
(* that compute a new cart from an old one.  Nothing here has state: the   *)
(* modules that interleave handlers read a cart, apply one of these        *)
(* functions and save the result, as the code does.                        *)
(*                                                                         *)
(* Amounts are integers in one unit of money.  Tolerancia is the R$ 0.01   *)
(* of the code in that unit.  The observation of an item, the order of the *)
(* items and the timestamps are left out.  The payments of a cart are kept *)
(* as what the code computes from the list: their sum, the payment methods *)
(* used, and whether each one passes the per-payment checks.               *)
(*                                                                         *)
(* The field mexido is not in the code.  It is a history field: it says    *)
(* that items were added by a tool, or removed, since the checkout began.  *)
(***************************************************************************)
EXTENDS Integers, Functions

CONSTANTS
  Produtos,      \* product ids of one tenant
  Preco,         \* price a product enters the cart with
  MaxQtd,        \* bound: units of one product in a cart
  Formas,        \* payment methods of the tenant
  Dinheiro,      \* those of tipo "dinheiro"
  Nenhuma,       \* FormaPagamentoPendente = 0
  SemTroco,      \* TrocoPara = nil
  Tolerancia,    \* the 0.01 the code allows between payments and total
  Centena        \* R$ 100 in the unit of the amounts

Itens == [Produtos -> 0..MaxQtd]
SemItens == [p \in Produtos |-> 0]

(* CalcularTotal: price times quantity, summed over the items.             *)
CalcularTotal(itens) ==
  FoldFunction(+, 0, [p \in Produtos |-> Preco[p] * itens[p]])

ASSUME ConstantesAssumption ==
  /\ MaxQtd \in Nat
  /\ Tolerancia \in Nat
  /\ Dinheiro \subseteq Formas
  /\ Nenhuma \notin Formas

(* Prices are positive and above the tolerance, so a cart with items has a *)
(* total above it.  Stated of the totals, because that a sum over a set of *)
(* products is a number takes an induction on the set.                     *)
ASSUME TotalAssumption ==
  /\ CalcularTotal(SemItens) = 0
  /\ \A itens \in Itens :
       /\ CalcularTotal(itens) \in Nat
       /\ itens # SemItens => CalcularTotal(itens) > Tolerancia

-----------------------------------------------------------------------------
(* Estados do carrinho.  The code declares one more, "aguardando_endereco_ *)
(* selecao", which no assignment of the code ever stores.                  *)
Aberto       == "aberto"
EnderecoNovo == "aguardando_endereco_novo"
Confirmacao  == "aguardando_confirmacao_endereco"
Pagamento    == "aguardando_pagamento"
ValorPag     == "aguardando_valor_pagamento"
Troco        == "aguardando_troco"

EmPagamento == {Pagamento, ValorPag, Troco}
Estados == {Aberto, EnderecoNovo, Confirmacao} \cup EmPagamento

Pagamentos == [soma : Int, formas : SUBSET Formas, validos : BOOLEAN]
SemPagamentos == [soma |-> 0, formas |-> {}, validos |-> TRUE]

(* Address ids are the auto-increment ids 1, 2, ...; 0 is the nil pointer. *)
Carrinhos ==
  [itens : Itens, estado : Estados,
   enderecoID : Nat, pendente : BOOLEAN,
   confirmacaoID : Nat, confirmacaoIdx : Nat,
   pagamentos : Pagamentos, forma : Formas \cup {Nenhuma},
   valor : Int, dividido : BOOLEAN, mexido : BOOLEAN]

(* The cart GetOrSet stores when the key is missing.                       *)
Vazio ==
  [itens |-> SemItens, estado |-> Aberto,
   enderecoID |-> 0, pendente |-> FALSE,
   confirmacaoID |-> 0, confirmacaoIdx |-> 0,
   pagamentos |-> SemPagamentos, forma |-> Nenhuma,
   valor |-> 0, dividido |-> FALSE, mexido |-> FALSE]

-----------------------------------------------------------------------------
(* mergeItem for every item of a set of additions.                         *)
MergeItens(itens, novos) == [p \in Produtos |-> itens[p] + novos[p]]

(* Mutant: what is there does not bound what is subtracted.                *)
RemoverQtdSemLimite(itens, p, q) ==
  [itens EXCEPT ![p] = IF q = 0 THEN 0 ELSE @ - q]

(* RemoverItem: 0, or at least what is there, removes the item; any other  *)
(* quantity, a negative one included, is subtracted.                       *)
RemoverQtd(itens, p, q) ==
  [itens EXCEPT ![p] = IF q = 0 \/ q >= @ THEN 0 ELSE @ - q]

(* The carts AdicionarItem and RemoverItem save: any estado, which stays.   *)
ComItens(c, itens) == [c EXCEPT !.itens = itens, !.mexido = TRUE]

(* What the LLM path of ProcessarMensagem saves after adding items.        *)
ComItensDaConversa(c, novos) ==
  [c EXCEPT !.itens = MergeItens(@, novos), !.estado = Aberto, !.enderecoID = 0]

(* iniciarFluxoFinalizacao: no address on record, or the first one listed. *)
PedirEndereco(c) == [c EXCEPT !.estado = EnderecoNovo, !.mexido = FALSE]

(* Mutant: a typed address is not discarded when a registered one is shown. *)
ConfirmarExistenteComPendente(c, id) ==
  [c EXCEPT !.enderecoID = id, !.confirmacaoID = id, !.estado = Confirmacao]

(* prepararConfirmacaoEnderecoExistente *)
ConfirmarExistente(c, id) ==
  [c EXCEPT !.enderecoID = id, !.confirmacaoID = id, !.pendente = FALSE,
            !.estado = Confirmacao]

(* handleNovoEndereco, once the text was parsed and its CEP found.         *)
ConfirmarDigitado(c) ==
  [c EXCEPT !.pendente = TRUE, !.confirmacaoID = 0, !.estado = Confirmacao]

(* Mutant: the typed address stays pending after it was created.           *)
ComecarComPendente(c, id) ==
  [c EXCEPT !.enderecoID = id, !.estado = Pagamento,
            !.confirmacaoID = 0, !.confirmacaoIdx = 0,
            !.pagamentos = SemPagamentos, !.forma = Nenhuma,
            !.valor = 0, !.dividido = FALSE]

(* The cart iniciarPagamento saves, after the fields handleConfirmacao-    *)
(* Endereco clears on "sim".                                               *)
ComecarPagamento(c, id) ==
  [c EXCEPT !.enderecoID = id, !.estado = Pagamento,
            !.pendente = FALSE, !.confirmacaoID = 0, !.confirmacaoIdx = 0,
            !.pagamentos = SemPagamentos, !.forma = Nenhuma,
            !.valor = 0, !.dividido = FALSE]

(* The cart a cancelled checkout leaves.  The pending method, its amount   *)
(* and the split flag stay.                                                *)
Cancelado(c) ==
  [c EXCEPT !.estado = Aberto, !.enderecoID = 0, !.pendente = FALSE,
            !.confirmacaoID = 0, !.pagamentos = SemPagamentos]

(* A payment appended to the list, and the pending fields continuarPaga-   *)
(* mento clears.                                                           *)
PagamentoValido(f, v, troco) ==
  /\ v > 0
  /\ troco # SemTroco => f \in Dinheiro /\ troco >= v

Registrar(c, f, v, troco) ==
  [c EXCEPT
     !.pagamentos = [soma    |-> @.soma + v,
                     formas  |-> @.formas \cup {f},
                     validos |-> @.validos /\ PagamentoValido(f, v, troco)],
     !.forma = Nenhuma, !.valor = 0, !.dividido = FALSE]

(* Mutant: no tolerance.                                                   *)
CobertoExato(c) == c.pagamentos.soma >= CalcularTotal(c.itens)

(* The test of continuarPagamento: the payments cover the total.           *)
Coberto(c) == c.pagamentos.soma >= CalcularTotal(c.itens) - Tolerancia

Devido(c) == CalcularTotal(c.itens) - c.pagamentos.soma

ProximaCentena(v) == (v \div Centena + 1) * Centena

SomaConfere(pgs, itens) ==
  /\ pgs.soma >= CalcularTotal(itens) - Tolerancia
  /\ pgs.soma <= CalcularTotal(itens) + Tolerancia

(* Mutant: the sum is not compared with the total.                         *)
AceitosSemSoma(pgs, itens, ativas) ==
  pgs.formas # {} => pgs.validos /\ pgs.formas \subseteq ativas

(* prepararPagamentos: what an order asks of its payments, given the       *)
(* methods that are active when it is created.  No payments, no check.     *)
PagamentosAceitos(pgs, itens, ativas) ==
  pgs.formas # {} => /\ pgs.validos
                     /\ pgs.formas \subseteq ativas
                     /\ SomaConfere(pgs, itens)
=============================================================================
