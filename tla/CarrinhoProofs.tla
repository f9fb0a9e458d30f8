---------------------------- MODULE CarrinhoProofs ----------------------------
(***************************************************************************)
(* Theorems about Carrinho, for every shop, every price list and every set *)
(* of failing calls.  The invariant is a predicate Bom on the cart alone:  *)
(* one lemma per cart function of CarrinhoDados says that it keeps Bom,    *)
(* and the step of each action follows from the lemma of the function it   *)
(* saves.                                                                  *)
(***************************************************************************)
EXTENDS Carrinho, SequenceTheorems, TLAPS

(* A method is pending whenever an amount or its change is asked for.      *)
FormaPendente(c) == c.estado \in {ValorPag, Troco} => c.forma \in Formas

(* ConfirmacaoCoerente and CobrancaTemEndereco, of any cart.               *)
Coerente(c, n) ==
  c.estado = Confirmacao =>
    IF c.pendente
      THEN c.confirmacaoID = 0
      ELSE c.enderecoID \in 1..n /\ c.confirmacaoID = c.enderecoID

TemEndereco(c, n) == c.estado \in EmPagamento => c.enderecoID \in 1..n /\ ~c.pendente

(* A checkout no tool disturbed still has something to sell.               *)
Cheio(c) == c.estado # Aberto /\ ~c.mexido => c.itens # SemItens

(* ContaFecha, of any cart.                                                *)
Conta(c) ==
  c.estado \in EmPagamento /\ ~c.mexido =>
    /\ c.pagamentos.validos
    /\ Devido(c) > Tolerancia
    /\ c.estado = Troco =>
         /\ c.forma \in Dinheiro
         /\ c.valor > 0
         /\ Devido(c) - c.valor >= -Tolerancia

Bom(c, n) ==
  /\ c \in Carrinhos
  /\ FormaPendente(c)
  /\ Coerente(c, n)
  /\ TemEndereco(c, n)
  /\ Cheio(c)
  /\ Conta(c)

Resto ==
  /\ enderecos \in Nat
  /\ ativas \in SUBSET Formas
  /\ pedidos \in Seq(Pedidos)
  /\ resposta \in Respostas

IInv == Bom(carrinho, enderecos) /\ Resto

-----------------------------------------------------------------------------
(* Totals.                                                                 *)

LEMMA TotalNat ==
  ASSUME NEW itens \in Itens
  PROVE  /\ CalcularTotal(itens) \in Nat
         /\ itens # SemItens => CalcularTotal(itens) > Tolerancia
BY TotalAssumption

LEMMA SemItensTipo == SemItens \in Itens
BY ConstantesAssumption DEF SemItens, Itens

-----------------------------------------------------------------------------
(* Every cart function keeps Bom.                                          *)

LEMMA SemPagamentosTipo == SemPagamentos \in Pagamentos
BY DEF SemPagamentos, Pagamentos

LEMMA EstadosTipo ==
  /\ Aberto \in Estados /\ EnderecoNovo \in Estados /\ Confirmacao \in Estados
  /\ Pagamento \in Estados /\ ValorPag \in Estados /\ Troco \in Estados
BY DEF Estados, EmPagamento

LEMMA PagamentosGuardados ==
  ASSUME NEW c \in Carrinhos, NEW pgs \in Pagamentos
  PROVE  [c EXCEPT !.pagamentos = pgs, !.forma = Nenhuma,
                   !.valor = 0, !.dividido = FALSE] \in Carrinhos
<1>1. Nenhuma \in Formas \cup {Nenhuma} /\ 0 \in Int
  OBVIOUS
<1> QED
  BY <1>1 DEF Carrinhos

LEMMA VazioBom ==
  ASSUME NEW n \in Nat
  PROVE  Bom(Vazio, n)
BY SemItensTipo
   DEF Bom, Vazio, Carrinhos, Pagamentos, SemPagamentos, Estados, EmPagamento,
       FormaPendente, Coerente, TemEndereco, Cheio, Conta,
       Aberto, EnderecoNovo, Confirmacao, Pagamento, ValorPag, Troco

LEMMA BomCresce ==
  ASSUME NEW n \in Nat, NEW m \in Nat, n <= m, NEW c, Bom(c, n)
  PROVE  Bom(c, m)
BY DEF Bom, Coerente, TemEndereco

LEMMA PedirEnderecoBom ==
  ASSUME NEW n \in Nat, NEW c, Bom(c, n), c.itens # SemItens
  PROVE  Bom(PedirEndereco(c), n)
BY DEF Bom, PedirEndereco, Carrinhos, Estados, EmPagamento,
       FormaPendente, Coerente, TemEndereco, Cheio, Conta,
       Aberto, EnderecoNovo, Confirmacao, Pagamento, ValorPag, Troco

LEMMA ConfirmarExistenteBom ==
  ASSUME NEW n \in Nat, NEW c \in Carrinhos, ~c.mexido => c.itens # SemItens,
         NEW id \in 1..n
  PROVE  Bom(ConfirmarExistente(c, id), n)
<1> DEFINE d == ConfirmarExistente(c, id)
<1>0. id \in Nat
  OBVIOUS
<1>1. d \in Carrinhos
  BY <1>0 DEF ConfirmarExistente, Carrinhos, Estados
<1>2. /\ d.estado = Confirmacao /\ ~d.pendente
      /\ d.enderecoID = id /\ d.confirmacaoID = id
      /\ d.mexido = c.mexido /\ d.itens = c.itens
  BY DEF ConfirmarExistente, Carrinhos
<1> HIDE DEF d
<1>3. FormaPendente(d) /\ Coerente(d, n) /\ TemEndereco(d, n) /\ Cheio(d) /\ Conta(d)
  BY <1>2 DEF EmPagamento, FormaPendente, Coerente, TemEndereco, Cheio, Conta,
              Confirmacao, Pagamento, ValorPag, Troco
<1> QED
  BY <1>1, <1>3 DEF Bom, d

LEMMA ConfirmarInicioBom ==
  ASSUME NEW n \in Nat, NEW c, Bom(c, n), c.itens # SemItens, NEW id \in 1..n
  PROVE  Bom(ConfirmarExistente([c EXCEPT !.confirmacaoIdx = 0, !.mexido = FALSE], id), n)
<1> DEFINE b == [c EXCEPT !.confirmacaoIdx = 0, !.mexido = FALSE]
<1>1. b \in Carrinhos /\ b.itens = c.itens
  BY DEF Bom, Carrinhos
<1>2. b.itens # SemItens
  BY <1>1
<1> QED
  BY <1>1, <1>2, ConfirmarExistenteBom

LEMMA ConfirmarProximoBom ==
  ASSUME NEW n \in Nat, NEW c, Bom(c, n), c.estado = Confirmacao,
         NEW id \in 1..n, NEW i \in Nat
  PROVE  Bom(ConfirmarExistente([c EXCEPT !.confirmacaoIdx = i], id), n)
<1> DEFINE b == [c EXCEPT !.confirmacaoIdx = i]
<1>1. b \in Carrinhos /\ b.itens = c.itens /\ b.mexido = c.mexido
  BY DEF Bom, Carrinhos
<1>2. ~b.mexido => b.itens # SemItens
  BY <1>1 DEF Bom, Cheio, Carrinhos, Confirmacao, Aberto
<1> QED
  BY <1>1, <1>2, ConfirmarExistenteBom

LEMMA ConfirmarDigitadoBom ==
  ASSUME NEW n \in Nat, NEW c, Bom(c, n), c.estado = EnderecoNovo
  PROVE  Bom(ConfirmarDigitado(c), n)
BY DEF Bom, ConfirmarDigitado, Carrinhos, Estados, EmPagamento,
       FormaPendente, Coerente, TemEndereco, Cheio, Conta,
       Aberto, EnderecoNovo, Confirmacao, Pagamento, ValorPag, Troco

LEMMA ComecarPagamentoBom ==
  ASSUME NEW n \in Nat, NEW c, Bom(c, n), c.estado = Confirmacao, NEW id \in 1..n
  PROVE  Bom(ComecarPagamento(c, id), n)
<1> DEFINE d == ComecarPagamento(c, id)
<1>0. id \in Nat /\ c \in Carrinhos /\ c.itens \in Itens
  BY DEF Bom, Carrinhos
<1>1. d \in Carrinhos
  <2>1. [c EXCEPT !.enderecoID = id, !.estado = Pagamento,
                  !.pendente = FALSE, !.confirmacaoID = 0, !.confirmacaoIdx = 0]
          \in Carrinhos
    BY <1>0, EstadosTipo DEF Carrinhos
  <2> QED
    BY <2>1, SemPagamentosTipo, PagamentosGuardados DEF ComecarPagamento
<1>2. /\ d.estado = Pagamento /\ ~d.pendente /\ d.enderecoID = id
      /\ d.mexido = c.mexido /\ d.itens = c.itens
      /\ d.pagamentos.soma = 0 /\ d.pagamentos.validos
  BY <1>0 DEF ComecarPagamento, Carrinhos, SemPagamentos
<1> HIDE DEF d
<1>3. FormaPendente(d) /\ Coerente(d, n) /\ TemEndereco(d, n)
  BY <1>2 DEF FormaPendente, Coerente, TemEndereco,
              Confirmacao, Pagamento, ValorPag, Troco
<1>4. ~d.mexido => d.itens # SemItens
  BY <1>2 DEF Bom, Cheio, Aberto, Confirmacao
<1>5. Conta(d)
  <2>1. ~d.mexido => CalcularTotal(d.itens) - 0 > Tolerancia
    BY <1>0, <1>2, <1>4, TotalNat, ConstantesAssumption
  <2> QED
    BY <1>2, <2>1 DEF Conta, Devido, Pagamento, Troco
<1> QED
  BY <1>1, <1>3, <1>4, <1>5 DEF Bom, Cheio, d
(* Outside a checkout Bom asks for nothing but the type.                   *)
LEMMA AbertoBom ==
  ASSUME NEW n, NEW c \in Carrinhos, c.estado = Aberto
  PROVE  Bom(c, n)
BY DEF Bom, EmPagamento, FormaPendente, Coerente, TemEndereco, Cheio, Conta,
       Aberto, Confirmacao, Pagamento, ValorPag, Troco

LEMMA CanceladoBom ==
  ASSUME NEW n \in Nat, NEW c, Bom(c, n)
  PROVE  Bom(Cancelado(c), n)
<1> DEFINE d == Cancelado(c)
<1>1. d \in Carrinhos
  BY SemPagamentosTipo, EstadosTipo DEF Bom, Cancelado, Carrinhos
<1>2. d.estado = Aberto
  BY DEF Bom, Cancelado, Carrinhos
<1> QED
  BY <1>1, <1>2, AbertoBom

(* What the conversation saves after buying, and the tools after editing.  *)
LEMMA ItensDaConversaBom ==
  ASSUME NEW n \in Nat, NEW c, Bom(c, n), NEW novos, MergeItens(c.itens, novos) \in Itens
  PROVE  Bom(ComItensDaConversa(c, novos), n)
<1> DEFINE d == ComItensDaConversa(c, novos)
<1>1. d \in Carrinhos
  BY DEF Bom, ComItensDaConversa, Carrinhos, Estados
<1>2. d.estado = Aberto
  BY DEF Bom, ComItensDaConversa, Carrinhos
<1> QED
  BY <1>1, <1>2, AbertoBom

LEMMA ItensBom ==
  ASSUME NEW n \in Nat, NEW c, Bom(c, n), NEW itens \in Itens
  PROVE  Bom(ComItens(c, itens), n)
<1> DEFINE d == ComItens(c, itens)
<1>1. d \in Carrinhos
  BY DEF Bom, ComItens, Carrinhos
<1>2. /\ d.mexido /\ d.estado = c.estado /\ d.forma = c.forma
      /\ d.enderecoID = c.enderecoID /\ d.confirmacaoID = c.confirmacaoID
      /\ d.pendente = c.pendente
  BY DEF Bom, ComItens, Carrinhos
<1> HIDE DEF d
<1> QED
  <2>1. Bom(d, n)
    BY <1>1, <1>2 DEF Bom, FormaPendente, Coerente, TemEndereco, Cheio, Conta
  <2> QED
    BY <2>1 DEF d
-----------------------------------------------------------------------------
(* The charging phase.  A cart that differs only in its payments keeps the *)
(* address and the items of the one before.                                *)
LEMMA CobrandoBom ==
  ASSUME NEW n, NEW c, Bom(c, n), c.estado \in EmPagamento,
         NEW d \in Carrinhos, d.estado \in EmPagamento,
         d.enderecoID = c.enderecoID, d.pendente = c.pendente,
         d.itens = c.itens, d.mexido = c.mexido,
         FormaPendente(d), Conta(d)
  PROVE  Bom(d, n)
<1>1. Coerente(d, n) /\ TemEndereco(d, n)
  BY DEF Bom, Coerente, TemEndereco, EmPagamento, Confirmacao, Pagamento, ValorPag, Troco
<1>2. Cheio(d)
  BY DEF Bom, Cheio, EmPagamento, Aberto, Pagamento, ValorPag, Troco
<1> QED
  BY <1>1, <1>2 DEF Bom

LEMMA ContaTipo ==
  ASSUME NEW c \in Carrinhos
  PROVE  /\ CalcularTotal(c.itens) \in Int /\ c.pagamentos.soma \in Int
         /\ Devido(c) \in Int /\ Tolerancia \in Int /\ c.valor \in Int
<1>1. c.itens \in Itens /\ c.pagamentos.soma \in Int /\ c.valor \in Int
  BY DEF Carrinhos, Pagamentos
<1>2. CalcularTotal(c.itens) \in Int
  BY <1>1, TotalNat
<1> QED
  BY <1>1, <1>2, ConstantesAssumption DEF Devido

LEMMA DividirBom ==
  ASSUME NEW n, NEW c, Bom(c, n), c.estado = Pagamento
  PROVE  Bom([c EXCEPT !.dividido = TRUE], n)
<1> DEFINE d == [c EXCEPT !.dividido = TRUE]
<1>1. /\ d \in Carrinhos /\ d.estado = Pagamento
      /\ d.enderecoID = c.enderecoID /\ d.pendente = c.pendente
      /\ d.itens = c.itens /\ d.mexido = c.mexido /\ d.pagamentos = c.pagamentos
  BY DEF Bom, Carrinhos
<1>2. FormaPendente(d) /\ Conta(d)
  BY <1>1 DEF Bom, FormaPendente, Conta, Devido, Pagamento, ValorPag, Troco
<1> QED
  BY <1>1, <1>2, CobrandoBom DEF EmPagamento

LEMMA ValorPagBom ==
  ASSUME NEW n, NEW c, Bom(c, n), c.estado = Pagamento, NEW f \in Formas
  PROVE  Bom([c EXCEPT !.forma = f, !.estado = ValorPag], n)
<1> DEFINE d == [c EXCEPT !.forma = f, !.estado = ValorPag]
<1>1. /\ d \in Carrinhos /\ d.estado = ValorPag /\ d.forma = f
      /\ d.enderecoID = c.enderecoID /\ d.pendente = c.pendente
      /\ d.itens = c.itens /\ d.mexido = c.mexido /\ d.pagamentos = c.pagamentos
  BY EstadosTipo DEF Bom, Carrinhos
<1>2. FormaPendente(d) /\ Conta(d)
  BY <1>1 DEF Bom, FormaPendente, Conta, Devido, EmPagamento, Pagamento, ValorPag, Troco
<1> QED
  BY <1>1, <1>2, CobrandoBom DEF EmPagamento

(* Waiting for the change of an amount v that does not overshoot.          *)
LEMMA TrocoBom ==
  ASSUME NEW n, NEW c, Bom(c, n), c.estado \in {Pagamento, ValorPag},
         NEW f \in Dinheiro, NEW v \in Int,
         ~c.mexido => v > 0 /\ v <= Devido(c) + Tolerancia
  PROVE  Bom([c EXCEPT !.forma = f, !.valor = v, !.estado = Troco], n)
<1> DEFINE d == [c EXCEPT !.forma = f, !.valor = v, !.estado = Troco]
<1>0. f \in Formas
  BY ConstantesAssumption
<1>1. /\ d \in Carrinhos /\ d.estado = Troco /\ d.forma = f /\ d.valor = v
      /\ d.enderecoID = c.enderecoID /\ d.pendente = c.pendente
      /\ d.itens = c.itens /\ d.mexido = c.mexido /\ d.pagamentos = c.pagamentos
  BY <1>0, EstadosTipo DEF Bom, Carrinhos
<1>2. FormaPendente(d)
  BY <1>0, <1>1 DEF FormaPendente
<1>3. Conta(d)
  <2>1. Devido(d) = Devido(c)
    BY <1>1 DEF Devido
  <2>2. Devido(c) \in Int /\ Tolerancia \in Int
    BY ContaTipo DEF Bom
  <2>3. ~c.mexido => c.pagamentos.validos /\ Devido(c) > Tolerancia
    BY DEF Bom, Conta, EmPagamento
  <2>4. ~c.mexido => Devido(c) - v >= -Tolerancia
    BY <2>2
  <2> HIDE DEF d
  <2> QED
    BY <1>1, <2>1, <2>3, <2>4 DEF Conta
<1> QED
  BY <1>1, <1>2, <1>3, CobrandoBom DEF EmPagamento
LEMMA RegistrarCampos ==
  ASSUME NEW c \in Carrinhos, NEW f \in Formas, NEW v \in Int, NEW t
  PROVE  LET d == Registrar(c, f, v, t) IN
         /\ d \in Carrinhos
         /\ d.estado = c.estado
         /\ d.enderecoID = c.enderecoID /\ d.pendente = c.pendente
         /\ d.itens = c.itens /\ d.mexido = c.mexido
         /\ d.pagamentos.soma = c.pagamentos.soma + v
         /\ d.pagamentos.formas = c.pagamentos.formas \cup {f}
         /\ d.pagamentos.validos = (c.pagamentos.validos /\ PagamentoValido(f, v, t))
<1> DEFINE d == Registrar(c, f, v, t)
           pgs == [soma    |-> c.pagamentos.soma + v,
                   formas  |-> c.pagamentos.formas \cup {f},
                   validos |-> c.pagamentos.validos /\ PagamentoValido(f, v, t)]
<1>1. c.pagamentos \in Pagamentos
  BY DEF Carrinhos
<1>2. pgs \in Pagamentos
  <2>1. (c.pagamentos.validos /\ PagamentoValido(f, v, t)) \in BOOLEAN
    BY Zenon
  <2> QED
    <3>1. c.pagamentos.soma + v \in Int
      BY <1>1 DEF Pagamentos
    <3>2. c.pagamentos.formas \cup {f} \in SUBSET Formas
      BY <1>1 DEF Pagamentos
    <3> DEFINE b == c.pagamentos.validos /\ PagamentoValido(f, v, t)
    <3> HIDE DEF b
    <3>3. b \in BOOLEAN
      BY <2>1 DEF b
    <3>4. [soma |-> c.pagamentos.soma + v, formas |-> c.pagamentos.formas \cup {f},
           validos |-> b] \in Pagamentos
      BY <3>1, <3>2, <3>3 DEF Pagamentos
    <3> QED
      BY <3>4 DEF b
<1>3. /\ d.pagamentos = pgs /\ d.estado = c.estado
      /\ d.enderecoID = c.enderecoID /\ d.pendente = c.pendente
      /\ d.itens = c.itens /\ d.mexido = c.mexido
  BY DEF Registrar, Carrinhos
<1>4. d \in Carrinhos
  <2> HIDE DEF pgs
  <2>1. [c EXCEPT !.pagamentos = pgs, !.forma = Nenhuma,
                  !.valor = 0, !.dividido = FALSE] \in Carrinhos
    BY <1>2, PagamentosGuardados
  <2> QED
    BY <2>1 DEF Registrar, pgs
<1> QED
  BY <1>3, <1>4

(* What continuarPagamento saves, or hands to finalizarComEndereco.        *)
LEMMA MaisUmPagamentoBom ==
  ASSUME NEW n, NEW c, Bom(c, n), c.estado \in EmPagamento,
         NEW f \in Formas, NEW v \in Int, NEW t,
         ~c.mexido => PagamentoValido(f, v, t),
         ~Coberto(Registrar(c, f, v, t))
  PROVE  Bom([Registrar(c, f, v, t) EXCEPT !.estado = Pagamento], n)
<1> DEFINE r == Registrar(c, f, v, t)
           d == [r EXCEPT !.estado = Pagamento]
<1>1. c \in Carrinhos
  BY DEF Bom
<1>2. /\ r \in Carrinhos
      /\ r.enderecoID = c.enderecoID /\ r.pendente = c.pendente
      /\ r.itens = c.itens /\ r.mexido = c.mexido
      /\ r.pagamentos.validos = (c.pagamentos.validos /\ PagamentoValido(f, v, t))
  BY <1>1, RegistrarCampos
<1>3. ~Coberto(r)
  OBVIOUS
<1> HIDE DEF r
<1>4. /\ d \in Carrinhos /\ d.estado = Pagamento
      /\ d.enderecoID = c.enderecoID /\ d.pendente = c.pendente
      /\ d.itens = r.itens /\ d.mexido = c.mexido /\ d.pagamentos = r.pagamentos
  BY <1>2, EstadosTipo DEF Carrinhos
<1>5. Devido(d) > Tolerancia
  <2>1. Devido(d) = CalcularTotal(r.itens) - r.pagamentos.soma
    BY <1>4 DEF Devido
  <2>2. /\ CalcularTotal(r.itens) \in Int /\ r.pagamentos.soma \in Int
        /\ Tolerancia \in Int
    BY <1>2, ContaTipo
  <2>3. ~(r.pagamentos.soma >= CalcularTotal(r.itens) - Tolerancia)
    BY <1>3 DEF Coberto
  <2> QED
    BY <2>1, <2>2, <2>3
<1>6. ~d.mexido => d.pagamentos.validos
  <2>1. ~c.mexido => c.pagamentos.validos
    BY DEF Bom, Conta
  <2> HIDE DEF d
  <2> QED
    BY <1>2, <1>4, <2>1, Zenon
<1> HIDE DEF d
<1>7. FormaPendente(d) /\ Conta(d)
  BY <1>4, <1>5, <1>6 DEF FormaPendente, Conta, Pagamento, ValorPag, Troco
<1>8. Bom(d, n)
  BY <1>2, <1>4, <1>7, CobrandoBom DEF EmPagamento
<1> QED
  BY <1>8 DEF d, r
-----------------------------------------------------------------------------
(* Reading and saving.                                                     *)

LEMMA LidoBom ==
  ASSUME IInv, NEW c \in Lidos
  PROVE  Bom(c, enderecos) /\ c \in {carrinho, Vazio}
<1>1. c \in {carrinho, Vazio}
  BY DEF Lidos
<1>2. Bom(Vazio, enderecos)
  BY VazioBom DEF IInv, Resto
<1> QED
  BY <1>1, <1>2 DEF IInv

LEMMA ManterBom ==
  ASSUME NEW n, Bom(carrinho, n), NEW c, Bom(c, n), Manter(c)
  PROVE  Bom(carrinho', n)
BY DEF Manter

LEMMA SalvarBom ==
  ASSUME NEW n, Bom(carrinho, n), NEW c, Bom(c, n), NEW novo, Bom(novo, n),
         Salvar(c, novo)
  PROVE  Bom(carrinho', n) /\ resposta' \in Respostas
BY ManterBom DEF Salvar, Respostas

(* What Finalizar does: at most one order, made of the items re-read.      *)
Feito(l, e, pgs) ==
  \E p \in Pedidos :
    /\ pedidos' = Append(pedidos, p)
    /\ p.endereco = e
    /\ p.total = CalcularTotal(l.itens)
    /\ "gravarPagamentos" \notin Falhas => p.pago = pgs.soma
    /\ l.itens # SemItens
    /\ PagamentosAceitos(pgs, l.itens, ativas)
    /\ carrinho' \in {l, Vazio}

LEMMA NovoPedidoTipo ==
  ASSUME NEW e \in Nat, NEW l \in Carrinhos, NEW pgs \in Pagamentos
  PROVE  LET p == NovoPedido(e, l.itens, pgs) IN
         /\ p \in Pedidos
         /\ p.endereco = e /\ p.total = CalcularTotal(l.itens) /\ p.pago = pgs.soma
<1>1. l.itens \in Itens /\ pgs.soma \in Int
  BY DEF Carrinhos, Pagamentos
<1>2. CalcularTotal(l.itens) \in Nat
  BY <1>1, TotalNat
<1> QED
  BY <1>1, <1>2 DEF NovoPedido, Pedidos

LEMMA FinalizarEfeito ==
  ASSUME NEW g, NEW l \in Carrinhos, NEW e \in Nat, NEW pgs \in Pagamentos,
         Finalizar(g, l, e, pgs)
  PROVE  /\ \/ pedidos' = pedidos /\ carrinho' \in {g, l}
            \/ Feito(l, e, pgs)
         /\ resposta' \in Respostas
<1>1. ASSUME NEW r \in Respostas, SemPedido(g, l, r)
      PROVE  pedidos' = pedidos /\ carrinho' \in {g, l} /\ resposta' \in Respostas
  BY <1>1 DEF SemPedido
<1>2. CASE \E r \in Respostas : SemPedido(g, l, r)
  BY <1>1, <1>2
<1>3. CASE /\ l.itens # SemItens
           /\ PagamentosAceitos(pgs, l.itens, ativas)
           /\ "gravarPagamentos" \in Falhas
           /\ pedidos' = Append(pedidos, NovoPedido(e, l.itens, SemPagamentos))
           /\ carrinho' = l
           /\ resposta' = "erro"
  <2>1. NovoPedido(e, l.itens, SemPagamentos) \in Pedidos
        /\ NovoPedido(e, l.itens, SemPagamentos).endereco = e
        /\ NovoPedido(e, l.itens, SemPagamentos).total = CalcularTotal(l.itens)
    BY NovoPedidoTipo, SemPagamentosTipo
  <2> QED
    BY <1>3, <2>1 DEF Feito, Respostas
<1>4. CASE /\ l.itens # SemItens
           /\ PagamentosAceitos(pgs, l.itens, ativas)
           /\ pedidos' = Append(pedidos, NovoPedido(e, l.itens, pgs))
           /\ Apagar(l)
           /\ resposta' = "aviso"
  <2>1. NovoPedido(e, l.itens, pgs) \in Pedidos
        /\ NovoPedido(e, l.itens, pgs).endereco = e
        /\ NovoPedido(e, l.itens, pgs).total = CalcularTotal(l.itens)
        /\ NovoPedido(e, l.itens, pgs).pago = pgs.soma
    BY NovoPedidoTipo
  <2> QED
    BY <1>4, <2>1 DEF Feito, Apagar, Respostas
<1> QED
  BY <1>2, <1>3, <1>4 DEF Finalizar, Respostas

LEMMA FinalizarBom ==
  ASSUME NEW n \in Nat, Resto, NEW g, Bom(g, n), NEW l, Bom(l, n),
         NEW e \in Nat, NEW pgs \in Pagamentos, Finalizar(g, l, e, pgs)
  PROVE  Bom(carrinho', n) /\ pedidos' \in Seq(Pedidos) /\ resposta' \in Respostas
<1>1. l \in Carrinhos
  BY DEF Bom
<1>2. Bom(Vazio, n)
  BY VazioBom
<1>3. CASE Feito(l, e, pgs)
  BY <1>1, <1>2, <1>3, FinalizarEfeito DEF Feito, Resto
<1>4. CASE pedidos' = pedidos /\ carrinho' \in {g, l}
  BY <1>1, <1>4, FinalizarEfeito DEF Resto
<1> QED
  BY <1>1, <1>3, <1>4, FinalizarEfeito

(* continuarPagamento, after the payment (f, v, t) was appended.           *)
LEMMA ContinuarBom ==
  ASSUME IInv, NEW c \in Lidos, c.estado \in EmPagamento,
         NEW f \in Formas, NEW v \in Int, NEW t,
         ~c.mexido => PagamentoValido(f, v, t),
         ContinuarPagamento(c, Registrar(c, f, v, t))
  PROVE  Bom(carrinho', enderecos) /\ pedidos' \in Seq(Pedidos) /\ resposta' \in Respostas
<1> DEFINE r == Registrar(c, f, v, t)
<1>1. Bom(c, enderecos) /\ Bom(carrinho, enderecos) /\ enderecos \in Nat /\ c \in Carrinhos
  BY LidoBom DEF IInv, Resto, Bom
<1>2. r \in Carrinhos
  BY <1>1, RegistrarCampos
<1>3. CASE ~Coberto(r)
  <2> DEFINE d == [r EXCEPT !.estado = Pagamento]
  <2>1. Bom(d, enderecos)
    BY <1>1, <1>3, MaisUmPagamentoBom
  <2> HIDE DEF r, d
  <2>2. /\ Salvar(c, d) \/ (carrinho' = d /\ resposta' = "erro")
        /\ UNCHANGED pedidos
    BY <1>3 DEF ContinuarPagamento, r, d
  <2>3. Salvar(c, d) => Bom(carrinho', enderecos) /\ resposta' \in Respostas
    BY <1>1, <2>1, SalvarBom
  <2>4. carrinho' = d => Bom(carrinho', enderecos)
    BY <2>1
  <2>5. pedidos' \in Seq(Pedidos)
    BY <2>2 DEF IInv, Resto
  <2> QED
    BY <2>2, <2>3, <2>4, <2>5 DEF Respostas
<1>4. CASE Coberto(r)
  <2> DEFINE d == [r EXCEPT !.estado = Aberto]
  <2> HIDE DEF r
  <2>1. d \in Carrinhos /\ d.estado = Aberto
    BY <1>2, EstadosTipo DEF Carrinhos
  <2>2. Bom(d, enderecos) /\ Bom(Vazio, enderecos)
    BY <1>1, <2>1, AbertoBom, VazioBom
  <2>3. r.enderecoID \in Nat /\ r.pagamentos \in Pagamentos
    BY <1>2 DEF Carrinhos
  <2> HIDE DEF d
  <2>4. CASE Manter(c) /\ resposta' = "erro" /\ UNCHANGED pedidos
    BY <1>1, <2>4, ManterBom DEF IInv, Resto, Respostas
  <2>5. CASE \E l \in {d, Vazio} : Finalizar(d, l, r.enderecoID, r.pagamentos)
    BY <1>1, <2>2, <2>3, <2>5, FinalizarBom DEF IInv
  <2>6. (Manter(c) /\ resposta' = "erro" /\ UNCHANGED pedidos) \/ FinalizarComEndereco(c, r)
    BY <1>4 DEF ContinuarPagamento, r
  <2>7. FinalizarComEndereco(c, r) =>
          \/ Manter(c) /\ resposta' = "erro" /\ UNCHANGED pedidos
          \/ \E l \in {d, Vazio} : Finalizar(d, l, r.enderecoID, r.pagamentos)
    BY DEF FinalizarComEndereco, d
  <2> QED
    BY <2>4, <2>5, <2>6, <2>7
<1> QED
  BY <1>3, <1>4
-----------------------------------------------------------------------------
(* The steps.  Every action keeps IInv.                                    *)

LEMMA IniciarFinalizacaoBom ==
  ASSUME IInv, IniciarFinalizacao
  PROVE  Bom(carrinho', enderecos) /\ resposta' \in Respostas
<1> PICK c \in Lidos :
      IF c.itens = SemItens
        THEN Manter(c) /\ resposta' = "aviso"
        ELSE \E n \in {enderecos} \cup (IF "enderecos" \in Falhas THEN {0} ELSE {}) :
               Salvar(c, IF n = 0
                           THEN PedirEndereco(c)
                           ELSE ConfirmarExistente(
                                  [c EXCEPT !.confirmacaoIdx = 0, !.mexido = FALSE], n))
  BY DEF IniciarFinalizacao
<1>1. Bom(c, enderecos) /\ Bom(carrinho, enderecos) /\ enderecos \in Nat
  BY LidoBom DEF IInv, Resto
<1>2. CASE c.itens = SemItens
  BY <1>1, <1>2, ManterBom DEF Respostas
<1>3. CASE c.itens # SemItens
  <2>1. PICK n \in {0, enderecos} :
          Salvar(c, IF n = 0
                      THEN PedirEndereco(c)
                      ELSE ConfirmarExistente(
                             [c EXCEPT !.confirmacaoIdx = 0, !.mexido = FALSE], n))
    BY <1>3
  <2>2. CASE n = 0
    <3>1. Bom(PedirEndereco(c), enderecos)
      BY <1>1, <1>3, PedirEnderecoBom
    <3> QED
      BY <1>1, <2>1, <2>2, <3>1, SalvarBom
  <2>3. CASE n # 0
    <3>1. n \in 1..enderecos
      BY <1>1, <2>1, <2>3
    <3>2. Bom(ConfirmarExistente(
                [c EXCEPT !.confirmacaoIdx = 0, !.mexido = FALSE], n), enderecos)
      BY <1>1, <1>3, <3>1, ConfirmarInicioBom
    <3> QED
      BY <1>1, <2>1, <2>3, <3>2, SalvarBom
  <2> QED
    BY <2>2, <2>3
<1> QED
  BY <1>2, <1>3

LEMMA RecusarEnderecoBom ==
  ASSUME IInv, RecusarEndereco
  PROVE  Bom(carrinho', enderecos) /\ resposta' \in Respostas
<1>1. PICK c \in Lidos :
        /\ c.estado = Confirmacao
        /\ LET proximo == c.confirmacaoIdx + 1 IN
           Salvar(c, IF proximo < enderecos
                       THEN ConfirmarExistente([c EXCEPT !.confirmacaoIdx = proximo],
                                               enderecos - proximo)
                       ELSE [c EXCEPT !.estado = EnderecoNovo, !.pendente = FALSE,
                                      !.confirmacaoID = 0, !.confirmacaoIdx = 0])
  BY DEF RecusarEndereco
<1>2. Bom(c, enderecos) /\ Bom(carrinho, enderecos) /\ enderecos \in Nat
  BY LidoBom DEF IInv, Resto
<1> DEFINE i == c.confirmacaoIdx + 1
<1>3. i \in Nat /\ i > 0
  BY <1>2 DEF Bom, Carrinhos
<1>4. CASE i < enderecos
  <2>1. enderecos - i \in 1..enderecos
    BY <1>2, <1>3, <1>4
  <2>2. Bom(ConfirmarExistente([c EXCEPT !.confirmacaoIdx = i], enderecos - i), enderecos)
    BY <1>1, <1>2, <1>3, <2>1, ConfirmarProximoBom
  <2> QED
    BY <1>1, <1>2, <1>4, <2>2, SalvarBom
<1>5. CASE ~(i < enderecos)
  <2> DEFINE d == [c EXCEPT !.estado = EnderecoNovo, !.pendente = FALSE,
                            !.confirmacaoID = 0, !.confirmacaoIdx = 0]
  <2>1. d \in Carrinhos
    BY <1>2, EstadosTipo DEF Bom, Carrinhos
  <2>2. d.estado = EnderecoNovo /\ d.mexido = c.mexido /\ d.itens = c.itens
    BY <1>2 DEF Bom, Carrinhos
  <2>3. ~c.mexido => c.itens # SemItens
    BY <1>1, <1>2 DEF Bom, Cheio, Aberto, Confirmacao
  <2>4. Salvar(c, d)
    BY <1>1, <1>5
  <2> HIDE DEF d
  <2>5. Bom(d, enderecos)
    BY <2>1, <2>2, <2>3
       DEF Bom, FormaPendente, Coerente, TemEndereco, Cheio, Conta, EmPagamento,
           EnderecoNovo, Confirmacao, Pagamento, ValorPag, Troco
  <2> QED
    BY <1>2, <2>4, <2>5, SalvarBom
<1> QED
  BY <1>4, <1>5

LEMMA IniciarPagamentoBom ==
  ASSUME NEW n \in Nat, Bom(carrinho, n), NEW c, Bom(c, n), c.estado = Confirmacao,
         NEW id \in 1..n, IniciarPagamento(c, id)
  PROVE  Bom(carrinho', n) /\ resposta' \in Respostas
<1>1. Bom(ComecarPagamento(c, id), n)
  BY ComecarPagamentoBom
<1> QED
  BY <1>1, ManterBom, SalvarBom DEF IniciarPagamento, Respostas

LEMMA AceitarEnderecoBom ==
  ASSUME IInv, AceitarEndereco
  PROVE  Bom(carrinho', enderecos') /\ resposta' \in Respostas /\ enderecos' \in Nat
<1>1. PICK c \in Lidos :
        /\ c.estado = Confirmacao
        /\ IF c.pendente
             THEN /\ enderecos < MaxEnderecos
                  /\ enderecos' = enderecos + 1
                  /\ IniciarPagamento(c, enderecos + 1)
             ELSE /\ UNCHANGED enderecos
                  /\ IF c.enderecoID = 0
                       THEN Manter(c) /\ resposta' = "erro"
                       ELSE IniciarPagamento(c, c.enderecoID)
  BY DEF AceitarEndereco
<1>2. Bom(c, enderecos) /\ Bom(carrinho, enderecos) /\ enderecos \in Nat
  BY LidoBom DEF IInv, Resto
<1>3. CASE c.pendente
  <2> DEFINE n == enderecos + 1
  <2>1. n \in Nat /\ enderecos <= n /\ n \in 1..n
    BY <1>2
  <2>2. enderecos' = n /\ IniciarPagamento(c, n)
    BY <1>1, <1>3
  <2> HIDE DEF n
  <2>3. Bom(c, n) /\ Bom(carrinho, n)
    BY <1>2, <2>1, BomCresce
  <2>4. Bom(carrinho', n) /\ resposta' \in Respostas
    BY <1>1, <2>1, <2>2, <2>3, IniciarPagamentoBom
  <2> QED
    BY <2>1, <2>2, <2>4
<1>4. CASE ~c.pendente
  <2>1. c.enderecoID \in 1..enderecos
    BY <1>1, <1>2, <1>4 DEF Bom, Coerente
  <2>2. enderecos' = enderecos
    BY <1>1, <1>4
  <2>3. IniciarPagamento(c, c.enderecoID)
    BY <1>1, <1>2, <1>4, <2>1
  <2>4. Bom(carrinho', enderecos) /\ resposta' \in Respostas
    BY <1>1, <1>2, <2>1, <2>3, IniciarPagamentoBom
  <2> QED
    BY <1>2, <2>2, <2>4
<1> QED
  BY <1>3, <1>4
(* Amounts already due, or checked against the total, are acceptable.      *)
LEMMA EscolherFormaBom ==
  ASSUME IInv, NEW f \in Formas, EscolherForma(f)
  PROVE  Bom(carrinho', enderecos) /\ pedidos' \in Seq(Pedidos) /\ resposta' \in Respostas
<1>1. PICK c \in Lidos :
        /\ c.estado = Pagamento
        /\ CASE c.dividido ->
                  /\ Salvar(c, [c EXCEPT !.forma = f, !.estado = ValorPag])
                  /\ UNCHANGED pedidos
             [] ~c.dividido /\ f \in Dinheiro ->
                  /\ Salvar(c, [c EXCEPT !.forma = f, !.valor = Devido(c),
                                         !.estado = Troco])
                  /\ UNCHANGED pedidos
             [] OTHER ->
                  ContinuarPagamento(c, Registrar(c, f, Devido(c), SemTroco))
  BY DEF EscolherForma
<1>2. /\ Bom(c, enderecos) /\ Bom(carrinho, enderecos)
      /\ c \in Carrinhos /\ pedidos \in Seq(Pedidos)
  BY LidoBom DEF IInv, Resto, Bom
<1>3. /\ Devido(c) \in Int /\ Tolerancia \in Nat
      /\ ~c.mexido => Devido(c) > 0 /\ Devido(c) <= Devido(c) + Tolerancia
  <2>1. Devido(c) \in Int /\ Tolerancia \in Nat
    BY <1>2, ContaTipo, ConstantesAssumption
  <2>2. ~c.mexido => Devido(c) > Tolerancia
    BY <1>1, <1>2 DEF Bom, Conta, EmPagamento
  <2> QED
    BY <2>1, <2>2
<1>4. CASE c.dividido
  <2>1. Salvar(c, [c EXCEPT !.forma = f, !.estado = ValorPag]) /\ UNCHANGED pedidos
    BY <1>1, <1>4
  <2> QED
    BY <1>1, <1>2, <2>1, ValorPagBom, SalvarBom
<1>5. CASE ~c.dividido /\ f \in Dinheiro
  <2>1. /\ Salvar(c, [c EXCEPT !.forma = f, !.valor = Devido(c), !.estado = Troco])
        /\ UNCHANGED pedidos
    BY <1>1, <1>5
  <2>2. Bom([c EXCEPT !.forma = f, !.valor = Devido(c), !.estado = Troco], enderecos)
    BY <1>1, <1>2, <1>3, <1>5, TrocoBom
  <2> QED
    BY <1>2, <2>1, <2>2, SalvarBom
<1>6. CASE ~c.dividido /\ f \notin Dinheiro
  <2>1. ContinuarPagamento(c, Registrar(c, f, Devido(c), SemTroco))
    BY <1>1, <1>6
  <2>2. ~c.mexido => PagamentoValido(f, Devido(c), SemTroco)
    BY <1>3 DEF PagamentoValido
  <2>3. c.estado \in EmPagamento
    BY <1>1 DEF EmPagamento
  <2> QED
    BY <1>3, <2>1, <2>2, <2>3, ContinuarBom
<1> QED
  BY <1>4, <1>5, <1>6

LEMMA InformarValorBom ==
  ASSUME IInv, NEW v \in Valores, InformarValor(v)
  PROVE  Bom(carrinho', enderecos) /\ pedidos' \in Seq(Pedidos) /\ resposta' \in Respostas
<1>1. PICK c \in Lidos :
        /\ c.estado = ValorPag
        /\ v > 0
        /\ v + c.pagamentos.soma <= CalcularTotal(c.itens) + Tolerancia
        /\ IF c.forma \in Dinheiro
             THEN /\ Salvar(c, [c EXCEPT !.valor = v, !.estado = Troco])
                  /\ UNCHANGED pedidos
             ELSE ContinuarPagamento(c, Registrar(c, c.forma, v, SemTroco))
  BY DEF InformarValor
<1>2. /\ Bom(c, enderecos) /\ Bom(carrinho, enderecos)
      /\ c \in Carrinhos /\ pedidos \in Seq(Pedidos) /\ v \in Int
  BY LidoBom, LimitesAssumption DEF IInv, Resto, Bom
<1>3. v <= Devido(c) + Tolerancia
  BY <1>1, <1>2, ContaTipo DEF Devido
<1>4. CASE c.forma \in Dinheiro
  <2>1. Salvar(c, [c EXCEPT !.valor = v, !.estado = Troco]) /\ UNCHANGED pedidos
    BY <1>1, <1>4
  <2>2. [c EXCEPT !.forma = c.forma, !.valor = v, !.estado = Troco]
          = [c EXCEPT !.valor = v, !.estado = Troco]
    BY <1>2 DEF Carrinhos
  <2>3. Bom([c EXCEPT !.forma = c.forma, !.valor = v, !.estado = Troco], enderecos)
    BY <1>1, <1>2, <1>3, <1>4, TrocoBom
  <2>4. Bom([c EXCEPT !.valor = v, !.estado = Troco], enderecos)
    BY <2>2, <2>3
  <2> QED
    BY <1>2, <2>1, <2>4, SalvarBom
<1>5. CASE c.forma \notin Dinheiro
  <2>1. ContinuarPagamento(c, Registrar(c, c.forma, v, SemTroco))
    BY <1>1, <1>5
  <2>2. PagamentoValido(c.forma, v, SemTroco)
    BY <1>1 DEF PagamentoValido
  <2>3. c.estado \in EmPagamento /\ c.forma \in Formas
    BY <1>1, <1>2 DEF EmPagamento, Bom, FormaPendente
  <2> QED
    BY <1>2, <2>1, <2>2, <2>3, ContinuarBom
<1> QED
  BY <1>4, <1>5

LEMMA InformarTrocoBom ==
  ASSUME IInv, InformarTroco
  PROVE  Bom(carrinho', enderecos) /\ pedidos' \in Seq(Pedidos) /\ resposta' \in Respostas
<1>1. PICK c \in Lidos :
        /\ c.estado = Troco
        /\ \E t : /\ t # SemTroco => t >= c.valor
                  /\ ContinuarPagamento(c, Registrar(c, c.forma, c.valor, t))
  BY DEF InformarTroco
<1>2. Bom(c, enderecos) /\ c \in Carrinhos
  BY LidoBom DEF Bom
<1>3. c.estado \in EmPagamento /\ c.forma \in Formas /\ c.valor \in Int
  BY <1>1, <1>2, ContaTipo DEF EmPagamento, Bom, FormaPendente
<1>4. PICK t : /\ t # SemTroco => t >= c.valor
               /\ ContinuarPagamento(c, Registrar(c, c.forma, c.valor, t))
  BY <1>1
<1>5. ~c.mexido => PagamentoValido(c.forma, c.valor, t)
  BY <1>1, <1>2, <1>4 DEF Bom, Conta, PagamentoValido, EmPagamento
<1> QED
  BY <1>3, <1>4, <1>5, ContinuarBom

LEMMA CancelarCheckoutBom ==
  ASSUME IInv, CancelarCheckout
  PROVE  Bom(carrinho', enderecos) /\ resposta' \in Respostas
<1>1. PICK c \in Lidos :
        \/ carrinho' \in {Vazio, Cancelado(c)} /\ resposta' \in Respostas
        \/ Manter(c) /\ resposta' \in Respostas
        \/ Salvar(c, Cancelado(c))
  BY DEF CancelarCheckout, Respostas
<1>2. /\ Bom(c, enderecos) /\ Bom(carrinho, enderecos) /\ enderecos \in Nat
      /\ Bom(Vazio, enderecos)
  BY LidoBom, VazioBom DEF IInv, Resto
<1>3. Bom(Cancelado(c), enderecos)
  BY <1>2, CanceladoBom
<1> QED
  BY <1>1, <1>2, <1>3, ManterBom, SalvarBom

LEMMA PedirItensBom ==
  ASSUME IInv, NEW novos, PedirItens(novos)
  PROVE  Bom(carrinho', enderecos) /\ resposta' \in Respostas
<1>1. PICK c \in Lidos :
        MergeItens(c.itens, novos) \in Itens /\ Salvar(c, ComItensDaConversa(c, novos))
  BY DEF PedirItens
<1>2. Bom(c, enderecos) /\ Bom(carrinho, enderecos) /\ enderecos \in Nat
  BY LidoBom DEF IInv, Resto
<1>3. Bom(ComItensDaConversa(c, novos), enderecos)
  BY <1>1, <1>2, ItensDaConversaBom
<1> QED
  BY <1>1, <1>2, <1>3, SalvarBom
LEMMA AdicionarItemBom ==
  ASSUME IInv, NEW p \in Produtos, NEW q \in 1..MaxQtd, AdicionarItem(p, q)
  PROVE  Bom(carrinho', enderecos)
<1>1. PICK c \in Lidos :
        /\ c.itens[p] + q <= MaxQtd
        /\ \/ carrinho' = ComItens(c, [c.itens EXCEPT ![p] = @ + q])
           \/ Manter(c)
  BY DEF AdicionarItem
<1>2. Bom(c, enderecos) /\ Bom(carrinho, enderecos) /\ enderecos \in Nat
  BY LidoBom DEF IInv, Resto
<1>3. [c.itens EXCEPT ![p] = @ + q] \in Itens
  <2>1. c.itens \in Itens
    BY <1>2 DEF Bom, Carrinhos
  <2> QED
    BY <1>1, <2>1, ConstantesAssumption DEF Itens
<1>4. Bom(ComItens(c, [c.itens EXCEPT ![p] = @ + q]), enderecos)
  BY <1>2, <1>3, ItensBom
<1> QED
  BY <1>1, <1>2, <1>4, ManterBom

LEMMA RemoverItemBom ==
  ASSUME IInv, NEW p \in Produtos, NEW q \in -MaxQtd..MaxQtd, RemoverItem(p, q)
  PROVE  Bom(carrinho', enderecos)
<1>1. PICK c \in Lidos :
        /\ RemoverQtd(c.itens, p, q)[p] <= MaxQtd
        /\ \/ carrinho' = ComItens(c, RemoverQtd(c.itens, p, q))
           \/ Manter(c)
  BY DEF RemoverItem
<1>2. Bom(c, enderecos) /\ Bom(carrinho, enderecos) /\ enderecos \in Nat
  BY LidoBom DEF IInv, Resto
<1>3. RemoverQtd(c.itens, p, q) \in Itens
  <2>1. c.itens \in Itens
    BY <1>2 DEF Bom, Carrinhos
  <2> QED
    BY <1>1, <2>1, ConstantesAssumption DEF Itens, RemoverQtd
<1>4. Bom(ComItens(c, RemoverQtd(c.itens, p, q)), enderecos)
  BY <1>2, <1>3, ItensBom
<1> QED
  BY <1>1, <1>2, <1>4, ManterBom

LEMMA FinalizarPedidoBom ==
  ASSUME IInv, FinalizarPedido
  PROVE  Bom(carrinho', enderecos) /\ pedidos' \in Seq(Pedidos) /\ resposta' \in Respostas
<1>1. PICK c \in Lidos : Finalizar(carrinho, c, 0, SemPagamentos)
  BY DEF FinalizarPedido
<1>2. Bom(c, enderecos) /\ Bom(carrinho, enderecos) /\ enderecos \in Nat /\ Resto
  BY LidoBom DEF IInv, Resto
<1> QED
  BY <1>1, <1>2, SemPagamentosTipo, FinalizarBom

(* The initial states and the steps.                                       *)
LEMMA IInvInicial == Init => IInv
<1> SUFFICES ASSUME Init PROVE IInv
  OBVIOUS
<1>1. enderecos \in Nat /\ carrinho = Vazio
  BY LimitesAssumption DEF Init
<1>2. Bom(carrinho, enderecos)
  BY <1>1, VazioBom
<1>3. pedidos \in Seq(Pedidos)
  BY DEF Init
<1> QED
  BY <1>1, <1>2, <1>3 DEF Init, IInv, Resto, Respostas

LEMMA IInvPasso == IInv /\ [Next]_vars => IInv'
<1> SUFFICES ASSUME IInv, [Next]_vars PROVE IInv'
  OBVIOUS
<1>0. /\ Bom(carrinho, enderecos) /\ Bom(Vazio, enderecos)
      /\ enderecos \in Nat /\ ativas \in SUBSET Formas
      /\ pedidos \in Seq(Pedidos) /\ resposta \in Respostas
  BY VazioBom DEF IInv, Resto
<1>1. ASSUME Bom(carrinho', enderecos), UNCHANGED <<enderecos, ativas>>,
             pedidos' \in Seq(Pedidos), resposta' \in Respostas
      PROVE  IInv'
  BY <1>0, <1>1 DEF IInv, Resto
<1>2. CASE IniciarFinalizacao
  <2>1. UNCHANGED <<enderecos, ativas, pedidos>>
    BY <1>2 DEF IniciarFinalizacao
  <2> QED
    BY <1>0, <1>1, <1>2, <2>1, IniciarFinalizacaoBom
<1>3. CASE InformarEndereco
  <2>1. PICK c \in Lidos : /\ c.estado = EnderecoNovo
                           /\ Salvar(c, ConfirmarDigitado(c))
                           /\ UNCHANGED <<enderecos, ativas, pedidos>>
    BY <1>3 DEF InformarEndereco
  <2>2. Bom(c, enderecos)
    BY LidoBom
  <2>3. Bom(ConfirmarDigitado(c), enderecos)
    BY <1>0, <2>1, <2>2, ConfirmarDigitadoBom
  <2> QED
    BY <1>0, <1>1, <2>1, <2>2, <2>3, SalvarBom
<1>4. CASE RecusarEndereco
  <2>1. UNCHANGED <<enderecos, ativas, pedidos>>
    BY <1>4 DEF RecusarEndereco
  <2> QED
    BY <1>0, <1>1, <1>4, <2>1, RecusarEnderecoBom
<1>5. CASE AceitarEndereco
  <2>1. UNCHANGED <<ativas, pedidos>>
    BY <1>5 DEF AceitarEndereco
  <2> QED
    BY <1>0, <1>5, <2>1, AceitarEnderecoBom DEF IInv, Resto
<1>6. CASE DividirPagamento
  <2>1. PICK c \in Lidos : /\ c.estado = Pagamento
                           /\ Salvar(c, [c EXCEPT !.dividido = TRUE])
                           /\ UNCHANGED <<enderecos, ativas, pedidos>>
    BY <1>6 DEF DividirPagamento
  <2>2. Bom(c, enderecos)
    BY LidoBom
  <2>3. Bom([c EXCEPT !.dividido = TRUE], enderecos)
    BY <2>1, <2>2, DividirBom
  <2> QED
    BY <1>0, <1>1, <2>1, <2>2, <2>3, SalvarBom
<1>7. CASE \E f \in Formas : EscolherForma(f)
  <2>1. UNCHANGED <<enderecos, ativas>>
    BY <1>7 DEF EscolherForma
  <2> QED
    BY <1>1, <1>7, <2>1, EscolherFormaBom
<1>8. CASE \E v \in Valores : InformarValor(v)
  <2>1. UNCHANGED <<enderecos, ativas>>
    BY <1>8 DEF InformarValor
  <2> QED
    BY <1>1, <1>8, <2>1, InformarValorBom
<1>9. CASE InformarTroco
  <2>1. UNCHANGED <<enderecos, ativas>>
    BY <1>9 DEF InformarTroco
  <2> QED
    BY <1>1, <1>9, <2>1, InformarTrocoBom
<1>10. CASE CancelarCheckout
  <2>1. UNCHANGED <<enderecos, ativas, pedidos>>
    BY <1>10 DEF CancelarCheckout
  <2> QED
    BY <1>0, <1>1, <1>10, <2>1, CancelarCheckoutBom
<1>11. CASE \E novos \in Itens \ {SemItens} : PedirItens(novos)
  <2>1. UNCHANGED <<enderecos, ativas, pedidos>>
    BY <1>11 DEF PedirItens
  <2> QED
    BY <1>0, <1>1, <1>11, <2>1, PedirItensBom
<1>12. CASE MensagemSemEfeito
  <2>1. PICK c \in Lidos : /\ Manter(c)
                           /\ resposta' \in {"aviso", "erro"}
                           /\ UNCHANGED <<enderecos, ativas, pedidos>>
    BY <1>12 DEF MensagemSemEfeito
  <2>2. Bom(c, enderecos)
    BY LidoBom
  <2> QED
    BY <1>0, <1>1, <2>1, <2>2, ManterBom DEF Respostas
<1>13. CASE \E p \in Produtos, q \in 1..MaxQtd : AdicionarItem(p, q)
  <2>1. UNCHANGED <<enderecos, ativas, pedidos, resposta>>
    BY <1>13 DEF AdicionarItem
  <2> QED
    BY <1>0, <1>1, <1>13, <2>1, AdicionarItemBom
<1>14. CASE \E p \in Produtos, q \in -MaxQtd..MaxQtd : RemoverItem(p, q)
  <2>1. UNCHANGED <<enderecos, ativas, pedidos, resposta>>
    BY <1>14 DEF RemoverItem
  <2> QED
    BY <1>0, <1>1, <1>14, <2>1, RemoverItemBom
<1>15. CASE FinalizarPedido
  <2>1. UNCHANGED <<enderecos, ativas>>
    BY <1>15 DEF FinalizarPedido
  <2> QED
    BY <1>1, <1>15, <2>1, FinalizarPedidoBom
<1>16. CASE LimparCarrinho \/ Expirar
  <2>1. /\ carrinho' \in {Vazio, carrinho}
        /\ UNCHANGED <<enderecos, ativas, pedidos, resposta>>
    BY <1>16 DEF LimparCarrinho, Expirar, Apagar
  <2> QED
    BY <1>0, <1>1, <2>1
<1>17. CASE \E f \in Formas : MudarForma(f)
  <2>1. /\ ativas' \in SUBSET Formas
        /\ UNCHANGED <<carrinho, enderecos, pedidos, resposta>>
    BY <1>0, <1>17 DEF MudarForma
  <2> QED
    BY <1>0, <2>1 DEF IInv, Resto
<1>18. CASE UNCHANGED vars
  BY <1>0, <1>18 DEF vars, IInv, Resto
<1> QED
  BY <1>2, <1>3, <1>4, <1>5, <1>6, <1>7, <1>8, <1>9, <1>10, <1>11, <1>12,
     <1>13, <1>14, <1>15, <1>16, <1>17, <1>18
     DEF Next, Endereco, Cobranca, Ferramentas

-----------------------------------------------------------------------------
(* IInv holds of every reachable state.                                    *)
THEOREM Invariante == Spec => []IInv
  BY IInvInicial, IInvPasso, PTL DEF Spec

(* TypeOK: every value the handlers store keeps its type, whatever fails.  *)
THEOREM Tipos == Spec => []TypeOK
<1>1. IInv => TypeOK
  BY DEF IInv, Bom, Resto, TypeOK
<1> QED
  BY <1>1, Invariante, PTL

(* ConfirmacaoCoerente: what "sim" confirms is what was displayed.         *)
THEOREM ConfirmacaoSempreCoerente == Spec => []ConfirmacaoCoerente
<1>1. IInv => ConfirmacaoCoerente
  BY DEF IInv, Bom, Coerente, ConfirmacaoCoerente
<1> QED
  BY <1>1, Invariante, PTL

(* CobrancaTemEndereco: nobody is charged without an existing address.     *)
THEOREM CobrancaSempreTemEndereco == Spec => []CobrancaTemEndereco
<1>1. IInv => CobrancaTemEndereco
  BY DEF IInv, Bom, TemEndereco, CobrancaTemEndereco
<1> QED
  BY <1>1, Invariante, PTL

(* ContaFecha: an undisturbed checkout charges exactly, for every price    *)
(* list and every sequence of split payments.                              *)
THEOREM ContaSempreFecha == Spec => []ContaFecha
<1>1. IInv => ContaFecha
  BY DEF IInv, Bom, Conta, ContaFecha
<1> QED
  BY <1>1, Invariante, PTL

-----------------------------------------------------------------------------
(* The orders that Carrinho makes.  What follows rests on one lemma that   *)
(* says everything a step may do to the orders: nothing, a counter sale,   *)
(* or a delivery of exactly what the conversation charged for.             *)

(* A sale of the tool finalizar_pedido.                                    *)
Balcao(p) ==
  /\ p.endereco = 0
  /\ "gravarPagamentos" \notin Falhas => p.pago = 0
  /\ carrinho' \in {carrinho, Vazio}

(* A sale of the conversation.                                             *)
Entrega(p) ==
  /\ carrinho.estado \in EmPagamento
  /\ p.endereco = carrinho.enderecoID
  /\ p.total = CalcularTotal(carrinho.itens)
  /\ "gravarPagamentos" \notin Falhas => Quitado(p)
  /\ carrinho'.estado = Aberto

Venda ==
  \E p \in Pedidos :
    /\ pedidos' = Append(pedidos, p)
    /\ UNCHANGED enderecos
    /\ Balcao(p) \/ Entrega(p)

LEMMA LidoComItens ==
  ASSUME NEW c \in Lidos, c.itens # SemItens \/ c.estado # Aberto
  PROVE  c = carrinho
BY DEF Lidos, Vazio

LEMMA FinalizarPedidoVende ==
  ASSUME IInv, FinalizarPedido
  PROVE  pedidos' = pedidos \/ Venda
<1>1. PICK c \in Lidos : Finalizar(carrinho, c, 0, SemPagamentos) /\ UNCHANGED enderecos
  BY DEF FinalizarPedido
<1>2. c \in Carrinhos
  BY LidoBom DEF Bom
<1>3. pedidos' = pedidos \/ Feito(c, 0, SemPagamentos)
  BY <1>1, <1>2, SemPagamentosTipo, FinalizarEfeito
<1>4. CASE Feito(c, 0, SemPagamentos)
  <2>1. PICK p \in Pedidos :
          /\ pedidos' = Append(pedidos, p)
          /\ p.endereco = 0
          /\ "gravarPagamentos" \notin Falhas => p.pago = SemPagamentos.soma
          /\ c.itens # SemItens
          /\ carrinho' \in {c, Vazio}
    BY <1>4 DEF Feito
  <2>2. c = carrinho
    BY <2>1, LidoComItens
  <2> QED
    BY <1>1, <2>1, <2>2 DEF Venda, Balcao, SemPagamentos
<1> QED
  BY <1>3, <1>4

LEMMA ContinuarVende ==
  ASSUME IInv, NEW c \in Lidos, c.estado \in EmPagamento,
         NEW f \in Formas, NEW v \in Int, NEW t,
         ContinuarPagamento(c, Registrar(c, f, v, t)), UNCHANGED enderecos
  PROVE  pedidos' = pedidos \/ Venda
<1> DEFINE r == Registrar(c, f, v, t)
           d == [r EXCEPT !.estado = Aberto]
<1>1. c \in Carrinhos /\ c = carrinho
  BY LidoBom, LidoComItens DEF Bom, EmPagamento, Aberto, Pagamento, ValorPag, Troco
<1>2. /\ r \in Carrinhos /\ r.enderecoID = c.enderecoID /\ r.itens = c.itens
      /\ f \in r.pagamentos.formas
  BY <1>1, RegistrarCampos
<1> HIDE DEF r
<1>3. /\ d \in Carrinhos /\ d.estado = Aberto /\ d.itens = c.itens
      /\ r.enderecoID \in Nat /\ r.pagamentos \in Pagamentos
  BY <1>2, EstadosTipo DEF Carrinhos
<1>4. ContinuarPagamento(c, r)
  BY DEF r
<1> HIDE DEF d
<1>5. pedidos' = pedidos \/ \E l \in {d, Vazio} : Finalizar(d, l, r.enderecoID, r.pagamentos)
  <2>1. pedidos' = pedidos \/ FinalizarComEndereco(c, r)
    BY <1>4 DEF ContinuarPagamento
  <2>2. FinalizarComEndereco(c, r) =>
          pedidos' = pedidos \/ \E l \in {d, Vazio} : Finalizar(d, l, r.enderecoID, r.pagamentos)
    BY DEF FinalizarComEndereco, d
  <2> QED
    BY <2>1, <2>2
<1>6. ASSUME NEW l \in {d, Vazio}, Finalizar(d, l, r.enderecoID, r.pagamentos)
      PROVE  pedidos' = pedidos \/ Venda
  <2>1. l \in Carrinhos
    BY <1>3, VazioBom DEF Bom, IInv, Resto
  <2>2. pedidos' = pedidos \/ Feito(l, r.enderecoID, r.pagamentos)
    BY <1>3, <1>6, <2>1, FinalizarEfeito
  <2>3. CASE Feito(l, r.enderecoID, r.pagamentos)
    <3>1. PICK p \in Pedidos :
            /\ pedidos' = Append(pedidos, p)
            /\ p.endereco = r.enderecoID
            /\ p.total = CalcularTotal(l.itens)
            /\ "gravarPagamentos" \notin Falhas => p.pago = r.pagamentos.soma
            /\ l.itens # SemItens
            /\ PagamentosAceitos(r.pagamentos, l.itens, ativas)
            /\ carrinho' \in {l, Vazio}
      BY <2>3 DEF Feito
    <3>2. l = d
      BY <3>1 DEF Vazio
    <3>3. SomaConfere(r.pagamentos, d.itens)
      BY <1>2, <3>1, <3>2 DEF PagamentosAceitos
    <3>4. "gravarPagamentos" \notin Falhas => Quitado(p)
      BY <3>1, <3>2, <3>3 DEF SomaConfere, Quitado
    <3>5. carrinho'.estado = Aberto
      BY <1>3, <3>1, <3>2 DEF Vazio
    <3>6. Entrega(p)
      BY <1>1, <1>2, <1>3, <3>1, <3>2, <3>4, <3>5 DEF Entrega
    <3> QED
      BY <3>1, <3>6 DEF Venda
  <2> QED
    BY <2>2, <2>3
<1> QED
  BY <1>5, <1>6

(* Every step leaves the orders alone or makes one sale.                   *)
LEMMA PassoVende ==
  ASSUME IInv, [Next]_vars
  PROVE  pedidos' = pedidos \/ Venda
<1>1. CASE \E f \in Formas : EscolherForma(f)
  <2>1. PICK f \in Formas, c \in Lidos :
          /\ c.estado = Pagamento
          /\ UNCHANGED enderecos
          /\ \/ pedidos' = pedidos
             \/ ContinuarPagamento(c, Registrar(c, f, Devido(c), SemTroco))
    BY <1>1 DEF EscolherForma
  <2>2. Devido(c) \in Int
    BY LidoBom, ContaTipo DEF Bom
  <2> QED
    BY <2>1, <2>2, ContinuarVende DEF EmPagamento
<1>2. CASE \E v \in Valores : InformarValor(v)
  <2>1. PICK v \in Valores, c \in Lidos :
          /\ c.estado = ValorPag
          /\ UNCHANGED enderecos
          /\ \/ pedidos' = pedidos
             \/ ContinuarPagamento(c, Registrar(c, c.forma, v, SemTroco))
    BY <1>2 DEF InformarValor
  <2>2. v \in Int /\ c.forma \in Formas
    BY <2>1, LidoBom, LimitesAssumption DEF Bom, FormaPendente
  <2> QED
    BY <2>1, <2>2, ContinuarVende DEF EmPagamento
<1>3. CASE InformarTroco
  <2>1. PICK c \in Lidos :
          /\ c.estado = Troco
          /\ UNCHANGED enderecos
          /\ \E t : ContinuarPagamento(c, Registrar(c, c.forma, c.valor, t))
    BY <1>3 DEF InformarTroco
  <2>2. c.valor \in Int /\ c.forma \in Formas
    BY <2>1, LidoBom, ContaTipo DEF Bom, FormaPendente
  <2> QED
    BY <2>1, <2>2, ContinuarVende DEF EmPagamento
<1>4. CASE FinalizarPedido
  BY <1>4, FinalizarPedidoVende
<1>5. CASE \/ Endereco \/ DividirPagamento \/ CancelarCheckout \/ MensagemSemEfeito
           \/ LimparCarrinho \/ Expirar
           \/ \E novos \in Itens \ {SemItens} : PedirItens(novos)
           \/ \E p \in Produtos, q \in 1..MaxQtd : AdicionarItem(p, q)
           \/ \E p \in Produtos, q \in -MaxQtd..MaxQtd : RemoverItem(p, q)
           \/ \E f \in Formas : MudarForma(f)
           \/ UNCHANGED vars
  BY <1>5 DEF Endereco, IniciarFinalizacao, InformarEndereco, RecusarEndereco, AceitarEndereco,
              DividirPagamento, CancelarCheckout, MensagemSemEfeito, LimparCarrinho, Expirar,
              PedirItens, AdicionarItem, RemoverItem, MudarForma, vars
<1> QED
  BY <1>1, <1>2, <1>3, <1>4, <1>5 DEF Next, Cobranca, Ferramentas
-----------------------------------------------------------------------------
(* EntregaConfirmada: whatever fails, a delivery leaves the charging phase *)
(* with the address and the total that were charged.                       *)
THEOREM EntregaSempreConfirmada == Spec => EntregaConfirmada
<1> DEFINE A == LET p == pedidos'[Len(pedidos')] IN
                pedidos' # pedidos /\ p.endereco # 0 =>
                  /\ carrinho.estado \in EmPagamento
                  /\ p.endereco = carrinho.enderecoID
                  /\ p.total = CalcularTotal(carrinho.itens)
<1>1. IInv /\ [Next]_vars => A
  <2> SUFFICES ASSUME IInv, [Next]_vars, pedidos' # pedidos PROVE A
    OBVIOUS
  <2>1. PICK p \in Pedidos : pedidos' = Append(pedidos, p) /\ (Balcao(p) \/ Entrega(p))
    BY PassoVende DEF Venda
  <2>2. pedidos'[Len(pedidos')] = p
    BY <2>1 DEF IInv, Resto
  <2> QED
    BY <2>1, <2>2 DEF Balcao, Entrega
<1> QED
  BY <1>1, Invariante, PTL DEF Spec, EntregaConfirmada

(* What EntregaQuitada says of one order, given n address rows.            *)
PedidoQuitado(p, n) ==
  IF p.endereco = 0 THEN p.pago = 0 ELSE p.endereco \in 1..n /\ Quitado(p)

LEMMA QuitadaPasso ==
  ASSUME "gravarPagamentos" \notin Falhas, IInv, EntregaQuitada, [Next]_vars, IInv'
  PROVE  EntregaQuitada'
<1>1. /\ pedidos \in Seq(Pedidos) /\ enderecos \in Nat /\ enderecos' \in Nat
      /\ enderecos <= enderecos'
  <2>1. enderecos' \in {enderecos, enderecos + 1}
    BY DEF Next, Endereco, Cobranca, Ferramentas,
           IniciarFinalizacao, InformarEndereco, RecusarEndereco, AceitarEndereco,
           DividirPagamento, EscolherForma, InformarValor, InformarTroco,
           CancelarCheckout, PedirItens, MensagemSemEfeito, AdicionarItem, RemoverItem,
           FinalizarPedido, LimparCarrinho, Expirar, MudarForma, vars
  <2> QED
    BY <2>1 DEF IInv, Resto
<1>2. \A i \in 1..Len(pedidos) : PedidoQuitado(pedidos[i], enderecos')
  BY <1>1 DEF EntregaQuitada, PedidoQuitado
<1>3. CASE pedidos' = pedidos
  BY <1>2, <1>3 DEF EntregaQuitada, PedidoQuitado, Quitado
<1>4. CASE Venda
  <2>1. PICK p \in Pedidos :
          /\ pedidos' = Append(pedidos, p)
          /\ UNCHANGED enderecos
          /\ Balcao(p) \/ Entrega(p)
    BY <1>4 DEF Venda
  <2>2. PedidoQuitado(p, enderecos')
    <3>1. Entrega(p) => p.endereco \in 1..enderecos
      BY DEF Entrega, IInv, Bom, TemEndereco
    <3>2. Entrega(p) => p.endereco # 0
      BY <1>1, <3>1
    <3> QED
      BY <2>1, <3>1, <3>2 DEF Balcao, Entrega, PedidoQuitado
  <2>3. /\ Len(pedidos') = Len(pedidos) + 1
        /\ \A i \in 1..Len(pedidos) : pedidos'[i] = pedidos[i]
        /\ pedidos'[Len(pedidos) + 1] = p
        /\ Len(pedidos) \in Nat
    BY <1>1, <2>1
  <2>4. \A i \in 1..Len(pedidos') : PedidoQuitado(pedidos'[i], enderecos')
    <3> SUFFICES ASSUME NEW i \in 1..Len(pedidos')
                 PROVE  PedidoQuitado(pedidos'[i], enderecos')
      OBVIOUS
    <3>1. i \in 1..Len(pedidos) \/ i = Len(pedidos) + 1
      BY <2>3
    <3> QED
      BY <1>2, <2>2, <2>3, <3>1
  <2> QED
    BY <2>4 DEF EntregaQuitada, PedidoQuitado, Quitado
<1> QED
  BY <1>3, <1>4, PassoVende

(* EntregaQuitada: as long as the INSERT of the payments does not fail,    *)
(* every delivery is paid in full and goes to an existing address.  The    *)
(* assumption is needed: the run CarrinhoSemPagamentos shows the failure.  *)
THEOREM EntregaSempreQuitada ==
  ASSUME "gravarPagamentos" \notin Falhas
  PROVE  Spec => []EntregaQuitada
<1>1. Init => EntregaQuitada
  BY DEF Init, EntregaQuitada
<1>2. IInv /\ IInv' /\ EntregaQuitada /\ [Next]_vars => EntregaQuitada'
  BY QuitadaPasso
<1> QED
  BY <1>1, <1>2, Invariante, PTL DEF Spec
-----------------------------------------------------------------------------
(* Why prepararPagamentos turns an order down.                             *)
Causa ==
  \/ carrinho'.mexido
  \/ ~(carrinho'.pagamentos.formas \subseteq ativas)

LEMMA FinalizarRecusa ==
  ASSUME NEW g, NEW l, NEW e, NEW pgs, Finalizar(g, l, e, pgs), resposta' = "recusado"
  PROVE  l.itens # SemItens /\ ~PagamentosAceitos(pgs, l.itens, ativas) /\ carrinho' \in {g, l}
BY DEF Finalizar, SemPedido

LEMMA ContinuarRecusa ==
  ASSUME IInv, NEW c \in Lidos, c.estado \in EmPagamento,
         NEW f \in Formas, NEW v \in Int, NEW t,
         ~c.mexido => PagamentoValido(f, v, t) /\ v <= Devido(c) + Tolerancia,
         ContinuarPagamento(c, Registrar(c, f, v, t)), resposta' = "recusado"
  PROVE  Causa
<1> DEFINE r == Registrar(c, f, v, t)
           d == [r EXCEPT !.estado = Aberto]
<1>1. c \in Carrinhos
  BY LidoBom DEF Bom
<1>2. /\ r \in Carrinhos /\ r.itens = c.itens /\ r.mexido = c.mexido
      /\ r.pagamentos.soma = c.pagamentos.soma + v
      /\ r.pagamentos.validos = (c.pagamentos.validos /\ PagamentoValido(f, v, t))
  BY <1>1, RegistrarCampos
<1>3. ContinuarPagamento(c, r)
  OBVIOUS
<1> HIDE DEF r
<1>4. d.itens = c.itens /\ d.mexido = c.mexido /\ d.pagamentos = r.pagamentos
  BY <1>2 DEF Carrinhos
<1> HIDE DEF d
<1>5. Coberto(r) /\ FinalizarComEndereco(c, r)
  BY <1>3 DEF ContinuarPagamento, Salvar
<1>6. PICK l \in {d, Vazio} : Finalizar(d, l, r.enderecoID, r.pagamentos)
  BY <1>5 DEF FinalizarComEndereco, d
<1>7. /\ l = d /\ carrinho' = d
      /\ ~PagamentosAceitos(r.pagamentos, d.itens, ativas)
  <2>1. l.itens # SemItens /\ ~PagamentosAceitos(r.pagamentos, l.itens, ativas)
        /\ carrinho' \in {d, l}
    BY <1>6, FinalizarRecusa
  <2> QED
    BY <2>1 DEF Vazio
<1>8. ~c.mexido => r.pagamentos.validos
  BY <1>2, LidoBom, Zenon DEF Bom, Conta
<1>9. ~c.mexido => SomaConfere(r.pagamentos, d.itens)
  BY <1>1, <1>2, <1>4, <1>5, ContaTipo DEF Coberto, Devido, SomaConfere
<1> QED
  BY <1>4, <1>7, <1>8, <1>9 DEF PagamentosAceitos, Causa

(* RecusaTemCausa: both services agree on what is a complete payment, so   *)
(* a refusal is always explained by the items or the methods changing.     *)
THEOREM RecusaSempreTemCausa == Spec => RecusaTemCausa
<1>1. ASSUME IInv, [Next]_vars, resposta' = "recusado", resposta # "recusado"
      PROVE  Causa
  <2>1. CASE \E f \in Formas : EscolherForma(f)
    <3>1. PICK f \in Formas, c \in Lidos :
            /\ c.estado = Pagamento
            /\ ContinuarPagamento(c, Registrar(c, f, Devido(c), SemTroco))
      BY <1>1, <2>1 DEF EscolherForma, Salvar
    <3>2. Bom(c, enderecos) /\ Devido(c) \in Int /\ Tolerancia \in Nat
      BY <1>1, LidoBom, ContaTipo, ConstantesAssumption DEF Bom
    <3>3. ~c.mexido => Devido(c) > 0 /\ Devido(c) <= Devido(c) + Tolerancia
      BY <3>1, <3>2 DEF Bom, Conta, EmPagamento
    <3> QED
      BY <1>1, <3>1, <3>2, <3>3, ContinuarRecusa DEF EmPagamento, PagamentoValido
  <2>2. CASE \E v \in Valores : InformarValor(v)
    <3>1. PICK v \in Valores, c \in Lidos :
            /\ c.estado = ValorPag
            /\ v > 0
            /\ v + c.pagamentos.soma <= CalcularTotal(c.itens) + Tolerancia
            /\ ContinuarPagamento(c, Registrar(c, c.forma, v, SemTroco))
      BY <1>1, <2>2 DEF InformarValor, Salvar
    <3>2. v \in Int /\ c.forma \in Formas /\ c \in Carrinhos
      BY <1>1, <3>1, LidoBom, LimitesAssumption DEF Bom, FormaPendente
    <3>3. v <= Devido(c) + Tolerancia
      BY <3>1, <3>2, ContaTipo DEF Devido
    <3> QED
      BY <1>1, <3>1, <3>2, <3>3, ContinuarRecusa DEF EmPagamento, PagamentoValido
  <2>3. CASE InformarTroco
    <3>1. PICK c \in Lidos :
            /\ c.estado = Troco
            /\ \E t : /\ t # SemTroco => t >= c.valor
                      /\ ContinuarPagamento(c, Registrar(c, c.forma, c.valor, t))
      BY <2>3 DEF InformarTroco
    <3>2. PICK t : /\ t # SemTroco => t >= c.valor
                   /\ ContinuarPagamento(c, Registrar(c, c.forma, c.valor, t))
      BY <3>1
    <3>3. /\ Bom(c, enderecos) /\ c.forma \in Formas
          /\ Devido(c) \in Int /\ Tolerancia \in Int /\ c.valor \in Int
      BY <1>1, <3>1, LidoBom, ContaTipo DEF Bom, FormaPendente
    <3>4. ~c.mexido => /\ c.forma \in Dinheiro /\ c.valor > 0
                       /\ Devido(c) - c.valor >= -Tolerancia
      BY <3>1, <3>3 DEF Bom, Conta, EmPagamento
    <3>5. ~c.mexido => PagamentoValido(c.forma, c.valor, t) /\ c.valor <= Devido(c) + Tolerancia
      BY <3>2, <3>3, <3>4 DEF PagamentoValido
    <3> QED
      BY <1>1, <3>1, <3>2, <3>3, <3>5, ContinuarRecusa DEF EmPagamento
  <2>4. CASE FinalizarPedido
    <3>1. PICK c \in Lidos : Finalizar(carrinho, c, 0, SemPagamentos)
      BY <2>4 DEF FinalizarPedido
    <3>2. ~PagamentosAceitos(SemPagamentos, c.itens, ativas)
      BY <1>1, <3>1, FinalizarRecusa
    <3> QED
      BY <3>2 DEF PagamentosAceitos, SemPagamentos
  <2>5. CASE \/ Endereco \/ DividirPagamento \/ CancelarCheckout \/ MensagemSemEfeito
             \/ LimparCarrinho \/ Expirar
             \/ \E novos \in Itens \ {SemItens} : PedirItens(novos)
             \/ \E p \in Produtos, q \in 1..MaxQtd : AdicionarItem(p, q)
             \/ \E p \in Produtos, q \in -MaxQtd..MaxQtd : RemoverItem(p, q)
             \/ \E f \in Formas : MudarForma(f)
             \/ UNCHANGED vars
    BY <1>1, <2>5
       DEF Endereco, IniciarFinalizacao, InformarEndereco, RecusarEndereco, AceitarEndereco,
           IniciarPagamento, Salvar, DividirPagamento, CancelarCheckout, MensagemSemEfeito,
           LimparCarrinho, Expirar, PedirItens, AdicionarItem, RemoverItem, MudarForma, vars
  <2> QED
    BY <1>1, <2>1, <2>2, <2>3, <2>4, <2>5 DEF Next, Cobranca, Ferramentas
<1>2. IInv /\ [Next]_vars =>
        (resposta' = "recusado" /\ resposta # "recusado" =>
           \/ carrinho'.mexido
           \/ ~(carrinho'.pagamentos.formas \subseteq ativas))
  BY <1>1 DEF Causa
<1> QED
  BY <1>2, Invariante, PTL DEF Spec, RecusaTemCausa

-----------------------------------------------------------------------------
(* The conversation of Carrinho implements Checkout, for every shop and    *)
(* every set of failing calls without the INSERT of the payments.          *)

(* How a client comes to be charged, or goes on being charged.             *)
MesmaCobranca ==
  \/ /\ carrinho.estado \in EmPagamento
     /\ carrinho'.enderecoID = carrinho.enderecoID
  \/ /\ carrinho.estado = Confirmacao
     /\ carrinho.confirmacaoID \in {0, carrinho'.enderecoID}

LEMMA ParadoCobra ==
  ASSUME carrinho' \in {Vazio, carrinho}, carrinho'.estado \in EmPagamento
  PROVE  MesmaCobranca
BY DEF Vazio, MesmaCobranca, EmPagamento, Aberto, Pagamento, ValorPag, Troco

(* A handler that keeps the address of the cart it read.                   *)
LEMMA MantemEnderecoCobra ==
  ASSUME NEW c \in Lidos, c.estado \in EmPagamento,
         carrinho'.enderecoID = c.enderecoID
  PROVE  MesmaCobranca
BY LidoComItens DEF MesmaCobranca, EmPagamento, Aberto, Pagamento, ValorPag, Troco

LEMMA ManterCobra ==
  ASSUME NEW c \in Lidos, Manter(c), carrinho'.estado \in EmPagamento
  PROVE  MesmaCobranca
BY ParadoCobra DEF Manter, Lidos

LEMMA SalvarCobra ==
  ASSUME NEW c \in Lidos, NEW novo, Salvar(c, novo), carrinho'.estado \in EmPagamento,
         novo.estado \notin EmPagamento \/ (c.estado \in EmPagamento /\ novo.enderecoID = c.enderecoID)
  PROVE  MesmaCobranca
BY ManterCobra, MantemEnderecoCobra DEF Salvar

LEMMA ContinuarCobra ==
  ASSUME IInv, NEW c \in Lidos, c.estado \in EmPagamento,
         NEW f \in Formas, NEW v \in Int, NEW t,
         ContinuarPagamento(c, Registrar(c, f, v, t)),
         carrinho'.estado \in EmPagamento
  PROVE  MesmaCobranca
<1> DEFINE r == Registrar(c, f, v, t)
<1>1. c \in Carrinhos
  BY LidoBom DEF Bom
<1>2. r \in Carrinhos /\ r.enderecoID = c.enderecoID
  BY <1>1, RegistrarCampos
<1>3. ContinuarPagamento(c, r)
  OBVIOUS
<1> HIDE DEF r
<1>4. CASE ~Coberto(r)
  <2> DEFINE d == [r EXCEPT !.estado = Pagamento]
  <2>1. d.enderecoID = c.enderecoID
    BY <1>2 DEF Carrinhos
  <2>2. Salvar(c, d) \/ carrinho' = d
    BY <1>3, <1>4 DEF ContinuarPagamento
  <2> HIDE DEF d
  <2> QED
    BY <2>1, <2>2, SalvarCobra, MantemEnderecoCobra
<1>5. CASE Coberto(r)
  <2> DEFINE d == [r EXCEPT !.estado = Aberto]
  <2>1. d \in Carrinhos /\ d.estado \notin EmPagamento /\ Vazio.estado \notin EmPagamento
    BY <1>2, EstadosTipo DEF Carrinhos, Vazio, EmPagamento, Aberto, Pagamento, ValorPag, Troco
  <2>2. r.enderecoID \in Nat /\ r.pagamentos \in Pagamentos
    BY <1>2 DEF Carrinhos
  <2> HIDE DEF d
  <2>3. Manter(c) \/ FinalizarComEndereco(c, r)
    BY <1>3, <1>5 DEF ContinuarPagamento
  <2>4. FinalizarComEndereco(c, r) =>
          Manter(c) \/ \E l \in {d, Vazio} : Finalizar(d, l, r.enderecoID, r.pagamentos)
    BY DEF FinalizarComEndereco, d
  <2>5. Vazio \in Carrinhos
    BY VazioBom DEF Bom, IInv, Resto
  <2>6. ASSUME NEW l \in {d, Vazio}, Finalizar(d, l, r.enderecoID, r.pagamentos)
        PROVE  carrinho' \in {d, Vazio}
    BY <2>1, <2>2, <2>5, <2>6, FinalizarEfeito DEF Feito
  <2> QED
    BY <2>1, <2>3, <2>4, <2>6, ManterCobra
<1> QED
  BY <1>4, <1>5
LEMMA IniciarPagamentoCobra ==
  ASSUME NEW c \in Lidos, c \in Carrinhos, NEW id, IniciarPagamento(c, id),
         c.estado = Confirmacao, c.confirmacaoID \in {0, id},
         carrinho'.estado \in EmPagamento
  PROVE  MesmaCobranca
<1> DEFINE d == ComecarPagamento(c, id)
<1>1. d.enderecoID = id
  BY DEF ComecarPagamento, Carrinhos
<1>2. Manter(c) \/ carrinho' = d
  BY DEF IniciarPagamento, Salvar
<1>3. c = carrinho
  BY LidoComItens DEF Aberto, Confirmacao
<1> HIDE DEF d
<1>4. CASE carrinho' = d
  BY <1>1, <1>3, <1>4 DEF MesmaCobranca
<1> QED
  BY <1>2, <1>4, ManterCobra

LEMMA PassoCobra ==
  ASSUME IInv, [Next]_vars, carrinho'.estado \in EmPagamento
  PROVE  MesmaCobranca
<1>0. \A c \in Lidos : c \in Carrinhos /\ Bom(c, enderecos)
  BY LidoBom DEF Bom
<1>1. CASE IniciarFinalizacao
  <2>1. PICK c \in Lidos :
          \/ Manter(c)
          \/ \E n : Salvar(c, IF n = 0
                               THEN PedirEndereco(c)
                               ELSE ConfirmarExistente(
                                      [c EXCEPT !.confirmacaoIdx = 0, !.mexido = FALSE], n))
    BY <1>1 DEF IniciarFinalizacao
  <2>2. PedirEndereco(c).estado \notin EmPagamento
    BY <1>0 DEF PedirEndereco, Carrinhos, EmPagamento, EnderecoNovo, Pagamento, ValorPag, Troco
  <2>3. \A n : ConfirmarExistente([c EXCEPT !.confirmacaoIdx = 0, !.mexido = FALSE], n).estado
                \notin EmPagamento
    BY <1>0 DEF ConfirmarExistente, Carrinhos, EmPagamento, Confirmacao, Pagamento, ValorPag, Troco
  <2>4. CASE \E n : Salvar(c, IF n = 0
                               THEN PedirEndereco(c)
                               ELSE ConfirmarExistente(
                                      [c EXCEPT !.confirmacaoIdx = 0, !.mexido = FALSE], n))
    <3>1. PICK n : Salvar(c, IF n = 0
                               THEN PedirEndereco(c)
                               ELSE ConfirmarExistente(
                                      [c EXCEPT !.confirmacaoIdx = 0, !.mexido = FALSE], n))
      BY <2>4
    <3> QED
      BY <2>2, <2>3, <3>1, SalvarCobra
  <2> QED
    BY <2>1, <2>4, ManterCobra
<1>2. CASE InformarEndereco
  <2>1. PICK c \in Lidos : Salvar(c, ConfirmarDigitado(c))
    BY <1>2 DEF InformarEndereco
  <2>2. ConfirmarDigitado(c).estado \notin EmPagamento
    BY <1>0 DEF ConfirmarDigitado, Carrinhos, EmPagamento, Confirmacao, Pagamento, ValorPag, Troco
  <2> QED
    BY <2>1, <2>2, SalvarCobra
<1>3. CASE RecusarEndereco
  <2>1. PICK c \in Lidos :
          \/ \E i, id : Salvar(c, ConfirmarExistente([c EXCEPT !.confirmacaoIdx = i], id))
          \/ Salvar(c, [c EXCEPT !.estado = EnderecoNovo, !.pendente = FALSE,
                                 !.confirmacaoID = 0, !.confirmacaoIdx = 0])
    BY <1>3 DEF RecusarEndereco
  <2>2. \A i, id : ConfirmarExistente([c EXCEPT !.confirmacaoIdx = i], id).estado
                     \notin EmPagamento
    BY <1>0 DEF ConfirmarExistente, Carrinhos, EmPagamento, Confirmacao, Pagamento, ValorPag, Troco
  <2>3. [c EXCEPT !.estado = EnderecoNovo, !.pendente = FALSE,
                  !.confirmacaoID = 0, !.confirmacaoIdx = 0].estado \notin EmPagamento
    BY <1>0 DEF Carrinhos, EmPagamento, EnderecoNovo, Pagamento, ValorPag, Troco
  <2>4. CASE \E i, id : Salvar(c, ConfirmarExistente([c EXCEPT !.confirmacaoIdx = i], id))
    <3>1. PICK i, id : Salvar(c, ConfirmarExistente([c EXCEPT !.confirmacaoIdx = i], id))
      BY <2>4
    <3> QED
      BY <2>2, <3>1, SalvarCobra
  <2> QED
    BY <2>1, <2>3, <2>4, SalvarCobra
<1>4. CASE AceitarEndereco
  <2>1. PICK c \in Lidos :
          /\ c.estado = Confirmacao
          /\ IF c.pendente
               THEN IniciarPagamento(c, enderecos + 1)
               ELSE IF c.enderecoID = 0
                      THEN Manter(c)
                      ELSE IniciarPagamento(c, c.enderecoID)
    BY <1>4 DEF AceitarEndereco
  <2>2. IF c.pendente THEN c.confirmacaoID = 0 ELSE c.confirmacaoID = c.enderecoID
    BY <1>0, <2>1 DEF Bom, Coerente
  <2> QED
    BY <1>0, <2>1, <2>2, ManterCobra, IniciarPagamentoCobra
<1>5. CASE DividirPagamento
  <2>1. PICK c \in Lidos : c.estado = Pagamento /\ Salvar(c, [c EXCEPT !.dividido = TRUE])
    BY <1>5 DEF DividirPagamento
  <2>2. [c EXCEPT !.dividido = TRUE].enderecoID = c.enderecoID
    BY <1>0 DEF Carrinhos
  <2> QED
    BY <2>1, <2>2, SalvarCobra DEF EmPagamento
<1>6. CASE \E f \in Formas : EscolherForma(f)
  <2>1. PICK f \in Formas, c \in Lidos :
          /\ c.estado = Pagamento
          /\ \/ Salvar(c, [c EXCEPT !.forma = f, !.estado = ValorPag])
             \/ Salvar(c, [c EXCEPT !.forma = f, !.valor = Devido(c), !.estado = Troco])
             \/ ContinuarPagamento(c, Registrar(c, f, Devido(c), SemTroco))
    BY <1>6 DEF EscolherForma
  <2>2. /\ [c EXCEPT !.forma = f, !.estado = ValorPag].enderecoID = c.enderecoID
        /\ [c EXCEPT !.forma = f, !.valor = Devido(c), !.estado = Troco].enderecoID
              = c.enderecoID
        /\ Devido(c) \in Int
    BY <1>0, ContaTipo DEF Carrinhos
  <2>3. c.estado \in EmPagamento
    BY <2>1 DEF EmPagamento
  <2> QED
    BY <2>1, <2>2, <2>3, SalvarCobra, ContinuarCobra
<1>7. CASE \E v \in Valores : InformarValor(v)
  <2>1. PICK v \in Valores, c \in Lidos :
          /\ c.estado = ValorPag
          /\ \/ Salvar(c, [c EXCEPT !.valor = v, !.estado = Troco])
             \/ ContinuarPagamento(c, Registrar(c, c.forma, v, SemTroco))
    BY <1>7 DEF InformarValor
  <2>2. /\ [c EXCEPT !.valor = v, !.estado = Troco].enderecoID = c.enderecoID
        /\ v \in Int /\ c.forma \in Formas
    BY <1>0, <2>1, LimitesAssumption DEF Carrinhos, Bom, FormaPendente
  <2>3. c.estado \in EmPagamento
    BY <2>1 DEF EmPagamento
  <2> QED
    BY <2>1, <2>2, <2>3, SalvarCobra, ContinuarCobra
<1>8. CASE InformarTroco
  <2>1. PICK c \in Lidos :
          /\ c.estado = Troco
          /\ \E t : ContinuarPagamento(c, Registrar(c, c.forma, c.valor, t))
    BY <1>8 DEF InformarTroco
  <2>2. c.valor \in Int /\ c.forma \in Formas /\ c.estado \in EmPagamento
    BY <1>0, <2>1, ContaTipo DEF Bom, FormaPendente, EmPagamento
  <2> QED
    BY <2>1, <2>2, ContinuarCobra
<1>9. CASE CancelarCheckout
  <2>1. PICK c \in Lidos : \/ carrinho' \in {Vazio, Cancelado(c)}
                           \/ Manter(c)
                           \/ Salvar(c, Cancelado(c))
    BY <1>9 DEF CancelarCheckout
  <2>2. Cancelado(c).estado \notin EmPagamento
    BY <1>0 DEF Cancelado, Carrinhos, EmPagamento, Aberto, Pagamento, ValorPag, Troco
  <2> QED
    BY <2>1, <2>2, ParadoCobra, ManterCobra, SalvarCobra
<1>10. CASE \E novos \in Itens \ {SemItens} : PedirItens(novos)
  <2>1. PICK c \in Lidos, novos \in Itens : Salvar(c, ComItensDaConversa(c, novos))
    BY <1>10 DEF PedirItens
  <2>2. ComItensDaConversa(c, novos).estado \notin EmPagamento
    BY <1>0 DEF ComItensDaConversa, Carrinhos, EmPagamento, Aberto, Pagamento, ValorPag, Troco
  <2> QED
    BY <2>1, <2>2, SalvarCobra
<1>11. CASE \/ \E p \in Produtos, q \in 1..MaxQtd : AdicionarItem(p, q)
            \/ \E p \in Produtos, q \in -MaxQtd..MaxQtd : RemoverItem(p, q)
  <2>1. PICK c \in Lidos : Manter(c) \/ \E itens : carrinho' = ComItens(c, itens)
    BY <1>11 DEF AdicionarItem, RemoverItem
  <2>2. \A itens : /\ ComItens(c, itens).estado = c.estado
                   /\ ComItens(c, itens).enderecoID = c.enderecoID
    BY <1>0 DEF ComItens, Carrinhos
  <2> QED
    BY <2>1, <2>2, ManterCobra, MantemEnderecoCobra
<1>12. CASE FinalizarPedido
  <2>1. PICK c \in Lidos : Finalizar(carrinho, c, 0, SemPagamentos)
    BY <1>12 DEF FinalizarPedido
  <2>2. carrinho' \in {carrinho, c, Vazio}
    <3>1. \/ carrinho' \in {carrinho, c}
          \/ Feito(c, 0, SemPagamentos)
      BY <1>0, <2>1, SemPagamentosTipo, FinalizarEfeito
    <3> QED
      BY <3>1 DEF Feito
  <2> QED
    BY <2>2, ParadoCobra DEF Lidos
<1>13. CASE \/ LimparCarrinho \/ Expirar \/ MensagemSemEfeito
            \/ \E f \in Formas : MudarForma(f)
            \/ UNCHANGED vars
  <2>1. MensagemSemEfeito => \E c \in {Vazio, carrinho} : carrinho' \in {c, carrinho}
    BY DEF MensagemSemEfeito, Manter, Lidos
  <2>2. ~MensagemSemEfeito => carrinho' \in {Vazio, carrinho}
    BY <1>13 DEF LimparCarrinho, Expirar, MudarForma, vars, Apagar
  <2> QED
    BY <2>1, <2>2, ParadoCobra
<1> QED
  BY <1>1, <1>2, <1>3, <1>4, <1>5, <1>6, <1>7, <1>8, <1>9, <1>10, <1>11, <1>12, <1>13
     DEF Next, Endereco, Cobranca, Ferramentas
-----------------------------------------------------------------------------
(* The simulation.                                                         *)

Limite == enderecos <= MaxEnderecos

LEMMA LimitePasso ==
  ASSUME IInv, Limite, [Next]_vars
  PROVE  Limite'
<1>1. /\ enderecos' = enderecos \/ (enderecos < MaxEnderecos /\ enderecos' = enderecos + 1)
      /\ enderecos \in Nat /\ MaxEnderecos \in Nat
  BY LimitesAssumption
     DEF IInv, Resto, Next, Endereco, Cobranca, Ferramentas,
         IniciarFinalizacao, InformarEndereco, RecusarEndereco, AceitarEndereco,
         DividirPagamento, EscolherForma, InformarValor, InformarTroco,
         CancelarCheckout, PedirItens, MensagemSemEfeito, AdicionarItem, RemoverItem,
         FinalizarPedido, LimparCarrinho, Expirar, MudarForma, vars
<1> QED
  BY <1>1 DEF Limite

(* Where the cart is, in the words of Checkout.                            *)
LEMMA Fase ==
  ASSUME carrinho \in Carrinhos
  PROVE  /\ carrinho.estado \in EmPagamento => fase = "pagamento"
         /\ carrinho.estado = Aberto => fase = "comprando" /\ oferta = 0 /\ destino = 0
         /\ carrinho.estado = EnderecoNovo => fase = "endereco" /\ oferta = 0 /\ destino = 0
         /\ carrinho.estado = Confirmacao => fase = "confirmacao" /\ destino = 0
                                              /\ oferta = carrinho.confirmacaoID
         /\ carrinho.estado \in EmPagamento => oferta = 0 /\ destino = carrinho.enderecoID
         /\ carrinho.estado \in EmPagamento \cup {Aberto, EnderecoNovo, Confirmacao}
BY DEF fase, oferta, destino, Carrinhos, Estados, EmPagamento,
       Aberto, EnderecoNovo, Confirmacao, Pagamento, ValorPag, Troco

(* A new order is one more sale, and every sale already made stays as is.  *)
LEMMA VendaAnexa ==
  ASSUME pedidos \in Seq(Pedidos), NEW p, pedidos' = Append(pedidos, p)
  PROVE  vendas' = Append(vendas, [destino |-> p.endereco,
                                   quitada |-> p.endereco # 0 /\ Quitado(p)])
<1> DEFINE V(q) == [destino |-> q.endereco, quitada |-> q.endereco # 0 /\ Quitado(q)]
<1>1. vendas = [i \in 1..Len(pedidos) |-> V(pedidos[i])]
  BY DEF vendas
<1>2. vendas' = [i \in 1..Len(pedidos') |-> V(pedidos'[i])]
  BY DEF vendas, Quitado
<1> HIDE DEF V
<1>3. vendas \in Seq({V(pedidos[i]) : i \in 1..Len(pedidos)}) /\ Len(vendas) = Len(pedidos)
  BY <1>1
<1>4. /\ Append(vendas, V(p)) \in Seq({V(pedidos[i]) : i \in 1..Len(pedidos)} \cup {V(p)})
      /\ Len(Append(vendas, V(p))) = Len(pedidos) + 1
      /\ \A i \in 1..Len(pedidos) : Append(vendas, V(p))[i] = V(pedidos[i])
      /\ Append(vendas, V(p))[Len(pedidos) + 1] = V(p)
  BY <1>1, <1>3
<1>5. /\ Len(pedidos') = Len(pedidos) + 1 /\ Len(pedidos) \in Nat
      /\ \A i \in 1..Len(pedidos) : pedidos'[i] = pedidos[i]
      /\ pedidos'[Len(pedidos) + 1] = p
  OBVIOUS
<1>6. vendas' = Append(vendas, V(p))
  <2> DEFINE a == Append(vendas, V(p))
  <2>1. DOMAIN a = 1..(Len(pedidos) + 1) /\ a = [i \in DOMAIN a |-> a[i]]
    BY <1>4, LenProperties
  <2>2. \A i \in 1..(Len(pedidos) + 1) : a[i] = V(pedidos'[i])
    BY <1>4, <1>5
  <2> HIDE DEF a
  <2>3. vendas' = [i \in 1..(Len(pedidos) + 1) |-> V(pedidos'[i])]
    BY <1>2, <1>5
  <2>4. vendas' = a
    BY <2>1, <2>2, <2>3
  <2> QED
    BY <2>4 DEF a
<1> QED
  BY <1>6 DEF V
(* Every initial state is an initial state of Checkout.                    *)
LEMMA InicioSimula == Init => C!Init
<1> SUFFICES ASSUME Init PROVE C!Init
  OBVIOUS
<1>1. carrinho = Vazio /\ carrinho.estado = Aberto /\ pedidos = << >>
  BY DEF Init, Vazio
<1>2. vendas = << >>
  <2>1. Len(pedidos) = 0
    BY <1>1
  <2>2. vendas \in [1..0 -> {}]
    BY <2>1 DEF vendas
  <2>3. vendas \in Seq({})
    BY <2>2, SeqDef
  <2>4. Len(vendas) = 0
    BY <2>2, <2>3, LenProperties
  <2> QED
    BY <2>3, <2>4, EmptySeq
<1>3. fase = "comprando" /\ oferta = 0 /\ destino = 0
  BY <1>1 DEF fase, oferta, destino, EmPagamento, Aberto, EnderecoNovo, Confirmacao,
              Pagamento, ValorPag, Troco
<1> QED
  BY <1>2, <1>3 DEF C!Init

(* A step that sells nothing moves the conversation, or stutters.          *)
LEMMA ConversaSimula ==
  ASSUME IInv, Limite, [Next]_vars, IInv', Limite', pedidos' = pedidos
  PROVE  [C!Next]_(C!vars)
<1>0. /\ vendas' = vendas
      /\ carrinho \in Carrinhos /\ carrinho' \in Carrinhos
      /\ enderecos' \in Nat /\ enderecos' <= MaxEnderecos /\ MaxEnderecos \in Nat
  BY LimitesAssumption DEF vendas, Quitado, IInv, Bom, Resto, Limite
<1>1. /\ carrinho'.estado \in EmPagamento => fase' = "pagamento"
      /\ carrinho'.estado = Aberto => fase' = "comprando" /\ oferta' = 0 /\ destino' = 0
      /\ carrinho'.estado = EnderecoNovo => fase' = "endereco" /\ oferta' = 0 /\ destino' = 0
      /\ carrinho'.estado = Confirmacao => fase' = "confirmacao" /\ destino' = 0
                                            /\ oferta' = carrinho'.confirmacaoID
      /\ carrinho'.estado \in EmPagamento => oferta' = 0 /\ destino' = carrinho'.enderecoID
      /\ carrinho'.estado \in EmPagamento \cup {Aberto, EnderecoNovo, Confirmacao}
  BY <1>0 DEF fase, oferta, destino, Carrinhos, Estados, EmPagamento,
              Aberto, EnderecoNovo, Confirmacao, Pagamento, ValorPag, Troco
<1>2. CASE carrinho'.estado = Aberto
  <2>1. C!Comprar
    BY <1>0, <1>1, <1>2 DEF C!Comprar
  <2> QED
    BY <2>1 DEF C!Next
<1>3. CASE carrinho'.estado = EnderecoNovo
  <2>1. C!PedirEndereco
    BY <1>0, <1>1, <1>3 DEF C!PedirEndereco
  <2> QED
    BY <2>1 DEF C!Next
<1>4. CASE carrinho'.estado = Confirmacao
  <2>1. oferta' \in 1..MaxEnderecos \cup {0}
    BY <1>0, <1>1, <1>4 DEF IInv, Bom, Coerente
  <2>2. C!Mostrar(oferta')
    BY <1>0, <1>1, <1>4 DEF C!Mostrar
  <2> QED
    BY <2>1, <2>2 DEF C!Next
<1>5. CASE carrinho'.estado \in EmPagamento
  <2>1. destino' \in 1..MaxEnderecos
    BY <1>0, <1>1, <1>5 DEF IInv, Bom, TemEndereco
  <2>2. MesmaCobranca
    BY <1>5, PassoCobra
  <2>3. CASE carrinho.estado \in EmPagamento /\ carrinho'.enderecoID = carrinho.enderecoID
    <3>1. fase = "pagamento" /\ oferta = 0 /\ destino = carrinho.enderecoID
      BY <1>0, <2>3, Fase
    <3>2. UNCHANGED C!vars
      BY <1>0, <1>1, <1>5, <2>3, <3>1 DEF C!vars
    <3> QED
      BY <3>2
  <2>4. CASE carrinho.estado = Confirmacao
              /\ carrinho.confirmacaoID \in {0, carrinho'.enderecoID}
    <3>1. fase = "confirmacao" /\ oferta = carrinho.confirmacaoID
      BY <1>0, <2>4, Fase
    <3>2. C!Cobrar(destino')
      BY <1>0, <1>1, <1>5, <2>1, <2>4, <3>1 DEF C!Cobrar
    <3> QED
      BY <2>1, <3>2 DEF C!Next
  <2> QED
    BY <2>2, <2>3, <2>4 DEF MesmaCobranca
<1> QED
  BY <1>1, <1>2, <1>3, <1>4, <1>5
(* A sale is a sale.                                                       *)
LEMMA VendaSimula ==
  ASSUME "gravarPagamentos" \notin Falhas, IInv, [Next]_vars, IInv', Venda
  PROVE  C!Next
<1>1. PICK p \in Pedidos : pedidos' = Append(pedidos, p) /\ (Balcao(p) \/ Entrega(p))
  BY DEF Venda
<1>2. vendas' = Append(vendas, [destino |-> p.endereco,
                                quitada |-> p.endereco # 0 /\ Quitado(p)])
  BY <1>1, VendaAnexa DEF IInv, Resto
<1>3. carrinho \in Carrinhos /\ carrinho' \in Carrinhos
  BY DEF IInv, Bom
<1>4. carrinho'.estado = Aberto => fase' = "comprando" /\ oferta' = 0 /\ destino' = 0
  BY DEF fase, oferta, destino, EmPagamento, Aberto, EnderecoNovo, Confirmacao,
         Pagamento, ValorPag, Troco
<1>5. CASE Balcao(p)
  <2>0. p.endereco = 0
    BY <1>5 DEF Balcao
  <2>1. (p.endereco # 0 /\ Quitado(p)) = FALSE /\ p.endereco = 0
    BY <2>0, Zenon
  <2>2. vendas' = Append(vendas, [destino |-> 0, quitada |-> FALSE])
    BY <1>2, <2>1
  <2>3. carrinho' = carrinho => UNCHANGED <<fase, oferta, destino>>
    BY DEF fase, oferta, destino
  <2>4. carrinho'.estado = Aberto \/ carrinho' = carrinho
    BY <1>5 DEF Balcao, Vazio
  <2>5. C!VenderNoBalcao
    BY <1>4, <2>2, <2>3, <2>4 DEF C!VenderNoBalcao
  <2> QED
    BY <2>5 DEF C!Next
<1>6. CASE Entrega(p)
  <2>1. fase = "pagamento" /\ destino = carrinho.enderecoID
    BY <1>3, <1>6, Fase DEF Entrega
  <2>2. carrinho.enderecoID # 0
    BY <1>6 DEF Entrega, IInv, Bom, TemEndereco, Resto
  <2>3. p.endereco = destino /\ p.endereco # 0 /\ Quitado(p)
    BY <1>6, <2>1, <2>2 DEF Entrega
  <2>30. (p.endereco # 0 /\ Quitado(p)) = TRUE
    BY <2>3 DEF Quitado
  <2>4. vendas' = Append(vendas, [destino |-> destino, quitada |-> TRUE])
    BY <1>2, <2>3, <2>30
  <2>5. C!Vender
    BY <1>4, <1>6, <2>1, <2>4 DEF C!Vender, Entrega
  <2> QED
    BY <2>5 DEF C!Next
<1> QED
  BY <1>1, <1>5, <1>6

(* ImplementaCheckout: for every shop and every interleaving of messages,  *)
(* tools and failures, the conversation is a Checkout, as long as no order *)
(* loses its payments.                                                     *)
THEOREM ConversaImplementaCheckout ==
  ASSUME "gravarPagamentos" \notin Falhas
  PROVE  Spec => ImplementaCheckout
<1>1. Init => C!Init /\ Limite
  BY InicioSimula, LimitesAssumption DEF Init, Limite
<1>2. IInv /\ Limite /\ [Next]_vars => Limite'
  BY LimitePasso
<1>3. IInv /\ Limite /\ [Next]_vars /\ IInv' /\ Limite' => [C!Next]_(C!vars)
  BY PassoVende, ConversaSimula, VendaSimula
<1> QED
  BY <1>1, <1>2, <1>3, Invariante, PTL DEF Spec, ImplementaCheckout, C!Spec
=============================================================================
