------------------------------ MODULE Carrinho ------------------------------
(***************************************************************************)
(* One client's cart and checkout conversation: the WhatsApp messages      *)
(* handled by ProcessarMensagem, the MCP cart tools on the same cart, and  *)
(* the orders both create, with failures of Redis and of the database      *)
(* between the steps of a handler.  One action is one whole handler; the   *)
(* wiring is the one of internal/di, where the ViaCEP client and the       *)
(* payment-method service are always present.                              *)
(*                                                                         *)
(* A message is modelled by what its handler makes of the text.  The       *)
(* handlers that return without saving anything (prompts, unreadable       *)
(* answers, a failed look-up or a failed INSERT of an address) are the one *)
(* action MensagemSemEfeito.                                               *)
(***************************************************************************)
EXTENDS CarrinhoDados, Sequences

CONSTANTS
  Valores,        \* amounts a client types
  MaxEnderecos,   \* bound: address rows of the client
  MaxPedidos,     \* bound: orders
  Falhas          \* which outside calls may fail

TiposDeFalha ==
  {"ler",              \* GET of the cart fails, GetOrSet takes it for a miss
   "salvar",           \* SET of the cart fails
   "apagar",           \* DEL of the cart fails
   "enderecos",        \* listing the addresses fails
   "formas",           \* listing the payment methods fails
   "criarPedido",      \* menu, item look-up or INSERT of the order fails
   "gravarPagamentos"} \* the INSERT of the payments fails

ASSUME LimitesAssumption ==
  /\ MaxEnderecos \in Nat
  /\ MaxPedidos \in Nat
  /\ Valores \subseteq Int
  /\ Falhas \subseteq TiposDeFalha

VARIABLES
  carrinho,    \* the cart stored in Redis; Vazio when the key is missing
  enderecos,   \* number of address rows of the client: ids 1..enderecos
  ativas,      \* payment methods with ativo = true
  pedidos,     \* orders inserted, in order of their ids
  resposta     \* what the conversation last answered

vars == <<carrinho, enderecos, ativas, pedidos, resposta>>

(* "recusado" is the error of prepararPagamentos, "erro" any other.         *)
Respostas == {"aviso", "recusado", "erro"}

(* An order: its delivery address, 0 for none, its total, and the sum of   *)
(* the payment rows inserted for it.                                       *)
Pedidos == [endereco : Nat, total : Nat, pago : Int]

TypeOK ==
  /\ carrinho \in Carrinhos
  /\ enderecos \in Nat
  /\ ativas \in SUBSET Formas
  /\ pedidos \in Seq(Pedidos)
  /\ resposta \in Respostas

Init ==
  /\ carrinho = Vazio
  /\ enderecos \in 0..MaxEnderecos
  /\ ativas \in SUBSET Formas
  /\ pedidos = << >>
  /\ resposta = "aviso"

-----------------------------------------------------------------------------
(* Redis.                                                                  *)

(* GetCarrinho.  GetOrSet takes any read error for a miss: the handler     *)
(* goes on with an empty cart.                                             *)
Lidos == {carrinho} \cup (IF "ler" \in Falhas THEN {Vazio} ELSE {})

(* What is stored after a read that returned c.  On a read error GetOrSet  *)
(* stores the empty cart, and ignores it when that fails too.              *)
Manter(c) == carrinho' \in {c, carrinho}

(* saveCarrinho.  On an error the handler returns it.                      *)
Salvar(c, novo) ==
  \/ carrinho' = novo /\ resposta' = "aviso"
  \/ "salvar" \in Falhas /\ Manter(c) /\ resposta' = "erro"

(* LimparCarrinho of a cart that is stored as c.                           *)
Apagar(c) == carrinho' \in {Vazio} \cup (IF "apagar" \in Falhas THEN {c} ELSE {})

-----------------------------------------------------------------------------
(* Orders.                                                                 *)

NovoPedido(endereco, itens, pgs) ==
  [endereco |-> endereco, total |-> CalcularTotal(itens), pago |-> pgs.soma]

SemPedido(guardado, lido, resp) ==
  /\ carrinho' \in {guardado, lido}
  /\ resposta' = resp
  /\ UNCHANGED pedidos

(* FinalizarCarrinhoComEnderecoEPagamentos and ProcessarPedidoComEndereco- *)
(* EPagamentos.  guardado is in Redis, lido is what the re-read returned.  *)
(* Order and payments are two INSERTs with no transaction around them, and *)
(* the error of LimparCarrinho is ignored.                                 *)
Finalizar(guardado, lido, endereco, pgs) ==
  \/ /\ lido.itens = SemItens
     /\ SemPedido(guardado, lido, "aviso")
  \/ /\ lido.itens # SemItens
     /\ "criarPedido" \in Falhas
     /\ SemPedido(guardado, lido, "erro")
  \/ /\ lido.itens # SemItens
     /\ ~PagamentosAceitos(pgs, lido.itens, ativas)
     /\ SemPedido(guardado, lido, "recusado")
  \/ /\ lido.itens # SemItens
     /\ PagamentosAceitos(pgs, lido.itens, ativas)
     /\ pgs.formas # {}
     /\ "gravarPagamentos" \in Falhas
     /\ Len(pedidos) < MaxPedidos
     /\ pedidos' = Append(pedidos, NovoPedido(endereco, lido.itens, SemPagamentos))
     /\ carrinho' = lido
     /\ resposta' = "erro"
  \/ /\ lido.itens # SemItens
     /\ PagamentosAceitos(pgs, lido.itens, ativas)
     /\ Len(pedidos) < MaxPedidos
     /\ pedidos' = Append(pedidos, NovoPedido(endereco, lido.itens, pgs))
     /\ Apagar(lido)
     /\ resposta' = "aviso"

(* finalizarComEndereco: the cart is saved as aberto before the order is   *)
(* attempted, and the order is made of what is read back.                  *)
FinalizarComEndereco(c, novo) ==
  LET salvo == [novo EXCEPT !.estado = Aberto] IN
  \/ /\ "salvar" \in Falhas
     /\ Manter(c)
     /\ resposta' = "erro"
     /\ UNCHANGED pedidos
  \/ \E lido \in {salvo} \cup (IF "ler" \in Falhas THEN {Vazio} ELSE {}) :
       Finalizar(salvo, lido, novo.enderecoID, novo.pagamentos)

-----------------------------------------------------------------------------
(* The checkout conversation.                                              *)

(* iniciarFluxoFinalizacao, from the button or the intent, in any estado.  *)
(* Addresses come newest first.  A failed listing counts as no address.    *)
IniciarFinalizacao ==
  \E c \in Lidos :
    /\ IF c.itens = SemItens
         THEN Manter(c) /\ resposta' = "aviso"
         ELSE \E n \in {enderecos} \cup (IF "enderecos" \in Falhas THEN {0} ELSE {}) :
                Salvar(c, IF n = 0
                            THEN PedirEndereco(c)
                            ELSE ConfirmarExistente(
                                   [c EXCEPT !.confirmacaoIdx = 0, !.mexido = FALSE], n))
    /\ UNCHANGED <<enderecos, ativas, pedidos>>

(* handleNovoEndereco, for a text with street, number and a known CEP.     *)
InformarEndereco ==
  \E c \in Lidos :
    /\ c.estado = EnderecoNovo
    /\ Salvar(c, ConfirmarDigitado(c))
    /\ UNCHANGED <<enderecos, ativas, pedidos>>

(* handleConfirmacaoEndereco, "nao": the next address of the list, or a    *)
(* new one when there is no next.                                          *)
RecusarEndereco ==
  \E c \in Lidos :
    /\ c.estado = Confirmacao
    /\ LET proximo == c.confirmacaoIdx + 1 IN
       Salvar(c, IF proximo < enderecos
                   THEN ConfirmarExistente([c EXCEPT !.confirmacaoIdx = proximo],
                                           enderecos - proximo)
                   ELSE [c EXCEPT !.estado = EnderecoNovo, !.pendente = FALSE,
                                  !.confirmacaoID = 0, !.confirmacaoIdx = 0])
    /\ UNCHANGED <<enderecos, ativas, pedidos>>

(* iniciarPagamento.  Without an active method nothing is saved, although  *)
(* the address may just have been created.                                 *)
IniciarPagamento(c, id) ==
  \/ "formas" \in Falhas /\ Manter(c) /\ resposta' = "erro"
  \/ ativas = {} /\ Manter(c) /\ resposta' = "aviso"
  \/ ativas # {} /\ Salvar(c, ComecarPagamento(c, id))

(* handleConfirmacaoEndereco, "sim": a typed address is created first.     *)
AceitarEndereco ==
  \E c \in Lidos :
    /\ c.estado = Confirmacao
    /\ IF c.pendente
         THEN /\ enderecos < MaxEnderecos
              /\ enderecos' = enderecos + 1
              /\ IniciarPagamento(c, enderecos + 1)
         ELSE /\ UNCHANGED enderecos
              /\ IF c.enderecoID = 0
                   THEN Manter(c) /\ resposta' = "erro"
                   ELSE IniciarPagamento(c, c.enderecoID)
    /\ UNCHANGED <<ativas, pedidos>>

(* continuarPagamento, on a cart with one payment more.                    *)
ContinuarPagamento(c, novo) ==
  IF Coberto(novo)
    THEN IF novo.enderecoID = 0
           THEN Manter(c) /\ resposta' = "erro" /\ UNCHANGED pedidos
           ELSE FinalizarComEndereco(c, novo)
    ELSE /\ \/ Salvar(c, [novo EXCEPT !.estado = Pagamento])
            \/ /\ "formas" \in Falhas
               /\ carrinho' = [novo EXCEPT !.estado = Pagamento]
               /\ resposta' = "erro"
         /\ UNCHANGED pedidos

(* handleSelecaoPagamento, "dividir".                                      *)
DividirPagamento ==
  \E c \in Lidos :
    /\ c.estado = Pagamento
    /\ Salvar(c, [c EXCEPT !.dividido = TRUE])
    /\ UNCHANGED <<enderecos, ativas, pedidos>>

(* handleSelecaoPagamento, the index of an active method.                  *)
EscolherForma(f) ==
  \E c \in Lidos :
    /\ c.estado = Pagamento
    /\ f \in ativas
    /\ CASE c.dividido ->
              /\ Salvar(c, [c EXCEPT !.forma = f, !.estado = ValorPag])
              /\ UNCHANGED pedidos
         [] ~c.dividido /\ f \in Dinheiro ->
              /\ Salvar(c, [c EXCEPT !.forma = f, !.valor = Devido(c),
                                     !.estado = Troco])
              /\ UNCHANGED pedidos
         [] OTHER ->
              ContinuarPagamento(c, Registrar(c, f, Devido(c), SemTroco))
    /\ UNCHANGED <<enderecos, ativas>>

(* handleValorPagamento.  Buscar does not ask whether the method is still  *)
(* active.                                                                 *)
InformarValor(v) ==
  \E c \in Lidos :
    /\ c.estado = ValorPag
    /\ v > 0
    /\ v + c.pagamentos.soma <= CalcularTotal(c.itens) + Tolerancia
    /\ IF c.forma \in Dinheiro
         THEN /\ Salvar(c, [c EXCEPT !.valor = v, !.estado = Troco])
              /\ UNCHANGED pedidos
         ELSE ContinuarPagamento(c, Registrar(c, c.forma, v, SemTroco))
    /\ UNCHANGED <<enderecos, ativas>>

(* Mutant: change for less than the amount is accepted.                    *)
InformarTrocoMenor ==
  \E c \in Lidos :
    /\ c.estado = Troco
    /\ \E t \in {SemTroco, ProximaCentena(c.valor)} \cup Valores :
         ContinuarPagamento(c, Registrar(c, c.forma, c.valor, t))
    /\ UNCHANGED <<enderecos, ativas>>

(* handleTrocoPagamento: no change needed, or change for t, where a text   *)
(* without an amount counts as the next hundred.                           *)
InformarTroco ==
  \E c \in Lidos :
    /\ c.estado = Troco
    /\ \E t \in {SemTroco, ProximaCentena(c.valor)} \cup Valores :
         /\ t # SemTroco => t >= c.valor
         /\ ContinuarPagamento(c, Registrar(c, c.forma, c.valor, t))
    /\ UNCHANGED <<enderecos, ativas>>

(* "cancelar" or "limpar" during a checkout; "limpar" also deletes.        *)
CancelarCheckout ==
  \E c \in Lidos, limpar \in BOOLEAN :
    /\ c.estado # Aberto
    /\ IF limpar
         THEN \/ carrinho' = Vazio /\ resposta' = "aviso"
              \/ "apagar" \in Falhas /\ carrinho' = Cancelado(c) /\ resposta' = "erro"
              \/ "salvar" \in Falhas /\ Manter(c) /\ resposta' = "erro"
         ELSE Salvar(c, Cancelado(c))
    /\ UNCHANGED <<enderecos, ativas, pedidos>>

(* ProcessarMensagem, items the LLM found.  The cart is read again after   *)
(* the LLM calls; a text too short for an address also gets here.          *)
PedirItens(novos) ==
  \E c1 \in Lidos, c \in Lidos :
    /\ c1.estado \in {Aberto, EnderecoNovo}
    /\ MergeItens(c.itens, novos) \in Itens
    /\ Salvar(c, ComItensDaConversa(c, novos))
    /\ UNCHANGED <<enderecos, ativas, pedidos>>

(* Every message whose handler reads the cart and saves nothing.           *)
MensagemSemEfeito ==
  \E c \in Lidos :
    /\ Manter(c)
    /\ resposta' \in {"aviso", "erro"}
    /\ UNCHANGED <<enderecos, ativas, pedidos>>

-----------------------------------------------------------------------------
(* The same cart through the MCP tools and the clear button, in any        *)
(* estado.  The client of the conversation is told nothing.                *)

AdicionarItem(p, q) ==
  \E c \in Lidos :
    /\ c.itens[p] + q <= MaxQtd
    /\ \/ carrinho' = ComItens(c, [c.itens EXCEPT ![p] = @ + q])
       \/ "salvar" \in Falhas /\ Manter(c)
    /\ UNCHANGED <<enderecos, ativas, pedidos, resposta>>

RemoverItem(p, q) ==
  \E c \in Lidos :
    /\ c.itens[p] # 0
    /\ RemoverQtd(c.itens, p, q)[p] <= MaxQtd
    /\ \/ carrinho' = ComItens(c, RemoverQtd(c.itens, p, q))
       \/ "salvar" \in Falhas /\ Manter(c)
    /\ UNCHANGED <<enderecos, ativas, pedidos, resposta>>

(* Mutant: the tool uses whatever address the cart holds.                  *)
FinalizarComEnderecoDoCarrinho ==
  \E c \in Lidos :
    /\ Finalizar(carrinho, c, c.enderecoID, SemPagamentos)
    /\ UNCHANGED <<enderecos, ativas>>

FinalizarPedido ==
  \E c \in Lidos :
    /\ Finalizar(carrinho, c, 0, SemPagamentos)
    /\ UNCHANGED <<enderecos, ativas>>

LimparCarrinho ==
  /\ Apagar(carrinho)
  /\ UNCHANGED <<enderecos, ativas, pedidos, resposta>>

(* The TTL of the key passes.                                              *)
Expirar ==
  /\ carrinho' = Vazio
  /\ UNCHANGED <<enderecos, ativas, pedidos, resposta>>

(* The shop switches a payment method on, with Criar or Atualizar, or off, *)
(* with Inativar.  Its tipo never changes here.                            *)
MudarForma(f) ==
  /\ ativas' \in {ativas \cup {f}, ativas \ {f}}
  /\ UNCHANGED <<carrinho, enderecos, pedidos, resposta>>

-----------------------------------------------------------------------------
Endereco == IniciarFinalizacao \/ InformarEndereco \/ RecusarEndereco \/ AceitarEndereco

Cobranca ==
  \/ DividirPagamento
  \/ \E f \in Formas : EscolherForma(f)
  \/ \E v \in Valores : InformarValor(v)
  \/ InformarTroco

Ferramentas ==
  \/ \E p \in Produtos, q \in 1..MaxQtd : AdicionarItem(p, q)
  \/ \E p \in Produtos, q \in -MaxQtd..MaxQtd : RemoverItem(p, q)
  \/ FinalizarPedido
  \/ LimparCarrinho

Next ==
  \/ Endereco
  \/ Cobranca
  \/ CancelarCheckout
  \/ \E novos \in Itens \ {SemItens} : PedirItens(novos)
  \/ MensagemSemEfeito
  \/ Ferramentas
  \/ Expirar
  \/ \E f \in Formas : MudarForma(f)

Spec == Init /\ [][Next]_vars

-----------------------------------------------------------------------------
(* While an address waits for "sim" the cart knows which one was shown:    *)
(* either a typed one, or a registered one that is also the address the    *)
(* order would get.  So handleConfirmacaoEndereco never meets "endereco    *)
(* confirmado nao encontrado", and never confirms what was not displayed.  *)
ConfirmacaoCoerente ==
  carrinho.estado = Confirmacao =>
    IF carrinho.pendente
      THEN carrinho.confirmacaoID = 0
      ELSE /\ carrinho.enderecoID \in 1..enderecos
           /\ carrinho.confirmacaoID = carrinho.enderecoID

(* A client is only asked for payments once the delivery address is a row  *)
(* of the database, so continuarPagamento never meets "endereco nao        *)
(* selecionado".                                                           *)
CobrancaTemEndereco ==
  carrinho.estado \in EmPagamento =>
    carrinho.enderecoID \in 1..enderecos /\ ~carrinho.pendente

(* As long as no tool touches the items, the conversation charges exactly: *)
(* every state that asks for a payment still has something due, and an     *)
(* amount waiting for its change is positive and does not overshoot.       *)
ContaFecha ==
  carrinho.estado \in EmPagamento /\ ~carrinho.mexido =>
    /\ carrinho.pagamentos.validos
    /\ Devido(carrinho) > Tolerancia
    /\ carrinho.estado = Troco =>
         /\ carrinho.forma \in Dinheiro
         /\ carrinho.valor > 0
         /\ Devido(carrinho) - carrinho.valor >= -Tolerancia

(* Every order with a delivery address goes to a row of the database and   *)
(* has payments that add up to its total; an order without one, which only *)
(* finalizar_pedido makes, has no payments.                                *)
Quitado(p) ==
  /\ p.pago >= p.total - Tolerancia
  /\ p.pago <= p.total + Tolerancia

EntregaQuitada ==
  \A i \in 1..Len(pedidos) :
    LET p == pedidos[i] IN
    IF p.endereco = 0 THEN p.pago = 0 ELSE p.endereco \in 1..enderecos /\ Quitado(p)

(* The two services agree on payments: prepararPagamentos turns down an    *)
(* order of the conversation only when a tool changed the items during the *)
(* checkout or the shop switched off a method already chosen.              *)
RecusaTemCausa ==
  [][resposta' = "recusado" /\ resposta # "recusado" =>
       \/ carrinho'.mexido
       \/ ~(carrinho'.pagamentos.formas \subseteq ativas)]_vars

(* A delivery is made out of the charging phase, to the address charged    *)
(* for, with the items in the cart, whatever call fails on the way: the    *)
(* re-read of FinalizarCarrinho never substitutes another cart.            *)
EntregaConfirmada ==
  [][LET p == pedidos'[Len(pedidos')] IN
     pedidos' # pedidos /\ p.endereco # 0 =>
       /\ carrinho.estado \in EmPagamento
       /\ p.endereco = carrinho.enderecoID
       /\ p.total = CalcularTotal(carrinho.itens)]_vars

-----------------------------------------------------------------------------
(* The abstract checkout this conversation implements.                     *)
fase ==
  CASE carrinho.estado = Aberto       -> "comprando"
    [] carrinho.estado = EnderecoNovo -> "endereco"
    [] carrinho.estado = Confirmacao  -> "confirmacao"
    [] OTHER                          -> "pagamento"

oferta ==
  IF carrinho.estado = Confirmacao THEN carrinho.confirmacaoID ELSE 0

destino ==
  IF carrinho.estado \in EmPagamento THEN carrinho.enderecoID ELSE 0

vendas ==
  [i \in 1..Len(pedidos) |->
     [destino |-> pedidos[i].endereco,
      quitada |-> pedidos[i].endereco # 0 /\ Quitado(pedidos[i])]]

C == INSTANCE Checkout WITH Destinos <- 1..MaxEnderecos

(* The conversation implements the abstract checkout: whatever is          *)
(* confirmed was shown, whatever is delivered was charged for in full, to  *)
(* the address that was confirmed, and nothing is delivered otherwise.     *)
ImplementaCheckout == C!Spec
=============================================================================
