--------------------------- MODULE ItensDoPedido ---------------------------
(***************************************************************************)
(* What becomes of a product on its way from the menu to an order.  The    *)
(* LLM and the MCP tools name products by their id, the cart keeps a copy  *)
(* of the product found under it, and the order looks every item up again, *)
(* by its name: the first product of the menu, in the menu's order, whose  *)
(* name is, contains or is contained in it, else the most similar one.     *)
(***************************************************************************)
EXTENDS Integers, FiniteSets, Sequences, SequencesExt

CONSTANTS
  Cardapios,   \* the menus the shop has in turn: sequences of products
  Palavras,    \* Palavras[n]: the words of the name n, in lower case
  Dentro,      \* pairs <<a, b>> of names or words: a occurs in b
  Longas,      \* the words of more than three letters
  Keywords,    \* what the LLM extracts of a message: [nome, unidade]
  Quantidades, \* what a request or the LLM gives as a quantity
  MaxReduzido, \* what the LLM is shown of a large menu
  MaxItens,    \* bound: items of a cart, of a request
  MaxQtd       \* bound: quantity of an item of the cart

Nenhum == <<>>

VARIABLES
  cardapio,   \* the available products, by category and name
  carrinho,   \* the items of the cart: [id, nome, preco, qtd]
  pedido      \* the last order: the items asked for, and its lines

vars == <<cardapio, carrinho, pedido>>

Init ==
  /\ cardapio \in Cardapios
  /\ carrinho = <<>>
  /\ pedido = [itens |-> <<>>, linhas |-> <<>>, total |-> 0]

-----------------------------------------------------------------------------
Contido(a, b) == a = b \/ <<a, b>> \in Dentro
Casa(a, b)    == Contido(a, b) \/ Contido(b, a)

Primeiro(menu, Serve(_)) ==
  LET i == SelectInSeq(menu, Serve)
  IN IF i = 0 THEN Nenhum ELSE menu[i]

BuscarProdutoPorIdNoCardapio(menu, id) ==
  LET EhEle(p) == p.id = id IN Primeiro(menu, EhEle)

ItemExisteNoCardapio(menu, nome) ==
  LET Serve(p) == Casa(p.nome, nome) IN Primeiro(menu, Serve)

(* Two points for every pair of long words one of which occurs in the other.*)
similarityScore(a, b) ==
  2 * Cardinality({<<i, j>> \in (DOMAIN Palavras[a]) \X (DOMAIN Palavras[b]) :
                     /\ {Palavras[a][i], Palavras[b][j]} \subseteq Longas
                     /\ Casa(Palavras[a][i], Palavras[b][j])})

(* The first of the best, if it has more than three points.                *)
EncontrarItemSimilar(menu, nome) ==
  LET Pontos(p) == similarityScore(nome, p.nome)
      Melhor(p) == Pontos(p) > 3 /\ \A q \in ToSet(menu) : Pontos(q) <= Pontos(p)
  IN Primeiro(menu, Melhor)

(* The product ProcessarPedido takes for the name of an item.              *)
Resolvido(menu, nome) ==
  LET exato == ItemExisteNoCardapio(menu, nome)
      similar == EncontrarItemSimilar(menu, nome)
  IN IF exato # Nenhum \/ similar = Nenhum THEN exato
     ELSE ItemExisteNoCardapio(menu, similar.nome)

(* Its id and name replace the item's; its price only a price of zero.     *)
Linha(menu, item) ==
  LET p == Resolvido(menu, item.nome)
  IN [id |-> p.id, nome |-> p.nome, qtd |-> item.qtd,
      preco |-> IF item.preco # 0 THEN item.preco ELSE p.preco]

Total(itens) ==
  FoldLeft(LAMBDA s, it : s + it.preco * it.qtd, 0, itens)

(* The products of the menu that serve a keyword, keyword by keyword.      *)
Passada(menu, kws, Serve(_, _)) ==
  FoldLeft(LAMBDA out, kw :
             out \o SelectSeq(menu, LAMBDA p : Serve(p, kw) /\ ~Contains(out, p)),
           <<>>, kws)

(* ReduzirPorKeywords: by name and unit, or else by part of a name.        *)
Reduzir(menu, kws) ==
  LET NomeEUnidade(p, kw) == /\ Casa(p.nome, kw.nome)
                             /\ kw.unidade = "" \/ Contido(kw.unidade, p.nome)
      ParteDoNome(p, kw) == Contido(kw.nome, p.nome)
      s == Passada(menu, kws, NomeEUnidade)
      out == IF s = <<>> THEN Passada(menu, kws, ParteDoNome) ELSE s
  IN SubSeq(out, 1, IF Len(out) < MaxReduzido THEN Len(out) ELSE MaxReduzido)

(* mapResolverToCarrinho, for one product of the LLM's answer: an id that  *)
(* is not on the menu is dropped, a quantity below one is one.             *)
Item(p, qtd) == [id |-> p.id, nome |-> p.nome, preco |-> p.preco,
                 qtd |-> IF qtd <= 0 THEN 1 ELSE qtd]

Indice(itens, id) == SelectInSeq(itens, LAMBDA it : it.id = id)

mergeItem(itens, novo) ==
  LET i == Indice(itens, novo.id)
  IN IF i = 0 THEN Append(itens, novo)
     ELSE [itens EXCEPT ![i].qtd = @ + novo.qtd]

RemoverItem(itens, id, qtd) ==
  LET i == Indice(itens, id)
  IN CASE i = 0 -> itens
       [] i # 0 /\ (qtd = 0 \/ qtd >= itens[i].qtd) -> RemoveAt(itens, i)
       [] OTHER -> [itens EXCEPT ![i].qtd = @ - qtd]

-----------------------------------------------------------------------------
Ids   == {p.id : p \in UNION {ToSet(m) : m \in Cardapios}}

(* The shop changes its products.                                          *)
EditarCardapio ==
  /\ cardapio' \in Cardapios
  /\ UNCHANGED <<carrinho, pedido>>

(* A message is resolved against the menu, or what is left of it for the   *)
(* keywords; adicionar_ao_carrinho takes the id from its caller.           *)
Adicionar(menu, id, qtd) ==
  LET p == BuscarProdutoPorIdNoCardapio(menu, id) IN
  /\ p # Nenhum /\ Len(carrinho) < MaxItens
  /\ carrinho' = mergeItem(carrinho, Item(p, qtd))
  /\ \A i \in DOMAIN carrinho' : carrinho'[i].qtd <= MaxQtd
  /\ UNCHANGED <<cardapio, pedido>>

Remover(menu, id, qtd) ==
  /\ BuscarProdutoPorIdNoCardapio(menu, id) # Nenhum
  /\ carrinho' = RemoverItem(carrinho, id, qtd)
  /\ UNCHANGED <<cardapio, pedido>>

ProcessarPedido(itens) ==
  /\ itens # <<>>
  /\ \A i \in DOMAIN itens : Resolvido(cardapio, itens[i].nome) # Nenhum
  /\ LET linhas == [i \in DOMAIN itens |-> Linha(cardapio, itens[i])]
     IN pedido' = [itens |-> itens, linhas |-> linhas, total |-> Total(linhas)]

FinalizarCarrinho ==
  /\ ProcessarPedido(carrinho)
  /\ carrinho' = <<>>
  /\ UNCHANGED cardapio

(* processar_pedido_restaurante: every item by its id, or no order.        *)
ProcessarPedidoRestaurante(ids, qtd) ==
  LET P(i) == BuscarProdutoPorIdNoCardapio(cardapio, ids[i]) IN
  /\ \A i \in DOMAIN ids : P(i) # Nenhum
  /\ ProcessarPedido([i \in DOMAIN ids |-> Item(P(i), qtd)])
  /\ UNCHANGED <<cardapio, carrinho>>

Next ==
  \/ EditarCardapio
  \/ \E id \in Ids, qtd \in Quantidades :
       \E menu \in {cardapio} \cup {Reduzir(cardapio, kws) :
                                      kws \in BoundedSeq(Keywords, MaxItens)} :
         Adicionar(menu, id, qtd) \/ Remover(menu, id, qtd)
  \/ FinalizarCarrinho
  \/ \E ids \in BoundedSeq(Ids, MaxItens), qtd \in Quantidades :
       ProcessarPedidoRestaurante(ids, qtd)

Spec == Init /\ [][Next]_vars

-----------------------------------------------------------------------------
(* "Validação segura por ID" (server/tools/pedido.go:25): a line of an     *)
(* order is the product whose id was asked for.                            *)
ValidadoPorId ==
  \A i \in DOMAIN pedido.itens : pedido.linhas[i].id = pedido.itens[i].id
=============================================================================
