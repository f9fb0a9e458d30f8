------------------------------ MODULE Conversa ------------------------------
(***************************************************************************)
(* Several messages of one client at the same time.  Every webhook call    *)
(* has its own goroutine, and ProcessarMensagem holds nothing while it     *)
(* reads the cart, asks the LLM for seconds, reads the cart again and      *)
(* saves it whole.  Here each call to Redis, to the LLM or to the orders   *)
(* is a step; Carrinho models what one message does in every state of the  *)
(* conversation, this module what overlapping messages do to each other.   *)
(*                                                                         *)
(* The item a message adds is named by the message; the cart's state keeps *)
(* apart what decides here: open, in the checkout, waiting for payment.    *)
(***************************************************************************)
EXTENDS Naturals, FiniteSets, Resumo, Provedores

CONSTANTS
  Inicial,        \* the item of the cart at the start
  MaxTentativas,  \* DefaultRetryConfig: attempts to resolve the items
  Chegada         \* Chegada[m]: the kinds of message m may come as

ASSUME InicialAssumption == Inicial \notin Mensagens \cup {Nenhuma}
ASSUME TentativasAssumption == MaxTentativas \in Nat \ {0}
ASSUME ChegadaAssumption == Chegada \in [Mensagens -> SUBSET Meios \ {{}}]

Itens     == Mensagens \cup {Inicial}
Carrinhos == [itens : SUBSET Itens,
              estado : {"aberto", "endereco", "pagamento"}]
Ausente   == <<>>
Vazio     == [itens |-> {}, estado |-> "aberto"]

(* adicionar, remover   the text goes to the LLM; remover takes Inicial out *)
(* limpar, fechar       the button or the word                              *)
(* ver                  visualizar; in the checkout, any answer but pagar   *)
(* pagar                the answer that completes the payment               *)
Tipos == {"adicionar", "remover", "ver", "limpar", "fechar", "pagar"}

Leituras == {"ler", "reler", "mostrar"}
Passos == Leituras \cup {"nova", "ouvir", "classificar", "resolver", "salvar", "pedir",
                         "apagar", "guardar", "fim"}

VARIABLES
  carrinho,    \* the value of the key, or Ausente
  tipo,        \* tipo[m]: what message m asks for
  meio,        \* meio[m]: whether it is written, spoken or a picture
  passo,       \* passo[m]: the call message m is about to make
  falta,       \* falta[m]: its GET missed or failed, the SET is to come
  lido,        \* lido[m]: the cart it works on
  pago,        \* pago[m]: the items its payments were summed for
  tentativa,   \* tentativa[m]: attempts to resolve its items so far
  pedido,      \* pedido[m]: the items of the order it made
  velho,       \* history: the cart is not, or no longer, what m has read
  reuso        \* history: ordered items may be back in a cart

conversa == <<carrinho, tipo, meio, passo, falta, lido, pago, tentativa, pedido,
              velho, reuso>>
vars == <<conversa, resumos>>

TypeOK ==
  /\ ResumoTypeOK
  /\ carrinho \in Carrinhos \cup {Ausente}
  /\ tipo \in [Mensagens -> Tipos]
  /\ meio \in [Mensagens -> Meios]
  /\ passo \in [Mensagens -> Passos]
  /\ falta \in [Mensagens -> {"nao", "ausente", "erro"}]
  /\ lido \in [Mensagens -> Carrinhos]
  /\ pago \in [Mensagens -> SUBSET Itens]
  /\ tentativa \in [Mensagens -> 0..(MaxTentativas - 1)]
  /\ pedido \in [Mensagens -> SUBSET Itens]
  /\ velho \in [Mensagens -> BOOLEAN]
  /\ reuso \in BOOLEAN

Init ==
  /\ ResumoInit
  /\ carrinho \in {Ausente} \cup {[itens |-> {Inicial}, estado |-> e] :
                                   e \in {"aberto", "pagamento"}}
  /\ tipo \in [Mensagens -> Tipos]
  /\ meio \in {f \in [Mensagens -> Meios] : \A m \in Mensagens : f[m] \in Chegada[m]}
  /\ passo = [m \in Mensagens |-> "nova"]
  /\ falta = [m \in Mensagens |-> "nao"]
  /\ lido = [m \in Mensagens |-> Vazio]
  /\ pago = [m \in Mensagens |-> {}]
  /\ tentativa = [m \in Mensagens |-> 0]
  /\ pedido = [m \in Mensagens |-> {}]
  /\ velho = [m \in Mensagens |-> FALSE]
  /\ reuso = FALSE

-----------------------------------------------------------------------------
Ir(m, p) == passo' = [passo EXCEPT ![m] = p]

(* The data of message m is kept while a later step uses it.               *)
UsaLido(p) == p \in {"ouvir", "classificar", "resolver", "salvar", "pedir"}
Exposta(m) ==
  falta[m] # "nao" \/ passo[m] \in {"ouvir", "salvar", "pedir", "apagar"}

NoCarrinho == IF carrinho = Ausente THEN {} ELSE carrinho.itens

(* What the others have read is old now.                                   *)
Mudou(m) == velho' = [d \in Mensagens |-> d # m /\ Exposta(d)]
EmDia(m) == velho' = [velho EXCEPT ![m] = FALSE]
Esquecer(m) ==
  /\ lido' = [lido EXCEPT ![m] = Vazio]
  /\ tentativa' = [tentativa EXCEPT ![m] = 0]

(* Outside the checkout, a word either is known or goes to the LLM.        *)
SemCheckout(m) ==
  CASE tipo[m] = "ver" -> {"mostrar"}
    [] tipo[m] = "limpar" -> {"apagar"}
    [] tipo[m] = "pagar" -> {"fim"}
    [] OTHER -> {"classificar"}

(* In the checkout the words limpar and cancelar and the valid answers     *)
(* save the cart as it was read; any other text is asked for again, or, if *)
(* too short for a new address, is taken for an ordinary message.          *)
Valida(m, c) ==
  tipo[m] \in {"ver", "limpar"} \/ (tipo[m] = "pagar" /\ c.estado = "pagamento")

NoCheckout(m, c) ==
  {"fim"} \cup (IF Valida(m, c) THEN {"salvar"} ELSE {})
          \cup (IF c.estado = "endereco" THEN SemCheckout(m) ELSE {})

(* What ProcessarMensagem does with the text and the cart c of its first   *)
(* GetCarrinho.  The typed text may be that of a button, which is obeyed   *)
(* in any state; the button finalizar spares the LLM.                      *)
Botao(m) ==
  IF meio[m] # "texto" THEN {}
  ELSE CASE tipo[m] = "limpar" -> {"apagar"} [] tipo[m] = "fechar" -> {"reler"}
         [] OTHER -> {}

DepoisDeOuvir(m, c) ==
  Botao(m) \cup (IF c.estado = "aberto" THEN SemCheckout(m) ELSE NoCheckout(m, c))

(* A recording or a picture has to become text first.                      *)
DepoisDeLer(m, c) == IF meio[m] = "texto" THEN DepoisDeOuvir(m, c) ELSE {"ouvir"}

(* The second one.  An empty cart is said to be so, in a summary.          *)
DepoisDeReler(m, c) ==
  CASE tipo[m] = "remover" -> IF Inicial \in c.itens THEN "salvar" ELSE "mostrar"
    [] tipo[m] = "adicionar" -> "salvar"
    [] c.itens = {} -> "guardar"
    [] tipo[m] = "fechar" -> "salvar"
    [] OTHER -> "pedir"

Depois(m, c) ==
  CASE passo[m] = "ler" -> DepoisDeLer(m, c)
    [] passo[m] = "reler" -> {DepoisDeReler(m, c)}
    [] passo[m] = "mostrar" -> {"guardar"}

Continuar(m, c) ==
  \E p \in Depois(m, c) :
    /\ Ir(m, p)
    /\ lido' = [lido EXCEPT ![m] = IF UsaLido(p) THEN c ELSE Vazio]

Receber(m) ==
  /\ passo[m] = "nova"
  /\ Ir(m, "ler")
  /\ UNCHANGED <<carrinho, tipo, meio, falta, lido, pago, tentativa, pedido, velho,
                 reuso, resumos>>

(* GetCarrinho: GET, and when it misses or fails, SET of an empty cart.    *)
Get(m) ==
  /\ passo[m] \in Leituras /\ falta[m] = "nao"
  /\ EmDia(m)
  /\ \/ carrinho # Ausente /\ Continuar(m, carrinho) /\ UNCHANGED falta
     \/ /\ falta' = [falta EXCEPT ![m] = IF carrinho = Ausente THEN "ausente"
                                                               ELSE "erro"]
        /\ UNCHANGED <<lido, passo>>
  /\ UNCHANGED <<carrinho, tipo, meio, pago, tentativa, pedido, reuso, resumos>>

SetVazio(m) ==
  /\ passo[m] \in Leituras /\ falta[m] # "nao"
  /\ \/ carrinho' = Vazio /\ Mudou(m)
     \/ /\ velho' = [velho EXCEPT ![m] = @ \/ falta[m] = "erro"]
        /\ UNCHANGED carrinho
  /\ falta' = [falta EXCEPT ![m] = "nao"]
  /\ Continuar(m, Vazio)
  /\ UNCHANGED <<tipo, meio, pago, tentativa, pedido, reuso, resumos>>

-----------------------------------------------------------------------------
(* ObterTextoBase: the cart already read waits for the transcription, which *)
(* may take a minute.  Without a text the client is asked to type; a panic  *)
(* is recovered in Process, and nothing is answered.                       *)
Ouvir(m) ==
  /\ passo[m] = "ouvir"
  /\ \E r \in ObterTextoBase(meio[m]) :
     \E p \in (IF r = "texto" THEN DepoisDeOuvir(m, lido[m]) ELSE {"fim"}) :
       /\ Ir(m, p)
       /\ lido' = [lido EXCEPT ![m] = IF UsaLido(p) THEN @ ELSE Vazio]
       /\ velho' = [velho EXCEPT ![m] = @ /\ p \in {"salvar", "apagar"}]
  /\ UNCHANGED <<carrinho, tipo, meio, falta, pago, tentativa, pedido, reuso,
                 resumos>>

(* What the LLM makes of the text: small talk and a list of products end   *)
(* the message; when nothing to remove is recognized the cart is shown.    *)
Classificado(m) ==
  CASE tipo[m] = "adicionar" -> {"resolver", "fim"}
    [] tipo[m] = "remover" -> {"reler", "mostrar", "fim"}
    [] OTHER -> {"reler", "fim"}

(* Mutant: a message the LLM fails on is taken from the start again.       *)
ClassificarDeNovo(m) ==
  /\ passo[m] = "classificar"
  /\ \E r \in UnifiedLLM("texto") :
     \E p \in (IF r = "texto" THEN Classificado(m) ELSE {"ler"}) :
       /\ Ir(m, p)
       /\ lido' = [lido EXCEPT ![m] = IF UsaLido(p) THEN @ ELSE Vazio]
  /\ UNCHANGED <<carrinho, tipo, meio, falta, pago, tentativa, pedido, velho,
                 reuso, resumos>>

(* ClassificarEExtrairKeywords is tried once, and its error ends the       *)
(* message, as that of GetCardapio does.                                   *)
Classificar(m) ==
  /\ passo[m] = "classificar"
  /\ \E r \in UnifiedLLM("texto") :
     \E p \in (IF r = "texto" THEN Classificado(m) ELSE {"fim"}) :
       /\ Ir(m, p)
       /\ lido' = [lido EXCEPT ![m] = IF UsaLido(p) THEN @ ELSE Vazio]
  /\ UNCHANGED <<carrinho, tipo, meio, falta, pago, tentativa, pedido, velho,
                 reuso, resumos>>

(* ResolveItemsByMenu: items; none (or an answer that does not parse),     *)
(* which shows the cart if it had something when it was first read; small  *)
(* talk.  With a large menu the errors are dropped and come to no items.   *)
Resolvido(m) == {"reler", "fim", IF lido[m].itens # {} THEN "mostrar" ELSE "fim"}

(* Mutant: one attempt more.                                               *)
DeNovoAMais(m, r) == r = "ocupado" /\ tentativa[m] < MaxTentativas

(* shouldRetry, and an attempt is left.                                    *)
DeNovo(m, r) == r = "ocupado" /\ tentativa[m] < MaxTentativas - 1

(* RetryWithBackoff around it.                                             *)
Resolver(m) ==
  /\ passo[m] = "resolver"
  /\ \E r \in UnifiedLLM("texto") :
       IF DeNovo(m, r)
       THEN /\ tentativa' = [tentativa EXCEPT ![m] = @ + 1]
            /\ UNCHANGED <<passo, lido>>
       ELSE /\ \E p \in Resolvido(m) : (r = "texto" \/ p # "reler") /\ Ir(m, p)
            /\ Esquecer(m)
  /\ UNCHANGED <<carrinho, tipo, meio, falta, pago, pedido, velho, reuso,
                 resumos>>

-----------------------------------------------------------------------------
(* The writes.                                                             *)

(* Mutant: the new item replaces the others.                               *)
AlteradoSoComOItem(m, e) ==
  CASE tipo[m] = "adicionar" -> [itens |-> {m}, estado |-> e]
    [] tipo[m] = "remover" -> [lido[m] EXCEPT !.itens = @ \ {Inicial}]
    [] OTHER -> [lido[m] EXCEPT !.estado = e]

(* The cart message m saves: mergeItem; the item taken out; otherwise the  *)
(* cart it read, in another state e of the conversation.                   *)
Alterado(m, e) ==
  CASE tipo[m] = "adicionar" -> [itens |-> lido[m].itens \cup {m}, estado |-> e]
    [] tipo[m] = "remover" -> [lido[m] EXCEPT !.itens = @ \ {Inicial}]
    [] OTHER -> [lido[m] EXCEPT !.estado = e]

(* The checkout begun; an answer, which may confirm the address or cancel; *)
(* everything else opens the cart.                                         *)
EstadosSalvos(m) ==
  CASE tipo[m] = "fechar" -> {"endereco"}
    [] tipo[m] = "ver" -> {lido[m].estado, "pagamento", "aberto"}
    [] OTHER -> {"aberto"}

DepoisDeSalvar(m, e) ==
  CASE tipo[m] = "adicionar" -> "guardar"
    [] tipo[m] = "remover" -> "mostrar"
    [] tipo[m] = "pagar" -> "reler"
    [] tipo[m] = "limpar" -> "apagar"
    [] tipo[m] = "ver" /\ e = "aberto" -> "mostrar"
    [] OTHER -> "fim"

(* The items that were ordered.                                            *)
Pedidos == UNION {pedido[d] : d \in Mensagens}

(* SET, or its error: RemoverItem's is dropped, the others end the message.*)
Salvar(m) ==
  /\ passo[m] = "salvar"
  /\ \/ /\ \E e \in EstadosSalvos(m) :
             carrinho' = Alterado(m, e) /\ Ir(m, DepoisDeSalvar(m, e))
        /\ Mudou(m)
        /\ reuso' = (reuso \/ (velho[m] /\ lido[m].itens \cap Pedidos # {}))
        /\ pago' = [pago EXCEPT ![m] = IF tipo[m] = "pagar" THEN lido[m].itens
                                                            ELSE @]
     \/ /\ Ir(m, IF tipo[m] = "remover" THEN "mostrar" ELSE "fim")
        /\ EmDia(m)
        /\ UNCHANGED <<carrinho, reuso, pago>>
  /\ lido' = [lido EXCEPT ![m] = Vazio]
  /\ UNCHANGED <<tipo, meio, falta, tentativa, pedido, resumos>>

(* A message whose order was made but whose cart is still there.           *)
PedidoSemDel(m) == passo[m] = "apagar" /\ pedido[m] # {}

(* The order is made of the cart read again; it is refused unless its      *)
(* total is that of the payments.  Items cost the same here.               *)
Pedir(m) ==
  /\ passo[m] = "pedir"
  /\ \/ /\ Cardinality(pago[m]) = Cardinality(lido[m].itens)
        /\ pedido' = [pedido EXCEPT ![m] = lido[m].itens]
        /\ \/ /\ Ir(m, "apagar")
              /\ reuso' = (reuso \/ velho[m]
                                 \/ \E d \in Mensagens \ {m} : PedidoSemDel(d))
              /\ UNCHANGED velho
           \/ /\ Ir(m, "fim")   \* the payments were not inserted
              /\ reuso' = TRUE
              /\ EmDia(m)
     \/ Ir(m, "fim") /\ EmDia(m) /\ UNCHANGED <<pedido, reuso>>
  /\ pago' = [pago EXCEPT ![m] = {}]
  /\ lido' = [lido EXCEPT ![m] = Vazio]
  /\ UNCHANGED <<carrinho, tipo, meio, falta, tentativa, resumos>>

(* Mutant: finalizing keeps the cart.                                      *)
ApagarSoLimpando(m) ==
  /\ passo[m] = "apagar"
  /\ IF tipo[m] = "limpar" THEN carrinho' = Ausente /\ Mudou(m)
                           ELSE EmDia(m) /\ UNCHANGED carrinho
  /\ Ir(m, "fim")
  /\ UNCHANGED <<tipo, meio, falta, lido, pago, tentativa, pedido, reuso, resumos>>

(* LimparCarrinho: DEL, or its error, dropped in every caller here.        *)
Apagar(m) ==
  /\ passo[m] = "apagar"
  /\ \/ carrinho' = Ausente /\ Mudou(m) /\ UNCHANGED reuso
     \/ /\ reuso' = (reuso \/ PedidoSemDel(m))
        /\ EmDia(m)
        /\ UNCHANGED carrinho
  /\ Ir(m, "fim")
  /\ UNCHANGED <<tipo, meio, falta, lido, pago, tentativa, pedido, resumos>>

(* The answer is a summary, which waits for others if the message was      *)
(* typed.  (Any other answer is sent and changes nothing.)                 *)
Responder(m) ==
  /\ passo[m] = "guardar"
  /\ IF meio[m] = "texto" THEN GuardarResumo(m) ELSE UNCHANGED resumos
  /\ Ir(m, "fim")
  /\ UNCHANGED <<carrinho, tipo, meio, falta, lido, pago, tentativa, pedido, velho,
                 reuso>>

-----------------------------------------------------------------------------
Expirar ==
  /\ carrinho # Ausente
  /\ carrinho' = Ausente
  /\ velho' = [m \in Mensagens |-> velho[m] \/ Exposta(m)]
  /\ UNCHANGED <<tipo, meio, passo, falta, lido, pago, tentativa, pedido, reuso,
                 resumos>>

(* The server stops: every message and goroutine under way is gone.        *)
EmCurso(m) == passo[m] \notin {"nova", "fim"}

Reiniciar ==
  /\ \E m \in Mensagens : EmCurso(m) \/ rotina[m] # "parada"
  /\ passo' = [m \in Mensagens |-> IF EmCurso(m) THEN "fim" ELSE passo[m]]
  /\ falta' = [m \in Mensagens |-> "nao"]
  /\ lido' = [m \in Mensagens |-> Vazio]
  /\ pago' = [m \in Mensagens |-> {}]
  /\ tentativa' = [m \in Mensagens |-> 0]
  /\ velho' = [m \in Mensagens |-> FALSE]
  /\ reuso' = (reuso \/ \E m \in Mensagens : PedidoSemDel(m))
  /\ ReiniciarResumo
  /\ UNCHANGED <<carrinho, tipo, meio, pedido>>

Passo(m) ==
  \/ Get(m) \/ SetVazio(m) \/ Ouvir(m) \/ Classificar(m) \/ Resolver(m)
  \/ Salvar(m) \/ Pedir(m) \/ Apagar(m) \/ Responder(m)

Next ==
  \/ \E m \in Mensagens : Receber(m) \/ Passo(m)
  \/ ResumoNext /\ UNCHANGED conversa
  \/ Expirar
  \/ Reiniciar

(* The goroutine of a message and the one of the debounce run to their end. *)
Fairness == \A m \in Mensagens :
  WF_vars(Passo(m)) /\ WF_vars(PassoDaRotina(m) /\ UNCHANGED conversa)

Spec == Init /\ [][Next]_vars /\ Fairness

-----------------------------------------------------------------------------
(* An item that is in the cart leaves it because it was taken out, cleared *)
(* or ordered, the key expired, or one of the two known ways of losing it: *)
(* a write of a cart read before another message's write, and a GET that   *)
(* failed.  Messages that do not overlap lose nothing.                     *)
ItemSaiComCausa ==
  [][\A i \in NoCarrinho \ NoCarrinho' :
       \/ Expirar
       \/ \E m \in Mensagens :
            \/ passo[m] = "salvar" /\ velho[m]
            \/ passo[m] = "salvar" /\ tipo[m] = "remover" /\ i = Inicial
            \/ passo[m] = "apagar" /\ (velho[m] \/ tipo[m] = "limpar"
                                                \/ i \in pedido[m])
            \/ falta[m] = "erro"
            \/ falta[m] = "ausente" /\ velho[m]]_carrinho

(* No item is ordered twice, unless the cart of an order outlived it: its  *)
(* DEL failed or never ran, a second payment came between the order and    *)
(* the DEL, a message saved a cart with the item that was old, or the      *)
(* INSERT of the payments failed.                                          *)
UmPedidoPorItem ==
  ~reuso => \A m, n \in Mensagens :
              m # n => pedido[m] \cap pedido[n] = {}

(* However the LLM, Redis and WhatsApp fail, every message that came in    *)
(* ends, and so does the goroutine it may have started.                    *)
TodaTermina ==
  \A m \in Mensagens :
    passo[m] = "ler" ~> passo[m] = "fim" /\ rotina[m] = "parada"
=============================================================================
