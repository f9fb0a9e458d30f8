------------------------------- MODULE Pedido -------------------------------
(***************************************************************************)
(* One order from its creation on: the operators of the shop who set its   *)
(* status through PATCH /pedidos/:id/status, its payment rows, and the     *)
(* notice sent to the client when it leaves for delivery.                  *)
(*                                                                         *)
(* A request is a sequence of database and Redis calls with nothing held   *)
(* between them, so each call is an action of its own and requests of      *)
(* different operators interleave with each other and with the service     *)
(* that is still inserting the payments.  The target status is the         *)
(* normalised one: a text NormalizarStatusPedido does not know is no       *)
(* status, and pedidoStatusValido turns it down.                           *)
(***************************************************************************)
EXTENDS Naturals

CONSTANTS
  Operadores,   \* concurrent PATCH requests
  Falhas        \* which calls may fail

TiposDeFalha ==
  {"gravar",       \* the UPDATE of the status
   "reler",        \* the SELECT that UpdateStatus ends with
   "marcar",       \* the UPDATE of the payments
   "reservar",     \* the SETNX of the notice
   "enviar",       \* the WhatsApp message
   "inserir",      \* the INSERT of the payments
   "reiniciar"}    \* the server stops and starts

ASSUME FalhasAssumption == Falhas \subseteq TiposDeFalha

Pendente   == "pendente"
Confirmado == "confirmado"
EmPreparo  == "em_preparo"
Saiu       == "saiu_para_entrega"
Entregue   == "entregue"
Cancelado  == "cancelado"

Status == {Pendente, Confirmado, EmPreparo, Saiu, Entregue, Cancelado}

(* Where a request is: between which two of its calls.                     *)
Passos == {"livre", "gravar", "marcar", "reservar", "enviar"}

VARIABLES
  status,       \* the column of the order
  pagamentos,   \* its payment rows: none, all pendente, or all pago
  criando,      \* the service has inserted the order, not yet the payments
  telefone,     \* the column cliente_telefone is not empty
  chave,        \* notificacao:saiu:<id> is in Redis
  passo,        \* passo[o]: where request o is
  alvo,         \* alvo[o]: the status request o asks for
  vistos,       \* history: every status the column has had
  avisos,       \* history: notices sent since the key was last absent
  falhou,       \* history: some call failed, or the server was restarted
  tarde         \* history: payments were inserted after a delivery

banco == <<status, pagamentos, criando, telefone>>
pedido == <<passo, alvo>>
historia == <<vistos, avisos, falhou, tarde>>
vars == <<status, pagamentos, criando, telefone, chave, passo, alvo,
          vistos, avisos, falhou, tarde>>

TypeOK ==
  /\ status \in Status
  /\ pagamentos \in {"nenhum", "pendente", "pago"}
  /\ criando \in BOOLEAN
  /\ telefone \in BOOLEAN
  /\ chave \in BOOLEAN
  /\ passo \in [Operadores -> Passos]
  /\ alvo \in [Operadores -> Status]
  /\ vistos \in SUBSET Status
  /\ avisos \in Nat
  /\ falhou \in BOOLEAN
  /\ tarde \in BOOLEAN

(* An order is inserted as confirmado by ProcessarPedido, with or without  *)
(* payments to follow, or as pendente by Create.  Neither writes the       *)
(* telephone; the rows the SQL scripts insert have one.                    *)
Init ==
  /\ \/ status = Confirmado /\ criando \in BOOLEAN
     \/ status = Pendente /\ criando = FALSE
  /\ pagamentos = "nenhum"
  /\ telefone \in BOOLEAN
  /\ chave = FALSE
  /\ passo = [o \in Operadores |-> "livre"]
  /\ alvo = [o \in Operadores |-> Pendente]
  /\ vistos = {status}
  /\ avisos = 0
  /\ falhou = FALSE
  /\ tarde = FALSE

-----------------------------------------------------------------------------
Transicoes(s) ==
  CASE s = Pendente   -> {Confirmado, Cancelado}
    [] s = Confirmado -> {EmPreparo, Cancelado}
    [] s = EmPreparo  -> {Saiu, Cancelado}
    [] s = Saiu       -> {Entregue, Cancelado}
    [] OTHER          -> {}

(* Mutant: an order may be delivered while it is still being prepared.     *)
StatusValidoComSalto(atual, novo) ==
  \/ atual = novo
  \/ novo \in Transicoes(atual)
  \/ atual = EmPreparo /\ novo = Entregue

(* Mutant: only the target is checked.                                     *)
StatusValidoSemOrigem(atual, novo) == novo \in Status \ {Pendente}

pedidoStatusValido(atual, novo) == atual = novo \/ novo \in Transicoes(atual)

(* Mutant: payments are settled when the order leaves.                     *)
DepoisDeGravarNaSaida(s, temTelefone) ==
  CASE s = Entregue \/ s = Saiu -> "marcar"
    [] OTHER -> "livre"

(* Mutant: a delivery settles nothing.                                     *)
DepoisDeGravarSemMarcar(s, temTelefone) ==
  IF s = Saiu /\ temTelefone THEN "reservar" ELSE "livre"

(* What a request still has to do once the status is written.              *)
DepoisDeGravar(s, temTelefone) ==
  CASE s = Entregue             -> "marcar"
    [] s = Saiu /\ temTelefone  -> "reservar"
    [] OTHER                    -> "livre"

-----------------------------------------------------------------------------
(* AtualizarStatusPedido: FindByID and pedidoStatusValido.  A request that *)
(* is turned down changes nothing.                                         *)
Ler(o, s) ==
  /\ passo[o] = "livre"
  /\ pedidoStatusValido(status, s)
  /\ passo' = [passo EXCEPT ![o] = "gravar"]
  /\ alvo' = [alvo EXCEPT ![o] = s]
  /\ UNCHANGED <<banco, chave, historia>>

(* UpdateStatus: the UPDATE, without looking at what the row holds now.    *)
Gravar(o) ==
  /\ passo[o] = "gravar"
  /\ status' = alvo[o]
  /\ vistos' = vistos \cup {alvo[o]}
  /\ \/ /\ passo' = [passo EXCEPT ![o] = DepoisDeGravar(alvo[o], telefone)]
        /\ UNCHANGED falhou
     \/ /\ "reler" \in Falhas
        /\ passo' = [passo EXCEPT ![o] = "livre"]
        /\ falhou' = TRUE
  /\ UNCHANGED <<pagamentos, criando, telefone, chave, alvo, avisos, tarde>>

(* Mutant: the status of the order is written on its payments.             *)
MarcarComStatusDoPedido(o) ==
  /\ passo[o] = "marcar"
  /\ pagamentos' = IF pagamentos = "pendente" THEN alvo[o] ELSE pagamentos
  /\ passo' = [passo EXCEPT ![o] = "livre"]
  /\ UNCHANGED <<status, criando, telefone, chave, alvo, historia>>

(* MarcarPendentesComoPagos, for a delivered order.                        *)
Marcar(o) ==
  /\ passo[o] = "marcar"
  /\ pagamentos' = IF pagamentos = "pendente" THEN "pago" ELSE pagamentos
  /\ passo' = [passo EXCEPT ![o] = "livre"]
  /\ UNCHANGED <<status, criando, telefone, chave, alvo, historia>>

(* Mutant: the answer of SETNX is not looked at.                           *)
ReservarSempre(o) ==
  /\ passo[o] = "reservar"
  /\ chave' = TRUE
  /\ passo' = [passo EXCEPT ![o] = "enviar"]
  /\ UNCHANGED <<banco, alvo, historia>>

(* notificarPedidoSaiuParaEntrega: SETNX, and nothing more if it was set.  *)
Reservar(o) ==
  /\ passo[o] = "reservar"
  /\ chave' = TRUE
  /\ passo' = [passo EXCEPT ![o] = IF chave THEN "livre" ELSE "enviar"]
  /\ UNCHANGED <<banco, alvo, historia>>

(* SendMessageCtx *)
Enviar(o) ==
  /\ passo[o] = "enviar"
  /\ avisos' = avisos + 1
  /\ passo' = [passo EXCEPT ![o] = "livre"]
  /\ UNCHANGED <<banco, chave, alvo, vistos, falhou, tarde>>

(* A call fails and the request ends with its error.  One that took effect *)
(* although its answer was lost leaves what its success leaves, but for    *)
(* the two the request would go on from: UpdateStatus (in Gravar) and the  *)
(* SETNX, which may have set the key.                                      *)
Falhar(o) ==
  /\ passo[o] \in Falhas
  /\ passo' = [passo EXCEPT ![o] = "livre"]
  /\ falhou' = TRUE
  /\ IF passo[o] = "reservar" THEN chave' \in {chave, TRUE} ELSE UNCHANGED chave
  /\ UNCHANGED <<banco, alvo, vistos, avisos, tarde>>

(* CreateMany, after the order was inserted and is already visible.        *)
InserirPagamentos ==
  /\ criando
  /\ criando' = FALSE
  /\ \/ /\ pagamentos' = "pendente"
        /\ tarde' = (tarde \/ Entregue \in vistos)
        /\ UNCHANGED falhou
     \/ /\ "inserir" \in Falhas
        /\ falhou' = TRUE
        /\ UNCHANGED <<pagamentos, tarde>>
  /\ UNCHANGED <<status, telefone, chave, pedido, vistos, avisos>>

(* 24 hours pass.  The TTL outlives any request, so no notice is underway. *)
ExpirarChave ==
  /\ chave
  /\ \A o \in Operadores : passo[o] # "enviar"
  /\ chave' = FALSE
  /\ avisos' = 0
  /\ UNCHANGED <<banco, pedido, vistos, falhou, tarde>>

(* The server stops: the requests and the creation in progress are lost.   *)
Reiniciar ==
  /\ "reiniciar" \in Falhas
  /\ passo' = [o \in Operadores |-> "livre"]
  /\ criando' = FALSE
  /\ falhou' = TRUE
  /\ UNCHANGED <<status, pagamentos, telefone, chave, alvo, vistos, avisos, tarde>>

Requisicao(o) ==
  \/ \E s \in Status : Ler(o, s)
  \/ Gravar(o)
  \/ Marcar(o)
  \/ Reservar(o)
  \/ Enviar(o)
  \/ Falhar(o)

Next ==
  \/ \E o \in Operadores : Requisicao(o)
  \/ InserirPagamentos
  \/ ExpirarChave
  \/ Reiniciar

Spec == Init /\ [][Next]_vars

-----------------------------------------------------------------------------
(* However requests interleave, an order never takes on a status without   *)
(* having been, at some time, in a status from which pedidoStatusValido    *)
(* allows it: none is delivered that never left, none leaves unprepared.   *)
NaoPulaEtapa ==
  \A s \in vistos \ {Pendente, Confirmado} : \E a \in vistos : s \in Transicoes(a)

(* Payments are marked as paid only for an order that has been delivered.  *)
PagoExigeEntrega == pagamentos = "pago" => Entregue \in vistos

(* Two operators who send the same order out cause one notice: at most one *)
(* is sent while the key of SETNX stands.                                  *)
UmAviso == avisos <= 1

(* When no request is under way, a delivered order owes nothing, unless a  *)
(* call failed or its payments were inserted after the delivery.           *)
EntregaQuita ==
  /\ status = Entregue
  /\ \A o \in Operadores : passo[o] = "livre"
  => pagamentos # "pendente" \/ falhou \/ tarde

(* The status only moves along pedidoStatusValido: no delivered or         *)
(* cancelled order moves again.                                            *)
SemRetrocesso == [][pedidoStatusValido(status, status')]_vars

-----------------------------------------------------------------------------
(* The life of an order that a single operator at a time implements.       *)
numero ==
  CASE status = Pendente   -> 1
    [] status = Confirmado -> 2
    [] status = EmPreparo  -> 3
    [] status = Saiu       -> 4
    [] status = Entregue   -> 5
    [] OTHER               -> 0

Ciclo == INSTANCE CicloDoPedido WITH passo <- numero, quitado <- (pagamentos = "pago")

(* With one request at a time an order advances one step at a time, is     *)
(* cancelled only before delivery, and is paid for only after it, whatever *)
(* call fails.                                                             *)
ImplementaCiclo == Ciclo!Spec
=============================================================================
