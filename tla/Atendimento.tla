---------------------------- MODULE Atendimento ----------------------------
(***************************************************************************)
(* The message processor: what becomes of the WhatsApp messages of one     *)
(* telephone, from the webhook call to the bot or the human attendant.     *)
(*                                                                         *)
(* The webhook answers at once and leaves each call to a goroutine of its  *)
(* own, so messages, and repeated deliveries of one message, are handled   *)
(* in parallel and in any order.  A goroutine takes one step per call to   *)
(* Redis or the database.  A call with several messages handles them one   *)
(* after the other, which is one of the orders of several calls.           *)
(*                                                                         *)
(* Time passes in ticks of ten minutes for the hand-off and its alert.     *)
(* The deduplication key, which lives five, expires on its own.  The texts *)
(* sent to the client change nothing here and are left out.                *)
(***************************************************************************)
EXTENDS Integers

CONSTANTS
  Mensagens,        \* message ids
  Nenhuma,          \* no message
  Chamadas,         \* goroutines that may run at the same time
  MaxEntregas,      \* bound: deliveries of one message
  DuracaoHumano,    \* 30 minutes, in ticks
  DuracaoAlerta,    \* 10 minutes
  Espera,           \* 10 minutes without an answer before an alert
  Falhas            \* which calls may fail

TiposDeFalha ==
  {"deduplicar",    \* the SETNX of the message id
   "cliente",       \* finding or inserting the client
   "humano",        \* understanding the text, or a call on the hand-off key
   "alerta",        \* the SETNX of the alert
   "reiniciar"}     \* the server stops and starts

ASSUME TemposAssumption ==
  /\ Nenhuma \notin Mensagens
  /\ MaxEntregas \in Nat
  /\ DuracaoHumano \in Nat \ {0}
  /\ DuracaoAlerta \in Nat
  /\ Espera \in Nat
  /\ Falhas \subseteq TiposDeFalha

(* The alert key is gone by the time the next alert may be due.            *)
ASSUME AlertaAssumption == DuracaoAlerta <= Espera

(* What the bot makes of a message: anything for the cart, a wish for an   *)
(* attendant, or the wish to go back to the bot.                           *)
Teores == {"conversa", "humano", "voltar"}

Passos ==
  {"livre", "deduplicar", "buscar", "criar", "verificar", "esperar", "reservar", "bot"}

VARIABLES
  teor,         \* teor[m]: what message m says
  entregas,     \* entregas[m]: deliveries so far
  vistas,       \* messages whose wamid:dedupe key is in Redis
  cliente,      \* the row of the client exists
  humano,       \* ticks left of atendimento:humano, 0 when absent
  alerta,       \* ticks left of atendimento:humano:alerta
  passo,        \* passo[c]: what goroutine c does next
  msg,          \* msg[c]: the message it handles
  efeitos,      \* history: times the bot took m since its key was last absent
  tratadas,     \* history: messages the bot took or the attendant got
  perdidas,     \* history: messages a failure or a restart stopped
  corridas,     \* history: messages that lost the race to insert the client
  semChave,     \* history: messages let through by a failed SETNX
  cobertas,     \* history: calls under hand-off ever since they were received
  alertaNovo    \* history: the alert key was set during this hand-off

vars == <<teor, entregas, vistas, cliente, humano, alerta, passo, msg, efeitos,
          tratadas, perdidas, corridas, semChave, cobertas, alertaNovo>>

TypeOK ==
  /\ teor \in [Mensagens -> Teores]
  /\ entregas \in [Mensagens -> Nat]
  /\ vistas \in SUBSET Mensagens
  /\ cliente \in BOOLEAN
  /\ humano \in 0..DuracaoHumano
  /\ alerta \in 0..DuracaoAlerta
  /\ passo \in [Chamadas -> Passos]
  /\ msg \in [Chamadas -> Mensagens \cup {Nenhuma}]
  /\ \A c \in Chamadas : passo[c] # "livre" => msg[c] # Nenhuma
  /\ efeitos \in [Mensagens -> Nat]
  /\ tratadas \in SUBSET Mensagens
  /\ perdidas \in SUBSET Mensagens
  /\ corridas \in SUBSET Mensagens
  /\ semChave \in SUBSET Mensagens
  /\ cobertas \in SUBSET Chamadas
  /\ alertaNovo \in BOOLEAN

Init ==
  /\ teor \in [Mensagens -> Teores]
  /\ entregas = [m \in Mensagens |-> 0]
  /\ vistas = {}
  /\ cliente \in BOOLEAN
  /\ humano = 0
  /\ alerta = 0
  /\ passo = [c \in Chamadas |-> "livre"]
  /\ msg = [c \in Chamadas |-> Nenhuma]
  /\ efeitos = [m \in Mensagens |-> 0]
  /\ tratadas = {} /\ perdidas = {} /\ corridas = {} /\ semChave = {}
  /\ cobertas = {}
  /\ alertaNovo = FALSE

-----------------------------------------------------------------------------
Seguir(c, p) == passo' = [passo EXCEPT ![c] = p] /\ UNCHANGED msg

Terminar(c) ==
  /\ passo' = [passo EXCEPT ![c] = "livre"]
  /\ msg' = [msg EXCEPT ![c] = Nenhuma]

Perder(c) ==
  /\ Terminar(c)
  /\ perdidas' = perdidas \cup {msg[c]}

-----------------------------------------------------------------------------
(* HandleWebhookFiber: the call starts a goroutine and is answered.        *)
Receber(c, m) ==
  /\ passo[c] = "livre"
  /\ entregas[m] < MaxEntregas
  /\ entregas' = [entregas EXCEPT ![m] = @ + 1]
  /\ passo' = [passo EXCEPT ![c] = "deduplicar"]
  /\ msg' = [msg EXCEPT ![c] = m]
  /\ cobertas' = IF humano > 0 THEN cobertas \cup {c} ELSE cobertas \ {c}
  /\ UNCHANGED <<teor, vistas, cliente, humano, alerta, efeitos, tratadas,
                 perdidas, corridas, semChave, alertaNovo>>

(* Mutant: the key is read, and never set.                                 *)
SoLerChave(c) ==
  /\ passo[c] = "deduplicar"
  /\ \/ msg[c] \notin vistas /\ Seguir(c, "buscar")
     \/ msg[c] \in vistas /\ Terminar(c)
  /\ UNCHANGED <<teor, entregas, vistas, semChave, cliente, humano, alerta,
                 efeitos, tratadas, perdidas, corridas, cobertas, alertaNovo>>

(* Mutant: a message whose SETNX fails is taken for a repeated one.        *)
FecharNaFalha(c) ==
  /\ passo[c] = "deduplicar"
  /\ \/ /\ msg[c] \notin vistas
        /\ vistas' = vistas \cup {msg[c]}
        /\ Seguir(c, "buscar")
     \/ /\ msg[c] \in vistas \/ "deduplicar" \in Falhas
        /\ Terminar(c)
        /\ UNCHANGED vistas
  /\ UNCHANGED <<teor, entregas, semChave, cliente, humano, alerta, efeitos, tratadas,
                 perdidas, corridas, cobertas, alertaNovo>>

(* isDuplicate.  A failed SETNX counts as a new message.                   *)
Deduplicar(c) ==
  /\ passo[c] = "deduplicar"
  /\ \/ /\ msg[c] \notin vistas
        /\ vistas' = vistas \cup {msg[c]}
        /\ Seguir(c, "buscar")
        /\ UNCHANGED semChave
     \/ /\ msg[c] \in vistas
        /\ Terminar(c)
        /\ UNCHANGED <<vistas, semChave>>
     \/ /\ "deduplicar" \in Falhas
        /\ vistas' \in {vistas, vistas \cup {msg[c]}}
        /\ semChave' = semChave \cup {msg[c]}
        /\ Seguir(c, "buscar")
  /\ UNCHANGED <<teor, entregas, cliente, humano, alerta, efeitos, tratadas,
                 perdidas, corridas, cobertas, alertaNovo>>

(* getOrCreateCliente: FindByTelefone.  An inactive client is reactivated  *)
(* here, which is one more call that may fail.                             *)
BuscarCliente(c) ==
  /\ passo[c] = "buscar"
  /\ \/ Seguir(c, IF cliente THEN "verificar" ELSE "criar") /\ UNCHANGED perdidas
     \/ "cliente" \in Falhas /\ Perder(c)
  /\ UNCHANGED <<teor, entregas, vistas, cliente, humano, alerta, efeitos, tratadas,
                 corridas, semChave, cobertas, alertaNovo>>

(* getOrCreateCliente: the INSERT, turned down by the unique index that    *)
(* models.Cliente declares when another call was faster.                   *)
CriarCliente(c) ==
  /\ passo[c] = "criar"
  /\ \/ /\ ~cliente
        /\ cliente' = TRUE
        /\ Seguir(c, "verificar")
        /\ UNCHANGED <<corridas, perdidas>>
     \/ /\ cliente
        /\ Terminar(c)
        /\ corridas' = corridas \cup {msg[c]}
        /\ UNCHANGED <<cliente, perdidas>>
     \/ /\ "cliente" \in Falhas
        /\ Perder(c)
        /\ UNCHANGED <<cliente, corridas>>
  /\ UNCHANGED <<teor, entregas, vistas, humano, alerta, efeitos, tratadas, semChave,
                 cobertas, alertaNovo>>

(* Mutant: only what is not for the bot is kept from it.                   *)
VerificarSoPedidos(c) ==
  /\ passo[c] = "verificar"
  /\ IF humano > 0 /\ teor[msg[c]] = "conversa"
       THEN tratadas' = tratadas \cup {msg[c]} /\ Seguir(c, "esperar")
       ELSE Seguir(c, "bot") /\ UNCHANGED tratadas
  /\ UNCHANGED <<teor, entregas, vistas, cliente, humano, alerta, efeitos, perdidas,
                 corridas, semChave, cobertas, alertaNovo>>

(* isHumanHandoffActive, and forwardToHuman.  A failed GET counts as no    *)
(* hand-off.                                                               *)
Verificar(c) ==
  /\ passo[c] = "verificar"
  /\ \/ /\ humano > 0 /\ teor[msg[c]] # "voltar"
        /\ tratadas' = tratadas \cup {msg[c]}
        /\ Seguir(c, "esperar")
        /\ UNCHANGED cobertas
     \/ /\ humano = 0 \/ teor[msg[c]] = "voltar"
        /\ Seguir(c, "bot")
        /\ UNCHANGED <<tratadas, cobertas>>
     \/ /\ "humano" \in Falhas
        /\ Seguir(c, "bot")
        /\ cobertas' = cobertas \ {c}
        /\ UNCHANGED tratadas
  /\ UNCHANGED <<teor, entregas, vistas, cliente, humano, alerta, efeitos, perdidas,
                 corridas, semChave, alertaNovo>>

(* shouldPromptHandoffTimeout: the second GET, and the age it finds.       *)
LerInicio(c) ==
  /\ passo[c] = "esperar"
  /\ \/ humano > 0 /\ DuracaoHumano - humano >= Espera /\ Seguir(c, "reservar")
     \/ /\ humano = 0 \/ DuracaoHumano - humano < Espera \/ "humano" \in Falhas
        /\ Terminar(c)
  /\ UNCHANGED <<teor, entregas, vistas, cliente, humano, alerta, efeitos, tratadas,
                 perdidas, corridas, semChave, cobertas, alertaNovo>>

(* Mutant: the alert key lives as long as the hand-off.                    *)
ReservarTodoOAtendimento(c) ==
  /\ passo[c] = "reservar"
  /\ Terminar(c)
  /\ IF alerta = 0
       THEN alerta' = DuracaoHumano /\ alertaNovo' = (humano > 0)
       ELSE UNCHANGED <<alerta, alertaNovo>>
  /\ UNCHANGED <<teor, entregas, vistas, cliente, humano, efeitos, tratadas,
                 perdidas, corridas, semChave, cobertas>>

(* shouldPromptHandoffTimeout: the SETNX, after which the alert is sent.   *)
ReservarAlerta(c) ==
  /\ passo[c] = "reservar"
  /\ Terminar(c)
  /\ \/ /\ alerta = 0
        /\ alerta' = DuracaoAlerta
        /\ alertaNovo' = (humano > 0)
     \/ /\ alerta > 0 \/ "alerta" \in Falhas
        /\ UNCHANGED <<alerta, alertaNovo>>
  /\ UNCHANGED <<teor, entregas, vistas, cliente, humano, efeitos, tratadas,
                 perdidas, corridas, semChave, cobertas>>

(* ProcessarMensagem.  Its errors are answered too.                        *)
Bot(c) ==
  /\ passo[c] = "bot"
  /\ Terminar(c)
  /\ efeitos' = [efeitos EXCEPT ![msg[c]] = @ + 1]
  /\ tratadas' = tratadas \cup {msg[c]}
  /\ \/ /\ teor[msg[c]] = "conversa" \/ "humano" \in Falhas
        /\ UNCHANGED <<humano, cobertas, alertaNovo>>
     \/ /\ teor[msg[c]] = "humano"
        /\ humano' = DuracaoHumano
        /\ alertaNovo' = FALSE
        /\ UNCHANGED cobertas
     \/ /\ teor[msg[c]] = "voltar"
        /\ humano' = 0
        /\ cobertas' = {}
        /\ UNCHANGED alertaNovo
  /\ UNCHANGED <<teor, entregas, vistas, cliente, alerta, perdidas, corridas, semChave>>

(* The key of m expires.  Bound: the call that set it is over by then,     *)
(* which fails only if nearly every try of every LLM request times out.    *)
EsquecerMensagem(m) ==
  /\ m \in vistas
  /\ \A c \in Chamadas : msg[c] = m => passo[c] = "deduplicar"
  /\ vistas' = vistas \ {m}
  /\ efeitos' = [efeitos EXCEPT ![m] = 0]
  /\ UNCHANGED <<teor, entregas, cliente, humano, alerta, passo, msg, tratadas,
                 perdidas, corridas, semChave, cobertas, alertaNovo>>

(* Ten minutes pass.                                                       *)
Passar ==
  /\ humano > 0 \/ alerta > 0
  /\ humano' = IF humano > 0 THEN humano - 1 ELSE 0
  /\ alerta' = IF alerta > 0 THEN alerta - 1 ELSE 0
  /\ cobertas' = IF humano' = 0 THEN {} ELSE cobertas
  /\ UNCHANGED <<teor, entregas, vistas, cliente, passo, msg, efeitos, tratadas,
                 perdidas, corridas, semChave, alertaNovo>>

(* The server stops: the goroutines are gone, Redis and the database stay. *)
Reiniciar ==
  /\ "reiniciar" \in Falhas
  /\ perdidas' = perdidas \cup {msg[c] : c \in {d \in Chamadas : passo[d] # "livre"}}
  /\ passo' = [c \in Chamadas |-> "livre"]
  /\ msg' = [c \in Chamadas |-> Nenhuma]
  /\ UNCHANGED <<teor, entregas, vistas, cliente, humano, alerta, efeitos, tratadas,
                 corridas, semChave, cobertas, alertaNovo>>

Avancar(c) ==
  \/ Deduplicar(c)
  \/ BuscarCliente(c)
  \/ CriarCliente(c)
  \/ Verificar(c)
  \/ LerInicio(c)
  \/ ReservarAlerta(c)
  \/ Bot(c)

Next ==
  \/ \E c \in Chamadas :
       \/ \E m \in Mensagens : Receber(c, m)
       \/ Avancar(c)
  \/ \E m \in Mensagens : EsquecerMensagem(m)
  \/ Passar
  \/ Reiniciar

(* Go runs every goroutine, and every outside call has a timeout.          *)
Justica == \A c \in Chamadas : WF_vars(Avancar(c))

Spec == Init /\ [][Next]_vars /\ Justica

-----------------------------------------------------------------------------
(* While its key stands, a message has its effect once, however often and  *)
(* however fast it is delivered again, unless a SETNX of it failed.        *)
EfeitoUnico == \A m \in Mensagens \ semChave : efeitos[m] <= 1

(* The bot leaves a client to the attendant: it takes no message received  *)
(* under a hand-off that lasted until then, but the one that ends it,      *)
(* unless the GET that would tell failed.                                  *)
BotCala ==
  \A c \in cobertas : passo[c] = "bot" => teor[msg[c]] = "voltar"

(* An alert is never withheld because of an earlier hand-off: once the     *)
(* client has waited long enough, only an alert of this hand-off counts.   *)
AlertaDesteAtendimento ==
  humano > 0 /\ DuracaoHumano - humano >= Espera /\ alerta > 0 => alertaNovo

(* Every message delivered is in the end taken by the bot or passed on,    *)
(* unless a failure, a restart or the race of two first messages stopped   *)
(* it: the key alone never makes one disappear.                            *)
TodaTratada ==
  \A m \in Mensagens : entregas[m] > 0 ~> m \in tratadas \cup perdidas \cup corridas
=============================================================================
