------------------------- MODULE AtendimentoProofs -------------------------
(***************************************************************************)
(* Proofs about Atendimento, for any messages, goroutines, bounds and      *)
(* failures.  Each invariant of the runs gets the strengthening that is    *)
(* inductive; none of them needs the fairness of the specification.        *)
(***************************************************************************)
EXTENDS Atendimento, TLAPS

LEMMA InitTipos == Init => TypeOK
<1> SUFFICES ASSUME Init PROVE TypeOK
  OBVIOUS
<1>1. /\ teor \in [Mensagens -> Teores]
      /\ entregas \in [Mensagens -> Nat]
      /\ efeitos \in [Mensagens -> Nat]
  BY DEF Init
<1>2. /\ passo \in [Chamadas -> Passos]
      /\ msg \in [Chamadas -> Mensagens \cup {Nenhuma}]
      /\ \A c \in Chamadas : passo[c] # "livre" => msg[c] # Nenhuma
  BY DEF Init, Passos
<1>3. humano \in 0..DuracaoHumano /\ alerta \in 0..DuracaoAlerta
  BY TemposAssumption DEF Init
<1>4. cliente \in BOOLEAN /\ alertaNovo \in BOOLEAN
  BY Zenon DEF Init
<1>5. /\ vistas \in SUBSET Mensagens /\ tratadas \in SUBSET Mensagens
      /\ perdidas \in SUBSET Mensagens /\ corridas \in SUBSET Mensagens
      /\ semChave \in SUBSET Mensagens /\ cobertas \in SUBSET Chamadas
  BY DEF Init
<1> QED BY <1>1, <1>2, <1>3, <1>4, <1>5 DEF TypeOK

(* What a goroutine does next, and for which message.                      *)
TiposDasChamadas ==
  /\ passo \in [Chamadas -> Passos]
  /\ msg \in [Chamadas -> Mensagens \cup {Nenhuma}]
  /\ \A c \in Chamadas : passo[c] # "livre" => msg[c] # Nenhuma

LEMMA SeguirTipos ==
  ASSUME TiposDasChamadas, NEW c \in Chamadas, passo[c] # "livre",
         NEW p \in Passos, Seguir(c, p)
  PROVE TiposDasChamadas'
BY DEF TiposDasChamadas, Seguir

LEMMA TerminarTipos ==
  ASSUME TiposDasChamadas, NEW c \in Chamadas, Terminar(c)
  PROVE TiposDasChamadas'
<1>1. \A d \in Chamadas :
        /\ passo'[d] = IF d = c THEN "livre" ELSE passo[d]
        /\ msg'[d] = IF d = c THEN Nenhuma ELSE msg[d]
  BY DEF TiposDasChamadas, Terminar
<1>2. passo' \in [Chamadas -> Passos] /\ msg' \in [Chamadas -> Mensagens \cup {Nenhuma}]
  BY DEF TiposDasChamadas, Terminar, Passos
<1> QED BY <1>1, <1>2 DEF TiposDasChamadas

LEMMA MensagemDaChamada ==
  ASSUME TypeOK, NEW c \in Chamadas, passo[c] # "livre"
  PROVE msg[c] \in Mensagens
BY DEF TypeOK

LEMMA NextTipos ==
  ASSUME TypeOK, Next PROVE TypeOK'
<1>0. TiposDasChamadas
  BY DEF TypeOK, TiposDasChamadas
<1>1. ASSUME NEW c \in Chamadas, NEW m \in Mensagens, Receber(c, m) PROVE TypeOK'
  <2>1. TiposDasChamadas'
    BY <1>0, <1>1, TemposAssumption DEF Receber, TiposDasChamadas, Passos
  <2>2. entregas' \in [Mensagens -> Nat] /\ cobertas' \in SUBSET Chamadas
    BY <1>1 DEF TypeOK, Receber
  <2> QED BY <1>1, <2>1, <2>2 DEF TypeOK, TiposDasChamadas, Receber
<1>2. ASSUME NEW c \in Chamadas, Deduplicar(c) PROVE TypeOK'
  <2>1. passo[c] # "livre" /\ msg[c] \in Mensagens
    BY <1>2, MensagemDaChamada DEF Deduplicar
  <2>2. TiposDasChamadas'
    BY <1>0, <1>2, <2>1, SeguirTipos, TerminarTipos DEF Deduplicar, Passos
  <2> QED BY <1>2, <2>1, <2>2 DEF TypeOK, TiposDasChamadas, Deduplicar
<1>3. ASSUME NEW c \in Chamadas, BuscarCliente(c) PROVE TypeOK'
  <2>1. passo[c] # "livre" /\ msg[c] \in Mensagens
    BY <1>3, MensagemDaChamada DEF BuscarCliente
  <2>2. TiposDasChamadas'
    BY <1>0, <1>3, <2>1, SeguirTipos, TerminarTipos DEF BuscarCliente, Perder, Passos
  <2> QED BY <1>3, <2>1, <2>2 DEF TypeOK, TiposDasChamadas, BuscarCliente, Perder
<1>4. ASSUME NEW c \in Chamadas, CriarCliente(c) PROVE TypeOK'
  <2>1. passo[c] # "livre" /\ msg[c] \in Mensagens
    BY <1>4, MensagemDaChamada DEF CriarCliente
  <2>2. TiposDasChamadas'
    BY <1>0, <1>4, <2>1, SeguirTipos, TerminarTipos DEF CriarCliente, Perder, Passos
  <2> QED BY <1>4, <2>1, <2>2 DEF TypeOK, TiposDasChamadas, CriarCliente, Perder
<1>5. ASSUME NEW c \in Chamadas, Verificar(c) PROVE TypeOK'
  <2>1. passo[c] # "livre" /\ msg[c] \in Mensagens
    BY <1>5, MensagemDaChamada DEF Verificar
  <2>2. TiposDasChamadas'
    BY <1>0, <1>5, <2>1, SeguirTipos DEF Verificar, Passos
  <2> QED BY <1>5, <2>1, <2>2 DEF TypeOK, TiposDasChamadas, Verificar
<1>6. ASSUME NEW c \in Chamadas, LerInicio(c) PROVE TypeOK'
  <2>1. passo[c] # "livre"
    BY <1>6 DEF LerInicio
  <2>2. TiposDasChamadas'
    BY <1>0, <1>6, <2>1, SeguirTipos, TerminarTipos DEF LerInicio, Passos
  <2> QED BY <1>6, <2>2 DEF TypeOK, TiposDasChamadas, LerInicio
<1>7. ASSUME NEW c \in Chamadas, ReservarAlerta(c) PROVE TypeOK'
  <2>1. TiposDasChamadas'
    BY <1>0, <1>7, TerminarTipos DEF ReservarAlerta
  <2>2. alerta' \in 0..DuracaoAlerta
    BY <1>7, TemposAssumption DEF TypeOK, ReservarAlerta
  <2>3. alertaNovo' = (humano > 0) \/ alertaNovo' = alertaNovo
    BY Zenon, <1>7 DEF ReservarAlerta
  <2>4. (humano > 0) \in BOOLEAN
    OBVIOUS
  <2>5. alertaNovo' \in BOOLEAN
    BY Zenon, <2>3, <2>4 DEF TypeOK
  <2> QED BY <1>7, <2>1, <2>2, <2>5 DEF TypeOK, TiposDasChamadas, ReservarAlerta
<1>8. ASSUME NEW c \in Chamadas, Bot(c) PROVE TypeOK'
  <2>1. msg[c] \in Mensagens
    BY <1>8, MensagemDaChamada DEF Bot
  <2>2. TiposDasChamadas'
    BY <1>0, <1>8, TerminarTipos DEF Bot
  <2>3. humano' \in {humano, DuracaoHumano, 0} /\ cobertas' \in {cobertas, {}}
    BY <1>8 DEF Bot
  <2>5. humano' \in 0..DuracaoHumano /\ cobertas' \in SUBSET Chamadas
    BY <2>3, TemposAssumption DEF TypeOK
  <2>6. alertaNovo' = FALSE \/ alertaNovo' = alertaNovo
    BY Zenon, <1>8 DEF Bot
  <2>7. alertaNovo' \in BOOLEAN
    BY Zenon, <2>6 DEF TypeOK
  <2>4. efeitos' \in [Mensagens -> Nat] /\ tratadas' \in SUBSET Mensagens
    BY <1>8, <2>1 DEF TypeOK, Bot
  <2> QED BY <1>8, <2>2, <2>4, <2>5, <2>7 DEF TypeOK, TiposDasChamadas, Bot
<1>9. ASSUME NEW m \in Mensagens, EsquecerMensagem(m) PROVE TypeOK'
  BY <1>9 DEF TypeOK, EsquecerMensagem
<1>10. CASE Passar
  <2>1. humano' \in 0..DuracaoHumano /\ alerta' \in 0..DuracaoAlerta
    BY <1>10, TemposAssumption DEF TypeOK, Passar
  <2> QED BY <1>10, <2>1 DEF TypeOK, Passar
<1>11. CASE Reiniciar
  <2>1. {msg[c] : c \in {d \in Chamadas : passo[d] # "livre"}} \subseteq Mensagens
    BY MensagemDaChamada
  <2> QED BY <1>11, <2>1 DEF TypeOK, Reiniciar, Passos
<1> QED
  BY <1>1, <1>2, <1>3, <1>4, <1>5, <1>6, <1>7, <1>8, <1>9, <1>10, <1>11 DEF Next, Avancar

LEMMA ParadoTipos == ASSUME TypeOK, UNCHANGED vars PROVE TypeOK'
BY DEF TypeOK, vars

(* The keys, the row of the client and every goroutine are well typed.     *)
THEOREM AtendimentoTipado == Spec => []TypeOK
BY InitTipos, NextTipos, ParadoTipos, PTL DEF Spec

-----------------------------------------------------------------------------
(* Between the key and the bot.                                            *)
Adiante == {"buscar", "criar", "verificar", "bot"}

(* The key of a message stands as long as a goroutine carries it or it has *)
(* had its effect, and no two goroutines carry it.                         *)
UmaVez ==
  \A m \in Mensagens \ semChave :
    /\ efeitos[m] <= 1
    /\ efeitos[m] > 0 => m \in vistas
    /\ \A c \in Chamadas :
         msg[c] = m /\ passo[c] \in Adiante => m \in vistas /\ efeitos[m] = 0
    /\ \A c, d \in Chamadas :
         msg[c] = m /\ passo[c] \in Adiante /\ msg[d] = m /\ passo[d] \in Adiante => c = d

LEMMA InitUmaVez == Init => UmaVez
<1> SUFFICES ASSUME Init PROVE UmaVez
  OBVIOUS
<1>1. \A m \in Mensagens : efeitos[m] = 0
  BY DEF Init
<1>2. \A c \in Chamadas : passo[c] \notin Adiante
  BY DEF Init, Adiante
<1>3. 0 <= 1 /\ ~(0 > 0)
  OBVIOUS
<1>4. \A m \in Mensagens : efeitos[m] <= 1 /\ ~(efeitos[m] > 0)
  BY Zenon, <1>1, <1>3
<1> QED BY Zenon, <1>2, <1>4 DEF UmaVez

(* A step after which no goroutine carries a message it did not carry      *)
(* before, and which leaves the keys and the effects alone.                *)
LEMMA NadaNovo ==
  ASSUME UmaVez, UNCHANGED <<vistas, efeitos, semChave>>,
         \A d \in Chamadas : passo'[d] \in Adiante /\ msg'[d] \in Mensagens =>
           passo[d] \in Adiante /\ msg[d] = msg'[d]
  PROVE UmaVez'
BY DEF UmaVez

LEMMA SeguirCarrega ==
  ASSUME TypeOK, NEW c \in Chamadas, NEW p, Seguir(c, p),
         p \in Adiante => passo[c] \in Adiante
  PROVE \A d \in Chamadas : passo'[d] \in Adiante /\ msg'[d] \in Mensagens =>
          passo[d] \in Adiante /\ msg[d] = msg'[d]
BY DEF TypeOK, Seguir

LEMMA TerminarCarrega ==
  ASSUME TypeOK, NEW c \in Chamadas, Terminar(c)
  PROVE \A d \in Chamadas : passo'[d] \in Adiante /\ msg'[d] \in Mensagens =>
          d # c /\ passo[d] \in Adiante /\ msg[d] = msg'[d]
BY DEF TypeOK, Terminar, Adiante

LEMMA DeduplicarUmaVez ==
  ASSUME TypeOK, UmaVez, NEW c \in Chamadas, Deduplicar(c) PROVE UmaVez'
<1>1. passo[c] = "deduplicar" /\ passo[c] \notin Adiante /\ efeitos' = efeitos
  BY DEF Deduplicar, Adiante
<1>2. CASE Terminar(c) /\ UNCHANGED <<vistas, semChave>>
  BY <1>1, <1>2, TerminarCarrega, NadaNovo
<1>3. CASE /\ Seguir(c, "buscar")
           /\ msg[c] \notin vistas
           /\ vistas' = vistas \cup {msg[c]}
           /\ UNCHANGED semChave
  <2>1. /\ msg' = msg
        /\ \A d \in Chamadas : d # c => passo'[d] = passo[d]
    BY <1>3 DEF TypeOK, Seguir
  <2>2. \A m \in Mensagens \ semChave : m = msg[c] =>
          efeitos[m] = 0 /\ \A d \in Chamadas : ~(msg[d] = m /\ passo[d] \in Adiante)
    BY <1>3 DEF TypeOK, UmaVez
  <2> QED BY <1>1, <1>3, <2>1, <2>2 DEF UmaVez
<1>4. CASE /\ Seguir(c, "buscar")
           /\ vistas \subseteq vistas'
           /\ semChave' = semChave \cup {msg[c]}
  <2>1. /\ msg' = msg
        /\ \A d \in Chamadas : d # c => passo'[d] = passo[d]
    BY <1>4 DEF TypeOK, Seguir
  <2> QED BY <1>1, <1>4, <2>1 DEF UmaVez
<1> QED BY <1>2, <1>3, <1>4 DEF Deduplicar

LEMMA NextUmaVez ==
  ASSUME TypeOK, UmaVez, Next PROVE UmaVez'
<1>1. ASSUME NEW c \in Chamadas, NEW m \in Mensagens, Receber(c, m) PROVE UmaVez'
  <2>1. \A d \in Chamadas : passo'[d] \in Adiante =>
          passo[d] \in Adiante /\ msg[d] = msg'[d]
    BY <1>1 DEF TypeOK, Receber, Adiante
  <2> QED BY <1>1, <2>1, NadaNovo DEF Receber
<1>2. ASSUME NEW c \in Chamadas, Deduplicar(c) PROVE UmaVez'
  BY <1>2, DeduplicarUmaVez
<1>3. ASSUME NEW c \in Chamadas, BuscarCliente(c) PROVE UmaVez'
  BY <1>3, SeguirCarrega, TerminarCarrega, NadaNovo DEF BuscarCliente, Perder, Adiante
<1>4. ASSUME NEW c \in Chamadas, CriarCliente(c) PROVE UmaVez'
  BY <1>4, SeguirCarrega, TerminarCarrega, NadaNovo DEF CriarCliente, Perder, Adiante
<1>5. ASSUME NEW c \in Chamadas, Verificar(c) PROVE UmaVez'
  BY <1>5, SeguirCarrega, NadaNovo DEF Verificar, Adiante
<1>6. ASSUME NEW c \in Chamadas, LerInicio(c) PROVE UmaVez'
  BY <1>6, SeguirCarrega, TerminarCarrega, NadaNovo DEF LerInicio, Adiante
<1>7. ASSUME NEW c \in Chamadas, ReservarAlerta(c) PROVE UmaVez'
  BY <1>7, TerminarCarrega, NadaNovo DEF ReservarAlerta
<1>8. ASSUME NEW c \in Chamadas, Bot(c) PROVE UmaVez'
  <2>1. /\ msg[c] \in Mensagens /\ passo[c] \in Adiante
        /\ UNCHANGED <<vistas, semChave>>
        /\ efeitos' = [efeitos EXCEPT ![msg[c]] = @ + 1]
        /\ Terminar(c)
    BY <1>8, MensagemDaChamada DEF Bot, Adiante
  <2>2. \A d \in Chamadas : passo'[d] \in Adiante /\ msg'[d] \in Mensagens =>
          d # c /\ passo[d] \in Adiante /\ msg[d] = msg'[d]
    BY <2>1, TerminarCarrega
  <2>3. \A m \in Mensagens : efeitos'[m] = IF m = msg[c] THEN efeitos[m] + 1 ELSE efeitos[m]
    BY <2>1 DEF TypeOK
  <2>4. msg[c] \notin semChave => msg[c] \in vistas /\ efeitos[msg[c]] = 0
    BY <2>1 DEF UmaVez
  <2> QED BY <2>1, <2>2, <2>3, <2>4 DEF UmaVez
<1>9. ASSUME NEW m \in Mensagens, EsquecerMensagem(m) PROVE UmaVez'
  <2>1. \A n \in Mensagens : efeitos'[n] = IF n = m THEN 0 ELSE efeitos[n]
    BY <1>9 DEF TypeOK, EsquecerMensagem
  <2>2. /\ UNCHANGED <<passo, msg, semChave>>
        /\ vistas' = vistas \ {m}
        /\ \A c \in Chamadas : msg[c] = m => passo[c] \notin Adiante
    BY <1>9 DEF EsquecerMensagem, Adiante
  <2> QED BY <2>1, <2>2 DEF UmaVez
<1>10. CASE Passar
  BY <1>10 DEF Passar, UmaVez
<1>11. CASE Reiniciar
  <2>1. \A d \in Chamadas : passo'[d] \notin Adiante
    BY <1>11 DEF Reiniciar, Adiante
  <2> QED BY <1>11, <2>1, NadaNovo DEF Reiniciar
<1> QED
  BY <1>1, <1>2, <1>3, <1>4, <1>5, <1>6, <1>7, <1>8, <1>9, <1>10, <1>11 DEF Next, Avancar

LEMMA ParadoUmaVez == ASSUME UmaVez, UNCHANGED vars PROVE UmaVez'
BY DEF UmaVez, vars

LEMMA UmaVezBasta == UmaVez => EfeitoUnico
BY DEF UmaVez, EfeitoUnico

(* isDuplicate: while its key stands, a message whose SETNX succeeded has  *)
(* its effect once, however many deliveries of it are under way.           *)
THEOREM EfeitoSempreUnico == Spec => []EfeitoUnico
<1>1. Spec => []TypeOK
  BY AtendimentoTipado
<1>2. TypeOK /\ UmaVez /\ [Next]_vars => UmaVez'
  BY NextUmaVez, ParadoUmaVez
<1> QED BY <1>1, <1>2, InitUmaVez, UmaVezBasta, PTL DEF Spec

-----------------------------------------------------------------------------
(* A call counts as covered only while the hand-off lasts, so the GET it   *)
(* does finds the key.                                                     *)
Coberta ==
  /\ cobertas # {} => humano > 0
  /\ BotCala

LEMMA InitCoberta == Init => Coberta
BY DEF Init, Coberta, BotCala

(* A step that covers no call and sends none to the bot.                   *)
LEMMA NinguemAoBot ==
  ASSUME Coberta, cobertas' \subseteq cobertas, cobertas' # {} => humano' > 0,
         UNCHANGED teor,
         \A d \in cobertas' : passo'[d] = "bot" => passo[d] = "bot" /\ msg'[d] = msg[d]
  PROVE Coberta'
BY DEF Coberta, BotCala

LEMMA NextCoberta ==
  ASSUME TypeOK, Coberta, Next PROVE Coberta'
<1>0. cobertas \subseteq Chamadas
  BY DEF TypeOK
<1>1. ASSUME NEW c \in Chamadas, NEW m \in Mensagens, Receber(c, m) PROVE Coberta'
  <2>1. \A d \in Chamadas : passo'[d] = "bot" => d # c /\ passo[d] = "bot" /\ msg'[d] = msg[d]
    BY <1>1 DEF TypeOK, Receber
  <2>2. /\ UNCHANGED <<teor, humano>>
        /\ cobertas' = IF humano > 0 THEN cobertas \cup {c} ELSE cobertas \ {c}
    BY <1>1 DEF Receber
  <2> QED BY <1>0, <2>1, <2>2 DEF Coberta, BotCala
<1>2. ASSUME NEW c \in Chamadas, NEW p \in Passos \ {"bot"},
             Seguir(c, p) \/ Terminar(c), UNCHANGED <<teor, humano, cobertas>>
      PROVE Coberta'
  <2>1. \A d \in Chamadas : passo'[d] = "bot" => passo[d] = "bot" /\ msg'[d] = msg[d]
    BY <1>2 DEF TypeOK, Seguir, Terminar
  <2> QED BY <1>0, <1>2, <2>1, NinguemAoBot DEF Coberta
<1>3. ASSUME NEW c \in Chamadas, Deduplicar(c) PROVE Coberta'
  BY <1>2, <1>3 DEF Deduplicar, Passos
<1>4. ASSUME NEW c \in Chamadas, BuscarCliente(c) PROVE Coberta'
  BY <1>2, <1>4 DEF BuscarCliente, Perder, Passos
<1>5. ASSUME NEW c \in Chamadas, CriarCliente(c) PROVE Coberta'
  BY <1>2, <1>5 DEF CriarCliente, Perder, Passos
<1>6. ASSUME NEW c \in Chamadas, Verificar(c) PROVE Coberta'
  <2>1. CASE Seguir(c, "esperar") /\ UNCHANGED cobertas
    BY <1>2, <1>6, <2>1 DEF Verificar, Passos
  <2>2. CASE /\ humano = 0 \/ teor[msg[c]] = "voltar"
             /\ Seguir(c, "bot")
             /\ UNCHANGED cobertas
    <3>1. /\ UNCHANGED <<teor, humano, msg>>
          /\ \A d \in Chamadas : d # c => passo'[d] = passo[d]
      BY <1>6, <2>2 DEF TypeOK, Verificar, Seguir
    <3>2. c \in cobertas => teor[msg[c]] = "voltar"
      BY <2>2 DEF Coberta
    <3> QED BY <1>0, <2>2, <3>1, <3>2 DEF Coberta, BotCala
  <2>3. CASE Seguir(c, "bot") /\ cobertas' = cobertas \ {c}
    <3>1. /\ UNCHANGED <<teor, humano, msg>>
          /\ \A d \in Chamadas : d # c => passo'[d] = passo[d]
      BY <1>6, <2>3 DEF TypeOK, Verificar, Seguir
    <3> QED BY <1>0, <2>3, <3>1, NinguemAoBot DEF Coberta
  <2> QED BY <1>6, <2>1, <2>2, <2>3 DEF Verificar
<1>7. ASSUME NEW c \in Chamadas, LerInicio(c) PROVE Coberta'
  BY <1>2, <1>7 DEF LerInicio, Passos
<1>8. ASSUME NEW c \in Chamadas, ReservarAlerta(c) PROVE Coberta'
  BY <1>2, <1>8 DEF ReservarAlerta, Passos
<1>9. ASSUME NEW c \in Chamadas, Bot(c) PROVE Coberta'
  <2>1. \A d \in Chamadas : passo'[d] = "bot" => passo[d] = "bot" /\ msg'[d] = msg[d]
    BY <1>9 DEF TypeOK, Bot, Terminar
  <2>2. /\ UNCHANGED teor
        /\ \/ UNCHANGED <<humano, cobertas>>
           \/ humano' = DuracaoHumano /\ UNCHANGED cobertas
           \/ cobertas' = {}
    BY Zenon, <1>9 DEF Bot
  <2> QED BY <1>0, <2>1, <2>2, TemposAssumption, NinguemAoBot DEF Coberta
<1>10. ASSUME NEW m \in Mensagens, EsquecerMensagem(m) PROVE Coberta'
  BY <1>10, NinguemAoBot DEF EsquecerMensagem, Coberta
<1>11. CASE Passar
  <2>1. /\ UNCHANGED <<teor, passo, msg>>
        /\ humano' \in Nat
        /\ cobertas' = IF humano' = 0 THEN {} ELSE cobertas
    BY <1>11, TemposAssumption DEF Passar, TypeOK
  <2> QED BY <2>1, NinguemAoBot
<1>12. CASE Reiniciar
  BY <1>0, <1>12, NinguemAoBot DEF Reiniciar, Coberta
<1> QED
  BY <1>1, <1>3, <1>4, <1>5, <1>6, <1>7, <1>8, <1>9, <1>10, <1>11, <1>12 DEF Next, Avancar

LEMMA ParadoCoberta == ASSUME Coberta, UNCHANGED vars PROVE Coberta'
BY DEF Coberta, BotCala, vars

(* Process keeps what a client under hand-off says from the bot, whatever  *)
(* other goroutines do to the keys meanwhile.                              *)
THEOREM BotSempreCala == Spec => []BotCala
<1>1. Spec => []TypeOK
  BY AtendimentoTipado
<1>2. TypeOK /\ Coberta /\ [Next]_vars => Coberta'
  BY NextCoberta, ParadoCoberta
<1>3. Coberta => BotCala
  BY DEF Coberta
<1> QED BY <1>1, <1>2, <1>3, InitCoberta, PTL DEF Spec

-----------------------------------------------------------------------------
(* An alert key from before the hand-off runs out no later than the client *)
(* has waited DuracaoAlerta.                                               *)
AlertaAntigoCurto ==
  humano > 0 /\ alerta > 0 /\ ~alertaNovo =>
    alerta + (DuracaoHumano - humano) <= DuracaoAlerta

LEMMA InitAlerta == Init => AlertaAntigoCurto
<1> SUFFICES ASSUME Init PROVE AlertaAntigoCurto
  OBVIOUS
<1>1. ~(alerta > 0)
  BY DEF Init
<1> QED BY Zenon, <1>1 DEF AlertaAntigoCurto

LEMMA NextAlerta ==
  ASSUME TypeOK, AlertaAntigoCurto, Next PROVE AlertaAntigoCurto'
<1>1. CASE UNCHANGED <<humano, alerta, alertaNovo>>
  BY <1>1 DEF AlertaAntigoCurto
<1>2. ASSUME NEW c \in Chamadas, ReservarAlerta(c) PROVE AlertaAntigoCurto'
  <2>1. humano' = humano /\ (alertaNovo' = (humano > 0) \/ UNCHANGED <<alerta, alertaNovo>>)
    BY Zenon, <1>2 DEF ReservarAlerta
  <2> QED BY <1>1, <2>1 DEF AlertaAntigoCurto
<1>3. ASSUME NEW c \in Chamadas, Bot(c) PROVE AlertaAntigoCurto'
  <2>1. alerta' = alerta
    BY <1>3 DEF Bot
  <2>2. \/ UNCHANGED <<humano, alertaNovo>>
        \/ humano' = DuracaoHumano
        \/ humano' = 0
    BY Zenon, <1>3 DEF Bot
  <2>3. CASE UNCHANGED <<humano, alertaNovo>>
    BY <1>1, <2>1, <2>3
  <2>4. CASE humano' = DuracaoHumano
    <3>1. alerta' + (DuracaoHumano - humano') <= DuracaoAlerta
      BY <2>1, <2>4, TemposAssumption DEF TypeOK
    <3> QED BY Zenon, <3>1 DEF AlertaAntigoCurto
  <2>5. CASE humano' = 0
    <3>1. ~(humano' > 0)
      BY <2>5
    <3> QED BY Zenon, <3>1 DEF AlertaAntigoCurto
  <2> QED BY <2>2, <2>3, <2>4, <2>5
<1>4. CASE Passar
  <2>1. /\ alertaNovo' = alertaNovo
        /\ humano' = IF humano > 0 THEN humano - 1 ELSE 0
        /\ alerta' = IF alerta > 0 THEN alerta - 1 ELSE 0
    BY <1>4 DEF Passar
  <2>2. humano \in Nat /\ alerta \in Nat
    BY TemposAssumption DEF TypeOK
  <2>3. humano' > 0 /\ alerta' > 0 =>
          /\ humano > 0 /\ alerta > 0
          /\ alerta' + (DuracaoHumano - humano') = alerta + (DuracaoHumano - humano)
    BY <2>1, <2>2, TemposAssumption
  <2> QED BY Zenon, <2>1, <2>3 DEF AlertaAntigoCurto
<1>5. ASSUME NEW c \in Chamadas,
             \/ \E m \in Mensagens : Receber(c, m)
             \/ Deduplicar(c) \/ BuscarCliente(c) \/ CriarCliente(c)
             \/ Verificar(c) \/ LerInicio(c)
      PROVE AlertaAntigoCurto'
  BY Zenon, <1>1, <1>5 DEF Receber, Deduplicar, BuscarCliente, CriarCliente, Verificar, LerInicio
<1>6. ASSUME NEW m \in Mensagens, EsquecerMensagem(m) PROVE AlertaAntigoCurto'
  BY <1>1, <1>6 DEF EsquecerMensagem
<1>7. CASE Reiniciar
  BY <1>1, <1>7 DEF Reiniciar
<1> QED BY <1>2, <1>3, <1>4, <1>5, <1>6, <1>7 DEF Next, Avancar

LEMMA ParadoAlerta == ASSUME AlertaAntigoCurto, UNCHANGED vars PROVE AlertaAntigoCurto'
BY DEF AlertaAntigoCurto, vars

LEMMA AlertaBasta == TypeOK /\ AlertaAntigoCurto => AlertaDesteAtendimento
BY TemposAssumption, AlertaAssumption DEF TypeOK, AlertaAntigoCurto, AlertaDesteAtendimento

(* shouldPromptHandoffTimeout: the key of an old alert never holds back    *)
(* one that is due, because it lives no longer than the client must wait.  *)
THEOREM AlertaSempreDesteAtendimento == Spec => []AlertaDesteAtendimento
<1>1. Spec => []TypeOK
  BY AtendimentoTipado
<1>2. TypeOK /\ AlertaAntigoCurto /\ [Next]_vars => AlertaAntigoCurto'
  BY NextAlerta, ParadoAlerta
<1> QED BY <1>1, <1>2, InitAlerta, AlertaBasta, PTL DEF Spec
=============================================================================
