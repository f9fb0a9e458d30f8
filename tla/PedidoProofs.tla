---------------------------- MODULE PedidoProofs ----------------------------
(***************************************************************************)
(* Proofs about Pedido, for any set of operators and any failures.  Each   *)
(* invariant of the runs gets the strengthening that is inductive; the     *)
(* refinement of the abstract life of an order holds under the assumption  *)
(* that requests do not overlap, and needs it.                             *)
(***************************************************************************)
EXTENDS Pedido, TLAPS

LEMMA InitTipos == Init => TypeOK
<1> SUFFICES ASSUME Init PROVE TypeOK
  OBVIOUS
<1>1. status \in Status /\ vistos \in SUBSET Status
  BY DEF Init, Status
<1>2. passo \in [Operadores -> Passos] /\ alvo \in [Operadores -> Status]
  BY DEF Init, Status, Passos
<1>3. pagamentos \in {"nenhum", "pendente", "pago"} /\ avisos \in Nat
  BY DEF Init
<1>4. /\ criando \in BOOLEAN /\ telefone \in BOOLEAN /\ chave \in BOOLEAN
      /\ falhou \in BOOLEAN /\ tarde \in BOOLEAN
  BY Zenon DEF Init
<1> QED BY <1>1, <1>2, <1>3, <1>4 DEF TypeOK

LEMMA DepoisTipo ==
  ASSUME NEW s, NEW t PROVE DepoisDeGravar(s, t) \in {"livre", "marcar", "reservar"}
BY DEF DepoisDeGravar

LEMMA NextTipos ==
  ASSUME TypeOK, Next PROVE TypeOK'
<1>1. ASSUME NEW o \in Operadores, NEW s \in Status, Ler(o, s) PROVE TypeOK'
  BY <1>1 DEF TypeOK, Ler, banco, historia, Passos
<1>2. ASSUME NEW o \in Operadores, Gravar(o) PROVE TypeOK'
  <2>1. passo' \in [Operadores -> Passos]
    BY <1>2, DepoisTipo DEF TypeOK, Gravar, Passos
  <2> QED BY <1>2, <2>1 DEF TypeOK, Gravar
<1>3. ASSUME NEW o \in Operadores, Marcar(o) PROVE TypeOK'
  BY <1>3 DEF TypeOK, Marcar, historia, Passos
<1>4. ASSUME NEW o \in Operadores, Reservar(o) PROVE TypeOK'
  BY <1>4 DEF TypeOK, Reservar, banco, historia, Passos
<1>5. ASSUME NEW o \in Operadores, Enviar(o) PROVE TypeOK'
  BY <1>5 DEF TypeOK, Enviar, banco, Passos
<1>6. ASSUME NEW o \in Operadores, Falhar(o) PROVE TypeOK'
  BY <1>6 DEF TypeOK, Falhar, banco, Passos
<1>7. CASE InserirPagamentos
  BY <1>7 DEF TypeOK, InserirPagamentos, pedido
<1>8. CASE ExpirarChave
  BY <1>8 DEF TypeOK, ExpirarChave, banco, pedido
<1>9. CASE Reiniciar
  BY <1>9 DEF TypeOK, Reiniciar, Passos
<1> QED BY <1>1, <1>2, <1>3, <1>4, <1>5, <1>6, <1>7, <1>8, <1>9 DEF Next, Requisicao

LEMMA ParadoTipos == ASSUME TypeOK, UNCHANGED vars PROVE TypeOK'
BY DEF TypeOK, vars

(* The state of an order and of its requests is well typed.                *)
THEOREM PedidoTipado == Spec => []TypeOK
BY InitTipos, NextTipos, ParadoTipos, PTL DEF Spec

-----------------------------------------------------------------------------
(* A request that was let through asks for a status the order has had, or  *)
(* one step from such a status: what it read may be stale, but was real.   *)
AlvoJustificado ==
  \A o \in Operadores :
    passo[o] = "gravar" =>
      alvo[o] \in vistos \/ \E a \in vistos : alvo[o] \in Transicoes(a)

Etapas ==
  /\ status \in vistos
  /\ AlvoJustificado
  /\ NaoPulaEtapa
  /\ \A o \in Operadores : passo[o] = "marcar" => Entregue \in vistos
  /\ PagoExigeEntrega

LEMMA InitEtapas == Init => Etapas
BY DEF Init, Etapas, AlvoJustificado, NaoPulaEtapa, PagoExigeEntrega

LEMMA PassaEtapas ==
  ASSUME TypeOK, Etapas, NEW o \in Operadores, NEW p,
         passo' = [passo EXCEPT ![o] = p], p \notin {"gravar", "marcar"},
         UNCHANGED <<status, vistos, alvo>>,
         pagamentos' = "pago" => Entregue \in vistos
  PROVE Etapas'
<1>1. \A q \in Operadores : passo'[q] \in {"gravar", "marcar"} => passo[q] = passo'[q]
  BY DEF TypeOK
<1> QED BY <1>1 DEF Etapas, AlvoJustificado, NaoPulaEtapa, PagoExigeEntrega

LEMMA NextEtapas ==
  ASSUME TypeOK, Etapas, Next PROVE Etapas'
<1>1. ASSUME NEW o \in Operadores, NEW s \in Status, Ler(o, s) PROVE Etapas'
  <2>1. s \in vistos \/ \E a \in vistos : s \in Transicoes(a)
    BY <1>1 DEF Ler, pedidoStatusValido, Etapas
  <2>2. \A q \in Operadores :
          /\ passo'[q] = IF q = o THEN "gravar" ELSE passo[q]
          /\ alvo'[q] = IF q = o THEN s ELSE alvo[q]
    BY <1>1 DEF TypeOK, Ler
  <2>3. UNCHANGED <<status, vistos, pagamentos>>
    BY <1>1 DEF Ler, banco, historia
  <2>4. AlvoJustificado'
    BY <2>1, <2>2, <2>3 DEF AlvoJustificado, Etapas
  <2> QED BY <2>2, <2>3, <2>4 DEF Etapas, NaoPulaEtapa, PagoExigeEntrega
<1>2. ASSUME NEW o \in Operadores, Gravar(o) PROVE Etapas'
  <2>1. alvo[o] \in vistos \/ \E a \in vistos : alvo[o] \in Transicoes(a)
    BY <1>2 DEF Gravar, Etapas, AlvoJustificado
  <2>2. /\ status' = alvo[o]
        /\ vistos' = vistos \cup {alvo[o]}
        /\ UNCHANGED <<alvo, pagamentos>>
    BY <1>2 DEF Gravar
  <2>3. \A q \in Operadores : q # o => passo'[q] = passo[q]
    BY <1>2 DEF TypeOK, Gravar
  <2>4. passo'[o] # "gravar" /\ (passo'[o] = "marcar" => alvo[o] = Entregue)
    BY <1>2 DEF TypeOK, Gravar, DepoisDeGravar
  <2>5. AlvoJustificado'
    BY <2>2, <2>3, <2>4 DEF AlvoJustificado, Etapas
  <2>6. NaoPulaEtapa'
    BY <2>1, <2>2 DEF NaoPulaEtapa, Etapas
  <2> QED BY <2>2, <2>3, <2>4, <2>5, <2>6 DEF Etapas, PagoExigeEntrega
<1>3. ASSUME NEW o \in Operadores, Marcar(o) PROVE Etapas'
  <2>1. Entregue \in vistos
    BY <1>3 DEF Marcar, Etapas
  <2>2. passo' = [passo EXCEPT ![o] = "livre"] /\ UNCHANGED <<status, vistos, alvo>>
    BY <1>3 DEF Marcar, historia
  <2> QED BY <2>1, <2>2, PassaEtapas
<1>4. ASSUME NEW o \in Operadores, Reservar(o) PROVE Etapas'
  <2>1. PICK p \in {"livre", "enviar"} : passo' = [passo EXCEPT ![o] = p]
    BY <1>4 DEF Reservar
  <2> QED BY <1>4, <2>1, PassaEtapas DEF Reservar, banco, historia, Etapas, PagoExigeEntrega
<1>5. ASSUME NEW o \in Operadores, Enviar(o) PROVE Etapas'
  BY <1>5, PassaEtapas DEF Enviar, banco, Etapas, PagoExigeEntrega
<1>6. ASSUME NEW o \in Operadores, Falhar(o) PROVE Etapas'
  BY <1>6, PassaEtapas DEF Falhar, banco, Etapas, PagoExigeEntrega
<1>7. CASE InserirPagamentos
  BY <1>7 DEF InserirPagamentos, pedido, Etapas, AlvoJustificado, NaoPulaEtapa, PagoExigeEntrega
<1>8. CASE ExpirarChave
  BY <1>8 DEF ExpirarChave, banco, pedido, Etapas, AlvoJustificado, NaoPulaEtapa, PagoExigeEntrega
<1>9. CASE Reiniciar
  BY <1>9 DEF Reiniciar, Etapas, AlvoJustificado, NaoPulaEtapa, PagoExigeEntrega
<1> QED BY <1>1, <1>2, <1>3, <1>4, <1>5, <1>6, <1>7, <1>8, <1>9 DEF Next, Requisicao

LEMMA ParadoEtapas == ASSUME Etapas, UNCHANGED vars PROVE Etapas'
BY DEF Etapas, AlvoJustificado, NaoPulaEtapa, PagoExigeEntrega, vars

LEMMA SempreEtapas == Spec => []Etapas
BY PedidoTipado, InitEtapas, NextEtapas, ParadoEtapas, PTL DEF Spec

(* However many requests overlap, pedidoStatusValido is respected across   *)
(* the history of an order: no status is reached without its predecessor.  *)
THEOREM NuncaPulaEtapa == Spec => []NaoPulaEtapa
<1>1. Etapas => NaoPulaEtapa
  BY DEF Etapas
<1> QED BY <1>1, SempreEtapas, PTL

(* MarcarPendentesComoPagos only ever settles an order that was delivered. *)
THEOREM PagoSempreEntregue == Spec => []PagoExigeEntrega
<1>1. Etapas => PagoExigeEntrega
  BY DEF Etapas
<1> QED BY <1>1, SempreEtapas, PTL

-----------------------------------------------------------------------------
(* The key of SETNX stands from before a notice is sent until no request   *)
(* is about to send one, and only the request that set it is about to.     *)
Avisando ==
  /\ ~chave => avisos = 0
  /\ \A o \in Operadores : passo[o] = "enviar" => chave /\ avisos = 0
  /\ \A o, q \in Operadores : passo[o] = "enviar" /\ passo[q] = "enviar" => o = q
  /\ UmAviso

LEMMA InitAvisando == Init => Avisando
BY DEF Init, Avisando, UmAviso

(* Steps that neither reserve nor send.                                    *)
LEMMA CalaAvisando ==
  ASSUME Avisando, UNCHANGED avisos, chave => chave',
         \A q \in Operadores : passo'[q] = "enviar" => passo[q] = "enviar",
         chave' => chave \/ avisos = 0
  PROVE  Avisando'
BY DEF Avisando, UmAviso

LEMMA NextAvisando ==
  ASSUME TypeOK, Avisando, Next PROVE Avisando'
<1>1. ASSUME NEW o \in Operadores, NEW s \in Status, Ler(o, s) PROVE Avisando'
  BY <1>1 DEF TypeOK, Ler, historia, Avisando, UmAviso
<1>2. ASSUME NEW o \in Operadores, Gravar(o) PROVE Avisando'
  <2>1. passo'[o] # "enviar"
    BY <1>2 DEF TypeOK, Gravar, DepoisDeGravar
  <2>2. \A q \in Operadores : q # o => passo'[q] = passo[q]
    BY <1>2 DEF TypeOK, Gravar
  <2> QED BY <1>2, <2>1, <2>2 DEF Gravar, Avisando, UmAviso
<1>3. ASSUME NEW o \in Operadores, Marcar(o) PROVE Avisando'
  BY <1>3 DEF TypeOK, Marcar, historia, Avisando, UmAviso
<1>4. ASSUME NEW o \in Operadores, Reservar(o) PROVE Avisando'
  <2>1. chave' /\ UNCHANGED avisos
    BY <1>4 DEF Reservar, historia
  <2>2. \A q \in Operadores : passo'[q] = "enviar" => passo[q] = "enviar" \/ (q = o /\ ~chave)
    BY <1>4 DEF TypeOK, Reservar
  <2> QED BY <2>1, <2>2 DEF Avisando, UmAviso
<1>5. ASSUME NEW o \in Operadores, Enviar(o) PROVE Avisando'
  <2>1. chave /\ avisos = 0
    BY <1>5 DEF Enviar, Avisando
  <2>2. chave' /\ avisos' = 1
    BY <1>5, <2>1 DEF Enviar
  <2>3. \A q \in Operadores : passo'[q] # "enviar"
    BY <1>5 DEF TypeOK, Enviar, Avisando
  <2> QED BY <2>2, <2>3 DEF Avisando, UmAviso
<1>6. ASSUME NEW o \in Operadores, Falhar(o) PROVE Avisando'
  <2>1. \A q \in Operadores : passo'[q] = "enviar" => passo[q] = "enviar"
    BY <1>6 DEF TypeOK, Falhar
  <2>2. UNCHANGED avisos /\ (chave => chave')
    BY <1>6 DEF TypeOK, Falhar
  <2> QED BY <2>1, <2>2 DEF Avisando, UmAviso
<1>7. CASE InserirPagamentos
  BY <1>7 DEF InserirPagamentos, pedido, Avisando, UmAviso
<1>8. CASE ExpirarChave
  BY <1>8 DEF ExpirarChave, pedido, Avisando, UmAviso
<1>9. CASE Reiniciar
  BY <1>9 DEF Reiniciar, Avisando, UmAviso
<1> QED BY <1>1, <1>2, <1>3, <1>4, <1>5, <1>6, <1>7, <1>8, <1>9 DEF Next, Requisicao

LEMMA ParadoAvisando == ASSUME Avisando, UNCHANGED vars PROVE Avisando'
BY DEF Avisando, UmAviso, vars

(* notificarPedidoSaiuParaEntrega sends at most one notice while its key   *)
(* stands, however many operators send the order out at the same time.     *)
THEOREM UmAvisoSempre == Spec => []UmAviso
<1>1. Avisando => UmAviso
  BY DEF Avisando
<1> QED
  BY <1>1, PedidoTipado, InitAvisando, NextAvisando, ParadoAvisando, PTL DEF Spec

-----------------------------------------------------------------------------
(* After a delivery, payments still pending are about to be settled.       *)
Quitando ==
  Entregue \in vistos /\ pagamentos = "pendente" =>
    falhou \/ tarde \/ \E o \in Operadores : passo[o] = "marcar"

LEMMA InitQuitando == Init => Quitando
BY DEF Init, Quitando

LEMMA NextQuitando ==
  ASSUME TypeOK, Quitando, Next PROVE Quitando'
<1>1. ASSUME NEW o \in Operadores, NEW s \in Status, Ler(o, s) PROVE Quitando'
  <2>1. \A q \in Operadores : passo[q] = "marcar" => passo'[q] = "marcar"
    BY <1>1 DEF TypeOK, Ler
  <2> QED BY <1>1, <2>1 DEF Ler, banco, historia, Quitando
<1>2. ASSUME NEW o \in Operadores, Gravar(o) PROVE Quitando'
  <2>1. \A q \in Operadores : passo[q] = "marcar" => passo'[q] = "marcar"
    BY <1>2 DEF TypeOK, Gravar
  <2>2. alvo[o] = Entregue => passo'[o] = "marcar" \/ falhou'
    BY <1>2 DEF TypeOK, Gravar, DepoisDeGravar, Entregue, Saiu
  <2>3. falhou => falhou'
    BY <1>2 DEF Gravar
  <2>4. vistos' = vistos \cup {alvo[o]} /\ UNCHANGED <<pagamentos, tarde>>
    BY <1>2 DEF Gravar
  <2> QED BY <2>1, <2>2, <2>3, <2>4 DEF Quitando
<1>3. ASSUME NEW o \in Operadores, Marcar(o) PROVE Quitando'
  BY <1>3 DEF Marcar, Quitando
<1>4. ASSUME NEW o \in Operadores, Reservar(o) PROVE Quitando'
  <2>1. \A q \in Operadores : passo[q] = "marcar" => passo'[q] = "marcar"
    BY <1>4 DEF TypeOK, Reservar
  <2> QED BY <1>4, <2>1 DEF Reservar, banco, historia, Quitando
<1>5. ASSUME NEW o \in Operadores, Enviar(o) PROVE Quitando'
  <2>1. \A q \in Operadores : passo[q] = "marcar" => passo'[q] = "marcar"
    BY <1>5 DEF TypeOK, Enviar
  <2> QED BY <1>5, <2>1 DEF Enviar, banco, Quitando
<1>6. ASSUME NEW o \in Operadores, Falhar(o) PROVE Quitando'
  BY <1>6 DEF Falhar, Quitando
<1>7. CASE InserirPagamentos
  BY <1>7 DEF InserirPagamentos, pedido, Quitando
<1>8. CASE ExpirarChave
  BY <1>8 DEF ExpirarChave, banco, pedido, Quitando
<1>9. CASE Reiniciar
  BY <1>9 DEF Reiniciar, Quitando
<1> QED BY <1>1, <1>2, <1>3, <1>4, <1>5, <1>6, <1>7, <1>8, <1>9 DEF Next, Requisicao

LEMMA ParadoQuitando == ASSUME Quitando, UNCHANGED vars PROVE Quitando'
BY DEF Quitando, vars

LEMMA SempreQuitando == Spec => []Quitando
BY PedidoTipado, InitQuitando, NextQuitando, ParadoQuitando, PTL DEF Spec

(* With no request under way a delivered order owes nothing, whatever      *)
(* requests overlapped, unless a call failed or the creation was slower    *)
(* than the delivery.                                                      *)
THEOREM EntregaSempreQuita == Spec => []EntregaQuita
<1>1. Etapas /\ Quitando => EntregaQuita
  BY DEF Etapas, Quitando, EntregaQuita
<1> QED BY <1>1, SempreEtapas, SempreQuitando, PTL

-----------------------------------------------------------------------------
(* One request at a time: what was read is still so when it is acted upon. *)
UmPorVez == \A o, q \in Operadores : o = q

Fresco ==
  /\ \A o \in Operadores : passo[o] = "gravar" => pedidoStatusValido(status, alvo[o])
  /\ \A o \in Operadores : passo[o] = "marcar" => status = Entregue
  /\ criando => pagamentos = "nenhum"

LEMMA InitFresco == Init => Fresco
BY DEF Init, Fresco

LEMMA NextFresco ==
  ASSUME UmPorVez, TypeOK, Fresco, Next PROVE Fresco'
<1>1. ASSUME NEW o \in Operadores, NEW s \in Status, Ler(o, s) PROVE Fresco'
  <2>1. \A q \in Operadores : q = o /\ passo'[q] = "gravar" /\ alvo'[q] = s
    BY <1>1 DEF TypeOK, Ler, UmPorVez
  <2>2. pedidoStatusValido(status, s) /\ UNCHANGED <<status, pagamentos, criando>>
    BY <1>1 DEF Ler, banco
  <2> QED BY <2>1, <2>2 DEF Fresco, pedidoStatusValido
<1>2. ASSUME NEW o \in Operadores, Gravar(o) PROVE Fresco'
  <2>1. \A q \in Operadores :
          q = o /\ passo'[q] # "gravar" /\ (passo'[q] = "marcar" => alvo[o] = Entregue)
    BY <1>2 DEF TypeOK, Gravar, DepoisDeGravar, UmPorVez
  <2>2. status' = alvo[o] /\ UNCHANGED <<pagamentos, criando>>
    BY <1>2 DEF Gravar
  <2> QED BY <2>1, <2>2 DEF Fresco
<1>3. ASSUME NEW o \in Operadores, Marcar(o) PROVE Fresco'
  <2>1. \A q \in Operadores : passo'[q] = "livre"
    BY <1>3 DEF TypeOK, Marcar, UmPorVez
  <2>2. UNCHANGED criando /\ (pagamentos = "nenhum" => pagamentos' = "nenhum")
    BY <1>3 DEF Marcar
  <2> QED BY <2>1, <2>2 DEF Fresco
<1>4. ASSUME NEW o \in Operadores, Reservar(o) PROVE Fresco'
  <2>1. \A q \in Operadores : passo'[q] \in {"livre", "enviar"}
    BY <1>4 DEF TypeOK, Reservar, UmPorVez
  <2> QED BY <1>4, <2>1 DEF Reservar, banco, Fresco
<1>5. ASSUME NEW o \in Operadores, Enviar(o) PROVE Fresco'
  <2>1. \A q \in Operadores : passo'[q] = "livre"
    BY <1>5 DEF TypeOK, Enviar, UmPorVez
  <2> QED BY <1>5, <2>1 DEF Enviar, banco, Fresco
<1>6. ASSUME NEW o \in Operadores, Falhar(o) PROVE Fresco'
  <2>1. \A q \in Operadores : passo'[q] = "livre"
    BY <1>6 DEF TypeOK, Falhar, UmPorVez
  <2> QED BY <1>6, <2>1 DEF Falhar, banco, Fresco
<1>7. CASE InserirPagamentos
  BY <1>7 DEF InserirPagamentos, pedido, Fresco, pedidoStatusValido
<1>8. CASE ExpirarChave
  BY <1>8 DEF ExpirarChave, banco, pedido, Fresco, pedidoStatusValido
<1>9. CASE Reiniciar
  BY <1>9 DEF Reiniciar, Fresco
<1> QED BY <1>1, <1>2, <1>3, <1>4, <1>5, <1>6, <1>7, <1>8, <1>9 DEF Next, Requisicao

LEMMA ParadoFresco == ASSUME Fresco, UNCHANGED vars PROVE Fresco'
BY DEF Fresco, pedidoStatusValido, vars

LEMMA SempreFresco == ASSUME UmPorVez PROVE Spec => []Fresco
BY PedidoTipado, InitFresco, NextFresco, ParadoFresco, PTL DEF Spec

(* Only Gravar changes the status, and with one request at a time it       *)
(* writes what was found valid.                                            *)
LEMMA PassoValido ==
  ASSUME TypeOK, Fresco, Next PROVE pedidoStatusValido(status, status')
<1>1. ASSUME NEW o \in Operadores, Gravar(o) PROVE pedidoStatusValido(status, status')
  BY <1>1 DEF Gravar, Fresco
<1>2. ASSUME UNCHANGED status PROVE pedidoStatusValido(status, status')
  BY <1>2 DEF pedidoStatusValido
<1> QED
  BY <1>1, <1>2 DEF Next, Requisicao, Ler, Marcar, Reservar, Enviar, Falhar, banco,
     InserirPagamentos, ExpirarChave, Reiniciar

(* SemRetrocesso, which overlapping requests break (run pedido_corrida),   *)
(* holds when they do not overlap, whatever call fails: the missing        *)
(* condition in the UPDATE is the only cause.                              *)
THEOREM UmPorVezNaoRetrocede == ASSUME UmPorVez PROVE Spec => SemRetrocesso
<1>1. TypeOK /\ Fresco /\ [Next]_vars => [pedidoStatusValido(status, status')]_vars
  BY PassoValido
<1> QED BY <1>1, PedidoTipado, SempreFresco, PTL DEF Spec, SemRetrocesso

-----------------------------------------------------------------------------
(* The refinement mapping.                                                 *)

LEMMA NumeroDe ==
  ASSUME TypeOK, TypeOK', pedidoStatusValido(status, status')
  PROVE  \/ numero' = numero
         \/ numero \in 1..4 /\ numero' \in {numero + 1, 0}
BY DEF TypeOK, Status, pedidoStatusValido, Transicoes, numero,
       Pendente, Confirmado, EmPreparo, Saiu, Entregue, Cancelado

LEMMA QuitadoSobe ==
  ASSUME TypeOK, Fresco, Next
  PROVE  \/ (pagamentos' = "pago") = (pagamentos = "pago")
         \/ status = Entregue /\ UNCHANGED status /\ pagamentos' = "pago"
<1>1. ASSUME NEW o \in Operadores, Marcar(o)
      PROVE  status = Entregue /\ UNCHANGED status /\ (pagamentos' = pagamentos \/ pagamentos' = "pago")
  BY <1>1 DEF Marcar, Fresco
<1>2. CASE InserirPagamentos
  BY <1>2 DEF InserirPagamentos, Fresco
<1> QED
  BY <1>1, <1>2 DEF Next, Requisicao, Ler, Gravar, Reservar, Enviar, Falhar, banco,
     ExpirarChave, Reiniciar

(* ImplementaCiclo: with one request at a time, for any failures and       *)
(* restarts, the life of an order is the abstract one.                     *)
THEOREM UmPorVezImplementaCiclo == ASSUME UmPorVez PROVE Spec => ImplementaCiclo
<1>1. Init => Ciclo!Init
  <2> SUFFICES ASSUME Init PROVE Ciclo!Init
    OBVIOUS
  <2>1. numero \in {1, 2}
    BY DEF Init, numero, Pendente, Confirmado, EmPreparo, Saiu, Entregue
  <2>2. (pagamentos = "pago") = FALSE
    BY DEF Init
  <2> QED BY <2>1, <2>2 DEF Ciclo!Init
<1>2. TypeOK /\ TypeOK' /\ Fresco /\ [Next]_vars => [Ciclo!Next]_(Ciclo!vars)
  <2>1. ASSUME TypeOK, TypeOK', Fresco, Next PROVE [Ciclo!Next]_(Ciclo!vars)
    <3>1. \/ numero' = numero
          \/ numero \in 1..4 /\ numero' \in {numero + 1, 0}
      BY <2>1, PassoValido, NumeroDe
    <3>2. CASE (pagamentos' = "pago") = (pagamentos = "pago")
      BY <3>1, <3>2 DEF Ciclo!Next, Ciclo!Avancar, Ciclo!Cancelar, Ciclo!Cancelado, Ciclo!vars
    <3>3. CASE status = Entregue /\ UNCHANGED status /\ pagamentos' = "pago"
      <4>1. numero = 5 /\ numero' = 5
        BY <3>3 DEF numero, Pendente, Confirmado, EmPreparo, Saiu, Entregue
      <4>2. (pagamentos' = "pago") = TRUE
        BY <3>3
      <4> QED BY <4>1, <4>2 DEF Ciclo!Next, Ciclo!Quitar, Ciclo!Entregue
    <3> QED BY <2>1, <3>2, <3>3, QuitadoSobe
  <2>2. ASSUME UNCHANGED vars PROVE UNCHANGED Ciclo!vars
    BY <2>2 DEF vars, Ciclo!vars, numero
  <2> QED BY <2>1, <2>2
<1> QED
  BY <1>1, <1>2, PedidoTipado, SempreFresco, PTL DEF Spec, ImplementaCiclo, Ciclo!Spec
=============================================================================
