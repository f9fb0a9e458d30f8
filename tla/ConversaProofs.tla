--------------------------- MODULE ConversaProofs ---------------------------
(***************************************************************************)
(* Proofs about Conversa and the debounce of Resumo, for any number of     *)
(* messages at the same time.                                              *)
(***************************************************************************)
EXTENDS Conversa, TLAPS

(* The item a message adds is nowhere before the message has saved it.     *)
ItemNovo(m) ==
  passo[m] \notin {"guardar", "fim"} =>
    /\ m \notin NoCarrinho
    /\ \A d \in Mensagens : m \notin lido[d].itens \cup pedido[d]

(* What a message has read is the cart, unless it was told otherwise.  The *)
(* cart it is about to delete is the one it ordered.                       *)
Lido(m) ==
  ~velho[m] =>
    /\ falta[m] = "ausente" => carrinho = Ausente
    /\ passo[m] \in {"ouvir", "salvar", "pedir"} => lido[m].itens = NoCarrinho
    /\ passo[m] = "apagar" /\ tipo[m] # "limpar" => NoCarrinho \subseteq pedido[m]

(* A GET that failed finds the message reading; what it works on is kept   *)
(* only while a later step uses it.                                        *)
EmLeitura(m) == falta[m] # "nao" => passo[m] \in Leituras

(* Ordered items stay in the cart only until the DEL of that order.        *)
ForaDoCarrinho ==
  ~reuso => \A m \in Mensagens :
              NoCarrinho \cap pedido[m] # {} => PedidoSemDel(m)

(* The summary stored last and not sent yet is under the key, nobody is    *)
(* about to delete it, and somebody is on the way to send it.              *)
Espera == ~desvio /\ ultimo # Nenhuma /\ ultimo \notin enviados

ResumoAguarda ==
  Espera => /\ resumo = ultimo
            /\ \A g \in Mensagens : /\ rotina[g] # "apagarResumo"
                                    /\ rotina[g] = "enviar" => leu[g] = ultimo
            /\ \E g \in Mensagens : rotina[g] \in {"travar", "dormir", "enviar"}

(* What a goroutine is about to send is a summary.                         *)
LeuResumo == \A g \in Mensagens : rotina[g] = "enviar" => leu[g] # Nenhuma

IInv ==
  /\ TypeOK
  /\ \A m \in Mensagens : ItemNovo(m) /\ Lido(m) /\ EmLeitura(m)
  /\ ForaDoCarrinho
  /\ UmPedidoPorItem
  /\ LeuResumo
  /\ ResumoAguarda

-----------------------------------------------------------------------------
(* The debounce.                                                           *)
PassoDoResumo ==
  \/ \E m \in Mensagens : GuardarResumo(m) \/ PassoDaRotina(m)
  \/ VencerResumo \/ VencerTrava \/ ReiniciarResumo
  \/ UNCHANGED resumos

LEMMA ResumoTipos ==
  ASSUME ResumoTypeOK, LeuResumo, PassoDoResumo PROVE ResumoTypeOK'
<1> USE DEF ResumoTypeOK
<1>1. ASSUME NEW m \in Mensagens, NEW e \in Estagios, Vai(m, e)
      PROVE rotina' \in [Mensagens -> Estagios]
  BY <1>1 DEF Vai
<1>2. resumo' \in Mensagens \cup {Nenhuma} /\ ultimo' \in Mensagens \cup {Nenhuma}
  <2>1. CASE ReiniciarResumo \/ UNCHANGED resumos
    BY <2>1 DEF ReiniciarResumo, resumos
  <2> QED BY <2>1 DEF PassoDoResumo, PassoDaRotina, GuardarResumo, Travar, Acordar, Enviar,
                  ApagarResumo, ApagarTrava, VencerResumo, VencerTrava
<1>6. enviados' \subseteq Mensagens
  <2>1. CASE ReiniciarResumo \/ UNCHANGED resumos
    BY <2>1 DEF ReiniciarResumo, resumos
  <2>2. ASSUME NEW m \in Mensagens, Enviar(m) PROVE enviados' \subseteq Mensagens
    <3>1. leu[m] \in Mensagens
      BY <2>2 DEF Enviar, LeuResumo
    <3> QED BY <2>2, <3>1 DEF Enviar
  <2> QED BY <2>1, <2>2 DEF PassoDoResumo, PassoDaRotina, GuardarResumo, Travar, Acordar,
                  ApagarResumo, ApagarTrava, VencerResumo, VencerTrava
<1>3. trava' \in BOOLEAN /\ desvio' \in BOOLEAN
  BY Zenon DEF PassoDoResumo, PassoDaRotina, GuardarResumo, Travar, Acordar, Enviar,
     ApagarResumo, ApagarTrava, VencerResumo, VencerTrava, ReiniciarResumo, resumos
<1>4. rotina' \in [Mensagens -> Estagios]
  <2>1. ASSUME NEW m \in Mensagens, GuardarResumo(m) \/ PassoDaRotina(m)
        PROVE rotina' \in [Mensagens -> Estagios]
    BY <1>1, <2>1 DEF GuardarResumo, PassoDaRotina, Travar, Acordar, Enviar,
       ApagarResumo, ApagarTrava, Estagios
  <2>2. CASE VencerResumo \/ VencerTrava \/ ReiniciarResumo \/ UNCHANGED resumos
    BY <2>2 DEF VencerResumo, VencerTrava, ReiniciarResumo, resumos, Estagios
  <2> QED BY <2>1, <2>2 DEF PassoDoResumo
<1>5. leu' \in [Mensagens -> Mensagens \cup {Nenhuma}]
  <2>1. ASSUME NEW m \in Mensagens, GuardarResumo(m) \/ PassoDaRotina(m)
        PROVE leu' \in [Mensagens -> Mensagens \cup {Nenhuma}]
    BY <2>1 DEF GuardarResumo, PassoDaRotina, Travar, Acordar, Enviar,
       ApagarResumo, ApagarTrava
  <2>2. CASE VencerResumo \/ VencerTrava \/ ReiniciarResumo \/ UNCHANGED resumos
    BY <2>2 DEF VencerResumo, VencerTrava, ReiniciarResumo, resumos
  <2> QED BY <2>1, <2>2 DEF PassoDoResumo
<1> QED BY <1>2, <1>3, <1>4, <1>5, <1>6

LEMMA ResumoPasso ==
  ASSUME ResumoTypeOK, LeuResumo, ResumoAguarda, PassoDoResumo
  PROVE LeuResumo' /\ ResumoAguarda'
<1> USE DEF ResumoTypeOK
<1>1. LeuResumo'
  <2>1. ASSUME NEW m \in Mensagens, GuardarResumo(m) \/ PassoDaRotina(m) PROVE LeuResumo'
    BY <2>1, MensagensAssumption DEF LeuResumo, GuardarResumo, PassoDaRotina, Travar, Acordar,
       Enviar, ApagarResumo, ApagarTrava, Vai
  <2>2. CASE VencerResumo \/ VencerTrava \/ ReiniciarResumo \/ UNCHANGED resumos
    BY <2>2 DEF LeuResumo, VencerResumo, VencerTrava, ReiniciarResumo, resumos
  <2> QED BY <2>1, <2>2 DEF PassoDoResumo
<1>2. ResumoAguarda'
  <2> SUFFICES ASSUME ~desvio', ultimo' # Nenhuma, ultimo' \notin enviados'
               PROVE /\ resumo' = ultimo'
                     /\ \A g \in Mensagens : /\ rotina'[g] # "apagarResumo"
                                             /\ rotina'[g] = "enviar" => leu'[g] = ultimo'
                     /\ \E g \in Mensagens : rotina'[g] \in {"travar", "dormir", "enviar"}
    BY DEF ResumoAguarda, Espera
  <2> DEFINE Aguarda == /\ resumo' = ultimo'
                        /\ \A g \in Mensagens : /\ rotina'[g] # "apagarResumo"
                                                /\ rotina'[g] = "enviar" => leu'[g] = ultimo'
                        /\ \E g \in Mensagens : rotina'[g] \in {"travar", "dormir", "enviar"}
  <2>0. ~desvio
    BY DEF PassoDoResumo, PassoDaRotina, GuardarResumo, Travar, Acordar, Enviar,
       ApagarResumo, ApagarTrava, VencerResumo, VencerTrava, ReiniciarResumo, resumos
  <2>a. ASSUME ultimo' = ultimo, enviados \subseteq enviados'
        PROVE /\ resumo = ultimo /\ ultimo # Nenhuma
              /\ \A g \in Mensagens : /\ rotina[g] # "apagarResumo"
                                      /\ rotina[g] = "enviar" => leu[g] = ultimo
              /\ \E g \in Mensagens : rotina[g] \in {"travar", "dormir", "enviar"}
    BY <2>0, <2>a DEF ResumoAguarda, Espera
  <2>1. ASSUME NEW m \in Mensagens, GuardarResumo(m) PROVE Aguarda
    <3>1. CASE UNCHANGED <<resumo, ultimo, rotina, desvio>>
      BY <2>1, <2>a, <3>1 DEF GuardarResumo
    <3>2. CASE resumo' = m /\ ultimo' = m /\ Vai(m, "travar") /\ desvio' = (desvio \/ Atrasada)
      BY <2>1, <3>2 DEF Vai, Atrasada
    <3> QED BY <2>1, <3>1, <3>2 DEF GuardarResumo
  <2>2. ASSUME NEW m \in Mensagens, Travar(m) PROVE Aguarda
    <3>1. CASE ~trava /\ Vai(m, "dormir")
      BY <2>2, <2>a, <3>1 DEF Travar, Vai
    <3>2. CASE Vai(m, "parada")
      <4>1. Dormindo
        BY <2>2, <3>2 DEF Travar, Vai
      <4> QED BY <2>2, <2>a, <3>2, <4>1 DEF Travar, Vai, Dormindo
    <3> QED BY <2>2, <3>1, <3>2 DEF Travar
  <2>3. ASSUME NEW m \in Mensagens, Acordar(m) PROVE Aguarda
    BY <2>3, <2>a DEF Acordar, Vai
  <2>4. ASSUME NEW m \in Mensagens, Enviar(m) PROVE Aguarda
    BY <2>4, <2>a DEF Enviar
  <2>5. ASSUME NEW m \in Mensagens, ApagarResumo(m) PROVE Aguarda
    BY <2>5, <2>a DEF ApagarResumo
  <2>6. ASSUME NEW m \in Mensagens, ApagarTrava(m) PROVE Aguarda
    BY <2>6, <2>a DEF ApagarTrava, Vai
  <2>7. CASE VencerResumo
    BY <2>7, <2>a DEF VencerResumo
  <2>8. CASE VencerTrava
    BY <2>8, <2>a DEF VencerTrava
  <2>9. CASE ReiniciarResumo
    BY <2>9, <2>a DEF ReiniciarResumo
  <2>10. CASE UNCHANGED resumos
    BY <2>10, <2>a DEF resumos
  <2> QED
    BY <2>1, <2>2, <2>3, <2>4, <2>5, <2>6, <2>7, <2>8, <2>9, <2>10
    DEF PassoDoResumo, PassoDaRotina
<1> QED BY <1>1, <1>2

-----------------------------------------------------------------------------
(* Types of the conversation, and what a message does to the others.       *)
ConversaTypeOK ==
  /\ carrinho \in Carrinhos \cup {Ausente}
  /\ tipo \in [Mensagens -> Tipos]
  /\ meio \in [Mensagens -> Meios]
  /\ passo \in [Mensagens -> Passos]
  /\ falta \in [Mensagens -> {"nao", "ausente", "erro"}]
  /\ lido \in [Mensagens -> Carrinhos]
  /\ pago \in [Mensagens -> SUBSET Itens]
  /\ tentativa \in [Mensagens -> 0..(MaxTentativas - 1)]
  /\ pedido \in [Mensagens -> SUBSET Itens]
  /\ velho \in [Mensagens -> BOOLEAN]
  /\ reuso \in BOOLEAN

LEMMA VazioTipo == Vazio \in Carrinhos
BY DEF Vazio, Carrinhos

(* Where a message goes from a reading.                                    *)
Novos == {"ouvir", "apagar", "reler", "mostrar", "fim", "classificar", "salvar"}

LEMMA Destinos ==
  ASSUME ConversaTypeOK, NEW m \in Mensagens, NEW c \in Carrinhos
  PROVE /\ DepoisDeOuvir(m, c) \subseteq Novos \ {"ouvir"}
        /\ "apagar" \in DepoisDeOuvir(m, c) => tipo[m] = "limpar"
        /\ passo[m] \in Leituras =>
             /\ Depois(m, c) \subseteq Novos \cup {"guardar", "pedir"}
             /\ "apagar" \in Depois(m, c) => tipo[m] = "limpar"
<1>1. SemCheckout(m) \subseteq {"mostrar", "apagar", "fim", "classificar"}
      /\ ("apagar" \in SemCheckout(m) => tipo[m] = "limpar")
  BY DEF SemCheckout
<1>2. NoCheckout(m, c) \subseteq {"mostrar", "apagar", "fim", "classificar", "salvar"}
      /\ ("apagar" \in NoCheckout(m, c) => tipo[m] = "limpar")
  BY <1>1 DEF NoCheckout
<1>3. Botao(m) \subseteq {"apagar", "reler"}
      /\ ("apagar" \in Botao(m) => tipo[m] = "limpar")
  BY DEF Botao
<1>4. /\ DepoisDeOuvir(m, c) \subseteq Novos \ {"ouvir"}
      /\ "apagar" \in DepoisDeOuvir(m, c) => tipo[m] = "limpar"
  BY <1>1, <1>2, <1>3 DEF DepoisDeOuvir, Novos
<1>5. CASE passo[m] = "ler"
  BY <1>4, <1>5 DEF Depois, DepoisDeLer, Novos
<1>6. CASE passo[m] = "reler"
  BY <1>4, <1>6 DEF Depois, DepoisDeReler, Novos
<1>7. CASE passo[m] = "mostrar"
  BY <1>4, <1>7 DEF Depois, Novos
<1> QED BY <1>4, <1>5, <1>6, <1>7 DEF Leituras

LEMMA DestinosTipo == Novos \cup {"guardar", "pedir"} \subseteq Passos
BY DEF Novos, Passos, Leituras

LEMMA ContinuarTipos ==
  ASSUME ConversaTypeOK, NEW m \in Mensagens, NEW c \in Carrinhos, passo[m] \in Leituras,
         Continuar(m, c)
  PROVE /\ passo' \in [Mensagens -> Passos] /\ lido' \in [Mensagens -> Carrinhos]
        /\ passo'[m] \in Depois(m, c)
        /\ lido'[m] = IF UsaLido(passo'[m]) THEN c ELSE Vazio
        /\ \A d \in Mensagens \ {m} : passo'[d] = passo[d] /\ lido'[d] = lido[d]
<1>1. PICK p \in Depois(m, c) :
        Ir(m, p) /\ lido' = [lido EXCEPT ![m] = IF UsaLido(p) THEN c ELSE Vazio]
  BY DEF Continuar
<1>2. p \in Passos
  BY <1>1, Destinos, DestinosTipo
<1> QED BY <1>1, <1>2, VazioTipo DEF ConversaTypeOK, Ir

LEMMA AlteradoTipo ==
  ASSUME ConversaTypeOK, NEW m \in Mensagens, NEW e \in EstadosSalvos(m)
  PROVE /\ Alterado(m, e) \in Carrinhos
        /\ Alterado(m, e).itens =
             CASE tipo[m] = "adicionar" -> lido[m].itens \cup {m}
               [] tipo[m] = "remover" -> lido[m].itens \ {Inicial}
               [] OTHER -> lido[m].itens
<1>1. lido[m] \in Carrinhos /\ m \in Itens
  BY DEF ConversaTypeOK, Itens
<1>2. e \in {"aberto", "endereco", "pagamento"}
  BY <1>1 DEF EstadosSalvos, Carrinhos
<1>3. CASE tipo[m] = "adicionar"
  BY <1>1, <1>2, <1>3 DEF Alterado, Carrinhos
<1>4. CASE tipo[m] = "remover"
  BY <1>1, <1>4 DEF Alterado, Carrinhos
<1>5. CASE tipo[m] \notin {"adicionar", "remover"}
  BY <1>1, <1>2, <1>5 DEF Alterado, Carrinhos
<1> QED BY <1>3, <1>4, <1>5

LEMMA MudouTipo ==
  ASSUME ConversaTypeOK, NEW m \in Mensagens, Mudou(m) \/ EmDia(m)
  PROVE velho' \in [Mensagens -> BOOLEAN]
<1>1. CASE Mudou(m)
  BY Zenon, <1>1 DEF Mudou
<1>2. CASE EmDia(m)
  BY Zenon, <1>2 DEF EmDia, ConversaTypeOK
<1> QED BY <1>1, <1>2

LEMMA ConversaTipos ==
  ASSUME ConversaTypeOK, [Next]_vars PROVE ConversaTypeOK'
<1>a. ASSUME NEW m \in Mensagens, NEW p \in Passos, Ir(m, p)
      PROVE passo' \in [Mensagens -> Passos]
  BY <1>a DEF ConversaTypeOK, Ir
<1>1. ASSUME NEW m \in Mensagens, Receber(m) PROVE ConversaTypeOK'
  BY <1>1, <1>a DEF ConversaTypeOK, Receber, Passos, Leituras
<1>2. ASSUME NEW m \in Mensagens, Get(m) PROVE ConversaTypeOK'
  <2>1. velho' \in [Mensagens -> BOOLEAN]
    BY <1>2, MudouTipo DEF Get
  <2>2. /\ passo' \in [Mensagens -> Passos] /\ lido' \in [Mensagens -> Carrinhos]
        /\ falta' \in [Mensagens -> {"nao", "ausente", "erro"}]
    <3>1. CASE carrinho # Ausente /\ Continuar(m, carrinho) /\ UNCHANGED falta
      BY <1>2, <3>1, ContinuarTipos DEF Get, ConversaTypeOK
    <3>2. CASE UNCHANGED <<lido, passo>>
               /\ falta' = [falta EXCEPT ![m] = IF carrinho = Ausente THEN "ausente"
                                                                     ELSE "erro"]
      BY <3>2 DEF ConversaTypeOK
    <3> QED BY <1>2, <3>1, <3>2 DEF Get
  <2> QED BY <1>2, <2>1, <2>2 DEF Get, ConversaTypeOK
<1>3. ASSUME NEW m \in Mensagens, SetVazio(m) PROVE ConversaTypeOK'
  <2>1. velho' \in [Mensagens -> BOOLEAN]
    <3>1. CASE Mudou(m)
      BY <3>1, MudouTipo
    <3>2. CASE velho' = [velho EXCEPT ![m] = @ \/ falta[m] = "erro"]
      BY Zenon, <3>2 DEF ConversaTypeOK
    <3> QED BY <1>3, <3>1, <3>2 DEF SetVazio
  <2>2. passo' \in [Mensagens -> Passos] /\ lido' \in [Mensagens -> Carrinhos]
    BY <1>3, ContinuarTipos, VazioTipo DEF SetVazio
  <2>3. carrinho' \in Carrinhos \cup {Ausente}
    BY <1>3, VazioTipo DEF SetVazio, ConversaTypeOK
  <2> QED BY <1>3, <2>1, <2>2, <2>3 DEF SetVazio, ConversaTypeOK
<1>4. ASSUME NEW m \in Mensagens, Ouvir(m) PROVE ConversaTypeOK'
  <2>1. velho' \in [Mensagens -> BOOLEAN]
    BY Zenon, <1>4 DEF Ouvir, ConversaTypeOK
  <2>2. PICK p \in Novos : Ir(m, p) /\ lido' = [lido EXCEPT ![m] = IF UsaLido(p) THEN @ ELSE Vazio]
    <3>1. lido[m] \in Carrinhos /\ DepoisDeOuvir(m, lido[m]) \subseteq Novos
      BY Destinos DEF ConversaTypeOK
    <3> QED BY <1>4, <3>1 DEF Ouvir, Novos
  <2>3. passo' \in [Mensagens -> Passos] /\ lido' \in [Mensagens -> Carrinhos]
    BY <2>2, <1>a, DestinosTipo, VazioTipo DEF ConversaTypeOK
  <2> QED BY <1>4, <2>1, <2>3 DEF Ouvir, ConversaTypeOK
<1>5. ASSUME NEW m \in Mensagens, Classificar(m) PROVE ConversaTypeOK'
  <2>1. PICK p \in Passos : Ir(m, p) /\ lido' = [lido EXCEPT ![m] = IF UsaLido(p) THEN @ ELSE Vazio]
    BY <1>5 DEF Classificar, Classificado, Passos, Leituras
  <2>2. passo' \in [Mensagens -> Passos] /\ lido' \in [Mensagens -> Carrinhos]
    BY <2>1, <1>a, VazioTipo DEF ConversaTypeOK
  <2> QED BY <1>5, <2>2 DEF Classificar, ConversaTypeOK
<1>6. ASSUME NEW m \in Mensagens, Resolver(m) PROVE ConversaTypeOK'
  <2>1. CASE UNCHANGED <<passo, lido>> /\ tentativa' = [tentativa EXCEPT ![m] = @ + 1]
             /\ \E r : DeNovo(m, r)
    <3>1. tentativa[m] + 1 \in 0..(MaxTentativas - 1)
      BY <2>1, TentativasAssumption DEF DeNovo, ConversaTypeOK
    <3> QED BY <1>6, <2>1, <3>1 DEF Resolver, ConversaTypeOK
  <2>2. CASE (\E p \in Resolvido(m) : Ir(m, p)) /\ Esquecer(m)
    <3>1. PICK p \in Passos : Ir(m, p)
      BY <2>2 DEF Resolvido, Passos, Leituras
    <3>2. passo' \in [Mensagens -> Passos]
      BY <3>1, <1>a
    <3>3. lido' \in [Mensagens -> Carrinhos] /\ tentativa' \in [Mensagens -> 0..(MaxTentativas - 1)]
      BY <2>2, VazioTipo, TentativasAssumption DEF Esquecer, ConversaTypeOK
    <3> QED BY <1>6, <3>2, <3>3 DEF Resolver, ConversaTypeOK
  <2> QED BY <1>6, <2>1, <2>2 DEF Resolver
<1>7. ASSUME NEW m \in Mensagens, Salvar(m) PROVE ConversaTypeOK'
  <2>1. velho' \in [Mensagens -> BOOLEAN]
    BY <1>7, MudouTipo DEF Salvar
  <2>2. reuso' \in BOOLEAN
    BY Zenon, <1>7 DEF Salvar, ConversaTypeOK
  <2>3. carrinho' \in Carrinhos \cup {Ausente}
    <3>1. CASE \E e \in EstadosSalvos(m) : carrinho' = Alterado(m, e)
      BY <3>1, AlteradoTipo
    <3> QED BY <1>7, <3>1 DEF Salvar, ConversaTypeOK
  <2>4. passo' \in [Mensagens -> Passos]
    <3>1. PICK p \in Passos : Ir(m, p)
      BY <1>7 DEF Salvar, DepoisDeSalvar, Passos, Leituras
    <3> QED BY <3>1, <1>a
  <2>5. pago' \in [Mensagens -> SUBSET Itens] /\ lido' \in [Mensagens -> Carrinhos]
    BY <1>7, VazioTipo DEF Salvar, ConversaTypeOK, Carrinhos
  <2> QED BY <1>7, <2>1, <2>2, <2>3, <2>4, <2>5 DEF Salvar, ConversaTypeOK
<1>8. ASSUME NEW m \in Mensagens, Pedir(m) PROVE ConversaTypeOK'
  <2>1. velho' \in [Mensagens -> BOOLEAN]
    BY <1>8, MudouTipo DEF Pedir, ConversaTypeOK
  <2>2. reuso' \in BOOLEAN
    BY Zenon, <1>8 DEF Pedir, ConversaTypeOK
  <2>3. passo' \in [Mensagens -> Passos]
    BY <1>8, <1>a DEF Pedir, Passos
  <2>4. /\ pago' \in [Mensagens -> SUBSET Itens] /\ lido' \in [Mensagens -> Carrinhos]
        /\ pedido' \in [Mensagens -> SUBSET Itens]
    BY <1>8, VazioTipo DEF Pedir, ConversaTypeOK, Carrinhos
  <2> QED BY <1>8, <2>1, <2>2, <2>3, <2>4 DEF Pedir, ConversaTypeOK
<1>9. ASSUME NEW m \in Mensagens, Apagar(m) PROVE ConversaTypeOK'
  <2>1. velho' \in [Mensagens -> BOOLEAN]
    BY <1>9, MudouTipo DEF Apagar
  <2>2. reuso' \in BOOLEAN
    BY Zenon, <1>9 DEF Apagar, ConversaTypeOK
  <2>3. passo' \in [Mensagens -> Passos]
    BY <1>9, <1>a DEF Apagar, Passos
  <2> QED BY <1>9, <2>1, <2>2, <2>3 DEF Apagar, ConversaTypeOK
<1>10. ASSUME NEW m \in Mensagens, Responder(m) PROVE ConversaTypeOK'
  BY <1>10, <1>a DEF Responder, ConversaTypeOK, Passos
<1>11. CASE ResumoNext /\ UNCHANGED conversa
  BY <1>11 DEF conversa, ConversaTypeOK
<1>12. CASE Expirar
  <2>1. velho' \in [Mensagens -> BOOLEAN]
    BY Zenon, <1>12 DEF Expirar, ConversaTypeOK
  <2> QED BY <1>12, <2>1 DEF Expirar, ConversaTypeOK
<1>13. CASE Reiniciar
  <2>1. reuso' \in BOOLEAN
    BY Zenon, <1>13 DEF Reiniciar, ConversaTypeOK
  <2>2. passo' \in [Mensagens -> Passos] /\ tentativa' \in [Mensagens -> 0..(MaxTentativas - 1)]
    BY <1>13, TentativasAssumption DEF Reiniciar, ConversaTypeOK, Passos
  <2>3. /\ falta' \in [Mensagens -> {"nao", "ausente", "erro"}]
        /\ lido' \in [Mensagens -> Carrinhos] /\ pago' \in [Mensagens -> SUBSET Itens]
        /\ velho' \in [Mensagens -> BOOLEAN]
    BY <1>13, VazioTipo DEF Reiniciar
  <2> QED BY <1>13, <2>1, <2>2, <2>3 DEF Reiniciar, ConversaTypeOK
<1>14. CASE UNCHANGED vars
  BY <1>14 DEF vars, conversa, ConversaTypeOK
<1> QED
  BY <1>1, <1>2, <1>3, <1>4, <1>5, <1>6, <1>7, <1>8, <1>9, <1>10, <1>11, <1>12,
     <1>13, <1>14 DEF Next, Passo

-----------------------------------------------------------------------------
(* The summary of ResumoTypeOK and ResumoAguarda over a step of Conversa.  *)
LEMMA NextResumo ==
  ASSUME ResumoTypeOK, LeuResumo, ResumoAguarda, [Next]_vars
  PROVE ResumoTypeOK' /\ LeuResumo' /\ ResumoAguarda'
<1>1. PassoDoResumo
  BY DEF PassoDoResumo, Next, Passo, Receber, Get, SetVazio, Ouvir, Classificar, Resolver,
     Salvar, Pedir, Apagar, Responder, ResumoNext, Expirar, Reiniciar, vars
<1> QED BY <1>1, ResumoTipos, ResumoPasso

-----------------------------------------------------------------------------
(* What a step of m leaves of message d.                                   *)
Intacta(d) ==
  /\ passo'[d] = passo[d] /\ falta'[d] = falta[d] /\ lido'[d] = lido[d]
  /\ tipo'[d] = tipo[d] /\ pedido'[d] = pedido[d]

LEMMA OsOutros ==
  ASSUME ConversaTypeOK, NEW m \in Mensagens, Receber(m) \/ Passo(m)
  PROVE /\ \A d \in Mensagens \ {m} : Intacta(d)
        /\ tipo' = tipo
<1>1. CASE Receber(m)
  BY <1>1 DEF Receber, Ir, Intacta, ConversaTypeOK
<1>2. CASE Get(m)
  <2>1. CASE carrinho # Ausente /\ Continuar(m, carrinho)
    BY <1>2, <2>1, ContinuarTipos DEF Get, Intacta, ConversaTypeOK
  <2>2. CASE UNCHANGED <<lido, passo>>
    BY <1>2, <2>2 DEF Get, Intacta, ConversaTypeOK
  <2> QED BY <1>2, <2>1, <2>2 DEF Get
<1>3. CASE SetVazio(m)
  BY <1>3, ContinuarTipos, VazioTipo DEF SetVazio, Intacta, ConversaTypeOK
<1>4. CASE Ouvir(m)
  BY <1>4 DEF Ouvir, Ir, Intacta, ConversaTypeOK
<1>5. CASE Classificar(m)
  BY <1>5 DEF Classificar, Ir, Intacta, ConversaTypeOK
<1>6. CASE Resolver(m)
  BY <1>6 DEF Resolver, Esquecer, Ir, Intacta, ConversaTypeOK
<1>7. CASE Salvar(m)
  BY <1>7 DEF Salvar, Ir, Intacta, ConversaTypeOK
<1>8. CASE Pedir(m)
  BY <1>8 DEF Pedir, Ir, Intacta, ConversaTypeOK
<1>9. CASE Apagar(m) \/ Responder(m)
  BY <1>9 DEF Apagar, Responder, Ir, Intacta, ConversaTypeOK
<1> QED BY <1>1, <1>2, <1>3, <1>4, <1>5, <1>6, <1>7, <1>8, <1>9 DEF Passo

(* A step that writes neither the cart nor an order.  Message m gets, of   *)
(* the cart, at most what is in it.                                        *)
SoLe(m) ==
  /\ UNCHANGED <<carrinho, pedido, reuso, tipo>>
  /\ \A d \in Mensagens \ {m} : Intacta(d) /\ velho'[d] = velho[d]
  /\ passo[m] # "apagar"
  /\ lido'[m].itens \subseteq lido[m].itens \cup NoCarrinho
  /\ passo[m] \in {"guardar", "fim"} => passo'[m] = "fim"

LEMMA SoLeMantem ==
  ASSUME ConversaTypeOK, \A d \in Mensagens : ItemNovo(d) /\ Lido(d) /\ EmLeitura(d),
         ForaDoCarrinho, UmPedidoPorItem,
         NEW m \in Mensagens, SoLe(m), Lido(m)', EmLeitura(m)'
  PROVE /\ \A d \in Mensagens : ItemNovo(d)' /\ Lido(d)' /\ EmLeitura(d)'
        /\ ForaDoCarrinho' /\ UmPedidoPorItem'
<1>0. NoCarrinho' = NoCarrinho
  BY DEF SoLe, NoCarrinho
<1>1. ASSUME NEW d \in Mensagens PROVE ItemNovo(d)'
  <2> SUFFICES ASSUME passo'[d] \notin {"guardar", "fim"}
               PROVE d \notin NoCarrinho' /\ \A k \in Mensagens : d \notin lido'[k].itens \cup pedido'[k]
    BY DEF ItemNovo
  <2>1. passo[d] \notin {"guardar", "fim"}
    BY DEF SoLe, Intacta
  <2>2. d \notin NoCarrinho /\ \A k \in Mensagens : d \notin lido[k].itens \cup pedido[k]
    BY <2>1 DEF ItemNovo
  <2> QED BY <1>0, <2>2 DEF SoLe, Intacta
<1>2. ASSUME NEW d \in Mensagens PROVE Lido(d)' /\ EmLeitura(d)'
  <2>1. CASE d = m
    BY <2>1
  <2>2. CASE d # m
    BY <1>0, <2>2 DEF SoLe, Intacta, Lido, EmLeitura
  <2> QED BY <2>1, <2>2
<1>3. ForaDoCarrinho'
  BY <1>0 DEF SoLe, ForaDoCarrinho, PedidoSemDel, Intacta
<1>4. UmPedidoPorItem'
  BY DEF SoLe, UmPedidoPorItem
<1> QED BY <1>1, <1>2, <1>3, <1>4

LEMMA LeitoresSoLeem ==
  ASSUME ConversaTypeOK, NEW m \in Mensagens, Lido(m), EmLeitura(m),
         \/ Receber(m) \/ Get(m) \/ Ouvir(m) \/ Classificar(m) \/ Resolver(m) \/ Responder(m)
  PROVE SoLe(m) /\ Lido(m)' /\ EmLeitura(m)'
<1>0. /\ \A d \in Mensagens \ {m} : Intacta(d)
      /\ tipo' = tipo /\ UNCHANGED <<carrinho, pedido, reuso>>
  BY OsOutros DEF Passo, Receber, Get, Ouvir, Classificar, Resolver, Responder
<1>a. NoCarrinho' = NoCarrinho
  BY <1>0 DEF NoCarrinho
<1>b. Vazio.itens = {}
  BY DEF Vazio
<1>1. CASE Receber(m)
  <2>1. passo'[m] = "ler" /\ UNCHANGED <<velho, lido, falta>> /\ passo[m] = "nova"
    BY <1>1 DEF Receber, Ir, ConversaTypeOK
  <2> QED BY <1>0, <1>a, <2>1 DEF SoLe, Lido, EmLeitura, Leituras
<1>2. CASE Get(m)
  <2>1. velho' = [velho EXCEPT ![m] = FALSE] /\ passo[m] \in Leituras
    BY <1>2 DEF Get, EmDia
  <2>2. CASE carrinho # Ausente /\ Continuar(m, carrinho) /\ UNCHANGED falta
    <3>1. carrinho \in Carrinhos
      BY <2>2 DEF ConversaTypeOK
    <3>2. /\ passo'[m] \in Depois(m, carrinho)
          /\ lido'[m] = IF UsaLido(passo'[m]) THEN carrinho ELSE Vazio
      BY <2>1, <2>2, <3>1, ContinuarTipos
    <3>3. /\ passo'[m] \in Novos \cup {"guardar", "pedir"}
          /\ passo'[m] = "apagar" => tipo[m] = "limpar"
      BY <2>1, <3>1, <3>2, Destinos
    <3>4. falta'[m] = "nao"
      BY <1>2, <2>2 DEF Get
    <3>5. NoCarrinho = carrinho.itens
      BY <2>2 DEF NoCarrinho
    <3>6. SoLe(m)
      BY <1>0, <1>b, <2>1, <3>2, <3>5 DEF SoLe, Leituras, ConversaTypeOK
    <3>7. passo'[m] \in {"ouvir", "salvar", "pedir"} => lido'[m].itens = NoCarrinho'
      BY <1>a, <3>2, <3>5 DEF UsaLido
    <3> QED BY <1>0, <3>3, <3>4, <3>6, <3>7 DEF Lido, EmLeitura
  <2>3. CASE UNCHANGED <<lido, passo>>
             /\ falta' = [falta EXCEPT ![m] = IF carrinho = Ausente THEN "ausente"
                                                                   ELSE "erro"]
    <3>1. SoLe(m)
      BY <1>0, <2>1, <2>3 DEF SoLe, Leituras, ConversaTypeOK
    <3> QED BY <1>0, <2>1, <2>3, <3>1 DEF Lido, EmLeitura, Leituras, ConversaTypeOK
  <2> QED BY <1>2, <2>2, <2>3 DEF Get
<1>3. CASE Ouvir(m)
  <2>1. lido[m] \in Carrinhos
    BY DEF ConversaTypeOK
  <2>a. PICK p :
          /\ p \in DepoisDeOuvir(m, lido[m]) \/ p \in {"fim"}
          /\ Ir(m, p)
          /\ lido' = [lido EXCEPT ![m] = IF UsaLido(p) THEN @ ELSE Vazio]
          /\ velho' = [velho EXCEPT ![m] = @ /\ p \in {"salvar", "apagar"}]
    BY Zenon, <1>3 DEF Ouvir
  <2>2. p \in Novos \ {"ouvir"} /\ (p = "apagar" => tipo[m] = "limpar")
    BY <2>1, <2>a, Destinos DEF Novos
  <2>3. passo'[m] = p /\ passo[m] = "ouvir" /\ UNCHANGED falta
    BY <1>3, <2>a, <2>2 DEF Ir, Ouvir, ConversaTypeOK
  <2>4. falta[m] = "nao"
    BY <2>3 DEF EmLeitura, Leituras
  <2>5. lido'[m] = IF UsaLido(p) THEN lido[m] ELSE Vazio
    BY <2>a DEF ConversaTypeOK
  <2>6. \A d \in Mensagens \ {m} : velho'[d] = velho[d]
    BY <2>a DEF ConversaTypeOK
  <2>7. p = "salvar" /\ ~velho'[m] => ~velho[m]
    BY Zenon, <2>a DEF ConversaTypeOK
  <2>8. SoLe(m)
    BY <1>0, <1>b, <2>3, <2>5, <2>6 DEF SoLe
  <2> QED BY <1>0, <1>a, <2>2, <2>3, <2>4, <2>5, <2>7, <2>8 DEF Lido, EmLeitura, UsaLido, Novos
<1>4. CASE Classificar(m)
  <2>1. PICK p \in {"resolver", "fim", "reler", "mostrar"} :
          Ir(m, p) /\ lido' = [lido EXCEPT ![m] = IF UsaLido(p) THEN @ ELSE Vazio]
    BY <1>4 DEF Classificar, Classificado
  <2>2. passo'[m] = p /\ passo[m] = "classificar" /\ UNCHANGED <<falta, velho>>
    BY <1>4, <2>1 DEF Ir, Classificar, ConversaTypeOK
  <2>3. lido'[m] \in {lido[m], Vazio} /\ falta[m] = "nao"
    BY <2>1, <2>2 DEF ConversaTypeOK, EmLeitura, Leituras
  <2>4. SoLe(m)
    BY <1>0, <1>b, <2>2, <2>3 DEF SoLe
  <2> QED BY <2>1, <2>2, <2>3, <2>4 DEF Lido, EmLeitura
<1>5. CASE Resolver(m)
  <2>1. UNCHANGED <<falta, velho>> /\ passo[m] = "resolver"
        /\ passo'[m] \in {"resolver", "fim", "reler", "mostrar"}
        /\ lido'[m] \in {lido[m], Vazio}
    <3>1. CASE UNCHANGED <<passo, lido>>
      BY <1>5, <3>1 DEF Resolver
    <3>2. CASE (\E p \in Resolvido(m) : Ir(m, p)) /\ Esquecer(m)
      BY <1>5, <3>2 DEF Resolver, Resolvido, Esquecer, Ir, ConversaTypeOK
    <3> QED BY <1>5, <3>1, <3>2 DEF Resolver
  <2>2. falta[m] = "nao"
    BY <2>1 DEF EmLeitura, Leituras, ConversaTypeOK
  <2>3. SoLe(m)
    BY <1>0, <1>b, <2>1 DEF SoLe
  <2> QED BY <2>1, <2>2, <2>3 DEF Lido, EmLeitura
<1>6. CASE Responder(m)
  <2>1. passo'[m] = "fim" /\ passo[m] = "guardar" /\ UNCHANGED <<velho, lido, falta>>
    BY <1>6 DEF Responder, Ir, ConversaTypeOK
  <2>2. falta[m] = "nao"
    BY <2>1 DEF EmLeitura, Leituras, ConversaTypeOK
  <2>3. SoLe(m)
    BY <1>0, <2>1 DEF SoLe
  <2> QED BY <2>1, <2>2, <2>3 DEF Lido, EmLeitura
<1> QED BY <1>1, <1>2, <1>3, <1>4, <1>5, <1>6

-----------------------------------------------------------------------------
(* The steps that write the cart or an order.                              *)
ConversaInv ==
  /\ \A m \in Mensagens : ItemNovo(m) /\ Lido(m) /\ EmLeitura(m)
  /\ ForaDoCarrinho
  /\ UmPedidoPorItem

LEMMA LidoPelosOutros ==
  ASSUME NEW m \in Mensagens, NEW d \in Mensagens \ {m}, Intacta(d), Lido(d), EmLeitura(d),
         Mudou(m) \/ (carrinho' = carrinho /\ velho'[d] = velho[d])
  PROVE Lido(d)' /\ EmLeitura(d)'
<1>1. EmLeitura(d)'
  BY DEF EmLeitura, Intacta
<1>2. CASE Mudou(m)
  <2>1. ~velho'[d] => ~Exposta(d)
    BY Zenon, <1>2 DEF Mudou
  <2> QED BY <1>1, <2>1 DEF Lido, Intacta, Exposta
<1>3. CASE carrinho' = carrinho /\ velho'[d] = velho[d]
  BY <1>1, <1>3 DEF Lido, Intacta, NoCarrinho
<1> QED BY <1>2, <1>3

LEMMA SetVazioMantem ==
  ASSUME ConversaTypeOK, ConversaInv, NEW m \in Mensagens, SetVazio(m)
  PROVE ConversaInv'
<1>0. /\ \A d \in Mensagens \ {m} : Intacta(d)
      /\ tipo' = tipo /\ UNCHANGED <<pedido, reuso>> /\ passo[m] \in Leituras
  BY OsOutros DEF Passo, SetVazio
<1>1. /\ passo'[m] \in Novos \cup {"guardar", "pedir"}
      /\ passo'[m] = "apagar" => tipo[m] = "limpar"
      /\ lido'[m].itens = {}
  BY <1>0, ContinuarTipos, Destinos, VazioTipo DEF SetVazio, Vazio
<1>2. /\ falta'[m] = "nao"
      /\ \/ carrinho' = Vazio /\ Mudou(m)
         \/ /\ velho' = [velho EXCEPT ![m] = @ \/ falta[m] = "erro"]
            /\ UNCHANGED carrinho
  BY DEF SetVazio, ConversaTypeOK
<1>3. NoCarrinho' \subseteq NoCarrinho
  BY <1>2 DEF NoCarrinho, Vazio, Ausente
<1>4. ASSUME NEW d \in Mensagens PROVE ItemNovo(d)'
  BY <1>0, <1>1, <1>3 DEF ConversaInv, ItemNovo, Intacta, Leituras
<1>5. ASSUME NEW d \in Mensagens \ {m} PROVE Lido(d)' /\ EmLeitura(d)'
  BY <1>0, <1>2, LidoPelosOutros DEF ConversaInv, ConversaTypeOK
<1>6. Lido(m)' /\ EmLeitura(m)'
  <2>1. ~velho'[m] => NoCarrinho' = {}
    <3>1. CASE carrinho' = Vazio
      BY <3>1 DEF NoCarrinho, Vazio
    <3>2. CASE /\ velho' = [velho EXCEPT ![m] = @ \/ falta[m] = "erro"]
               /\ UNCHANGED carrinho
      <4>1. ~velho'[m] => ~velho[m] /\ falta[m] # "erro"
        BY Zenon, <3>2 DEF ConversaTypeOK
      <4>2. falta[m] \in {"ausente", "erro"}
        BY DEF SetVazio, ConversaTypeOK
      <4> QED BY <3>2, <4>1, <4>2 DEF ConversaInv, Lido, NoCarrinho
    <3> QED BY <1>2, <3>1, <3>2
  <2> QED BY <1>0, <1>1, <1>2, <2>1 DEF Lido, EmLeitura
<1>7. ForaDoCarrinho'
  <2>1. \A d \in Mensagens : PedidoSemDel(d) => PedidoSemDel(d)'
    BY <1>0 DEF PedidoSemDel, Intacta, Leituras
  <2> QED BY <1>0, <1>3, <2>1 DEF ConversaInv, ForaDoCarrinho
<1>8. UmPedidoPorItem'
  BY <1>0 DEF ConversaInv, UmPedidoPorItem
<1> QED BY <1>4, <1>5, <1>6, <1>7, <1>8 DEF ConversaInv

LEMMA SalvarMantem ==
  ASSUME ConversaTypeOK, ConversaInv, NEW m \in Mensagens, Salvar(m)
  PROVE ConversaInv'
<1>0. /\ \A d \in Mensagens \ {m} : Intacta(d)
      /\ tipo' = tipo /\ UNCHANGED <<pedido, falta>> /\ passo[m] = "salvar"
  BY OsOutros DEF Passo, Salvar
<1>1. lido'[m].itens = {} /\ falta'[m] = "nao"
  BY <1>0 DEF Salvar, Vazio, ConversaTypeOK, ConversaInv, EmLeitura, Leituras
<1>a. \A d \in Mensagens : PedidoSemDel(d) => PedidoSemDel(d)'
  BY <1>0 DEF PedidoSemDel, Intacta
<1>2. CASE carrinho' = carrinho /\ EmDia(m) /\ UNCHANGED reuso
           /\ Ir(m, IF tipo[m] = "remover" THEN "mostrar" ELSE "fim")
  <2>1. passo'[m] \in {"mostrar", "fim"} /\ NoCarrinho' = NoCarrinho
        /\ \A d \in Mensagens \ {m} : velho'[d] = velho[d]
    BY <1>2 DEF Ir, NoCarrinho, EmDia, ConversaTypeOK
  <2>2. ASSUME NEW d \in Mensagens PROVE ItemNovo(d)'
    BY <1>0, <1>1, <2>1 DEF ConversaInv, ItemNovo, Intacta
  <2>3. ASSUME NEW d \in Mensagens \ {m} PROVE Lido(d)' /\ EmLeitura(d)'
    BY <1>0, <1>2, <2>1, LidoPelosOutros DEF ConversaInv
  <2>4. Lido(m)' /\ EmLeitura(m)'
    BY <1>1, <2>1 DEF Lido, EmLeitura
  <2>5. ForaDoCarrinho' /\ UmPedidoPorItem'
    BY <1>0, <1>2, <1>a, <2>1 DEF ConversaInv, ForaDoCarrinho, UmPedidoPorItem
  <2> QED BY <2>2, <2>3, <2>4, <2>5 DEF ConversaInv
<1>3. ASSUME NEW e \in EstadosSalvos(m), carrinho' = Alterado(m, e), Mudou(m),
             Ir(m, DepoisDeSalvar(m, e)),
             reuso' = (reuso \/ (velho[m] /\ lido[m].itens \cap Pedidos # {}))
      PROVE ConversaInv'
  <2>1. /\ passo'[m] \in {"guardar", "mostrar", "reler", "apagar", "fim"}
        /\ passo'[m] = "apagar" => tipo[m] = "limpar"
        /\ tipo[m] = "adicionar" => passo'[m] = "guardar"
    BY <1>3 DEF Ir, DepoisDeSalvar, ConversaTypeOK
  <2>2. /\ NoCarrinho' \subseteq lido[m].itens \cup {m}
        /\ m \in NoCarrinho' => m \in lido[m].itens \/ tipo[m] = "adicionar"
    BY <1>3, AlteradoTipo DEF NoCarrinho, Carrinhos, Ausente
  <2>3. ASSUME NEW d \in Mensagens PROVE ItemNovo(d)'
    <3> SUFFICES ASSUME passo'[d] \notin {"guardar", "fim"}
                 PROVE /\ d \notin NoCarrinho'
                       /\ \A k \in Mensagens : d \notin lido'[k].itens \cup pedido'[k]
      BY DEF ItemNovo
    <3>1. passo[d] \notin {"guardar", "fim"}
      BY <1>0 DEF Intacta
    <3>2. \A k \in Mensagens : d \notin lido[k].itens \cup pedido[k]
      BY <3>1 DEF ConversaInv, ItemNovo
    <3>3. d \notin NoCarrinho'
      BY <2>1, <2>2, <3>2
    <3> QED BY <1>0, <1>1, <3>2, <3>3 DEF Intacta
  <2>4. ASSUME NEW d \in Mensagens \ {m} PROVE Lido(d)' /\ EmLeitura(d)'
    BY <1>0, <1>3, LidoPelosOutros DEF ConversaInv
  <2>5. Lido(m)' /\ EmLeitura(m)'
    BY <1>0, <1>1, <2>1 DEF Lido, EmLeitura
  <2>6. ASSUME ~reuso' PROVE ~reuso /\ (velho[m] => lido[m].itens \cap Pedidos = {})
    BY Zenon, <1>3, <2>6
  <2>7. ForaDoCarrinho'
    <3> SUFFICES ASSUME ~reuso', NEW d \in Mensagens, NEW x \in NoCarrinho', x \in pedido'[d]
                 PROVE PedidoSemDel(d)'
      BY DEF ForaDoCarrinho
    <3>1. x \in pedido[d] /\ x \in Pedidos
      BY <1>0 DEF Pedidos
    <3>2. m \notin pedido[d]
      BY <1>0 DEF ConversaInv, ItemNovo
    <3>3. x \in lido[m].itens
      BY <2>2, <3>1, <3>2
    <3>4. ~velho[m]
      BY <2>6, <3>1, <3>3
    <3>5. x \in NoCarrinho
      BY <1>0, <3>3, <3>4 DEF ConversaInv, Lido
    <3> QED BY <1>a, <2>6, <3>1, <3>5 DEF ConversaInv, ForaDoCarrinho
  <2>8. UmPedidoPorItem'
    BY <1>0, <2>6 DEF ConversaInv, UmPedidoPorItem
  <2> QED BY <2>3, <2>4, <2>5, <2>7, <2>8 DEF ConversaInv
<1> QED BY <1>2, <1>3 DEF Salvar

LEMMA PedirMantem ==
  ASSUME ConversaTypeOK, ConversaInv, NEW m \in Mensagens, Pedir(m)
  PROVE ConversaInv'
<1>0. /\ \A d \in Mensagens \ {m} : Intacta(d)
      /\ tipo' = tipo /\ UNCHANGED <<carrinho, falta>> /\ passo[m] = "pedir"
      /\ NoCarrinho' = NoCarrinho
  BY OsOutros DEF Passo, Pedir, NoCarrinho
<1>1. lido'[m].itens = {} /\ falta'[m] = "nao"
  BY <1>0 DEF Pedir, Vazio, ConversaTypeOK, ConversaInv, EmLeitura, Leituras
<1>2. /\ passo'[m] \in {"apagar", "fim"}
      /\ \A d \in Mensagens \ {m} : velho'[d] = velho[d]
      /\ pedido'[m] \subseteq pedido[m] \cup lido[m].itens
  BY DEF Pedir, Ir, EmDia, ConversaTypeOK
<1>3. ASSUME NEW d \in Mensagens PROVE ItemNovo(d)'
  <2> SUFFICES ASSUME passo'[d] \notin {"guardar", "fim"}
               PROVE /\ d \notin NoCarrinho'
                     /\ \A k \in Mensagens : d \notin lido'[k].itens \cup pedido'[k]
    BY DEF ItemNovo
  <2>1. d \notin NoCarrinho /\ \A k \in Mensagens : d \notin lido[k].itens \cup pedido[k]
    BY <1>0, <1>2 DEF ConversaInv, ItemNovo, Intacta
  <2> QED BY <1>0, <1>1, <1>2, <2>1 DEF Intacta
<1>4. ASSUME NEW d \in Mensagens \ {m} PROVE Lido(d)' /\ EmLeitura(d)'
  BY <1>0, <1>2, LidoPelosOutros DEF ConversaInv
<1>5. CASE /\ pedido' = [pedido EXCEPT ![m] = lido[m].itens]
           /\ Ir(m, "apagar")
           /\ reuso' = (reuso \/ velho[m] \/ \E d \in Mensagens \ {m} : PedidoSemDel(d))
           /\ UNCHANGED velho
  <2>1. pedido'[m] = lido[m].itens /\ passo'[m] = "apagar"
    BY <1>5 DEF Ir, ConversaTypeOK
  <2>2. ~velho[m] => lido[m].itens = NoCarrinho
    BY <1>0 DEF ConversaInv, Lido
  <2>3. Lido(m)' /\ EmLeitura(m)'
    BY <1>0, <1>1, <1>5, <2>1, <2>2 DEF Lido, EmLeitura
  <2>4. ASSUME ~reuso'
        PROVE ~reuso /\ ~velho[m] /\ \A d \in Mensagens \ {m} : ~PedidoSemDel(d)
    BY Zenon, <1>5, <2>4
  <2>5. ASSUME ~reuso', NEW d \in Mensagens \ {m} PROVE NoCarrinho \cap pedido[d] = {}
    BY <2>4, <2>5 DEF ConversaInv, ForaDoCarrinho
  <2>6. ForaDoCarrinho'
    <3> SUFFICES ASSUME ~reuso', NEW d \in Mensagens, NoCarrinho' \cap pedido'[d] # {}
                 PROVE PedidoSemDel(d)'
      BY DEF ForaDoCarrinho
    <3>1. d = m
      BY <1>0, <2>5 DEF Intacta
    <3> QED BY <2>1, <3>1 DEF PedidoSemDel
  <2>7. UmPedidoPorItem'
    <3> SUFFICES ASSUME ~reuso', NEW d \in Mensagens, NEW k \in Mensagens, d # k
                 PROVE pedido'[d] \cap pedido'[k] = {}
      BY DEF UmPedidoPorItem
    <3>1. CASE d # m /\ k # m
      BY <1>0, <2>4, <3>1 DEF ConversaInv, UmPedidoPorItem, Intacta
    <3>2. CASE d = m
      BY <1>0, <2>1, <2>2, <2>4, <2>5, <3>2 DEF Intacta
    <3>3. CASE k = m
      BY <1>0, <2>1, <2>2, <2>4, <2>5, <3>3 DEF Intacta
    <3> QED BY <3>1, <3>2, <3>3
  <2> QED BY <1>3, <1>4, <2>3, <2>6, <2>7 DEF ConversaInv
<1>6. CASE Ir(m, "fim") /\ (reuso' = TRUE \/ UNCHANGED <<pedido, reuso>>)
  <2>1. passo'[m] = "fim"
    BY <1>6 DEF Ir, ConversaTypeOK
  <2>2. Lido(m)' /\ EmLeitura(m)'
    BY <1>1, <2>1 DEF Lido, EmLeitura
  <2>3. ForaDoCarrinho' /\ UmPedidoPorItem'
    BY <1>0, <1>6 DEF ConversaInv, ForaDoCarrinho, UmPedidoPorItem, PedidoSemDel, Intacta
  <2> QED BY <1>3, <1>4, <2>2, <2>3 DEF ConversaInv
<1> QED BY <1>5, <1>6 DEF Pedir

LEMMA ApagarMantem ==
  ASSUME ConversaTypeOK, ConversaInv, NEW m \in Mensagens, Apagar(m)
  PROVE ConversaInv'
<1>0. /\ \A d \in Mensagens \ {m} : Intacta(d)
      /\ tipo' = tipo /\ UNCHANGED <<pedido, falta, lido>> /\ passo[m] = "apagar"
      /\ passo'[m] = "fim"
  BY OsOutros DEF Passo, Apagar, Ir, ConversaTypeOK
<1>1. falta'[m] = "nao"
  BY <1>0 DEF ConversaTypeOK, ConversaInv, EmLeitura, Leituras
<1>2. \/ carrinho' = Ausente /\ Mudou(m) /\ UNCHANGED reuso
      \/ reuso' = (reuso \/ PedidoSemDel(m)) /\ EmDia(m) /\ UNCHANGED carrinho
  BY DEF Apagar
<1>3. NoCarrinho' \subseteq NoCarrinho
  BY <1>2 DEF NoCarrinho
<1>4. ASSUME NEW d \in Mensagens PROVE ItemNovo(d)'
  BY <1>0, <1>3 DEF ConversaInv, ItemNovo, Intacta
<1>5. ASSUME NEW d \in Mensagens \ {m} PROVE Lido(d)' /\ EmLeitura(d)'
  BY <1>0, <1>2, LidoPelosOutros DEF ConversaInv, EmDia, ConversaTypeOK
<1>6. Lido(m)' /\ EmLeitura(m)'
  BY <1>0, <1>1 DEF Lido, EmLeitura
<1>7. ForaDoCarrinho'
  <2> SUFFICES ASSUME ~reuso', NEW d \in Mensagens, NoCarrinho' \cap pedido'[d] # {}
               PROVE PedidoSemDel(d)'
    BY DEF ForaDoCarrinho
  <2>1. ~reuso /\ ~PedidoSemDel(m)
    <3>1. carrinho' # Ausente
      BY DEF NoCarrinho
    <3>2. reuso' = (reuso \/ PedidoSemDel(m))
      BY <1>2, <3>1
    <3> QED BY Zenon, <3>2
  <2>2. PedidoSemDel(d)
    BY <1>0, <1>3, <2>1 DEF ConversaInv, ForaDoCarrinho
  <2> QED BY <1>0, <2>1, <2>2 DEF PedidoSemDel, Intacta
<1>8. UmPedidoPorItem'
  <2>1. ASSUME ~reuso' PROVE ~reuso
    BY Zenon, <1>2, <2>1
  <2> QED BY <1>0, <2>1 DEF ConversaInv, UmPedidoPorItem
<1> QED BY <1>4, <1>5, <1>6, <1>7, <1>8 DEF ConversaInv

LEMMA ExpirarMantem ==
  ASSUME ConversaTypeOK, ConversaInv, Expirar
  PROVE ConversaInv'
<1>1. NoCarrinho' = {} /\ UNCHANGED <<tipo, passo, falta, lido, pedido, reuso>>
  BY DEF Expirar, NoCarrinho
<1>2. ASSUME NEW d \in Mensagens PROVE Lido(d)'
  <2>1. ~velho'[d] => ~Exposta(d)
    BY Zenon DEF Expirar
  <2> QED BY <1>1, <2>1 DEF Lido, Exposta
<1> QED
  BY <1>1, <1>2 DEF ConversaInv, ItemNovo, EmLeitura, ForaDoCarrinho, UmPedidoPorItem

LEMMA ReiniciarMantem ==
  ASSUME ConversaTypeOK, ConversaInv, Reiniciar
  PROVE ConversaInv'
<1>1. /\ NoCarrinho' = NoCarrinho /\ UNCHANGED <<tipo, pedido>>
      /\ \A d \in Mensagens : /\ lido'[d] = Vazio /\ falta'[d] = "nao"
                              /\ passo'[d] \in {"nova", "fim"}
                              /\ passo'[d] = "fim" \/ passo[d] = "nova"
  BY DEF Reiniciar, NoCarrinho, EmCurso
<1>2. \A d \in Mensagens : ItemNovo(d)' /\ Lido(d)' /\ EmLeitura(d)'
  BY <1>1 DEF ConversaInv, ItemNovo, Lido, EmLeitura, Vazio
<1>3. ASSUME ~reuso' PROVE ~reuso /\ \A d \in Mensagens : ~PedidoSemDel(d)
  BY Zenon, <1>3 DEF Reiniciar
<1> QED BY <1>1, <1>2, <1>3 DEF ConversaInv, ForaDoCarrinho, UmPedidoPorItem

LEMMA ConversaMantem ==
  ASSUME ConversaTypeOK, ConversaInv, [Next]_vars PROVE ConversaInv'
<1>1. ASSUME UNCHANGED conversa PROVE ConversaInv'
  BY <1>1 DEF conversa, ConversaInv, ItemNovo, Lido, EmLeitura, ForaDoCarrinho,
              UmPedidoPorItem, NoCarrinho, PedidoSemDel
<1>2. ASSUME NEW m \in Mensagens,
             \/ Receber(m) \/ Get(m) \/ Ouvir(m) \/ Classificar(m) \/ Resolver(m)
             \/ Responder(m)
      PROVE ConversaInv'
  BY <1>2, LeitoresSoLeem, SoLeMantem DEF ConversaInv
<1> QED
  BY <1>1, <1>2, SetVazioMantem, SalvarMantem, PedirMantem, ApagarMantem, ExpirarMantem,
     ReiniciarMantem DEF Next, Passo, vars

-----------------------------------------------------------------------------
LEMMA InitInv == ASSUME Init PROVE IInv
<1>1. ResumoTypeOK /\ LeuResumo /\ ResumoAguarda
  BY DEF Init, ResumoInit, ResumoTypeOK, LeuResumo, ResumoAguarda, Espera, Estagios
<1>2. ConversaTypeOK
  <2>1. velho \in [Mensagens -> BOOLEAN] /\ reuso \in BOOLEAN
    BY Zenon DEF Init
  <2>2. carrinho \in Carrinhos \cup {Ausente}
    BY DEF Init, Carrinhos, Itens
  <2>3. tentativa \in [Mensagens -> 0..(MaxTentativas - 1)]
    BY TentativasAssumption DEF Init
  <2>4. meio \in [Mensagens -> Meios]
    BY DEF Init
  <2> QED BY <2>1, <2>2, <2>3, <2>4, VazioTipo DEF Init, ConversaTypeOK, Passos
<1>3. NoCarrinho \subseteq {Inicial}
  BY DEF Init, NoCarrinho, Ausente
<1>4. ConversaInv
  BY <1>3, InicialAssumption
  DEF Init, ConversaInv, ItemNovo, Lido, EmLeitura, ForaDoCarrinho, UmPedidoPorItem, Vazio
<1> QED BY <1>1, <1>2, <1>4 DEF IInv, TypeOK, ConversaTypeOK, ConversaInv

LEMMA NextInv == ASSUME IInv, [Next]_vars PROVE IInv'
<1>1. ResumoTypeOK /\ ConversaTypeOK /\ ConversaInv /\ LeuResumo /\ ResumoAguarda
  BY DEF IInv, TypeOK, ConversaTypeOK, ConversaInv
<1>2. ResumoTypeOK' /\ LeuResumo' /\ ResumoAguarda'
  BY <1>1, NextResumo
<1>3. ConversaTypeOK'
  BY <1>1, ConversaTipos
<1>4. ConversaInv'
  BY <1>1, ConversaMantem
<1> QED BY <1>2, <1>3, <1>4 DEF IInv, TypeOK, ConversaTypeOK, ConversaInv

(* Between any two calls that messages of one client make to Redis, to the *)
(* LLM and to the orders, the conjuncts of IInv hold.                      *)
THEOREM ConversaInvariante == Spec => []IInv
<1>1. Init => IInv
  BY InitInv
<1>2. IInv /\ [Next]_vars => IInv'
  BY NextInv
<1> QED BY <1>1, <1>2, PTL DEF Spec

(* Every variable keeps its type.                                          *)
THEOREM ConversaTipada == Spec => []TypeOK
BY ConversaInvariante, PTL DEF IInv

(* However messages overlap, an item is in two orders only if the cart of  *)
(* an order outlived it in one of the ways UmPedidoPorItem lists.          *)
THEOREM NenhumItemDuasVezes == Spec => []UmPedidoPorItem
BY ConversaInvariante, PTL DEF IInv

(* The summary stored last is sent by the time no goroutine is left, for   *)
(* any number of goroutines, unless something happened that may cost it.   *)
THEOREM UltimoResumoChega == Spec => []ResumoChega
<1>1. IInv => ResumoChega
  BY DEF IInv, ResumoAguarda, Espera, ResumoChega
<1> QED BY <1>1, ConversaInvariante, PTL

(* An item leaves the cart only for a cause ItemSaiComCausa names: the     *)
(* user's own, the expiry, or a read made old by another message.          *)
THEOREM NadaSomeSemCausa == Spec => ItemSaiComCausa
<1> DEFINE Causa(i) ==
       \/ Expirar
       \/ \E m \in Mensagens :
            \/ passo[m] = "salvar" /\ velho[m]
            \/ passo[m] = "salvar" /\ tipo[m] = "remover" /\ i = Inicial
            \/ passo[m] = "apagar" /\ (velho[m] \/ tipo[m] = "limpar"
                                                \/ i \in pedido[m])
            \/ falta[m] = "erro"
            \/ falta[m] = "ausente" /\ velho[m]
<1>1. ASSUME IInv, [Next]_vars, NEW i \in NoCarrinho \ NoCarrinho' PROVE Causa(i)
  <2>0. ConversaTypeOK /\ ConversaInv
    BY <1>1 DEF IInv, TypeOK, ConversaTypeOK, ConversaInv
  <2>1. ASSUME UNCHANGED carrinho PROVE FALSE
    BY <1>1, <2>1 DEF NoCarrinho
  <2>2. ASSUME NEW m \in Mensagens, SetVazio(m) PROVE Causa(i)
    <3>1. falta[m] \in {"ausente", "erro"}
      BY <2>0, <2>2 DEF SetVazio, ConversaTypeOK
    <3>2. falta[m] = "ausente" => velho[m]
      BY <1>1, <2>0 DEF ConversaInv, Lido, NoCarrinho
    <3> QED BY <3>1, <3>2
  <2>3. ASSUME NEW m \in Mensagens, Salvar(m) PROVE Causa(i)
    <3>1. PICK e \in EstadosSalvos(m) : carrinho' = Alterado(m, e)
      BY <2>1, <2>3 DEF Salvar
    <3>2. Alterado(m, e) \in Carrinhos /\ Alterado(m, e).itens =
             CASE tipo[m] = "adicionar" -> lido[m].itens \cup {m}
               [] tipo[m] = "remover" -> lido[m].itens \ {Inicial}
               [] OTHER -> lido[m].itens
      BY <2>0, AlteradoTipo
    <3>3. NoCarrinho' = Alterado(m, e).itens
      BY <3>1, <3>2 DEF NoCarrinho, Carrinhos, Ausente
    <3>4. ~velho[m] => lido[m].itens = NoCarrinho
      BY <2>0, <2>3 DEF Salvar, ConversaInv, Lido
    <3> QED BY <1>1, <2>3, <3>2, <3>3, <3>4 DEF Salvar
  <2>4. ASSUME NEW m \in Mensagens, Apagar(m) PROVE Causa(i)
    BY <1>1, <2>0, <2>4 DEF Apagar, ConversaInv, Lido
  <2> QED
    BY <1>1, <2>1, <2>2, <2>3, <2>4
    DEF Next, Passo, Receber, Get, Ouvir, Classificar, Resolver, Pedir, Responder,
        ResumoNext, Expirar, Reiniciar, conversa, vars
<1>2. IInv /\ [Next]_vars => [\A i \in NoCarrinho \ NoCarrinho' : Causa(i)]_carrinho
  BY <1>1
<1> QED BY <1>2, ConversaInvariante, PTL DEF Spec, ItemSaiComCausa
=============================================================================
