------------------------------- MODULE Resumo -------------------------------
(***************************************************************************)
(* The debounce of the cart summary (sendCartResponse).  A message whose   *)
(* answer is a summary stores it under a key of the client and tries a     *)
(* lock; the one that gets the lock starts a goroutine that sleeps two     *)
(* seconds, sends the summary it then finds under the key, and deletes the *)
(* key and the lock.  Both keys live five seconds.  Every call may fail,   *)
(* and every error is dropped.                                             *)
(***************************************************************************)
CONSTANT Mensagens    \* messages of one client

Nenhuma == "nenhuma"  \* no message

ASSUME MensagensAssumption == Nenhuma \notin Mensagens

Estagios == {"parada", "travar", "dormir", "enviar", "apagarResumo",
             "apagarTrava"}

VARIABLES
  resumo,     \* the message whose summary is under the key, or Nenhuma
  trava,      \* the lock stands
  rotina,     \* rotina[m]: what the message or its goroutine does next
  leu,        \* leu[m]: the summary its goroutine found
  ultimo,     \* history: the message that stored its summary last
  enviados,   \* history: messages whose summaries were sent
  desvio      \* history: something happened that may cost a summary

resumos == <<resumo, trava, rotina, leu, ultimo, enviados, desvio>>

ResumoTypeOK ==
  /\ resumo \in Mensagens \cup {Nenhuma}
  /\ trava \in BOOLEAN
  /\ rotina \in [Mensagens -> Estagios]
  /\ leu \in [Mensagens -> Mensagens \cup {Nenhuma}]
  /\ ultimo \in Mensagens \cup {Nenhuma}
  /\ enviados \subseteq Mensagens
  /\ desvio \in BOOLEAN

ResumoInit ==
  /\ resumo = Nenhuma /\ trava = FALSE
  /\ rotina = [m \in Mensagens |-> "parada"]
  /\ leu = [m \in Mensagens |-> Nenhuma]
  /\ ultimo = Nenhuma /\ enviados = {} /\ desvio = FALSE

Vai(m, e) == rotina' = [rotina EXCEPT ![m] = e]

Dormindo == \E g \in Mensagens : rotina[g] = "dormir"
Atrasada == \E g \in Mensagens : rotina[g] \in {"enviar", "apagarResumo"}
Ativa    == \E g \in Mensagens :
              rotina[g] \in {"dormir", "enviar", "apagarResumo", "apagarTrava"}

(* SET of the summary; on an error nothing else is done.  A goroutine that *)
(* has read the key already is going to delete this one unseen.            *)
GuardarResumo(m) ==
  /\ rotina[m] = "parada"
  /\ \/ /\ resumo' = m /\ ultimo' = m
        /\ Vai(m, "travar")
        /\ desvio' = (desvio \/ Atrasada)
     \/ UNCHANGED <<resumo, ultimo, rotina, desvio>>
  /\ UNCHANGED <<trava, leu, enviados>>

(* SETNX of the lock.  Without it the summary waits for the goroutine that *)
(* holds the lock, which must still be asleep to see it.                   *)
Travar(m) ==
  /\ rotina[m] = "travar"
  /\ \/ /\ ~trava /\ trava' = TRUE
        /\ Vai(m, "dormir")
        /\ UNCHANGED desvio
     \/ /\ trava
        /\ Vai(m, "parada")
        /\ desvio' = (desvio \/ ~Dormindo)
        /\ UNCHANGED trava
     \/ /\ Vai(m, "parada") /\ desvio' = TRUE
        /\ UNCHANGED trava
  /\ UNCHANGED <<resumo, leu, ultimo, enviados>>

(* Mutant: the goroutine sends the summary it was started with.            *)
AcordarComOPrimeiro(m) ==
  /\ rotina[m] = "dormir"
  /\ Vai(m, "enviar")
  /\ leu' = [leu EXCEPT ![m] = m]
  /\ UNCHANGED <<resumo, trava, ultimo, enviados, desvio>>

(* GET after the sleep; nothing there, or an error, and nothing is sent.   *)
Acordar(m) ==
  /\ rotina[m] = "dormir"
  /\ \/ /\ resumo # Nenhuma
        /\ Vai(m, "enviar")
        /\ leu' = [leu EXCEPT ![m] = resumo]
        /\ UNCHANGED desvio
     \/ /\ Vai(m, "apagarResumo")
        /\ desvio' = (desvio \/ resumo # Nenhuma)
        /\ UNCHANGED leu
  /\ UNCHANGED <<resumo, trava, ultimo, enviados>>

Enviar(m) ==
  /\ rotina[m] = "enviar"
  /\ \/ enviados' = enviados \cup {leu[m]} /\ UNCHANGED desvio
     \/ desvio' = TRUE /\ UNCHANGED enviados
  /\ leu' = [leu EXCEPT ![m] = Nenhuma]
  /\ Vai(m, "apagarResumo")
  /\ UNCHANGED <<resumo, trava, ultimo>>

(* DEL of the key, then of the lock, or their errors.                      *)
ApagarResumo(m) ==
  /\ rotina[m] = "apagarResumo"
  /\ resumo' \in {resumo, Nenhuma}
  /\ Vai(m, "apagarTrava")
  /\ UNCHANGED <<trava, leu, ultimo, enviados, desvio>>

ApagarTrava(m) ==
  /\ rotina[m] = "apagarTrava"
  /\ trava' \in {trava, FALSE}
  /\ Vai(m, "parada")
  /\ UNCHANGED <<resumo, leu, ultimo, enviados, desvio>>

(* Five seconds pass: an unsent summary is lost, a lock no longer keeps a  *)
(* second goroutine from starting beside the first.                        *)
VencerResumo ==
  /\ resumo # Nenhuma
  /\ resumo' = Nenhuma
  /\ desvio' = (desvio \/ resumo \notin enviados)
  /\ UNCHANGED <<trava, rotina, leu, ultimo, enviados>>

VencerTrava ==
  /\ trava /\ trava' = FALSE
  /\ desvio' = (desvio \/ Ativa)
  /\ UNCHANGED <<resumo, rotina, leu, ultimo, enviados>>

(* The server stops: goroutines are gone, the keys stay.                   *)
ReiniciarResumo ==
  /\ rotina' = [m \in Mensagens |-> "parada"]
  /\ leu' = [m \in Mensagens |-> Nenhuma]
  /\ desvio' = (desvio \/ \E m \in Mensagens : rotina[m] # "parada")
  /\ UNCHANGED <<resumo, trava, ultimo, enviados>>

PassoDaRotina(m) ==
  Travar(m) \/ Acordar(m) \/ Enviar(m) \/ ApagarResumo(m) \/ ApagarTrava(m)

ResumoNext ==
  \/ \E m \in Mensagens : PassoDaRotina(m)
  \/ VencerResumo \/ VencerTrava

-----------------------------------------------------------------------------
(* When no goroutine is left, the summary stored last was sent, unless a   *)
(* call failed, a key expired too early, the server stopped, or it was     *)
(* stored while a goroutine stood between its GET and its last DELETE.     *)
ResumoChega ==
  /\ \A m \in Mensagens : rotina[m] = "parada"
  /\ ultimo # Nenhuma /\ ~desvio
  => ultimo \in enviados
=============================================================================
