-------------------------- MODULE LimitadorProofs --------------------------
(***************************************************************************)
(* Proofs about Limitador, for any requests, keys, limits, windows and     *)
(* entries in memory.                                                      *)
(***************************************************************************)
EXTENDS Limitador, TLAPS

Contagens == [count : Nat, resetTime : Tempos]

LEMMA LimitePositivo == ASSUME NEW k \in Chaves PROVE Limite(k) \in Nat \ {0}
BY PadraoAssumption, SobrescritasAssumption DEF Limite

LEMMA ChaveNulaTipo == ChaveNula \in Chaves
BY ChavesAssumption DEF ChaveNula

LEMMA NovaTipo == ASSUME agora \in 0..MaxTempo PROVE Nova \in Contagens
BY TempoAssumption DEF Nova, Contagens, Tempos

LEMMA FrescaLivre == ASSUME Livres # {} PROVE Fresca \in Livres
BY DEF Fresca

LEMMA AdmitirTipos ==
  ASSUME TypeOK, NEW k \in Chaves, Admitir(k)
  PROVE /\ ideal' \in [Chaves -> Contagens]
        /\ ideal'[k] = IF agora > ideal[k].resetTime \/ ideal[k].count = 0 THEN Nova
                       ELSE [count |-> ideal[k].count + 1, resetTime |-> ideal[k].resetTime]
        /\ \A j \in Chaves \ {k} : ideal'[j] = ideal[j]
<1>1. Nova \in Contagens
  BY NovaTipo DEF TypeOK
<1>2. ideal \in [Chaves -> Contagens]
  BY DEF TypeOK, Contagens
<1>3. [count |-> ideal[k].count + 1, resetTime |-> ideal[k].resetTime] \in Contagens
  BY <1>2 DEF Contagens
<1> QED BY <1>1, <1>2, <1>3 DEF Admitir

(* Type correctness.                                                       *)
LEMMA InitTipos == Init => TypeOK
<1>1. Zerada \in Contagens /\ 0 \in 0..MaxTempo
  BY TempoAssumption DEF Zerada, Contagens, Tempos
<1>2. ASSUME Init PROVE TypeOK
  <2>1. /\ limpando \in BOOLEAN
        /\ dupla \in [Chaves -> BOOLEAN] /\ perdoada \in [Chaves -> BOOLEAN]
    BY Zenon, <1>2 DEF Init
  <2> QED BY <1>1, <1>2, <2>1, ChaveNulaTipo DEF Init, TypeOK, Contagens
<1> QED BY <1>2

LEMMA RenovarTipos ==
  ASSUME TypeOK, NEW p \in Pedidos, passo[p] = "usar", Renovar(p)
  PROVE /\ entrada' \in [Entradas -> Contagens] /\ ideal' \in [Chaves -> Contagens]
        /\ passo' = [passo EXCEPT ![p] = "aceito"]
        /\ dupla' \in [Chaves -> BOOLEAN] /\ perdoada' \in [Chaves -> BOOLEAN]
<1>1. chave[p] \in Chaves /\ Nova \in Contagens /\ entrada \in [Entradas -> Contagens]
  BY NovaTipo DEF TypeOK, Contagens
<1>2. ideal' \in [Chaves -> Contagens]
  BY <1>1, AdmitirTipos DEF Renovar
<1>3. entrada' \in [Entradas -> Contagens] /\ passo' = [passo EXCEPT ![p] = "aceito"]
  BY <1>1 DEF Renovar
<1>4. dupla' \in [Chaves -> BOOLEAN]
  BY Zenon DEF TypeOK, Renovar
<1>5. perdoada' \in [Chaves -> BOOLEAN]
  BY Zenon DEF TypeOK, Renovar
<1> QED BY <1>2, <1>3, <1>4, <1>5

LEMMA NextTipos == ASSUME TypeOK, [Next]_vars PROVE TypeOK'
<1> USE DEF marcas
<1>0. /\ agora \in Nat /\ Nova \in Contagens
      /\ entrada \in [Entradas -> Contagens] /\ ideal \in [Chaves -> Contagens]
  BY NovaTipo, TempoAssumption DEF TypeOK, Contagens
<1>1. ASSUME NEW p \in Pedidos, Procurar(p) PROVE TypeOK'
  BY <1>1 DEF TypeOK, Procurar
<1>2. ASSUME NEW p \in Pedidos, Criar(p) PROVE TypeOK'
  <2>1. chave[p] \in Chaves /\ Fresca \in Entradas
    BY <1>2, FrescaLivre DEF TypeOK, Criar, Livres
  <2>2. ideal' \in [Chaves -> Contagens]
    BY <1>2, <2>1, AdmitirTipos DEF Criar
  <2>3. entrada' \in [Entradas -> Contagens] /\ limits' \in [Chaves -> Entradas \cup {Nula}]
    BY <1>0, <1>2, <2>1 DEF TypeOK, Criar
  <2>4. passo' \in [Pedidos -> {"livre", "criar", "usar", "aceito", "negado"}]
    BY <1>2 DEF TypeOK, Criar
  <2>5. dupla' \in [Chaves -> BOOLEAN]
    BY Zenon, <1>2 DEF TypeOK, Criar
  <2>6. perdoada' \in [Chaves -> BOOLEAN]
    BY Zenon, <1>2 DEF TypeOK, Criar
  <2> QED BY <1>2, <2>2, <2>3, <2>4, <2>5, <2>6 DEF TypeOK, Criar, Contagens
<1>3. ASSUME NEW p \in Pedidos, Usar(p) PROVE TypeOK'
  <2>1. chave[p] \in Chaves /\ passo[p] = "usar"
    BY <1>3 DEF TypeOK, Usar
  <2>2. CASE Renovar(p)
    BY <1>3, <2>1, <2>2, RenovarTipos DEF TypeOK, Usar, Contagens
  <2>3. CASE passo' = [passo EXCEPT ![p] = "negado"] /\ UNCHANGED <<entrada, ideal, marcas>>
    BY <1>3, <2>3 DEF TypeOK, Usar
  <2>4. CASE /\ entrada' = [entrada EXCEPT ![achada[p]].count = @ + 1]
             /\ passo' = [passo EXCEPT ![p] = "aceito"]
             /\ Admitir(chave[p]) /\ UNCHANGED marcas
    <3>1. ideal' \in [Chaves -> Contagens]
      BY <2>1, <2>4, AdmitirTipos
    <3>2. entrada' \in [Entradas -> Contagens]
      <4>1. entrada' = [entrada EXCEPT ![achada[p]].count = @ + 1]
        BY <2>4
      <4>2. CASE achada[p] \in Entradas
        <5>1. [count |-> entrada[achada[p]].count + 1,
               resetTime |-> entrada[achada[p]].resetTime] \in Contagens
          BY <1>0, <4>2 DEF Contagens
        <5>2. entrada'[achada[p]] = [count |-> entrada[achada[p]].count + 1,
                                     resetTime |-> entrada[achada[p]].resetTime]
          BY <1>0, <4>1, <4>2 DEF Contagens
        <5>3. /\ entrada' = [f \in Entradas |-> entrada'[f]]
              /\ \A f \in Entradas \ {achada[p]} : entrada'[f] = entrada[f]
          BY <1>0, <4>1, <4>2
        <5> QED BY <1>0, <5>1, <5>2, <5>3
      <4>3. CASE achada[p] \notin Entradas
        <5>1. entrada' = entrada
          BY <1>0, <4>1, <4>3
        <5> QED BY <1>0, <5>1
      <4> QED BY <4>2, <4>3
    <3> QED BY <1>3, <2>4, <3>1, <3>2 DEF TypeOK, Usar, Contagens
  <2> QED BY <1>3, <2>2, <2>3, <2>4 DEF Usar
<1>4. ASSUME NEW p \in Pedidos, Responder(p) PROVE TypeOK'
  BY <1>4, ChaveNulaTipo DEF TypeOK, Responder
<1>5. CASE Limpar
  BY <1>5 DEF TypeOK, Limpar
<1>6. ASSUME NEW k \in Chaves, Varrer(k) PROVE TypeOK'
  BY <1>6 DEF TypeOK, Varrer
<1>7. CASE Soltar
  <2>1. limpando' \in BOOLEAN
    BY Zenon, <1>7 DEF Soltar
  <2>2. instante' \in 0..MaxTempo
    BY <1>7, TempoAssumption DEF Soltar
  <2> QED BY <1>7, <2>1, <2>2 DEF TypeOK, Soltar
<1>8. CASE Tique
  BY <1>8, TempoAssumption DEF TypeOK, Tique
<1>9. CASE UNCHANGED vars
  BY <1>9 DEF TypeOK, vars
<1> QED BY <1>1, <1>2, <1>3, <1>4, <1>5, <1>6, <1>7, <1>8, <1>9 DEF Next

(* The variables of the limiter keep their types: the goroutines and the   *)
(* ticker of Cleanup never leave an entry without a count or a window.     *)
THEOREM LimitadorTipado == Spec => []TypeOK
BY InitTipos, NextTipos, PTL DEF Spec

-----------------------------------------------------------------------------
(* An entry in the map belongs to one key, and so does the one a request   *)
(* holds, however long ago Cleanup or another request took it out.  One    *)
(* that is about to count has found an entry.                              *)
UmaChavePorEntrada ==
  /\ \A j, k \in Chaves : limits[j] = limits[k] /\ limits[j] # Nula => j = k
  /\ \A p \in Pedidos, k \in Chaves :
       limits[k] = achada[p] /\ limits[k] # Nula => chave[p] = k
  /\ \A p, q \in Pedidos :
       achada[p] = achada[q] /\ achada[p] # Nula => chave[p] = chave[q]
  /\ \A p \in Pedidos : passo[p] = "usar" => achada[p] # Nula

(* Cleanup compares with a time that has passed, and what it has yet to    *)
(* visit is in the map.                                                    *)
VarreOPassado ==
  /\ instante <= agora
  /\ limpando \/ varrendo = {}
  /\ \A k \in varrendo : limits[k] # Nula

(* No entry counts past the limit of its key.                              *)
NoLimite ==
  /\ \A k \in Chaves : limits[k] # Nula => entrada[limits[k]].count <= Limite(k)
  /\ \A p \in Pedidos : achada[p] # Nula => entrada[achada[p]].count <= Limite(chave[p])

(* Unless the key is marked, the entry in the map holds the count of the   *)
(* window, when there is none the last window is over, and a request holds *)
(* that entry or one that has expired.                                     *)
Confere(k) ==
  IF limits[k] = Nula THEN ideal[k].count = 0 \/ agora > ideal[k].resetTime
  ELSE entrada[limits[k]] = ideal[k] /\ ideal[k].count > 0

Velhas(k) ==
  \A p \in Pedidos : passo[p] = "usar" /\ chave[p] = k =>
    achada[p] = limits[k] \/ agora > entrada[achada[p]].resetTime

Marcada(k) == dupla[k] \/ perdoada[k]

Contado(k) ==
  Marcada(k) \/ (Confere(k) /\ Velhas(k) /\ ideal[k].count <= Limite(k))

IInv ==
  /\ TypeOK
  /\ UmaChavePorEntrada
  /\ VarreOPassado
  /\ NoLimite
  /\ \A k \in Chaves : Contado(k)

LEMMA InitInv == ASSUME Init PROVE IInv
<1>1. UmaChavePorEntrada
  BY DEF Init, UmaChavePorEntrada
<1>2. VarreOPassado
  BY DEF Init, VarreOPassado
<1>3. ASSUME NEW k \in Chaves PROVE Contado(k)
  <2>1. limits[k] = Nula /\ ideal[k].count = 0 /\ Velhas(k)
    BY DEF Init, Zerada, Velhas
  <2> QED BY <2>1, LimitePositivo DEF Contado, Confere
<1>4. NoLimite
  BY DEF Init, NoLimite
<1> QED BY <1>1, <1>2, <1>3, <1>4, InitTipos DEF IInv

(* The memory a new entry gets is nobody else's.                           *)
LEMMA FrescaDeNinguem ==
  ASSUME Livres # {}
  PROVE /\ Fresca \in Entradas /\ Fresca # Nula
        /\ \A k \in Chaves : limits[k] # Fresca
        /\ \A p \in Pedidos : achada[p] # Fresca
BY FrescaLivre, NulaAssumption DEF Livres

LEMMA ChavePreservada ==
  ASSUME IInv, [Next]_vars PROVE UmaChavePorEntrada'
<1> USE DEF IInv, UmaChavePorEntrada, TypeOK
<1>1. ASSUME NEW p \in Pedidos, Procurar(p) PROVE UmaChavePorEntrada'
  BY <1>1 DEF Procurar
<1>2. ASSUME NEW p \in Pedidos, Criar(p) PROVE UmaChavePorEntrada'
  BY <1>2, FrescaDeNinguem DEF Criar
<1>3. ASSUME NEW p \in Pedidos, Usar(p) PROVE UmaChavePorEntrada'
  BY <1>3 DEF Usar, Renovar
<1>4. ASSUME NEW p \in Pedidos, Responder(p) PROVE UmaChavePorEntrada'
  BY <1>4 DEF Responder
<1>5. ASSUME NEW k \in Chaves, Varrer(k) PROVE UmaChavePorEntrada'
  BY <1>5 DEF Varrer
<1>6. CASE Limpar \/ Soltar \/ Tique \/ UNCHANGED vars
  BY <1>6 DEF Limpar, Soltar, Tique, vars
<1> QED BY <1>1, <1>2, <1>3, <1>4, <1>5, <1>6 DEF Next

LEMMA VarreduraPreservada ==
  ASSUME IInv, [Next]_vars PROVE VarreOPassado'
<1> USE DEF IInv, VarreOPassado, TypeOK
<1>1. ASSUME NEW p \in Pedidos, Procurar(p) PROVE VarreOPassado'
  BY <1>1 DEF Procurar
<1>2. ASSUME NEW p \in Pedidos, Criar(p) PROVE VarreOPassado'
  BY <1>2, FrescaDeNinguem DEF Criar
<1>3. ASSUME NEW p \in Pedidos, Usar(p) PROVE VarreOPassado'
  BY <1>3 DEF Usar, Renovar
<1>4. ASSUME NEW p \in Pedidos, Responder(p) PROVE VarreOPassado'
  BY <1>4 DEF Responder
<1>5. ASSUME NEW k \in Chaves, Varrer(k) PROVE VarreOPassado'
  BY <1>5 DEF Varrer
<1>6. CASE Limpar
  BY <1>6, TempoAssumption DEF Limpar
<1>7. CASE Soltar
  BY <1>7, TempoAssumption DEF Soltar
<1>8. CASE Tique \/ UNCHANGED vars
  BY <1>8, TempoAssumption DEF Tique, vars
<1> QED BY <1>1, <1>2, <1>3, <1>4, <1>5, <1>6, <1>7, <1>8 DEF Next

(* What Usar makes of the entry found: a new window, no change, one more.  *)
Conta(p) ==
  LET e == achada[p] IN
  \/ agora > entrada[e].resetTime /\ entrada'[e] = Nova
  \/ entrada'[e] = entrada[e]
  \/ /\ entrada[e].count < Limite(chave[p])
     /\ entrada'[e] = [count |-> entrada[e].count + 1, resetTime |-> entrada[e].resetTime]

LEMMA UsarEntrada ==
  ASSUME IInv, NEW p \in Pedidos, Usar(p)
  PROVE /\ achada[p] \in Entradas /\ achada[p] # Nula /\ chave[p] \in Chaves
        /\ passo[p] = "usar" /\ passo'[p] # "usar"
        /\ \A q \in Pedidos \ {p} : passo'[q] = passo[q]
        /\ \A f \in Entradas \ {achada[p]} : entrada'[f] = entrada[f]
        /\ Conta(p)
<1>1. achada[p] \in Entradas /\ achada[p] # Nula /\ chave[p] \in Chaves /\ passo[p] = "usar"
  BY DEF IInv, TypeOK, UmaChavePorEntrada, Usar
<1>2. entrada \in [Entradas -> Contagens] /\ passo \in [Pedidos -> {"livre", "criar", "usar", "aceito", "negado"}]
  BY DEF IInv, TypeOK, Contagens
<1>3. CASE agora > entrada[achada[p]].resetTime /\ Renovar(p)
  BY <1>1, <1>2, <1>3 DEF Renovar, Conta
<1>4. CASE passo' = [passo EXCEPT ![p] = "negado"] /\ UNCHANGED entrada
  BY <1>1, <1>2, <1>4 DEF Conta
<1>5. CASE /\ entrada[achada[p]].count < Limite(chave[p])
           /\ entrada' = [entrada EXCEPT ![achada[p]].count = @ + 1]
           /\ passo' = [passo EXCEPT ![p] = "aceito"]
  <2>1. entrada'[achada[p]] = [count |-> entrada[achada[p]].count + 1,
                               resetTime |-> entrada[achada[p]].resetTime]
    BY <1>1, <1>2, <1>5 DEF Contagens
  <2> QED BY <1>1, <1>2, <1>5, <2>1 DEF Conta
<1> QED BY <1>3, <1>4, <1>5 DEF Usar

(* Each entry is counted under its own lock.                               *)
LEMMA LimitePreservado ==
  ASSUME IInv, [Next]_vars PROVE NoLimite'
<1>0. entrada \in [Entradas -> Contagens] /\ Nova.count = 1
  BY DEF IInv, TypeOK, Contagens, Nova
<1>1. ASSUME NEW p \in Pedidos, Procurar(p) \/ Responder(p) PROVE NoLimite'
  BY <1>1 DEF IInv, TypeOK, NoLimite, Procurar, Responder, Limite
<1>2. ASSUME NEW p \in Pedidos, Criar(p) PROVE NoLimite'
  <2>1. chave[p] \in Chaves /\ achada' = achada /\ chave' = chave
    BY <1>2 DEF IInv, TypeOK, Criar
  <2>2. /\ Fresca \in Entradas /\ entrada'[Fresca] = Nova
        /\ \A f \in Entradas \ {Fresca} : entrada'[f] = entrada[f]
        /\ limits'[chave[p]] = Fresca
        /\ \A j \in Chaves \ {chave[p]} : limits'[j] = limits[j]
        /\ \A j \in Chaves : limits[j] # Fresca
        /\ \A q \in Pedidos : achada[q] # Fresca
    BY <1>0, <1>2, <2>1, FrescaDeNinguem DEF IInv, TypeOK, Criar
  <2> QED BY <1>0, <2>1, <2>2, LimitePositivo DEF IInv, TypeOK, NoLimite, Limite
<1>3. ASSUME NEW p \in Pedidos, Usar(p) PROVE NoLimite'
  <2> DEFINE e == achada[p]
             c == chave[p]
  <2>1. /\ e \in Entradas /\ e # Nula /\ c \in Chaves /\ Conta(p)
        /\ \A f \in Entradas \ {e} : entrada'[f] = entrada[f]
    BY <1>3, UsarEntrada
  <2>2. achada' = achada /\ chave' = chave /\ limits' = limits
    BY <1>3 DEF Usar
  <2>3. entrada'[e].count <= Limite(c)
    BY <1>0, <2>1, LimitePositivo DEF Conta, IInv, NoLimite, Contagens
  <2>4. \A k \in Chaves : limits[k] = e => k = c
    BY <2>1 DEF IInv, UmaChavePorEntrada
  <2>5. \A q \in Pedidos : achada[q] = e => chave[q] = c
    BY <2>1 DEF IInv, UmaChavePorEntrada
  <2>6. \A f \in Entradas : f # e => entrada'[f] = entrada[f]
    BY <2>1
  <2>7. ASSUME NEW k \in Chaves, limits[k] # Nula PROVE entrada'[limits[k]].count <= Limite(k)
    BY <2>3, <2>4, <2>6, <2>7 DEF IInv, TypeOK, NoLimite
  <2>8. ASSUME NEW q \in Pedidos, achada[q] # Nula
        PROVE entrada'[achada[q]].count <= Limite(chave[q])
    BY <2>3, <2>5, <2>6, <2>8 DEF IInv, TypeOK, NoLimite
  <2> QED BY <2>2, <2>7, <2>8 DEF NoLimite, Limite
<1>4. ASSUME NEW k \in Chaves, Varrer(k) PROVE NoLimite'
  BY <1>4 DEF IInv, TypeOK, NoLimite, Varrer, Limite
<1>5. CASE Limpar \/ Soltar \/ Tique \/ UNCHANGED vars
  BY <1>5 DEF IInv, NoLimite, Limpar, Soltar, Tique, vars, Limite
<1> QED BY <1>1, <1>2, <1>3, <1>4, <1>5 DEF Next

(* What a key's count depends on.                                          *)
LEMMA MesmaContagem ==
  ASSUME NEW k \in Chaves, Contado(k), Marcada(k) => Marcada(k)',
         limits'[k] = limits[k], ideal'[k] = ideal[k],
         limits[k] # Nula => entrada'[limits[k]] = entrada[limits[k]],
         Velhas(k) => Velhas(k)', agora' = agora
  PROVE Contado(k)'
<1> SUFFICES ASSUME ~Marcada(k)'
             PROVE Confere(k)' /\ Velhas(k)' /\ ideal'[k].count <= Limite(k)
  BY Zenon DEF Contado, Limite
<1>1. Confere(k) /\ Velhas(k) /\ ideal[k].count <= Limite(k)
  BY Zenon DEF Contado
<1>2. Confere(k)'
  BY <1>1 DEF Confere
<1> QED BY <1>1, <1>2

LEMMA CriarConta ==
  ASSUME IInv, NEW p \in Pedidos, Criar(p), NEW k \in Chaves PROVE Contado(k)'
<1> DEFINE c == chave[p]
<1>0. /\ c \in Chaves /\ agora \in Nat /\ agora' = agora /\ achada' = achada /\ chave' = chave
      /\ limits \in [Chaves -> Entradas \cup {Nula}] /\ ideal[c] \in Contagens
      /\ Contado(k)
  BY TempoAssumption DEF IInv, TypeOK, Contagens, Criar
<1>1. /\ limits'[c] = Fresca /\ Fresca # Nula /\ entrada'[Fresca] = Nova
      /\ \A e \in Entradas \ {Fresca} : entrada'[e] = entrada[e]
      /\ \A j \in Chaves \ {c} : limits'[j] = limits[j]
      /\ passo[p] = "criar" /\ passo'[p] = "aceito"
      /\ \A q \in Pedidos \ {p} : passo'[q] = passo[q]
  BY <1>0, FrescaDeNinguem DEF IInv, TypeOK, Criar
<1>2. /\ ideal'[c] = IF agora > ideal[c].resetTime \/ ideal[c].count = 0 THEN Nova
                     ELSE [count |-> ideal[c].count + 1, resetTime |-> ideal[c].resetTime]
      /\ \A j \in Chaves \ {c} : ideal'[j] = ideal[j]
  BY <1>0, AdmitirTipos DEF IInv, Criar
<1>3. \A q \in Pedidos : achada[q] # Nula => achada[q] \in Entradas /\ achada[q] # Fresca
  BY FrescaDeNinguem DEF IInv, TypeOK, Criar
<1>4. /\ dupla'[c] = (limits[c] # Nula \/ (dupla[c] /\ ~Sozinho(p)))
      /\ perdoada'[c] = (perdoada[c] /\ ~Sozinho(p))
  BY Zenon, <1>0 DEF IInv, TypeOK, Criar
<1>5. CASE k # c
  <2>1. limits[k] # Nula => entrada'[limits[k]] = entrada[limits[k]]
    BY <1>0, <1>1, FrescaDeNinguem DEF Criar
  <2>2. dupla'[k] = dupla[k]
    BY Zenon, <1>0, <1>5 DEF IInv, TypeOK, Criar
  <2>3. perdoada'[k] = perdoada[k]
    BY Zenon, <1>0, <1>5 DEF IInv, TypeOK, Criar
  <2>4. Marcada(k)' = Marcada(k)
    BY Zenon, <2>2, <2>3 DEF Marcada
  <2>5. Velhas(k) => Velhas(k)'
    BY <1>0, <1>1, <1>3, <1>5 DEF Velhas, IInv, UmaChavePorEntrada
  <2> QED BY <1>0, <1>1, <1>2, <1>5, <2>1, <2>4, <2>5, MesmaContagem
<1>6. CASE k = c
  <2> SUFFICES ASSUME ~Marcada(k)'
               PROVE Confere(k)' /\ Velhas(k)' /\ ideal'[k].count <= Limite(k)
    BY Zenon DEF Contado, Limite
  <2>1. limits[c] = Nula /\ (Sozinho(p) \/ ~Marcada(c))
    BY Zenon, <1>4, <1>6 DEF Marcada
  <2>2. CASE Sozinho(p)
    <3>1. ideal'[c] = Nova
      BY <1>0, <1>2, <2>2 DEF Sozinho
    <3>2. \A q \in Pedidos \ {p} : ~(passo[q] = "usar" /\ chave[q] = c)
      BY <2>2 DEF Sozinho, EmVoo
    <3>3. Velhas(k)'
      BY <1>0, <1>1, <1>6, <3>2 DEF Velhas
    <3> QED BY <1>0, <1>1, <1>6, <3>1, <3>3, LimitePositivo DEF Confere, Nova
  <2>3. CASE ~Marcada(c)
    <3>1. (ideal[c].count = 0 \/ agora > ideal[c].resetTime) /\ Velhas(c)
      BY <1>0, <1>6, <2>1, <2>3 DEF Contado, Confere
    <3>2. ideal'[c] = Nova
      BY <1>0, <1>2, <3>1
    <3>3. Velhas(k)'
      BY <1>0, <1>1, <1>3, <1>6, <2>1, <3>1 DEF Velhas, IInv, UmaChavePorEntrada
    <3> QED BY <1>0, <1>1, <1>6, <3>2, <3>3, LimitePositivo DEF Confere, Nova
  <2> QED BY <2>1, <2>2, <2>3
<1> QED BY <1>5, <1>6

LEMMA UsarConta ==
  ASSUME IInv, NEW p \in Pedidos, Usar(p), NEW k \in Chaves PROVE Contado(k)'
<1> DEFINE c == chave[p]
           e == achada[p]
<1>0. /\ c \in Chaves /\ agora \in Nat /\ agora' = agora /\ limits' = limits
      /\ achada' = achada /\ chave' = chave
      /\ limits \in [Chaves -> Entradas \cup {Nula}] /\ ideal[c] \in Contagens
      /\ entrada \in [Entradas -> Contagens] /\ Contado(k)
  BY TempoAssumption DEF IInv, TypeOK, Contagens, Usar
<1>1. /\ e \in Entradas /\ e # Nula /\ passo[p] = "usar" /\ passo'[p] # "usar"
      /\ \A q \in Pedidos \ {p} : passo'[q] = passo[q]
      /\ \A f \in Entradas \ {e} : entrada'[f] = entrada[f]
  BY UsarEntrada
<1>2. \A j \in Chaves \ {c} : ideal'[j] = ideal[j]
  BY <1>0, AdmitirTipos DEF IInv, Usar, Renovar
<1>3. \A q \in Pedidos : passo[q] = "usar" => achada[q] \in Entradas
  BY DEF IInv, TypeOK, UmaChavePorEntrada
<1>4. CASE k # c
  <2>1. limits[k] # Nula => limits[k] # e
    BY <1>0, <1>4 DEF IInv, UmaChavePorEntrada
  <2>2. dupla'[k] = dupla[k]
    BY Zenon, <1>0, <1>4 DEF IInv, TypeOK, Usar, Renovar, marcas
  <2>3. perdoada'[k] = perdoada[k]
    BY Zenon, <1>0, <1>4 DEF IInv, TypeOK, Usar, Renovar, marcas
  <2>4. Marcada(k)' = Marcada(k)
    BY Zenon, <2>2, <2>3 DEF Marcada
  <2>5. \A q \in Pedidos : chave[q] = k => achada[q] # e
    BY <1>1, <1>4 DEF IInv, UmaChavePorEntrada
  <2>6. Velhas(k) => Velhas(k)'
    BY <1>0, <1>1, <1>3, <2>5 DEF Velhas
  <2> QED BY <1>0, <1>1, <1>2, <1>4, <2>1, <2>4, <2>6, MesmaContagem
<1>5. CASE k = c
  <2> SUFFICES ASSUME ~Marcada(k)'
               PROVE Confere(k)' /\ Velhas(k)' /\ ideal'[k].count <= Limite(k)
    BY Zenon DEF Contado, Limite
  <2>1. Velhas(c) /\ limits[c] = e => Velhas(k)'
    BY <1>0, <1>1, <1>3, <1>5 DEF Velhas
  <2>2. CASE agora > entrada[e].resetTime /\ Renovar(p)
    <3>1. entrada'[e] = Nova /\ Admitir(c)
      BY <1>0, <1>1, <2>2 DEF Renovar
    <3>2. /\ dupla'[c] = (dupla[c] /\ ~Sozinho(p))
          /\ perdoada'[c] = (limits[c] # e \/ (perdoada[c] /\ ~Sozinho(p)))
      BY Zenon, <1>0, <2>2 DEF IInv, TypeOK, Renovar
    <3>3. limits[c] = e /\ (Sozinho(p) \/ ~Marcada(c))
      BY Zenon, <1>5, <3>2 DEF Marcada
    <3>4. agora > ideal[c].resetTime /\ Velhas(k)'
      <4>1. CASE Sozinho(p)
        <5>1. \A q \in Pedidos \ {p} : ~(passo[q] = "usar" /\ chave[q] = c)
          BY <4>1 DEF Sozinho, EmVoo
        <5> QED BY <1>0, <1>1, <1>5, <4>1, <5>1 DEF Sozinho, Velhas
      <4>2. CASE ~Marcada(c)
        BY <1>0, <1>5, <2>1, <2>2, <3>3, <4>2, <1>1 DEF Contado, Confere
      <4> QED BY <3>3, <4>1, <4>2
    <3>5. ideal'[c] = Nova
      BY <1>0, <3>1, <3>4, AdmitirTipos DEF IInv
    <3> QED BY <1>0, <1>1, <1>5, <3>1, <3>3, <3>4, <3>5, LimitePositivo DEF Confere, Nova
  <2>3. CASE /\ agora <= entrada[e].resetTime /\ UNCHANGED marcas
             /\ \/ UNCHANGED <<entrada, ideal>>
                \/ /\ entrada[e].count < Limite(c)
                   /\ entrada' = [entrada EXCEPT ![e].count = @ + 1] /\ Admitir(c)
    <3>1. ~Marcada(c)
      BY Zenon, <1>5, <2>3 DEF Marcada, marcas
    <3>2. Confere(c) /\ Velhas(c) /\ ideal[c].count <= Limite(c)
      BY Zenon, <1>5, <1>0, <3>1 DEF Contado
    <3>3. entrada[e].resetTime \in Nat
      BY <1>0, <1>1, TempoAssumption DEF Contagens, Tempos
    <3>4. limits[c] = e
      BY <1>0, <1>1, <2>3, <3>2, <3>3 DEF Velhas
    <3>5. entrada[e] = ideal[c] /\ ideal[c].count > 0
      BY <1>1, <3>2, <3>4 DEF Confere
    <3>6. CASE UNCHANGED <<entrada, ideal>>
      BY <1>0, <1>1, <1>5, <2>1, <3>2, <3>4, <3>5, <3>6 DEF Confere
    <3>7. CASE /\ entrada[e].count < Limite(c)
               /\ entrada' = [entrada EXCEPT ![e].count = @ + 1] /\ Admitir(c)
      <4>1. ideal'[c] = [count |-> ideal[c].count + 1, resetTime |-> ideal[c].resetTime]
        BY <1>0, <2>3, <3>3, <3>5, <3>7, AdmitirTipos DEF IInv, Contagens
      <4>2. entrada'[e] = [count |-> entrada[e].count + 1, resetTime |-> entrada[e].resetTime]
        BY <1>0, <1>1, <3>7 DEF Contagens
      <4>3. ideal'[c].count <= Limite(c) /\ ideal'[c].count > 0
        BY <1>0, <3>5, <3>7, <4>1, LimitePositivo DEF Contagens
      <4> QED BY <1>0, <1>1, <1>5, <2>1, <3>2, <3>4, <3>5, <4>1, <4>2, <4>3 DEF Confere
    <3> QED BY <2>3, <3>6, <3>7
  <2> QED BY <2>2, <2>3 DEF Usar, marcas
<1> QED BY <1>4, <1>5

LEMMA VarrerConta ==
  ASSUME IInv, NEW j \in Chaves, Varrer(j), NEW k \in Chaves PROVE Contado(k)'
<1>0. /\ Contado(k) /\ agora \in Nat /\ instante \in Nat /\ instante <= agora
      /\ limits[j] \in Entradas /\ limits[j] # Nula /\ ideal[j] \in Contagens
      /\ entrada[limits[j]] \in Contagens
      /\ ideal' = ideal /\ entrada' = entrada /\ agora' = agora
      /\ passo' = passo /\ chave' = chave /\ achada' = achada
  BY TempoAssumption DEF IInv, TypeOK, Contagens, VarreOPassado, Varrer
<1>1. /\ limits'[j] = IF instante > entrada[limits[j]].resetTime THEN Nula ELSE limits[j]
      /\ \A i \in Chaves \ {j} : limits'[i] = limits[i]
  BY DEF IInv, TypeOK, Varrer
<1>2. Marcada(k)' = Marcada(k)
  BY Zenon DEF Marcada, Varrer, marcas
<1>3. CASE k = j /\ instante > entrada[limits[j]].resetTime /\ ~Marcada(k)
  <2>1. entrada[limits[j]] = ideal[j] /\ Velhas(j) /\ ideal[j].count <= Limite(j)
    BY <1>0, <1>3 DEF Contado, Confere
  <2>2. agora > entrada[limits[j]].resetTime
    BY <1>0, <1>3 DEF Contagens, Tempos
  <2>3. Confere(j)'
    BY <1>0, <1>1, <1>3, <2>1, <2>2 DEF Confere
  <2>4. Velhas(j)'
    BY <1>0, <2>1, <2>2 DEF Velhas
  <2> QED BY <1>0, <1>3, <2>1, <2>3, <2>4 DEF Contado, Limite
<1>4. CASE limits'[k] = limits[k]
  <2>1. Velhas(k) => Velhas(k)'
    BY <1>0, <1>4 DEF Velhas
  <2> QED BY <1>0, <1>2, <1>4, <2>1, MesmaContagem
<1>5. CASE Marcada(k)
  BY Zenon, <1>2, <1>5 DEF Contado
<1> QED BY <1>1, <1>3, <1>4, <1>5

LEMMA ContagemPreservada ==
  ASSUME IInv, [Next]_vars, NEW k \in Chaves PROVE Contado(k)'
<1>0. Contado(k) /\ agora \in Nat /\ ideal[k] \in Contagens /\ entrada \in [Entradas -> Contagens]
  BY TempoAssumption DEF IInv, TypeOK, Contagens
<1>1. ASSUME NEW p \in Pedidos, Procurar(p) \/ Responder(p) PROVE Contado(k)'
  <2>1. Marcada(k)' = Marcada(k)
    BY Zenon, <1>1 DEF Marcada, Procurar, Responder, marcas
  <2>2. Velhas(k) => Velhas(k)'
    BY <1>1 DEF IInv, TypeOK, Velhas, Procurar, Responder
  <2> QED BY <1>0, <1>1, <2>1, <2>2, MesmaContagem DEF Procurar, Responder
<1>2. CASE Limpar \/ Soltar \/ UNCHANGED vars
  <2>1. Marcada(k)' = Marcada(k)
    BY Zenon, <1>2 DEF Marcada, Limpar, Soltar, vars, marcas
  <2>2. Velhas(k) => Velhas(k)'
    BY <1>2 DEF Velhas, Limpar, Soltar, vars
  <2> QED BY <1>0, <1>2, <2>1, <2>2, MesmaContagem DEF Limpar, Soltar, vars
<1>3. CASE Tique
  <2>1. Marcada(k)' = Marcada(k)
    BY Zenon, <1>3 DEF Marcada, Tique, marcas
  <2>2. Confere(k) => Confere(k)'
    BY <1>0, <1>3 DEF Tique, Confere, Contagens, Tempos
  <2>3. Velhas(k) => Velhas(k)'
    BY <1>0, <1>3, TempoAssumption DEF IInv, TypeOK, UmaChavePorEntrada, Tique, Velhas, Contagens, Tempos
  <2>4. ideal' = ideal
    BY <1>3 DEF Tique
  <2> QED BY Zenon, <1>0, <2>1, <2>2, <2>3, <2>4 DEF Contado, Limite
<1> QED BY <1>1, <1>2, <1>3, CriarConta, UsarConta, VarrerConta DEF Next

LEMMA NextInv == ASSUME IInv, [Next]_vars PROVE IInv'
BY NextTipos, ChavePreservada, VarreduraPreservada, LimitePreservado, ContagemPreservada
   DEF IInv

(* The invariant: the count of the window, the entry in the map and the    *)
(* entry each request holds agree unless an entry was made over another or *)
(* renewed outside the map; and no entry counts past the limit.            *)
THEOREM Invariante == Spec => []IInv
BY InitInv, NextInv, PTL DEF Spec

(* Allow lets more than the limit through in a window only after two first *)
(* requests each made an entry, or after a request renewed an entry that   *)
(* Cleanup had deleted; no other interleaving of requests and Cleanup does *)
(* it, and no entry ever counts past the limit.                            *)
THEOREM LimiteSempreRespeitado == Spec => []LimiteRespeitado
<1>1. IInv => LimiteRespeitado
  BY DEF IInv, NoLimite, Contado, Marcada, LimiteRespeitado
<1> QED BY <1>1, Invariante, PTL

(* Nor does it refuse a request before the limit was let through in the    *)
(* window the request falls into.                                          *)
THEOREM SempreNegaComRazao == Spec => NegaComRazao
<1>1. ASSUME IInv, [Next]_vars, NEW p \in Pedidos,
             passo'[p] = "negado", passo[p] = "usar", ~Marcada(chave[p])
      PROVE /\ ideal[chave[p]].count = Limite(chave[p])
            /\ agora <= ideal[chave[p]].resetTime
  <2>1. Usar(p)
    <3>1. ASSUME NEW q \in Pedidos, Procurar(q) \/ Criar(q) \/ Responder(q)
          PROVE FALSE
      BY <1>1, <3>1 DEF IInv, TypeOK, Procurar, Criar, Responder
    <3>2. ASSUME NEW q \in Pedidos, Usar(q) PROVE q = p
      BY <1>1, <3>2 DEF IInv, TypeOK, Usar, Renovar
    <3>3. ASSUME passo' = passo PROVE FALSE
      BY <1>1, <3>3
    <3> QED BY <1>1, <3>1, <3>2, <3>3 DEF Next, Limpar, Varrer, Soltar, Tique, vars
  <2> DEFINE c == chave[p]
             e == achada[p]
  <2>2. c \in Chaves /\ e \in Entradas /\ e # Nula
    BY <1>1, <2>1, UsarEntrada
  <2>3. agora <= entrada[e].resetTime /\ entrada[e].count >= Limite(c)
    BY <1>1, <2>1 DEF Usar, Renovar, IInv, TypeOK
  <2>4. Confere(c) /\ Velhas(c) /\ ideal[c].count <= Limite(c)
    BY Zenon, <1>1, <2>2 DEF IInv, Contado
  <2>5. ideal[c].count \in Nat /\ agora \in Nat /\ entrada[e].resetTime \in Nat
    BY <1>1, <2>2, TempoAssumption DEF IInv, TypeOK, Tempos
  <2>6. limits[c] = e
    BY <1>1, <2>3, <2>4, <2>5 DEF Velhas
  <2>7. entrada[e] = ideal[c]
    BY <2>2, <2>4, <2>6 DEF Confere
  <2> QED BY <2>2, <2>3, <2>4, <2>5, <2>7, LimitePositivo
<1>2. IInv /\ [Next]_vars =>
        [\A p \in Pedidos :
           passo'[p] = "negado" /\ passo[p] = "usar" =>
             \/ dupla[chave[p]] \/ perdoada[chave[p]]
             \/ /\ ideal[chave[p]].count = Limite(chave[p])
                /\ agora <= ideal[chave[p]].resetTime]_vars
  BY <1>1 DEF Marcada
<1> QED BY <1>2, Invariante, PTL DEF Spec, NegaComRazao
=============================================================================
