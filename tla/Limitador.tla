----------------------------- MODULE Limitador -----------------------------
(***************************************************************************)
(* The rate limiter in front of the HTTP routes: Allow, called by the      *)
(* request goroutines, and Cleanup, called by a ticker every five minutes. *)
(* A map under a read-write lock holds one entry per key; each entry has a *)
(* lock of its own.  Allow looks the entry up, RELEASES the map's lock,    *)
(* and then makes a new entry or locks the one it found, which Cleanup may *)
(* have taken out of the map, or another request replaced, meanwhile.      *)
(***************************************************************************)
EXTENDS Naturals, FiniteSets

CONSTANTS
  Pedidos,       \* requests under way at the same time
  Chaves,        \* what the key extractor makes of a request: "tenant:1", ...
  Sobrescritas,  \* RATE_LIMIT_OVERRIDES: limits by bare tenant id
  Padrao,        \* RATE_LIMIT_REQUESTS
  Janela,        \* RATE_LIMIT_WINDOW, in ticks
  Entradas,      \* the entries in memory, reused when nothing refers to them
  MaxTempo       \* bound: ticks of the clock

ASSUME ChavesAssumption == Chaves # {}
ASSUME PadraoAssumption == Padrao \in Nat \ {0}
ASSUME TempoAssumption == Janela \in Nat /\ MaxTempo \in Nat
ASSUME SobrescritasAssumption ==
  \A t \in DOMAIN Sobrescritas : Sobrescritas[t] \in Nat \ {0}

Nula == "nula"
ASSUME NulaAssumption == Nula \notin Entradas

VARIABLES
  agora,     \* the clock
  limits,    \* limits[k]: the entry of key k, or Nula
  entrada,   \* entrada[e]: its count and reset time
  passo,     \* passo[p]: what request p does next
  chave,     \* chave[p]: its key
  achada,    \* achada[p]: the entry it found, or Nula
  varrendo,  \* the keys Cleanup has yet to visit, while it holds the map
  limpando,  \* Cleanup holds the map
  instante,  \* the time Cleanup compares with
  ideal,     \* history: requests let through in the window they belong to
  dupla,     \* history: dupla[k]: an entry of k was made over another
  perdoada   \* history: perdoada[k]: an entry out of the map was renewed

marcas == <<dupla, perdoada>>
vars == <<agora, limits, entrada, passo, chave, achada, varrendo, limpando,
          instante, ideal, dupla, perdoada>>

Tempos == 0..(MaxTempo + Janela)

TypeOK ==
  /\ agora \in 0..MaxTempo
  /\ limits \in [Chaves -> Entradas \cup {Nula}]
  /\ entrada \in [Entradas -> [count : Nat, resetTime : Tempos]]
  /\ passo \in [Pedidos -> {"livre", "criar", "usar", "aceito", "negado"}]
  /\ chave \in [Pedidos -> Chaves]
  /\ achada \in [Pedidos -> Entradas \cup {Nula}]
  /\ varrendo \subseteq Chaves
  /\ limpando \in BOOLEAN
  /\ instante \in 0..MaxTempo
  /\ ideal \in [Chaves -> [count : Nat, resetTime : Tempos]]
  /\ dupla \in [Chaves -> BOOLEAN]
  /\ perdoada \in [Chaves -> BOOLEAN]

ChaveNula == CHOOSE k \in Chaves : TRUE
Zerada    == [count |-> 0, resetTime |-> 0]

Init ==
  /\ agora = 0
  /\ limits = [k \in Chaves |-> Nula]
  /\ entrada = [e \in Entradas |-> Zerada]
  /\ passo = [p \in Pedidos |-> "livre"]
  /\ chave = [p \in Pedidos |-> ChaveNula]
  /\ achada = [p \in Pedidos |-> Nula]
  /\ varrendo = {} /\ limpando = FALSE /\ instante = 0
  /\ ideal = [k \in Chaves |-> Zerada]
  /\ dupla = [k \in Chaves |-> FALSE]
  /\ perdoada = [k \in Chaves |-> FALSE]

-----------------------------------------------------------------------------
(* getConfig looks the WHOLE key up among the bare ids.                    *)
Limite(k) == IF k \in DOMAIN Sobrescritas THEN Sobrescritas[k] ELSE Padrao

(* Mutant: the window is read in a unit ten times as long.                 *)
NovaEmOutraUnidade == [count |-> 1, resetTime |-> agora + 10 * Janela]

Nova == [count |-> 1, resetTime |-> agora + Janela]

(* A count per fixed window, kept beside the entries.                      *)
Admitir(k) ==
  ideal' = [ideal EXCEPT ![k] =
    IF agora > @.resetTime \/ @.count = 0 THEN Nova
    ELSE [count |-> @.count + 1, resetTime |-> @.resetTime]]

Livres == {e \in Entradas : /\ \A k \in Chaves : limits[k] # e
                            /\ \A p \in Pedidos : achada[p] # e}

(* Which memory a new entry gets makes no difference.                      *)
Fresca == CHOOSE e \in Livres : TRUE

(* p starts a count alone, after the last window: what happened in it is   *)
(* over.                                                                   *)
EmVoo(k) == {p \in Pedidos : passo[p] \in {"criar", "usar"} /\ chave[p] = k}
Sozinho(p) == EmVoo(chave[p]) = {p} /\ agora > ideal[chave[p]].resetTime

(* A request comes in for key k: the look-up, under the read lock.         *)
Procurar(p) ==
  /\ passo[p] = "livre" /\ ~limpando
  /\ \E k \in Chaves :
       /\ chave' = [chave EXCEPT ![p] = k]
       /\ achada' = [achada EXCEPT ![p] = limits[k]]
       /\ passo' = [passo EXCEPT ![p] = IF limits[k] = Nula THEN "criar"
                                                            ELSE "usar"]
  /\ UNCHANGED <<agora, limits, entrada, varrendo, limpando, instante, ideal,
                 marcas>>

(* The entry is made under the write lock, whatever the map holds by now.  *)
Criar(p) ==
  LET k == chave[p] IN
  /\ passo[p] = "criar" /\ ~limpando
  /\ Livres # {}
  /\ limits' = [limits EXCEPT ![k] = Fresca]
  /\ entrada' = [entrada EXCEPT ![Fresca] = Nova]
  /\ Admitir(k)
  /\ dupla' = [dupla EXCEPT ![k] = limits[k] # Nula \/ (@ /\ ~Sozinho(p))]
  /\ perdoada' = [perdoada EXCEPT ![k] = @ /\ ~Sozinho(p)]
  /\ passo' = [passo EXCEPT ![p] = "aceito"]
  /\ UNCHANGED <<agora, chave, achada, varrendo, limpando, instante>>

(* A new window in the entry found, whether the map still holds it or not. *)
Renovar(p) ==
  LET e == achada[p]  k == chave[p] IN
  /\ entrada' = [entrada EXCEPT ![e] = Nova]
  /\ passo' = [passo EXCEPT ![p] = "aceito"]
  /\ Admitir(k)
  /\ perdoada' = [perdoada EXCEPT ![k] = limits[k] # e \/ (@ /\ ~Sozinho(p))]
  /\ dupla' = [dupla EXCEPT ![k] = @ /\ ~Sozinho(p)]

(* Mutant: the limit is tested after counting.                             *)
UsarComUmaAMais(p) ==
  LET e == achada[p]  k == chave[p] IN
  /\ passo[p] = "usar"
  /\ \/ agora > entrada[e].resetTime /\ Renovar(p)
     \/ /\ agora <= entrada[e].resetTime
        /\ entrada' = [entrada EXCEPT ![e].count = @ + 1]
        /\ IF entrada[e].count > Limite(k)
           THEN passo' = [passo EXCEPT ![p] = "negado"] /\ UNCHANGED ideal
           ELSE passo' = [passo EXCEPT ![p] = "aceito"] /\ Admitir(k)
        /\ UNCHANGED marcas
  /\ UNCHANGED <<agora, limits, chave, achada, varrendo, limpando, instante>>

(* Under the lock of the entry found: a new window, a refusal, one more.   *)
Usar(p) ==
  LET e == achada[p]  k == chave[p] IN
  /\ passo[p] = "usar"
  /\ \/ agora > entrada[e].resetTime /\ Renovar(p)
     \/ /\ agora <= entrada[e].resetTime /\ entrada[e].count >= Limite(k)
        /\ passo' = [passo EXCEPT ![p] = "negado"]
        /\ UNCHANGED <<entrada, ideal, marcas>>
     \/ /\ agora <= entrada[e].resetTime /\ entrada[e].count < Limite(k)
        /\ entrada' = [entrada EXCEPT ![e].count = @ + 1]
        /\ passo' = [passo EXCEPT ![p] = "aceito"]
        /\ Admitir(k)
        /\ UNCHANGED marcas
  /\ UNCHANGED <<agora, limits, chave, achada, varrendo, limpando, instante>>

(* RateLimitFiber passes the request on, or answers 429.                   *)
Responder(p) ==
  /\ passo[p] \in {"aceito", "negado"}
  /\ passo' = [passo EXCEPT ![p] = "livre"]
  /\ chave' = [chave EXCEPT ![p] = ChaveNula]
  /\ achada' = [achada EXCEPT ![p] = Nula]
  /\ UNCHANGED <<agora, limits, entrada, varrendo, limpando, instante, ideal,
                 marcas>>

-----------------------------------------------------------------------------
(* Cleanup: the map is locked throughout, each entry while it is compared. *)
Limpar ==
  /\ ~limpando
  /\ limpando' = TRUE
  /\ varrendo' = {k \in Chaves : limits[k] # Nula}
  /\ instante' = agora
  /\ UNCHANGED <<agora, limits, entrada, passo, chave, achada, ideal, marcas>>

(* Mutants: an entry is deleted as its window ends, or whatever its window;*)
(* Cleanup returns without giving the map back.                            *)
VarrerTudo(k) ==
  /\ k \in varrendo
  /\ varrendo' = varrendo \ {k}
  /\ limits' = [limits EXCEPT ![k] = Nula]
  /\ UNCHANGED <<agora, entrada, passo, chave, achada, limpando, instante,
                 ideal, marcas>>

Varrer(k) ==
  /\ k \in varrendo
  /\ varrendo' = varrendo \ {k}
  /\ limits' = [limits EXCEPT ![k] =
       IF instante > entrada[@].resetTime THEN Nula ELSE @]
  /\ UNCHANGED <<agora, entrada, passo, chave, achada, limpando, instante,
                 ideal, marcas>>

SoltarSeVazio ==
  /\ limpando /\ varrendo = {}
  /\ limpando' = \E k \in Chaves : limits[k] # Nula
  /\ UNCHANGED <<agora, limits, entrada, passo, chave, achada, varrendo,
                 instante, ideal, marcas>>

Soltar ==
  /\ limpando /\ varrendo = {}
  /\ limpando' = FALSE
  /\ instante' = 0
  /\ UNCHANGED <<agora, limits, entrada, passo, chave, achada, varrendo, ideal,
                 marcas>>

Tique ==
  /\ agora < MaxTempo
  /\ agora' = agora + 1
  /\ UNCHANGED <<limits, entrada, passo, chave, achada, varrendo, limpando,
                 instante, ideal, marcas>>

Next ==
  \/ \E p \in Pedidos : Procurar(p) \/ Criar(p) \/ Usar(p) \/ Responder(p)
  \/ Limpar \/ (\E k \in Chaves : Varrer(k)) \/ Soltar
  \/ Tique

(* Goroutines run, and sync.RWMutex lets nobody wait for ever: a request   *)
(* that wants the map's lock gets it between two Cleanups.                 *)
Fairness ==
  /\ \A p \in Pedidos :
       SF_vars(Criar(p)) /\ WF_vars(Usar(p)) /\ WF_vars(Responder(p))
  /\ WF_vars((\E k \in Chaves : Varrer(k)) \/ Soltar)

Spec == Init /\ [][Next]_vars /\ Fairness

-----------------------------------------------------------------------------
(* No window lets more than the limit through, with two exceptions, each   *)
(* over as soon as a count starts alone after the window: two first        *)
(* requests each made an entry, and the second count forgot the first; or  *)
(* a request renewed an entry that Cleanup deleted between its look-up and *)
(* its lock, so that the next request starts the count anew.  Even then no *)
(* entry counts past the limit.                                            *)
LimiteRespeitado ==
  \A k \in Chaves :
    /\ dupla[k] \/ perdoada[k] \/ ideal[k].count <= Limite(k)
    /\ limits[k] # Nula => entrada[limits[k]].count <= Limite(k)

(* And, outside those two, none is refused before the limit was let        *)
(* through in its window.                                                  *)
NegaComRazao ==
  [][\A p \in Pedidos :
       passo'[p] = "negado" /\ passo[p] = "usar" =>
         \/ dupla[chave[p]] \/ perdoada[chave[p]]
         \/ /\ ideal[chave[p]].count = Limite(chave[p])
            /\ agora <= ideal[chave[p]].resetTime]_vars

(* No request waits for ever for the two locks.                            *)
TodoPedidoResponde ==
  \A p \in Pedidos : passo[p] # "livre" ~> passo[p] = "livre"
=============================================================================
