----------------------------- MODULE Consultas -----------------------------
(***************************************************************************)
(* The look-ups that go through Redis: the menu of a shop (GetCardapio)    *)
(* and the shop behind a WhatsApp phone id (GetByWhatsAppPhoneID), against *)
(* the writers of products and tenants that invalidate them.               *)
(*                                                                         *)
(* A reader is GetOrSet: GET, on a miss or an error the SELECT, then SET   *)
(* with a TTL, its error ignored.  A writer changes the table first and    *)
(* deletes keys after.  Each call is a step of its own and nothing is held *)
(* between two.  A menu is abstracted to one product of the shop; the key  *)
(* of the verify token, which never changes owner, is left out.  A product *)
(* goes with its shop (ON DELETE CASCADE).                                 *)
(***************************************************************************)
EXTENDS Naturals

CONSTANTS
  Leitores, Escritores,  \* calls that may run at the same time
  Tenants,               \* shops
  Fones,                 \* phone ids; a column with a unique index
  Prefixos,              \* <<t, u>>: the digits of t's id begin those of u's
  MaxPreco,              \* bound: prices of the product
  Abertas,               \* shops that exist at the start, with a product
  Entradas,              \* bound: the writes that may be asked for
  MaxEscritas            \* bound: writers started

ASSUME LimitesAssumption == MaxPreco \in Nat \ {0} /\ MaxEscritas \in Nat
ASSUME PrefixosAssumption == Prefixos \subseteq Tenants \X Tenants
ASSUME ChamadasAssumption == Leitores \cap Escritores = {} /\ Tenants # {}

Nada == <<>>   \* no row, no key

Produtos == [preco : 1..MaxPreco, disponivel : BOOLEAN]
Lojas    == [fone : Fones, ativo : BOOLEAN]
Chaves   == ({"cardapio"} \X Tenants) \cup ({"fone"} \X Fones)
Cardapios == {<<n>> : n \in 0..MaxPreco}   \* <<0>>: nothing available
Valores  == Cardapios \cup (Tenants \X BOOLEAN)

TiposDeProduto == {"produto", "excluir", "disponibilidade"}
TiposDeTenant  == {"criarTenant", "mudarTenant", "apagarTenant"}

Escritas ==
  [tipo : {"produto"}, t : Tenants, novo : Produtos]
  \cup [tipo : {"excluir"}, t : Tenants]
  \cup [tipo : {"disponibilidade"}, t : Tenants, novo : BOOLEAN]
  \cup [tipo : {"criarTenant", "mudarTenant"}, t : Tenants, novo : Lojas]
  \cup [tipo : {"apagarTenant"}, t : Tenants]

ASSUME EntradasAssumption == Entradas \subseteq Escritas

VARIABLES
  produto,      \* produto[t]: the row of the product of shop t
  tenant,       \* tenant[t]: the row of shop t
  cache,        \* cache[k]: the value under key k, or Nada
  leitor,       \* leitor[r]: the step of reader r
  chave,        \* chave[r]: the key it looks up
  carregado,    \* carregado[r]: what its SELECT returned
  escritor,     \* escritor[w]: the step of writer w
  escrita,      \* escrita[w]: what it was asked
  copia,        \* copia[w]: the row as it read it
  dona,         \* dona[w]: the row of its shop, read with it (Preload)
  escritas,     \* writers started
  velho,        \* history: what reader r or writer w read has changed since
  suspeita      \* history: why entry k may be old (see EntradaVelhaTemCausa)

banco   == <<produto, tenant>>
leituras == <<leitor, chave, carregado>>
gravacoes == <<escritor, escrita, copia, dona, escritas>>
vars == <<produto, tenant, cache, leitor, chave, carregado, escritor, escrita,
          copia, dona, escritas, velho, suspeita>>

TypeOK ==
  /\ produto \in [Tenants -> Produtos \cup {Nada}]
  /\ tenant \in [Tenants -> Lojas \cup {Nada}]
  /\ cache \in [Chaves -> Valores \cup {Nada}]
  /\ leitor \in [Leitores -> {"livre", "get", "carregar", "set"}]
  /\ chave \in [Leitores -> Chaves]
  /\ carregado \in [Leitores -> Valores \cup {Nada}]
  /\ escritor \in [Escritores -> {"livre", "ler", "gravar", "del", "padrao"}]
  /\ escrita \in [Escritores -> Escritas \cup {Nada}]
  /\ copia \in [Escritores -> Produtos \cup Lojas \cup {Nada}]
  /\ dona \in [Escritores -> Lojas \cup {Nada}]
  /\ escritas \in 0..MaxEscritas
  /\ velho \in [Leitores \cup Escritores -> BOOLEAN]
  /\ suspeita \in [Chaves -> BOOLEAN]

ChaveNula == CHOOSE k \in Chaves : TRUE

(* What the database answers to the look-up of key k: the menu keeps the   *)
(* available products only; an unknown phone id is an error, not a value.  *)
Valor(p, ten, k) ==
  IF k[1] = "cardapio"
  THEN <<IF p[k[2]] # Nada /\ p[k[2]].disponivel THEN p[k[2]].preco ELSE 0>>
  ELSE IF \E t \in Tenants : ten[t] # Nada /\ ten[t].fone = k[2]
  THEN LET t == CHOOSE u \in Tenants : ten[u] # Nada /\ ten[u].fone = k[2]
       IN <<t, ten[t].ativo>>
  ELSE Nada

Atual(k) == Valor(produto, tenant, k)

Init ==
  /\ tenant \in [Tenants -> Lojas \cup {Nada}]
  /\ \A t \in Tenants : IF t \in Abertas THEN tenant[t] # Nada /\ tenant[t].ativo
                                          ELSE tenant[t] = Nada
  /\ \A t, u \in Abertas : t # u => tenant[t].fone # tenant[u].fone
  /\ produto = [t \in Tenants |-> IF t \in Abertas THEN [preco |-> 1, disponivel |-> TRUE]
                                  ELSE Nada]
  /\ cache = [k \in Chaves |-> Nada]
  /\ leitor = [r \in Leitores |-> "livre"]
  /\ chave = [r \in Leitores |-> ChaveNula]
  /\ carregado = [r \in Leitores |-> Nada]
  /\ escritor = [w \in Escritores |-> "livre"]
  /\ escrita = [w \in Escritores |-> Nada]
  /\ copia = [w \in Escritores |-> Nada]
  /\ dona = [w \in Escritores |-> Nada]
  /\ escritas = 0
  /\ velho = [x \in Leitores \cup Escritores |-> FALSE]
  /\ suspeita = [k \in Chaves |-> FALSE]

-----------------------------------------------------------------------------
(* GetOrSet.                                                               *)
Voltar(r) ==
  /\ leitor' = [leitor EXCEPT ![r] = "livre"]
  /\ chave' = [chave EXCEPT ![r] = ChaveNula]
  /\ carregado' = [carregado EXCEPT ![r] = Nada]
  /\ velho' = [velho EXCEPT ![r] = FALSE]

Consultar(r) ==
  /\ leitor[r] = "livre"
  /\ \E k \in Chaves : chave' = [chave EXCEPT ![r] = k]
  /\ leitor' = [leitor EXCEPT ![r] = "get"]
  /\ UNCHANGED <<banco, cache, carregado, gravacoes, velho, suspeita>>

(* A hit returns; a miss, and any error of the GET, goes to the database.  *)
Get(r) ==
  /\ leitor[r] = "get"
  /\ \/ cache[chave[r]] # Nada /\ Voltar(r)
     \/ /\ leitor' = [leitor EXCEPT ![r] = "carregar"]
        /\ UNCHANGED <<chave, carregado, velho>>
  /\ UNCHANGED <<banco, cache, gravacoes, suspeita>>

(* An error of the SELECT, or no row, is returned and not stored.          *)
Carregar(r) ==
  /\ leitor[r] = "carregar"
  /\ \/ Voltar(r)
     \/ /\ Atual(chave[r]) # Nada
        /\ carregado' = [carregado EXCEPT ![r] = Atual(chave[r])]
        /\ leitor' = [leitor EXCEPT ![r] = "set"]
        /\ UNCHANGED <<chave, velho>>
  /\ UNCHANGED <<banco, cache, gravacoes, suspeita>>

(* SET, or its error, which is dropped.                                    *)
Guardar(r) ==
  /\ leitor[r] = "set"
  /\ \/ /\ cache' = [cache EXCEPT ![chave[r]] = carregado[r]]
        /\ suspeita' = [suspeita EXCEPT ![chave[r]] = velho[r]]
     \/ UNCHANGED <<cache, suspeita>>
  /\ Voltar(r)
  /\ UNCHANGED <<banco, gravacoes>>

Remover(ks) ==
  /\ cache' = [k \in Chaves |-> IF k \in ks THEN Nada ELSE cache[k]]
  /\ suspeita' = [k \in Chaves |-> k \notin ks /\ suspeita[k]]

(* Mutant: only menus are stored with a TTL.                               *)
ExpirarSoCardapios(k) ==
  /\ k[1] = "cardapio" /\ cache[k] # Nada
  /\ Remover({k})
  /\ UNCHANGED <<banco, leituras, gravacoes, velho>>

(* The TTL of an hour runs out.                                            *)
Expirar(k) ==
  /\ cache[k] # Nada
  /\ Remover({k})
  /\ UNCHANGED <<banco, leituras, gravacoes, velho>>

-----------------------------------------------------------------------------
(* The writers.                                                            *)
Fim(w) ==
  /\ escritor' = [escritor EXCEPT ![w] = "livre"]
  /\ escrita' = [escrita EXCEPT ![w] = Nada]
  /\ copia' = [copia EXCEPT ![w] = Nada]
  /\ dona' = [dona EXCEPT ![w] = Nada]
  /\ velho' = [velho EXCEPT ![w] = FALSE]

Ir(w, q) ==
  escritor' = [escritor EXCEPT ![w] = q] /\ UNCHANGED <<escrita, copia, dona, velho>>

LeAntes(e) == e.tipo \in {"disponibilidade", "mudarTenant", "apagarTenant"}

Escrever(w) ==
  /\ escritor[w] = "livre" /\ escritas < MaxEscritas
  /\ \E e \in Entradas :
       /\ escrita' = [escrita EXCEPT ![w] = e]
       /\ escritor' = [escritor EXCEPT ![w] =
                         IF LeAntes(e) THEN "ler" ELSE "gravar"]
  /\ escritas' = escritas + 1
  /\ UNCHANGED <<banco, cache, leituras, copia, dona, velho, suspeita>>

(* FindByID; the row is not found, or copied, a product with its shop.     *)
Linha(e) == IF e.tipo \in TiposDeProduto THEN produto[e.t] ELSE tenant[e.t]

Ler(w) ==
  /\ escritor[w] = "ler"
  /\ IF Linha(escrita[w]) = Nada THEN Fim(w)
     ELSE /\ copia' = [copia EXCEPT ![w] = Linha(escrita[w])]
          /\ dona' = [dona EXCEPT ![w] = tenant[escrita[w].t]]
          /\ escritor' = [escritor EXCEPT ![w] = "gravar"]
          /\ UNCHANGED <<escrita, velho>>
  /\ UNCHANGED <<banco, cache, leituras, escritas, suspeita>>

(* Mutant: the availability is saved in a product built anew.              *)
ResultadoSemPreco(w) ==
  LET e == escrita[w] IN
  CASE e.tipo \in {"excluir", "apagarTenant"} -> Nada
    [] e.tipo = "disponibilidade" -> [preco |-> 0, disponivel |-> e.novo]
    [] OTHER -> e.novo

(* The row writer w leaves behind; Save inserts what it does not find.     *)
Resultado(w) ==
  LET e == escrita[w] IN
  CASE e.tipo \in {"excluir", "apagarTenant"} -> Nada
    [] e.tipo = "disponibilidade" ->
         [copia[w] EXCEPT !.disponivel = e.novo]
    [] OTHER -> e.novo

(* Save inserts first the shop it carries, when that is gone.              *)
TrazLoja(w) == escrita[w].tipo = "disponibilidade" /\ tenant[escrita[w].t] = Nada

FoneTomado(t, f) ==
  \E u \in Tenants \ {t} : tenant[u] # Nada /\ tenant[u].fone = f

(* The statement fails: no row to delete, a phone id taken, a row that     *)
(* exists already, a shop that is gone and is not brought back (an INSERT  *)
(* that finds its phone id taken does nothing).                            *)
Recusada(w) ==
  LET e == escrita[w] IN
  \/ e.tipo = "excluir" /\ produto[e.t] = Nada
  \/ e.tipo \in {"produto", "apagarTenant"} /\ tenant[e.t] = Nada
  \/ TrazLoja(w) /\ FoneTomado(e.t, dona[w].fone)
  \/ e.tipo = "criarTenant" /\ tenant[e.t] # Nada
  \/ e.tipo \in {"criarTenant", "mudarTenant"} /\ FoneTomado(e.t, e.novo.fone)

(* The rows of the shop and of its product after the write.                *)
ProdutoDepois(w) ==
  IF escrita[w].tipo \in TiposDeProduto \cup {"apagarTenant"}
  THEN Resultado(w) ELSE produto[escrita[w].t]

LojaDepois(w) ==
  IF escrita[w].tipo \in TiposDeTenant THEN Resultado(w)
  ELSE IF TrazLoja(w) THEN dona[w] ELSE tenant[escrita[w].t]

(* Who answers at phone id f.                                              *)
Dono(ten, f) == {t \in Tenants : ten[t] # Nada /\ ten[t].fone = f}

(* The write of w makes what x has read old.                               *)
Ultrapassa(w, x) ==
  IF x \in Leitores
  THEN leitor[x] = "set" /\ Valor(produto', tenant', chave[x]) # Atual(chave[x])
  ELSE /\ copia[x] # Nada /\ escrita[x].t = escrita[w].t
       /\ \/ escrita[w].tipo = "apagarTenant"
          \/ escrita[x].tipo \in TiposDeProduto
               <=> escrita[w].tipo \in TiposDeProduto

(* The write changes what key k stands for, and no DEL of w need follow:   *)
(* a phone id that changes hands, unless a Delete that read the present    *)
(* row takes it; the menu that goes with its shop.                         *)
MudaSemDel(w, k) ==
  LET e == escrita[w] IN
  \/ /\ k[1] = "fone"
     /\ Dono(tenant, k[2]) # Dono(tenant', k[2])
     /\ e.tipo # "apagarTenant" \/ velho[w]
  \/ k = <<"cardapio", e.t>> /\ e.tipo = "apagarTenant" /\ produto[e.t] # Nada

(* The write of the table.  What others have read of the row, or of a key  *)
(* that depends on it, is old now.                                         *)
Gravar(w) ==
  LET e == escrita[w] IN
  /\ escritor[w] = "gravar"
  /\ ~Recusada(w)
  /\ produto' = [produto EXCEPT ![e.t] = ProdutoDepois(w)]
  /\ tenant' = [tenant EXCEPT ![e.t] = LojaDepois(w)]
  /\ velho' = [x \in Leitores \cup Escritores |->
       x # w /\ (velho[x] \/ Ultrapassa(w, x))]
  /\ suspeita' = [k \in Chaves |->
       suspeita[k] \/ (cache[k] # Nada /\ MudaSemDel(w, k))]
  /\ escritor' = [escritor EXCEPT ![w] =
                    IF e.tipo = "criarTenant" THEN "livre" ELSE "del"]
  /\ escrita' = [escrita EXCEPT ![w] =
                    IF e.tipo = "criarTenant" THEN Nada ELSE e]
  /\ UNCHANGED <<cache, leituras, copia, dona, escritas>>

(* The error of the statement, or of the read before it.                   *)
Falhar(w) ==
  /\ escritor[w] \in {"ler", "gravar"}
  /\ Fim(w)
  /\ UNCHANGED <<banco, cache, leituras, escritas, suspeita>>

(* The keys a writer deletes: of a menu, then of every menu whose key      *)
(* begins with that key; of a shop, the phone id its copy carries.         *)
ChavesDe(w) ==
  LET e == escrita[w] IN
  CASE e.tipo \in TiposDeProduto -> {<<"cardapio", e.t>>}
    [] e.tipo = "mudarTenant" -> {<<"fone", e.novo.fone>>}
    [] OTHER -> {<<"fone", copia[w].fone>>}

ChavesDoPadrao(w) ==
  {<<"cardapio", u>> : u \in {v \in Tenants : v = escrita[w].t
                                   \/ <<escrita[w].t, v>> \in Prefixos}}

DepoisDoDel(w) ==
  IF escrita[w].tipo \in TiposDeProduto THEN Ir(w, "padrao") ELSE Fim(w)

(* Mutant: the phone id of a shop is not deleted.                          *)
DelSoCardapio(w) ==
  /\ escritor[w] = "del"
  /\ Remover(ChavesDe(w) \cap ({"cardapio"} \X Tenants))
  /\ DepoisDoDel(w)
  /\ UNCHANGED <<banco, leituras, escritas>>

Del(w) ==
  /\ escritor[w] = "del"
  /\ Remover(ChavesDe(w))
  /\ DepoisDoDel(w)
  /\ UNCHANGED <<banco, leituras, escritas>>

DelPadrao(w) ==
  /\ escritor[w] = "padrao"
  /\ Remover(ChavesDoPadrao(w))
  /\ Fim(w)
  /\ UNCHANGED <<banco, leituras, escritas>>

(* The error of a DEL is logged or dropped: a menu has a second chance.    *)
Suspeitar(ks) ==
  suspeita' = [k \in Chaves |-> 
    suspeita[k] \/ (k \in ks /\ cache[k] # Nada)]

FalharDel(w) ==
  /\ escritor[w] \in {"del", "padrao"}
  /\ IF escritor[w] = "del" /\ escrita[w].tipo \in TiposDeProduto
     THEN Ir(w, "padrao") /\ UNCHANGED suspeita
     ELSE Fim(w) /\ Suspeitar(ChavesDe(w))
  /\ UNCHANGED <<banco, cache, leituras, escritas>>

(* The server stops: what it was doing is gone, Redis and tables remain.   *)
Pendentes == {w \in Escritores : escritor[w] \in {"del", "padrao"}}

Reiniciar ==
  /\ Suspeitar(UNION {ChavesDe(w) : w \in Pendentes})
  /\ leitor' = [r \in Leitores |-> "livre"]
  /\ chave' = [r \in Leitores |-> ChaveNula]
  /\ carregado' = [r \in Leitores |-> Nada]
  /\ escritor' = [w \in Escritores |-> "livre"]
  /\ escrita' = [w \in Escritores |-> Nada]
  /\ copia' = [w \in Escritores |-> Nada]
  /\ dona' = [w \in Escritores |-> Nada]
  /\ velho' = [x \in Leitores \cup Escritores |-> FALSE]
  /\ UNCHANGED <<banco, cache, escritas>>

PassoDoLeitor(r) == Get(r) \/ Carregar(r) \/ Guardar(r)
PassoDoEscritor(w) == Ler(w) \/ Gravar(w) \/ Falhar(w)
                      \/ Del(w) \/ DelPadrao(w) \/ FalharDel(w)

Next ==
  \/ \E r \in Leitores : Consultar(r) \/ PassoDoLeitor(r)
  \/ \E w \in Escritores : Escrever(w) \/ PassoDoEscritor(w)
  \/ \E k \in Chaves : Expirar(k)
  \/ Reiniciar

(* Calls return, and Redis expires the keys it holds.                      *)
Fairness ==
  /\ \A r \in Leitores : WF_vars(PassoDoLeitor(r))
  /\ \A w \in Escritores : WF_vars(PassoDoEscritor(w))
  /\ \A k \in Chaves : WF_vars(Expirar(k))

Spec == Init /\ [][Next]_vars /\ Fairness

-----------------------------------------------------------------------------
Pendente(k) == \E w \in Pendentes : k \in ChavesDe(w)

(* An entry that differs from the database is about to be deleted by the   *)
(* writer, or is suspected: its loader read before the write; the DEL      *)
(* failed or never ran; it is the menu of a shop deleted since, whose      *)
(* products the cascade took and whose Delete removes phone keys only; or  *)
(* it is a phone id that changed hands, because Update deletes the new id  *)
(* only, Create none, and a product saved brings a deleted shop back.      *)
EntradaVelhaTemCausa ==
  \A k \in Chaves : cache[k] # Nada /\ cache[k] # Atual(k)
                     => suspeita[k] \/ Pendente(k)

(* An old menu or an old owner of a phone id does not last: when the       *)
(* writes are over, every entry comes to agree with the database for good. *)
Converge ==
  <>[](\A k \in Chaves : cache[k] \in {Nada, Atual(k)})

(* UpdateDisponibilidade saves the whole product it read: it changes the   *)
(* price, or brings back a deleted product or a deleted shop, only over a  *)
(* write it missed.                                                        *)
SoDisponibilidade ==
  [][\A w \in Escritores :
       /\ escritor[w] = "gravar" /\ escritor'[w] = "del"
       /\ escrita[w].tipo = "disponibilidade" /\ ~velho[w]
       => /\ produto[escrita[w].t] # Nada
          /\ produto'[escrita[w].t].preco = produto[escrita[w].t].preco
          /\ tenant' = tenant]_vars
=============================================================================
