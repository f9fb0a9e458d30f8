-------------------------- MODULE ConsultasProofs --------------------------
(***************************************************************************)
(* Theorems about Consultas, for any number of readers and writers, shops, *)
(* phone ids and prices.                                                   *)
(*                                                                         *)
(* The argument: what a call has read and carries still holds unless a     *)
(* write overtook it (LeitorEmDia, EscritorEmDia).  So a SET stores what   *)
(* the database holds or marks the entry, and a write that makes an entry  *)
(* old has its key among those the writer is still to delete.              *)
(***************************************************************************)
EXTENDS Consultas, TLAPS

(* The unique index: two shops never share a phone id.                     *)
FonesUnicos ==
  \A t, u \in Tenants :
    tenant[t] # Nada /\ tenant[u] # Nada /\ tenant[t].fone = tenant[u].fone => t = u

(* The foreign key: a product has a shop.                                  *)
ProdutoTemLoja ==
  \A t \in Tenants : produto[t] # Nada => tenant[t] # Nada

(* What a writer under way carries.                                        *)
Coerente(w) ==
  /\ escritor[w] # "livre" => escrita[w] \in Escritas
  /\ escritor[w] = "padrao" => escrita[w].tipo \in TiposDeProduto
  /\ escritor[w] \in {"gravar", "del"} /\ LeAntes(escrita[w])
       => copia[w] # Nada
          /\ copia[w] \in IF escrita[w].tipo \in TiposDeProduto THEN Produtos ELSE Lojas
  /\ escritor[w] = "gravar" /\ escrita[w].tipo = "disponibilidade"
       => dona[w] \in Lojas

(* What a reader is about to store is what the database holds, unless a    *)
(* write overtook it.                                                      *)
LeitorEmDia(r) ==
  leitor[r] = "set" /\ ~velho[r] => carregado[r] = Atual(chave[r])

(* The same of the row a writer read.                                      *)
EscritorEmDia(w) ==
  escritor[w] = "gravar" /\ LeAntes(escrita[w]) /\ ~velho[w]
    => copia[w] = Linha(escrita[w])

IInv ==
  /\ TypeOK
  /\ FonesUnicos
  /\ ProdutoTemLoja
  /\ \A w \in Escritores : Coerente(w)
  /\ \A r \in Leitores : LeitorEmDia(r)
  /\ \A w \in Escritores : EscritorEmDia(w)
  /\ EntradaVelhaTemCausa
-----------------------------------------------------------------------------
(* The operators of the model.                                             *)

LEMMA ChaveForma ==
  ASSUME NEW k \in Chaves
  PROVE  \/ k[1] = "cardapio" /\ k[2] \in Tenants /\ k = <<"cardapio", k[2]>>
         \/ k[1] = "fone" /\ k[2] \in Fones /\ k = <<"fone", k[2]>>
BY DEF Chaves

LEMMA ChaveNulaServe == ChaveNula \in Chaves
<1>1. PICK t \in Tenants : TRUE
  BY ChamadasAssumption
<1>2. <<"cardapio", t>> \in Chaves
  BY DEF Chaves
<1> QED
  BY <1>2, Zenon DEF ChaveNula

LEMMA EscritaTipada ==
  ASSUME NEW e \in Escritas
  PROVE  /\ e.t \in Tenants
         /\ e.tipo \in TiposDeProduto \cup TiposDeTenant
         /\ e.tipo = "produto" => e.novo \in Produtos
         /\ e.tipo = "disponibilidade" => e.novo \in BOOLEAN
         /\ e.tipo \in {"criarTenant", "mudarTenant"} => e.novo \in Lojas
BY DEF Escritas, TiposDeProduto, TiposDeTenant

(* The owner of a phone id is the shop found, when there is only one.      *)
LEMMA ValorDoFone ==
  ASSUME NEW p, NEW ten, NEW f, NEW t \in Tenants,
         ten[t] # Nada, ten[t].fone = f,
         \A u \in Tenants : ten[u] # Nada /\ ten[u].fone = f => u = t
  PROVE  Valor(p, ten, <<"fone", f>>) = <<t, ten[t].ativo>>
<1> DEFINE D(u) == ten[u] # Nada /\ ten[u].fone = f
           c == CHOOSE u \in Tenants : D(u)
<1>1. \E u \in Tenants : D(u)
  OBVIOUS
<1>2. c \in Tenants /\ D(c)
  BY <1>1, Zenon
<1>3. c = t
  BY <1>2
<1>4. Valor(p, ten, <<"fone", f>>) = <<c, ten[c].ativo>>
  BY <1>1 DEF Valor
<1> QED
  BY <1>3, <1>4

LEMMA ValorSemDono ==
  ASSUME NEW p, NEW ten, NEW f,
         \A u \in Tenants : ~(ten[u] # Nada /\ ten[u].fone = f)
  PROVE  Valor(p, ten, <<"fone", f>>) = Nada
BY DEF Valor

LEMMA ValorDoCardapio ==
  ASSUME NEW p, NEW ten, NEW t
  PROVE  Valor(p, ten, <<"cardapio", t>>)
           = <<IF p[t] # Nada /\ p[t].disponivel THEN p[t].preco ELSE 0>>
BY DEF Valor

(* What the database answers to a look-up is a value or nothing.           *)
LEMMA ValorTipado ==
  ASSUME TypeOK, FonesUnicos, NEW k \in Chaves
  PROVE  Atual(k) \in Valores \cup {Nada}
<1>1. CASE k[1] = "cardapio"
  <2>1. k = <<"cardapio", k[2]>> /\ k[2] \in Tenants
    BY <1>1, ChaveForma
  <2>2. PICK n : n = IF produto[k[2]] # Nada /\ produto[k[2]].disponivel
                       THEN produto[k[2]].preco ELSE 0
    OBVIOUS
  <2>3. n \in 0..MaxPreco
    <3>1. produto[k[2]] \in Produtos \cup {Nada}
      BY <2>1 DEF TypeOK
    <3> QED
      BY <3>1, <2>2, LimitesAssumption DEF Produtos
  <2>4. Atual(k) = <<n>>
    BY <2>1, <2>2, ValorDoCardapio DEF Atual
  <2> QED
    BY <2>3, <2>4 DEF Valores, Cardapios
<1>2. CASE k[1] = "fone" /\ \E t \in Tenants : tenant[t] # Nada /\ tenant[t].fone = k[2]
  <2>1. k = <<"fone", k[2]>>
    BY <1>2, ChaveForma
  <2>2. PICK t \in Tenants : tenant[t] # Nada /\ tenant[t].fone = k[2]
    BY <1>2
  <2>3. Atual(k) = <<t, tenant[t].ativo>>
    BY <2>1, <2>2, ValorDoFone DEF Atual, FonesUnicos
  <2>4. tenant[t] \in Lojas
    BY <2>2 DEF TypeOK
  <2>5. tenant[t].ativo \in BOOLEAN
    BY <2>4 DEF Lojas
  <2> QED
    BY <2>3, <2>5 DEF Valores
<1>3. CASE k[1] = "fone" /\ ~\E t \in Tenants : tenant[t] # Nada /\ tenant[t].fone = k[2]
  BY <1>3, ChaveForma, ValorSemDono DEF Atual
<1> QED
  BY <1>1, <1>2, <1>3, ChaveForma
-----------------------------------------------------------------------------
(* The common parts of the actions.                                        *)

LEMMA VoltarTipado ==
  ASSUME TypeOK, NEW r \in Leitores, Voltar(r)
  PROVE  /\ leitor' \in [Leitores -> {"livre", "get", "carregar", "set"}]
         /\ chave' \in [Leitores -> Chaves]
         /\ carregado' \in [Leitores -> Valores \cup {Nada}]
         /\ velho' \in [Leitores \cup Escritores -> BOOLEAN]
BY ChaveNulaServe DEF TypeOK, Voltar

LEMMA FimTipado ==
  ASSUME TypeOK, NEW w \in Escritores, Fim(w)
  PROVE  /\ escritor' \in [Escritores -> {"livre", "ler", "gravar", "del", "padrao"}]
         /\ escrita' \in [Escritores -> Escritas \cup {Nada}]
         /\ copia' \in [Escritores -> Produtos \cup Lojas \cup {Nada}]
         /\ dona' \in [Escritores -> Lojas \cup {Nada}]
         /\ velho' \in [Leitores \cup Escritores -> BOOLEAN]
BY DEF TypeOK, Fim

LEMMA RemoverTipado ==
  ASSUME TypeOK, NEW ks, Remover(ks)
  PROVE  /\ cache' \in [Chaves -> Valores \cup {Nada}]
         /\ suspeita' \in [Chaves -> BOOLEAN]
<1>1. cache' \in [Chaves -> Valores \cup {Nada}]
  BY DEF TypeOK, Remover
<1>2. \A k \in Chaves : (k \notin ks /\ suspeita[k]) \in BOOLEAN
  BY Zenon
<1>3. suspeita' \in [Chaves -> BOOLEAN]
  BY <1>2, Zenon DEF Remover
<1> QED
  BY <1>1, <1>3

LEMMA SuspeitarTipado ==
  ASSUME NEW ks, Suspeitar(ks)
  PROVE  suspeita' \in [Chaves -> BOOLEAN]
<1>1. \A k \in Chaves : (suspeita[k] \/ (k \in ks /\ cache[k] # Nada)) \in BOOLEAN
  BY Zenon
<1> QED
  BY <1>1, Zenon DEF Suspeitar

(* The other writers are left alone.                                       *)
Alheio(w) ==
  \A x \in Escritores \ {w} :
    /\ escritor'[x] = escritor[x] /\ escrita'[x] = escrita[x]
    /\ copia'[x] = copia[x] /\ dona'[x] = dona[x]

(* The writer that owes the deletion of k still does.                      *)
LEMMA PendenteFica ==
  ASSUME NEW w \in Escritores, NEW k, Alheio(w), Pendente(k),
         w \in Pendentes /\ k \in ChavesDe(w)
           => w \in Pendentes' /\ k \in ChavesDe(w)'
  PROVE  Pendente(k)'
<1>1. PICK x \in Pendentes : k \in ChavesDe(x)
  BY DEF Pendente
<1>2. CASE x = w
  BY <1>1, <1>2 DEF Pendente
<1>3. CASE x # w
  <2>1. x \in Escritores
    BY <1>1 DEF Pendentes
  <2>2. escritor'[x] = escritor[x] /\ escrita'[x] = escrita[x] /\ copia'[x] = copia[x]
    BY <1>3, <2>1 DEF Alheio
  <2>3. x \in Pendentes'
    BY <1>1, <2>1, <2>2 DEF Pendentes
  <2>4. ChavesDe(x)' = ChavesDe(x)
    BY <2>2 DEF ChavesDe
  <2> QED
    BY <1>1, <2>3, <2>4 DEF Pendente
<1> QED
  BY <1>2, <1>3

LEMMA AtualParado ==
  ASSUME UNCHANGED banco, NEW k
  PROVE  Atual(k)' = Atual(k)
BY DEF banco, Atual, Valor

(* EntradaVelhaTemCausa over a step that stores nothing.                   *)
LEMMA ParadoTemCausa ==
  ASSUME EntradaVelhaTemCausa, UNCHANGED <<banco, cache, suspeita>>,
         \A k \in Chaves : Pendente(k) => Pendente(k)'
  PROVE  EntradaVelhaTemCausa'
<1> SUFFICES ASSUME NEW k \in Chaves, cache'[k] # Nada, cache'[k] # Atual(k)', ~Pendente(k)'
             PROVE  suspeita'[k]
  BY DEF EntradaVelhaTemCausa
<1>1. cache[k] # Nada /\ cache[k] # Atual(k) /\ ~Pendente(k)
  BY AtualParado DEF banco
<1>2. suspeita[k]
  BY <1>1, Zenon DEF EntradaVelhaTemCausa
<1> QED
  BY <1>2, Zenon

LEMMA RemoverTemCausa ==
  ASSUME EntradaVelhaTemCausa, NEW ks, Remover(ks), UNCHANGED banco,
         \A k \in Chaves : Pendente(k) /\ k \notin ks => Pendente(k)'
  PROVE  EntradaVelhaTemCausa'
<1> SUFFICES ASSUME NEW k \in Chaves, cache'[k] # Nada, cache'[k] # Atual(k)', ~Pendente(k)'
             PROVE  suspeita'[k]
  BY DEF EntradaVelhaTemCausa
<1>1. k \notin ks /\ cache'[k] = cache[k]
  BY DEF Remover
<1>2. cache[k] # Nada /\ cache[k] # Atual(k) /\ ~Pendente(k)
  BY <1>1, AtualParado
<1>3. suspeita[k]
  BY <1>2, Zenon DEF EntradaVelhaTemCausa
<1> QED
  BY <1>1, <1>3, Zenon DEF Remover

LEMMA SuspeitarTemCausa ==
  ASSUME EntradaVelhaTemCausa, NEW ks, Suspeitar(ks), UNCHANGED <<banco, cache>>,
         \A k \in Chaves : Pendente(k) /\ k \notin ks => Pendente(k)'
  PROVE  EntradaVelhaTemCausa'
<1> SUFFICES ASSUME NEW k \in Chaves, cache'[k] # Nada, cache'[k] # Atual(k)', ~Pendente(k)'
             PROVE  suspeita'[k]
  BY DEF EntradaVelhaTemCausa
<1>1. cache[k] # Nada /\ cache[k] # Atual(k)
  BY AtualParado DEF banco
<1>2. CASE k \in ks
  BY <1>1, <1>2, Zenon DEF Suspeitar
<1>3. CASE k \notin ks
  <2>1. ~Pendente(k)
    BY <1>3
  <2>2. suspeita[k]
    BY <1>1, <2>1, Zenon DEF EntradaVelhaTemCausa
  <2> QED
    BY <2>2, Zenon DEF Suspeitar
<1> QED
  BY <1>2, <1>3
(* What a call that goes on, or ends, leaves of the invariant.             *)
LEMMA TabelasParadas ==
  ASSUME FonesUnicos, ProdutoTemLoja, UNCHANGED banco
  PROVE  FonesUnicos' /\ ProdutoTemLoja'
BY DEF FonesUnicos, ProdutoTemLoja, banco

LEMMA LeitoresParados ==
  ASSUME \A r \in Leitores : LeitorEmDia(r), UNCHANGED banco,
         NEW R \in SUBSET Leitores,
         \A r \in Leitores \ R :
           /\ leitor'[r] = leitor[r] /\ chave'[r] = chave[r]
           /\ carregado'[r] = carregado[r] /\ velho'[r] = velho[r]
  PROVE  \A r \in Leitores \ R : LeitorEmDia(r)'
<1> SUFFICES ASSUME NEW r \in Leitores \ R, leitor'[r] = "set", ~velho'[r]
             PROVE  carregado'[r] = Atual(chave[r])'
  BY DEF LeitorEmDia
<1>1. leitor[r] = "set" /\ chave'[r] = chave[r] /\ carregado'[r] = carregado[r]
  OBVIOUS
<1>2. ~velho[r]
  BY Zenon
<1>3. carregado[r] = Atual(chave[r])
  BY <1>1, <1>2, Zenon DEF LeitorEmDia
<1> QED
  BY <1>1, <1>3, AtualParado

LEMMA OutrosEscritores ==
  ASSUME \A x \in Escritores : Coerente(x) /\ EscritorEmDia(x),
         UNCHANGED banco, NEW w \in Escritores, Alheio(w),
         \A x \in Escritores \ {w} : velho'[x] = velho[x]
  PROVE  \A x \in Escritores \ {w} : Coerente(x)' /\ EscritorEmDia(x)'
<1> SUFFICES ASSUME NEW x \in Escritores \ {w}
             PROVE  Coerente(x)' /\ EscritorEmDia(x)'
  OBVIOUS
<1>1. /\ escritor'[x] = escritor[x] /\ escrita'[x] = escrita[x]
      /\ copia'[x] = copia[x] /\ dona'[x] = dona[x]
  BY DEF Alheio
<1>2. Coerente(x)'
  BY <1>1 DEF Coerente, LeAntes
<1>3. EscritorEmDia(x)'
  <2> SUFFICES ASSUME escritor'[x] = "gravar", LeAntes(escrita'[x]), ~velho'[x]
               PROVE  copia'[x] = Linha(escrita[x])'
    BY DEF EscritorEmDia, LeAntes
  <2>1. ~velho[x]
    BY Zenon
  <2>2. escritor[x] = "gravar" /\ LeAntes(escrita[x])
    BY <1>1 DEF LeAntes
  <2>3. copia[x] = Linha(escrita[x])
    BY <2>1, <2>2, Zenon DEF EscritorEmDia
  <2> QED
    BY <1>1, <2>3 DEF Linha, banco
<1> QED
  BY <1>2, <1>3

LEMMA GravacoesParadas ==
  ASSUME \A x \in Escritores : Coerente(x) /\ EscritorEmDia(x),
         UNCHANGED <<banco, gravacoes>>,
         \A x \in Escritores : velho'[x] = velho[x]
  PROVE  /\ \A x \in Escritores : Coerente(x)' /\ EscritorEmDia(x)'
         /\ \A k \in Chaves : Pendente(k) => Pendente(k)'
<1>1. \A x \in Escritores : Coerente(x)'
  BY DEF Coerente, gravacoes
<1>2. ASSUME NEW x \in Escritores
      PROVE  EscritorEmDia(x)'
  <2> SUFFICES ASSUME escritor'[x] = "gravar", LeAntes(escrita'[x]), ~velho'[x]
               PROVE  copia'[x] = Linha(escrita[x])'
    BY DEF EscritorEmDia, LeAntes
  <2>1. ~velho[x]
    BY Zenon
  <2>2. copia[x] = Linha(escrita[x])
    BY <2>1 DEF EscritorEmDia, gravacoes
  <2> QED
    BY <2>2 DEF Linha, banco, gravacoes
<1>3. \A k \in Chaves : Pendente(k) => Pendente(k)'
  BY DEF Pendente, Pendentes, ChavesDe, gravacoes
<1> QED
  BY <1>1, <1>2, <1>3

-----------------------------------------------------------------------------
(* The steps of a reader.                                                  *)

LEMMA ConsultarMantem ==
  ASSUME IInv, NEW r \in Leitores, Consultar(r)
  PROVE  IInv'
<1>1. TypeOK'
  BY DEF IInv, TypeOK, Consultar, banco, gravacoes
<1>2. FonesUnicos' /\ ProdutoTemLoja'
  BY TabelasParadas DEF IInv, Consultar
<1>3. /\ \A x \in Escritores : Coerente(x)' /\ EscritorEmDia(x)'
      /\ \A k \in Chaves : Pendente(k) => Pendente(k)'
  BY GravacoesParadas DEF IInv, Consultar
<1>4. leitor'[r] # "set"
  BY DEF IInv, TypeOK, Consultar
<1>5. \A d \in Leitores \ {r} : LeitorEmDia(d)'
  BY LeitoresParados DEF IInv, TypeOK, Consultar
<1>6. EntradaVelhaTemCausa'
  BY <1>3, ParadoTemCausa DEF IInv, Consultar
<1> QED
  BY <1>1, <1>2, <1>3, <1>4, <1>5, <1>6 DEF IInv, LeitorEmDia

(* Voltar leaves the writers and the other readers alone.                  *)
LEMMA VoltarMantem ==
  ASSUME IInv, NEW r \in Leitores, Voltar(r), UNCHANGED <<banco, gravacoes>>
  PROVE  /\ FonesUnicos' /\ ProdutoTemLoja'
         /\ \A x \in Escritores : Coerente(x)' /\ EscritorEmDia(x)'
         /\ \A d \in Leitores : LeitorEmDia(d)'
         /\ \A k \in Chaves : Pendente(k) => Pendente(k)'
<1>1. FonesUnicos' /\ ProdutoTemLoja'
  BY TabelasParadas DEF IInv
<1>2. \A x \in Escritores : velho'[x] = velho[x]
  BY ChamadasAssumption DEF IInv, TypeOK, Voltar
<1>3. /\ \A x \in Escritores : Coerente(x)' /\ EscritorEmDia(x)'
      /\ \A k \in Chaves : Pendente(k) => Pendente(k)'
  BY <1>2, GravacoesParadas DEF IInv
<1>4. leitor'[r] # "set"
  BY DEF IInv, TypeOK, Voltar
<1>5. \A d \in Leitores \ {r} : velho'[d] = velho[d]
  BY DEF IInv, TypeOK, Voltar
<1>6. \A d \in Leitores \ {r} : LeitorEmDia(d)'
  BY <1>5, LeitoresParados DEF IInv, TypeOK, Voltar
<1> QED
  BY <1>1, <1>3, <1>4, <1>6 DEF LeitorEmDia

LEMMA GetMantem ==
  ASSUME IInv, NEW r \in Leitores, Get(r)
  PROVE  IInv'
<1>1. CASE Voltar(r)
  <2>1. TypeOK'
    BY <1>1, VoltarTipado DEF IInv, TypeOK, Get, banco, gravacoes
  <2>2. EntradaVelhaTemCausa'
    BY <1>1, VoltarMantem, ParadoTemCausa DEF IInv, Get
  <2> QED
    BY <1>1, <2>1, <2>2, VoltarMantem DEF IInv, Get
<1>2. CASE /\ leitor' = [leitor EXCEPT ![r] = "carregar"]
           /\ UNCHANGED <<chave, carregado, velho>>
  <2>1. TypeOK'
    BY <1>2 DEF IInv, TypeOK, Get, banco, gravacoes
  <2>2. FonesUnicos' /\ ProdutoTemLoja'
    BY TabelasParadas DEF IInv, Get
  <2>3. /\ \A x \in Escritores : Coerente(x)' /\ EscritorEmDia(x)'
        /\ \A k \in Chaves : Pendente(k) => Pendente(k)'
    BY <1>2, GravacoesParadas DEF IInv, Get
  <2>4. leitor'[r] # "set"
    BY <1>2 DEF IInv, TypeOK
  <2>5. \A d \in Leitores \ {r} : LeitorEmDia(d)'
    BY <1>2, LeitoresParados DEF IInv, TypeOK, Get
  <2>6. EntradaVelhaTemCausa'
    BY <2>3, ParadoTemCausa DEF IInv, Get
  <2> QED
    BY <2>1, <2>2, <2>3, <2>4, <2>5, <2>6 DEF IInv, LeitorEmDia
<1> QED
  BY <1>1, <1>2 DEF Get

LEMMA CarregarMantem ==
  ASSUME IInv, NEW r \in Leitores, Carregar(r)
  PROVE  IInv'
<1>1. CASE Voltar(r)
  <2>1. TypeOK'
    BY <1>1, VoltarTipado DEF IInv, TypeOK, Carregar, banco, gravacoes
  <2>2. EntradaVelhaTemCausa'
    BY <1>1, VoltarMantem, ParadoTemCausa DEF IInv, Carregar
  <2> QED
    BY <1>1, <2>1, <2>2, VoltarMantem DEF IInv, Carregar
<1>2. CASE /\ carregado' = [carregado EXCEPT ![r] = Atual(chave[r])]
           /\ leitor' = [leitor EXCEPT ![r] = "set"]
           /\ UNCHANGED <<chave, velho>>
  <2>1. TypeOK'
    <3>1. Atual(chave[r]) \in Valores \cup {Nada}
      BY ValorTipado DEF IInv, TypeOK
    <3> QED
      BY <1>2, <3>1 DEF IInv, TypeOK, Carregar, banco, gravacoes
  <2>2. FonesUnicos' /\ ProdutoTemLoja'
    BY TabelasParadas DEF IInv, Carregar
  <2>3. /\ \A x \in Escritores : Coerente(x)' /\ EscritorEmDia(x)'
        /\ \A k \in Chaves : Pendente(k) => Pendente(k)'
    BY <1>2, GravacoesParadas DEF IInv, Carregar
  <2>4. LeitorEmDia(r)'
    <3>1. carregado'[r] = Atual(chave[r]) /\ chave'[r] = chave[r]
      BY <1>2 DEF IInv, TypeOK
    <3> QED
      BY <3>1, AtualParado DEF LeitorEmDia, Carregar
  <2>5. \A d \in Leitores \ {r} : LeitorEmDia(d)'
    BY <1>2, LeitoresParados DEF IInv, TypeOK, Carregar
  <2>6. EntradaVelhaTemCausa'
    BY <2>3, ParadoTemCausa DEF IInv, Carregar
  <2> QED
    BY <2>1, <2>2, <2>3, <2>4, <2>5, <2>6 DEF IInv
<1> QED
  BY <1>1, <1>2 DEF Carregar

(* SET stores what the database holds, or marks the entry.                 *)
LEMMA GuardarMantem ==
  ASSUME IInv, NEW r \in Leitores, Guardar(r)
  PROVE  IInv'
<1>1. FonesUnicos' /\ ProdutoTemLoja' /\ (\A x \in Escritores : Coerente(x)' /\ EscritorEmDia(x)')
      /\ (\A d \in Leitores : LeitorEmDia(d)')
      /\ (\A k \in Chaves : Pendente(k) => Pendente(k)')
  BY VoltarMantem DEF Guardar
<1>2. chave[r] \in Chaves /\ carregado[r] \in Valores \cup {Nada}
  BY DEF IInv, TypeOK
<1>3. CASE /\ cache' = [cache EXCEPT ![chave[r]] = carregado[r]]
           /\ suspeita' = [suspeita EXCEPT ![chave[r]] = velho[r]]
  <2>1. suspeita' \in [Chaves -> BOOLEAN]
    <3>1. suspeita \in [Chaves -> BOOLEAN] /\ velho[r] \in BOOLEAN
      BY DEF IInv, TypeOK
    <3> QED
      BY <1>3, <3>1
  <2>2. TypeOK'
    BY <1>2, <1>3, <2>1, VoltarTipado DEF IInv, TypeOK, Guardar, banco, gravacoes
  <2>3. EntradaVelhaTemCausa'
    <3> SUFFICES ASSUME NEW k \in Chaves, cache'[k] # Nada, cache'[k] # Atual(k)', ~Pendente(k)'
                 PROVE  suspeita'[k]
      BY DEF EntradaVelhaTemCausa
    <3>1. Atual(k)' = Atual(k) /\ ~Pendente(k)
      BY <1>1, AtualParado DEF Guardar
    <3>2. CASE k = chave[r]
      <4>1. carregado[r] # Atual(chave[r])
        BY <1>3, <3>1, <3>2 DEF IInv, TypeOK
      <4>2. leitor[r] = "set"
        BY DEF Guardar
      <4>3. velho[r]
        BY <4>1, <4>2 DEF IInv, LeitorEmDia
      <4>4. suspeita'[k] = velho[r]
        BY <1>3, <3>2 DEF IInv, TypeOK
      <4> QED
        BY <4>3, <4>4
    <3>3. CASE k # chave[r]
      <4>1. cache'[k] = cache[k] /\ suspeita'[k] = suspeita[k]
        BY <1>3, <3>3 DEF IInv, TypeOK
      <4>2. suspeita[k]
        BY <3>1, <4>1 DEF IInv, EntradaVelhaTemCausa
      <4> QED
        BY <4>1, <4>2
    <3> QED
      BY <3>2, <3>3
  <2> QED
    BY <1>1, <2>2, <2>3 DEF IInv
<1>4. CASE UNCHANGED <<cache, suspeita>>
  <2>1. TypeOK'
    BY <1>4, VoltarTipado DEF IInv, TypeOK, Guardar, banco, gravacoes
  <2>2. EntradaVelhaTemCausa'
    BY <1>1, <1>4, ParadoTemCausa DEF IInv, Guardar
  <2> QED
    BY <1>1, <2>1, <2>2 DEF IInv
<1> QED
  BY <1>3, <1>4 DEF Guardar

LEMMA ExpirarMantem ==
  ASSUME IInv, NEW k \in Chaves, Expirar(k)
  PROVE  IInv'
<1>1. TypeOK'
  BY RemoverTipado DEF IInv, TypeOK, Expirar, banco, leituras, gravacoes
<1>2. FonesUnicos' /\ ProdutoTemLoja'
  BY TabelasParadas DEF IInv, Expirar
<1>3. /\ \A x \in Escritores : Coerente(x)' /\ EscritorEmDia(x)'
      /\ \A d \in Chaves : Pendente(d) => Pendente(d)'
  BY GravacoesParadas DEF IInv, Expirar
<1>4. \A r \in Leitores : LeitorEmDia(r)'
  BY LeitoresParados DEF IInv, Expirar, leituras
<1>5. EntradaVelhaTemCausa'
  BY <1>3, RemoverTemCausa DEF IInv, Expirar
<1> QED
  BY <1>1, <1>2, <1>3, <1>4, <1>5 DEF IInv
-----------------------------------------------------------------------------
(* The steps of a writer that leave the tables alone.                      *)

LEMMA EscreverMantem ==
  ASSUME IInv, NEW w \in Escritores, Escrever(w)
  PROVE  IInv'
<1>1. PICK e \in Entradas :
        /\ escrita' = [escrita EXCEPT ![w] = e]
        /\ escritor' = [escritor EXCEPT ![w] = IF LeAntes(e) THEN "ler" ELSE "gravar"]
  BY DEF Escrever
<1>2. e \in Escritas
  BY EntradasAssumption
<1>3. escrita'[w] = e /\ escritor'[w] = IF LeAntes(e) THEN "ler" ELSE "gravar"
  BY <1>1 DEF IInv, TypeOK
<1>4. TypeOK'
  <2>1. escritas' \in 0..MaxEscritas
    BY LimitesAssumption DEF IInv, TypeOK, Escrever
  <2> QED
    BY <1>1, <1>2, <2>1 DEF IInv, TypeOK, Escrever, banco, leituras
<1>5. FonesUnicos' /\ ProdutoTemLoja'
  BY TabelasParadas DEF IInv, Escrever
<1>6. Alheio(w)
  BY <1>1 DEF Alheio, IInv, TypeOK, Escrever
<1>7. \A x \in Escritores \ {w} : Coerente(x)' /\ EscritorEmDia(x)'
  BY <1>6, OutrosEscritores DEF IInv, Escrever
<1>8. Coerente(w)' /\ EscritorEmDia(w)'
  BY <1>2, <1>3 DEF Coerente, EscritorEmDia, LeAntes
<1>9. \A r \in Leitores : LeitorEmDia(r)'
  <2>1. UNCHANGED <<banco, leitor, chave, carregado, velho>>
    BY DEF Escrever, leituras
  <2> QED
    BY <2>1, LeitoresParados DEF IInv
<1>10. w \notin Pendentes
  BY DEF Escrever, Pendentes
<1>11. EntradaVelhaTemCausa'
  BY <1>6, <1>10, PendenteFica, ParadoTemCausa DEF IInv, Escrever
<1> QED
  BY <1>4, <1>5, <1>7, <1>8, <1>9, <1>11 DEF IInv

(* A call that ends leaves nothing behind.                                 *)
LEMMA FimMantem ==
  ASSUME IInv, NEW w \in Escritores, Fim(w), UNCHANGED <<banco, leituras>>
  PROVE  /\ FonesUnicos' /\ ProdutoTemLoja'
         /\ \A x \in Escritores : Coerente(x)' /\ EscritorEmDia(x)'
         /\ \A d \in Leitores : LeitorEmDia(d)'
         /\ Alheio(w)
<1>1. FonesUnicos' /\ ProdutoTemLoja'
  BY TabelasParadas DEF IInv
<1>2. Alheio(w)
  BY DEF Alheio, IInv, TypeOK, Fim
<1>3. \A x \in (Leitores \cup Escritores) \ {w} : velho'[x] = velho[x]
  BY DEF IInv, TypeOK, Fim
<1>4. \A x \in Escritores \ {w} : Coerente(x)' /\ EscritorEmDia(x)'
  BY <1>2, <1>3, OutrosEscritores DEF IInv
<1>5. escritor'[w] = "livre"
  BY DEF IInv, TypeOK, Fim
<1>6. Coerente(w)' /\ EscritorEmDia(w)'
  BY <1>5 DEF Coerente, EscritorEmDia
<1>7. \A d \in Leitores : velho'[d] = velho[d]
  BY <1>3, ChamadasAssumption
<1>8. \A d \in Leitores : LeitorEmDia(d)'
  BY <1>7, LeitoresParados DEF IInv, leituras
<1> QED
  BY <1>1, <1>2, <1>4, <1>6, <1>8

LEMMA FimTipaTudo ==
  ASSUME IInv, NEW w \in Escritores, Fim(w), UNCHANGED <<banco, leituras, escritas>>,
         cache' \in [Chaves -> Valores \cup {Nada}], suspeita' \in [Chaves -> BOOLEAN]
  PROVE  TypeOK'
BY FimTipado DEF IInv, TypeOK, banco, leituras

LEMMA LerMantem ==
  ASSUME IInv, NEW w \in Escritores, Ler(w)
  PROVE  IInv'
<1>1. w \notin Pendentes
  BY DEF Ler, Pendentes
<1>2. CASE Fim(w)
  <2>1. TypeOK'
    BY <1>2, FimTipaTudo DEF IInv, TypeOK, Ler
  <2>2. EntradaVelhaTemCausa'
    BY <1>1, <1>2, FimMantem, PendenteFica, ParadoTemCausa DEF IInv, Ler
  <2> QED
    BY <1>2, <2>1, <2>2, FimMantem DEF IInv, Ler
<1>3. CASE /\ Linha(escrita[w]) # Nada
           /\ copia' = [copia EXCEPT ![w] = Linha(escrita[w])]
           /\ dona' = [dona EXCEPT ![w] = tenant[escrita[w].t]]
           /\ escritor' = [escritor EXCEPT ![w] = "gravar"]
           /\ UNCHANGED <<escrita, velho>>
  <2>1. escrita[w] \in Escritas
    BY DEF IInv, Coerente, Ler
  <2>2. escrita[w].t \in Tenants
    BY <2>1, EscritaTipada
  <2>3. Linha(escrita[w]) \in IF escrita[w].tipo \in TiposDeProduto THEN Produtos ELSE Lojas
    BY <1>3, <2>2 DEF IInv, TypeOK, Linha
  <2>4. TypeOK'
    BY <1>3, <2>2, <2>3 DEF IInv, TypeOK, Ler, banco, leituras
  <2>5. FonesUnicos' /\ ProdutoTemLoja'
    BY TabelasParadas DEF IInv, Ler
  <2>6. Alheio(w)
    BY <1>3 DEF Alheio, IInv, TypeOK
  <2>7. \A x \in Escritores \ {w} : Coerente(x)' /\ EscritorEmDia(x)'
    BY <1>3, <2>6, OutrosEscritores DEF IInv, Ler
  <2>8. /\ copia'[w] = Linha(escrita[w]) /\ escritor'[w] = "gravar"
        /\ escrita'[w] = escrita[w] /\ dona'[w] = tenant[escrita[w].t]
    BY <1>3 DEF IInv, TypeOK
  <2>9. Coerente(w)'
    <3>1. escrita[w].tipo = "disponibilidade" => tenant[escrita[w].t] \in Lojas
      BY <1>3, <2>2 DEF IInv, TypeOK, ProdutoTemLoja, Linha, TiposDeProduto
    <3> QED
      BY <1>3, <2>1, <2>3, <2>8, <3>1 DEF Coerente
  <2>10. EscritorEmDia(w)'
    BY <2>8 DEF EscritorEmDia, Linha, Ler, banco
  <2>11. \A r \in Leitores : LeitorEmDia(r)'
    BY <1>3, LeitoresParados DEF IInv, Ler, leituras
  <2>12. EntradaVelhaTemCausa'
    BY <1>1, <2>6, PendenteFica, ParadoTemCausa DEF IInv, Ler
  <2> QED
    BY <2>4, <2>5, <2>7, <2>9, <2>10, <2>11, <2>12 DEF IInv
<1> QED
  BY <1>2, <1>3 DEF Ler

LEMMA FalharMantem ==
  ASSUME IInv, NEW w \in Escritores, Falhar(w)
  PROVE  IInv'
<1>1. w \notin Pendentes
  BY DEF Falhar, Pendentes
<1>2. TypeOK'
  BY FimTipaTudo DEF IInv, TypeOK, Falhar
<1>3. EntradaVelhaTemCausa'
  BY <1>1, FimMantem, PendenteFica, ParadoTemCausa DEF IInv, Falhar
<1> QED
  BY <1>2, <1>3, FimMantem DEF IInv, Falhar

(* The writer of a menu has a second DEL to make: its key is still due.    *)
LEMMA IrMantem ==
  ASSUME IInv, NEW w \in Escritores, escritor[w] = "del",
         escrita[w].tipo \in TiposDeProduto, Ir(w, "padrao"),
         UNCHANGED <<banco, leituras, escritas>>,
         cache' \in [Chaves -> Valores \cup {Nada}], suspeita' \in [Chaves -> BOOLEAN]
  PROVE  /\ TypeOK' /\ FonesUnicos' /\ ProdutoTemLoja'
         /\ \A x \in Escritores : Coerente(x)' /\ EscritorEmDia(x)'
         /\ \A d \in Leitores : LeitorEmDia(d)'
         /\ \A k \in Chaves : Pendente(k) => Pendente(k)'
<1>1. TypeOK'
  BY DEF IInv, TypeOK, Ir, banco, leituras
<1>2. FonesUnicos' /\ ProdutoTemLoja'
  BY TabelasParadas DEF IInv
<1>3. Alheio(w)
  BY DEF Alheio, IInv, TypeOK, Ir
<1>4. \A x \in Escritores \ {w} : Coerente(x)' /\ EscritorEmDia(x)'
  BY <1>3, OutrosEscritores DEF IInv, Ir
<1>5. escritor'[w] = "padrao" /\ escrita'[w] = escrita[w]
  BY DEF IInv, TypeOK, Ir
<1>6. Coerente(w)' /\ EscritorEmDia(w)'
  BY <1>5 DEF IInv, Coerente, EscritorEmDia
<1>7. \A d \in Leitores : LeitorEmDia(d)'
  BY LeitoresParados DEF IInv, Ir, leituras
<1>8. \A k \in Chaves : w \in Pendentes' /\ (k \in ChavesDe(w) => k \in ChavesDe(w)')
  BY <1>5 DEF Pendentes, ChavesDe, Ir
<1>9. \A k \in Chaves : Pendente(k) => Pendente(k)'
  BY <1>3, <1>8, PendenteFica
<1> QED
  BY <1>1, <1>2, <1>4, <1>6, <1>7, <1>9

LEMMA DelMantem ==
  ASSUME IInv, NEW w \in Escritores, Del(w)
  PROVE  IInv'
<1>1. cache' \in [Chaves -> Valores \cup {Nada}] /\ suspeita' \in [Chaves -> BOOLEAN]
  BY RemoverTipado DEF IInv, Del
<1>2. CASE Fim(w)
  <2>1. TypeOK'
    BY <1>1, <1>2, FimTipaTudo DEF Del
  <2>2. \A k \in Chaves : Pendente(k) /\ k \notin ChavesDe(w) => Pendente(k)'
    BY <1>2, FimMantem, PendenteFica DEF Del
  <2>3. EntradaVelhaTemCausa'
    BY <2>2, RemoverTemCausa DEF IInv, Del
  <2> QED
    BY <1>2, <2>1, <2>3, FimMantem DEF IInv, Del
<1>3. CASE escrita[w].tipo \in TiposDeProduto /\ Ir(w, "padrao")
  <2>1. /\ TypeOK' /\ FonesUnicos' /\ ProdutoTemLoja'
        /\ \A x \in Escritores : Coerente(x)' /\ EscritorEmDia(x)'
        /\ \A d \in Leitores : LeitorEmDia(d)'
        /\ \A k \in Chaves : Pendente(k) => Pendente(k)'
    BY <1>1, <1>3, IrMantem DEF Del
  <2>2. EntradaVelhaTemCausa'
    BY <2>1, RemoverTemCausa DEF IInv, Del
  <2> QED
    BY <2>1, <2>2 DEF IInv
<1> QED
  BY <1>2, <1>3 DEF Del, DepoisDoDel

LEMMA DelPadraoMantem ==
  ASSUME IInv, NEW w \in Escritores, DelPadrao(w)
  PROVE  IInv'
<1>1. cache' \in [Chaves -> Valores \cup {Nada}] /\ suspeita' \in [Chaves -> BOOLEAN]
  BY RemoverTipado DEF IInv, DelPadrao
<1>2. TypeOK'
  BY <1>1, FimTipaTudo DEF DelPadrao
<1>3. ChavesDe(w) \subseteq ChavesDoPadrao(w)
  <2>1. escrita[w] \in Escritas /\ escrita[w].tipo \in TiposDeProduto
    BY DEF IInv, Coerente, DelPadrao
  <2>2. escrita[w].t \in Tenants
    BY <2>1, EscritaTipada
  <2> QED
    BY <2>1, <2>2 DEF ChavesDe, ChavesDoPadrao, TiposDeProduto
<1>4. \A k \in Chaves : Pendente(k) /\ k \notin ChavesDoPadrao(w) => Pendente(k)'
  BY <1>3, FimMantem, PendenteFica DEF DelPadrao
<1>5. EntradaVelhaTemCausa'
  BY <1>4, RemoverTemCausa DEF IInv, DelPadrao
<1> QED
  BY <1>2, <1>5, FimMantem DEF IInv, DelPadrao

LEMMA FalharDelMantem ==
  ASSUME IInv, NEW w \in Escritores, FalharDel(w)
  PROVE  IInv'
<1>1. CASE escritor[w] = "del" /\ escrita[w].tipo \in TiposDeProduto
  <2>1. cache' \in [Chaves -> Valores \cup {Nada}] /\ suspeita' \in [Chaves -> BOOLEAN]
    BY <1>1 DEF IInv, TypeOK, FalharDel
  <2>2. /\ TypeOK' /\ FonesUnicos' /\ ProdutoTemLoja'
        /\ \A x \in Escritores : Coerente(x)' /\ EscritorEmDia(x)'
        /\ \A d \in Leitores : LeitorEmDia(d)'
        /\ \A k \in Chaves : Pendente(k) => Pendente(k)'
    BY <1>1, <2>1, IrMantem DEF FalharDel
  <2>3. EntradaVelhaTemCausa'
    BY <1>1, <2>2, ParadoTemCausa DEF IInv, FalharDel
  <2> QED
    BY <2>2, <2>3 DEF IInv
<1>2. CASE Fim(w) /\ Suspeitar(ChavesDe(w))
  <2>1. TypeOK'
    BY <1>2, SuspeitarTipado, FimTipaTudo DEF IInv, TypeOK, FalharDel
  <2>2. \A k \in Chaves : Pendente(k) /\ k \notin ChavesDe(w) => Pendente(k)'
    BY <1>2, FimMantem, PendenteFica DEF FalharDel
  <2>3. EntradaVelhaTemCausa'
    BY <1>2, <2>2, SuspeitarTemCausa DEF IInv, FalharDel
  <2> QED
    BY <1>2, <2>1, <2>3, FimMantem DEF IInv, FalharDel
<1> QED
  BY <1>1, <1>2 DEF FalharDel

LEMMA ReiniciarMantem ==
  ASSUME IInv, Reiniciar
  PROVE  IInv'
<1> DEFINE ks == UNION {ChavesDe(w) : w \in Pendentes}
<1>1. TypeOK'
  <2>1. suspeita' \in [Chaves -> BOOLEAN]
    BY SuspeitarTipado DEF Reiniciar
  <2> QED
    BY <2>1, ChaveNulaServe DEF IInv, TypeOK, Reiniciar, banco
<1>2. FonesUnicos' /\ ProdutoTemLoja'
  BY TabelasParadas DEF IInv, Reiniciar
<1>3. \A x \in Escritores : Coerente(x)' /\ EscritorEmDia(x)'
  BY DEF Reiniciar, Coerente, EscritorEmDia
<1>4. \A d \in Leitores : LeitorEmDia(d)'
  BY DEF Reiniciar, LeitorEmDia
<1>5. \A k \in Chaves : Pendente(k) => k \in ks
  BY DEF Pendente
<1>6. EntradaVelhaTemCausa'
  <2>1. Suspeitar(ks) /\ UNCHANGED <<banco, cache>>
    BY DEF Reiniciar
  <2> QED
    BY <1>5, <2>1, SuspeitarTemCausa DEF IInv
<1> QED
  BY <1>1, <1>2, <1>3, <1>4, <1>6 DEF IInv
-----------------------------------------------------------------------------
(* The write of the table.                                                 *)

(* What a write leaves of the row: the columns it was asked to write.      *)
LEMMA ResultadoTipado ==
  ASSUME IInv, NEW w \in Escritores, escritor[w] = "gravar"
  PROVE  Resultado(w) \in (IF escrita[w].tipo \in TiposDeProduto THEN Produtos ELSE Lojas)
                           \cup {Nada}
<1> DEFINE e == escrita[w]
<1>1. e \in Escritas
  BY DEF IInv, Coerente
<1>2. CASE e.tipo \in {"excluir", "apagarTenant"}
  BY <1>2 DEF Resultado
<1>3. CASE e.tipo = "disponibilidade"
  <2>1. copia[w] \in Produtos /\ e.novo \in BOOLEAN
    BY <1>1, <1>3, EscritaTipada DEF IInv, Coerente, LeAntes, TiposDeProduto
  <2>2. Resultado(w) = [copia[w] EXCEPT !.disponivel = e.novo]
    BY <1>3 DEF Resultado
  <2> QED
    BY <1>3, <2>1, <2>2 DEF Produtos, TiposDeProduto
<1>4. CASE e.tipo \in {"produto", "criarTenant", "mudarTenant"}
  BY <1>1, <1>4, EscritaTipada DEF Resultado, TiposDeProduto
<1> QED
  BY <1>1, <1>2, <1>3, <1>4, EscritaTipada DEF TiposDeProduto, TiposDeTenant

LEMMA GravarTipado ==
  ASSUME IInv, NEW w \in Escritores, Gravar(w)
  PROVE  TypeOK'
<1> DEFINE e == escrita[w]
<1>1. e \in Escritas /\ e.t \in Tenants
  BY EscritaTipada DEF IInv, Coerente, Gravar
<1>2. Resultado(w) \in (IF e.tipo \in TiposDeProduto THEN Produtos ELSE Lojas) \cup {Nada}
  BY ResultadoTipado DEF Gravar
<1>3. produto' \in [Tenants -> Produtos \cup {Nada}] /\ tenant' \in [Tenants -> Lojas \cup {Nada}]
  <2>1. ProdutoDepois(w) \in Produtos \cup {Nada}
    BY <1>1, <1>2 DEF IInv, TypeOK, ProdutoDepois, Resultado
  <2>2. LojaDepois(w) \in Lojas \cup {Nada}
    BY <1>1, <1>2 DEF IInv, TypeOK, LojaDepois, TiposDeProduto, TiposDeTenant
  <2> QED
    BY <2>1, <2>2 DEF IInv, TypeOK, Gravar
<1>4. velho' \in [Leitores \cup Escritores -> BOOLEAN]
  <2>1. \A x \in Leitores \cup Escritores :
          (x # w /\ (velho[x] \/ Ultrapassa(w, x))) \in BOOLEAN
    BY Zenon
  <2> QED
    BY <2>1, Zenon DEF Gravar
<1>5. suspeita' \in [Chaves -> BOOLEAN]
  <2>1. \A k \in Chaves : (suspeita[k] \/ (cache[k] # Nada /\ MudaSemDel(w, k))) \in BOOLEAN
    BY Zenon
  <2> QED
    BY <2>1, Zenon DEF Gravar
<1>6. UNCHANGED <<cache, leitor, chave, carregado, copia, dona, escritas>>
  BY DEF Gravar, leituras
<1>7. /\ escritor' \in [Escritores -> {"livre", "ler", "gravar", "del", "padrao"}]
      /\ escrita' \in [Escritores -> Escritas \cup {Nada}]
  BY <1>1 DEF IInv, TypeOK, Gravar
<1>8. /\ cache \in [Chaves -> Valores \cup {Nada}]
      /\ leitor \in [Leitores -> {"livre", "get", "carregar", "set"}]
      /\ chave \in [Leitores -> Chaves]
      /\ carregado \in [Leitores -> Valores \cup {Nada}]
      /\ copia \in [Escritores -> Produtos \cup Lojas \cup {Nada}]
      /\ dona \in [Escritores -> Lojas \cup {Nada}]
      /\ escritas \in 0..MaxEscritas
  BY DEF IInv, TypeOK
<1> QED
  BY <1>3, <1>4, <1>5, <1>6, <1>7, <1>8 DEF TypeOK

(* The rows after the write.                                               *)
LEMMA LinhasDepois ==
  ASSUME IInv, NEW w \in Escritores, Gravar(w)
  PROVE  /\ escrita[w] \in Escritas /\ escrita[w].t \in Tenants
         /\ produto'[escrita[w].t] = ProdutoDepois(w)
         /\ tenant'[escrita[w].t] = LojaDepois(w)
         /\ \A u \in Tenants \ {escrita[w].t} :
              produto'[u] = produto[u] /\ tenant'[u] = tenant[u]
<1>1. escrita[w] \in Escritas /\ escrita[w].t \in Tenants
  BY EscritaTipada DEF IInv, Coerente, Gravar
<1> QED
  BY <1>1 DEF IInv, TypeOK, Gravar

(* What the write makes of the shop: nothing, a row whose phone id is      *)
(* free, or what it was.                                                   *)
LEMMA LojaGravada ==
  ASSUME IInv, NEW w \in Escritores, Gravar(w)
  PROVE  LET e == escrita[w] IN
         \/ LojaDepois(w) = tenant[e.t]
         \/ LojaDepois(w) = Nada /\ e.tipo = "apagarTenant"
         \/ LojaDepois(w) \in Lojas /\ ~FoneTomado(e.t, LojaDepois(w).fone)
<1> DEFINE e == escrita[w]
<1>1. e \in Escritas /\ escritor[w] = "gravar" /\ ~Recusada(w)
  BY DEF IInv, Coerente, Gravar
<1>2. CASE e.tipo = "apagarTenant"
  BY <1>2 DEF LojaDepois, Resultado, TiposDeTenant
<1>3. CASE e.tipo \in {"criarTenant", "mudarTenant"}
  <2>1. LojaDepois(w) = e.novo
    BY <1>3 DEF LojaDepois, Resultado, TiposDeTenant
  <2>2. e.novo \in Lojas
    BY <1>1, <1>3, EscritaTipada
  <2>3. ~FoneTomado(e.t, e.novo.fone)
    BY <1>1, <1>3 DEF Recusada
  <2> QED
    BY <2>1, <2>2, <2>3
<1>4. CASE e.tipo \in TiposDeProduto /\ TrazLoja(w)
  <2>1. LojaDepois(w) = dona[w]
    BY <1>4 DEF LojaDepois, TiposDeProduto, TiposDeTenant
  <2>2. dona[w] \in Lojas
    BY <1>1, <1>4 DEF TrazLoja, IInv, Coerente
  <2>3. ~FoneTomado(e.t, dona[w].fone)
    BY <1>1, <1>4 DEF Recusada
  <2> QED
    BY <2>1, <2>2, <2>3
<1>5. CASE e.tipo \in TiposDeProduto /\ ~TrazLoja(w)
  BY <1>5 DEF LojaDepois, TiposDeProduto, TiposDeTenant
<1> QED
  BY <1>1, <1>2, <1>3, <1>4, <1>5, EscritaTipada DEF TiposDeTenant

(* The index refuses a phone id that another shop has.                     *)
LEMMA GravarMantemFones ==
  ASSUME IInv, NEW w \in Escritores, Gravar(w)
  PROVE  FonesUnicos'
<1> DEFINE e == escrita[w]
<1>1. /\ e.t \in Tenants /\ tenant'[e.t] = LojaDepois(w)
      /\ \A u \in Tenants \ {e.t} : tenant'[u] = tenant[u]
  BY LinhasDepois
<1>2. \A u \in Tenants \ {e.t} :
        tenant'[e.t] # Nada /\ tenant[u] # Nada => tenant'[e.t].fone # tenant[u].fone
  BY <1>1, LojaGravada DEF IInv, FonesUnicos, FoneTomado
<1> SUFFICES ASSUME NEW t \in Tenants, NEW u \in Tenants, t # u,
                    tenant'[t] # Nada, tenant'[u] # Nada, tenant'[t].fone = tenant'[u].fone
             PROVE  FALSE
  BY DEF FonesUnicos
<1>3. t # e.t /\ u # e.t
  BY <1>1, <1>2
<1> QED
  BY <1>1, <1>3 DEF IInv, FonesUnicos

(* The cascade, and the refusal of a product whose shop is gone.           *)
LEMMA GravarMantemLojas ==
  ASSUME IInv, NEW w \in Escritores, Gravar(w)
  PROVE  ProdutoTemLoja'
<1> DEFINE e == escrita[w]
<1>1. /\ e \in Escritas /\ e.t \in Tenants
      /\ produto'[e.t] = ProdutoDepois(w) /\ tenant'[e.t] = LojaDepois(w)
      /\ \A u \in Tenants \ {e.t} : produto'[u] = produto[u] /\ tenant'[u] = tenant[u]
  BY LinhasDepois
<1>2. CASE e.tipo \in {"excluir", "apagarTenant"}
  <2>1. produto'[e.t] = Nada
    BY <1>1, <1>2 DEF ProdutoDepois, Resultado, TiposDeProduto
  <2> QED
    BY <1>1, <2>1 DEF IInv, ProdutoTemLoja
<1>3. CASE e.tipo = "produto"
  <2>1. tenant'[e.t] = tenant[e.t] /\ tenant[e.t] # Nada
    BY <1>1, <1>3 DEF LojaDepois, TrazLoja, TiposDeTenant, Gravar, Recusada
  <2> QED
    BY <1>1, <2>1 DEF IInv, ProdutoTemLoja
<1>4. CASE e.tipo = "disponibilidade"
  <2>1. dona[w] # Nada
    <3>1. dona[w] \in Lojas
      BY <1>4 DEF IInv, Coerente, Gravar
    <3> QED
      BY <3>1 DEF Nada, Lojas
  <2>2. tenant'[e.t] # Nada
    BY <1>1, <1>4, <2>1 DEF LojaDepois, TrazLoja, TiposDeTenant
  <2> QED
    BY <1>1, <2>2 DEF IInv, ProdutoTemLoja
<1>5. CASE e.tipo \in {"criarTenant", "mudarTenant"}
  <2>1. tenant'[e.t] = e.novo /\ e.novo \in Lojas
    BY <1>1, <1>5, EscritaTipada DEF LojaDepois, Resultado, TiposDeTenant
  <2>2. e.novo # Nada
    BY <2>1 DEF Nada, Lojas
  <2> QED
    BY <1>1, <2>1, <2>2 DEF IInv, ProdutoTemLoja
<1> QED
  BY <1>1, <1>2, <1>3, <1>4, <1>5, EscritaTipada DEF TiposDeProduto, TiposDeTenant

(* A reader whose value is not marked carries what the database now holds. *)
LEMMA GravarMantemLeitores ==
  ASSUME IInv, NEW w \in Escritores, Gravar(w), NEW r \in Leitores
  PROVE  LeitorEmDia(r)'
<1> SUFFICES ASSUME leitor'[r] = "set", ~velho'[r]
             PROVE  carregado'[r] = Atual(chave[r])'
  BY DEF LeitorEmDia
<1>1. leitor[r] = "set" /\ chave'[r] = chave[r] /\ carregado'[r] = carregado[r]
  BY DEF Gravar, leituras
<1>2. r # w
  BY ChamadasAssumption
<1>3. ~velho[r] /\ ~Ultrapassa(w, r)
  BY <1>2, Zenon DEF Gravar
<1>4. carregado[r] = Atual(chave[r])
  BY <1>1, <1>3, Zenon DEF IInv, LeitorEmDia
<1>5. Valor(produto', tenant', chave[r]) = Atual(chave[r])
  BY <1>1, <1>3 DEF Ultrapassa
<1> QED
  BY <1>1, <1>4, <1>5 DEF Atual

LEMMA GravarMantemEscritores ==
  ASSUME IInv, NEW w \in Escritores, Gravar(w)
  PROVE  \A x \in Escritores : Coerente(x)' /\ EscritorEmDia(x)'
<1> DEFINE e == escrita[w]
<1>1. e \in Escritas /\ e.t \in Tenants
  BY EscritaTipada DEF IInv, Coerente, Gravar
<1>2. /\ escritor'[w] = (IF e.tipo = "criarTenant" THEN "livre" ELSE "del")
      /\ escrita'[w] = (IF e.tipo = "criarTenant" THEN Nada ELSE e)
      /\ copia' = copia
  BY DEF IInv, TypeOK, Gravar
<1>3. Coerente(w)' /\ EscritorEmDia(w)'
  BY <1>1, <1>2 DEF IInv, Coerente, EscritorEmDia, LeAntes, Gravar
<1> SUFFICES ASSUME NEW x \in Escritores \ {w}
             PROVE  Coerente(x)' /\ EscritorEmDia(x)'
  BY <1>3
<1>4. /\ escritor'[x] = escritor[x] /\ escrita'[x] = escrita[x]
      /\ copia'[x] = copia[x] /\ dona'[x] = dona[x]
  BY DEF IInv, TypeOK, Gravar
<1>5. Coerente(x)'
  BY <1>4 DEF IInv, Coerente, LeAntes
<1>6. EscritorEmDia(x)'
  <2> SUFFICES ASSUME escritor[x] = "gravar", LeAntes(escrita[x]), ~velho'[x]
               PROVE  copia[x] = Linha(escrita[x])'
    BY <1>4 DEF EscritorEmDia, LeAntes
  <2>1. ~velho[x] /\ ~Ultrapassa(w, x)
    BY Zenon DEF Gravar
  <2>2. copia[x] = Linha(escrita[x])
    BY <2>1, Zenon DEF IInv, EscritorEmDia
  <2>3. escrita[x] \in Escritas /\ escrita[x].t \in Tenants
    BY EscritaTipada DEF IInv, Coerente
  <2>4. x \notin Leitores
    BY ChamadasAssumption
  <2>5. copia[x] # Nada
    BY DEF IInv, Coerente
  <2>6. \/ escrita[x].t # e.t
        \/ /\ e.tipo # "apagarTenant"
           /\ ~(escrita[x].tipo \in TiposDeProduto <=> e.tipo \in TiposDeProduto)
    BY <2>1, <2>4, <2>5 DEF Ultrapassa
  <2>7. CASE escrita[x].t # e.t
    BY <1>4, <2>2, <2>3, <2>7, LinhasDepois DEF Linha
  <2>8. CASE escrita[x].t = e.t /\ escrita[x].tipo \in TiposDeProduto
    <3>1. produto'[e.t] = produto[e.t]
      BY <1>1, <2>6, <2>8, LinhasDepois DEF ProdutoDepois
    <3> QED
      BY <1>4, <2>2, <2>8, <3>1 DEF Linha
  <2>9. CASE escrita[x].t = e.t /\ escrita[x].tipo \notin TiposDeProduto
    <3>1. e.tipo \in TiposDeProduto /\ copia[x] = tenant[e.t]
      BY <2>2, <2>6, <2>9 DEF Linha
    <3>2. tenant'[e.t] = tenant[e.t]
      BY <1>1, <2>5, <3>1, LinhasDepois DEF LojaDepois, TrazLoja, TiposDeProduto, TiposDeTenant
    <3> QED
      BY <1>4, <2>9, <3>1, <3>2 DEF Linha
  <2> QED
    BY <2>7, <2>8, <2>9
<1> QED
  BY <1>5, <1>6
(* The key of an entry that a write makes old is among those its writer is *)
(* still to delete, or the entry is marked.                                *)
LEMMA GravarMantemCausa ==
  ASSUME IInv, NEW w \in Escritores, Gravar(w)
  PROVE  EntradaVelhaTemCausa'
<1> DEFINE e == escrita[w]
<1>1. e \in Escritas /\ e.t \in Tenants
  BY EscritaTipada DEF IInv, Coerente, Gravar
<1>2. TypeOK /\ TypeOK' /\ FonesUnicos /\ FonesUnicos'
  BY GravarTipado, GravarMantemFones DEF IInv
<1>3. Alheio(w)
  BY DEF Alheio, IInv, TypeOK, Gravar
<1>4. w \notin Pendentes
  BY DEF Pendentes, Gravar
<1>5. e.tipo # "criarTenant" =>
        /\ w \in Pendentes'
        /\ escrita'[w] = e /\ copia'[w] = copia[w]
  BY DEF Pendentes, IInv, TypeOK, Gravar
<1> SUFFICES ASSUME NEW k \in Chaves, cache[k] # Nada, cache[k] # Atual(k)', ~Pendente(k)'
             PROVE  suspeita'[k]
  BY DEF EntradaVelhaTemCausa, Gravar
<1>6. ~Pendente(k)
  BY <1>3, <1>4, PendenteFica
<1>7. e.tipo # "criarTenant" => k \notin ChavesDe(w)'
  BY <1>5 DEF Pendente
<1>8. CASE Atual(k)' = Atual(k)
  <2>1. suspeita[k]
    BY <1>6, <1>8 DEF IInv, EntradaVelhaTemCausa
  <2> QED
    BY <2>1, Zenon DEF Gravar
<1>9. CASE k[1] = "cardapio" /\ Atual(k)' # Atual(k)
  <2>1. k = <<"cardapio", k[2]>> /\ k[2] \in Tenants
    BY <1>9, ChaveForma
  <2>2. produto'[k[2]] # produto[k[2]]
    BY <1>9 DEF Atual, Valor
  <2>3. k[2] = e.t /\ e.tipo \in TiposDeProduto \cup {"apagarTenant"}
    BY <2>1, <2>2, LinhasDepois DEF ProdutoDepois
  <2>4. CASE e.tipo \in TiposDeProduto
    <3>1. k \in ChavesDe(w)'
      BY <1>5, <2>1, <2>3, <2>4 DEF ChavesDe, TiposDeProduto
    <3> QED
      BY <1>7, <2>4, <3>1 DEF TiposDeProduto
  <2>5. CASE e.tipo = "apagarTenant"
    <3>1. produto'[e.t] = Nada
      BY <2>5, LinhasDepois DEF ProdutoDepois, Resultado
    <3>2. MudaSemDel(w, k)
      BY <2>1, <2>2, <2>3, <2>5, <3>1 DEF MudaSemDel
    <3> QED
      BY <3>2, Zenon DEF Gravar
  <2> QED
    BY <2>3, <2>4, <2>5
<1>10. CASE k[1] = "fone" /\ Atual(k)' # Atual(k)
  <2>1. k = <<"fone", k[2]>>
    BY <1>10, ChaveForma
  <2>4. /\ tenant'[e.t] = LojaDepois(w) /\ produto'[e.t] = ProdutoDepois(w)
        /\ \A u \in Tenants \ {e.t} : tenant'[u] = tenant[u]
    BY LinhasDepois
  <2>5. CASE Dono(tenant, k[2]) # Dono(tenant', k[2]) /\ (e.tipo # "apagarTenant" \/ velho[w])
    BY <1>10, <2>5, Zenon DEF Gravar, MudaSemDel
  <2>6. CASE e.tipo = "apagarTenant" /\ ~velho[w] /\ Dono(tenant, k[2]) # Dono(tenant', k[2])
    <3>1. tenant'[e.t] = Nada
      BY <2>4, <2>6 DEF LojaDepois, Resultado, TiposDeTenant
    <3>2. e.t \in Dono(tenant, k[2])
      BY <2>4, <2>6, <3>1 DEF Dono
    <3>3. copia[w] = tenant[e.t]
      <4>1. escritor[w] = "gravar" /\ LeAntes(e) /\ ~velho[w]
        BY <2>6 DEF Gravar, LeAntes
      <4>2. copia[w] = Linha(e)
        BY <4>1 DEF IInv, EscritorEmDia
      <4> QED
        BY <2>6, <4>2 DEF Linha, TiposDeProduto
    <3>4. k \in ChavesDe(w)'
      BY <1>5, <2>1, <2>6, <3>2, <3>3 DEF ChavesDe, Dono, TiposDeProduto
    <3> QED
      BY <1>7, <2>6, <3>4
  <2>7. CASE Dono(tenant, k[2]) = Dono(tenant', k[2])
    <3>1. CASE Dono(tenant, k[2]) = {}
      <4>1. Atual(k) = Nada
        BY <2>1, <3>1, ValorSemDono DEF Atual, Dono
      <4>2. \A u \in Tenants : ~(tenant'[u] # Nada /\ tenant'[u].fone = k[2])
        BY <2>7, <3>1 DEF Dono
      <4>3. Valor(produto', tenant', <<"fone", k[2]>>) = Nada
        BY <4>2, ValorSemDono
      <4> QED
        BY <1>10, <2>1, <4>1, <4>3 DEF Atual
    <3>2. CASE Dono(tenant, k[2]) # {}
      <4>1. PICK t \in Tenants : /\ tenant[t] # Nada /\ tenant[t].fone = k[2]
                                 /\ tenant'[t] # Nada /\ tenant'[t].fone = k[2]
        BY <2>7, <3>2 DEF Dono
      <4>2. Atual(k) = <<t, tenant[t].ativo>>
        <5>1. \A u \in Tenants : tenant[u] # Nada /\ tenant[u].fone = k[2] => u = t
          BY <1>2, <4>1 DEF FonesUnicos
        <5>2. Valor(produto, tenant, <<"fone", k[2]>>) = <<t, tenant[t].ativo>>
          BY <4>1, <5>1, ValorDoFone
        <5> QED
          BY <2>1, <5>2 DEF Atual
      <4>3. Atual(k)' = <<t, tenant'[t].ativo>>
        <5>1. \A u \in Tenants : tenant'[u] # Nada /\ tenant'[u].fone = k[2] => u = t
          BY <1>2, <4>1 DEF FonesUnicos
        <5>2. Valor(produto', tenant', <<"fone", k[2]>>) = <<t, tenant'[t].ativo>>
          BY <4>1, <5>1, ValorDoFone
        <5> QED
          BY <2>1, <5>2 DEF Atual
      <4>4. t = e.t
        BY <1>10, <2>4, <4>2, <4>3
      <4>5. e.tipo = "mudarTenant"
        <5>1. tenant'[e.t] # tenant[e.t] /\ tenant[e.t] # Nada /\ tenant'[e.t] # Nada
          BY <1>10, <4>1, <4>2, <4>3, <4>4
        <5>2. e.tipo \in TiposDeTenant
          BY <2>4, <5>1 DEF LojaDepois, TrazLoja
        <5>3. e.tipo # "apagarTenant"
          BY <2>4, <5>1 DEF LojaDepois, Resultado, TiposDeTenant
        <5>4. e.tipo # "criarTenant"
          BY <5>1 DEF Gravar, Recusada
        <5> QED
          BY <5>2, <5>3, <5>4 DEF TiposDeTenant
      <4>6. tenant'[e.t] = e.novo
        BY <2>4, <4>5 DEF LojaDepois, Resultado, TiposDeTenant
      <4>7. k \in ChavesDe(w)'
        BY <1>5, <2>1, <4>1, <4>4, <4>5, <4>6 DEF ChavesDe, TiposDeProduto
      <4> QED
        BY <1>7, <4>5, <4>7
    <3> QED
      BY <3>1, <3>2
  <2> QED
    BY <2>5, <2>6, <2>7
<1> QED
  BY <1>8, <1>9, <1>10, ChaveForma

-----------------------------------------------------------------------------
(* The theorems.                                                           *)

LEMMA InicioVale ==
  ASSUME Init
  PROVE  IInv
<1>1. TypeOK
  <2>1. produto \in [Tenants -> Produtos \cup {Nada}]
    BY LimitesAssumption DEF Init, Produtos
  <2>2. escritas \in 0..MaxEscritas
    BY LimitesAssumption DEF Init
  <2> QED
    BY <2>1, <2>2, ChaveNulaServe DEF Init, TypeOK
<1>2. FonesUnicos /\ ProdutoTemLoja
  BY DEF Init, FonesUnicos, ProdutoTemLoja
<1>3. \A x \in Escritores : Coerente(x) /\ EscritorEmDia(x)
  BY DEF Init, Coerente, EscritorEmDia
<1>4. \A r \in Leitores : LeitorEmDia(r)
  BY DEF Init, LeitorEmDia
<1>5. EntradaVelhaTemCausa
  BY DEF Init, EntradaVelhaTemCausa
<1> QED
  BY <1>1, <1>2, <1>3, <1>4, <1>5 DEF IInv

LEMMA GravarMantem ==
  ASSUME IInv, NEW w \in Escritores, Gravar(w)
  PROVE  IInv'
BY GravarTipado, GravarMantemFones, GravarMantemLojas, GravarMantemLeitores, GravarMantemEscritores,
   GravarMantemCausa DEF IInv

LEMMA PassoMantem ==
  ASSUME IInv, [Next]_vars
  PROVE  IInv'
<1>1. ASSUME NEW r \in Leitores, Consultar(r) \/ PassoDoLeitor(r)
      PROVE  IInv'
  BY <1>1, ConsultarMantem, GetMantem, CarregarMantem, GuardarMantem DEF PassoDoLeitor
<1>2. ASSUME NEW w \in Escritores, Escrever(w) \/ PassoDoEscritor(w)
      PROVE  IInv'
  BY <1>2, EscreverMantem, LerMantem, GravarMantem, FalharMantem, DelMantem,
     DelPadraoMantem, FalharDelMantem DEF PassoDoEscritor
<1>3. CASE UNCHANGED vars
  BY <1>3 DEF vars, IInv, TypeOK, FonesUnicos, ProdutoTemLoja, Coerente, LeAntes, LeitorEmDia,
              EscritorEmDia,
              Linha, Atual, Valor, EntradaVelhaTemCausa, Pendente, Pendentes, ChavesDe
<1> QED
  BY <1>1, <1>2, <1>3, ExpirarMantem, ReiniciarMantem DEF Next

(* The invariant: what is carried is current unless a write overtook it,   *)
(* and an old entry is marked or about to be deleted.                      *)
THEOREM ConsultasInvariante == Spec => []IInv
BY InicioVale, PassoMantem, PTL DEF Spec

(* TypeOK: the tables, the keys and every call are well typed.             *)
THEOREM ConsultasTipadas == Spec => []TypeOK
<1>1. IInv => TypeOK
  BY DEF IInv
<1> QED
  BY <1>1, ConsultasInvariante, PTL

(* EntradaVelhaTemCausa: for any number of readers, writers, shops and     *)
(* phone ids, a cached menu or owner that differs from the database has    *)
(* one of the causes named; no other interleaving of GetOrSet with the     *)
(* writers of cardapio_service.go and tenant_service.go makes one.         *)
THEOREM EntradaVelhaSempreTemCausa == Spec => []EntradaVelhaTemCausa
<1>1. IInv => EntradaVelhaTemCausa
  BY DEF IInv
<1> QED
  BY <1>1, ConsultasInvariante, PTL

(* SoDisponibilidade: UpdateDisponibilidade leaves price and existence of  *)
(* the product, and its shop, as they are unless a write, a deletion of    *)
(* the shop included, came between its read and its Save.                  *)
THEOREM DisponibilidadeSoMudaSe == Spec => SoDisponibilidade
<1>1. ASSUME IInv, [Next]_vars, NEW w \in Escritores,
             escritor[w] = "gravar", escritor'[w] = "del",
             escrita[w].tipo = "disponibilidade", ~velho[w]
      PROVE  /\ produto[escrita[w].t] # Nada
             /\ produto'[escrita[w].t].preco = produto[escrita[w].t].preco
             /\ tenant' = tenant
  <2>1. escrita[w] \in Escritas /\ escrita[w].t \in Tenants
    BY <1>1, EscritaTipada DEF IInv, Coerente
  <2>2. LeAntes(escrita[w])
    BY <1>1 DEF LeAntes
  <2>3. copia[w] # Nada /\ copia[w] \in Produtos /\ copia[w] = produto[escrita[w].t]
    BY <1>1, <2>2 DEF IInv, Coerente, EscritorEmDia, Linha, TiposDeProduto
  <2>4. Gravar(w)
    <3>1. ASSUME NEW x \in Escritores \ {w}, Escrever(x) \/ PassoDoEscritor(x)
          PROVE  escritor'[w] = escritor[w]
      BY <1>1, <3>1 DEF IInv, TypeOK, Escrever, PassoDoEscritor, Ler, Gravar, Falhar, Del, DelPadrao,
                  FalharDel, DepoisDoDel, Fim, Ir
    <3>2. ASSUME Escrever(w) \/ PassoDoEscritor(w)
          PROVE  Gravar(w)
      BY <1>1, <3>2 DEF IInv, TypeOK, Escrever, PassoDoEscritor, Ler, Falhar, Del, DelPadrao,
                  FalharDel, DepoisDoDel, Fim, Ir
    <3>3. ASSUME NEW r \in Leitores, Consultar(r) \/ PassoDoLeitor(r)
          PROVE  escritor' = escritor
      BY <3>3 DEF Consultar, PassoDoLeitor, Get, Carregar, Guardar, gravacoes
    <3>4. ASSUME NEW k \in Chaves, Expirar(k)
          PROVE  escritor' = escritor
      BY <3>4 DEF Expirar, gravacoes
    <3>5. ASSUME Reiniciar
          PROVE  escritor'[w] = "livre"
      BY <3>5 DEF Reiniciar
    <3>6. CASE UNCHANGED vars
      BY <1>1, <3>6 DEF vars
    <3> QED
      BY <1>1, <3>1, <3>2, <3>3, <3>4, <3>5, <3>6 DEF Next
  <2>5. produto'[escrita[w].t] = [copia[w] EXCEPT !.disponivel = escrita[w].novo]
    BY <1>1, <2>4, LinhasDepois DEF ProdutoDepois, Resultado, TiposDeProduto
  <2>6. LojaDepois(w) = tenant[escrita[w].t]
    BY <1>1, <2>1, <2>3 DEF IInv, ProdutoTemLoja, LojaDepois, TrazLoja, TiposDeTenant
  <2>7. tenant' = tenant
    <3>1. tenant' = [tenant EXCEPT ![escrita[w].t] = LojaDepois(w)]
      BY <2>4 DEF Gravar
    <3>2. tenant \in [Tenants -> Lojas \cup {Nada}]
      BY <1>1 DEF IInv, TypeOK
    <3> QED
      BY <2>6, <3>1, <3>2
  <2> QED
    BY <2>3, <2>5, <2>7 DEF Produtos
<1>2. ASSUME IInv, [Next]_vars
      PROVE  [\A w \in Escritores :
                /\ escritor[w] = "gravar" /\ escritor'[w] = "del"
                /\ escrita[w].tipo = "disponibilidade" /\ ~velho[w]
                => /\ produto[escrita[w].t] # Nada
                   /\ produto'[escrita[w].t].preco = produto[escrita[w].t].preco
                   /\ tenant' = tenant]_vars
  BY <1>1, <1>2
<1> QED
  BY <1>2, ConsultasInvariante, PTL DEF Spec, SoDisponibilidade
=============================================================================
