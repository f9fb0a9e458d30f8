------------------------- MODULE ImplantacaoProofs -------------------------
(***************************************************************************)
(* Theorems about Migracao and Implantacao, for any number of migrators    *)
(* and orders and any databases and environments to start from.            *)
(***************************************************************************)
EXTENDS Implantacao, SequenceTheorems, TLAPS

Amplo == Legado \cup Canonico
Remapear  == <<Comando("remapear", "preparando"), Comando("modificar", Canonico)>>
Estreitar == <<Comando("modificar", Canonico)>>
Criar(t) == Comando("criar", t)
Registrar(v) == Comando("registrar", v)

Esquemas ==
  [tabelas : SUBSET Tabelas, colunas : SUBSET ToSet(Colunas),
   numeros : SUBSET SemNumero, permite : {Legado, Amplo, Canonico},
   indices : SUBSET ToSet(Indices), versao : 0..Ultima]

Tipada ==
  /\ banco \in Esquemas
  /\ estrito \in BOOLEAN
  /\ status \in [Pedidos -> Amplo \cup {Truncado}]
  /\ devido \in [Pedidos -> Canonico]
  /\ fase \in [Migradores -> {"parado", "rodando", "ok", "falhou"}]
  /\ ponto \in [Migradores -> 1..13]
  /\ DOMAIN comandos = Migradores
  /\ culpa \subseteq Migradores

(* Foreign keys, and the versions goose recorded.                          *)
Esquema ==
  /\ "pedidos" \in banco.tabelas => {"tenants", "produtos"} \subseteq banco.tabelas
  /\ "pedido_pagamentos" \in banco.tabelas => "pedidos" \in banco.tabelas
  /\ banco.versao >= 6 => DePagamento \subseteq banco.tabelas
  /\ \A p \in Pedidos : status[p] \in banco.permite \cup {Truncado}

(* The statements a run still has before it.                               *)
DoGoose(f) ==
  \/ \E v \in 1..Ultima : /\ f = <<Registrar(v)>>
                          /\ v >= 6 => DePagamento \subseteq banco.tabelas
  \/ \E v \in 1..3 : f = <<Criar(Cria(v)[1]), Registrar(v)>>
  \/ /\ f = <<Criar("pedido_pagamentos"), Registrar(6)>>
     /\ "formas_pagamento" \in banco.tabelas
  \/ f = <<Criar("formas_pagamento"), Criar("pedido_pagamentos"), Registrar(6)>>

Fila(m) ==
  \/ comandos[m] = <<>>
  \/ /\ fase[m] = "rodando"
     /\ \/ ponto[m] \in 1..11 /\ comandos[m] = <<Programa[ponto[m]]>>
        \/ ponto[m] = 12 /\ comandos[m] \in {Ampliar, Remapear, Estreitar}
        \/ ponto[m] = 13 /\ DoGoose(comandos[m])

(* What the parts behind a run have left, whoever did it.                  *)
Avanco(m) ==
  fase[m] = "rodando" =>
    /\ \A i \in 1..5 : i < ponto[m] => Colunas[i] \in banco.colunas
    /\ \A i \in 1..4 : i + 7 < ponto[m] => Indices[i] \in banco.indices
    /\ ponto[m] = 13 /\ "pedidos" \in banco.tabelas => Canonico \subseteq banco.permite

(* Between widening and narrowing the column, the rows still in preparando *)
(* came late.                                                              *)
Remapeado(m) ==
  /\ comandos[m] \in {Remapear, Estreitar} => Canonico \subseteq banco.permite
  /\ comandos[m] = Estreitar =>
       \A p \in Pedidos : status[p] = "preparando" => p \in tardios /\ m \in culpa

(* A run without fault is the only one, and what it read still holds.      *)
Sozinho(m) ==
  fase[m] = "rodando" /\ m \notin culpa =>
    /\ Rodando = {m}
    /\ comandos[m] # <<>> =>
         /\ ponto[m] \in 1..5 => Colunas[ponto[m]] \notin banco.colunas
         /\ ponto[m] \in 8..11 => Indices[ponto[m] - 7] \notin banco.indices

Pronto ==
  /\ Canonico \subseteq banco.permite
  /\ ToSet(Colunas) \subseteq banco.colunas
  /\ ToSet(Indices) \subseteq banco.indices
  /\ DePagamento \subseteq banco.tabelas

Servido ==
  /\ (\E m \in Migradores : fase[m] = "ok") \/ servidor # "antigo" => Pronto
  /\ servidor \in {"banco", "redis", "llm"} => Validar
  /\ servidor \in {"escutar", "no_ar"} => \A f \in Funcoes : clientes[f] \in pool

IInv ==
  /\ Tipada
  /\ Esquema
  /\ \A m \in Migradores : Fila(m) /\ Avanco(m) /\ Remapeado(m) /\ Sozinho(m)
  /\ Servido
  /\ StatusPreservado
  /\ FalhaTemCausa
-----------------------------------------------------------------------------
(* The program of a run, statement by statement.                           *)

LEMMA Concatena ==
  ASSUME NEW S, NEW s, NEW t, NEW c, s \in Seq(S), t \in Seq(S), c = s \o t
  PROVE  /\ c \in Seq(S)
         /\ Len(c) = Len(s) + Len(t)
         /\ \A i \in 1..Len(s) : c[i] = s[i]
         /\ \A i \in 1..Len(t) : c[Len(s) + i] = t[i]
<1>1. /\ s \o t \in Seq(S)
      /\ Len(s \o t) = Len(s) + Len(t)
      /\ \A i \in 1 .. Len(s) + Len(t) : (s \o t)[i] =
            IF i <= Len(s) THEN s[i] ELSE t[i - Len(s)]
  BY ConcatProperties
<1>2. /\ c \in Seq(S)
      /\ Len(c) = Len(s) + Len(t)
      /\ \A i \in 1 .. Len(s) + Len(t) : c[i] =
            IF i <= Len(s) THEN s[i] ELSE t[i - Len(s)]
  BY <1>1, Zenon
<1>3. Len(s) \in Nat /\ Len(t) \in Nat
  BY LenProperties
<1>4. ASSUME NEW i \in 1..Len(t)
      PROVE  c[Len(s) + i] = t[i]
  <2>1. Len(s) + i \in 1 .. Len(s) + Len(t) /\ ~(Len(s) + i <= Len(s))
    BY <1>3
  <2>2. c[Len(s) + i] = t[(Len(s) + i) - Len(s)]
    BY <1>2, <2>1
  <2>3. (Len(s) + i) - Len(s) = i
    BY <1>3
  <2> QED
    BY <2>2, <2>3
<1> QED
  BY <1>2, <1>3, <1>4

LEMMA Junta ==
  ASSUME NEW x, NEW y, NEW z
  PROVE  /\ <<>> \o <<y>> = <<y>>
         /\ <<x>> \o <<y>> = <<x, y>>
         /\ <<x, y>> \o <<z>> = <<x, y, z>>
<1> DEFINE S == {x, y, z}
<1>1. /\ <<>> \in Seq(S) /\ <<x>> \in Seq(S) /\ <<y>> \in Seq(S) /\ <<z>> \in Seq(S)
      /\ <<x, y>> \in Seq(S) /\ <<x, y, z>> \in Seq(S)
  OBVIOUS
<1>2. <<>> \o <<y>> = <<y>>
  BY <1>1, ConcatEmptySeq
<1>3. <<x>> \o <<y>> = <<x, y>>
  <2>1. /\ <<x>> \o <<y>> \in Seq(S) /\ Len(<<x>> \o <<y>>) = 2
        /\ (<<x>> \o <<y>>)[1] = x /\ (<<x>> \o <<y>>)[2] = y
    BY <1>1, ConcatProperties
  <2> QED
    <3>1. Len(<<x, y>>) = 2 /\ <<x, y>>[1] = x /\ <<x, y>>[2] = y
      OBVIOUS
    <3> DEFINE l == <<x>> \o <<y>>
               r == <<x, y>>
    <3>2. l \in Seq(S) /\ r \in Seq(S) /\ Len(l) = 2 /\ Len(r) = 2
          /\ l[1] = r[1] /\ l[2] = r[2]
      BY <1>1, <2>1, <3>1
    <3> HIDE DEF l, r
    <3>3. l = r
      BY <3>2, SeqEqual
    <3> QED
      BY <3>3 DEF l, r
<1>4. <<x, y>> \o <<z>> = <<x, y, z>>
  <2>1. /\ <<x, y>> \o <<z>> \in Seq(S) /\ Len(<<x, y>> \o <<z>>) = 3
        /\ (<<x, y>> \o <<z>>)[1] = x /\ (<<x, y>> \o <<z>>)[2] = y
        /\ (<<x, y>> \o <<z>>)[3] = z
    BY <1>1, ConcatProperties
  <2> QED
    <3>1. Len(<<x, y, z>>) = 3 /\ <<x, y, z>>[1] = x /\ <<x, y, z>>[2] = y /\ <<x, y, z>>[3] = z
      OBVIOUS
    <3> DEFINE l == <<x, y>> \o <<z>>
               r == <<x, y, z>>
    <3>2. l \in Seq(S) /\ r \in Seq(S) /\ Len(l) = 3 /\ Len(r) = 3
          /\ l[1] = r[1] /\ l[2] = r[2] /\ l[3] = r[3]
      BY <1>1, <2>1, <3>1
    <3> HIDE DEF l, r
    <3>3. l = r
      BY <3>2, SeqEqual
    <3> QED
      BY <3>3 DEF l, r
<1> QED
  BY <1>2, <1>3, <1>4

LEMMA Colunas5 ==
  /\ DOMAIN Colunas = 1..5 /\ Len(Colunas) = 5
  /\ ToSet(Colunas) = {Colunas[i] : i \in 1..5}
BY DEF Colunas, ToSet

LEMMA Indices4 ==
  /\ DOMAIN Indices = 1..4 /\ Len(Indices) = 4
  /\ ToSet(Indices) = {Indices[i] : i \in 1..4}
BY DEF Indices, ToSet

LEMMA ProgramaForma ==
  /\ Len(Programa) = 13
  /\ \A i \in 1..5 : Programa[i] = Comando("coluna", Colunas[i])
  /\ Programa[6] = Comando("numero", 2)
  /\ Programa[7] = Comando("numero", 3)
  /\ \A i \in 1..4 : Programa[7 + i] = Comando("indice", Indices[i])
  /\ Programa[12] = Comando("status", Canonico)
  /\ Programa[13] = Comando("goose", 0)
<1> DEFINE C == {Comando("coluna", Colunas[i]) : i \in 1..5}
                \cup {Comando("indice", Indices[i]) : i \in 1..4}
                \cup {Comando("numero", 2), Comando("numero", 3),
                      Comando("status", Canonico), Comando("goose", 0)}
           a == [i \in 1..Len(Colunas) |-> Comando("coluna", Colunas[i])]
           b == <<Comando("numero", 2), Comando("numero", 3)>>
           d == [i \in 1..Len(Indices) |-> Comando("indice", Indices[i])]
           e == <<Comando("status", Canonico), Comando("goose", 0)>>
<1>1. a \in Seq(C) /\ Len(a) = 5 /\ \A i \in 1..5 : a[i] = Comando("coluna", Colunas[i])
  <2>1. a \in [1..5 -> C]
    BY Colunas5
  <2> QED
    BY <2>1, Colunas5
<1>2. d \in Seq(C) /\ Len(d) = 4 /\ \A i \in 1..4 : d[i] = Comando("indice", Indices[i])
  <2>1. d \in [1..4 -> C]
    BY Indices4
  <2> QED
    BY <2>1, Indices4
<1>3. b \in Seq(C) /\ Len(b) = 2 /\ b[1] = Comando("numero", 2) /\ b[2] = Comando("numero", 3)
  OBVIOUS
<1>4. e \in Seq(C) /\ Len(e) = 2 /\ e[1] = Comando("status", Canonico)
      /\ e[2] = Comando("goose", 0)
  OBVIOUS
<1> HIDE DEF a, b, d, e, C
<1> DEFINE ab == a \o b
           c == ab \o d
<1>5. Programa = c \o e
  BY DEF Programa, WhatsApp, a, b, d, e
<1>6. /\ ab \in Seq(C) /\ Len(ab) = 7
      /\ \A i \in 1..5 : ab[i] = a[i]
      /\ ab[6] = b[1] /\ ab[7] = b[2]
  <2>1. /\ ab \in Seq(C)
        /\ Len(ab) = Len(a) + Len(b)
        /\ \A i \in 1..Len(a) : ab[i] = a[i]
        /\ \A i \in 1..Len(b) : ab[Len(a) + i] = b[i]
    <3>1. a \in Seq(C) /\ b \in Seq(C)
      BY <1>1, <1>3
    <3>2. ab = a \o b
      OBVIOUS
    <3> HIDE DEF ab
    <3> QED
      BY <3>1, <3>2, Concatena
  <2> HIDE DEF ab
  <2>2. ab[5 + 1] = b[1] /\ ab[5 + 2] = b[2]
    BY <1>1, <1>3, <2>1
  <2> QED
    BY <1>1, <1>3, <2>1, <2>2
<1> HIDE DEF ab
<1>7. /\ c \in Seq(C) /\ Len(c) = 11
      /\ \A i \in 1..7 : c[i] = ab[i]
      /\ \A i \in 1..4 : c[7 + i] = d[i]
  <2>1. /\ c \in Seq(C)
        /\ Len(c) = Len(ab) + Len(d)
        /\ \A i \in 1..Len(ab) : c[i] = ab[i]
        /\ \A i \in 1..Len(d) : c[Len(ab) + i] = d[i]
    <3>1. ab \in Seq(C) /\ d \in Seq(C)
      BY <1>2, <1>6
    <3>2. c = ab \o d
      OBVIOUS
    <3> HIDE DEF c
    <3> QED
      BY <3>1, <3>2, Concatena
  <2> HIDE DEF c
  <2> QED
    BY <1>2, <1>6, <2>1
<1> HIDE DEF c
<1>8. /\ Len(Programa) = 13
      /\ \A i \in 1..11 : Programa[i] = c[i]
      /\ Programa[12] = e[1] /\ Programa[13] = e[2]
  <2>1. /\ Len(Programa) = Len(c) + Len(e)
        /\ \A i \in 1..Len(c) : Programa[i] = c[i]
        /\ \A i \in 1..Len(e) : Programa[Len(c) + i] = e[i]
    <3>1. c \in Seq(C) /\ e \in Seq(C)
      BY <1>4, <1>7
    <3> HIDE DEF Programa
    <3> QED
      BY <1>5, <3>1, Concatena
  <2>2. Programa[11 + 1] = e[1] /\ Programa[11 + 2] = e[2]
    BY <1>4, <1>7, <2>1
  <2> QED
    BY <1>4, <1>7, <2>1, <2>2
<1>9. ASSUME NEW i \in 1..5
      PROVE  Programa[i] = Comando("coluna", Colunas[i])
  BY <1>1, <1>6, <1>7, <1>8
<1>10. ASSUME NEW i \in 1..4
       PROVE  Programa[7 + i] = Comando("indice", Indices[i])
  <2>1. 7 + i \in 1..11
    OBVIOUS
  <2>2. Programa[7 + i] = c[7 + i]
    BY <1>8, <2>1
  <2> QED
    BY <1>2, <1>7, <2>2
<1>11. Programa[6] = Comando("numero", 2) /\ Programa[7] = Comando("numero", 3)
  BY <1>3, <1>6, <1>7, <1>8
<1> QED
  BY <1>4, <1>8, <1>9, <1>10, <1>11

LEMMA DaVersaoForma ==
  /\ \A v \in {4, 5, 7} : DaVersao(v) = <<Registrar(v)>>
  /\ \A v \in 1..3 : DaVersao(v) = <<Criar(Cria(v)[1]), Registrar(v)>>
  /\ DaVersao(6) = <<Criar("formas_pagamento"), Criar("pedido_pagamentos"), Registrar(6)>>
<1>1. ASSUME NEW v \in {4, 5, 7}
      PROVE  DaVersao(v) = <<Registrar(v)>>
  <2>1. Cria(v) = <<>>
    BY DEF Cria
  <2>2. [i \in 1..Len(Cria(v)) |-> Comando("criar", Cria(v)[i])] = <<>>
    BY <2>1
  <2> QED
    BY <2>2, Junta DEF DaVersao, Registrar
<1>2. ASSUME NEW v \in 1..3
      PROVE  DaVersao(v) = <<Criar(Cria(v)[1]), Registrar(v)>>
  <2>1. Len(Cria(v)) = 1
    BY DEF Cria
  <2>2. [i \in 1..Len(Cria(v)) |-> Comando("criar", Cria(v)[i])] = <<Criar(Cria(v)[1])>>
    BY <2>1 DEF Criar
  <2> QED
    BY <2>2, Junta DEF DaVersao, Registrar
<1>3. DaVersao(6) = <<Criar("formas_pagamento"), Criar("pedido_pagamentos"), Registrar(6)>>
  <2>1. Cria(6) = <<"formas_pagamento", "pedido_pagamentos">>
    BY DEF Cria
  <2>2. [i \in 1..Len(Cria(6)) |-> Comando("criar", Cria(6)[i])]
          = <<Criar("formas_pagamento"), Criar("pedido_pagamentos")>>
    <3>1. Len(Cria(6)) = 2 /\ Cria(6)[1] = "formas_pagamento" /\ Cria(6)[2] = "pedido_pagamentos"
      BY <2>1
    <3>2. [i \in 1..Len(Cria(6)) |-> Comando("criar", Cria(6)[i])]
            = [i \in 1..2 |-> Comando("criar", Cria(6)[i])]
      BY <3>1
    <3>3. DOMAIN <<Criar("formas_pagamento"), Criar("pedido_pagamentos")>> = 1..2
      OBVIOUS
    <3> QED
      BY <3>1, <3>2, <3>3 DEF Criar
  <2>3. DaVersao(6) = <<Criar("formas_pagamento"), Criar("pedido_pagamentos")>> \o <<Registrar(6)>>
    BY <2>2, Zenon DEF DaVersao, Registrar
  <2> QED
    BY <2>3, Junta, Zenon
<1> QED
  BY <1>1, <1>2, <1>3
-----------------------------------------------------------------------------
(* What each statement does to the schema.                                 *)

LEMMA EfeitoColuna ==
  ASSUME banco \in Esquemas, NEW x
  PROVE  Banco(Comando("coluna", x)) = [banco EXCEPT !.colunas = banco.colunas \cup {x}]
BY DEF Banco, Comando, Esquemas

LEMMA EfeitoNumero ==
  ASSUME banco \in Esquemas, NEW x
  PROVE  Banco(Comando("numero", x)) = [banco EXCEPT !.numeros = banco.numeros \cup {x}]
BY DEF Banco, Comando, Esquemas

LEMMA EfeitoIndice ==
  ASSUME banco \in Esquemas, NEW x
  PROVE  Banco(Comando("indice", x)) = [banco EXCEPT !.indices = banco.indices \cup {x}]
BY DEF Banco, Comando, Esquemas

LEMMA EfeitoModificar ==
  ASSUME banco \in Esquemas, NEW x
  PROVE  /\ Banco(Comando("modificar", x)) = [banco EXCEPT !.permite = x]
         /\ Status(Comando("modificar", x)) = [p \in Pedidos |-> Caber(status[p], x)]
BY DEF Banco, Status, Comando, Esquemas

LEMMA EfeitoRemapear ==
  /\ Banco(Comando("remapear", "preparando")) = banco
  /\ Status(Comando("remapear", "preparando"))
       = [p \in Pedidos |-> IF status[p] = "preparando" THEN Caber("em_preparo", banco.permite)
                            ELSE status[p]]
BY DEF Banco, Status, Comando

LEMMA EfeitoCriar ==
  ASSUME banco \in Esquemas, NEW t
  PROVE  Banco(Criar(t)) = [banco EXCEPT !.tabelas = banco.tabelas \cup {t}]
BY DEF Banco, Criar, Comando, Esquemas

LEMMA EfeitoRegistrar ==
  ASSUME banco \in Esquemas, NEW v
  PROVE  Banco(Registrar(v)) = [banco EXCEPT !.versao = v]
BY DEF Banco, Registrar, Comando, Esquemas

LEMMA SoDdlMudaStatus ==
  ASSUME NEW f \in {"coluna", "numero", "indice", "criar", "registrar"}, NEW x
  PROVE  Status(Comando(f, x)) = status
BY DEF Status, Comando
-----------------------------------------------------------------------------
(* The statement a run is at, and what it has after it.                    *)
Caso(m, c, resto) ==
  \/ ponto[m] \in 1..5 /\ c = Comando("coluna", Colunas[ponto[m]]) /\ resto = <<>>
  \/ ponto[m] \in 6..7 /\ c = Comando("numero", ponto[m] - 4) /\ resto = <<>>
  \/ ponto[m] \in 8..11 /\ c = Comando("indice", Indices[ponto[m] - 7]) /\ resto = <<>>
  \/ ponto[m] = 12 /\ c = Comando("modificar", Amplo) /\ resto = Remapear
  \/ /\ ponto[m] = 12 /\ comandos[m] = Remapear
     /\ c = Comando("remapear", "preparando") /\ resto = Estreitar
  \/ /\ ponto[m] = 12 /\ comandos[m] = Estreitar
     /\ c = Comando("modificar", Canonico) /\ resto = <<>>
  \/ /\ ponto[m] = 13 /\ resto = <<>>
     /\ \E v \in 1..Ultima : /\ c = Registrar(v)
                             /\ v >= 6 => DePagamento \subseteq banco.tabelas
  \/ /\ ponto[m] = 13
     /\ \E v \in 1..3 : c = Criar(Cria(v)[1]) /\ resto = <<Registrar(v)>>
  \/ /\ ponto[m] = 13 /\ "formas_pagamento" \in banco.tabelas
     /\ c = Criar("pedido_pagamentos") /\ resto = <<Registrar(6)>>
  \/ /\ ponto[m] = 13 /\ c = Criar("formas_pagamento")
     /\ resto = <<Criar("pedido_pagamentos"), Registrar(6)>>

LEMMA Cabeca ==
  ASSUME NEW m \in Migradores, Tipada, Fila(m), fase[m] = "rodando", comandos[m] # <<>>,
         NEW c, NEW resto, c = Head(comandos[m]), resto = Tail(comandos[m])
  PROVE  Caso(m, c, resto)
<1>1. CASE ponto[m] \in 1..11 /\ comandos[m] = <<Programa[ponto[m]]>>
  <2>1. c = Programa[ponto[m]] /\ resto = <<>>
    BY <1>1
  <2>2. CASE ponto[m] \in 1..5
    BY <2>1, <2>2, ProgramaForma DEF Caso
  <2>3. CASE ponto[m] \in 6..7
    <3>1. ponto[m] = 6 \/ ponto[m] = 7
      BY <2>3
    <3>2. CASE ponto[m] = 6
      BY <2>1, <2>3, <3>2, ProgramaForma DEF Caso
    <3>3. CASE ponto[m] = 7
      BY <2>1, <2>3, <3>3, ProgramaForma DEF Caso
    <3> QED
      BY <3>1, <3>2, <3>3
  <2>4. CASE ponto[m] \in 8..11
    <3>1. ponto[m] - 7 \in 1..4 /\ 7 + (ponto[m] - 7) = ponto[m]
      BY <2>4
    <3>2. Programa[ponto[m]] = Comando("indice", Indices[ponto[m] - 7])
      BY <3>1, ProgramaForma
    <3> QED
      BY <2>1, <2>4, <3>2 DEF Caso
  <2> QED
    BY <1>1, <2>2, <2>3, <2>4
<1>2. CASE ponto[m] = 12 /\ comandos[m] \in {Ampliar, Remapear, Estreitar}
  <2>1. Head(Ampliar) = Comando("modificar", Amplo) /\ Tail(Ampliar) = Remapear
    BY DEF Ampliar, Remapear, Amplo
  <2>2. Head(Remapear) = Comando("remapear", "preparando") /\ Tail(Remapear) = Estreitar
    BY DEF Remapear, Estreitar
  <2>3. Head(Estreitar) = Comando("modificar", Canonico) /\ Tail(Estreitar) = <<>>
    BY DEF Estreitar
  <2> QED
    BY <1>2, <2>1, <2>2, <2>3 DEF Caso
<1>3. CASE ponto[m] = 13 /\ DoGoose(comandos[m])
  <2>1. CASE \E v \in 1..Ultima : /\ comandos[m] = <<Registrar(v)>>
                                  /\ v >= 6 => DePagamento \subseteq banco.tabelas
    BY <1>3, <2>1 DEF Caso
  <2>2. CASE \E v \in 1..3 : comandos[m] = <<Criar(Cria(v)[1]), Registrar(v)>>
    <3>1. PICK v \in 1..3 : comandos[m] = <<Criar(Cria(v)[1]), Registrar(v)>>
      BY <2>2
    <3>2. c = Criar(Cria(v)[1]) /\ resto = <<Registrar(v)>>
      BY <3>1
    <3> QED
      BY <1>3, <3>2 DEF Caso
  <2>3. CASE /\ comandos[m] = <<Criar("pedido_pagamentos"), Registrar(6)>>
             /\ "formas_pagamento" \in banco.tabelas
    BY <1>3, <2>3 DEF Caso
  <2>4. CASE comandos[m]
               = <<Criar("formas_pagamento"), Criar("pedido_pagamentos"), Registrar(6)>>
    BY <1>3, <2>4 DEF Caso
  <2> QED
    BY <1>3, <2>1, <2>2, <2>3, <2>4 DEF DoGoose
<1> QED
  BY <1>1, <1>2, <1>3 DEF Fila

-----------------------------------------------------------------------------
(* The schema only grows, and nothing creates pedidos.                     *)
Cresce ==
  /\ banco' \in Esquemas
  /\ banco.tabelas \subseteq banco'.tabelas
  /\ banco.colunas \subseteq banco'.colunas
  /\ banco.indices \subseteq banco'.indices
  /\ "pedidos" \in banco'.tabelas => "pedidos" \in banco.tabelas
  /\ Canonico \subseteq banco.permite => Canonico \subseteq banco'.permite

LEMMA ParadoCresce ==
  ASSUME Tipada, banco' = banco
  PROVE  Cresce
BY DEF Cresce, Tipada

LEMMA ProntoFica ==
  ASSUME Cresce, Pronto
  PROVE  Pronto'
BY DEF Cresce, Pronto

(* A run that does nothing while the schema grows.                         *)
LEMMA OutroMantem ==
  ASSUME NEW n \in Migradores, Fila(n), Avanco(n), Cresce,
         fase'[n] = fase[n], ponto'[n] = ponto[n], comandos'[n] = comandos[n]
  PROVE  Fila(n)' /\ Avanco(n)'
<1>1. \A f : DoGoose(f) => DoGoose(f)'
  BY DEF DoGoose, Cresce
<1>2. Fila(n)'
  BY <1>1 DEF Fila
<1>3. Avanco(n)'
  BY DEF Avanco, Cresce
<1> QED
  BY <1>2, <1>3

(* A failure that lacked tables lacks them for ever.                       *)
LEMMA FaltaFica ==
  ASSUME Esquema, Cresce, ~({"tenants", "produtos", "pedidos"} \subseteq banco.tabelas)
  PROVE  ~({"tenants", "produtos", "pedidos"} \subseteq banco'.tabelas)
BY DEF Esquema, Cresce
-----------------------------------------------------------------------------
(* A statement that goes through.                                          *)
Executada(m, resto) ==
  /\ fase[m] = "rodando" /\ comandos[m] # <<>>
  /\ comandos' = [comandos EXCEPT ![m] = resto]
  /\ ponto' = [ponto EXCEPT ![m] = IF resto = <<>> /\ ponto[m] < 13 THEN ponto[m] + 1
                                                                  ELSE ponto[m]]
  /\ UNCHANGED <<fase, estrito, devido, tardios, culpa, processo>>

LEMMA ExecutadaMantem ==
  ASSUME IInv, NEW m \in Migradores, NEW resto, Executada(m, resto),
         Cresce, Esquema', StatusPreservado',
         status' \in [Pedidos -> Amplo \cup {Truncado}],
         \A p \in Pedidos : status'[p] = "preparando" => status[p] = "preparando",
         Fila(m)', Avanco(m)', Remapeado(m)',
         comandos'[m] # <<>> => ponto'[m] \in 12..13
  PROVE  IInv'
<1>1. Tipada'
  BY DEF IInv, Tipada, Executada, Cresce
<1>2. ASSUME NEW n \in Migradores \ {m}
      PROVE  Fila(n)' /\ Avanco(n)' /\ Remapeado(n)' /\ Sozinho(n)'
  <2>1. fase'[n] = fase[n] /\ ponto'[n] = ponto[n] /\ comandos'[n] = comandos[n]
    BY DEF IInv, Tipada, Executada
  <2>2. Fila(n)' /\ Avanco(n)'
    BY <2>1, OutroMantem DEF IInv
  <2>3. Remapeado(n)'
    BY <2>1 DEF IInv, Remapeado, Cresce, Executada
  <2>4. Sozinho(n)'
    BY DEF IInv, Sozinho, Rodando, Executada
  <2> QED
    BY <2>2, <2>3, <2>4
<1>3. Sozinho(m)'
  BY DEF IInv, Sozinho, Rodando, Executada
<1>4. Servido'
  BY ProntoFica DEF IInv, Servido, Executada, processo, Validar
<1>5. FalhaTemCausa'
  BY FaltaFica DEF IInv, FalhaTemCausa, Executada
<1> QED
  BY <1>1, <1>2, <1>3, <1>4, <1>5 DEF IInv

(* One that leaves the rows of pedidos alone.                              *)
LEMMA DdlMantem ==
  ASSUME IInv, NEW m \in Migradores, NEW resto, Executada(m, resto),
         Cresce, Esquema', status' = status,
         Fila(m)', Avanco(m)', Remapeado(m)',
         comandos'[m] # <<>> => ponto'[m] \in 12..13
  PROVE  IInv'
<1>1. status' \in [Pedidos -> Amplo \cup {Truncado}]
  BY DEF IInv, Tipada
<1>2. StatusPreservado'
  BY DEF IInv, StatusPreservado, Executada
<1> QED
  BY <1>1, <1>2, ExecutadaMantem

LEMMA ColunaMantem ==
  ASSUME IInv, NEW m \in Migradores, Executada(m, <<>>), ponto[m] \in 1..5,
         banco' = Banco(Comando("coluna", Colunas[ponto[m]])),
         status' = Status(Comando("coluna", Colunas[ponto[m]]))
  PROVE  IInv'
<1>1. banco \in Esquemas /\ DOMAIN comandos = Migradores /\ ponto \in [Migradores -> 1..13]
  BY DEF IInv, Tipada
<1>2. banco' = [banco EXCEPT !.colunas = banco.colunas \cup {Colunas[ponto[m]]}]
  BY <1>1, EfeitoColuna
<1>3. status' = status
  BY SoDdlMudaStatus
<1>4. Colunas[ponto[m]] \in ToSet(Colunas)
  BY Colunas5
<1>5. Cresce
  BY <1>1, <1>2, <1>4 DEF Cresce, Esquemas
<1>6. Esquema'
  BY <1>1, <1>2, <1>3 DEF IInv, Esquema, Esquemas
<1>7. comandos'[m] = <<>> /\ ponto'[m] = ponto[m] + 1
  BY <1>1 DEF Executada
<1>8. Fila(m)'
  BY <1>7 DEF Fila
<1>9. Avanco(m)'
  <2>1. Colunas[ponto[m]] \in banco'.colunas
    BY <1>1, <1>2 DEF Esquemas
  <2> QED
    BY <1>1, <1>5, <1>7, <2>1 DEF IInv, Avanco, Cresce, Executada
<1>10. Remapeado(m)'
  BY <1>7 DEF Remapeado, Remapear, Estreitar
<1> QED
  BY <1>3, <1>5, <1>6, <1>7, <1>8, <1>9, <1>10, DdlMantem

LEMMA NumeroMantem ==
  ASSUME IInv, NEW m \in Migradores, Executada(m, <<>>), ponto[m] \in 6..7,
         banco' = Banco(Comando("numero", ponto[m] - 4)),
         status' = Status(Comando("numero", ponto[m] - 4))
  PROVE  IInv'
<1>1. banco \in Esquemas /\ DOMAIN comandos = Migradores /\ ponto \in [Migradores -> 1..13]
  BY DEF IInv, Tipada
<1>2. banco' = [banco EXCEPT !.numeros = banco.numeros \cup {ponto[m] - 4}]
  BY <1>1, EfeitoNumero
<1>3. status' = status
  BY SoDdlMudaStatus
<1>4. ponto[m] - 4 \in SemNumero
  BY DEF SemNumero
<1>5. Cresce
  BY <1>1, <1>2, <1>4 DEF Cresce, Esquemas
<1>6. Esquema'
  BY <1>1, <1>2, <1>3 DEF IInv, Esquema, Esquemas
<1>7. comandos'[m] = <<>> /\ ponto'[m] = ponto[m] + 1
  BY <1>1 DEF Executada
<1>8. Fila(m)'
  BY <1>7 DEF Fila
<1>9. Avanco(m)'
  BY <1>1, <1>5, <1>7 DEF IInv, Avanco, Cresce, Executada
<1>10. Remapeado(m)'
  BY <1>7 DEF Remapeado, Remapear, Estreitar
<1> QED
  BY <1>3, <1>5, <1>6, <1>7, <1>8, <1>9, <1>10, DdlMantem

LEMMA IndiceMantem ==
  ASSUME IInv, NEW m \in Migradores, Executada(m, <<>>), ponto[m] \in 8..11,
         banco' = Banco(Comando("indice", Indices[ponto[m] - 7])),
         status' = Status(Comando("indice", Indices[ponto[m] - 7]))
  PROVE  IInv'
<1> DEFINE j == ponto[m] - 7
<1>1. banco \in Esquemas /\ DOMAIN comandos = Migradores /\ ponto \in [Migradores -> 1..13]
  BY DEF IInv, Tipada
<1>2. banco' = [banco EXCEPT !.indices = banco.indices \cup {Indices[j]}]
  BY <1>1, EfeitoIndice
<1>3. status' = status
  BY SoDdlMudaStatus
<1>4. j \in 1..4 /\ ponto[m] = j + 7 /\ Indices[j] \in ToSet(Indices)
  BY Indices4
<1>5. Cresce
  BY <1>1, <1>2, <1>4 DEF Cresce, Esquemas
<1>6. Esquema'
  BY <1>1, <1>2, <1>3 DEF IInv, Esquema, Esquemas
<1>7. comandos'[m] = <<>> /\ ponto'[m] = ponto[m] + 1
  BY <1>1 DEF Executada
<1>8. Fila(m)'
  BY <1>7 DEF Fila
<1>9. Avanco(m)'
  <2>1. Indices[j] \in banco'.indices
    BY <1>1, <1>2 DEF Esquemas
  <2>2. \A i \in 1..4 : i + 7 < ponto'[m] => i = j \/ i + 7 < ponto[m]
    BY <1>4, <1>7
  <2>3. \A i \in 1..4 : i + 7 < ponto'[m] => Indices[i] \in banco'.indices
    BY <1>5, <2>1, <2>2 DEF IInv, Avanco, Cresce, Executada
  <2> QED
    BY <1>1, <1>5, <1>7, <2>3 DEF IInv, Avanco, Cresce, Executada
<1>10. Remapeado(m)'
  BY <1>7 DEF Remapeado, Remapear, Estreitar
<1> QED
  BY <1>3, <1>5, <1>6, <1>7, <1>8, <1>9, <1>10, DdlMantem

(* Widening the column changes no row.                                     *)
LEMMA AmpliarMantem ==
  ASSUME IInv, NEW m \in Migradores, Executada(m, Remapear), ponto[m] = 12,
         banco' = Banco(Comando("modificar", Amplo)),
         status' = Status(Comando("modificar", Amplo))
  PROVE  IInv'
<1>1. /\ banco \in Esquemas /\ DOMAIN comandos = Migradores /\ ponto \in [Migradores -> 1..13]
      /\ status \in [Pedidos -> Amplo \cup {Truncado}]
  BY DEF IInv, Tipada
<1>2. banco' = [banco EXCEPT !.permite = Amplo]
  BY <1>1, EfeitoModificar
<1>3. status' = status
  <2>1. status' = [p \in Pedidos |-> Caber(status[p], Amplo)]
    BY <1>1, EfeitoModificar
  <2>2. \A p \in Pedidos : Caber(status[p], Amplo) = status[p]
    BY <1>1 DEF Caber
  <2> QED
    BY <1>1, <2>1, <2>2
<1>4. Canonico \subseteq Amplo
  BY DEF Amplo
<1>5. Cresce
  BY <1>1, <1>2, <1>4 DEF Cresce, Esquemas
<1>6. Esquema'
  BY <1>1, <1>2, <1>3 DEF IInv, Esquema, Esquemas
<1>7. Remapear # <<>> /\ Remapear # Estreitar
  BY DEF Remapear, Estreitar
<1>8. comandos'[m] = Remapear /\ ponto'[m] = 12 /\ fase'[m] = "rodando"
  BY <1>1, <1>7 DEF Executada
<1>9. Fila(m)'
  BY <1>8 DEF Fila
<1>10. Avanco(m)'
  BY <1>5, <1>8 DEF IInv, Avanco, Cresce, Executada
<1>11. Remapeado(m)'
  BY <1>1, <1>2, <1>4, <1>7, <1>8 DEF Remapeado, Esquemas
<1> QED
  BY <1>3, <1>5, <1>6, <1>8, <1>9, <1>10, <1>11, DdlMantem

(* Mapping the rows: the same orders in the new words.                     *)
LEMMA RemapearMantem ==
  ASSUME IInv, NEW m \in Migradores, Executada(m, Estreitar), ponto[m] = 12,
         comandos[m] = Remapear,
         banco' = Banco(Comando("remapear", "preparando")),
         status' = Status(Comando("remapear", "preparando"))
  PROVE  IInv'
<1>1. /\ banco \in Esquemas /\ DOMAIN comandos = Migradores /\ ponto \in [Migradores -> 1..13]
      /\ status \in [Pedidos -> Amplo \cup {Truncado}]
  BY DEF IInv, Tipada
<1>2. banco' = banco
  BY EfeitoRemapear
<1>3. Canonico \subseteq banco.permite /\ "em_preparo" \in banco.permite
  BY DEF IInv, Remapeado, Canonico
<1>4. status' = [p \in Pedidos |-> IF status[p] = "preparando" THEN "em_preparo" ELSE status[p]]
  BY <1>3, EfeitoRemapear DEF Caber
<1>5. \A p \in Pedidos : status'[p] # "preparando"
  BY <1>4
<1>6. status' \in [Pedidos -> Amplo \cup {Truncado}]
  BY <1>1, <1>4 DEF Amplo, Canonico
<1>7. Cresce
  BY <1>1, <1>2 DEF Cresce
<1>8. Esquema'
  BY <1>2, <1>3, <1>4 DEF IInv, Esquema
<1>9. StatusPreservado'
  BY <1>4 DEF IInv, StatusPreservado, Canonizar, Executada
<1>10. Estreitar # <<>> /\ Remapear # Estreitar
  BY DEF Remapear, Estreitar
<1>11. comandos'[m] = Estreitar /\ ponto'[m] = 12 /\ fase'[m] = "rodando"
  BY <1>1, <1>10 DEF Executada
<1>12. Fila(m)'
  BY <1>11 DEF Fila
<1>13. Avanco(m)'
  BY <1>7, <1>11 DEF IInv, Avanco, Cresce, Executada
<1>14. Remapeado(m)'
  BY <1>2, <1>3, <1>5 DEF Remapeado
<1> QED
  BY <1>5, <1>6, <1>7, <1>8, <1>9, <1>11, <1>12, <1>13, <1>14, ExecutadaMantem

(* Narrowing it cuts, out of strict mode, only orders that came late.      *)
LEMMA EstreitarMantem ==
  ASSUME IInv, NEW m \in Migradores, Executada(m, <<>>), ponto[m] = 12,
         comandos[m] = Estreitar, Aceita(Comando("modificar", Canonico)),
         banco' = Banco(Comando("modificar", Canonico)),
         status' = Status(Comando("modificar", Canonico))
  PROVE  IInv'
<1>1. /\ banco \in Esquemas /\ DOMAIN comandos = Migradores /\ ponto \in [Migradores -> 1..13]
      /\ status \in [Pedidos -> Amplo \cup {Truncado}] /\ estrito \in BOOLEAN
  BY DEF IInv, Tipada
<1>2. banco' = [banco EXCEPT !.permite = Canonico] /\ banco'.permite = Canonico
  BY <1>1, EfeitoModificar DEF Esquemas
<1>3. status' = [p \in Pedidos |-> Caber(status[p], Canonico)]
  BY <1>1, EfeitoModificar
<1>4. \A p \in Pedidos : status'[p] \in Canonico \cup {Truncado}
  BY <1>3 DEF Caber
<1>5. status' \in [Pedidos -> Amplo \cup {Truncado}]
  BY <1>3, <1>4 DEF Amplo
<1>6. "preparando" \notin Canonico /\ Truncado # "preparando" /\ Amplo = Canonico \cup {"preparando"}
  BY DEF Amplo, Canonico, Legado, Truncado
<1>7. \A p \in Pedidos : status[p] # "preparando" => status'[p] = status[p]
  BY <1>1, <1>3, <1>6 DEF Caber
<1>8. estrito => EmUso \subseteq Canonico
  BY DEF Aceita, Comando
<1>9. \A p \in Pedidos : status[p] = "preparando" => ~estrito /\ p \in tardios
  <2>1. \A p \in Pedidos : status[p] = "preparando" => "preparando" \in EmUso
    BY <1>6 DEF EmUso
  <2>2. \A p \in Pedidos : status[p] = "preparando" => p \in tardios
    BY DEF IInv, Remapeado
  <2> QED
    BY <1>6, <1>8, <2>1, <2>2
<1>10. StatusPreservado'
  BY <1>7, <1>9 DEF IInv, StatusPreservado, Executada
<1>11. Cresce
  BY <1>1, <1>2 DEF Cresce, Esquemas
<1>12. Esquema'
  BY <1>1, <1>2, <1>4 DEF IInv, Esquema, Esquemas
<1>13. comandos'[m] = <<>> /\ ponto'[m] = 13
  BY <1>1 DEF Executada
<1>14. Fila(m)'
  BY <1>13 DEF Fila
<1>15. Avanco(m)'
  BY <1>2, <1>11, <1>13 DEF IInv, Avanco, Cresce, Executada
<1>16. Remapeado(m)'
  BY <1>13 DEF Remapeado, Remapear, Estreitar
<1>17. \A p \in Pedidos : status'[p] = "preparando" => status[p] = "preparando"
  BY <1>4, <1>6
<1> QED
  BY <1>5, <1>10, <1>11, <1>12, <1>13, <1>14, <1>15, <1>16, <1>17, ExecutadaMantem

LEMMA RegistrarMantem ==
  ASSUME IInv, NEW m \in Migradores, Executada(m, <<>>), ponto[m] = 13,
         NEW v \in 1..Ultima, v >= 6 => DePagamento \subseteq banco.tabelas,
         banco' = Banco(Registrar(v)), status' = Status(Registrar(v))
  PROVE  IInv'
<1>1. banco \in Esquemas /\ DOMAIN comandos = Migradores /\ ponto \in [Migradores -> 1..13]
  BY DEF IInv, Tipada
<1>2. banco' = [banco EXCEPT !.versao = v]
  BY <1>1, EfeitoRegistrar
<1>3. status' = status
  BY SoDdlMudaStatus DEF Registrar
<1>4. v \in 0..Ultima
  BY DEF Ultima
<1>5. Cresce
  BY <1>1, <1>2, <1>4 DEF Cresce, Esquemas
<1>6. Esquema'
  BY <1>1, <1>2, <1>3 DEF IInv, Esquema, Esquemas
<1>7. comandos'[m] = <<>> /\ ponto'[m] = 13
  BY <1>1 DEF Executada
<1>8. Fila(m)'
  BY <1>7 DEF Fila
<1>9. Avanco(m)'
  BY <1>5, <1>7 DEF IInv, Avanco, Cresce, Executada
<1>10. Remapeado(m)'
  BY <1>7 DEF Remapeado, Remapear, Estreitar
<1> QED
  BY <1>3, <1>5, <1>6, <1>7, <1>8, <1>9, <1>10, DdlMantem

(* A table of the scripts, with the statements that follow its creation.   *)
LEMMA CriarMantem ==
  ASSUME IInv, NEW m \in Migradores, NEW resto, Executada(m, resto), ponto[m] = 13,
         NEW t \in Tabelas \ {"pedidos"}, banco' = Banco(Criar(t)), status' = Status(Criar(t)),
         t = "pedido_pagamentos" => "pedidos" \in banco.tabelas,
         resto \notin {<<>>, Remapear, Estreitar}, DoGoose(resto)'
  PROVE  IInv'
<1>1. banco \in Esquemas /\ DOMAIN comandos = Migradores /\ ponto \in [Migradores -> 1..13]
  BY DEF IInv, Tipada
<1>2. banco' = [banco EXCEPT !.tabelas = banco.tabelas \cup {t}]
  BY <1>1, EfeitoCriar
<1>3. status' = status
  BY SoDdlMudaStatus DEF Criar
<1>4. Cresce
  BY <1>1, <1>2 DEF Cresce, Esquemas
<1>5. Esquema'
  BY <1>1, <1>2, <1>3 DEF IInv, Esquema, Esquemas
<1>6. comandos'[m] = resto /\ ponto'[m] = 13 /\ fase'[m] = "rodando"
  BY <1>1 DEF Executada, IInv, Tipada
<1>7. Fila(m)'
  BY <1>6 DEF Fila
<1>8. Avanco(m)'
  BY <1>4, <1>6 DEF IInv, Avanco, Cresce, Executada
<1>9. Remapeado(m)'
  BY <1>6 DEF Remapeado
<1> QED
  BY <1>3, <1>4, <1>5, <1>6, <1>7, <1>8, <1>9, DdlMantem
-----------------------------------------------------------------------------
(* A statement that is refused: with the tables of the scripts there, and  *)
(* no fault, no other run and no late order, MySQL takes each one.         *)
LEMMA RecusaSoComCausa ==
  ASSUME IInv, NEW m \in Migradores, fase[m] = "rodando", comandos[m] # <<>>,
         ~Aceita(Head(comandos[m])), m \notin culpa
  PROVE  ~({"tenants", "produtos", "pedidos"} \subseteq banco.tabelas)
<1> SUFFICES ASSUME {"tenants", "produtos", "pedidos"} \subseteq banco.tabelas
             PROVE  Aceita(Head(comandos[m]))
  OBVIOUS
<1> DEFINE c == Head(comandos[m])
           resto == Tail(comandos[m])
<1>1. /\ banco \in Esquemas /\ ponto[m] \in 1..13
      /\ status \in [Pedidos -> Amplo \cup {Truncado}]
      /\ Fila(m) /\ Avanco(m) /\ Remapeado(m) /\ Sozinho(m)
  BY DEF IInv, Tipada
<1>2. ASSUME ponto[m] \in 1..5, c = Comando("coluna", Colunas[ponto[m]])
      PROVE  Aceita(c)
  <2>1. Colunas[ponto[m]] \notin banco.colunas
    BY <1>1, <1>2 DEF Sozinho
  <2>2. Anterior(Colunas[ponto[m]]) \subseteq {Colunas[j] : j \in {k \in 1..5 : k < ponto[m]}}
    BY <1>2 DEF Anterior, Colunas
  <2>3. Anterior(Colunas[ponto[m]]) \subseteq banco.colunas
    BY <1>1, <2>2 DEF Avanco
  <2>4. Aceita(Comando("coluna", Colunas[ponto[m]]))
    BY <2>1, <2>3 DEF Aceita, Comando
  <2> QED
    BY <1>2, <2>4
<1>3. ASSUME ponto[m] \in 6..7, c = Comando("numero", ponto[m] - 4)
      PROVE  Aceita(c)
  <2>1. Colunas[2] \in banco.colunas /\ Colunas[3] \in banco.colunas
    BY <1>1, <1>3 DEF Avanco
  <2>2. {"whatsapp_phone_id", "whatsapp_display_number"} \subseteq banco.colunas
    BY <2>1 DEF Colunas
  <2>3. Aceita(Comando("numero", ponto[m] - 4))
    BY <2>2 DEF Aceita, Comando
  <2> QED
    BY <1>3, <2>3
<1>4. ASSUME ponto[m] \in 8..11, c = Comando("indice", Indices[ponto[m] - 7])
      PROVE  Aceita(c)
  <2>1. Indices[ponto[m] - 7] \notin banco.indices
    BY <1>1, <1>4 DEF Sozinho
  <2>2. Colunas[1] \in banco.colunas /\ Colunas[2] \in banco.colunas
    BY <1>1, <1>4 DEF Avanco
  <2>3. \A x : ColunasDe(x) \subseteq banco.colunas
    BY <2>2 DEF ColunasDe, Colunas
  <2>4. \A x : TabelaDe(x) \in banco.tabelas
    BY DEF TabelaDe
  <2>5. Aceita(Comando("indice", Indices[ponto[m] - 7]))
    BY <2>1, <2>3, <2>4 DEF Aceita, Comando
  <2> QED
    BY <1>4, <2>5
<1>5. EmUso \subseteq Amplo
  BY <1>1 DEF EmUso
<1>6. ASSUME c = Comando("modificar", Amplo)
      PROVE  Aceita(c)
  <2>1. Aceita(Comando("modificar", Amplo))
    BY <1>5 DEF Aceita, Comando
  <2> QED
    BY <1>6, <2>1
<1>7. ASSUME comandos[m] = Estreitar, c = Comando("modificar", Canonico)
      PROVE  Aceita(c)
  <2>1. "preparando" \notin EmUso
    BY <1>1, <1>7 DEF Remapeado, EmUso
  <2>2. Amplo = Canonico \cup {"preparando"}
    BY DEF Amplo, Canonico, Legado
  <2>3. Aceita(Comando("modificar", Canonico))
    BY <1>5, <2>1, <2>2 DEF Aceita, Comando
  <2> QED
    BY <1>7, <2>3
<1>8. Aceita(Comando("remapear", "preparando"))
  BY DEF Aceita, Comando
<1>9. \A v : Aceita(Registrar(v))
  BY DEF Aceita, Registrar, Comando
<1>10. \A v \in 1..3 : Aceita(Criar(Cria(v)[1]))
  <2>1. \A t \in {"tenants", "categorias", "produtos"} : Aceita(Criar(t))
    BY DEF Aceita, Criar, Comando, Exige
  <2>2. \A v \in 1..3 : Cria(v)[1] \in {"tenants", "categorias", "produtos"}
    BY DEF Cria
  <2> QED
    BY <2>1, <2>2
<1>11. "formas_pagamento" \in banco.tabelas => Aceita(Criar("pedido_pagamentos"))
  BY DEF Aceita, Criar, Comando, Exige
<1>12. Aceita(Criar("formas_pagamento"))
  BY DEF Aceita, Criar, Comando, Exige
<1> HIDE DEF c, resto
<1>13. Caso(m, c, resto)
  BY <1>1, Cabeca DEF IInv, c, resto
<1>14. Aceita(c)
  BY <1>2, <1>3, <1>4, <1>6, <1>7, <1>8, <1>9, <1>10, <1>11, <1>12, <1>13 DEF Caso
<1> QED
  BY <1>14 DEF c

(* A run that ends, well or not.                                           *)
LEMMA SairMantem ==
  ASSUME IInv, NEW m \in Migradores, NEW f \in {"ok", "falhou"}, Sair(m, f),
         fase[m] = "rodando",
         UNCHANGED <<esquema, devido, tardios, processo>>,
         culpa \subseteq culpa', culpa' \subseteq Migradores,
         \A n \in Migradores \ {m} : n \in culpa' => n \in culpa,
         f = "ok" => Pronto,
         f = "falhou" => \/ m \in culpa'
                         \/ ~({"tenants", "produtos", "pedidos"} \subseteq banco.tabelas)
  PROVE  IInv'
<1>1. UNCHANGED <<banco, estrito, status>>
  BY DEF esquema
<1>2. /\ fase' = [fase EXCEPT ![m] = f]
      /\ ponto' = [ponto EXCEPT ![m] = 1]
      /\ comandos' = [comandos EXCEPT ![m] = <<>>]
  BY DEF Sair
<1>3. /\ fase \in [Migradores -> {"parado", "rodando", "ok", "falhou"}]
      /\ ponto \in [Migradores -> 1..13] /\ DOMAIN comandos = Migradores
  BY DEF IInv, Tipada
<1>4. Tipada'
  BY <1>1, <1>2 DEF IInv, Tipada
<1>5. Esquema'
  BY <1>1 DEF IInv, Esquema
<1>6. Cresce
  BY <1>1, ParadoCresce DEF IInv
<1>7. ASSUME NEW n \in Migradores \ {m}
      PROVE  Fila(n)' /\ Avanco(n)' /\ Remapeado(n)' /\ Sozinho(n)'
  <2>1. fase'[n] = fase[n] /\ ponto'[n] = ponto[n] /\ comandos'[n] = comandos[n]
    BY <1>2, <1>3
  <2>2. Fila(n)' /\ Avanco(n)'
    BY <1>6, <2>1, OutroMantem DEF IInv
  <2>3. Remapeado(n)'
    BY <1>1, <2>1 DEF IInv, Remapeado
  <2>4. Sozinho(n)'
    BY <1>1, <1>3, <2>1 DEF IInv, Sozinho, Rodando
  <2> QED
    BY <2>2, <2>3, <2>4
<1>8. Fila(m)' /\ Avanco(m)' /\ Remapeado(m)' /\ Sozinho(m)'
  <2>1. fase'[m] = f /\ comandos'[m] = <<>>
    BY <1>2, <1>3
  <2> QED
    BY <2>1 DEF Fila, Avanco, Remapeado, Sozinho, Remapear, Estreitar
<1>9. Servido'
  <2>1. (\E n \in Migradores : fase'[n] = "ok") \/ servidor # "antigo" => Pronto
    BY <1>2, <1>3 DEF IInv, Servido
  <2>2. UNCHANGED <<servidor, config, db, pool, clientes>>
    BY DEF processo
  <2> QED
    BY <1>1, <2>1, <2>2 DEF IInv, Servido, Validar, Pronto
<1>10. StatusPreservado'
  BY <1>1 DEF IInv, StatusPreservado
<1>11. FalhaTemCausa'
  BY <1>1, <1>2, <1>3 DEF IInv, FalhaTemCausa
<1> QED
  BY <1>4, <1>5, <1>7, <1>8, <1>9, <1>10, <1>11 DEF IInv

LEMMA ExecutarMantem ==
  ASSUME IInv, NEW m \in Migradores, Executar(m), UNCHANGED processo
  PROVE  IInv'
<1>0. PICK c, resto : c = Head(comandos[m]) /\ resto = Tail(comandos[m])
  OBVIOUS
<1>1. fase[m] = "rodando" /\ comandos[m] # <<>>
  BY DEF Executar
<1>2. CASE ~Aceita(c)
  <2>1. Sair(m, "falhou") /\ UNCHANGED <<esquema, devido, tardios, culpa>>
    BY <1>0, <1>2 DEF Executar, esquema
  <2>2. m \in culpa' \/ ~({"tenants", "produtos", "pedidos"} \subseteq banco.tabelas)
    BY <1>0, <1>1, <1>2, <2>1, RecusaSoComCausa
  <2>3. culpa' = culpa /\ culpa \subseteq Migradores
    BY <2>1 DEF IInv, Tipada
  <2>4. UNCHANGED <<esquema, devido, tardios, processo>>
    BY <2>1
  <2> QED
    BY <1>1, <2>1, <2>2, <2>3, <2>4, SairMantem
<1>3. CASE Aceita(c)
  <2>1. banco' = Banco(c) /\ status' = Status(c)
    BY <1>0, <1>3 DEF Executar
  <2>2. Executada(m, resto)
    <3>1. /\ comandos' = [comandos EXCEPT ![m] = resto]
          /\ ponto' = [ponto EXCEPT ![m] =
               IF resto = <<>> /\ ponto[m] < Len(Programa) THEN ponto[m] + 1 ELSE ponto[m]]
          /\ UNCHANGED fase /\ UNCHANGED <<estrito, devido, tardios, culpa>>
      BY <1>0, <1>3 DEF Executar
    <3>2. UNCHANGED <<fase, estrito, devido, tardios, culpa, processo>>
      BY <3>1
    <3> QED
      BY <1>1, <3>1, <3>2, ProgramaForma DEF Executada
  <2>3. Fila(m) /\ Tipada /\ banco \in Esquemas
    BY DEF IInv, Tipada
  <2>4. Caso(m, c, resto)
    BY <1>0, <1>1, <2>3, Cabeca
  <2>5. CASE ponto[m] \in 1..5 /\ c = Comando("coluna", Colunas[ponto[m]]) /\ resto = <<>>
    BY <2>1, <2>2, <2>5, ColunaMantem
  <2>6. CASE ponto[m] \in 6..7 /\ c = Comando("numero", ponto[m] - 4) /\ resto = <<>>
    BY <2>1, <2>2, <2>6, NumeroMantem
  <2>7. CASE ponto[m] \in 8..11 /\ c = Comando("indice", Indices[ponto[m] - 7]) /\ resto = <<>>
    BY <2>1, <2>2, <2>7, IndiceMantem
  <2>8. CASE ponto[m] = 12 /\ c = Comando("modificar", Amplo) /\ resto = Remapear
    BY <2>1, <2>2, <2>8, AmpliarMantem
  <2>9. CASE /\ ponto[m] = 12 /\ comandos[m] = Remapear
             /\ c = Comando("remapear", "preparando") /\ resto = Estreitar
    BY <2>1, <2>2, <2>9, RemapearMantem
  <2>10. CASE /\ ponto[m] = 12 /\ comandos[m] = Estreitar
              /\ c = Comando("modificar", Canonico) /\ resto = <<>>
    BY <1>3, <2>1, <2>2, <2>10, EstreitarMantem
  <2>11. CASE /\ ponto[m] = 13 /\ resto = <<>>
              /\ \E v \in 1..Ultima : /\ c = Registrar(v)
                                      /\ v >= 6 => DePagamento \subseteq banco.tabelas
    BY <2>1, <2>2, <2>11, RegistrarMantem
  <2>12. CASE /\ ponto[m] = 13
              /\ \E v \in 1..3 : c = Criar(Cria(v)[1]) /\ resto = <<Registrar(v)>>
    <3>1. PICK v \in 1..3 : c = Criar(Cria(v)[1]) /\ resto = <<Registrar(v)>>
      BY <2>12
    <3>2. Cria(v)[1] \in Tabelas \ {"pedidos"} /\ Cria(v)[1] # "pedido_pagamentos"
      BY DEF Cria, Tabelas
    <3>3. resto \notin {<<>>, Remapear, Estreitar}
      BY <3>1 DEF Remapear, Estreitar, Registrar, Comando
    <3>4. v \in 1..Ultima /\ ~(v >= 6)
      BY DEF Ultima
    <3>5. DoGoose(resto)'
      BY <3>1, <3>4 DEF DoGoose
    <3>6. banco' = Banco(Criar(Cria(v)[1])) /\ status' = Status(Criar(Cria(v)[1]))
      BY <2>1, <3>1
    <3> QED
      BY <2>2, <2>12, <3>2, <3>3, <3>5, <3>6, CriarMantem
  <2>13. CASE /\ ponto[m] = 13 /\ "formas_pagamento" \in banco.tabelas
              /\ c = Criar("pedido_pagamentos") /\ resto = <<Registrar(6)>>
    <3>1. "pedidos" \in banco.tabelas
      BY <1>3, <2>13 DEF IInv, Esquema, Aceita, Criar, Comando, Exige
    <3>2. resto \notin {<<>>, Remapear, Estreitar}
      BY <2>13 DEF Remapear, Estreitar, Registrar, Comando
    <3>3. banco' = [banco EXCEPT !.tabelas = banco.tabelas \cup {"pedido_pagamentos"}]
      BY <2>1, <2>3, <2>13, EfeitoCriar
    <3>4. DePagamento \subseteq banco'.tabelas
      BY <2>3, <2>13, <3>3 DEF DePagamento, Esquemas
    <3>5. DoGoose(resto)'
      BY <2>13, <3>4 DEF DoGoose, Ultima
    <3>6. "pedido_pagamentos" \in Tabelas \ {"pedidos"}
      BY DEF Tabelas, DePagamento
    <3> QED
      BY <2>1, <2>2, <2>13, <3>1, <3>2, <3>5, <3>6, CriarMantem
  <2>14. CASE /\ ponto[m] = 13 /\ c = Criar("formas_pagamento")
              /\ resto = <<Criar("pedido_pagamentos"), Registrar(6)>>
    <3>1. resto \notin {<<>>, Remapear, Estreitar}
      BY <2>14 DEF Remapear, Estreitar, Criar, Comando
    <3>2. banco' = [banco EXCEPT !.tabelas = banco.tabelas \cup {"formas_pagamento"}]
      BY <2>1, <2>3, <2>14, EfeitoCriar
    <3>3. "formas_pagamento" \in banco'.tabelas
      BY <2>3, <3>2 DEF Esquemas
    <3>4. DoGoose(resto)'
      BY <2>14, <3>3 DEF DoGoose
    <3>5. "formas_pagamento" \in Tabelas \ {"pedidos"}
      BY DEF Tabelas, DePagamento
    <3> QED
      BY <2>1, <2>2, <2>14, <3>1, <3>4, <3>5, CriarMantem
  <2> QED
    BY <2>4, <2>5, <2>6, <2>7, <2>8, <2>9, <2>10, <2>11, <2>12, <2>13, <2>14 DEF Caso
<1> QED
  BY <1>2, <1>3

LEMMA QuebrarMantem ==
  ASSUME IInv, NEW m \in Migradores, Quebrar(m), UNCHANGED processo
  PROVE  IInv'
<1>1. /\ Sair(m, "falhou") /\ fase[m] = "rodando"
      /\ culpa' = culpa \cup {m} /\ culpa \subseteq Migradores
      /\ UNCHANGED <<esquema, devido, tardios>>
  BY DEF Quebrar, IInv, Tipada
<1>2. UNCHANGED <<esquema, devido, tardios, processo>>
  BY <1>1
<1> QED
  BY <1>1, <1>2, SairMantem
-----------------------------------------------------------------------------
(* What a run decides from what it reads.                                  *)
LEMMA Decisao ==
  ASSUME IInv, NEW m \in Migradores, NEW novos, novos = Decidir(Programa[ponto[m]])
  PROVE  \/ /\ ponto[m] \in 1..5
            /\ \/ Colunas[ponto[m]] \in banco.colunas /\ novos = <<>>
               \/ /\ Colunas[ponto[m]] \notin banco.colunas
                  /\ novos = <<Comando("coluna", Colunas[ponto[m]])>>
         \/ ponto[m] \in 6..7 /\ novos = <<Comando("numero", ponto[m] - 4)>>
         \/ /\ ponto[m] \in 8..11
            /\ \/ Indices[ponto[m] - 7] \in banco.indices /\ novos = <<>>
               \/ /\ Indices[ponto[m] - 7] \notin banco.indices
                  /\ novos = <<Comando("indice", Indices[ponto[m] - 7])>>
         \/ /\ ponto[m] = 12
            /\ \/ /\ "pedidos" \in banco.tabelas => Canonico \subseteq banco.permite
                  /\ novos = <<>>
               \/ novos = Ampliar
         \/ /\ ponto[m] = 13
            /\ \/ banco.versao = Ultima /\ novos = <<>>
               \/ DoGoose(novos) /\ novos # <<>>
<1>1. ponto[m] \in 1..13 /\ banco \in Esquemas
  BY DEF IInv, Tipada
<1>2. CASE ponto[m] \in 1..5
  <2>1. Programa[ponto[m]] = Comando("coluna", Colunas[ponto[m]])
    BY <1>2, ProgramaForma
  <2>2. Decidir(Comando("coluna", Colunas[ponto[m]]))
          = IF Colunas[ponto[m]] \in banco.colunas THEN <<>>
            ELSE <<Comando("coluna", Colunas[ponto[m]])>>
    BY DEF Decidir, Comando
  <2> QED
    BY <1>2, <2>1, <2>2
<1>3. CASE ponto[m] \in 6..7
  <2>1. Programa[ponto[m]] = Comando("numero", ponto[m] - 4)
    <3>1. ponto[m] = 6 \/ ponto[m] = 7
      BY <1>3
    <3>2. CASE ponto[m] = 6
      BY <3>2, ProgramaForma
    <3>3. CASE ponto[m] = 7
      BY <3>3, ProgramaForma
    <3> QED
      BY <3>1, <3>2, <3>3
  <2>2. Decidir(Comando("numero", ponto[m] - 4)) = <<Comando("numero", ponto[m] - 4)>>
    BY DEF Decidir, Comando
  <2> QED
    BY <1>3, <2>1, <2>2
<1>4. CASE ponto[m] \in 8..11
  <2> DEFINE j == ponto[m] - 7
  <2>1. j \in 1..4 /\ 7 + j = ponto[m]
    BY <1>4
  <2>2. Programa[ponto[m]] = Comando("indice", Indices[j])
    BY <2>1, ProgramaForma
  <2>3. Decidir(Comando("indice", Indices[j]))
          = IF Indices[j] \in banco.indices THEN <<>> ELSE <<Comando("indice", Indices[j])>>
    BY DEF Decidir, Comando
  <2> QED
    BY <1>4, <2>2, <2>3
<1>5. CASE ponto[m] = 12
  <2>1. Programa[12] = Comando("status", Canonico)
    BY ProgramaForma
  <2>2. Decidir(Comando("status", Canonico)) = DoStatus
    BY DEF Decidir, Comando
  <2>3. novos = DoStatus
    BY <1>5, <2>1, <2>2
  <2>4. banco.permite \in {Legado, Amplo, Canonico}
    BY <1>1 DEF Esquemas
  <2>5. /\ {"em_preparo", "saiu_para_entrega"} \subseteq banco.permite
        /\ "preparando" \notin banco.permite
        => Canonico \subseteq banco.permite
    BY <2>4 DEF Legado, Amplo, Canonico
  <2> QED
    BY <1>5, <2>3, <2>5 DEF DoStatus
<1>6. CASE ponto[m] = 13
  <2>1. Programa[13] = Comando("goose", 0)
    BY ProgramaForma
  <2>2. Decidir(Comando("goose", 0))
          = IF banco.versao = Ultima THEN <<>> ELSE DaVersao(banco.versao + 1)
    BY DEF Decidir, Comando
  <2>3. CASE banco.versao # Ultima
    <3> DEFINE v == banco.versao + 1
    <3>1. v \in 1..7
      BY <1>1, <2>3 DEF Esquemas, Ultima
    <3>2. novos = DaVersao(v)
      BY <1>6, <2>1, <2>2, <2>3
    <3>3. CASE v \in 1..3
      <4>1. novos = <<Criar(Cria(v)[1]), Registrar(v)>>
        BY <3>2, <3>3, DaVersaoForma
      <4>2. DoGoose(novos)
        BY <3>3, <4>1 DEF DoGoose
      <4>3. novos # <<>>
        BY <4>1
      <4> QED
        BY <1>6, <4>2, <4>3
    <3>4. CASE v \in {4, 5, 7}
      <4>1. novos = <<Registrar(v)>>
        BY <3>2, <3>4, DaVersaoForma
      <4>2. v >= 6 => DePagamento \subseteq banco.tabelas
        BY <1>1, <3>4 DEF IInv, Esquema, Esquemas
      <4>3. DoGoose(novos)
        BY <3>1, <4>1, <4>2 DEF DoGoose, Ultima
      <4>4. novos # <<>>
        BY <4>1
      <4> QED
        BY <1>6, <4>3, <4>4
    <3>5. CASE v = 6
      <4>1. novos = <<Criar("formas_pagamento"), Criar("pedido_pagamentos"), Registrar(6)>>
        BY <3>2, <3>5, DaVersaoForma
      <4>2. DoGoose(novos)
        BY <4>1 DEF DoGoose
      <4>3. novos # <<>>
        BY <4>1
      <4> QED
        BY <1>6, <4>2, <4>3
    <3> QED
      BY <3>1, <3>3, <3>4, <3>5
  <2> QED
    BY <1>6, <2>1, <2>2, <2>3
<1> QED
  BY <1>1, <1>2, <1>3, <1>4, <1>5, <1>6

LEMMA VerificarMantem ==
  ASSUME IInv, NEW m \in Migradores, Verificar(m), UNCHANGED processo
  PROVE  IInv'
<1>0. PICK novos : novos = Decidir(Programa[ponto[m]])
  OBVIOUS
<1>1. /\ fase[m] = "rodando" /\ comandos[m] = <<>>
      /\ UNCHANGED <<esquema, devido, tardios, culpa>>
  BY DEF Verificar
<1>2. /\ ponto \in [Migradores -> 1..13] /\ DOMAIN comandos = Migradores
      /\ banco \in Esquemas /\ culpa \subseteq Migradores
  BY DEF IInv, Tipada
<1>3. Avanco(m) /\ Sozinho(m)
  BY DEF IInv
<1>4. CASE novos = <<>> /\ ponto[m] = 13
  <2>1. Sair(m, "ok")
    BY <1>0, <1>4, ProgramaForma DEF Verificar
  <2>2. banco.versao = Ultima
    <3>1. ponto[m] = 13
      BY <1>4
    <3>2. \/ banco.versao = Ultima /\ novos = <<>>
          \/ DoGoose(novos) /\ novos # <<>>
      BY <1>0, <3>1, Decisao
    <3> QED
      BY <1>4, <3>2
  <2>3. DePagamento \subseteq banco.tabelas /\ "pedidos" \in banco.tabelas
    BY <2>2 DEF IInv, Esquema, Ultima, DePagamento
  <2>4. Pronto
    BY <1>1, <1>3, <1>4, <2>3, Colunas5, Indices4 DEF Avanco, Pronto
  <2>5. UNCHANGED <<esquema, devido, tardios, processo>> /\ culpa' = culpa
    BY <1>1
  <2> QED
    BY <1>1, <1>2, <2>1, <2>4, <2>5, SairMantem
<1>5. CASE ~(novos = <<>> /\ ponto[m] = 13)
  <2>1. /\ comandos' = [comandos EXCEPT ![m] = novos]
        /\ ponto' = [ponto EXCEPT ![m] = IF novos = <<>> THEN ponto[m] + 1 ELSE ponto[m]]
        /\ fase' = fase
    BY <1>0, <1>5, ProgramaForma DEF Verificar
  <2>2. UNCHANGED <<banco, estrito, status, devido, tardios, culpa>>
    BY <1>1 DEF esquema
  <2>3. UNCHANGED <<servidor, config, db, pool, clientes>>
    BY DEF processo
  <2>4. /\ comandos'[m] = novos
        /\ ponto'[m] = IF novos = <<>> THEN ponto[m] + 1 ELSE ponto[m]
    BY <1>2, <2>1
  <2>5. ponto'[m] \in 1..13
    BY <1>2, <1>5, <2>4
  <2>6. Tipada'
    BY <1>2, <2>1, <2>2, <2>5 DEF IInv, Tipada
  <2>7. ASSUME NEW n \in Migradores \ {m}
        PROVE  Fila(n)' /\ Avanco(n)' /\ Remapeado(n)' /\ Sozinho(n)'
    <3>1. fase'[n] = fase[n] /\ ponto'[n] = ponto[n] /\ comandos'[n] = comandos[n]
      BY <1>2, <2>1
    <3>2. Cresce
      BY <2>2, ParadoCresce DEF IInv
    <3>3. Fila(n)' /\ Avanco(n)'
      BY <3>1, <3>2, OutroMantem DEF IInv
    <3>4. Remapeado(n)'
      BY <2>2, <3>1 DEF IInv, Remapeado
    <3>5. Sozinho(n)'
      BY <2>1, <2>2, <3>1 DEF IInv, Sozinho, Rodando
    <3> QED
      BY <3>3, <3>4, <3>5
  <2>8. /\ Fila(m)' /\ Avanco(m)' /\ novos \notin {Remapear, Estreitar}
        /\ novos # <<>> => /\ ponto[m] \in 1..5 => Colunas[ponto[m]] \notin banco.colunas
                           /\ ponto[m] \in 8..11 => Indices[ponto[m] - 7] \notin banco.indices
    <3>1. CASE ponto[m] \in 1..5
      <4>1. \/ Colunas[ponto[m]] \in banco.colunas /\ novos = <<>>
            \/ /\ Colunas[ponto[m]] \notin banco.colunas
               /\ novos = <<Comando("coluna", Colunas[ponto[m]])>>
        BY <1>0, <3>1, Decisao
      <4>2. novos \notin {Remapear, Estreitar}
        <5>1. <<Comando("coluna", Colunas[ponto[m]])>> \notin {Remapear, Estreitar}
          BY DEF Remapear, Estreitar, Comando
        <5>2. <<>> \notin {Remapear, Estreitar}
          BY DEF Remapear, Estreitar
        <5> QED
          BY <4>1, <5>1, <5>2
      <4>3. Programa[ponto[m]] = Comando("coluna", Colunas[ponto[m]])
        BY <3>1, ProgramaForma
      <4>4. Fila(m)'
        BY <1>1, <2>1, <2>4, <3>1, <4>1, <4>3 DEF Fila
      <4>5. Avanco(m)'
        <5>1. \A i \in 1..5 : i < ponto'[m] => i < ponto[m] \/ (i = ponto[m] /\ novos = <<>>)
          BY <2>4, <3>1
        <5>2. \A i \in 1..5 : i < ponto'[m] => Colunas[i] \in banco.colunas
          <6>1. novos = <<>> => Colunas[ponto[m]] \in banco.colunas
            BY <4>1
          <6>2. \A i \in 1..5 : i < ponto[m] => Colunas[i] \in banco.colunas
            BY <1>1, <1>3 DEF Avanco
          <6> QED
            BY <5>1, <6>1, <6>2
        <5>3. ponto'[m] \in 1..6
          BY <2>4, <3>1
        <5> QED
          BY <2>2, <5>2, <5>3 DEF Avanco
      <4> QED
        BY <3>1, <4>1, <4>2, <4>4, <4>5
    <3>2. CASE ponto[m] \in 6..7
      <4>1. novos = <<Comando("numero", ponto[m] - 4)>> /\ novos # <<>>
        BY <1>0, <3>2, Decisao
      <4>2. novos \notin {Remapear, Estreitar}
        BY <4>1 DEF Remapear, Estreitar, Comando
      <4>3. Programa[ponto[m]] = Comando("numero", ponto[m] - 4)
        <5>1. ponto[m] = 6 \/ ponto[m] = 7
          BY <3>2
        <5>2. CASE ponto[m] = 6
          BY <5>2, ProgramaForma
        <5>3. CASE ponto[m] = 7
          BY <5>3, ProgramaForma
        <5> QED
          BY <5>1, <5>2, <5>3
      <4>4. Fila(m)'
        BY <1>1, <2>1, <2>4, <3>2, <4>1, <4>3 DEF Fila
      <4>5. Avanco(m)'
        BY <1>1, <1>3, <2>2, <2>4, <4>1 DEF Avanco
      <4> QED
        BY <3>2, <4>2, <4>4, <4>5
    <3>3. CASE ponto[m] \in 8..11
      <4> DEFINE j == ponto[m] - 7
      <4>0. j \in 1..4 /\ 7 + j = ponto[m]
        BY <3>3
      <4>1. \/ Indices[j] \in banco.indices /\ novos = <<>>
            \/ Indices[j] \notin banco.indices /\ novos = <<Comando("indice", Indices[j])>>
        BY <1>0, <3>3, Decisao
      <4>2. novos \notin {Remapear, Estreitar}
        BY <4>1 DEF Remapear, Estreitar, Comando
      <4>3. Programa[ponto[m]] = Comando("indice", Indices[j])
        BY <4>0, ProgramaForma
      <4>4. Fila(m)'
        BY <1>1, <2>1, <2>4, <3>3, <4>1, <4>3 DEF Fila
      <4>5. Avanco(m)'
        <5>1. \A i \in 1..4 : i + 7 < ponto'[m] => i + 7 < ponto[m] \/ (i = j /\ novos = <<>>)
          BY <2>4, <4>0
        <5>2. \A i \in 1..4 : i + 7 < ponto'[m] => Indices[i] \in banco.indices
          <6>1. novos = <<>> => Indices[j] \in banco.indices
            BY <4>1
          <6>2. \A i \in 1..4 : i + 7 < ponto[m] => Indices[i] \in banco.indices
            BY <1>1, <1>3 DEF Avanco
          <6> QED
            BY <5>1, <6>1, <6>2
        <5>3. ponto'[m] \in 8..12 /\ \A i \in 1..5 : i < ponto[m]
          BY <2>4, <3>3
        <5>4. \A i \in 1..5 : Colunas[i] \in banco.colunas
          BY <1>1, <1>3, <5>3 DEF Avanco
        <5> QED
          BY <2>2, <5>2, <5>3, <5>4 DEF Avanco
      <4> QED
        BY <3>3, <4>1, <4>2, <4>4, <4>5
    <3>4. CASE ponto[m] = 12
      <4>1. \/ /\ "pedidos" \in banco.tabelas => Canonico \subseteq banco.permite
               /\ novos = <<>>
            \/ novos = Ampliar
        BY <1>0, <3>4, Decisao
      <4>2. Ampliar # <<>> /\ Ampliar # Remapear /\ Ampliar # Estreitar
        BY DEF Ampliar, Remapear, Estreitar
      <4>3. novos \notin {Remapear, Estreitar}
        BY <4>1, <4>2 DEF Remapear, Estreitar
      <4>4. Fila(m)'
        BY <1>1, <2>1, <2>4, <3>4, <4>1, <4>2 DEF Fila
      <4>5. Avanco(m)'
        BY <1>1, <1>3, <2>2, <2>4, <3>4, <4>1, <4>2 DEF Avanco
      <4> QED
        BY <3>4, <4>3, <4>4, <4>5
    <3>5. CASE ponto[m] = 13
      <4>1. DoGoose(novos) /\ novos # <<>>
        BY <1>0, <1>5, <3>5, Decisao
      <4>2. novos \notin {Remapear, Estreitar}
        BY <4>1 DEF DoGoose, Remapear, Estreitar, Registrar, Criar, Comando
      <4>3. DoGoose(novos)'
        BY <2>2, <4>1 DEF DoGoose
      <4>4. Fila(m)'
        BY <1>1, <2>1, <2>4, <3>5, <4>1, <4>3 DEF Fila
      <4>5. Avanco(m)'
        BY <1>1, <1>3, <2>2, <2>4, <4>1 DEF Avanco
      <4> QED
        BY <3>5, <4>2, <4>4, <4>5
    <3> QED
      BY <1>2, <3>1, <3>2, <3>3, <3>4, <3>5
  <2>9. Remapeado(m)'
    BY <2>4, <2>8 DEF Remapeado
  <2>10. Sozinho(m)'
    <3>1. m \notin culpa => Rodando = {m}
      BY <1>1, <1>3 DEF Sozinho
    <3>2. Rodando' = Rodando
      BY <2>1 DEF Rodando
    <3>3. novos # <<>> => ponto'[m] = ponto[m]
      BY <2>4
    <3> QED
      BY <2>2, <2>4, <2>8, <3>1, <3>2, <3>3 DEF Sozinho
  <2>11. Servido'
    BY <2>1, <2>2, <2>3 DEF IInv, Servido, Validar, Pronto
  <2>12. Esquema' /\ StatusPreservado' /\ FalhaTemCausa'
    BY <2>1, <2>2 DEF IInv, Esquema, StatusPreservado, FalhaTemCausa
  <2> QED
    BY <2>6, <2>7, <2>8, <2>9, <2>10, <2>11, <2>12 DEF IInv
<1> QED
  BY <1>4, <1>5
-----------------------------------------------------------------------------
(* A run that starts, and the server's container that takes its place.     *)
LEMMA ComecarMantem ==
  ASSUME IInv, NEW m \in Migradores, Comecar(m), UNCHANGED processo
  PROVE  IInv'
<1>1. /\ fase[m] \in {"parado", "falhou"}
      /\ fase' = [fase EXCEPT ![m] = "rodando"]
      /\ ponto' = [ponto EXCEPT ![m] = 1]
      /\ culpa' = IF Rodando = {} THEN culpa \ {m} ELSE culpa \cup Rodando \cup {m}
      /\ UNCHANGED <<banco, estrito, status, devido, tardios, comandos>>
  BY DEF Comecar, esquema
<1>2. /\ fase \in [Migradores -> {"parado", "rodando", "ok", "falhou"}]
      /\ ponto \in [Migradores -> 1..13] /\ culpa \subseteq Migradores
  BY DEF IInv, Tipada
<1>3. UNCHANGED <<servidor, config, db, pool, clientes>>
  BY DEF processo
<1>4. Rodando \subseteq Migradores /\ culpa' \subseteq Migradores
  BY <1>1, <1>2 DEF Rodando
<1>5. Tipada'
  BY <1>1, <1>2, <1>4 DEF IInv, Tipada
<1>6. comandos[m] = <<>>
  BY <1>1 DEF IInv, Fila
<1>7. ASSUME NEW n \in Migradores \ {m}
      PROVE  Fila(n)' /\ Avanco(n)' /\ Remapeado(n)' /\ Sozinho(n)'
  <2>1. fase'[n] = fase[n] /\ ponto'[n] = ponto[n] /\ comandos'[n] = comandos[n]
    BY <1>1, <1>2
  <2>2. n \in culpa => n \in culpa'
    BY <1>1
  <2>3. Cresce
    BY <1>1, ParadoCresce DEF IInv
  <2>4. Fila(n)' /\ Avanco(n)'
    BY <2>1, <2>3, OutroMantem DEF IInv
  <2>5. Remapeado(n)'
    BY <1>1, <2>1, <2>2 DEF IInv, Remapeado
  <2>6. Sozinho(n)'
    BY <1>1, <2>1 DEF Sozinho, Rodando
  <2> QED
    BY <2>4, <2>5, <2>6
<1>8. Fila(m)' /\ Avanco(m)' /\ Remapeado(m)'
  BY <1>1, <1>2, <1>6 DEF Fila, Avanco, Remapeado, Remapear, Estreitar
<1>9. Sozinho(m)'
  BY <1>1, <1>2, <1>6 DEF Sozinho, Rodando
<1>10. Servido'
  BY <1>1, <1>2, <1>3 DEF IInv, Servido, Validar, Pronto
<1>11. Esquema' /\ StatusPreservado'
  BY <1>1 DEF IInv, Esquema, StatusPreservado
<1>12. FalhaTemCausa'
  BY <1>1, <1>2 DEF IInv, FalhaTemCausa
<1> QED
  BY <1>5, <1>7, <1>8, <1>9, <1>10, <1>11, <1>12 DEF IInv

LEMMA SubirMantem ==
  ASSUME IInv, NEW m \in Migradores, Subir(m)
  PROVE  IInv'
<1>1. /\ fase[m] = "ok" /\ fase' = [fase EXCEPT ![m] = "parado"]
      /\ servidor' = "config"
      /\ UNCHANGED <<banco, estrito, status, devido, tardios, ponto, comandos, culpa>>
  BY DEF Subir, esquema
<1>2. fase \in [Migradores -> {"parado", "rodando", "ok", "falhou"}]
  BY DEF IInv, Tipada
<1>3. Tipada'
  BY <1>1 DEF IInv, Tipada
<1>4. comandos[m] = <<>>
  BY <1>1 DEF IInv, Fila
<1>5. Rodando' = Rodando
  BY <1>1, <1>2 DEF Rodando
<1>6. ASSUME NEW n \in Migradores \ {m}
      PROVE  Fila(n)' /\ Avanco(n)' /\ Remapeado(n)' /\ Sozinho(n)'
  <2>1. fase'[n] = fase[n] /\ ponto'[n] = ponto[n] /\ comandos'[n] = comandos[n]
    BY <1>1, <1>2
  <2>2. Cresce
    BY <1>1, ParadoCresce DEF IInv
  <2>3. Fila(n)' /\ Avanco(n)'
    BY <2>1, <2>2, OutroMantem DEF IInv
  <2>4. Remapeado(n)'
    BY <1>1, <2>1 DEF IInv, Remapeado
  <2>5. Sozinho(n)'
    BY <1>1, <1>5, <2>1 DEF IInv, Sozinho
  <2> QED
    BY <2>3, <2>4, <2>5
<1>7. Fila(m)' /\ Avanco(m)' /\ Remapeado(m)' /\ Sozinho(m)'
  BY <1>1, <1>2, <1>4 DEF Fila, Avanco, Remapeado, Sozinho, Remapear, Estreitar
<1>8. Servido'
  BY <1>1, <1>2 DEF IInv, Servido, Pronto
<1>9. Esquema' /\ StatusPreservado'
  BY <1>1 DEF IInv, Esquema, StatusPreservado
<1>10. FalhaTemCausa'
  BY <1>1, <1>2 DEF IInv, FalhaTemCausa
<1> QED
  BY <1>3, <1>6, <1>7, <1>8, <1>9, <1>10 DEF IInv

LEMMA ServidorMantem ==
  ASSUME IInv, UNCHANGED migracao, servidor # "antigo",
         servidor' \in {"banco", "redis", "llm"} => Validar',
         servidor' \in {"escutar", "no_ar"} => \A f \in Funcoes : clientes'[f] \in pool'
  PROVE  IInv'
<1>1. UNCHANGED <<banco, estrito, status, devido, tardios, fase, ponto, comandos, culpa>>
  BY DEF migracao
<1>2. Tipada' /\ Esquema' /\ StatusPreservado' /\ FalhaTemCausa'
  BY <1>1 DEF IInv, Tipada, Esquema, StatusPreservado, FalhaTemCausa
<1>3. Cresce
  BY <1>1, ParadoCresce DEF IInv
<1>4. ASSUME NEW n \in Migradores
      PROVE  Fila(n)' /\ Avanco(n)' /\ Remapeado(n)' /\ Sozinho(n)'
  <2>1. fase'[n] = fase[n] /\ ponto'[n] = ponto[n] /\ comandos'[n] = comandos[n]
    BY <1>1
  <2>2. Fila(n)' /\ Avanco(n)'
    BY <1>3, <2>1, OutroMantem DEF IInv
  <2>3. Remapeado(n)' /\ Sozinho(n)'
    BY <1>1 DEF IInv, Remapeado, Sozinho, Rodando
  <2> QED
    BY <2>2, <2>3
<1>5. Servido'
  BY <1>1 DEF IInv, Servido, Pronto
<1> QED
  BY <1>2, <1>4, <1>5 DEF IInv

(* A configuration that was validated gives every function a client.       *)
LEMMA ClienteNoPool ==
  ASSUME Validar, NEW f \in Funcoes
  PROVE  ClienteDe(f) \in NewAllClients
<1>1. config[f] \in Provedores /\ config.chave[config[f]] \notin {Vazia, Branca}
  BY DEF Validar
<1>2. config[f] # Vazia /\ config[f] # Nenhum
  BY <1>1 DEF Provedores, Vazia, Nenhum
<1>3. ClienteNovo(config[f]) = config[f]
  BY <1>1 DEF ClienteNovo
<1>4. ClienteDe(f) = config[f]
  BY <1>2, <1>3 DEF ClienteDe
<1> QED
  BY <1>1, <1>2, <1>3, <1>4 DEF NewAllClients

LEMMA ProcessoMantem ==
  ASSUME IInv, InitializeApp \/ Start \/ Parar \/ Reiniciar
  PROVE  IInv'
<1>1. CASE LoadConfig
  BY <1>1, ServidorMantem DEF LoadConfig, Validar
<1>2. CASE NewMySQL
  <2>1. Validar
    BY <1>2 DEF NewMySQL, IInv, Servido
  <2> QED
    BY <1>2, <2>1, ServidorMantem DEF NewMySQL, Validar
<1>3. CASE NewRedis
  <2>1. Validar
    BY <1>3 DEF NewRedis, IInv, Servido
  <2> QED
    BY <1>3, <2>1, ServidorMantem DEF NewRedis, Validar
<1>4. CASE NewUnifiedLLM
  <2>1. Validar
    BY <1>4 DEF NewUnifiedLLM, IInv, Servido
  <2>2. \A f \in Funcoes : clientes'[f] \in pool'
    BY <1>4, <2>1, ClienteNoPool DEF NewUnifiedLLM
  <2> QED
    BY <1>4, <2>2, ServidorMantem DEF NewUnifiedLLM
<1>5. CASE Start
  BY <1>5, ServidorMantem DEF Start, IInv, Servido
<1>6. CASE Parar
  BY <1>6, ServidorMantem DEF Parar
<1>7. CASE Reiniciar
  BY <1>7, ServidorMantem DEF Reiniciar
<1> QED
  BY <1>1, <1>2, <1>3, <1>4, <1>5, <1>6, <1>7 DEF InitializeApp

(* The server gives an order a status it knows: what the column does not   *)
(* hold of it can only be preparando.                                      *)
LEMMA MudarMantem ==
  ASSUME IInv, NEW p \in Pedidos, NEW s \in Amplo, Mudar(p, s), UNCHANGED processo,
         s \in banco.permite \/ s = "preparando"
  PROVE  IInv'
<1>1. /\ s \in banco.permite \/ ~estrito
      /\ status' = [status EXCEPT ![p] = Caber(s, banco.permite)]
      /\ devido' = [devido EXCEPT ![p] = Canonizar(s)]
      /\ UNCHANGED <<banco, estrito, fase, ponto, comandos>>
  BY DEF Mudar
<1>2. \/ /\ s = "preparando" /\ tardios' = tardios \cup {p}
         /\ culpa' = culpa \cup Rodando
      \/ s # "preparando" /\ tardios' = tardios \ {p} /\ culpa' = culpa
  BY DEF Mudar
<1>3. /\ status \in [Pedidos -> Amplo \cup {Truncado}] /\ devido \in [Pedidos -> Canonico]
      /\ banco \in Esquemas /\ culpa \subseteq Migradores
  BY DEF IInv, Tipada
<1>4. UNCHANGED <<servidor, config, db, pool, clientes>>
  BY DEF processo
<1>5. Canonizar(s) \in Canonico
  BY DEF Canonizar, Amplo, Canonico, Legado
<1>6. Caber(s, banco.permite) \in {s, Truncado} /\ Truncado # "preparando"
  BY DEF Caber, Truncado
<1>7. culpa \subseteq culpa' /\ culpa' \subseteq Migradores
  BY <1>2, <1>3 DEF Rodando
<1>8. Tipada'
  BY <1>1, <1>3, <1>5, <1>6, <1>7 DEF IInv, Tipada
<1>9. Esquema'
  BY <1>1, <1>3 DEF IInv, Esquema, Caber
<1>10. StatusPreservado'
  <2>1. ASSUME NEW q \in Pedidos \ {p}
        PROVE  Canonizar(status'[q]) = devido'[q] \/ (~estrito' /\ q \in tardios')
    BY <1>1, <1>2, <1>3 DEF IInv, StatusPreservado
  <2>2. CASE s \in banco.permite
    BY <1>1, <1>3, <2>1, <2>2 DEF StatusPreservado, Caber
  <2>3. CASE s \notin banco.permite
    BY <1>1, <1>2, <2>1, <2>3 DEF StatusPreservado
  <2> QED
    BY <2>2, <2>3
<1>11. Cresce
  BY <1>1, ParadoCresce DEF IInv
<1>12. ASSUME NEW n \in Migradores
       PROVE  Fila(n)' /\ Avanco(n)' /\ Remapeado(n)' /\ Sozinho(n)'
  <2>1. fase'[n] = fase[n] /\ ponto'[n] = ponto[n] /\ comandos'[n] = comandos[n]
    BY <1>1
  <2>2. Fila(n)' /\ Avanco(n)'
    BY <1>11, <2>1, OutroMantem DEF IInv
  <2>3. comandos[n] = Estreitar => n \in Rodando
    BY DEF IInv, Fila, Rodando, Estreitar
  <2>4. Remapeado(n)'
    <3>1. comandos'[n] \in {Remapear, Estreitar} => Canonico \subseteq banco'.permite
      BY <1>1 DEF IInv, Remapeado
    <3>2. ASSUME comandos[n] = Estreitar, NEW q \in Pedidos, status'[q] = "preparando"
          PROVE  q \in tardios' /\ n \in culpa'
      <4>1. CASE q = p
        <5>1. s = "preparando"
          BY <1>1, <1>3, <1>6, <3>2, <4>1
        <5> QED
          BY <1>2, <2>3, <3>2, <4>1, <5>1
      <4>2. CASE q # p
        <5>1. status[q] = "preparando"
          BY <1>1, <1>3, <3>2, <4>2
        <5>2. q \in tardios /\ n \in culpa
          BY <3>2, <5>1 DEF IInv, Remapeado
        <5> QED
          BY <1>2, <4>2, <5>2
      <4> QED
        BY <4>1, <4>2
    <3> QED
      BY <2>1, <3>1, <3>2 DEF Remapeado
  <2>5. Sozinho(n)'
    BY <1>1, <1>7 DEF IInv, Sozinho, Rodando
  <2> QED
    BY <2>2, <2>4, <2>5
<1>13. Servido'
  BY <1>1, <1>4 DEF IInv, Servido, Validar, Pronto
<1>14. FalhaTemCausa'
  BY <1>1, <1>7 DEF IInv, FalhaTemCausa
<1> QED
  BY <1>8, <1>9, <1>10, <1>12, <1>13, <1>14 DEF IInv

LEMMA AtenderMantem ==
  ASSUME IInv, NEW p \in Pedidos, Atender(p)
  PROVE  IInv'
<1>1. PICK s \in Legado \cup Canonico :
        /\ \/ servidor = "antigo" /\ s \in Legado
           \/ servidor = "no_ar" /\ db = "aberto" /\ s \in Canonico
        /\ Mudar(p, s)
  BY DEF Atender
<1>2. UNCHANGED processo /\ s \in Amplo
  BY DEF Atender, Amplo
<1>3. s \in banco.permite \/ s = "preparando"
  <2>1. CASE servidor = "antigo" /\ s \in Legado
    <3>1. banco.permite \in {Legado, Amplo, Canonico}
      BY DEF IInv, Tipada, Esquemas
    <3> QED
      BY <2>1, <3>1 DEF Amplo, Canonico, Legado
  <2>2. CASE servidor = "no_ar" /\ s \in Canonico
    BY <2>2 DEF IInv, Servido, Pronto
  <2> QED
    BY <1>1, <2>1, <2>2
<1> QED
  BY <1>1, <1>2, <1>3, MudarMantem
-----------------------------------------------------------------------------
LEMMA InitIInv ==
  ASSUME Init
  PROVE  IInv
<1>1. /\ banco \in [tabelas : SUBSET Tabelas, colunas : SUBSET ToSet(Colunas),
                    numeros : SUBSET SemNumero, permite : {Legado, Canonico},
                    indices : SUBSET ToSet(Indices), versao : 0..Ultima]
      /\ "pedidos" \in banco.tabelas => {"tenants", "produtos"} \subseteq banco.tabelas
      /\ "pedido_pagamentos" \in banco.tabelas => "pedidos" \in banco.tabelas
      /\ banco.versao >= 6 => DePagamento \subseteq banco.tabelas
  BY BancosAssumption DEF Init, MigracaoInit
<1>2. banco \in Esquemas
  BY <1>1 DEF Esquemas
<1>3. banco.permite \in {Legado, Canonico} /\ "pendente" \in banco.permite
  BY <1>1 DEF Legado, Canonico
<1>4. status \in [Pedidos -> banco.permite]
  BY <1>3 DEF Init, MigracaoInit
<1>5. \A x \in Amplo : Canonizar(x) \in Canonico
  BY DEF Canonizar, Amplo, Canonico, Legado
<1>6. banco.permite \subseteq Amplo
  BY <1>3 DEF Amplo
<1>7. devido = [p \in Pedidos |-> Canonizar(status[p])]
  BY DEF Init, MigracaoInit
<1>8. /\ estrito \in BOOLEAN /\ culpa = {}
      /\ fase = [m \in Migradores |-> "parado"]
      /\ ponto = [m \in Migradores |-> 1] /\ comandos = [m \in Migradores |-> <<>>]
  BY DEF Init, MigracaoInit
<1>9. Tipada
  <2>1. status \in [Pedidos -> Amplo \cup {Truncado}]
    BY <1>4, <1>6
  <2>2. devido \in [Pedidos -> Canonico]
    BY <1>4, <1>5, <1>6, <1>7
  <2> QED
    BY <1>2, <1>8, <2>1, <2>2 DEF Tipada
<1>10. Esquema
  BY <1>1, <1>4 DEF Esquema
<1>11. ASSUME NEW m \in Migradores
       PROVE  Fila(m) /\ Avanco(m) /\ Remapeado(m) /\ Sozinho(m)
  <2>1. fase[m] = "parado" /\ comandos[m] = <<>>
    BY <1>8
  <2> QED
    BY <2>1 DEF Fila, Avanco, Remapeado, Sozinho, Remapear, Estreitar
<1>12. Servido
  BY <1>8 DEF Init, Servido
<1>13. StatusPreservado
  BY <1>7 DEF StatusPreservado
<1>14. FalhaTemCausa
  BY <1>8 DEF FalhaTemCausa
<1> QED
  BY <1>9, <1>10, <1>11, <1>12, <1>13, <1>14 DEF IInv

LEMMA PassoMantem ==
  ASSUME IInv, [Next]_vars
  PROVE  IInv'
<1>1. ASSUME NEW m \in Migradores, Migrar(m)
      PROVE  IInv'
  BY <1>1, ComecarMantem, VerificarMantem, ExecutarMantem, QuebrarMantem DEF Migrar
<1>2. ASSUME NEW m \in Migradores, Subir(m)
      PROVE  IInv'
  BY <1>2, SubirMantem
<1>3. CASE InitializeApp \/ Start \/ Parar \/ Reiniciar
  BY <1>3, ProcessoMantem
<1>4. ASSUME NEW p \in Pedidos, Atender(p)
      PROVE  IInv'
  BY <1>4, AtenderMantem
<1>5. CASE UNCHANGED vars
  <2>1. UNCHANGED <<migracao, processo>>
    BY <1>5 DEF vars
  <2>2. UNCHANGED <<banco, estrito, status, devido, tardios, fase, ponto, comandos, culpa>>
    BY <2>1 DEF migracao
  <2>3. UNCHANGED <<servidor, config, db, pool, clientes>>
    BY <2>1 DEF processo
  <2>4. Tipada' /\ Esquema' /\ StatusPreservado' /\ FalhaTemCausa'
    BY <2>2 DEF IInv, Tipada, Esquema, StatusPreservado, FalhaTemCausa
  <2>5. Servido'
    BY <2>2, <2>3 DEF IInv, Servido, Validar, Pronto
  <2>6. Cresce
    BY <2>2, ParadoCresce DEF IInv
  <2>7. ASSUME NEW n \in Migradores
        PROVE  Fila(n)' /\ Avanco(n)' /\ Remapeado(n)' /\ Sozinho(n)'
    <3>1. Fila(n)' /\ Avanco(n)'
      BY <2>2, <2>6, OutroMantem DEF IInv
    <3>2. Remapeado(n)' /\ Sozinho(n)'
      BY <2>2 DEF IInv, Remapeado, Sozinho, Rodando
    <3> QED
      BY <3>1, <3>2
  <2> QED
    BY <2>4, <2>5, <2>7 DEF IInv
<1> QED
  BY <1>1, <1>2, <1>3, <1>4, <1>5 DEF Next
-----------------------------------------------------------------------------
(* The inductive invariant: what each run still has before it fits the     *)
(* part it is at, what it has behind it is in the database, and a run      *)
(* without fault is the only one.                                          *)
THEOREM ImplantacaoInvariante == Spec => []IInv
<1>1. Init => IInv
  BY InitIInv
<1>2. IInv /\ [Next]_vars => IInv'
  BY PassoMantem
<1> QED
  BY <1>1, <1>2, PTL DEF Spec

(* Whatever runs died half way or overlapped, no order loses the status    *)
(* its shop gave it, but for preparando in the window of the migration     *)
(* out of strict mode (migratePedidoStatuses).                             *)
THEOREM StatusSemprePreservado == Spec => []StatusPreservado
<1>1. IInv => StatusPreservado
  BY DEF IInv
<1> QED
  BY <1>1, ImplantacaoInvariante, PTL

(* A run of cmd/migrate without a fault, another run or a late order, over *)
(* a database with the tables of the scripts, has none of its statements   *)
(* refused.                                                                *)
THEOREM FalhaSempreTemCausa == Spec => []FalhaTemCausa
<1>1. IInv => FalhaTemCausa
  BY DEF IInv
<1> QED
  BY <1>1, ImplantacaoInvariante, PTL

(* The server that listens finds the schema, the statuses and the clients  *)
(* it uses (make deploy, ValidateLLM, NewUnifiedLLM).                      *)
THEOREM ServidorSemprePronto == Spec => []ServidorPronto
<1>1. IInv => ServidorPronto
  BY DEF IInv, Servido, Pronto, ServidorPronto, DePagamento
<1> QED
  BY <1>1, ImplantacaoInvariante, PTL
=============================================================================
