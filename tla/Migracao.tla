------------------------------ MODULE Migracao ------------------------------
(***************************************************************************)
(* cmd/migrate: the columns and indexes of WhatsApp, the order status      *)
(* column, and then goose over migrations/*.sql.  MySQL commits each DDL   *)
(* statement, so what a run that died has done stays done, and the next    *)
(* run goes through the same program from the start: each part first reads *)
(* what the database has and only then decides its statements.  Runs can   *)
(* overlap (make deploy starts one, docker compose up another), and the    *)
(* shops take orders all the while.                                        *)
(***************************************************************************)
EXTENDS Naturals, Sequences, SequencesExt

CONSTANTS
  Migradores,   \* containers of mcp-migrate
  Pedidos,      \* rows of the table pedidos
  Bancos        \* databases to start from

Legado   == {"pendente", "confirmado", "preparando", "entregue", "cancelado"}
Canonico == (Legado \ {"preparando"}) \cup {"em_preparo", "saiu_para_entrega"}
Truncado == ""

VARIABLES
  banco,     \* tables, added columns, indexes, shops with a number, the
             \* statuses the column allows, and goose's last version
  estrito,   \* sql_mode: a value that does not fit is an error, or truncated
  status,    \* status[p]: what row p holds
  devido,    \* history: devido[p]: the status the shop last gave order p
  tardios,   \* history: orders put in preparando while a run was under way
  fase,      \* fase[m]: "parado", "rodando", "ok", "falhou"
  ponto,     \* ponto[m]: the part of the program it is at
  comandos,  \* comandos[m]: the statements that part still has to run
  culpa      \* history: runs that met a fault, another run, or a late order

esquema == <<banco, estrito, status>>
migracao == <<banco, estrito, status, devido, tardios, fase, ponto, comandos,
              culpa>>

Comando(faz, alvo) == [faz |-> faz, alvo |-> alvo]

-----------------------------------------------------------------------------
Colunas == <<"waba_id", "whatsapp_phone_id", "whatsapp_display_number",
             "whatsapp_verify_token", "segmento">>

Indices == <<"uk_tenants_whatsapp_phone_id", "idx_tenants_waba_id",
             "idx_produtos_tenant_disponivel", "idx_produtos_tenant_nome">>

TabelaDe(i) == IF i \in {Indices[1], Indices[2]} THEN "tenants" ELSE "produtos"
ColunasDe(i) == CASE i = Indices[1] -> {"whatsapp_phone_id"}
                  [] i = Indices[2] -> {"waba_id"}
                  [] OTHER -> {}

SemNumero == {2, 3}   \* the two shops that get a development number

WhatsApp ==
  [i \in 1..Len(Colunas) |-> Comando("coluna", Colunas[i])] \o
  <<Comando("numero", 2), Comando("numero", 3)>> \o
  [i \in 1..Len(Indices) |-> Comando("indice", Indices[i])]

Programa == WhatsApp \o <<Comando("status", Canonico), Comando("goose", 0)>>

(* Mutant: the column goes to the new statuses before its rows are mapped. *)
AmpliarSemPreparando ==
  <<Comando("modificar", Canonico), Comando("remapear", "preparando"),
    Comando("modificar", Canonico)>>

(* pedidoStatusMigrationStatements: widen, map the rows, narrow.           *)
Ampliar == <<Comando("modificar", Legado \cup Canonico),
             Comando("remapear", "preparando"),
             Comando("modificar", Canonico)>>

DoStatus ==
  IF \/ "pedidos" \notin banco.tabelas   \* sql.ErrNoRows: nothing to do
     \/ /\ {"em_preparo", "saiu_para_entrega"} \subseteq banco.permite
        /\ "preparando" \notin banco.permite
  THEN <<>> ELSE Ampliar

(* migrations/00000N_*.up.sql; 4, 5 and 7 only SELECT 1.                   *)
Ultima == 7
Cria(v) == CASE v = 1 -> <<"tenants">>
             [] v = 2 -> <<"categorias">>
             [] v = 3 -> <<"produtos">>
             [] v = 6 -> <<"formas_pagamento", "pedido_pagamentos">>
             [] OTHER -> <<>>
Exige(t) == CASE t = "tenants" -> {}
              [] t = "produtos" -> {"tenants", "categorias"}
              [] t = "pedido_pagamentos" -> {"pedidos", "formas_pagamento"}
              [] OTHER -> {"tenants"}

DaVersao(v) == [i \in 1..Len(Cria(v)) |-> Comando("criar", Cria(v)[i])]
               \o <<Comando("registrar", v)>>

(* Mutant: ALTER whether the column and the index are there or not.        *)
SemVerificar(c) ==
  CASE c.faz = "status" -> DoStatus
    [] c.faz = "goose"  -> IF banco.versao = Ultima THEN <<>>
                           ELSE DaVersao(banco.versao + 1)
    [] OTHER -> <<c>>

(* The databases the program meets: pedidos only with the other tables of  *)
(* the script that creates it, a table with those its foreign keys name,   *)
(* and the tables of a version goose has recorded.                         *)
DePagamento == {"formas_pagamento", "pedido_pagamentos"}
Tabelas == DePagamento \cup {"tenants", "categorias", "produtos", "pedidos"}

ASSUME BancosAssumption ==
  \A b \in Bancos :
    /\ b \in [tabelas : SUBSET Tabelas, colunas : SUBSET ToSet(Colunas),
              numeros : SUBSET SemNumero, permite : {Legado, Canonico},
              indices : SUBSET ToSet(Indices), versao : 0..Ultima]
    /\ "pedidos" \in b.tabelas => {"tenants", "produtos"} \subseteq b.tabelas
    /\ "pedido_pagamentos" \in b.tabelas => "pedidos" \in b.tabelas
    /\ b.versao >= 6 => DePagamento \subseteq b.tabelas

(* What a part decides from what it reads.                                 *)
Decidir(c) ==
  CASE c.faz = "coluna" -> IF c.alvo \in banco.colunas THEN <<>> ELSE <<c>>
    [] c.faz = "indice" -> IF c.alvo \in banco.indices THEN <<>> ELSE <<c>>
    [] c.faz = "numero" -> <<c>>
    [] c.faz = "status" -> DoStatus
    [] c.faz = "goose"  -> IF banco.versao = Ultima THEN <<>>
                           ELSE DaVersao(banco.versao + 1)

-----------------------------------------------------------------------------
(* MySQL: whether a statement goes through, and what it does.              *)
Anterior(col) ==   \* AFTER: the column before it, the first one's is there
  {Colunas[i - 1] : i \in {j \in 2..Len(Colunas) : Colunas[j] = col}}

EmUso == {status[p] : p \in Pedidos} \ {Truncado}

(* No two shops carry one phone id and no other shop carries the two of    *)
(* development: every database of the scripts is so, hence neither the     *)
(* unique index on it nor the UPDATE that sets it meets a duplicate.       *)
Aceita(c) ==
  CASE c.faz = "coluna" -> /\ "tenants" \in banco.tabelas
                           /\ c.alvo \notin banco.colunas
                           /\ Anterior(c.alvo) \subseteq banco.colunas
    [] c.faz = "numero" -> {"whatsapp_phone_id", "whatsapp_display_number"}
                             \subseteq banco.colunas
    [] c.faz = "indice" -> /\ TabelaDe(c.alvo) \in banco.tabelas
                           /\ c.alvo \notin banco.indices
                           /\ ColunasDe(c.alvo) \subseteq banco.colunas
    [] c.faz = "modificar" -> estrito => EmUso \subseteq c.alvo
    [] c.faz = "criar" -> \/ c.alvo \in banco.tabelas
                          \/ Exige(c.alvo) \subseteq banco.tabelas
    [] OTHER -> TRUE

Banco(c) ==
  CASE c.faz = "coluna" -> [banco EXCEPT !.colunas = @ \cup {c.alvo}]
    [] c.faz = "numero" -> [banco EXCEPT !.numeros = @ \cup {c.alvo}]
    [] c.faz = "indice" -> [banco EXCEPT !.indices = @ \cup {c.alvo}]
    [] c.faz = "modificar" -> [banco EXCEPT !.permite = c.alvo]
    [] c.faz = "criar" -> [banco EXCEPT !.tabelas = @ \cup {c.alvo}]
    [] c.faz = "registrar" -> [banco EXCEPT !.versao = c.alvo]
    [] OTHER -> banco

Caber(s, permite) == IF s \in permite THEN s ELSE Truncado

Status(c) ==
  CASE c.faz = "modificar" -> [p \in Pedidos |-> Caber(status[p], c.alvo)]
    [] c.faz = "remapear" ->
         [p \in Pedidos |-> IF status[p] = c.alvo
                            THEN Caber("em_preparo", banco.permite)
                            ELSE status[p]]
    [] OTHER -> status

-----------------------------------------------------------------------------
Rodando == {m \in Migradores : fase[m] = "rodando"}

(* The same order as the shop sees it: preparando became em_preparo.       *)
Canonizar(s) == IF s = "preparando" THEN "em_preparo" ELSE s

MigracaoInit ==
  /\ banco \in Bancos
  /\ estrito \in BOOLEAN
  /\ status \in [Pedidos -> IF "pedidos" \in banco.tabelas THEN banco.permite
                                                        ELSE {"pendente"}]
  /\ devido = [p \in Pedidos |-> Canonizar(status[p])]
  /\ tardios = {}
  /\ fase = [m \in Migradores |-> "parado"]
  /\ ponto = [m \in Migradores |-> 1]
  /\ comandos = [m \in Migradores |-> <<>>]
  /\ culpa = {}

(* main, with "up" or without an argument.                                 *)
Comecar(m) ==
  /\ fase[m] \in {"parado", "falhou"}
  /\ fase' = [fase EXCEPT ![m] = "rodando"]
  /\ ponto' = [ponto EXCEPT ![m] = 1]
  /\ culpa' = IF Rodando = {} THEN culpa \ {m} ELSE culpa \cup Rodando \cup {m}
  /\ UNCHANGED <<esquema, devido, tardios, comandos>>

Sair(m, f) ==
  /\ fase' = [fase EXCEPT ![m] = f]
  /\ ponto' = [ponto EXCEPT ![m] = 1]
  /\ comandos' = [comandos EXCEPT ![m] = <<>>]

Verificar(m) ==
  LET c == Programa[ponto[m]]  novos == Decidir(c) IN
  /\ fase[m] = "rodando" /\ comandos[m] = <<>>
  /\ IF novos = <<>> /\ ponto[m] = Len(Programa) THEN Sair(m, "ok")
     ELSE /\ comandos' = [comandos EXCEPT ![m] = novos]
          /\ ponto' = [ponto EXCEPT ![m] = IF novos = <<>> THEN @ + 1 ELSE @]
          /\ UNCHANGED fase
  /\ UNCHANGED <<esquema, devido, tardios, culpa>>

(* goose reads its version again after each one; the others go on.         *)
Executar(m) ==
  /\ fase[m] = "rodando" /\ comandos[m] # <<>>
  /\ LET c == Head(comandos[m])  resto == Tail(comandos[m]) IN
     IF Aceita(c)
     THEN /\ banco' = Banco(c)
          /\ status' = Status(c)
          /\ comandos' = [comandos EXCEPT ![m] = resto]
          /\ ponto' = [ponto EXCEPT ![m] =
               IF resto = <<>> /\ @ < Len(Programa) THEN @ + 1 ELSE @]
          /\ UNCHANGED fase
     ELSE Sair(m, "falhou") /\ UNCHANGED <<banco, status>>
  /\ UNCHANGED <<estrito, devido, tardios, culpa>>

(* log.Fatalf: the connection broke, at a query or at a statement.         *)
Quebrar(m) ==
  /\ fase[m] = "rodando"
  /\ Sair(m, "falhou")
  /\ culpa' = culpa \cup {m}
  /\ UNCHANGED <<esquema, devido, tardios>>

(* The server on air gives order p the status s.                           *)
Mudar(p, s) ==
  /\ "pedidos" \in banco.tabelas
  /\ s \in banco.permite \/ ~estrito
  /\ status' = [status EXCEPT ![p] = Caber(s, banco.permite)]
  /\ devido' = [devido EXCEPT ![p] = Canonizar(s)]
  /\ IF s = "preparando"
     THEN tardios' = tardios \cup {p} /\ culpa' = culpa \cup Rodando
     ELSE tardios' = tardios \ {p} /\ UNCHANGED culpa
  /\ UNCHANGED <<banco, estrito, fase, ponto, comandos>>
=============================================================================
