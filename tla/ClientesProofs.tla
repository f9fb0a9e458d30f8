--------------------------- MODULE ClientesProofs ---------------------------
(***************************************************************************)
(* Proofs about Clientes, for any number of calls, names and rows.         *)
(***************************************************************************)
EXTENDS Clientes, SequenceTheorems, TLAPS

TiposDeGravar == {"criar", "status", "contato", "pedido", "documento", "atualizar"}

(* What a call about to run a statement was asked, and what it has read.   *)
(* An address it goes for has a row or had one, and is of the client of    *)
(* the request.                                                            *)
Pedida(c) ==
  LET p == pedido[c] IN
  /\ passo[c] = "procurar" => p.tipo = "contato"
  /\ passo[c] \in {"achar", "inserir"} => p.tipo \in {"criar", "contato"}
  /\ passo[c] = "ler" => p.tipo \in Tipos \ {"contato", "definir", "remover"}
  /\ passo[c] = "gravar" => p.tipo \in TiposDeGravar /\ copia[c] \in Linhas
  /\ passo[c] = "desmarcar" =>
       p.tipo = "definir" \/ (p.tipo = "adicionar" /\ p.principal)
  /\ passo[c] = "gravarEndereco" => p.tipo = "definir"
  /\ passo[c] = "lerEndereco" => p.tipo \in {"definir", "remover"}
  /\ passo[c] = "inserirEndereco" => p.tipo = "adicionar"
  /\ passo[c] \in {"lerEndereco", "excluirEndereco"} => p.endereco \in DOMAIN enderecos
  /\ passo[c] \in {"desmarcar", "gravarEndereco"} /\ p.tipo = "definir" =>
       /\ p.endereco \in DOMAIN enderecos /\ enderecos[p.endereco].dono = p.id
       /\ copia[c] \in Linhas /\ copia[c].id = p.id

(* The addresses read with the copy of a client are of that client.        *)
Carregada(c) ==
  /\ passo[c] \notin {"gravar", "reler"} => levados[c] = {}
  /\ \A r \in levados[c] : r # Ordens =>
       r.id \in DOMAIN enderecos /\ enderecos[r.id].dono = copia[c].id

Coerente(c) == Pedida(c) /\ Carregada(c)

(* Foreign keys: an address row that is there belongs to the client that   *)
(* is there.                                                               *)
DonoPresente ==
  \A e \in DOMAIN enderecos :
    enderecos[e].estado # Apagado => Achado(enderecos[e].dono)

(* A call in its window found every flag of its client cleared, and no     *)
(* other call has written one since.                                       *)
JanelaLimpa ==
  ~corrida => \A c \in Chamadas : NaJanela(c) =>
                \A e \in Principais : enderecos[e].dono # pedido[c].id

(* What a call read is what is there, unless it was told otherwise.        *)
LidoEmDia(c) ==
  ~velho[c] => /\ passo[c] = "gravar" =>
                    /\ copia[c] = cliente
                    /\ \A r \in levados[c] : r # Ordens =>
                         enderecos[r.id].estado # Apagado
               /\ passo[c] \in {"desmarcar", "gravarEndereco"}
                  /\ pedido[c].tipo = "definir"
                  => enderecos[pedido[c].endereco].estado = Vivo

IInv ==
  /\ TypeOK
  /\ \A c \in Chamadas : Coerente(c)
  /\ DonoPresente
  /\ JanelaLimpa
  /\ UmPrincipal
  /\ PrincipalPermanece
  /\ \A c \in Chamadas : LidoEmDia(c)

-----------------------------------------------------------------------------
(* A function on the positions of a sequence is one as long.               *)
LEMMA MesmasPosicoes ==
  ASSUME NEW S, NEW s \in Seq(S), NEW f \in [DOMAIN s -> S]
  PROVE f \in Seq(S) /\ Len(f) = Len(s) /\ DOMAIN f = DOMAIN s
<1>1. DOMAIN s = 1..Len(s) /\ Len(s) \in Nat
  BY LenProperties
<1>2. f \in Seq(S)
  BY <1>1, SeqDef
<1>3. DOMAIN f = 1..Len(f) /\ Len(f) \in Nat /\ DOMAIN f = DOMAIN s
  BY <1>2, LenProperties
<1> QED BY <1>1, <1>2, <1>3

(* Types of the calls.                                                     *)
TiposDasChamadas ==
  /\ passo \in [Chamadas -> Passos]
  /\ pedido \in [Chamadas -> Pedidos]
  /\ copia \in [Chamadas -> Linhas \cup {Nenhum}]
  /\ levados \in [Chamadas -> SUBSET Associados]

LEMMA NuloTipo == PedidoNulo \in Pedidos
BY NomesAssumption, LimitesAssumption DEF PedidoNulo, Pedidos, Tipos, Documentos

(* What a call is asked as it comes in.                                    *)
Requisicao(p) ==
  /\ p \in Pedidos
  /\ p.tipo \in {"pedido", "definir", "remover", "adicionar"} => p.id \in 1..criados
  /\ p.tipo \in {"definir", "remover"} => p.endereco \in DOMAIN enderecos

LEMMA ComecarPede ==
  ASSUME TypeOK, NEW c \in Chamadas, Comecar(c)
  PROVE \E p : Requisicao(p) /\ Iniciar(c, p)
<1>1. 1..criados \subseteq 1..MaxClientes /\ DOMAIN enderecos \subseteq 1..MaxEnderecos
  BY LimitesAssumption DEF TypeOK
<1>2. ASSUME NEW t \in {"criar", "contato"}, NEW n \in Nomes
      PROVE Requisicao([PedidoNulo EXCEPT !.tipo = t, !.nome = n])
  BY <1>1, NuloTipo DEF Requisicao, Pedidos, Tipos
<1>3. ASSUME NEW i \in 1..criados
      PROVE /\ Requisicao([PedidoNulo EXCEPT !.tipo = "pedido", !.id = i])
            /\ Requisicao([PedidoNulo EXCEPT !.tipo = "apagar", !.id = i])
  BY <1>1, NuloTipo DEF Requisicao, Pedidos, Tipos
<1>4. ASSUME NEW i \in 1..criados, NEW s \in {Ativo, Inativo, Pendente}
      PROVE Requisicao([PedidoNulo EXCEPT !.tipo = "status", !.id = i, !.status = s])
  BY <1>1, NuloTipo DEF Requisicao, Pedidos, Tipos
<1>5. ASSUME NEW i \in 1..criados, NEW d \in {"valido", "invalido"}
      PROVE Requisicao([PedidoNulo EXCEPT !.tipo = "documento", !.id = i, !.documento = d])
  BY <1>1, NuloTipo DEF Requisicao, Pedidos, Tipos, Documentos
<1>6. ASSUME NEW i \in 1..criados, NEW n \in Nomes, NEW d \in Documentos
      PROVE Requisicao([PedidoNulo EXCEPT !.tipo = "atualizar", !.id = i, !.nome = n,
                                          !.documento = d])
  BY <1>1, NuloTipo DEF Requisicao, Pedidos, Tipos
<1>7. ASSUME NEW i \in 1..criados, NEW b \in BOOLEAN
      PROVE Requisicao([PedidoNulo EXCEPT !.tipo = "adicionar", !.id = i, !.principal = b])
  BY <1>1, NuloTipo DEF Requisicao, Pedidos, Tipos
<1>8. ASSUME NEW i \in 1..criados, NEW t \in {"definir", "remover"}, NEW e \in DOMAIN enderecos
      PROVE Requisicao([PedidoNulo EXCEPT !.tipo = t, !.id = i, !.endereco = e])
  BY <1>1, NuloTipo DEF Requisicao, Pedidos, Tipos
<1> QED BY <1>2, <1>3, <1>4, <1>5, <1>6, <1>7, <1>8 DEF Comecar

LEMMA PassoTipo == \A t : PrimeiroPasso(t) \in Passos
BY DEF PrimeiroPasso, Passos

LEMMA VoltarTipos ==
  ASSUME TypeOK, NEW c \in Chamadas, Voltar(c) PROVE TiposDasChamadas'
BY NuloTipo DEF TypeOK, TiposDasChamadas, Voltar, Ir, Passos

LEMMA AvancarTipos ==
  ASSUME TypeOK, NEW c \in Chamadas, NEW q \in Passos, Avancar(c, q)
  PROVE TiposDasChamadas'
BY DEF TypeOK, TiposDasChamadas, Avancar, Ir

LEMMA PreloadTipo ==
  ASSUME TypeOK, NEW i PROVE Preload(i) \subseteq Associados
<1>1. enderecos \in [DOMAIN enderecos -> Enderecos] /\ DOMAIN enderecos \subseteq 1..MaxEnderecos
  BY LenProperties, LimitesAssumption DEF TypeOK
<1>2. ASSUME NEW e \in DOMAIN enderecos
      PROVE [id |-> e, principal |-> enderecos[e].principal] \in Associados
  BY <1>1 DEF Enderecos, Associados
<1> QED BY <1>2 DEF Preload

LEMMA CopiarTipos ==
  ASSUME TypeOK, NEW c \in Chamadas, NEW S \in SUBSET Associados, Copiar(c, S)
  PROVE TiposDasChamadas'
BY DEF TypeOK, TiposDasChamadas, Copiar, Ir, Passos

LEMMA LerDonoTipos ==
  ASSUME TypeOK, NEW c \in Chamadas, NEW q \in Passos, LerDono(c, q)
  PROVE TiposDasChamadas'
BY DEF TypeOK, TiposDasChamadas, LerDono, Ir

LEMMA AplicarTipo ==
  ASSUME NEW l \in Linhas, NEW p \in Pedidos, p.tipo \in TiposDeGravar
  PROVE Aplicar(l, p) \in Linhas
<1> USE DEF Linhas, Pedidos, Aplicar, TiposDeGravar
<1>1. CASE p.tipo \in {"criar", "status", "contato", "pedido", "documento"}
  BY <1>1
<1>2. CASE p.tipo = "atualizar"
  <2>1. (l.documento \/ p.documento = "valido") \in BOOLEAN
    OBVIOUS
  <2> QED BY <1>2, <2>1
<1> QED BY <1>1, <1>2

LEMMA SalvarTipo ==
  ASSUME TypeOK, NEW l \in Linhas, Salvar(l) PROVE cliente' \in Linhas
BY DEF TypeOK, Salvar, Linhas, Nenhum

(* A call that turns into another, and the rows an operation writes.       *)
LEMMA PedidoTrocado ==
  ASSUME NEW p \in Pedidos, NEW i \in 1..MaxClientes
  PROVE /\ [p EXCEPT !.id = i, !.tipo = "status", !.status = Ativo] \in Pedidos
        /\ [p EXCEPT !.id = i, !.tipo = "criar"] \in Pedidos
<1>1. "status" \in Tipos /\ "criar" \in Tipos /\ Ativo \in {Ativo, Inativo, Pendente}
  BY DEF Tipos
<1> QED BY Zenon, <1>1 DEF Pedidos

LEMMA EnderecoTrocado ==
  ASSUME NEW e \in Enderecos
  PROVE /\ [e EXCEPT !.principal = FALSE, !.estado = Apagado] \in Enderecos
        /\ [e EXCEPT !.principal = TRUE, !.estado = Vivo] \in Enderecos
<1>1. {Apagado, Vivo} \subseteq {Vivo, Excluido, Apagado} /\ {TRUE, FALSE} \subseteq BOOLEAN
  OBVIOUS
<1> QED BY Zenon, <1>1 DEF Enderecos

(* The writes of the history variables.                                    *)
LEMMA HistoriaTipos ==
  ASSUME TypeOK, NEW c \in Chamadas
  PROVE /\ ClienteMudou(c) => velho' \in [Chamadas -> BOOLEAN]
        /\ Esqueceu(c) => velho' \in [Chamadas -> BOOLEAN]
        /\ MarcarHistoria(c) => corrida' \in BOOLEAN /\ escolhido' \in BOOLEAN
BY Zenon DEF TypeOK, ClienteMudou, Esqueceu, MarcarHistoria

LEMMA AssociadosTipo ==
  ASSUME TypeOK, NEW c \in Chamadas, copia[c] \in Linhas, SalvarAssociados(c)
  PROVE enderecos' \in Seq(Enderecos) /\ Len(enderecos') = Len(enderecos)
<1>1. enderecos \in [DOMAIN enderecos -> Enderecos]
  BY LenProperties DEF TypeOK
<1>2. ASSUME NEW e \in DOMAIN enderecos
      PROVE [dono |-> copia[c].id, principal |-> EraPrincipal(c, e), estado |-> Vivo]
              \in Enderecos
  <2>1. copia[c].id \in 1..MaxClientes
    BY DEF Linhas
  <2>2. EraPrincipal(c, e) \in BOOLEAN
    BY DEF EraPrincipal
  <2> QED BY <2>1, <2>2 DEF Enderecos
<1>3. enderecos' \in [DOMAIN enderecos -> Enderecos]
  BY <1>1, <1>2 DEF SalvarAssociados
<1> QED BY <1>3, MesmasPosicoes DEF TypeOK

LEMMA InitTipos == ASSUME Init PROVE TypeOK
<1>1. /\ velho \in [Chamadas -> BOOLEAN] /\ corrida \in BOOLEAN /\ escolhido \in BOOLEAN
  BY Zenon DEF Init
<1> QED BY <1>1, NuloTipo, LimitesAssumption DEF Init, TypeOK, Passos

LEMMA NextTipos ==
  ASSUME TypeOK, \A c \in Chamadas : Coerente(c), [Next]_vars PROVE TypeOK'
<1> USE DEF TypeOK, TiposDasChamadas
<1>0. enderecos \in [DOMAIN enderecos -> Enderecos]
  BY LenProperties
<1>1. ASSUME NEW c \in Chamadas, Comecar(c) PROVE TypeOK'
  <2>1. PICK p : Requisicao(p) /\ Iniciar(c, p)
    BY <1>1, ComecarPede
  <2>2. TiposDasChamadas'
    BY <2>1, PassoTipo DEF Requisicao, Iniciar, Ir
  <2>3. comPedido' \subseteq 1..MaxClientes
    BY <2>1 DEF Requisicao, Iniciar, Pedidos
  <2>4. inicios' \in 0..MaxInicios
    <3>1. inicios < MaxInicios /\ inicios' = inicios + 1
      BY <1>1, <2>1 DEF Comecar, Iniciar
    <3> QED BY <3>1, LimitesAssumption
  <2> QED BY <2>1, <2>2, <2>3, <2>4 DEF Iniciar, historia
<1>2. ASSUME NEW c \in Chamadas, Procurar(c) PROVE TypeOK'
  <2>1. TiposDasChamadas'
    <3>1. CASE Voltar(c)
      BY <3>1, VoltarTipos
    <3>2. CASE Avancar(c, "achar")
      BY <3>2, AvancarTipos DEF Passos
    <3>3. CASE cliente # Nenhum /\ Ir(c, "ler") /\ UNCHANGED <<copia, levados>>
               /\ pedido' = [pedido EXCEPT ![c].id = cliente.id,
                                           ![c].tipo = "status",
                                           ![c].status = Ativo]
      <4>1. [pedido[c] EXCEPT !.id = cliente.id, !.tipo = "status", !.status = Ativo] \in Pedidos
        BY <3>3, PedidoTrocado DEF Linhas
      <4>2. pedido' = [pedido EXCEPT ![c] =
                         [pedido[c] EXCEPT !.id = cliente.id, !.tipo = "status", !.status = Ativo]]
        BY <3>3
      <4> QED BY <3>3, <4>1, <4>2 DEF Ir, Passos
    <3>4. CASE Copiar(c, Preload(cliente.id))
      BY <3>4, PreloadTipo, CopiarTipos
    <3> QED BY <1>2, <3>1, <3>2, <3>3, <3>4 DEF Procurar
  <2> QED BY <1>2, <2>1 DEF Procurar, tabelas, historia
<1>3. ASSUME NEW c \in Chamadas, Achar(c) PROVE TypeOK'
  <2>1. TiposDasChamadas'
    <3>1. CASE Voltar(c)
      BY <3>1, VoltarTipos
    <3>2. CASE Avancar(c, "inserir")
      BY <3>2, AvancarTipos DEF Passos
    <3>3. CASE cliente # Nenhum /\ Ir(c, "ler") /\ UNCHANGED <<copia, levados>>
               /\ pedido' = [pedido EXCEPT ![c].id = cliente.id,
                                           ![c].tipo = "criar"]
      <4>1. [pedido[c] EXCEPT !.id = cliente.id, !.tipo = "criar"] \in Pedidos
        BY <3>3, PedidoTrocado DEF Linhas
      <4>2. pedido' = [pedido EXCEPT ![c] =
                         [pedido[c] EXCEPT !.id = cliente.id, !.tipo = "criar"]]
        BY <3>3
      <4> QED BY <3>3, <4>1, <4>2 DEF Ir, Passos
    <3> QED BY <1>3, <3>1, <3>2, <3>3 DEF Achar
  <2> QED BY <1>3, <2>1 DEF Achar, tabelas, historia
<1>4. ASSUME NEW c \in Chamadas, Inserir(c) PROVE TypeOK'
  <2>1. TiposDasChamadas'
    BY <1>4, VoltarTipos DEF Inserir
  <2>2. cliente' \in Linhas \cup {Nenhum} /\ criados' \in 0..MaxClientes
      <3>1. CASE cliente = Nenhum
      <4>1. criados + 1 \in 1..MaxClientes /\ criados' = criados + 1
        BY <1>4, <3>1, LimitesAssumption DEF Inserir
      <4>2. cliente' = [id |-> criados + 1, nome |-> pedido[c].nome,
                        perfil |-> pedido[c].nome, documento |-> FALSE,
                        status |-> Ativo, pedido |-> FALSE]
        BY <1>4, <3>1 DEF Inserir
      <4>3. pedido[c].nome \in Nomes
        BY DEF Pedidos
      <4> QED BY <4>1, <4>2, <4>3, LimitesAssumption DEF Linhas
    <3>2. CASE cliente # Nenhum
      BY <1>4, <3>2 DEF Inserir
    <3> QED BY <3>1, <3>2
  <2>3. velho' \in [Chamadas -> BOOLEAN]
    BY <1>4, HistoriaTipos DEF Inserir
  <2> QED BY <1>4, <2>1, <2>2, <2>3 DEF Inserir
<1>5. ASSUME NEW c \in Chamadas, Ler(c) PROVE TypeOK'
  <2>1. TiposDasChamadas'
    <3>1. CASE Voltar(c)
      BY <3>1, VoltarTipos
    <3>2. ASSUME NEW q \in {"apagar", "desmarcar", "inserirEndereco"}, Avancar(c, q)
          PROVE TiposDasChamadas'
      BY <3>2, AvancarTipos DEF Passos
    <3>3. ASSUME NEW S \in SUBSET Associados, Copiar(c, S) PROVE TiposDasChamadas'
      BY <3>3, CopiarTipos
    <3>4. Preload(pedido[c].id) \cup (IF pedido[c].id \in comPedido THEN {Ordens} ELSE {})
            \in SUBSET Associados
      BY PreloadTipo DEF Associados
    <3> QED BY <1>5, <3>1, <3>2, <3>3, <3>4 DEF Ler
  <2> QED BY <1>5, <2>1 DEF Ler, tabelas, historia
<1>6. ASSUME NEW c \in Chamadas, Gravar(c) PROVE TypeOK'
  <2>1. TiposDasChamadas'
    BY <1>6, VoltarTipos, AvancarTipos DEF Gravar, Passos
  <2>2. Aplicar(copia[c], pedido[c]) \in Linhas
    BY <1>6, AplicarTipo DEF Gravar, Coerente, Pedida
  <2>3. CASE Achado(copia[c].id) \/ levados[c] = {}
    <3>1. cliente' \in Linhas
      BY <1>6, <2>2, <2>3, SalvarTipo DEF Gravar
    <3>2. SalvarAssociados(c) /\ copia[c] \in Linhas /\ ClienteMudou(c)
      BY <1>6, <2>3 DEF Gravar, Coerente, Pedida
    <3>3. enderecos' \in Seq(Enderecos) /\ Len(enderecos') = Len(enderecos)
      BY <3>2, AssociadosTipo
    <3>4. comPedido' \subseteq 1..MaxClientes
      BY <3>2 DEF SalvarAssociados, Linhas
    <3>5. velho' \in [Chamadas -> BOOLEAN] /\ corrida' \in BOOLEAN
      BY Zenon, <3>2 DEF ClienteMudou, SalvarAssociados
    <3> QED BY <1>6, <2>1, <3>1, <3>3, <3>4, <3>5 DEF Gravar
  <2>4. CASE ~(Achado(copia[c].id) \/ levados[c] = {})
    <3>1. velho' \in [Chamadas -> BOOLEAN]
      BY <1>6, <2>4, HistoriaTipos DEF Gravar
    <3> QED BY <1>6, <2>1, <2>4, <3>1 DEF Gravar
  <2> QED BY <2>3, <2>4
<1>7. ASSUME NEW c \in Chamadas, Reler(c) PROVE TypeOK'
  BY <1>7, VoltarTipos DEF Reler, tabelas, historia
<1>8. ASSUME NEW c \in Chamadas, Apagar(c) PROVE TypeOK'
  <2>1. TiposDasChamadas'
    BY <1>8, VoltarTipos DEF Apagar
  <2>2. CASE Achado(pedido[c].id)
    <3>1. enderecos' \in [DOMAIN enderecos -> Enderecos]
      BY <1>0, <1>8, <2>2, EnderecoTrocado DEF Apagar
    <3>2. enderecos' \in Seq(Enderecos) /\ Len(enderecos') = Len(enderecos)
      BY <3>1, MesmasPosicoes
    <3>3. velho' \in [Chamadas -> BOOLEAN] /\ escolhido' \in BOOLEAN
      BY Zenon, <1>8, <2>2 DEF Apagar
    <3> QED BY <1>8, <2>1, <2>2, <3>2, <3>3 DEF Apagar
  <2> QED BY <1>8, <2>1, <2>2 DEF Apagar
<1>9. ASSUME NEW c \in Chamadas, LerEndereco(c) PROVE TypeOK'
  <2>1. TiposDasChamadas'
    BY <1>9, VoltarTipos, AvancarTipos, LerDonoTipos DEF LerEndereco, Passos
  <2> QED BY <1>9, <2>1 DEF LerEndereco, tabelas, historia
<1>10. ASSUME NEW c \in Chamadas, Desmarcar(c) PROVE TypeOK'
  <2>1. TiposDasChamadas'
    BY <1>10, AvancarTipos DEF Desmarcar, Passos
  <2>2. enderecos' \in Seq(Enderecos) /\ Len(enderecos') = Len(enderecos)
    <3>1. enderecos' \in [DOMAIN enderecos -> Enderecos]
      BY <1>0, <1>10 DEF Desmarcar, Enderecos
    <3> QED BY <3>1, MesmasPosicoes
  <2> QED BY <1>10, <2>1, <2>2 DEF Desmarcar, historia
<1>11. ASSUME NEW c \in Chamadas, InserirEndereco(c) PROVE TypeOK'
  <2>1. TiposDasChamadas'
    BY <1>11, VoltarTipos DEF InserirEndereco
  <2>2. enderecos' \in Seq(Enderecos) /\ Len(enderecos') <= MaxEnderecos
    <3>0. pedido[c] \in Pedidos
      OBVIOUS
    <3>1. [dono |-> pedido[c].id, principal |-> pedido[c].principal,
           estado |-> Vivo] \in Enderecos
      BY <3>0 DEF Enderecos, Pedidos
    <3>2. ASSUME NEW r \in Enderecos
          PROVE Append(enderecos, r) \in Seq(Enderecos)
                /\ Len(Append(enderecos, r)) = Len(enderecos) + 1
      OBVIOUS
    <3>3. CASE Achado(pedido[c].id)
      BY <1>11, <3>1, <3>2, <3>3, LenProperties, LimitesAssumption DEF InserirEndereco
    <3> QED BY <1>11, <3>3 DEF InserirEndereco
  <2>3. corrida' \in BOOLEAN /\ escolhido' \in BOOLEAN
    BY <1>11, HistoriaTipos DEF InserirEndereco
  <2> QED BY <1>11, <2>1, <2>2, <2>3 DEF InserirEndereco
<1>12. ASSUME NEW c \in Chamadas, GravarEndereco(c) PROVE TypeOK'
  <2>1. TiposDasChamadas'
    BY <1>12, VoltarTipos DEF GravarEndereco
  <2>2. enderecos' \in Seq(Enderecos) /\ Len(enderecos') = Len(enderecos)
    <3>1. CASE cliente = Nenhum \/ Achado(pedido[c].id)
      <4>1. enderecos' = [enderecos EXCEPT ![pedido[c].endereco] =
              [enderecos[pedido[c].endereco] EXCEPT !.principal = TRUE, !.estado = Vivo]]
        BY <1>12, <3>1 DEF GravarEndereco
      <4>2. enderecos' \in [DOMAIN enderecos -> Enderecos]
        BY <1>0, <4>1, EnderecoTrocado
      <4> QED BY <4>2, MesmasPosicoes
    <3> QED BY <1>12, <3>1 DEF GravarEndereco
  <2>3. corrida' \in BOOLEAN /\ escolhido' \in BOOLEAN /\ velho' \in [Chamadas -> BOOLEAN]
    BY <1>12, HistoriaTipos DEF GravarEndereco
  <2>4. cliente' \in Linhas \cup {Nenhum}
    BY <1>12 DEF GravarEndereco
  <2> QED BY <1>12, <2>1, <2>2, <2>3, <2>4 DEF GravarEndereco
<1>13. ASSUME NEW c \in Chamadas, ExcluirEndereco(c) PROVE TypeOK'
  <2>1. TiposDasChamadas'
    BY <1>13, VoltarTipos DEF ExcluirEndereco
  <2>2. enderecos' \in Seq(Enderecos) /\ Len(enderecos') = Len(enderecos)
    <3>1. enderecos' \in [DOMAIN enderecos -> Enderecos]
      BY <1>0, <1>13 DEF ExcluirEndereco, Enderecos
    <3> QED BY <3>1, MesmasPosicoes
  <2>3. escolhido' \in BOOLEAN /\ velho' \in [Chamadas -> BOOLEAN]
    BY Zenon, <1>13 DEF ExcluirEndereco, EnderecoMudou
  <2> QED BY <1>13, <2>1, <2>2, <2>3 DEF ExcluirEndereco
<1>14. ASSUME NEW c \in Chamadas, Falhar(c) PROVE TypeOK'
  <2>1. escolhido' \in BOOLEAN /\ velho' \in [Chamadas -> BOOLEAN]
    BY Zenon, <1>14 DEF Falhar, Esqueceu
  <2> QED BY <1>14, <2>1, VoltarTipos DEF Falhar, tabelas
<1>15. CASE Reiniciar
  <2>1. escolhido' \in BOOLEAN /\ velho' \in [Chamadas -> BOOLEAN]
    BY Zenon, <1>15 DEF Reiniciar
  <2>2. TiposDasChamadas'
    BY <1>15, NuloTipo DEF Reiniciar, Passos
  <2> QED BY <1>15, <2>1, <2>2 DEF Reiniciar, tabelas
<1>16. CASE UNCHANGED vars
  BY <1>16 DEF vars
<1> QED
  BY <1>1, <1>2, <1>3, <1>4, <1>5, <1>6, <1>7, <1>8, <1>9, <1>10, <1>11, <1>12,
     <1>13, <1>14, <1>15, <1>16 DEF Next, Executar

-----------------------------------------------------------------------------
(* A step is of one call.                                                  *)
Igual(d) == /\ passo'[d] = passo[d] /\ pedido'[d] = pedido[d]
            /\ copia'[d] = copia[d] /\ levados'[d] = levados[d]

LEMMA VoltarValores ==
  ASSUME TypeOK, NEW c \in Chamadas, Voltar(c)
  PROVE passo'[c] = "livre" /\ levados'[c] = {} /\ \A d \in Chamadas \ {c} : Igual(d)
BY DEF TypeOK, Voltar, Ir, Igual

LEMMA AvancarValores ==
  ASSUME TypeOK, NEW c \in Chamadas, NEW q, Avancar(c, q)
  PROVE /\ passo'[c] = q /\ pedido' = pedido /\ copia' = copia /\ levados' = levados
        /\ \A d \in Chamadas \ {c} : Igual(d)
BY DEF TypeOK, Avancar, Ir, Igual

LEMMA CopiarValores ==
  ASSUME TypeOK, NEW c \in Chamadas, NEW S, Copiar(c, S)
  PROVE /\ passo'[c] = "gravar" /\ pedido' = pedido /\ copia'[c] = cliente
        /\ levados'[c] = S
        /\ \A d \in Chamadas \ {c} : Igual(d)
BY DEF TypeOK, Copiar, Ir, Igual

LEMMA LerDonoValores ==
  ASSUME TypeOK, NEW c \in Chamadas, NEW q, LerDono(c, q)
  PROVE /\ passo'[c] = q /\ pedido' = pedido /\ copia'[c] = cliente /\ levados' = levados
        /\ \A d \in Chamadas \ {c} : Igual(d)
BY DEF TypeOK, LerDono, Ir, Igual

LEMMA OsOutros ==
  ASSUME TypeOK, NEW c \in Chamadas, Comecar(c) \/ Executar(c) \/ Falhar(c)
  PROVE \A d \in Chamadas \ {c} : Igual(d)
<1>1. CASE Voltar(c)
  BY <1>1, VoltarValores
<1>2. ASSUME NEW q, Avancar(c, q) PROVE \A d \in Chamadas \ {c} : Igual(d)
  BY <1>2, AvancarValores
<1>3. CASE Comecar(c)
  BY <1>3, ComecarPede DEF TypeOK, Iniciar, Ir, Igual
<1>a. ASSUME NEW S, Copiar(c, S) PROVE \A d \in Chamadas \ {c} : Igual(d)
  BY <1>a, CopiarValores
<1>4. CASE Procurar(c)
  <2>1. CASE pedido' = [pedido EXCEPT ![c].id = cliente.id, ![c].tipo = "status",
                                      ![c].status = Ativo]
             /\ Ir(c, "ler") /\ UNCHANGED <<copia, levados>>
    BY <2>1 DEF TypeOK, Ir, Igual
  <2> QED BY <1>4, <2>1, <1>1, <1>2, <1>a DEF Procurar
<1>5. CASE Achar(c)
  <2>1. CASE pedido' = [pedido EXCEPT ![c].id = cliente.id, ![c].tipo = "criar"]
             /\ Ir(c, "ler") /\ UNCHANGED <<copia, levados>>
    BY <2>1 DEF TypeOK, Ir, Igual
  <2> QED BY <1>5, <2>1, <1>1, <1>2 DEF Achar
<1>6. CASE Ler(c)
  BY <1>6, <1>1, <1>2, <1>a DEF Ler
<1>7. CASE Gravar(c) \/ LerEndereco(c) \/ Desmarcar(c)
  <2>1. ASSUME NEW q, LerDono(c, q) PROVE \A d \in Chamadas \ {c} : Igual(d)
    BY <2>1, LerDonoValores
  <2> QED BY <1>7, <2>1, <1>1, <1>2 DEF Gravar, LerEndereco, Desmarcar
<1>8. CASE \/ Inserir(c) \/ Reler(c) \/ Apagar(c) \/ InserirEndereco(c)
           \/ GravarEndereco(c) \/ ExcluirEndereco(c) \/ Falhar(c)
  BY <1>8, <1>1 DEF Inserir, Reler, Apagar, InserirEndereco, GravarEndereco,
                   ExcluirEndereco, Falhar
<1> QED BY <1>3, <1>4, <1>5, <1>6, <1>7, <1>8 DEF Executar

(* Address rows are added and changed, never taken away, and their owner   *)
(* stays.                                                                  *)
LEMMA DesmarcarEnderecos ==
  ASSUME TypeOK, NEW c \in Chamadas, Desmarcar(c)
  PROVE /\ DOMAIN enderecos' = DOMAIN enderecos
        /\ \A e \in DOMAIN enderecos :
             /\ enderecos'[e].dono = enderecos[e].dono
             /\ enderecos'[e].estado = enderecos[e].estado
             /\ enderecos'[e].principal =
                  (enderecos[e].principal /\ (enderecos[e].dono # pedido[c].id
                                              \/ enderecos[e].estado # Vivo))
<1>1. enderecos \in [DOMAIN enderecos -> Enderecos]
  BY LenProperties DEF TypeOK
<1>2. DOMAIN enderecos' = DOMAIN enderecos
  BY DEF Desmarcar
<1>3. ASSUME NEW e \in DOMAIN enderecos
      PROVE /\ enderecos'[e].dono = enderecos[e].dono
            /\ enderecos'[e].estado = enderecos[e].estado
            /\ enderecos'[e].principal =
                 (enderecos[e].principal /\ (enderecos[e].dono # pedido[c].id
                                             \/ enderecos[e].estado # Vivo))
  <2>1. enderecos[e] \in Enderecos
    BY <1>1
  <2>2. CASE enderecos[e].dono = pedido[c].id /\ enderecos[e].estado = Vivo
    <3>1. enderecos'[e] = [enderecos[e] EXCEPT !.principal = FALSE]
      BY <1>3, <2>2 DEF Desmarcar
    <3>2. enderecos'[e].dono = enderecos[e].dono
          /\ enderecos'[e].estado = enderecos[e].estado
          /\ enderecos'[e].principal = FALSE
      BY <2>1, <3>1 DEF Enderecos
    <3> QED BY Zenon, <2>2, <3>2
  <2>3. CASE ~(enderecos[e].dono = pedido[c].id /\ enderecos[e].estado = Vivo)
    <3>1. enderecos'[e] = enderecos[e]
      BY <1>3, <2>3 DEF Desmarcar
    <3>2. enderecos[e].principal \in BOOLEAN
      BY <2>1 DEF Enderecos
    <3> QED BY Zenon, <2>3, <3>1, <3>2
  <2> QED BY <2>2, <2>3
<1> QED BY <1>2, <1>3

LEMMA InserirEnderecos ==
  ASSUME TypeOK, NEW c \in Chamadas, InserirEndereco(c), Achado(pedido[c].id)
  PROVE /\ DOMAIN enderecos' = DOMAIN enderecos \cup {Len(enderecos) + 1}
        /\ Len(enderecos) + 1 \notin DOMAIN enderecos
        /\ \A e \in DOMAIN enderecos : enderecos'[e] = enderecos[e]
        /\ enderecos'[Len(enderecos) + 1] =
             [dono |-> pedido[c].id, principal |-> pedido[c].principal, estado |-> Vivo]
<1>1. enderecos' = Append(enderecos, [dono |-> pedido[c].id,
                            principal |-> pedido[c].principal, estado |-> Vivo])
  BY DEF InserirEndereco
<1>2. enderecos \in Seq(Enderecos) /\ DOMAIN enderecos = 1..Len(enderecos)
      /\ Len(enderecos) \in Nat
  BY LenProperties DEF TypeOK
<1> QED BY <1>1, <1>2

(* The address written by a choice, unless the telephone has another row.  *)
LEMMA GravarEnderecos ==
  ASSUME TypeOK, NEW c \in Chamadas, Coerente(c), GravarEndereco(c),
         cliente = Nenhum \/ Achado(pedido[c].id)
  PROVE /\ DOMAIN enderecos' = DOMAIN enderecos
        /\ pedido[c].endereco \in DOMAIN enderecos
        /\ \A e \in DOMAIN enderecos :
             /\ enderecos'[e].dono = enderecos[e].dono
             /\ e # pedido[c].endereco => enderecos'[e] = enderecos[e]
        /\ enderecos'[pedido[c].endereco].principal = TRUE
        /\ enderecos'[pedido[c].endereco].estado = Vivo
<1>1. enderecos \in [DOMAIN enderecos -> Enderecos]
  BY LenProperties DEF TypeOK
<1>2. pedido[c].endereco \in DOMAIN enderecos
  BY DEF GravarEndereco, Coerente, Pedida
<1>3. enderecos' = [enderecos EXCEPT ![pedido[c].endereco].principal = TRUE,
                                     ![pedido[c].endereco].estado = Vivo]
  BY DEF GravarEndereco
<1> QED BY <1>1, <1>2, <1>3 DEF Enderecos

LEMMA ExcluirEnderecos ==
  ASSUME TypeOK, NEW c \in Chamadas, Coerente(c), ExcluirEndereco(c)
  PROVE /\ DOMAIN enderecos' = DOMAIN enderecos
        /\ \A e \in DOMAIN enderecos :
             /\ enderecos'[e].dono = enderecos[e].dono
             /\ enderecos'[e].principal = enderecos[e].principal
             /\ e # pedido[c].endereco => enderecos'[e] = enderecos[e]
             /\ enderecos[e].estado # Vivo => enderecos'[e] = enderecos[e]
             /\ enderecos[e].estado = Vivo => enderecos'[e].estado # Apagado
<1>1. enderecos \in [DOMAIN enderecos -> Enderecos]
  BY LenProperties DEF TypeOK
<1>2. DOMAIN enderecos' = DOMAIN enderecos
  BY DEF ExcluirEndereco
<1>3. ASSUME NEW e \in DOMAIN enderecos, e = pedido[c].endereco, enderecos[e].estado = Vivo
      PROVE enderecos'[e] = [enderecos[e] EXCEPT !.estado = Excluido]
  BY <1>3 DEF ExcluirEndereco
<1>4. ASSUME NEW e \in DOMAIN enderecos, ~(e = pedido[c].endereco /\ enderecos[e].estado = Vivo)
      PROVE enderecos'[e] = enderecos[e]
  BY <1>4 DEF ExcluirEndereco
<1> QED BY <1>1, <1>2, <1>3, <1>4 DEF Enderecos, Vivo, Apagado, Excluido

(* The deletion of a client takes its addresses and no other.              *)
LEMMA ApagarEnderecos ==
  ASSUME TypeOK, NEW c \in Chamadas, Apagar(c), Achado(pedido[c].id)
  PROVE /\ DOMAIN enderecos' = DOMAIN enderecos
        /\ \A e \in DOMAIN enderecos :
             /\ enderecos'[e].dono = enderecos[e].dono
             /\ enderecos[e].dono = pedido[c].id => enderecos'[e].estado = Apagado
             /\ enderecos[e].dono # pedido[c].id => enderecos'[e] = enderecos[e]
<1>1. enderecos \in [DOMAIN enderecos -> Enderecos]
  BY LenProperties DEF TypeOK
<1>2. DOMAIN enderecos' = DOMAIN enderecos
  BY DEF Apagar
<1>3. ASSUME NEW e \in DOMAIN enderecos, enderecos[e].dono = pedido[c].id
      PROVE enderecos'[e] = [enderecos[e] EXCEPT !.principal = FALSE, !.estado = Apagado]
  BY <1>3 DEF Apagar
<1>4. ASSUME NEW e \in DOMAIN enderecos, enderecos[e].dono # pedido[c].id
      PROVE enderecos'[e] = enderecos[e]
  BY <1>4 DEF Apagar
<1> QED BY <1>1, <1>2, <1>3, <1>4 DEF Enderecos

(* The save of a client leaves its addresses alone but for those that come *)
(* back, each of them its own.                                             *)
LEMMA AssociadosEnderecos ==
  ASSUME TypeOK, NEW c \in Chamadas, Coerente(c), SalvarAssociados(c)
  PROVE /\ DOMAIN enderecos' = DOMAIN enderecos
        /\ \A e \in DOMAIN enderecos :
             /\ enderecos'[e].dono = enderecos[e].dono
             /\ e \in Voltam(c) => /\ enderecos[e].estado = Apagado
                                   /\ enderecos'[e].estado = Vivo
                                   /\ enderecos[e].dono = copia[c].id
                                   /\ enderecos'[e].principal => corrida'
             /\ e \notin Voltam(c) => enderecos'[e] = enderecos[e]
        /\ Voltam(c) # {} => levados[c] # {}
        /\ corrida => corrida'
<1>1. DOMAIN enderecos' = DOMAIN enderecos
  BY DEF SalvarAssociados
<1>2. ASSUME NEW e \in DOMAIN enderecos, e \notin Voltam(c)
      PROVE enderecos'[e] = enderecos[e]
  BY <1>2 DEF SalvarAssociados
<1>3. ASSUME NEW e \in Voltam(c)
      PROVE /\ e \in DOMAIN enderecos /\ enderecos[e].estado = Apagado
            /\ \E r \in levados[c] : r.id = e
  BY DEF Voltam
<1>4. ASSUME NEW e \in Voltam(c)
      PROVE enderecos'[e] = [dono |-> copia[c].id, principal |-> EraPrincipal(c, e),
                             estado |-> Vivo]
  BY <1>3 DEF SalvarAssociados
<1>5. ASSUME NEW e \in Voltam(c) PROVE enderecos[e].dono = copia[c].id
  <2>1. PICK r \in levados[c] : r.id = e
    BY <1>3
  <2>2. e \in Nat \ {0}
    BY <1>3, LenProperties DEF TypeOK
  <2>3. r # Ordens
    BY <2>1, <2>2 DEF Ordens
  <2> QED BY <2>1, <2>3 DEF Coerente, Carregada
<1>6. ASSUME NEW e \in Voltam(c) PROVE enderecos'[e].principal => corrida'
  <2>0. enderecos'[e] = [dono |-> copia[c].id, principal |-> EraPrincipal(c, e),
                         estado |-> Vivo]
    BY <1>4, <1>6
  <2>1. enderecos'[e].principal = EraPrincipal(c, e)
    BY <2>0
  <2> QED BY Zenon, <1>6, <2>1 DEF SalvarAssociados
<1>7. corrida => corrida'
  BY Zenon DEF SalvarAssociados
<1>8. ASSUME NEW e \in Voltam(c)
      PROVE enderecos'[e].estado = Vivo /\ enderecos'[e].dono = enderecos[e].dono
  <2>0. enderecos'[e] = [dono |-> copia[c].id, principal |-> EraPrincipal(c, e),
                         estado |-> Vivo]
    BY <1>4, <1>8
  <2> QED BY <1>5, <1>8, <2>0
<1>9. ASSUME NEW e \in DOMAIN enderecos
      PROVE enderecos'[e].dono = enderecos[e].dono
  BY <1>2, <1>8
<1>10. Voltam(c) # {} => levados[c] # {}
  BY <1>3
<1> QED BY <1>1, <1>2, <1>3, <1>5, <1>6, <1>7, <1>8, <1>9, <1>10

DonosMantidos ==
  \A e \in DOMAIN enderecos : e \in DOMAIN enderecos' /\ enderecos'[e].dono = enderecos[e].dono

LEMMA Donos ==
  ASSUME TypeOK, \A c \in Chamadas : Coerente(c), [Next]_vars PROVE DonosMantidos
<1>1. ASSUME NEW c \in Chamadas, Desmarcar(c) PROVE DonosMantidos
  BY <1>1, DesmarcarEnderecos DEF DonosMantidos
<1>2. ASSUME NEW c \in Chamadas, InserirEndereco(c) PROVE DonosMantidos
  <2>1. CASE Achado(pedido[c].id)
    BY <1>2, <2>1, InserirEnderecos DEF DonosMantidos
  <2>2. CASE ~Achado(pedido[c].id)
    BY <1>2, <2>2 DEF InserirEndereco, DonosMantidos
  <2> QED BY <2>1, <2>2
<1>3. ASSUME NEW c \in Chamadas, GravarEndereco(c) PROVE DonosMantidos
  <2>1. CASE cliente = Nenhum \/ Achado(pedido[c].id)
    BY <1>3, <2>1, GravarEnderecos DEF DonosMantidos
  <2>2. CASE ~(cliente = Nenhum \/ Achado(pedido[c].id))
    BY <1>3, <2>2 DEF GravarEndereco, DonosMantidos
  <2> QED BY <2>1, <2>2
<1>4. ASSUME NEW c \in Chamadas, ExcluirEndereco(c) PROVE DonosMantidos
  BY <1>4, ExcluirEnderecos DEF DonosMantidos
<1>5. ASSUME UNCHANGED enderecos PROVE DonosMantidos
  BY <1>5 DEF DonosMantidos
<1>6. ASSUME NEW c \in Chamadas, Comecar(c) PROVE UNCHANGED enderecos
  BY <1>6, ComecarPede DEF Iniciar
<1>7. ASSUME NEW c \in Chamadas, Gravar(c) PROVE DonosMantidos
  <2>1. CASE SalvarAssociados(c)
    BY <1>7, <2>1, AssociadosEnderecos DEF DonosMantidos
  <2> QED BY <1>5, <1>7, <2>1 DEF Gravar
<1>8. ASSUME NEW c \in Chamadas, Apagar(c) PROVE DonosMantidos
  <2>1. CASE Achado(pedido[c].id)
    BY <1>8, <2>1, ApagarEnderecos DEF DonosMantidos
  <2> QED BY <1>5, <1>8, <2>1 DEF Apagar
<1> QED
  BY <1>1, <1>2, <1>3, <1>4, <1>5, <1>6, <1>7, <1>8
  DEF Next, Executar, Procurar, Achar, Inserir, Ler, Reler, LerEndereco,
      Falhar, Reiniciar, tabelas, vars

-----------------------------------------------------------------------------
(* Coerente is kept: by the other calls because owners stay, by the call   *)
(* that moves because of what it checked.                                  *)
LEMMA CoerenteOutros ==
  ASSUME NEW d \in Chamadas, Coerente(d), Igual(d), DonosMantidos
  PROVE Coerente(d)'
<1>1. Pedida(d)'
  BY DEF Coerente, Pedida, Igual, DonosMantidos
<1>2. Carregada(d)'
  BY DEF Coerente, Carregada, Igual, DonosMantidos
<1> QED BY <1>1, <1>2 DEF Coerente

LEMMA NextPedida ==
  ASSUME TypeOK, \A c \in Chamadas : Coerente(c), DonoPresente, NEW d \in Chamadas,
         Comecar(d) \/ Executar(d) \/ Falhar(d)
  PROVE Pedida(d)'
<1>0. DonosMantidos
  BY Donos DEF Next
<1>b. ASSUME Voltar(d) PROVE Pedida(d)'
  BY <1>b, VoltarValores DEF Pedida
<1>2. CASE Comecar(d)
  <2>1. PICK p : Requisicao(p) /\ Iniciar(d, p)
    BY <1>2, ComecarPede
  <2>2. pedido'[d] = p /\ passo'[d] = PrimeiroPasso(p.tipo) /\ UNCHANGED enderecos
    BY <2>1 DEF Iniciar, Ir, TypeOK
  <2> QED BY <2>1, <2>2 DEF Pedida, PrimeiroPasso, Requisicao, Tipos, Pedidos
<1>3. CASE Procurar(d)
  <2>1. CASE Avancar(d, "achar")
    BY <1>3, <2>1, AvancarValores DEF Procurar, Coerente, Pedida
  <2>2. CASE /\ Ir(d, "ler")
             /\ pedido' = [pedido EXCEPT ![d].id = cliente.id, ![d].tipo = "status",
                                         ![d].status = Ativo]
    <3>1. passo'[d] = "ler" /\ pedido'[d].tipo = "status"
      BY <2>2 DEF Ir, TypeOK, Pedidos
    <3> QED BY <3>1 DEF Pedida, Tipos
  <2>3. CASE cliente # Nenhum /\ Copiar(d, Preload(cliente.id))
    <3>1. passo'[d] = "gravar" /\ copia'[d] \in Linhas /\ pedido'[d].tipo = "contato"
      BY <1>3, <2>3, CopiarValores DEF TypeOK, Procurar, Coerente, Pedida
    <3> QED BY <3>1 DEF Pedida, TiposDeGravar
  <2> QED BY <1>3, <2>1, <2>2, <2>3, <1>b DEF Procurar
<1>4. CASE Achar(d)
  <2>1. CASE Avancar(d, "inserir")
    BY <1>4, <2>1, AvancarValores DEF Achar, Coerente, Pedida
  <2>2. CASE Ir(d, "ler")
             /\ pedido' = [pedido EXCEPT ![d].id = cliente.id, ![d].tipo = "criar"]
    <3>1. passo'[d] = "ler" /\ pedido'[d].tipo = "criar"
      BY <2>2 DEF Ir, TypeOK, Pedidos
    <3> QED BY <3>1 DEF Pedida, Tipos
  <2> QED BY <1>4, <2>1, <2>2, <1>b DEF Achar
<1>5. CASE Ler(d)
  <2>0. pedido[d].tipo \in Tipos \ {"contato", "definir", "remover"}
    BY <1>5 DEF Ler, Coerente, Pedida
  <2>1. CASE Avancar(d, "apagar")
    BY <2>1, AvancarValores DEF Pedida
  <2>2. CASE /\ pedido[d].tipo = "adicionar"
             /\ Avancar(d, IF pedido[d].principal THEN "desmarcar" ELSE "inserirEndereco")
    BY <2>2, AvancarValores DEF Pedida
  <2>3. ASSUME pedido[d].tipo \notin {"apagar", "adicionar"}, Achado(pedido[d].id),
               NEW S, Copiar(d, S)
        PROVE Pedida(d)'
    <3>1. passo'[d] = "gravar" /\ copia'[d] \in Linhas /\ pedido'[d].tipo \in TiposDeGravar
      BY <2>0, <2>3, CopiarValores DEF TypeOK, Achado, Tipos, TiposDeGravar
    <3> QED BY <3>1 DEF Pedida
  <2> QED BY <1>5, <2>1, <2>2, <2>3, <1>b DEF Ler
<1>6. CASE Gravar(d)
  <2>1. CASE Avancar(d, "reler")
    BY <2>1, AvancarValores DEF Pedida
  <2> QED BY <1>6, <2>1, <1>b DEF Gravar
<1>7. CASE LerEndereco(d)
  <2>1. CASE pedido[d].tipo = "remover" /\ Avancar(d, "excluirEndereco")
    BY <1>7, <2>1, AvancarValores DEF Coerente, Pedida, LerEndereco, tabelas
  <2>2. CASE /\ enderecos[pedido[d].endereco].estado = Vivo
             /\ enderecos[pedido[d].endereco].dono = pedido[d].id
             /\ pedido[d].tipo # "remover" /\ LerDono(d, "desmarcar")
    <3>1. pedido[d].endereco \in DOMAIN enderecos /\ pedido[d].tipo = "definir"
      BY <1>7, <2>2 DEF Coerente, Pedida, LerEndereco
    <3>2. Achado(pedido[d].id)
      BY <2>2, <3>1 DEF DonoPresente, Vivo, Apagado
    <3>3. passo'[d] = "desmarcar" /\ pedido' = pedido /\ copia'[d] = cliente
          /\ UNCHANGED enderecos
      BY <1>7, <2>2, LerDonoValores DEF LerEndereco, tabelas
    <3>4. cliente \in Linhas /\ cliente.id = pedido[d].id
      BY <3>2 DEF Achado, TypeOK
    <3> QED BY <2>2, <3>1, <3>3, <3>4 DEF Pedida
  <2> QED BY <1>7, <2>1, <2>2, <1>b DEF LerEndereco
<1>8. CASE Desmarcar(d)
  <2>1. Avancar(d, IF pedido[d].tipo = "definir" THEN "gravarEndereco" ELSE "inserirEndereco")
    BY <1>8 DEF Desmarcar
  <2> QED BY <1>0, <1>8, <2>1, AvancarValores DEF Coerente, Pedida, Desmarcar, DonosMantidos
<1>9. CASE \/ Inserir(d) \/ Reler(d) \/ Apagar(d) \/ InserirEndereco(d)
           \/ GravarEndereco(d) \/ ExcluirEndereco(d) \/ Falhar(d)
  BY <1>9, <1>b DEF Inserir, Reler, Apagar, InserirEndereco, GravarEndereco,
                   ExcluirEndereco, Falhar
<1> QED BY <1>2, <1>3, <1>4, <1>5, <1>6, <1>7, <1>8, <1>9 DEF Executar

(* The addresses preloaded with the client that is there.                  *)
LEMMA PreloadDoCliente ==
  ASSUME NEW i
  PROVE \A r \in Preload(i) : /\ r.id \in DOMAIN enderecos /\ enderecos[r.id].dono = i
                              /\ enderecos[r.id].estado = Vivo
BY DEF Preload

LEMMA NextCarregada ==
  ASSUME TypeOK, \A c \in Chamadas : Coerente(c), NEW d \in Chamadas,
         Comecar(d) \/ Executar(d) \/ Falhar(d)
  PROVE Carregada(d)'
<1>0. DonosMantidos
  BY Donos DEF Next
<1>a. ASSUME levados'[d] = {} PROVE Carregada(d)'
  BY <1>a DEF Carregada
<1>b. ASSUME Voltar(d) PROVE Carregada(d)'
  BY <1>a, <1>b, VoltarValores
<1>c. ASSUME UNCHANGED levados, passo[d] \notin {"gravar", "reler"} PROVE Carregada(d)'
  BY <1>a, <1>c DEF Coerente, Carregada
<1>d. ASSUME NEW q, Avancar(d, q), passo[d] \notin {"gravar", "reler"} PROVE Carregada(d)'
  BY <1>c, <1>d, AvancarValores
<1>e. ASSUME NEW i, NEW S, \A r \in S : r # Ordens => r \in Preload(i), Copiar(d, S),
             Achado(i), UNCHANGED enderecos
      PROVE Carregada(d)'
  <2>1. passo'[d] = "gravar" /\ copia'[d].id = i /\ levados'[d] = S
    BY <1>e, CopiarValores DEF Achado
  <2> QED BY <1>e, <2>1, PreloadDoCliente DEF Carregada
<1>2. CASE Comecar(d)
  BY <1>2, <1>c, ComecarPede DEF Iniciar, Comecar
<1>3. CASE Procurar(d)
  <2>1. CASE cliente # Nenhum /\ Copiar(d, Preload(cliente.id))
    <3>1. Achado(cliente.id) /\ UNCHANGED enderecos
      BY <1>3, <2>1 DEF Achado, Procurar, tabelas
    <3>2. PICK i, S : i = cliente.id /\ S = Preload(cliente.id)
      OBVIOUS
    <3>3. Copiar(d, S) /\ Achado(i) /\ S = Preload(i)
      BY <2>1, <3>1, <3>2
    <3> QED BY <1>e, <3>1, <3>3
  <2> QED BY <1>3, <2>1, <1>b, <1>c, <1>d DEF Procurar
<1>4. CASE Achar(d)
  BY <1>4, <1>b, <1>c, <1>d DEF Achar
<1>5. CASE Ler(d)
  <2>1. ASSUME Achado(pedido[d].id),
               Copiar(d, Preload(pedido[d].id)
                         \cup (IF pedido[d].id \in comPedido THEN {Ordens} ELSE {}))
        PROVE Carregada(d)'
    <3>1. PICK i, S : /\ i = pedido[d].id
                      /\ S = Preload(i) \cup (IF i \in comPedido THEN {Ordens} ELSE {})
      OBVIOUS
    <3>2. Copiar(d, S) /\ Achado(i) /\ UNCHANGED enderecos
      BY <1>5, <2>1, <3>1 DEF Ler, tabelas
    <3> QED BY <1>e, <3>1, <3>2
  <2> QED BY <1>5, <2>1, <1>b, <1>d DEF Ler
<1>6. CASE Gravar(d)
  <2>1. CASE Avancar(d, "reler")
    <3>1. passo'[d] = "reler" /\ levados' = levados /\ copia' = copia
      BY <2>1, AvancarValores
    <3> QED BY <1>0, <3>1 DEF Coerente, Carregada, DonosMantidos
  <2> QED BY <1>6, <2>1, <1>b DEF Gravar
<1>7. CASE LerEndereco(d)
  <2>1. ASSUME NEW q, LerDono(d, q) PROVE Carregada(d)'
    BY <1>7, <2>1, <1>c DEF LerDono, LerEndereco
  <2> QED BY <1>7, <2>1, <1>b, <1>d DEF LerEndereco
<1>8. CASE Desmarcar(d)
  BY <1>8, <1>d DEF Desmarcar
<1>9. CASE \/ Inserir(d) \/ Reler(d) \/ Apagar(d) \/ InserirEndereco(d)
           \/ GravarEndereco(d) \/ ExcluirEndereco(d) \/ Falhar(d)
  BY <1>9, <1>b DEF Inserir, Reler, Apagar, InserirEndereco, GravarEndereco,
                   ExcluirEndereco, Falhar
<1> QED BY <1>2, <1>3, <1>4, <1>5, <1>6, <1>7, <1>8, <1>9 DEF Executar

LEMMA NextCoerente ==
  ASSUME TypeOK, \A c \in Chamadas : Coerente(c), DonoPresente, [Next]_vars,
         NEW d \in Chamadas
  PROVE Coerente(d)'
<1>1. ASSUME NEW c \in Chamadas \ {d}, Comecar(c) \/ Executar(c) \/ Falhar(c)
      PROVE Coerente(d)'
  BY <1>1, Donos, OsOutros, CoerenteOutros
<1>2. CASE Comecar(d) \/ Executar(d) \/ Falhar(d)
  BY <1>2, NextPedida, NextCarregada DEF Coerente
<1>3. CASE Reiniciar
  BY <1>3 DEF Reiniciar, Coerente, Pedida, Carregada
<1>4. CASE UNCHANGED vars
  BY <1>4 DEF vars, Coerente, Pedida, Carregada
<1> QED BY <1>1, <1>2, <1>3, <1>4 DEF Next

-----------------------------------------------------------------------------
(* Nothing but its deletion takes the row of a client away or gives it     *)
(* another id.                                                             *)
LEMMA IdFica ==
  ASSUME TypeOK, \A c \in Chamadas : Coerente(c), [Next]_vars, NEW i, Achado(i),
         cliente' # Nenhum
  PROVE Achado(i)'
<1>2. ASSUME UNCHANGED cliente PROVE Achado(i)'
  BY <1>2 DEF Achado
<1>3. ASSUME NEW c \in Chamadas, Comecar(c) PROVE Achado(i)'
  BY <1>2, <1>3, ComecarPede DEF Iniciar
<1>4. ASSUME NEW c \in Chamadas, Inserir(c) PROVE Achado(i)'
  BY <1>2, <1>4 DEF Inserir, Achado
<1>5. ASSUME NEW c \in Chamadas, Gravar(c) PROVE Achado(i)'
  <2>1. Aplicar(copia[c], pedido[c]) \in Linhas
    BY <1>5, AplicarTipo DEF TypeOK, Gravar, Coerente, Pedida
  <2>2. CASE Salvar(Aplicar(copia[c], pedido[c]))
    <3>2. cliente' = [Aplicar(copia[c], pedido[c]) EXCEPT !.id = cliente.id]
      BY <2>2 DEF Salvar, Achado
    <3>3. cliente'.id = cliente.id
      BY <2>1, <3>2 DEF Linhas
    <3> QED BY <3>3 DEF Achado
  <2> QED BY <1>2, <1>5, <2>2 DEF Gravar
<1>6. ASSUME NEW c \in Chamadas, Apagar(c) PROVE Achado(i)'
  BY <1>2, <1>6 DEF Apagar
<1>7. ASSUME NEW c \in Chamadas, GravarEndereco(c) PROVE Achado(i)'
  BY <1>2, <1>7 DEF GravarEndereco, Achado
<1> QED
  BY <1>2, <1>3, <1>4, <1>5, <1>6, <1>7
  DEF Next, Executar, Procurar, Achar, Ler, Reler, LerEndereco, Desmarcar,
      InserirEndereco, ExcluirEndereco, Falhar, Reiniciar, tabelas, vars

(* Only the deletion of a client takes its row away.                       *)
LEMMA SoApagarTira ==
  ASSUME TypeOK, \A c \in Chamadas : Coerente(c), [Next]_vars, cliente # Nenhum,
         cliente' = Nenhum
  PROVE \E c \in Chamadas : Apagar(c) /\ Achado(pedido[c].id)
<1>1. ASSUME NEW c \in Chamadas, Comecar(c) PROVE FALSE
  BY <1>1, ComecarPede DEF Iniciar
<1>2. ASSUME NEW c \in Chamadas, Gravar(c) PROVE FALSE
  <2>1. Aplicar(copia[c], pedido[c]) \in Linhas
    BY <1>2, AplicarTipo DEF TypeOK, Gravar, Coerente, Pedida
  <2>2. ASSUME Salvar(Aplicar(copia[c], pedido[c])) PROVE FALSE
    <3>1. cliente' \in Linhas
      BY <2>1, <2>2, SalvarTipo
    <3> QED BY <3>1 DEF Linhas, Nenhum
  <2> QED BY <1>2, <2>2 DEF Gravar
<1>3. PICK c \in Chamadas : Apagar(c)
  BY <1>1, <1>2 DEF Next, Executar, Procurar, Achar, Inserir, Ler, Reler, LerEndereco,
         Desmarcar, InserirEndereco, GravarEndereco, ExcluirEndereco, Falhar, Reiniciar,
         tabelas, vars
<1> QED BY <1>3 DEF Apagar

(* An address that is there keeps its client, or goes with it.             *)
LEMMA DonoFica ==
  ASSUME TypeOK, \A c \in Chamadas : Coerente(c), DonoPresente, [Next]_vars,
         NEW e \in DOMAIN enderecos, enderecos[e].estado # Apagado
  PROVE \/ cliente' # Nenhum /\ cliente'.id = enderecos'[e].dono
        \/ enderecos'[e].estado = Apagado
<1>1. Achado(enderecos[e].dono)
  BY DEF DonoPresente
<1>2. CASE cliente' # Nenhum
  <2>1. ASSUME NEW i, i = enderecos[e].dono PROVE cliente'.id = i
    BY <1>1, <1>2, <2>1, IdFica DEF Achado
  <2> QED BY <1>2, <2>1, Donos DEF DonosMantidos
<1>3. CASE cliente' = Nenhum
  <2>1. PICK c \in Chamadas : Apagar(c) /\ Achado(pedido[c].id)
    BY <1>1, <1>3, SoApagarTira DEF Achado
  <2>2. enderecos[e].dono = pedido[c].id
    BY <1>1, <2>1 DEF Achado
  <2> QED BY <2>1, <2>2, ApagarEnderecos
<1> QED BY <1>2, <1>3

LEMMA NextDonoPresente ==
  ASSUME TypeOK, \A c \in Chamadas : Coerente(c), DonoPresente, [Next]_vars
  PROVE DonoPresente'
<1>2. ASSUME DOMAIN enderecos' = DOMAIN enderecos,
             \A e \in DOMAIN enderecos :
               enderecos[e].estado = Apagado => enderecos'[e].estado = Apagado
      PROVE DonoPresente'
  BY <1>2, DonoFica DEF DonoPresente, Achado
<1>3. ASSUME UNCHANGED enderecos PROVE DonoPresente'
  BY <1>2, <1>3
<1>4. ASSUME NEW c \in Chamadas, Desmarcar(c) PROVE DonoPresente'
  BY <1>2, <1>4, DesmarcarEnderecos
<1>5. ASSUME NEW c \in Chamadas, InserirEndereco(c) PROVE DonoPresente'
  <2>1. CASE Achado(pedido[c].id)
    <3>0. enderecos'[Len(enderecos) + 1] =
             [dono |-> pedido[c].id, principal |-> pedido[c].principal, estado |-> Vivo]
      BY <1>5, <2>1, InserirEnderecos
    <3>1. enderecos'[Len(enderecos) + 1].dono = pedido[c].id
      BY <3>0
    <3>2. DOMAIN enderecos' = DOMAIN enderecos \cup {Len(enderecos) + 1}
          /\ \A e \in DOMAIN enderecos : enderecos'[e] = enderecos[e]
      BY <1>5, <2>1, InserirEnderecos
    <3>3. UNCHANGED cliente
      BY <1>5 DEF InserirEndereco
    <3> QED BY <2>1, <3>1, <3>2, <3>3 DEF DonoPresente, Achado
  <2> QED BY <1>3, <1>5, <2>1 DEF InserirEndereco
<1>6. ASSUME NEW c \in Chamadas, GravarEndereco(c) PROVE DonoPresente'
  <2>1. CASE cliente = Nenhum \/ Achado(pedido[c].id)
    <3>1. /\ DOMAIN enderecos' = DOMAIN enderecos
          /\ \A e \in DOMAIN enderecos :
               e # pedido[c].endereco => enderecos'[e] = enderecos[e]
      BY <1>6, <2>1, GravarEnderecos
    <3>2. enderecos'[pedido[c].endereco].dono = pedido[c].id
      BY <1>6, <2>1, GravarEnderecos DEF Coerente, Pedida, GravarEndereco
    <3>3. cliente' # Nenhum /\ cliente'.id = pedido[c].id
      BY <1>6, <2>1 DEF GravarEndereco, Coerente, Pedida, Achado, Linhas, Nenhum
    <3> QED BY <3>1, <3>2, <3>3, DonoFica DEF DonoPresente, Achado
  <2> QED BY <1>3, <1>6, <2>1 DEF GravarEndereco
<1>7. ASSUME NEW c \in Chamadas, ExcluirEndereco(c) PROVE DonoPresente'
  BY <1>2, <1>7, ExcluirEnderecos DEF Vivo, Apagado
<1>8. ASSUME NEW c \in Chamadas, Apagar(c) PROVE DonoPresente'
  <2>1. CASE Achado(pedido[c].id)
    BY <1>2, <1>8, <2>1, ApagarEnderecos
  <2> QED BY <1>3, <1>8, <2>1 DEF Apagar
<1>9. ASSUME NEW c \in Chamadas, Gravar(c) PROVE DonoPresente'
  <2>1. CASE SalvarAssociados(c) /\ Achado(copia[c].id)
    <3>1. /\ DOMAIN enderecos' = DOMAIN enderecos
          /\ \A e \in DOMAIN enderecos : enderecos'[e].dono = enderecos[e].dono
          /\ \A e \in Voltam(c) : enderecos[e].dono = copia[c].id
          /\ \A e \in DOMAIN enderecos \ Voltam(c) : enderecos'[e] = enderecos[e]
      BY <1>9, <2>1, AssociadosEnderecos DEF Voltam
    <3>2. cliente' # Nenhum
      <4>1. Aplicar(copia[c], pedido[c]) \in Linhas
        BY <1>9, AplicarTipo DEF TypeOK, Gravar, Coerente, Pedida
      <4>2. cliente' \in Linhas
        BY <1>9, <2>1, <4>1, SalvarTipo DEF Gravar
      <4> QED BY <4>2 DEF Linhas, Nenhum
    <3>3. ASSUME NEW i, i = copia[c].id PROVE cliente'.id = i
      BY <2>1, <3>2, <3>3, IdFica DEF Achado
    <3> QED BY <3>1, <3>2, <3>3, DonoFica DEF DonoPresente, Achado
  <2>2. CASE SalvarAssociados(c) /\ levados[c] = {}
    <3>1. Voltam(c) = {}
      BY <2>2 DEF Voltam
    <3> QED BY <1>2, <1>9, <2>2, <3>1, AssociadosEnderecos
  <2> QED BY <1>3, <1>9, <2>1, <2>2 DEF Gravar
<1>10. ASSUME NEW c \in Chamadas, Comecar(c) PROVE DonoPresente'
  BY <1>3, <1>10, ComecarPede DEF Iniciar
<1> QED
  BY <1>3, <1>4, <1>5, <1>6, <1>7, <1>8, <1>9, <1>10
  DEF Next, Executar, Procurar, Achar, Inserir, Ler, Reler, LerEndereco, Falhar,
      Reiniciar, tabelas, vars

-----------------------------------------------------------------------------
(* The steps that have nothing to do with flags: no address changes and    *)
(* the call is outside its window before and after.                        *)
Quieto(c) ==
  /\ UNCHANGED <<enderecos, corrida, escolhido>>
  /\ ~NaJanela(c) /\ ~NaJanela(c)'
  /\ \A d \in Chamadas \ {c} : Igual(d)

LEMMA PassosQuietos ==
  ASSUME TypeOK, NEW c \in Chamadas,
         \/ Comecar(c) \/ Procurar(c) \/ Achar(c) \/ Inserir(c) \/ Ler(c)
         \/ Reler(c) \/ LerEndereco(c)
  PROVE Quieto(c)
<1>1. \A d \in Chamadas \ {c} : Igual(d)
  BY OsOutros DEF Executar
<1>2. UNCHANGED <<enderecos, corrida, escolhido>>
  <2>1. CASE Comecar(c)
    BY <2>1, ComecarPede DEF Iniciar, historia
  <2>2. CASE ~Comecar(c)
    BY <2>2 DEF Procurar, Achar, Inserir, Ler, Reler, LerEndereco, tabelas, historia
  <2> QED BY <2>1, <2>2
<1>3. ~NaJanela(c)
  BY DEF NaJanela, Comecar, Procurar, Achar, Inserir, Ler, Reler, LerEndereco
<1>4. ~NaJanela(c)'
  <2>0. ASSUME passo'[c] \in Passos \ {"gravarEndereco", "inserirEndereco"}
        PROVE ~NaJanela(c)'
    BY <2>0 DEF NaJanela
  <2>a. CASE Voltar(c)
    BY <2>a, <2>0, VoltarValores DEF Passos
  <2>b. ASSUME NEW q \in Passos \ {"gravarEndereco", "inserirEndereco"}, Ir(c, q)
        PROVE ~NaJanela(c)'
    BY <2>b, <2>0 DEF Ir, TypeOK
  <2>c. ASSUME NEW q \in Passos \ {"gravarEndereco", "inserirEndereco"}, Avancar(c, q)
        PROVE ~NaJanela(c)'
    BY <2>c, <2>b DEF Avancar
  <2>d. ASSUME NEW S, Copiar(c, S) PROVE ~NaJanela(c)'
    BY <2>d, <2>b DEF Copiar, Passos
  <2>1. CASE Comecar(c)
    BY <2>1, <2>b, ComecarPede DEF Iniciar, PrimeiroPasso, Passos
  <2>2. CASE Procurar(c)
    BY <2>2, <2>a, <2>b, <2>c, <2>d DEF Procurar, Passos
  <2>3. CASE Achar(c)
    BY <2>3, <2>a, <2>b, <2>c DEF Achar, Passos
  <2>4. CASE Ler(c)
    <3>1. CASE /\ pedido[c].tipo = "adicionar"
               /\ Avancar(c, IF pedido[c].principal THEN "desmarcar" ELSE "inserirEndereco")
      <4>1. CASE pedido[c].principal
        BY <3>1, <4>1, <2>c DEF Passos
      <4>2. CASE ~pedido[c].principal
        BY <3>1, <4>2, AvancarValores DEF NaJanela
      <4> QED BY <4>1, <4>2
    <3> QED BY <2>4, <3>1, <2>a, <2>c, <2>d DEF Ler, Passos
  <2>5. CASE LerEndereco(c)
    <3>1. CASE LerDono(c, "desmarcar")
      BY <3>1, <2>b DEF LerDono, Passos
    <3> QED BY <2>5, <3>1, <2>a, <2>c DEF LerEndereco, Passos
  <2>6. CASE Inserir(c) \/ Reler(c)
    BY <2>6, <2>a DEF Inserir, Reler
  <2> QED BY <2>1, <2>2, <2>3, <2>4, <2>5, <2>6
<1> QED BY <1>1, <1>2, <1>3, <1>4 DEF Quieto

(* The steps of the others that end a window.                              *)
LEMMA ForaDaJanela ==
  ASSUME TypeOK, NEW c \in Chamadas, Voltar(c)
  PROVE ~NaJanela(c)' /\ \A d \in Chamadas \ {c} : NaJanela(d)' = NaJanela(d)
BY VoltarValores DEF NaJanela, Igual

-----------------------------------------------------------------------------
(* One statement per step, so the cases of a step of the flags.            *)
LEMMA Casos ==
  ASSUME [Next]_vars
  PROVE \/ \E c \in Chamadas :
             \/ \/ Comecar(c) \/ Procurar(c) \/ Achar(c) \/ Inserir(c) \/ Ler(c)
                \/ Reler(c) \/ LerEndereco(c)
             \/ Gravar(c) \/ Apagar(c) \/ Desmarcar(c) \/ InserirEndereco(c)
             \/ GravarEndereco(c) \/ ExcluirEndereco(c) \/ Falhar(c)
        \/ Reiniciar
        \/ UNCHANGED vars
BY DEF Next, Executar

(* The address of a choice is written.                                     *)
Aceito(c) == GravarEndereco(c) /\ (cliente = Nenhum \/ Achado(pedido[c].id))

(* No step adds to Principais but the two writes of a principal address    *)
(* and the save of a client that brings one back.                          *)
SemNovo ==
  \A e \in Principais' : e \in Principais /\ enderecos'[e].dono = enderecos[e].dono

LEMMA SemNovoPrincipal ==
  ASSUME TypeOK, \A c \in Chamadas : Coerente(c), NEW c \in Chamadas,
         \/ Quieto(c) \/ Apagar(c) \/ Desmarcar(c) \/ ExcluirEndereco(c) \/ Falhar(c)
         \/ Gravar(c) /\ ~corrida'
         \/ InserirEndereco(c) /\ ~(pedido[c].principal /\ Achado(pedido[c].id))
         \/ GravarEndereco(c) /\ ~Aceito(c)
  PROVE SemNovo
<1>1. ASSUME UNCHANGED enderecos PROVE SemNovo
  BY <1>1 DEF Principais, SemNovo
<1>2. CASE Quieto(c) \/ Falhar(c)
  BY <1>1, <1>2 DEF Quieto, Falhar, tabelas
<1>3. CASE Desmarcar(c)
  BY <1>3, DesmarcarEnderecos DEF Principais, SemNovo
<1>4. CASE ExcluirEndereco(c)
  BY <1>4, ExcluirEnderecos DEF Principais, SemNovo
<1>5. CASE InserirEndereco(c) /\ ~(pedido[c].principal /\ Achado(pedido[c].id))
  <2>1. CASE Achado(pedido[c].id)
    <3>1. enderecos'[Len(enderecos) + 1] =
             [dono |-> pedido[c].id, principal |-> pedido[c].principal, estado |-> Vivo]
      BY <1>5, <2>1, InserirEnderecos
    <3>2. ~enderecos'[Len(enderecos) + 1].principal
      BY <1>5, <2>1, <3>1
    <3>3. /\ DOMAIN enderecos' = DOMAIN enderecos \cup {Len(enderecos) + 1}
          /\ \A e \in DOMAIN enderecos : enderecos'[e] = enderecos[e]
      BY <1>5, <2>1, InserirEnderecos
    <3> QED BY <3>2, <3>3 DEF Principais, SemNovo
  <2>2. CASE ~Achado(pedido[c].id)
    BY <1>1, <1>5, <2>2 DEF InserirEndereco
  <2> QED BY <2>1, <2>2
<1>6. CASE Apagar(c)
  <2>1. CASE Achado(pedido[c].id)
    BY <1>6, <2>1, ApagarEnderecos DEF Principais, SemNovo, Vivo, Apagado
  <2> QED BY <1>1, <1>6, <2>1 DEF Apagar
<1>7. CASE Gravar(c) /\ ~corrida'
  <2>1. CASE SalvarAssociados(c)
    BY <1>7, <2>1, AssociadosEnderecos DEF Principais, SemNovo
  <2> QED BY <1>1, <1>7, <2>1 DEF Gravar
<1>8. CASE GravarEndereco(c) /\ ~Aceito(c)
  BY <1>1, <1>8 DEF GravarEndereco, Aceito
<1> QED BY <1>2, <1>3, <1>4, <1>5, <1>6, <1>7, <1>8

(* The two writes add one address, of the client of the request.           *)
SoNovo(c, n) ==
  /\ enderecos'[n].dono = pedido[c].id
  /\ \A e \in Principais' : e # n =>
       e \in Principais /\ enderecos'[e].dono = enderecos[e].dono

LEMMA NovoPrincipal ==
  ASSUME TypeOK, \A c \in Chamadas : Coerente(c), NEW c \in Chamadas,
         \/ InserirEndereco(c) /\ pedido[c].principal /\ Achado(pedido[c].id)
         \/ Aceito(c)
  PROVE /\ NaJanela(c) /\ MarcarHistoria(c) /\ Voltar(c)
        /\ \E n \in Principais' : SoNovo(c, n)
<1>1. CASE InserirEndereco(c) /\ pedido[c].principal /\ Achado(pedido[c].id)
  <2>1. NaJanela(c) /\ MarcarHistoria(c) /\ Voltar(c)
    BY <1>1 DEF InserirEndereco, NaJanela
  <2>2. enderecos'[Len(enderecos) + 1] =
           [dono |-> pedido[c].id, principal |-> pedido[c].principal, estado |-> Vivo]
    BY <1>1, InserirEnderecos
  <2>3. /\ enderecos'[Len(enderecos) + 1].dono = pedido[c].id
        /\ enderecos'[Len(enderecos) + 1].principal
        /\ enderecos'[Len(enderecos) + 1].estado = Vivo
    BY <1>1, <2>2
  <2>4. /\ DOMAIN enderecos' = DOMAIN enderecos \cup {Len(enderecos) + 1}
        /\ \A g \in DOMAIN enderecos : enderecos'[g] = enderecos[g]
    BY <1>1, InserirEnderecos
  <2>5. Len(enderecos) + 1 \in Principais' /\ SoNovo(c, Len(enderecos) + 1)
    BY <2>3, <2>4 DEF Principais, SoNovo
  <2> QED BY <2>1, <2>5
<1>2. CASE Aceito(c)
  <2>1. NaJanela(c) /\ MarcarHistoria(c) /\ Voltar(c)
    BY <1>2 DEF Aceito, GravarEndereco, NaJanela
  <2>2. enderecos'[pedido[c].endereco].dono = pedido[c].id
    BY <1>2, GravarEnderecos DEF Aceito, Coerente, Pedida, GravarEndereco
  <2>3. pedido[c].endereco \in Principais' /\ SoNovo(c, pedido[c].endereco)
    BY <1>2, <2>2, GravarEnderecos DEF Aceito, Principais, SoNovo
  <2> QED BY <2>1, <2>3
<1> QED BY <1>1, <1>2

(* The call that keeps still keeps its window, or stays out of it.         *)
LEMMA MesmaJanela ==
  ASSUME NEW d \in Chamadas, Igual(d)
  PROVE NaJanela(d)' = NaJanela(d) /\ pedido'[d].id = pedido[d].id
BY DEF NaJanela, Igual

LEMMA NextJanelaLimpa ==
  ASSUME TypeOK, \A c \in Chamadas : Coerente(c), JanelaLimpa, [Next]_vars
  PROVE JanelaLimpa'
<1> SUFFICES ASSUME ~corrida', NEW d \in Chamadas, NaJanela(d)', NEW e \in Principais'
             PROVE enderecos'[e].dono # pedido'[d].id
  BY DEF JanelaLimpa
<1>0. ASSUME Igual(d), ~corrida, SemNovo PROVE enderecos'[e].dono # pedido'[d].id
  BY <1>0, MesmaJanela DEF JanelaLimpa, SemNovo
<1>1. ASSUME NEW c \in Chamadas, Quieto(c) PROVE enderecos'[e].dono # pedido'[d].id
  BY <1>0, <1>1, SemNovoPrincipal DEF Quieto
<1>2. ASSUME NEW c \in Chamadas, Desmarcar(c) PROVE enderecos'[e].dono # pedido'[d].id
  <2>1. SemNovo /\ ~corrida
    BY <1>2, SemNovoPrincipal DEF Desmarcar, historia
  <2>2. CASE d # c
    BY <1>0, <1>2, <2>1, <2>2, OsOutros DEF Executar
  <2>3. CASE d = c
    <3>1. pedido' = pedido
      BY <1>2 DEF Desmarcar, Avancar
    <3>2. enderecos'[e].principal /\ enderecos'[e].estado = Vivo /\ e \in DOMAIN enderecos
      BY <2>1 DEF Principais, SemNovo
    <3> QED BY <1>2, <2>3, <3>1, <3>2, DesmarcarEnderecos
  <2> QED BY <2>2, <2>3
<1>3. ASSUME NEW c \in Chamadas, Voltar(c), ~corrida, SemNovo
      PROVE enderecos'[e].dono # pedido'[d].id
  BY <1>0, <1>3, ForaDaJanela, VoltarValores
(* The other call in its window is one of another client.                  *)
<1>4. ASSUME NEW c \in Chamadas, MarcarHistoria(c), Voltar(c), NEW n, SoNovo(c, n)
      PROVE enderecos'[e].dono # pedido'[d].id
  <2>1. d # c /\ NaJanela(d) /\ Igual(d)
    BY <1>4, ForaDaJanela, VoltarValores
  <2>2. ~corrida /\ pedido[d].id # pedido[c].id
    BY <1>4, <2>1 DEF MarcarHistoria
  <2>3. pedido'[d].id = pedido[d].id
    BY <2>1, MesmaJanela
  <2>4. CASE e = n
    BY <1>4, <2>2, <2>3, <2>4 DEF SoNovo
  <2>5. CASE e # n
    BY <1>4, <2>1, <2>2, <2>3, <2>5 DEF SoNovo, JanelaLimpa
  <2> QED BY <2>4, <2>5
<1>5. ASSUME NEW c \in Chamadas, InserirEndereco(c) PROVE enderecos'[e].dono # pedido'[d].id
  <2>1. CASE pedido[c].principal /\ Achado(pedido[c].id)
    BY <1>4, <1>5, <2>1, NovoPrincipal
  <2>2. CASE ~(pedido[c].principal /\ Achado(pedido[c].id))
    <3>1. SemNovo
      BY <1>5, <2>2, SemNovoPrincipal
    <3>2. Voltar(c) /\ ~corrida
      BY <1>5, <2>2 DEF InserirEndereco
    <3> QED BY <1>3, <3>1, <3>2
  <2> QED BY <2>1, <2>2
<1>6. ASSUME NEW c \in Chamadas, GravarEndereco(c) PROVE enderecos'[e].dono # pedido'[d].id
  <2>1. CASE Aceito(c)
    BY <1>4, <2>1, NovoPrincipal
  <2>2. CASE ~Aceito(c)
    <3>1. SemNovo
      BY <1>6, <2>2, SemNovoPrincipal
    <3>2. Voltar(c) /\ ~corrida
      BY <1>6, <2>2 DEF GravarEndereco, Aceito
    <3> QED BY <1>3, <3>1, <3>2
  <2> QED BY <2>1, <2>2
<1>7. ASSUME NEW c \in Chamadas, ExcluirEndereco(c) \/ Falhar(c) \/ Apagar(c)
      PROVE enderecos'[e].dono # pedido'[d].id
  <2>1. Voltar(c)
    BY <1>7 DEF ExcluirEndereco, Falhar, Apagar
  <2>2. ~corrida
    BY <1>7 DEF ExcluirEndereco, Falhar, Apagar
  <2> QED BY <1>3, <1>7, <2>1, <2>2, SemNovoPrincipal
<1>8. ASSUME NEW c \in Chamadas, Gravar(c) PROVE enderecos'[e].dono # pedido'[d].id
  <2>1. SemNovo
    BY <1>8, SemNovoPrincipal
  <2>2. ~corrida
    BY <1>8, AssociadosEnderecos DEF Gravar
  <2>3. CASE Voltar(c)
    BY <1>3, <2>1, <2>2, <2>3
  <2>4. CASE Avancar(c, "reler")
    <3>1. d # c
      BY <2>4, AvancarValores DEF NaJanela
    <3> QED BY <1>0, <2>1, <2>2, <2>4, <3>1, AvancarValores
  <2> QED BY <1>8, <2>3, <2>4 DEF Gravar
<1>9. CASE Reiniciar
  BY <1>9 DEF Reiniciar, NaJanela
<1>10. CASE UNCHANGED vars
  BY <1>10 DEF vars, JanelaLimpa, NaJanela, Principais
<1> QED
  BY <1>1, <1>2, <1>5, <1>6, <1>7, <1>8, <1>9, <1>10, Casos, PassosQuietos

LEMMA NextUmPrincipal ==
  ASSUME TypeOK, \A c \in Chamadas : Coerente(c), JanelaLimpa, UmPrincipal, [Next]_vars
  PROVE UmPrincipal'
<1> SUFFICES ASSUME ~corrida', NEW e \in Principais', NEW f \in Principais',
                    enderecos'[e].dono = enderecos'[f].dono
             PROVE e = f
  BY DEF UmPrincipal
<1>1. ASSUME ~corrida, SemNovo PROVE e = f
  BY <1>1 DEF UmPrincipal, SemNovo
<1>2. ASSUME NEW c \in Chamadas, Quieto(c) PROVE e = f
  BY <1>1, <1>2, SemNovoPrincipal DEF Quieto
<1>3. ASSUME NEW c \in Chamadas, Desmarcar(c) \/ ExcluirEndereco(c) \/ Falhar(c) \/ Apagar(c)
      PROVE e = f
  <2>1. ~corrida
    BY <1>3 DEF Desmarcar, ExcluirEndereco, Falhar, Apagar, historia
  <2> QED BY <1>1, <1>3, <2>1, SemNovoPrincipal
(* The address written is the only one of its client to be principal.      *)
<1>4. ASSUME NEW c \in Chamadas, NaJanela(c), MarcarHistoria(c), NEW n, SoNovo(c, n)
      PROVE e = f
  <2>1. ~corrida
    BY <1>4 DEF MarcarHistoria
  <2>2. \A g \in Principais : enderecos[g].dono # pedido[c].id
    BY <1>4, <2>1 DEF JanelaLimpa
  <2> QED BY <1>4, <2>1, <2>2 DEF SoNovo, UmPrincipal
<1>5. ASSUME NEW c \in Chamadas, InserirEndereco(c) PROVE e = f
  <2>1. CASE pedido[c].principal /\ Achado(pedido[c].id)
    BY <1>4, <1>5, <2>1, NovoPrincipal
  <2>2. CASE ~(pedido[c].principal /\ Achado(pedido[c].id))
    BY <1>1, <1>5, <2>2, SemNovoPrincipal DEF InserirEndereco
  <2> QED BY <2>1, <2>2
<1>6. ASSUME NEW c \in Chamadas, GravarEndereco(c) PROVE e = f
  <2>1. CASE Aceito(c)
    BY <1>4, <2>1, NovoPrincipal
  <2>2. CASE ~Aceito(c)
    <3>1. SemNovo
      BY <1>6, <2>2, SemNovoPrincipal
    <3>2. ~corrida
      BY <1>6, <2>2 DEF GravarEndereco, Aceito
    <3> QED BY <1>1, <3>1, <3>2
  <2> QED BY <2>1, <2>2
<1>7. ASSUME NEW c \in Chamadas, Gravar(c) PROVE e = f
  <2>1. SemNovo
    BY <1>7, SemNovoPrincipal
  <2>2. ~corrida
    BY <1>7, AssociadosEnderecos DEF Gravar
  <2> QED BY <1>1, <2>1, <2>2
<1>8. CASE Reiniciar \/ UNCHANGED vars
  <2>1. UNCHANGED <<enderecos, corrida>>
    BY <1>8 DEF Reiniciar, tabelas, vars
  <2> QED BY <1>1, <2>1 DEF Principais, SemNovo
<1> QED
  BY <1>2, <1>3, <1>5, <1>6, <1>7, <1>8, Casos, PassosQuietos

LEMMA NextPrincipal ==
  ASSUME TypeOK, \A c \in Chamadas : Coerente(c), DonoPresente, PrincipalPermanece,
         [Next]_vars
  PROVE PrincipalPermanece'
<1> SUFFICES ASSUME escolhido'
             PROVE Principais' # {} \/ \E d \in Chamadas : Substitui(d)'
  BY DEF PrincipalPermanece
<1> DEFINE Fim == Principais' # {} \/ \E d \in Chamadas : Substitui(d)'
<1>0. cliente # Nenhum => cliente' # Nenhum
  BY SoApagarTira DEF Apagar
<1>1. ASSUME NEW c \in Chamadas, ~Substitui(c), escolhido, Principais \subseteq Principais',
             \A d \in Chamadas \ {c} : Igual(d)
      PROVE Fim
  <2>1. CASE Principais # {}
    BY <1>1, <2>1
  <2>2. CASE Principais = {}
    <3>1. PICK d \in Chamadas : Substitui(d)
      BY <1>1, <2>2 DEF PrincipalPermanece
    <3>2. Igual(d)
      BY <1>1, <3>1
    <3>3. PICK i : i = pedido[d].id
      OBVIOUS
    <3>4. Achado(i) /\ NaJanela(d)
      BY <3>1, <3>3 DEF Substitui
    <3>5. Achado(i)'
      BY <1>0, <3>4, IdFica DEF Achado
    <3>6. NaJanela(d)' /\ pedido'[d].id = i
      BY <3>2, <3>3, <3>4, MesmaJanela
    <3> QED BY <3>5, <3>6 DEF Substitui, Achado
  <2> QED BY <2>1, <2>2
<1>2. ASSUME NEW c \in Chamadas, ~Substitui(c), UNCHANGED <<enderecos, escolhido>>,
             \A d \in Chamadas \ {c} : Igual(d)
      PROVE Fim
  <2>1. escolhido /\ Principais \subseteq Principais'
    BY <1>2 DEF Principais
  <2> QED BY <1>1, <1>2, <2>1
<1>3. ASSUME NEW c \in Chamadas, Quieto(c) PROVE Fim
  BY <1>2, <1>3 DEF Quieto, Substitui
<1>4. ASSUME NEW c \in Chamadas, Desmarcar(c) PROVE Fim
  <2>0. UNCHANGED cliente /\ escolhido /\ ~Substitui(c)
    BY <1>4 DEF Desmarcar, historia, NaJanela, Substitui
  <2>1. CASE Principais \subseteq Principais'
    BY <1>1, <1>4, <2>0, <2>1, OsOutros DEF Executar
  <2>2. CASE ~(Principais \subseteq Principais')
    <3>1. PICK e \in Principais : e \notin Principais'
      BY <2>2
    <3>2. e \in DOMAIN enderecos /\ enderecos[e].dono = pedido[c].id
          /\ enderecos[e].estado = Vivo
      BY <1>4, <3>1, DesmarcarEnderecos DEF Principais
    <3>3. Achado(pedido[c].id)
      BY <3>2 DEF DonoPresente, Vivo, Apagado
    <3>4. NaJanela(c)' /\ pedido' = pedido
      BY <1>4, AvancarValores DEF Desmarcar, Coerente, Pedida, NaJanela
    <3> QED BY <2>0, <3>3, <3>4 DEF Achado, Substitui
  <2> QED BY <2>1, <2>2
<1>5. ASSUME NEW c \in Chamadas, InserirEndereco(c) PROVE Fim
  <2>0. \A d \in Chamadas \ {c} : Igual(d)
    BY <1>5, VoltarValores DEF InserirEndereco
  <2>1. CASE pedido[c].principal /\ Achado(pedido[c].id)
    BY <1>5, <2>1, NovoPrincipal
  <2>2. CASE Achado(pedido[c].id) /\ ~pedido[c].principal
    <3>1. escolhido /\ ~Substitui(c)
      BY <1>5, <2>2 DEF InserirEndereco, NaJanela, Substitui
    <3>2. Principais \subseteq Principais'
      BY <1>5, <2>2, InserirEnderecos DEF Principais
    <3> QED BY <1>1, <2>0, <3>1, <3>2
  <2>3. CASE ~Achado(pedido[c].id)
    BY <1>2, <1>5, <2>0, <2>3 DEF InserirEndereco, Substitui
  <2> QED BY <2>1, <2>2, <2>3
<1>6. ASSUME NEW c \in Chamadas, GravarEndereco(c) PROVE Fim
  <2>1. CASE Aceito(c)
    BY <2>1, NovoPrincipal
  <2>2. CASE ~Aceito(c)
    <3>1. \A d \in Chamadas \ {c} : Igual(d)
      BY <1>6, VoltarValores DEF GravarEndereco
    <3> QED BY <1>2, <1>6, <2>2, <3>1 DEF GravarEndereco, Aceito, Substitui
  <2> QED BY <2>1, <2>2
<1>7. ASSUME NEW c \in Chamadas, ExcluirEndereco(c) PROVE Fim
  <2>1. escolhido /\ pedido[c].endereco \notin Principais /\ ~Substitui(c)
    BY <1>7 DEF ExcluirEndereco, NaJanela, Substitui
  <2>2. Principais \subseteq Principais'
    BY <1>7, <2>1, ExcluirEnderecos DEF Principais
  <2> QED BY <1>1, <1>7, <2>1, <2>2, OsOutros DEF Executar
<1>8. ASSUME NEW c \in Chamadas, Falhar(c) PROVE Fim
  <2>1. escolhido /\ ~Substitui(c) /\ UNCHANGED enderecos
    BY <1>8 DEF Falhar, tabelas
  <2>2. Principais \subseteq Principais'
    BY <2>1 DEF Principais
  <2> QED BY <1>1, <1>8, <2>1, <2>2, OsOutros
<1>9. ASSUME NEW c \in Chamadas, Apagar(c) PROVE Fim
  <2>1. UNCHANGED <<enderecos, escolhido>> /\ ~Substitui(c)
    BY <1>9 DEF Apagar, NaJanela, Substitui
  <2> QED BY <1>2, <1>9, <2>1, OsOutros DEF Executar
<1>10. ASSUME NEW c \in Chamadas, Gravar(c) PROVE Fim
  <2>1. escolhido /\ ~Substitui(c)
    BY <1>10 DEF Gravar, NaJanela, Substitui
  <2>2. Principais \subseteq Principais'
    <3>1. CASE SalvarAssociados(c)
      BY <1>10, <3>1, AssociadosEnderecos DEF Principais, Vivo, Apagado
    <3>2. CASE UNCHANGED enderecos
      BY <3>2 DEF Principais
    <3> QED BY <1>10, <3>1, <3>2 DEF Gravar
  <2> QED BY <1>1, <1>10, <2>1, <2>2, OsOutros DEF Executar
<1>11. CASE Reiniciar
  <2>1. escolhido /\ (\A c \in Chamadas : ~Substitui(c)) /\ UNCHANGED enderecos
    BY <1>11 DEF Reiniciar, tabelas
  <2> QED BY <2>1 DEF PrincipalPermanece, Principais
<1>12. CASE UNCHANGED vars
  BY <1>12 DEF vars, PrincipalPermanece, Principais, NaJanela, Achado, Substitui
<1> QED
  BY <1>3, <1>4, <1>5, <1>6, <1>7, <1>8, <1>9, <1>10, <1>11, <1>12, Casos, PassosQuietos

-----------------------------------------------------------------------------
(* What the statements of other calls leave of what call d read.           *)
NadaDeNovo(d) ==
  /\ passo[d] = "gravar" /\ ~velho[d] => UNCHANGED cliente
  /\ velho'[d] = velho[d]
  /\ \A e \in DOMAIN enderecos : \/ enderecos'[e].estado = enderecos[e].estado
                                 \/ enderecos'[e].estado = Vivo

LEMMA LidoFica ==
  ASSUME NEW d \in Chamadas, Coerente(d), LidoEmDia(d), Igual(d), NadaDeNovo(d)
  PROVE LidoEmDia(d)'
BY DEF Coerente, Pedida, Carregada, LidoEmDia, Igual, NadaDeNovo, Vivo, Apagado

(* The steps that write neither the client's row nor the state of one of   *)
(* its addresses.                                                          *)
LEMMA PassosSemNovidade ==
  ASSUME TypeOK, \A c \in Chamadas : Coerente(c), NEW c \in Chamadas,
         \/ Comecar(c) \/ Procurar(c) \/ Achar(c) \/ Ler(c) \/ Reler(c)
         \/ LerEndereco(c) \/ Desmarcar(c) \/ InserirEndereco(c)
  PROVE \A d \in Chamadas : NadaDeNovo(d)
<1>1. UNCHANGED <<cliente, velho>>
  <2>1. CASE Comecar(c)
    BY <2>1, ComecarPede DEF Iniciar, historia
  <2>2. CASE ~Comecar(c)
    BY <2>2 DEF Procurar, Achar, Ler, Reler, LerEndereco, Desmarcar, InserirEndereco,
               tabelas, historia
  <2> QED BY <2>1, <2>2
<1>2. \A e \in DOMAIN enderecos : enderecos'[e].estado = enderecos[e].estado
  <2>1. CASE Desmarcar(c)
    BY <2>1, DesmarcarEnderecos
  <2>2. CASE InserirEndereco(c)
    <3>1. CASE Achado(pedido[c].id)
      BY <2>2, <3>1, InserirEnderecos
    <3>2. CASE ~Achado(pedido[c].id)
      BY <2>2, <3>2 DEF InserirEndereco
    <3> QED BY <3>1, <3>2
  <2>3. CASE ~Desmarcar(c) /\ ~InserirEndereco(c)
    BY <2>3, PassosQuietos DEF Quieto
  <2> QED BY <2>1, <2>2, <2>3
<1> QED BY <1>1, <1>2 DEF NadaDeNovo

(* A call that writes the client's row says so to those about to save it.  *)
LEMMA LidoDepoisDeMudar ==
  ASSUME NEW c \in Chamadas, NEW d \in Chamadas \ {c}, Coerente(d), LidoEmDia(d), Igual(d),
         ClienteMudou(c),
         \A e \in DOMAIN enderecos : \/ enderecos'[e].estado = enderecos[e].estado
                                     \/ enderecos'[e].estado = Vivo
  PROVE LidoEmDia(d)'
<1> SUFFICES ASSUME ~velho'[d] PROVE LidoEmDia(d)'
  BY DEF LidoEmDia
<1>1. ~velho[d] /\ passo[d] # "gravar"
  BY Zenon DEF ClienteMudou
<1> QED BY <1>1 DEF LidoEmDia, Igual, Coerente, Pedida

LEMMA LidoPelosOutros ==
  ASSUME TypeOK, \A c \in Chamadas : Coerente(c) /\ LidoEmDia(c),
         NEW c \in Chamadas, NEW d \in Chamadas \ {c}, Comecar(c) \/ Executar(c) \/ Falhar(c)
  PROVE LidoEmDia(d)'
<1>0. Igual(d)
  BY OsOutros
<1>a. ASSUME NadaDeNovo(d) PROVE LidoEmDia(d)'
  BY <1>0, <1>a, LidoFica
<1>b. ASSUME Esqueceu(c), UNCHANGED <<cliente, enderecos>> PROVE LidoEmDia(d)'
  <2>1. velho'[d] = velho[d]
    BY <1>b DEF Esqueceu, TypeOK
  <2> QED BY <1>a, <1>b, <2>1 DEF NadaDeNovo
<1>1. CASE \/ Comecar(c) \/ Procurar(c) \/ Achar(c) \/ Ler(c) \/ Reler(c)
           \/ LerEndereco(c) \/ Desmarcar(c) \/ InserirEndereco(c)
  BY <1>a, <1>1, PassosSemNovidade
<1>2. CASE Inserir(c)
  <2>1. CASE cliente = Nenhum
    BY <1>0, <1>2, <2>1, LidoDepoisDeMudar DEF Inserir
  <2>2. CASE cliente # Nenhum
    BY <1>a, <1>2, <2>2 DEF Inserir, NadaDeNovo
  <2> QED BY <2>1, <2>2
<1>3. CASE Gravar(c)
  <2>1. CASE SalvarAssociados(c) /\ ClienteMudou(c)
    <3>1. \A e \in DOMAIN enderecos : \/ enderecos'[e].estado = enderecos[e].estado
                                      \/ enderecos'[e].estado = Vivo
      BY <1>3, <2>1, AssociadosEnderecos
    <3> QED BY <1>0, <2>1, <3>1, LidoDepoisDeMudar
  <2> QED BY <1>b, <1>3, <2>1 DEF Gravar
<1>4. CASE Apagar(c)
  <2>1. CASE Achado(pedido[c].id)
    <3> SUFFICES ASSUME ~velho'[d] PROVE LidoEmDia(d)'
      BY DEF LidoEmDia
    <3>1. passo[d] # "gravar" /\ ~LeuEndereco(d, pedido[d].endereco)
      BY Zenon, <1>4, <2>1 DEF Apagar
    <3> QED BY <1>0, <3>1 DEF LidoEmDia, Igual, LeuEndereco
  <2>2. CASE UNCHANGED <<cliente, enderecos, velho>>
    BY <1>a, <2>2 DEF NadaDeNovo
  <2> QED BY <1>4, <2>1, <2>2 DEF Apagar
<1>5. CASE GravarEndereco(c)
  <2>1. CASE Aceito(c)
    <3>1. velho'[d] = velho[d]
      BY <1>5 DEF GravarEndereco, Esqueceu, TypeOK
    <3>2. \A e \in DOMAIN enderecos : \/ enderecos'[e].estado = enderecos[e].estado
                                      \/ enderecos'[e].estado = Vivo
      BY <2>1, GravarEnderecos DEF Aceito
    <3>3. passo[d] = "gravar" /\ ~velho[d] => cliente # Nenhum
      BY DEF LidoEmDia, Coerente, Pedida, Linhas, Nenhum
    <3>4. cliente # Nenhum => UNCHANGED cliente
      BY <2>1 DEF Aceito, GravarEndereco
    <3> QED BY <1>a, <3>1, <3>2, <3>3, <3>4 DEF NadaDeNovo
  <2>2. CASE ~Aceito(c)
    BY <1>b, <1>5, <2>2 DEF GravarEndereco, Aceito
  <2> QED BY <2>1, <2>2
<1>6. CASE ExcluirEndereco(c)
  <2> SUFFICES ASSUME ~velho'[d] PROVE LidoEmDia(d)'
    BY DEF LidoEmDia
  <2>1. ~velho[d] /\ ~LeuEndereco(d, pedido[c].endereco)
    BY Zenon, <1>6 DEF ExcluirEndereco, EnderecoMudou
  <2>2. UNCHANGED cliente
    BY <1>6 DEF ExcluirEndereco
  <2>3. ASSUME passo[d] \in {"desmarcar", "gravarEndereco"}, pedido[d].tipo = "definir"
        PROVE enderecos'[pedido[d].endereco].estado = Vivo
    <3>1. pedido[d].endereco # pedido[c].endereco
      BY <2>1, <2>3 DEF LeuEndereco
    <3>2. pedido[d].endereco \in DOMAIN enderecos
      BY <2>3 DEF Coerente, Pedida
    <3>3. enderecos[pedido[d].endereco].estado = Vivo
      BY <2>1, <2>3 DEF LidoEmDia
    <3> QED BY <1>6, <3>1, <3>2, <3>3, ExcluirEnderecos
  <2>4. ASSUME passo[d] = "gravar", NEW r \in levados[d], r # Ordens
        PROVE enderecos'[r.id].estado # Apagado
    <3>1. r.id \in DOMAIN enderecos
      BY <2>4 DEF Coerente, Carregada
    <3>2. enderecos[r.id].estado # Apagado
      BY <2>1, <2>4 DEF LidoEmDia
    <3> QED BY <1>6, <3>1, <3>2, ExcluirEnderecos
  <2> QED BY <1>0, <2>1, <2>2, <2>3, <2>4 DEF LidoEmDia, Igual
<1>7. CASE Falhar(c)
  BY <1>b, <1>7 DEF Falhar, tabelas
<1> QED BY <1>1, <1>2, <1>3, <1>4, <1>5, <1>6, <1>7 DEF Executar

(* The call itself: what it has just read is what is there.                *)
LEMMA LidoPorSi ==
  ASSUME TypeOK, \A d \in Chamadas : Coerente(d) /\ LidoEmDia(d),
         NEW c \in Chamadas, Comecar(c) \/ Executar(c) \/ Falhar(c)
  PROVE LidoEmDia(c)'
<1>a. ASSUME passo'[c] \notin {"gravar", "desmarcar", "gravarEndereco"} PROVE LidoEmDia(c)'
  BY <1>a DEF LidoEmDia
<1>b. CASE Voltar(c)
  BY <1>a, <1>b, VoltarValores
<1>c. ASSUME NEW q \in Passos \ {"gravar", "desmarcar", "gravarEndereco"}, Ir(c, q)
      PROVE LidoEmDia(c)'
  BY <1>a, <1>c DEF Ir, TypeOK
<1>d. ASSUME NEW q \in Passos \ {"gravar", "desmarcar", "gravarEndereco"}, Avancar(c, q)
      PROVE LidoEmDia(c)'
  BY <1>c, <1>d DEF Avancar
<1>e. ASSUME NEW i, NEW S, \A r \in S : r # Ordens => r \in Preload(i), Copiar(c, S),
             UNCHANGED <<cliente, enderecos>>
      PROVE LidoEmDia(c)'
  <2>1. passo'[c] = "gravar" /\ copia'[c] = cliente /\ levados'[c] = S
    BY <1>e, CopiarValores
  <2>2. \A r \in S : r # Ordens => enderecos[r.id].estado # Apagado
    BY <1>e, PreloadDoCliente DEF Vivo, Apagado
  <2> QED BY <1>e, <2>1, <2>2 DEF LidoEmDia
<1>1. CASE Comecar(c)
  BY <1>1, <1>c, ComecarPede DEF Iniciar, PrimeiroPasso, Passos
<1>2. CASE Procurar(c)
  <2>1. CASE Copiar(c, Preload(cliente.id))
    <3>1. PICK i, S : i = cliente.id /\ S = Preload(cliente.id)
      OBVIOUS
    <3>2. Copiar(c, S) /\ S = Preload(i) /\ UNCHANGED <<cliente, enderecos>>
      BY <1>2, <2>1, <3>1 DEF Procurar, tabelas
    <3> QED BY <1>e, <3>2
  <2> QED BY <1>2, <2>1, <1>b, <1>c, <1>d DEF Procurar, Passos
<1>3. CASE Achar(c)
  BY <1>3, <1>b, <1>c, <1>d DEF Achar, Passos
<1>4. CASE Ler(c)
  <2>1. CASE /\ pedido[c].tipo = "adicionar"
             /\ Avancar(c, IF pedido[c].principal THEN "desmarcar" ELSE "inserirEndereco")
    <3>1. passo'[c] # "gravar" /\ pedido'[c].tipo = "adicionar"
      BY <2>1, AvancarValores
    <3> QED BY <3>1 DEF LidoEmDia
  <2>2. CASE Copiar(c, Preload(pedido[c].id)
                       \cup (IF pedido[c].id \in comPedido THEN {Ordens} ELSE {}))
    <3>1. PICK i, S : /\ i = pedido[c].id
                      /\ S = Preload(i) \cup (IF i \in comPedido THEN {Ordens} ELSE {})
      OBVIOUS
    <3>2. Copiar(c, S) /\ UNCHANGED <<cliente, enderecos>>
      BY <1>4, <2>2, <3>1 DEF Ler, tabelas
    <3> QED BY <1>e, <3>1, <3>2
  <2> QED BY <1>4, <2>1, <2>2, <1>b, <1>d DEF Ler, Passos
<1>5. CASE Gravar(c)
  BY <1>5, <1>b, <1>d DEF Gravar, Passos
<1>6. CASE LerEndereco(c)
  <2>1. CASE Avancar(c, "excluirEndereco")
    BY <2>1, <1>d DEF Passos
  <2>2. CASE enderecos[pedido[c].endereco].estado = Vivo /\ LerDono(c, "desmarcar")
    <3>1. passo'[c] = "desmarcar" /\ pedido'[c] = pedido[c] /\ UNCHANGED enderecos
      BY <1>6, <2>2, LerDonoValores DEF LerEndereco, tabelas
    <3> QED BY <2>2, <3>1 DEF LidoEmDia
  <2> QED BY <1>6, <2>1, <2>2, <1>b DEF LerEndereco
<1>7. CASE Desmarcar(c)
  <2>1. UNCHANGED <<velho, pedido>> /\ passo[c] = "desmarcar" /\ passo'[c] # "gravar"
    BY <1>7, AvancarValores DEF Desmarcar, historia
  <2> QED BY <1>7, <2>1, DesmarcarEnderecos DEF LidoEmDia, Coerente, Pedida
<1>8. CASE \/ Inserir(c) \/ Reler(c) \/ Apagar(c) \/ InserirEndereco(c)
           \/ GravarEndereco(c) \/ ExcluirEndereco(c) \/ Falhar(c)
  BY <1>8, <1>b DEF Inserir, Reler, Apagar, InserirEndereco, GravarEndereco,
                   ExcluirEndereco, Falhar
<1> QED BY <1>1, <1>2, <1>3, <1>4, <1>5, <1>6, <1>7, <1>8 DEF Executar

LEMMA NextLidoEmDia ==
  ASSUME TypeOK, \A c \in Chamadas : Coerente(c) /\ LidoEmDia(c), [Next]_vars,
         NEW d \in Chamadas
  PROVE LidoEmDia(d)'
<1>1. ASSUME NEW c \in Chamadas, Comecar(c) \/ Executar(c) \/ Falhar(c) PROVE LidoEmDia(d)'
  BY <1>1, LidoPorSi, LidoPelosOutros
<1>2. CASE Reiniciar
  BY <1>2 DEF Reiniciar, LidoEmDia
<1>3. CASE UNCHANGED vars
  BY <1>3 DEF vars, LidoEmDia
<1> QED BY <1>1, <1>2, <1>3 DEF Next

-----------------------------------------------------------------------------
LEMMA InitInv == ASSUME Init PROVE IInv
<1>1. TypeOK
  BY InitTipos
<1>2. DOMAIN enderecos = {}
  BY DEF Init
<1>3. Principais = {} /\ ~escolhido
  BY <1>2 DEF Principais, Init
<1>4. \A c \in Chamadas : Coerente(c) /\ LidoEmDia(c) /\ ~NaJanela(c)
  BY DEF Init, Coerente, Pedida, Carregada, LidoEmDia, NaJanela
<1> QED BY <1>1, <1>2, <1>3, <1>4
        DEF IInv, DonoPresente, JanelaLimpa, UmPrincipal, PrincipalPermanece

LEMMA NextInv == ASSUME IInv, [Next]_vars PROVE IInv'
<1> USE DEF IInv
<1>1. TypeOK'
  BY NextTipos
<1>2. \A c \in Chamadas : Coerente(c)'
  BY NextCoerente
<1>3. DonoPresente'
  BY NextDonoPresente
<1>4. JanelaLimpa'
  BY NextJanelaLimpa
<1>5. UmPrincipal'
  BY NextUmPrincipal
<1>6. PrincipalPermanece'
  BY NextPrincipal
<1>7. \A c \in Chamadas : LidoEmDia(c)'
  BY NextLidoEmDia
<1> QED BY <1>1, <1>2, <1>3, <1>4, <1>5, <1>6, <1>7

(* Whatever the calls of clienteService do to one another, deletions that  *)
(* take the addresses with them among them, the conjuncts of IInv hold     *)
(* between any two of their statements.                                    *)
THEOREM ClientesInvariante == Spec => []IInv
<1>1. Init => IInv
  BY InitInv
<1>2. IInv /\ [Next]_vars => IInv'
  BY NextInv
<1> QED BY <1>1, <1>2, PTL DEF Spec

(* Every variable keeps its type.                                          *)
THEOREM ClientesTipado == Spec => []TypeOK
BY ClientesInvariante, PTL DEF IInv

(* Two principal addresses of one client need two calls of                 *)
(* DefinirEnderecoPrincipal or AdicionarEndereco overlapping between       *)
(* clearing the flags and setting one, or the save of a deleted client     *)
(* that brings one of them back.                                           *)
THEOREM NoMaximoUmPrincipal == Spec => []UmPrincipal
BY ClientesInvariante, PTL DEF IInv

(* A principal address once chosen stays, or its replacement is about to   *)
(* be written, until a removal, the deletion of its client or a failure in *)
(* the window.                                                             *)
THEOREM PrincipalNaoSePerde == Spec => []PrincipalPermanece
BY ClientesInvariante, PTL DEF IInv

(* Between any two statements every address that is there, removed or not, *)
(* belongs to the client that is there: no Save that overlaps a deletion   *)
(* leaves an address behind, brings one back before its client, or gives   *)
(* the client another id.                                                  *)
THEOREM EnderecoTemDono == Spec => []DonoPresente
BY ClientesInvariante, PTL DEF IInv

-----------------------------------------------------------------------------
LEMMA AplicarSoPede ==
  ASSUME NEW l \in Linhas, NEW p \in Pedidos, p.tipo \in TiposDeGravar,
         NEW f \in Campos \ CamposDe(p.tipo)
  PROVE f # "id" /\ Aplicar(l, p)[f] = l[f]
BY DEF Linhas, Pedidos, TiposDeGravar, Campos, CamposDe, Aplicar

(* Who writes the client's row.                                            *)
Escreve(c) ==
  \/ Inserir(c) /\ cliente = Nenhum
  \/ Gravar(c)
  \/ Apagar(c) /\ cliente' = Nenhum
  \/ GravarEndereco(c) /\ cliente = Nenhum

LEMMA QuemEscreve ==
  ASSUME TypeOK, [Next]_vars, cliente' # cliente
  PROVE \E c \in Chamadas : Escreve(c) /\ \A d \in Chamadas \ {c} : Igual(d)
<1>1. ASSUME NEW c \in Chamadas, Comecar(c) PROVE FALSE
  BY <1>1, ComecarPede DEF Iniciar
<1>2. PICK c \in Chamadas : Escreve(c)
  BY <1>1 DEF Next, Executar, Procurar, Achar, Inserir, Ler, Reler, Apagar, LerEndereco,
         Desmarcar, InserirEndereco, GravarEndereco, ExcluirEndereco, Falhar, Reiniciar,
         tabelas, vars, Escreve
<1> QED BY <1>2, OsOutros DEF Executar, Escreve

(* Saving a whole row that nobody wrote since it was read changes only the *)
(* columns the operation is about.                                         *)
THEOREM SoMudaOPedido == Spec => SoMudaOQuePede
<1>1. ASSUME IInv, [Next]_vars, NEW c \in Chamadas, passo[c] = "gravar",
             passo'[c] # "gravar", cliente' # cliente, ~velho[c],
             NEW f \in Campos \ CamposDe(pedido[c].tipo)
      PROVE cliente'[f] = cliente[f]
  <2>1. TypeOK /\ Coerente(c) /\ LidoEmDia(c)
    BY <1>1 DEF IInv
  <2>2. PICK d \in Chamadas : Escreve(d) /\ \A k \in Chamadas \ {d} : Igual(k)
    BY <1>1, <2>1, QuemEscreve
  <2>3. d = c
    BY <1>1, <2>2 DEF Igual
  <2>4. Gravar(c)
    BY <1>1, <2>2, <2>3 DEF Escreve, Inserir, Apagar, GravarEndereco
  <2>5. copia[c] = cliente /\ cliente \in Linhas /\ pedido[c].tipo \in TiposDeGravar
        /\ pedido[c] \in Pedidos
    BY <1>1, <2>1 DEF LidoEmDia, Coerente, Pedida, TypeOK
  <2>6. cliente # Nenhum
    BY <2>5 DEF Linhas, Nenhum
  <2>7. cliente' = [Aplicar(cliente, pedido[c]) EXCEPT !.id = cliente.id]
    BY <1>1, <2>4, <2>5, <2>6 DEF Gravar, Salvar
  <2>8. Aplicar(cliente, pedido[c]) \in Linhas
    BY <2>5, AplicarTipo
  <2>9. f # "id" /\ Aplicar(cliente, pedido[c])[f] = cliente[f]
    BY <1>1, <2>5, AplicarSoPede
  <2> QED BY <2>7, <2>8, <2>9 DEF Linhas, Campos
<1>2. IInv /\ [Next]_vars =>
        [\A c \in Chamadas :
           /\ passo[c] = "gravar" /\ passo'[c] # "gravar"
           /\ cliente' # cliente /\ ~velho[c]
           => \A f \in Campos \ CamposDe(pedido[c].tipo) : cliente'[f] = cliente[f]]_vars
  BY <1>1
<1> QED BY <1>2, ClientesInvariante, PTL DEF Spec, SoMudaOQuePede

(* The step that gives address e its row again.                            *)
LEMMA QuemTraz ==
  ASSUME TypeOK, \A c \in Chamadas : Coerente(c), [Next]_vars, NEW e \in DOMAIN enderecos,
         enderecos[e].estado # Vivo, enderecos'[e].estado = Vivo
  PROVE \E c \in Chamadas : \/ Aceito(c) /\ pedido[c].endereco = e
                            \/ Gravar(c) /\ SalvarAssociados(c) /\ e \in Voltam(c)
<1>1. ASSUME NEW c \in Chamadas, Quieto(c) \/ Falhar(c) PROVE FALSE
  BY <1>1 DEF Quieto, Falhar, tabelas
<1>2. ASSUME NEW c \in Chamadas, Desmarcar(c) PROVE FALSE
  BY <1>2, DesmarcarEnderecos
<1>3. ASSUME NEW c \in Chamadas, InserirEndereco(c) PROVE FALSE
  <2>1. CASE Achado(pedido[c].id)
    BY <1>3, <2>1, InserirEnderecos
  <2>2. CASE ~Achado(pedido[c].id)
    BY <1>3, <2>2 DEF InserirEndereco
  <2> QED BY <2>1, <2>2
<1>4. ASSUME NEW c \in Chamadas, ExcluirEndereco(c) PROVE FALSE
  BY <1>4, ExcluirEnderecos
<1>5. ASSUME NEW c \in Chamadas, Apagar(c) PROVE FALSE
  <2>1. CASE Achado(pedido[c].id)
    BY <1>5, <2>1, ApagarEnderecos DEF Vivo, Apagado
  <2> QED BY <1>5, <2>1 DEF Apagar
<1>6. ASSUME NEW c \in Chamadas, GravarEndereco(c) PROVE Aceito(c) /\ pedido[c].endereco = e
  <2>1. Aceito(c)
    BY <1>6 DEF GravarEndereco, Aceito
  <2> QED BY <2>1, GravarEnderecos DEF Aceito
<1>7. ASSUME NEW c \in Chamadas, Gravar(c) PROVE SalvarAssociados(c) /\ e \in Voltam(c)
  <2>1. SalvarAssociados(c)
    BY <1>7 DEF Gravar
  <2> QED BY <1>7, <2>1, AssociadosEnderecos
<1>8. ~Reiniciar /\ ~UNCHANGED vars
  BY DEF Reiniciar, tabelas, vars
<1> QED BY <1>1, <1>2, <1>3, <1>4, <1>5, <1>6, <1>7, <1>8, Casos, PassosQuietos

(* What was deleted, by itself or with its client, comes back only by the  *)
(* save of a call that read it before: never by a call that read after the *)
(* deletion, and no address before its client.                             *)
THEOREM ApagadoFicaApagado == Spec => ApagadoNaoVolta
<1>a. ASSUME IInv, NEW c \in Chamadas, passo[c] = "gravarEndereco", ~velho[c]
      PROVE enderecos[pedido[c].endereco].estado = Vivo /\ cliente # Nenhum
  <2>1. /\ enderecos[pedido[c].endereco].estado = Vivo
        /\ pedido[c].endereco \in DOMAIN enderecos
    BY <1>a DEF IInv, LidoEmDia, Coerente, Pedida
  <2> QED BY <1>a, <2>1 DEF IInv, DonoPresente, Achado, Vivo, Apagado
<1>1. ASSUME IInv, [Next]_vars, cliente = Nenhum, cliente' # Nenhum
      PROVE \/ criados' = criados + 1
            \/ \E c \in Chamadas : /\ passo[c] \in {"gravar", "gravarEndereco"}
                                  /\ velho[c]
  <2>1. PICK c \in Chamadas : Inserir(c) \/ Gravar(c) \/ GravarEndereco(c)
    BY <1>1, QuemEscreve DEF IInv, Escreve
  <2>2. CASE Inserir(c)
    BY <1>1, <2>2 DEF Inserir
  <2>3. CASE Gravar(c)
    <3>1. passo[c] = "gravar" /\ copia[c] \in Linhas
      BY <1>1, <2>3 DEF IInv, Coerente, Pedida, Gravar
    <3>2. copia[c] # cliente
      BY <1>1, <3>1 DEF Linhas, Nenhum
    <3> QED BY <1>1, <3>1, <3>2 DEF IInv, LidoEmDia
  <2>4. CASE GravarEndereco(c)
    BY <1>1, <1>a, <2>4 DEF GravarEndereco
  <2> QED BY <2>1, <2>2, <2>3, <2>4
<1>2. ASSUME IInv, [Next]_vars, NEW e \in DOMAIN enderecos,
             enderecos[e].estado # Vivo, enderecos'[e].estado = Vivo
      PROVE \E c \in Chamadas :
              /\ velho[c]
              /\ \/ passo[c] = "gravarEndereco" /\ pedido[c].endereco = e
                 \/ /\ passo[c] = "gravar" /\ cliente # Nenhum
                    /\ enderecos[e].estado = Apagado
  <2>1. PICK c \in Chamadas : \/ Aceito(c) /\ pedido[c].endereco = e
                              \/ Gravar(c) /\ SalvarAssociados(c) /\ e \in Voltam(c)
    BY <1>2, QuemTraz DEF IInv
  <2>2. CASE Aceito(c) /\ pedido[c].endereco = e
    BY <1>2, <1>a, <2>2 DEF Aceito, GravarEndereco
  <2>3. CASE Gravar(c) /\ SalvarAssociados(c) /\ e \in Voltam(c)
    <3>1. PICK r \in levados[c] : r.id = e /\ enderecos[e].estado = Apagado
      BY <2>3 DEF Voltam
    <3>2. e \in Nat \ {0}
      BY <1>2, LenProperties DEF IInv, TypeOK
    <3>3. r # Ordens
      BY <3>1, <3>2 DEF Ordens
    <3>4. passo[c] = "gravar" /\ velho[c]
      BY <1>2, <2>3, <3>1, <3>3 DEF IInv, LidoEmDia, Gravar
    <3>5. cliente # Nenhum
      BY <1>2, <2>3, <3>1 DEF Gravar, Achado
    <3> QED BY <3>1, <3>4, <3>5
  <2> QED BY <2>1, <2>2, <2>3
<1>3. IInv /\ [Next]_vars =>
        [/\ cliente = Nenhum /\ cliente' # Nenhum =>
              \/ criados' = criados + 1
              \/ \E c \in Chamadas : /\ passo[c] \in {"gravar", "gravarEndereco"}
                                    /\ velho[c]
         /\ \A e \in DOMAIN enderecos :
              enderecos[e].estado # Vivo /\ enderecos'[e].estado = Vivo =>
                \E c \in Chamadas :
                  /\ velho[c]
                  /\ \/ passo[c] = "gravarEndereco" /\ pedido[c].endereco = e
                     \/ /\ passo[c] = "gravar" /\ cliente # Nenhum
                        /\ enderecos[e].estado = Apagado]_vars
  BY <1>1, <1>2
<1> QED BY <1>3, ClientesInvariante, PTL DEF Spec, ApagadoNaoVolta
=============================================================================
