------------------------------ MODULE Clientes ------------------------------
(***************************************************************************)
(* The row of one client (one telephone of one shop) and its addresses,    *)
(* under the calls of clienteService that run at the same time: webhook    *)
(* goroutines, the checkout, the API.                                      *)
(*                                                                         *)
(* Every operation is a sequence of repository calls with nothing held     *)
(* between them, so each of those is a step and calls interleave.  An      *)
(* update of the client reads the row, changes the copy and saves the      *)
(* WHOLE copy.                                                             *)
(*                                                                         *)
(* Foreign keys (the schemas under sql/): deleting a client deletes its    *)
(* addresses and sets cliente_id of its orders to NULL; a row that names   *)
(* an absent client is refused.                                            *)
(*                                                                         *)
(* GORM's Save (external) updates the row by id; then it inserts the rows  *)
(* preloaded with the copy, of which one that exists keeps its columns;    *)
(* when the update matched no row it inserts the copy, overwriting a row   *)
(* with the same telephone.  So the copy of a deleted client comes back    *)
(* unless an address or an order was read with it: those are tried first   *)
(* and the foreign key refuses them.  Save of an address first inserts the *)
(* client read with it if there is none, and writes deleted_at too.        *)
(***************************************************************************)
EXTENDS Naturals, Sequences

CONSTANTS
  Chamadas,      \* calls of the service that may run at the same time
  Nomes,         \* names a profile or a request may carry; SemNome is one
  Semelhantes,   \* pairs of names compararNomes takes for the same person
  MaxClientes,   \* bound: rows inserted for the telephone
  MaxEnderecos,  \* bound: addresses inserted
  MaxInicios     \* bound: calls started

SemNome == ""

ASSUME NomesAssumption == SemNome \in Nomes
ASSUME LimitesAssumption ==
  MaxClientes \in Nat \ {0} /\ MaxEnderecos \in Nat \ {0} /\ MaxInicios \in Nat

Ativo    == "ativo"
Inativo  == "inativo"
Pendente == "pendente_validacao"

(* The columns some operation changes; id is the key.                      *)
Campos  == {"nome", "perfil", "documento", "status", "pedido"}
Linhas  == [id : 1..MaxClientes, nome : Nomes, perfil : Nomes,
            documento : BOOLEAN, status : {Ativo, Inativo, Pendente},
            pedido : BOOLEAN]
Nenhum  == [id |-> 0]

(* An id of an address, once given, is never given again.  The row of the  *)
(* id is there, carries deleted_at, or went with its client.               *)
Vivo     == "vivo"
Excluido == "excluido"
Apagado  == "apagado"
Enderecos == [dono : 1..MaxClientes, principal : BOOLEAN,
              estado : {Vivo, Excluido, Apagado}]

(* What is preloaded with a client: an address as read, or its orders.     *)
Ordens == [id |-> 0]
Associados == [id : 1..MaxEnderecos, principal : BOOLEAN] \cup {Ordens}

(* An operation in progress: what it is and what it was asked.             *)
(*   criar, contato          Create, BuscarOuCriarPorTelefone              *)
(*   atualizar               Update; documento "" for none given           *)
(*   pedido                  AtualizarUltimoPedido, after an order row     *)
(*   status                  AtualizarStatus, Inativar- and ReativarCliente *)
(*   documento               AtualizarDocumento                            *)
(*   apagar                  Delete                                        *)
(*   adicionar               AdicionarEndereco                             *)
(*   definir, remover        DefinirEnderecoPrincipal, RemoverEndereco     *)
Tipos == {"criar", "contato", "atualizar", "pedido", "status", "documento",
          "apagar", "adicionar", "definir", "remover"}

Documentos == {"", "valido", "invalido"}
Pedidos == [tipo : Tipos, id : 1..MaxClientes, nome : Nomes,
            documento : Documentos, status : {Ativo, Inativo, Pendente},
            principal : BOOLEAN, endereco : 1..MaxEnderecos]

Passos == {"livre", "procurar", "achar", "inserir", "ler", "gravar", "reler",
           "apagar", "lerEndereco", "desmarcar", "inserirEndereco",
           "gravarEndereco", "excluirEndereco"}

VARIABLES
  cliente,      \* the row of the telephone, or Nenhum
  criados,      \* rows inserted so far: the ids are 1..criados
  enderecos,    \* the address rows, in the order of their ids
  comPedido,    \* the ids an order refers to
  passo,        \* passo[c]: the statement call c is about to run
  pedido,       \* pedido[c]: what call c was asked
  copia,        \* copia[c]: the client as call c read it and will save it
  levados,      \* levados[c]: what was preloaded with that copy
  inicios,      \* calls started
  velho,        \* history: what c read has been written since, by another
  corrida,      \* history: a principal was written while another call was
                \*   between its own desmarcar and its own write, or came
                \*   back with the copy of a deleted client
  escolhido     \* history: a principal was written and no removal, deletion
                \*   of its client or failure in that window took it away

tabelas  == <<cliente, criados, enderecos, comPedido>>
chamadas == <<passo, pedido, copia, levados, inicios>>
historia == <<velho, corrida, escolhido>>
vars == <<cliente, criados, enderecos, comPedido, passo, pedido, copia, levados,
          inicios, velho, corrida, escolhido>>

TypeOK ==
  /\ cliente \in Linhas \cup {Nenhum}
  /\ criados \in 0..MaxClientes
  /\ enderecos \in Seq(Enderecos) /\ Len(enderecos) <= MaxEnderecos
  /\ comPedido \subseteq 1..MaxClientes
  /\ passo \in [Chamadas -> Passos]
  /\ pedido \in [Chamadas -> Pedidos]
  /\ copia \in [Chamadas -> Linhas \cup {Nenhum}]
  /\ levados \in [Chamadas -> SUBSET Associados]
  /\ inicios \in 0..MaxInicios
  /\ velho \in [Chamadas -> BOOLEAN]
  /\ corrida \in BOOLEAN
  /\ escolhido \in BOOLEAN

PedidoNulo == [tipo |-> "criar", id |-> 1, nome |-> SemNome, documento |-> "",
               status |-> Ativo, principal |-> FALSE, endereco |-> 1]

Init ==
  /\ cliente = Nenhum /\ criados = 0 /\ enderecos = <<>> /\ comPedido = {}
  /\ passo = [c \in Chamadas |-> "livre"]
  /\ pedido = [c \in Chamadas |-> PedidoNulo]
  /\ copia = [c \in Chamadas |-> Nenhum]
  /\ levados = [c \in Chamadas |-> {}]
  /\ inicios = 0
  /\ velho = [c \in Chamadas |-> FALSE]
  /\ corrida = FALSE /\ escolhido = FALSE

-----------------------------------------------------------------------------
(* compararNomes: an empty name resembles nothing.                         *)
MesmoNome(a, b) ==
  /\ a # SemNome /\ b # SemNome
  /\ a = b \/ {a, b} \in Semelhantes

(* Mutant: Create also stores the name of the request when it reactivates. *)
AplicarComNome(l, p) ==
  CASE p.tipo = "criar" -> [l EXCEPT !.status = Ativo, !.perfil = p.nome]
    [] p.tipo = "status" -> [l EXCEPT !.status = p.status]
    [] OTHER -> l

(* The copy call p saves: the columns its operation changes.               *)
Aplicar(l, p) ==
  CASE p.tipo = "criar" -> [l EXCEPT !.status = Ativo]
    [] p.tipo = "status" -> [l EXCEPT !.status = p.status]
    [] p.tipo = "contato" -> [l EXCEPT !.perfil = p.nome]
    [] p.tipo = "pedido" -> [l EXCEPT !.pedido = TRUE]
    [] p.tipo = "documento" -> [l EXCEPT !.documento = TRUE]
    [] p.tipo = "atualizar" ->
         [l EXCEPT !.nome = IF p.nome = SemNome THEN l.nome ELSE p.nome,
                   !.documento = l.documento \/ p.documento = "valido"]

(* Mutant: the copy is built anew and carries no id.                       *)
SalvarSemId(l) == cliente' = [l EXCEPT !.id = 0]

(* Save: the row takes the columns of the copy; an existing row keeps its  *)
(* id, an absent one comes back.                                           *)
Salvar(l) == cliente' = [l EXCEPT !.id = IF cliente = Nenhum THEN @
                                                            ELSE cliente.id]

Ir(c, q)  == passo' = [passo EXCEPT ![c] = q]

(* The call returns, with a result or an error.                            *)
Voltar(c) ==
  /\ Ir(c, "livre")
  /\ pedido' = [pedido EXCEPT ![c] = PedidoNulo]
  /\ copia' = [copia EXCEPT ![c] = Nenhum]
  /\ levados' = [levados EXCEPT ![c] = {}]

Avancar(c, q) == Ir(c, q) /\ UNCHANGED <<pedido, copia, levados>>

LeuEndereco(c, e) ==
  /\ passo[c] \in {"desmarcar", "gravarEndereco"}
  /\ pedido[c].tipo = "definir" /\ pedido[c].endereco = e

(* What the other calls have read of the row, or of address e, is old now. *)
ClienteMudou(c) ==
  velho' = [d \in Chamadas |-> d # c /\ (velho[d] \/ passo[d] = "gravar")]
EnderecoMudou(c, e) ==
  velho' = [d \in Chamadas |->
    d # c /\ (velho[d] \/ LeuEndereco(d, e))]
Esqueceu(c) == velho' = [velho EXCEPT ![c] = FALSE]

Achado(id) == cliente # Nenhum /\ cliente.id = id

Principais == {e \in DOMAIN enderecos : enderecos[e].principal
                                        /\ enderecos[e].estado = Vivo}

(* Between the UPDATE that clears the flag and the write that sets it.     *)
NaJanela(c) ==
  \/ passo[c] = "gravarEndereco"
  \/ passo[c] = "inserirEndereco" /\ pedido[c].principal

(* In that window, for the client that is there.                           *)
Substitui(c) == NaJanela(c) /\ Achado(pedido[c].id)

(* The addresses that Preload reads with client id.                        *)
Preload(id) ==
  {[id |-> e, principal |-> enderecos[e].principal] :
     e \in {f \in DOMAIN enderecos : enderecos[f].dono = id
                                       /\ enderecos[f].estado = Vivo}}

(* The copy of the row, and what is read with it.                          *)
Copiar(c, associados) ==
  /\ Ir(c, "gravar")
  /\ copia' = [copia EXCEPT ![c] = cliente]
  /\ levados' = [levados EXCEPT ![c] = associados]
  /\ UNCHANGED pedido

-----------------------------------------------------------------------------
(* A call comes in.  validateCreateRequest and the required fields of an   *)
(* address are checked before any statement: a request they turn down does *)
(* nothing and is not a call here.                                         *)
PrimeiroPasso(tipo) ==
  CASE tipo = "criar" -> "achar"
    [] tipo = "contato" -> "procurar"
    [] tipo \in {"definir", "remover"} -> "lerEndereco"
    [] OTHER -> "ler"

Iniciar(c, p) ==
  /\ pedido' = [pedido EXCEPT ![c] = p]
  /\ Ir(c, PrimeiroPasso(p.tipo))
  /\ comPedido' = IF p.tipo = "pedido" THEN comPedido \cup {p.id} ELSE comPedido
  /\ inicios' = inicios + 1
  /\ UNCHANGED <<cliente, criados, enderecos, copia, levados, historia>>

(* The requests, each with the fields its operation reads; an order names  *)
(* a client that is there when its row is inserted.                        *)
Comecar(c) ==
  /\ passo[c] = "livre" /\ inicios < MaxInicios
  /\ \/ \E t \in {"criar", "contato"}, n \in Nomes :
          Iniciar(c, [PedidoNulo EXCEPT !.tipo = t, !.nome = n])
     \/ \E i \in 1..criados :
          \/ Achado(i) /\ Iniciar(c, [PedidoNulo EXCEPT !.tipo = "pedido", !.id = i])
          \/ Iniciar(c, [PedidoNulo EXCEPT !.tipo = "apagar", !.id = i])
          \/ \E s \in {Ativo, Inativo, Pendente} :
               Iniciar(c, [PedidoNulo EXCEPT !.tipo = "status", !.id = i,
                                             !.status = s])
          \/ \E d \in {"valido", "invalido"} :
               Iniciar(c, [PedidoNulo EXCEPT !.tipo = "documento", !.id = i,
                                             !.documento = d])
          \/ \E n \in Nomes, d \in Documentos :
               Iniciar(c, [PedidoNulo EXCEPT !.tipo = "atualizar", !.id = i,
                                             !.nome = n, !.documento = d])
          \/ \E b \in BOOLEAN :
               Iniciar(c, [PedidoNulo EXCEPT !.tipo = "adicionar", !.id = i,
                                             !.principal = b])
          \/ \E t \in {"definir", "remover"}, e \in DOMAIN enderecos :
               Iniciar(c, [PedidoNulo EXCEPT !.tipo = t, !.id = i, !.endereco = e])

(* BuscarOuCriarPorTelefone: FindByTelefone.  Nobody there is Create's     *)
(* business; an active client with another profile name is saved from this *)
(* very read; one that is not active is reactivated.                       *)
Procurar(c) ==
  /\ passo[c] = "procurar"
  /\ IF cliente = Nenhum THEN Avancar(c, "achar")
     ELSE IF cliente.status # Ativo
     THEN /\ Ir(c, "ler")
          /\ pedido' = [pedido EXCEPT ![c].id = cliente.id,
                                      ![c].tipo = "status",
                                      ![c].status = Ativo]
          /\ UNCHANGED <<copia, levados>>
     ELSE IF MesmoNome(cliente.perfil, pedido[c].nome)
             \/ cliente.perfil = pedido[c].nome
     THEN Voltar(c)
     ELSE Copiar(c, Preload(cliente.id))
  /\ UNCHANGED <<tabelas, inicios, historia>>

(* Create: FindByTelefone.  Only an inactive client is reactivated.        *)
Achar(c) ==
  /\ passo[c] = "achar"
  /\ IF cliente = Nenhum THEN Avancar(c, "inserir")
     ELSE IF cliente.status = Inativo
     THEN /\ Ir(c, "ler")
          /\ pedido' = [pedido EXCEPT ![c].id = cliente.id,
                                      ![c].tipo = "criar"]
          /\ UNCHANGED <<copia, levados>>
     ELSE Voltar(c)
  /\ UNCHANGED <<tabelas, inicios, historia>>

(* The unique index on shop and telephone refuses a second row.            *)
Inserir(c) ==
  /\ passo[c] = "inserir"
  /\ IF cliente = Nenhum
     THEN /\ criados < MaxClientes
          /\ criados' = criados + 1
          /\ cliente' = [id |-> criados + 1, nome |-> pedido[c].nome,
                         perfil |-> pedido[c].nome, documento |-> FALSE,
                         status |-> Ativo, pedido |-> FALSE]
          /\ ClienteMudou(c)
     ELSE UNCHANGED <<cliente, criados, velho>>
  /\ Voltar(c)
  /\ UNCHANGED <<enderecos, comPedido, inicios, corrida, escolhido>>

(* FindByID, and the checks on what it returned and on the request; it     *)
(* preloads the orders too.                                                *)
Ler(c) ==
  /\ passo[c] = "ler"
  /\ LET p == pedido[c] IN
     IF ~Achado(p.id) \/ p.documento = "invalido" THEN Voltar(c)
     ELSE IF p.tipo = "apagar" THEN Avancar(c, "apagar")
     ELSE IF p.tipo = "adicionar"
     THEN Avancar(c, IF p.principal THEN "desmarcar" ELSE "inserirEndereco")
     ELSE Copiar(c, Preload(p.id) \cup (IF p.id \in comPedido THEN {Ordens} ELSE {}))
  /\ UNCHANGED <<tabelas, inicios, historia>>

(* Mutant: the preloaded addresses are saved with all their columns.       *)
VoltamTodos(c) ==
  {e \in DOMAIN enderecos : /\ enderecos[e].estado # Vivo
                            /\ e \in {r.id : r \in levados[c]}}

(* The addresses Save brings back: those preloaded whose row is gone.      *)
Voltam(c) ==
  {e \in DOMAIN enderecos : /\ enderecos[e].estado = Apagado
                            /\ e \in {r.id : r \in levados[c]}}

(* Address e was principal as it was preloaded.                            *)
EraPrincipal(c, e) == [id |-> e, principal |-> TRUE] \in levados[c]

(* The rows preloaded with the copy are inserted where they are missing;   *)
(* orders that exist are linked to the client again.                       *)
SalvarAssociados(c) ==
  /\ enderecos' = [e \in DOMAIN enderecos |->
       IF e \in Voltam(c)
       THEN [dono |-> copia[c].id, principal |-> EraPrincipal(c, e), estado |-> Vivo]
       ELSE enderecos[e]]
  /\ comPedido' = IF Ordens \in levados[c] THEN comPedido \cup {copia[c].id}
                                            ELSE comPedido
  /\ corrida' = (corrida \/ \E e \in Voltam(c) : EraPrincipal(c, e))

(* Save of the changed copy, refused when the client is gone and rows were *)
(* read with it.  Create reads the row once more to return it.             *)
Gravar(c) ==
  /\ passo[c] = "gravar"
  /\ IF Achado(copia[c].id) \/ levados[c] = {}
     THEN /\ Salvar(Aplicar(copia[c], pedido[c]))
          /\ SalvarAssociados(c)
          /\ ClienteMudou(c)
          /\ IF pedido[c].tipo = "criar" THEN Avancar(c, "reler") ELSE Voltar(c)
     ELSE /\ Esqueceu(c) /\ Voltar(c)
          /\ UNCHANGED <<cliente, enderecos, comPedido, corrida>>
  /\ UNCHANGED <<criados, inicios, escolhido>>

Reler(c) ==
  /\ passo[c] = "reler"
  /\ Voltar(c)
  /\ UNCHANGED <<tabelas, inicios, historia>>

(* DELETE of the row: the addresses go with it, the orders lose it.        *)
Apagar(c) ==
  /\ passo[c] = "apagar"
  /\ IF Achado(pedido[c].id)
     THEN /\ cliente' = Nenhum
          /\ enderecos' = [e \in DOMAIN enderecos |->
               IF enderecos[e].dono = pedido[c].id
               THEN [enderecos[e] EXCEPT !.principal = FALSE, !.estado = Apagado]
               ELSE enderecos[e]]
          /\ comPedido' = comPedido \ {pedido[c].id}
          /\ escolhido' = FALSE
          /\ velho' = [d \in Chamadas |-> d # c /\
               (velho[d] \/ passo[d] = "gravar"
                         \/ LeuEndereco(d, pedido[d].endereco))]
     ELSE UNCHANGED <<cliente, enderecos, comPedido, escolhido, velho>>
  /\ Voltar(c)
  /\ UNCHANGED <<criados, inicios, corrida>>

-----------------------------------------------------------------------------
(* The client is preloaded with its address.                               *)
LerDono(c, q) ==
  /\ Ir(c, q)
  /\ copia' = [copia EXCEPT ![c] = cliente]
  /\ UNCHANGED <<pedido, levados>>

(* Mutant: the flags are not cleared before the address is saved.          *)
LerSemDesmarcar(c) ==
  /\ passo[c] = "lerEndereco"
  /\ IF enderecos[pedido[c].endereco].estado # Vivo THEN Voltar(c)
     ELSE IF pedido[c].tipo = "remover" THEN Avancar(c, "excluirEndereco")
     ELSE LerDono(c, "gravarEndereco")
  /\ UNCHANGED <<tabelas, inicios, historia>>

(* FindByID of an address leaves out the removed ones; the owner must be   *)
(* the client of the request.                                              *)
LerEndereco(c) ==
  /\ passo[c] = "lerEndereco"
  /\ LET p == pedido[c]  e == enderecos[p.endereco] IN
     IF e.estado # Vivo \/ e.dono # p.id THEN Voltar(c)
     ELSE IF p.tipo = "remover" THEN Avancar(c, "excluirEndereco")
     ELSE LerDono(c, "desmarcar")
  /\ UNCHANGED <<tabelas, inicios, historia>>

(* UnsetPrincipalByCliente: one UPDATE over the addresses not removed.     *)
Desmarcar(c) ==
  /\ passo[c] = "desmarcar"
  /\ enderecos' = [e \in DOMAIN enderecos |->
       IF enderecos[e].dono = pedido[c].id /\ enderecos[e].estado = Vivo
       THEN [enderecos[e] EXCEPT !.principal = FALSE]
       ELSE enderecos[e]]
  /\ Avancar(c, IF pedido[c].tipo = "definir" THEN "gravarEndereco"
                                              ELSE "inserirEndereco")
  /\ UNCHANGED <<cliente, criados, comPedido, inicios, historia>>

MarcarHistoria(c) ==
  /\ escolhido' = TRUE
  /\ corrida' = (corrida \/ \E d \in Chamadas \ {c} :
                              NaJanela(d) /\ pedido[d].id = pedido[c].id)

InserirEndereco(c) ==
  /\ passo[c] = "inserirEndereco"
  /\ IF Achado(pedido[c].id)
     THEN /\ Len(enderecos) < MaxEnderecos
          /\ enderecos' = Append(enderecos,
               [dono |-> pedido[c].id, principal |-> pedido[c].principal,
                estado |-> Vivo])
          /\ IF pedido[c].principal THEN MarcarHistoria(c)
                                    ELSE UNCHANGED <<corrida, escolhido>>
     ELSE UNCHANGED <<enderecos, corrida, escolhido>>
  /\ Voltar(c)
  /\ UNCHANGED <<cliente, criados, comPedido, inicios, velho>>

(* Mutant: the address is saved as it was read, the flag unset.            *)
GravarSemMarcar(c) ==
  /\ passo[c] = "gravarEndereco"
  /\ enderecos' = [enderecos EXCEPT ![pedido[c].endereco].estado = Vivo]
  /\ MarcarHistoria(c)
  /\ Esqueceu(c)
  /\ Voltar(c)
  /\ UNCHANGED <<cliente, criados, comPedido, inicios>>

(* Save of the address as it was read, with the flag set: it was there and *)
(* not removed, so it is now.  Its client comes back before it, unless the *)
(* telephone has another row: the address is refused then.                 *)
GravarEndereco(c) ==
  /\ passo[c] = "gravarEndereco"
  /\ IF cliente = Nenhum \/ Achado(pedido[c].id)
     THEN /\ cliente' = IF cliente = Nenhum THEN copia[c] ELSE cliente
          /\ enderecos' = [enderecos EXCEPT ![pedido[c].endereco].principal = TRUE,
                                            ![pedido[c].endereco].estado = Vivo]
          /\ MarcarHistoria(c)
     ELSE UNCHANGED <<cliente, enderecos, corrida, escolhido>>
  /\ Esqueceu(c)
  /\ Voltar(c)
  /\ UNCHANGED <<criados, comPedido, inicios>>

ExcluirEndereco(c) ==
  /\ passo[c] = "excluirEndereco"
  /\ enderecos' = [e \in DOMAIN enderecos |->
       IF e = pedido[c].endereco /\ enderecos[e].estado = Vivo
       THEN [enderecos[e] EXCEPT !.estado = Excluido]
       ELSE enderecos[e]]
  /\ escolhido' = (escolhido /\ pedido[c].endereco \notin Principais)
  /\ EnderecoMudou(c, pedido[c].endereco)
  /\ Voltar(c)
  /\ UNCHANGED <<cliente, criados, comPedido, inicios, corrida>>

-----------------------------------------------------------------------------
(* A statement fails and the call returns its error; BuscarOuCriar drops   *)
(* the error of saving the profile name, which comes to the same here.     *)
Falhar(c) ==
  /\ passo[c] # "livre"
  /\ escolhido' = (escolhido /\ ~Substitui(c))
  /\ Esqueceu(c)
  /\ Voltar(c)
  /\ UNCHANGED <<tabelas, inicios, corrida>>

(* The server stops: the calls in progress are gone.                       *)
Reiniciar ==
  /\ \E c \in Chamadas : passo[c] # "livre"
  /\ escolhido' = (escolhido /\ ~\E c \in Chamadas : Substitui(c))
  /\ passo' = [c \in Chamadas |-> "livre"]
  /\ pedido' = [c \in Chamadas |-> PedidoNulo]
  /\ copia' = [c \in Chamadas |-> Nenhum]
  /\ levados' = [c \in Chamadas |-> {}]
  /\ velho' = [c \in Chamadas |-> FALSE]
  /\ UNCHANGED <<tabelas, inicios, corrida>>

Executar(c) ==
  \/ Procurar(c) \/ Achar(c) \/ Inserir(c) \/ Ler(c) \/ Gravar(c) \/ Reler(c)
  \/ Apagar(c) \/ LerEndereco(c) \/ Desmarcar(c) \/ InserirEndereco(c)
  \/ GravarEndereco(c) \/ ExcluirEndereco(c)

Next ==
  \/ \E c \in Chamadas : Comecar(c) \/ Executar(c) \/ Falhar(c)
  \/ Reiniciar

Spec == Init /\ [][Next]_vars

-----------------------------------------------------------------------------
(* A client has at most one principal address, unless a call wrote one     *)
(* while another stood between clearing the flags and setting its own      *)
(* (UnsetPrincipalByCliente and the write after it are two statements), or *)
(* a Save of the client brought one back that its deletion had taken.      *)
UmPrincipal ==
  ~corrida => \A e, f \in Principais :
                enderecos[e].dono = enderecos[f].dono => e = f

(* Once chosen there is a principal address, or a call about to write the  *)
(* next one for the client that is there, until a removal takes it, the    *)
(* deletion of the client takes all its addresses, or a call fails in the  *)
(* window: no interleaving of adding, choosing, removing, deleting and     *)
(* saving loses it otherwise.                                              *)
PrincipalPermanece ==
  escolhido => Principais # {} \/ \E c \in Chamadas : Substitui(c)

(* The columns an operation is asked to change.                            *)
CamposDe(tipo) ==
  CASE tipo \in {"criar", "status"} -> {"status"}
    [] tipo = "contato" -> {"perfil"}
    [] tipo = "pedido" -> {"pedido"}
    [] tipo = "documento" -> {"documento"}
    [] OTHER -> {"nome", "documento"}

(* A save of the whole row changes no column but its own, unless the row   *)
(* was written between the read and the save: only an overlap undoes what  *)
(* another call stored (status, document, last order).                     *)
SoMudaOQuePede ==
  [][\A c \in Chamadas :
       /\ passo[c] = "gravar" /\ passo'[c] # "gravar"
       /\ cliente' # cliente /\ ~velho[c]
       => \A f \in Campos \ CamposDe(pedido[c].tipo) :
            cliente'[f] = cliente[f]]_vars

(* What was deleted comes back only by the save of a call that had read it *)
(* before: the client by a Save of the client or of one of its addresses,  *)
(* an address by its own Save or, if it went with its client, by a Save of *)
(* that client once it is back.  A client may also be inserted anew.       *)
ApagadoNaoVolta ==
  [][/\ cliente = Nenhum /\ cliente' # Nenhum =>
          \/ criados' = criados + 1
          \/ \E c \in Chamadas : /\ passo[c] \in {"gravar", "gravarEndereco"}
                                /\ velho[c]
     /\ \A e \in DOMAIN enderecos :
          enderecos[e].estado # Vivo /\ enderecos'[e].estado = Vivo =>
            \E c \in Chamadas :
              /\ velho[c]
              /\ \/ passo[c] = "gravarEndereco" /\ pedido[c].endereco = e
                 \/ /\ passo[c] = "gravar" /\ cliente # Nenhum
                    /\ enderecos[e].estado = Apagado]_vars
=============================================================================
