---------------------------- MODULE Implantacao ----------------------------
(***************************************************************************)
(* Putting a version on air: make deploy runs the migrations and, when     *)
(* they end well, replaces the server's container, which reads its         *)
(* environment, connects, builds the LLM clients and listens; it is        *)
(* started again whenever it exits by itself (restart: unless-stopped).    *)
(***************************************************************************)
EXTENDS Migracao

CONSTANTS
  Configs       \* environments: LLM_TEXT, LLM_AUDIO, LLM_VISION and the keys

Funcoes    == {"texto", "audio", "visao"}
Provedores == {"groq", "gemini", "openai", "deepseek"}
Vazia      == ""    \* a variable that is not set
Branca     == " "   \* a key of blanks only
Nenhum     == "nil"

VARIABLES
  servidor,   \* "antigo", "config", "banco", "redis", "llm", "escutar",
              \* "no_ar", "saiu", "parado": what the container does
  config,     \* its environment
  db,         \* the *gorm.DB every repository got
  pool,       \* the providers NewAllClients made a client of
  clientes    \* clientes[f]: the provider that serves f, or Nenhum

processo == <<servidor, config, db, pool, clientes>>
vars == <<migracao, processo>>

SemClientes == [f \in Funcoes |-> Nenhum]

Init ==
  /\ MigracaoInit
  /\ servidor = "antigo"
  /\ config \in Configs
  /\ db = Nenhum /\ pool = {} /\ clientes = SemClientes

-----------------------------------------------------------------------------
(* The second half of make deploy, and compose's depends_on.               *)
Subir(m) ==
  /\ fase[m] = "ok"
  /\ fase' = [fase EXCEPT ![m] = "parado"]
  /\ servidor' = "config"
  /\ db' = Nenhum /\ pool' = {} /\ clientes' = SemClientes
  /\ UNCHANGED <<esquema, devido, tardios, ponto, comandos, culpa, config>>

(* Mutant: the keys of the providers in use are not asked for.             *)
ValidarSoProvedor == \A f \in Funcoes : config[f] \in Provedores

(* ValidateLLM.                                                            *)
Validar ==
  \A f \in Funcoes :
    /\ config[f] \in Provedores
    /\ config.chave[config[f]] \notin {Vazia, Branca}

(* LoadConfig, called by main and once more by InitializeApp.              *)
LoadConfig ==
  /\ servidor = "config"
  /\ servidor' = IF Validar THEN "banco" ELSE "saiu"
  /\ UNCHANGED <<migracao, config, db, pool, clientes>>

(* An error of MySQL is logged, and the server goes on without it.         *)
NewMySQL ==
  /\ servidor = "banco"
  /\ db' \in {"aberto", Nenhum}
  /\ servidor' = "redis"
  /\ UNCHANGED <<migracao, config, pool, clientes>>

(* An error of Redis is fatal.                                             *)
NewRedis ==
  /\ servidor = "redis"
  /\ servidor' \in {"llm", "saiu"}
  /\ UNCHANGED <<migracao, config, db, pool, clientes>>

(* newLLMClient: nil for a provider it does not know, or without a key.    *)
ClienteNovo(p) ==
  IF p \in Provedores /\ config.chave[p] # Vazia THEN p ELSE Nenhum

(* What is used when the variable is empty.                                *)
Omissao == [texto |-> "groq", audio |-> "groq", visao |-> "gemini"]

ClienteDe(f) == ClienteNovo(IF config[f] = Vazia THEN Omissao[f] ELSE config[f])

NewAllClients == {p \in Provedores : ClienteNovo(p) # Nenhum}

NewUnifiedLLM ==
  /\ servidor = "llm"
  /\ pool' = NewAllClients
  /\ clientes' = [f \in Funcoes |-> ClienteDe(f)]
  /\ servidor' = "escutar"
  /\ UNCHANGED <<migracao, config, db>>

(* app.Start: it listens, or the port is taken and main exits.             *)
Start ==
  /\ servidor = "escutar"
  /\ servidor' \in {"no_ar", "saiu"}
  /\ UNCHANGED <<migracao, config, db, pool, clientes>>

(* SIGTERM: Shutdown, and main returns.  Docker leaves it stopped.         *)
Parar ==
  /\ servidor \in {"escutar", "no_ar"}
  /\ servidor' = "parado"
  /\ db' = Nenhum /\ pool' = {} /\ clientes' = SemClientes
  /\ UNCHANGED <<migracao, config>>

Reiniciar ==
  /\ servidor = "saiu"
  /\ servidor' = "config"
  /\ db' = Nenhum /\ pool' = {} /\ clientes' = SemClientes
  /\ UNCHANGED <<migracao, config>>

(* The server of before the migration knows the legacy statuses, this one  *)
(* those of models.PedidoStatus.                                           *)
Atender(p) ==
  /\ \E s \in Legado \cup Canonico :
       /\ \/ servidor = "antigo" /\ s \in Legado
          \/ servidor = "no_ar" /\ db = "aberto" /\ s \in Canonico
       /\ Mudar(p, s)
  /\ UNCHANGED processo

Migrar(m) ==
  /\ Comecar(m) \/ Verificar(m) \/ Executar(m) \/ Quebrar(m)
  /\ UNCHANGED processo

InitializeApp == LoadConfig \/ NewMySQL \/ NewRedis \/ NewUnifiedLLM

Next ==
  \/ \E m \in Migradores : Migrar(m) \/ Subir(m)
  \/ InitializeApp \/ Start
  \/ Parar \/ Reiniciar
  \/ \E p \in Pedidos : Atender(p)

Spec == Init /\ [][Next]_vars

-----------------------------------------------------------------------------
(* No order loses the status its shop gave it, whatever runs died half way *)
(* or overlapped and whatever the sql_mode: at most preparando reads       *)
(* em_preparo.  Out of strict mode one put in preparando during a          *)
(* migration, or by the old server after it, may be cut.                   *)
StatusPreservado ==
  \A p \in Pedidos : \/ Canonizar(status[p]) = devido[p]
                     \/ ~estrito /\ p \in tardios

(* A run fails only for a cause of its own: it can be repeated after a     *)
(* failure at any statement and ends well.  The exception is a database    *)
(* without the tables the SQL scripts create.                              *)
FalhaTemCausa ==
  \A m \in Migradores :
    fase[m] = "falhou" =>
      \/ m \in culpa
      \/ ~({"tenants", "produtos", "pedidos"} \subseteq banco.tabelas)

(* A server that listens finds the schema it writes to, every status its   *)
(* status machine can reach, and a client for each kind of message.        *)
ServidorPronto ==
  servidor = "no_ar" =>
    /\ Canonico \subseteq banco.permite
    /\ ToSet(Colunas) \subseteq banco.colunas
    /\ ToSet(Indices) \subseteq banco.indices
    /\ {"formas_pagamento", "pedido_pagamentos"} \subseteq banco.tabelas
    /\ \A f \in Funcoes : clientes[f] \in pool
=============================================================================
