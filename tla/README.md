# mcp-server-openerp: the verification project

The program is a server that lets the clients of small restaurants order over WhatsApp. Messages arrive as
webhook calls, an LLM turns free text into items, a cart lives in Redis, orders and payments in MySQL, the
shop's operators move orders along through a REST API, and MCP tools work on the same carts. Many shops
(tenants) share one server.

This directory holds TLA+ models of its core, the TLC runs that check them on small instances, and TLAPS
proofs of what the runs check for every value of the constants. Names are the code's, in Portuguese.

    tlc -workers 2 -config CarrinhoEnderecos.cfg MCCarrinho     # one run
    tlapm CarrinhoProofs.tla                                    # one proof module

`PROJECT.json` lists the runs, for each property a mutation of the model that breaks it, the source lines
each definition stands for, the findings, the hazards and the theorems.

## The system

| Component | State | Operations | Talks to |
|---|---|---|---|
| Webhook and processor (`webhook/`) | Redis: `wamid:dedupe:*` (5 min), `atendimento:humano:*` (30 min), its alert (10 min), `carrinho:debounce:*` and lock (5 s) | one goroutine per webhook call: resolve tenant, deduplicate, find or create client, hand off to a human or to the cart, send the answer; a timer goroutine sends cart summaries | tenants, clients, cart, WhatsApp |
| Cart and checkout (`service/carrinho_service.go`, `server/tools/carrinho.go`) | Redis: `carrinho:<tenant>:<cliente>`, one JSON value, TTL 1 h (2 min when created by a read) | `ProcessarMensagem` with a state machine of address and payment; tools to add, remove, finish, clear | LLM, addresses, payment methods, orders |
| Orders (`service/pedido_service.go`, `server/api_handlers.go`) | MySQL: `pedidos`, `pedido_pagamentos`; Redis: `notificacao:saiu:*` (24 h) | create with payments; change of status; settle payments; notice to the client | menu, WhatsApp |
| Payment methods | MySQL: `formas_pagamento` | create, change, switch off, look up | |
| Menu (`cardapio_service.go`) | MySQL, cached in Redis for 1 h | cache-aside read, matching of names, reduction by keywords | LLM prompts |
| Tenants (`tenant_service.go`) | MySQL, cached by phone id and by verify token | look-ups, create, update, delete | webhook |
| Clients and addresses (`cliente_service.go`) | MySQL | find or create, update, list/create/remove addresses, principal address | cart, webhook |
| LLM (`llm_service.go`, `llm/`) | the clients chosen at start-up | transcription, intention, items; retry with back-off; choice of provider | HTTP |
| Rate limiter (`ratelimit.go`) | a map under a lock, one lock per entry | `Allow`, `Cleanup` | HTTP server |
| Migrations (`cmd/migrate`, `migrations/`) | the schema, goose's version table | add columns and indexes, convert the order status, goose | MySQL |
| Configuration and start-up (`config/`, `di/`, `cmd/server`) | the environment, the clients built from it | load, validate, connect, build, listen, stop | everything |
| Health, login, metrics, logging, tracing | little or none | | |

What is hard here:

- **Nothing holds a lock on a cart.** A handler reads the whole cart, calls other services, and saves the whole cart.
- **Redis is a cache with opinions.** `GetOrSet` takes any error of a read for a miss and stores the default value.
  Keys expire in the middle of a conversation.
- **No transaction spans two statements.** An order and its payments, a status and the payments it settles, are
  separate calls, each of which may fail or be the last before a restart.
- **Checks are made on what was read.** The table of order transitions is checked against a row read before the UPDATE.
- **Two actors share a cart**: the conversation and the MCP tools, which know nothing of its states.
- **Redelivery**: WhatsApp repeats a webhook call, in parallel and out of order.
- **Whole-row saves.** GORM's `Save` writes every column of a row read earlier, and inserts the row when it is gone.
- **Caches outlive what they copy.** A writer deletes keys after its write, a reader may store before or after that.
- **Timers**: the debounce goroutine, the keys and the limiter's windows run on clocks of their own.
- **DDL commits by itself**: a migration that died half way is repeated over what it left.

### What makes each component correct

- Cart: the address confirmed is the one displayed; no payment is asked for without a stored address; what is
  charged adds up to the total; an order that is delivered is paid, once, to that address, with those items;
  the cart and order services agree on what is payable.
- Orders: no stage of an order is skipped, and none goes back; payments are settled by a delivery and by nothing
  else; one notice per departure.
- Webhook: a message has its effect at most once, and is not lost without a cause; a client in the hands of an attendant
  is not answered by the bot; an alert is not silenced by an old one; the last summary is sent; every message ends.
- Cart, with overlapping messages: an item leaves only for a cause, and is not ordered twice without one.
- Menu and tenants: a stale entry has a known cause and does not last; a change of one column changes no other.
- Clients: at most one principal address, and one once chosen; no lost update without an overlap; what was deleted stays so.
- Rate limiter: no more than the limit is let through in a window, none is refused before, none waits for ever.
- Items: an order holds the products that were asked for.
- Migration and start-up: no order loses its status, a failed run can be repeated, a server that listens has what it uses.

## Modules

| Module | Stands for |
|---|---|
| `CarrinhoDados` | the cart record (`dto/carrinho.go`) and the pure functions of `carrinho_service.go` that make one cart of another; `prepararPagamentos` of `pedido_service.go` as a predicate |
| `Checkout` | abstract: buying, address, confirmation, charging, sale |
| `Carrinho` | the handlers of one client's conversation, the MCP tools, Redis failures and expiry, order creation |
| `MCCarrinho` | constants for TLC |
| `CarrinhoProofs` | the inductive invariant, the state properties, the properties of the orders made, and that `Carrinho` implements `Checkout` |
| `CicloDoPedido` | abstract: the life of an order |
| `Pedido` | `PATCH /pedidos/:id/status`, call by call, for any number of requests; the creation still inserting payments; the notice |
| `MCPedido` | constants and symmetry for TLC |
| `PedidoProofs` | all properties of `Pedido`, and its refinement of `CicloDoPedido` |
| `Atendimento` | `webhook/processor.go`: the messages of one telephone in parallel goroutines, deduplication, the client's row, hand-off and alert |
| `MCAtendimento` | constants and symmetry for TLC |
| `AtendimentoProofs` | the safety properties of `Atendimento` |
| `Conversa` | several messages of one client at the same time: `ProcessarMensagem` split at its calls to Redis, the LLM and the orders |
| `Resumo` | the debounce of the cart summary in `webhook/processor.go`; `Conversa` extends it and adds its steps to its own |
| `Provedores` | what a call to each LLM provider, or to WhatsApp for media, can come to; pure operators `Conversa` uses |
| `Clientes` | every writing operation of `cliente_service.go`, statement by statement |
| `Consultas` | `GetOrSet` for menus and phone ids against the writers of products and tenants |
| `Limitador` | `Allow` and `Cleanup` of the rate limiter |
| `ItensDoPedido` | from the menu to an order: matching by id, name and similarity, reduction by keywords, the lines of an order |
| `Migracao` | `cmd/migrate`: overlapping runs that may die at any statement |
| `Implantacao` | extends `Migracao` with the server that is started after it |
| `ConversaProofs`, `ClientesProofs`, `ConsultasProofs`, `LimitadorProofs` | every safety property of `Conversa` with `Resumo`, `Clientes`, `Consultas`, `Limitador` |
| `ImplantacaoProofs` | every property of `Migracao` and `Implantacao` |
| `MCConversa`, `MCClientes`, `MCConsultas`, `MCLimitador`, `MCItensDoPedido`, `MCImplantacao` | constants for TLC |

### Carrinho: state and actions

`carrinho` is the value of the Redis key, `Vazio` when there is none (no handler tells the two apart);
`enderecos` the number of the client's address rows; `ativas` the active payment methods; `pedidos` the orders
inserted, each with its address, total and the sum of its payment rows; `resposta` the kind of the last answer.

A handler is one action: one message of a client is handled at a time here (`Conversa` has two at a time).
Inside an action the order of the code's calls is kept, because each may fail: `Lidos` is what `GetCarrinho` may
return (`GetOrSet`, so an empty cart on an error), `Manter` what that read leaves in Redis, `Salvar` and `Apagar`
the writes. `FinalizarComEndereco` saves the cart as `aberto`, reads it again, and `Finalizar` creates the order,
inserts the payments and deletes the cart, each step with its failure. The constant `Falhas` says which calls may fail.

The messages are inputs of the actions (an amount, a payment method, a set of items, a yes or no), not texts. Parsing
and the intent classifier choose among the actions; the model lets every choice happen. Handlers that save nothing are
one action, `MensagemSemEfeito`, with the storing read they all start with.

Abstractions: the payments of a cart are their sum, the methods used and whether each passed the per-payment checks,
which is all the code computes from the list. Amounts are integers and `Tolerancia` is the cent the code allows.
Observations of items, names and timestamps are left out. `mexido` is a history field: a tool changed the items, or some
were removed, since the checkout began. Address rows are only created (nothing but the tests calls `RemoverEndereco`
or `DefinirEnderecoPrincipal`) and listed newest first. A method's `tipo` does not change. Prices are above the tolerance.

### Pedido: state and actions

`status`, `pagamentos` and `telefone` are columns; `criando` says that `ProcessarPedido...` has inserted the order and
not yet its payments; `chave` is the SETNX key of the notice; `passo[o]`, `alvo[o]` where request `o` is between two calls
and what it asks for. `vistos`, `avisos`, `falhou` and `tarde` are history. A request is `Ler` (FindByID and
`pedidoStatusValido`), `Gravar` (a blind UPDATE), `Marcar` (payments), `Reservar` (SETNX) and `Enviar` (WhatsApp); `Falhar`
ends it at any of its calls; `Reiniciar` ends all of them. `InserirPagamentos` and `ExpirarChave` happen at any time. The key lives
24 hours, so `ExpirarChave` waits until no request is between SETNX and sending. `pedidoService.Create` makes the
orders that start as `pendente` (no endpoint calls it).

### Atendimento: state and actions

`vistas`, `humano` and `alerta` are the Redis keys `wamid:dedupe:*`, `atendimento:humano:*` and its `alerta`, the last two as the
ticks of ten minutes they have left; `cliente` says that the row of the client exists; `passo[c]` and `msg[c]` what goroutine `c`
does next, and for which message. `Receber` is the webhook call that starts a goroutine; then each call of `Process` to Redis
or the database is a step: `Deduplicar`, `BuscarCliente`, `CriarCliente`, `Verificar` (the check of the hand-off), `LerInicio` and
`ReservarAlerta` (`shouldPromptHandoffTimeout`). `Bot` is `ProcessarMensagem`, of which this module keeps the two messages that set and
delete the hand-off key; what the others do is the subject of `Carrinho` and `Conversa`. `EsquecerMensagem` and `Passar` are the clock, `Reiniciar`
ends every goroutine. A failed call does what the code does: a failed SETNX lets the message through, a failed GET of the hand-off
counts as none, an error of the client's look-up or INSERT drops a message already marked as seen.

The other variables are history: `efeitos` counts what the bot did with a message since its key was last absent, `tratadas`,
`perdidas` and `corridas` say what became of messages, `semChave` which were let through by a failed SETNX, `cobertas` which
calls have been under hand-off since they arrived, `alertaNovo` whether the last alert was about this hand-off.

Two things are assumed. A call is over before its five-minute key expires; nearly all tries of all LLM requests must time out
for one not to be. And the unique index on tenant and telephone exists: `models/cliente.go:13` declares it, but neither
the files in `sql/` nor the migrations create it, and without it the loser of the race inserts a second row. Several messages in
one webhook call are handled one after the other, which is one of the orders that single ones may take.

### Conversa and Resumo: state and actions

`carrinho` is the Redis key, here with `Ausente` kept apart from an empty cart because a miss and an error take different
paths; a cart is the set of its items and one of three states: open, about the address, about the payment. An item a message adds is named
by the message. For each message: `tipo` and `meio` what it asks for and whether it is typed, spoken or a picture, `passo` the call
it makes next, `lido` the cart it works on, `falta` that its GET missed or failed and the SET of `GetOrSet` is still to come, `pago` what
its payments were summed for, `tentativa` the attempts made, `pedido` the items of its order. `Get` and `SetVazio` are `GetOrSet`; `Ouvir`
is the transcription, which waits with a cart already read; `Classificar` and `Resolver` are the LLM calls, the second with the retries of
`RetryWithBackoff`; `Salvar`, `Pedir`, `Apagar` and `Responder` the writes. `Provedores` says what each provider's client can return:
a text, an error worth another attempt, another error, or a panic (the Gemini client indexes an empty list), which `Process` recovers from.

`Resumo` is the debounce: `resumo` and `trava` its two keys, `rotina[m]` where message `m` or the goroutine it started is, `leu[m]` the
summary that goroutine found. `velho`, `reuso`, `ultimo`, `enviados` and `desvio` are history: they record the causes the properties except.

The abstractions: an item has no quantity, two items cost the same, and the checkout has two states, `endereco` (an address is asked for
or shown) and `pagamento`; what each answer does there is the subject of `Carrinho`. Here an answer matters as one more write of a cart
read before: "ver" in the checkout stands for any answer, which may leave the state as it is, confirm the address or cancel, and "pagar"
for the one that completes the payment. The words *limpar* save the cart first there and then delete it; the button deletes it at once.
A text that is none of these is asked for again or, where `AguardandoEnderecoNovo` finds it too short, goes on as an ordinary message.

### Clientes: state and actions

`cliente` is the row of one telephone of one shop, `enderecos` its address rows, each there, removed (`deleted_at`) or gone with its client,
`comPedido` the clients an order refers to. `passo[c]`, `pedido[c]`, `copia[c]` and `levados[c]` are where a call is, what it was asked, the
client as it read it and the rows preloaded with it. Each repository call is an action; `Falhar` is the error of any of them, `Reiniciar`
the end of the process. `velho[c]` says that what `c` read was written since, `corrida` and `escolhido` are the causes the two
properties about the principal address except.

`Apagar` is the DELETE of `clienteRepository.Delete`, which checks nothing: the schemas (`sql/cliente.sql:96`, `sql/mcp_server_openerp.sql:136`
and `:164`, and the dump) take the client's addresses with it (CASCADE) and clear `cliente_id` of its orders (SET NULL). So a client with
addresses and orders is deleted while other calls hold a copy of it, and what their `Save` then does is GORM's, an external part,
modelled as follows:

- `Save` first updates every column by id. Rows preloaded with the copy are then inserted with ON DUPLICATE KEY UPDATE of their foreign
  key only: one that exists keeps its columns, one that the cascade took comes back as it was read (`Voltam`), an order is linked again.
- When the UPDATE matched nothing, an INSERT of the copy follows those. With an address or an order among the preloaded rows the foreign key
  has refused them by then, and the call fails; without, the client is back.
- `Save` of an address first inserts the client read with it, if there is none, and writes `deleted_at` as read: a removed address, and a
  deleted client, return.

The statements of one `Save`, and a read with its preloads, are one step. GORM's own transactions are switched off (`mysql.go:54`), so
one that stops half way would leave its first statements; `Falhar` does not have that.

### Consultas: state and actions

`produto` and `tenant` are rows, `cache` the keys `cardapio:*` and `tenant:phone:*`. A reader is `Consultar`, `Get`, `Carregar`, `Guardar`; a writer
`Escrever`, `Ler` (where the code reads first), `Gravar`, then `Del` and, for a menu, `DelPadrao`. Calls fail at each of them. `Prefixos` says
which ids begin with the digits of another's: the pattern `cardapio:1*` deletes the menu of shop 10 too. `suspeita[k]` is history: why entry
`k` may be old.

Deleting a shop takes its product with it: `migrations/000003_create_produtos.up.sql:24` and `sql/mcp_server_openerp.sql:75` say ON DELETE CASCADE and
the code checks nothing. Only the phone keys are deleted after it, so the menu stays cached. The two older dumps lack the CASCADE; there a
shop with products is not deleted, which is `Falhar` here. `dona[w]` is the shop's row that
`FindByID` of a product preloads: `Save` of that product inserts it first when the shop is gone, and a deleted shop returns (`TrazLoja`).
A `Save` and a read with its preloads are one step here too.

### Limitador: state and actions

`limits` is the map, `entrada` the entries in memory, `achada[p]` the entry request `p` holds after it gave the map's lock back. `Procurar`
is the look-up, `Criar` and `Usar` the two ways on, `Limpar`, `Varrer`, `Soltar` are `Cleanup`. The locks are in the guards: nobody
takes the map's while `limpando`. `ideal` counts, beside the entries, what was let through per window. Two histories keep apart how a window may let
more through than the limit: `dupla[k]`, a first request made an entry over another's; `perdoada[k]`, a request renewed an entry that
`Cleanup` had deleted after its look-up. The second is this: with a limit of 2, `p1` holds an expired entry, `Cleanup` deletes it,
`p1` renews it and passes, `p2` finds no entry, makes one and passes, `p3` passes on that one. Both marks go when a count starts alone after
the window. Without either exception TLC finds `LimiteRespeitado` violated.

### ItensDoPedido: state and actions

`cardapio` is the menu in the order of the query (category, name), `carrinho` the items, `pedido` the last order: what was asked for and the lines
that were stored. Names are members of a small set with the relation "occurs in" given, so that equality, containment and the similarity
score are computed as the code does. Actions: the shop edits the menu, items are added and removed through the LLM's or a tool's id, the
cart is ordered, or a list of ids directly.

### Migracao and Implantacao: state and actions

`banco` is the schema as far as the program reads or writes it, `status` the order rows, `estrito` the sql_mode. Each run of the migrator has
a `ponto` in the program and the `comandos` its present part decided on: `Verificar` reads and decides, `Executar` runs one
statement (`Aceita` says when MySQL takes it, `Banco` and `Status` what it does), `Quebrar` is a broken connection. `Mudar` is the server's UPDATE
of an order in the middle of it. `Implantacao` adds the container of the server: `Subir` starts it after a run that ended well, then
`LoadConfig`, `NewMySQL` (whose error leaves a nil connection), `NewRedis`, `NewUnifiedLLM` and `Start`; `Parar` and `Reiniciar` are the signals
and Docker's restart policy.

## Runs

| Run | Instance | Checks |
|---|---|---|
| `carrinho_enderecos` | 3 address rows, 1 unit, all failures | `ConfirmacaoCoerente`, `CobrancaTemEndereco`, `EntregaConfirmada` |
| `carrinho_pagamentos` | 2 units, 1 address row, all failures but `gravarPagamentos` | `TypeOK`, `ContaFecha`, `EntregaQuitada`, `RecusaTemCausa`, `ImplementaCheckout` |
| `pedido_concorrente` | 3 operators, all failures | `TypeOK`, `NaoPulaEtapa`, `PagoExigeEntrega`, `UmAviso`, `EntregaQuita` |
| `pedido_um_operador` | 1 operator, all failures | `ImplementaCiclo` |
| `pedido_corrida` | 2 operators, nothing fails | finds `SemRetrocesso` violated |
| `atendimento_entregas` | 2 messages, 2 deliveries each, 2 goroutines, all failures and restarts | `TypeOK`, `EfeitoUnico`, `BotCala`, `AlertaDesteAtendimento`, `TodaTratada` |
| `conversa_simultanea` | 2 messages of any kind, one of them typed or spoken, a cart absent, open or waiting for payment | `TypeOK`, `UmPedidoPorItem`, `ResumoChega`, `ItemSaiComCausa`, `TodaTermina` |
| `clientes_concorrentes` | 3 calls at a time, 5 in all, 2 client rows, 2 address rows | `TypeOK`, `UmPrincipal`, `PrincipalPermanece`, `SoMudaOQuePede`, `ApagadoNaoVolta` |
| `consultas_em_cache` | 1 reader, 2 writers, 2 writes, 2 shops, 2 phone ids | `TypeOK`, `EntradaVelhaTemCausa`, `Converge`, `SoDisponibilidade` |
| `limitador_concorrente` | 2 requests at a time, one key, 6 instants | `TypeOK`, `LimiteRespeitado`, `NegaComRazao`, `TodoPedidoResponde` |
| `itens_por_nome` | 4 products in 3 menus | finds `ValidadoPorId` violated |
| `implantacao` | 2 runs of the migrator, 1 order, 3 databases, 4 environments | `StatusPreservado`, `FalhaTemCausa`, `ServidorPronto` |

Bounds and why they are enough:

- *Money*: one product at price 3, tolerance 1, typed amounts 2 and 3, a "hundred" of 4. With one or two units
  the totals are 3 and 6, so typed amounts fall below, inside the tolerance below, on and above what is due, and a split may
  take one, two or three payments.
- *Addresses*: three rows are needed for a second refusal to go past the list and back; `carrinho_pagamentos` needs one. The client
  module has two: a principal address and the one that replaces it.
- *Payment methods*: one that takes change, one that does not; each may be switched on and off at any time.
- *Orders*: `MaxPedidos = 1` bounds the sequence; the properties about orders speak of one order each, and the
  cart keeps moving after it.
- *Operators*: a lost update needs two, and a third lets one act on what the other two left. They are interchangeable, so
  the run uses their symmetry; it checks only invariants.
- *Deliveries*: a message delivered twice in two goroutines is the least that can have two effects; every pair of contents
  (something for the cart, a wish for an attendant, the wish to leave him) is an initial state.
- *Time*: hand-off 3, alert 1 and wait 1 tick of ten minutes, the code's own proportions.
- *Overlapping messages*: every pair of the six kinds, on each initial cart. Two are enough for what one write does to another's
  read; three attempts are the code's own number. The first message is typed, the second typed or spoken (a picture takes
  the same path through `Ouvir`, with fewer outcomes), to the provider with the most outcomes.
- *Calls on a client*: up to three overlap (a deletion, a call that had read before it, a third that builds anew), and five in all build the
  rows they need: create, add, add, then two more, or create, add and three at once. A second client row is one inserted after a deletion.
  Three names of which two resemble each other take `compararNomes` through all its cases. The calls are interchangeable; no liveness is
  checked with their symmetry.
- *Look-ups*: two writes are enough for one to be overtaken by the other and by the reader. `MCEntradas` lists them: a new price, a
  deletion, the availability, and for shops a change of the phone id, of another column, a deletion with its cascade, and the creation
  on an id given up.
- *Windows*: the limit is 2, the window 1 tick, the clock 5: several windows, with entries that expire, are swept and
  made again. Three entries are the most two requests and the map can refer to. Two requests meet both exceptions: with the limit
  of 2 the third request of a window is one of them again.
- *Migrations*: two runs overlap; the databases are those the repository's scripts make and an empty one; the environments
  are each kind `ValidateLLM` tells apart, one of them valid.
- The proofs do not have these bounds, except that `MaxQtd`, `MaxEnderecos` and `MaxPedidos` stay arbitrary numbers.

CHECK_DEADLOCK is off where the system may stop: when every message has been delivered and handled and every key has expired
(`Atendimento`, `Conversa`), and when `MaxInicios` calls were made (`Clientes`). It stays on elsewhere.

**Fairness and liveness.** `Carrinho`, `Pedido`, `Clientes`, `ItensDoPedido` and `Implantacao` state no fairness: the code waits for
a client, an operator or a deployment at each step, and has no queue or timer that would owe them progress. The others assume weak
fairness of each goroutine's next step: Go's scheduler runs every goroutine, and every outside call of a step returns or fails
(the HTTP clients have timeouts of 15 to 60 seconds). New messages, deliveries, expiries of keys and restarts are not fair, with the one exception below.

- `Atendimento`, `TodaTratada`: a delivered message reaches the bot or the attendant, unless a failure, a restart or the race for
  the client's row stopped it. That exception is real, for none of them removes the key: the redelivery that would repair it is
  ignored for five minutes.
- `Conversa`, `TodaTermina`: a message that came in ends, whatever fails, and so does the debounce goroutine it may have started.
- `Consultas`, `Converge`: once the writes are over every entry comes to agree with the database. Here expiry is fair: Redis removes a key whose
  TTL is over, and every entry is stored with one.
- `Limitador`, `TodoPedidoResponde`: no request waits for ever. Making an entry needs the map's write lock, which `Cleanup` takes again and
  again, so weak fairness is not enough: `SF(Criar)` says that `sync.RWMutex` does not let a waiting writer starve.

What the exceptions in the properties say. Many of these properties have the form "unless": the code holds no lock and uses no
transaction, so `ItemSaiComCausa`, `UmPrincipal`, `EntradaVelhaTemCausa` and their like fail outright, and the history variables keep
the exact condition under which they may. Each is a list of the interleavings and failures a reader of the code has to accept;
the runs and the theorems show that each list is complete.

## Proofs

Every theorem is for all constants that satisfy the named assumptions, which TLC evaluates in each run. Most say only that a bound is
a number, that a null value is not one of the others, or that a set is not empty. Those with content:

- `TotalAssumption`: the total of a cart is a number, above the tolerance unless the cart is empty. Stated because that the fold over a set of
  products is a number needs an induction.
- `AlertaAssumption`: an alert key lives no longer than the wait before an alert (10 minutes both, in the code).
- `BancosAssumption`: the databases the migrator starts from have the tables their foreign keys and goose's version imply, and a status
  column with the words of before or of after. Beside it, no two shops carry one phone id and no other shop carries the two of
  development: over duplicates MySQL would refuse the unique index on it, or the UPDATE that sets it. No script of the
  repository makes such rows, and `Aceita` leaves the case out.
- `ChamadasAssumption`: a call to `Consultas` is a reader or a writer, not both.

**Cart.** `CarrinhoProofs` proves `IInv == Bom(carrinho, enderecos) /\ Resto`. `Bom` is a predicate on one cart: it is typed,
a method is pending when an amount or its change is asked for, and it satisfies what `ConfirmacaoCoerente`,
`CobrancaTemEndereco` and `ContaFecha` say of the stored cart, and that an undisturbed checkout has something to sell. The
strengthening is needed in two ways. The properties speak of the stored cart, but handlers act on the one
they read, which may be the empty one; so `Bom` is proved of every element of `Lidos`. And each state of the
conversation relies on what the previous one left: `ContaFecha` in the change state needs the pending method, and the sum is only
positive because the checkout started with items and nobody took them away. The proof has one lemma per cart
function of `CarrinhoDados` (it keeps `Bom`) and one step per action that picks the function it saves. `TypeOK` and
the three properties follow.

From `IInv` it follows that every step that makes an order makes it as `EntregaConfirmada`
says, under any failures; that `EntregaQuitada` holds when the INSERT of the payments does not fail (a necessary
assumption: see the findings); and `RecusaTemCausa`, by showing that an undisturbed cart whose payments cover the
total passes `PagamentosAceitos`.

The last part of the module maps the conversation to `Checkout` (phase from `estado`, address on display, address
charged for, sales from the orders), and shows that the initial states match and every step is a step or a stutter,
again when the INSERT of the payments does not fail.

**Orders.** `PedidoProofs` has one small invariant per question. `Etapas`: a request that was let through asks
for a status the order has had, or one step from one, so `NaoPulaEtapa` and `PagoExigeEntrega` survive any overlap although
the row may have moved since it was read. `Avisando`: no request is about to send while the key is absent, only one is while it
stands. `Quitando`: after a delivery, pending payments have a request about to settle them. Under `UmPorVez` (there are no two
requests at a time), `Fresco` says that what was read still holds; then `SemRetrocesso` and `ImplementaCiclo` are theorems. So the
overlap is the only cause of the finding below.

**Messages.** `AtendimentoProofs` has three invariants beside the types. `UmaVez`: the key of a message stands while a goroutine
carries it towards the bot or it has had its effect, and one goroutine at most carries it. `Coberta`: a call counts as covered
only while the hand-off key is there, so the check it makes finds it. `AlertaAntigoCurto`: an alert key from before the
hand-off and the age of the hand-off together never exceed the life of the alert key; with `AlertaAssumption` (that life is no
longer than the wait) none is left when an alert is due.

**Overlapping messages and the debounce.** `ConversaProofs`. The item a message adds is nowhere before it is saved (`ItemNovo`); what a message
has read is the stored cart unless the history says another write came since (`Lido`); ordered items stay in the cart only until the DEL
of their order (`ForaDoCarrinho`). With these, an item can be ordered twice only by the overlaps `UmPedidoPorItem` names, and
`ItemSaiComCausa` follows step by step. For the summary, `ResumoAguarda`: as long as nobody is in the gap between
GET and DELETE, the last summary is under its key and some goroutine is on the way to send it. `ResumoChega` is that with no goroutine left.

**Clients.** `ClientesProofs` follows each call from statement to statement. `Coerente` says what a call at a statement was asked and has read;
`DonoPresente` is the foreign key: every address row belongs to the client that is there; `JanelaLimpa`: between
clearing the principal flags and setting one there is no flag of that client, unless two such windows overlapped or a Save brought one back
after the cascade; `Carregada`: what was preloaded with a copy is of that client, so a Save returns addresses to their owner only.
`PrincipalPermanece` is inductive with these: a flag is there, or a call in its window that stands for the client that is there, and a
deletion ends both. `LidoEmDia` (what was read is what is there, or the call was overtaken) gives `SoMudaOQuePede` and `ApagadoNaoVolta`.

**Look-ups.** `ConsultasProofs`. What a reader is about to store, and what a writer has read, agree with the database unless a write overtook them
(`LeitorEmDia`, `EscritorEmDia`). So a SET stores what is true or marks the entry, and a write that makes an entry old has its key
among those it is still to delete, or is one `MudaSemDel` names: the menu of a shop that goes, a phone id that changes hands. `FonesUnicos`,
the unique index, is what makes the owner of a phone id one value; `ProdutoTemLoja`, the foreign key with its cascade, is why an
availability saved with no shop there has missed a deletion.

**Rate limiter.** `LimitadorProofs`. The model carries beside the code's counts an ideal one that no race touches.
Unless a key is marked (`dupla` or `perdoada`)
the entry in the map holds exactly the ideal count of the current window, no entry in the map means that the last window is over (`Confere`),
and a request holds that entry or one that has expired (`Velhas`), so all it can do outside the map is renew, which marks the key.
`Cleanup` compares with a time that has passed, so what it takes out is over (`VarreOPassado`); entries are never
shared between keys, and a request that counts has found one (`UmaChavePorEntrada`); marked or not, no entry counts past the limit (`NoLimite`).
`LimiteRespeitado` and `NegaComRazao` follow for every limit, window and number of requests.

**Migrations and start-up.** `ImplantacaoProofs`. `Fila`: the statements a run still has before it are a tail of the part it is at (the program
is unfolded into its thirteen parts once, in `ProgramaForma`). `Avanco`: what the parts behind it were for is in the database, whoever did
it; nothing ever takes it away (`Cresce`). `Remapeado`: between mapping the rows and narrowing the column, the rows in `preparando`
came late, and the run is marked for it. `Sozinho`: a run without fault is the only one, so what it read still
holds when it executes. `StatusPreservado` is proved with them; `FalhaTemCausa` by showing that MySQL accepts each statement of a run with neither
fault nor company (`RecusaSoComCausa`); `ServidorPronto` because a run that ends well leaves the schema complete, and because `ClienteDe` finds
a client wherever `Validar` passed (`ClienteNoPool`).

**Only model-checked.** The liveness properties `TodaTratada`, `TodaTermina`, `Converge` and `TodoPedidoResponde`, and the two violated ones. Every
safety and action property of the passing runs is also a theorem, some of them under the assumption their run makes. Out of the
prover's reach: liveness under fairness, ENABLED, what recursive or folded computations return for every input (which is why
nothing is proved of `ItensDoPedido`).

## Findings

Two runs show a disagreement between the code and its own texts.

1. `pedido_corrida`: two requests that read the same status are both written; an order goes back a step, or
   leaves `entregue` or `cancelado` (`pedido_service.go:268-271`), which its tests rule out.
2. `itens_por_nome`: `processar_pedido_restaurante` promises "Validação segura por ID" (`server/tools/pedido.go:22`), but the
   order looks every item up again by name (`pedido_service.go:89`) and takes the first product whose name contains the item's or is contained
   in it: "x-burger duplo" asked for by id is stored as "x-burger" at the double's price.

Behaviour met while modelling, in the models but not as a violated property:

- `redis.go:21` keeps `redis.Nil` apart because `GetOrSet` depends on it; `GetOrSet` (`redis.go:148`) does not look, so one failed read
  replaces a cart by an empty one (an exception of `ItemSaiComCausa`).
- An order whose payments must add up to its total (`pedido_service.go:411`) stays without any when the second INSERT fails (`:151`); a
  delivery that overtakes that INSERT leaves them pending for ever (an exception of `EntregaQuita`).
- `remover_do_carrinho` with quantity -1 adds a unit (`carrinho_service.go:785`).
- Every further "sim", after the payment methods could not be listed or none was active, inserts the typed address again (`carrinho_service.go:497`).
- Two payments completed at the same time make two orders of one cart; a message saved on an old cart undoes the other, and may bring
  ordered items back (`UmPedidoPorItem`, `ItemSaiComCausa`).
- A summary stored while the debounce goroutine stands between its GET and its last DELETE is never sent; "Carrinho limpo" may be followed
  by the summary of the cart before it.
- A new first request of a key that races another starts a second count, so more than the limit passes (`ratelimit.go:116`); so it does when
  `Cleanup` deletes an expired entry that a request then renews (`ratelimit.go:129-133`);
  `RATE_LIMIT_OVERRIDES` is keyed by bare tenant ids and the limiter by `tenant:<id>`, so no override ever applies.
- `tenantService.Update` deletes the key of the new phone id only: the old id resolves to the shop until its key expires. `Delete` removes no
  menu key: a deleted shop's menu is served for up to an hour. An availability saved over that deletion brings the shop back (`Preload("Tenant")`).
- Comments say a client's deletion is soft and keeps the history (`cliente_repo.go:172-173`); it is a DELETE that takes the client's addresses
  with it and clears `cliente_id` of its orders. A call that had read the client may then bring it back, or fail. A comment of
  `endereco_repo.go` calls addresses immutable; `DefinirEnderecoPrincipal` saves them.
- On an empty database the migrator fails for ever: the part before goose alters `tenants`, which goose would create; and no migration
  creates `pedidos`, to which migration 6 refers. Outside strict mode an order the old server puts in `preparando` during a
  migration is stored with an empty status (an exception of `StatusPreservado`).
- `NewMySQL` returns nil when it cannot connect, nobody checks it, and the server listens without a database.
- `ValidateLLM` accepts openai and deepseek for audio and images, and groq for images, whose clients always answer with an error; a Gemini
  answer without parts makes the audio and image clients panic.
- `README.md:135` says migration 000004 holds the development backfill; it is `SELECT 1`, and `cmd/migrate/main.go` does it at every run.
- `PUT` of a payment method with `ativo = false` changes nothing: `Updates` skips zero values (`pagamento_repo.go:74`). No code writes the
  column `ClienteTelefone` is copied from, so the delivery notice of an order the service created is skipped (`api_handlers.go:132`).
- Pagination passes `(limit, offset)` where `(page, limit)` is expected (`cliente_service.go:571`, `cardapio_service.go:404-423`).

## Plan

*Done*: `Carrinho`, `Pedido`, `Atendimento` with their abstract specifications and proofs; `Conversa` with `Resumo` and `Provedores`, `Clientes`,
`Consultas`, `Limitador`, `Migracao` and `Implantacao` with their proofs; `ItensDoPedido` as a checked model.

*Left*, in order of worth:

1. Sharper causes: theorems that one history condition alone suffices (with one call at a time `SoMudaOQuePede` and `UmPrincipal` hold without their
   exceptions; with one run of the migrator at a time and no order in the meantime, only a broken connection makes one fail).
2. An abstract specification of the limiter (a count per window and key) that `Limitador` implements as long as no two first requests race and
   no request renews an entry `Cleanup` has deleted.
3. Lemmas on the matching of `ItensDoPedido` that need no induction.

## Not modelled

- *Authentication and API*: the handlers translate a request into a call of a service, and those are modelled; the password check and
  the token are library calls. There is no session state.
- *Health checks*: as wired in `di/wire_gen.go` the checker has no checks, so its handlers read an empty list: `/health` answers 200 and `/ready`
  503 for ever.
- *Intent classifier, preprocessor, prompts, formatting and parsing of texts*: pure functions on strings. The models let every result happen.
- *Logging, metrics, tracing, ViaCEP's HTTP client, `cmd/sing`*: no component's state depends on them. A CEP that is not found makes a
  typed address a message without effect in `Carrinho`.
- *Queries and reports* of orders, clients and products: they change nothing.
- *goose's down migrations*: an operator would run them by hand; nothing in the Makefile or the compose file does.
  `database.Migrate`, `Seed` and `DropAllTables` have no caller.
- `handleSelecaoEndereco` cannot be reached: no assignment stores its state.
