------------------------------ MODULE Checkout ------------------------------
(***************************************************************************)
(* What the checkout conversation promises, without carts, Redis or        *)
(* payment methods.  A client buys, is asked for an address, is shown one, *)
(* and is charged for delivery to exactly the address that was shown, or   *)
(* to the new one typed in.  A delivery is sold only out of the charging   *)
(* phase, to the address charged for and fully paid.  The only other sale  *)
(* is the counter sale of the MCP tool finalizar_pedido, which has neither *)
(* address nor payments.                                                   *)
(***************************************************************************)
EXTENDS Sequences

CONSTANT Destinos   \* address ids; 0 is not one

VARIABLES
  fase,      \* where the conversation is
  oferta,    \* the registered address on display, 0 for one just typed in
  destino,   \* the address being charged for, 0 outside the charging phase
  vendas     \* the orders made, in order

vars == <<fase, oferta, destino, vendas>>

Init ==
  /\ fase = "comprando"
  /\ oferta = 0
  /\ destino = 0
  /\ vendas = << >>

(* From any phase the client may go back to buying or restart.             *)
Comprar ==
  /\ fase' = "comprando" /\ oferta' = 0 /\ destino' = 0
  /\ UNCHANGED vendas

PedirEndereco ==
  /\ fase' = "endereco" /\ oferta' = 0 /\ destino' = 0
  /\ UNCHANGED vendas

Mostrar(e) ==
  /\ fase' = "confirmacao" /\ oferta' = e /\ destino' = 0
  /\ UNCHANGED vendas

Cobrar(e) ==
  /\ fase = "confirmacao"
  /\ e \in Destinos /\ oferta \in {0, e}
  /\ fase' = "pagamento" /\ oferta' = 0 /\ destino' = e
  /\ UNCHANGED vendas

Vender ==
  /\ fase = "pagamento"
  /\ vendas' = Append(vendas, [destino |-> destino, quitada |-> TRUE])
  /\ fase' = "comprando" /\ oferta' = 0 /\ destino' = 0

VenderNoBalcao ==
  /\ vendas' = Append(vendas, [destino |-> 0, quitada |-> FALSE])
  /\ \/ fase' = "comprando" /\ oferta' = 0 /\ destino' = 0
     \/ UNCHANGED <<fase, oferta, destino>>

Next ==
  \/ Comprar
  \/ PedirEndereco
  \/ \E e \in Destinos \cup {0} : Mostrar(e) \/ Cobrar(e)
  \/ Vender
  \/ VenderNoBalcao

Spec == Init /\ [][Next]_vars
=============================================================================
