SPECIFICATION Spec
CONSTANTS
  p1 = p1
  p2 = p2
  e1 = e1
  e2 = e2
  e3 = e3
  Pedidos <- MCPedidos
  Chaves <- MCChaves
  Sobrescritas <- MCSobrescritas
  Padrao = 2
  Janela = 1
  Entradas <- MCEntradas
  MaxTempo = 5
INVARIANTS
  TypeOK
  LimiteRespeitado
PROPERTIES
  NegaComRazao
  TodoPedidoResponde
