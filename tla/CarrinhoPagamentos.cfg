SPECIFICATION Spec
CONSTANTS
  x = x
  din = din
  pix = pix
  Produtos <- MCProdutos
  Preco <- MCPreco
  MaxQtd = 2
  Formas <- MCFormas
  Dinheiro <- MCDinheiro
  Nenhuma = Nenhuma
  SemTroco = SemTroco
  Tolerancia = 1
  Centena = 4
  Valores <- MCValores
  MaxEnderecos = 1
  MaxPedidos = 1
  Falhas <- SemPerderPagamentos
INVARIANTS
  TypeOK
  ContaFecha
  EntregaQuitada
PROPERTIES
  RecusaTemCausa
  ImplementaCheckout
