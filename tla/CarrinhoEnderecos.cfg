SPECIFICATION Spec
CONSTANTS
  x = x
  din = din
  pix = pix
  Produtos <- MCProdutos
  Preco <- MCPreco
  MaxQtd = 1
  Formas <- MCFormas
  Dinheiro <- MCDinheiro
  Nenhuma = Nenhuma
  SemTroco = SemTroco
  Tolerancia = 1
  Centena = 4
  Valores <- MCValores
  MaxEnderecos = 3
  MaxPedidos = 1
  Falhas <- TodasAsFalhas
INVARIANTS
  ConfirmacaoCoerente
  CobrancaTemEndereco
PROPERTIES
  EntregaConfirmada
