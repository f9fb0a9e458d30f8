SPECIFICATION Spec
CONSTANTS
  m1 = m1
  m2 = m2
  p1 = p1
  Migradores <- MCMigradores
  Pedidos <- MCPedidos
  Bancos <- MCBancos
  Configs <- MCConfigs
INVARIANTS
  StatusPreservado
  FalhaTemCausa
  ServidorPronto
