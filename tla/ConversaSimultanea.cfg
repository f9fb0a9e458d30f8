SPECIFICATION Spec
CONSTANTS
  m1 = m1
  m2 = m2
  ini = ini
  Mensagens <- MCMensagens
  Inicial <- ini
  MaxTentativas = 3
  Chegada <- MCChegada
  Configurado <- MCConfigurado
CHECK_DEADLOCK FALSE
INVARIANTS
  TypeOK
  UmPedidoPorItem
  ResumoChega
PROPERTIES
  ItemSaiComCausa
  TodaTermina
