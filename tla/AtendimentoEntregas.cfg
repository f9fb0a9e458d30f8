SPECIFICATION Spec
CONSTANTS
  m1 = m1
  m2 = m2
  g1 = g1
  g2 = g2
  Mensagens <- DuasMensagens
  Nenhuma = Nenhuma
  Chamadas <- DuasChamadas
  MaxEntregas = 2
  DuracaoHumano = 3
  DuracaoAlerta = 1
  Espera = 1
  Falhas <- TodasAsFalhas
CHECK_DEADLOCK FALSE
INVARIANTS
  TypeOK
  EfeitoUnico
  BotCala
  AlertaDesteAtendimento
PROPERTIES
  TodaTratada
