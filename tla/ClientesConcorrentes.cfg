SPECIFICATION Spec
CONSTANTS
  c1 = c1
  c2 = c2
  c3 = c3
  Chamadas <- MCChamadas
  Nomes <- MCNomes
  Semelhantes <- MCSemelhantes
  MaxClientes = 2
  MaxEnderecos = 2
  MaxInicios = 5
SYMMETRY Simetria
CHECK_DEADLOCK FALSE
INVARIANTS
  TypeOK
  UmPrincipal
  PrincipalPermanece
PROPERTIES
  SoMudaOQuePede
  ApagadoNaoVolta
