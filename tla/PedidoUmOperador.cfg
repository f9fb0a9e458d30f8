SPECIFICATION Spec
CONSTANTS
  ana = ana
  bia = bia
  caio = caio
  Operadores <- UmOperador
  Falhas <- TodasAsFalhas
PROPERTIES
  ImplementaCiclo
