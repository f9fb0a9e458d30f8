SPECIFICATION Spec
CONSTANTS
  ana = ana
  bia = bia
  caio = caio
  Operadores <- DoisOperadores
  Falhas <- NenhumaFalha
PROPERTIES
  SemRetrocesso
