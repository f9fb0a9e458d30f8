SPECIFICATION Spec
CONSTANTS
  ana = ana
  bia = bia
  caio = caio
  Operadores <- TresOperadores
  Falhas <- TodasAsFalhas
SYMMETRY Simetria
INVARIANTS
  TypeOK
  NaoPulaEtapa
  PagoExigeEntrega
  UmAviso
  EntregaQuita
