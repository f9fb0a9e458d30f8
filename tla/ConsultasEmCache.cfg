SPECIFICATION Spec
CONSTANTS
  l1 = l1
  e1 = e1
  e2 = e2
  t1 = t1
  t2 = t2
  f1 = f1
  f2 = f2
  Leitores <- MCLeitores
  Escritores <- MCEscritores
  Tenants <- MCTenants
  Fones <- MCFones
  Prefixos <- MCPrefixos
  MaxPreco = 2
  Abertas <- MCAbertas
  Entradas <- MCEntradas
  MaxEscritas = 2
INVARIANTS
  TypeOK
  EntradaVelhaTemCausa
PROPERTIES
  Converge
  SoDisponibilidade
