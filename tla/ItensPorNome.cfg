SPECIFICATION Spec
CONSTANTS
  Cardapios <- MCCardapios
  Palavras <- MCPalavras
  Dentro <- MCDentro
  Longas <- MCLongas
  Keywords <- MCKeywords
  Quantidades <- MCQuantidades
  MaxReduzido = 2
  MaxItens = 2
  MaxQtd = 3
INVARIANT ValidadoPorId
