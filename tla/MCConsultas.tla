---------------------------- MODULE MCConsultas ----------------------------
EXTENDS Consultas, TLC

CONSTANTS l1, e1, e2, t1, t2, f1, f2

MCLeitores == {l1}
MCEscritores == {e1, e2}
MCTenants == {t1, t2}
MCFones == {f1, f2}
MCPrefixos == {<<t1, t2>>}
MCAbertas == {t1}
MCEntradas ==
  {[tipo |-> "produto", t |-> t1, novo |-> [preco |-> 2, disponivel |-> TRUE]],
   [tipo |-> "excluir", t |-> t1],
   [tipo |-> "disponibilidade", t |-> t1, novo |-> FALSE],
   [tipo |-> "apagarTenant", t |-> t1],
   [tipo |-> "mudarTenant", t |-> t1, novo |-> [fone |-> f1, ativo |-> FALSE]],
   [tipo |-> "mudarTenant", t |-> t1, novo |-> [fone |-> f2, ativo |-> TRUE]],
   [tipo |-> "criarTenant", t |-> t2, novo |-> [fone |-> f1, ativo |-> TRUE]]}
=============================================================================
