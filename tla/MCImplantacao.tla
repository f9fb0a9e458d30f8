--------------------------- MODULE MCImplantacao ---------------------------
(* Two runs of the migrator over the databases the repository's scripts    *)
(* make, one order, and environments that differ in what ValidateLLM and   *)
(* the factory look at.                                                    *)
EXTENDS Implantacao

CONSTANTS m1, m2, p1

MCMigradores == {m1, m2}
MCPedidos == {p1}

Scripts == {"tenants", "categorias", "produtos", "pedidos"}

(* mcp_server_openerp.sql, mcp_server_openerp_dump.sql, and nothing.       *)
MCBancos ==
  {[tabelas |-> Scripts, colunas |-> {}, numeros |-> {}, permite |-> Legado,
    indices |-> {"idx_produtos_tenant_disponivel"}, versao |-> 0],
   [tabelas |-> Scripts \cup {"formas_pagamento", "pedido_pagamentos"},
    colunas |-> ToSet(Colunas), numeros |-> SemNumero, permite |-> Legado,
    indices |-> ToSet(Indices), versao |-> 6],
   [tabelas |-> {}, colunas |-> {}, numeros |-> {}, permite |-> Legado,
    indices |-> {}, versao |-> 0]}

Ambiente(t, a, v, groq, gemini) ==
  [texto |-> t, audio |-> a, visao |-> v,
   chave |-> [p \in Provedores |-> CASE p = "groq" -> groq
                                     [] p = "gemini" -> gemini
                                     [] OTHER -> Vazia]]

MCConfigs ==
  {Ambiente("groq", "groq", "gemini", "k", "k"),
   Ambiente("groq", "groq", "gemini", "k", Vazia),
   Ambiente("groq", "groq", "gemini", Branca, "k"),
   Ambiente(Vazia, "groq", "outro", "k", "k")}
=============================================================================
