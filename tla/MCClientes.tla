----------------------------- MODULE MCClientes -----------------------------
EXTENDS Clientes, TLC

CONSTANTS c1, c2, c3

MCChamadas == {c1, c2, c3}
MCNomes == {SemNome, "ana", "aninha"}
MCSemelhantes == {{"ana", "aninha"}}
Simetria == Permutations(MCChamadas)
=============================================================================
