--------------------------- MODULE MCAtendimento ---------------------------
(***************************************************************************)
(* Messages and goroutines for TLC, with the times of the code in ticks of *)
(* ten minutes.                                                            *)
(***************************************************************************)
EXTENDS Atendimento

CONSTANTS m1, m2, g1, g2

DuasMensagens == {m1, m2}
DuasChamadas == {g1, g2}

TodasAsFalhas == TiposDeFalha
=============================================================================
