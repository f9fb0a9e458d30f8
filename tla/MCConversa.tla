----------------------------- MODULE MCConversa -----------------------------
EXTENDS Conversa

CONSTANTS m1, m2, ini

MCMensagens == {m1, m2}

(* The second message may be spoken, to the provider that fails most ways. *)
MCChegada == [m \in MCMensagens |-> IF m = m1 THEN {"texto"}
                                             ELSE {"texto", "audio"}]
MCConfigurado == [texto |-> "groq", audio |-> "gemini", imagem |-> "groq"]
=============================================================================
