----------------------------- MODULE Provedores -----------------------------
(***************************************************************************)
(* What a call to an LLM provider can come to.  A client posts the prompt, *)
(* the audio or the image to its provider and takes the first answer out   *)
(* of what comes back:                                                     *)
(*   texto    an answer, whatever it says                                  *)
(*   ocupado  an error whose text asks for another attempt (429, 5xx, ...) *)
(*   erro     any other: no connection, 4xx, no choices, not supported     *)
(*   panico   an answer of another shape than the code indexes             *)
(* TextLLM, AudioLLM and VisionLLM are one provider each, chosen by        *)
(* LLM_TEXT, LLM_AUDIO and LLM_VISION.                                     *)
(***************************************************************************)

CONSTANT Configurado   \* [texto, audio, imagem]: the provider of each

Meios == {"texto", "audio", "imagem"}

Posta == {"texto", "ocupado", "erro"}   \* an HTTP call and its status
SemSuporte == {"erro"}

(* Candidates is looked at before it is indexed, Parts only for text.      *)
GeminiLLM == [texto |-> Posta, audio |-> Posta \cup {"panico"},
              imagem |-> Posta \cup {"panico"}]

GroqLLM == [texto |-> Posta, audio |-> Posta, imagem |-> SemSuporte]

OpenAILLM == [texto |-> Posta, audio |-> SemSuporte, imagem |-> SemSuporte]

DeepSeekLLM == [texto |-> Posta, audio |-> SemSuporte, imagem |-> SemSuporte]

(* UnifiedLLM hands each kind of call to its own client.                   *)
UnifiedLLM(meio) ==
  CASE Configurado[meio] = "gemini"   -> GeminiLLM[meio]
    [] Configurado[meio] = "groq"     -> GroqLLM[meio]
    [] Configurado[meio] = "openai"   -> OpenAILLM[meio]
    [] Configurado[meio] = "deepseek" -> DeepSeekLLM[meio]
    [] OTHER                          -> SemSuporte   \* a nil client

(* DownloadMedia: two GETs, of the address and of the data.  When one      *)
(* fails the message goes on without data, and the service refuses it.     *)
DownloadMedia == {"dados", "vazio"}

(* ObterTextoBase: a text is taken as it is.                               *)
ObterTextoBase(meio) ==
  IF meio = "texto" THEN {"texto"}
  ELSE UNION {IF d = "vazio" THEN {"erro"} ELSE UnifiedLLM(meio) :
              d \in DownloadMedia}
=============================================================================
