--------------------------- MODULE MCQuizRouter ---------------------------
(* A small instance of QuizRouter: the API key asked in parts of one slot,  *)
(* Ollama in parts of two with one call at a time.                          *)
EXTENDS QuizRouter

MCProviders == <<"gemini_api_key", "ollama">>
MCBatchSize == [p \in {"gemini_api_key", "gemini_oauth", "ollama"} \cap Range(MCProviders) |->
                  IF p = "ollama" THEN 2 ELSE 1]
MCConcurrency == [p \in Range(MCProviders) |-> 1]
============================================================================
