--------------------------- MODULE MCModelRouter ----------------------------
(***************************************************************************)
(* ModelRouter with the settings' default models.  Two roles that share a  *)
(* schema, with different preferences; their agents run side by side.      *)
(***************************************************************************)
EXTENDS ModelRouter

Reviews == {[role |-> "deep_reasoning", schema |-> "FindingsBatch"],
            [role |-> "broad_review",   schema |-> "FindingsBatch"]}

\* Anthropic may report the dated name of its model, which PRICE_TABLE has not.
DefaultNames == [anthropic |-> {"claude-sonnet-4-5", "claude-sonnet-4-5-20250929"},
                 google |-> {"gemini-2.5-flash"}, ollama |-> {"llama3.1"}]
AllNames == UNION {DefaultNames[p] : p \in Providers}
WordsOf ==
  [m \in AllNames \cup {"unknown"} |->
     IF m \in DefaultNames.anthropic THEN {"claude"}
     ELSE IF m \in DefaultNames.google THEN {"gemini"} ELSE {}]
OneRetry == [anthropic |-> 1, google |-> 0, ollama |-> 0]
=============================================================================
