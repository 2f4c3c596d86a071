----------------------------- MODULE MCLLMRouter -----------------------------
(* Lanes and budgets for the run of LLMRouter. *)
EXTENDS LLMRouter

\* Two keys on the first provider, none on the second.
ThreeLanes == << [keys |-> 2, budget |-> "groq"], [keys |-> 0, budget |-> "gemini"],
                 [keys |-> 1, budget |-> "cerebras"] >>
ThreeCaps  == [groq |-> 1, cerebras |-> 1]
=============================================================================
