--------------------------- MODULE MCAnalysisGraph ---------------------------
(* Small sets of results for the runs of AnalysisGraph. *)
EXTENDS AnalysisGraph, TLC

CONSTANTS news1, product1, review1, u1, u2

\* An item of news, a product rollup whose model had doubts, and a review
\* whose sources were not among the pages searched.
SomeIntel   == {news1, product1, review1}
SomeAgents  == news1 :> "news" @@ product1 :> "product" @@ review1 :> "review"
SomeSources == news1 :> {u1} @@ product1 :> {u1, u2} @@ review1 :> {}
SomeLow     == {product1}

\* A result of one source and another one, for two runs at once.
FewIntel   == {news1, product1}
FewAgents  == news1 :> "news" @@ product1 :> "product"
FewSources == news1 :> {u1} @@ product1 :> {u2}
FewLow     == {}
=============================================================================
