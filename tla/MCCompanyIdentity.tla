-------------------------- MODULE MCCompanyIdentity --------------------------
(* Names that agree in lower case, in their slug only, or not at all. *)
EXTENDS CompanyIdentity

\* "Acme Inc" and "acme inc" differ in case, "Acme-Inc" has their slug;
\* "acme, inc?" is an idea with their slug, "walk dogs" an idea that may be
\* named "your venture" or "Acme Inc".
SomeNames == {"Acme Inc", "acme inc", "Acme-Inc", "your venture", "acme, inc?", "walk dogs"}
SomeIdeas == {"acme, inc?", "walk dogs"}
SomePosts == SomeNames \ {"your venture"}
SomeSlug  == [n \in SomeNames |->
                CASE n = "your venture" -> "your-venture"
                  [] n = "walk dogs"    -> "walk-dogs"
                  [] OTHER              -> "acme-inc"]
SomeLower == [n \in SomeNames |->
                CASE n = "Acme Inc" -> "acme inc"
                  [] n = "Acme-Inc" -> "acme-inc"
                  [] OTHER          -> n]

\* Two ideas for which no model answers, so that both take the default name.
TwoIdeas   == {"walk dogs", "sell kites"}
IdeaNames  == TwoIdeas \cup {"your venture"}
IdeaSlug   == [n \in IdeaNames |->
                 CASE n = "walk dogs"  -> "walk-dogs"
                   [] n = "sell kites" -> "sell-kites"
                   [] OTHER            -> "your-venture"]
IdeaLower  == [n \in IdeaNames |-> n]
=============================================================================
