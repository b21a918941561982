-------------------------- MODULE Representations ---------------------------
(***************************************************************************)
(* Two data structures that keep what they hold in several forms, each run *)
(* by itself: a query container (Query/Container.hpp) and a text corpus    *)
(* (Data/Corpus.hpp).  A behaviour is one of the part that is chosen at    *)
(* its beginning; the variables of the other part stay as they begin.      *)
(***************************************************************************)
EXTENDS QueryContainer, Corpus

CONSTANT Parts   \* the parts that are run

VARIABLE part

allVars == <<part, vars, corpusVars>>

-----------------------------------------------------------------------------

RepresentationsInit == part \in Parts /\ Init /\ CorpusInit

RepresentationsNext ==
  \/ part = "container" /\ Next /\ UNCHANGED <<part, corpusVars>>
  \/ part = "corpus" /\ CorpusNext /\ UNCHANGED <<part, vars>>

RepresentationsSpec == RepresentationsInit /\ [][RepresentationsNext]_allVars
=============================================================================
